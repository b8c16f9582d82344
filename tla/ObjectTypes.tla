---------------------------- MODULE ObjectTypes ----------------------------
(***************************************************************************)
(* The interfaces of GAP objects, which TypeScript code reads and writes   *)
(* objects at (cdro.ts, capabilities.ts, receipts.ts, workflows.ts,        *)
(* channels.ts, revocations.ts, perimeter.ts), as tables.  They are        *)
(* written apart from the validators, and nothing but the compiler knows   *)
(* them: a member `f: T` is a row that needs f, `f?: T` one that does not. *)
(***************************************************************************)
EXTENDS ObjectFields

GapCdroEnvelope ==
  requireField("envelope", {"oid", "tenant_id", "created_by"}, Str)
    \sqcup requireField("envelope", {"type", "gap_version"}, Listed)
    \sqcup requireField("envelope", {"created_at_ms"}, isNumber)
    \sqcup requireField("envelope", {"body"}, isObject)
    \sqcup optionalField("envelope", {"signature", "signature_key_id", "supersedes",
                                      "receipt_scheme"}, Str)

CapabilityPredicate(at) ==
  requireField(at, {"kind"}, Str) \sqcup requireField(at, {"args"}, isObject)

DelegationStep(at) ==
  requireField(at, {"delegator_actor_oid", "delegatee_actor_oid", "grant_oid",
                    "step_signature", "step_signature_alg"}, Str)
    \sqcup requireField(at, {"step_index", "delegated_at_ms"}, isNumber)
    \sqcup optionalField(at, {"prior_receipt_oid"}, Str)

OrchestrationChainBody ==
  requireField("body", {"root_actor_oid", "capability_name", "final_invocation_oid"}, Str)
    \sqcup requireField("body", {"steps"}, Objects)
    \sqcup DelegationStep("steps")

McpToolCallContext ==
  requireField("mcp_tool_call", {"server_id", "tool_name"}, Str)
    \sqcup optionalField("mcp_tool_call", {"tool_schema_hash"}, Str)

ConsentRecordBody ==
  requireField("body", {"actor_oid", "tenant_id", "context"}, Str)
    \sqcup requireField("body", {"consented"}, isBoolean)
    \sqcup requireField("body", {"consented_at_ms"}, isNumber)
    \sqcup optionalField("body", {"prior_consent_oid", "consent_text_hash"}, Str)
    \sqcup optionalField("body", {"expires_at_ms"}, isNumber)

IdentityBinding ==
  requireField("identity_binding", {"credential_kind"}, Listed)
    \sqcup requireField("identity_binding", {"credential_identifier", "binding_signature",
                                             "binding_alg"}, Str)
    \sqcup requireField("identity_binding", {"bound_at_ms"}, isNumber)
    \sqcup optionalField("identity_binding", {"issuer"}, Str)
    \sqcup optionalField("identity_binding", {"expires_at_ms"}, isNumber)

PipResponseBody ==
  requireField("body", {"pip_endpoint", "request_args_hash", "response_body_hash"}, Str)
    \sqcup requireField("body", {"evaluated_at_ms", "cache_ttl_ms"}, isNumber)
    \sqcup optionalField("body", {"response_summary", "pip_signature", "pip_signature_alg"},
                         Str)

Capability ==
  requireField("capabilities", {"capability"}, Str)
    \sqcup optionalField("capabilities", {"scope"}, isObject)
    \sqcup optionalField("capabilities", {"preconditions"}, Objects)
    \sqcup optionalField("capabilities", {"safety_class"}, Listed)
    \sqcup optionalField("capabilities", {"physical_safety", "require_signed_receipt",
                                          "privilege_protected"}, isBoolean)
    \sqcup optionalField("capabilities", {"pii_args"}, Strings)
    \sqcup CapabilityPredicate("preconditions")

CapabilityDeclarationBody ==
  requireField("body", {"actor_type"}, Listed)
    \sqcup requireField("body", {"actor_id", "actor_name", "actor_version"}, Str)
    \sqcup requireField("body", {"capabilities"}, Objects)
    \sqcup optionalField("body", {"source_url", "parent_oid", "actor_instance_id",
                                  "human_summary", "compartment"}, Str)
    \sqcup optionalField("body", {"actor_lifecycle", "privacy_classification"}, Listed)
    \sqcup optionalField("body", {"session_expires_at_ms"}, isNumber)
    \sqcup optionalField("body", {"declared_limits", "identity_binding"}, isObject)
    \sqcup (optionalField("declared_limits", {"max_invocations_per_minute",
                                              "max_concurrent_invocations",
                                              "max_payload_bytes"}, isNumber)
          \sqcup optionalField("declared_limits", {"requires_network"}, isBoolean)
          \sqcup optionalField("declared_limits", {"requires_filesystem_read",
                                                   "requires_filesystem_write"}, Strings))
    \sqcup Capability \sqcup IdentityBinding

GrantedCapabilityScope ==
  requireField("capability_scopes", {"capability"}, Str)
    \sqcup optionalField("capability_scopes", {"capability_declaration_oid"}, Str)
    \sqcup optionalField("capability_scopes", {"scope_narrowing"}, isObject)
    \sqcup optionalField("capability_scopes", {"additional_preconditions"}, Objects)
    \sqcup optionalField("capability_scopes", {"require_signed_receipt"}, isBoolean)
    \sqcup CapabilityPredicate("additional_preconditions")

CapabilityGrantBody ==
  requireField("body", {"grantee"}, isObject)
    \sqcup requireField("body", {"capability_scopes"}, Objects)
    \sqcup requireField("body", {"granted_at_ms"}, isNumber)
    \sqcup requireField("body", {"expires_at_ms"}, Nullable(isNumber))
    \sqcup requireField("body", {"granted_by"}, Str)
    \sqcup (optionalField("body", {"limits"}, isObject)
          \sqcup optionalField("body", {"reason", "parent_grant_oid", "compartment"}, Str)
          \sqcup optionalField("body", {"evidence_oids"}, Strings)
          \sqcup optionalField("body", {"revocation_level_override"}, Level)
          \sqcup optionalField("body", {"require_signed_receipt", "break_glass",
                                        "break_glass_requires_reason"}, isBoolean)
          \sqcup optionalField("body", {"max_delegation_depth", "timestamp_window_seconds",
                                        "offline_grace_seconds", "max_grant_offline_ttl_ms",
                                        "max_revocation_bundle_age_ms", "break_glass_ttl_ms",
                                        "break_glass_max_invocations"}, isNumber))
    \sqcup ((requireField("grantee", {"actor_type"}, Listed)
                \sqcup requireField("grantee", {"actor_oid"}, Str)
                \sqcup optionalField("grantee", {"actor_session_id"}, Str))
          \sqcup (optionalField("limits", {"max_invocations_per_minute",
                                           "max_invocations_total",
                                           "max_payload_bytes"}, isNumber)
                \sqcup optionalField("limits", {"aggregate_limits"}, Objects)
                \sqcup optionalField("limits", {"aggregate_limit_group"}, Str))
          \sqcup (requireField("aggregate_limits", {"key"}, Str)
                \sqcup requireField("aggregate_limits", {"max", "window_seconds"}, isNumber))
          \sqcup GrantedCapabilityScope)

CapabilityInvocationBody ==
  requireField("body", {"caller", "args"}, isObject)
    \sqcup requireField("body", {"capability"}, Str)
    \sqcup optionalField("body", {"capability_declaration_oid", "idempotency_key",
                                  "compartment"}, Str)
    \sqcup optionalField("body", {"workflow_context", "sla_hint", "mcp_tool_call"}, isObject)
    \sqcup optionalField("body", {"invoked_at_ms", "client_event_ms", "queued_at_ms"}, isNumber)
    \sqcup optionalField("body", {"delegation_chain"}, Objects)
    \sqcup (requireField("caller", {"actor_type"}, Listed)
          \sqcup requireField("caller", {"actor_oid", "grant_oid"}, Str)
          \sqcup optionalField("caller", {"actor_session_id"}, Str))
    \sqcup requireField("workflow_context", {"workflow_instance_oid", "stage_id"}, Str)
    \sqcup (optionalField("sla_hint", {"max_latency_ms"}, isNumber)
          \sqcup optionalField("sla_hint", {"deferrable"}, isBoolean))
    \sqcup DelegationStep("delegation_chain") \sqcup McpToolCallContext

-----------------------------------------------------------------------------
(* Workflows and channels.  A kind of channel is any string. *)

StageAction(at) ==
  requireField(at, {"channel", "method"}, Str) \sqcup requireField(at, {"params"}, isObject)

StageTransitionTarget(at) ==
  optionalField(at, {"next_stage_id"}, Str) \sqcup optionalField(at, {"bind"}, isObject)

StageListen(at) ==
  requireField(at, {"channel"}, Str)
    \sqcup requireField(at, {"next"}, isObject)
    \sqcup optionalField(at, {"intent", "pattern", "event_kind", "required_from_binding"}, Str)
    \sqcup StageTransitionTarget("next")

OptionalEffect ==
  requireField("optional_effects", {"requires_capability"}, Str)
    \sqcup requireField("optional_effects", {"action"}, isObject)
    \sqcup optionalField("optional_effects", {"label"}, Str)
    \sqcup StageAction("action")

StageSafety ==
  requireField("safety", {"destructive"}, isBoolean)
    \sqcup optionalField("safety", {"resource_kind"}, Listed)
    \sqcup optionalField("safety", {"snapshot_adapter", "snapshot_resource_id",
                                    "rollback_workflow_oid"}, Str)
    \sqcup optionalField("safety", {"snapshot_config", "two_person"}, isObject)
    \sqcup optionalField("safety", {"cooldown_ms"}, isNumber)
    \sqcup optionalField("safety", {"cooldown_eligible_groups"}, Strings)
    \sqcup (requireField("two_person", {"required"}, isNumber)
          \sqcup optionalField("two_person", {"require_disjoint_groups"}, isBoolean)
          \sqcup optionalField("two_person", {"eligible_groups"}, Strings))

WorkflowStage ==
  requireField("stages", {"stage_id"}, Str)
    \sqcup optionalField("stages", {"duration_seconds"}, isNumber)
    \sqcup optionalField("stages", {"actions", "optional_effects", "listen"}, Objects)
    \sqcup optionalField("stages", {"authorized_approvers"}, Strings)
    \sqcup optionalField("stages", {"terminal"}, isBoolean)
    \sqcup optionalField("stages", {"terminal_outcome"}, Listed)
    \sqcup optionalField("stages", {"on_timeout", "on_action_failure", "invocation",
                                    "precondition", "safety"}, isObject)
    \sqcup (requireField("invocation", {"capability"}, Str)
          \sqcup requireField("invocation", {"args"}, isObject)
          \sqcup optionalField("invocation", {"on_success", "on_failure"}, isObject))
    \sqcup (StageTransitionTarget("on_timeout")
          \sqcup StageTransitionTarget("on_action_failure")
          \sqcup StageTransitionTarget("on_success") \sqcup StageTransitionTarget("on_failure"))
    \sqcup (StageAction("actions") \sqcup OptionalEffect \sqcup StageListen("listen")
          \sqcup CapabilityPredicate("precondition") \sqcup StageSafety)

WorkflowTrigger ==
  requireField("trigger", {"kind"}, Listed)
    \sqcup optionalField("trigger", {"risk_class"}, Listed)
    \sqcup optionalField("trigger", {"action_class", "action_type_pattern",
                                     "capability_pattern", "cron"}, Str)

WorkflowDefinitionBody ==
  requireField("body", {"workflow_id", "workflow_name", "workflow_version",
                        "initial_stage_id"}, Str)
    \sqcup requireField("body", {"trigger"}, isObject)
    \sqcup requireField("body", {"stages"}, Objects)
    \sqcup requireField("body", {"required_channels"}, Strings)
    \sqcup requireField("body", {"max_total_duration_seconds"}, isNumber)
    \sqcup optionalField("body", {"description", "cleanup_stage_id"}, Str)
    \sqcup optionalField("body", {"optional_channels"}, Strings)
    \sqcup optionalField("body", {"requires_operator_approval"}, isBoolean)
    \sqcup WorkflowTrigger \sqcup WorkflowStage

WorkflowInstanceBody ==
  requireField("body", {"workflow_definition_oid", "workflow_id", "current_stage_id"}, Str)
    \sqcup requireField("body", {"trigger_event", "scope_variables"}, isObject)
    \sqcup requireField("body", {"started_at_ms", "last_transition_at_ms"}, isNumber)
    \sqcup requireField("body", {"terminated_at_ms"}, Nullable(isNumber))
    \sqcup requireField("body", {"terminal_outcome"}, Nullable(Listed))
    \sqcup requireField("body", {"active_channel_listeners"}, Objects)
    \sqcup requireField("body", {"transition_oids"}, Strings)
    \sqcup optionalField("body", {"final_receipt_oid"}, Str)
    \sqcup (requireField("trigger_event", {"kind"}, Listed)
          \sqcup requireField("trigger_event", {"source_actor_oid"}, Str)
          \sqcup optionalField("trigger_event", {"source_invocation_oid",
                                                 "source_risk_policy_id"}, Str))
    \sqcup (requireField("active_channel_listeners", {"channel"}, Str)
          \sqcup requireField("active_channel_listeners", {"listen_spec"}, isObject)
          \sqcup requireField("active_channel_listeners", {"started_at_ms"}, isNumber))
    \sqcup StageListen("listen_spec")

StageTransitionBody ==
  requireField("body", {"workflow_instance_oid", "from_stage_id", "to_stage_id"}, Str)
    \sqcup requireField("body", {"previous_transition_oid"}, Nullable(Str))
    \sqcup requireField("body", {"trigger_reason"}, Listed)
    \sqcup requireField("body", {"bind_outputs"}, isObject)
    \sqcup requireField("body", {"transitioned_at_ms"}, isNumber)
    \sqcup optionalField("body", {"triggering_event_oid", "triggering_invocation_oid"}, Str)

ChannelEventBody ==
  requireField("body", {"channel", "event_kind"}, Str)
    \sqcup requireField("body", {"payload"}, isObject)
    \sqcup requireField("body", {"observed_at_ms"}, isNumber)
    \sqcup optionalField("body", {"workflow_instance_oid", "stage_id"}, Str)

-----------------------------------------------------------------------------
(* Receipts, revocations, perimeters *)

TokenConsumption ==
  requireField("token_consumption", {"input_tokens", "output_tokens", "settled_at_ms"},
               isNumber)
    \sqcup requireField("token_consumption", {"model"}, Str)
    \sqcup optionalField("token_consumption", {"cost_usd"}, isNumber)

MeasuredResult ==
  optionalField("measured", {"cost_micro_usd", "latency_ms"}, isNumber)
    \sqcup optionalField("measured", {"provider_ran", "counterparty", "upstream_ref"}, Str)

DecisionStatus == Listed \cup RateLimited

GapDecisionReceiptBody ==
  requireField("body", {"subject_kind"}, Listed)
    \sqcup requireField("body", {"status"}, DecisionStatus)
    \sqcup requireField("body", {"subject_oid"}, Str)
    \sqcup requireField("body", {"initiator"}, isObject)
    \sqcup requireField("body", {"initiated_at_ms", "resolved_at_ms"}, isNumber)
    \sqcup (optionalField("body", {"detail", "workflow_instance_oid", "workflow_stage_id",
                                   "inference_receipt_oid"}, Str)
          \sqcup optionalField("body", {"capability_grant_oids", "channel_event_oids",
                                        "compliance_tags"}, Strings)
          \sqcup optionalField("body", {"metrics", "signer_identity", "token_consumption",
                                        "measured"}, isObject)
          \sqcup optionalField("body", {"is_idempotency_replay"}, isBoolean)
          \sqcup optionalField("body", {"client_claimed_at_ms", "max_offline_ttl_ms",
                                        "sequence_number", "decided_at_ns"}, isNumber))
    \sqcup (requireField("initiator", {"actor_oid"}, Str)
          \sqcup requireField("initiator", {"actor_type"}, Listed))
    \sqcup optionalField("metrics", {"latency_ms", "channel_count", "listen_match_count"},
                         isNumber)
    \sqcup (requireField("signer_identity", {"display_name"}, Str)
          \sqcup optionalField("signer_identity", {"role", "credential_id"}, Str))
    \sqcup TokenConsumption \sqcup MeasuredResult

RevocationEventBody ==
  requireField("body", {"target_kind"}, Listed)
    \sqcup requireField("body", {"target_oid", "reason"}, Str)
    \sqcup requireField("body", {"required_level"}, Level)
    \sqcup requireField("body", {"provisional"}, isBoolean)
    \sqcup requireField("body", {"approvers"}, Objects)
    \sqcup requireField("body", {"effective_at_ms"}, Nullable(isNumber))
    \sqcup optionalField("body", {"evidence_oids"}, Strings)
    \sqcup optionalField("body", {"public_notice_started_at_ms", "public_notice_window_ms",
                                  "min_approvers"}, isNumber)
    \sqcup optionalField("body", {"lifted_at_ms"}, Nullable(isNumber))
    \sqcup optionalField("body", {"provisional_block_policy"}, isObject)
    \sqcup (requireField("approvers", {"actor_oid"}, Str)
          \sqcup requireField("approvers", {"approved_at_ms"}, isNumber)
          \sqcup requireField("approvers", {"cooling_off_satisfied"}, isBoolean)
          \sqcup optionalField("approvers", {"attestation_oid"}, Str))
    \sqcup (requireField("provisional_block_policy", {"on_expiry_without_quorum"}, Listed)
          \sqcup optionalField("provisional_block_policy", {"provisional_block_ttl_ms"},
                               isNumber))

PerimeterDeclarationBody ==
  requireField("body", {"schema"}, Listed)
    \sqcup requireField("body", {"governed_subject", "completeness_scope"}, isObject)
    \sqcup requireField("body", {"chokepoints_active", "blind_spots"}, Objects)
    \sqcup requireField("body", {"effective_from_ms"}, isNumber)
    \sqcup optionalField("body", {"effective_to_ms"}, isNumber)
    \sqcup optionalField("body", {"prev"}, Str)
    \sqcup (requireField("governed_subject", {"platform", "workspace_id"}, Str)
          \sqcup optionalField("governed_subject", {"repl_id", "deployment_id"}, Str))
    \sqcup (requireField("chokepoints_active", {"class"}, Classes)
          \sqcup requireField("chokepoints_active", {"enforcement"}, Qualities)
          \sqcup requireField("chokepoints_active", {"surface"}, Str)
          \sqcup optionalField("chokepoints_active", {"evidence_ref"}, Str))
    \sqcup (requireField("blind_spots", {"surface", "reason"}, Str)
          \sqcup requireField("blind_spots", {"class_unavailable"}, Classes))
    \sqcup (requireField("completeness_scope", {"populations"}, Strings)
          \sqcup requireField("completeness_scope", {"from_seq", "to_seq"}, isNumber))

-----------------------------------------------------------------------------

Interface ==
  [capability_declaration |-> GapCdroEnvelope \sqcup CapabilityDeclarationBody,
   capability_grant |-> GapCdroEnvelope \sqcup CapabilityGrantBody,
   capability_invocation |-> GapCdroEnvelope \sqcup CapabilityInvocationBody,
   workflow_definition |-> GapCdroEnvelope \sqcup WorkflowDefinitionBody,
   workflow_instance |-> GapCdroEnvelope \sqcup WorkflowInstanceBody,
   stage_transition |-> GapCdroEnvelope \sqcup StageTransitionBody,
   channel_event |-> GapCdroEnvelope \sqcup ChannelEventBody,
   decision_receipt |-> GapCdroEnvelope \sqcup GapDecisionReceiptBody,
   revocation_event |-> GapCdroEnvelope \sqcup RevocationEventBody,
   orchestration_chain |-> GapCdroEnvelope \sqcup OrchestrationChainBody,
   consent_record |-> GapCdroEnvelope \sqcup ConsentRecordBody,
   pip_response |-> GapCdroEnvelope \sqcup PipResponseBody,
   perimeter_declaration |-> GapCdroEnvelope \sqcup PerimeterDeclarationBody]

=============================================================================

---------------------------- MODULE ObjectShapes ----------------------------
(***************************************************************************)
(* The validators of GAP objects, in TypeScript (src/validate.ts) and in   *)
(* Python (synoi_gap/validate.py), as tables.  Neither keeps any state: a  *)
(* validator goes over the fields it knows, asks whether each that it      *)
(* needs is there and whether each that is there is of a kind it takes,    *)
(* and descends into objects and arrays.  A row of a table is one such     *)
(* question.                                                               *)
(***************************************************************************)
EXTENDS ObjectTypes

-----------------------------------------------------------------------------
(* TypeScript *)

validateEnvelopeShape ==
  requireField("envelope", {"oid", "type", "gap_version"}, Listed)
    \sqcup requireField("envelope", {"tenant_id", "created_by"}, Str)
    \sqcup requireField("envelope", {"created_at_ms"}, isInteger)
    \sqcup requireField("envelope", {"body"}, isObject)
    \sqcup optionalField("envelope", {"signature", "signature_key_id", "supersedes"}, Str)

validatePredicateArray(at) ==
  requireField(at, {"kind"}, Str) \sqcup requireField(at, {"args"}, isObject)

validateDelegationStep(at) ==
  requireField(at, {"step_index"}, NonNegative)
    \sqcup requireField(at, {"delegator_actor_oid", "delegatee_actor_oid", "grant_oid"}, Str)
    \sqcup requireField(at, {"delegated_at_ms"}, isInteger)
    \sqcup requireField(at, {"step_signature", "step_signature_alg"}, NonEmpty)
    \sqcup optionalField(at, {"prior_receipt_oid"}, Str)

validateOrchestrationChainBody ==
  requireField("body", {"root_actor_oid", "capability_name", "final_invocation_oid"}, Str)
    \sqcup requireField("body", {"steps"}, UpToTen)
    \sqcup validateDelegationStep("steps")

validateConsentRecordBodyChained ==  \* mutant: a first consent has no prior one
  requireField("body", {"actor_oid", "context"}, NonEmpty)
    \sqcup requireField("body", {"tenant_id", "prior_consent_oid"}, Str)
    \sqcup requireField("body", {"consented"}, isBoolean)
    \sqcup requireField("body", {"consented_at_ms"}, isInteger)
    \sqcup optionalField("body", {"consent_text_hash"}, Str)
    \sqcup optionalField("body", {"expires_at_ms"}, isInteger)
validateConsentRecordBody ==
  requireField("body", {"actor_oid", "context"}, NonEmpty)
    \sqcup requireField("body", {"tenant_id"}, Str)
    \sqcup requireField("body", {"consented"}, isBoolean)
    \sqcup requireField("body", {"consented_at_ms"}, isInteger)
    \sqcup optionalField("body", {"prior_consent_oid", "consent_text_hash"}, Str)
    \sqcup optionalField("body", {"expires_at_ms"}, isInteger)

validatePipResponseBody ==
  requireField("body", {"pip_endpoint", "request_args_hash", "response_body_hash"}, NonEmpty)
    \sqcup requireField("body", {"evaluated_at_ms"}, isInteger)
    \sqcup requireField("body", {"cache_ttl_ms"}, NonNegative)
    \sqcup optionalField("body", {"response_summary", "pip_signature", "pip_signature_alg"},
                         Str)

validateGovernedSubject ==
  requireField("governed_subject", {"platform", "workspace_id"}, NonEmpty)
    \sqcup optionalField("governed_subject", {"repl_id", "deployment_id"}, Str)

validateCompletenessScope ==
  requireField("completeness_scope", {"populations"}, Strings)
    \sqcup requireField("completeness_scope", {"from_seq", "to_seq"}, NonNegative)

validateChokepoint ==
  requireField("chokepoints_active", {"class"}, Classes)
    \sqcup requireField("chokepoints_active", {"surface"}, NonEmpty)
    \sqcup requireField("chokepoints_active", {"enforcement"}, Qualities)
    \sqcup optionalField("chokepoints_active", {"evidence_ref"}, Listed)

validateBlindSpot ==
  requireField("blind_spots", {"surface", "reason"}, NonEmpty)
    \sqcup requireField("blind_spots", {"class_unavailable"}, Classes)

validatePerimeterDeclarationBody ==
  requireField("body", {"schema"}, Listed)
    \sqcup requireField("body", {"governed_subject", "completeness_scope"}, isObject)
    \sqcup requireField("body", {"chokepoints_active", "blind_spots"}, Objects)
    \sqcup requireField("body", {"effective_from_ms"}, isInteger)
    \sqcup optionalField("body", {"effective_to_ms"}, isInteger)
    \sqcup optionalField("body", {"prev"}, Listed)
    \sqcup validateGovernedSubject \sqcup validateCompletenessScope
    \sqcup validateChokepoint \sqcup validateBlindSpot

validateCapability ==
  requireField("capabilities", {"capability"}, Str)
    \sqcup optionalField("capabilities", {"scope"}, isObject)
    \sqcup optionalField("capabilities", {"preconditions"}, Objects)
    \sqcup optionalField("capabilities", {"safety_class"}, Listed)
    \sqcup optionalField("capabilities", {"physical_safety", "require_signed_receipt",
                                          "privilege_protected"}, isBoolean)
    \sqcup optionalField("capabilities", {"pii_args"}, Strings)
    \sqcup validatePredicateArray("preconditions")

validateIdentityBinding ==
  requireField("identity_binding", {"credential_kind"}, Listed)
    \sqcup requireField("identity_binding", {"credential_identifier", "binding_signature",
                                             "binding_alg"}, NonEmpty)
    \sqcup requireField("identity_binding", {"bound_at_ms"}, isInteger)
    \sqcup optionalField("identity_binding", {"issuer"}, Str)
    \sqcup optionalField("identity_binding", {"expires_at_ms"}, isInteger)

validateCapabilityDeclarationBody ==
  requireField("body", {"actor_type"}, Listed)
    \sqcup requireField("body", {"actor_id", "actor_name", "actor_version"}, Str)
    \sqcup requireField("body", {"capabilities"}, Objects)
    \sqcup optionalField("body", {"source_url", "parent_oid", "human_summary",
                                  "actor_instance_id"}, Str)
    \sqcup optionalField("body", {"privacy_classification", "actor_lifecycle",
                                  "compartment"}, Listed)
    \sqcup optionalField("body", {"declared_limits", "identity_binding"}, isObject)
    \sqcup optionalField("body", {"session_expires_at_ms"}, isInteger)
    \sqcup validateCapability \sqcup validateIdentityBinding

validateScope ==
  requireField("capability_scopes", {"capability"}, Str)
    \sqcup optionalField("capability_scopes", {"capability_declaration_oid"}, Str)
    \sqcup optionalField("capability_scopes", {"scope_narrowing"}, isObject)
    \sqcup optionalField("capability_scopes", {"additional_preconditions"}, Objects)
    \sqcup optionalField("capability_scopes", {"require_signed_receipt"}, isBoolean)
    \sqcup validatePredicateArray("additional_preconditions")

validateCapabilityGrantBody ==
  requireField("body", {"grantee"}, isObject)
    \sqcup requireField("body", {"capability_scopes"}, Objects)
    \sqcup requireField("body", {"granted_at_ms"}, isInteger)
    \sqcup requireField("body", {"expires_at_ms"}, Nullable(isInteger))
    \sqcup requireField("body", {"granted_by"}, Str)
    \sqcup (optionalField("body", {"reason", "parent_grant_oid"}, Str)
          \sqcup optionalField("body", {"evidence_oids"}, Strings)
          \sqcup optionalField("body", {"revocation_level_override"}, Level)
          \sqcup optionalField("body", {"limits"}, isObject)
          \sqcup optionalField("body", {"max_delegation_depth", "offline_grace_seconds"},
                               NonNegative)
          \sqcup optionalField("body", {"timestamp_window_seconds", "max_grant_offline_ttl_ms",
                                        "max_revocation_bundle_age_ms", "break_glass_ttl_ms",
                                        "break_glass_max_invocations"}, isPositiveInteger)
          \sqcup optionalField("body", {"break_glass", "break_glass_requires_reason"},
                               isBoolean)
          \sqcup optionalField("body", {"compartment"}, Listed))
    \sqcup ((requireField("grantee", {"actor_type"}, Listed)
                \sqcup requireField("grantee", {"actor_oid"}, Str)
                \sqcup optionalField("grantee", {"actor_session_id"}, Str))
          \sqcup validateScope
          \sqcup (optionalField("limits", {"aggregate_limits"}, Objects)
                \sqcup optionalField("limits", {"aggregate_limit_group"}, Str))
          \sqcup (requireField("aggregate_limits", {"key"}, Str)
                \sqcup requireField("aggregate_limits", {"max"}, NonNegative)
                \sqcup requireField("aggregate_limits", {"window_seconds"}, isPositiveInteger)))

validateMcpToolCallContext ==
  requireField("mcp_tool_call", {"server_id"}, NonEmpty)
    \sqcup requireField("mcp_tool_call", {"tool_name"}, NotReserved)
    \sqcup optionalField("mcp_tool_call", {"tool_schema_hash"}, Str)

validateCapabilityInvocationBody ==
  requireField("body", {"caller", "args"}, isObject)
    \sqcup requireField("body", {"capability"}, Str)
    \sqcup optionalField("body", {"capability_declaration_oid", "idempotency_key"}, Str)
    \sqcup optionalField("body", {"invoked_at_ms", "client_event_ms", "queued_at_ms"},
                         isInteger)
    \sqcup optionalField("body", {"workflow_context", "sla_hint", "mcp_tool_call"}, isObject)
    \sqcup optionalField("body", {"delegation_chain"}, UpToTen)
    \sqcup optionalField("body", {"compartment"}, Listed)
    \sqcup (requireField("caller", {"actor_type"}, Listed)
          \sqcup requireField("caller", {"actor_oid", "grant_oid"}, Str)
          \sqcup optionalField("caller", {"actor_session_id"}, Str))
    \sqcup requireField("workflow_context", {"workflow_instance_oid", "stage_id"}, Str)
    \sqcup validateDelegationStep("delegation_chain")
    \sqcup validateMcpToolCallContext

validateWorkflowDefinitionBody ==
  requireField("body", {"workflow_id", "workflow_name", "workflow_version",
                        "initial_stage_id"}, Str)
    \sqcup requireField("body", {"max_total_duration_seconds"}, isInteger)
    \sqcup requireField("body", {"trigger"}, isObject)
    \sqcup requireField("body", {"stages"}, Objects)
    \sqcup requireField("body", {"required_channels"}, Strings)
    \sqcup optionalField("body", {"optional_channels"}, Strings)
    \sqcup optionalField("body", {"description", "cleanup_stage_id"}, Str)
    \sqcup requireField("trigger", {"kind"}, Listed)
    \sqcup (requireField("stages", {"stage_id"}, Str)
          \sqcup optionalField("stages", {"authorized_approvers"}, Strings))

validateWorkflowInstanceBody ==
  requireField("body", {"workflow_definition_oid", "workflow_id", "current_stage_id"}, Str)
    \sqcup requireField("body", {"scope_variables", "trigger_event"}, isObject)
    \sqcup requireField("body", {"started_at_ms", "last_transition_at_ms"}, isInteger)
    \sqcup requireField("body", {"terminated_at_ms"}, Nullable(isInteger))
    \sqcup requireField("body", {"terminal_outcome"}, Nullable(Listed))
    \sqcup requireField("body", {"active_channel_listeners"}, isArray)
    \sqcup requireField("body", {"transition_oids"}, Strings)
    \sqcup (requireField("trigger_event", {"kind"}, Listed)
          \sqcup requireField("trigger_event", {"source_actor_oid"}, Str))

validateStageTransitionBody ==
  requireField("body", {"workflow_instance_oid", "from_stage_id", "to_stage_id"}, Str)
    \sqcup requireField("body", {"trigger_reason"}, Listed)
    \sqcup requireField("body", {"bind_outputs"}, isObject)
    \sqcup requireField("body", {"transitioned_at_ms"}, isInteger)
    \sqcup requireField("body", {"previous_transition_oid"}, Nullable(Str))
    \sqcup optionalField("body", {"triggering_event_oid", "triggering_invocation_oid"}, Str)

validateChannelEventBody ==
  requireField("body", {"channel", "event_kind"}, Str)
    \sqcup requireField("body", {"payload"}, isObject)
    \sqcup requireField("body", {"observed_at_ms"}, isInteger)
    \sqcup optionalField("body", {"workflow_instance_oid", "stage_id"}, Str)

validateTokenConsumptionUnpriced ==  \* mutant: cost_usd is not looked at
  requireField("token_consumption", {"input_tokens", "output_tokens"}, NonNegative)
    \sqcup requireField("token_consumption", {"model"}, NonEmpty)
    \sqcup requireField("token_consumption", {"settled_at_ms"}, isInteger)
validateTokenConsumption ==
  requireField("token_consumption", {"input_tokens", "output_tokens"}, NonNegative)
    \sqcup requireField("token_consumption", {"model"}, NonEmpty)
    \sqcup requireField("token_consumption", {"settled_at_ms"}, isInteger)
    \sqcup optionalField("token_consumption", {"cost_usd"}, isNumber)

validateMeasuredResultAnyCost ==            \* mutant: a float cost, as in cost_usd
  optionalField("measured", {"cost_micro_usd", "latency_ms"}, isNumber)
    \sqcup optionalField("measured", {"provider_ran", "counterparty", "upstream_ref"}, NonEmpty)
validateMeasuredResult ==
  optionalField("measured", {"cost_micro_usd", "latency_ms"}, NonNegative)
    \sqcup optionalField("measured", {"provider_ran", "counterparty", "upstream_ref"}, NonEmpty)

validateGapDecisionReceiptBody ==
  requireField("body", {"subject_kind", "status"}, Listed)
    \sqcup requireField("body", {"subject_oid"}, Str)
    \sqcup requireField("body", {"initiated_at_ms", "resolved_at_ms"}, isInteger)
    \sqcup requireField("body", {"initiator"}, isObject)
    \sqcup (optionalField("body", {"detail"}, Str)
          \sqcup optionalField("body", {"capability_grant_oids", "channel_event_oids",
                                        "compliance_tags"}, Strings)
          \sqcup optionalField("body", {"signer_identity", "token_consumption", "measured"},
                               isObject)
          \sqcup optionalField("body", {"sequence_number"}, NonNegative)
          \sqcup optionalField("body", {"decided_at_ns"}, isInteger))
    \sqcup (requireField("initiator", {"actor_oid"}, Str)
          \sqcup requireField("initiator", {"actor_type"}, Listed))
    \sqcup (requireField("signer_identity", {"display_name"}, Str)
          \sqcup optionalField("signer_identity", {"role", "credential_id"}, Str))
    \sqcup validateTokenConsumption
    \sqcup validateMeasuredResult

validateRevocationEventBody ==
  requireField("body", {"target_kind"}, Listed)
    \sqcup requireField("body", {"target_oid", "reason"}, Str)
    \sqcup requireField("body", {"provisional"}, isBoolean)
    \sqcup requireField("body", {"required_level"}, Level)
    \sqcup requireField("body", {"approvers"}, Objects)
    \sqcup requireField("body", {"effective_at_ms"}, Nullable(isNumber))
    \sqcup optionalField("body", {"evidence_oids"}, Strings)
    \sqcup optionalField("body", {"provisional_block_policy"}, isObject)
    \sqcup optionalField("body", {"min_approvers"}, isPositiveInteger)
    \sqcup (requireField("approvers", {"actor_oid"}, Str)
          \sqcup requireField("approvers", {"approved_at_ms"}, isInteger)
          \sqcup requireField("approvers", {"cooling_off_satisfied"}, isBoolean))
    \sqcup (requireField("provisional_block_policy", {"on_expiry_without_quorum"}, Listed)
          \sqcup optionalField("provisional_block_policy", {"provisional_block_ttl_ms"},
                               HourOrMore))

(* The types whose envelopes a validator checks as a whole, each with the table
   of its body. *)
BodyShape ==
  [capability_declaration |-> validateCapabilityDeclarationBody,
   capability_grant |-> validateCapabilityGrantBody,
   capability_invocation |-> validateCapabilityInvocationBody,
   workflow_definition |-> validateWorkflowDefinitionBody,
   workflow_instance |-> validateWorkflowInstanceBody,
   stage_transition |-> validateStageTransitionBody,
   channel_event |-> validateChannelEventBody,
   decision_receipt |-> validateGapDecisionReceiptBody,
   revocation_event |-> validateRevocationEventBody,
   orchestration_chain |-> validateOrchestrationChainBody,
   consent_record |-> validateConsentRecordBody,
   pip_response |-> validatePipResponseBody,
   perimeter_declaration |-> validatePerimeterDeclarationBody]

Types == DOMAIN BodyShape
Shape == [t \in Types |-> validateEnvelopeShape \sqcup BodyShape[t]]

-----------------------------------------------------------------------------
(* Python: whatever is None passes, and most fields need only be there. *)

PyEnvelope(body) ==
  requireField("envelope", {"oid", "type", "gap_version"}, Nullable(Listed))
    \sqcup requireField("envelope", {"tenant_id", "created_by"}, Kinds)
    \sqcup requireField("envelope", {"created_at_ms"}, Nullable(PyInt))
    \sqcup requireField("envelope", {"body"}, body)

PyStepsStrict(at) ==                \* mutant: every step names a prior receipt
  requireField(at, {"step_index", "delegator_actor_oid", "delegatee_actor_oid", "grant_oid",
                    "delegated_at_ms", "step_signature", "step_signature_alg",
                    "prior_receipt_oid"}, Kinds)
PySteps(at) ==
  requireField(at, {"step_index", "delegator_actor_oid", "delegatee_actor_oid", "grant_oid",
                    "delegated_at_ms", "step_signature", "step_signature_alg"}, Kinds)

PyConsentRecordBody ==
  requireField("body", {"actor_oid", "tenant_id", "context"}, Kinds)
    \sqcup requireField("body", {"consented"}, Nullable(isBoolean))
    \sqcup requireField("body", {"consented_at_ms"}, Nullable(PyInt))

PyPipResponseBody ==
  requireField("body", {"pip_endpoint", "request_args_hash", "response_body_hash",
                        "evaluated_at_ms"}, Kinds)
    \sqcup requireField("body", {"cache_ttl_ms"}, Nullable(PyInt))
    \sqcup optionalField("body", {"args"}, Nullable(isObject))

PyBodyShape ==
  [capability_declaration |->
     requireField("body", {"actor_type", "actor_id", "actor_name", "actor_version"}, Kinds)
       \sqcup requireField("body", {"capabilities"}, Nullable(isArray)),
   capability_grant |->
     requireField("body", {"granted_at_ms", "granted_by"}, Kinds)
       \sqcup requireField("body", {"capability_scopes"}, Nullable(isArray))
       \sqcup requireField("body", {"grantee"}, Nullable(isObject)),
   capability_invocation |->
     requireField("body", {"capability", "args"}, Kinds)
       \sqcup requireField("body", {"caller"}, Nullable(isObject)),
   orchestration_chain |->
     requireField("body", {"root_actor_oid", "capability_name", "final_invocation_oid"}, Kinds)
       \sqcup requireField("body", {"steps"}, Nullable(UpToTen))
       \sqcup PySteps("steps"),
   consent_record |-> PyConsentRecordBody,
   pip_response |-> PyPipResponseBody]

(* For the other types there is validate_cdro_envelope alone, and perimeter
   declarations are a type it does not know. *)
PyTypes == Types \ {"perimeter_declaration"}
PyShape ==
  [t \in PyTypes |->
     IF t \in DOMAIN PyBodyShape THEN PyEnvelope(isObject) \sqcup PyBodyShape[t]
     ELSE PyEnvelope(Kinds)]

-----------------------------------------------------------------------------
(* Accepting *)

Rows(t) == Interface[t] \sqcup Shape[t] \sqcup (IF t \in PyTypes THEN PyShape[t] ELSE {})

Places == [t \in Types |-> {<<r.at, r.field>> : r \in Rows(t)}]

(* The containers that an object has. *)
Live(o) == {"envelope"} \cup {p[2] : p \in {q \in DOMAIN o : o[q] \in Containers}}

Fits(o, rows) ==
  LET live == Live(o)
  IN \A r \in rows :
       r.at \in live =>
         IF <<r.at, r.field>> \in DOMAIN o THEN o[<<r.at, r.field>>] \in r.kinds ELSE ~r.need

ENFORCEMENT_RANK == [observational |-> 0, cooperative |-> 1, structural |-> 2]
CEILING == [C5 |-> "structural", C6 |-> "cooperative", C7 |-> "observational"]
enforcementWithinCeiling(cls, claimed) ==
  ENFORCEMENT_RANK[claimed] <= ENFORCEMENT_RANK[CEILING[cls]]

(* In order of size. *)
Size == [negative |-> -1, zero |-> 0, one |-> 1, decimal |-> 1, large |-> 2, huge |-> 3]
NotAfter(o, p, q) == {p, q} \subseteq DOMAIN o => Size[o[p]] <= Size[o[q]]

(* What a perimeter declaration must satisfy across its fields. *)
PerimeterConsistent(o) ==
  /\ NotAfter(o, <<"body", "effective_from_ms">>, <<"body", "effective_to_ms">>)
  /\ NotAfter(o, <<"completeness_scope", "from_seq">>, <<"completeness_scope", "to_seq">>)
  /\ <<"chokepoints_active", "class">> \in DOMAIN o =>
       enforcementWithinCeiling(o[<<"chokepoints_active", "class">>],
                                o[<<"chokepoints_active", "enforcement">>])

validate(t, o) ==
  /\ Fits(o, Shape[t])
  /\ t = "perimeter_declaration" => PerimeterConsistent(o)

(* Of an object in Python; a validator that raises has not accepted. *)
py_validate(t, o) == t \in PyTypes /\ Fits(o, PyShape[t])

=============================================================================

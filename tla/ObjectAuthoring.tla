-------------------------- MODULE ObjectAuthoring --------------------------
(***************************************************************************)
(* Objects on their way to a validator.  Some are built by the SDKs: an    *)
(* invocation by build_invocation_envelope, a receipt by receipt(), a      *)
(* revocation by revokeGapObject.  Those are left as they are.  The others *)
(* are drafts, which an author outside this repository edits one field at  *)
(* a time and may submit at any moment, so that each state of a draft is   *)
(* an input.                                                               *)
(***************************************************************************)
EXTENDS ObjectShapes, Functions

CONSTANTS Edits,        \* the kinds of value an author writes, for each type
          MaxEdits      \* bound: edits to one draft of each type

ASSUME EditsAssumption == Edits \in [Types -> SUBSET Kinds] /\ MaxEdits \in [Types -> Nat]

VARIABLES type, object, origin, edits
vars == <<type, object, origin, edits>>

-----------------------------------------------------------------------------
(* Drafts *)

Taken(t, p) ==
  {k \in Kinds : \A r \in Rows(t) : <<r.at, r.field>> = p => k \in r.kinds}

Usual == <<"object", "objects", "listed", "other", "strings", "one", "large", "true",
           "C5", "observational">>
UsualOf(kinds) ==
  Usual[CHOOSE i \in DOMAIN Usual :
          Usual[i] \in kinds /\ \A j \in 1..(i - 1) : Usual[j] \notin kinds]

(* Every field of the type, each of a kind that is taken. *)
Complete(t) == [p \in Places[t] |-> UsualOf(Taken(t, p))]

(* A field that goes takes along all that it holds; containers nest three deep at
   most below the body. *)
Attached(o) == LET live == Live(o) IN Restrict(o, {p \in DOMAIN o : p[1] \in live})
Without(o, fields) ==
  Attached(Attached(Attached(Attached(Restrict(o, DOMAIN o \ fields)))))

(* The object with one more field, or with another value in a field. *)
With(o, p, kind) == [q \in DOMAIN o \cup {p} |-> IF q = p THEN kind ELSE o[q]]

(* The fields without which an object is not accepted. *)
Minimal(t) ==
  Without(Complete(t), Places[t] \ {<<r.at, r.field>> : r \in {q \in Shape[t] : q.need}})

-----------------------------------------------------------------------------
(* Built objects.  Names, OIDs and times come from the caller; no clock has come as
   far as 10^21 milliseconds. *)

Time == PyInt \ {"huge"}
Text == {"other", "empty"}

Of(at, fields) == [p \in {<<at, f>> : f \in DOMAIN fields} |-> fields[p[2]]]
o ++ q == [p \in DOMAIN o \cup DOMAIN q |-> IF p \in DOMAIN o THEN o[p] ELSE q[p]]

(* mutant: the caller does not say under which grant it acts *)
build_invocation_ungranted(tenant_id, actor_oid, grant_oid, now_ms) ==
  Of("envelope", [oid |-> "listed", type |-> "listed", gap_version |-> "listed",
                  tenant_id |-> tenant_id, created_at_ms |-> now_ms,
                  created_by |-> actor_oid, body |-> "object"])
    ++ Of("body", [caller |-> "object", capability |-> "other", args |-> "object"])
    ++ Of("caller", [actor_type |-> "listed", actor_oid |-> actor_oid])
build_invocation_envelope(tenant_id, actor_oid, grant_oid, now_ms) ==
  Of("envelope", [oid |-> "listed", type |-> "listed", gap_version |-> "listed",
                  tenant_id |-> tenant_id, created_at_ms |-> now_ms,
                  created_by |-> actor_oid, body |-> "object"])
    ++ Of("body", [caller |-> "object", capability |-> "other", args |-> "object"])
    ++ Of("caller", [actor_type |-> "listed", actor_oid |-> actor_oid,
                     grant_oid |-> grant_oid])

(* A detail is left out when there is none; the key id is never empty. *)
receipt(subject, actor, status, detail, tenant, creator, initiated, resolved) ==
  Of("envelope", [oid |-> "listed", type |-> "listed", gap_version |-> "listed",
                  tenant_id |-> tenant, created_at_ms |-> initiated,
                  created_by |-> creator, body |-> "object", receipt_scheme |-> "listed",
                  signature_key_id |-> "other", signature |-> "other"])
    ++ Of("body", [subject_kind |-> "listed", subject_oid |-> subject,
                   initiator |-> "object", status |-> status,
                   initiated_at_ms |-> initiated, resolved_at_ms |-> resolved]
                    ++ IF detail = "absent" THEN <<>> ELSE [detail |-> detail])
    ++ Of("initiator", [actor_oid |-> actor, actor_type |-> "listed"])

(* The body alone; its caller puts an envelope around it. *)
revokeGapObject(target_oid, reason, tenant_id, created_by, now_ms) ==
  Of("envelope", [oid |-> "listed", type |-> "listed", gap_version |-> "listed",
                  tenant_id |-> tenant_id, created_at_ms |-> now_ms,
                  created_by |-> created_by, body |-> "object"])
    ++ Of("body", [target_kind |-> "listed", target_oid |-> target_oid, reason |-> reason,
                   required_level |-> "one", provisional |-> "true", approvers |-> "none",
                   effective_at_ms |-> "null"])

-----------------------------------------------------------------------------

Init ==
  /\ edits = 0
  /\ \/ /\ origin = "draft"
        /\ type \in Types
        /\ object \in {Complete(type), Minimal(type)}
     \/ /\ origin = "built" /\ type = "capability_invocation"
        /\ \E tenant, actor, grant \in Text, now \in Time :
             object = build_invocation_envelope(tenant, actor, grant, now)
     \/ /\ origin = "built" /\ type = "decision_receipt"
        /\ \E subject, actor, tenant, creator \in Text, status \in DecisionStatus,
              detail \in Text \cup {"absent"}, initiated, resolved \in Time :
             object = receipt(subject, actor, status, detail, tenant, creator, initiated,
                              resolved)
     \/ /\ origin = "built" /\ type = "revocation_event"
        /\ \E target, reason, tenant, creator \in Text, now \in Time :
             object = revokeGapObject(target, reason, tenant, creator, now)

(* mutant: what a field held stays when the field gets another value *)
PutOver(p, kind) ==
  /\ p[1] \in Live(object)
  /\ object' = With(object, p, kind)
  /\ edits' = edits + 1
  /\ UNCHANGED <<type, origin>>

Put(p, kind) ==
  /\ p[1] \in Live(object)
  /\ object' = With(IF kind \in Containers THEN object ELSE Without(object, {p}), p, kind)
  /\ edits' = edits + 1
  /\ UNCHANGED <<type, origin>>

Drop(p) ==
  /\ p \in DOMAIN object
  /\ object' = Without(object, {p})
  /\ edits' = edits + 1
  /\ UNCHANGED <<type, origin>>

(* Built objects are left as they are. *)
Editable == origin = "draft" /\ edits < MaxEdits[type]

Next ==
  \/ Editable /\ \E p \in Places[type], kind \in Edits[type] : Put(p, kind)
  \/ Editable /\ \E p \in DOMAIN object : Drop(p)

Spec == Init /\ [][Next]_vars

-----------------------------------------------------------------------------

(* An object has fields only where something holds them, and all of them are
   known to a validator of its type. *)
TypeOK ==
  /\ type \in Types /\ origin \in {"draft", "built"} /\ edits \in 0..MaxEdits[type]
  /\ DOMAIN object \subseteq Places[type]
  /\ {p[1] : p \in DOMAIN object} \subseteq Live(object)
  /\ \A p \in DOMAIN object : object[p] \in Kinds

(* As JavaScript reads and writes a number: 1.0 comes out as 1, and 10^21, from where
   on JSON.stringify uses an exponent, as 1e+21. *)
PassedOn(kind) ==
  CASE kind = "decimal" -> "one" [] kind = "huge" -> "decimal" [] OTHER -> kind
Relayed(o) == [p \in DOMAIN o |-> PassedOn(o[p])]

(* The fields of which the Python validators ask an int. *)
PythonInts ==
  {<<"envelope", "created_at_ms">>, <<"body", "consented_at_ms">>, <<"body", "cache_ttl_ms">>}

(* Of what the TypeScript SDK has validated and passed on the Python SDK refuses
   one thing: an integer of 10^21 or more in a field of which it asks an int, for
   it arrives with an exponent and is a float there.  All else it accepts, save for
   a type and a field that only one of them knows: the two tables are written by
   hand in two languages and no vector of the conformance suite compares them. *)
PythonRefusesOnlyHuge ==
  /\ validate(type, object)
  /\ type # "perimeter_declaration"
  /\ type = "pip_response" /\ <<"body", "args">> \in DOMAIN object =>
       object[<<"body", "args">>] \in Nullable(isObject)
  => (py_validate(type, Relayed(object)) <=>
        \A p \in DOMAIN object \cap PythonInts : object[p] # "huge")

(* Canonicalization refuses a number with a fraction, so that an object which
   has one can be neither identified nor signed.  A valid object has none in
   any field that its validator looks at, but for these two. *)
Unhashable == {<<"token_consumption", "cost_usd">>, <<"body", "effective_at_ms">>}
LookedAt == [t \in Types |-> {<<r.at, r.field>> : r \in Shape[t]}]
HashableOnceValid ==
  validate(type, object) =>
    \A p \in DOMAIN object \cap LookedAt[type] :
      object[p] = "fraction" => p \in Unhashable

(* The two SDKs accept what the builders make, whatever names, OIDs and times of a
   clock they are given, save for the one status that the validator lacks. *)
BuiltObjectsPass ==
  origin = "built" =>
    /\ py_validate(type, object)
    /\ ~(type = "decision_receipt" /\ object[<<"body", "status">>] \in RateLimited) =>
         validate(type, object)

(* receipt() takes every status of DecisionStatus, and what it makes of it is a
   valid receipt. *)
BuiltReceiptsPass ==
  origin = "built" /\ type = "decision_receipt" => validate(type, object)

(* The members of an interface that its validator does not look at: those of
   whole containers, and single ones. *)
UnreadContainers ==
  {"declared_limits", "sla_hint", "metrics", "active_channel_listeners", "listen_spec",
   "actions", "optional_effects", "action", "listen", "next", "on_timeout",
   "on_action_failure", "invocation", "on_success", "on_failure", "precondition",
   "safety", "two_person"}
UnreadMembers ==
  [capability_grant |->
     {<<"body", "require_signed_receipt">>}
       \cup {"limits"} \X {"max_invocations_per_minute", "max_invocations_total",
                           "max_payload_bytes"},
   workflow_definition |->
     {<<"body", "requires_operator_approval">>}
       \cup {"trigger"} \X {"risk_class", "action_class", "action_type_pattern",
                            "capability_pattern", "cron"}
       \cup {"stages"} \X {"duration_seconds", "actions", "optional_effects", "listen",
                           "on_timeout", "on_action_failure", "terminal",
                           "terminal_outcome", "invocation", "precondition", "safety"},
   workflow_instance |->
     {"body"} \X {"active_channel_listeners", "final_receipt_oid"}
       \cup {"trigger_event"} \X {"source_invocation_oid", "source_risk_policy_id"},
   decision_receipt |->
     {"body"} \X {"workflow_instance_oid", "workflow_stage_id", "inference_receipt_oid",
                 "metrics", "is_idempotency_replay", "client_claimed_at_ms",
                 "max_offline_ttl_ms"},
   revocation_event |->
     {"body"} \X {"public_notice_started_at_ms", "public_notice_window_ms", "lifted_at_ms"}
       \cup {<<"approvers", "attestation_oid">>}]
Read ==
  [t \in Types |->
     {r \in Interface[t] :
        /\ r.at \notin UnreadContainers /\ r.field # "receipt_scheme"
        /\ t \in DOMAIN UnreadMembers => <<r.at, r.field>> \notin UnreadMembers[t]}]

(* TypeScript code casts what has been validated to its interface.  But for the
   members named above, which it finds as their author left them, it does find
   what the interface promises. *)
ValidIsTyped == validate(type, object) => Fits(object, Read[type])

(* The other way: an object of its interface's type is refused for a value that
   some field does not take, never for the lack of a member that the interface
   leaves open. *)
RequiresOnlyRequired ==
  /\ Fits(object, Interface[type])
  /\ Fits(object, {r \in Shape[type] : <<r.at, r.field>> \in DOMAIN object})
  /\ type # "perimeter_declaration"
  => validate(type, object)

=============================================================================

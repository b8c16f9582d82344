------------------------- MODULE ObjectTablesProofs -------------------------
(***************************************************************************)
(* The tables of ObjectTypes and ObjectShapes, compared with each other    *)
(* row by row.  What a table says of one field is read off by a few        *)
(* predicates, which distribute over the joining of tables, so that a type *)
(* is compared by unfolding its tables and looking at each field once.     *)
(***************************************************************************)
EXTENDS ObjectAuthoring, TLAPS

(* Of the field f of the container at, a table R knows it, has a row of the kinds
   K for it, takes no more than K, needs it, takes the kind k in all its rows. *)
Knows(R, at, f) == \E r \in R : r.at = at /\ r.field = f
Has(R, at, f, K) == \E r \in R : r.at = at /\ r.field = f /\ r.kinds = K
Within(K, L) == K \subseteq L
Takes(R, at, f, K) == \E r \in R : r.at = at /\ r.field = f /\ Within(r.kinds, K)
Asks(R, at, f) == \E r \in R : r.at = at /\ r.field = f /\ r.need
Welcomes(R, at, f, k) == \A r \in R : r.at = at /\ r.field = f => k \in r.kinds

(* The rows of requireField and of optionalField, and what the predicates say of
   them and of joined tables. *)
LEMMA RequiredRow ==
  ASSUME NEW c, NEW F, NEW L
  PROVE  /\ \A r \in requireField(c, F, L) :
              r.at = c /\ r.field \in F /\ r.need /\ r.kinds = L
         /\ \A f \in F : \E r \in requireField(c, F, L) :
              r.at = c /\ r.field = f /\ r.need /\ r.kinds = L
<1> DEFINE row(f) == [at |-> c, field |-> f, need |-> TRUE, kinds |-> L]
<1>1. \A r \in requireField(c, F, L) : \E f \in F : r = row(f)
  BY DEF requireField
<1>2. \A f \in F : row(f) \in requireField(c, F, L)
  BY DEF requireField
<1>3. \A f \in F : row(f).at = c /\ row(f).field = f /\ row(f).need /\ row(f).kinds = L
  OBVIOUS
<1> HIDE DEF row
<1> QED
  BY <1>1, <1>2, <1>3

LEMMA OptionalRow ==
  ASSUME NEW c, NEW F, NEW L
  PROVE  /\ \A r \in optionalField(c, F, L) :
              r.at = c /\ r.field \in F /\ ~r.need /\ r.kinds = L
         /\ \A f \in F : \E r \in optionalField(c, F, L) :
              r.at = c /\ r.field = f /\ ~r.need /\ r.kinds = L
<1> DEFINE row(f) == [at |-> c, field |-> f, need |-> FALSE, kinds |-> L]
<1>1. \A r \in optionalField(c, F, L) : \E f \in F : r = row(f)
  BY DEF optionalField
<1>2. \A f \in F : row(f) \in optionalField(c, F, L)
  BY DEF optionalField
<1>3. \A f \in F : row(f).at = c /\ row(f).field = f /\ ~row(f).need /\ row(f).kinds = L
  OBVIOUS
<1> HIDE DEF row
<1> QED
  BY <1>1, <1>2, <1>3

LEMMA KnowsRules ==
  /\ \A R, S, at, f : Knows(R \sqcup S, at, f) <=> Knows(R, at, f) \/ Knows(S, at, f)
  /\ \A c, F, L, at, f : Knows(requireField(c, F, L), at, f) <=> at = c /\ f \in F
  /\ \A c, F, L, at, f : Knows(optionalField(c, F, L), at, f) <=> at = c /\ f \in F
  BY RequiredRow, OptionalRow DEF Knows, \sqcup

LEMMA AsksRules ==
  /\ \A R, S, at, f : Asks(R \sqcup S, at, f) <=> Asks(R, at, f) \/ Asks(S, at, f)
  /\ \A c, F, L, at, f : Asks(requireField(c, F, L), at, f) <=> at = c /\ f \in F
  /\ \A c, F, L, at, f : ~Asks(optionalField(c, F, L), at, f)
  BY RequiredRow, OptionalRow DEF Asks, \sqcup

LEMMA HasRules ==
  /\ \A R, S, at, f, K : Has(R \sqcup S, at, f, K) <=> Has(R, at, f, K) \/ Has(S, at, f, K)
  /\ \A c, F, L, at, f, K :
       Has(requireField(c, F, L), at, f, K) <=> at = c /\ f \in F /\ K = L
  /\ \A c, F, L, at, f, K :
       Has(optionalField(c, F, L), at, f, K) <=> at = c /\ f \in F /\ K = L
  BY RequiredRow, OptionalRow DEF Has, \sqcup

LEMMA TakesRules ==
  /\ \A R, S, at, f, K :
       Takes(R \sqcup S, at, f, K) <=> Takes(R, at, f, K) \/ Takes(S, at, f, K)
  /\ \A c, F, L, at, f, K :
       Takes(requireField(c, F, L), at, f, K) <=> at = c /\ f \in F /\ Within(L, K)
  /\ \A c, F, L, at, f, K :
       Takes(optionalField(c, F, L), at, f, K) <=> at = c /\ f \in F /\ Within(L, K)
  BY RequiredRow, OptionalRow DEF Takes, \sqcup

LEMMA WelcomesRules ==
  /\ \A R, S, at, f, k :
       Welcomes(R \sqcup S, at, f, k) <=> Welcomes(R, at, f, k) /\ Welcomes(S, at, f, k)
  /\ \A c, F, L, at, f, k :
       Welcomes(requireField(c, F, L), at, f, k) <=> (at = c /\ f \in F => k \in L)
  /\ \A c, F, L, at, f, k :
       Welcomes(optionalField(c, F, L), at, f, k) <=> (at = c /\ f \in F => k \in L)
  BY RequiredRow, OptionalRow DEF Welcomes, \sqcup

-----------------------------------------------------------------------------
(* Kinds *)

(* The kinds that a validator asks for are among those that an interface promises. *)
LEMMA Nested ==
  /\ \A K : Within(K, K)
  /\ Within(Listed, Str) /\ Within(NonEmpty, Str) /\ Within(NotReserved, Str)
  /\ Within(Listed, DecisionStatus)
  /\ Within(isInteger, isNumber) /\ Within(NonNegative, isNumber)
  /\ Within(isPositiveInteger, isNumber) /\ Within(HourOrMore, isNumber)
  /\ Within(UpToTen, Objects) /\ Within(Nullable(isInteger), Nullable(isNumber))
  BY DEF Within, Listed, RateLimited, Str, NonEmpty, NotReserved, DecisionStatus, isInteger,
         isNumber, NonNegative, isPositiveInteger, HourOrMore, UpToTen, Objects, Nullable

(* The kinds among which there is no fraction. *)
LEMMA Whole ==
  /\ \A K \in {Listed, NonEmpty, Str, NotReserved, isInteger, NonNegative,
               isPositiveInteger, Level, HourOrMore, Classes, Qualities, isBoolean,
               isObject, Strings, Objects, UpToTen, isArray} :
       "fraction" \notin K /\ "fraction" \notin Nullable(K)
  BY DEF Listed, RateLimited, Str, NonEmpty, NotReserved, isInteger, NonNegative,
         isPositiveInteger, Level, HourOrMore, Classes, Qualities, isBoolean, isObject,
         Strings, Objects, UpToTen, isArray, Nullable, Null

-----------------------------------------------------------------------------
(* Interfaces and validators *)

(* The members left out of Read. *)
Unread(t, at, f) ==
  \/ at \in UnreadContainers \/ f = "receipt_scheme"
  \/ t \in DOMAIN UnreadMembers /\ <<at, f>> \in UnreadMembers[t]

(* Of a type t, with the interface I and the validator S: the validator looks at
   what the interface promises, but for the members that it does not look at,
   needs nothing else, and takes fractions nowhere but where they are known. *)
Compared(t, I, S) ==
  /\ \A at, f, K : Has(I, at, f, K) => Takes(S, at, f, K) \/ Unread(t, at, f)
  /\ \A at, f : Asks(I, at, f) => Asks(S, at, f) \/ Unread(t, at, f)
  /\ \A at, f : Asks(S, at, f) => Asks(I, at, f)
  /\ \A at, f, K : Has(S, at, f, K) /\ "fraction" \in K => <<at, f>> \in Unhashable

LEMMA ComparedJoined ==
  ASSUME NEW t, NEW I, NEW S, NEW J, NEW T, Compared(t, I, S), Compared(t, J, T)
  PROVE  Compared(t, I \sqcup J, S \sqcup T)
  BY AsksRules, HasRules, TakesRules DEF Compared

LEMMA EnvelopeCompared == \A t : Compared(t, GapCdroEnvelope, validateEnvelopeShape)
  BY AsksRules, HasRules, TakesRules, Nested, Whole
  DEF Compared, Unread, GapCdroEnvelope, validateEnvelopeShape

(* Type by type. *)
LEMMA DeclarationCompared ==
  Compared("capability_declaration", CapabilityDeclarationBody,
           validateCapabilityDeclarationBody)
  BY AsksRules, HasRules, TakesRules, Nested, Whole
  DEF Compared, Unread, UnreadContainers,
      CapabilityDeclarationBody, Capability, CapabilityPredicate, IdentityBinding,
      validateCapabilityDeclarationBody, validateCapability, validatePredicateArray,
      validateIdentityBinding

LEMMA GrantCompared ==
  Compared("capability_grant", CapabilityGrantBody, validateCapabilityGrantBody)
  BY AsksRules, HasRules, TakesRules, Nested, Whole
  DEF Compared, Unread, UnreadContainers, UnreadMembers,
      CapabilityGrantBody, GrantedCapabilityScope, CapabilityPredicate,
      validateCapabilityGrantBody, validateScope, validatePredicateArray

LEMMA InvocationCompared ==
  Compared("capability_invocation", CapabilityInvocationBody, validateCapabilityInvocationBody)
  BY AsksRules, HasRules, TakesRules, Nested, Whole
  DEF Compared, Unread, UnreadContainers,
      CapabilityInvocationBody, DelegationStep, McpToolCallContext,
      validateCapabilityInvocationBody, validateDelegationStep, validateMcpToolCallContext

LEMMA WorkflowCompared ==
  Compared("workflow_definition", WorkflowDefinitionBody, validateWorkflowDefinitionBody)
  BY AsksRules, HasRules, TakesRules, Nested, Whole
  DEF Compared, Unread, UnreadContainers, UnreadMembers,
      WorkflowDefinitionBody, WorkflowTrigger, WorkflowStage, StageTransitionTarget,
      StageAction, OptionalEffect, StageListen, CapabilityPredicate, StageSafety,
      validateWorkflowDefinitionBody

LEMMA InstanceCompared ==
  Compared("workflow_instance", WorkflowInstanceBody, validateWorkflowInstanceBody)
  BY AsksRules, HasRules, TakesRules, Nested, Whole
  DEF Compared, Unread, UnreadContainers, UnreadMembers,
      WorkflowInstanceBody, StageListen, StageTransitionTarget, validateWorkflowInstanceBody

LEMMA TransitionCompared ==
  Compared("stage_transition", StageTransitionBody, validateStageTransitionBody)
  BY AsksRules, HasRules, TakesRules, Nested, Whole
  DEF Compared, StageTransitionBody, validateStageTransitionBody

LEMMA ChannelCompared ==
  Compared("channel_event", ChannelEventBody, validateChannelEventBody)
  BY AsksRules, HasRules, TakesRules, Nested, Whole
  DEF Compared, ChannelEventBody, validateChannelEventBody

LEMMA ReceiptCompared ==
  Compared("decision_receipt", GapDecisionReceiptBody, validateGapDecisionReceiptBody)
  BY AsksRules, HasRules, TakesRules, Nested, Whole
  DEF Compared, Unread, UnreadContainers, UnreadMembers, Unhashable,
      GapDecisionReceiptBody, TokenConsumption, MeasuredResult,
      validateGapDecisionReceiptBody, validateTokenConsumption, validateMeasuredResult

LEMMA RevocationCompared ==
  Compared("revocation_event", RevocationEventBody, validateRevocationEventBody)
  BY AsksRules, HasRules, TakesRules, Nested, Whole
  DEF Compared, Unread, UnreadMembers, Unhashable,
      RevocationEventBody, validateRevocationEventBody

LEMMA ChainCompared ==
  Compared("orchestration_chain", OrchestrationChainBody, validateOrchestrationChainBody)
  BY AsksRules, HasRules, TakesRules, Nested, Whole
  DEF Compared, OrchestrationChainBody, DelegationStep,
      validateOrchestrationChainBody, validateDelegationStep

LEMMA ConsentCompared ==
  Compared("consent_record", ConsentRecordBody, validateConsentRecordBody)
  BY AsksRules, HasRules, TakesRules, Nested, Whole
  DEF Compared, ConsentRecordBody, validateConsentRecordBody

LEMMA PipCompared ==
  Compared("pip_response", PipResponseBody, validatePipResponseBody)
  BY AsksRules, HasRules, TakesRules, Nested, Whole
  DEF Compared, PipResponseBody, validatePipResponseBody

LEMMA PerimeterCompared ==
  Compared("perimeter_declaration", PerimeterDeclarationBody, validatePerimeterDeclarationBody)
  BY AsksRules, HasRules, TakesRules, Nested, Whole
  DEF Compared, PerimeterDeclarationBody, validatePerimeterDeclarationBody,
      validateGovernedSubject, validateCompletenessScope, validateChokepoint,
      validateBlindSpot

(* Tables by type. *)
LEMMA TypesListed ==
  Types = {"capability_declaration", "capability_grant", "capability_invocation",
           "workflow_definition", "workflow_instance", "stage_transition", "channel_event",
           "decision_receipt", "revocation_event", "orchestration_chain", "consent_record",
           "pip_response", "perimeter_declaration"}
  BY DEF Types, BodyShape

LEMMA TablesOf ==
  /\ Interface["capability_declaration"] = GapCdroEnvelope \sqcup CapabilityDeclarationBody
  /\ Interface["capability_grant"] = GapCdroEnvelope \sqcup CapabilityGrantBody
  /\ Interface["capability_invocation"] = GapCdroEnvelope \sqcup CapabilityInvocationBody
  /\ Interface["workflow_definition"] = GapCdroEnvelope \sqcup WorkflowDefinitionBody
  /\ Interface["workflow_instance"] = GapCdroEnvelope \sqcup WorkflowInstanceBody
  /\ Interface["stage_transition"] = GapCdroEnvelope \sqcup StageTransitionBody
  /\ Interface["channel_event"] = GapCdroEnvelope \sqcup ChannelEventBody
  /\ Interface["decision_receipt"] = GapCdroEnvelope \sqcup GapDecisionReceiptBody
  /\ Interface["revocation_event"] = GapCdroEnvelope \sqcup RevocationEventBody
  /\ Interface["orchestration_chain"] = GapCdroEnvelope \sqcup OrchestrationChainBody
  /\ Interface["consent_record"] = GapCdroEnvelope \sqcup ConsentRecordBody
  /\ Interface["pip_response"] = GapCdroEnvelope \sqcup PipResponseBody
  /\ Interface["perimeter_declaration"] = GapCdroEnvelope \sqcup PerimeterDeclarationBody
  BY DEF Interface

LEMMA BodiesOf ==
  /\ BodyShape["capability_declaration"] = validateCapabilityDeclarationBody
  /\ BodyShape["capability_grant"] = validateCapabilityGrantBody
  /\ BodyShape["capability_invocation"] = validateCapabilityInvocationBody
  /\ BodyShape["workflow_definition"] = validateWorkflowDefinitionBody
  /\ BodyShape["workflow_instance"] = validateWorkflowInstanceBody
  /\ BodyShape["stage_transition"] = validateStageTransitionBody
  /\ BodyShape["channel_event"] = validateChannelEventBody
  /\ BodyShape["decision_receipt"] = validateGapDecisionReceiptBody
  /\ BodyShape["revocation_event"] = validateRevocationEventBody
  /\ BodyShape["orchestration_chain"] = validateOrchestrationChainBody
  /\ BodyShape["consent_record"] = validateConsentRecordBody
  /\ BodyShape["pip_response"] = validatePipResponseBody
  /\ BodyShape["perimeter_declaration"] = validatePerimeterDeclarationBody
  BY DEF BodyShape

LEMMA ShapesOf == \A t \in Types : Shape[t] = validateEnvelopeShape \sqcup BodyShape[t]
  BY DEF Shape

LEMMA AllCompared == \A t \in Types : Compared(t, Interface[t], Shape[t])
  BY EnvelopeCompared, ComparedJoined, TypesListed, TablesOf, BodiesOf, ShapesOf,
     DeclarationCompared, GrantCompared, InvocationCompared, WorkflowCompared,
     InstanceCompared, TransitionCompared, ChannelCompared, ReceiptCompared,
     RevocationCompared, ChainCompared, ConsentCompared, PipCompared,
     PerimeterCompared

-----------------------------------------------------------------------------
(* Validators of the two languages *)

(* The kinds of which JavaScript makes a kind of L, when it reads and writes. *)
Relayable(L) == {k \in Kinds : PassedOn(k) \in L}

LEMMA RelayableKinds ==
  /\ \A K \in {Listed, Str, NonEmpty, isInteger, NonNegative, isObject, isBoolean, Objects,
               UpToTen} :
       Within(K, Relayable(Kinds)) /\ Within(K, Relayable(Nullable(Kinds)))
  /\ Within(Listed, Relayable(Nullable(Listed)))
  /\ Within(isInteger, isInteger) /\ Within(NonNegative, isInteger)
  /\ Within(isObject, Relayable(isObject)) /\ Within(isObject, Relayable(Nullable(isObject)))
  /\ Within(Objects, Relayable(Nullable(isArray)))
  /\ Within(UpToTen, Relayable(Nullable(UpToTen)))
  /\ Within(isBoolean, Relayable(Nullable(isBoolean)))
  BY DEF Within, Relayable, PassedOn, Kinds, Listed, RateLimited, Null, Str, NonEmpty,
         isInteger, isNumber, PyInt, NonNegative, isObject, isArray, Strings, Objects,
         UpToTen, isBoolean, Nullable

(* Of a type t, with the validator S in TypeScript and P in Python: what P looks at
   S looks at as closely, but for the size of what P wants to be an int and for the
   field that only P knows. *)
AnInt(S, at, f, L) ==
  <<at, f>> \in PythonInts /\ L = Nullable(PyInt) /\ Takes(S, at, f, isInteger)
Laxer(t, S, P) ==
  /\ \A at, f, L : Has(P, at, f, L) =>
       \/ Takes(S, at, f, Relayable(L))
       \/ AnInt(S, at, f, L)
       \/ t = "pip_response" /\ at = "body" /\ f = "args" /\ L = Nullable(isObject)
  /\ \A at, f : Asks(P, at, f) => Asks(S, at, f)

LEMMA LaxerJoined ==
  ASSUME NEW t, NEW S, NEW P, NEW T, NEW Q, Laxer(t, S, P), Laxer(t, T, Q)
  PROVE  Laxer(t, S \sqcup T, P \sqcup Q) /\ Laxer(t, S \sqcup T, P)
  BY AsksRules, HasRules, TakesRules DEF Laxer, AnInt

LEMMA EnvelopeLaxer ==
  \A t : /\ Laxer(t, validateEnvelopeShape, PyEnvelope(isObject))
         /\ Laxer(t, validateEnvelopeShape, PyEnvelope(Kinds))
  BY AsksRules, HasRules, TakesRules, RelayableKinds
  DEF Laxer, AnInt, PythonInts, validateEnvelopeShape, PyEnvelope

LEMMA BodiesLaxer ==
  \A t \in DOMAIN PyBodyShape : Laxer(t, BodyShape[t], PyBodyShape[t])
<1>1. Laxer("capability_declaration", validateCapabilityDeclarationBody,
            PyBodyShape.capability_declaration)
  BY AsksRules, HasRules, TakesRules, RelayableKinds
  DEF Laxer, PyBodyShape, validateCapabilityDeclarationBody
<1>2. Laxer("capability_grant", validateCapabilityGrantBody, PyBodyShape.capability_grant)
  BY AsksRules, HasRules, TakesRules, RelayableKinds
  DEF Laxer, PyBodyShape, validateCapabilityGrantBody
<1>3. Laxer("capability_invocation", validateCapabilityInvocationBody,
            PyBodyShape.capability_invocation)
  BY AsksRules, HasRules, TakesRules, RelayableKinds
  DEF Laxer, PyBodyShape, validateCapabilityInvocationBody
<1>4. Laxer("orchestration_chain", validateOrchestrationChainBody,
            PyBodyShape.orchestration_chain)
  BY AsksRules, HasRules, TakesRules, RelayableKinds
  DEF Laxer, PyBodyShape, validateOrchestrationChainBody, validateDelegationStep, PySteps
<1>5. Laxer("consent_record", validateConsentRecordBody, PyBodyShape.consent_record)
  BY AsksRules, HasRules, TakesRules, RelayableKinds
  DEF Laxer, AnInt, PythonInts, PyBodyShape, validateConsentRecordBody, PyConsentRecordBody
<1>6. Laxer("pip_response", validatePipResponseBody, PyBodyShape.pip_response)
  BY AsksRules, HasRules, TakesRules, RelayableKinds
  DEF Laxer, AnInt, PythonInts, PyBodyShape, validatePipResponseBody, PyPipResponseBody
<1>7. DOMAIN PyBodyShape = {"capability_declaration", "capability_grant",
                            "capability_invocation", "orchestration_chain",
                            "consent_record", "pip_response"}
  BY DEF PyBodyShape
<1> QED
  BY <1>1, <1>2, <1>3, <1>4, <1>5, <1>6, <1>7, BodiesOf

LEMMA AllLaxer == \A t \in PyTypes : Laxer(t, Shape[t], PyShape[t])
<1> SUFFICES ASSUME NEW t \in PyTypes PROVE Laxer(t, Shape[t], PyShape[t])
  OBVIOUS
<1>1. Shape[t] = validateEnvelopeShape \sqcup BodyShape[t]
  BY ShapesOf DEF PyTypes
<1>2. CASE t \in DOMAIN PyBodyShape
  <2>1. PyShape[t] = PyEnvelope(isObject) \sqcup PyBodyShape[t]
    BY <1>2 DEF PyShape
  <2> QED
    BY <1>1, <1>2, <2>1, EnvelopeLaxer, BodiesLaxer, LaxerJoined
<1>3. CASE t \notin DOMAIN PyBodyShape
  <2>1. PyShape[t] = PyEnvelope(Kinds)
    BY <1>3 DEF PyShape
  <2>2. Laxer(t, BodyShape[t], {})
    BY DEF Laxer, Has, Asks
  <2> QED
    BY <1>1, <2>1, <2>2, EnvelopeLaxer, LaxerJoined
<1> QED
  BY <1>2, <1>3

-----------------------------------------------------------------------------
(* Fields and what holds them *)

(* The containers by how deep they are: an envelope holds a body, and so on. *)
In0 == {"envelope"}
In1 == In0 \cup {"body"}
In2 == In1 \cup
  {"caller", "initiator", "approvers", "steps", "mcp_tool_call", "identity_binding",
   "capabilities", "declared_limits", "capability_scopes", "grantee", "limits",
   "workflow_context", "sla_hint", "delegation_chain", "stages", "trigger", "trigger_event",
   "active_channel_listeners", "token_consumption", "measured", "metrics",
   "signer_identity", "provisional_block_policy", "governed_subject",
   "completeness_scope", "chokepoints_active", "blind_spots"}
In3 == In2 \cup
  {"preconditions", "additional_preconditions", "aggregate_limits", "optional_effects",
   "safety", "actions", "listen", "on_timeout", "on_action_failure", "invocation",
   "precondition", "listen_spec"}
In4 == In3 \cup {"action", "two_person", "next", "on_success", "on_failure"}

(* Whatever holds a container is less deep. *)
Nests(R) ==
  \A at, f : Knows(R, at, f) =>
    /\ at \in In4 /\ f \notin In0
    /\ f \in In1 => at \in In0
    /\ f \in In2 => at \in In1
    /\ f \in In3 => at \in In2
    /\ f \in In4 => at \in In3

(* What Complete may choose for a field, and the kind that all rows of a field
   welcome: the usual one of any of its rows, but for two fields. *)
Samples == {"object", "objects", "listed", "other", "strings", "one", "large", "true",
            "C5", "observational"}
Named(R) == \A at, f, K : Has(R, at, f, K) => UsualOf(K) \in Samples
Sampled(R) ==
  \A at, f, K : Has(R, at, f, K) =>
    \/ Welcomes(R, at, f, UsualOf(K))
    \/ f = "tool_name" /\ Welcomes(R, at, f, "other")
    \/ f = "provisional_block_ttl_ms" /\ Welcomes(R, at, f, "large")

LEMMA UsualListed ==
  /\ DOMAIN Usual = 1..10
  /\ Usual[1] = "object" /\ Usual[2] = "objects" /\ Usual[3] = "listed" /\ Usual[4] = "other"
  /\ Usual[5] = "strings" /\ Usual[6] = "one" /\ Usual[7] = "large" /\ Usual[8] = "true"
  /\ Usual[9] = "C5" /\ Usual[10] = "observational"
  BY DEF Usual

LEMMA UsualFirst ==
  ASSUME NEW K, NEW i \in 1..10, Usual[i] \in K, \A j \in 1..(i - 1) : Usual[j] \notin K
  PROVE  UsualOf(K) = Usual[i]
<1> DEFINE P(k) == Usual[k] \in K /\ \A j \in 1..(k - 1) : Usual[j] \notin K
<1> DEFINE c == CHOOSE k \in 1..10 : P(k)
<1>1. c \in 1..10 /\ P(c)
  <2>1. \E k \in 1..10 : P(k)
    OBVIOUS
  <2> QED
    BY <2>1
<1>2. c = i
  <2> HIDE DEF c
  <2>1. CASE c < i
    BY <1>1, <2>1
  <2>2. CASE i < c
    BY <1>1, <2>2
  <2> QED
    BY <1>1, <2>1, <2>2
<1> QED
  BY <1>2, UsualListed DEF UsualOf

LEMMA UsualRules ==
  /\ \A K : "object" \in K => UsualOf(K) = "object"
  /\ \A K : "objects" \in K /\ "object" \notin K => UsualOf(K) = "objects"
  /\ \A K : "listed" \in K /\ "object" \notin K /\ "objects" \notin K => UsualOf(K) = "listed"
  /\ \A K : "other" \in K
              /\ K \cap {"object", "objects", "listed"} = {} => UsualOf(K) = "other"
  /\ \A K : "strings" \in K
              /\ K \cap {"object", "objects", "listed", "other"} = {} => UsualOf(K) = "strings"
  /\ \A K : "one" \in K
              /\ K \cap {"object", "objects", "listed", "other", "strings"} = {}
               => UsualOf(K) = "one"
  /\ \A K : "large" \in K
              /\ K \cap {"object", "objects", "listed", "other", "strings", "one"} = {}
               => UsualOf(K) = "large"
  /\ \A K : "true" \in K
              /\ K \cap {"object", "objects", "listed", "other", "strings", "one", "large"} = {}
               => UsualOf(K) = "true"
  /\ \A K : "C5" \in K
              /\ K \cap {"object", "objects", "listed", "other", "strings", "one", "large",
                        "true"} = {}
               => UsualOf(K) = "C5"
  /\ \A K : "observational" \in K
              /\ K \cap {"object", "objects", "listed", "other", "strings", "one", "large",
                        "true", "C5"} = {}
               => UsualOf(K) = "observational"
  BY UsualFirst, UsualListed

LEMMA UsualKinds ==
  /\ UsualOf(Listed) = "listed" /\ UsualOf(Nullable(Listed)) = "listed"
  /\ UsualOf(Str) = "listed" /\ UsualOf(Nullable(Str)) = "listed"
  /\ UsualOf(NonEmpty) = "listed" /\ UsualOf(DecisionStatus) = "listed"
  /\ UsualOf(NotReserved) = "other"
  /\ UsualOf(isNumber) = "one" /\ UsualOf(Nullable(isNumber)) = "one"
  /\ UsualOf(isInteger) = "one" /\ UsualOf(Nullable(isInteger)) = "one"
  /\ UsualOf(NonNegative) = "one" /\ UsualOf(isPositiveInteger) = "one"
  /\ UsualOf(Level) = "one" /\ UsualOf(HourOrMore) = "large"
  /\ UsualOf(isBoolean) = "true" /\ UsualOf(isObject) = "object"
  /\ UsualOf(Objects) = "objects" /\ UsualOf(UpToTen) = "objects"
  /\ UsualOf(isArray) = "objects" /\ UsualOf(Strings) = "strings"
  /\ UsualOf(Classes) = "C5" /\ UsualOf(Qualities) = "observational"
  BY UsualRules
  DEF Listed, RateLimited, Null, Str, NonEmpty, NotReserved, isInteger, isNumber,
      NonNegative, isPositiveInteger, Level, HourOrMore, isObject, isArray, Strings,
      Objects, UpToTen, isBoolean, Classes, Qualities, Nullable, DecisionStatus

LEMMA SamplesListed ==
  /\ "listed" \in Samples /\ "other" \in Samples /\ "strings" \in Samples /\ "one" \in Samples
  /\ "large" \in Samples /\ "true" \in Samples /\ "object" \in Samples /\ "objects" \in Samples
  /\ "C5" \in Samples /\ "observational" \in Samples
  BY DEF Samples

LEMMA UsualIn ==
  /\ "listed" \in Listed /\ "listed" \in Str /\ "listed" \in NonEmpty
  /\ "listed" \in DecisionStatus /\ "listed" \in Nullable(Str) /\ "listed" \in Nullable(Listed)
  /\ "other" \in NotReserved /\ "other" \in Str /\ "other" \in NonEmpty
  /\ "one" \in isNumber /\ "one" \in isInteger /\ "one" \in NonNegative
  /\ "one" \in isPositiveInteger /\ "one" \in Level
  /\ "one" \in Nullable(isNumber) /\ "one" \in Nullable(isInteger)
  /\ "large" \in HourOrMore /\ "large" \in isNumber
  /\ "true" \in isBoolean /\ "object" \in isObject
  /\ "objects" \in Objects /\ "objects" \in UpToTen /\ "objects" \in isArray
  /\ "strings" \in Strings /\ "C5" \in Classes /\ "observational" \in Qualities
  BY DEF Kinds, Listed, RateLimited, Null, Str, NonEmpty, NotReserved, isInteger, isNumber,
         NonNegative, isPositiveInteger, Level, HourOrMore, PyInt, isObject, isArray, Strings,
         Objects, UpToTen, isBoolean, Classes, Qualities, Nullable, DecisionStatus

(* A field that holds a container, and tables all of whose containers are held. *)
Opens(R, at, f) == Has(R, at, f, isObject) \/ Has(R, at, f, Objects)
Held(R) == \A at, f : Knows(R, at, f) => at = "body" \/ \E c : Opens(R, c, at)

(* The table of a body. *)
Tidy(R) ==
  /\ Nests(R) /\ Named(R) /\ Sampled(R) /\ Held(R)
  /\ \A at, f : Knows(R, at, f) => at # "envelope"

LEMMA DeclarationTidy ==
  Tidy(CapabilityDeclarationBody \sqcup validateCapabilityDeclarationBody)
<1> DEFINE R == CapabilityDeclarationBody \sqcup validateCapabilityDeclarationBody
<1>1. \A at, f : Knows(R, at, f) =>
        at \in {"body", "identity_binding", "capabilities", "declared_limits",
               "preconditions"}
  BY KnowsRules
  DEF CapabilityDeclarationBody, validateCapabilityDeclarationBody, Capability,
      CapabilityPredicate, IdentityBinding, validateCapability, validatePredicateArray,
      validateIdentityBinding
<1>2. /\ Opens(CapabilityDeclarationBody, "body", "identity_binding")
      /\ Opens(CapabilityDeclarationBody, "body", "capabilities")
      /\ Opens(CapabilityDeclarationBody, "body", "declared_limits")
      /\ Opens(CapabilityDeclarationBody, "capabilities", "preconditions")
  BY HasRules
  DEF Opens, CapabilityDeclarationBody, Capability, CapabilityPredicate, IdentityBinding
<1>3. Nests(R)
  BY KnowsRules
  DEF Nests, In0, In1, In2, In3, In4,
      CapabilityDeclarationBody, validateCapabilityDeclarationBody, Capability,
      CapabilityPredicate, IdentityBinding, validateCapability, validatePredicateArray,
      validateIdentityBinding
<1>4. Sampled(R)
  BY HasRules, WelcomesRules, UsualKinds, UsualIn
  DEF Sampled, CapabilityDeclarationBody, validateCapabilityDeclarationBody, Capability,
      CapabilityPredicate, IdentityBinding, validateCapability, validatePredicateArray,
      validateIdentityBinding
<1>5. \A at, f : Opens(CapabilityDeclarationBody, at, f) => Opens(R, at, f)
  BY HasRules DEF Opens
<1>6. Named(R)
  BY HasRules, UsualKinds, SamplesListed
  DEF Named,
      CapabilityDeclarationBody, validateCapabilityDeclarationBody, Capability,
      CapabilityPredicate, IdentityBinding, validateCapability, validatePredicateArray,
      validateIdentityBinding
<1> HIDE DEF R
<1>7. Tidy(R)
  BY <1>1, <1>2, <1>3, <1>4, <1>5, <1>6 DEF Tidy, Held
<1> QED
  BY <1>7 DEF R

LEMMA GrantTidy == Tidy(CapabilityGrantBody \sqcup validateCapabilityGrantBody)
<1> DEFINE R == CapabilityGrantBody \sqcup validateCapabilityGrantBody
<1>1. \A at, f : Knows(R, at, f) =>
        at \in {"body", "capability_scopes", "grantee", "limits",
               "additional_preconditions", "aggregate_limits"}
  BY KnowsRules
  DEF CapabilityGrantBody, validateCapabilityGrantBody, GrantedCapabilityScope,
      CapabilityPredicate, validateScope, validatePredicateArray
<1>2. /\ Opens(CapabilityGrantBody, "body", "capability_scopes")
      /\ Opens(CapabilityGrantBody, "body", "grantee")
      /\ Opens(CapabilityGrantBody, "body", "limits")
      /\ Opens(CapabilityGrantBody, "capability_scopes", "additional_preconditions")
      /\ Opens(CapabilityGrantBody, "limits", "aggregate_limits")
  BY HasRules
  DEF Opens, CapabilityGrantBody, GrantedCapabilityScope, CapabilityPredicate
<1>3. Nests(R)
  BY KnowsRules
  DEF Nests, In0, In1, In2, In3, In4,
      CapabilityGrantBody, validateCapabilityGrantBody, GrantedCapabilityScope,
      CapabilityPredicate, validateScope, validatePredicateArray
<1>4. Sampled(R)
  <2>1. \A at, f, K : Has(CapabilityGrantBody, at, f, K) => Welcomes(R, at, f, UsualOf(K))
    BY HasRules, WelcomesRules, UsualKinds, UsualIn
    DEF CapabilityGrantBody, validateCapabilityGrantBody, GrantedCapabilityScope,
        CapabilityPredicate, validateScope, validatePredicateArray
  <2>2. \A at, f, K : Has(validateCapabilityGrantBody, at, f, K) =>
          Welcomes(CapabilityGrantBody, at, f, UsualOf(K))
    BY HasRules, WelcomesRules, UsualKinds, UsualIn
    DEF CapabilityGrantBody, validateCapabilityGrantBody, GrantedCapabilityScope,
        CapabilityPredicate, validateScope, validatePredicateArray
  <2>3. \A at, f, K : Has(validateCapabilityGrantBody, at, f, K) =>
          Welcomes(validateCapabilityGrantBody, at, f, UsualOf(K))
    BY HasRules, WelcomesRules, UsualKinds, UsualIn
    DEF CapabilityGrantBody, validateCapabilityGrantBody, GrantedCapabilityScope,
        CapabilityPredicate, validateScope, validatePredicateArray
  <2> QED
    BY <2>1, <2>2, <2>3, WelcomesRules, HasRules DEF Sampled
<1>5. \A at, f : Opens(CapabilityGrantBody, at, f) => Opens(R, at, f)
  BY HasRules DEF Opens
<1>6. Named(R)
  BY HasRules, UsualKinds, SamplesListed
  DEF Named,
      CapabilityGrantBody, validateCapabilityGrantBody, GrantedCapabilityScope,
      CapabilityPredicate, validateScope, validatePredicateArray
<1> HIDE DEF R
<1>7. Tidy(R)
  BY <1>1, <1>2, <1>3, <1>4, <1>5, <1>6 DEF Tidy, Held
<1> QED
  BY <1>7 DEF R

LEMMA InvocationTidy == Tidy(CapabilityInvocationBody \sqcup validateCapabilityInvocationBody)
<1> DEFINE R == CapabilityInvocationBody \sqcup validateCapabilityInvocationBody
<1>1. \A at, f : Knows(R, at, f) =>
        at \in {"body", "caller", "mcp_tool_call", "workflow_context", "sla_hint",
               "delegation_chain"}
  BY KnowsRules
  DEF CapabilityInvocationBody, validateCapabilityInvocationBody, DelegationStep,
      McpToolCallContext, validateDelegationStep, validateMcpToolCallContext
<1>2. /\ Opens(CapabilityInvocationBody, "body", "caller")
      /\ Opens(CapabilityInvocationBody, "body", "mcp_tool_call")
      /\ Opens(CapabilityInvocationBody, "body", "workflow_context")
      /\ Opens(CapabilityInvocationBody, "body", "sla_hint")
      /\ Opens(CapabilityInvocationBody, "body", "delegation_chain")
  BY HasRules
  DEF Opens, CapabilityInvocationBody, DelegationStep, McpToolCallContext
<1>3. Nests(R)
  BY KnowsRules
  DEF Nests, In0, In1, In2, In3, In4,
      CapabilityInvocationBody, validateCapabilityInvocationBody, DelegationStep,
      McpToolCallContext, validateDelegationStep, validateMcpToolCallContext
<1>4. Sampled(R)
  BY HasRules, WelcomesRules, UsualKinds, UsualIn
  DEF Sampled, CapabilityInvocationBody, validateCapabilityInvocationBody, DelegationStep,
      McpToolCallContext, validateDelegationStep, validateMcpToolCallContext
<1>5. \A at, f : Opens(CapabilityInvocationBody, at, f) => Opens(R, at, f)
  BY HasRules DEF Opens
<1>6. Named(R)
  BY HasRules, UsualKinds, SamplesListed
  DEF Named,
      CapabilityInvocationBody, validateCapabilityInvocationBody, DelegationStep,
      McpToolCallContext, validateDelegationStep, validateMcpToolCallContext
<1> HIDE DEF R
<1>7. Tidy(R)
  BY <1>1, <1>2, <1>3, <1>4, <1>5, <1>6 DEF Tidy, Held
<1> QED
  BY <1>7 DEF R

LEMMA WorkflowTidy == Tidy(WorkflowDefinitionBody \sqcup validateWorkflowDefinitionBody)
<1> DEFINE R == WorkflowDefinitionBody \sqcup validateWorkflowDefinitionBody
<1>1. \A at, f : Knows(R, at, f) =>
        at \in {"body", "stages", "trigger", "optional_effects", "safety", "actions",
               "listen", "on_timeout", "on_action_failure", "invocation",
               "precondition", "action", "two_person", "next", "on_success",
               "on_failure"}
  BY KnowsRules
  DEF WorkflowDefinitionBody, validateWorkflowDefinitionBody, WorkflowTrigger,
      WorkflowStage, StageTransitionTarget, StageAction, OptionalEffect, StageListen,
      CapabilityPredicate, StageSafety
<1>2. /\ Opens(WorkflowDefinitionBody, "body", "stages")
      /\ Opens(WorkflowDefinitionBody, "body", "trigger")
      /\ \A at, f : Opens(WorkflowStage, at, f) => Opens(WorkflowDefinitionBody, at, f)
  BY HasRules DEF Opens, WorkflowDefinitionBody
<1>3. \A f \in {"actions", "optional_effects", "listen", "on_timeout",
                 "on_action_failure", "invocation", "precondition", "safety"} :
        Opens(WorkflowStage, "stages", f)
  BY HasRules DEF Opens, WorkflowStage
<1>4. /\ Opens(WorkflowStage, "optional_effects", "action")
      /\ Opens(WorkflowStage, "safety", "two_person")
      /\ Opens(WorkflowStage, "listen", "next")
      /\ Opens(WorkflowStage, "invocation", "on_success")
      /\ Opens(WorkflowStage, "invocation", "on_failure")
  BY HasRules DEF Opens, WorkflowStage, OptionalEffect, StageListen, StageSafety
<1>5. Nests(R)
  BY KnowsRules
  DEF Nests, In0, In1, In2, In3, In4,
      WorkflowDefinitionBody, validateWorkflowDefinitionBody, WorkflowTrigger,
      WorkflowStage, StageTransitionTarget, StageAction, OptionalEffect, StageListen,
      CapabilityPredicate, StageSafety
<1>6. Sampled(R)
  BY HasRules, WelcomesRules, UsualKinds, UsualIn
  DEF Sampled, WorkflowDefinitionBody, validateWorkflowDefinitionBody, WorkflowTrigger,
      WorkflowStage, StageTransitionTarget, StageAction, OptionalEffect, StageListen,
      CapabilityPredicate, StageSafety
<1>7. \A at, f : Opens(WorkflowDefinitionBody, at, f) => Opens(R, at, f)
  BY HasRules DEF Opens
<1>8. Named(R)
  BY HasRules, UsualKinds, SamplesListed
  DEF Named,
      WorkflowDefinitionBody, validateWorkflowDefinitionBody, WorkflowTrigger,
      WorkflowStage, StageTransitionTarget, StageAction, OptionalEffect, StageListen,
      CapabilityPredicate, StageSafety
<1> HIDE DEF R
<1>9. Tidy(R)
  BY <1>1, <1>2, <1>3, <1>4, <1>5, <1>6, <1>7, <1>8 DEF Tidy, Held
<1> QED
  BY <1>9 DEF R

LEMMA InstanceTidy == Tidy(WorkflowInstanceBody \sqcup validateWorkflowInstanceBody)
<1> DEFINE R == WorkflowInstanceBody \sqcup validateWorkflowInstanceBody
<1>1. \A at, f : Knows(R, at, f) =>
        at \in {"body", "trigger_event", "active_channel_listeners", "listen_spec",
               "next"}
  BY KnowsRules
  DEF WorkflowInstanceBody, validateWorkflowInstanceBody, StageListen,
      StageTransitionTarget
<1>2. /\ Opens(WorkflowInstanceBody, "body", "trigger_event")
      /\ Opens(WorkflowInstanceBody, "body", "active_channel_listeners")
      /\ Opens(WorkflowInstanceBody, "active_channel_listeners", "listen_spec")
      /\ Opens(WorkflowInstanceBody, "listen_spec", "next")
  BY HasRules
  DEF Opens, WorkflowInstanceBody, StageListen, StageTransitionTarget
<1>3. Nests(R)
  BY KnowsRules
  DEF Nests, In0, In1, In2, In3, In4,
      WorkflowInstanceBody, validateWorkflowInstanceBody, StageListen,
      StageTransitionTarget
<1>4. Sampled(R)
  BY HasRules, WelcomesRules, UsualKinds, UsualIn
  DEF Sampled, WorkflowInstanceBody, validateWorkflowInstanceBody, StageListen,
      StageTransitionTarget
<1>5. \A at, f : Opens(WorkflowInstanceBody, at, f) => Opens(R, at, f)
  BY HasRules DEF Opens
<1>6. Named(R)
  BY HasRules, UsualKinds, SamplesListed
  DEF Named,
      WorkflowInstanceBody, validateWorkflowInstanceBody, StageListen,
      StageTransitionTarget
<1> HIDE DEF R
<1>7. Tidy(R)
  BY <1>1, <1>2, <1>3, <1>4, <1>5, <1>6 DEF Tidy, Held
<1> QED
  BY <1>7 DEF R

LEMMA TransitionTidy == Tidy(StageTransitionBody \sqcup validateStageTransitionBody)
<1> DEFINE R == StageTransitionBody \sqcup validateStageTransitionBody
<1>1. \A at, f : Knows(R, at, f) =>
        at = "body"
  BY KnowsRules
  DEF StageTransitionBody, validateStageTransitionBody
<1>2. Nests(R)
  BY KnowsRules
  DEF Nests, In0, In1, In2, In3, In4,
      StageTransitionBody, validateStageTransitionBody
<1>3. Sampled(R)
  BY HasRules, WelcomesRules, UsualKinds, UsualIn
  DEF Sampled, StageTransitionBody, validateStageTransitionBody
<1>4. Named(R)
  BY HasRules, UsualKinds, SamplesListed
  DEF Named,
      StageTransitionBody, validateStageTransitionBody
<1> HIDE DEF R
<1>5. Tidy(R)
  BY <1>1, <1>2, <1>3, <1>4 DEF Tidy, Held
<1> QED
  BY <1>5 DEF R

LEMMA ChannelTidy == Tidy(ChannelEventBody \sqcup validateChannelEventBody)
<1> DEFINE R == ChannelEventBody \sqcup validateChannelEventBody
<1>1. \A at, f : Knows(R, at, f) =>
        at = "body"
  BY KnowsRules
  DEF ChannelEventBody, validateChannelEventBody
<1>2. Nests(R)
  BY KnowsRules
  DEF Nests, In0, In1, In2, In3, In4,
      ChannelEventBody, validateChannelEventBody
<1>3. Sampled(R)
  BY HasRules, WelcomesRules, UsualKinds, UsualIn
  DEF Sampled, ChannelEventBody, validateChannelEventBody
<1>4. Named(R)
  BY HasRules, UsualKinds, SamplesListed
  DEF Named,
      ChannelEventBody, validateChannelEventBody
<1> HIDE DEF R
<1>5. Tidy(R)
  BY <1>1, <1>2, <1>3, <1>4 DEF Tidy, Held
<1> QED
  BY <1>5 DEF R

LEMMA ReceiptTidy == Tidy(GapDecisionReceiptBody \sqcup validateGapDecisionReceiptBody)
<1> DEFINE R == GapDecisionReceiptBody \sqcup validateGapDecisionReceiptBody
<1>1. \A at, f : Knows(R, at, f) =>
        at \in {"body", "initiator", "token_consumption", "measured", "metrics",
               "signer_identity"}
  BY KnowsRules
  DEF GapDecisionReceiptBody, validateGapDecisionReceiptBody, TokenConsumption,
      MeasuredResult, validateTokenConsumption, validateMeasuredResult
<1>2. /\ Opens(GapDecisionReceiptBody, "body", "initiator")
      /\ Opens(GapDecisionReceiptBody, "body", "token_consumption")
      /\ Opens(GapDecisionReceiptBody, "body", "measured")
      /\ Opens(GapDecisionReceiptBody, "body", "metrics")
      /\ Opens(GapDecisionReceiptBody, "body", "signer_identity")
  BY HasRules
  DEF Opens, GapDecisionReceiptBody, TokenConsumption, MeasuredResult
<1>3. Nests(R)
  BY KnowsRules
  DEF Nests, In0, In1, In2, In3, In4,
      GapDecisionReceiptBody, validateGapDecisionReceiptBody, TokenConsumption,
      MeasuredResult, validateTokenConsumption, validateMeasuredResult
<1>4. Sampled(R)
  BY HasRules, WelcomesRules, UsualKinds, UsualIn
  DEF Sampled, GapDecisionReceiptBody, validateGapDecisionReceiptBody, TokenConsumption,
      MeasuredResult, validateTokenConsumption, validateMeasuredResult
<1>5. \A at, f : Opens(GapDecisionReceiptBody, at, f) => Opens(R, at, f)
  BY HasRules DEF Opens
<1>6. Named(R)
  BY HasRules, UsualKinds, SamplesListed
  DEF Named,
      GapDecisionReceiptBody, validateGapDecisionReceiptBody, TokenConsumption,
      MeasuredResult, validateTokenConsumption, validateMeasuredResult
<1> HIDE DEF R
<1>7. Tidy(R)
  BY <1>1, <1>2, <1>3, <1>4, <1>5, <1>6 DEF Tidy, Held
<1> QED
  BY <1>7 DEF R

LEMMA RevocationTidy == Tidy(RevocationEventBody \sqcup validateRevocationEventBody)
<1> DEFINE R == RevocationEventBody \sqcup validateRevocationEventBody
<1>1. \A at, f : Knows(R, at, f) =>
        at \in {"body", "approvers", "provisional_block_policy"}
  BY KnowsRules
  DEF RevocationEventBody, validateRevocationEventBody
<1>2. /\ Opens(RevocationEventBody, "body", "approvers")
      /\ Opens(RevocationEventBody, "body", "provisional_block_policy")
  BY HasRules
  DEF Opens, RevocationEventBody
<1>3. Nests(R)
  BY KnowsRules
  DEF Nests, In0, In1, In2, In3, In4,
      RevocationEventBody, validateRevocationEventBody
<1>4. Sampled(R)
  BY HasRules, WelcomesRules, UsualKinds, UsualIn
  DEF Sampled, RevocationEventBody, validateRevocationEventBody
<1>5. \A at, f : Opens(RevocationEventBody, at, f) => Opens(R, at, f)
  BY HasRules DEF Opens
<1>6. Named(R)
  BY HasRules, UsualKinds, SamplesListed
  DEF Named,
      RevocationEventBody, validateRevocationEventBody
<1> HIDE DEF R
<1>7. Tidy(R)
  BY <1>1, <1>2, <1>3, <1>4, <1>5, <1>6 DEF Tidy, Held
<1> QED
  BY <1>7 DEF R

LEMMA ChainTidy == Tidy(OrchestrationChainBody \sqcup validateOrchestrationChainBody)
<1> DEFINE R == OrchestrationChainBody \sqcup validateOrchestrationChainBody
<1>1. \A at, f : Knows(R, at, f) =>
        at \in {"body", "steps"}
  BY KnowsRules
  DEF OrchestrationChainBody, validateOrchestrationChainBody, DelegationStep,
      validateDelegationStep
<1>2. /\ Opens(OrchestrationChainBody, "body", "steps")
  BY HasRules
  DEF Opens, OrchestrationChainBody, DelegationStep
<1>3. Nests(R)
  BY KnowsRules
  DEF Nests, In0, In1, In2, In3, In4,
      OrchestrationChainBody, validateOrchestrationChainBody, DelegationStep,
      validateDelegationStep
<1>4. Sampled(R)
  BY HasRules, WelcomesRules, UsualKinds, UsualIn
  DEF Sampled, OrchestrationChainBody, validateOrchestrationChainBody, DelegationStep,
      validateDelegationStep
<1>5. \A at, f : Opens(OrchestrationChainBody, at, f) => Opens(R, at, f)
  BY HasRules DEF Opens
<1>6. Named(R)
  BY HasRules, UsualKinds, SamplesListed
  DEF Named,
      OrchestrationChainBody, validateOrchestrationChainBody, DelegationStep,
      validateDelegationStep
<1> HIDE DEF R
<1>7. Tidy(R)
  BY <1>1, <1>2, <1>3, <1>4, <1>5, <1>6 DEF Tidy, Held
<1> QED
  BY <1>7 DEF R

LEMMA ConsentTidy == Tidy(ConsentRecordBody \sqcup validateConsentRecordBody)
<1> DEFINE R == ConsentRecordBody \sqcup validateConsentRecordBody
<1>1. \A at, f : Knows(R, at, f) =>
        at = "body"
  BY KnowsRules
  DEF ConsentRecordBody, validateConsentRecordBody
<1>2. Nests(R)
  BY KnowsRules
  DEF Nests, In0, In1, In2, In3, In4,
      ConsentRecordBody, validateConsentRecordBody
<1>3. Sampled(R)
  BY HasRules, WelcomesRules, UsualKinds, UsualIn
  DEF Sampled, ConsentRecordBody, validateConsentRecordBody
<1>4. Named(R)
  BY HasRules, UsualKinds, SamplesListed
  DEF Named,
      ConsentRecordBody, validateConsentRecordBody
<1> HIDE DEF R
<1>5. Tidy(R)
  BY <1>1, <1>2, <1>3, <1>4 DEF Tidy, Held
<1> QED
  BY <1>5 DEF R

LEMMA PipTidy == Tidy(PipResponseBody \sqcup validatePipResponseBody)
<1> DEFINE R == PipResponseBody \sqcup validatePipResponseBody
<1>1. \A at, f : Knows(R, at, f) =>
        at = "body"
  BY KnowsRules
  DEF PipResponseBody, validatePipResponseBody
<1>2. Nests(R)
  BY KnowsRules
  DEF Nests, In0, In1, In2, In3, In4,
      PipResponseBody, validatePipResponseBody
<1>3. Sampled(R)
  BY HasRules, WelcomesRules, UsualKinds, UsualIn
  DEF Sampled, PipResponseBody, validatePipResponseBody
<1>4. Named(R)
  BY HasRules, UsualKinds, SamplesListed
  DEF Named,
      PipResponseBody, validatePipResponseBody
<1> HIDE DEF R
<1>5. Tidy(R)
  BY <1>1, <1>2, <1>3, <1>4 DEF Tidy, Held
<1> QED
  BY <1>5 DEF R

LEMMA PerimeterTidy == Tidy(PerimeterDeclarationBody \sqcup validatePerimeterDeclarationBody)
<1> DEFINE R == PerimeterDeclarationBody \sqcup validatePerimeterDeclarationBody
<1>1. \A at, f : Knows(R, at, f) =>
        at \in {"body", "governed_subject", "completeness_scope", "chokepoints_active",
               "blind_spots"}
  BY KnowsRules
  DEF PerimeterDeclarationBody, validatePerimeterDeclarationBody,
      validateGovernedSubject, validateCompletenessScope, validateChokepoint,
      validateBlindSpot
<1>2. /\ Opens(PerimeterDeclarationBody, "body", "governed_subject")
      /\ Opens(PerimeterDeclarationBody, "body", "completeness_scope")
      /\ Opens(PerimeterDeclarationBody, "body", "chokepoints_active")
      /\ Opens(PerimeterDeclarationBody, "body", "blind_spots")
  BY HasRules
  DEF Opens, PerimeterDeclarationBody
<1>3. Nests(R)
  BY KnowsRules
  DEF Nests, In0, In1, In2, In3, In4,
      PerimeterDeclarationBody, validatePerimeterDeclarationBody,
      validateGovernedSubject, validateCompletenessScope, validateChokepoint,
      validateBlindSpot
<1>4. Sampled(R)
  BY HasRules, WelcomesRules, UsualKinds, UsualIn
  DEF Sampled, PerimeterDeclarationBody, validatePerimeterDeclarationBody,
      validateGovernedSubject, validateCompletenessScope, validateChokepoint,
      validateBlindSpot
<1>5. \A at, f : Opens(PerimeterDeclarationBody, at, f) => Opens(R, at, f)
  BY HasRules DEF Opens
<1>6. Named(R)
  BY HasRules, UsualKinds, SamplesListed
  DEF Named,
      PerimeterDeclarationBody, validatePerimeterDeclarationBody,
      validateGovernedSubject, validateCompletenessScope, validateChokepoint,
      validateBlindSpot
<1> HIDE DEF R
<1>7. Tidy(R)
  BY <1>1, <1>2, <1>3, <1>4, <1>5, <1>6 DEF Tidy, Held
<1> QED
  BY <1>7 DEF R

LEMMA EnvelopeTidy ==
  LET E == GapCdroEnvelope \sqcup validateEnvelopeShape IN
  /\ Nests(E) /\ Named(E) /\ Sampled(E)
  /\ \A at, f : Knows(E, at, f) => at = "envelope"
  /\ Opens(E, "envelope", "body")
<1> DEFINE E == GapCdroEnvelope \sqcup validateEnvelopeShape
<1>1. Nests(E)
  BY KnowsRules
  DEF Nests, In0, In1, In2, In3, In4, GapCdroEnvelope, validateEnvelopeShape
<1>2. Named(E)
  BY HasRules, UsualKinds, SamplesListed
  DEF Named, GapCdroEnvelope, validateEnvelopeShape
<1>3. Sampled(E)
  BY HasRules, WelcomesRules, UsualKinds, UsualIn
  DEF Sampled, GapCdroEnvelope, validateEnvelopeShape
<1>4. \A at, f : Knows(E, at, f) => at = "envelope"
  BY KnowsRules DEF GapCdroEnvelope, validateEnvelopeShape
<1>5. Opens(E, "envelope", "body")
  BY HasRules DEF Opens, GapCdroEnvelope, validateEnvelopeShape
<1> QED
  BY <1>1, <1>2, <1>3, <1>4, <1>5

LEMMA BodiesTidy ==
  \A t \in Types : \E I : Interface[t] = GapCdroEnvelope \sqcup I /\ Tidy(I \sqcup BodyShape[t])
  BY TypesListed, TablesOf, BodiesOf, DeclarationTidy, GrantTidy, InvocationTidy,
     WorkflowTidy, InstanceTidy, TransitionTidy, ChannelTidy, ReceiptTidy, RevocationTidy,
     ChainTidy, ConsentTidy, PipTidy, PerimeterTidy

(* The two TypeScript tables of a type, joined. *)
Script(t) == Interface[t] \sqcup Shape[t]

LEMMA TakesKnows ==
  \A R, at, f, K : Takes(R, at, f, K) => Knows(R, at, f)
  BY DEF Takes, Knows

LEMMA HasKnows ==
  \A R, at, f : Knows(R, at, f) => \E K : Has(R, at, f, K)
  BY DEF Knows, Has

LEMMA WelcomesUnknown ==
  \A R, at, f, k : ~Knows(R, at, f) => Welcomes(R, at, f, k)
  BY DEF Knows, Welcomes

LEMMA HasWelcomes ==
  \A R, at, f, K, k : Has(R, at, f, K) /\ Welcomes(R, at, f, k) => k \in K
  BY DEF Has, Welcomes

LEMMA OpensWelcomes ==
  ASSUME NEW R, NEW at, NEW f, Sampled(R), Opens(R, at, f)
  PROVE  /\ Knows(R, at, f)
         /\ Welcomes(R, at, f, "object") \/ Welcomes(R, at, f, "objects")
<1>1. Knows(R, at, f)
  BY DEF Opens, Has, Knows
<1>2. \A k \in {"other", "large"} : k \notin isObject /\ k \notin Objects
  BY DEF isObject, Objects
<1> QED
  BY <1>1, <1>2, UsualKinds, HasWelcomes DEF Opens, Sampled

LEMMA ScriptTidy ==
  ASSUME NEW t \in Types
  PROVE  /\ Nests(Script(t))
         /\ \A at, f : Knows(Script(t), at, f) =>
              \E k : k \in Samples /\ Welcomes(Script(t), at, f, k)
         /\ \A at, f : Knows(Script(t), at, f) =>
              at = "envelope" \/
              \E c : /\ Knows(Script(t), c, at)
                     /\ \/ Welcomes(Script(t), c, at, "object")
                        \/ Welcomes(Script(t), c, at, "objects")
<1> DEFINE E == GapCdroEnvelope \sqcup validateEnvelopeShape
<1> PICK I : Interface[t] = GapCdroEnvelope \sqcup I /\ Tidy(I \sqcup BodyShape[t])
  BY BodiesTidy
<1> DEFINE B == I \sqcup BodyShape[t]
<1> DEFINE R == Script(t)
<1>1. Shape[t] = validateEnvelopeShape \sqcup BodyShape[t]
  BY ShapesOf
<1>2. /\ \A at, f : Knows(R, at, f) <=> Knows(E, at, f) \/ Knows(B, at, f)
      /\ \A at, f, k : Welcomes(R, at, f, k) <=> Welcomes(E, at, f, k) /\ Welcomes(B, at, f, k)
  BY <1>1, KnowsRules, WelcomesRules DEF Script
<1>3. /\ Nests(E) /\ Named(E) /\ Sampled(E)
      /\ \A at, f : Knows(E, at, f) => at = "envelope"
      /\ Opens(E, "envelope", "body")
  BY EnvelopeTidy
<1>4. /\ Nests(B) /\ Named(B) /\ Sampled(B) /\ Held(B)
      /\ \A at, f : Knows(B, at, f) => at # "envelope"
  BY DEF Tidy
<1> HIDE DEF E, B, R
<1>5. Nests(R)
  BY <1>2, <1>3, <1>4 DEF Nests
<1>6. ASSUME NEW T, NEW at, NEW f, Knows(T, at, f), Named(T), Sampled(T)
      PROVE  \E k : k \in Samples /\ Welcomes(T, at, f, k)
  <2> PICK K : Has(T, at, f, K)
    BY <1>6, HasKnows
  <2> QED
    BY <1>6, SamplesListed DEF Named, Sampled
<1>7. ASSUME NEW at, NEW f, Knows(R, at, f)
      PROVE  \E k : k \in Samples /\ Welcomes(R, at, f, k)
  <2>1. CASE Knows(E, at, f)
    <3>1. ~Knows(B, at, f)
      BY <2>1, <1>3, <1>4
    <3> QED
      BY <2>1, <3>1, <1>2, <1>3, <1>6, WelcomesUnknown
  <2>2. CASE Knows(B, at, f)
    <3>1. ~Knows(E, at, f)
      BY <2>2, <1>3, <1>4
    <3> QED
      BY <2>2, <3>1, <1>2, <1>4, <1>6, WelcomesUnknown
  <2> QED
    BY <1>2, <1>7, <2>1, <2>2
<1>8. ASSUME NEW at, NEW f, Knows(R, at, f), at # "envelope"
      PROVE  \E c : /\ Knows(R, c, at)
                    /\ Welcomes(R, c, at, "object") \/ Welcomes(R, c, at, "objects")
  <2>1. Knows(B, at, f)
    BY <1>2, <1>3, <1>8
  <2>2. CASE at = "body"
    <3>1. Knows(E, "envelope", "body") /\ ~Knows(B, "envelope", "body")
      BY <1>3, <1>4, OpensWelcomes
    <3> QED
      BY <1>2, <1>3, <2>2, <3>1, OpensWelcomes, WelcomesUnknown
  <2>3. CASE at # "body"
    <3> PICK c : Opens(B, c, at)
      BY <1>4, <2>1, <2>3 DEF Held
    <3>1. Knows(B, c, at) /\ ~Knows(E, c, at)
      BY <1>3, <1>4, OpensWelcomes
    <3> QED
      BY <1>2, <1>4, <3>1, OpensWelcomes, WelcomesUnknown
  <2> QED
    BY <2>2, <2>3
<1> QED
  BY <1>5, <1>7, <1>8 DEF R

-----------------------------------------------------------------------------
(* With the Python table *)

LEMMA PythonWelcomes ==
  ASSUME NEW t \in PyTypes, NEW at, NEW f, ~(t = "pip_response" /\ at = "body" /\ f = "args")
  PROVE  /\ Knows(PyShape[t], at, f) => Knows(Shape[t], at, f)
         /\ \A k : k \notin {"decimal", "huge"} /\ Welcomes(Shape[t], at, f, k) =>
              Welcomes(PyShape[t], at, f, k)
<1> DEFINE S == Shape[t]
<1> DEFINE P == PyShape[t]
<1>1. \A L : Has(P, at, f, L) =>
        \/ Takes(S, at, f, Relayable(L))
        \/ AnInt(S, at, f, L)
  <2>1. Laxer(t, S, P)
    BY AllLaxer
  <2> HIDE DEF S, P
  <2> QED
    BY <2>1 DEF Laxer
<1>2. Knows(PyShape[t], at, f) => Knows(Shape[t], at, f)
  BY <1>1, HasKnows DEF AnInt, Takes, Knows
<1>3. ASSUME NEW k, k \notin {"decimal", "huge"}, Welcomes(Shape[t], at, f, k)
      PROVE  Welcomes(PyShape[t], at, f, k)
  <2> SUFFICES ASSUME NEW r \in PyShape[t], r.at = at, r.field = f
               PROVE  k \in r.kinds
    BY DEF Welcomes
  <2>1. CASE Takes(Shape[t], at, f, Relayable(r.kinds))
    <3>1. k \in Relayable(r.kinds)
      BY <1>3, <2>1 DEF Takes, Welcomes, Within
    <3> QED
      BY <1>3, <3>1 DEF Relayable, PassedOn
  <2>2. CASE AnInt(Shape[t], at, f, r.kinds)
    <3>1. k \in isInteger
      BY <1>3, <2>2 DEF AnInt, Takes, Welcomes, Within
    <3> QED
      BY <1>3, <2>2, <3>1 DEF AnInt, Nullable, PyInt
  <2> QED
    BY <1>1, <2>1, <2>2 DEF Has
<1> QED
  BY <1>2, <1>3

LEMMA PythonArgs ==
  /\ ~Knows(Script("pip_response"), "body", "args")
  /\ Knows(Script("pip_response"), "body", "pip_endpoint")
  /\ Welcomes(PyShape["pip_response"], "body", "args", "object")
<1>1. Script("pip_response") = (GapCdroEnvelope \sqcup PipResponseBody)
                                 \sqcup (validateEnvelopeShape \sqcup validatePipResponseBody)
  BY TablesOf, ShapesOf, BodiesOf, TypesListed DEF Script
<1>2. ~Knows(Script("pip_response"), "body", "args")
  BY <1>1, KnowsRules
  DEF GapCdroEnvelope, PipResponseBody, validateEnvelopeShape, validatePipResponseBody
<1>3. Knows(Script("pip_response"), "body", "pip_endpoint")
  BY <1>1, KnowsRules DEF PipResponseBody
<1>4. "pip_response" \in PyTypes
  BY TypesListed DEF PyTypes
<1>5. ASSUME NEW r \in PyShape["pip_response"], r.at = "body", r.field = "args"
      PROVE  "object" \in r.kinds
  <2>1. \/ Takes(Shape["pip_response"], "body", "args", Relayable(r.kinds))
        \/ AnInt(Shape["pip_response"], "body", "args", r.kinds)
        \/ r.kinds = Nullable(isObject)
    <3>1. Laxer("pip_response", Shape["pip_response"], PyShape["pip_response"])
      BY <1>4, AllLaxer
    <3>2. Has(PyShape["pip_response"], "body", "args", r.kinds)
      BY <1>5 DEF Has
    <3> QED
      BY <3>1, <3>2 DEF Laxer
  <2>2. /\ ~Takes(Shape["pip_response"], "body", "args", Relayable(r.kinds))
        /\ ~AnInt(Shape["pip_response"], "body", "args", r.kinds)
    BY <1>2, KnowsRules, TakesKnows DEF Script, AnInt
  <2> QED
    BY <2>1, <2>2 DEF Nullable, isObject
<1> QED
  BY <1>2, <1>3, <1>5 DEF Welcomes

(* Of all that some validator of a type knows: containers nest, every field can have
   a usual kind, and every container but the envelope can be held. *)
LEMMA RowsTidy ==
  ASSUME NEW t \in Types
  PROVE  /\ Nests(Rows(t))
         /\ \A at, f : Knows(Rows(t), at, f) =>
              \E k : k \in Samples /\ Welcomes(Rows(t), at, f, k)
         /\ \A at, f : Knows(Rows(t), at, f) =>
              at = "envelope" \/
              \E c : /\ Knows(Rows(t), c, at)
                     /\ \/ Welcomes(Rows(t), c, at, "object")
                        \/ Welcomes(Rows(t), c, at, "objects")
<1> DEFINE P == IF t \in PyTypes THEN PyShape[t] ELSE {}
<1> DEFINE R == Rows(t)
<1> DEFINE Args(at, f) == t = "pip_response" /\ at = "body" /\ f = "args"
<1>1. /\ \A at, f : Knows(R, at, f) <=> Knows(Script(t), at, f) \/ Knows(P, at, f)
      /\ \A at, f, k : Welcomes(R, at, f, k) <=>
           Welcomes(Script(t), at, f, k) /\ Welcomes(P, at, f, k)
  BY KnowsRules, WelcomesRules DEF Rows, Script
<1>2. /\ \A at, f : Knows(P, at, f) /\ ~Args(at, f) => Knows(Script(t), at, f)
      /\ \A at, f, k :
           k \notin {"decimal", "huge"} /\ Welcomes(Script(t), at, f, k) /\ ~Args(at, f) =>
             Welcomes(P, at, f, k)
  <2>1. CASE t \in PyTypes
    <3>1. /\ \A at, f : Knows(Shape[t], at, f) => Knows(Script(t), at, f)
          /\ \A at, f, k : Welcomes(Script(t), at, f, k) => Welcomes(Shape[t], at, f, k)
      BY KnowsRules, WelcomesRules DEF Script
    <3> QED
      BY <2>1, <3>1, PythonWelcomes
  <2>2. CASE t \notin PyTypes
    BY <2>2 DEF Knows, Welcomes
  <2> QED
    BY <2>1, <2>2
<1>3. "decimal" \notin Samples /\ "huge" \notin Samples
  BY DEF Samples
<1> HIDE DEF P, R
<1>4. Nests(R)
  <2>1. /\ "args" \notin In0 /\ "args" \notin In1 /\ "args" \notin In2 /\ "args" \notin In3
        /\ "args" \notin In4 /\ "body" \in In4
    BY DEF In0, In1, In2, In3, In4
  <2> QED
    BY <1>1, <1>2, <2>1, ScriptTidy DEF Nests
<1>5. ASSUME NEW at, NEW f, Knows(R, at, f)
      PROVE  \E k : k \in Samples /\ Welcomes(R, at, f, k)
  <2>1. CASE Args(at, f)
    <3>1. Welcomes(Script(t), at, f, "object") /\ Welcomes(P, at, f, "object")
      BY <2>1, PythonArgs, WelcomesUnknown, TypesListed DEF P, PyTypes
    <3> QED
      BY <1>1, <3>1, SamplesListed
  <2>2. CASE ~Args(at, f)
    <3>1. PICK k : k \in Samples /\ Welcomes(Script(t), at, f, k)
      BY <1>1, <1>2, <1>5, <2>2, ScriptTidy
    <3> QED
      BY <1>1, <1>2, <1>3, <2>2, <3>1
  <2> QED
    BY <2>1, <2>2
<1>6. ASSUME NEW at, NEW f, Knows(R, at, f), at # "envelope"
      PROVE  \E c : /\ Knows(R, c, at)
                    /\ Welcomes(R, c, at, "object") \/ Welcomes(R, c, at, "objects")
  <2>1. \E g : Knows(Script(t), at, g)
    BY <1>1, <1>2, <1>6, PythonArgs
  <2>2. at # "args" /\ {"object", "objects"} \cap {"decimal", "huge"} = {}
    BY <1>4, <1>6 DEF Nests, In0, In1, In2, In3, In4
  <2>3. PICK c : /\ Knows(Script(t), c, at)
                 /\ \/ Welcomes(Script(t), c, at, "object")
                    \/ Welcomes(Script(t), c, at, "objects")
    BY <1>6, <2>1, ScriptTidy
  <2> QED
    BY <1>1, <1>2, <2>2, <2>3
<1> QED
  BY <1>4, <1>5, <1>6 DEF R

(* Of which fields Python asks an int: the time of every envelope, and one field of
   each of two bodies, which no other body has. *)
Ints(t, R) ==
  /\ Knows(R, "body", "consented_at_ms") => t = "consent_record"
  /\ Knows(R, "body", "cache_ttl_ms") => t = "pip_response"

LEMMA BodiesInts ==
  \A t \in Types :
    \E I : Interface[t] = GapCdroEnvelope \sqcup I /\ Ints(t, I \sqcup BodyShape[t])
<1>1. Ints("capability_declaration",
           CapabilityDeclarationBody \sqcup validateCapabilityDeclarationBody)
  BY KnowsRules
  DEF Ints, CapabilityDeclarationBody, Capability, CapabilityPredicate, IdentityBinding,
      validateCapabilityDeclarationBody, validateCapability, validatePredicateArray,
      validateIdentityBinding
<1>2. Ints("capability_grant", CapabilityGrantBody \sqcup validateCapabilityGrantBody)
  BY KnowsRules
  DEF Ints, CapabilityGrantBody, GrantedCapabilityScope, CapabilityPredicate,
      validateCapabilityGrantBody, validateScope, validatePredicateArray
<1>3. Ints("capability_invocation",
           CapabilityInvocationBody \sqcup validateCapabilityInvocationBody)
  BY KnowsRules
  DEF Ints, CapabilityInvocationBody, DelegationStep, McpToolCallContext,
      validateCapabilityInvocationBody, validateDelegationStep, validateMcpToolCallContext
<1>4. Ints("workflow_definition", WorkflowDefinitionBody \sqcup validateWorkflowDefinitionBody)
  BY KnowsRules
  DEF Ints, WorkflowDefinitionBody, WorkflowTrigger, WorkflowStage, StageTransitionTarget,
      StageAction, OptionalEffect, StageListen, CapabilityPredicate, StageSafety,
      validateWorkflowDefinitionBody
<1>5. Ints("workflow_instance", WorkflowInstanceBody \sqcup validateWorkflowInstanceBody)
  BY KnowsRules
  DEF Ints, WorkflowInstanceBody, StageListen, StageTransitionTarget,
      validateWorkflowInstanceBody
<1>6. Ints("stage_transition", StageTransitionBody \sqcup validateStageTransitionBody)
  BY KnowsRules DEF Ints, StageTransitionBody, validateStageTransitionBody
<1>7. Ints("channel_event", ChannelEventBody \sqcup validateChannelEventBody)
  BY KnowsRules DEF Ints, ChannelEventBody, validateChannelEventBody
<1>8. Ints("decision_receipt", GapDecisionReceiptBody \sqcup validateGapDecisionReceiptBody)
  BY KnowsRules
  DEF Ints, GapDecisionReceiptBody, TokenConsumption, MeasuredResult,
      validateGapDecisionReceiptBody, validateTokenConsumption, validateMeasuredResult
<1>9. Ints("revocation_event", RevocationEventBody \sqcup validateRevocationEventBody)
  BY KnowsRules DEF Ints, RevocationEventBody, validateRevocationEventBody
<1>10. Ints("orchestration_chain", OrchestrationChainBody \sqcup validateOrchestrationChainBody)
  BY KnowsRules
  DEF Ints, OrchestrationChainBody, DelegationStep, validateOrchestrationChainBody,
      validateDelegationStep
<1>11. Ints("consent_record", ConsentRecordBody \sqcup validateConsentRecordBody)
  BY KnowsRules DEF Ints, ConsentRecordBody, validateConsentRecordBody
<1>12. Ints("pip_response", PipResponseBody \sqcup validatePipResponseBody)
  BY KnowsRules DEF Ints, PipResponseBody, validatePipResponseBody
<1>13. Ints("perimeter_declaration",
            PerimeterDeclarationBody \sqcup validatePerimeterDeclarationBody)
  BY KnowsRules
  DEF Ints, PerimeterDeclarationBody, validatePerimeterDeclarationBody,
      validateGovernedSubject, validateCompletenessScope, validateChokepoint,
      validateBlindSpot
<1> QED
  BY <1>1, <1>2, <1>3, <1>4, <1>5, <1>6, <1>7, <1>8, <1>9, <1>10, <1>11, <1>12, <1>13,
     TypesListed, TablesOf, BodiesOf

LEMMA IntsAsked ==
  ASSUME NEW t \in PyTypes, NEW at, NEW f, Knows(Rows(t), at, f), <<at, f>> \in PythonInts
  PROVE  Has(PyShape[t], at, f, Nullable(PyInt))
<1>0. t \in Types
  BY DEF PyTypes
<1>1. PICK I : Interface[t] = GapCdroEnvelope \sqcup I /\ Ints(t, I \sqcup BodyShape[t])
  BY <1>0, BodiesInts
<1>2. Has(PyEnvelope(Kinds), "envelope", "created_at_ms", Nullable(PyInt))
      /\ Has(PyEnvelope(isObject), "envelope", "created_at_ms", Nullable(PyInt))
  BY HasRules DEF PyEnvelope
<1>3. CASE at = "envelope"
  <2>1. f = "created_at_ms"
    BY <1>3 DEF PythonInts
  <2> QED
    BY <1>2, <1>3, <2>1, HasRules DEF PyShape
<1>4. CASE at # "envelope"
  <2>1. at = "body" /\ f \in {"consented_at_ms", "cache_ttl_ms"}
    BY <1>4 DEF PythonInts
  <2>2. Knows(Script(t), "body", f)
    BY <2>1, PythonWelcomes, KnowsRules DEF Rows, Script
  <2>3. Shape[t] = validateEnvelopeShape \sqcup BodyShape[t]
    BY <1>0, ShapesOf
  <2>4. ~Knows(GapCdroEnvelope \sqcup validateEnvelopeShape, "body", f)
    BY EnvelopeTidy
  <2>5. Knows(I \sqcup BodyShape[t], "body", f)
    BY <1>1, <2>2, <2>3, <2>4, KnowsRules DEF Script
  <2>6. \/ t = "consent_record" /\ f = "consented_at_ms"
        \/ t = "pip_response" /\ f = "cache_ttl_ms"
    BY <1>1, <2>1, <2>5 DEF Ints
  <2>7. /\ Has(PyConsentRecordBody, "body", "consented_at_ms", Nullable(PyInt))
        /\ Has(PyPipResponseBody, "body", "cache_ttl_ms", Nullable(PyInt))
    BY HasRules DEF PyConsentRecordBody, PyPipResponseBody
  <2>8. /\ PyShape["consent_record"] = PyEnvelope(isObject) \sqcup PyConsentRecordBody
        /\ PyShape["pip_response"] = PyEnvelope(isObject) \sqcup PyPipResponseBody
    BY TypesListed DEF PyShape, PyTypes, PyBodyShape
  <2> QED
    BY <2>1, <2>6, <2>7, <2>8, HasRules
<1> QED
  BY <1>3, <1>4

=============================================================================

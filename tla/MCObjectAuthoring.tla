------------------------- MODULE MCObjectAuthoring -------------------------
(* Objects that differ from a draft in two fields, and of the one type with more
   than FewFields, workflow definitions, in one field of any kind. *)
EXTENDS ObjectAuthoring, FiniteSets

CONSTANT FewFields

Small == {t \in Types : Cardinality(Places[t]) <= FewFields}

(* What the two languages, the interfaces and the canonicalizer judge differently,
   the limit on elements, and what opens a container; of receipts also the status
   that one table lacks. *)
Telling == {"null", "decimal", "huge", "fraction", "many", "object"}

OneOrTwo == [t \in Types |-> IF t \in Small THEN 2 ELSE 1]
TellingOrAny ==
  [t \in Types |->
     IF t = "decision_receipt" THEN Telling \cup RateLimited
     ELSE IF t \in Small THEN Telling ELSE Kinds]
None == [t \in Types |-> 0]

=============================================================================

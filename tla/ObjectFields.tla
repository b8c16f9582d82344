---------------------------- MODULE ObjectFields ----------------------------
(***************************************************************************)
(* What the tables of GAP objects are made of: kinds of values, and rows   *)
(* that say of a field in a container whether it is needed and which kinds *)
(* of value it may have.                                                   *)
(*                                                                         *)
(* An object is a function from places to kinds of values.  A place is a   *)
(* field in a container, and a container bears the name of the field that  *)
(* holds it.  An array of objects has one set of members, which stands for *)
(* all its elements.  Of a value its kind is kept: what some validator     *)
(* tells apart.                                                            *)
(***************************************************************************)
EXTENDS Integers

(* Strings: one that the field asks for by name or form, the status of that
   name, one that no validator asks for, and "". *)
Listed == {"listed"}
RateLimited == {"rate_limited"}
NonEmpty == Listed \cup RateLimited \cup {"other"}
Str == NonEmpty \cup {"empty"}
NotReserved == Str \ Listed                 \* of tool names "listed" is "gap:..."

(* Numbers as JSON literals: -1, 0, 1, 3600000, 10^21, an integer written with a point
   or an exponent such as 1.0, and 0.5.  JavaScript has integers of any size and
   reads 1.0 as 1; Python reads as an int what has neither point nor exponent. *)
isInteger == {"negative", "zero", "one", "large", "huge", "decimal"}
isNumber == isInteger \cup {"fraction"}
NonNegative == isInteger \ {"negative"}
isPositiveInteger == NonNegative \ {"zero"}
Level == {"one", "decimal"}                 \* 1, 2 or 3
HourOrMore == {"large", "huge"}
PyInt == isInteger \ {"decimal"}

(* Chokepoint classes, C5 for all five that may be structural, and qualities. *)
Classes == {"C5", "C6", "C7"}
Qualities == {"structural", "cooperative", "observational"}

isBoolean == {"true"}
Null == {"null"}
Nullable(kinds) == kinds \cup Null
isObject == {"object"}
Strings == {"none", "strings"}              \* "none" is the empty array
Objects == {"none", "objects", "many"}      \* "many" has more than ten elements
UpToTen == {"none", "objects"}
isArray == Strings \cup Objects \cup {"mixed"}
Containers == {"object", "objects", "many"}

Kinds == Str \cup isNumber \cup isBoolean \cup Null \cup isObject \cup isArray
           \cup Classes \cup Qualities

(* A row: requireField and optionalField, of several fields alike. *)
requireField(at, fields, kinds) ==
  {[at |-> at, field |-> f, need |-> TRUE, kinds |-> kinds] : f \in fields}
optionalField(at, fields, kinds) ==
  {[at |-> at, field |-> f, need |-> FALSE, kinds |-> kinds] : f \in fields}

(* Two tables as one; proofs take a joined table apart without expanding it. *)
R \sqcup S == R \cup S

=============================================================================

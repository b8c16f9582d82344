-------------------------- MODULE PerimeterReading --------------------------
(***************************************************************************)
(* The two ways to read what a perimeter declaration covers                *)
(* (src/perimeter.ts): classifySurface, for a program that has observed an *)
(* action on some surface, and renderPerimeterDeclaration, the text for a  *)
(* person.  Of the text the two lists of surfaces are kept; Nothing is the *)
(* sentence printed in place of an empty list.                             *)
(***************************************************************************)
EXTENDS PerimeterChain

CONSTANTS
  Surfaces,
  Nothing,
  Lists       \* what each declaration lists; its OID identifies its content

ASSUME ListsAssumption ==
  Lists \in [Oids -> [chokepoints_active : Seq(Surfaces), blind_spots : Seq(Surfaces)]]
ASSUME NothingAssumption == Nothing \notin Surfaces

-----------------------------------------------------------------------------

Among(surface, list) == \E k \in DOMAIN list : list[k] = surface

(* mutant: what is not governed counts as disclosed *)
classifySurfaceOrElse(body, surface) ==
  IF Among(surface, body.chokepoints_active) THEN "governed" ELSE "declared_blind_spot"
classifySurface(body, surface) ==
  IF Among(surface, body.chokepoints_active) THEN "governed"
  ELSE IF Among(surface, body.blind_spots) THEN "declared_blind_spot"
  ELSE "undeclared"

Section(title, list) ==
  {title} \X (IF list = << >> THEN {Nothing} ELSE {list[k] : k \in DOMAIN list})

renderPerimeterDeclaration(body) ==
  Section("GOVERNED", body.chokepoints_active)
    \cup Section("NOT GOVERNED", body.blind_spots)

-----------------------------------------------------------------------------

ListedTwice(body, surface) ==
  Among(surface, body.chokepoints_active) /\ Among(surface, body.blind_spots)

(* Only one of the two readers learns of a blind spot. *)
Parted(body, text, surface) ==
  ~(classifySurface(body, surface) = "declared_blind_spot"
      <=> <<"NOT GOVERNED", surface>> \in text)

(* In a chain that holds, a program and a person who read the declaration in force at
   some instant read the same of every surface but one that is in both lists.  Of
   that the program says governed, while the text has it under GOVERNED and
   under NOT GOVERNED, where an activity "leaves no record"; no validator keeps
   the lists apart. *)
ReadingsPartWhereListedTwice ==
  Holds =>
    \A j, k \in 1..Len(chain) :
      \A t \in {chain[j].from, chain[k].from} :
        InForce(j, t) /\ InForce(k, t) =>
          LET body == Lists[chain[j].oid]
              text == renderPerimeterDeclaration(Lists[chain[k].oid])
          IN /\ \A s \in Surfaces :
                  /\ classifySurface(body, s) = "governed" <=> <<"GOVERNED", s>> \in text
                  /\ classifySurface(body, s) = "undeclared" <=>
                       text \cap {<<"GOVERNED", s>>, <<"NOT GOVERNED", s>>} = {}
                  /\ Parted(body, text, s) <=> ListedTwice(body, s)
             /\ <<"GOVERNED", Nothing>> \in text =>
                  \A s \in Surfaces : classifySurface(body, s) # "governed"

=============================================================================

--------------------------- MODULE MCClientSession ---------------------------
(* Three owners, one caller, four sessions: every order in which three blocks
   overlap, and an owner that comes back to what the others left behind. *)
EXTENDS ClientSession, TLC

CONSTANTS o1, o2, o3, c1

ThreeOwners == {o1, o2, o3}
OneCaller == {c1}
AlikeOwners == Permutations(ThreeOwners)
=============================================================================

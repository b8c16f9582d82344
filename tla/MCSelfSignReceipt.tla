-------------------------- MODULE MCSelfSignReceipt --------------------------
(* Two keys, at most two receipts, and a copy that any field of interest may
   be changed in. *)
EXTENDS SelfSignReceipt

CONSTANTS k1, k2, id1, id2, b1, b2, s1, a1, t1, m1, v2, now

TwoKeys == {k1, k2}
TwoIds == {id1, id2}
Prefixes == [k \in TwoKeys |-> IF k = k1 THEN id1 ELSE id2]
TwoBodies == {b1, b2}
None == {}
Now == {now}

SomeEdits ==
  {<<"gap_version", v2>>, <<"gap_version", V1>>,
   <<"supersedes", s1>>, <<"supersedes", Absent>>,
   <<"body", b2>>, <<"created_by", id2>>,
   <<"signature_algorithm", a1>>,
   <<"ml_dsa_signature", m1>>, <<"attestation", t1>>,
   <<"signature", Absent>>}

=============================================================================

------------------------ MODULE SelfSignReceiptProofs ------------------------
(***************************************************************************)
(* Proofs about SelfSignReceipt, for any keys, inputs and edits and any    *)
(* number of receipts.  The invariant is that every receipt carries its    *)
(* key's signature on its own signing payload and the OID of its own       *)
(* content, and that a copy's signature, if it has one, is that of some    *)
(* receipt.                                                                *)
(***************************************************************************)
EXTENDS SelfSignReceipt, TLAPS

WellIssued(r) ==
  /\ r.key \in Keys
  /\ DOMAIN r.envelope = Fields
  /\ r.envelope["signature"] = Signed(r.key, signingPayload(r.envelope))
  /\ r.envelope["oid"] = computeGapOid(r.envelope)

IssuedInv == \A r \in issued : WellIssued(r)

CopyInv ==
  copy # NoCopy =>
    /\ DOMAIN copy = Fields
    /\ \/ copy["signature"] = Absent
       \/ \E r \in issued : copy["signature"] = r.envelope["signature"]

SignedInv == IssuedInv /\ CopyInv

-----------------------------------------------------------------------------
(* The envelope *)

LEMMA SignedInjective ==
  ASSUME NEW k, NEW p, NEW l, NEW q, Signed(k, p) = Signed(l, q)
  PROVE  k = l /\ p = q
  BY DEF Signed

LEMMA SignedNotAbsent == ASSUME NEW k, NEW p PROVE Signed(k, p) # Absent
  BY DEF Signed, Absent

(* Equal content, equal OID; equal signed fields, equal payload; and back. *)
LEMMA PayloadIsFields ==
  ASSUME NEW e, NEW d
  PROVE  signingPayload(e) = signingPayload(d)
           <=> \A f \in Fields \ ExcludedFields : e[f] = d[f]
  BY DEF signingPayload

LEMMA OidIsContent ==
  ASSUME NEW e, NEW d, \A f \in ContentFields : e[f] = d[f]
  PROVE  computeGapOid(e) = computeGapOid(d)
<1>1. [f \in ContentFields |-> e[f]] = [f \in ContentFields |-> d[f]]
  OBVIOUS
<1> QED
  BY <1>1 DEF computeGapOid

LEMMA ContentIsSigned == ContentFields \subseteq Fields \ ExcludedFields
  BY DEF ContentFields, Fields, ExcludedFields, CdroEnvelopeFields

(* What receipt() returns is well formed: the signature and the OID, set last,
   are outside of what they cover. *)
LEMMA EnvelopeWellIssued ==
  ASSUME NEW pair, pair.key \in Keys, NEW input
  PROVE  WellIssued([key |-> pair.key, envelope |-> EnvelopeOf(pair, input)])
<1> DEFINE u == Unsigned(pair, input)
           e == EnvelopeOf(pair, input)
<1>1. PICK c : /\ DOMAIN c = Fields
               /\ u = [c EXCEPT !["oid"] = computeGapOid(c),
                                !["signature_key_id"] = KeyId(pair)]
  BY DEF Unsigned
<1>2. DOMAIN u = Fields /\ e = [u EXCEPT !["signature"] = Signed(pair.key, signingPayload(u))]
  BY <1>1 DEF EnvelopeOf
<1>3. "oid" \in Fields /\ "signature" \in Fields /\ "signature_key_id" \in Fields
  BY DEF Fields, CdroEnvelopeFields
<1>4. \A f \in Fields \ ExcludedFields : e[f] = u[f]
  BY <1>2 DEF ExcludedFields
<1>5. signingPayload(e) = signingPayload(u)
  BY <1>4, PayloadIsFields
<1>6. \A f \in ContentFields : e[f] = c[f]
  BY <1>1, <1>2 DEF ContentFields, Fields
<1>7. computeGapOid(e) = computeGapOid(c)
  BY <1>6, OidIsContent
<1>8. e["oid"] = computeGapOid(c)
  BY <1>1, <1>2, <1>3
<1>9. e["signature"] = Signed(pair.key, signingPayload(u)) /\ DOMAIN e = Fields
  BY <1>2, <1>3
<1> QED
  BY <1>5, <1>7, <1>8, <1>9 DEF WellIssued

-----------------------------------------------------------------------------
(* Invariance *)

LEMMA InitSigned == Init => SignedInv
  BY DEF Init, SignedInv, IssuedInv, CopyInv

LEMMA EditKeeps ==
  ASSUME SignedInv, NEW f \in Fields, NEW v, Edit(f, v),
         f = "signature" =>
           v = Absent \/ \E r \in issued : v = r.envelope["signature"]
  PROVE  SignedInv'
<1>1. /\ copy # NoCopy /\ DOMAIN copy = Fields
      /\ copy' = [copy EXCEPT ![f] = v] /\ issued' = issued
  BY DEF Edit, SignedInv, CopyInv
<1>2. DOMAIN copy' = Fields /\ "signature" \in Fields
  BY <1>1 DEF Fields, CdroEnvelopeFields
<1>3. copy'["signature"] = IF f = "signature" THEN v ELSE copy["signature"]
  BY <1>1, <1>2
<1> QED
  BY <1>1, <1>2, <1>3 DEF SignedInv, IssuedInv, CopyInv, WellIssued

LEMMA NextSigned == SignedInv /\ [Next]_vars => SignedInv'
<1> SUFFICES ASSUME SignedInv, [Next]_vars PROVE SignedInv'
  OBVIOUS
<1>1. ASSUME NEW k \in Keys, NEW id \in KeyIds \cup {Absent}, GenerateReceiptKeyPair(k, id)
      PROVE  SignedInv'
  BY <1>1 DEF GenerateReceiptKeyPair, SignedInv, IssuedInv, CopyInv
<1>2. ASSUME NEW k \in Keys, NEW id \in KeyIds \cup {Absent}, NEW input \in Inputs,
             Receipt([key |-> k, keyId |-> id], input)
      PROVE  SignedInv'
  <2> DEFINE pair == [key |-> k, keyId |-> id]
  <2>1. /\ issued' = issued \cup {[key |-> pair.key, envelope |-> EnvelopeOf(pair, input)]}
        /\ copy' = copy
    BY <1>2 DEF Receipt
  <2>2. pair.key \in Keys
    OBVIOUS
  <2>3. WellIssued([key |-> pair.key, envelope |-> EnvelopeOf(pair, input)])
    BY <2>2, EnvelopeWellIssued
  <2> QED
    BY <2>1, <2>3 DEF SignedInv, IssuedInv, CopyInv
<1>3. ASSUME NEW r \in issued, Fetch(r) PROVE SignedInv'
  BY <1>3 DEF Fetch, SignedInv, IssuedInv, CopyInv, WellIssued
<1>4. ASSUME NEW ed \in Edits, Edit(ed[1], ed[2]) PROVE SignedInv'
  BY <1>4, EditKeeps, EditsAssumption
<1>5. ASSUME NEW r \in issued, NEW f \in {"oid", "signature", "signature_key_id"}, Mix(f, r)
      PROVE  SignedInv'
  <2>1. f \in Fields
    BY DEF Fields, CdroEnvelopeFields
  <2> QED
    BY <1>5, <2>1, EditKeeps DEF Mix
<1>6. ASSUME Readdress PROVE SignedInv'
  <2>1. Edit("oid", computeGapOid(copy)) /\ "oid" \in Fields
    BY <1>6 DEF Readdress, Edit, Fields, CdroEnvelopeFields
  <2> QED
    BY <2>1, EditKeeps
<1>7. ASSUME UNCHANGED vars PROVE SignedInv'
  BY <1>7 DEF vars, SignedInv, IssuedInv, CopyInv
<1> QED
  BY <1>1, <1>2, <1>3, <1>4, <1>5, <1>6, <1>7 DEF Next

-----------------------------------------------------------------------------
(* Types *)

(* A key id is never missing, and so neither is the creator who defaults to it. *)
LEMMA KeyIdIsThere ==
  ASSUME NEW k \in Keys, NEW id \in KeyIds \cup {Absent}
  PROVE  KeyId([key |-> k, keyId |-> id]) \in KeyIds
  BY KeysAssumption DEF KeyId, OrElse

LEMMA EnvelopeTyped ==
  ASSUME NEW pair, KeyId(pair) \in KeyIds, NEW input
  PROVE  /\ DOMAIN EnvelopeOf(pair, input) = Fields
         /\ EnvelopeOf(pair, input)["signature_key_id"] \in KeyIds
         /\ EnvelopeOf(pair, input)["created_by"] # Absent
<1> DEFINE u == Unsigned(pair, input)
<1>0. /\ "created_by" \in Fields /\ "oid" \in Fields /\ "signature" \in Fields
      /\ "signature_key_id" \in Fields
  BY DEF Fields, ContentFields, CdroEnvelopeFields
<1>1. OrElse(input.by, KeyId(pair)) # Absent
  BY KeysAssumption DEF OrElse
<1>2. PICK c : /\ DOMAIN c = Fields
               /\ c["created_by"] = OrElse(input.by, KeyId(pair))
               /\ u = [c EXCEPT !["oid"] = computeGapOid(c),
                                !["signature_key_id"] = KeyId(pair)]
  BY <1>0 DEF Unsigned
<1>3. DOMAIN u = Fields /\ u["signature_key_id"] = KeyId(pair)
        /\ u["created_by"] = OrElse(input.by, KeyId(pair))
  BY <1>0, <1>2
<1> HIDE DEF u
<1>4. EnvelopeOf(pair, input) = [u EXCEPT !["signature"] = Signed(pair.key, signingPayload(u))]
  BY DEF EnvelopeOf, u
<1> QED
  BY <1>0, <1>1, <1>3, <1>4

LEMMA NextTypes == TypeOK /\ [Next]_vars => TypeOK'
<1> SUFFICES ASSUME TypeOK, [Next]_vars PROVE TypeOK'
  OBVIOUS
<1>1. ASSUME NEW k \in Keys, NEW id \in KeyIds \cup {Absent}, GenerateReceiptKeyPair(k, id)
      PROVE  TypeOK'
  BY <1>1 DEF GenerateReceiptKeyPair, TypeOK
<1>2. ASSUME NEW k \in Keys, NEW id \in KeyIds \cup {Absent}, NEW input \in Inputs,
             Receipt([key |-> k, keyId |-> id], input)
      PROVE  TypeOK'
  <2> DEFINE pair == [key |-> k, keyId |-> id]
  <2>1. /\ issued' = issued \cup {[key |-> pair.key, envelope |-> EnvelopeOf(pair, input)]}
        /\ pairs' = pairs \cup {[key |-> k, keyId |-> KeyId(pair)]}
        /\ copy' = copy
    BY <1>2 DEF Receipt
  <2>2. KeyId(pair) \in KeyIds /\ pair.key \in Keys
    BY KeyIdIsThere
  <2>3. /\ DOMAIN EnvelopeOf(pair, input) = Fields
        /\ EnvelopeOf(pair, input)["signature_key_id"] \in KeyIds
        /\ EnvelopeOf(pair, input)["created_by"] # Absent
    BY <2>2, EnvelopeTyped
  <2> QED
    BY <2>1, <2>2, <2>3 DEF TypeOK
<1>3. ASSUME NEW r \in issued, Fetch(r) PROVE TypeOK'
  BY <1>3 DEF Fetch, TypeOK
<1>4. ASSUME NEW f, NEW v, Edit(f, v) PROVE TypeOK'
  BY <1>4 DEF Edit, TypeOK
<1>5. ASSUME Readdress PROVE TypeOK'
  BY <1>5 DEF Readdress, TypeOK
<1>6. ASSUME UNCHANGED vars PROVE TypeOK'
  BY <1>6 DEF vars, TypeOK
<1> QED
  BY <1>1, <1>2, <1>3, <1>4, <1>5, <1>6 DEF Next, Mix

(* Every receipt carries a key id and a creator, and no edit of a copy leaves
   the fields of an envelope. *)
THEOREM ReceiptTypes == Spec => []TypeOK
<1>1. Init => TypeOK
  BY DEF Init, TypeOK
<1> QED
  BY <1>1, NextTypes, PTL DEF Spec

-----------------------------------------------------------------------------
(* What verification means *)

LEMMA InvIntact == SignedInv => VerifiedIsIntact
<1> SUFFICES ASSUME SignedInv, copy # NoCopy, NEW k \in Keys,
                    verifyReceiptSignature(copy, k)
             PROVE  \E r \in issued : r.key = k /\ SameBut(copy, r.envelope, Detached)
  BY DEF VerifiedIsIntact
<1>1. PICK r \in issued : copy["signature"] = r.envelope["signature"]
  BY DEF SignedInv, CopyInv, verifyReceiptSignature
<1>2. WellIssued(r)
  BY DEF SignedInv, IssuedInv
<1>3. Signed(k, signingPayload(copy)) = Signed(r.key, signingPayload(r.envelope))
  BY <1>1, <1>2 DEF verifyReceiptSignature, WellIssued
<1>4. k = r.key /\ signingPayload(copy) = signingPayload(r.envelope)
  BY <1>3, SignedInjective
<1>5. \A f \in Fields \ ExcludedFields : copy[f] = r.envelope[f]
  BY <1>4, PayloadIsFields
<1>6. computeGapOid(copy) = computeGapOid(r.envelope)
  BY <1>5, ContentIsSigned, OidIsContent
<1>7. copy["oid"] = r.envelope["oid"]
  BY <1>2, <1>6 DEF verifyReceiptSignature, WellIssued
<1>8. SameBut(copy, r.envelope, Detached)
  BY <1>1, <1>5, <1>7 DEF SameBut, Detached, ExcludedFields
<1> QED
  BY <1>4, <1>8

LEMMA InvGenuine == SignedInv => GenuineVerifies
<1> SUFFICES ASSUME SignedInv, copy # NoCopy, NEW r \in issued,
                    SameBut(copy, r.envelope, Detached)
             PROVE  verifyReceiptSignature(copy, r.key)
  BY DEF GenuineVerifies
<1>1. WellIssued(r)
  BY DEF SignedInv, IssuedInv
<1>2. \A f \in Fields \ ExcludedFields : copy[f] = r.envelope[f]
  BY DEF SameBut, Detached, ExcludedFields
<1>3. copy["signature"] = r.envelope["signature"] /\ copy["oid"] = r.envelope["oid"]
  BY DEF SameBut, Detached, Fields, CdroEnvelopeFields
<1>4. signingPayload(copy) = signingPayload(r.envelope)
  BY <1>2, PayloadIsFields
<1>5. computeGapOid(copy) = computeGapOid(r.envelope)
  BY <1>2, ContentIsSigned, OidIsContent
<1> QED
  BY <1>1, <1>3, <1>4, <1>5, SignedNotAbsent DEF verifyReceiptSignature, WellIssued

(* A copy that verifies is a receipt as its key's holder issued it, whatever
   was done to it and to other receipts. *)
THEOREM VerifiedReceiptsIntact == Spec => []VerifiedIsIntact
  BY InitSigned, NextSigned, InvIntact, PTL DEF Spec

(* A receipt that was at most countersigned verifies under its key. *)
THEOREM GenuineReceiptsVerify == Spec => []GenuineVerifies
  BY InitSigned, NextSigned, InvGenuine, PTL DEF Spec

=============================================================================

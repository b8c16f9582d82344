--------------------------- MODULE SelfSignReceipt ---------------------------
(***************************************************************************)
(* Self-signed decision receipts (src/receipt.ts, src/oid.ts): key pairs   *)
(* are generated, receipts issued under them, and copies of the receipts   *)
(* travel.  On its way a copy is annotated, edited, re-addressed, or mixed *)
(* with another receipt, any number of times; whoever holds it may verify  *)
(* it with any public key.                                                 *)
(*                                                                         *)
(* An envelope is a function from field names to values, Absent for a      *)
(* field it does not have.  canonicalize, sha256 and Ed25519 are libraries *)
(* and taken to be ideal: an OID stands for the content it was computed    *)
(* from, a signature for a key and the bytes that key signed.              *)
(***************************************************************************)
EXTENDS FiniteSets, Integers

CONSTANTS
  Keys,         \* Ed25519 keys, a private and a public half each
  KeyIds,       \* what signature_key_id may hold
  DefaultId,    \* defaultKeyId, by key: a prefix of the public key
  Bodies, Tenants, Actors, Instants,    \* what a caller of receipt() passes
  Self,         \* the tenant of a caller who names none
  Decision, V1, SelfSign,               \* type, gap_version, receipt_scheme
  Edits,        \* the changes a copy may meet: <<field, new value>>
  NoCopy,
  MaxIssued     \* bound on the number of receipts issued

Absent == [absent |-> TRUE]

ASSUME KeysAssumption ==
  /\ DefaultId \in [Keys -> KeyIds]
  /\ Absent \notin KeyIds
  /\ MaxIssued \in Nat

ContentFields ==
  {"type", "gap_version", "receipt_scheme", "tenant_id", "created_at_ms",
   "created_by", "body", "supersedes"}

(* What a signer adds after the content was hashed, and the hash itself. *)
CdroEnvelopeFields ==
  {"oid", "signature", "ml_dsa_signature", "signature_key_id",
   "signature_algorithm", "attestation"}

Fields == ContentFields \cup CdroEnvelopeFields

(* No edit makes up a signature. *)
ASSUME EditsAssumption ==
  \A ed \in Edits :
    /\ ed[1] \in Fields
    /\ ed[1] = "signature" => ed[2] = Absent

VARIABLES
  pairs,      \* the key pairs in the issuer's hands: [key, keyId]
  issued,     \* history: each receipt as receipt() returned it, and its key
  copy        \* a copy somebody holds

vars == <<pairs, issued, copy>>

TypeOK ==
  /\ pairs \subseteq [key : Keys, keyId : KeyIds \cup {Absent}]
  /\ \A r \in issued :
       /\ r.key \in Keys
       /\ DOMAIN r.envelope = Fields
       /\ r.envelope["signature_key_id"] \in KeyIds
       /\ r.envelope["created_by"] # Absent
  /\ copy # NoCopy => DOMAIN copy = Fields

Init ==
  /\ pairs = {}
  /\ issued = {}
  /\ copy = NoCopy

-----------------------------------------------------------------------------
(* Identity and signature of an envelope *)

(* computeGapOid: the hash of everything but the signer's fields. *)
computeGapOid(e) == [core |-> [f \in ContentFields |-> e[f]]]

(* The signature covers all that is known before it is made, and so also
   signature_key_id and signature_algorithm, which the OID does not cover. *)
ExcludedFieldsAsForOid ==    \* mutant: the OID's own set, and the versions
  CdroEnvelopeFields \cup {"gap_version", "supersedes"}
ExcludedFieldsNarrow ==      \* mutant: a countersignature is covered, too
  {"oid", "signature", "ml_dsa_signature"}
ExcludedFields == {"oid", "signature", "ml_dsa_signature", "attestation"}

signingPayload(e) == [f \in Fields \ ExcludedFields |-> e[f]]

Signed(key, payload) == [by |-> key, of |-> payload]

verifyReceiptSignature(e, publicKey) ==
  /\ e["signature"] # Absent
  /\ e["signature"] = Signed(publicKey, signingPayload(e))
  /\ computeGapOid(e) = e["oid"]

OrElse(v, default) == IF v = Absent THEN default ELSE v

-----------------------------------------------------------------------------
(* receipt() *)

KeyIdBare(pair) == pair.keyId        \* mutant: no default
KeyId(pair) == OrElse(pair.keyId, DefaultId[pair.key])

(* The envelope before it is signed; its OID and its key id are on it. *)
Unsigned(pair, input) ==
  LET content ==
        [f \in Fields |->
           CASE f = "type" -> Decision
             [] f = "gap_version" -> V1
             [] f = "receipt_scheme" -> SelfSign
             [] f = "tenant_id" -> OrElse(input.tenant, Self)
             [] f = "created_at_ms" -> input.at
             [] f = "created_by" -> OrElse(input.by, KeyId(pair))
             [] f = "body" -> input.body
             [] OTHER -> Absent]
  IN [content EXCEPT !["oid"] = computeGapOid(content),
                     !["signature_key_id"] = KeyId(pair)]

Inputs ==
  [body : Bodies, tenant : Tenants \cup {Absent}, by : Actors \cup {Absent},
   at : Instants]

EnvelopeOf(pair, input) ==
  LET e == Unsigned(pair, input)
  IN [e EXCEPT !["signature"] = Signed(pair.key, signingPayload(e))]

(* A key that no pair holds: randomSecretKey does not repeat itself. *)
Fresh(key) == \A p \in pairs : p.key # key

GenerateReceiptKeyPair(key, keyId) ==
  /\ Fresh(key)
  /\ pairs' = pairs \cup {[key |-> key, keyId |-> keyId]}
  /\ UNCHANGED <<issued, copy>>

(* With a pair of the caller's, or with a new one that receipt() returns.  The
   pair comes back with its id filled in, for the caller to keep. *)
Receipt(pair, input) ==
  /\ Cardinality(issued) < MaxIssued
  /\ pair \in pairs \/ (Fresh(pair.key) /\ pair.keyId = Absent)
  /\ issued' = issued \cup {[key |-> pair.key, envelope |-> EnvelopeOf(pair, input)]}
  /\ pairs' = pairs \cup {[key |-> pair.key, keyId |-> KeyId(pair)]}
  /\ UNCHANGED copy

-----------------------------------------------------------------------------
(* What happens to a copy *)

Fetch(r) == copy' = r.envelope /\ UNCHANGED <<pairs, issued>>

(* A field is changed, added or dropped. *)
Edit(f, v) ==
  /\ copy # NoCopy
  /\ copy' = [copy EXCEPT ![f] = v]
  /\ UNCHANGED <<pairs, issued>>

(* A field is taken over from another receipt, its signature for one. *)
Mix(f, r) == Edit(f, r.envelope[f])

(* The OID is brought in line with the content: hashing needs no key. *)
Readdress ==
  /\ copy # NoCopy
  /\ copy' = [copy EXCEPT !["oid"] = computeGapOid(copy)]
  /\ UNCHANGED <<pairs, issued>>

Next ==
  \/ \E k \in Keys, id \in KeyIds \cup {Absent} : GenerateReceiptKeyPair(k, id)
  \/ \E k \in Keys, id \in KeyIds \cup {Absent}, input \in Inputs :
       Receipt([key |-> k, keyId |-> id], input)
  \/ \E r \in issued : Fetch(r)
  \/ \E ed \in Edits : Edit(ed[1], ed[2])
  \/ \E r \in issued : \E f \in {"oid", "signature", "signature_key_id"} : Mix(f, r)
  \/ Readdress

Spec == Init /\ [][Next]_vars

-----------------------------------------------------------------------------
(* Safety *)

(* Fields that may be added after signing: a countersignature. *)
Detached == {"ml_dsa_signature", "attestation"}

SameBut(e, d, S) == \A f \in Fields \ S : e[f] = d[f]

(* If a copy verifies under a key, that key's holder issued it as it stands: no
   chain of edits, with the OID brought in line or not and the signature taken
   from whichever receipt, makes another envelope verify.  Only the detached
   fields say nothing about the issuer. *)
VerifiedIsIntact ==
  copy # NoCopy =>
    \A k \in Keys :
      verifyReceiptSignature(copy, k) =>
        \E r \in issued : r.key = k /\ SameBut(copy, r.envelope, Detached)

(* A receipt that was only countersigned since it was issued still verifies
   under the key it was issued with, however many keys and receipts came after:
   what receipt() signs is what verifyReceiptSignature recomputes. *)
GenuineVerifies ==
  copy # NoCopy =>
    \A r \in issued :
      SameBut(copy, r.envelope, Detached) => verifyReceiptSignature(copy, r.key)

=============================================================================

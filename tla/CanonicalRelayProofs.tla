------------------------ MODULE CanonicalRelayProofs ------------------------
(* Proofs about CanonicalRelay, for every set of fields and objects and for  *)
(* all widths and roundings that its assumptions admit.                      *)
EXTENDS CanonicalRelay, TLAPS

(* The three packages strip the same six fields. *)
LEMMA OneEnvelope == \A s \in Surfaces : Excluded(s) = Envelope
BY DEF Excluded, Surfaces, Envelope, Attachments, ExcludedInPython,
       contentCoreExcluded, CDRO_ENVELOPE_FIELDS

-----------------------------------------------------------------------------
(* Numbers *)

(* What is accepted is written as a text or an integer. *)
LEMMA WritesTyped ==
  ASSUME NEW s \in Surfaces, NEW v \in Values, Accepts(s, v)
  PROVE  Writes(s, v) \in {w \in Values : w.form \in {"text", "integer"}}
<1> USE WidthsAssumption, DoublesAssumption
<1>1. CASE v = Text
  BY <1>1 DEF Writes, Values, Text
<1>2. CASE v # Text
  <2>1. v \in Numbers
    BY <1>2 DEF Values
  <2>2. v.mag \in Magnitudes /\ v.neg \in BOOLEAN /\ 0 \in Magnitudes
    BY <2>1 DEF Numbers, Magnitudes
  <2>3. \A n \in BOOLEAN, m \in Magnitudes :
          Integer(n, m) \in {w \in Values : w.form \in {"text", "integer"}}
    BY DEF Integer, Values, Numbers
  <2>4. CASE s = "go"
    <3>1. Writes(s, v) = writeNumber(v)
      BY <1>2, <2>4 DEF Writes
    <3>2. (IF Float[v.mag] = 0 THEN 0 ELSE Shortest[Float[v.mag]]) \in Magnitudes
      BY <2>2
    <3>3. (v.neg /\ Float[v.mag] # 0) \in BOOLEAN
      OBVIOUS
    <3> QED
      BY <3>1, <3>2, <3>3, <2>3 DEF writeNumber
  <2>5. CASE s = "rust"
    <3> DEFINE n == v.neg /\ (v.mag # 0 \/ ZeroSigned)
    <3>1. v.form = "integer" /\ v = Integer(v.neg, v.mag)
      BY <1>2, <2>1, <2>5 DEF Accepts, reject_non_integer, Numbers, Integer
    <3>2. Writes(s, v) = Integer(n, v.mag)
      BY <1>2, <2>5, <3>1 DEF Writes, write_number, Integer
    <3>3. n \in BOOLEAN
      OBVIOUS
    <3> QED
      BY <2>2, <2>3, <3>2, <3>3
  <2>6. CASE s = "python"
    <3>1. Writes(s, v) = canonical_value(v)
      BY <1>2, <2>6 DEF Writes
    <3> QED
      BY <3>1, <2>2, <2>3 DEF canonical_value
  <2> QED
    BY <2>4, <2>5, <2>6 DEF Surfaces
<1> QED
  BY <1>1, <1>2

(* What a package wrote it accepts, and writes the same way. *)
LEMMA WritesTwice ==
  ASSUME NEW s \in Surfaces, NEW v \in Values, Accepts(s, v)
  PROVE  Accepts(s, Writes(s, v)) /\ Writes(s, Writes(s, v)) = Writes(s, v)
<1> USE WidthsAssumption, DoublesAssumption
<1>1. CASE v = Text
  BY <1>1 DEF Writes, Accepts
<1>2. CASE v # Text
  <2>1. v \in Numbers
    BY <1>2 DEF Values
  <2>2. v.mag \in Magnitudes /\ v.neg \in BOOLEAN
    BY <2>1 DEF Numbers
  <2>3. \A n, m : Integer(n, m).form = "integer" /\ Integer(n, m).neg = n
                  /\ Integer(n, m).mag = m /\ Integer(n, m) # Text
    BY DEF Integer, Text
  <2>4. CASE s = "go"
    <3> DEFINE d == Float[v.mag]
               m == IF d = 0 THEN 0 ELSE Shortest[d]
               w == Integer(v.neg /\ d # 0, m)
    <3>1. Writes(s, v) = w
      BY <1>2, <2>4 DEF Writes, writeNumber
    <3>2. Float[m] = d /\ d < Big
      <4>1. Float[Shortest[d]] = d
        BY <2>2
      <4>2. Float[0] = 0
        OBVIOUS
      <4>3. d < Big
        BY <1>2, <2>4 DEF Accepts, writeNumberAccepts
      <4> QED
        BY <4>1, <4>2, <4>3
    <3>3. w.form = "integer" /\ w.mag = m /\ w # Text /\ w.neg = (v.neg /\ d # 0)
      BY <2>3
    <3>4. Accepts(s, w)
      BY <3>2, <3>3, <2>4 DEF Accepts, writeNumberAccepts
    <3>5. Writes(s, w) = Integer(w.neg /\ Float[w.mag] # 0,
                           IF Float[w.mag] = 0 THEN 0 ELSE Shortest[Float[w.mag]])
      BY <3>3, <2>4 DEF Writes, writeNumber
    <3>6. (w.neg /\ Float[w.mag] # 0) = (v.neg /\ d # 0)
      BY <3>2, <3>3
    <3>7. (IF Float[w.mag] = 0 THEN 0 ELSE Shortest[Float[w.mag]]) = m
      BY <3>2, <3>3
    <3> QED
      BY <3>1, <3>4, <3>5, <3>6, <3>7
  <2>5. CASE s = "rust"
    <3> DEFINE n == v.neg /\ (v.mag # 0 \/ ZeroSigned)
               w == Integer(n, v.mag)
    <3>1. v.form = "integer" /\ v = Integer(v.neg, v.mag)
          /\ v.mag <= (IF v.neg THEN MaxSigned + 1 ELSE MaxUnsigned)
      BY <1>2, <2>1, <2>5 DEF Accepts, reject_non_integer, Numbers, Integer
    <3>2. Writes(s, v) = w
      BY <1>2, <2>5, <3>1 DEF Writes, write_number, Integer
    <3>3. w.form = "integer" /\ w.neg = n /\ w.mag = v.mag /\ w # Text
      BY <2>3
    <3>4. Accepts(s, w)
      <4>1. w.mag <= (IF w.neg THEN MaxSigned + 1 ELSE MaxUnsigned)
        <5>1. CASE n
          BY <3>1, <3>3, <5>1
        <5>2. CASE ~n /\ ~v.neg
          BY <3>1, <3>3, <5>2
        <5>3. CASE ~n /\ v.neg
          <6>1. v.mag = 0
            BY <5>3
          <6> QED
            BY <3>3, <5>3, <6>1
        <5> QED
          BY <2>2, <5>1, <5>2, <5>3
      <4> QED
        BY <2>5, <3>3, <4>1 DEF Accepts, reject_non_integer
    <3>5. (w.neg /\ (w.mag # 0 \/ ZeroSigned)) = n
      BY <3>3
    <3>6. Writes(s, w) = Integer(w.neg /\ (w.mag # 0 \/ ZeroSigned), w.mag)
      BY <2>5, <3>3 DEF Writes, write_number, Integer
    <3> QED
      BY <3>2, <3>3, <3>4, <3>5, <3>6
  <2>6. CASE s = "python"
    <3> DEFINE w == Integer(v.neg /\ v.mag # 0, v.mag)
    <3>1. Writes(s, v) = w
      BY <1>2, <2>6 DEF Writes, canonical_value
    <3>2. w.form = "integer" /\ w.mag = v.mag /\ w # Text /\ w.neg = (v.neg /\ v.mag # 0)
      BY <2>3
    <3>3. Writes(s, w) = Integer(w.neg /\ w.mag # 0, w.mag)
      BY <3>2, <2>6 DEF Writes, canonical_value
    <3>4. (w.neg /\ w.mag # 0) = (v.neg /\ v.mag # 0)
      BY <3>2
    <3> QED
      BY <3>1, <3>2, <3>3, <3>4, <2>6 DEF Accepts, canonical_valueAccepts
  <2> QED
    BY <2>4, <2>5, <2>6 DEF Surfaces
<1> QED
  BY <1>1, <1>2

(* A plain value is accepted by every package and written as it stands. *)
LEMMA PlainWritten ==
  ASSUME NEW s \in Surfaces, NEW v \in Values, Plain(v)
  PROVE  Accepts(s, v) /\ Writes(s, v) = v
<1> USE WidthsAssumption, DoublesAssumption
<1>1. CASE v = Text
  BY <1>1 DEF Writes, Accepts
<1>2. CASE v # Text
  <2>1. v \in Numbers /\ v.form = "integer" /\ v.mag \in 0..Exact /\ (v.neg => v.mag # 0)
    BY <1>2 DEF Values, Plain, Numbers, Magnitudes
  <2>2. v = Integer(v.neg, v.mag) /\ v.neg \in BOOLEAN
    BY <2>1 DEF Numbers, Integer
  <2>3. Float[v.mag] = v.mag /\ Shortest[v.mag] = v.mag /\ v.mag < Big
    BY <2>1
  <2>4. (v.neg /\ v.mag # 0) = v.neg
    BY <2>1, <2>2
  <2>5. CASE s = "go"
    <3>1. Writes(s, v) = Integer(v.neg /\ v.mag # 0, v.mag)
      BY <1>2, <2>3, <2>5 DEF Writes, writeNumber
    <3> QED
      BY <3>1, <2>1, <2>2, <2>3, <2>4, <2>5 DEF Accepts, writeNumberAccepts
  <2>6. CASE s = "rust"
    <3>1. (v.neg /\ (v.mag # 0 \/ ZeroSigned)) = v.neg
      BY <2>1, <2>2
    <3>2. Writes(s, v) = Integer(v.neg /\ (v.mag # 0 \/ ZeroSigned), v.mag)
      BY <1>2, <2>2, <2>6 DEF Writes, write_number, Integer
    <3>3. v.mag <= (IF v.neg THEN MaxSigned + 1 ELSE MaxUnsigned)
      BY <2>1
    <3> QED
      BY <2>1, <2>2, <2>6, <3>1, <3>2, <3>3 DEF Accepts, reject_non_integer
  <2>7. CASE s = "python"
    <3>1. Writes(s, v) = Integer(v.neg /\ v.mag # 0, v.mag)
      BY <1>2, <2>7 DEF Writes, canonical_value
    <3> QED
      BY <3>1, <2>1, <2>2, <2>4, <2>7 DEF Accepts, canonical_valueAccepts
  <2> QED
    BY <2>5, <2>6, <2>7 DEF Surfaces
<1> QED
  BY <1>1, <1>2

(* What Rust accepts, all accept. *)
LEMMA RustAccepts ==
  ASSUME NEW s \in Surfaces, NEW v \in Values, Accepts("rust", v)
  PROVE  Accepts(s, v)
<1>1. CASE v = Text
  BY <1>1 DEF Accepts
<1>2. CASE v # Text
  <2>1. v.form = "integer" /\ v.mag \in 0..MaxUnsigned
    BY <1>2, WidthsAssumption DEF Accepts, reject_non_integer, Values, Numbers, Magnitudes
  <2>2. Float[v.mag] < Big
    BY <2>1, DoublesAssumption
  <2> QED
    BY <2>1, <2>2 DEF Accepts, Surfaces, writeNumberAccepts, canonical_valueAccepts
<1> QED
  BY <1>1, <1>2

-----------------------------------------------------------------------------
(* Order *)

LEMMA OrderAgrees ==
  ASSUME NEW c \in Nat, NEW d \in Nat, IsCodePoint(c), IsCodePoint(d),
         ~Mixed(c, d), ~Mixed(d, c)
  PROVE  lessUTF16(c, d) <=> c < d
<1>1. CASE c < 65536 /\ d < 65536
  BY <1>1, SMT DEF IsCodePoint, lessUTF16, UnitOne, UnitTwo
<1>2. CASE c < 65536 /\ d >= 65536
  BY <1>2, SMT DEF IsCodePoint, lessUTF16, UnitOne, UnitTwo, Mixed
<1>3. CASE c >= 65536 /\ d < 65536
  BY <1>3, SMT DEF IsCodePoint, lessUTF16, UnitOne, UnitTwo, Mixed
<1>4. CASE c >= 65536 /\ d >= 65536
  BY <1>4, SMT DEF IsCodePoint, lessUTF16, UnitOne, UnitTwo
<1> QED
  BY <1>1, <1>2, <1>3, <1>4, SMT

-----------------------------------------------------------------------------
(* Objects *)

LEMMA InitTypes == Init => TypeOK
<1> SUFFICES ASSUME Init PROVE TypeOK
  OBVIOUS
<1>1. authored \in Objects /\ authored = doc
  BY DEF Init
<1>2. DOMAIN doc \subseteq Fields \cup Envelope /\ doc \in [DOMAIN doc -> Values]
  BY <1>1, FieldsAssumption
<1>3. DOMAIN minted = Surfaces /\ \A s \in Surfaces : minted[s] = {}
  BY DEF Init
<1> QED
  BY <1>1, <1>2, <1>3 DEF Init, TypeOK

LEMMA NextTypes == TypeOK /\ [Next]_vars => TypeOK'
<1> SUFFICES ASSUME TypeOK, [Next]_vars PROVE TypeOK'
  OBVIOUS
<1>1. ASSUME NEW s \in Surfaces, Mint(s) PROVE TypeOK'
  <2> DEFINE core == ContentCore(s, doc)
  <2>1. Legal(s, core) /\ Oid(s, doc) = Canonical(s, core)
    BY <1>1 DEF Mint, Oid
  <2>2. \A k \in DOMAIN core : core[k] \in Values /\ Accepts(s, core[k])
    BY <2>1 DEF TypeOK, ContentCore, Legal
  <2>3. \A k \in DOMAIN core :
          Writes(s, core[k]) \in {v \in Values : v.form \in {"text", "integer"}}
    BY <2>2, WritesTyped
  <2>4. DOMAIN Canonical(s, core).members = DOMAIN core
        /\ \A k \in DOMAIN core : Canonical(s, core).members[k] = Writes(s, core[k])
    BY DEF Canonical
  <2>5. \A k \in DOMAIN Oid(s, doc).members :
          Oid(s, doc).members[k] \in {v \in Values : v.form \in {"text", "integer"}}
    BY <2>1, <2>3, <2>4
  <2>6. DOMAIN minted' = Surfaces
        /\ \A t \in Surfaces : \A m \in minted'[t] : m \in minted[t] \/ m = Oid(s, doc)
    BY <1>1 DEF Mint, TypeOK
  <2>7. UNCHANGED <<authored, doc, refused>>
    BY <1>1 DEF Mint
  <2> QED
    BY <2>5, <2>6, <2>7 DEF TypeOK
<1>2. ASSUME NEW s \in Surfaces, Refuse(s) PROVE TypeOK'
  BY <1>2 DEF Refuse, TypeOK
<1>3. ASSUME NEW s \in Surfaces, Relay(s) PROVE TypeOK'
  <2>1. \A k \in DOMAIN doc : doc[k] \in Values /\ Accepts(s, doc[k])
    BY <1>3 DEF Relay, Legal, TypeOK
  <2>2. \A k \in DOMAIN doc : Writes(s, doc[k]) \in Values
    BY <2>1, WritesTyped
  <2>3. DOMAIN doc' = DOMAIN doc /\ doc' \in [DOMAIN doc' -> Values]
    BY <1>3, <2>2 DEF Relay
  <2> QED
    BY <1>3, <2>3 DEF Relay, TypeOK
<1>4. ASSUME NEW group \in Attachments, Attest(group) PROVE TypeOK'
  <2>1. group \subseteq Envelope /\ Text \in Values
    BY DEF Envelope, Values
  <2>2. DOMAIN doc' = DOMAIN doc \cup group /\ doc' \in [DOMAIN doc' -> Values]
    BY <1>4, <2>1 DEF Attest, TypeOK
  <2> QED
    BY <1>4, <2>1, <2>2 DEF Attest, TypeOK
<1>5. ASSUME UNCHANGED vars PROVE TypeOK'
  BY <1>5 DEF vars, TypeOK
<1> QED
  BY <1>1, <1>2, <1>3, <1>4, <1>5 DEF Next

(* Type correctness; in particular nothing but integers is ever hashed. *)
THEOREM RelayTypes == Spec => []TypeOK
  BY InitTypes, NextTypes, PTL DEF Spec

(* RustIsStrictest, for every object there can be. *)
THEOREM RustStrictest == Spec => []RustIsStrictest
<1>1. TypeOK => RustIsStrictest
  <2> SUFFICES ASSUME TypeOK, Oid("rust", doc) # Malformed, NEW s \in Surfaces
               PROVE  Oid(s, doc) # Malformed
    BY DEF RustIsStrictest
  <2>1. "rust" \in Surfaces
    BY DEF Surfaces
  <2>2. ContentCore(s, doc) = ContentCore("rust", doc)
    BY <2>1, OneEnvelope DEF ContentCore
  <2>3. Legal("rust", ContentCore("rust", doc))
    BY DEF Oid
  <2>4. \A k \in DOMAIN ContentCore(s, doc) : ContentCore(s, doc)[k] \in Values
    BY DEF ContentCore, TypeOK
  <2>5. Legal(s, ContentCore(s, doc))
    BY <2>2, <2>3, <2>4, RustAccepts DEF Legal
  <2>6. Oid(s, doc) = Canonical(s, ContentCore(s, doc))
    BY <2>5 DEF Oid
  <2> QED
    BY <2>6 DEF Canonical, Malformed
<1> QED
  BY RelayTypes, <1>1, PTL

-----------------------------------------------------------------------------
(* Relaying *)

(* An object that a package wrote has the same OID as the one it read. *)
LEMMA RelaySame ==
  ASSUME TypeOK, NEW s \in Surfaces, Relay(s)
  PROVE  Oid(s, doc') = Oid(s, doc)
<1> DEFINE core == ContentCore(s, doc)
           new == ContentCore(s, doc')
<1>1. \A k \in DOMAIN doc : doc[k] \in Values /\ Accepts(s, doc[k])
  BY DEF Relay, Legal, TypeOK
<1>2. DOMAIN doc' = DOMAIN doc /\ \A k \in DOMAIN doc : doc'[k] = Writes(s, doc[k])
  BY DEF Relay
<1>3. DOMAIN new = DOMAIN core /\ DOMAIN core \subseteq DOMAIN doc
  BY <1>2 DEF ContentCore
<1>4. \A k \in DOMAIN core : core[k] = doc[k] /\ new[k] = Writes(s, core[k])
  BY <1>2, <1>3 DEF ContentCore
<1>5. \A k \in DOMAIN core : /\ Accepts(s, core[k]) /\ Accepts(s, new[k])
                             /\ Writes(s, new[k]) = Writes(s, core[k])
  BY <1>1, <1>3, <1>4, WritesTwice
<1>6. Legal(s, core) /\ Legal(s, new)
  BY <1>3, <1>5 DEF Legal
<1>7. Canonical(s, new) = Canonical(s, core)
  BY <1>3, <1>5 DEF Canonical
<1> QED
  BY <1>6, <1>7 DEF Oid

(* RelayingKeepsOwnOid, for every object there can be. *)
THEOREM RelayingStable == Spec => RelayingKeepsOwnOid
<1>1. TypeOK /\ [Next]_vars => [\A s \in Surfaces : Relay(s) => Oid(s, doc') = Oid(s, doc)]_vars
  BY RelaySame
<1> QED
  BY RelayTypes, <1>1, PTL DEF Spec, RelayingKeepsOwnOid

-----------------------------------------------------------------------------
(* Portable objects *)

(* What an author wrote plainly stands in the object still, and all that has
   come to it is an envelope of texts. *)
CoreKept ==
  Portable(authored) =>
    /\ DOMAIN doc \ Envelope = DOMAIN authored
    /\ \A k \in DOMAIN authored : doc[k] = authored[k]
    /\ \A k \in DOMAIN doc \cap Envelope : doc[k] = Text

PortableInv == TypeOK /\ CoreKept /\ PortableHasOneOid

(* All packages compute one OID of a portable object, and refuse none. *)
LEMMA PortableOid ==
  ASSUME TypeOK, CoreKept, Portable(authored), NEW s \in Surfaces
  PROVE  Oid(s, doc) = Oid("go", authored) /\ Oid(s, doc) # Malformed
<1> DEFINE a == authored
<1>1. a \in [DOMAIN a -> Values] /\ DOMAIN a \subseteq Fields
  BY FieldsAssumption DEF TypeOK
<1>2. "go" \in Surfaces
  BY DEF Surfaces
<1>3. DOMAIN doc \ Envelope = DOMAIN a /\ \A k \in DOMAIN a : doc[k] = a[k]
  BY DEF CoreKept
<1>4. ContentCore(s, doc) = a
  <2>1. ContentCore(s, doc) = [k \in DOMAIN a |-> a[k]]
    BY <1>3, OneEnvelope DEF ContentCore
  <2> QED
    BY <2>1, <1>1
<1>5. ContentCore("go", a) = a
  <2>1. DOMAIN a \ Envelope = DOMAIN a
    BY <1>1, FieldsAssumption
  <2>2. ContentCore("go", a) = [k \in DOMAIN a |-> a[k]]
    BY <1>2, <2>1, OneEnvelope DEF ContentCore
  <2> QED
    BY <2>2, <1>1
<1>6. ASSUME NEW t \in Surfaces, NEW k \in DOMAIN a
      PROVE  Accepts(t, a[k]) /\ Writes(t, a[k]) = a[k]
  BY <1>1, PlainWritten DEF Portable
<1>7. \A t \in Surfaces : Legal(t, a)
  BY <1>6 DEF Legal
<1>8. ASSUME NEW t \in Surfaces, NEW j \in DOMAIN a, NEW k \in DOMAIN a
      PROVE  Precedes(t, j, k) <=> Code[j] < Code[k]
  <2>1. /\ Code[j] \in Nat /\ IsCodePoint(Code[j])
        /\ Code[k] \in Nat /\ IsCodePoint(Code[k])
    BY <1>1, CodesAssumption
  <2>2. ~Mixed(Code[j], Code[k]) /\ ~Mixed(Code[k], Code[j])
    BY DEF Portable
  <2> QED
    BY <2>1, <2>2, OrderAgrees DEF Precedes
<1>9. \A t \in Surfaces :
        Canonical(t, a) = [members |-> [k \in DOMAIN a |-> a[k]],
                           order |-> {p \in (DOMAIN a) \X (DOMAIN a) : Code[p[1]] < Code[p[2]]}]
  <2> SUFFICES ASSUME NEW t \in Surfaces
               PROVE  Canonical(t, a) =
                        [members |-> [k \in DOMAIN a |-> a[k]],
                         order |-> {p \in (DOMAIN a) \X (DOMAIN a) : Code[p[1]] < Code[p[2]]}]
    OBVIOUS
  <2>1. [k \in DOMAIN a |-> Writes(t, a[k])] = [k \in DOMAIN a |-> a[k]]
    BY <1>6
  <2>2. {p \in (DOMAIN a) \X (DOMAIN a) : Precedes(t, p[1], p[2])}
          = {p \in (DOMAIN a) \X (DOMAIN a) : Code[p[1]] < Code[p[2]]}
    BY <1>8
  <2> QED
    BY <2>1, <2>2 DEF Canonical
<1>10. Oid(s, doc) = Canonical(s, a) /\ Oid("go", a) = Canonical("go", a)
  BY <1>2, <1>4, <1>5, <1>7 DEF Oid
<1>11. Canonical(s, a) = Canonical("go", a)
  BY <1>2, <1>9
<1>12. Canonical(s, a) # Malformed
  BY DEF Canonical, Malformed
<1> QED
  BY <1>10, <1>11, <1>12

LEMMA InitPortable == Init => PortableInv
<1> SUFFICES ASSUME Init PROVE PortableInv
  OBVIOUS
<1>1. TypeOK
  BY InitTypes
<1>2. DOMAIN doc \cap Envelope = {}
  BY FieldsAssumption DEF Init
<1>3. CoreKept
  BY <1>2 DEF Init, CoreKept
<1> QED
  BY <1>1, <1>3 DEF Init, PortableInv, PortableHasOneOid

LEMMA NextPortable == PortableInv /\ [Next]_vars => PortableInv'
<1> SUFFICES ASSUME PortableInv, [Next]_vars PROVE PortableInv'
  OBVIOUS
<1>1. TypeOK /\ CoreKept /\ PortableHasOneOid
  BY DEF PortableInv
<1>2. TypeOK'
  BY <1>1, NextTypes
<1>3. ASSUME NEW s \in Surfaces, Mint(s) PROVE PortableInv'
  <2>1. UNCHANGED <<authored, doc, refused>>
    BY <1>3 DEF Mint
  <2>2. \A t \in Surfaces : minted'[t] \subseteq minted[t] \cup {Oid(s, doc)}
    BY <1>1, <1>3 DEF Mint, TypeOK
  <2>3. Portable(authored) => Oid(s, doc) = Oid("go", authored)
    BY <1>1, PortableOid
  <2>4. PortableHasOneOid'
    BY <1>1, <2>1, <2>2, <2>3 DEF PortableHasOneOid
  <2>5. CoreKept'
    BY <1>1, <2>1 DEF CoreKept
  <2> QED
    BY <1>2, <2>4, <2>5 DEF PortableInv
<1>4. ASSUME NEW s \in Surfaces, Refuse(s) PROVE PortableInv'
  <2>1. ~Portable(authored)
    BY <1>1, <1>4, PortableOid DEF Refuse
  <2> QED
    BY <1>2, <1>4, <2>1 DEF Refuse, PortableInv, CoreKept, PortableHasOneOid
<1>5. ASSUME NEW s \in Surfaces, Relay(s) PROVE PortableInv'
  <2>1. UNCHANGED <<authored, minted, refused>> /\ DOMAIN doc' = DOMAIN doc
        /\ \A k \in DOMAIN doc : doc'[k] = Writes(s, doc[k])
    BY <1>5 DEF Relay
  <2>2. ASSUME Portable(authored), NEW k \in DOMAIN authored
        PROVE  k \in DOMAIN doc /\ doc'[k] = authored[k]
    <3>1. authored[k] \in Values /\ Plain(authored[k])
      BY <1>1, <2>2, FieldsAssumption DEF TypeOK, Portable
    <3>2. k \in DOMAIN doc /\ doc[k] = authored[k]
      BY <1>1, <2>2 DEF CoreKept
    <3> QED
      BY <2>1, <3>1, <3>2, PlainWritten
  <2>3. ASSUME Portable(authored), NEW k \in DOMAIN doc \cap Envelope PROVE doc'[k] = Text
    BY <1>1, <2>1, <2>3 DEF CoreKept, Writes
  <2>4. CoreKept'
    BY <1>1, <2>1, <2>2, <2>3 DEF CoreKept
  <2> QED
    BY <1>1, <1>2, <2>1, <2>4 DEF PortableInv, PortableHasOneOid
<1>6. ASSUME NEW group \in Attachments, Attest(group) PROVE PortableInv'
  <2>1. group \subseteq Envelope
    BY DEF Envelope
  <2>2. UNCHANGED <<authored, minted, refused>> /\ DOMAIN doc' = DOMAIN doc \cup group
        /\ \A k \in DOMAIN doc' : doc'[k] = IF k \in group THEN Text ELSE doc[k]
    BY <1>6 DEF Attest
  <2>3. DOMAIN authored \cap Envelope = {}
    BY <1>1, FieldsAssumption DEF TypeOK
  <2>4. CoreKept'
    BY <1>1, <2>1, <2>2, <2>3 DEF CoreKept
  <2> QED
    BY <1>1, <1>2, <2>2, <2>4 DEF PortableInv, PortableHasOneOid
<1>7. ASSUME UNCHANGED vars PROVE PortableInv'
  BY <1>1, <1>2, <1>7 DEF vars, PortableInv, CoreKept, PortableHasOneOid
<1> QED
  BY <1>3, <1>4, <1>5, <1>6, <1>7 DEF Next

(* PortableHasOneOid, for every set of objects and every rounding. *)
THEOREM PortableOneOid == Spec => []PortableHasOneOid
<1>1. PortableInv => PortableHasOneOid
  BY DEF PortableInv
<1> QED
  BY InitPortable, NextPortable, <1>1, PTL DEF Spec

=============================================================================

--------------------------- MODULE CanonicalRelay ---------------------------
(***************************************************************************)
(* The canonical form and the OID of a GAP object, as the Go               *)
(* (go/gapcore), the Rust (rust/src) and the Python (python/synoi_gap)     *)
(* packages of the repository compute them, and an object that travels     *)
(* between them.  Each package decodes the JSON it is given, removes the   *)
(* envelope fields, writes what is left in its canonical form and hashes   *)
(* it; a relay decodes an object and writes it out again.  The whole       *)
(* scheme rests on every package arriving at the same bytes.               *)
(*                                                                         *)
(* A field's value is a piece of text (a string, a literal) or a number    *)
(* literal.  Of a number the model keeps what the packages disagree about: *)
(* how it is written, its sign and its magnitude.  Widths are parameters,  *)
(* Exact for 2^53, MaxSigned for 2^63 - 1, MaxUnsigned for 2^64 - 1 and    *)
(* Big for 10^21.  Of a field's name it keeps the first character in which *)
(* it differs from the others: that character decides how it is sorted.    *)
(***************************************************************************)
EXTENDS Integers

CONSTANTS
  Fields,        \* names of the fields that an author writes
  Code,          \* the code point each name, an envelope field's too, is sorted by
  Objects,       \* the objects that authors write
  MaxMagnitude,  \* bound: the largest magnitude of a literal
  Exact,         \* up to here every integer is a double
  MaxSigned,     \* the largest i64
  MaxUnsigned,   \* the largest u64
  Big,           \* from here a double is written with an exponent
  Float,         \* the double nearest to an integer (strconv.ParseFloat)
  ZeroSigned,    \* whether serde_json keeps the sign of -0 (its releases differ)
  Shortest       \* the digits a double is written with (FormatFloat 'f', -1)

Magnitudes == 0..MaxMagnitude

(* "integer": digits only.  "decimal": with a point or an exponent, the
   nearest double being an integer (1.0, 1e2).  "fraction": likewise, the
   nearest double being no integer. *)
Text == [form |-> "text", neg |-> FALSE, mag |-> 0]
Numbers == [form : {"integer", "decimal", "fraction"}, neg : BOOLEAN, mag : Magnitudes]
Values == Numbers \cup {Text}

(* What a signer adds to an object, one group at a time. *)
Attachments ==
  {{"oid"}, {"attestation"},
   {"signature", "ml_dsa_signature", "signature_key_id", "signature_algorithm"}}
Envelope == UNION Attachments

Surfaces == {"go", "rust", "python"}

ASSUME FieldsAssumption ==
  /\ Fields \cap Envelope = {}
  /\ \A o \in Objects : DOMAIN o \subseteq Fields /\ o \in [DOMAIN o -> Values]

IsCodePoint(c) == c < 55296 \/ (57344 <= c /\ c < 1114112)    \* no surrogates

ASSUME CodesAssumption ==
  /\ Code \in [Fields \cup Envelope -> Nat]
  /\ \A k \in Fields \cup Envelope : IsCodePoint(Code[k])

ASSUME ZeroAssumption == ZeroSigned \in BOOLEAN

ASSUME WidthsAssumption ==
  /\ MaxMagnitude \in Nat /\ Exact \in Nat /\ MaxSigned \in Nat
  /\ MaxUnsigned \in Nat /\ Big \in Nat
  /\ Exact <= MaxSigned /\ MaxSigned < MaxUnsigned /\ MaxUnsigned < Big
  /\ Big <= MaxMagnitude

(* IEEE 754: a double stands for itself and for its shortest digits. *)
ASSUME DoublesAssumption ==
  /\ Float \in [Magnitudes -> Magnitudes] /\ Shortest \in [Magnitudes -> Magnitudes]
  /\ \A n \in 0..Exact : Float[n] = n /\ Shortest[n] = n
  /\ \A n \in Magnitudes : Float[Shortest[Float[n]]] = Float[n]
  /\ \A n \in 0..MaxUnsigned : Float[n] < Big

VARIABLES
  authored,   \* history: the object as its author wrote it
  doc,        \* the object as it stands now
  minted,     \* history: the OIDs each surface has computed of it
  refused     \* history: the surfaces that have called it malformed

vars == <<authored, doc, minted, refused>>

-----------------------------------------------------------------------------
(* Numbers *)

Integer(neg, mag) == [form |-> "integer", neg |-> neg, mag |-> mag]

(* Go: the literal becomes a double; an integral double below 10^21 is written
   as an integer, and zero has no sign. *)
writeNumberAccepts(v) == v.form # "fraction" /\ Float[v.mag] < Big
writeNumber(v) ==
  Integer(v.neg /\ Float[v.mag] # 0, IF Float[v.mag] = 0 THEN 0 ELSE Shortest[Float[v.mag]])

(* Rust: the literal must parse as an i64 or a u64, and is written as it was
   read; the sign of a zero may be lost in reading. *)
reject_non_integerNot(v) == TRUE                       \* mutant: no check
reject_non_integerAnyWidth(v) == v.form = "integer"    \* mutant: any digits
reject_non_integer(v) ==
  v.form = "integer" /\ v.mag <= (IF v.neg THEN MaxSigned + 1 ELSE MaxUnsigned)
write_numberAsDouble(v) ==                             \* mutant: u64 through f64
  IF v.mag > MaxSigned THEN [v EXCEPT !.form = "decimal"] ELSE v
write_number(v) == [v EXCEPT !.neg = v.neg /\ (v.mag # 0 \/ ZeroSigned)]

(* Python: json.loads makes an int of digits and a float, which is refused, of
   anything else; an int has no width, and zero has no sign. *)
canonical_valueAccepts(v) == v.form = "integer"
canonical_value(v) == Integer(v.neg /\ v.mag # 0, v.mag)

Accepts(s, v) ==
  \/ v = Text
  \/ s = "go" /\ writeNumberAccepts(v)
  \/ s = "rust" /\ reject_non_integer(v)
  \/ s = "python" /\ canonical_valueAccepts(v)

Writes(s, v) ==
  IF v = Text THEN v
  ELSE CASE s = "go" -> writeNumber(v)
         [] s = "rust" -> write_number(v)
         [] s = "python" -> canonical_value(v)

-----------------------------------------------------------------------------
(* Field order *)

(* The UTF-16 code units of a code point; the second is 0 when there is none. *)
UnitOne(c) == IF c < 65536 THEN c ELSE 55296 + ((c - 65536) \div 1024)
UnitTwo(c) == IF c < 65536 THEN 0 ELSE 56320 + ((c - 65536) % 1024)

lessUTF16(c, d) ==
  UnitOne(c) < UnitOne(d) \/ (UnitOne(c) = UnitOne(d) /\ UnitTwo(c) < UnitTwo(d))

(* Python's sorted() compares strings by code point. *)
Precedes(s, j, k) ==
  IF s = "python" THEN Code[j] < Code[k] ELSE lessUTF16(Code[j], Code[k])

-----------------------------------------------------------------------------
(* The canonical form and the OID *)

ExcludedInPython == {"oid", "signature", "ml_dsa_signature", "signature_key_id",
                     "signature_algorithm", "attestation"}
contentCoreExcluded == {"oid", "signature", "ml_dsa_signature", "signature_key_id",
                        "signature_algorithm", "attestation"}
CDRO_ENVELOPE_FIELDSFive ==    \* mutant: the key id is taken for content
  {"oid", "signature", "ml_dsa_signature", "signature_algorithm", "attestation"}
CDRO_ENVELOPE_FIELDS == {"oid", "signature", "ml_dsa_signature", "signature_key_id",
                         "signature_algorithm", "attestation"}

Excluded(s) ==
  CASE s = "go" -> contentCoreExcluded
    [] s = "rust" -> CDRO_ENVELOPE_FIELDS
    [] s = "python" -> ExcludedInPython

ContentCore(s, o) == [k \in DOMAIN o \ Excluded(s) |-> o[k]]

(* A text is its members and the order they stand in. *)
Canonical(s, o) ==
  [members |-> [k \in DOMAIN o |-> Writes(s, o[k])],
   order |-> {p \in (DOMAIN o) \X (DOMAIN o) : Precedes(s, p[1], p[2])}]

Legal(s, o) == \A k \in DOMAIN o : Accepts(s, o[k])

(* SHA-256 is taken to be injective: an OID is the text it hashes. *)
Malformed == [malformed |-> TRUE]
Oid(s, o) ==
  IF Legal(s, ContentCore(s, o)) THEN Canonical(s, ContentCore(s, o)) ELSE Malformed

-----------------------------------------------------------------------------
Init ==
  /\ doc \in Objects
  /\ authored = doc
  /\ minted = [s \in Surfaces |-> {}]
  /\ refused = {}

(* A surface computes the OID of the object, to stamp or to verify it. *)
Mint(s) ==
  /\ Oid(s, doc) # Malformed
  /\ minted' = [minted EXCEPT ![s] = @ \cup {Oid(s, doc)}]
  /\ UNCHANGED <<authored, doc, refused>>

Refuse(s) ==
  /\ Oid(s, doc) = Malformed
  /\ refused' = refused \cup {s}
  /\ UNCHANGED <<authored, doc, minted>>

(* A surface reads the object and writes it out again, envelope and all. *)
Relay(s) ==
  /\ Legal(s, doc)
  /\ doc' = [k \in DOMAIN doc |-> Writes(s, doc[k])]
  /\ UNCHANGED <<authored, minted, refused>>

(* A signer stamps, signs or attests the object. *)
Attest(group) ==
  /\ group \in Attachments
  /\ doc' = [k \in DOMAIN doc \cup group |-> IF k \in group THEN Text ELSE doc[k]]
  /\ UNCHANGED <<authored, minted, refused>>

Next ==
  \/ \E s \in Surfaces : Mint(s) \/ Refuse(s) \/ Relay(s)
  \/ \E group \in Attachments : Attest(group)

Spec == Init /\ [][Next]_vars

-----------------------------------------------------------------------------
(* Objects stay objects, and what is hashed holds no number but integers. *)
TypeOK ==
  /\ authored \in Objects
  /\ DOMAIN doc \subseteq Fields \cup Envelope /\ doc \in [DOMAIN doc -> Values]
  /\ DOMAIN minted = Surfaces
  /\ \A s \in Surfaces : \A m \in minted[s] : \A k \in DOMAIN m.members :
       m.members[k] \in {v \in Values : v.form \in {"text", "integer"}}
  /\ refused \subseteq Surfaces

(* An integer that is written the one way every package writes it. *)
Plain(v) == v = Text \/ (v.form = "integer" /\ v.mag <= Exact /\ (v.neg => v.mag # 0))

(* UTF-16 and code points order two fields alike unless one sorts by an astral
   character and the other by one of U+E000..U+FFFF. *)
Mixed(c, d) == c >= 65536 /\ 57344 <= d /\ d < 65536
Portable(o) ==
  /\ \A k \in DOMAIN o : Plain(o[k])
  /\ \A j, k \in DOMAIN o : ~Mixed(Code[j], Code[k])

(* A portable object has one OID for all: whichever packages relay it, in
   whatever order, and whether or not it is stamped, signed and attested on
   the way, none of them refuses it and each computes the OID that any of them
   computed of the object as it was written. *)
PortableHasOneOid ==
  Portable(authored) =>
    /\ refused = {}
    /\ \A s \in Surfaces : minted[s] \subseteq {Oid("go", authored)}

(* canonicalize_gap's "a float-bearing object cannot mint an OID that another
   surface declares malformed": whatever the Rust package accepts, of any form,
   sign and width, the others accept. *)
RustIsStrictest ==
  Oid("rust", doc) # Malformed => \A s \in Surfaces : Oid(s, doc) # Malformed

(* A package never disagrees with itself: reading an object and writing it out
   again leaves the OID that the same package computes of it, rounding, signs
   and all. *)
RelayingKeepsOwnOid ==
  [][\A s \in Surfaces : Relay(s) => Oid(s, doc') = Oid(s, doc)]_vars

(* What GAP_SPEC.md and the headers of all three packages promise: no two of
   them compute different OIDs of an object. *)
PackagesAgree ==
  doc = authored =>
    \A r, s \in Surfaces : \A m \in minted[r], n \in minted[s] : m = n

=============================================================================

-------------------------- MODULE MCCanonicalRelay --------------------------
(* Small instances of CanonicalRelay.  Doubles have a significand of three
   bits, so integers are exact up to 8, then every second, fourth and eighth
   integer is a double; the other widths keep their order. *)
EXTENDS CanonicalRelay, TLC

CONSTANTS f, g

TwoFields == {f, g}
EnvelopeCodes ==    \* the letters that order the names: a, m, o, s, ...
  "attestation" :> 97 @@ "ml_dsa_signature" :> 109 @@ "oid" :> 111 @@ "signature" :> 115
    @@ "signature_algorithm" :> 116 @@ "signature_key_id" :> 117
LatinCodes == EnvelopeCodes @@ f :> 98 @@ g :> 233            \* "b" and e-acute
AstralCodes == EnvelopeCodes @@ f :> 65377 @@ g :> 128512     \* U+FF61 and U+1F600

Quantum(n) == IF n < 8 THEN 1 ELSE IF n < 16 THEN 2 ELSE IF n < 32 THEN 4 ELSE 8

(* Round half to even. *)
Nearest ==
  [n \in Magnitudes |->
     LET q == Quantum(n)  d == n \div q  r == 2 * (n % q)
     IN  q * (IF r > q \/ (r = q /\ d % 2 = 1) THEN d + 1 ELSE d)]

(* As many zeros at the end as the double allows, and then the closest. *)
Zeros(n) == IF n % 10 = 0 THEN 1 ELSE 0
Digits ==
  [d \in Magnitudes |->
     LET same == {n \in Magnitudes : Nearest[n] = Nearest[d]}
         away(n) == IF n < Nearest[d] THEN Nearest[d] - n ELSE n - Nearest[d]
         short == {n \in same : \A m \in same : Zeros(m) <= Zeros(n)}
     IN  IF d = 0 THEN 0 ELSE CHOOSE n \in short : \A m \in short : away(n) <= away(m)]

Lit(form, mags) == {v \in Numbers : v.form = form /\ v.mag \in mags}

(* Zero, one, and both sides of every width. *)
EdgeValues ==
  Lit("integer", {0, 1, 8, 9, 11, 15, 16, 17, 31, 32, 35, 37, 40})
    \cup Lit("decimal", {0, 1, 9, 40}) \cup Lit("fraction", {1}) \cup {Text}
PlainValues == {v \in EdgeValues : Plain(v)}

EdgeObjects == {[k \in {f} |-> v] : v \in EdgeValues} \cup
  [TwoFields -> Lit("integer", {0, 9}) \cup {Text}]
PlainObjects == [TwoFields -> PlainValues]

=============================================================================

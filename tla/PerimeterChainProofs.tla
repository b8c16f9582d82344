------------------------ MODULE PerimeterChainProofs ------------------------
(***************************************************************************)
(* Proofs about PerimeterChain, for chains of any length over any          *)
(* declarations.  The loop invariant says of the prefix already seen what  *)
(* the verdict will say of the chain: there is no reason yet if and only   *)
(* if that prefix is coherent, every pair in it included.  A new           *)
(* declaration is compared with its neighbour alone; what it has to do     *)
(* with the earlier ones follows from what the prefix says about them.     *)
(***************************************************************************)
EXTENDS PerimeterReading, TLAPS

LoopInv ==
  /\ TypeOK
  /\ pc = "start" => reasons = {} /\ i = 2
  /\ pc = "loop" => chain # << >> /\ (reasons = {} <=> Coherent(chain, i - 1))
  /\ VerdictExact

LEMMA InitLoop == Init => LoopInv
  BY ChainsAssumption DEF Init, LoopInv, TypeOK, VerdictExact

LEMMA ChainFacts ==
  ASSUME NEW ch \in Seq(Declarations), NEW k \in 1..Len(ch)
  PROVE  /\ ch[k].from \in Nat
         /\ ch[k].to \in Nat \cup {OpenEnded}
         /\ ch[k] \in Declarations
         /\ Len(ch) \in Nat
<1>1. ch[k] \in Declarations /\ Len(ch) \in Nat
  OBVIOUS
<1> QED
  BY <1>1 DEF Declarations

(* One turn of the loop: the pair is in order exactly when the declaration
   extends a coherent prefix to a coherent prefix. *)
LEMMA PairExtends ==
  ASSUME NEW ch \in Seq(Declarations), NEW m \in Nat, m \in 2..Len(ch),
         Coherent(ch, m - 1)
  PROVE  PairReasons(ch[m - 1], ch[m]) = {} <=> Coherent(ch, m)
<1> DEFINE a == ch[m - 1]  b == ch[m]
<1>0. /\ m - 1 \in 1..(m - 1) /\ m \in 1..m
      /\ \A k \in 1..m : k \in 1..Len(ch)
      /\ \A k \in 1..m : k = m \/ k \in 1..(m - 1)
      /\ \A k \in 2..m : k = m \/ k \in 2..(m - 1)
      /\ \A k \in 1..(m - 1) : k \in 1..m
      /\ \A k \in 2..(m - 1) : k \in 2..m
  OBVIOUS
<1>1. \A k \in 1..m : ch[k].from \in Nat /\ ch[k].to \in Nat \cup {OpenEnded}
  BY <1>0, ChainFacts
<1>2. PairReasons(a, b) = {} <=>
        /\ b.prev = a.oid
        /\ b.tenant = a.tenant
        /\ SameSubject(b.subject, a.subject)
        /\ ~(b.from <= a.from)
        /\ ~Inverted(a)
        /\ ~(a.to # OpenEnded /\ a.to > b.from)
  BY DEF PairReasons, When
<1>3. ASSUME PairReasons(a, b) = {} PROVE Coherent(ch, m)
  <2>1. ch[1].prev = NoPrev /\ \A k \in 2..m : ch[k].prev = ch[k - 1].oid
    BY <1>0, <1>2, <1>3 DEF Coherent
  <2>2. ASSUME NEW j \in 1..m, NEW k \in 1..m
        PROVE  ch[j].tenant = ch[k].tenant
    BY <1>0, <1>2, <1>3 DEF Coherent
  <2>3. ASSUME NEW j \in 1..m, NEW k \in 1..m
        PROVE  SameSubject(ch[j].subject, ch[k].subject)
    BY <1>0, <1>2, <1>3 DEF Coherent, SameSubject
  <2>4. ASSUME NEW j \in 1..m, NEW k \in 1..m, j < k
        PROVE  /\ ch[j].from < ch[k].from
               /\ ~Inverted(ch[j])
               /\ ch[j].to # OpenEnded => ch[j].to <= ch[k].from
    <3>1. CASE k # m
      <4>1. j \in 1..(m - 1) /\ k \in 1..(m - 1)
        BY <2>4, <3>1
      <4>2. \A p, q \in 1..(m - 1) : p < q =>
              /\ ch[p].from < ch[q].from
              /\ ~Inverted(ch[p])
              /\ ch[p].to # OpenEnded => ch[p].to <= ch[q].from
        BY DEF Coherent
      <4> QED
        BY <2>4, <4>1, <4>2
    <3>2. CASE k = m /\ j = m - 1
      BY <1>0, <1>1, <1>2, <1>3, <3>2
    <3>3. CASE k = m /\ j # m - 1
      <4>1. j \in 1..(m - 1) /\ j < m - 1
        BY <2>4, <3>3
      <4>2. /\ ch[j].from < a.from
            /\ ~Inverted(ch[j])
            /\ ch[j].to # OpenEnded => ch[j].to <= a.from
        BY <1>0, <4>1 DEF Coherent
      <4>3. a.from < b.from
        BY <1>0, <1>1, <1>2, <1>3
      <4>4. a.from \in Nat /\ b.from \in Nat /\ ch[j].from \in Nat
            /\ ch[j].to \in Nat \cup {OpenEnded}
        BY <1>0, <1>1
      <4> QED
        BY <3>3, <4>2, <4>3, <4>4
    <3> QED
      BY <3>1, <3>2, <3>3
  <2> QED
    BY <2>1, <2>2, <2>3, <2>4 DEF Coherent
<1>4. ASSUME Coherent(ch, m) PROVE PairReasons(a, b) = {}
  <2>1. /\ b.prev = a.oid
        /\ b.tenant = a.tenant
        /\ SameSubject(b.subject, a.subject)
        /\ a.from < b.from
        /\ ~Inverted(a)
        /\ a.to # OpenEnded => a.to <= b.from
    BY <1>0, <1>4 DEF Coherent
  <2>2. /\ a.from \in Nat /\ b.from \in Nat
        /\ a.to \in Nat \cup {OpenEnded}
    BY <1>0, <1>1
  <2> QED
    BY <1>2, <2>1, <2>2
<1> QED
  BY <1>3, <1>4

(* A prefix of a coherent prefix is coherent. *)
LEMMA CoherentPrefix ==
  ASSUME NEW ch, NEW m \in Nat, m >= 1, Coherent(ch, m)
  PROVE  Coherent(ch, m - 1)
<1>1. /\ \A k \in 1..(m - 1) : k \in 1..m
      /\ \A k \in 2..(m - 1) : k \in 2..m
  OBVIOUS
<1> QED
  BY <1>1 DEF Coherent

LEMMA NextLoop == LoopInv /\ [Next]_vars => LoopInv'
<1> SUFFICES ASSUME LoopInv, [Next]_vars PROVE LoopInv'
  OBVIOUS
<1> USE DEF LoopInv
<1>0. chain \in Seq(Declarations) /\ Len(chain) \in Nat
  BY DEF TypeOK
<1>1. CASE Empty
  BY <1>1 DEF Empty, TypeOK, VerdictExact, Reasons
<1>2. CASE Genesis
  <2>1. chain # << >> /\ chain' = chain /\ i' = 2 /\ pc' = "loop" /\ Len(chain) >= 1
    BY <1>0, <1>2 DEF Genesis
  <2>2. reasons' = {} <=> chain[1].prev = NoPrev
    BY <1>2 DEF Genesis, When
  <2>3. Coherent(chain, 1) <=> chain[1].prev = NoPrev
    BY DEF Coherent, SameSubject
  <2>4. TypeOK'
    BY <1>0, <1>2, <2>1 DEF Genesis, TypeOK, When, Reasons
  <2>5. reasons' = {} <=> Coherent(chain', i' - 1)
    BY <2>1, <2>2, <2>3
  <2> QED
    BY <2>1, <2>4, <2>5 DEF VerdictExact
<1>3. CASE Pair
  <2>1. /\ pc' = "loop" /\ chain' = chain /\ i' = i + 1 /\ chain # << >>
        /\ i \in 2..Len(chain) /\ i' \in 2..(Len(chain) + 1)
        /\ reasons' = reasons \cup PairReasons(chain[i - 1], chain[i])
    BY <1>0, <1>3 DEF Pair, TypeOK
  <2>2. TypeOK'
    BY <1>0, <2>1 DEF TypeOK, PairReasons, When, Reasons
  <2>3. reasons' = {} <=> Coherent(chain, i)
    <3>1. CASE Coherent(chain, i - 1)
      <4>1. PairReasons(chain[i - 1], chain[i]) = {} <=> Coherent(chain, i)
        <5>1. i \in Nat /\ i \in 2..Len(chain)
          BY <2>1
        <5> QED
          BY ONLY <1>0, <3>1, <5>1, PairExtends
      <4>2. reasons = {}
        BY <1>3, <3>1 DEF Pair
      <4> QED
        BY <2>1, <4>1, <4>2
    <3>2. CASE ~Coherent(chain, i - 1)
      BY <1>0, <1>3, <2>1, <3>2, CoherentPrefix DEF Pair
    <3> QED
      BY <3>1, <3>2
  <2>4. i' - 1 = i
    BY <2>1
  <2> QED
    BY <2>1, <2>2, <2>3, <2>4 DEF VerdictExact
<1>4. CASE Last
  <2>1. /\ pc' = "done" /\ chain' = chain /\ i' = i /\ chain # << >>
        /\ i - 1 = Len(chain)
        /\ reasons' = reasons \cup LastReasons(chain[Len(chain)])
    BY <1>0, <1>4 DEF Last, TypeOK
  <2>2. TypeOK'
    BY <1>0, <1>4, <2>1 DEF Last, TypeOK, LastReasons, When, Reasons
  <2>3. LastReasons(chain[Len(chain)]) = {} <=> ~Inverted(chain[Len(chain)])
    BY DEF LastReasons, When
  <2>4. reasons = {} <=> Coherent(chain, Len(chain))
    BY <1>4, <2>1 DEF Last
  <2>5. VerdictExact'
    BY <2>1, <2>3, <2>4 DEF VerdictExact
  <2> QED
    BY <2>1, <2>2, <2>5
<1>5. CASE UNCHANGED vars
  BY <1>5 DEF vars, TypeOK, VerdictExact
<1> QED
  BY <1>1, <1>2, <1>3, <1>4, <1>5 DEF Next

-----------------------------------------------------------------------------
(* The pass stays within the chain and pushes no reason of another name. *)
THEOREM ChainTypes == Spec => []TypeOK
<1>1. LoopInv => TypeOK
  BY DEF LoopInv
<1> QED
  BY InitLoop, NextLoop, <1>1, PTL DEF Spec

(* The verdict on a chain of any length is exact: comparing neighbours is
   enough to know about every pair. *)
THEOREM ChainVerdictExact == Spec => []VerdictExact
<1>1. LoopInv => VerdictExact
  BY DEF LoopInv
<1> QED
  BY InitLoop, NextLoop, <1>1, PTL DEF Spec

LEMMA ExactMeansOne == TypeOK /\ VerdictExact => OnePerimeterInForce
<1> SUFFICES ASSUME TypeOK, VerdictExact, Holds,
                    NEW j \in 1..Len(chain), NEW k \in 1..Len(chain),
                    NEW t \in {chain[j].from, chain[k].from},
                    InForce(j, t), InForce(k, t)
             PROVE  j = k
  BY DEF OnePerimeterInForce
<1>1. chain \in Seq(Declarations) /\ Len(chain) \in Nat
  BY DEF TypeOK
<1>2. Coherent(chain, Len(chain))
  BY DEF VerdictExact, Holds
<1>3. t \in Nat
  BY <1>1, ChainFacts
<1>4. ASSUME NEW m \in 1..Len(chain), NEW n \in 1..Len(chain), m < n,
             InForce(m, t), InForce(n, t)
      PROVE  FALSE
  <2>1. /\ chain[m].from \in Nat /\ chain[n].from \in Nat
        /\ chain[m].to \in Nat \cup {OpenEnded}
    BY <1>1, ChainFacts
  <2>2. CASE chain[m].to = OpenEnded
    <3>1. n \in (m + 1)..Len(chain)
      BY <1>1, <1>4
    <3>2. t < chain[n].from /\ chain[n].from <= t
      BY <1>4, <2>2, <3>1 DEF InForce, Covers
    <3> QED
      BY <1>3, <2>1, <3>2
  <2>3. CASE chain[m].to # OpenEnded
    <3>1. t < chain[m].to /\ chain[m].to <= chain[n].from /\ chain[n].from <= t
      BY <1>2, <1>4, <2>3 DEF InForce, Covers, Coherent
    <3> QED
      BY <1>3, <2>1, <2>3, <3>1
  <2> QED
    BY <2>2, <2>3
<1> QED
  BY <1>1, <1>4

(* However long the chain, an accepted one never has two perimeters in force at
   one instant. *)
THEOREM OneInForce == Spec => []OnePerimeterInForce
<1>1. LoopInv => OnePerimeterInForce
  BY ExactMeansOne DEF LoopInv
<1> QED
  BY InitLoop, NextLoop, <1>1, PTL DEF Spec

LEMMA InSection ==
  ASSUME NEW title, NEW list, NEW other, NEW s, s # Nothing
  PROVE  <<title, s>> \in Section(other, list) <=> title = other /\ Among(s, list)
BY DEF Section, Among

(* What the text says of a surface is what the two lists say. *)
LEMMA InText ==
  ASSUME NEW body, NEW s \in Surfaces
  PROVE  /\ <<"GOVERNED", s>> \in renderPerimeterDeclaration(body) <=>
              Among(s, body.chokepoints_active)
         /\ <<"NOT GOVERNED", s>> \in renderPerimeterDeclaration(body) <=>
              Among(s, body.blind_spots)
<1>1. s # Nothing
  BY NothingAssumption
<1>2. <<"GOVERNED", s>> \in renderPerimeterDeclaration(body) <=>
        \/ <<"GOVERNED", s>> \in Section("GOVERNED", body.chokepoints_active)
        \/ <<"GOVERNED", s>> \in Section("NOT GOVERNED", body.blind_spots)
  BY DEF renderPerimeterDeclaration
<1>3. <<"NOT GOVERNED", s>> \in renderPerimeterDeclaration(body) <=>
        \/ <<"NOT GOVERNED", s>> \in Section("GOVERNED", body.chokepoints_active)
        \/ <<"NOT GOVERNED", s>> \in Section("NOT GOVERNED", body.blind_spots)
  BY DEF renderPerimeterDeclaration
<1>4. "GOVERNED" # "NOT GOVERNED"
  OBVIOUS
<1>5. <<"GOVERNED", s>> \in renderPerimeterDeclaration(body) <=>
        Among(s, body.chokepoints_active)
  BY <1>1, <1>2, <1>4, InSection, Zenon
<1>6. <<"NOT GOVERNED", s>> \in renderPerimeterDeclaration(body) <=>
        Among(s, body.blind_spots)
  BY <1>1, <1>3, <1>4, InSection, Zenon
<1> QED
  BY <1>5, <1>6

(* The text says that nothing is governed only when the list is empty. *)
LEMMA NothingGoverned ==
  ASSUME NEW body \in [chokepoints_active : Seq(Surfaces), blind_spots : Seq(Surfaces)],
         <<"GOVERNED", Nothing>> \in renderPerimeterDeclaration(body), NEW s \in Surfaces
  PROVE  ~Among(s, body.chokepoints_active)
<1>1. <<"GOVERNED", Nothing>> \in Section("GOVERNED", body.chokepoints_active)
  BY DEF renderPerimeterDeclaration, Section
<1>2. body.chokepoints_active \in Seq(Surfaces)
  OBVIOUS
<1>3. \A k \in DOMAIN body.chokepoints_active : body.chokepoints_active[k] \in Surfaces
  BY <1>2
<1>4. body.chokepoints_active = << >>
  BY <1>1, <1>3, NothingAssumption DEF Section
<1> QED
  BY <1>4 DEF Among

(* For chains of any length and declarations that list any surfaces, a program and a
   person read the same of the declaration in force but for what it lists twice. *)
THEOREM PartWhereListedTwice == Spec => []ReadingsPartWhereListedTwice
<1>1. TypeOK /\ OnePerimeterInForce => ReadingsPartWhereListedTwice
  <2> SUFFICES ASSUME TypeOK, OnePerimeterInForce, Holds,
                      NEW j \in 1..Len(chain), NEW k \in 1..Len(chain),
                      NEW t \in {chain[j].from, chain[k].from},
                      InForce(j, t), InForce(k, t)
               PROVE  LET body == Lists[chain[j].oid]
                          text == renderPerimeterDeclaration(Lists[chain[k].oid])
                      IN /\ \A s \in Surfaces :
                              /\ classifySurface(body, s) = "governed" <=>
                                   <<"GOVERNED", s>> \in text
                              /\ classifySurface(body, s) = "undeclared" <=>
                                   text \cap {<<"GOVERNED", s>>, <<"NOT GOVERNED", s>>} = {}
                              /\ Parted(body, text, s) <=> ListedTwice(body, s)
                         /\ <<"GOVERNED", Nothing>> \in text =>
                              \A s \in Surfaces : classifySurface(body, s) # "governed"
    BY DEF ReadingsPartWhereListedTwice
  <2>1. j = k
    BY DEF OnePerimeterInForce
  <2> DEFINE body == Lists[chain[j].oid]
  <2>2. body \in [chokepoints_active : Seq(Surfaces), blind_spots : Seq(Surfaces)]
    <3>1. chain \in Seq(Declarations)
      BY DEF TypeOK
    <3>2. chain[j] \in Declarations
      BY <3>1
    <3>3. chain[j].oid \in Oids
      BY <3>2 DEF Declarations
    <3> QED
      BY <3>3, ListsAssumption
  <2> HIDE DEF body
  <2> DEFINE text == renderPerimeterDeclaration(body)
  <2>3. ASSUME NEW s \in Surfaces
        PROVE  /\ <<"GOVERNED", s>> \in text <=> Among(s, body.chokepoints_active)
               /\ <<"NOT GOVERNED", s>> \in text <=> Among(s, body.blind_spots)
    BY InText
  <2>4. ASSUME <<"GOVERNED", Nothing>> \in text, NEW s \in Surfaces
        PROVE  classifySurface(body, s) # "governed"
    BY <2>2, <2>4, NothingGoverned DEF classifySurface
  <2> HIDE DEF text
  <2>5. ASSUME NEW s \in Surfaces
        PROVE  /\ classifySurface(body, s) = "governed" <=> <<"GOVERNED", s>> \in text
               /\ classifySurface(body, s) = "undeclared" <=>
                    text \cap {<<"GOVERNED", s>>, <<"NOT GOVERNED", s>>} = {}
               /\ Parted(body, text, s) <=> ListedTwice(body, s)
    BY <2>3 DEF classifySurface, Parted, ListedTwice
  <2> QED
    BY <2>1, <2>4, <2>5 DEF body, text
<1>2. LoopInv => TypeOK /\ OnePerimeterInForce
  BY ExactMeansOne DEF LoopInv
<1> QED
  BY InitLoop, NextLoop, <1>1, <1>2, PTL DEF Spec

=============================================================================

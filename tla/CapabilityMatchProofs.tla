------------------------ MODULE CapabilityMatchProofs ------------------------
(***************************************************************************)
(* Proofs about CapabilityMatch, for any set of names and chains of any    *)
(* length.  capabilityMatches is transitive, because the prefix that a     *)
(* wildcard stands for ends in a dot and a pattern ends in a star: a       *)
(* pattern that starts with another's prefix has a prefix of its own that  *)
(* is no shorter.  Hence the invariant that each grant of a chain matches  *)
(* all later ones, and not its child alone.                                *)
(*                                                                         *)
(* It is also the segment-wise matcher of CapabilitySegments: two names    *)
(* with the same segments up to some place have the same symbols up to     *)
(* there, and the prefix that a wildcard stands for ends where a segment   *)
(* ends.  From this follows by how much it differs from what its comments  *)
(* say.                                                                    *)
(***************************************************************************)
EXTENDS CapabilitySegments, McpToolNames, SequenceTheorems, WellFoundedInduction, TLAPS

LEMMA MatchesTransitive ==
  ASSUME NEW p \in Seq(Symbols), NEW q \in Seq(Symbols), NEW r \in Seq(Symbols),
         capabilityMatches(p, q), capabilityMatches(q, r)
  PROVE  capabilityMatches(p, r)
<1>0. Len(p) \in Nat /\ Len(q) \in Nat /\ Len(r) \in Nat /\ Dot # Star
  BY SymbolsAssumption
<1>1. CASE p = q \/ q = r \/ p = <<Star>>
  BY <1>1 DEF capabilityMatches
<1>2. CASE p # q /\ q # r /\ p # <<Star>>
  <2>1. EndsWithDotStar(p) /\ StartsWithPrefixOf(q, p)
    BY <1>2 DEF capabilityMatches
  <2>2. Len(p) >= 2 /\ p[Len(p) - 1] = Dot
    BY <2>1 DEF EndsWithDotStar
  <2>3. Len(q) >= Len(p) - 1 /\ \A k \in 1..(Len(p) - 1) : q[k] = p[k]
    BY <2>1 DEF StartsWithPrefixOf
  <2>4. q[Len(p) - 1] = Dot
    BY <1>0, <2>2, <2>3
  <2>5. q # <<Star>>
    <3>1. ASSUME q = <<Star>> PROVE FALSE
      <4>1. Len(q) = 1 /\ q[1] = Star
        BY <3>1
      <4>2. Len(p) - 1 = 1
        BY <1>0, <2>2, <2>3, <4>1
      <4> QED
        BY <1>0, <2>4, <4>1, <4>2
    <3> QED
      BY <3>1
  <2>6. EndsWithDotStar(q) /\ StartsWithPrefixOf(r, q)
    BY <1>2, <2>5 DEF capabilityMatches
  <2>7. /\ q[Len(q)] = Star
        /\ Len(r) >= Len(q) - 1
        /\ \A k \in 1..(Len(q) - 1) : r[k] = q[k]
    BY <2>6 DEF EndsWithDotStar, StartsWithPrefixOf
  <2>8. Len(p) - 1 <= Len(q) - 1
    BY <1>0, <2>3, <2>4, <2>7
  <2>9. Len(r) >= Len(p) - 1 /\ \A k \in 1..(Len(p) - 1) : r[k] = p[k]
    BY <1>0, <2>3, <2>7, <2>8
  <2> QED
    BY <2>1, <2>9 DEF capabilityMatches, StartsWithPrefixOf
<1> QED
  BY <1>1, <1>2

-----------------------------------------------------------------------------

EachMatchesLater ==
  \A i, j \in 1..Len(chain) : i <= j => capabilityMatches(chain[i], chain[j])

ChainInv == TypeOK /\ EachMatchesLater

LEMMA InitChain == Init => ChainInv
  BY HopsAssumption DEF Init, ChainInv, TypeOK, EachMatchesLater

LEMMA NextChain == ChainInv /\ [Next]_chain => ChainInv'
<1> SUFFICES ASSUME ChainInv, [Next]_chain PROVE ChainInv'
  OBVIOUS
<1>0. chain \in Seq(Names) /\ Len(chain) \in Nat /\ Len(chain) <= MaxHops + 1
  BY DEF ChainInv, TypeOK
<1>1. ASSUME NEW p \in Names, Grant(p) PROVE ChainInv'
  <2>1. chain' = <<p>> /\ Len(chain') = 1 /\ chain'[1] = p
    BY <1>1 DEF Grant
  <2>2. TypeOK'
    BY <2>1, HopsAssumption DEF TypeOK
  <2>3. EachMatchesLater'
    BY <2>1 DEF EachMatchesLater, capabilityMatches
  <2> QED
    BY <2>2, <2>3 DEF ChainInv
<1>2. ASSUME NEW p \in Names, Delegate(p) PROVE ChainInv'
  <2> DEFINE n == Len(chain)
  <2>1. /\ chain # << >> /\ n <= MaxHops /\ chain' = Append(chain, p)
        /\ capabilityMatches(chain[n], p)
    BY <1>2 DEF Delegate, WithinHops
  <2>2. n \in 1..n /\ Len(chain') = n + 1 /\ chain'[n + 1] = p
        /\ \A k \in 1..n : chain'[k] = chain[k]
    BY <1>0, <2>1
  <2>3. TypeOK'
    BY <1>0, <2>1, <2>2, HopsAssumption DEF TypeOK
  <2>4. ASSUME NEW i \in 1..(n + 1), NEW j \in 1..(n + 1), i <= j
        PROVE  capabilityMatches(chain'[i], chain'[j])
    <3>1. CASE j <= n
      <4>1. i \in 1..n /\ j \in 1..n
        BY <1>0, <2>4, <3>1
      <4> QED
        BY <2>2, <2>4, <4>1 DEF ChainInv, EachMatchesLater
    <3>2. CASE i = n + 1
      BY <1>0, <2>4, <3>2 DEF capabilityMatches
    <3>3. CASE j = n + 1 /\ i # n + 1
      <4>1. i \in 1..n /\ i <= n
        BY <1>0, <3>3
      <4>2. capabilityMatches(chain[i], chain[n])
        BY <2>2, <4>1 DEF ChainInv, EachMatchesLater
      <4>3. chain[i] \in Seq(Symbols) /\ chain[n] \in Seq(Symbols) /\ p \in Seq(Symbols)
        BY <1>0, <2>2, <4>1, NamesAssumption
      <4>4. capabilityMatches(chain[i], p)
        BY <2>1, <4>2, <4>3, MatchesTransitive
      <4> QED
        BY <2>2, <3>3, <4>1, <4>4
    <3> QED
      BY <1>0, <2>4, <3>1, <3>2, <3>3
  <2>5. EachMatchesLater'
    BY <2>2, <2>4 DEF EachMatchesLater
  <2> QED
    BY <2>3, <2>5 DEF ChainInv
<1>3. ASSUME UNCHANGED chain PROVE ChainInv'
  BY <1>3 DEF ChainInv, TypeOK, EachMatchesLater
<1> QED
  BY <1>1, <1>2, <1>3 DEF Next

LEMMA InvNarrows == ChainInv => AuthorityNarrows
<1> SUFFICES ASSUME ChainInv, NEW i \in 1..Len(chain), NEW j \in 1..Len(chain), i <= j,
                    NEW c \in Names, capabilityMatches(chain[j], c)
             PROVE  capabilityMatches(chain[i], c)
  BY DEF AuthorityNarrows
<1>1. capabilityMatches(chain[i], chain[j])
  BY DEF ChainInv, EachMatchesLater
<1>2. chain[i] \in Seq(Symbols) /\ chain[j] \in Seq(Symbols) /\ c \in Seq(Symbols)
  BY NamesAssumption DEF ChainInv, TypeOK
<1> QED
  BY <1>1, <1>2, MatchesTransitive

(* What is granted are names in use, and no chain is longer than the limit. *)
THEOREM GrantTypes == Spec => []TypeOK
<1>1. ChainInv => TypeOK
  BY DEF ChainInv
<1> QED
  BY InitChain, NextChain, <1>1, PTL DEF Spec

(* Whatever is handed on, and however often, no holder is permitted more than
   any holder before it. *)
THEOREM DelegationNarrows == Spec => []AuthorityNarrows
  BY InitChain, NextChain, InvNarrows, PTL DEF Spec

-----------------------------------------------------------------------------
(* The least and the greatest of some positions *)

LEMMA LeastNatural ==
  ASSUME NEW S \in SUBSET Nat, S # {}
  PROVE  \E k \in S : \A j \in S : k <= j
<1> DEFINE R == OpToRel(<, Nat)
<1>1. R = {ss \in Nat \X Nat : ss[1] < ss[2]} /\ IsWellFoundedOn(R, Nat)
  BY NatLessThanWellFounded DEF OpToRel
<1> HIDE DEF R
<1>2. PICK x \in S : \A y \in S : ~(<<y, x>> \in R)
  BY <1>1, WFMin, Zenon
<1>3. ASSUME NEW y \in S, y < x PROVE FALSE
  <2>1. <<y, x>> \in R
    <3>1. <<y, x>> \in Nat \X Nat /\ <<y, x>>[1] < <<y, x>>[2]
      BY <1>3
    <3> QED
      BY <1>1, <3>1
  <2> QED
    BY <1>2, <2>1
<1> QED
  BY <1>3

LEMMA GreatestIndex ==
  ASSUME NEW n \in Nat, NEW S \in SUBSET (1..n), S # {}
  PROVE  \E k \in S : \A j \in S : j <= k
<1> DEFINE T == {n - k : k \in S}
<1>1. T \in SUBSET Nat /\ T # {}
  <2>1. ASSUME NEW k \in S PROVE n - k \in Nat
    <3>1. k \in 1..n
      OBVIOUS
    <3> QED
      BY <3>1
  <2>2. T \subseteq Nat
    BY <2>1
  <2>3. T # {}
    OBVIOUS
  <2> QED
    BY <2>2, <2>3
<1>2. PICK m \in T : \A j \in T : m <= j
  <2> HIDE DEF T
  <2> QED
    BY <1>1, LeastNatural
<1>3. PICK k \in S : m = n - k
  BY <1>2
<1>4. ASSUME NEW j \in S PROVE j <= k
  <2>1. m <= n - j
    BY <1>2
  <2> QED
    BY <1>3, <2>1
<1> QED
  BY <1>4

LEMMA MinOf ==
  ASSUME NEW S \in SUBSET Nat, S # {}
  PROVE  Min(S) \in S /\ \A j \in S : Min(S) <= j
<1>1. \E k \in S : \A j \in S : k <= j
  BY LeastNatural
<1> QED
  BY <1>1 DEF Min

LEMMA MaxOf ==
  ASSUME NEW n \in Nat, NEW S \in SUBSET (1..n), S # {}
  PROVE  Max(S) \in S /\ \A j \in S : j <= Max(S)
<1>1. \E k \in S : \A j \in S : j <= k
  BY GreatestIndex
<1> QED
  BY <1>1 DEF Max

-----------------------------------------------------------------------------
(* Segments *)

LEMMA StartTypes ==
  ASSUME NEW x \in Seq(Symbols)
  PROVE  /\ Len(x) \in Nat
         /\ Starts(x) \in SUBSET (1..(Len(x) + 1)) /\ 1 \in Starts(x)
         /\ \A k \in 1..Len(x) : k + 1 \in Starts(x) <=> x[k] = Dot
  BY DEF Starts, Dots

(* A segment reaches up to the next dot, or up to the end of the name. *)
LEMMA SegmentShape ==
  ASSUME NEW x \in Seq(Symbols), NEW s \in Starts(x)
  PROVE  \E e \in s..(Len(x) + 1) :
           /\ Segments(x)[s] = SubSeq(x, s, e - 1)
           /\ \A k \in s..(e - 1) : x[k] # Dot
           /\ e = Len(x) + 1 \/ x[e] = Dot
<1>0. Len(x) \in Nat /\ s \in 1..(Len(x) + 1)
  BY StartTypes
<1> DEFINE E == Ends(x, s)
           e == Min(E)
<1>1. E \in SUBSET Nat /\ Len(x) + 1 \in E
  BY <1>0 DEF Ends, Dots
<1>2. e \in E /\ \A j \in E : e <= j
  <2> HIDE DEF E
  <2> QED
    BY <1>1, MinOf
<1>3. Segments(x)[s] = SubSeq(x, s, e - 1)
  BY DEF Segments
<1> HIDE DEF e
<1>4. e \in s..(Len(x) + 1) /\ (e = Len(x) + 1 \/ x[e] = Dot)
  BY <1>0, <1>2 DEF Ends, Dots
<1>5. ASSUME NEW k \in s..(e - 1) PROVE x[k] # Dot
  <2>1. k \in 1..Len(x) /\ s <= k /\ k < e
    BY <1>0, <1>4
  <2>2. x[k] = Dot => k \in E
    BY <2>1 DEF Ends, Dots
  <2> QED
    BY <1>0, <1>2, <1>4, <2>1, <2>2
<1> QED
  BY <1>3, <1>4, <1>5

(* Every symbol is in the segment that begins last before it. *)
LEMMA StartBefore ==
  ASSUME NEW x \in Seq(Symbols), NEW k \in 1..Len(x)
  PROVE  \E s \in Starts(x) : s <= k /\ \A j \in s..(k - 1) : x[j] # Dot
<1>0. Len(x) \in Nat /\ k \in Nat /\ Starts(x) \in SUBSET (1..(Len(x) + 1)) /\ 1 \in Starts(x)
  BY StartTypes
<1> DEFINE S == {s \in Starts(x) : s <= k}
<1>1. S \in SUBSET (1..k) /\ S # {}
  BY <1>0
<1>2. PICK s \in S : \A j \in S : j <= s
  <2> HIDE DEF S
  <2> QED
    BY <1>0, <1>1, GreatestIndex
<1>3. ASSUME NEW j \in s..(k - 1), x[j] = Dot PROVE FALSE
  <2>1. s \in 1..k /\ j \in 1..Len(x) /\ j + 1 <= k /\ s < j + 1
    BY <1>0, <1>1
  <2>2. j + 1 \in S
    BY <1>3, <2>1, StartTypes
  <2> QED
    BY <1>0, <1>2, <2>1, <2>2
<1> QED
  BY <1>2, <1>3

(* Two names with the same segment at the same place have the same symbols
   there. *)
LEMMA SameText ==
  ASSUME NEW x \in Seq(Symbols), NEW y \in Seq(Symbols),
         NEW s \in Starts(x), s \in Starts(y), Segments(x)[s] = Segments(y)[s],
         NEW k \in s..Len(x), \A j \in s..k : x[j] # Dot
  PROVE  k <= Len(y) /\ y[k] = x[k]
<1>0. Len(x) \in Nat /\ Len(y) \in Nat /\ s \in 1..(Len(x) + 1) /\ s \in 1..(Len(y) + 1)
  BY StartTypes
<1>1. PICK e \in s..(Len(x) + 1) :
        Segments(x)[s] = SubSeq(x, s, e - 1) /\ (e = Len(x) + 1 \/ x[e] = Dot)
  BY SegmentShape
<1>2. PICK f \in s..(Len(y) + 1) : Segments(y)[s] = SubSeq(y, s, f - 1)
  BY SegmentShape
<1>3. k < e
  BY <1>0, <1>1
<1>4. Len(SubSeq(x, s, e - 1)) = e - s /\ Len(SubSeq(y, s, f - 1)) = f - s
  BY <1>0
<1>5. SubSeq(x, s, e - 1) = SubSeq(y, s, f - 1)
  BY <1>1, <1>2
<1>6. e = f
  BY <1>0, <1>4, <1>5
<1>7. SubSeq(x, s, e - 1)[k - s + 1] = x[k] /\ SubSeq(y, s, f - 1)[k - s + 1] = y[k]
  BY <1>0, <1>3, <1>6
<1>8. k <= Len(y)
  BY <1>0, <1>3, <1>6
<1> QED
  BY <1>5, <1>7, <1>8

LEMMA LastSegment ==
  ASSUME NEW x \in Seq(Symbols), NEW m, m = Max(Starts(x))
  PROVE  /\ m \in Starts(x) /\ \A s \in Starts(x) : s <= m
         /\ \A k \in m..Len(x) : x[k] # Dot
         /\ Segments(x)[m] = SubSeq(x, m, Len(x))
<1>0. Len(x) \in Nat /\ Starts(x) \in SUBSET (1..(Len(x) + 1)) /\ 1 \in Starts(x)
  BY StartTypes
<1>1. m \in Starts(x) /\ \A s \in Starts(x) : s <= m
  <2>1. Len(x) + 1 \in Nat /\ Starts(x) # {}
    BY <1>0
  <2> QED
    BY <1>0, <2>1, MaxOf
<1>2. ASSUME NEW k \in m..Len(x), x[k] = Dot PROVE FALSE
  <2>1. k + 1 \in Starts(x) /\ m < k + 1
    BY <1>0, <1>1, <1>2, StartTypes
  <2> QED
    BY <1>0, <1>1, <2>1
<1>3. PICK e \in m..(Len(x) + 1) :
        Segments(x)[m] = SubSeq(x, m, e - 1) /\ (e = Len(x) + 1 \/ x[e] = Dot)
  BY <1>1, SegmentShape
<1>4. e = Len(x) + 1
  BY <1>0, <1>1, <1>2, <1>3
<1> QED
  BY <1>0, <1>1, <1>2, <1>3, <1>4

(* No two names have the same segments. *)
LEMMA SegmentsTell ==
  ASSUME NEW x \in Seq(Symbols), NEW y \in Seq(Symbols), Segments(x) = Segments(y)
  PROVE  x = y
<1> DEFINE m == Max(Starts(x))
<1>0. Len(x) \in Nat /\ Len(y) \in Nat /\ Starts(x) \in SUBSET (1..(Len(x) + 1))
  BY StartTypes
<1>1. Starts(x) = Starts(y)
  <2>1. DOMAIN Segments(x) = Starts(x) /\ DOMAIN Segments(y) = Starts(y)
    BY DEF Segments
  <2> QED
    BY <2>1
<1>2. /\ m \in Starts(x) /\ m \in 1..(Len(x) + 1) /\ Segments(x)[m] = SubSeq(x, m, Len(x))
      /\ Segments(y)[m] = SubSeq(y, m, Len(y)) /\ m \in 1..(Len(y) + 1)
  <2>1. m \in Starts(x) /\ Segments(x)[m] = SubSeq(x, m, Len(x))
    BY LastSegment
  <2>2. Segments(y)[m] = SubSeq(y, m, Len(y))
    BY <1>1, LastSegment
  <2>3. Starts(y) \in SUBSET (1..(Len(y) + 1))
    BY StartTypes
  <2> QED
    BY <1>0, <1>1, <2>1, <2>2, <2>3
<1> HIDE DEF m
<1>3. Len(x) = Len(y)
  <2>1. SubSeq(x, m, Len(x)) = SubSeq(y, m, Len(y))
    BY <1>2
  <2>2. /\ Len(SubSeq(x, m, Len(x))) = Len(x) - m + 1
        /\ Len(SubSeq(y, m, Len(y))) = Len(y) - m + 1
    BY <1>0, <1>2
  <2> QED
    BY <1>0, <1>2, <2>1, <2>2
<1>4. ASSUME NEW k \in 1..Len(x) PROVE y[k] = x[k]
  <2>1. CASE x[k] = Dot
    <3>1. k + 1 \in Starts(y)
      BY <1>1, <2>1, StartTypes
    <3> QED
      BY <1>3, <2>1, <3>1, StartTypes
  <2>2. CASE x[k] # Dot
    <3>1. PICK s \in Starts(x) : s <= k /\ \A j \in s..(k - 1) : x[j] # Dot
      BY StartBefore
    <3>2. s \in Nat /\ k \in s..Len(x) /\ \A j \in s..k : x[j] # Dot
      BY <1>0, <2>2, <3>1
    <3>3. s \in Starts(y) /\ Segments(x)[s] = Segments(y)[s]
      BY <1>1
    <3> QED
      BY <3>2, <3>3, SameText
  <2> QED
    BY <2>1, <2>2
<1> QED
  BY <1>0, <1>3, <1>4

LEMMA SingleSymbol ==
  ASSUME NEW x \in Seq(Symbols), Len(x) = 1, x[1] = Star
  PROVE  x = <<Star>>
<1>1. <<Star>> \in Seq(Symbols) /\ Len(<<Star>>) = 1 /\ <<Star>>[1] = Star
  BY SymbolsAssumption
<1> QED
  BY <1>1, SeqEqual

(* The last segment is a star in the patterns that end in '.*', where it is not
   the first, and in '*', where it is. *)
LEMMA StarLast ==
  ASSUME NEW x \in Seq(Symbols), NEW m, m = Max(Starts(x))
  PROVE  /\ Segments(x)[m] = <<Star>> => m = Len(x) /\ x[m] = Star
         /\ EndsWithDotStar(x) <=> Segments(x)[m] = <<Star>> /\ m # 1
         /\ x = <<Star>> <=> Segments(x)[m] = <<Star>> /\ m = 1
<1>0. /\ Len(x) \in Nat /\ m \in 1..(Len(x) + 1) /\ m \in Starts(x) /\ Dot # Star
      /\ \A s \in Starts(x) : s <= m
      /\ \A k \in m..Len(x) : x[k] # Dot
      /\ Segments(x)[m] = SubSeq(x, m, Len(x))
  BY StartTypes, LastSegment, SymbolsAssumption
<1>1. ASSUME Segments(x)[m] = <<Star>> PROVE m = Len(x) /\ x[m] = Star
  <2>1. SubSeq(x, m, Len(x)) = <<Star>>
    BY <1>0, <1>1
  <2>2. Len(SubSeq(x, m, Len(x))) = Len(x) - m + 1
    BY <1>0
  <2>3. Len(<<Star>>) = 1 /\ <<Star>>[1] = Star
    OBVIOUS
  <2>4. m = Len(x)
    BY <1>0, <2>1, <2>2, <2>3
  <2>5. SubSeq(x, m, Len(x))[1] = x[m]
    BY <1>0, <2>4
  <2> QED
    BY <2>1, <2>3, <2>4, <2>5
<1>2. ASSUME m = Len(x), x[m] = Star PROVE Segments(x)[m] = <<Star>>
  <2> DEFINE y == SubSeq(x, m, Len(x))
  <2>1. y \in Seq(Symbols) /\ Len(y) = 1 /\ y[1] = Star
    BY <1>0, <1>2
  <2> HIDE DEF y
  <2>2. y = <<Star>>
    BY <2>1, SingleSymbol
  <2> QED
    BY <1>0, <2>2 DEF y
<1>3. ASSUME EndsWithDotStar(x) PROVE m = Len(x) /\ x[m] = Star /\ m # 1
  <2>1. Len(x) >= 2 /\ x[Len(x) - 1] = Dot /\ x[Len(x)] = Star
    BY <1>3 DEF EndsWithDotStar
  <2>2. Len(x) \in Starts(x)
    <3>1. Len(x) - 1 \in 1..Len(x) /\ (Len(x) - 1) + 1 = Len(x)
      BY <1>0, <2>1
    <3> QED
      BY <2>1, <3>1, StartTypes
  <2>3. m # Len(x) + 1
    <3>1. ASSUME m = Len(x) + 1 PROVE FALSE
      <4>1. Len(x) \in 1..Len(x) /\ Len(x) + 1 \in Starts(x)
        BY <1>0, <2>1, <3>1
      <4> QED
        BY <1>0, <2>1, <4>1, StartTypes
    <3> QED
      BY <3>1
  <2> QED
    BY <1>0, <2>1, <2>2, <2>3
<1>4. ASSUME m = Len(x), x[m] = Star, m # 1 PROVE EndsWithDotStar(x)
  <2>1. m - 1 \in 1..Len(x) /\ (m - 1) + 1 = m
    BY <1>0, <1>4
  <2>2. x[m - 1] = Dot
    BY <1>0, <2>1, StartTypes
  <2> QED
    BY <1>0, <1>4, <2>1, <2>2 DEF EndsWithDotStar
<1>5. ASSUME x = <<Star>> PROVE m = Len(x) /\ x[m] = Star /\ m = 1
  <2>1. Len(x) = 1 /\ x[1] = Star
    BY <1>5
  <2>2. m # 2
    <3>1. ASSUME m = 2 PROVE FALSE
      <4>1. 1 \in 1..Len(x) /\ 1 + 1 \in Starts(x)
        BY <1>0, <2>1, <3>1
      <4> QED
        BY <1>0, <2>1, <4>1, StartTypes
    <3> QED
      BY <3>1
  <2> QED
    BY <1>0, <2>1, <2>2
<1>6. ASSUME m = Len(x), x[m] = Star, m = 1 PROVE x = <<Star>>
  BY <1>6, SingleSymbol
<1> QED
  BY <1>1, <1>2, <1>3, <1>4, <1>5, <1>6

(* The text before a final star is the segments before it. *)
LEMMA PrefixContinues ==
  ASSUME NEW x \in Seq(Symbols), NEW y \in Seq(Symbols), EndsWithDotStar(x),
         Max(Starts(x)) = Len(x)
  PROVE  StartsWithPrefixOf(y, x) <=> Continues(Segments(y), Segments(x), Len(x))
<1> DEFINE m == Len(x)
<1>0. /\ m \in Nat /\ Len(y) \in Nat /\ m >= 2 /\ m - 1 \in 1..m /\ x[m - 1] = Dot
      /\ Starts(x) \in SUBSET (1..(m + 1)) /\ m \in Starts(x)
      /\ Starts(y) \in SUBSET (1..(Len(y) + 1))
      /\ 1 \in Starts(x) /\ 1 \in Starts(y)
  BY StartTypes, LastSegment DEF EndsWithDotStar
<1>1. DOMAIN Segments(x) = Starts(x) /\ DOMAIN Segments(y) = Starts(y)
  BY DEF Segments
<1>2. ASSUME StartsWithPrefixOf(y, x) PROVE Continues(Segments(y), Segments(x), m)
  <2>1. m - 1 <= Len(y) /\ \A k \in 1..(m - 1) : y[k] = x[k]
    BY <1>2 DEF StartsWithPrefixOf
  <2>2. ASSUME NEW s \in Starts(x), s <= m PROVE s \in Starts(y)
    <3>1. CASE s = 1
      BY <1>0, <3>1
    <3>2. CASE s # 1
      <4>1. s - 1 \in 1..m /\ s - 1 \in 1..(m - 1) /\ s - 1 \in 1..Len(y) /\ (s - 1) + 1 = s
        BY <1>0, <2>1, <2>2, <3>2
      <4>2. x[s - 1] = Dot
        BY <4>1, StartTypes
      <4>3. y[s - 1] = Dot
        BY <2>1, <4>1, <4>2
      <4> QED
        BY <4>1, <4>3, StartTypes
    <3> QED
      BY <3>1, <3>2
  <2>3. ASSUME NEW s \in Starts(x), s < m PROVE Segments(y)[s] = Segments(x)[s]
    <3>1. s \in Starts(y) /\ s \in 1..(m - 1)
      BY <1>0, <2>2, <2>3
    <3>2. PICK e \in s..(m + 1) :
            /\ Segments(x)[s] = SubSeq(x, s, e - 1) /\ (e = m + 1 \/ x[e] = Dot)
            /\ \A k \in s..(e - 1) : x[k] # Dot
      BY SegmentShape
    <3>3. PICK f \in s..(Len(y) + 1) :
            /\ Segments(y)[s] = SubSeq(y, s, f - 1) /\ (f = Len(y) + 1 \/ y[f] = Dot)
            /\ \A k \in s..(f - 1) : y[k] # Dot
      BY <3>1, SegmentShape
    <3>4. e <= m - 1 /\ x[e] = Dot
      BY <1>0, <3>1, <3>2
    <3>5. e \in s..(m - 1) /\ y[e] = Dot
      BY <1>0, <2>1, <3>1, <3>2, <3>4
    <3>6. f <= e
      BY <1>0, <2>1, <3>1, <3>2, <3>3, <3>4, <3>5
    <3>7. ~(f < e)
      <4>1. ASSUME f < e PROVE FALSE
        <5>1. f \in 1..(m - 1) /\ f \in s..(e - 1) /\ f # Len(y) + 1
          BY <1>0, <2>1, <3>1, <3>2, <3>3, <3>4, <4>1
        <5> QED
          BY <2>1, <3>2, <3>3, <5>1
      <4> QED
        BY <4>1
    <3>8. e = f
      BY <1>0, <3>1, <3>2, <3>3, <3>6, <3>7
    <3>9. SubSeq(x, s, e - 1) = SubSeq(y, s, e - 1)
      <4> DEFINE u == SubSeq(x, s, e - 1)
                 v == SubSeq(y, s, e - 1)
      <4>1. s \in 1..m /\ e - 1 <= Len(y) /\ e - 1 <= Len(x) /\ e \in Nat /\ s <= e
        BY <1>0, <2>1, <3>1, <3>2, <3>4
      <4>2. /\ u \in Seq(Symbols) /\ Len(u) = e - s
            /\ \A k \in 1..(e - s) : u[k] = x[s + k - 1]
        BY <4>1
      <4>3. /\ v \in Seq(Symbols) /\ Len(v) = e - s
            /\ \A k \in 1..(e - s) : v[k] = y[s + k - 1]
        BY <4>1
      <4>4. \A k \in 1..(e - s) : s + k - 1 \in 1..(m - 1)
        BY <3>4, <4>1
      <4> HIDE DEF u, v
      <4>5. ASSUME NEW k \in 1..Len(u) PROVE u[k] = v[k]
        <5>1. k \in 1..(e - s)
          BY <4>2
        <5>2. x[s + k - 1] = y[s + k - 1]
          BY <2>1, <4>4, <5>1
        <5>3. u[k] = x[s + k - 1] /\ v[k] = y[s + k - 1]
          BY <4>2, <4>3, <5>1
        <5> QED
          BY <5>2, <5>3
      <4>6. u = v
        BY <4>2, <4>3, <4>5, SeqEqual
      <4> QED
        BY <4>6 DEF u, v
    <3> QED
      BY <3>2, <3>3, <3>8, <3>9
  <2>4. m \in Starts(y)
    BY <1>0, <2>2
  <2> QED
    BY <1>0, <1>1, <2>2, <2>3, <2>4 DEF Continues
<1>3. ASSUME Continues(Segments(y), Segments(x), m) PROVE StartsWithPrefixOf(y, x)
  <2>1. /\ m \in Starts(y)
        /\ \A s \in Starts(x) : s < m => s \in Starts(y) /\ Segments(y)[s] = Segments(x)[s]
    BY <1>1, <1>3 DEF Continues
  <2>2. m - 1 <= Len(y) /\ m - 1 \in 1..Len(y) /\ (m - 1) + 1 = m
    BY <1>0, <2>1
  <2>3. y[m - 1] = Dot
    BY <2>1, <2>2, StartTypes
  <2>4. ASSUME NEW k \in 1..(m - 1) PROVE y[k] = x[k]
    <3>0. k \in 1..m /\ k \in 1..Len(y) /\ k \in Nat
      BY <1>0, <2>2
    <3>1. CASE x[k] = Dot
      <4>1. CASE k = m - 1
        BY <2>3, <3>1, <4>1
      <4>2. CASE k # m - 1
        <5>1. k + 1 \in Starts(x) /\ k + 1 < m
          BY <1>0, <3>0, <3>1, <4>2, StartTypes
        <5>2. k + 1 \in Starts(y)
          BY <2>1, <5>1
        <5> QED
          BY <3>0, <3>1, <5>2, StartTypes
      <4> QED
        BY <4>1, <4>2
    <3>2. CASE x[k] # Dot
      <4>1. PICK s \in Starts(x) : s <= k /\ \A j \in s..(k - 1) : x[j] # Dot
        BY <3>0, StartBefore
      <4>2. s < m /\ k \in s..m /\ \A j \in s..k : x[j] # Dot
        BY <1>0, <3>0, <3>2, <4>1
      <4>3. s \in Starts(y) /\ Segments(x)[s] = Segments(y)[s]
        BY <2>1, <4>2
      <4> QED
        BY <4>2, <4>3, SameText
    <3> QED
      BY <3>1, <3>2
  <2> QED
    BY <1>0, <2>2, <2>4 DEF StartsWithPrefixOf
<1> QED
  BY <1>2, <1>3

LEMMA MatchesIsCovers ==
  ASSUME NEW x \in Seq(Symbols), NEW y \in Seq(Symbols)
  PROVE  capabilityMatches(x, y) <=> Covers(Segments(x), Segments(y))
<1> DEFINE m == Max(Starts(x))
           star == Segments(x)[m] = <<Star>>
<1>1. DOMAIN Segments(x) = Starts(x)
  BY DEF Segments
<1>2. Covers(Segments(x), Segments(y)) <=>
        \/ Segments(x) = Segments(y)
        \/ star /\ (m = 1 \/ Continues(Segments(y), Segments(x), m))
  BY <1>1 DEF Covers
<1>3. Segments(x) = Segments(y) <=> x = y
  BY SegmentsTell
<1>4. star => m = Len(x)
  BY StarLast
<1>5. x = <<Star>> <=> star /\ m = 1
  BY StarLast
<1>6. EndsWithDotStar(x) <=> star /\ m # 1
  BY StarLast
<1>7. ASSUME EndsWithDotStar(x)
      PROVE  StartsWithPrefixOf(y, x) <=> Continues(Segments(y), Segments(x), m)
  <2>1. m = Len(x)
    BY <1>4, <1>6, <1>7
  <2> QED
    BY <1>7, <2>1, PrefixContinues
<1> HIDE DEF m, star
<1> QED
  BY <1>2, <1>3, <1>5, <1>6, <1>7, Zenon DEF capabilityMatches

(* What the comment above it adds: the patterns with a star in a segment. *)
LEMMA HeaderAddsStars ==
  ASSUME NEW x \in Seq(Symbols), NEW y \in Seq(Symbols)
  PROVE  HeaderRule(x, y) <=>
           capabilityMatches(x, y)
             \/ (StarInSegment(x, Segments(x)) /\ StartsWithPrefixOf(y, x))
<1> DEFINE m == Max(Starts(x))
           star == Segments(x)[m] = <<Star>>
<1>1. DOMAIN Segments(x) = Starts(x)
  BY DEF Segments
<1>2. StarInSegment(x, Segments(x)) <=> EndsWithStar(x) /\ ~star
  BY <1>1 DEF StarInSegment
<1>3. x = <<Star>> <=> star /\ m = 1
  BY StarLast
<1>4. EndsWithDotStar(x) <=> star /\ m # 1
  BY StarLast
<1>5. EndsWithDotStar(x) => EndsWithStar(x)
  BY DEF EndsWithDotStar, EndsWithStar
<1>6. x = <<Star>> => EndsWithStar(x) /\ StartsWithPrefixOf(y, x)
  <2>1. SUFFICES ASSUME x = <<Star>> PROVE EndsWithStar(x) /\ StartsWithPrefixOf(y, x)
    OBVIOUS
  <2>2. Len(x) = 1 /\ x[1] = Star /\ Len(y) \in Nat
    BY <2>1
  <2> QED
    BY <2>2 DEF EndsWithStar, StartsWithPrefixOf
<1> HIDE DEF m, star
<1> QED
  BY <1>2, <1>3, <1>4, <1>5, <1>6, Zenon DEF HeaderRule, capabilityMatches

(* What the comment inside it takes away: the targets that go deeper. *)
LEMMA ChildrenOmitDeeper ==
  ASSUME NEW x \in Seq(Symbols), NEW y \in Seq(Symbols)
  PROVE  ChildrenRule(Segments(x), Segments(y)) <=>
           capabilityMatches(x, y) /\ ~Deeper(Segments(x), Segments(y))
<1> DEFINE m == Max(Starts(x))
           n == Max(Starts(y))
           star == Segments(x)[m] = <<Star>>
           cont == Continues(Segments(y), Segments(x), m)
           same == Segments(x) = Segments(y)
<1>1. DOMAIN Segments(x) = Starts(x) /\ DOMAIN Segments(y) = Starts(y)
  BY DEF Segments
<1>2. capabilityMatches(x, y) <=> same \/ (star /\ (m = 1 \/ cont))
  BY <1>1, MatchesIsCovers DEF Covers
<1>3. ChildrenRule(Segments(x), Segments(y)) <=> same \/ (star /\ (m = 1 \/ (cont /\ m = n)))
  BY <1>1 DEF ChildrenRule
<1>4. Deeper(Segments(x), Segments(y)) <=> 1 < m /\ m < n
  BY <1>1 DEF Deeper
<1>5. m \in Nat /\ m >= 1 /\ n \in Nat
  <2>1. m \in 1..(Len(x) + 1) /\ n \in 1..(Len(y) + 1) /\ Len(x) \in Nat /\ Len(y) \in Nat
    BY StartTypes, LastSegment
  <2> HIDE DEF m, n
  <2> QED
    BY <2>1
<1>6. cont => m <= n
  <2>1. cont => m \in Starts(y)
    BY <1>1 DEF Continues
  <2>2. \A s \in Starts(y) : s <= n
    BY LastSegment
  <2> QED
    BY <2>1, <2>2
<1>7. same => m = n
  BY <1>1
<1> HIDE DEF m, n, star, cont, same
<1> QED
  BY <1>2, <1>3, <1>4, <1>5, <1>6, <1>7

(* Whatever the names and the patterns granted, the matcher permits what the list of
   segments permits and nothing else, and differs from what its two comments say
   where, and only where, there is a star in a segment or a deeper target. *)
THEOREM LiesBetweenComments == Spec => []MatchesBetweenComments
<1>1. ASSUME ChainInv, NEW i \in 1..Len(chain), NEW c \in Names
      PROVE  LET p == chain[i]
                 pattern == SegmentsOf[p]
                 target == SegmentsOf[c]
             IN /\ capabilityMatches(p, c) <=> Covers(pattern, target)
                /\ HeaderRule(p, c) <=>
                     capabilityMatches(p, c)
                       \/ (StarInSegment(p, pattern) /\ StartsWithPrefixOf(c, p))
                /\ ChildrenRule(pattern, target) <=>
                     capabilityMatches(p, c) /\ ~Deeper(pattern, target)
  <2>1. chain[i] \in Names
    BY <1>1 DEF ChainInv, TypeOK
  <2>2. chain[i] \in Seq(Symbols) /\ c \in Seq(Symbols)
    BY <1>1, <2>1, NamesAssumption
  <2>3. SegmentsOf[chain[i]] = Segments(chain[i]) /\ SegmentsOf[c] = Segments(c)
    BY <1>1, <2>1 DEF SegmentsOf
  <2> QED
    BY <2>2, <2>3, MatchesIsCovers, HeaderAddsStars, ChildrenOmitDeeper
<1>2. ChainInv => MatchesBetweenComments
  BY <1>1 DEF MatchesBetweenComments
<1> QED
  BY InitChain, NextChain, <1>2, PTL DEF Spec

-----------------------------------------------------------------------------
(* Names of tools *)

(* A name without white space at its start is only cut at its end, and not
   before its last other symbol. *)
LEMMA TrimFromStart ==
  ASSUME NEW name \in Seq(Symbols), name # << >>, name[1] # Blank,
         NEW n \in DOMAIN name, name[n] # Blank
  PROVE  \E m \in n..Len(name) : trim(name) = SubSeq(name, 1, m)
<1> DEFINE S == Ink(name)
<1>1. S \in SUBSET (1..Len(name)) /\ 1 \in S /\ n \in S /\ S # {} /\ Len(name) \in Nat
  BY DEF Ink
<1>2. trim(name) = SubSeq(name, Min(S), Max(S))
  BY <1>1 DEF trim
<1> HIDE DEF S
<1>3. Min(S) = 1
  BY <1>1, MinOf
<1>4. Max(S) \in S /\ \A j \in S : j <= Max(S)
  BY <1>1, MaxOf
<1>5. Max(S) \in n..Len(name)
  BY <1>1, <1>4
<1> QED
  BY <1>2, <1>3, <1>5

(* The guard's prefix test, on the trimmed name in lower case, finds all that
   the validator's finds. *)
LEMMA GuardSeesPrefix ==
  ASSUME NEW name \in Seq(Symbols), startsWith(name, GapPrefix)
  PROVE  isReservedMcpName(name)
<1> DEFINE n == Len(GapPrefix)
<1>1. /\ GapPrefix \in Seq(Symbols) /\ GapPrefix # << >>
      /\ GapPrefix[1] # Blank /\ GapPrefix[n] # Blank
      /\ \A k \in 1..n : lower[GapPrefix[k]] = GapPrefix[k]
  BY PrefixAssumption
<1>2. n \in Nat /\ n >= 1 /\ n <= Len(name) /\ \A k \in 1..n : name[k] = GapPrefix[k]
  BY <1>1 DEF startsWith
<1>3. name # << >> /\ n \in DOMAIN name /\ name[1] # Blank /\ name[n] # Blank
  BY <1>1, <1>2
<1>4. PICK m \in n..Len(name) : trim(name) = SubSeq(name, 1, m)
  BY <1>3, TrimFromStart
<1> DEFINE cut == SubSeq(name, 1, m)
<1>5. cut \in Seq(Symbols) /\ Len(cut) = m /\ \A k \in 1..m : cut[k] = name[k]
  BY <1>2, <1>4
<1> HIDE DEF cut
<1>6. Len(toLowerCase(cut)) = m /\ \A k \in 1..n : toLowerCase(cut)[k] = lower[cut[k]]
  BY <1>2, <1>4, <1>5 DEF toLowerCase
<1>7. \A k \in 1..n : toLowerCase(cut)[k] = GapPrefix[k]
  BY <1>1, <1>2, <1>4, <1>5, <1>6
<1>8. startsWith(toLowerCase(cut), GapPrefix)
  BY <1>1, <1>2, <1>4, <1>6, <1>7 DEF startsWith
<1> QED
  BY <1>4, <1>8 DEF isReservedMcpName, cut

LEMMA GuardSeesNormative ==
  ASSUME NEW c \in NORMATIVE_CAPABILITY_NAMES
  PROVE  isReservedMcpName(c)
<1>1. c \in Seq(Symbols) /\ c # << >> /\ c[1] # Blank /\ c[Len(c)] # Blank
  BY PrefixAssumption, NormativeAssumption
<1>2. Len(c) \in DOMAIN c
  BY <1>1
<1>3. PICK m \in Len(c)..Len(c) : trim(c) = SubSeq(c, 1, m)
  BY <1>1, <1>2, TrimFromStart
<1>4. trim(c) = c
  BY <1>1, <1>3
<1> QED
  BY <1>4 DEF isReservedMcpName

LEMMA InvByWildcard == ChainInv => NormativeOnlyByWildcard
<1> SUFFICES ASSUME ChainInv, Ingested PROVE NormativeOnlyByWildcard
  BY DEF NormativeOnlyByWildcard
<1> DEFINE name == chain[1]
<1> DEFINE Wild(c) ==
      name = <<Star>> \/ (EndsWithDotStar(name) /\ StartsWithPrefixOf(c, name))
<1>1. chain \in Seq(Names) /\ Len(chain) \in Nat /\ 1 \in 1..Len(chain)
  BY DEF ChainInv, TypeOK, Ingested
<1>2. name \in Seq(Symbols) /\ ~isReservedMcpName(name)
  BY <1>1, NamesAssumption DEF Ingested
<1>3. validateToolName(name)
  BY <1>2, GuardSeesPrefix DEF validateToolName
<1>4. ASSUME NEW c \in NORMATIVE_CAPABILITY_NAMES, NEW i \in 1..Len(chain),
             capabilityMatches(chain[i], c)
      PROVE  Wild(c)
  <2>1. capabilityMatches(name, chain[i])
    BY <1>1 DEF ChainInv, EachMatchesLater
  <2>2. chain[i] \in Seq(Symbols) /\ c \in Seq(Symbols)
    BY <1>1, NamesAssumption, NormativeAssumption
  <2>3. capabilityMatches(name, c)
    BY <1>2, <1>4, <2>1, <2>2, MatchesTransitive
  <2>4. name # c
    BY <1>2, GuardSeesNormative
  <2> QED
    BY <2>3, <2>4 DEF capabilityMatches
<1>5. ASSUME NEW c \in NORMATIVE_CAPABILITY_NAMES, Wild(c)
      PROVE  \E i \in 1..Len(chain) : capabilityMatches(chain[i], c)
  BY <1>1, <1>5 DEF capabilityMatches
<1> QED
  BY <1>3, <1>4, <1>5 DEF NormativeOnlyByWildcard

(* A tool whose name passed the guard can be invoked, and a normative capability is
   within reach of the grants derived from it if and only if its name is a wildcard
   over that capability, whatever the names. *)
THEOREM OnlyWildcardsReach == Spec => []NormativeOnlyByWildcard
  BY InitChain, NextChain, InvByWildcard, PTL DEF Spec

=============================================================================

----------------------- MODULE ObjectAuthoringProofs -----------------------
(***************************************************************************)
(* Proofs about ObjectAuthoring, for objects of any content, any kinds of  *)
(* value that authors write and any number of edits.  What the tables say  *)
(* of each other comes from ObjectTablesProofs; here it is said of the     *)
(* objects that fit them, of drafts as they are edited, and of what the    *)
(* builders make.                                                          *)
(***************************************************************************)
EXTENDS ObjectTablesProofs

-----------------------------------------------------------------------------
(* Objects that fit *)

LEMMA PlacesKnown ==
  ASSUME NEW t \in Types
  PROVE  /\ \A at, f : <<at, f>> \in Places[t] <=> Knows(Rows(t), at, f)
         /\ \A p \in Places[t] : p = <<p[1], p[2]>> /\ Knows(Rows(t), p[1], p[2])
  BY DEF Places, Knows

(* No container is a number, and so JavaScript passes on the containers that it
   was given. *)
LEMMA RelayedLive == ASSUME NEW t, NEW o PROVE Live(Relayed(o)) = Live(o)
<1>1. DOMAIN Relayed(o) = DOMAIN o
  BY DEF Relayed
<1>2. \A p \in DOMAIN o : Relayed(o)[p] \in Containers <=> o[p] \in Containers
  BY DEF Relayed, PassedOn, Containers
<1> QED
  BY <1>1, <1>2 DEF Live

(* An object that fits the TypeScript table of its type fits, as JavaScript passes it
   on, the Python table, if it has no integer of 10^21 or more where Python wants an
   int. *)
LEMMA FitsInPython ==
  ASSUME NEW t \in PyTypes, NEW o, Fits(o, Shape[t]),
         \A p \in DOMAIN o \cap PythonInts : o[p] # "huge",
         t = "pip_response" /\ <<"body", "args">> \in DOMAIN o =>
           o[<<"body", "args">>] \in Nullable(isObject)
  PROVE  Fits(Relayed(o), PyShape[t])
<1> DEFINE S == Shape[t]
<1> DEFINE P == PyShape[t]
<1>1. Laxer(t, S, P)
  BY AllLaxer
<1>2. DOMAIN Relayed(o) = DOMAIN o /\ Live(Relayed(o)) = Live(o)
  BY RelayedLive DEF Relayed
<1> HIDE DEF S
<1> SUFFICES ASSUME NEW r \in P, r.at \in Live(o)
             PROVE  IF <<r.at, r.field>> \in DOMAIN o
                    THEN Relayed(o)[<<r.at, r.field>>] \in r.kinds ELSE ~r.need
  BY <1>2 DEF Fits
<1> HIDE DEF P
<1> DEFINE p == <<r.at, r.field>>
<1>3. CASE p \in DOMAIN o
  <2>1. o[p] \in Relayable(r.kinds) => Relayed(o)[p] \in r.kinds
    BY <1>3 DEF Relayed, Relayable
  <2>2. Has(P, r.at, r.field, r.kinds)
    BY DEF Has
  <2>3. CASE Takes(S, r.at, r.field, Relayable(r.kinds))
    BY <1>3, <2>1, <2>3 DEF Takes, Within, Fits, S
  <2>4. CASE AnInt(S, r.at, r.field, r.kinds)
    <3>1. o[p] \in isInteger
      BY <1>3, <2>4 DEF AnInt, Takes, Within, Fits, S
    <3>2. o[p] # "huge" /\ r.kinds = Nullable(PyInt)
      BY <1>3, <2>4 DEF AnInt
    <3>3. PassedOn(o[p]) \in PyInt
      BY <3>1, <3>2 DEF PassedOn, PyInt, isInteger
    <3> QED
      BY <1>3, <3>2, <3>3 DEF Relayed, Nullable
  <2>5. CASE /\ t = "pip_response" /\ r.at = "body" /\ r.field = "args"
             /\ r.kinds = Nullable(isObject)
    BY <1>3, <2>5 DEF Relayed, PassedOn, Nullable, isObject, Null
  <2> QED
    BY <1>1, <2>2, <2>3, <2>4, <2>5 DEF Laxer
<1>4. CASE p \notin DOMAIN o
  <2>1. Asks(S, r.at, r.field) => FALSE
    BY <1>4 DEF Asks, Fits, S
  <2> QED
    BY <1>1, <1>4, <2>1 DEF Laxer, Asks
<1> QED
  BY <1>3, <1>4

(* And one that has such an integer does not. *)
LEMMA HugeRefused ==
  ASSUME NEW t \in PyTypes, NEW o, NEW p \in DOMAIN o \cap PythonInts, p \in Places[t],
         p[1] \in Live(o), o[p] = "huge"
  PROVE  ~Fits(Relayed(o), PyShape[t])
<1> DEFINE P == PyShape[t]
<1>1. t \in Types
  BY DEF PyTypes
<1>2. Knows(Rows(t), p[1], p[2]) /\ p = <<p[1], p[2]>>
  BY <1>1, PlacesKnown
<1>3. Has(P, p[1], p[2], Nullable(PyInt))
  BY <1>2, IntsAsked
<1>4. DOMAIN Relayed(o) = DOMAIN o /\ Live(Relayed(o)) = Live(o)
  BY RelayedLive DEF Relayed
<1>5. Relayed(o)[p] \notin Nullable(PyInt)
  BY DEF Relayed, PassedOn, Nullable, Null, PyInt, isInteger
<1> HIDE DEF P
<1>6. ~Fits(Relayed(o), P)
  BY <1>2, <1>3, <1>4, <1>5 DEF Fits, Has
<1> QED
  BY <1>6 DEF P

(* It fits what the validator looks at of its interface. *)
LEMMA FitsTyped ==
  ASSUME NEW t \in Types, NEW o, Fits(o, Shape[t])
  PROVE  Fits(o, Read[t])
<1> DEFINE S == Shape[t]
<1> DEFINE I == Interface[t]
<1>1. Compared(t, I, S)
  BY AllCompared
<1> HIDE DEF S
<1> SUFFICES ASSUME NEW r \in Read[t], r.at \in Live(o)
             PROVE  IF <<r.at, r.field>> \in DOMAIN o
                    THEN o[<<r.at, r.field>>] \in r.kinds ELSE ~r.need
  BY DEF Fits
<1>2. r \in I /\ ~Unread(t, r.at, r.field)
  BY DEF Read, Unread
<1> HIDE DEF I
<1>3. CASE <<r.at, r.field>> \in DOMAIN o
  <2>1. Takes(S, r.at, r.field, r.kinds)
    BY <1>1, <1>2 DEF Compared, Has
  <2> QED
    BY <1>3, <2>1 DEF Takes, Within, Fits, S
<1>4. CASE <<r.at, r.field>> \notin DOMAIN o
  <2>1. ~Asks(S, r.at, r.field)
    BY <1>4 DEF Asks, Fits, S
  <2> QED
    BY <1>1, <1>2, <1>4, <2>1 DEF Compared, Asks
<1> QED
  BY <1>3, <1>4

(* An object of its interface fits the validator's table but for kinds. *)
LEMMA FitsRequired ==
  ASSUME NEW t \in Types, NEW o, Fits(o, Interface[t]),
         Fits(o, {r \in Shape[t] : <<r.at, r.field>> \in DOMAIN o})
  PROVE  Fits(o, Shape[t])
<1> DEFINE S == Shape[t]
<1> DEFINE I == Interface[t]
<1>1. Compared(t, I, S)
  BY AllCompared
<1> SUFFICES ASSUME NEW r \in S, r.at \in Live(o), <<r.at, r.field>> \notin DOMAIN o, r.need
             PROVE  FALSE
  BY DEF Fits
<1> HIDE DEF S
<1>2. ~Asks(I, r.at, r.field)
  BY DEF Asks, Fits
<1> HIDE DEF I
<1> QED
  BY <1>1, <1>2 DEF Compared, Asks

(* A field that is looked at has a fraction only where that is known. *)
LEMMA FractionsKnown ==
  ASSUME NEW t \in Types, NEW o, Fits(o, Shape[t]), {p[1] : p \in DOMAIN o} \subseteq Live(o),
         NEW p \in DOMAIN o \cap LookedAt[t], o[p] = "fraction"
  PROVE  p \in Unhashable
<1> DEFINE S == Shape[t]
<1>1. Compared(t, Interface[t], S)
  BY AllCompared
<1>2. PICK r \in S : p = <<r.at, r.field>>
  BY DEF LookedAt
<1> HIDE DEF S
<1>3. r.at \in Live(o)
  BY <1>2
<1>4. "fraction" \in r.kinds
  BY <1>2, <1>3 DEF Fits, S
<1> QED
  BY <1>1, <1>2, <1>4 DEF Compared, Has

-----------------------------------------------------------------------------
(* Complete drafts *)

LEMMA PlacesNest ==
  ASSUME NEW t \in Types, NEW p \in Places[t]
  PROVE  /\ p[1] \in In4 /\ p[2] \notin In0
         /\ p[2] \in In1 => p[1] \in In0
         /\ p[2] \in In2 => p[1] \in In1
         /\ p[2] \in In3 => p[1] \in In2
         /\ p[2] \in In4 => p[1] \in In3
<1> DEFINE R == Rows(t)
<1>1. Nests(R) /\ Knows(R, p[1], p[2])
  BY RowsTidy, PlacesKnown
<1> HIDE DEF R
<1> QED
  BY <1>1 DEF Nests

LEMMA TakenKinds ==
  ASSUME NEW t \in Types, NEW p \in Places[t], NEW k \in Kinds
  PROVE  k \in Taken(t, p) <=> Welcomes(Rows(t), p[1], p[2], k)
<1>1. p = <<p[1], p[2]>>
  BY PlacesKnown
<1>2. \A r \in Rows(t) : <<r.at, r.field>> = p <=> r.at = p[1] /\ r.field = p[2]
  BY <1>1
<1> QED
  BY <1>2 DEF Taken, Welcomes

LEMMA UsualTaken ==
  /\ \A K, k : k \in Samples /\ k \in K => UsualOf(K) \in K
  /\ \A K : "object" \in K \/ "objects" \in K => UsualOf(K) \in Containers
<1>1. \A K : "object" \in K \/ "objects" \in K => UsualOf(K) \in Containers
  BY UsualRules DEF Containers
<1>2. \A K : (\E k \in Samples : k \in K) => UsualOf(K) \in K
  BY UsualRules DEF Samples
<1> QED
  BY <1>1, <1>2

LEMMA SamplesAreKinds == Samples \subseteq Kinds
  BY DEF Samples, Kinds, Str, NonEmpty, Listed, isNumber, isInteger, isBoolean, isObject,
         isArray, Strings, Objects, Classes, Qualities

LEMMA CompleteKinds ==
  ASSUME NEW t \in Types, NEW p \in Places[t]
  PROVE  Complete(t)[p] \in Kinds
<1>1. PICK k : k \in Samples /\ Welcomes(Rows(t), p[1], p[2], k)
  BY RowsTidy, PlacesKnown
<1>2. UsualOf(Taken(t, p)) \in Taken(t, p)
  BY <1>1, TakenKinds, UsualTaken, SamplesAreKinds
<1> QED
  BY <1>2 DEF Complete, Taken

LEMMA CompleteAttached ==
  ASSUME NEW t \in Types, NEW p \in Places[t]
  PROVE  p[1] \in Live(Complete(t))
<1>1. CASE p[1] = "envelope"
  BY <1>1 DEF Live
<1>2. CASE p[1] # "envelope"
  <2>1. PICK c : /\ Knows(Rows(t), c, p[1])
                 /\ \/ Welcomes(Rows(t), c, p[1], "object")
                    \/ Welcomes(Rows(t), c, p[1], "objects")
    BY <1>2, RowsTidy, PlacesKnown
  <2> DEFINE q == <<c, p[1]>>
  <2>2. q \in Places[t] /\ q[1] = c /\ q[2] = p[1]
    BY <2>1, PlacesKnown
  <2>3. "object" \in Kinds /\ "objects" \in Kinds
    BY SamplesAreKinds, SamplesListed
  <2>4. "object" \in Taken(t, q) \/ "objects" \in Taken(t, q)
    BY <2>1, <2>2, <2>3, TakenKinds
  <2>5. Complete(t)[q] \in Containers /\ q \in DOMAIN Complete(t)
    BY <2>2, <2>4, UsualTaken DEF Complete
  <2> QED
    BY <2>2, <2>5 DEF Live
<1> QED
  BY <1>1, <1>2

-----------------------------------------------------------------------------
(* Taking fields away.  Each Attached drops what is held by nothing one level deeper. *)

LEMMA AttachedIs ==
  ASSUME NEW o
  PROVE  /\ DOMAIN Attached(o) = {p \in DOMAIN o : p[1] \in Live(o)}
         /\ \A p \in DOMAIN Attached(o) : Attached(o)[p] = o[p]
  BY DEF Attached, Restrict

LEMMA LiveIs ==
  ASSUME NEW o, NEW c
  PROVE  c \in Live(o) <=>
           \/ c = "envelope"
           \/ \E q \in DOMAIN o : o[q] \in Containers /\ q[2] = c
  BY DEF Live

(* What is held in the containers of S is attached. *)
Firm(o, S) == \A p \in DOMAIN o : p[1] \in S => p[1] \in Live(o)

LEMMA AttachedFirm ==
  ASSUME NEW o, NEW S, NEW T, Firm(o, S),
         \A q \in DOMAIN o : q[2] \in T => q[1] \in S
  PROVE  Firm(Attached(o), T)
<1> DEFINE a == Attached(o)
<1> SUFFICES ASSUME NEW p \in DOMAIN a, p[1] \in T PROVE p[1] \in Live(a)
  BY DEF Firm
<1>1. p[1] \in Live(o)
  BY AttachedIs
<1>2. CASE p[1] = "envelope"
  BY <1>2, LiveIs
<1>3. CASE p[1] # "envelope"
  <2>1. PICK q \in DOMAIN o : o[q] \in Containers /\ q[2] = p[1]
    BY <1>1, <1>3, LiveIs
  <2>2. q[1] \in Live(o)
    BY <2>1 DEF Firm
  <2>3. q \in DOMAIN a /\ a[q] \in Containers
    BY <2>1, <2>2, AttachedIs
  <2> HIDE DEF a
  <2> QED
    BY <2>1, <2>3, LiveIs
<1> QED
  BY <1>2, <1>3

(* From o to x no field named in T has gone. *)
Keeps(o, x, T) ==
  /\ DOMAIN x \subseteq DOMAIN o /\ \A p \in DOMAIN x : x[p] = o[p]
  /\ \A p \in DOMAIN o : p[2] \in T => p \in DOMAIN x

LEMMA AttachedKeeps ==
  ASSUME NEW o, NEW x, NEW T, Keeps(o, x, T),
         \A p \in DOMAIN o : p[1] \in Live(o),
         \A p \in DOMAIN o : p[2] \in T => p[1] \in T
  PROVE  Keeps(o, Attached(x), T)
<1> DEFINE a == Attached(x)
<1>1. DOMAIN a \subseteq DOMAIN o /\ \A p \in DOMAIN a : a[p] = o[p]
  BY AttachedIs DEF Keeps
<1>2. ASSUME NEW p \in DOMAIN o, p[2] \in T
      PROVE  p \in DOMAIN a
  <2>1. p \in DOMAIN x /\ p[1] \in T /\ p[1] \in Live(o)
    BY <1>2 DEF Keeps
  <2>2. p[1] \in Live(x)
    <3>1. CASE p[1] = "envelope"
      BY <3>1, LiveIs
    <3>2. CASE p[1] # "envelope"
      <4>1. PICK q \in DOMAIN o : o[q] \in Containers /\ q[2] = p[1]
        BY <2>1, <3>2, LiveIs
      <4>2. q \in DOMAIN x /\ x[q] = o[q]
        BY <2>1, <4>1 DEF Keeps
      <4> QED
        BY <4>1, <4>2, LiveIs
    <3> QED
      BY <3>1, <3>2
  <2> QED
    BY <2>1, <2>2, AttachedIs
<1> HIDE DEF a
<1>3. Keeps(o, a, T)
  BY <1>1, <1>2 DEF Keeps
<1> QED
  BY <1>3 DEF a

LEMMA AttachedLayer ==
  ASSUME NEW t \in Types, NEW o, DOMAIN o \subseteq Places[t]
  PROVE  /\ DOMAIN Attached(o) \subseteq DOMAIN o
         /\ \A p \in DOMAIN Attached(o) : Attached(o)[p] = o[p]
         /\ Firm(o, In0) => Firm(Attached(o), In1)
         /\ Firm(o, In1) => Firm(Attached(o), In2)
         /\ Firm(o, In2) => Firm(Attached(o), In3)
         /\ Firm(o, In3) => Firm(Attached(o), In4)
<1>1. /\ \A q \in DOMAIN o : q[2] \in In1 => q[1] \in In0
      /\ \A q \in DOMAIN o : q[2] \in In2 => q[1] \in In1
      /\ \A q \in DOMAIN o : q[2] \in In3 => q[1] \in In2
      /\ \A q \in DOMAIN o : q[2] \in In4 => q[1] \in In3
  BY PlacesNest
<1> QED
  BY <1>1, AttachedFirm, AttachedIs

LEMMA WithoutAttached ==
  ASSUME NEW t \in Types, NEW o, DOMAIN o \subseteq Places[t], NEW F
  PROVE  LET w == Without(o, F) IN
         /\ DOMAIN w \subseteq DOMAIN o \ F
         /\ \A p \in DOMAIN w : w[p] = o[p] /\ p[1] \in Live(w)
<1> DEFINE o0 == Restrict(o, DOMAIN o \ F)
           o1 == Attached(o0)
           o2 == Attached(o1)
           o3 == Attached(o2)
           w == Attached(o3)
<1>1. DOMAIN o0 = DOMAIN o \ F /\ \A p \in DOMAIN o0 : o0[p] = o[p]
  BY DEF Restrict
<1>2. Firm(o0, In0)
  BY DEF Firm, In0, Live
<1> HIDE DEF o0
<1>3. Firm(o1, In1) /\ DOMAIN o1 \subseteq DOMAIN o0 /\ \A p \in DOMAIN o1 : o1[p] = o0[p]
  BY <1>1, <1>2, AttachedLayer
<1> HIDE DEF o1
<1>4. Firm(o2, In2) /\ DOMAIN o2 \subseteq DOMAIN o1 /\ \A p \in DOMAIN o2 : o2[p] = o1[p]
  BY <1>1, <1>3, AttachedLayer
<1> HIDE DEF o2
<1>5. Firm(o3, In3) /\ DOMAIN o3 \subseteq DOMAIN o2 /\ \A p \in DOMAIN o3 : o3[p] = o2[p]
  BY <1>1, <1>3, <1>4, AttachedLayer
<1> HIDE DEF o3
<1>6. Firm(w, In4) /\ DOMAIN w \subseteq DOMAIN o3 /\ \A p \in DOMAIN w : w[p] = o3[p]
  BY <1>1, <1>3, <1>4, <1>5, AttachedLayer
<1>7. Without(o, F) = w
  BY DEF Without, o0, o1, o2, o3
<1> HIDE DEF w
<1>8. \A p \in DOMAIN w : p \in DOMAIN o \ F /\ w[p] = o[p]
  BY <1>1, <1>3, <1>4, <1>5, <1>6
<1>9. \A p \in DOMAIN w : p[1] \in Live(w)
  BY <1>6, <1>8, PlacesNest DEF Firm
<1> QED
  BY <1>7, <1>8, <1>9

LEMMA WithoutKeeps ==
  ASSUME NEW t \in Types, NEW o, DOMAIN o \subseteq Places[t],
         \A p \in DOMAIN o : p[1] \in Live(o),
         NEW p \in Places[t], p[1] \in Live(o)
  PROVE  p[1] \in Live(Without(o, {p}))
<1>1. ASSUME NEW T, p[1] \in T, p[2] \notin T,
             \A q \in Places[t] : q[2] \in T => q[1] \in T
      PROVE  p[1] \in Live(Without(o, {p}))
  <2> DEFINE w == Without(o, {p})
  <2>1. Keeps(o, Restrict(o, DOMAIN o \ {p}), T)
    BY <1>1 DEF Keeps, Restrict
  <2>2. Keeps(o, w, T)
    BY <1>1, <2>1, AttachedKeeps DEF Without
  <2> HIDE DEF w
  <2>3. CASE p[1] = "envelope"
    BY <2>3, LiveIs DEF w
  <2>4. CASE p[1] # "envelope"
    <3>1. PICK q \in DOMAIN o : o[q] \in Containers /\ q[2] = p[1]
      BY <2>4, LiveIs
    <3>2. q \in DOMAIN w /\ w[q] = o[q]
      BY <1>1, <2>2, <3>1 DEF Keeps
    <3> QED
      BY <3>1, <3>2, LiveIs DEF w
  <2> QED
    BY <2>3, <2>4
<1>2. /\ In0 \subseteq In1 /\ In1 \subseteq In2 /\ In2 \subseteq In3 /\ In3 \subseteq In4
  BY DEF In1, In2, In3, In4
<1>3. /\ \A q \in Places[t] : q[2] \in In0 => q[1] \in In0
      /\ \A q \in Places[t] : q[2] \in In1 => q[1] \in In1
      /\ \A q \in Places[t] : q[2] \in In2 => q[1] \in In2
      /\ \A q \in Places[t] : q[2] \in In3 => q[1] \in In3
      /\ \A q \in Places[t] : q[2] \in In4 => q[1] \in In4
  BY <1>2, PlacesNest
<1>4. \/ p[1] \in In0 /\ p[2] \notin In0
      \/ p[1] \in In1 /\ p[2] \notin In1
      \/ p[1] \in In2 /\ p[2] \notin In2
      \/ p[1] \in In3 /\ p[2] \notin In3
      \/ p[1] \in In4 /\ p[2] \notin In4
  BY PlacesNest
<1> QED
  BY <1>1, <1>3, <1>4

-----------------------------------------------------------------------------
(* Putting objects together *)

LEMMA OfIs ==
  ASSUME NEW at, NEW fields
  PROVE  /\ \A c, f : <<c, f>> \in DOMAIN Of(at, fields) <=> c = at /\ f \in DOMAIN fields
         /\ \A f \in DOMAIN fields : Of(at, fields)[<<at, f>>] = fields[f]
         /\ \A p \in DOMAIN Of(at, fields) :
              p[1] = at /\ p[2] \in DOMAIN fields /\ p = <<p[1], p[2]>>
  BY DEF Of

LEMMA JoinIs ==
  ASSUME NEW f, NEW g
  PROVE  /\ \A x : x \in DOMAIN (f ++ g) <=> x \in DOMAIN f \/ x \in DOMAIN g
         /\ \A x \in DOMAIN f : (f ++ g)[x] = f[x]
         /\ \A x \in DOMAIN g : x \notin DOMAIN f => (f ++ g)[x] = g[x]
  BY DEF ++

LEMMA WithIs ==
  ASSUME NEW p, NEW k, NEW o
  PROVE  /\ DOMAIN With(o, p, k) = DOMAIN o \cup {p}
         /\ With(o, p, k)[p] = k
         /\ \A q \in DOMAIN o : q # p => With(o, p, k)[q] = o[q]
  BY DEF With

(* The object o has the fields e in the container at, and p is one of them. *)
Holds(o, at, e) == \A f \in DOMAIN e : <<at, f>> \in DOMAIN o /\ o[<<at, f>>] = e[f]
Among(p, at, e) == p = <<at, p[2]>> /\ p[2] \in DOMAIN e

LEMMA HoldsOf ==
  ASSUME NEW at, NEW e
  PROVE  /\ Holds(Of(at, e), at, e)
         /\ \A p \in DOMAIN Of(at, e) : Among(p, at, e)
  BY OfIs DEF Holds, Among

LEMMA HoldsLeft ==
  ASSUME NEW o, NEW q, NEW at, NEW e, Holds(o, at, e)
  PROVE  Holds(o ++ q, at, e)
  BY JoinIs DEF Holds

LEMMA HoldsRight ==
  ASSUME NEW o, NEW at, NEW e, \A p \in DOMAIN o : p[1] # at
  PROVE  Holds(o ++ Of(at, e), at, e)
<1> SUFFICES ASSUME NEW f \in DOMAIN e
             PROVE  LET p == <<at, f>>
                    IN  p \in DOMAIN (o ++ Of(at, e)) /\ (o ++ Of(at, e))[p] = e[f]
  BY DEF Holds
<1> DEFINE p == <<at, f>>
<1>1. p \in DOMAIN Of(at, e) /\ Of(at, e)[p] = e[f]
  BY OfIs
<1>2. p \notin DOMAIN o
  BY DEF p
<1> QED
  BY <1>1, <1>2, JoinIs

LEMMA DomainJoin ==
  ASSUME NEW o, NEW q, NEW p \in DOMAIN (o ++ q)
  PROVE  p \in DOMAIN o \/ p \in DOMAIN q
  BY JoinIs

(* An object in two containers, and in three. *)
LEMMA TwoParts ==
  ASSUME NEW at, NEW ct, at # ct, NEW e, NEW b, NEW o, o = Of(at, e) ++ Of(ct, b)
  PROVE  /\ Holds(o, at, e) /\ Holds(o, ct, b)
         /\ \A p \in DOMAIN o : Among(p, at, e) \/ Among(p, ct, b)
<1>1. Holds(o, at, e)
  BY HoldsOf, HoldsLeft
<1>2. \A p \in DOMAIN Of(at, e) : p[1] # ct
  BY HoldsOf DEF Among
<1>3. Holds(o, ct, b)
  BY <1>2, HoldsRight
<1>4. \A p \in DOMAIN o : Among(p, at, e) \/ Among(p, ct, b)
  BY HoldsOf, DomainJoin
<1> QED
  BY <1>1, <1>3, <1>4

LEMMA ThreeParts ==
  ASSUME NEW at, NEW ct, NEW dt, at # ct, at # dt, ct # dt, NEW e, NEW b, NEW d,
         NEW o, o = Of(at, e) ++ Of(ct, b) ++ Of(dt, d)
  PROVE  /\ Holds(o, at, e) /\ Holds(o, ct, b) /\ Holds(o, dt, d)
         /\ \A p \in DOMAIN o : Among(p, at, e) \/ Among(p, ct, b) \/ Among(p, dt, d)
<1> DEFINE q == Of(at, e) ++ Of(ct, b)
<1>1. /\ Holds(q, at, e) /\ Holds(q, ct, b)
      /\ \A p \in DOMAIN q : Among(p, at, e) \/ Among(p, ct, b)
  BY TwoParts
<1>2. o = q ++ Of(dt, d)
  OBVIOUS
<1> HIDE DEF q
<1>3. Holds(o, at, e) /\ Holds(o, ct, b)
  BY <1>1, <1>2, HoldsLeft
<1>4. \A p \in DOMAIN q : p[1] # dt
  BY <1>1 DEF Among
<1>5. Holds(o, dt, d)
  BY <1>2, <1>4, HoldsRight
<1>6. \A p \in DOMAIN o : Among(p, at, e) \/ Among(p, ct, b) \/ Among(p, dt, d)
  BY <1>1, <1>2, HoldsOf, DomainJoin
<1> QED
  BY <1>3, <1>5, <1>6
-----------------------------------------------------------------------------
(* What an author makes: fields that some validator of the type knows, each held and
   of some kind. *)

Authored(t, o) ==
  /\ DOMAIN o \subseteq Places[t]
  /\ \A p \in DOMAIN o : p[1] \in Live(o) /\ o[p] \in Kinds

LEMMA CompleteAuthored ==
  ASSUME NEW t \in Types
  PROVE  Authored(t, Complete(t))
<1>1. DOMAIN Complete(t) = Places[t]
  BY DEF Complete
<1> QED
  BY <1>1, CompleteKinds, CompleteAttached DEF Authored

LEMMA WithoutAuthored ==
  ASSUME NEW t \in Types, NEW o, Authored(t, o), NEW F
  PROVE  Authored(t, Without(o, F))
<1> DEFINE w == Without(o, F)
<1>1. /\ DOMAIN w \subseteq DOMAIN o \ F
      /\ \A p \in DOMAIN w : w[p] = o[p] /\ p[1] \in Live(w)
  BY WithoutAttached DEF Authored
<1> HIDE DEF w
<1>2. Authored(t, w)
  BY <1>1 DEF Authored
<1> QED
  BY <1>2 DEF w

LEMMA WithAuthored ==
  ASSUME NEW t \in Types, NEW o, Authored(t, o), NEW p \in Places[t], p[1] \in Live(o),
         NEW k \in Kinds, p \notin DOMAIN o \/ k \in Containers
  PROVE  Authored(t, With(o, p, k))
<1> DEFINE w == With(o, p, k)
<1>1. /\ DOMAIN w = DOMAIN o \cup {p}
      /\ w[p] = k
      /\ \A q \in DOMAIN o : q # p => w[q] = o[q]
  BY DEF With
<1> HIDE DEF w
<1>2. \A c : c \in Live(o) => c \in Live(w)
  <2> TAKE c
  <2> HAVE c \in Live(o)
  <2>1. CASE c = "envelope"
    BY <2>1, LiveIs
  <2>2. CASE c # "envelope"
    <3>1. PICK q \in DOMAIN o : o[q] \in Containers /\ q[2] = c
      BY <2>2, LiveIs
    <3>2. q \in DOMAIN w /\ w[q] \in Containers
      BY <1>1, <3>1
    <3> QED
      BY <3>1, <3>2, LiveIs
  <2> QED
    BY <2>1, <2>2
<1>3. Authored(t, w)
  BY <1>1, <1>2 DEF Authored
<1> QED
  BY <1>3 DEF w

-----------------------------------------------------------------------------
(* Built objects *)

Given(o, at, F, K) == \A f \in F : <<at, f>> \in DOMAIN o /\ o[<<at, f>>] \in K

LEMMA FitsRules ==
  /\ \A o, R, S : Fits(o, R \sqcup S) <=> Fits(o, R) /\ Fits(o, S)
  /\ \A o, at, F, K : Given(o, at, F, K) => Fits(o, requireField(at, F, K))
  /\ \A o, at, F, K : Given(o, at, F, K) => Fits(o, optionalField(at, F, K))
  /\ \A o, at, F, K : (\A p \in DOMAIN o : p[1] = at => p[2] \notin F)
                        => Fits(o, optionalField(at, F, K))
  /\ \A o, at, F, K : at \notin Live(o) => Fits(o, requireField(at, F, K))
  /\ \A o, at, F, K : at \notin Live(o) => Fits(o, optionalField(at, F, K))
<1>1. \A o, R, S : Fits(o, R \sqcup S) <=> Fits(o, R) /\ Fits(o, S)
  BY DEF Fits, \sqcup
<1>2. \A o, at, F, K : Given(o, at, F, K) => Fits(o, requireField(at, F, K))
  BY DEF Fits, Given, requireField
<1>3. \A o, at, F, K : Given(o, at, F, K) => Fits(o, optionalField(at, F, K))
  BY DEF Fits, Given, optionalField
<1>4. \A o, at, F, K : (\A p \in DOMAIN o : p[1] = at => p[2] \notin F)
                        => Fits(o, optionalField(at, F, K))
  BY DEF Fits, optionalField
<1>5. \A o, at, F, K : at \notin Live(o) => Fits(o, requireField(at, F, K))
  BY DEF Fits, requireField
<1>6. \A o, at, F, K : at \notin Live(o) => Fits(o, optionalField(at, F, K))
  BY DEF Fits, optionalField
<1> QED
  BY <1>1, <1>2, <1>3, <1>4, <1>5, <1>6

LEMMA HoldsGiven ==
  ASSUME NEW o, NEW at, NEW e, Holds(o, at, e), NEW F, NEW K,
         \A f \in F : f \in DOMAIN e /\ e[f] \in K
  PROVE  Given(o, at, F, K)
  BY DEF Holds, Given

(* The form of what each builder makes. *)
InvocationForm(o) ==
  /\ Given(o, "envelope", {"oid", "type", "gap_version"}, Listed)
  /\ Given(o, "envelope", {"tenant_id", "created_by"}, Text)
  /\ Given(o, "envelope", {"created_at_ms"}, Time)
  /\ Given(o, "envelope", {"body"}, isObject)
  /\ Given(o, "body", {"caller", "args"}, isObject)
  /\ Given(o, "body", {"capability"}, {"other"})
  /\ Given(o, "caller", {"actor_type"}, Listed)
  /\ Given(o, "caller", {"actor_oid", "grant_oid"}, Text)
  /\ Live(o) = {"envelope", "body", "caller", "args"}
  /\ \A p \in DOMAIN o :
       /\ o[p] \in Kinds \ {"decimal", "huge"}
       /\ p \in {"envelope"} \X {"oid", "type", "gap_version", "tenant_id", "created_at_ms",
                                "created_by", "body"}
                 \cup {"body"} \X {"caller", "capability", "args"}
                 \cup {"caller"} \X {"actor_type", "actor_oid", "grant_oid"}

ReceiptForm(o) ==
  /\ Given(o, "envelope", {"oid", "type", "gap_version", "receipt_scheme"}, Listed)
  /\ Given(o, "envelope", {"tenant_id", "created_by"}, Text)
  /\ Given(o, "envelope", {"signature", "signature_key_id"}, {"other"})
  /\ Given(o, "envelope", {"created_at_ms"}, Time)
  /\ Given(o, "envelope", {"body"}, isObject)
  /\ Given(o, "body", {"subject_kind"}, Listed)
  /\ Given(o, "body", {"status"}, DecisionStatus)
  /\ Given(o, "body", {"subject_oid"}, Text)
  /\ Given(o, "body", {"initiated_at_ms", "resolved_at_ms"}, Time)
  /\ Given(o, "body", {"initiator"}, isObject)
  /\ \/ Given(o, "body", {"detail"}, Text)
     \/ \A p \in DOMAIN o : p[1] = "body" => p[2] # "detail"
  /\ Given(o, "initiator", {"actor_oid"}, Text)
  /\ Given(o, "initiator", {"actor_type"}, Listed)
  /\ Live(o) = {"envelope", "body", "initiator"}
  /\ \A p \in DOMAIN o :
       /\ o[p] \in Kinds \ {"decimal", "huge"}
       /\ p \in {"envelope"} \X {"oid", "type", "gap_version", "tenant_id", "created_at_ms",
                                "created_by", "body", "receipt_scheme", "signature_key_id",
                                "signature"}
                 \cup {"body"} \X {"subject_kind", "subject_oid", "initiator", "status",
                                   "initiated_at_ms", "resolved_at_ms", "detail"}
                 \cup {"initiator"} \X {"actor_oid", "actor_type"}

RevocationForm(o) ==
  /\ Given(o, "envelope", {"oid", "type", "gap_version"}, Listed)
  /\ Given(o, "envelope", {"tenant_id", "created_by"}, Text)
  /\ Given(o, "envelope", {"created_at_ms"}, Time)
  /\ Given(o, "envelope", {"body"}, isObject)
  /\ Given(o, "body", {"target_kind"}, Listed)
  /\ Given(o, "body", {"target_oid", "reason"}, Text)
  /\ Given(o, "body", {"required_level"}, {"one"})
  /\ Given(o, "body", {"provisional"}, {"true"})
  /\ Given(o, "body", {"approvers"}, {"none"})
  /\ Given(o, "body", {"effective_at_ms"}, {"null"})
  /\ Live(o) = {"envelope", "body"}
  /\ \A p \in DOMAIN o :
       /\ o[p] \in Kinds \ {"decimal", "huge"}
       /\ p \in {"envelope"} \X {"oid", "type", "gap_version", "tenant_id", "created_at_ms",
                                "created_by", "body"}
                 \cup {"body"} \X {"target_kind", "target_oid", "reason", "required_level",
                                   "provisional", "approvers", "effective_at_ms"}

LEMMA KindsOf ==
  /\ Listed \subseteq Kinds /\ Text \subseteq Kinds /\ Time \subseteq Kinds
  /\ Text \subseteq Str /\ Time \subseteq isInteger
  /\ "object" \in isObject /\ "object" \in Kinds /\ "listed" \in Listed
  /\ "other" \in Str /\ "other" \in NonEmpty /\ "other" \in Kinds
  /\ "object" \in Containers /\ "listed" \notin Containers /\ "other" \notin Containers
  /\ \A k \in Text : k \notin Containers \cup {"decimal", "huge"}
  /\ \A k \in Time : k \notin Containers \cup {"decimal", "huge"}
  /\ \A k \in DecisionStatus : k \in Kinds /\ k \notin Containers \cup {"decimal", "huge"}
  BY DEF DecisionStatus, RateLimited, Kinds, Listed, Text, Time, PyInt, isInteger, Str,
         NonEmpty, isObject, Containers, isNumber

LEMMA InvocationFormed ==
  ASSUME NEW tenant \in Text, NEW actor \in Text, NEW grant \in Text, NEW now \in Time, NEW o,
         o = build_invocation_envelope(tenant, actor, grant, now)
  PROVE  InvocationForm(o)
<1> DEFINE e == [oid |-> "listed", type |-> "listed", gap_version |-> "listed",
                 tenant_id |-> tenant, created_at_ms |-> now,
                 created_by |-> actor, body |-> "object"]
           b == [caller |-> "object", capability |-> "other", args |-> "object"]
           c == [actor_type |-> "listed", actor_oid |-> actor, grant_oid |-> grant]
<1>1. /\ Holds(o, "envelope", e) /\ Holds(o, "body", b) /\ Holds(o, "caller", c)
      /\ \A p \in DOMAIN o : \/ Among(p, "envelope", e)
                            \/ Among(p, "body", b)
                            \/ Among(p, "caller", c)
  <2> HIDE DEF e, b, c
  <2>1. o = Of("envelope", e) ++ Of("body", b) ++ Of("caller", c)
    BY DEF build_invocation_envelope, e, b, c
  <2> QED
    BY <2>1, ThreeParts
<1>2. /\ DOMAIN e = {"oid", "type", "gap_version", "tenant_id", "created_at_ms", "created_by",
                     "body"}
      /\ \A f \in {"oid", "type", "gap_version"} : e[f] = "listed"
      /\ e["tenant_id"] = tenant /\ e["created_by"] = actor
      /\ e["created_at_ms"] = now /\ e["body"] = "object"
  OBVIOUS
<1>3. /\ DOMAIN b = {"caller", "capability", "args"}
      /\ b["caller"] = "object" /\ b["capability"] = "other" /\ b["args"] = "object"
  OBVIOUS
<1>4. /\ DOMAIN c = {"actor_type", "actor_oid", "grant_oid"}
      /\ c["actor_type"] = "listed" /\ c["actor_oid"] = actor /\ c["grant_oid"] = grant
  OBVIOUS
<1> HIDE DEF e, b, c
<1>5. /\ \A f \in DOMAIN e : e[f] \in Kinds \ {"decimal", "huge"}
      /\ \A f \in DOMAIN b : b[f] \in Kinds \ {"decimal", "huge"}
      /\ \A f \in DOMAIN c : c[f] \in Kinds \ {"decimal", "huge"}
  BY <1>2, <1>3, <1>4, KindsOf
<1>6. /\ \A f \in DOMAIN e : e[f] \in Containers => f = "body"
      /\ \A f \in DOMAIN b : b[f] \in Containers => f \in {"caller", "args"}
      /\ \A f \in DOMAIN c : c[f] \notin Containers
  BY <1>2, <1>3, <1>4, KindsOf
<1>7. /\ Given(o, "envelope", {"oid", "type", "gap_version"}, Listed)
      /\ Given(o, "envelope", {"tenant_id", "created_by"}, Text)
      /\ Given(o, "envelope", {"created_at_ms"}, Time)
      /\ Given(o, "envelope", {"body"}, isObject)
  BY <1>1, <1>2, KindsOf, HoldsGiven
<1>8. /\ Given(o, "body", {"caller", "args"}, isObject)
      /\ Given(o, "body", {"capability"}, {"other"})
  BY <1>1, <1>3, KindsOf, HoldsGiven
<1>9. /\ Given(o, "caller", {"actor_type"}, Listed)
      /\ Given(o, "caller", {"actor_oid", "grant_oid"}, Text)
  BY <1>1, <1>4, KindsOf, HoldsGiven
<1>10. \A p \in DOMAIN o : o[p] \in Kinds \ {"decimal", "huge"}
  BY <1>1, <1>5 DEF Among, Holds
<1>11. \A p \in DOMAIN o :
         p \in {"envelope"} \X {"oid", "type", "gap_version", "tenant_id", "created_at_ms",
                              "created_by", "body"}
               \cup {"body"} \X {"caller", "capability", "args"}
               \cup {"caller"} \X {"actor_type", "actor_oid", "grant_oid"}
  BY <1>1, <1>2, <1>3, <1>4 DEF Among
<1>12. \A x : x \in Live(o) => x \in {"envelope", "body", "caller", "args"}
  BY <1>1, <1>6, LiveIs DEF Among, Holds
<1>13. /\ "envelope" \in Live(o) /\ "body" \in Live(o)
       /\ "caller" \in Live(o) /\ "args" \in Live(o)
  <2>1. /\ <<"envelope", "body">> \in DOMAIN o /\ o[<<"envelope", "body">>] \in Containers
        /\ <<"body", "caller">> \in DOMAIN o /\ o[<<"body", "caller">>] \in Containers
        /\ <<"body", "args">> \in DOMAIN o /\ o[<<"body", "args">>] \in Containers
    BY <1>7, <1>8, KindsOf DEF Given, isObject
  <2> QED
    BY <2>1, LiveIs
<1> QED
  BY <1>7, <1>8, <1>9, <1>10, <1>11, <1>12, <1>13 DEF InvocationForm

LEMMA ReceiptFormed ==
  ASSUME NEW subject \in Text, NEW actor \in Text, NEW tenant \in Text, NEW creator \in Text,
         NEW status \in DecisionStatus, NEW detail \in Text \cup {"absent"},
         NEW initiated \in Time, NEW resolved \in Time, NEW o,
         o = receipt(subject, actor, status, detail, tenant, creator, initiated, resolved)
  PROVE  ReceiptForm(o)
<1> DEFINE e == [oid |-> "listed", type |-> "listed", gap_version |-> "listed",
                  tenant_id |-> tenant, created_at_ms |-> initiated,
                  created_by |-> creator, body |-> "object", receipt_scheme |-> "listed",
                  signature_key_id |-> "other", signature |-> "other"]
           d == [subject_kind |-> "listed", subject_oid |-> subject,
                   initiator |-> "object", status |-> status,
                   initiated_at_ms |-> initiated, resolved_at_ms |-> resolved]
           b == d ++ IF detail = "absent" THEN <<>> ELSE [detail |-> detail]
           c == [actor_oid |-> actor, actor_type |-> "listed"]
<1>1. /\ Holds(o, "envelope", e) /\ Holds(o, "body", b) /\ Holds(o, "initiator", c)
      /\ \A p \in DOMAIN o : \/ Among(p, "envelope", e)
                            \/ Among(p, "body", b)
                            \/ Among(p, "initiator", c)
  <2> HIDE DEF e, b, c
  <2>1. o = Of("envelope", e) ++ Of("body", b) ++ Of("initiator", c)
    BY DEF receipt, e, d, b, c
  <2> QED
    BY <2>1, ThreeParts
<1>2. /\ DOMAIN e = {"oid", "type", "gap_version", "tenant_id", "created_at_ms", "created_by",
                     "body", "receipt_scheme", "signature_key_id", "signature"}
      /\ \A f \in {"oid", "type", "gap_version", "receipt_scheme"} : e[f] = "listed"
      /\ \A f \in {"signature", "signature_key_id"} : e[f] = "other"
      /\ e["tenant_id"] = tenant /\ e["created_by"] = creator
      /\ e["created_at_ms"] = initiated /\ e["body"] = "object"
  OBVIOUS
<1>3. /\ DOMAIN d = {"subject_kind", "subject_oid", "initiator", "status", "initiated_at_ms",
                     "resolved_at_ms"}
      /\ d["subject_kind"] = "listed" /\ d["subject_oid"] = subject
      /\ d["initiator"] = "object" /\ d["status"] = status
      /\ d["initiated_at_ms"] = initiated /\ d["resolved_at_ms"] = resolved
  OBVIOUS
<1>4. /\ DOMAIN c = {"actor_oid", "actor_type"}
      /\ c["actor_oid"] = actor /\ c["actor_type"] = "listed"
  OBVIOUS
<1> HIDE DEF e, c, d
<1>5. /\ \A f \in DOMAIN d : f \in DOMAIN b /\ b[f] = d[f]
      /\ \A f \in DOMAIN b : f \in DOMAIN d \/ f = "detail"
      /\ "detail" \in DOMAIN b => b["detail"] \in Text
  <2>1. CASE detail = "absent"
    <3>1. b = d ++ <<>>
      BY <2>1
    <3>2. DOMAIN <<>> = {}
      OBVIOUS
    <3> HIDE DEF b
    <3> QED
      BY <1>3, <3>1, <3>2, JoinIs
  <2>2. CASE detail # "absent"
    <3> DEFINE x == [detail |-> detail]
    <3>1. b = d ++ x
      BY <2>2
    <3>2. DOMAIN x = {"detail"} /\ x["detail"] = detail
      OBVIOUS
    <3> HIDE DEF b, x
    <3> QED
      BY <1>3, <2>2, <3>1, <3>2, JoinIs
  <2> QED
    BY <2>1, <2>2
<1> HIDE DEF b
<1>6. /\ \A f \in DOMAIN e :
           e[f] \in Kinds \ {"decimal", "huge"} /\ (e[f] \in Containers <=> f = "body")
      /\ \A f \in DOMAIN c : c[f] \in Kinds \ {"decimal", "huge"} /\ c[f] \notin Containers
  BY <1>2, <1>4, KindsOf DEF Text, Time, PyInt
<1>7. \A f \in DOMAIN b :
        b[f] \in Kinds \ {"decimal", "huge"} /\ (b[f] \in Containers <=> f = "initiator")
  BY <1>3, <1>5, KindsOf DEF Text, Time, PyInt
<1>8. /\ Given(o, "envelope", {"oid", "type", "gap_version", "receipt_scheme"}, Listed)
      /\ Given(o, "envelope", {"tenant_id", "created_by"}, Text)
      /\ Given(o, "envelope", {"signature", "signature_key_id"}, {"other"})
      /\ Given(o, "envelope", {"created_at_ms"}, Time)
      /\ Given(o, "envelope", {"body"}, isObject)
  BY <1>1, <1>2, KindsOf, HoldsGiven
<1>9. /\ Given(o, "body", {"subject_kind"}, Listed)
      /\ Given(o, "body", {"status"}, DecisionStatus)
      /\ Given(o, "body", {"subject_oid"}, Text)
      /\ Given(o, "body", {"initiated_at_ms", "resolved_at_ms"}, Time)
      /\ Given(o, "body", {"initiator"}, isObject)
  <2>1. /\ \A f \in DOMAIN d : f \in DOMAIN b /\ b[f] = d[f]
    BY <1>5
  <2> QED
    BY <1>1, <1>3, <2>1, KindsOf, HoldsGiven
<1>10. /\ Given(o, "initiator", {"actor_oid"}, Text)
       /\ Given(o, "initiator", {"actor_type"}, Listed)
  BY <1>1, <1>4, KindsOf, HoldsGiven
<1>11. \/ Given(o, "body", {"detail"}, Text)
       \/ \A p \in DOMAIN o : p[1] = "body" => p[2] # "detail"
  <2>1. CASE "detail" \in DOMAIN b
    BY <1>1, <1>5, <2>1, HoldsGiven
  <2>2. CASE "detail" \notin DOMAIN b
    BY <1>1, <2>2 DEF Among
  <2> QED
    BY <2>1, <2>2
<1>12. \A p \in DOMAIN o : o[p] \in Kinds \ {"decimal", "huge"}
  BY <1>1, <1>6, <1>7 DEF Among, Holds
<1>13. \A p \in DOMAIN o :
         p \in {"envelope"} \X {"oid", "type", "gap_version", "tenant_id", "created_at_ms",
                              "created_by", "body", "receipt_scheme",
                              "signature_key_id", "signature"}
               \cup {"body"} \X {"subject_kind", "subject_oid", "initiator", "status",
                                 "initiated_at_ms", "resolved_at_ms", "detail"}
               \cup {"initiator"} \X {"actor_oid", "actor_type"}
  BY <1>1, <1>2, <1>3, <1>4, <1>5 DEF Among
<1>14. \A x : x \in Live(o) => x \in {"envelope", "body", "initiator"}
  BY <1>1, <1>6, <1>7, LiveIs DEF Among, Holds
<1>15. "body" \in Live(o) /\ "initiator" \in Live(o) /\ "envelope" \in Live(o)
  <2>1. /\ <<"envelope", "body">> \in DOMAIN o /\ o[<<"envelope", "body">>] \in Containers
        /\ <<"body", "initiator">> \in DOMAIN o /\ o[<<"body", "initiator">>] \in Containers
    BY <1>8, <1>9, KindsOf DEF Given, isObject
  <2> QED
    BY <2>1, LiveIs
<1> QED
  BY <1>8, <1>9, <1>10, <1>11, <1>12, <1>13, <1>14, <1>15 DEF ReceiptForm

LEMMA RevocationFormed ==
  ASSUME NEW target \in Text, NEW reason \in Text, NEW tenant \in Text, NEW creator \in Text,
         NEW now \in Time, NEW o, o = revokeGapObject(target, reason, tenant, creator, now)
  PROVE  RevocationForm(o)
<1> DEFINE e == [oid |-> "listed", type |-> "listed", gap_version |-> "listed",
                 tenant_id |-> tenant, created_at_ms |-> now,
                 created_by |-> creator, body |-> "object"]
           b == [target_kind |-> "listed", target_oid |-> target, reason |-> reason,
                 required_level |-> "one", provisional |-> "true", approvers |-> "none",
                 effective_at_ms |-> "null"]
<1>1. /\ Holds(o, "envelope", e) /\ Holds(o, "body", b)
      /\ \A p \in DOMAIN o : Among(p, "envelope", e) \/ Among(p, "body", b)
  <2> HIDE DEF e, b
  <2>1. o = Of("envelope", e) ++ Of("body", b)
    BY DEF revokeGapObject, e, b
  <2> QED
    BY <2>1, TwoParts
<1>2. /\ DOMAIN e = {"oid", "type", "gap_version", "tenant_id", "created_at_ms", "created_by",
                     "body"}
      /\ \A f \in {"oid", "type", "gap_version"} : e[f] = "listed"
      /\ e["tenant_id"] = tenant /\ e["created_by"] = creator
      /\ e["created_at_ms"] = now /\ e["body"] = "object"
  OBVIOUS
<1>3. /\ DOMAIN b = {"target_kind", "target_oid", "reason", "required_level", "provisional",
                     "approvers", "effective_at_ms"}
      /\ b["target_kind"] = "listed" /\ b["target_oid"] = target /\ b["reason"] = reason
      /\ b["required_level"] = "one" /\ b["provisional"] = "true"
      /\ b["approvers"] = "none" /\ b["effective_at_ms"] = "null"
  OBVIOUS
<1> HIDE DEF e, b
<1>4. \A f \in DOMAIN e :
        e[f] \in Kinds \ {"decimal", "huge"} /\ (e[f] \in Containers <=> f = "body")
  BY <1>2, KindsOf
<1>5. \A f \in DOMAIN b : b[f] \in Kinds \ {"decimal", "huge"} /\ b[f] \notin Containers
  <2>1. \A k \in {"one", "true", "none", "null"} : k \in Kinds /\ k \notin Containers
    BY DEF Kinds, isNumber, isInteger, isBoolean, isArray, Strings, Null, Containers
  <2> QED
    BY <1>3, <2>1, KindsOf
<1>6. /\ Given(o, "envelope", {"oid", "type", "gap_version"}, Listed)
      /\ Given(o, "envelope", {"tenant_id", "created_by"}, Text)
      /\ Given(o, "envelope", {"created_at_ms"}, Time)
      /\ Given(o, "envelope", {"body"}, isObject)
  BY <1>1, <1>2, KindsOf, HoldsGiven
<1>7. /\ Given(o, "body", {"target_kind"}, Listed)
      /\ Given(o, "body", {"target_oid", "reason"}, Text)
      /\ Given(o, "body", {"required_level"}, {"one"})
      /\ Given(o, "body", {"provisional"}, {"true"})
      /\ Given(o, "body", {"approvers"}, {"none"})
      /\ Given(o, "body", {"effective_at_ms"}, {"null"})
  BY <1>1, <1>3, KindsOf, HoldsGiven
<1>8. \A p \in DOMAIN o : o[p] \in Kinds \ {"decimal", "huge"}
  BY <1>1, <1>4, <1>5 DEF Among, Holds
<1>9. \A p \in DOMAIN o :
        p \in {"envelope"} \X {"oid", "type", "gap_version", "tenant_id", "created_at_ms",
                             "created_by", "body"}
              \cup {"body"} \X {"target_kind", "target_oid", "reason", "required_level",
                                "provisional", "approvers", "effective_at_ms"}
  BY <1>1, <1>2, <1>3 DEF Among
<1>10. \A x : x \in Live(o) => x \in {"envelope", "body"}
  BY <1>1, <1>4, <1>5, LiveIs DEF Among, Holds
<1>11. "body" \in Live(o) /\ "envelope" \in Live(o)
  BY <1>6, KindsOf, LiveIs DEF Given, isObject
<1> QED
  BY <1>6, <1>7, <1>8, <1>9, <1>10, <1>11 DEF RevocationForm

LEMMA GivenWithin ==
  ASSUME NEW o, NEW at, NEW F, NEW K, NEW L, Given(o, at, F, K), K \subseteq L
  PROVE  Given(o, at, F, L)
  BY DEF Given

(* What JavaScript leaves as it is. *)
LEMMA NotRelayed ==
  ASSUME NEW o, NEW P, \A p \in DOMAIN o : o[p] \notin {"decimal", "huge"}, Fits(Relayed(o), P)
  PROVE  Fits(o, P)
<1> DEFINE x == Relayed(o)
<1>1. DOMAIN x = DOMAIN o /\ \A p \in DOMAIN o : x[p] = o[p]
  BY DEF Relayed, PassedOn
<1>2. Live(x) = Live(o)
  BY RelayedLive
<1> HIDE DEF x
<1> QED
  BY <1>1, <1>2 DEF Fits, x

LEMMA InvocationFits ==
  ASSUME NEW o, InvocationForm(o)
  PROVE  Fits(o, Shape["capability_invocation"])
<1>1. /\ Given(o, "envelope", {"oid", "type", "gap_version"}, Listed)
      /\ Given(o, "envelope", {"tenant_id", "created_by"}, Str)
      /\ Given(o, "envelope", {"created_at_ms"}, isInteger)
      /\ Given(o, "envelope", {"body"}, isObject)
      /\ Given(o, "body", {"caller", "args"}, isObject)
      /\ Given(o, "body", {"capability"}, Str)
      /\ Given(o, "caller", {"actor_type"}, Listed)
      /\ Given(o, "caller", {"actor_oid", "grant_oid"}, Str)
  BY KindsOf, GivenWithin DEF InvocationForm
<1>2. /\ "workflow_context" \notin Live(o) /\ "delegation_chain" \notin Live(o)
      /\ "mcp_tool_call" \notin Live(o)
  BY DEF InvocationForm
<1>3. /\ \A p \in DOMAIN o : p[1] = "envelope" =>
           p[2] \notin {"signature", "signature_key_id", "supersedes"}
      /\ \A p \in DOMAIN o : p[1] = "body" => p[2] \in {"caller", "capability", "args"}
      /\ \A p \in DOMAIN o : p[1] = "caller" => p[2] \notin {"actor_session_id"}
  BY DEF InvocationForm
<1>4. Fits(o, validateEnvelopeShape)
  BY <1>1, <1>3, FitsRules DEF validateEnvelopeShape
<1>5. Fits(o, validateDelegationStep("delegation_chain"))
  BY <1>2, FitsRules DEF validateDelegationStep
<1>6. Fits(o, validateMcpToolCallContext)
  BY <1>2, FitsRules DEF validateMcpToolCallContext
<1>7. Fits(o, validateCapabilityInvocationBody)
  BY <1>1, <1>2, <1>3, <1>5, <1>6, FitsRules DEF validateCapabilityInvocationBody
<1> QED
  BY <1>4, <1>7, FitsRules, ShapesOf, BodiesOf, TypesListed

LEMMA InvocationAuthored ==
  ASSUME NEW o, InvocationForm(o)
  PROVE  Authored("capability_invocation", o)
<1> DEFINE t == "capability_invocation"
<1>1. t \in Types
  BY TypesListed
<1>2. \A f \in {"oid", "type", "gap_version", "tenant_id", "created_at_ms", "created_by",
               "body"} :
        Knows(validateEnvelopeShape, "envelope", f)
  BY KnowsRules DEF validateEnvelopeShape
<1>3. /\ \A f \in {"caller", "capability", "args"} :
           Knows(validateCapabilityInvocationBody, "body", f)
      /\ \A f \in {"actor_type", "actor_oid", "grant_oid"} :
           Knows(validateCapabilityInvocationBody, "caller", f)
  BY KnowsRules DEF validateCapabilityInvocationBody
<1>4. \A at, f : \/ Knows(validateEnvelopeShape, at, f)
                \/ Knows(validateCapabilityInvocationBody, at, f)
                => <<at, f>> \in Places[t]
  BY <1>1, KnowsRules, ShapesOf, BodiesOf, PlacesKnown DEF Rows
<1>5. \A p \in DOMAIN o : p \in Places[t]
  BY <1>2, <1>3, <1>4 DEF InvocationForm
<1>6. \A p \in DOMAIN o : p[1] \in Live(o) /\ o[p] \in Kinds
  BY DEF InvocationForm
<1> QED
  BY <1>5, <1>6 DEF Authored

LEMMA ReceiptFits ==
  ASSUME NEW o, ReceiptForm(o), o[<<"body", "status">>] \notin RateLimited
  PROVE  Fits(o, Shape["decision_receipt"])
<1>1. /\ Given(o, "envelope", {"oid", "type", "gap_version", "receipt_scheme"}, Listed)
      /\ Given(o, "envelope", {"tenant_id", "created_by"}, Str)
      /\ Given(o, "envelope", {"signature", "signature_key_id"}, Str)
      /\ Given(o, "envelope", {"created_at_ms"}, isInteger)
      /\ Given(o, "envelope", {"body"}, isObject)
  BY KindsOf, GivenWithin DEF ReceiptForm
<1>2. /\ Given(o, "body", {"subject_kind"}, Listed)
      /\ Given(o, "body", {"subject_oid"}, Str)
      /\ Given(o, "body", {"initiated_at_ms", "resolved_at_ms"}, isInteger)
      /\ Given(o, "body", {"initiator"}, isObject)
      /\ Given(o, "initiator", {"actor_oid"}, Str)
      /\ Given(o, "initiator", {"actor_type"}, Listed)
  BY KindsOf, GivenWithin DEF ReceiptForm
<1>3. Given(o, "body", {"subject_kind", "status"}, Listed)
  BY <1>2 DEF ReceiptForm, DecisionStatus, Given
<1>4. /\ \A p \in DOMAIN o : p[1] = "envelope" => p[2] \notin {"supersedes"}
      /\ \A p \in DOMAIN o : p[1] = "body" =>
           p[2] \in {"subject_kind", "subject_oid", "initiator", "status",
                    "initiated_at_ms", "resolved_at_ms", "detail"}
  BY DEF ReceiptForm
<1>5. Fits(o, optionalField("envelope", {"signature", "signature_key_id", "supersedes"}, Str))
  BY <1>1, <1>4 DEF Fits, Given, optionalField
<1>6. Fits(o, optionalField("body", {"detail"}, Str))
  <2>1. \/ Given(o, "body", {"detail"}, Str)
        \/ \A p \in DOMAIN o : p[1] = "body" => p[2] \notin {"detail"}
    BY KindsOf, GivenWithin DEF ReceiptForm
  <2> QED
    BY <2>1, FitsRules
<1>7. /\ "signer_identity" \notin Live(o) /\ "token_consumption" \notin Live(o)
      /\ "measured" \notin Live(o)
  BY DEF ReceiptForm
<1>8. Fits(o, validateEnvelopeShape)
  <2>1. Given(o, "envelope", {"oid", "type", "gap_version"}, Listed)
    BY <1>1 DEF Given
  <2> QED
    BY <1>1, <1>5, <2>1, FitsRules DEF validateEnvelopeShape
<1>9. Fits(o, validateTokenConsumption)
  BY <1>7, FitsRules DEF validateTokenConsumption
<1>10. Fits(o, validateMeasuredResult)
  BY <1>7, FitsRules DEF validateMeasuredResult
<1>11. Fits(o, validateGapDecisionReceiptBody)
  BY <1>2, <1>3, <1>4, <1>6, <1>7, <1>9, <1>10, FitsRules DEF validateGapDecisionReceiptBody
<1> QED
  BY <1>8, <1>11, FitsRules, ShapesOf, BodiesOf, TypesListed

(* Python asks of a receipt no more than its envelope, whatever its status. *)
LEMMA ReceiptFitsPython ==
  ASSUME NEW o, ReceiptForm(o)
  PROVE  "decision_receipt" \in PyTypes /\ Fits(o, PyShape["decision_receipt"])
<1>1. "decision_receipt" \in PyTypes /\ PyShape["decision_receipt"] = PyEnvelope(Kinds)
  BY TypesListed DEF PyTypes, PyShape, PyBodyShape
<1>2. /\ Listed \subseteq Nullable(Listed) /\ Time \subseteq Nullable(PyInt)
      /\ Text \subseteq Kinds /\ isObject \subseteq Kinds
  BY KindsOf DEF Nullable, Time, isObject
<1>3. /\ Given(o, "envelope", {"oid", "type", "gap_version", "receipt_scheme"},
               Nullable(Listed))
      /\ Given(o, "envelope", {"tenant_id", "created_by"}, Kinds)
      /\ Given(o, "envelope", {"created_at_ms"}, Nullable(PyInt))
      /\ Given(o, "envelope", {"body"}, Kinds)
  BY <1>2, GivenWithin DEF ReceiptForm
<1>4. Given(o, "envelope", {"oid", "type", "gap_version"}, Nullable(Listed))
  BY <1>3 DEF Given
<1>5. Fits(o, PyEnvelope(Kinds))
  BY <1>3, <1>4, FitsRules DEF PyEnvelope
<1> QED
  BY <1>1, <1>5

LEMMA ReceiptAuthored ==
  ASSUME NEW o, ReceiptForm(o)
  PROVE  Authored("decision_receipt", o)
<1> DEFINE t == "decision_receipt"
<1>1. t \in Types
  BY TypesListed
<1>2. \A f \in {"oid", "type", "gap_version", "tenant_id", "created_at_ms", "created_by",
               "body", "receipt_scheme", "signature_key_id", "signature"} :
        Knows(GapCdroEnvelope, "envelope", f)
  BY KnowsRules DEF GapCdroEnvelope
<1>3. /\ \A f \in {"subject_kind", "subject_oid", "initiator", "status", "initiated_at_ms",
                  "resolved_at_ms", "detail"} :
           Knows(validateGapDecisionReceiptBody, "body", f)
      /\ \A f \in {"actor_oid", "actor_type"} :
           Knows(validateGapDecisionReceiptBody, "initiator", f)
  BY KnowsRules DEF validateGapDecisionReceiptBody
<1>4. \A at, f : Knows(GapCdroEnvelope, at, f) \/ Knows(validateGapDecisionReceiptBody, at, f)
                => <<at, f>> \in Places[t]
  BY <1>1, KnowsRules, TablesOf, ShapesOf, BodiesOf, PlacesKnown DEF Rows
<1>5. \A p \in DOMAIN o : p \in Places[t]
  BY <1>2, <1>3, <1>4 DEF ReceiptForm
<1>6. \A p \in DOMAIN o : p[1] \in Live(o) /\ o[p] \in Kinds
  BY DEF ReceiptForm
<1> QED
  BY <1>5, <1>6 DEF Authored

LEMMA RevocationFits ==
  ASSUME NEW o, RevocationForm(o)
  PROVE  Fits(o, Shape["revocation_event"])
<1>1. /\ Given(o, "envelope", {"oid", "type", "gap_version"}, Listed)
      /\ Given(o, "envelope", {"tenant_id", "created_by"}, Str)
      /\ Given(o, "envelope", {"created_at_ms"}, isInteger)
      /\ Given(o, "envelope", {"body"}, isObject)
  BY KindsOf, GivenWithin DEF RevocationForm
<1>2. /\ Given(o, "body", {"target_kind"}, Listed)
      /\ Given(o, "body", {"target_oid", "reason"}, Str)
  BY KindsOf, GivenWithin DEF RevocationForm
<1>3. /\ Given(o, "body", {"required_level"}, Level)
      /\ Given(o, "body", {"provisional"}, isBoolean)
      /\ Given(o, "body", {"approvers"}, Objects)
      /\ Given(o, "body", {"effective_at_ms"}, Nullable(isNumber))
  BY DEF RevocationForm, Given, Level, isBoolean, Objects, Nullable, Null
<1>4. /\ \A p \in DOMAIN o : p[1] = "envelope" =>
           p[2] \notin {"signature", "signature_key_id", "supersedes"}
      /\ \A p \in DOMAIN o : p[1] = "body" =>
           p[2] \in {"target_kind", "target_oid", "reason", "required_level", "provisional",
                    "approvers", "effective_at_ms"}
  BY DEF RevocationForm
<1>5. "approvers" \notin Live(o) /\ "provisional_block_policy" \notin Live(o)
  BY DEF RevocationForm
<1>6. Fits(o, validateEnvelopeShape)
  BY <1>1, <1>4, FitsRules DEF validateEnvelopeShape
<1>7. Fits(o, validateRevocationEventBody)
  BY <1>2, <1>3, <1>4, <1>5, FitsRules DEF validateRevocationEventBody
<1> QED
  BY <1>6, <1>7, FitsRules, ShapesOf, BodiesOf, TypesListed

LEMMA RevocationAuthored ==
  ASSUME NEW o, RevocationForm(o)
  PROVE  Authored("revocation_event", o)
<1> DEFINE t == "revocation_event"
<1>1. t \in Types
  BY TypesListed
<1>2. \A f \in {"oid", "type", "gap_version", "tenant_id", "created_at_ms", "created_by",
               "body"} :
        Knows(validateEnvelopeShape, "envelope", f)
  BY KnowsRules DEF validateEnvelopeShape
<1>3. \A f \in {"target_kind", "target_oid", "reason", "required_level", "provisional",
               "approvers", "effective_at_ms"} :
        Knows(validateRevocationEventBody, "body", f)
  BY KnowsRules DEF validateRevocationEventBody
<1>4. \A at, f : \/ Knows(validateEnvelopeShape, at, f)
                \/ Knows(validateRevocationEventBody, at, f)
                => <<at, f>> \in Places[t]
  BY <1>1, KnowsRules, ShapesOf, BodiesOf, PlacesKnown DEF Rows
<1>5. \A p \in DOMAIN o : p \in Places[t]
  BY <1>2, <1>3, <1>4 DEF RevocationForm
<1>6. \A p \in DOMAIN o : p[1] \in Live(o) /\ o[p] \in Kinds
  BY DEF RevocationForm
<1> QED
  BY <1>5, <1>6 DEF Authored
-----------------------------------------------------------------------------
(* The specification *)

(* The inductive invariant: an object is one that an author makes, and a built one is
   still as its builder made it. *)
Built ==
  \/ type = "capability_invocation" /\ InvocationForm(object)
  \/ type = "decision_receipt" /\ ReceiptForm(object)
  \/ type = "revocation_event" /\ RevocationForm(object)
AuthoringInv ==
  /\ type \in Types /\ origin \in {"draft", "built"} /\ edits \in 0..MaxEdits[type]
  /\ Authored(type, object)
  /\ origin = "built" => Built

LEMMA InitInv ==
  ASSUME Init
  PROVE  AuthoringInv
<1>1. \A t \in Types : MaxEdits[t] \in Nat
  BY EditsAssumption
<1>2. CASE origin = "draft" /\ type \in Types /\ object \in {Complete(type), Minimal(type)}
  <2>1. Authored(type, Complete(type))
    BY <1>2, CompleteAuthored
  <2>2. Authored(type, Minimal(type))
    BY <1>2, <2>1, WithoutAuthored DEF Minimal
  <2>3. Authored(type, object)
    BY <1>2, <2>1, <2>2
  <2> QED
    BY <1>1, <1>2, <2>3 DEF Init, AuthoringInv
<1>3. CASE /\ origin = "built" /\ type = "capability_invocation"
           /\ \E tenant, actor, grant \in Text, now \in Time :
                object = build_invocation_envelope(tenant, actor, grant, now)
  <2>1. InvocationForm(object)
    BY <1>3, InvocationFormed
  <2>2. Authored(type, object) /\ type \in Types
    BY <1>3, <2>1, InvocationAuthored, TypesListed
  <2> QED
    BY <1>1, <1>3, <2>1, <2>2 DEF Init, AuthoringInv, Built
<1>4. CASE /\ origin = "built" /\ type = "decision_receipt"
           /\ \E subject, actor, tenant, creator \in Text, status \in DecisionStatus,
                 detail \in Text \cup {"absent"}, initiated, resolved \in Time :
                object = receipt(subject, actor, status, detail, tenant, creator, initiated,
                                 resolved)
  <2>1. ReceiptForm(object)
    BY <1>4, ReceiptFormed
  <2>2. Authored(type, object) /\ type \in Types
    BY <1>4, <2>1, ReceiptAuthored, TypesListed
  <2> QED
    BY <1>1, <1>4, <2>1, <2>2 DEF Init, AuthoringInv, Built
<1>5. CASE /\ origin = "built" /\ type = "revocation_event"
           /\ \E target, reason, tenant, creator \in Text, now \in Time :
                object = revokeGapObject(target, reason, tenant, creator, now)
  <2>1. RevocationForm(object)
    BY <1>5, RevocationFormed
  <2>2. Authored(type, object) /\ type \in Types
    BY <1>5, <2>1, RevocationAuthored, TypesListed
  <2> QED
    BY <1>1, <1>5, <2>1, <2>2 DEF Init, AuthoringInv, Built
<1> QED
  BY <1>2, <1>3, <1>4, <1>5 DEF Init

LEMMA NextInv ==
  ASSUME AuthoringInv, [Next]_vars
  PROVE  AuthoringInv'
<1> USE DEF AuthoringInv
<1>1. ASSUME Editable, NEW p \in Places[type], NEW kind \in Edits[type], Put(p, kind)
      PROVE  AuthoringInv'
  <2>1. kind \in Kinds
    BY EditsAssumption
  <2>2. CASE kind \in Containers
    <3>1. Authored(type, With(object, p, kind))
      BY <1>1, <2>1, <2>2, WithAuthored DEF Put
    <3> QED
      BY <1>1, <2>2, <3>1, EditsAssumption DEF Put, Editable
  <2>3. CASE kind \notin Containers
    <3> DEFINE w == Without(object, {p})
    <3>1. Authored(type, w)
      BY WithoutAuthored
    <3>2. p[1] \in Live(w)
      BY <1>1, WithoutKeeps DEF Put, Authored
    <3>3. p \notin DOMAIN w
      BY WithoutAttached DEF Authored
    <3>4. object' = With(w, p, kind)
      BY <1>1, <2>3 DEF Put
    <3> HIDE DEF w
    <3>5. Authored(type, With(w, p, kind))
      BY <1>1, <2>1, <3>1, <3>2, <3>3, WithAuthored
    <3> QED
      BY <1>1, <3>4, <3>5, EditsAssumption DEF Put, Editable
  <2> QED
    BY <2>2, <2>3
<1>2. ASSUME Editable, NEW p \in DOMAIN object, Drop(p)
      PROVE  AuthoringInv'
  <2>1. Authored(type, Without(object, {p}))
    BY WithoutAuthored
  <2> QED
    BY <1>2, <2>1, EditsAssumption DEF Drop, Editable
<1>3. CASE UNCHANGED vars
  BY <1>3 DEF vars, Built
<1> QED
  BY <1>1, <1>2, <1>3 DEF Next

LEMMA InvHolds == Spec => []AuthoringInv
  BY InitInv, NextInv, PTL DEF Spec

(* The objects that builders make and drafts as they are edited have fields only where
   something holds them: taking a field away, or putting something else in its place,
   takes away all that it held. *)
THEOREM TypeCorrect == Spec => []TypeOK
<1>1. AuthoringInv => TypeOK
  BY DEF AuthoringInv, TypeOK, Authored
<1> QED
  BY <1>1, InvHolds, PTL

(* Whatever an object holds, if the TypeScript SDK accepts it, the Python SDK refuses
   what the former passes on if and only if there is an integer of 10^21 or more in one
   of three fields: that it reads it as a float is all by which a table of validate.py
   asks for more than that of validate.ts. *)
THEOREM OnlyHugeRefused == Spec => []PythonRefusesOnlyHuge
<1> SUFFICES AuthoringInv => PythonRefusesOnlyHuge
  BY InvHolds, PTL
<1> SUFFICES ASSUME AuthoringInv, Fits(object, Shape[type]), type # "perimeter_declaration",
                    type = "pip_response" /\ <<"body", "args">> \in DOMAIN object =>
                      object[<<"body", "args">>] \in Nullable(isObject)
             PROVE  py_validate(type, Relayed(object)) <=>
                      \A p \in DOMAIN object \cap PythonInts : object[p] # "huge"
  BY DEF PythonRefusesOnlyHuge, validate
<1>1. type \in PyTypes
  BY DEF AuthoringInv, PyTypes
<1>2. ASSUME \A p \in DOMAIN object \cap PythonInts : object[p] # "huge"
      PROVE  py_validate(type, Relayed(object))
  BY <1>1, <1>2, FitsInPython DEF py_validate
<1>3. ASSUME NEW p \in DOMAIN object \cap PythonInts, object[p] = "huge"
      PROVE  ~py_validate(type, Relayed(object))
  <2>1. p \in Places[type] /\ p[1] \in Live(object)
    BY DEF AuthoringInv, Authored
  <2> QED
    BY <1>1, <1>3, <2>1, HugeRefused DEF py_validate
<1> QED
  BY <1>2, <1>3

(* What validate.ts has accepted may be cast to its interface: each member of it that is
   not named as unread is there, if it has to be, and of a kind the interface has. *)
THEOREM TypedOnceValid == Spec => []ValidIsTyped
<1>1. AuthoringInv => ValidIsTyped
  BY FitsTyped DEF AuthoringInv, ValidIsTyped, validate
<1> QED
  BY <1>1, InvHolds, PTL

(* No validator of validate.ts, but that of perimeter declarations, asks for a member
   that the interface leaves open. *)
THEOREM NothingElseRequired == Spec => []RequiresOnlyRequired
<1>1. AuthoringInv => RequiresOnlyRequired
  BY FitsRequired DEF AuthoringInv, RequiresOnlyRequired, validate
<1> QED
  BY <1>1, InvHolds, PTL

(* A valid object has a number with a fraction, which canonicalization refuses, in no
   field that its validator looks at, but for the two that take any number. *)
THEOREM HashableValid == Spec => []HashableOnceValid
<1>1. AuthoringInv => HashableOnceValid
  BY FractionsKnown DEF AuthoringInv, Authored, HashableOnceValid, validate
<1> QED
  BY <1>1, InvHolds, PTL

(* Both SDKs accept what build_invocation_envelope, receipt() and revokeGapObject make
   of any names, OIDs and times, save for the status that validate.ts lacks. *)
THEOREM BuiltAccepted == Spec => []BuiltObjectsPass
<1>1. ASSUME type = "capability_invocation", InvocationForm(object)
      PROVE  validate(type, object) /\ py_validate(type, object)
  <2>1. Fits(object, Shape[type])
    BY <1>1, InvocationFits
  <2>2. type \in PyTypes
    BY <1>1, TypesListed DEF PyTypes
  <2>3. Fits(Relayed(object), PyShape[type])
    BY <1>1, <2>1, <2>2, FitsInPython DEF InvocationForm
  <2>4. Fits(object, PyShape[type])
    BY <1>1, <2>3, NotRelayed DEF InvocationForm
  <2> QED
    BY <1>1, <2>1, <2>2, <2>4 DEF validate, py_validate
<1>2. ASSUME type = "decision_receipt", ReceiptForm(object)
      PROVE  /\ py_validate(type, object)
             /\ object[<<"body", "status">>] \notin RateLimited => validate(type, object)
  BY <1>2, ReceiptFits, ReceiptFitsPython DEF validate, py_validate
<1>3. ASSUME type = "revocation_event", RevocationForm(object)
      PROVE  validate(type, object) /\ py_validate(type, object)
  <2>1. Fits(object, Shape[type])
    BY <1>3, RevocationFits
  <2>2. type \in PyTypes
    BY <1>3, TypesListed DEF PyTypes
  <2>3. Fits(Relayed(object), PyShape[type])
    BY <1>3, <2>1, <2>2, FitsInPython DEF RevocationForm
  <2>4. Fits(object, PyShape[type])
    BY <1>3, <2>3, NotRelayed DEF RevocationForm
  <2> QED
    BY <1>3, <2>1, <2>2, <2>4 DEF validate, py_validate
<1>4. AuthoringInv => BuiltObjectsPass
  BY <1>1, <1>2, <1>3 DEF AuthoringInv, Built, BuiltObjectsPass
<1> QED
  BY <1>4, InvHolds, PTL

=============================================================================

------------------------- MODULE ClientSessionProofs -------------------------
(***************************************************************************)
(* Proofs about ClientSession, for any owners, callers and number of       *)
(* sessions.  ScopeInv adds to the three properties which block owns which *)
(* session and that an exit under way has closed an undisturbed one.       *)
(***************************************************************************)
EXTENDS ClientSession, TLAPS

OwnedOnce ==
  \A t, u \in Owners : mine[t] # NoSession /\ mine[t] = mine[u] => t = u

InsideOwns ==
  \A t \in Owners : mine[t] = NoSession <=> pc[t] = "outside"

NamedAreBorn ==
  /\ client # NoSession => session[client] # "unborn"
  /\ \A t \in Owners : mine[t] # NoSession => session[mine[t]] # "unborn"

ClosingClosed ==
  \A t \in Owners :
    pc[t] = "closing" /\ mine[t] \notin disturbed => session[mine[t]] = "closed"

ScopeInv ==
  /\ TypeOK
  /\ OwnedOnce /\ InsideOwns /\ NamedAreBorn /\ ClosingClosed
  /\ LeaksOnlyIfDisturbed /\ UndisturbedServes /\ NoUseAfterScope

LEMMA ScopeInit == Init => ScopeInv
  BY TasksAssumption, SessionsAssumption
  DEF Init, ScopeInv, TypeOK, OwnedOnce, InsideOwns, NamedAreBorn, ClosingClosed,
      LeaksOnlyIfDisturbed, UndisturbedServes, NoUseAfterScope, Raised, IsOpen,
      Tasks, Sessions

LEMMA NoSessionApart == NoSession \notin Sessions
  BY SessionsAssumption DEF Sessions

(* __aenter__: the new session is nobody else's, and the one it replaces is
   disturbed if it was open. *)
LEMMA EnterKeeps ==
  ASSUME ScopeInv, NEW t \in Owners, Enter(t)
  PROVE  ScopeInv'
<1> USE NoSessionApart DEF ScopeInv
<1> PICK s \in Sessions :
      /\ session[s] = "unborn"
      /\ session' = [session EXCEPT ![s] = "open"]
      /\ client' = s
      /\ mine' = [mine EXCEPT ![t] = s]
  BY DEF Enter
<1>1. /\ pc[t] = "outside"
      /\ pc' = [pc EXCEPT ![t] = "inside"]
      /\ last' = [last EXCEPT ![t] = "none"]
      /\ held' = held
      /\ disturbed' = disturbed \cup {r \in Sessions : r = client /\ IsOpen(r) /\ mine[t] # r}
  BY DEF Enter, Disturb
<1>2. t \in Tasks /\ mine[t] = NoSession
  BY <1>1 DEF Tasks, InsideOwns
<1>3. TypeOK'
  BY <1>1, <1>2 DEF TypeOK
<1>4. OwnedOnce' /\ InsideOwns' /\ NamedAreBorn'
  BY <1>1, <1>2 DEF TypeOK, OwnedOnce, InsideOwns, NamedAreBorn, Tasks
<1>5. ClosingClosed'
  BY <1>1, <1>2 DEF TypeOK, ClosingClosed, NamedAreBorn, Tasks
<1>6. LeaksOnlyIfDisturbed'
  BY <1>1, <1>2 DEF TypeOK, LeaksOnlyIfDisturbed
<1>7. UndisturbedServes'
  BY <1>1, <1>2 DEF TypeOK, UndisturbedServes, NamedAreBorn, InsideOwns, IsOpen, Raised, Tasks
<1>8. NoUseAfterScope'
  BY <1>1, <1>2 DEF TypeOK, NoUseAfterScope, IsOpen, Tasks
<1> QED
  BY <1>3, <1>4, <1>5, <1>6, <1>7, <1>8

(* What a block that is left leaves behind: its session is closed or disturbed. *)
LEMMA LeavingKeeps ==
  ASSUME ScopeInv, NEW t \in Owners, pc[t] # "outside", Left(t),
         client' \in {client, NoSession},
         session' = session, last' = last,
         disturbed \subseteq disturbed', disturbed' \subseteq Sessions,
         session[mine[t]] = "open" => mine[t] \in disturbed',
         client' = client => ~IsOpen(client),
         IsOpen(client) => client \in disturbed'
  PROVE  ScopeInv'
<1> USE NoSessionApart DEF ScopeInv
<1>1. /\ pc' = [pc EXCEPT ![t] = "outside"]
      /\ held' = [held EXCEPT ![t] = NoSession]
      /\ mine' = [mine EXCEPT ![t] = NoSession]
      /\ t \in Tasks
  BY DEF Left, Tasks
<1>2. ~(IsOpen(client)')
  BY DEF IsOpen
<1>3. TypeOK'
  BY <1>1 DEF TypeOK
<1>4. OwnedOnce' /\ InsideOwns' /\ NamedAreBorn'
  BY <1>1 DEF TypeOK, OwnedOnce, InsideOwns, NamedAreBorn, Tasks
<1>5. ClosingClosed'
  BY <1>1 DEF TypeOK, ClosingClosed, Tasks
<1>6. LeaksOnlyIfDisturbed'
  BY <1>1 DEF TypeOK, LeaksOnlyIfDisturbed
<1>7. UndisturbedServes'
  <2> SUFFICES ASSUME NEW u \in Owners, mine'[u] # NoSession, mine'[u] \notin disturbed'
               PROVE  /\ last'[u] \notin Raised
                      /\ pc'[u] # "closing" => client' = mine'[u] /\ IsOpen(client)'
                      /\ pc'[u] = "requesting" => held'[u] = mine'[u]
    BY DEF UndisturbedServes
  <2>1. u # t /\ mine'[u] = mine[u] /\ pc'[u] = pc[u] /\ held'[u] = held[u]
    BY <1>1 DEF TypeOK, Tasks
  <2>2. mine[u] # NoSession /\ mine[u] \notin disturbed
    BY <2>1
  <2>3. pc[u] # "closing" => client = mine[u] /\ IsOpen(client)
    BY <2>2 DEF UndisturbedServes
  <2>4. pc[u] = "closing"
    BY <2>1, <2>3
  <2> QED
    BY <2>1, <2>2, <2>4 DEF UndisturbedServes
<1>8. NoUseAfterScope'
  BY <1>2 DEF NoUseAfterScope
<1> QED
  BY <1>3, <1>4, <1>5, <1>6, <1>7, <1>8

(* __aexit__ up to its await *)
LEMMA BeginExitKeeps ==
  ASSUME ScopeInv, NEW t \in Owners, BeginExit(t)
  PROVE  ScopeInv'
<1> USE NoSessionApart
<1>1. pc[t] = "inside" /\ last' = last /\ t \in Tasks
  BY DEF BeginExit, Tasks
<1>2. mine[t] \in Sessions
  BY <1>1 DEF ScopeInv, TypeOK, InsideOwns
<1>3. CASE ~IsOpen(client)
  <2>1. mine[t] \in disturbed
    BY <1>1, <1>2, <1>3 DEF ScopeInv, UndisturbedServes
  <2>2. /\ Left(t) /\ session' = session /\ disturbed' = disturbed
        /\ client' \in {client, NoSession}
    BY <1>3 DEF BeginExit, IsOpen
  <2> QED
    BY <1>1, <1>3, <2>1, <2>2, LeavingKeeps DEF ScopeInv, TypeOK
<1>4. CASE IsOpen(client)
  <2> USE DEF ScopeInv
  <2>1. /\ session' = [session EXCEPT ![client] = "closed"]
        /\ held' = [held EXCEPT ![t] = client]
        /\ pc' = [pc EXCEPT ![t] = "closing"]
        /\ disturbed' = disturbed \cup {r \in Sessions : r = client /\ IsOpen(r) /\ mine[t] # r}
        /\ client' = client /\ mine' = mine
    BY <1>4 DEF BeginExit, Disturb, IsOpen
  <2>2. client \in Sessions
    BY <1>4 DEF IsOpen, TypeOK
  <2>3. TypeOK'
    BY <1>1, <2>1, <2>2 DEF TypeOK
  <2>4. OwnedOnce' /\ InsideOwns' /\ NamedAreBorn'
    BY <1>1, <2>1, <2>2 DEF TypeOK, OwnedOnce, InsideOwns, NamedAreBorn, Tasks
  <2>5. ClosingClosed'
    BY <1>1, <1>2, <2>1, <2>2 DEF TypeOK, ClosingClosed, UndisturbedServes, Tasks
  <2>6. LeaksOnlyIfDisturbed'
    BY <2>1, <2>2 DEF TypeOK, LeaksOnlyIfDisturbed
  <2>7. UndisturbedServes'
    BY <1>1, <1>2, <1>4, <2>1, <2>2 DEF TypeOK, UndisturbedServes, OwnedOnce, Tasks, IsOpen
  <2>8. NoUseAfterScope'
    BY <2>1, <2>2 DEF TypeOK, NoUseAfterScope, IsOpen
  <2> QED
    BY <2>3, <2>4, <2>5, <2>6, <2>7, <2>8
<1> QED
  BY <1>3, <1>4

(* The end of __aexit__: the session in the field, if open, is another block's. *)
LEMMA EndExitKeeps ==
  ASSUME ScopeInv, NEW t \in Owners, EndExit(t)
  PROVE  ScopeInv'
<1> USE NoSessionApart
<1>1. /\ pc[t] = "closing" /\ client' = NoSession /\ session' = session /\ last' = last
      /\ Left(t)
      /\ disturbed' = disturbed \cup {r \in Sessions : r = client /\ IsOpen(r) /\ mine[t] # r}
  BY DEF EndExit, Disturb
<1>2. session[mine[t]] = "open" => mine[t] \in disturbed
  BY <1>1 DEF ScopeInv, ClosingClosed
<1>3. IsOpen(client) => client \in disturbed'
  <2> SUFFICES ASSUME IsOpen(client) PROVE client \in disturbed'
    OBVIOUS
  <2>1. PICK u \in Owners : mine[u] = client /\ pc[u] \in {"inside", "requesting"}
    BY DEF ScopeInv, NoUseAfterScope
  <2>2. u # t /\ client # NoSession /\ client \in Sessions
    BY <1>1, <2>1 DEF IsOpen, ScopeInv, TypeOK
  <2>3. mine[t] # client
    BY <2>1, <2>2 DEF ScopeInv, OwnedOnce
  <2> QED
    BY <1>1, <2>2, <2>3
<1> QED
  BY <1>1, <1>2, <1>3, LeavingKeeps DEF ScopeInv, TypeOK, IsOpen

(* An exit that fails leaves the field as it is; if it holds an open session,
   that session's block goes on. *)
LEMMA ExitFailsKeeps ==
  ASSUME ScopeInv, NEW t \in Owners, ExitFails(t)
  PROVE  ScopeInv'
<1> USE NoSessionApart DEF ScopeInv
<1>1. /\ pc[t] = "closing" /\ t \in Tasks
      /\ pc' = [pc EXCEPT ![t] = "outside"]
      /\ held' = [held EXCEPT ![t] = NoSession]
      /\ mine' = [mine EXCEPT ![t] = NoSession]
      /\ client' = client /\ session' = session /\ disturbed' = disturbed /\ last' = last
  BY DEF ExitFails, Left, Tasks
<1>2. TypeOK'
  BY <1>1 DEF TypeOK
<1>3. OwnedOnce' /\ InsideOwns' /\ NamedAreBorn' /\ ClosingClosed'
  BY <1>1 DEF TypeOK, OwnedOnce, InsideOwns, NamedAreBorn, ClosingClosed, Tasks
<1>4. LeaksOnlyIfDisturbed'
  BY <1>1 DEF TypeOK, LeaksOnlyIfDisturbed, ClosingClosed
<1>5. UndisturbedServes'
  BY <1>1 DEF TypeOK, UndisturbedServes, IsOpen, Tasks
<1>6. NoUseAfterScope'
  BY <1>1 DEF TypeOK, NoUseAfterScope, IsOpen, Tasks
<1> QED
  BY <1>2, <1>3, <1>4, <1>5, <1>6

(* A request changes only what its own task waits for and remembers. *)
LEMMA RequestKeeps ==
  ASSUME ScopeInv, NEW t \in Tasks, Request(t)
  PROVE  ScopeInv'
<1> USE NoSessionApart DEF ScopeInv
<1>1. client' = client /\ session' = session /\ mine' = mine /\ disturbed' = disturbed
  BY DEF Request, Send, Answered, CutOff, Abandoned, Returned
<1>2. TypeOK'
  BY <1>1 DEF TypeOK, Request, Send, Answered, CutOff, Abandoned, Returned, IsOpen, Raised
<1>3. \A u \in Tasks : u # t => pc'[u] = pc[u] /\ held'[u] = held[u] /\ last'[u] = last[u]
  BY <1>1 DEF TypeOK, Request, Send, Answered, CutOff, Abandoned, Returned
<1>4. t \in Owners => pc[t] \in {"inside", "requesting"} /\ pc'[t] \in {"inside", "requesting"}
  BY DEF TypeOK, Request, Send, ReadyToSend, Answered, CutOff, Abandoned, Returned
<1>5. OwnedOnce' /\ NamedAreBorn' /\ LeaksOnlyIfDisturbed'
  BY <1>1 DEF OwnedOnce, NamedAreBorn, LeaksOnlyIfDisturbed
<1>6. InsideOwns' /\ ClosingClosed'
  BY <1>1, <1>3, <1>4 DEF InsideOwns, ClosingClosed, Tasks
<1>7. NoUseAfterScope'
  BY <1>1, <1>3, <1>4 DEF NoUseAfterScope, IsOpen, Tasks
<1>8. UndisturbedServes'
  <2> SUFFICES ASSUME NEW u \in Owners, mine[u] # NoSession, mine[u] \notin disturbed
               PROVE  /\ last'[u] \notin Raised
                      /\ pc'[u] # "closing" => client = mine[u] /\ IsOpen(client)
                      /\ pc'[u] = "requesting" => held'[u] = mine[u]
    BY <1>1 DEF UndisturbedServes, IsOpen
  <2>1. CASE u # t
    BY <1>3, <2>1 DEF UndisturbedServes, Tasks
  <2>2. CASE u = t
    <3>1. client = mine[t] /\ IsOpen(client) /\ last[t] \notin Raised
          /\ (pc[t] = "requesting" => held[t] = mine[t])
      BY <1>4, <2>2 DEF UndisturbedServes
    <3>2. CASE Send(t)
      BY <2>2, <3>1, <3>2 DEF Send, TypeOK
    <3>3. CASE Answered(t) \/ CutOff(t) \/ Abandoned(t)
      <4>1. pc'[t] = "inside" /\ last'[t] \in {"answered", "none"}
        BY <2>2, <3>1, <3>3 DEF Answered, CutOff, Abandoned, Returned, TypeOK
      <4> QED
        BY <2>2, <3>1, <4>1 DEF Raised
    <3> QED
      BY <3>2, <3>3 DEF Request
  <2> QED
    BY <2>1, <2>2
<1> QED
  BY <1>2, <1>5, <1>6, <1>7, <1>8

LEMMA ScopeInductive == Spec => []ScopeInv
<1>1. ScopeInv /\ [Next]_vars => ScopeInv'
  <2> SUFFICES ASSUME ScopeInv, [Next]_vars PROVE ScopeInv'
    OBVIOUS
  <2>1. ASSUME NEW t \in Owners, Enter(t) \/ BeginExit(t) \/ EndExit(t) \/ ExitFails(t)
        PROVE  ScopeInv'
    BY <2>1, EnterKeeps, BeginExitKeeps, EndExitKeeps, ExitFailsKeeps
  <2>2. ASSUME NEW t \in Tasks, Request(t) PROVE ScopeInv'
    BY <2>2, RequestKeeps
  <2>3. CASE UNCHANGED vars
    BY <2>3
    DEF vars, ScopeInv, TypeOK, OwnedOnce, InsideOwns, NamedAreBorn, ClosingClosed,
        LeaksOnlyIfDisturbed, UndisturbedServes, NoUseAfterScope, IsOpen
  <2> QED
    BY <2>1, <2>2, <2>3 DEF Next
<1> QED
  BY ScopeInit, <1>1, PTL DEF Spec

-----------------------------------------------------------------------------

(* The state of a client is well typed, however its blocks overlap
   (GapClient). *)
THEOREM SessionTypes == Spec => []TypeOK
<1>1. ScopeInv => TypeOK
  BY DEF ScopeInv
<1> QED
  BY ScopeInductive, <1>1, PTL

(* Blocks that take turns leak no session (__aenter__, __aexit__). *)
THEOREM TurnsLeakNothing == Spec => []LeaksOnlyIfDisturbed
<1>1. ScopeInv => LeaksOnlyIfDisturbed
  BY DEF ScopeInv
<1> QED
  BY ScopeInductive, <1>1, PTL

(* A block nobody disturbs is served on its own session throughout
   (_require_client, _post, _get). *)
THEOREM BlocksServed == Spec => []UndisturbedServes
<1>1. ScopeInv => UndisturbedServes
  BY DEF ScopeInv
<1> QED
  BY ScopeInductive, <1>1, PTL

(* No request starts on a session whose block has been left (__aexit__). *)
THEOREM RequestsInScope == Spec => []NoUseAfterScope
<1>1. ScopeInv => NoUseAfterScope
  BY DEF ScopeInv
<1> QED
  BY ScopeInductive, <1>1, PTL
=============================================================================

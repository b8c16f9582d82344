---------------------------- MODULE ClientSession ----------------------------
(***************************************************************************)
(* One GapClient shared by asyncio tasks (python/synoi_gap/client.py).     *)
(* Owners run `async with client` blocks, each opening an httpx session    *)
(* into the one field `_client`; callers only send requests, as the        *)
(* governance hook does.  A step is what a task does between two awaits,   *)
(* so blocks of several owners overlap in every order.                     *)
(*                                                                         *)
(* Of httpx: AsyncClient.aclose marks the session closed before it first   *)
(* suspends and is done at once on a session already closed, and a request *)
(* on a closed session raises.                                             *)
(***************************************************************************)
EXTENDS Naturals

CONSTANTS
  Owners,       \* tasks that enter the client
  Callers,      \* tasks that use it while an owner has it open
  NoSession,    \* _client is None
  MaxSessions   \* bound on the sessions opened

Tasks == Owners \cup Callers
Sessions == 1..MaxSessions

ASSUME TasksAssumption == Owners \cap Callers = {}
ASSUME SessionsAssumption == MaxSessions \in Nat /\ NoSession \notin Nat

VARIABLES
  client,     \* GapClient._client
  session,    \* what has become of each httpx session
  pc,         \* where each task stands
  held,       \* the session a task's await is about: the local `client` of a
              \* request, the receiver of aclose
  mine,       \* history: the session opened by the block a task is in
  disturbed,  \* history: sessions replaced, closed or dropped by another block
  last        \* history: how the last request of a task's block ended

vars == <<client, session, pc, held, mine, disturbed, last>>

Raised == {"not_open", "is_closed", "cut_off"}

TypeOK ==
  /\ client \in Sessions \cup {NoSession}
  /\ session \in [Sessions -> {"unborn", "open", "closed"}]
  /\ pc \in [Tasks -> {"outside", "inside", "requesting", "closing"}]
  /\ held \in [Tasks -> Sessions \cup {NoSession}]
  /\ mine \in [Owners -> Sessions \cup {NoSession}]
  /\ disturbed \subseteq Sessions
  /\ last \in [Tasks -> {"none", "answered"} \cup Raised]

Init ==
  /\ client = NoSession
  /\ session = [s \in Sessions |-> "unborn"]
  /\ pc = [t \in Tasks |-> "outside"]
  /\ held = [t \in Tasks |-> NoSession]
  /\ mine = [t \in Owners |-> NoSession]
  /\ disturbed = {}
  /\ last = [t \in Tasks |-> "none"]

-----------------------------------------------------------------------------
(* async with *)

IsOpen(s) == s # NoSession /\ session[s] = "open"

(* A step of t's block that replaces, closes or drops the field's session
   disturbs it if another block opened it and it was still open. *)
Disturb(t) ==
  disturbed' = disturbed \cup {s \in Sessions : s = client /\ IsOpen(s) /\ mine[t] # s}

(* mutant: a session found in the field is used again, open or not *)
EnterReusing(t) ==
  /\ pc[t] = "outside"
  /\ IF client # NoSession
     THEN /\ mine' = [mine EXCEPT ![t] = client]
          /\ UNCHANGED <<client, session, disturbed>>
     ELSE \E s \in Sessions :
            /\ session[s] = "unborn"
            /\ session' = [session EXCEPT ![s] = "open"]
            /\ client' = s
            /\ mine' = [mine EXCEPT ![t] = s]
            /\ UNCHANGED disturbed
  /\ pc' = [pc EXCEPT ![t] = "inside"]
  /\ last' = [last EXCEPT ![t] = "none"]
  /\ UNCHANGED held

(* __aenter__: whatever the field held is overwritten. *)
Enter(t) ==
  /\ pc[t] = "outside"
  /\ \E s \in Sessions :
       /\ session[s] = "unborn"
       /\ \A r \in Sessions : r < s => session[r] # "unborn"
       /\ session' = [session EXCEPT ![s] = "open"]
       /\ client' = s
       /\ mine' = [mine EXCEPT ![t] = s]
  /\ Disturb(t)
  /\ pc' = [pc EXCEPT ![t] = "inside"]
  /\ last' = [last EXCEPT ![t] = "none"]
  /\ UNCHANGED held

Left(t) ==
  /\ pc' = [pc EXCEPT ![t] = "outside"]
  /\ held' = [held EXCEPT ![t] = NoSession]
  /\ mine' = [mine EXCEPT ![t] = NoSession]

(* mutant: the exit forgets the session without closing it *)
BeginExitUnclosed(t) ==
  /\ pc[t] = "inside"
  /\ client' = NoSession
  /\ Left(t)
  /\ UNCHANGED <<session, disturbed, last>>

(* __aexit__ up to its await.  Without a session there is nothing to do; a
   session already closed is dropped without a pause. *)
BeginExit(t) ==
  /\ pc[t] = "inside"
  /\ \/ /\ client = NoSession
        /\ Left(t)
        /\ UNCHANGED <<client, session, disturbed>>
     \/ /\ client # NoSession /\ ~IsOpen(client)
        /\ client' = NoSession
        /\ Left(t)
        /\ UNCHANGED <<session, disturbed>>
     \/ /\ IsOpen(client)
        /\ session' = [session EXCEPT ![client] = "closed"]
        /\ held' = [held EXCEPT ![t] = client]
        /\ pc' = [pc EXCEPT ![t] = "closing"]
        /\ Disturb(t)
        /\ UNCHANGED <<client, mine>>
  /\ UNCHANGED last

(* mutant: the field goes back to a session opened earlier *)
EndExitRestoring(t) ==
  /\ pc[t] = "closing"
  /\ \/ \E s \in Sessions : IsOpen(s) /\ client' = s
     \/ (\A s \in Sessions : ~IsOpen(s)) /\ client' = NoSession
  /\ Left(t)
  /\ UNCHANGED <<session, disturbed, last>>

(* The rest of __aexit__: the field is cleared, whatever it holds by now. *)
EndExit(t) ==
  /\ pc[t] = "closing"
  /\ client' = NoSession
  /\ Disturb(t)
  /\ Left(t)
  /\ UNCHANGED <<session, last>>

(* aclose raises or is cancelled: the field keeps the closed session. *)
ExitFails(t) ==
  /\ pc[t] = "closing"
  /\ Left(t)
  /\ UNCHANGED <<client, session, disturbed, last>>

-----------------------------------------------------------------------------
(* Requests: every method of the client is one _post or one _get. *)

ReadyToSend(t) == IF t \in Owners THEN pc[t] = "inside" ELSE pc[t] = "outside"

(* _require_client, and httpx's own check of the session taken from it. *)
Send(t) ==
  /\ ReadyToSend(t)
  /\ \/ /\ IsOpen(client)
        /\ pc' = [pc EXCEPT ![t] = "requesting"]
        /\ held' = [held EXCEPT ![t] = client]
        /\ UNCHANGED last
     \/ /\ ~IsOpen(client)
        /\ last' = [last EXCEPT ![t] = IF client = NoSession THEN "not_open" ELSE "is_closed"]
        /\ UNCHANGED <<pc, held>>
  /\ UNCHANGED <<client, session, mine, disturbed>>

Returned(t, how) ==
  /\ pc' = [pc EXCEPT ![t] = IF t \in Owners THEN "inside" ELSE "outside"]
  /\ held' = [held EXCEPT ![t] = NoSession]
  /\ last' = [last EXCEPT ![t] = how]
  /\ UNCHANGED <<client, session, mine, disturbed>>

(* The await of a request ends: on an open session with an answer (an error
   status is one), on one closed meanwhile also by losing its connection. *)
Answered(t) == pc[t] = "requesting" /\ Returned(t, "answered")
CutOff(t) == pc[t] = "requesting" /\ ~IsOpen(held[t]) /\ Returned(t, "cut_off")

(* mutant: an exception that nobody has a name for *)
AbandonedElsewhere(t) == pc[t] = "requesting" /\ Returned(t, "cancelled")

(* The request times out, or its caller is cancelled. *)
Abandoned(t) == pc[t] = "requesting" /\ Returned(t, "none")

Request(t) == Send(t) \/ Answered(t) \/ CutOff(t) \/ Abandoned(t)

Next ==
  \/ \E t \in Owners : Enter(t) \/ BeginExit(t) \/ EndExit(t) \/ ExitFails(t)
  \/ \E t \in Tasks : Request(t)

Spec == Init /\ [][Next]_vars

-----------------------------------------------------------------------------
(* Properties *)

(* A session that outlives its block unclosed was replaced by another block
   while it was open, or dropped by the end of another block's exit: blocks
   that take turns close what they open, also after an exit that failed
   (__aenter__, __aexit__). *)
LeaksOnlyIfDisturbed ==
  \A s \in Sessions :
    session[s] = "open" /\ (\A t \in Owners : mine[t] # s) => s \in disturbed

(* Until another block gets at its session, a block's requests go out on the
   session it opened, and none of them raises for want of an open session,
   whatever earlier blocks left in the field (_require_client, _post, _get). *)
UndisturbedServes ==
  \A t \in Owners :
    mine[t] # NoSession /\ mine[t] \notin disturbed =>
      /\ last[t] \notin Raised
      /\ pc[t] # "closing" => client = mine[t] /\ IsOpen(client)
      /\ pc[t] = "requesting" => held[t] = mine[t]

(* No request starts on a session whose block has been left: the field holds
   an open session only within the block that opened it, however the blocks
   overlap and whichever of their exits fail (__aexit__). *)
NoUseAfterScope ==
  IsOpen(client) =>
    \E t \in Owners : mine[t] = client /\ pc[t] \in {"inside", "requesting"}
=============================================================================

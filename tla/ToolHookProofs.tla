--------------------------- MODULE ToolHookProofs ---------------------------
(***************************************************************************)
(* Proofs about ToolHook, for any number of calls, any deadline and poll   *)
(* interval, and any gateway dialect that HonestGateway admits.            *)
(*                                                                         *)
(* Five invariants, each inductive relative to those before it:            *)
(*   TypeInv    types, and that a polling call has a deadline;             *)
(*   Awake      that no sleep is left over while a call reads;             *)
(*   HonestInv  what an answer on its way says about the ruling;           *)
(*   CauseInv   what a call was told before it was blocked;                *)
(*   EarlyInv   that a poll is left after an early approval.               *)
(***************************************************************************)
EXTENDS ToolHook, TLAPS

(* TypeOK is not inductive alone: Resolve copies left[c] into slack[c]. *)
DeadlineSet == \A c \in Calls : Polling(c) => left[c] \in 0..Timeout

TypeInv == TypeOK /\ DeadlineSet

(* A gateway rules once on each POST, an answer is on its way only to a call
   that waits for one, and the answers that end in True agree with the
   ruling.  The ruling may have moved on since a "deferred" was sent. *)
AskedUnruled ==
  \A c \in Calls :
    /\ c \in asked => ruling[c] = "none"
    /\ pc[c] = "idle" => c \notin asked /\ ruling[c] = "none"

AnswersHonest ==
  \A c \in Calls :
    /\ reply[c] # "none" => pc[c] \in {"invoking", "reading"}
    /\ pc[c] = "invoking" /\ reply[c] = "allowed" => ruling[c] = "allow"
    /\ pc[c] = "reading" /\ reply[c] = "approved" => ruling[c] = "approved"

HonestInv == AskedUnruled /\ AnswersHonest /\ RunsOnlyIfGranted

(* Until it polls a call has no deadline; while it polls it has not heard yes. *)
NotYetTold ==
  \A c \in Calls :
    /\ pc[c] \in {"idle", "invoking"} => left[c] = NoDeadline
    /\ Polling(c) => heard[c] # "approved"

CauseInv == NotYetTold /\ BlockedForCause

(* Where a call stands once a person approved it early: it is about to poll
   again before its deadline, or about to hear of the approval. *)
OnCourse(c) ==
  /\ pc[c] # "blocked"
  /\ pc[c] = "sleeping" => left[c] > nap[c]
  /\ pc[c] = "reading" =>
       /\ left[c] > 0
       /\ \/ reply[c] \in {"none", "approved"}
          \/ reply[c] \notin {"denied", "expired"} /\ left[c] > Interval

(* A POST that was answered is no longer under way, and a call that the gateway
   held has the answer it gave then. *)
HeldAnswer ==
  \A c \in Calls :
    /\ Polling(c) \/ reply[c] # "none" => c \notin asked
    /\ pc[c] = "invoking" /\ ruling[c] \in {"hold", "approved", "rejected", "expired"}
         => reply[c] \in AskReplies["hold"]
    /\ pc[c] = "reading" /\ ruling[c] = "hold"
         => reply[c] \in ReadReplies["hold"] \cup {"none"}

SlackMeansApproved == \A c \in Calls : slack[c] > 0 => ruling[c] = "approved"

EarlyInv ==
  /\ HeldAnswer
  /\ SlackMeansApproved
  /\ PollableDialect /\ open =>
       \A c \in Prompt :
         slack[c] > Interval =>
           /\ OnCourse(c)
           /\ pc[c] = "invoking" => Timeout > Interval

-----------------------------------------------------------------------------
(* Types *)

LEMMA InitTypes == Init => TypeInv
  BY TimesAssumption
  DEF Init, TypeInv, TypeOK, DeadlineSet, Polling, Rulings, NoDeadline

LEMMA NextTypes == TypeInv /\ [Next]_vars => TypeInv'
<1> SUFFICES ASSUME TypeInv, [Next]_vars PROVE TypeInv'
  OBVIOUS
<1> USE SetsAssumption, TimesAssumption
    DEF TypeInv, TypeOK, DeadlineSet, Polling, Awaiting, Returned, Ran, NoDeadline
<1>1. ASSUME NEW c \in Calls, Start(c) PROVE TypeInv'
  BY <1>1 DEF Start, InvokeRaises, Verdict, GoTo
<1>2. ASSUME NEW c \in Calls, TakeAskReply(c) PROVE TypeInv'
  BY <1>2 DEF TakeAskReply, InvokeRaises, PollTop, Verdict, GoTo
<1>3. ASSUME NEW c \in Calls, TakeReadReply(c) PROVE TypeInv'
  BY <1>3 DEF TakeReadReply, Sleep, Verdict, GoTo
<1>4. ASSUME NEW c \in Calls, RequestFails(c) PROVE TypeInv'
  BY <1>4 DEF RequestFails, InvokeRaises, Sleep, Verdict, GoTo
<1>5. ASSUME NEW c \in Calls, Wake(c) PROVE TypeInv'
  BY <1>5 DEF Wake, PollTop, GoTo
<1>6. ASSUME NEW c \in Calls, Cancel(c) PROVE TypeInv'
  BY <1>6 DEF Cancel, GoTo
<1>7. ASSUME NEW c \in Calls, ToolEnds(c) PROVE TypeInv'
  BY <1>7 DEF ToolEnds, GoTo
<1>8. ASSUME NEW c \in Calls, Decide(c) PROVE TypeInv'
  BY <1>8, HonestGateway DEF Decide, Rulings
<1>9. ASSUME NEW c \in Calls, LoseAsk(c) PROVE TypeInv'
  BY <1>9 DEF LoseAsk
<1>10. ASSUME NEW c \in Calls, AnswerRead(c) PROVE TypeInv'
  BY <1>10, HonestGateway DEF AnswerRead
<1>11. ASSUME NEW c \in Calls, Resolve(c) PROVE TypeInv'
  BY <1>11 DEF Resolve, Rulings
<1>12. ASSUME CloseSession PROVE TypeInv'
  BY <1>12 DEF CloseSession
<1>13. ASSUME Tick PROVE TypeInv'
  BY <1>13 DEF Tick, Less
<1>14. ASSUME UNCHANGED vars PROVE TypeInv'
  BY <1>14 DEF vars
<1> QED
  BY <1>1, <1>2, <1>3, <1>4, <1>5, <1>6, <1>7, <1>8, <1>9, <1>10, <1>11,
     <1>12, <1>13, <1>14 DEF Next, Task, Gateway

(* Type correctness, and that every polling call has a deadline. *)
THEOREM TypeCorrect == Spec => []TypeOK
<1>1. TypeInv => TypeOK
  BY DEF TypeInv
<1> QED
  BY InitTypes, NextTypes, <1>1, PTL DEF Spec

-----------------------------------------------------------------------------
(* Polling runs down *)

(* While a call reads no sleep is left over from the round before. *)
Awake == \A c \in Calls : pc[c] = "reading" => nap[c] = 0

LEMMA InitAwake == Init => Awake
  BY DEF Init, Awake

LEMMA NextAwake == TypeInv /\ Awake /\ [Next]_vars => Awake'
<1> SUFFICES ASSUME TypeInv, Awake, [Next]_vars PROVE Awake'
  OBVIOUS
<1> USE DEF TypeInv, TypeOK, Awake
<1>1. ASSUME NEW c \in Calls, Start(c) \/ TakeAskReply(c) PROVE Awake'
  BY <1>1 DEF Start, TakeAskReply, InvokeRaises, PollTop, Verdict, GoTo
<1>2. ASSUME NEW c \in Calls, TakeReadReply(c) PROVE Awake'
  BY <1>2 DEF TakeReadReply, Sleep, Verdict, GoTo
<1>3. ASSUME NEW c \in Calls, RequestFails(c) PROVE Awake'
  BY <1>3 DEF RequestFails, InvokeRaises, Sleep, Verdict, GoTo
<1>4. ASSUME NEW c \in Calls, Wake(c) PROVE Awake'
  BY <1>4 DEF Wake, PollTop, GoTo
<1>5. ASSUME NEW c \in Calls, Cancel(c) \/ ToolEnds(c) PROVE Awake'
  BY <1>5 DEF Cancel, ToolEnds, GoTo
<1>6. ASSUME NEW c \in Calls, Gateway(c) PROVE Awake'
  BY <1>6 DEF Gateway, Decide, LoseAsk, AnswerRead, Resolve
<1>7. ASSUME CloseSession \/ UNCHANGED vars PROVE Awake'
  BY <1>7 DEF CloseSession, vars
<1>8. ASSUME Tick PROVE Awake'
  BY <1>8 DEF Tick, Less
<1> QED
  BY <1>1, <1>2, <1>3, <1>4, <1>5, <1>6, <1>7, <1>8 DEF Next, Task

LEMMA StepRunsDown == TypeInv /\ Awake /\ [Next]_vars => \A c \in Calls : RunsDown(c)
<1> SUFFICES ASSUME TypeInv, Awake, [Next]_vars, NEW c \in Calls,
                    Interval > 0, Polling(c), Polling(c)'
             PROVE  \/ Rest(c)' < Rest(c)
                    \/ Rest(c)' = Rest(c) /\ Stage(c)' < Stage(c)
                    \/ Rest(c)' = Rest(c) /\ UNCHANGED <<pc[c], reply[c], nap[c]>>
  BY DEF RunsDown
<1> DEFINE Same == UNCHANGED <<pc[c], reply[c], nap[c], left[c]>>
           Down == \/ Rest(c)' < Rest(c)
                   \/ Rest(c)' = Rest(c) /\ Stage(c)' < Stage(c)
<1> USE TimesAssumption DEF Polling
<1>1. /\ pc[c] \in {"reading", "sleeping"} /\ pc'[c] \in {"reading", "sleeping"}
      /\ left[c] \in Nat /\ nap[c] \in Nat /\ left'[c] \in Nat /\ nap'[c] \in Nat
      /\ Interval \in Nat
  BY NextTypes DEF TypeInv, TypeOK, DeadlineSet
<1>2. /\ pc \in [Calls -> {"idle"} \cup Awaiting \cup Returned]
      /\ left \in [Calls -> {NoDeadline} \cup 0..Timeout] /\ nap \in [Calls -> 0..Interval]
      /\ reply \in [Calls -> Statuses \cup {"none"}]
  BY DEF TypeInv, TypeOK
<1>3. Same => Rest(c)' = Rest(c) /\ UNCHANGED <<pc[c], reply[c], nap[c]>>
  BY DEF Rest
<1>4. ASSUME NEW d \in Calls, d # c, Task(d) \/ Gateway(d) PROVE Same
  <2>1. CASE Start(d)
    BY <1>2, <1>4, <2>1 DEF Start, InvokeRaises, Verdict, GoTo
  <2>2. CASE TakeAskReply(d)
    BY <1>2, <1>4, <2>2 DEF TakeAskReply, InvokeRaises, PollTop, Verdict, GoTo
  <2>3. CASE TakeReadReply(d)
    BY <1>2, <1>4, <2>3 DEF TakeReadReply, Sleep, Verdict, GoTo
  <2>4. CASE RequestFails(d)
    BY <1>2, <1>4, <2>4 DEF RequestFails, InvokeRaises, Sleep, Verdict, GoTo
  <2>5. CASE Wake(d)
    BY <1>2, <1>4, <2>5 DEF Wake, PollTop, GoTo
  <2>6. CASE Cancel(d) \/ ToolEnds(d)
    BY <1>2, <1>4, <2>6 DEF Cancel, ToolEnds, GoTo
  <2>7. CASE Gateway(d)
    BY <1>2, <1>4, <2>7 DEF Gateway, Decide, LoseAsk, AnswerRead, Resolve
  <2> QED
    BY <1>4, <2>1, <2>2, <2>3, <2>4, <2>5, <2>6, <2>7 DEF Task
(* A GET has ended without a verdict. *)
<1>5. ASSUME pc[c] = "reading", Sleep(c), left' = left PROVE Down
  <2>1. pc'[c] = "sleeping" /\ nap'[c] = Interval
    BY <1>2, <1>5 DEF Sleep, GoTo
  <2> QED
    BY <1>1, <1>5, <2>1 DEF Rest
<1>6. ASSUME Wake(c) PROVE Down
  <2>1. pc[c] = "sleeping" /\ nap[c] = 0 /\ left' = left
    BY <1>6 DEF Wake
  <2>2. left[c] # 0
    BY <1>1, <1>2, <1>6, <2>1 DEF Wake, PollTop, GoTo
  <2>3. CASE open
    <3>1. pc'[c] = "reading"
      BY <1>1, <1>2, <1>6, <2>2, <2>3 DEF Wake, PollTop, GoTo
    <3> QED
      BY <1>1, <2>1, <2>2, <3>1 DEF Rest, Stage
  <2>4. CASE ~open
    <3>1. pc'[c] = "sleeping" /\ nap'[c] = Interval
      BY <1>1, <1>2, <1>6, <2>2, <2>4 DEF Wake, PollTop, GoTo
    <3> QED
      BY <1>1, <2>1, <2>2, <3>1 DEF Rest
  <2> QED
    BY <2>3, <2>4
<1>7. ASSUME Task(c) PROVE Down
  <2>1. CASE TakeReadReply(c)
    BY <1>1, <1>2, <1>5, <2>1 DEF TakeReadReply, Verdict, GoTo
  <2>2. CASE RequestFails(c)
    BY <1>1, <1>5, <2>2 DEF RequestFails
  <2>3. CASE Wake(c)
    BY <1>6, <2>3
  <2>4. CASE Start(c) \/ TakeAskReply(c) \/ ToolEnds(c)
    BY <1>1, <2>4 DEF Start, TakeAskReply, ToolEnds
  <2>5. CASE Cancel(c)
    BY <1>1, <1>2, <2>5 DEF Cancel, GoTo
  <2> QED
    BY <1>7, <2>1, <2>2, <2>3, <2>4, <2>5 DEF Task
<1>8. ASSUME Gateway(c) PROVE Same \/ Down
  <2>1. CASE AnswerRead(c)
    <3>1. /\ pc[c] = "reading" /\ reply[c] = "none" /\ pc' = pc /\ left' = left
          /\ reply'[c] \in Statuses
      <4>1. PICK s \in ReadReplies[ruling[c]] : reply' = [reply EXCEPT ![c] = s]
        BY <2>1 DEF AnswerRead
      <4>2. s \in Statuses
        BY HonestGateway DEF TypeInv, TypeOK
      <4> QED
        BY <1>2, <2>1, <4>1, <4>2 DEF AnswerRead
    <3>2. reply'[c] # "none"
      BY <3>1, SetsAssumption
    <3> QED
      BY <1>1, <3>1, <3>2 DEF Rest, Stage
  <2>2. CASE Decide(c)
    BY <1>1, <2>2 DEF Decide
  <2>3. CASE LoseAsk(c) \/ Resolve(c)
    BY <2>3 DEF LoseAsk, Resolve
  <2> QED
    BY <1>8, <2>1, <2>2, <2>3 DEF Gateway
<1>9. ASSUME Tick
      PROVE  Down \/ (Rest(c)' = Rest(c) /\ UNCHANGED <<pc[c], reply[c], nap[c]>>)
  <2>1. /\ pc' = pc /\ reply' = reply
        /\ left'[c] = Less(left[c]) /\ nap'[c] = Less(nap[c])
    BY <1>9 DEF Tick
  <2>2. CASE pc[c] = "reading"
    <3>1. nap[c] = 0 /\ nap'[c] = 0
      BY <2>1, <2>2 DEF Awake, Less
    <3> QED
      BY <1>1, <2>1, <2>2, <3>1 DEF Rest, Less
  <2>3. CASE pc[c] = "sleeping"
    BY <1>1, <2>1, <2>3 DEF Rest, Stage, Less
  <2> QED
    BY <1>1, <2>2, <2>3
<1>10. ASSUME CloseSession \/ UNCHANGED vars PROVE Same
  BY <1>10 DEF CloseSession, vars
<1> HIDE DEF Same, Down
<1>11. Same \/ Down \/ (Rest(c)' = Rest(c) /\ UNCHANGED <<pc[c], reply[c], nap[c]>>)
  BY <1>4, <1>7, <1>8, <1>9, <1>10 DEF Next
<1> QED
  BY <1>3, <1>11 DEF Down

(* For every timeout and every interval but zero, each poll of a call uses up
   some of its time: the part of EveryCallReturns that is about the loop and not
   about the scheduler. *)
THEOREM PollsRunDown == Spec => PollingRunsDown
<1>1. TypeInv /\ Awake /\ [Next]_vars => [\A c \in Calls : RunsDown(c)]_vars
  BY StepRunsDown
<1> QED
  BY InitTypes, NextTypes, InitAwake, NextAwake, <1>1, PTL DEF Spec, PollingRunsDown

-----------------------------------------------------------------------------
(* Answers and rulings *)

LEMMA InitHonest == Init => HonestInv
  BY DEF Init, HonestInv, AskedUnruled, AnswersHonest, RunsOnlyIfGranted, Ran

LEMMA NextHonest == TypeInv /\ HonestInv /\ [Next]_vars => HonestInv'
<1> SUFFICES ASSUME TypeInv, HonestInv, [Next]_vars PROVE HonestInv'
  OBVIOUS
<1> USE SetsAssumption, HonestGateway
    DEF TypeInv, TypeOK, HonestInv, AskedUnruled, AnswersHonest, RunsOnlyIfGranted,
        Ran, Granted, Awaiting, Returned, Rulings
<1>1. ASSUME NEW c \in Calls, Start(c) PROVE HonestInv'
  BY <1>1 DEF Start, InvokeRaises, Verdict, GoTo
<1>2. ASSUME NEW c \in Calls, TakeAskReply(c) PROVE HonestInv'
  BY <1>2 DEF TakeAskReply, InvokeRaises, PollTop, Verdict, GoTo
<1>3. ASSUME NEW c \in Calls, TakeReadReply(c) PROVE HonestInv'
  BY <1>3 DEF TakeReadReply, Sleep, Verdict, GoTo
<1>4. ASSUME NEW c \in Calls, RequestFails(c) PROVE HonestInv'
  BY <1>4 DEF RequestFails, InvokeRaises, Sleep, Verdict, GoTo
<1>5. ASSUME NEW c \in Calls, Wake(c) PROVE HonestInv'
  BY <1>5 DEF Wake, PollTop, GoTo
<1>6. ASSUME NEW c \in Calls, Cancel(c) PROVE HonestInv'
  BY <1>6 DEF Cancel, GoTo
<1>7. ASSUME NEW c \in Calls, ToolEnds(c) PROVE HonestInv'
  BY <1>7 DEF ToolEnds, GoTo
<1>8. ASSUME NEW c \in Calls, Decide(c) PROVE HonestInv'
  BY <1>8 DEF Decide
<1>9. ASSUME NEW c \in Calls, LoseAsk(c) PROVE HonestInv'
  BY <1>9 DEF LoseAsk
<1>10. ASSUME NEW c \in Calls, AnswerRead(c) PROVE HonestInv'
  BY <1>10 DEF AnswerRead
<1>11. ASSUME NEW c \in Calls, Resolve(c) PROVE HonestInv'
  BY <1>11 DEF Resolve
<1>12. ASSUME CloseSession PROVE HonestInv'
  BY <1>12 DEF CloseSession
<1>13. ASSUME Tick PROVE HonestInv'
  BY <1>13 DEF Tick, Less
<1>14. ASSUME UNCHANGED vars PROVE HonestInv'
  BY <1>14 DEF vars
<1> QED
  BY <1>1, <1>2, <1>3, <1>4, <1>5, <1>6, <1>7, <1>8, <1>9, <1>10, <1>11,
     <1>12, <1>13, <1>14 DEF Next, Task, Gateway

(* A tool runs only if its call was granted, or its hook is permissive and its
   POST raised: for every dialect of an honest gateway, every timing and every
   number of concurrent calls. *)
THEOREM RunsGranted == Spec => []RunsOnlyIfGranted
<1>1. Init => TypeInv /\ HonestInv
  BY InitTypes, InitHonest
<1>2. TypeInv /\ HonestInv /\ [Next]_vars => (TypeInv /\ HonestInv)'
  BY NextTypes, NextHonest
<1>3. HonestInv => RunsOnlyIfGranted
  BY DEF HonestInv
<1> QED
  BY <1>1, <1>2, <1>3, PTL DEF Spec

-----------------------------------------------------------------------------
(* Causes of a block *)

LEMMA InitCause == Init => CauseInv
  BY DEF Init, CauseInv, NotYetTold, BlockedForCause, Polling

LEMMA NextCause == TypeInv /\ CauseInv /\ [Next]_vars => CauseInv'
<1> SUFFICES ASSUME TypeInv, CauseInv, [Next]_vars PROVE CauseInv'
  OBVIOUS
<1> USE SetsAssumption, TimesAssumption, OtherAssumption
    DEF TypeInv, TypeOK, DeadlineSet, CauseInv, NotYetTold, BlockedForCause, Polling,
        Statuses, Awaiting, Returned, Ran, NoDeadline
<1>1. ASSUME NEW c \in Calls, Start(c) PROVE CauseInv'
  BY <1>1 DEF Start, InvokeRaises, Verdict, GoTo
<1>2. ASSUME NEW c \in Calls, TakeAskReply(c) PROVE CauseInv'
  BY <1>2 DEF TakeAskReply, InvokeRaises, PollTop, Verdict, GoTo
<1>3. ASSUME NEW c \in Calls, TakeReadReply(c) PROVE CauseInv'
  BY <1>3 DEF TakeReadReply, Sleep, Verdict, GoTo
<1>4. ASSUME NEW c \in Calls, RequestFails(c) PROVE CauseInv'
  BY <1>4 DEF RequestFails, InvokeRaises, Sleep, Verdict, GoTo
<1>5. ASSUME NEW c \in Calls, Wake(c) PROVE CauseInv'
  BY <1>5 DEF Wake, PollTop, GoTo
<1>6. ASSUME NEW c \in Calls, Cancel(c) PROVE CauseInv'
  BY <1>6 DEF Cancel, GoTo
<1>7. ASSUME NEW c \in Calls, ToolEnds(c) PROVE CauseInv'
  BY <1>7 DEF ToolEnds, GoTo
<1>8. ASSUME NEW c \in Calls, Decide(c) PROVE CauseInv'
  BY <1>8 DEF Decide
<1>9. ASSUME NEW c \in Calls, LoseAsk(c) PROVE CauseInv'
  BY <1>9 DEF LoseAsk
<1>10. ASSUME NEW c \in Calls, AnswerRead(c) PROVE CauseInv'
  BY <1>10 DEF AnswerRead
<1>11. ASSUME NEW c \in Calls, Resolve(c) PROVE CauseInv'
  BY <1>11 DEF Resolve
<1>12. ASSUME CloseSession PROVE CauseInv'
  BY <1>12 DEF CloseSession
<1>13. ASSUME Tick PROVE CauseInv'
  BY <1>13 DEF Tick, Less
<1>14. ASSUME UNCHANGED vars PROVE CauseInv'
  BY <1>14 DEF vars
<1> QED
  BY <1>1, <1>2, <1>3, <1>4, <1>5, <1>6, <1>7, <1>8, <1>9, <1>10, <1>11,
     <1>12, <1>13, <1>14 DEF Next, Task, Gateway

(* The hook blocks no call without the cause that BlockedForCause names. *)
THEOREM BlocksForCause == Spec => []BlockedForCause
<1>1. Init => TypeInv /\ CauseInv
  BY InitTypes, InitCause
<1>2. TypeInv /\ CauseInv /\ [Next]_vars => (TypeInv /\ CauseInv)'
  BY NextTypes, NextCause
<1>3. CauseInv => BlockedForCause
  BY DEF CauseInv
<1> QED
  BY <1>1, <1>2, <1>3, PTL DEF Spec

-----------------------------------------------------------------------------
(* Early approvals *)

LEMMA InitEarly == Init => EarlyInv
  BY TimesAssumption, SetsAssumption
  DEF Init, EarlyInv, HeldAnswer, SlackMeansApproved

LEMMA NextEarly == TypeInv /\ HonestInv /\ EarlyInv /\ [Next]_vars => EarlyInv'
<1> SUFFICES ASSUME TypeInv, HonestInv, EarlyInv, [Next]_vars PROVE EarlyInv'
  OBVIOUS
<1> USE SetsAssumption, TimesAssumption, HonestGateway
    DEF TypeInv, TypeOK, DeadlineSet, HonestInv, AskedUnruled, AnswersHonest, EarlyInv,
        HeldAnswer, SlackMeansApproved, OnCourse, PollableDialect, Polling, Busy,
        Statuses, Rulings
<1>1. ASSUME NEW c \in Calls, Start(c) PROVE EarlyInv'
  BY <1>1 DEF Start, InvokeRaises, Verdict, GoTo
<1>2. ASSUME NEW c \in Calls, TakeAskReply(c) PROVE EarlyInv'
  BY <1>2 DEF TakeAskReply, InvokeRaises, PollTop, Verdict, GoTo
<1>3. ASSUME NEW c \in Calls, TakeReadReply(c) PROVE EarlyInv'
  BY <1>3 DEF TakeReadReply, Sleep, Verdict, GoTo
<1>4. ASSUME NEW c \in Calls, RequestFails(c) PROVE EarlyInv'
  BY <1>4 DEF RequestFails, InvokeRaises, Sleep, Verdict, GoTo
<1>5. ASSUME NEW c \in Calls, Wake(c) PROVE EarlyInv'
  BY <1>5 DEF Wake, PollTop, GoTo
<1>6. ASSUME NEW c \in Calls, Cancel(c) PROVE EarlyInv'
  BY <1>6 DEF Cancel, GoTo
<1>7. ASSUME NEW c \in Calls, ToolEnds(c) PROVE EarlyInv'
  BY <1>7 DEF ToolEnds, GoTo
<1>8. ASSUME NEW c \in Calls, Decide(c) PROVE EarlyInv'
  BY <1>8 DEF Decide
<1>9. ASSUME NEW c \in Calls, LoseAsk(c) PROVE EarlyInv'
  BY <1>9 DEF LoseAsk
<1>10. ASSUME NEW c \in Calls, AnswerRead(c) PROVE EarlyInv'
  BY <1>10 DEF AnswerRead
<1>11. ASSUME NEW c \in Calls, Resolve(c) PROVE EarlyInv'
  BY <1>11 DEF Resolve
<1>12. ASSUME CloseSession PROVE EarlyInv'
  BY <1>12 DEF CloseSession
<1>13. ASSUME Tick PROVE EarlyInv'
  BY <1>13 DEF Tick, Less
<1>14. ASSUME UNCHANGED vars PROVE EarlyInv'
  BY <1>14 DEF vars
<1> QED
  BY <1>1, <1>2, <1>3, <1>4, <1>5, <1>6, <1>7, <1>8, <1>9, <1>10, <1>11,
     <1>12, <1>13, <1>14 DEF Next, Task, Gateway

(* An approval that comes more than a poll interval before the deadline is
   honoured, for every deadline and interval. *)
THEOREM EarlyApprovals == Spec => []EarlyApprovalHonoured
<1>1. Init => TypeInv /\ HonestInv /\ EarlyInv
  BY InitTypes, InitHonest, InitEarly
<1>2. TypeInv /\ HonestInv /\ EarlyInv /\ [Next]_vars
        => (TypeInv /\ HonestInv /\ EarlyInv)'
  BY NextTypes, NextHonest, NextEarly
<1>3. EarlyInv => EarlyApprovalHonoured
  BY DEF EarlyInv, EarlyApprovalHonoured, OnCourse
<1> QED
  BY <1>1, <1>2, <1>3, PTL DEF Spec

-----------------------------------------------------------------------------
(* Refinement *)

LEMMA InitRefines == Init => Gated!Init
  BY DEF Init, Gated!Init, AbstractRuling, AbstractFate, Granted, Ran

(* A step of a call's task changes at most that call's fate, once. *)
LEMMA FateStep ==
  ASSUME TypeInv, NEW c \in Calls, UNCHANGED ruling,
         NEW place, pc' = [pc EXCEPT ![c] = place],
         \/ pc[c] \in {"idle"} \cup Awaiting /\ place \in {"idle"} \cup Awaiting
         \/ pc[c] \in {"idle"} \cup Awaiting /\ place \in {"blocked", "raised"}
         \/ pc[c] \in {"idle"} \cup Awaiting /\ place = "running"
              /\ (ruling[c] \in Granted \/ c \in Permissive)
         \/ pc[c] = "running" /\ place = "finished"
  PROVE  [Gated!Next]_(Gated!gvars)
<1> USE DEF TypeInv, TypeOK, Awaiting, Returned, Ran, Granted
<1>1. AbstractRuling' = AbstractRuling
  BY DEF AbstractRuling
<1>2. CASE pc[c] \in {"idle"} \cup Awaiting /\ place \in {"idle"} \cup Awaiting
  <2>1. AbstractFate' = AbstractFate
    BY <1>2 DEF AbstractFate
  <2> QED
    BY <1>1, <2>1 DEF Gated!gvars
<1>3. CASE pc[c] \in {"idle"} \cup Awaiting /\ place \in {"blocked", "raised"}
  <2>1. AbstractFate[c] = "waiting"
    BY <1>3 DEF AbstractFate
  <2>2. AbstractFate' = [AbstractFate EXCEPT ![c] = "withheld"]
    BY <1>3 DEF AbstractFate
  <2> QED
    BY <1>1, <2>1, <2>2 DEF Gated!Next, Gated!Withhold
<1>4. CASE /\ pc[c] \in {"idle"} \cup Awaiting /\ place = "running"
           /\ ruling[c] \in Granted \/ c \in Permissive
  <2>1. AbstractFate[c] = "waiting"
    BY <1>4 DEF AbstractFate
  <2>2. AbstractFate' = [AbstractFate EXCEPT ![c] = "run"]
    BY <1>4 DEF AbstractFate
  <2>3. AbstractRuling[c] = "granted" \/ c \in Permissive
    BY <1>4 DEF AbstractRuling
  <2> QED
    BY <1>1, <2>1, <2>2, <2>3 DEF Gated!Next, Gated!Run
<1>5. CASE pc[c] = "running" /\ place = "finished"
  <2>1. AbstractFate' = AbstractFate
    BY <1>5 DEF AbstractFate
  <2> QED
    BY <1>1, <2>1 DEF Gated!gvars
<1> QED
  BY <1>2, <1>3, <1>4, <1>5

(* A step that leaves every task where it is changes at most one ruling, once. *)
LEMMA RulingStep ==
  ASSUME TypeInv, NEW c \in Calls, UNCHANGED pc,
         NEW r, ruling' = [ruling EXCEPT ![c] = r],
         ruling[c] \in {"none", "hold"},
         r \in {"allow", "deny", "hold", "approved", "rejected", "expired"}
  PROVE  [Gated!Next]_(Gated!gvars)
<1> USE DEF TypeInv, TypeOK, Granted, Rulings
<1>1. AbstractFate' = AbstractFate
  BY DEF AbstractFate
<1>2. AbstractRuling[c] = "open"
  BY DEF AbstractRuling
<1>3. CASE r = "hold"
  <2>1. AbstractRuling' = AbstractRuling
    BY <1>3 DEF AbstractRuling
  <2> QED
    BY <1>1, <2>1 DEF Gated!gvars
<1>4. CASE r \in Granted
  <2>1. AbstractRuling' = [AbstractRuling EXCEPT ![c] = "granted"]
    BY <1>4 DEF AbstractRuling
  <2> QED
    BY <1>1, <1>2, <2>1 DEF Gated!Next, Gated!Rule
<1>5. CASE r \in {"deny", "rejected", "expired"}
  <2>1. AbstractRuling' = [AbstractRuling EXCEPT ![c] = "refused"]
    BY <1>5 DEF AbstractRuling
  <2> QED
    BY <1>1, <1>2, <2>1 DEF Gated!Next, Gated!Rule
<1> QED
  BY <1>3, <1>4, <1>5

LEMMA SameStep ==
  ASSUME UNCHANGED <<pc, ruling>>
  PROVE  [Gated!Next]_(Gated!gvars)
  BY DEF Gated!gvars, AbstractRuling, AbstractFate

LEMMA NextRefines ==
  TypeInv /\ HonestInv /\ [Next]_vars => [Gated!Next]_(Gated!gvars)
<1> SUFFICES ASSUME TypeInv, HonestInv, [Next]_vars
             PROVE  [Gated!Next]_(Gated!gvars)
  OBVIOUS
<1>1. ASSUME NEW c \in Calls, Start(c) PROVE [Gated!Next]_(Gated!gvars)
  BY <1>1, FateStep DEF Start, InvokeRaises, Verdict, GoTo, HonestInv, AnswersHonest,
     Awaiting, Granted
<1>2. ASSUME NEW c \in Calls, TakeAskReply(c) PROVE [Gated!Next]_(Gated!gvars)
  BY <1>2, FateStep DEF TakeAskReply, InvokeRaises, PollTop, Verdict, GoTo, HonestInv, AnswersHonest,
     Awaiting, Granted
<1>3. ASSUME NEW c \in Calls, TakeReadReply(c) PROVE [Gated!Next]_(Gated!gvars)
  BY <1>3, FateStep DEF TakeReadReply, Sleep, Verdict, GoTo, HonestInv, AnswersHonest,
     Awaiting, Granted
<1>4. ASSUME NEW c \in Calls, RequestFails(c) PROVE [Gated!Next]_(Gated!gvars)
  BY <1>4, FateStep DEF RequestFails, InvokeRaises, Sleep, Verdict, GoTo, HonestInv, AnswersHonest,
     Awaiting, Granted
<1>5. ASSUME NEW c \in Calls, Wake(c) PROVE [Gated!Next]_(Gated!gvars)
  BY <1>5, FateStep DEF Wake, PollTop, GoTo, HonestInv, AnswersHonest,
     Awaiting, Granted
<1>6. ASSUME NEW c \in Calls, Cancel(c) PROVE [Gated!Next]_(Gated!gvars)
  BY <1>6, FateStep DEF Cancel, GoTo, HonestInv, AnswersHonest,
     Awaiting, Granted
<1>7. ASSUME NEW c \in Calls, ToolEnds(c) PROVE [Gated!Next]_(Gated!gvars)
  BY <1>7, FateStep DEF ToolEnds, GoTo, HonestInv, AnswersHonest,
     Awaiting, Granted
<1>8. ASSUME NEW c \in Calls, Decide(c) PROVE [Gated!Next]_(Gated!gvars)
  BY <1>8, RulingStep DEF Decide, HonestInv, AskedUnruled
<1>9. ASSUME NEW c \in Calls, LoseAsk(c) PROVE [Gated!Next]_(Gated!gvars)
  BY <1>9, SameStep DEF LoseAsk
<1>10. ASSUME NEW c \in Calls, AnswerRead(c) PROVE [Gated!Next]_(Gated!gvars)
  BY <1>10, SameStep DEF AnswerRead
<1>11. ASSUME NEW c \in Calls, Resolve(c) PROVE [Gated!Next]_(Gated!gvars)
  BY <1>11, RulingStep DEF Resolve
<1>12. ASSUME CloseSession \/ Tick \/ UNCHANGED vars PROVE [Gated!Next]_(Gated!gvars)
  BY <1>12, SameStep DEF CloseSession, Tick, vars
<1> QED
  BY <1>1, <1>2, <1>3, <1>4, <1>5, <1>6, <1>7, <1>8, <1>9, <1>10, <1>11, <1>12
  DEF Next, Task, Gateway

(* The hook, with the agent loop around it, implements GatedExecution. *)
THEOREM ImplementsGatedExecution == Spec => ImplementsGated
<1>1. Init => TypeInv /\ HonestInv
  BY InitTypes, InitHonest
<1>2. TypeInv /\ HonestInv /\ [Next]_vars => (TypeInv /\ HonestInv)'
  BY NextTypes, NextHonest
<1> QED
  BY <1>1, <1>2, InitRefines, NextRefines, PTL DEF Spec, ImplementsGated, Gated!Spec

=============================================================================

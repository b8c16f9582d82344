------------------------------ MODULE ToolHook ------------------------------
(***************************************************************************)
(* The Python governance hook (synoi_gap/integrations/openjarvis.py) as an *)
(* agent uses it: every tool call of the agent awaits GapToolHook.__call__ *)
(* and runs its tool if, and only if, the hook returned True               *)
(* (examples/openjarvis_pr_patch.py).  The calls are asyncio tasks that    *)
(* share one open GapClient.                                               *)
(*                                                                         *)
(* A step of a call is what its task does between two awaits.  The three   *)
(* awaits are the POST of the invocation ("invoking"), the GET of a        *)
(* deferred receipt ("reading") and the sleep between two GETs             *)
(* ("sleeping").  Between them the gateway rules, a person resolves a held *)
(* call, a request or an answer is lost, time passes, the session closes   *)
(* and other calls move.                                                   *)
(*                                                                         *)
(* The gateway is not part of the repository.  Its answers are a parameter *)
(* (AskReplies, ReadReplies), so that one model covers the dialect the     *)
(* hook was written and tested against and the one openapi.yaml specifies. *)
(***************************************************************************)
EXTENDS Integers

CONSTANTS
  Calls,          \* the agent's tool calls, each made once
  Permissive,     \* calls through a hook with deny_on_unknown_capability=False
  Unmapped,       \* calls of a tool that CAPABILITY_MAP does not list
  Unhashable,     \* calls whose arguments may hold a float: such have no OID
  Prompt,         \* calls answered without error and without delay
  Timeout,        \* hitl_timeout, in ticks of the clock
  Interval,       \* hitl_poll_interval, in ticks
  OtherStatuses,  \* status strings that the hook has no branch for
  AskReplies,     \* the answers a POST can get, by what the gateway ruled
  ReadReplies     \* the answers a GET of a receipt can get, likewise

Rulings == {"none", "allow", "deny", "hold", "approved", "rejected", "expired"}

(* "deferred_no_receipt": deferred, with no OID to poll.  "malformed": a body
   _extract_status fails on, such as {"body": null}.  "http_error": a status
   code of 400 or more, which raise_for_status turns into an exception. *)
Statuses ==
  {"allowed", "denied", "deferred", "deferred_no_receipt", "approved",
   "expired", "malformed", "http_error"} \cup OtherStatuses

ASSUME SetsAssumption ==
  /\ Permissive \subseteq Calls /\ Unmapped \subseteq Calls
  /\ Unhashable \subseteq Calls /\ Prompt \subseteq Calls
  /\ {"none", "error"} \cap Statuses = {}      \* markers of this model

ASSUME TimesAssumption == Timeout \in Nat /\ Interval \in Nat

ASSUME OtherAssumption ==
  OtherStatuses \cap {"allowed", "denied", "deferred", "deferred_no_receipt",
                      "approved", "expired", "malformed", "http_error"} = {}

(* A gateway answers "allowed" only to a call it allowed and "approved" only
   about one that a person approved. *)
ASSUME HonestGateway ==
  /\ AskReplies \in [Rulings -> SUBSET Statuses]
  /\ ReadReplies \in [Rulings -> SUBSET Statuses]
  /\ \A r \in Rulings : "allowed" \in AskReplies[r] => r = "allow"
  /\ \A r \in Rulings : "approved" \in ReadReplies[r] => r = "approved"

VARIABLES
  pc,       \* where each call's task is
  ruling,   \* what the gateway has ruled on each call
  asked,    \* calls whose POST is on its way to the gateway
  reply,    \* the answer on its way back to each call
  left,     \* ticks to the call's deadline; NoDeadline until it polls
  nap,      \* ticks left of the call's sleep
  open,     \* the client's session is open
  heard,    \* history: the last answer the call received ("error": POST raised)
  slack     \* history: ticks the deadline was away when a person approved

vars == <<pc, ruling, asked, reply, left, nap, open, heard, slack>>

NoDeadline == -1
Awaiting == {"invoking", "reading", "sleeping"}
Ran == {"running", "finished"}
Returned == Ran \cup {"blocked", "raised"}
Granted == {"allow", "approved"}

TypeOK ==
  /\ pc \in [Calls -> {"idle"} \cup Awaiting \cup Returned]
  /\ ruling \in [Calls -> Rulings]
  /\ asked \subseteq Calls
  /\ reply \in [Calls -> Statuses \cup {"none"}]
  /\ left \in [Calls -> {NoDeadline} \cup 0..Timeout]
  /\ nap \in [Calls -> 0..Interval]
  /\ open \in BOOLEAN
  /\ heard \in [Calls -> Statuses \cup {"none", "error"}]
  /\ slack \in [Calls -> 0..Timeout]

Init ==
  /\ pc = [c \in Calls |-> "idle"]
  /\ ruling = [c \in Calls |-> "none"]
  /\ asked = {}
  /\ reply = [c \in Calls |-> "none"]
  /\ left = [c \in Calls |-> NoDeadline]
  /\ nap = [c \in Calls |-> 0]
  /\ open = TRUE
  /\ heard = [c \in Calls |-> "none"]
  /\ slack = [c \in Calls |-> 0]

-----------------------------------------------------------------------------
(* The pieces of __call__ and _poll_hitl. *)

GoTo(c, place) == pc' = [pc EXCEPT ![c] = place]

(* The hook returns, and its caller goes on in the same step: it starts the
   tool, or it puts a denial into the conversation. *)
Verdict(c, allowed) == GoTo(c, IF allowed THEN "running" ELSE "blocked")

(* client.invoke raised: any exception at all, on any tool. *)
InvokeRaisesFailOpen(c) ==      \* mutant: the option is not looked at
  /\ Verdict(c, TRUE)
  /\ heard' = [heard EXCEPT ![c] = "error"]
  /\ UNCHANGED <<left, nap>>
InvokeRaises(c) ==
  /\ Verdict(c, c \in Permissive)
  /\ heard' = [heard EXCEPT ![c] = "error"]
  /\ UNCHANGED <<left, nap>>

(* The top of the polling loop with rem ticks to the deadline: give up, or GET
   the receipt.  On a closed session the GET raises at once, the exception is
   swallowed, and the call sleeps. *)
PollTopForever(c, rem) ==        \* mutant: no deadline
  /\ GoTo(c, IF open THEN "reading" ELSE "sleeping")
  /\ nap' = [nap EXCEPT ![c] = IF ~open THEN Interval ELSE 0]
PollTopLookingAhead(c, rem) ==   \* mutant: gives up if the next sleep would end late
  /\ GoTo(c, IF rem < Interval THEN "blocked" ELSE IF open THEN "reading" ELSE "sleeping")
  /\ nap' = [nap EXCEPT ![c] = IF rem >= Interval /\ ~open THEN Interval ELSE 0]
PollTop(c, rem) ==
  /\ GoTo(c, IF rem = 0 THEN "blocked" ELSE IF open THEN "reading" ELSE "sleeping")
  /\ nap' = [nap EXCEPT ![c] = IF rem > 0 /\ ~open THEN Interval ELSE 0]

SleepLonger(c) ==                \* mutant: a back-off of twice the interval
  /\ GoTo(c, "sleeping")
  /\ nap' = [nap EXCEPT ![c] = 2 * Interval]
Sleep(c) ==
  /\ GoTo(c, "sleeping")
  /\ nap' = [nap EXCEPT ![c] = Interval]

-----------------------------------------------------------------------------
(* The steps of a call's task. *)

(* __call__ up to its first await: the envelope is built and hashed, outside
   the try, and then posted. *)
Start(c) ==
  /\ pc[c] = "idle"
  /\ \/ /\ c \in Unhashable
        /\ GoTo(c, "raised")
        /\ UNCHANGED <<asked, left, nap, heard>>
     \/ /\ open
        /\ GoTo(c, "invoking")
        /\ asked' = asked \cup {c}
        /\ UNCHANGED <<left, nap, heard>>
     \/ /\ ~open
        /\ InvokeRaises(c)
        /\ UNCHANGED asked
  /\ UNCHANGED <<ruling, reply, open, slack>>

(* The POST returned.  A deferred call takes its deadline and enters the loop
   in this same step. *)
TakeAskReply(c) ==
  /\ pc[c] = "invoking" /\ reply[c] # "none"
  /\ \/ reply[c] = "http_error" /\ InvokeRaises(c)
     \/ /\ reply[c] = "deferred"
        /\ left' = [left EXCEPT ![c] = Timeout]
        /\ PollTop(c, Timeout)
        /\ heard' = [heard EXCEPT ![c] = reply[c]]
     \/ /\ reply[c] \notin {"http_error", "deferred"}
        /\ IF reply[c] = "malformed"
             THEN GoTo(c, "raised")
             ELSE Verdict(c, reply[c] = "allowed")
        /\ heard' = [heard EXCEPT ![c] = reply[c]]
        /\ UNCHANGED <<left, nap>>
  /\ reply' = [reply EXCEPT ![c] = "none"]
  /\ UNCHANGED <<ruling, asked, open, slack>>

(* The GET returned.  Only three statuses end the loop; every other answer,
   an error among them, sends the call to sleep. *)
TakeReadReplyExpiredRuns(c) ==   \* mutant: whatever is not a denial is a yes
  /\ pc[c] = "reading" /\ reply[c] # "none"
  /\ \/ /\ reply[c] \in {"approved", "denied", "expired"}
        /\ Verdict(c, reply[c] # "denied")
        /\ UNCHANGED nap
     \/ /\ reply[c] \notin {"approved", "denied", "expired"}
        /\ Sleep(c)
  /\ heard' = [heard EXCEPT ![c] = reply[c]]
  /\ reply' = [reply EXCEPT ![c] = "none"]
  /\ UNCHANGED <<ruling, asked, left, open, slack>>
TakeReadReply(c) ==
  /\ pc[c] = "reading" /\ reply[c] # "none"
  /\ \/ /\ reply[c] \in {"approved", "denied", "expired"}
        /\ Verdict(c, reply[c] = "approved")
        /\ UNCHANGED nap
     \/ /\ reply[c] \notin {"approved", "denied", "expired"}
        /\ Sleep(c)
  /\ heard' = [heard EXCEPT ![c] = reply[c]]
  /\ reply' = [reply EXCEPT ![c] = "none"]
  /\ UNCHANGED <<ruling, asked, left, open, slack>>

(* The awaited request raised: the connection failed, httpx timed out, the
   session was closed under it.  The gateway may have ruled, or may yet. *)
RequestFails(c) ==
  /\ c \notin Prompt \/ ~open
  /\ \/ pc[c] = "invoking" /\ InvokeRaises(c)
     \/ pc[c] = "reading" /\ Sleep(c) /\ UNCHANGED <<left, heard>>
  /\ reply' = [reply EXCEPT ![c] = "none"]
  /\ UNCHANGED <<ruling, asked, open, slack>>

(* The sleep is over; asyncio never ends one early but may end it late. *)
Wake(c) ==
  /\ pc[c] = "sleeping" /\ nap[c] = 0
  /\ PollTop(c, left[c])
  /\ UNCHANGED <<ruling, asked, reply, left, open, heard, slack>>

(* The agent cancels the task.  CancelledError is no Exception, so neither
   except clause catches it. *)
Cancel(c) ==
  /\ pc[c] \in Awaiting
  /\ GoTo(c, "raised")
  /\ reply' = [reply EXCEPT ![c] = "none"]
  /\ UNCHANGED <<ruling, asked, left, nap, open, heard, slack>>

(* The tool that was allowed to run ends. *)
ToolEnds(c) ==
  /\ pc[c] = "running"
  /\ GoTo(c, "finished")
  /\ UNCHANGED <<ruling, asked, reply, left, nap, open, heard, slack>>

-----------------------------------------------------------------------------
(* What goes on around the calls. *)

(* The POST reaches the gateway, which rules and answers.  Nobody is there to
   take the answer if the call has given up meanwhile. *)
Decide(c) ==
  /\ c \in asked
  /\ asked' = asked \ {c}
  /\ \E r \in {"allow", "deny", "hold"} :
       /\ ruling' = [ruling EXCEPT ![c] = r]
       /\ IF pc[c] = "invoking"
            THEN \E s \in AskReplies[r] : reply' = [reply EXCEPT ![c] = s]
            ELSE UNCHANGED reply
  /\ UNCHANGED <<pc, left, nap, open, heard, slack>>

(* The POST never reaches the gateway. *)
LoseAsk(c) ==
  /\ c \in asked \ Prompt
  /\ asked' = asked \ {c}
  /\ UNCHANGED <<pc, ruling, reply, left, nap, open, heard, slack>>

(* The gateway answers a GET with what holds at that moment. *)
AnswerRead(c) ==
  /\ pc[c] = "reading" /\ reply[c] = "none"
  /\ \E s \in ReadReplies[ruling[c]] : reply' = [reply EXCEPT ![c] = s]
  /\ UNCHANGED <<pc, ruling, asked, left, nap, open, heard, slack>>

(* A person, or the gateway's own clock, resolves a held call, whether or not
   its hook still waits. *)
Resolve(c) ==
  /\ ruling[c] = "hold"
  /\ \E r \in {"approved", "rejected", "expired"} :
       /\ ruling' = [ruling EXCEPT ![c] = r]
       /\ slack' = [slack EXCEPT ![c] =
                      IF r # "approved" THEN 0
                      ELSE IF pc[c] = "invoking" THEN Timeout
                      ELSE IF pc[c] \in {"reading", "sleeping"} THEN left[c]
                      ELSE 0]
  /\ UNCHANGED <<pc, asked, reply, left, nap, open, heard>>

(* GapClient.__aexit__, with calls still under way or yet to come. *)
CloseSession ==
  /\ open
  /\ open' = FALSE
  /\ UNCHANGED <<pc, ruling, asked, reply, left, nap, heard, slack>>

(* Time moves on for the calls that are polling.  It does not move past
   something a prompt call could do at once. *)
Polling(c) == pc[c] \in {"reading", "sleeping"}
Busy(c) == pc[c] \in {"invoking", "reading"} \/ (pc[c] = "sleeping" /\ nap[c] = 0)
LessUnfloored(n) == n - 1        \* mutant
Less(n) == IF n > 0 THEN n - 1 ELSE n

Tick ==
  /\ \A c \in Prompt : ~Busy(c)
  /\ \E c \in Calls : Polling(c) /\ (left[c] > 0 \/ nap[c] > 0)
  /\ left' = [c \in Calls |-> IF Polling(c) THEN Less(left[c]) ELSE left[c]]
  /\ nap' = [c \in Calls |-> IF Polling(c) THEN Less(nap[c]) ELSE nap[c]]
  /\ UNCHANGED <<pc, ruling, asked, reply, open, heard, slack>>

-----------------------------------------------------------------------------
Task(c) ==
  \/ Start(c) \/ TakeAskReply(c) \/ TakeReadReply(c) \/ RequestFails(c)
  \/ Wake(c) \/ Cancel(c) \/ ToolEnds(c)

Gateway(c) == Decide(c) \/ LoseAsk(c) \/ AnswerRead(c) \/ Resolve(c)

Next ==
  \/ \E c \in Calls : Task(c) \/ Gateway(c)
  \/ CloseSession
  \/ Tick

(* The event loop wakes a sleeper and resumes a task whose answer is there;
   httpx's timeout ends a request that is never answered; a prompt call is
   answered; time passes.  No one has to start, cancel, resolve or close
   anything, and a tool need not end. *)
Fairness ==
  /\ WF_vars(Tick)
  /\ \A c \in Calls :
       /\ WF_vars(Wake(c))
       /\ WF_vars(TakeAskReply(c) \/ TakeReadReply(c) \/ RequestFails(c))
  /\ \A c \in Prompt : WF_vars(Decide(c)) /\ WF_vars(AnswerRead(c))

Spec == Init /\ [][Next]_vars
FairSpec == Spec /\ Fairness

-----------------------------------------------------------------------------
(* Safety *)

(* A tool runs only if the gateway allowed its call or a person approved it;
   the one exception is a permissive hook whose POST raised.  However answers
   are delayed, lost or overtaken by a later ruling, no path through __call__
   and _poll_hitl turns anything else into True. *)
RunsOnlyIfGranted ==
  \A c \in Calls :
    pc[c] \in Ran =>
      \/ ruling[c] \in Granted
      \/ c \in Permissive /\ heard[c] = "error"

(* The hook never blocks a call that was told yes, and never gives up early:
   it blocks before the deadline only on a refusal it received, and a call
   that never polled only on an answer that is neither yes nor wait, or on an
   error of a hook that is not permissive. *)
BlockedForCause ==
  \A c \in Calls :
    pc[c] = "blocked" =>
      IF left[c] = NoDeadline
        THEN /\ heard[c] \notin {"none", "allowed", "deferred"}
             /\ heard[c] = "error" => c \notin Permissive
        ELSE /\ heard[c] # "approved"
             /\ left[c] > 0 => heard[c] \in {"denied", "expired"}

(* The answers the polling loop needs to learn of an approval: a held call is
   told to wait, and a GET says nothing final before the person has answered. *)
PollableDialect ==
  /\ AskReplies["hold"] = {"deferred"}
  /\ ReadReplies["hold"] \cap {"denied", "expired"} = {}
  /\ ReadReplies["approved"] = {"approved"}

(* An approval that comes more than one poll interval before the deadline is
   honoured: whatever the call was doing when the person answered, one more
   GET is sent in time.  (For calls served promptly on a session that stays
   open; without the margin it is not true.) *)
EarlyApprovalHonoured ==
  PollableDialect /\ open =>
    \A c \in Prompt : slack[c] > Interval => pc[c] # "blocked"

(* What openapi.yaml and the hook's own docstring say together: a call that
   the gateway allowed is not denied by the hook. *)
AllowedCallNotBlocked ==
  open => \A c \in Prompt : ruling[c] = "allow" => pc[c] # "blocked"

(* What the docstring of deny_on_unknown_capability says: the permissive
   fallback is for tools that CAPABILITY_MAP does not list, so a call of a
   mapped tool that the gateway denied does not run. *)
FallbackOnlyForUnmapped ==
  open => \A c \in Calls : pc[c] \in Ran /\ ruling[c] = "deny" => c \in Unmapped

(* What is left of a call's polling: the time once its sleep is over, for a sleep
   is paid for when it begins, and as long as it reads at least this one GET.
   And what is left of the round that the call is in. *)
Rest(c) ==
  IF pc[c] = "sleeping"
    THEN IF left[c] > nap[c] THEN left[c] - nap[c] ELSE 0
    ELSE IF left[c] > 0 THEN left[c] ELSE 1
Stage(c) ==
  IF pc[c] = "sleeping" THEN 2 + nap[c] ELSE IF reply[c] = "none" THEN 1 ELSE 0

RunsDown(c) ==
  Interval > 0 /\ Polling(c) /\ Polling(c)' =>
    \/ Rest(c)' < Rest(c)
    \/ Rest(c)' = Rest(c) /\ Stage(c)' < Stage(c)
    \/ Rest(c)' = Rest(c) /\ UNCHANGED <<pc[c], reply[c], nap[c]>>

(* A polling call never gains time: whatever moves it, its own task, the gateway
   or the clock, leaves less of its time, or as much of that and less of the
   round.  So the deadline ends the loop whatever the receipt says or fails to
   say, and no chain of swallowed errors makes it spin.  (With an interval of
   nothing it may.) *)
PollingRunsDown == [][\A c \in Calls : RunsDown(c)]_vars

(* The abstract specification, with the answers, the clock and the session
   hidden. *)
AbstractRuling ==
  [c \in Calls |->
     IF ruling[c] \in Granted THEN "granted"
     ELSE IF ruling[c] \in {"deny", "rejected", "expired"} THEN "refused"
     ELSE "open"]

AbstractFate ==
  [c \in Calls |->
     IF pc[c] \in Ran THEN "run"
     ELSE IF pc[c] \in {"blocked", "raised"} THEN "withheld"
     ELSE "waiting"]

Gated == INSTANCE GatedExecution WITH
  Waived <- Permissive, ruling <- AbstractRuling, fate <- AbstractFate

(* The hook and the agent loop around it implement GatedExecution: besides
   running only what is granted, a verdict is final, so a late approval never
   revives a call that was blocked, and a later failure never takes back one
   that ran. *)
ImplementsGated == Gated!Spec

(* Liveness *)

(* Every call the hook accepts comes back to the agent, even if the gateway
   never answers again, the receipt never resolves or the session closes: the
   deadline ends the loop. *)
EveryCallReturns ==
  \A c \in Calls : pc[c] = "invoking" ~> pc[c] \in Returned

=============================================================================

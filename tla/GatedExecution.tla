--------------------------- MODULE GatedExecution ---------------------------
(***************************************************************************)
(* What a governed agent loop promises, with the protocol left out: a      *)
(* gateway rules once on every tool call, and a tool runs only if its call *)
(* was granted.  A call may be withheld at any moment, for any reason (a   *)
(* refusal, a timeout, a lost answer), and the gateway may still rule on   *)
(* it afterwards; what is decided about a call stays decided.  Calls in    *)
(* Waived belong to a hook that was told to let calls through when it      *)
(* cannot learn the ruling.                                                *)
(*                                                                         *)
(* ToolHook implements this module (theorem ImplementsGatedExecution of    *)
(* ToolHookProofs).                                                        *)
(***************************************************************************)
CONSTANTS
  Calls,      \* the tool calls an agent makes
  Waived      \* those that may run without a grant

VARIABLES
  ruling,     \* the gateway's ruling on each call
  fate        \* what the agent did with each call

gvars == <<ruling, fate>>

Init ==
  /\ ruling = [c \in Calls |-> "open"]
  /\ fate = [c \in Calls |-> "waiting"]

(* The gateway decides, once.  *)
Rule(c) ==
  /\ ruling[c] = "open"
  /\ \E r \in {"granted", "refused"} : ruling' = [ruling EXCEPT ![c] = r]
  /\ UNCHANGED fate

(* The agent starts the tool. *)
Run(c) ==
  /\ fate[c] = "waiting"
  /\ ruling[c] = "granted" \/ c \in Waived
  /\ fate' = [fate EXCEPT ![c] = "run"]
  /\ UNCHANGED ruling

(* The agent gives the call up without running the tool. *)
Withhold(c) ==
  /\ fate[c] = "waiting"
  /\ fate' = [fate EXCEPT ![c] = "withheld"]
  /\ UNCHANGED ruling

Next == \E c \in Calls : Rule(c) \/ Run(c) \/ Withhold(c)

Spec == Init /\ [][Next]_gvars

=============================================================================

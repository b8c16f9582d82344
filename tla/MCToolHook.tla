----------------------------- MODULE MCToolHook -----------------------------
(* Instances of ToolHook for TLC: a few calls, and the two dialects a gateway
   may speak. *)
EXTENDS ToolHook

CONSTANTS c1, c2

Neither == {}
First == {c1}
Second == {c2}
Both == {c1, c2}

(* Statuses that a gateway conforming to openapi.yaml sends and the hook has
   no branch for. *)
OpenApiOnly == {"ok", "pending_workflow", "pending"}
Nonsense == {"unknown"}

(* The dialect of the hook's own tests, allowed, denied, deferred and a receipt that
   changes from deferred to approved, denied or expired, and with it what no branch
   of the hook expects: a body that cannot be read, a status of no meaning, an error. *)
HookAsk ==
  [r \in Rulings |->
     CASE r = "allow" -> {"allowed", "malformed"}
       [] r = "deny" -> {"denied", "unknown", "http_error"}
       [] r = "hold" -> {"deferred"}
       [] OTHER -> {}]

HookRead ==
  [r \in Rulings |->
     CASE r = "approved" -> {"approved"}
       [] r = "rejected" -> {"denied"}
       [] r = "expired" -> {"expired"}
       [] r = "hold" -> {"deferred", "malformed"}
       [] OTHER -> {}]

(* The dialect of openapi.yaml and IMPLEMENTING.md: 200 "ok", 403 for a denial,
   202 "pending_workflow" with a receipt that is not updated in place. *)
OpenApiAsk ==
  [r \in Rulings |->
     CASE r = "allow" -> {"ok"}
       [] r = "deny" -> {"http_error"}
       [] r = "hold" -> {"pending_workflow"}
       [] OTHER -> {}]

OpenApiRead == [r \in Rulings |-> {"pending"}]

=============================================================================

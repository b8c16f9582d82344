\* Two calls: one served promptly through a fail-closed hook, one through a
\* permissive hook whose requests may be lost, late or fail and whose arguments may
\* hold a float.  Some answers of the gateway are nonsense.
\* The system stops when every call has returned.
SPECIFICATION FairSpec
CONSTANTS
  c1 = c1
  c2 = c2
  Calls <- Both
  Permissive <- Second
  Unmapped <- Neither
  Unhashable <- Second
  Prompt <- First
  Timeout = 4
  Interval = 2
  OtherStatuses <- Nonsense
  AskReplies <- HookAsk
  ReadReplies <- HookRead
INVARIANTS
  TypeOK
  RunsOnlyIfGranted
  BlockedForCause
  EarlyApprovalHonoured
PROPERTIES
  ImplementsGated
  PollingRunsDown
  EveryCallReturns
CHECK_DEADLOCK FALSE

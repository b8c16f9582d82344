\* One call of a mapped tool through a permissive hook; openapi.yaml's gateway
\* answers a denial with 403.
\* The system stops when every call has returned.
SPECIFICATION Spec
CONSTANTS
  c1 = c1
  c2 = c2
  Calls <- First
  Permissive <- First
  Unmapped <- Neither
  Unhashable <- Neither
  Prompt <- First
  Timeout = 3
  Interval = 2
  OtherStatuses <- OpenApiOnly
  AskReplies <- OpenApiAsk
  ReadReplies <- OpenApiRead
INVARIANTS
  FallbackOnlyForUnmapped
CHECK_DEADLOCK FALSE

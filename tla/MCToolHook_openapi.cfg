\* One call, served promptly by a gateway that speaks openapi.yaml.
\* The system stops when every call has returned.
SPECIFICATION Spec
CONSTANTS
  c1 = c1
  c2 = c2
  Calls <- First
  Permissive <- Neither
  Unmapped <- Neither
  Unhashable <- Neither
  Prompt <- First
  Timeout = 3
  Interval = 2
  OtherStatuses <- OpenApiOnly
  AskReplies <- OpenApiAsk
  ReadReplies <- OpenApiRead
INVARIANTS
  AllowedCallNotBlocked
CHECK_DEADLOCK FALSE

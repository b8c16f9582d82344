\* Tools whose names the guard has let through, and a grant derived from each. A chain
\* at its limit cannot grow, so it may stop.
SPECIFICATION Spec
CONSTANTS
  a = a
  A = A
  Dot = Dot
  Star = Star
  Colon = Colon
  Blank = Blank
  MaxLength = 3
  MaxHops = 1
  Symbols <- AllSymbols
  Names <- AllNames
  ToolNames <- PaddedNames
  lower <- LowerCase
  GapPrefix <- GapColon
  NORMATIVE_CAPABILITY_NAMES <- OneNormative
INVARIANTS
  IngestedToolsApart
CHECK_DEADLOCK FALSE

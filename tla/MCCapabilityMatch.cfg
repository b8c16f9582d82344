\* Chains of at most three grants. A chain at its limit cannot grow, so it may stop.
SPECIFICATION Spec
CONSTANTS
  a = a
  A = A
  Dot = Dot
  Star = Star
  Colon = Colon
  Blank = Blank
  MaxLength = 5
  MaxHops = 2
  Symbols <- AllSymbols
  Names <- AllNames
  ToolNames <- PaddedNames
  lower <- LowerCase
  GapPrefix <- GapColon
  NORMATIVE_CAPABILITY_NAMES <- OneNormative
INVARIANTS
  TypeOK
  AuthorityNarrows
  MatchesBetweenComments
  NormativeOnlyByWildcard
CHECK_DEADLOCK FALSE

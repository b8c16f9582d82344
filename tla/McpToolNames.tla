---------------------------- MODULE McpToolNames ----------------------------
(***************************************************************************)
(* Names of MCP tools, which become capability names.  A gateway passes    *)
(* what a server's tools/list returns through reservedMcpNameReason        *)
(* (src/capabilities.ts); later each invocation carries the tool's name    *)
(* again, and its validator (validateMcpToolCallContext, src/validate.ts)  *)
(* has a check of its own.  The two are not the same: the guard trims the  *)
(* name and ignores case, the validator does neither.                      *)
(***************************************************************************)
EXTENDS CapabilityMatch, FiniteSetsExt

CONSTANTS
  ToolNames,      \* names of tools
  Blank,          \* white space
  lower,          \* toLowerCase, symbol by symbol
  GapPrefix,      \* 'gap:'
  NORMATIVE_CAPABILITY_NAMES

ASSUME ToolNamesAssumption == ToolNames \subseteq Names
ASSUME LowerAssumption == lower \in [Symbols -> Symbols]
(* The prefix is not empty, in lower case, and neither it nor a normative name
   has white space at an end. *)
ASSUME PrefixAssumption ==
  /\ GapPrefix \in Seq(Symbols) \ {<< >>}
  /\ \A k \in DOMAIN GapPrefix : lower[GapPrefix[k]] = GapPrefix[k]
  /\ \A name \in NORMATIVE_CAPABILITY_NAMES \cup {GapPrefix} :
       name # << >> /\ name[1] # Blank /\ name[Len(name)] # Blank
ASSUME NormativeAssumption == NORMATIVE_CAPABILITY_NAMES \subseteq Seq(Symbols)

-----------------------------------------------------------------------------

Ink(name) == {k \in DOMAIN name : name[k] # Blank}

trim(name) ==
  IF Ink(name) = {} THEN << >> ELSE SubSeq(name, Min(Ink(name)), Max(Ink(name)))
toLowerCase(name) == [k \in DOMAIN name |-> lower[name[k]]]
startsWith(name, prefix) ==
  Len(prefix) <= Len(name) /\ \A k \in DOMAIN prefix : name[k] = prefix[k]

isReservedMcpNamePrefixOnly(name) ==       \* mutant: a normative name is let through
  \/ trim(name) = << >>
  \/ startsWith(toLowerCase(trim(name)), GapPrefix)
isReservedMcpName(name) ==
  \/ trim(name) = << >>
  \/ startsWith(toLowerCase(trim(name)), GapPrefix)
  \/ trim(name) \in NORMATIVE_CAPABILITY_NAMES

validateToolName(name) == ~startsWith(name, GapPrefix)

-----------------------------------------------------------------------------

(* The root of the chain is a name that the guard has let through. *)
Ingested == chain # << >> /\ chain[1] \in ToolNames /\ ~isReservedMcpName(chain[1])

(* What the comment on McpToolCallContext says: no name that matches a normative
   capability name is ingested, so that neither it nor any grant derived from it
   permits one. *)
IngestedToolsApart ==
  Ingested =>
    \A i \in 1..Len(chain) : \A c \in NORMATIVE_CAPABILITY_NAMES :
      ~capabilityMatches(chain[i], c)

(* What the guard does ensure, of any name.  A tool that it has let through can be
   invoked: the validator, which neither trims nor ignores case, finds no prefix
   that the guard did not.  And a normative capability is within reach of the
   chain if and only if the tool's name is itself a wildcard over it: the guard
   compares for equality, so that no other name gets one, under whatever grant
   further down. *)
NormativeOnlyByWildcard ==
  Ingested =>
    /\ validateToolName(chain[1])
    /\ \A c \in NORMATIVE_CAPABILITY_NAMES :
         (\E i \in 1..Len(chain) : capabilityMatches(chain[i], c)) <=>
           \/ chain[1] = <<Star>>
           \/ EndsWithDotStar(chain[1]) /\ StartsWithPrefixOf(c, chain[1])

=============================================================================

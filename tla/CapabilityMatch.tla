--------------------------- MODULE CapabilityMatch ---------------------------
(***************************************************************************)
(* capabilityMatches (src/capabilities.ts) and what it is for: deciding    *)
(* whether the holder of one capability pattern may use, or hand on,       *)
(* another.  Grants are handed on from actor to actor, each grant naming   *)
(* its parent (parent_grant_oid), and a grant is accepted if its parent    *)
(* covers it.  The party that issues and accepts grants is the gateway,    *)
(* which is not part of the repository: that it checks the parent is what  *)
(* the comment on parent_grant_oid asks of it, and how many hops it takes  *)
(* is what validateOrchestrationChainBody (src/validate.ts) lets through.  *)
(* One chain of grants stands for all: a tree of grants is the set of its  *)
(* paths from the root.                                                    *)
(*                                                                         *)
(* A capability name is a sequence of symbols, of which only the dot and   *)
(* the star mean something to the matcher.                                 *)
(***************************************************************************)
EXTENDS Integers, Sequences

CONSTANTS
  Symbols, Dot, Star,
  Names,        \* the capability names and patterns in use
  MaxHops       \* steps.length may not exceed it (10 in the code)

ASSUME SymbolsAssumption == {Dot, Star} \subseteq Symbols /\ Dot # Star
ASSUME NamesAssumption == Names \subseteq Seq(Symbols)
ASSUME HopsAssumption == MaxHops \in Nat

VARIABLE chain      \* the patterns granted along the chain, root first

TypeOK ==
  /\ chain \in Seq(Names)
  /\ Len(chain) <= MaxHops + 1

Init == chain = << >>

-----------------------------------------------------------------------------
(* The matcher *)

EndsWithDotStar(pattern) ==
  /\ Len(pattern) >= 2
  /\ pattern[Len(pattern) - 1] = Dot
  /\ pattern[Len(pattern)] = Star

EndsWithStar(pattern) == Len(pattern) >= 1 /\ pattern[Len(pattern)] = Star

(* target.startsWith(pattern.slice(0, -1)) *)
StartsWithPrefixOf(target, pattern) ==
  /\ Len(target) >= Len(pattern) - 1
  /\ \A k \in 1..(Len(pattern) - 1) : target[k] = pattern[k]

capabilityMatchesAnywhere(pattern, target) ==    \* mutant: a star ends any prefix
  \/ pattern = target
  \/ EndsWithStar(pattern) /\ StartsWithPrefixOf(target, pattern)

(* Mutant: the level that the code once had, where 'a.**' matched 'a' and all
   that is below it. *)
capabilityMatchesBelow(pattern, target) ==
  \/ pattern = target
  \/ pattern = <<Star>>
  \/ EndsWithDotStar(pattern) /\ StartsWithPrefixOf(target, pattern)
  \/ /\ Len(pattern) >= 3 /\ EndsWithStar(pattern)
     /\ EndsWithDotStar(SubSeq(pattern, 1, Len(pattern) - 1))
     /\ \/ target = SubSeq(pattern, 1, Len(pattern) - 3)
        \/ StartsWithPrefixOf(target, SubSeq(pattern, 1, Len(pattern) - 1))

capabilityMatches(pattern, target) ==
  \/ pattern = target
  \/ pattern = <<Star>>
  \/ EndsWithDotStar(pattern) /\ StartsWithPrefixOf(target, pattern)

-----------------------------------------------------------------------------
(* Handing grants on *)

(* An operator grants a pattern. *)
Grant(p) ==
  /\ chain = << >>
  /\ chain' = <<p>>

WithinHopsPlusOne(steps) == steps <= MaxHops + 1     \* mutant: one hop too many
WithinHops(steps) == steps <= MaxHops

(* The last holder hands on a part of what it holds, which is one step more than
   there are grants below the root. *)
Delegate(p) ==
  /\ chain # << >>
  /\ WithinHops(Len(chain))
  /\ capabilityMatches(chain[Len(chain)], p)
  /\ chain' = Append(chain, p)

Next == \E p \in Names : Grant(p) \/ Delegate(p)

Spec == Init /\ [][Next]_chain

-----------------------------------------------------------------------------
(* Safety *)

(* Authority only narrows: what any grant of the chain permits, every grant
   before it permits, the root included, although each was only compared with
   its parent.  The '.**' level broke this: 'a.*' covers the pattern 'a.**', and
   'a.**' permitted 'a', which 'a.*' does not. *)
AuthorityNarrows ==
  \A i, j \in 1..Len(chain) :
    i <= j =>
      \A c \in Names :
        capabilityMatches(chain[j], c) => capabilityMatches(chain[i], c)

=============================================================================

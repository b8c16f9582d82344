--------------------------- MODULE PerimeterChain ---------------------------
(***************************************************************************)
(* verifyPerimeterChain (src/perimeter.ts): one pass over a chain of       *)
(* perimeter declarations, oldest first, that compares each declaration    *)
(* with the one before it and lists the reasons why the chain does not     *)
(* hold.  A step is one statement group of the function: the empty chain,  *)
(* the genesis, one turn of the loop, the closing check.                   *)
(*                                                                         *)
(* The function only ever looks at neighbours.  What its callers rely on   *)
(* is about the whole chain: one tenant, one subject, and never two        *)
(* perimeters in force at one instant.  The reasons are kept as a set; the *)
(* verdict only depends on whether there are any.                          *)
(***************************************************************************)
EXTENDS Integers, Sequences

CONSTANTS
  Chains,         \* the chains a caller may hand over
  Oids, Tenants,
  SubjectFields,  \* platform, workspace_id, repl_id, deployment_id
  Names,          \* their values, the absent one included
  NoPrev,         \* body.prev is absent
  OpenEnded       \* body.effective_to_ms is absent

Declarations ==
  [oid : Oids, prev : Oids \cup {NoPrev}, tenant : Tenants,
   subject : [SubjectFields -> Names], from : Nat, to : Nat \cup {OpenEnded}]

ASSUME ChainsAssumption == Chains \subseteq Seq(Declarations)
ASSUME AbsentAssumption == NoPrev \notin Oids /\ OpenEnded \notin Nat

Reasons ==
  {"empty-chain", "genesis-carries-prev", "broken-prev-link", "tenant-mismatch",
   "subject-mismatch", "window-not-advancing", "window-overlap", "window-inverted"}

VARIABLES
  chain,      \* the argument
  pc,         \* "start", "loop" or "done"
  i,          \* the loop's index, counted from 1
  reasons     \* the reasons pushed so far

vars == <<chain, pc, i, reasons>>

TypeOK ==
  /\ chain \in Seq(Declarations)
  /\ pc \in {"start", "loop", "done"}
  /\ i \in Nat
  /\ pc # "start" /\ chain # << >> => i \in 2..(Len(chain) + 1)
  /\ reasons \subseteq Reasons

Init ==
  /\ chain \in Chains
  /\ pc = "start"
  /\ i = 2
  /\ reasons = {}

-----------------------------------------------------------------------------
(* The comparisons *)

SameSubject(a, b) == \A f \in SubjectFields : a[f] = b[f]

Inverted(d) == d.to # OpenEnded /\ d.to < d.from

When(defect, reason) == IF defect THEN {reason} ELSE {}

(* One turn of the loop: link against its predecessor. *)
PairReasonsNoOverlap(prevLink, link) ==      \* mutant
  When(link.prev # prevLink.oid, "broken-prev-link")
    \cup When(link.tenant # prevLink.tenant, "tenant-mismatch")
    \cup When(~SameSubject(link.subject, prevLink.subject), "subject-mismatch")
    \cup When(link.from <= prevLink.from, "window-not-advancing")
    \cup When(Inverted(prevLink), "window-inverted")
PairReasons(prevLink, link) ==
  When(link.prev # prevLink.oid, "broken-prev-link")
    \cup When(link.tenant # prevLink.tenant, "tenant-mismatch")
    \cup When(~SameSubject(link.subject, prevLink.subject), "subject-mismatch")
    \cup When(link.from <= prevLink.from, "window-not-advancing")
    \cup When(Inverted(prevLink), "window-inverted")
    \cup When(prevLink.to # OpenEnded /\ prevLink.to > link.from, "window-overlap")

LastReasonsNone(last) == {}                  \* mutant: the loop has seen it all
LastReasons(last) == When(Inverted(last), "window-inverted")

-----------------------------------------------------------------------------
(* The pass *)

(* An empty chain is refused at once. *)
Empty ==
  /\ pc = "start" /\ chain = << >>
  /\ pc' = "done"
  /\ reasons' = {"empty-chain"}
  /\ UNCHANGED <<chain, i>>

Genesis ==
  /\ pc = "start" /\ chain # << >>
  /\ pc' = "loop"
  /\ reasons' = When(chain[1].prev # NoPrev, "genesis-carries-prev")
  /\ UNCHANGED <<chain, i>>

PairSkips ==                                 \* mutant: two declarations a turn
  /\ pc = "loop" /\ i <= Len(chain)
  /\ reasons' = reasons \cup PairReasons(chain[i - 1], chain[i])
  /\ i' = i + 2
  /\ UNCHANGED <<chain, pc>>
Pair ==
  /\ pc = "loop" /\ i <= Len(chain)
  /\ reasons' = reasons \cup PairReasons(chain[i - 1], chain[i])
  /\ i' = i + 1
  /\ UNCHANGED <<chain, pc>>

Last ==
  /\ pc = "loop" /\ i > Len(chain)
  /\ pc' = "done"
  /\ reasons' = reasons \cup LastReasons(chain[Len(chain)])
  /\ UNCHANGED <<chain, i>>

Next == Empty \/ Genesis \/ Pair \/ Last

Spec == Init /\ [][Next]_vars

-----------------------------------------------------------------------------
(* Safety *)

Holds == pc = "done" /\ reasons = {}      \* ok: true

(* The first m declarations of ch belong together: they form one chain of one
   tenant about one subject, and each window that is closed ends, and each
   begins, before or when any later one begins. *)
Coherent(ch, m) ==
  /\ ch[1].prev = NoPrev
  /\ \A k \in 2..m : ch[k].prev = ch[k - 1].oid
  /\ \A j, k \in 1..m :
       /\ ch[j].tenant = ch[k].tenant
       /\ SameSubject(ch[j].subject, ch[k].subject)
       /\ j < k =>
            /\ ch[j].from < ch[k].from
            /\ ~Inverted(ch[j])
            /\ ch[j].to # OpenEnded => ch[j].to <= ch[k].from

(* The verdict is exact: comparing neighbours only, the pass accepts a chain if
   and only if the whole of it is coherent, every pair of declarations
   included, and the last window is not inverted either. *)
VerdictExact ==
  pc = "done" =>
    (reasons = {} <=>
       /\ chain # << >>
       /\ Coherent(chain, Len(chain))
       /\ ~Inverted(chain[Len(chain)]))

(* The instant t is in d's window. *)
Covers(d, t) == d.from <= t /\ (d.to # OpenEnded => t < d.to)

(* A declaration is in force at t if its window holds t and, when it was left
   open-ended, no later declaration has opened: the tests let an open-ended
   declaration be superseded. *)
InForce(j, t) ==
  /\ Covers(chain[j], t)
  /\ chain[j].to = OpenEnded =>
       \A k \in (j + 1)..Len(chain) : t < chain[k].from

(* In a chain that holds, no two perimeters are in force at one instant ("the
   ambiguity a signed scope statement exists to remove"), however far apart
   they stand in the chain. *)
OnePerimeterInForce ==
  Holds =>
    \A j, k \in 1..Len(chain) :
      \A t \in {chain[j].from, chain[k].from} :
        InForce(j, t) /\ InForce(k, t) => j = k

=============================================================================

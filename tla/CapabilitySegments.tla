------------------------- MODULE CapabilitySegments -------------------------
(***************************************************************************)
(* What capabilityMatches is said to match.  Its two comments disagree,    *)
(* with each other and with the code; here each of the three is a rule of  *)
(* its own.  For the code, names are lists of segments, and a pattern      *)
(* whose last segment is a star stands for every name that continues the   *)
(* segments before it.  A list of segments is kept as a function from      *)
(* where each begins to what it says.                                      *)
(***************************************************************************)
EXTENDS CapabilityMatch, FiniteSetsExt

Dots(name) == {k \in 1..Len(name) : name[k] = Dot}
Starts(name) == {1} \cup {k + 1 : k \in Dots(name)}
Ends(name, s) == {k \in Dots(name) \cup {Len(name) + 1} : s <= k}

Segments(name) == [s \in Starts(name) |-> SubSeq(name, s, Min(Ends(name, s)) - 1)]
SegmentsOf == [name \in Names |-> Segments(name)]

Continues(target, segs, end) ==
  /\ end \in DOMAIN target
  /\ \A s \in DOMAIN segs : s < end => s \in DOMAIN target /\ target[s] = segs[s]

Covers(pattern, target) ==
  LET last == Max(DOMAIN pattern) IN
  \/ pattern = target
  \/ /\ pattern[last] = <<Star>>
     /\ last = 1 \/ Continues(target, pattern, last)

(* The comment above the function: "a pattern ending in * matches any target with
   the prefix before *".  Like the matcher it compares names. *)
HeaderRule(pattern, target) ==
  pattern = target \/ (EndsWithStar(pattern) /\ StartsWithPrefixOf(target, pattern))

(* The comment inside it: "direct children only -- single path segment".  Like Covers
   it compares lists of segments. *)
ChildrenRule(pattern, target) ==
  LET last == Max(DOMAIN pattern) IN
  \/ pattern = target
  \/ /\ pattern[last] = <<Star>>
     /\ last = 1 \/ (Continues(target, pattern, last) /\ last = Max(DOMAIN target))

(* A star that is not a segment of its own, as in 'admin.us*'. *)
StarInSegment(name, pattern) == EndsWithStar(name) /\ pattern[Max(DOMAIN pattern)] # <<Star>>

(* A target that goes on after the segment where a star stands. *)
Deeper(pattern, target) == 1 < Max(DOMAIN pattern) /\ Max(DOMAIN pattern) < Max(DOMAIN target)

(* The matcher compares characters and still respects segments: 'platform.*' matches
   neither 'platform' nor 'platformx.read'.  It matches less than the comment above
   it says, by the patterns with a star in a segment and no others ('admin.us*' does
   not match 'admin.users.delete'), and more than the comment inside it says, by
   the targets that go deeper and no others ('platform.*' matches
   'platform.impersonate.start'). *)
MatchesBetweenComments ==
  \A i \in 1..Len(chain) : \A c \in Names :
    LET p == chain[i]
        pattern == SegmentsOf[p]
        target == SegmentsOf[c]
    IN /\ capabilityMatches(p, c) <=> Covers(pattern, target)
       /\ HeaderRule(p, c) <=>
            capabilityMatches(p, c) \/ (StarInSegment(p, pattern) /\ StartsWithPrefixOf(c, p))
       /\ ChildrenRule(pattern, target) <=>
            capabilityMatches(p, c) /\ ~Deeper(pattern, target)

=============================================================================

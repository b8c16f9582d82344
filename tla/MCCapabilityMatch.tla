------------------------- MODULE MCCapabilityMatch -------------------------
(* Capability names: all of at most MaxLength symbols over one letter, the dot
   and the star.  Tool names: a few that are reserved and a few that are not,
   in capitals or not, with white space around them or not, and wildcards; 'gap:' is
   short for one letter and a colon. *)
EXTENDS CapabilitySegments, McpToolNames

CONSTANTS a, A, Colon, MaxLength

ThreeSymbols == {a, Dot, Star}
ShortNames == UNION {[1..n -> ThreeSymbols] : n \in 0..MaxLength}

AllSymbols == ThreeSymbols \cup {A, Colon, Blank}
Cores ==
  {<< >>, <<a>>, <<A>>, <<a, Dot, a>>, <<A, Dot, a>>, <<a, Dot, a, a>>, <<a, Colon, a>>,
   <<A, Colon, a>>, <<a, a, Colon>>, <<a, Blank, Colon>>, <<Star>>, <<a, Dot, Star>>,
   <<A, Dot, Star>>}
PaddedNames == {pre \o core \o post : pre, post \in {<< >>, <<Blank>>}, core \in Cores}
AllNames == ShortNames \cup PaddedNames
LowerCase == [s \in AllSymbols |-> IF s = A THEN a ELSE s]
GapColon == <<a, Colon>>
OneNormative == {<<a, Dot, a>>}

=============================================================================

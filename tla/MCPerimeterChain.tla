-------------------------- MODULE MCPerimeterChain --------------------------
(* PerimeterChain on every chain of at most MaxLength declarations from a set
   that holds every kind of window and every kind of mismatch. *)
EXTENDS PerimeterReading

CONSTANTS oa, ob, oc, here, elsewhere, x, y, absent, shell, proxy, MaxLength, MaxTime

ThreeOids == {oa, ob, oc}
TwoTenants == {here, elsewhere}
Fields == {"platform", "deployment_id"}
ThreeNames == {x, y, absent}

Site(p, d) == [f \in Fields |-> IF f = "platform" THEN p ELSE d]

Decl(o, p, tn, s, f, t) ==
  [oid |-> o, prev |-> p, tenant |-> tn, subject |-> s, from |-> f, to |-> t]

(* Every window, in the three places of one chain... *)
Windows == (0..MaxTime) \X (0..MaxTime \cup {OpenEnded})

Straight ==
  {Decl(op[1], op[2], here, Site(x, absent), w[1], w[2]) :
     op \in {<<oa, NoPrev>>, <<ob, oa>>, <<oc, ob>>}, w \in Windows}

(* ... and declarations that belong to another chain. *)
Stray ==
  {Decl(op[1], op[2], ts[1], ts[2], w[1], w[2]) :
     op \in {<<oa, NoPrev>>, <<ob, oa>>, <<oc, oa>>, <<ob, NoPrev>>},
     ts \in {<<here, Site(x, absent)>>, <<elsewhere, Site(x, absent)>>,
             <<here, Site(x, y)>>, <<here, Site(y, absent)>>},
     w \in {<<1, OpenEnded>>}}

(* Two surfaces: one is in both lists of one declaration, moves to one list of
   another, and is left out of the third. *)
TwoSurfaces == {shell, proxy}
ThreeLists ==
  [o \in ThreeOids |->
     CASE o = oa -> [chokepoints_active |-> <<proxy>>, blind_spots |-> <<shell, proxy>>]
       [] o = ob -> [chokepoints_active |-> << >>, blind_spots |-> <<shell>>]
       [] o = oc -> [chokepoints_active |-> <<shell, shell>>, blind_spots |-> << >>]]

AllChains ==
  UNION {[1..n -> Straight \cup Stray] : n \in 0..MaxLength}

=============================================================================

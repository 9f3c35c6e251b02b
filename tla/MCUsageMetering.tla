-------------------------- MODULE MCUsageMetering --------------------------
(***************************************************************************)
(* A small instance: three units, two of one counter.                      *)
(***************************************************************************)
EXTENDS UsageMetering, TLC

CONSTANTS u1, u2, u3, c1, c2

ThreeUnits == {u1, u2, u3}
TwoCounters == {c1, c2}
UnitCounters == (u1 :> c1) @@ (u2 :> c1) @@ (u3 :> c2)

TwoUnits == {u1, u2}
OneCounter == (u1 :> c1) @@ (u2 :> c1)

Symmetry ==
  Permutations(Slots) \cup Permutations(Workers) \cup Permutations(Events)
=============================================================================

----------------------------- MODULE MCApiKeys -----------------------------
(***************************************************************************)
(* A small instance: one bootstrap key, two applications with a project    *)
(* each, a full grant and two narrower ones.                               *)
(***************************************************************************)
EXTENDS ApiKeys, TLC

CONSTANTS a1, a2, p1, p2

AppProjects == (a1 :> {p1}) @@ (a2 :> {p2})

AllOps == {Needs[o] : o \in Ops}
FullGrant == {[permissions |-> AllOps, projects |-> AllProjects]}

\* The last names a project of the other application.
SomeGrants ==
  FullGrant \cup
  {[permissions |-> AllOps \ {"api-key:delete"}, projects |-> {p1}],
   [permissions |-> {"api-key:create"}, projects |-> {p2}]}

Symmetry == Permutations(Requests)
=============================================================================

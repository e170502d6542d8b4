------------------------------ MODULE FieldGraph ------------------------------
(***************************************************************************)
(* Graphs over the fields of a survey.  An edge <<f, g>>: whether f is     *)
(* shown, or what it offers, depends on g.                                 *)
(***************************************************************************)
CONSTANTS Fields, None   \* None: null

\* Every set of fields has one that depends on no other of the set.
Acyclic(E) ==
    \A S \in SUBSET Fields : S # {} => \E f \in S : \A g \in S : <<f, g>> \notin E

Closed(E, S) == \A f \in S, g \in Fields : <<f, g>> \in E => g \in S

Reachable(E, t) ==
    {f \in Fields : \A S \in SUBSET Fields : t \in S /\ Closed(E, S) => f \in S}

\* What has_cycle(t) answers; module CycleSearch has the search itself.
CycleReachable(E, t) ==
    \E S \in SUBSET Reachable(E, t) : S # {} /\ \A f \in S : \E g \in S : <<f, g>> \in E
=============================================================================

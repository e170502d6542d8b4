-------------------------- MODULE MCSurveyLifecycle --------------------------
(* SurveyLifecycle with two sections, of two fields and one, for TLC. *)
EXTENDS SurveyLifecycle, TLC

CONSTANTS root, s1, s2, f11, f12, f21

ThreeRows == {s1, s2, f11}
ThreeParents == s1 :> root @@ s2 :> root @@ f11 :> s1

FourRows == {s1, s2, f11, f21}
FourParents == s1 :> root @@ s2 :> root @@ f11 :> s1 @@ f21 :> s2

FiveRows == {s1, s2, f11, f12, f21}
FiveParents == s1 :> root @@ s2 :> root @@ f11 :> s1 @@ f12 :> s1 @@ f21 :> s2

WorkerSymmetry == Permutations(Workers)
=============================================================================

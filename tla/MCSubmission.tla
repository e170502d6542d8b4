---------------------------- MODULE MCSubmission ----------------------------
(* Submission for TLC: one section of two fields, two submissions of ann, one of bob. *)
EXTENDS Submission, TLC

CONSTANTS root, s1, f1, f2, p1, p2, p3, ann, bob

MCRows == {s1, f1, f2}
MCParent == s1 :> root @@ f1 :> s1 @@ f2 :> s1

MCUserOf == p1 :> ann @@ p2 :> ann @@ p3 :> bob
MCUserOfTwo == p1 :> ann @@ p2 :> ann
=============================================================================

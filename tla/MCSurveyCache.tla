---------------------------- MODULE MCSurveyCache ----------------------------
(* SurveyCache for TLC. *)
EXTENDS SurveyCache, TLC

AllKinds == Kinds

RequestSymmetry == Permutations(Readers) \cup Permutations(Writers)
=============================================================================

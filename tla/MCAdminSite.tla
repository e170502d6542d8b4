----------------------------- MODULE MCAdminSite -----------------------------
(* Two surveys that share their names for two sections and two fields. *)
EXTENDS AdminSite, TLC

CONSTANTS s1, s2, x1, x2, f1, f2, rule

Names == Permutations({s1, s2}) \cup Permutations({x1, x2}) \cup Permutations({f1, f2})
=============================================================================

---------------------------- MODULE MCRuleBuilder ----------------------------
(* Small instances of RuleBuilder for TLC. *)
EXTENDS RuleSearch, TLC

Symmetry == UNION {Permutations(s) : s \in {Fields, Sections, Ids, Workers}}
=============================================================================

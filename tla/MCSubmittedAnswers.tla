-------------------------- MODULE MCSubmittedAnswers --------------------------
(* A survey of two sections: a choice and a number, then a required list of    *)
(* choices; every pair of the candidate conditions below.                      *)
EXTENDS SubmittedAnswers, FiniteSetsExt, TLC

CONSTANTS survey, s1, s2, choice, number, boxes

MCTexts == {"", "a", "ab", "1", "5", "nan", "[]", "['a']", "['a', 'ab']"}
MCNumber == [t \in MCTexts |-> CASE t = "1" -> 1 [] t = "5" -> 5 [] t = "nan" -> NaN
                                 [] OTHER -> NoNumber]

\* Of the pairs with different texts, those that matter here.
MCSubstrings ==
    {<<t, t>> : t \in MCTexts} \cup {<<"", t>> : t \in MCTexts}
    \cup {<<"a", "ab">>, <<"a", "nan">>, <<"a", "['a']">>, <<"a", "['a', 'ab']">>,
          <<"ab", "['a', 'ab']">>}

Scalar(t) == [text |-> t, list |-> FALSE, items |-> {t}]
List(t, its) == [text |-> t, list |-> TRUE, items |-> its]
Nothing == List("[]", {})
A == List("['a']", {"a"})
AB == List("['a', 'ab']", {"a", "ab"})

MCRows == {s1, s2, choice, number, boxes}
MCParent == (s1 :> survey) @@ (s2 :> survey)
            @@ (choice :> s1) @@ (number :> s1) @@ (boxes :> s2)
MCType == (choice :> "choice") @@ (number :> "number") @@ (boxes :> "checkbox")
MCOptions == (choice :> {"a", "ab"}) @@ (number :> {}) @@ (boxes :> {"a", "ab"})
MCMinOf == (choice :> Root) @@ (number :> 1) @@ (boxes :> Root)
MCMaxOf == (choice :> Root) @@ (number :> 4) @@ (boxes :> Root)
MCPattern == [f \in Fields |-> MCTexts]

MCAnswerSets ==
    {(choice :> c) @@ (number :> n) @@ (boxes :> b) :
        c \in {Missing, Scalar(""), Scalar("a"), Scalar("ab")},
        n \in {Missing, Scalar("1"), Scalar("5"), Scalar("nan"), Scalar("a")},
        b \in {Missing, Scalar("a"), Nothing, A, AB}}

On(src, op, value, sec, fld) ==
    [src |-> src, op |-> op, value |-> value, sec |-> sec, fld |-> fld]

Candidates ==
    {On(choice, "equals", Scalar("a"), Root, number),
     On(choice, "not_equals", Scalar("a"), s2, Root),
     On(choice, "contains", Scalar("a"), s2, Root),
     On(choice, "in", A, Root, boxes),
     On(choice, "in", Scalar("a"), Root, number),
     On(number, "greater_than", Scalar("1"), s2, Root),
     On(number, "less_than", Scalar("5"), Root, boxes),
     On(number, "greater_than", Scalar("1"), s2, boxes)}

Restricts(src, op, value, action, options) ==
    [src |-> src, op |-> op, value |-> value, fld |-> boxes,
     action |-> action, options |-> options]

DependencyCandidates ==
    {Restricts(choice, "equals", Scalar("a"), "show_options", {"a"}),
     Restricts(choice, "contains", Scalar("a"), "show_options", {"ab"}),
     Restricts(number, "greater_than", Scalar("1"), "hide_options", {"ab"}),
     Restricts(number, "equals", Scalar("1"), "set_value", {})}

AtMost(n, S) == UNION {kSubset(k, S) : k \in 0 .. n}
MCRuleSets == AtMost(2, Candidates)
MCDependencySets == AtMost(2, DependencyCandidates)
=============================================================================

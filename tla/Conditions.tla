----------------------------- MODULE Conditions -----------------------------
(***************************************************************************)
(* Conditions over submitted answers: which sections and fields are        *)
(* visible, and which dependencies are active (surveys/services.py).       *)
(* Pure operators; the structure of one survey is given by constants, its  *)
(* rules and dependencies by parameters.                                   *)
(*                                                                         *)
(* A JSON value is what the code can tell of it: the text str() gives,     *)
(* whether it is a list, and the texts of its items (of a scalar: its own  *)
(* text).  Numbers and strings are scalars; a JSON boolean, whose float()  *)
(* differs from that of its text, is left out.                             *)
(***************************************************************************)
EXTENDS Integers

CONSTANTS Texts,        \* the texts that occur
          Number,         \* what float() makes of each text ...
          NaN, NoNumber,  \* ... which may be these
          Substrings,     \* the pairs <<s, t>> with s in t, as Python has it
          Missing,        \* no answer
          Sections, Fields, SectionOf, None

ASSUME ConditionsAssumption ==
    /\ Number \in [Texts -> Int \cup {NaN, NoNumber}]
    /\ NaN \notin Int /\ NoNumber \notin Int
    /\ SectionOf \in [Fields -> Sections]
    /\ Sections \cap Fields = {} /\ None \notin Sections \cup Fields

Values == [text : Texts, list : BOOLEAN, items : SUBSET Texts]

Operators == {"equals", "not_equals", "contains", "greater_than", "less_than", "in"}

\* A rule has a section or a field as target, or both (see RuleBuilder).
Rule == [src : Fields, op : Operators, value : Values,
         sec : Sections \cup {None}, fld : Fields \cup {None}]

Dependency == [src : Fields, op : Operators, value : Values, fld : Fields,
               action : {"show_options", "hide_options", "set_value"},
               options : SUBSET Texts]

ASSUME MissingIsNoValue == Missing \notin Values

\* float(v) for a JSON value: a list is a TypeError.
Float(v) == IF v.list THEN NoNumber ELSE Number[v.text]

\* Comparisons of floats; with NaN, or when float() raises, they do not hold.
Exceeds(x, y) == x \in Int /\ y \in Int /\ x > y

HoldsOf(op, answer, expected) ==
    \/ op = "equals" /\ answer.text = expected.text
    \/ op = "not_equals" /\ answer.text # expected.text
    \/ op = "contains" /\ <<expected.text, answer.text>> \in Substrings
    \/ op = "greater_than" /\ Exceeds(Float(answer), Float(expected))
    \/ op = "less_than" /\ Exceeds(Float(expected), Float(answer))
    \/ op = "in" /\ expected.list /\ answer.text \in expected.items
    \/ op = "in" /\ ~expected.list /\ <<answer.text, expected.text>> \in Substrings

\* A condition on a question that was not answered does not hold, whatever its
\* operator; the answer counts whether or not its field is visible.
Holds(c, answers) ==
    answers[c.src] # Missing /\ HoldsOf(c.op, answers[c.src], c.value)

-----------------------------------------------------------------------------

\* Every rule of the target has to hold.
AllHold(targeting, answers) == \A r \in targeting : Holds(r, answers)

\* No rule, or one that holds.
Shows(targeting, answers) == targeting = {} \/ \E r \in targeting : Holds(r, answers)

SectionRules(rules, s) == {r \in rules : r.sec = s}
FieldRules(rules, f) == {r \in rules : r.fld = f}

VisibleSections(rules, answers) == {s \in Sections : Shows(SectionRules(rules, s), answers)}

\* Of one section, as get_visible_fields is called.
VisibleIn(s, rules, answers) ==
    {f \in Fields : SectionOf[f] = s /\ Shows(FieldRules(rules, f), answers)}

\* The loop over the sections in validate_submission.
VisibleFields(rules, answers) ==
    UNION {VisibleIn(s, rules, answers) : s \in VisibleSections(rules, answers)}

\* Of several active dependencies on one field, only one is kept.
OneModification(deps, answers, f) ==
    LET active == {d \in deps : d.fld = f /\ Holds(d, answers)}
    IN IF active = {} THEN {} ELSE {CHOOSE d \in active : TRUE}

\* resolve_dependencies(...)[f]
Modifications(deps, answers, f) == {d \in deps : d.fld = f /\ Holds(d, answers)}
=============================================================================

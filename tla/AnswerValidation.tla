--------------------------- MODULE AnswerValidation ---------------------------
(***************************************************************************)
(* validate_submission: the visible fields are found, then each is checked *)
(* in the order a Python set happens to give them.  An answer is skipped,  *)
(* kept or an error; one error refuses the whole submission.               *)
(***************************************************************************)
EXTENDS Conditions

CONSTANTS Blank,             \* texts that strip() to nothing
          Type,              \* "number", "choice", "checkbox" or "text"
          Required, Options, \* the columns of a field
          MinOf, MaxOf,          \* of validation_rules; None when there is no such key
          Pattern,           \* the texts that satisfy the field's length and regular
                             \* expression and, for e-mail and date fields, the type's
          RuleSets, DependencySets, AnswerSets   \* what Init chooses from

\* What the columns and the inputs are.
InputsTyped ==
    /\ Blank \subseteq Texts
    /\ Type \in [Fields -> {"number", "choice", "checkbox", "text"}]
    /\ Required \subseteq Fields
    /\ Options \in [Fields -> SUBSET Texts]
    /\ MinOf \in [Fields -> Int \cup {None}] /\ MaxOf \in [Fields -> Int \cup {None}]
    /\ Pattern \in [Fields -> SUBSET Texts]
    /\ RuleSets \subseteq SUBSET Rule
    /\ DependencySets \subseteq SUBSET Dependency
    /\ AnswerSets \subseteq [Fields -> Values \cup {Missing}]

VARIABLES rules, deps, answers,   \* the structure as prefetched, and the submission
          phase,
          visible,                \* all_visible_field_ids
          todo,                   \* those the loop has not reached
          cleaned, errors         \* the fields that are keys of these dictionaries

inputs == <<rules, deps, answers>>
vars == <<rules, deps, answers, phase, visible, todo, cleaned, errors>>

TypeOK ==
    /\ rules \in RuleSets /\ deps \in DependencySets /\ answers \in AnswerSets
    /\ phase \in {"begun", "checking", "accepted", "refused"}
    /\ visible \subseteq Fields
    /\ todo \subseteq visible /\ cleaned \subseteq visible \ todo
    /\ errors \subseteq visible \ todo
    /\ cleaned \cap errors = {}

Init ==
    /\ rules \in RuleSets /\ deps \in DependencySets /\ answers \in AnswerSets
    /\ phase = "begun"
    /\ visible = {} /\ todo = {} /\ cleaned = {} /\ errors = {}

-----------------------------------------------------------------------------
(* The checks of one field *)

Answered(f) == answers[f] # Missing /\ answers[f].text \notin Blank

\* _validate_field_type
FitsType(f, v) ==
    /\ Type[f] = "number" => Number[v.text] # NoNumber
    /\ Type[f] = "choice" => v.text \in Options[f]
    /\ Type[f] = "checkbox" => v.list /\ v.items \subseteq Options[f]

\* _validate_rules; a text that is not a number passes min and max.
FitsRules(f, v) ==
    /\ v.text \in Pattern[f]
    /\ MinOf[f] # None => ~Exceeds(MinOf[f], Number[v.text])
    /\ MaxOf[f] # None => ~Exceeds(Number[v.text], MaxOf[f])

\* _validate_dependency_options; a set_value dependency restricts nothing.
FitsDependencies(f, v) ==
    \A d \in Modifications(deps, answers, f) :
        /\ d.action = "show_options" => v.items \subseteq d.options
        /\ d.action = "hide_options" => v.items \cap d.options = {}

Fits(f, v) == FitsType(f, v) /\ FitsRules(f, v) /\ FitsDependencies(f, v)

-----------------------------------------------------------------------------

FindVisible ==
    /\ phase = "begun"
    /\ visible' = VisibleFields(rules, answers)
    /\ todo' = visible'
    /\ phase' = "checking"
    /\ UNCHANGED <<rules, deps, answers, cleaned, errors>>

SkipBlank(f) ==
    /\ ~Answered(f) /\ f \notin Required
    /\ UNCHANGED <<cleaned, errors>>

\* The loop goes on with a field that has an error.
RejectAndKeep(f) ==
    /\ IF Answered(f) THEN ~Fits(f, answers[f]) ELSE f \in Required
    /\ errors' = errors \cup {f}
    /\ cleaned' = cleaned \cup {f}

Reject(f) ==
    /\ IF Answered(f) THEN ~Fits(f, answers[f]) ELSE f \in Required
    /\ errors' = errors \cup {f}
    /\ UNCHANGED cleaned

Keep(f) ==
    /\ Answered(f) /\ Fits(f, answers[f])
    /\ cleaned' = cleaned \cup {f}
    /\ UNCHANGED errors

CheckField(f) ==
    /\ phase = "checking" /\ f \in todo
    /\ SkipBlank(f) \/ Reject(f) \/ Keep(f)
    /\ todo' = todo \ {f}
    /\ UNCHANGED <<rules, deps, answers, phase, visible>>

Conclude ==
    /\ phase = "checking" /\ todo = {}
    /\ phase' = IF errors = {} THEN "accepted" ELSE "refused"
    /\ UNCHANGED <<rules, deps, answers, visible, todo, cleaned, errors>>

Next == FindVisible \/ (\E f \in Fields : CheckField(f)) \/ Conclude

Spec == Init /\ [][Next]_vars

-----------------------------------------------------------------------------
(* Properties *)

\* models.py, ConditionalRule: elements without rules are always visible, others
\* when any of their rules is satisfied; a field also needs its section.
ShownTo(target) ==
    \/ \A r \in rules : target \notin {r.sec, r.fld}
    \/ \E r \in rules : target \in {r.sec, r.fld} /\ Holds(r, answers)

Shown(f) == ShownTo(f) /\ ShownTo(SectionOf[f])

\* An accepted submission keeps exactly the given answers of the fields shown, in
\* whatever order they were checked, and no required one of these is missing.
KeepsWhatIsShown ==
    phase = "accepted" =>
        /\ cleaned = {f \in Fields : Shown(f) /\ Answered(f)}
        /\ \A f \in Required : Shown(f) => f \in cleaned

\* A submission is refused because of a field the respondent was shown.
RefusedForShownField ==
    phase = "refused" =>
        \E f \in Fields :
            /\ Shown(f)
            /\ IF Answered(f) THEN ~Fits(f, answers[f]) ELSE f \in Required
=============================================================================

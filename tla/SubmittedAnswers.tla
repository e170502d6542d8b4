--------------------------- MODULE SubmittedAnswers ---------------------------
(***************************************************************************)
(* The validation of one submission, step by step: what Submission's       *)
(* Validate chooses between its two outcomes by.  AnswerValidation over    *)
(* the sections and fields of the survey tree; no section or field as a    *)
(* target is a null key, for which Root stands.                            *)
(***************************************************************************)
EXTENDS SurveyTree, Integers

CONSTANTS Texts, Number, NaN, NoNumber, Substrings, Missing,          \* see Conditions
          Blank, Type, Required, Options, MinOf, MaxOf, Pattern,      \* see AnswerValidation
          RuleSets, DependencySets, AnswerSets

VARIABLES rules, deps, given, phase, visible, todo, kept, errors

SectionOf == [f \in Fields |-> Parent[f]]

Validation == INSTANCE AnswerValidation WITH None <- Root, answers <- given, cleaned <- kept

\* What the columns and the inputs are; float() gives a number, or not.
ASSUME ValidationAssumption ==
    /\ Validation!InputsTyped
    /\ Number \in [Texts -> Int \cup {NaN, NoNumber}]
    /\ NaN \notin Int /\ NoNumber \notin Int /\ Missing \notin Validation!Values

ValidationSpec == Validation!Spec

-----------------------------------------------------------------------------
(* Properties *)

\* A field is kept, an error or still to be checked, and never two of these; only
\* the fields that were found visible are.
ValidationTypeOK == Validation!TypeOK

\* The verdict is about the fields the respondent was shown, whatever the rules and
\* the order of the loop: an accepted submission keeps exactly the given answers of
\* the fields shown, and lacks none that is required; a refused one had a fault in a
\* field that was shown.
VerdictMatchesScreen == Validation!KeepsWhatIsShown /\ Validation!RefusedForShownField

\* What is kept of a choice was on offer under every active dependency at once.
KeptWasOffered ==
    phase = "accepted" =>
        \A f \in kept, d \in deps :
            d.fld = f /\ Validation!Holds(d, given) =>
                /\ d.action = "show_options" => given[f].items \subseteq d.options
                /\ d.action = "hide_options" => given[f].items \cap d.options = {}
=============================================================================

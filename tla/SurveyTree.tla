----------------------------- MODULE SurveyTree -----------------------------
(***************************************************************************)
(* The rows below one survey.  A row is a Section (its parent is the       *)
(* survey row, Root) or a Field (its parent is a Section).  A primary key  *)
(* is never handed out twice and a row never changes parent through the    *)
(* API, so a key stands for its parent too: Parent is a constant.          *)
(***************************************************************************)
EXTENDS SurveyStatus

CONSTANTS Rows,    \* keys of survey_sections and survey_fields
          Root,    \* the survey row itself
          Parent   \* the foreign key column of each row

\* Two levels below the survey: models.py Section.survey and Field.section.
ASSUME TreeAssumption ==
    /\ Root \notin Rows
    /\ Parent \in [Rows -> Rows \cup {Root}]
    /\ \A r \in Rows : Parent[r] # Root => Parent[Parent[r]] = Root

\* The survey before its INSERT and after its DELETE is told apart from its rows.
SurveyState == Statuses \cup {"unborn", "deleted"}

Sections == {r \in Rows : Parent[r] = Root}
Fields == Rows \ Sections

\* What on_delete=CASCADE removes with a row; with Root, everything.
Subtree(r) == IF r = Root THEN Rows ELSE {r} \cup {x \in Rows : Parent[x] = r}

\* The sections of live, and whether each of them (and at least one) has a field.
Complete(live) ==
    /\ \E s \in live : Parent[s] = Root
    /\ \A s \in live : Parent[s] = Root => \E f \in live : Parent[f] = s
=============================================================================

---------------------------- MODULE SurveyStatus ----------------------------
(***************************************************************************)
(* The status column of a survey and the transitions of the API.           *)
(***************************************************************************)

\* SurveyStatus.choices: the values of the status column of an existing row.
Statuses == {"draft", "published", "archived"}

\* Survey.ALLOWED_TRANSITIONS
AllowedTransitions ==
    [draft |-> {"published"}, published |-> {"archived"}, archived |-> {}]
=============================================================================

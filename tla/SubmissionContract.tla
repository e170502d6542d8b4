-------------------------- MODULE SubmissionContract --------------------------
(***************************************************************************)
(* What POST /surveys/{id}/submit/ promises: each request is answered      *)
(* once, in one step that stores the whole submission or none of it.       *)
(* Nobody waits, holds a key or remembers what was read before.            *)
(* Submission is checked, and proved, to implement this, however many      *)
(* requests overlap.                                                       *)
(*                                                                         *)
(* The survey is the environment: how its variables change is left open,   *)
(* and only what a deletion takes along is promised.                       *)
(***************************************************************************)
CONSTANTS Posts, UserOf, Fields   \* as in Submission

VARIABLES status, rows, marked, late, undone,   \* the survey
          responses, answers, sealed,   \* the tables
          reply                         \* what each request was answered; "none" before

stored == <<responses, answers, sealed>>
survey == <<status, rows, marked, late, undone>>
contractVars == <<survey, stored, reply>>

Init ==
    /\ responses = {} /\ answers = {} /\ sealed = {}
    /\ reply = [q \in Posts |-> "none"]

AnswerWith(q, r) == reply[q] = "none" /\ reply' = [reply EXCEPT ![q] = r]

\* 201: the user has no response yet, and the response is stored with the answers kept
\* of fields that are there.  A token is stored exactly for the fields that are marked
\* now, but for those that were changed after the publication.
Accept(q) ==
    /\ AnswerWith(q, "accepted")
    /\ \A p \in responses : UserOf[p] # UserOf[q]
    /\ \/ status \in {"published", "archived"}
       \/ status = "draft" /\ undone # {}
    /\ responses' = responses \cup {q}
    /\ \E kept \in SUBSET (Fields \cap rows) : \E tokens \in SUBSET kept :
          /\ \A f \in kept \ late : f \in tokens <=> f \in marked
          /\ answers' = answers \cup ({q} \X kept)
          /\ sealed' = sealed \cup ({q} \X tokens)
    /\ UNCHANGED survey

\* Any other reply stores nothing.  404 is true at that moment, and so is "already
\* submitted", unless rows were deleted under the request.
Refuse(q) ==
    /\ \/ AnswerWith(q, "invalid") \/ AnswerWith(q, "lost")
       \/ AnswerWith(q, "notFound") /\ status # "published"
       \/ /\ AnswerWith(q, "duplicate")
          /\ \/ \E p \in responses : p # q /\ UserOf[p] = UserOf[q]
             \/ status = "deleted" \/ "deletion" \in undone \/ late # {}
    /\ UNCHANGED <<survey, stored>>

\* Whatever happens to the survey and its rows, the tables lose exactly what belongs
\* to the rows that are gone.
SurveyChanges ==
    /\ responses' = IF status' = "deleted" THEN {} ELSE responses
    /\ answers' = {a \in answers : a[1] \in responses' /\ a[2] \in rows'}
    /\ sealed' = sealed \cap answers'
    /\ UNCHANGED reply

Next == SurveyChanges \/ \E q \in Posts : Accept(q) \/ Refuse(q)

Spec == Init /\ [][Next]_contractVars
=============================================================================

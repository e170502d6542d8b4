----------------------------- MODULE Submission -----------------------------
(***************************************************************************)
(* POST /surveys/{id}/submit/: each submission reads the survey, its       *)
(* fields and its structure in separate statements and then writes one     *)
(* transaction.  Several submissions, also of one user, run at once, while *)
(* the administrators' requests (SurveyEnvironment) archive or delete the  *)
(* survey.  These overlap too (SurveyLifecycle): a structure request that  *)
(* passed its draft check before the publication may land after it, and a  *)
(* PATCH may write back an old copy of the survey; late and undone         *)
(* remember the rows and the writes so affected.                           *)
(*                                                                         *)
(* The marked bit of a field is its is_encrypted column.  Which answers    *)
(* are visible and valid is a choice here (module Conditions has the       *)
(* rules): any subset of the offered answers, or a refusal.                *)
(***************************************************************************)
EXTENDS SurveyTree

CONSTANTS Posts,    \* the POST requests
          Users,
          UserOf,   \* the authenticated user of each request
          LateRows, \* bound: the rows that late structure requests name
          Undoings  \* bound: what stale copies of the survey row undo

ASSUME PostsAssumption ==
    /\ UserOf \in [Posts -> Users]
    /\ LateRows \subseteq Rows /\ Undoings \subseteq {"status", "deletion"}

VARIABLES status, rows, issued, marked,  \* as in SurveyEnvironment
          late,        \* history: rows added, edited or dropped out of the first draft
          undone,      \* history: stale copies undid a change of status, or the deletion
          responses,   \* committed survey_responses rows, named by their POST
          answers,     \* committed field_responses rows: <<post, field>>
          sealed,      \* the answers whose stored value is a Fernet token
          post         \* what each request holds in memory

survey == <<status, rows, issued, marked, late, undone>>
stored == <<responses, answers, sealed>>
vars == <<survey, stored, post>>

Survey == INSTANCE SurveyEnvironment

\* lost: the worker was killed, or dispatching the audit task of the new response
\* raised, which rolls the transaction back and is answered 500.
Replies == {"accepted", "duplicate", "invalid", "notFound", "lost"}
Locations == {"new", "exist", "fields", "validate", "insert", "inserted"} \cup Replies

PostState ==
    [pc      : Locations,
     offered : SUBSET Fields,   \* the field ids of the body
     secret  : SUBSET Fields,   \* survey_fields that are is_encrypted, as read
     cleaned : SUBSET Fields]   \* what validate_submission returned

New == [pc |-> "new", offered |-> {}, secret |-> {}, cleaned |-> {}]

TypeOK ==
    /\ status \in SurveyState
    /\ rows \subseteq Rows
    /\ issued \subseteq Rows
    /\ marked \subseteq rows
    /\ rows \subseteq issued
    /\ late \subseteq Rows
    /\ undone \subseteq {"status", "deletion"}
    /\ responses \subseteq Posts
    /\ answers \subseteq Posts \X Fields
    /\ sealed \subseteq answers
    /\ post \in [Posts -> PostState]

Init ==
    /\ Survey!Init
    /\ late = {}
    /\ undone = {}
    /\ responses = {}
    /\ answers = {}
    /\ sealed = {}
    /\ post = [q \in Posts |-> New]

At(q, location) == post[q].pc = location
Reply(q, reply) == post' = [post EXCEPT ![q] = [New EXCEPT !.pc = reply]]

-----------------------------------------------------------------------------
(* The administrators' side. *)

\* The cascade stops at the fields.
CascadeRowsOnly ==
    /\ responses' = IF status' = "deleted" THEN {} ELSE responses
    /\ answers' = {a \in answers : a[1] \in responses'}
    /\ sealed' = sealed \cap answers'

\* on_delete=CASCADE reaches the responses and the answers as well.
Cascade ==
    /\ responses' = IF status' = "deleted" THEN {} ELSE responses
    /\ answers' = {a \in answers : a[1] \in responses' /\ a[2] \in rows'}
    /\ sealed' = sealed \cap answers'

FirstDraft == status = "draft" /\ undone = {}

\* A request that nothing overtook; of a publication, at least the status was right.
Administer ==
    /\ \/ Survey!Advance \/ Survey!Delete
       \/ FirstDraft /\ \E r \in Rows : Survey!Change(r)
    /\ Cascade
    /\ UNCHANGED <<late, undone, post>>

Touched == {r \in Rows : (r \in rows) # (r \in rows') \/ (r \in marked) # (r \in marked')}

\* The draft check was made before the publication, or saw an old status put back.
LateRequest(r) ==
    /\ ~FirstDraft
    /\ Survey!Change(r)
    /\ late' = late \cup Touched
    /\ Cascade
    /\ UNCHANGED <<undone, post>>

\* serializer.save() or transition_to() with a copy of the row that is out of date.
SaveStaleCopy ==
    /\ Survey!Overwrite
    /\ undone' = undone \cup {IF status = "deleted" THEN "deletion" ELSE "status"}
    /\ undone' \subseteq Undoings
    /\ Cascade
    /\ UNCHANGED <<late, post>>

-----------------------------------------------------------------------------
(* SurveySubmitView.post *)

MaySubmitAlways(st) == st \in Statuses

MaySubmit(st) == st = "published"

\* The proxy sends a request again whose worker was lost.
GetSurveyAgain(q) ==
    /\ At(q, "new") \/ At(q, "lost")
    /\ IF MaySubmit(status)
       THEN \E offered \in SUBSET (Fields \cap issued) :
               post' = [post EXCEPT ![q].pc = "exist", ![q].offered = offered]
       ELSE Reply(q, "notFound")
    /\ UNCHANGED <<survey, stored>>

\* get_object_or_404(Survey, pk=..., status=PUBLISHED)
GetSurvey(q) ==
    /\ At(q, "new")
    /\ IF MaySubmit(status)
       THEN \E offered \in SUBSET (Fields \cap issued) :
               post' = [post EXCEPT ![q].pc = "exist", ![q].offered = offered]
       ELSE Reply(q, "notFound")
    /\ UNCHANGED <<survey, stored>>

\* SurveySubmissionSerializer.validate_answers: every field id exists.
CheckFieldsExist(q) ==
    /\ At(q, "exist")
    /\ IF post[q].offered \subseteq rows
       THEN post' = [post EXCEPT ![q].pc = "fields"]
       ELSE Reply(q, "invalid")
    /\ UNCHANGED <<survey, stored>>

\* survey_fields, with the is_encrypted flags that create_submission will use.
ReadFields(q) ==
    /\ At(q, "fields")
    /\ IF post[q].offered \subseteq rows
       THEN post' = [post EXCEPT ![q].pc = "validate", ![q].secret = marked \cap Fields]
       ELSE Reply(q, "invalid")
    /\ UNCHANGED <<survey, stored>>

\* validate_submission reads the structure again and keeps visible answers.
Validate(q) ==
    /\ At(q, "validate")
    /\ \/ \E cleaned \in SUBSET (post[q].offered \cap rows) :
             post' = [post EXCEPT ![q].pc = "insert", ![q].offered = {},
                                  ![q].cleaned = cleaned]
       \/ Reply(q, "invalid")
    /\ UNCHANGED <<survey, stored>>

SameUser(p, q) == p # q /\ UserOf[p] = UserOf[q]

\* An index that looks at the rows of open transactions only at their commit.
KeyNeverHeld(q) == FALSE

\* A pending row would be waited for also after it has been committed.
KeyHeldForEver(q) == \E p \in Posts : SameUser(p, q) /\ post[p].pc \in {"inserted", "accepted"}

\* The unique index on (survey, user): an open transaction that holds the key
\* is waited for, a committed row is a conflict.
KeyHeld(q) == \E p \in Posts : SameUser(p, q) /\ At(p, "inserted")
KeyTaken(q) == \E p \in responses : SameUser(p, q)

\* SurveyResponse.objects.create(...) opens the transaction.
InsertResponse(q) ==
    /\ At(q, "insert")
    /\ ~KeyHeld(q)
    /\ IF KeyTaken(q)
       THEN Reply(q, "duplicate")
       ELSE post' = [post EXCEPT ![q].pc = "inserted"]
    /\ UNCHANGED <<survey, stored>>

\* The transaction stays open when the encryption fails.
EncryptionFailsAfterCommit(q) ==
    /\ At(q, "inserted")
    /\ post[q].cleaned \cap post[q].secret # {}
    /\ Reply(q, "invalid")
    /\ responses' = responses \cup {q}
    /\ UNCHANGED <<survey, answers, sealed>>

\* encrypt_value raises (a bad or missing key): the transaction is rolled back.
EncryptionFails(q) ==
    /\ At(q, "inserted")
    /\ post[q].cleaned \cap post[q].secret # {}
    /\ Reply(q, "invalid")
    /\ UNCHANGED <<survey, stored>>

\* The deferred foreign keys are checked at COMMIT.
ReferencesExist(q) == Survey!Exists(Root) /\ post[q].cleaned \subseteq rows

\* The values are stored as they were sent.
CommitPlain(q) ==
    /\ At(q, "inserted")
    /\ ReferencesExist(q)
    /\ responses' = responses \cup {q}
    /\ answers' = answers \cup ({q} \X post[q].cleaned)
    /\ post' = [post EXCEPT ![q].pc = "accepted", ![q].secret = {}]
    /\ UNCHANGED <<survey, sealed>>

\* The loop encrypts every is_encrypted field of the survey, answered or not.
CommitSealingUnanswered(q) ==
    /\ At(q, "inserted")
    /\ ReferencesExist(q)
    /\ responses' = responses \cup {q}
    /\ answers' = answers \cup ({q} \X post[q].cleaned)
    /\ sealed' = sealed \cup ({q} \X post[q].secret)
    /\ post' = [post EXCEPT ![q].pc = "accepted", ![q].secret = {}]
    /\ UNCHANGED survey

\* create_submission: one transaction for the response and all its answers.
Commit(q) ==
    /\ At(q, "inserted")
    /\ ReferencesExist(q)
    /\ responses' = responses \cup {q}
    /\ answers' = answers \cup ({q} \X post[q].cleaned)
    /\ sealed' = sealed \cup ({q} \X (post[q].cleaned \cap post[q].secret))
    /\ post' = [post EXCEPT ![q].pc = "accepted", ![q].secret = {}]
    /\ UNCHANGED survey

\* Every IntegrityError is reported as a second submission.
CommitFails(q) ==
    /\ At(q, "inserted")
    /\ ~ReferencesExist(q)
    /\ Reply(q, "duplicate")
    /\ UNCHANGED <<survey, stored>>

\* Gunicorn kills a worker that is over its timeout: PostgreSQL rolls the open
\* transaction back.  A kill after COMMIT only loses the reply, and is "accepted".
Crash(q) ==
    /\ ~At(q, "new")
    /\ post[q].pc \notin Replies
    /\ Reply(q, "lost")
    /\ UNCHANGED <<survey, stored>>

Step(q) ==
    \/ GetSurvey(q) \/ CheckFieldsExist(q) \/ ReadFields(q) \/ Validate(q)
    \/ InsertResponse(q) \/ EncryptionFails(q) \/ Commit(q) \/ CommitFails(q)

\* Every request has been answered and the survey is gone: nothing is left to do.
Quiescent ==
    /\ status = "deleted"
    /\ \A q \in Posts : post[q].pc \in Replies
    /\ UNCHANGED vars

Next ==
    \/ Administer
    \/ \E r \in LateRows : LateRequest(r)
    \/ SaveStaleCopy
    \/ \E q \in Posts : Step(q) \/ Crash(q)
    \/ Quiescent

Spec == Init /\ [][Next]_vars

\* A worker that has started on a request goes on with it (or is killed: Crash may
\* happen but is not relied upon); the database ends a wait for an index key when
\* the transaction that holds it ends.
FairSpec == Spec /\ \A q \in Posts : WF_vars(~At(q, "new") /\ Step(q))

-----------------------------------------------------------------------------
(* Properties *)

\* "Each user can submit only once per survey" (docs/api-reference.md:366),
\* also when two requests of a user pass every check at the same time.
OneResponsePerUser == \A p, q \in responses : UserOf[p] = UserOf[q] => p = q

SurveyWasDeleted == status = "deleted" \/ "deletion" \in undone

\* The answer the user got agrees with the tables: 201 means that the response
\* and all its answers are there, except for what was deleted since; any other
\* reply (a failed encryption or commit, a killed worker) leaves nothing; and no answer
\* lacks its response or its field.
ReplyMatchesStore ==
    /\ \A q \in Posts : At(q, "accepted") /\ ~SurveyWasDeleted =>
          q \in responses /\ \A f \in post[q].cleaned \cap rows : <<q, f>> \in answers
    /\ \A q \in responses : At(q, "accepted")
    /\ \A a \in answers : a[1] \in responses /\ a[2] \in post[a[1]].cleaned \cap rows

\* No response belongs to a survey that was never published or no longer exists,
\* although the status is read in the first statement and never again; unless a stale
\* copy put an old status back.
ResponsesOnlyAfterPublication ==
    responses # {} =>
        \/ status \in {"published", "archived"}
        \/ status = "draft" /\ undone # {}

\* Answers of an is_encrypted field are stored encrypted and the others are not
\* (the reader decrypts by the flag the field has then), unless the field was
\* changed after the publication.
EncryptedUnlessLate ==
    \A a \in answers : a[2] \notin late => (a \in sealed <=> a[2] \in marked)

\* "You have already submitted" is true, unless rows were deleted under the
\* request: a missing foreign key is reported by the same message.
DuplicateReplyIsTrue ==
    \A q \in Posts : At(q, "duplicate") => KeyTaken(q) \/ SurveyWasDeleted \/ late # {}

Answered == [q \in Posts |-> IF post[q].pc \in Replies THEN post[q].pc ELSE "none"]

Contract == INSTANCE SubmissionContract WITH reply <- Answered

\* The statements of one request, interleaved with those of other requests and of the
\* administrators, amount to one step that answers it: nothing of a submission is seen
\* before it is accepted, or stays when it is not, and no answer is taken back.
ImplementsSubmissionContract == Contract!Spec

\* What the customer is told is true of the tables, whichever reply it is.
RepliesAreTrue == ReplyMatchesStore /\ DuplicateReplyIsTrue

\* Every submission that was begun comes to an end, those included that wait for
\* the index key of another one, also when the holder of the key is killed.
EverySubmissionAnswered ==
    \A q \in Posts : ~At(q, "new") ~> post[q].pc \in Replies
=============================================================================

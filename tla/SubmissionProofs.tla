--------------------------- MODULE SubmissionProofs ---------------------------
(***************************************************************************)
(* Theorems about Submission, for every set of requests and users, every   *)
(* tree of rows and every set of late rows.                                *)
(***************************************************************************)
EXTENDS Submission, SubmittedAnswers, TLAPS

InFlight == {"exist", "fields", "validate", "insert", "inserted"}

\* The survey has left its first draft: it was published, or a stale copy was saved.
Begun == status # "unborn" /\ ~FirstDraft

-----------------------------------------------------------------------------
(* The inductive invariant, in the parts the theorems need. *)

\* A request past its first statement found the survey published, and there is no way
\* back into the first draft.
BegunAfterPublication ==
    \A q \in Posts : post[q].pc \in InFlight => Begun

\* The unique index: while a request holds the key, no other row of the user exists.
KeyExclusive ==
    \A p, q \in Posts : SameUser(p, q) /\ At(p, "inserted") =>
        ~At(q, "inserted") /\ q \notin responses

\* The flags in memory are still those of the rows that no late request touched.
SecretsCurrent ==
    \A q \in Posts : post[q].pc \in {"validate", "insert", "inserted"} =>
        \A f \in (Fields \cap rows) \ late : f \in post[q].secret <=> f \in marked

\* The answers to be stored have their fields unless something was deleted.
CleanedIntact ==
    \A q \in Posts :
        /\ post[q].cleaned \subseteq issued
        /\ At(q, "insert") \/ At(q, "inserted") =>
              post[q].cleaned \subseteq rows \/ SurveyWasDeleted \/ late # {}

SubmissionInv ==
    /\ TypeOK
    /\ BegunAfterPublication
    /\ ResponsesOnlyAfterPublication
    /\ OneResponsePerUser
    /\ KeyExclusive
    /\ ReplyMatchesStore
    /\ SecretsCurrent
    /\ EncryptedUnlessLate
    /\ CleanedIntact
    /\ DuplicateReplyIsTrue

LEMMA InitInv == Init => SubmissionInv
<1> SUFFICES ASSUME Init PROVE SubmissionInv
  OBVIOUS
<1>1. TypeOK
  BY DEF Init, Survey!Init, TypeOK, SurveyState, New, PostState, Locations
<1>2. /\ BegunAfterPublication /\ ResponsesOnlyAfterPublication /\ OneResponsePerUser
      /\ KeyExclusive /\ ReplyMatchesStore /\ SecretsCurrent /\ EncryptedUnlessLate
      /\ CleanedIntact /\ DuplicateReplyIsTrue
  BY DEF Init, New, InFlight, At, BegunAfterPublication, ResponsesOnlyAfterPublication,
         OneResponsePerUser, KeyExclusive, ReplyMatchesStore, SecretsCurrent,
         EncryptedUnlessLate, CleanedIntact, DuplicateReplyIsTrue
<1> QED BY <1>1, <1>2 DEF SubmissionInv

-----------------------------------------------------------------------------
(* The administrators' steps *)

\* What the environment may do to the survey, and what the histories keep of it.
Recorded ==
    /\ status' \in SurveyState
    /\ issued \subseteq issued' /\ issued' \subseteq Rows
    /\ rows' \subseteq issued' /\ marked' \subseteq rows' /\ rows' \cap issued \subseteq rows
    /\ late \subseteq late' /\ late' \subseteq Rows
    /\ undone' \subseteq {"status", "deletion"}
    /\ SurveyWasDeleted => SurveyWasDeleted'
    /\ Begun =>
          /\ Begun'
          /\ \/ status' = "deleted" /\ rows' = {}
             \/ \A r \in Rows \ late' : /\ r \in rows' <=> r \in rows
                                        /\ r \in marked' <=> r \in marked

LEMMA ChangeRow ==
    ASSUME TypeOK, NEW r \in Rows, Survey!Change(r)
    PROVE  /\ status' = status
           /\ issued \subseteq issued' /\ issued' \subseteq Rows
           /\ rows' \subseteq issued' /\ marked' \subseteq rows' /\ rows' \cap issued \subseteq rows
<1>1. CASE Survey!Add(r)
  BY <1>1 DEF TypeOK, Survey!Add
<1>2. CASE Survey!Edit(r)
  BY <1>2 DEF TypeOK, Survey!Edit
<1>3. CASE Survey!Drop(r)
  BY <1>3 DEF TypeOK, Survey!Drop
<1> QED BY <1>1, <1>2, <1>3 DEF Survey!Change

\* The three actions of the administrators' side keep that promise.
LEMMA StepRecorded ==
    ASSUME TypeOK, Administer \/ SaveStaleCopy \/ \E r \in LateRows : LateRequest(r)
    PROVE  Recorded /\ Cascade /\ UNCHANGED post
<1>0. /\ Cascade /\ UNCHANGED post
      /\ status \in SurveyState /\ rows \subseteq issued /\ issued \subseteq Rows
      /\ marked \subseteq rows /\ late \subseteq Rows /\ undone \subseteq {"status", "deletion"}
  BY DEF Administer, SaveStaleCopy, LateRequest, TypeOK
<1>1. CASE Survey!Advance /\ UNCHANGED <<late, undone>>
  <2>1. /\ UNCHANGED <<rows, issued, marked>> /\ status # "deleted"
        /\ status' \in Statuses /\ (status # "unborn" => status' # "draft")
    BY <1>1 DEF Survey!Advance, Survey!Forward, Survey!Statuses, Statuses
  <2>2. (Begun => Begun') /\ (SurveyWasDeleted => SurveyWasDeleted')
    BY <1>1, <2>1 DEF Begun, FirstDraft, SurveyWasDeleted, Statuses
  <2> QED BY <1>0, <1>1, <2>1, <2>2 DEF Recorded, SurveyState
<1>2. CASE Survey!Delete /\ UNCHANGED <<late, undone>>
  <2>1. status' = "deleted" /\ rows' = {} /\ marked' = {} /\ issued' = issued
    BY <1>2 DEF Survey!Delete
  <2>2. Begun' /\ SurveyWasDeleted'
    BY <2>1 DEF Begun, FirstDraft, SurveyWasDeleted
  <2> QED BY <1>0, <1>2, <2>1, <2>2 DEF Recorded, SurveyState
<1>3. CASE SaveStaleCopy
  <2>1. /\ UNCHANGED <<rows, issued, marked, late>> /\ status' \in Statuses
        /\ undone \subseteq undone' /\ undone' # {} /\ undone' \subseteq {"status", "deletion"}
        /\ status = "deleted" => "deletion" \in undone'
    BY <1>3, PostsAssumption DEF SaveStaleCopy, Survey!Overwrite, Survey!Statuses, Statuses
  <2>2. Begun' /\ (SurveyWasDeleted => SurveyWasDeleted')
    BY <2>1 DEF Begun, FirstDraft, SurveyWasDeleted, Statuses
  <2> QED BY <1>0, <2>1, <2>2 DEF Recorded, SurveyState
<1>4. ASSUME FirstDraft, NEW r \in Rows, Survey!Change(r), UNCHANGED <<late, undone>>
      PROVE  Recorded
  BY <1>0, <1>4, ChangeRow DEF Recorded, Begun, FirstDraft, SurveyWasDeleted
<1>5. ASSUME NEW r \in LateRows, LateRequest(r)
      PROVE  Recorded
  <2>1. r \in Rows /\ Survey!Change(r) /\ late' = late \cup Touched /\ undone' = undone
    BY <1>5, PostsAssumption DEF LateRequest
  <2>2. \A x \in Rows \ late' : /\ x \in rows' <=> x \in rows
                                /\ x \in marked' <=> x \in marked
    BY <2>1 DEF Touched
  <2> QED BY <1>0, <2>1, <2>2, ChangeRow DEF Recorded, Begun, FirstDraft, SurveyWasDeleted, Touched
<1> QED BY <1>0, <1>1, <1>2, <1>3, <1>4, <1>5 DEF Administer

\* What is recorded is enough for the requests in progress and for what is stored.
LEMMA SurveyInv ==
    ASSUME SubmissionInv, Recorded, Cascade, UNCHANGED post
    PROVE  SubmissionInv'
<1>0. /\ TypeOK /\ BegunAfterPublication /\ ResponsesOnlyAfterPublication
      /\ OneResponsePerUser /\ KeyExclusive /\ ReplyMatchesStore /\ SecretsCurrent
      /\ EncryptedUnlessLate /\ CleanedIntact /\ DuplicateReplyIsTrue
  BY DEF SubmissionInv
<1>1. /\ post' = post
      /\ responses' = IF status' = "deleted" THEN {} ELSE responses
      /\ answers' = {a \in answers : a[1] \in responses' /\ a[2] \in rows'}
      /\ sealed' = sealed \cap answers'
  BY DEF Cascade
<1>2. responses # {} => Begun /\ status \in {"draft", "published", "archived"}
  BY <1>0 DEF ResponsesOnlyAfterPublication, Begun, FirstDraft
<1>3. TypeOK'
  BY <1>0, <1>1 DEF TypeOK, Recorded
<1>4. BegunAfterPublication'
  BY <1>0, <1>1 DEF BegunAfterPublication, Recorded
<1>5. ResponsesOnlyAfterPublication'
  BY <1>1, <1>2 DEF ResponsesOnlyAfterPublication, Recorded, Begun, FirstDraft, SurveyState, Statuses
<1>6. OneResponsePerUser' /\ KeyExclusive'
  BY <1>0, <1>1 DEF OneResponsePerUser, KeyExclusive, At, SameUser
<1>7. ReplyMatchesStore'
  <2>1. \A q \in Posts : At(q, "accepted") /\ ~SurveyWasDeleted' =>
           q \in responses' /\ \A f \in post[q].cleaned \cap rows' : <<q, f>> \in answers'
    <3> SUFFICES ASSUME NEW q \in Posts, At(q, "accepted"), ~SurveyWasDeleted'
                 PROVE  q \in responses' /\ \A f \in post[q].cleaned \cap rows' : <<q, f>> \in answers'
      OBVIOUS
    <3>1. ~SurveyWasDeleted /\ status' # "deleted"
      BY DEF Recorded, SurveyWasDeleted
    <3>2. q \in responses /\ \A f \in post[q].cleaned \cap rows : <<q, f>> \in answers
      BY <1>0, <3>1 DEF ReplyMatchesStore
    <3>3. post[q].cleaned \cap rows' \subseteq rows
      BY <1>0 DEF CleanedIntact, Recorded
    <3> QED BY <1>1, <3>1, <3>2, <3>3
  <2>2. \A q \in responses' : At(q, "accepted")
    BY <1>0, <1>1 DEF ReplyMatchesStore
  <2>3. \A a \in answers' : a[1] \in responses' /\ a[2] \in post[a[1]].cleaned \cap rows'
    BY <1>0, <1>1 DEF ReplyMatchesStore
  <2> QED BY <1>1, <2>1, <2>2, <2>3 DEF ReplyMatchesStore, At
<1>8. SecretsCurrent'
  <2> SUFFICES ASSUME NEW q \in Posts, post[q].pc \in {"validate", "insert", "inserted"},
                      NEW f \in (Fields \cap rows') \ late'
               PROVE  f \in post[q].secret <=> f \in marked'
    BY <1>1 DEF SecretsCurrent
  <2>1. Begun /\ f \in Rows /\ f \notin late
    BY <1>0 DEF BegunAfterPublication, InFlight, Fields, Recorded
  <2>2. f \in rows /\ (f \in marked' <=> f \in marked)
    BY <2>1 DEF Recorded
  <2> QED BY <1>0, <2>1, <2>2 DEF SecretsCurrent
<1>9. EncryptedUnlessLate'
  <2> SUFFICES ASSUME NEW a \in answers', a[2] \notin late'
               PROVE  a \in sealed' <=> a[2] \in marked'
    BY DEF EncryptedUnlessLate
  <2>1. a \in answers /\ a[2] \notin late /\ status' # "deleted" /\ Begun /\ a[2] \in Rows
    BY <1>0, <1>1, <1>2 DEF Recorded, TypeOK, Fields
  <2>2. a[2] \in marked' <=> a[2] \in marked
    BY <2>1 DEF Recorded
  <2> QED BY <1>0, <1>1, <2>1, <2>2 DEF EncryptedUnlessLate
<1>10. CleanedIntact'
  <2>1. \A q \in Posts : post[q].cleaned \subseteq issued'
    BY <1>0 DEF CleanedIntact, Recorded
  <2>2. ASSUME NEW q \in Posts, At(q, "insert") \/ At(q, "inserted")
        PROVE  post[q].cleaned \subseteq rows' \/ SurveyWasDeleted' \/ late' # {}
    <3>1. Begun
      BY <1>0, <2>2 DEF BegunAfterPublication, InFlight, At
    <3>2. post[q].cleaned \subseteq rows \/ SurveyWasDeleted \/ late # {}
      BY <1>0, <2>2 DEF CleanedIntact
    <3>3. status' = "deleted" \/ late' # {} \/ rows \subseteq rows'
      BY <1>0, <3>1 DEF Recorded, TypeOK
    <3> QED BY <3>2, <3>3 DEF Recorded, SurveyWasDeleted
  <2> QED BY <1>1, <2>1, <2>2 DEF CleanedIntact, At
<1>11. DuplicateReplyIsTrue'
  <2>1. ASSUME NEW q \in Posts, At(q, "duplicate")
        PROVE  KeyTaken(q)' \/ SurveyWasDeleted' \/ late' # {}
    <3>1. KeyTaken(q) \/ SurveyWasDeleted \/ late # {}
      BY <1>0, <2>1 DEF DuplicateReplyIsTrue
    <3>2. KeyTaken(q) => KeyTaken(q)' \/ status' = "deleted"
      BY <1>1 DEF KeyTaken
    <3> QED BY <3>1, <3>2 DEF Recorded, SurveyWasDeleted
  <2> QED BY <1>1, <2>1 DEF DuplicateReplyIsTrue, At
<1> QED BY <1>3, <1>4, <1>5, <1>6, <1>7, <1>8, <1>9, <1>10, <1>11 DEF SubmissionInv

\* Nothing that the environment may do is left out here: from every state, each of its
\* steps is one of the three actions, when no bound is set on what comes late.
LEMMA NothingLeftOut ==
    ASSUME LateRows = Rows, Undoings = {"status", "deletion"}, TypeOK, Survey!Next, Cascade,
           late' = IF FirstDraft \/ status' # status THEN late ELSE late \cup Touched,
           undone' = IF Survey!Overwrite
                     THEN undone \cup {IF status = "deleted" THEN "deletion" ELSE "status"}
                     ELSE undone,
           UNCHANGED post
    PROVE  Administer \/ SaveStaleCopy \/ \E r \in LateRows : LateRequest(r)
<1>1. CASE Survey!Overwrite
  <2>1. status' # status
    BY <1>1 DEF Survey!Overwrite
  <2> QED BY <1>1, <2>1 DEF SaveStaleCopy, TypeOK
<1>2. CASE (Survey!Advance \/ Survey!Delete) /\ ~Survey!Overwrite
  <2>1. status' # status
    BY <1>2 DEF Survey!Advance, Survey!Delete, Survey!Forward, Survey!Statuses
  <2> QED BY <1>2, <2>1 DEF Administer
<1>3. ASSUME NEW r \in Rows, Survey!Change(r), ~Survey!Overwrite
      PROVE  Administer \/ LateRequest(r)
  <2>1. status' = status
    BY <1>3, ChangeRow
  <2> QED BY <1>3, <2>1 DEF Administer, LateRequest
<1> QED BY <1>1, <1>2, <1>3 DEF Survey!Next

-----------------------------------------------------------------------------
(* The submission requests *)

\* A step that changes only what one request holds in memory keeps the invariant
\* when the new local state s is justified by the tables.
LEMMA MemoryStepInv ==
    ASSUME SubmissionInv, NEW q \in Posts, NEW s \in PostState,
           post' = [post EXCEPT ![q] = s],
           UNCHANGED <<survey, stored>>,
           ~At(q, "accepted"), s.pc # "accepted",
           s.pc \in InFlight => Begun,
           s.pc = "inserted" => ~KeyHeld(q) /\ ~KeyTaken(q),
           s.pc \in {"validate", "insert", "inserted"} =>
               \A f \in (Fields \cap rows) \ late : f \in s.secret <=> f \in marked,
           s.cleaned \subseteq issued,
           s.pc \in {"insert", "inserted"} =>
               s.cleaned \subseteq rows \/ SurveyWasDeleted \/ late # {},
           s.pc = "duplicate" => KeyTaken(q) \/ SurveyWasDeleted \/ late # {}
    PROVE  SubmissionInv'
<1>0. /\ TypeOK /\ BegunAfterPublication /\ ResponsesOnlyAfterPublication
      /\ OneResponsePerUser /\ KeyExclusive /\ ReplyMatchesStore /\ SecretsCurrent
      /\ EncryptedUnlessLate /\ CleanedIntact /\ DuplicateReplyIsTrue
  BY DEF SubmissionInv
<1>1. /\ UNCHANGED <<status, rows, issued, marked, late, undone, responses, answers, sealed>>
      /\ post'[q] = s
      /\ \A p \in Posts \ {q} : post'[p] = post[p]
  BY <1>0 DEF survey, stored, TypeOK
<1>2. q \notin responses /\ \A a \in answers : a[1] # q
  BY <1>0 DEF ReplyMatchesStore
<1>3. TypeOK'
  BY <1>0, <1>1 DEF TypeOK
<1>4. BegunAfterPublication'
  BY <1>0, <1>1 DEF BegunAfterPublication, Begun, FirstDraft
<1>5. ResponsesOnlyAfterPublication' /\ OneResponsePerUser'
  BY <1>0, <1>1 DEF ResponsesOnlyAfterPublication, OneResponsePerUser
<1>6. KeyExclusive'
  <2> SUFFICES ASSUME NEW x \in Posts, NEW y \in Posts,
                      SameUser(x, y), post'[x].pc = "inserted"
               PROVE  post'[y].pc # "inserted" /\ y \notin responses
    BY <1>1 DEF KeyExclusive, At, SameUser
  <2>1. CASE x = q
    <3>1. y # q /\ SameUser(y, q)
      BY <2>1 DEF SameUser
    <3> QED BY <1>1, <2>1, <3>1 DEF KeyHeld, KeyTaken, At
  <2>2. CASE x # q /\ y = q
    BY <1>1, <1>2, <2>2 DEF KeyHeld, At
  <2>3. CASE x # q /\ y # q
    BY <1>0, <1>1, <2>3 DEF KeyExclusive, At
  <2> QED BY <2>1, <2>2, <2>3
<1>7. ReplyMatchesStore'
  <2>1. \A p \in responses : p \in Posts
    BY <1>0 DEF TypeOK
  <2> QED BY <1>0, <1>1, <1>2, <2>1 DEF ReplyMatchesStore, SurveyWasDeleted, At
<1>8. SecretsCurrent' /\ EncryptedUnlessLate'
  BY <1>0, <1>1 DEF SecretsCurrent, EncryptedUnlessLate
<1>9. CleanedIntact' /\ DuplicateReplyIsTrue'
  BY <1>0, <1>1 DEF CleanedIntact, DuplicateReplyIsTrue, SurveyWasDeleted, KeyTaken, At
<1> QED BY <1>3, <1>4, <1>5, <1>6, <1>7, <1>8, <1>9 DEF SubmissionInv

\* Every refusal but "duplicate" gives up what the request held.
LEMMA RefusalInv ==
    ASSUME SubmissionInv, NEW q \in Posts, ~At(q, "accepted"),
           NEW reply \in {"invalid", "notFound", "duplicate", "lost"}, Reply(q, reply),
           reply = "duplicate" => KeyTaken(q) \/ SurveyWasDeleted \/ late # {},
           UNCHANGED <<survey, stored>>
    PROVE  SubmissionInv'
<1> DEFINE s == [New EXCEPT !.pc = reply]
<1>1. s \in PostState /\ s.pc = reply /\ s.cleaned = {}
  BY DEF New, PostState, Locations, Replies
<1>2. post' = [post EXCEPT ![q] = s]
  BY DEF Reply
<1> HIDE DEF s
<1> QED BY <1>1, <1>2, MemoryStepInv DEF InFlight

LEMMA ReadingInv ==
    ASSUME SubmissionInv, NEW q \in Posts,
           GetSurvey(q) \/ CheckFieldsExist(q) \/ ReadFields(q) \/ Validate(q)
    PROVE  SubmissionInv'
<1>0. TypeOK /\ BegunAfterPublication /\ SecretsCurrent /\ CleanedIntact
  BY DEF SubmissionInv
<1>1. post[q] \in PostState /\ post[q].cleaned \subseteq issued
  BY <1>0 DEF TypeOK, CleanedIntact
<1>2. ~At(q, "accepted") /\ UNCHANGED <<survey, stored>>
  BY DEF GetSurvey, CheckFieldsExist, ReadFields, Validate, At
<1>3. CASE Reply(q, "invalid") \/ Reply(q, "notFound")
  BY <1>2, <1>3, RefusalInv
<1>4. CASE GetSurvey(q) /\ ~Reply(q, "notFound")
  <2>1. PICK offered \in SUBSET (Fields \cap issued) :
           post' = [post EXCEPT ![q].pc = "exist", ![q].offered = offered]
    BY <1>4 DEF GetSurvey
  <2>2. status = "published"
    BY <1>4 DEF GetSurvey, MaySubmit
  <2> DEFINE s == [post[q] EXCEPT !.pc = "exist", !.offered = offered]
  <2>3. s \in PostState /\ s.pc = "exist" /\ s.cleaned = post[q].cleaned
    BY <1>1 DEF PostState, Locations
  <2>4. post' = [post EXCEPT ![q] = s]
    BY <2>1
  <2> HIDE DEF s
  <2> QED BY <1>1, <1>2, <2>2, <2>3, <2>4, MemoryStepInv DEF Begun, FirstDraft
<1>5. CASE CheckFieldsExist(q) /\ ~Reply(q, "invalid")
  <2> DEFINE s == [post[q] EXCEPT !.pc = "fields"]
  <2>1. s \in PostState /\ s.pc = "fields" /\ s.cleaned = post[q].cleaned
    BY <1>1 DEF PostState, Locations
  <2>2. post' = [post EXCEPT ![q] = s]
    BY <1>5 DEF CheckFieldsExist
  <2>3. Begun
    BY <1>0, <1>5 DEF CheckFieldsExist, BegunAfterPublication, InFlight, At
  <2> HIDE DEF s
  <2> QED BY <1>1, <1>2, <2>1, <2>2, <2>3, MemoryStepInv
<1>6. CASE ReadFields(q) /\ ~Reply(q, "invalid")
  <2> DEFINE s == [post[q] EXCEPT !.pc = "validate", !.secret = marked \cap Fields]
  <2>1. /\ s \in PostState /\ s.pc = "validate" /\ s.cleaned = post[q].cleaned
        /\ s.secret = marked \cap Fields
    BY <1>1 DEF PostState, Locations
  <2>2. post' = [post EXCEPT ![q] = s]
    BY <1>6 DEF ReadFields
  <2>3. Begun
    BY <1>0, <1>6 DEF ReadFields, BegunAfterPublication, InFlight, At
  <2> HIDE DEF s
  <2> QED BY <1>1, <1>2, <2>1, <2>2, <2>3, MemoryStepInv
<1>7. CASE Validate(q) /\ ~Reply(q, "invalid")
  <2>1. PICK cleaned \in SUBSET (post[q].offered \cap rows) :
           post' = [post EXCEPT ![q].pc = "insert", ![q].offered = {}, ![q].cleaned = cleaned]
    BY <1>7 DEF Validate
  <2> DEFINE s == [post[q] EXCEPT !.pc = "insert", !.offered = {}, !.cleaned = cleaned]
  <2>2. /\ s \in PostState /\ s.pc = "insert" /\ s.cleaned = cleaned
        /\ s.secret = post[q].secret
    BY <1>1 DEF PostState, Locations
  <2>3. post' = [post EXCEPT ![q] = s]
    BY <2>1
  <2>4. At(q, "validate") /\ Begun
    BY <1>0, <1>7 DEF Validate, BegunAfterPublication, InFlight, At
  <2>5. cleaned \subseteq rows /\ cleaned \subseteq issued
    BY <1>0 DEF TypeOK
  <2>6. \A f \in (Fields \cap rows) \ late : f \in s.secret <=> f \in marked
    BY <1>0, <2>2, <2>4 DEF SecretsCurrent, At
  <2> HIDE DEF s
  <2> QED BY <1>2, <2>2, <2>3, <2>4, <2>5, <2>6, MemoryStepInv
<1> QED BY <1>3, <1>4, <1>5, <1>6, <1>7

LEMMA InsertInv ==
    ASSUME SubmissionInv, NEW q \in Posts, InsertResponse(q)
    PROVE  SubmissionInv'
<1>0. TypeOK /\ BegunAfterPublication /\ SecretsCurrent /\ CleanedIntact
  BY DEF SubmissionInv
<1>1. /\ At(q, "insert") /\ ~At(q, "accepted") /\ ~KeyHeld(q)
      /\ UNCHANGED <<survey, stored>>
  BY DEF InsertResponse, At
<1>2. CASE KeyTaken(q)
  BY <1>1, <1>2, RefusalInv DEF InsertResponse
<1>3. CASE ~KeyTaken(q)
  <2> DEFINE s == [post[q] EXCEPT !.pc = "inserted"]
  <2>1. post[q] \in PostState
    BY <1>0 DEF TypeOK
  <2>2. /\ s \in PostState /\ s.pc = "inserted" /\ s.cleaned = post[q].cleaned
        /\ s.secret = post[q].secret
    BY <2>1 DEF PostState, Locations
  <2>3. post' = [post EXCEPT ![q] = s]
    BY <1>3 DEF InsertResponse
  <2>4. Begun
    BY <1>0, <1>1 DEF BegunAfterPublication, InFlight, At
  <2>5. \A f \in (Fields \cap rows) \ late : f \in s.secret <=> f \in marked
    BY <1>0, <1>1, <2>2 DEF SecretsCurrent, At
  <2>6. /\ s.cleaned \subseteq issued
        /\ s.cleaned \subseteq rows \/ SurveyWasDeleted \/ late # {}
    BY <1>0, <1>1, <2>2 DEF CleanedIntact
  <2> HIDE DEF s
  <2> QED BY <1>1, <1>3, <2>2, <2>3, <2>4, <2>5, <2>6, MemoryStepInv
<1> QED BY <1>2, <1>3

LEMMA AbortInv ==
    ASSUME SubmissionInv, NEW q \in Posts, EncryptionFails(q) \/ CommitFails(q)
    PROVE  SubmissionInv'
<1>0. TypeOK /\ BegunAfterPublication /\ CleanedIntact
  BY DEF SubmissionInv
<1>1. At(q, "inserted") /\ ~At(q, "accepted") /\ UNCHANGED <<survey, stored>>
  BY DEF EncryptionFails, CommitFails, At
<1>2. CASE EncryptionFails(q)
  BY <1>1, <1>2, RefusalInv DEF EncryptionFails
<1>3. CASE CommitFails(q)
  <2>1. SurveyWasDeleted \/ late # {}
    BY <1>0, <1>1, <1>3 DEF CommitFails, ReferencesExist, Survey!Exists, Survey!Statuses,
       BegunAfterPublication, InFlight, Begun, CleanedIntact, SurveyWasDeleted, At,
       TypeOK, SurveyState, Statuses
  <2> QED BY <1>1, <1>3, <2>1, RefusalInv DEF CommitFails
<1> QED BY <1>2, <1>3

LEMMA CommitInv ==
    ASSUME SubmissionInv, NEW q \in Posts, Commit(q)
    PROVE  SubmissionInv'
<1>0. /\ TypeOK /\ BegunAfterPublication /\ ResponsesOnlyAfterPublication
      /\ OneResponsePerUser /\ KeyExclusive /\ ReplyMatchesStore /\ SecretsCurrent
      /\ EncryptedUnlessLate /\ CleanedIntact /\ DuplicateReplyIsTrue
  BY DEF SubmissionInv
<1> DEFINE s == [post[q] EXCEPT !.pc = "accepted", !.secret = {}]
<1>1. post[q] \in PostState
  BY <1>0 DEF TypeOK
<1>2. s \in PostState /\ s.pc = "accepted" /\ s.cleaned = post[q].cleaned
  BY <1>1 DEF PostState, Locations, Replies
<1>3. /\ UNCHANGED <<status, rows, issued, marked, late, undone>>
      /\ post' = [post EXCEPT ![q] = s]
      /\ responses' = responses \cup {q}
      /\ answers' = answers \cup ({q} \X post[q].cleaned)
      /\ sealed' = sealed \cup ({q} \X (post[q].cleaned \cap post[q].secret))
      /\ At(q, "inserted") /\ status \in Statuses /\ post[q].cleaned \subseteq rows
  BY DEF Commit, survey, ReferencesExist, Survey!Exists, Survey!Statuses, Statuses
<1> HIDE DEF s
<1>4. post'[q] = s /\ \A p \in Posts \ {q} : post'[p] = post[p]
  BY <1>0, <1>3 DEF TypeOK
<1>5. q \notin responses /\ \A a \in answers : a[1] # q
  BY <1>0, <1>3 DEF ReplyMatchesStore, At
<1>6. post[q].cleaned \subseteq Fields
  BY <1>1 DEF PostState
<1>7. TypeOK'
  BY <1>0, <1>2, <1>3, <1>6 DEF TypeOK
<1>8. BegunAfterPublication'
  BY <1>0, <1>2, <1>3, <1>4 DEF BegunAfterPublication, Begun, FirstDraft, InFlight
<1>9. ResponsesOnlyAfterPublication'
  BY <1>0, <1>3 DEF ResponsesOnlyAfterPublication, BegunAfterPublication, InFlight,
                    Begun, FirstDraft, Statuses, At
<1>10. OneResponsePerUser'
  <2>1. \A p \in responses : UserOf[p] # UserOf[q]
    <3> SUFFICES ASSUME NEW p \in responses, UserOf[p] = UserOf[q] PROVE FALSE
      OBVIOUS
    <3>1. p \in Posts /\ SameUser(q, p)
      BY <1>0, <1>5 DEF TypeOK, SameUser
    <3> QED BY <1>0, <1>3, <3>1 DEF KeyExclusive
  <2> QED BY <1>0, <1>3, <2>1 DEF OneResponsePerUser
<1>11. KeyExclusive'
  <2> SUFFICES ASSUME NEW x \in Posts, NEW y \in Posts,
                      SameUser(x, y), post'[x].pc = "inserted"
               PROVE  post'[y].pc # "inserted" /\ y \notin responses'
    BY DEF KeyExclusive, At, SameUser
  <2>1. x # q /\ At(x, "inserted")
    BY <1>2, <1>4 DEF At
  <2>2. y # q
    BY <1>0, <1>3, <2>1 DEF KeyExclusive
  <2> QED BY <1>0, <1>3, <1>4, <2>1, <2>2 DEF KeyExclusive, At
<1>12. ReplyMatchesStore'
  <2>1. \A p \in Posts : post'[p].pc = "accepted" /\ ~SurveyWasDeleted' =>
           p \in responses' /\ \A f \in post'[p].cleaned \cap rows' : <<p, f>> \in answers'
    BY <1>0, <1>2, <1>3, <1>4 DEF ReplyMatchesStore, At, SurveyWasDeleted
  <2>2. \A p \in responses' : p \in Posts /\ post'[p].pc = "accepted"
    BY <1>0, <1>2, <1>3, <1>4 DEF ReplyMatchesStore, At, TypeOK
  <2>3. \A a \in answers' :
           a[1] \in responses' /\ a[2] \in post'[a[1]].cleaned \cap rows'
    <3> SUFFICES ASSUME NEW a \in answers'
                 PROVE  a[1] \in responses' /\ a[2] \in post'[a[1]].cleaned \cap rows'
      OBVIOUS
    <3>1. CASE a \in answers
      BY <1>0, <1>3, <1>4, <1>5, <3>1 DEF ReplyMatchesStore, TypeOK
    <3>2. CASE a \in {q} \X post[q].cleaned
      BY <1>2, <1>3, <1>4, <3>2
    <3> QED BY <1>3, <3>1, <3>2
  <2> QED BY <2>1, <2>2, <2>3 DEF ReplyMatchesStore, At
<1>13. SecretsCurrent'
  BY <1>0, <1>2, <1>3, <1>4 DEF SecretsCurrent
<1>14. EncryptedUnlessLate'
  <2> SUFFICES ASSUME NEW a \in answers', a[2] \notin late
               PROVE  a \in sealed' <=> a[2] \in marked
    BY <1>3 DEF EncryptedUnlessLate
  <2>1. CASE a \in answers
    BY <1>0, <1>3, <1>5, <2>1 DEF EncryptedUnlessLate
  <2>2. CASE a \in {q} \X post[q].cleaned
    <3>1. a = <<q, a[2]>> /\ a[2] \in post[q].cleaned /\ a \notin sealed
      BY <1>0, <1>5, <2>2 DEF TypeOK
    <3>2. a[2] \in post[q].secret <=> a[2] \in marked
      BY <1>0, <1>3, <1>6, <3>1 DEF SecretsCurrent, At
    <3>3. a \in sealed' <=> a[2] \in post[q].secret
      BY <1>3, <3>1
    <3> QED BY <3>2, <3>3
  <2> QED BY <1>3, <2>1, <2>2
<1>15. CleanedIntact' /\ DuplicateReplyIsTrue'
  BY <1>0, <1>2, <1>3, <1>4 DEF CleanedIntact, DuplicateReplyIsTrue, SurveyWasDeleted, KeyTaken, At
<1> QED BY <1>7, <1>8, <1>9, <1>10, <1>11, <1>12, <1>13, <1>14, <1>15 DEF SubmissionInv

-----------------------------------------------------------------------------
(* The invariance theorem and what follows from it *)

LEMMA NextInv == SubmissionInv /\ [Next]_vars => SubmissionInv'
<1> SUFFICES ASSUME SubmissionInv, [Next]_vars PROVE SubmissionInv'
  OBVIOUS
<1>1. CASE Administer \/ SaveStaleCopy \/ \E r \in LateRows : LateRequest(r)
  BY <1>1, StepRecorded, SurveyInv DEF SubmissionInv
<1>2. ASSUME NEW q \in Posts, Step(q) \/ Crash(q)
      PROVE  SubmissionInv'
  <2>1. CASE Step(q)
    BY <2>1, ReadingInv, InsertInv, AbortInv, CommitInv DEF Step
  <2>2. CASE Crash(q)
    BY <2>2, RefusalInv DEF Crash, Replies, At
  <2> QED BY <1>2, <2>1, <2>2
<1>3. CASE UNCHANGED vars
  BY <1>3 DEF SubmissionInv, vars, survey, stored, TypeOK, BegunAfterPublication,
     Begun, FirstDraft, SurveyWasDeleted,
     ResponsesOnlyAfterPublication, OneResponsePerUser, KeyExclusive, ReplyMatchesStore,
     SecretsCurrent, EncryptedUnlessLate, CleanedIntact, DuplicateReplyIsTrue, At, KeyTaken
<1>4. Quiescent => UNCHANGED vars
  BY DEF Quiescent
<1> QED BY <1>1, <1>2, <1>3, <1>4 DEF Next

THEOREM Inductive == Spec => []SubmissionInv
<1>1. Init => SubmissionInv
  BY InitInv
<1>2. SubmissionInv /\ [Next]_vars => SubmissionInv'
  BY NextInv
<1> QED BY <1>1, <1>2, PTL DEF Spec

\* Every variable of the submission module keeps its type.
THEOREM TypeCorrect == Spec => []TypeOK
<1>1. SubmissionInv => TypeOK
  BY DEF SubmissionInv
<1> QED BY <1>1, Inductive, PTL

\* No user ever has two committed responses, whatever requests overlap.
THEOREM UserKeyUnique == Spec => []OneResponsePerUser
<1>1. SubmissionInv => OneResponsePerUser
  BY DEF SubmissionInv
<1> QED BY <1>1, Inductive, PTL

\* 201 means stored, any other reply means that nothing was, and "already
\* submitted" is a lie only when rows were deleted under the request.
THEOREM RepliesTruthful == Spec => []RepliesAreTrue
<1>1. SubmissionInv => RepliesAreTrue
  BY DEF SubmissionInv, RepliesAreTrue
<1> QED BY <1>1, Inductive, PTL

\* Responses exist only for a survey that was published and not deleted.
THEOREM NeverIntoDraft == Spec => []ResponsesOnlyAfterPublication
<1>1. SubmissionInv => ResponsesOnlyAfterPublication
  BY DEF SubmissionInv
<1> QED BY <1>1, Inductive, PTL

\* The token form of an answer agrees with the flag of its field, unless the
\* field was changed after publication.
THEOREM EncryptionAgrees == Spec => []EncryptedUnlessLate
<1>1. SubmissionInv => EncryptedUnlessLate
  BY DEF SubmissionInv
<1> QED BY <1>1, Inductive, PTL

-----------------------------------------------------------------------------
(* The refinement: a request is answered in one step *)

\* A step that gives the reply r, and one that gives none.
LEMMA GivesReply ==
    ASSUME TypeOK, NEW q \in Posts, NEW r \in Replies, post[q].pc \notin Replies,
           NEW s \in PostState, s.pc = r, post' = [post EXCEPT ![q] = s]
    PROVE  Contract!AnswerWith(q, r)
<1>1. \A p \in Posts : post'[p].pc = IF p = q THEN r ELSE post[p].pc
  BY DEF TypeOK
<1>2. Answered[q] = "none"
  BY DEF Answered
<1>3. Answered' = [Answered EXCEPT ![q] = r]
  BY <1>1 DEF Answered
<1> QED BY <1>2, <1>3 DEF Contract!AnswerWith

LEMMA RefusalReply ==
    ASSUME TypeOK, NEW q \in Posts, NEW r \in Replies, post[q].pc \notin Replies, Reply(q, r)
    PROVE  Contract!AnswerWith(q, r) /\ At(q, r)'
<1> DEFINE s == [New EXCEPT !.pc = r]
<1>1. s \in PostState /\ s.pc = r
  BY DEF New, PostState, Locations
<1>2. post' = [post EXCEPT ![q] = s]
  BY DEF Reply
<1> HIDE DEF s
<1> QED BY <1>1, <1>2, GivesReply DEF TypeOK, At

LEMMA GoesOn ==
    ASSUME TypeOK, NEW q \in Posts, post[q].pc \notin Replies,
           NEW s \in PostState, s.pc \notin Replies, post' = [post EXCEPT ![q] = s]
    PROVE  UNCHANGED Answered
<1>1. \A p \in Posts : post'[p].pc = IF p = q THEN s.pc ELSE post[p].pc
  BY DEF TypeOK
<1> QED BY <1>1 DEF Answered

\* A refusal is one of the contract's: what it says is true when it is said.
LEMMA RefusalStep ==
    ASSUME SubmissionInv, SubmissionInv', NEW q \in Posts, post[q].pc \notin Replies,
           NEW r \in {"invalid", "lost", "notFound", "duplicate"}, Reply(q, r),
           r = "notFound" => status # "published", UNCHANGED <<survey, stored>>
    PROVE  Contract!Refuse(q)
<1>1. Contract!AnswerWith(q, r) /\ At(q, r)'
  BY RefusalReply DEF SubmissionInv, Replies
<1>2. r = "duplicate" => KeyTaken(q) \/ SurveyWasDeleted \/ late # {}
  BY <1>1 DEF SubmissionInv, DuplicateReplyIsTrue, SurveyWasDeleted, KeyTaken, survey, stored
<1>3. KeyTaken(q) => \E p \in responses : p # q /\ UserOf[p] = UserOf[q]
  BY DEF KeyTaken, SameUser
<1> QED BY <1>1, <1>2, <1>3 DEF Contract!Refuse, SurveyWasDeleted, survey, Contract!survey,
                                stored, Contract!stored

LEMMA CommitStep ==
    ASSUME SubmissionInv, NEW q \in Posts, Commit(q)
    PROVE  Contract!Accept(q)
<1>1. TypeOK /\ post[q] \in PostState /\ post[q].pc = "inserted"
  BY DEF SubmissionInv, TypeOK, Commit, At
<1>2. Contract!AnswerWith(q, "accepted")
  <2> DEFINE s == [post[q] EXCEPT !.pc = "accepted", !.secret = {}]
  <2>1. s \in PostState /\ s.pc = "accepted"
    BY <1>1 DEF PostState, Locations, Replies
  <2>2. post' = [post EXCEPT ![q] = s]
    BY <1>1 DEF Commit, TypeOK
  <2> HIDE DEF s
  <2> QED BY <1>1, <2>1, <2>2, GivesReply DEF Replies
<1>3. \A p \in responses : UserOf[p] # UserOf[q]
  <2> SUFFICES ASSUME NEW p \in responses, UserOf[p] = UserOf[q]
               PROVE  FALSE
    OBVIOUS
  <2>1. p # q
    BY <1>1 DEF SubmissionInv, ReplyMatchesStore, At
  <2>2. p \in Posts
    BY DEF SubmissionInv, TypeOK
  <2> QED BY <1>1, <2>1, <2>2 DEF SubmissionInv, KeyExclusive, SameUser, At
<1>4. /\ status \in {"published", "archived"} \/ (status = "draft" /\ undone # {})
      /\ post[q].cleaned \subseteq Fields \cap rows
  <2>1. status \in Survey!Statuses /\ post[q].cleaned \subseteq rows
    BY DEF Commit, ReferencesExist, Survey!Exists
  <2>2. status # "draft" \/ undone # {}
    BY <1>1 DEF SubmissionInv, BegunAfterPublication, InFlight, Begun, FirstDraft
  <2>3. status \in {"published", "archived"} \/ (status = "draft" /\ undone # {})
    BY <2>1, <2>2 DEF Survey!Statuses
  <2> QED BY <1>1, <2>1, <2>3 DEF PostState
<1>5. \A f \in post[q].cleaned \ late : f \in post[q].cleaned \cap post[q].secret <=> f \in marked
  BY <1>1, <1>4 DEF SubmissionInv, SecretsCurrent
<1> QED BY <1>2, <1>3, <1>4, <1>5 DEF Commit, Contract!Accept, survey, Contract!survey

\* The tables follow the survey by the cascade alone, and nobody is answered.
LEMMA SurveyStep ==
    ASSUME SubmissionInv, Administer \/ SaveStaleCopy \/ \E r \in LateRows : LateRequest(r)
    PROVE  Contract!SurveyChanges
<1>1. Cascade /\ post' = post
  BY StepRecorded DEF SubmissionInv
<1>2. UNCHANGED Answered
  BY <1>1 DEF Answered
<1> QED BY <1>1, <1>2 DEF Cascade, Contract!SurveyChanges

\* Each statement of a request, or its end.
LEMMA RequestStep ==
    ASSUME SubmissionInv, SubmissionInv', NEW q \in Posts, Step(q) \/ Crash(q)
    PROVE  Contract!Accept(q) \/ Contract!Refuse(q) \/ UNCHANGED Contract!contractVars
<1> DEFINE Quiet == UNCHANGED <<survey, stored>> /\ UNCHANGED Answered
<1>1. TypeOK /\ post[q] \in PostState
  BY DEF SubmissionInv, TypeOK
<1>2. Quiet => UNCHANGED Contract!contractVars
  BY DEF survey, stored, Contract!contractVars, Contract!survey, Contract!stored
<1>3. ASSUME NEW s \in PostState, s.pc \notin Replies, post[q].pc \notin Replies,
             post' = [post EXCEPT ![q] = s], UNCHANGED <<survey, stored>>
      PROVE  Quiet
  BY <1>1, <1>3, GoesOn
<1>4. post[q].pc \notin Replies
  BY DEF Step, Crash, GetSurvey, CheckFieldsExist, ReadFields, Validate, InsertResponse,
         EncryptionFails, Commit, CommitFails, At, Replies
<1> HIDE DEF Quiet
<1>5. CASE GetSurvey(q)
  <2>1. CASE status = "published"
    <3>1. PICK offered \in SUBSET (Fields \cap issued) :
             post' = [post EXCEPT ![q].pc = "exist", ![q].offered = offered]
      BY <1>5, <2>1 DEF GetSurvey, MaySubmit
    <3> DEFINE s == [post[q] EXCEPT !.pc = "exist", !.offered = offered]
    <3>2. s \in PostState /\ s.pc \notin Replies
      BY <1>1 DEF PostState, Locations, Replies
    <3>3. post' = [post EXCEPT ![q] = s]
      BY <1>1, <3>1 DEF TypeOK
    <3> HIDE DEF s
    <3> QED BY <1>2, <1>3, <1>4, <1>5, <3>2, <3>3 DEF GetSurvey
  <2>2. CASE status # "published"
    BY <1>4, <1>5, <2>2, RefusalStep DEF GetSurvey, MaySubmit
  <2> QED BY <2>1, <2>2
<1>6. CASE CheckFieldsExist(q)
  <2>1. CASE Reply(q, "invalid")
    BY <1>4, <1>6, <2>1, RefusalStep DEF CheckFieldsExist
  <2>2. CASE post' = [post EXCEPT ![q].pc = "fields"]
    <3> DEFINE s == [post[q] EXCEPT !.pc = "fields"]
    <3>1. s \in PostState /\ s.pc \notin Replies
      BY <1>1 DEF PostState, Locations, Replies
    <3>2. post' = [post EXCEPT ![q] = s]
      BY <1>1, <2>2 DEF TypeOK
    <3> HIDE DEF s
    <3> QED BY <1>2, <1>3, <1>4, <1>6, <3>1, <3>2 DEF CheckFieldsExist
  <2> QED BY <1>6, <2>1, <2>2 DEF CheckFieldsExist
<1>7. CASE ReadFields(q)
  <2>1. CASE Reply(q, "invalid")
    BY <1>4, <1>7, <2>1, RefusalStep DEF ReadFields
  <2>2. CASE post' = [post EXCEPT ![q].pc = "validate", ![q].secret = marked \cap Fields]
    <3> DEFINE s == [post[q] EXCEPT !.pc = "validate", !.secret = marked \cap Fields]
    <3>1. s \in PostState /\ s.pc \notin Replies
      BY <1>1 DEF PostState, Locations, Replies
    <3>2. post' = [post EXCEPT ![q] = s]
      BY <1>1, <2>2 DEF TypeOK
    <3> HIDE DEF s
    <3> QED BY <1>2, <1>3, <1>4, <1>7, <3>1, <3>2 DEF ReadFields
  <2> QED BY <1>7, <2>1, <2>2 DEF ReadFields
<1>8. CASE Validate(q)
  <2>1. CASE Reply(q, "invalid")
    BY <1>4, <1>8, <2>1, RefusalStep DEF Validate
  <2>2. ASSUME NEW cleaned \in SUBSET (post[q].offered \cap rows),
               post' = [post EXCEPT ![q].pc = "insert", ![q].offered = {}, ![q].cleaned = cleaned]
        PROVE  UNCHANGED Contract!contractVars
    <3> DEFINE s == [post[q] EXCEPT !.pc = "insert", !.offered = {}, !.cleaned = cleaned]
    <3>1. s \in PostState /\ s.pc \notin Replies
      BY <1>1 DEF PostState, Locations, Replies
    <3>2. post' = [post EXCEPT ![q] = s]
      BY <1>1, <2>2 DEF TypeOK
    <3> HIDE DEF s
    <3> QED BY <1>2, <1>3, <1>4, <1>8, <3>1, <3>2 DEF Validate
  <2> QED BY <1>8, <2>1, <2>2 DEF Validate
<1>9. CASE InsertResponse(q)
  <2>1. CASE Reply(q, "duplicate")
    BY <1>4, <1>9, <2>1, RefusalStep DEF InsertResponse
  <2>2. CASE post' = [post EXCEPT ![q].pc = "inserted"]
    <3> DEFINE s == [post[q] EXCEPT !.pc = "inserted"]
    <3>1. s \in PostState /\ s.pc \notin Replies
      BY <1>1 DEF PostState, Locations, Replies
    <3>2. post' = [post EXCEPT ![q] = s]
      BY <1>1, <2>2 DEF TypeOK
    <3> HIDE DEF s
    <3> QED BY <1>2, <1>3, <1>4, <1>9, <3>1, <3>2 DEF InsertResponse
  <2> QED BY <1>9, <2>1, <2>2 DEF InsertResponse
<1>10. CASE EncryptionFails(q)
  BY <1>4, <1>10, RefusalStep DEF EncryptionFails
<1>11. CASE Commit(q)
  BY <1>11, CommitStep
<1>12. CASE CommitFails(q)
  BY <1>4, <1>12, RefusalStep DEF CommitFails
<1>13. CASE Crash(q)
  BY <1>4, <1>13, RefusalStep DEF Crash
<1> QED BY <1>5, <1>6, <1>7, <1>8, <1>9, <1>10, <1>11, <1>12, <1>13 DEF Step

LEMMA StepImplements ==
    ASSUME SubmissionInv, SubmissionInv', [Next]_vars
    PROVE  [Contract!Next]_(Contract!contractVars)
<1>1. CASE Administer \/ SaveStaleCopy \/ \E r \in LateRows : LateRequest(r)
  BY <1>1, SurveyStep DEF Contract!Next
<1>2. ASSUME NEW q \in Posts, Step(q) \/ Crash(q)
      PROVE  [Contract!Next]_(Contract!contractVars)
  BY <1>2, RequestStep DEF Contract!Next
<1>3. CASE Quiescent \/ UNCHANGED vars
  <2>1. UNCHANGED vars
    BY <1>3 DEF Quiescent
  <2> QED BY <2>1 DEF vars, survey, stored, Answered, Contract!contractVars, Contract!survey, Contract!stored
<1> QED BY <1>1, <1>2, <1>3 DEF Next

\* However many submissions overlap with each other and with the administrators'
\* requests, each is answered in one step that stores all of it or nothing.
THEOREM SubmissionIsOneStep == Spec => ImplementsSubmissionContract
<1>1. Init => Contract!Init
  BY DEF Init, Contract!Init, Answered, New, Replies
<1> QED BY <1>1, StepImplements, Inductive, PTL DEF Spec, Contract!Spec, ImplementsSubmissionContract

-----------------------------------------------------------------------------
(* The validation of the answers, for every structure, every set of rules and
   dependencies and every submission *)

LEMMA FieldHasSection == \A f \in Fields : Parent[f] \in Sections
BY TreeAssumption DEF Fields, Sections

\* A target with rules, one of which holds, or without any.
LEMMA ShowsTarget ==
    ASSUME NEW target
    PROVE  Validation!Shows({r \in rules : target \in {r.sec, r.fld}}, given) <=> Validation!ShownTo(target)
BY DEF Validation!Shows, Validation!ShownTo

\* The loop over the sections finds the fields that are shown.
LEMMA VisibleAreShown ==
    ASSUME Validation!TypeOK
    PROVE  Validation!VisibleFields(rules, given) = {f \in Fields : Validation!Shown(f)}
<1>1. rules \subseteq Validation!Rule
  BY ValidationAssumption DEF Validation!TypeOK, Validation!InputsTyped
<1>2. ASSUME NEW s \in Sections
      PROVE  Validation!SectionRules(rules, s) = {r \in rules : s \in {r.sec, r.fld}}
  BY <1>1, TreeAssumption DEF Validation!SectionRules, Validation!Rule, Sections, Fields
<1>3. ASSUME NEW f \in Fields
      PROVE  Validation!FieldRules(rules, f) = {r \in rules : f \in {r.sec, r.fld}}
  BY <1>1, TreeAssumption DEF Validation!FieldRules, Validation!Rule, Sections, Fields
<1>4. ASSUME NEW s \in Sections
      PROVE  s \in Validation!VisibleSections(rules, given) <=> Validation!ShownTo(s)
  BY <1>2, ShowsTarget DEF Validation!VisibleSections
<1>5. ASSUME NEW f \in Fields, NEW s \in Sections
      PROVE  f \in Validation!VisibleIn(s, rules, given) <=> SectionOf[f] = s /\ Validation!ShownTo(f)
  BY <1>3, ShowsTarget DEF Validation!VisibleIn
<1>6. Validation!VisibleFields(rules, given) \subseteq Fields
  BY DEF Validation!VisibleFields, Validation!VisibleIn
<1>7. ASSUME NEW f \in Fields
      PROVE  f \in Validation!VisibleFields(rules, given) <=> Validation!Shown(f)
  <2>1. SectionOf[f] \in Sections
    BY FieldHasSection DEF SectionOf
  <2>2. Validation!VisibleSections(rules, given) \subseteq Sections
    BY DEF Validation!VisibleSections
  <2> QED BY <1>4, <1>5, <2>1, <2>2 DEF Validation!VisibleFields, Validation!Shown
<1> QED BY <1>6, <1>7

\* What makes a field an error.
Wrong(f) == IF Validation!Answered(f) THEN ~Validation!Fits(f, given[f]) ELSE f \in Required

\* Each field the loop has left behind is where its answer belongs.
Progress ==
    /\ phase = "begun" => kept = {} /\ errors = {}
    /\ phase # "begun" => visible = {f \in Fields : Validation!Shown(f)}
    /\ \A f \in kept : Validation!Answered(f) /\ Validation!Fits(f, given[f])
    /\ \A f \in errors : Wrong(f)
    /\ phase # "begun" =>
          \A f \in visible \ todo :
              /\ Validation!Answered(f) => f \in kept \cup errors
              /\ ~Validation!Answered(f) /\ f \in Required => f \in errors
    /\ phase \in {"accepted", "refused"} => todo = {}
    /\ phase = "accepted" => errors = {}
    /\ phase = "refused" => errors # {}

ValidationInv == Validation!TypeOK /\ Progress

LEMMA InitValidation == Validation!Init => ValidationInv
BY DEF Validation!Init, ValidationInv, Validation!TypeOK, Progress

\* The checks look at inputs only.
LEMMA ChecksReadInputs ==
    ASSUME UNCHANGED Validation!inputs
    PROVE  /\ \A f : Validation!Answered(f)' = Validation!Answered(f)
           /\ \A f : Validation!Fits(f, given[f])' = Validation!Fits(f, given[f])
           /\ \A f : Validation!Shown(f)' = Validation!Shown(f)
           /\ \A f : Wrong(f)' = Wrong(f)
BY DEF Validation!inputs, Validation!Answered, Validation!Fits, Validation!FitsType,
       Validation!FitsRules, Validation!FitsDependencies, Validation!Modifications,
       Validation!Holds,
       Validation!Shown, Validation!ShownTo, Wrong

LEMMA NextValidation ==
    ASSUME ValidationInv, [Validation!Next]_(Validation!vars)
    PROVE  ValidationInv'
<1> USE DEF ValidationInv
<1>1. UNCHANGED Validation!inputs
  BY DEF Validation!Next, Validation!FindVisible, Validation!CheckField,
         Validation!Conclude, Validation!vars, Validation!inputs
<1>2. CASE Validation!FindVisible
  <2>1. visible' = {f \in Fields : Validation!Shown(f)} /\ todo' = visible'
    BY <1>2, VisibleAreShown DEF Validation!FindVisible
  <2>2. Validation!TypeOK'
    BY <1>2, <2>1 DEF Validation!TypeOK, Validation!FindVisible, Progress
  <2>3. Progress'
    BY <1>1, <1>2, <2>1, ChecksReadInputs DEF Validation!FindVisible, Progress
  <2> QED BY <2>2, <2>3
<1>3. ASSUME NEW f \in Fields, Validation!CheckField(f)
      PROVE  ValidationInv'
  <2>1. phase = "checking" /\ f \in todo /\ todo' = todo \ {f}
        /\ phase' = phase /\ visible' = visible
    BY <1>3 DEF Validation!CheckField
  <2>2. CASE Validation!SkipBlank(f)
    <3>1. Validation!TypeOK'
      BY <1>1, <2>1, <2>2 DEF Validation!TypeOK, Validation!SkipBlank, Validation!inputs
    <3>2. Progress'
      BY <1>1, <2>1, <2>2, ChecksReadInputs DEF Progress, Validation!SkipBlank
    <3> QED BY <3>1, <3>2
  <2>3. CASE Validation!Reject(f)
    <3>1. Validation!TypeOK'
      BY <1>1, <2>1, <2>3 DEF Validation!TypeOK, Validation!Reject, Validation!inputs
    <3>2. Wrong(f)
      BY <2>3 DEF Validation!Reject, Wrong
    <3>3. Progress'
      BY <1>1, <2>1, <2>3, <3>2, ChecksReadInputs DEF Progress, Validation!Reject
    <3> QED BY <3>1, <3>3
  <2>4. CASE Validation!Keep(f)
    <3>1. Validation!TypeOK'
      BY <1>1, <2>1, <2>4 DEF Validation!TypeOK, Validation!Keep, Validation!inputs
    <3>2. Progress'
      BY <1>1, <2>1, <2>4, ChecksReadInputs DEF Progress, Validation!Keep
    <3> QED BY <3>1, <3>2
  <2> QED BY <1>3, <2>2, <2>3, <2>4 DEF Validation!CheckField
<1>4. CASE Validation!Conclude
  <2>1. Validation!TypeOK'
    BY <1>1, <1>4 DEF Validation!TypeOK, Validation!Conclude, Validation!inputs
  <2>2. Progress'
    BY <1>1, <1>4, ChecksReadInputs DEF Progress, Validation!Conclude
  <2> QED BY <2>1, <2>2
<1>5. CASE UNCHANGED Validation!vars
  <2>1. Validation!TypeOK'
    BY <1>5 DEF Validation!TypeOK, Validation!vars
  <2>2. Progress'
    BY <1>1, <1>5, ChecksReadInputs DEF Progress, Validation!vars
  <2> QED BY <2>1, <2>2
<1> QED BY <1>2, <1>3, <1>4, <1>5 DEF Validation!Next

THEOREM ValidationInductive == ValidationSpec => []ValidationInv
BY InitValidation, NextValidation, PTL DEF ValidationSpec, Validation!Spec

\* An accepted submission keeps the given answers of the fields shown, and only
\* those, and a refusal names a field that was shown and whose answer is wrong, for
\* every set of rules and whatever the order of the loop.
THEOREM VerdictTrue == ValidationSpec => []VerdictMatchesScreen
<1>1. ValidationInv => Validation!KeepsWhatIsShown
  <2> SUFFICES ASSUME ValidationInv, phase = "accepted"
               PROVE  /\ kept = {f \in Fields : Validation!Shown(f) /\ Validation!Answered(f)}
                      /\ \A f \in Required : Validation!Shown(f) => f \in kept
    BY DEF Validation!KeepsWhatIsShown
  <2>1. visible = {f \in Fields : Validation!Shown(f)} /\ todo = {} /\ errors = {}
    BY DEF ValidationInv, Progress
  <2>2. kept \subseteq visible
    BY DEF ValidationInv, Validation!TypeOK
  <2>3. \A f \in visible : f \in kept <=> Validation!Answered(f)
    BY <2>1 DEF ValidationInv, Progress
  <2>4. \A f \in visible : f \in Required => f \in kept
    BY <2>1, <2>3 DEF ValidationInv, Progress
  <2>5. Required \subseteq Fields
    BY ValidationAssumption DEF Validation!InputsTyped
  <2> QED BY <2>1, <2>2, <2>3, <2>4, <2>5
<1>2. ValidationInv => Validation!RefusedForShownField
  <2> SUFFICES ASSUME ValidationInv, phase = "refused"
               PROVE  \E f \in Fields : Validation!Shown(f) /\ Wrong(f)
    BY DEF Validation!RefusedForShownField, Wrong
  <2>1. PICK f \in errors : Wrong(f)
    BY DEF ValidationInv, Progress
  <2>2. f \in Fields /\ Validation!Shown(f)
    BY <2>1 DEF ValidationInv, Progress, Validation!TypeOK
  <2> QED BY <2>1, <2>2
<1> QED BY <1>1, <1>2, ValidationInductive, PTL DEF VerdictMatchesScreen

\* What is kept respects every active show_options and hide_options.
THEOREM OffersRespected == ValidationSpec => []KeptWasOffered
<1>1. ValidationInv => KeptWasOffered
  BY DEF ValidationInv, Progress, KeptWasOffered, Validation!Fits,
         Validation!FitsDependencies, Validation!Modifications
<1> QED BY <1>1, ValidationInductive, PTL

\* The loop's bookkeeping: every field shown is in one place only.
THEOREM ValidationTyped == ValidationSpec => []ValidationTypeOK
BY ValidationInductive, PTL DEF ValidationInv, ValidationTypeOK

\* What an accepted validation keeps is one of the choices that Validate leaves open.
LEMMA KeptIsAChoice ==
    ASSUME ValidationInv, phase = "accepted", NEW q \in Posts, At(q, "validate"),
           post[q].offered = {f \in Fields : given[f] # Missing}, post[q].offered \subseteq rows,
           post' = [post EXCEPT ![q].pc = "insert", ![q].offered = {}, ![q].cleaned = kept],
           UNCHANGED <<survey, stored>>
    PROVE  Validate(q)
<1>1. kept \subseteq post[q].offered \cap rows
  BY DEF ValidationInv, Validation!TypeOK, Progress, Validation!Answered
<1> QED BY <1>1 DEF Validate
=============================================================================

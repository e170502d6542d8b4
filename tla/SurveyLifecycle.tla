--------------------------- MODULE SurveyLifecycle ---------------------------
(***************************************************************************)
(* The write requests of the survey API, at the granularity of their       *)
(* database statements.  PostgreSQL runs in autocommit and gunicorn runs   *)
(* several workers, so another request may run between any two statements  *)
(* of one.  req[w] is what worker w holds in memory: the control location, *)
(* the status column as it was loaded (snap), and, for a deletion, the     *)
(* rows Django's Collector has gathered (seen).                            *)
(*                                                                         *)
(* One survey is modelled: no request of these views writes the rows of    *)
(* two.  Requests refused before they reach a statement that matters (404, *)
(* 403, an invalid body of a structure request) change nothing and are     *)
(* stuttering steps.                                                       *)
(***************************************************************************)
EXTENDS SurveyTree

CONSTANT Workers    \* the processes that handle write requests

VARIABLES status, rows, issued, marked,   \* the database, as in SurveyContract
          req                             \* the request each worker is in

database == <<status, rows, issued, marked>>
vars == <<status, rows, issued, marked, req>>

Locations == {"idle", "validate", "transition", "save",
              "getSurvey", "collect", "write"}

\* "keep" is a body without a status; valid says the other columns validate.
Request ==
    [pc    : Locations,
     op    : {"patch", "add", "edit", "drop"},
     row   : Rows \cup {Root},
     snap  : Statuses,
     want  : Statuses \cup {"keep"},
     valid : BOOLEAN,
     seen  : SUBSET Rows]

Idle == [pc |-> "idle", op |-> "patch", row |-> Root, snap |-> "draft",
         want |-> "keep", valid |-> TRUE, seen |-> {}]

TypeOK ==
    /\ status \in SurveyState
    /\ rows \subseteq Rows
    /\ issued \subseteq Rows
    /\ marked \subseteq rows
    /\ rows \subseteq issued
    /\ req \in [Workers -> Request]

Exists(p) == IF p = Root THEN status \in Statuses ELSE p \in rows

Init ==
    /\ status = "unborn"
    /\ rows = {}
    /\ issued = {}
    /\ marked = {}
    /\ req = [w \in Workers |-> Idle]

At(w, location) == req[w].pc = location
Finish(w) == req' = [req EXCEPT ![w] = Idle]
Goto(w, location) == req' = [req EXCEPT ![w].pc = location]

-----------------------------------------------------------------------------
(* POST, PATCH/PUT and DELETE on the survey itself. *)

CreateSurvey(w) ==
    /\ At(w, "idle")
    /\ status = "unborn"
    /\ status' = "draft"
    /\ UNCHANGED <<rows, issued, marked, req>>

\* get_object(): the row is copied into memory.
LoadSurvey(w) ==
    /\ At(w, "idle")
    /\ status \in Statuses
    /\ \E want \in Statuses \cup {"keep"}, valid \in BOOLEAN :
          req' = [req EXCEPT ![w] = [Idle EXCEPT !.pc = "validate", !.snap = status,
                                                 !.want = want, !.valid = valid]]
    /\ UNCHANGED database

\* Neither the allowed-transition check nor the completeness check made.
MayTransitionAlways(from, to) == TRUE

MayTransition(from, to) ==
    /\ to \in AllowedTransitions[from]
    /\ to = "published" => Complete(rows)

\* validate_status runs inside serializer.is_valid(), on the in-memory copy.
\* An invalid title is reported only after the status has been written.
ValidateStatus(w) ==
    /\ At(w, "validate")
    /\ LET r == req[w] IN
          IF r.want \in {"keep", r.snap}
          THEN IF r.valid THEN Goto(w, "save") ELSE Finish(w)
          ELSE IF MayTransition(r.snap, r.want) THEN Goto(w, "transition") ELSE Finish(w)
    /\ UNCHANGED database

\* self.status = new_status; self.save(update_fields=["status"]), which raises
\* DatabaseError when the row is gone.
TransitionSave(w) ==
    /\ At(w, "transition")
    /\ IF status \in Statuses
       THEN /\ status' = req[w].want
            /\ IF req[w].valid
               THEN req' = [req EXCEPT ![w].pc = "save", ![w].snap = req[w].want]
               ELSE Finish(w)
       ELSE Finish(w) /\ UNCHANGED status
    /\ UNCHANGED <<rows, issued, marked>>

\* serializer.save(): UPDATE of every column with the in-memory values, and an
\* INSERT under the same key when the UPDATE matches no row.
SaveSurvey(w) ==
    /\ At(w, "save")
    /\ status' = req[w].snap
    /\ Finish(w)
    /\ UNCHANGED <<rows, issued, marked>>

LoadForDelete(w) ==
    /\ At(w, "idle")
    /\ status \in Statuses
    /\ req' = [req EXCEPT ![w] = [Idle EXCEPT !.pc = "collect", !.op = "drop"]]
    /\ UNCHANGED database

-----------------------------------------------------------------------------
(* Requests on sections and fields.  An "add" names the parent row. *)

\* get_section() or get_object().  An added section needs no row but the
\* survey, which getSurvey reads.
LoadRow(w) ==
    /\ At(w, "idle")
    /\ \E op \in {"add", "edit", "drop"}, r \in rows \cup {Root} :
          /\ r = Root => op = "add"
          /\ op = "add" => r \in Sections \cup {Root}
          /\ req' = [req EXCEPT ![w] = [Idle EXCEPT !.pc = "getSurvey", !.op = op, !.row = r]]
    /\ UNCHANGED database

MayModifyAlways(st) == TRUE

MayModify(st) == st = "draft"

\* get_survey(), section.survey, ...: the row is read and _ensure_draft_survey
\* looks at that copy; a missing survey ends the request too.
GetSurvey(w) ==
    /\ At(w, "getSurvey")
    /\ IF status \in Statuses /\ MayModify(status)
       THEN Goto(w, IF req[w].op = "drop" THEN "collect" ELSE "write")
       ELSE Finish(w)
    /\ UNCHANGED database

\* Django's Collector: SELECTs of everything the cascade will reach.
Collect(w) ==
    /\ At(w, "collect")
    /\ req' = [req EXCEPT ![w].pc = "write",
                          ![w].seen = rows \cap Subtree(req[w].row)]
    /\ UNCHANGED database

\* INSERT: the key comes from the sequence; a missing parent is an IntegrityError.
InsertRow(w) ==
    /\ At(w, "write")
    /\ req[w].op = "add"
    /\ IF Exists(req[w].row)
       THEN \E r \in Rows \ issued :
               /\ Parent[r] = req[w].row
               /\ rows' = rows \cup {r}
               /\ issued' = issued \cup {r}
       ELSE UNCHANGED <<rows, issued>>
    /\ Finish(w)
    /\ UNCHANGED <<status, marked>>

\* UPDATE of the columns sent; DatabaseError when the row is gone.
EditRow(w) ==
    /\ At(w, "write")
    /\ req[w].op = "edit"
    /\ LET r == req[w].row IN
          marked' = IF r \notin rows \/ r \in marked THEN marked \ {r} ELSE marked \cup {r}
    /\ Finish(w)
    /\ UNCHANGED <<status, rows, issued>>

NoForeignKeyCheck(w) == TRUE

\* The foreign keys are checked when the deletion commits: a child inserted
\* since Collect makes the whole transaction fail.
NoNewChild(w) == rows \cap Subtree(req[w].row) \subseteq req[w].seen

\* The cascade forgets the content of what it deletes only for the row itself.
DropRowsLeavingContent(w) ==
    /\ At(w, "write")
    /\ req[w].op = "drop"
    /\ NoNewChild(w)
    /\ rows' = rows \ (req[w].seen \cup {req[w].row})
    /\ marked' = marked \ {req[w].row}
    /\ status' = IF req[w].row = Root THEN "deleted" ELSE status
    /\ Finish(w)
    /\ UNCHANGED issued

\* One transaction; deleting a row that is already gone deletes nothing.
DropRows(w) ==
    /\ At(w, "write")
    /\ req[w].op = "drop"
    /\ NoNewChild(w)
    /\ rows' = rows \ (req[w].seen \cup {req[w].row})
    /\ marked' = marked \cap rows'
    /\ status' = IF req[w].row = Root THEN "deleted" ELSE status
    /\ Finish(w)
    /\ UNCHANGED issued

\* The request ends with no further statement: the next one fails and is rolled
\* back (a child inserted since Collect, or a constraint on something this module
\* leaves out: the unique (survey, order) and (section, order), the revalidation
\* of rules), dispatching the audit task of the last one raises, or the worker is
\* killed.
Abandon(w) ==
    /\ ~At(w, "idle")
    /\ Finish(w)
    /\ UNCHANGED database

Step(w) ==
    \/ CreateSurvey(w) \/ LoadSurvey(w) \/ ValidateStatus(w) \/ TransitionSave(w)
    \/ SaveSurvey(w) \/ LoadForDelete(w)
    \/ LoadRow(w) \/ GetSurvey(w) \/ Collect(w)
    \/ InsertRow(w) \/ EditRow(w) \/ DropRows(w) \/ Abandon(w)

Next == \E w \in Workers : Step(w)

Spec == Init /\ [][Next]_vars

-----------------------------------------------------------------------------
(* Write requests that do not overlap, as when one worker serves them all. *)

SerialNext ==
    \E w \in Workers : Step(w) /\ \A v \in Workers \ {w} : At(v, "idle")

SerialSpec == Init /\ [][SerialNext]_vars

Contract == INSTANCE SurveyContract WITH status <- status, rows <- rows,
                                        issued <- issued, marked <- marked

\* Requests that do overlap.
Environment == INSTANCE SurveyEnvironment

-----------------------------------------------------------------------------
(* Properties *)

\* Without overlapping write requests the statements of views.py and models.py
\* add up to the atomic operations of SurveyContract: forward-only status,
\* structure frozen once published, publication only of a complete survey,
\* deletion of everything at once.
ImplementsContract == Contract!Spec

\* A published or archived survey has a section and no section without fields:
\* what transition_to checks before publishing stays true afterwards.
PublishedComplete == status \in {"published", "archived"} => Complete(rows)

\* The foreign keys: no field outlives its section, and no section the survey,
\* however deletions, insertions and the re-inserting save interleave.
ReferentialIntegrity == \A r \in rows : Exists(Parent[r])

Forward == {<<"unborn", "draft">>, <<"draft", "published">>, <<"published", "archived">>}
           \cup (Statuses \X {"deleted"})

\* With overlapping requests, the only statements that move the status backwards
\* (or bring a deleted survey back) are those of a PATCH whose copy of the row is
\* out of date: the row was written since it was loaded.
BackwardOnlyFromStaleCopy ==
    [][ \/ status' = status
        \/ <<status, status'>> \in Forward
        \/ \E w \in Workers :
              /\ req[w].pc \in {"transition", "save"}
              /\ req[w].snap # status
              /\ req'[w] # req[w] ]_vars

\* Overlapping requests do nothing to the survey that SurveyEnvironment does not do:
\* late structure changes and stale copies are all that the overlap adds.
ImplementsEnvironment == Environment!Spec
=============================================================================

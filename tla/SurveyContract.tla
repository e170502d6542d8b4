--------------------------- MODULE SurveyContract ---------------------------
(***************************************************************************)
(* What the survey administration promises, each request being one step:   *)
(* the status only moves forward, the structure changes only in a draft,   *)
(* a survey is published only when every section has a field, and deletion *)
(* takes everything with it.  SurveyLifecycle is checked, and proved, to   *)
(* implement this when write requests do not overlap; SurveyEnvironment is *)
(* what is left of it when they do.                                        *)
(***************************************************************************)
EXTENDS SurveyTree

VARIABLES status,   \* the survey row's status, or "unborn" / "deleted"
          rows,     \* the Section and Field rows that exist
          issued,   \* the primary keys already handed out
          marked    \* the rows whose content bit is on: an edit flips it

contractVars == <<status, rows, issued, marked>>

Exists(p) == IF p = Root THEN status \in Statuses ELSE p \in rows

Init ==
    /\ status = "unborn"
    /\ rows = {}
    /\ issued = {}
    /\ marked = {}

Create ==
    /\ status = "unborn"
    /\ status' = "draft"
    /\ UNCHANGED <<rows, issued, marked>>

Publish ==
    /\ status = "draft"
    /\ Complete(rows)
    /\ status' = "published"
    /\ UNCHANGED <<rows, issued, marked>>

Archive ==
    /\ status = "published"
    /\ status' = "archived"
    /\ UNCHANGED <<rows, issued, marked>>

Add(r) ==
    /\ status = "draft"
    /\ r \notin issued
    /\ Exists(Parent[r])
    /\ rows' = rows \cup {r}
    /\ issued' = issued \cup {r}
    /\ UNCHANGED <<status, marked>>

Edit(r) ==
    /\ status = "draft"
    /\ r \in rows
    /\ marked' = IF r \in marked THEN marked \ {r} ELSE marked \cup {r}
    /\ UNCHANGED <<status, rows, issued>>

Drop(r) ==
    /\ status = "draft"
    /\ r \in rows
    /\ rows' = rows \ Subtree(r)
    /\ marked' = marked \ Subtree(r)
    /\ UNCHANGED <<status, issued>>

Delete ==
    /\ status \in Statuses
    /\ status' = "deleted"
    /\ rows' = {}
    /\ marked' = {}
    /\ UNCHANGED issued

Next ==
    \/ Create \/ Publish \/ Archive \/ Delete
    \/ \E r \in Rows : Add(r) \/ Edit(r) \/ Drop(r)

Spec == Init /\ [][Next]_contractVars
=============================================================================

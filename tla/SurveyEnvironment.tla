-------------------------- MODULE SurveyEnvironment --------------------------
(***************************************************************************)
(* What remains of SurveyContract when write requests overlap: the         *)
(* statement that writes may come long after the read it was checked by.   *)
(* So structure changes whatever the status, a survey is published that is *)
(* no longer complete, and a PATCH writes an old copy of the survey row    *)
(* back, also over its deletion.  SurveyLifecycle is proved to do nothing  *)
(* else; Submission is built on this.                                      *)
(***************************************************************************)
EXTENDS SurveyTree

VARIABLES status, rows, issued, marked   \* as in SurveyContract

environmentVars == <<status, rows, issued, marked>>

Exists(p) == IF p = Root THEN status \in Statuses ELSE p \in rows

Init ==
    /\ status = "unborn"
    /\ rows = {}
    /\ issued = {}
    /\ marked = {}

\* The status machine; a stale copy moves the status outside of it.
Forward == {<<"unborn", "draft">>, <<"draft", "published">>, <<"published", "archived">>}

Advance ==
    /\ \E next \in Statuses : <<status, next>> \in Forward /\ status' = next
    /\ UNCHANGED <<rows, issued, marked>>

Overwrite ==
    /\ status \in Statuses \cup {"deleted"}
    /\ \E old \in Statuses \ {status} : <<status, old>> \notin Forward /\ status' = old
    /\ UNCHANGED <<rows, issued, marked>>

Delete ==
    /\ status \in Statuses
    /\ status' = "deleted"
    /\ rows' = {}
    /\ marked' = {}
    /\ UNCHANGED issued

Add(r) ==
    /\ r \notin issued
    /\ Exists(Parent[r])
    /\ rows' = rows \cup {r}
    /\ issued' = issued \cup {r}
    /\ UNCHANGED <<status, marked>>

Edit(r) ==
    /\ r \in rows
    /\ marked' = IF r \in marked THEN marked \ {r} ELSE marked \cup {r}
    /\ UNCHANGED <<status, rows, issued>>

Drop(r) ==
    /\ r \in rows
    /\ rows' = rows \ Subtree(r)
    /\ marked' = marked \ Subtree(r)
    /\ UNCHANGED <<status, issued>>

Change(r) == Add(r) \/ Edit(r) \/ Drop(r)

Next == Advance \/ Overwrite \/ Delete \/ \E r \in Rows : Change(r)

Spec == Init /\ [][Next]_environmentVars
=============================================================================

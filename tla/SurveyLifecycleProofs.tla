------------------------ MODULE SurveyLifecycleProofs ------------------------
(***************************************************************************)
(* Theorems about SurveyLifecycle, for every set of workers and every tree *)
(* of rows.                                                                *)
(***************************************************************************)
EXTENDS SurveyLifecycle, TLAPS

LEMMA IdleIsRequest == Idle \in Request
  BY DEF Idle, Request, Locations, Statuses

\* What a worker remembers, whoever else is running: a status to be written was
\* allowed from the status that was loaded, an addition has a section or the
\* survey as its parent, a deletion has gathered rows below its own row only,
\* and neither it nor a PATCH starts before the survey exists.
Remembered(w) ==
    /\ req[w].pc \in {"validate", "transition", "save"} => status # "unborn"
    /\ req[w].pc = "transition" => req[w].want \in AllowedTransitions[req[w].snap]
    /\ req[w].op = "add" => req[w].row \in Sections \cup {Root}
    /\ req[w].seen \subseteq Subtree(req[w].row)
    /\ req[w].op = "drop" /\ req[w].row = Root => status # "unborn"

LocalInv == TypeOK /\ \A w \in Workers : Remembered(w)

LEMMA AllowedAreStatuses ==
    ASSUME NEW from \in Statuses, NEW to \in AllowedTransitions[from]
    PROVE  to \in Statuses /\ <<from, to>> \in Forward
  BY DEF Statuses, AllowedTransitions, Forward

LEMMA InitLocal == Init => LocalInv
<1> SUFFICES ASSUME Init PROVE LocalInv
  OBVIOUS
<1>1. TypeOK
  BY IdleIsRequest DEF Init, TypeOK, SurveyState
<1>2. \A w \in Workers : Remembered(w)
  BY DEF Init, Idle, Remembered
<1> QED BY <1>1, <1>2 DEF LocalInv

LEMMA StepLocal ==
    ASSUME LocalInv, NEW w \in Workers, Step(w)
    PROVE  LocalInv'
<1> USE IdleIsRequest
<1>0. /\ TypeOK
      /\ \A v \in Workers : Remembered(v)
      /\ req[w] \in Request
  BY DEF LocalInv, TypeOK
<1>1. CASE CreateSurvey(w)
  <2>1. TypeOK'
    BY <1>0, <1>1 DEF CreateSurvey, TypeOK, SurveyState, Statuses
  <2>2. \A v \in Workers : Remembered(v)'
    BY <1>0, <1>1 DEF CreateSurvey, Remembered
  <2> QED BY <2>1, <2>2 DEF LocalInv
<1>2. CASE LoadSurvey(w)
  <2>1. PICK want \in Statuses \cup {"keep"}, valid \in BOOLEAN :
          req' = [req EXCEPT ![w] = [Idle EXCEPT !.pc = "validate", !.snap = status,
                                                 !.want = want, !.valid = valid]]
    BY <1>2 DEF LoadSurvey
  <2>2. [Idle EXCEPT !.pc = "validate", !.snap = status, !.want = want, !.valid = valid]
          \in Request
    BY <1>2 DEF LoadSurvey, Request, Idle, Locations
  <2>3. TypeOK'
    BY <1>0, <1>2, <2>1, <2>2 DEF LoadSurvey, TypeOK, database
  <2>4. \A v \in Workers : Remembered(v)'
    BY <1>0, <1>2, <2>1 DEF LoadSurvey, database, TypeOK, Remembered, Idle, Statuses
  <2> QED BY <2>3, <2>4 DEF LocalInv
<1>3. CASE ValidateStatus(w)
  <2>1. TypeOK'
    BY <1>0, <1>3 DEF ValidateStatus, TypeOK, Request, Locations, Statuses, Goto, Finish, At, database
  <2>2. \A v \in Workers : Remembered(v)'
    BY <1>0, <1>3 DEF ValidateStatus, TypeOK, Remembered, database, Goto, Finish, At, MayTransition, Idle, Request, Statuses
  <2> QED BY <2>1, <2>2 DEF LocalInv
<1>4. CASE TransitionSave(w)
  <2>1. TypeOK'
    BY <1>0, <1>4 DEF TransitionSave, TypeOK, Request, Locations, Statuses, SurveyState, Finish, At, AllowedTransitions, Remembered
  <2>2. \A v \in Workers : Remembered(v)'
    BY <1>0, <1>4 DEF TransitionSave, TypeOK, Remembered, Finish, At, Idle, Request, Statuses, AllowedTransitions
  <2> QED BY <2>1, <2>2 DEF LocalInv
<1>5. CASE SaveSurvey(w)
  <2>1. TypeOK'
    BY <1>0, <1>5 DEF SaveSurvey, TypeOK, SurveyState, Request, Statuses, Finish
  <2>2. \A v \in Workers : Remembered(v)'
    BY <1>0, <1>5 DEF SaveSurvey, TypeOK, Remembered, Request, Statuses, Finish, Idle
  <2> QED BY <2>1, <2>2 DEF LocalInv
<1>6. CASE LoadForDelete(w)
  <2>1. TypeOK'
    BY <1>0, <1>6 DEF LoadForDelete, TypeOK, Request, Locations, Statuses, Idle, database
  <2>2. \A v \in Workers : Remembered(v)'
    BY <1>0, <1>6 DEF LoadForDelete, TypeOK, Remembered, database, Statuses, Idle
  <2> QED BY <2>1, <2>2 DEF LocalInv
<1>7. CASE LoadRow(w)
  <2>1. PICK op \in {"add", "edit", "drop"}, r \in rows \cup {Root} :
          /\ r = Root => op = "add"
          /\ op = "add" => r \in Sections \cup {Root}
          /\ req' = [req EXCEPT ![w] = [Idle EXCEPT !.pc = "getSurvey", !.op = op, !.row = r]]
    BY <1>7 DEF LoadRow
  <2>2. [Idle EXCEPT !.pc = "getSurvey", !.op = op, !.row = r] \in Request
    BY <1>0 DEF TypeOK, Request, Idle, Locations, Statuses
  <2>3. TypeOK'
    BY <1>0, <1>7, <2>1, <2>2 DEF LoadRow, TypeOK, database
  <2>4. \A v \in Workers : Remembered(v)'
    BY <1>0, <1>7, <2>1 DEF LoadRow, database, TypeOK, Remembered, Idle
  <2> QED BY <2>3, <2>4 DEF LocalInv
<1>8. CASE GetSurvey(w)
  <2>1. TypeOK'
    BY <1>0, <1>8 DEF GetSurvey, TypeOK, Request, Locations, Goto, Finish, database
  <2>2. \A v \in Workers : Remembered(v)'
    BY <1>0, <1>8 DEF GetSurvey, TypeOK, Remembered, database, Goto, Finish, Idle, Request
  <2> QED BY <2>1, <2>2 DEF LocalInv
<1>9. CASE Collect(w)
  <2>1. TypeOK'
    BY <1>0, <1>9 DEF Collect, TypeOK, Request, Locations, database
  <2>2. \A v \in Workers : Remembered(v)'
    BY <1>0, <1>9 DEF Collect, TypeOK, Remembered, database, Request
  <2> QED BY <2>1, <2>2 DEF LocalInv
<1>10. CASE InsertRow(w)
  <2>1. TypeOK'
    BY <1>0, <1>10 DEF InsertRow, TypeOK, Finish
  <2>2. \A v \in Workers : Remembered(v)'
    BY <1>0, <1>10 DEF InsertRow, TypeOK, Remembered, Finish, Idle
  <2> QED BY <2>1, <2>2 DEF LocalInv
<1>11. CASE EditRow(w)
  <2>1. TypeOK'
    BY <1>0, <1>11 DEF EditRow, TypeOK, Finish
  <2>2. \A v \in Workers : Remembered(v)'
    BY <1>0, <1>11 DEF EditRow, TypeOK, Remembered, Finish, Idle
  <2> QED BY <2>1, <2>2 DEF LocalInv
<1>12. CASE DropRows(w)
  <2>1. TypeOK'
    BY <1>0, <1>12 DEF DropRows, TypeOK, Finish, SurveyState, Statuses
  <2>2. \A v \in Workers : Remembered(v)'
    BY <1>0, <1>12 DEF DropRows, TypeOK, Remembered, Finish, Idle
  <2> QED BY <2>1, <2>2 DEF LocalInv
<1>13. CASE Abandon(w)
  <2>1. TypeOK'
    BY <1>0, <1>13 DEF Abandon, TypeOK, Finish, database
  <2>2. \A v \in Workers : Remembered(v)'
    BY <1>0, <1>13 DEF Abandon, TypeOK, Remembered, database, Finish, Idle
  <2> QED BY <2>1, <2>2 DEF LocalInv
<1> QED
  BY <1>1, <1>2, <1>3, <1>4, <1>5, <1>6, <1>7, <1>8, <1>9, <1>10, <1>11, <1>12, <1>13 DEF Step

LEMMA StutterLocal == LocalInv /\ UNCHANGED vars => LocalInv'
  BY DEF LocalInv, TypeOK, Remembered, vars

LEMMA LocalInvariant == Spec => []LocalInv
<1>1. LocalInv /\ [Next]_vars => LocalInv'
  BY StepLocal, StutterLocal DEF Next
<1> QED BY InitLocal, <1>1, PTL DEF Spec

\* Every variable keeps its type, for any number of workers: in particular no row
\* exists whose key was not handed out, and no content outlives its row.
THEOREM TypeCorrect == Spec => []TypeOK
<1>1. LocalInv => TypeOK
  BY DEF LocalInv
<1> QED BY LocalInvariant, <1>1, PTL

-----------------------------------------------------------------------------
(* Foreign keys *)

LEMMA StepReferential ==
    ASSUME LocalInv, ReferentialIntegrity, NEW w \in Workers, Step(w)
    PROVE  ReferentialIntegrity'
<1>0. /\ TypeOK
      /\ Remembered(w)
      /\ req[w] \in Request
      /\ \A r \in rows : r \in Rows /\ Exists(Parent[r])
  BY DEF LocalInv, TypeOK, ReferentialIntegrity
<1>1. CASE UNCHANGED rows /\ (status' \in Statuses \/ UNCHANGED status)
  BY <1>0, <1>1 DEF ReferentialIntegrity, Exists
<1>2. CASE CreateSurvey(w) \/ TransitionSave(w) \/ SaveSurvey(w)
  <2>1. UNCHANGED rows
    BY <1>2 DEF CreateSurvey, TransitionSave, SaveSurvey
  <2>2. status' \in Statuses \/ UNCHANGED status
    BY <1>0, <1>2, AllowedAreStatuses
       DEF CreateSurvey, TransitionSave, SaveSurvey, Remembered, Request, Statuses, At
  <2> QED BY <1>1, <2>1, <2>2
<1>3. CASE InsertRow(w)
  <2>1. CASE Exists(req[w].row)
    <3>1. PICK r \in Rows \ issued :
            Parent[r] = req[w].row /\ rows' = rows \cup {r} /\ UNCHANGED status
      BY <1>3, <2>1 DEF InsertRow
    <3>2. \A x \in rows \cup {r} : Exists(Parent[x])
      BY <1>0, <2>1, <3>1
    <3> QED BY <3>1, <3>2 DEF ReferentialIntegrity, Exists
  <2>2. CASE ~Exists(req[w].row)
    BY <1>1, <1>3, <2>2 DEF InsertRow
  <2> QED BY <2>1, <2>2
<1>4. CASE DropRows(w)
  <2>1. /\ rows \cap Subtree(req[w].row) \subseteq req[w].seen
        /\ rows' = rows \ (req[w].seen \cup {req[w].row})
    BY <1>4 DEF DropRows, NoNewChild
  <2>2. CASE req[w].row = Root
    <3>1. rows' = {}
      BY <1>0, <2>1, <2>2 DEF Subtree
    <3> QED BY <3>1 DEF ReferentialIntegrity
  <2>3. CASE req[w].row # Root
    <3>1. UNCHANGED status
      BY <1>4, <2>3 DEF DropRows
    <3>2. ASSUME NEW x \in rows'
          PROVE  Exists(Parent[x])'
      <4>1. x \in rows /\ Exists(Parent[x]) /\ Parent[x] # req[w].row
        BY <1>0, <2>1, <2>3 DEF Subtree
      \* The rows removed with row are fields, which have no children.
      <4>2. Parent[x] # Root => Parent[x] \notin req[w].seen
        <5> SUFFICES ASSUME Parent[x] # Root, Parent[x] \in req[w].seen
                     PROVE  FALSE
          OBVIOUS
        <5>1. Parent[x] \in Rows /\ Parent[Parent[x]] = Root
          BY <1>0, <4>1, TreeAssumption
        <5>2. Parent[x] = req[w].row \/ Parent[Parent[x]] = req[w].row
          BY <1>0, <2>3 DEF Remembered, Subtree
        <5> QED BY <4>1, <5>1, <5>2, <2>3
      <4> QED BY <2>1, <3>1, <4>1, <4>2 DEF Exists
    <3> QED BY <3>2 DEF ReferentialIntegrity
  <2> QED BY <2>2, <2>3
<1>5. CASE \/ LoadSurvey(w) \/ ValidateStatus(w) \/ LoadForDelete(w) \/ LoadRow(w)
           \/ GetSurvey(w) \/ Collect(w) \/ Abandon(w) \/ EditRow(w)
  <2>1. UNCHANGED <<status, rows>>
    BY <1>5 DEF LoadSurvey, ValidateStatus, LoadForDelete, LoadRow, GetSurvey, Collect,
                Abandon, EditRow, database
  <2> QED BY <1>1, <2>1
<1> QED BY <1>2, <1>3, <1>4, <1>5 DEF Step

\* Whatever requests overlap, no field is left without its section and no section
\* without the survey.
THEOREM Referential == Spec => []ReferentialIntegrity
<1>1. Init => ReferentialIntegrity
  BY DEF Init, ReferentialIntegrity
<1>2. LocalInv /\ ReferentialIntegrity /\ [Next]_vars => ReferentialIntegrity'
  <2>1. UNCHANGED vars /\ ReferentialIntegrity => ReferentialIntegrity'
    BY DEF vars, ReferentialIntegrity, Exists
  <2> QED BY <2>1, StepReferential DEF Next
<1> QED BY LocalInvariant, <1>1, <1>2, PTL DEF Spec

-----------------------------------------------------------------------------
(* Requests that overlap implement SurveyEnvironment *)

\* A deleted survey has no rows, and neither has a survey before its INSERT.
LEMMA NoSurveyNoRows ==
    ASSUME TypeOK, ReferentialIntegrity, status \notin Statuses
    PROVE  rows = {} /\ marked = {}
<1>1. \A r \in rows : Parent[r] # Root
  BY DEF ReferentialIntegrity, Exists
<1>2. \A r \in rows : Parent[r] \in rows /\ Parent[Parent[r]] = Root
  BY <1>1, TreeAssumption DEF TypeOK, ReferentialIntegrity, Exists
<1> QED BY <1>1, <1>2 DEF TypeOK

LEMMA StepOverlapping ==
    ASSUME LocalInv, ReferentialIntegrity, NEW w \in Workers, Step(w)
    PROVE  Environment!Next \/ UNCHANGED Environment!environmentVars
<1>0. TypeOK /\ Remembered(w) /\ req[w] \in Request
  BY DEF LocalInv, TypeOK
<1>1. ASSUME status' \in Statuses, status \in Statuses \cup {"deleted"},
             UNCHANGED <<rows, issued, marked>>
      PROVE  Environment!Next \/ UNCHANGED Environment!environmentVars
  <2>1. CASE status' = status
    BY <1>1, <2>1 DEF Environment!environmentVars
  <2>2. CASE <<status, status'>> \in Environment!Forward
    BY <1>1, <2>2 DEF Environment!Advance, Environment!Next, Statuses, Environment!Statuses
  <2>3. CASE status' # status /\ <<status, status'>> \notin Environment!Forward
    BY <1>1, <2>3 DEF Environment!Overwrite, Environment!Next, Statuses, Environment!Statuses
  <2> QED BY <2>1, <2>2, <2>3
<1>2. CASE CreateSurvey(w)
  BY <1>2 DEF CreateSurvey, Environment!Advance, Environment!Forward, Environment!Next,
              Environment!Statuses
<1>3. CASE TransitionSave(w) \/ SaveSurvey(w)
  <2>1. req[w].pc = "transition" => req[w].want \in Statuses
    BY <1>0, AllowedAreStatuses DEF Remembered, Request
  <2>2. status' \in Statuses \/ UNCHANGED status
    BY <1>0, <1>3, <2>1 DEF TransitionSave, SaveSurvey, Request, At
  <2>3. status # "unborn" /\ UNCHANGED <<rows, issued, marked>>
    BY <1>0, <1>3 DEF TransitionSave, SaveSurvey, Remembered, At
  <2> QED BY <1>0, <1>1, <2>2, <2>3 DEF TypeOK, SurveyState, Environment!environmentVars
<1>4. CASE InsertRow(w)
  <2>1. CASE Exists(req[w].row)
    <3>1. PICK r \in Rows \ issued :
            /\ Parent[r] = req[w].row
            /\ rows' = rows \cup {r}
            /\ issued' = issued \cup {r}
      BY <1>4, <2>1 DEF InsertRow
    <3>2. Environment!Add(r)
      BY <1>4, <2>1, <3>1
         DEF InsertRow, Environment!Add, Environment!Exists, Environment!Statuses, Exists, Statuses
    <3> QED BY <3>1, <3>2 DEF Environment!Change, Environment!Next
  <2>2. CASE ~Exists(req[w].row)
    BY <1>4, <2>2 DEF InsertRow, Environment!environmentVars
  <2> QED BY <2>1, <2>2
<1>5. CASE EditRow(w)
  <2>1. CASE req[w].row \in rows
    <3>1. Environment!Edit(req[w].row) /\ req[w].row \in Rows
      BY <1>0, <1>5, <2>1 DEF EditRow, Environment!Edit, TypeOK
    <3> QED BY <3>1 DEF Environment!Change, Environment!Next
  <2>2. CASE req[w].row \notin rows
    BY <1>0, <1>5, <2>2 DEF EditRow, TypeOK, Environment!environmentVars
  <2> QED BY <2>1, <2>2
\* The foreign keys make a deletion take exactly the subtree, or fail.
<1>6. CASE DropRows(w)
  <2>1. /\ rows' = rows \ Subtree(req[w].row)
        /\ marked' = marked \ Subtree(req[w].row)
        /\ UNCHANGED issued
    <3>1. rows \cap Subtree(req[w].row) \subseteq req[w].seen /\ req[w].seen \subseteq Subtree(req[w].row)
      BY <1>0, <1>6 DEF DropRows, NoNewChild, Remembered
    <3>2. rows' = rows \ Subtree(req[w].row)
      BY <1>0, <1>6, <3>1, TreeAssumption DEF DropRows, TypeOK, Subtree
    <3> QED BY <1>0, <1>6, <3>2 DEF DropRows, TypeOK
  <2>2. CASE req[w].row = Root
    <3>1. rows' = {} /\ marked' = {} /\ status' = "deleted" /\ status # "unborn"
      BY <1>0, <1>6, <2>1, <2>2 DEF Subtree, TypeOK, DropRows, Remembered
    <3>2. CASE status \in Statuses
      BY <2>1, <3>1, <3>2
         DEF Environment!Delete, Environment!Next, Statuses, Environment!Statuses
    <3>3. CASE status = "deleted"
      BY <1>0, <2>1, <3>1, <3>3, NoSurveyNoRows DEF Statuses, Environment!environmentVars
    <3> QED BY <1>0, <3>1, <3>2, <3>3 DEF TypeOK, SurveyState
  <2>3. CASE req[w].row \in rows
    <3>1. Environment!Drop(req[w].row) /\ req[w].row \in Rows
      BY <1>0, <1>6, <2>1, <2>3, TreeAssumption
         DEF DropRows, Environment!Drop, Environment!Subtree, Subtree, TypeOK
    <3> QED BY <3>1 DEF Environment!Change, Environment!Next
  <2>4. CASE req[w].row # Root /\ req[w].row \notin rows
    <3>1. rows \cap Subtree(req[w].row) = {}
      BY <2>4, <1>0 DEF Subtree, ReferentialIntegrity, Exists
    <3> QED BY <1>0, <1>6, <2>1, <2>4, <3>1 DEF DropRows, TypeOK, Environment!environmentVars
  <2> QED BY <2>2, <2>3, <2>4
<1>7. CASE \/ LoadSurvey(w) \/ ValidateStatus(w) \/ LoadForDelete(w) \/ LoadRow(w)
           \/ GetSurvey(w) \/ Collect(w) \/ Abandon(w)
  BY <1>7 DEF LoadSurvey, ValidateStatus, LoadForDelete, LoadRow, GetSurvey, Collect,
              Abandon, database, Environment!environmentVars
<1> QED BY <1>2, <1>3, <1>4, <1>5, <1>6, <1>7 DEF Step

\* The statements of overlapping write requests add up to the steps that
\* SurveyEnvironment lets happen, and no other: that is what module Submission
\* takes the administrators to do.
THEOREM OverlappingImplementsEnvironment == Spec => ImplementsEnvironment
<1>1. Init => Environment!Init
  BY DEF Init, Environment!Init
<1>2. LocalInv /\ ReferentialIntegrity /\ [Next]_vars
        => [Environment!Next]_(Environment!environmentVars)
  <2>1. LocalInv /\ ReferentialIntegrity /\ Next
          => Environment!Next \/ UNCHANGED Environment!environmentVars
    BY StepOverlapping DEF Next
  <2>2. UNCHANGED vars => UNCHANGED Environment!environmentVars
    BY DEF vars, Environment!environmentVars
  <2> QED BY <2>1, <2>2
<1> QED
  BY LocalInvariant, Referential, <1>1, <1>2, PTL DEF Spec, Environment!Spec, ImplementsEnvironment

-----------------------------------------------------------------------------
(* Status regressions *)

\* The formula inside BackwardOnlyFromStaleCopy.
Explained ==
    \/ status' = status
    \/ <<status, status'>> \in Forward
    \/ \E w \in Workers :
          /\ req[w].pc \in {"transition", "save"}
          /\ req[w].snap # status
          /\ req'[w] # req[w]

LEMMA StepExplained ==
    ASSUME LocalInv, NEW w \in Workers, Step(w)
    PROVE  Explained
<1>0. TypeOK /\ Remembered(w) /\ req[w] \in Request
  BY DEF LocalInv, TypeOK
<1>1. CASE CreateSurvey(w)
  BY <1>1 DEF CreateSurvey, Explained, Forward
<1>2. CASE TransitionSave(w) \/ SaveSurvey(w)
  <2>1. req[w].pc \in {"transition", "save"} /\ req'[w] # req[w]
    BY <1>0, <1>2 DEF TransitionSave, SaveSurvey, At, Finish, Idle, TypeOK, Request
  <2>2. CASE req[w].snap # status
    BY <2>1, <2>2 DEF Explained
  <2>3. CASE req[w].snap = status
    <3>1. CASE SaveSurvey(w)
      BY <2>3, <3>1 DEF SaveSurvey, Explained
    <3>2. CASE TransitionSave(w)
      BY <1>0, <2>3, <3>2, AllowedAreStatuses
         DEF TransitionSave, Explained, Remembered, At, Request
    <3> QED BY <1>2, <3>1, <3>2
  <2> QED BY <2>2, <2>3
<1>3. CASE DropRows(w)
  BY <1>0, <1>3 DEF DropRows, Explained, Forward, TypeOK, SurveyState, Statuses, Remembered
<1>4. CASE \/ LoadSurvey(w) \/ ValidateStatus(w) \/ LoadForDelete(w) \/ LoadRow(w)
           \/ GetSurvey(w) \/ Collect(w) \/ Abandon(w) \/ EditRow(w) \/ InsertRow(w)
  <2>1. UNCHANGED status
    BY <1>4 DEF LoadSurvey, ValidateStatus, LoadForDelete, LoadRow, GetSurvey, Collect,
                Abandon, EditRow, InsertRow, database
  <2> QED BY <2>1 DEF Explained
<1> QED BY <1>1, <1>2, <1>3, <1>4 DEF Step

\* A status that moves backwards was always written by a PATCH that had loaded
\* the survey before somebody else changed its status.
THEOREM BackwardOnlyStale == Spec => BackwardOnlyFromStaleCopy
<1>1. LocalInv /\ [Next]_vars => [Explained]_vars
  BY StepExplained DEF Next
<1>2. Spec => [][Explained]_vars
  BY LocalInvariant, <1>1, PTL DEF Spec
<1> QED BY <1>2 DEF BackwardOnlyFromStaleCopy, Explained

-----------------------------------------------------------------------------
(* Requests that do not overlap implement the contract *)

\* Between the statements of a request the database is as the request left it:
\* the copy of the survey row is current, what was checked still holds, and what
\* was collected is all there is.
Fresh(w) ==
    /\ req[w].pc \in {"validate", "transition", "save"} =>
          status \in Statuses /\ req[w].snap = status
    /\ req[w].pc = "transition" => MayTransition(status, req[w].want)
    /\ req[w].pc \in {"getSurvey", "collect", "write"} =>
          /\ req[w].row = Root => req[w].op # "edit"
          /\ req[w].row # Root /\ req[w].op # "add" => req[w].row \in rows
    /\ req[w].pc = "getSurvey" /\ req[w].op = "drop" => req[w].row # Root
    /\ req[w].pc \in {"collect", "write"} =>
          IF req[w].op = "drop" /\ req[w].row = Root THEN status \in Statuses
                                                     ELSE status = "draft"
    /\ req[w].pc = "collect" => req[w].op = "drop"
    /\ req[w].pc = "write" /\ req[w].op = "drop" =>
          req[w].seen = rows \cap Subtree(req[w].row)

SerialInv ==
    /\ LocalInv
    /\ PublishedComplete
    /\ \A w \in Workers : Fresh(w)

LEMMA InitSerial == Init => SerialInv
<1>1. Init => PublishedComplete /\ \A w \in Workers : Fresh(w)
  BY DEF Init, Idle, PublishedComplete, Fresh
<1> QED BY <1>1, InitLocal DEF SerialInv

\* One step of the only request in progress.
LEMMA StepFresh ==
    ASSUME SerialInv, NEW w \in Workers, Step(w)
    PROVE  Fresh(w)'
<1>0. TypeOK /\ Fresh(w) /\ Remembered(w) /\ req[w] \in Request
  BY DEF SerialInv, LocalInv, TypeOK
<1>1. CASE CreateSurvey(w)
  BY <1>0, <1>1 DEF CreateSurvey, At, Fresh
<1>2. CASE LoadSurvey(w)
  BY <1>0, <1>2 DEF LoadSurvey, TypeOK, Idle, Fresh, database
<1>3. CASE ValidateStatus(w)
  BY <1>0, <1>3 DEF ValidateStatus, TypeOK, Idle, Fresh, Goto, Finish, At, database, Request, MayTransition
<1>4. CASE TransitionSave(w)
  BY <1>0, <1>4, AllowedAreStatuses
     DEF TransitionSave, TypeOK, Idle, Fresh, Finish, At, Request, Remembered
<1>5. CASE SaveSurvey(w)
  BY <1>0, <1>5 DEF SaveSurvey, TypeOK, Idle, Fresh, Finish
<1>6. CASE LoadForDelete(w)
  BY <1>0, <1>6 DEF LoadForDelete, TypeOK, Idle, Fresh, database
<1>7. CASE LoadRow(w)
  <2>1. PICK op \in {"add", "edit", "drop"}, r \in rows \cup {Root} :
          /\ r = Root => op = "add"
          /\ req' = [req EXCEPT ![w] = [Idle EXCEPT !.pc = "getSurvey", !.op = op, !.row = r]]
          /\ UNCHANGED database
    BY <1>7 DEF LoadRow
  <2> QED BY <1>0, <2>1 DEF TypeOK, Idle, Fresh, database
<1>8. CASE GetSurvey(w)
  BY <1>0, <1>8 DEF GetSurvey, MayModify, TypeOK, Idle, Fresh, Goto, Finish, At, database, Request
<1>9. CASE Collect(w)
  BY <1>0, <1>9 DEF Collect, TypeOK, Fresh, At, database, Request
<1>10. CASE InsertRow(w) \/ EditRow(w) \/ DropRows(w) \/ Abandon(w)
  <2>1. req'[w] = Idle
    BY <1>0, <1>10 DEF InsertRow, EditRow, DropRows, Abandon, Finish, TypeOK
  <2> QED BY <2>1 DEF Idle, Fresh
<1> QED
  BY <1>1, <1>2, <1>3, <1>4, <1>5, <1>6, <1>7, <1>8, <1>9, <1>10 DEF Step

LEMMA StepPublishedComplete ==
    ASSUME SerialInv, NEW w \in Workers, Step(w)
    PROVE  PublishedComplete'
<1>0. TypeOK /\ Fresh(w) /\ Remembered(w) /\ req[w] \in Request /\ PublishedComplete
  BY DEF SerialInv, LocalInv, TypeOK
<1>1. CASE CreateSurvey(w)
  BY <1>1 DEF CreateSurvey, PublishedComplete
<1>2. CASE TransitionSave(w)
  BY <1>0, <1>2 DEF TransitionSave, Fresh, At, MayTransition, PublishedComplete,
     AllowedTransitions, Complete, Statuses
<1>3. CASE SaveSurvey(w)
  BY <1>0, <1>3 DEF SaveSurvey, Fresh, At, PublishedComplete, Complete
<1>4. CASE InsertRow(w) \/ EditRow(w) \/ DropRows(w)
  <2>1. status' \in {"draft", "deleted"}
    BY <1>0, <1>4 DEF InsertRow, EditRow, DropRows, Fresh, At
  <2> QED BY <2>1 DEF PublishedComplete
<1>5. CASE \/ LoadSurvey(w) \/ ValidateStatus(w) \/ LoadForDelete(w) \/ LoadRow(w)
           \/ GetSurvey(w) \/ Collect(w) \/ Abandon(w)
  <2>1. UNCHANGED <<status, rows>>
    BY <1>5 DEF LoadSurvey, ValidateStatus, LoadForDelete, LoadRow, GetSurvey, Collect,
                Abandon, database
  <2> QED BY <1>0, <2>1 DEF PublishedComplete, Complete
<1> QED BY <1>1, <1>2, <1>3, <1>4, <1>5 DEF Step

\* A step leaves the memory of the other workers alone.
LEMMA OthersKeep ==
    ASSUME TypeOK, NEW w \in Workers, Step(w), NEW v \in Workers \ {w}
    PROVE  req'[v] = req[v]
  BY DEF TypeOK, Step, CreateSurvey, LoadSurvey, ValidateStatus, TransitionSave, SaveSurvey,
         LoadForDelete, LoadRow, GetSurvey, Collect, InsertRow, EditRow, DropRows, Abandon,
         Goto, Finish

LEMMA SerialInvariant == SerialSpec => []SerialInv
<1>1. SerialInv /\ SerialNext => SerialInv'
  <2> SUFFICES ASSUME SerialInv, NEW w \in Workers, Step(w),
                      \A v \in Workers \ {w} : At(v, "idle")
               PROVE  SerialInv'
    BY DEF SerialNext
  <2>1. LocalInv' /\ PublishedComplete' /\ Fresh(w)'
    BY StepLocal, StepPublishedComplete, StepFresh DEF SerialInv
  <2>2. ASSUME NEW v \in Workers \ {w} PROVE Fresh(v)'
    <3>1. req'[v].pc = "idle"
      BY <2>2, OthersKeep DEF SerialInv, LocalInv, At
    <3> QED BY <3>1 DEF Fresh
  <2> QED BY <2>1, <2>2 DEF SerialInv
<1>2. SerialInv /\ UNCHANGED vars => SerialInv'
  BY StutterLocal
     DEF SerialInv, Fresh, PublishedComplete, Complete, MayTransition, vars
<1> QED BY InitSerial, <1>1, <1>2, PTL DEF SerialSpec

\* When write requests do not overlap, a published or archived survey always has
\* a section and no empty one.
THEOREM SerialPublishedComplete == SerialSpec => []PublishedComplete
<1>1. SerialInv => PublishedComplete
  BY DEF SerialInv
<1> QED BY SerialInvariant, <1>1, PTL

LEMMA StepImplements ==
    ASSUME SerialInv, NEW w \in Workers, Step(w)
    PROVE  Contract!Next \/ UNCHANGED Contract!contractVars
<1>0. TypeOK /\ Fresh(w) /\ Remembered(w) /\ req[w] \in Request
  BY DEF SerialInv, LocalInv, TypeOK
<1>1. CASE CreateSurvey(w)
  <2>1. Contract!Create
    BY <1>1 DEF CreateSurvey, Contract!Create
  <2> QED BY <2>1 DEF Contract!Next
<1>2. CASE TransitionSave(w)
  <2>1. status' = req[w].want /\ MayTransition(status, req[w].want) /\ status \in Statuses
    BY <1>0, <1>2 DEF TransitionSave, Fresh, At
  <2>2. Contract!Publish \/ Contract!Archive
    BY <1>2, <2>1 DEF TransitionSave, MayTransition, AllowedTransitions, Statuses, Complete,
                      Contract!Publish, Contract!Archive, Contract!Complete
  <2> QED BY <2>2 DEF Contract!Next
<1>3. CASE SaveSurvey(w)
  BY <1>0, <1>3 DEF SaveSurvey, Fresh, At, Contract!contractVars
<1>4. CASE InsertRow(w)
  <2>0. status = "draft" /\ status' = status /\ marked' = marked
    BY <1>0, <1>4 DEF InsertRow, Fresh, At
  <2>1. CASE Exists(req[w].row)
    <3>1. PICK r \in Rows \ issued :
            /\ Parent[r] = req[w].row
            /\ rows' = rows \cup {r}
            /\ issued' = issued \cup {r}
      BY <1>4, <2>1 DEF InsertRow
    <3>2. Contract!Add(r)
      BY <2>0, <2>1, <3>1 DEF Contract!Add, Contract!Exists, Contract!Statuses, Exists, Statuses
    <3> QED BY <3>1, <3>2 DEF Contract!Next
  <2>2. CASE ~Exists(req[w].row)
    BY <1>4, <2>0, <2>2 DEF InsertRow, Contract!contractVars
  <2> QED BY <2>1, <2>2
<1>5. CASE EditRow(w)
  <2>1. req[w].row \in rows /\ rows \subseteq Rows /\ status = "draft"
    BY <1>0, <1>5 DEF EditRow, Fresh, At, TypeOK
  <2>2. Contract!Edit(req[w].row)
    BY <1>5, <2>1 DEF EditRow, Contract!Edit
  <2> QED BY <2>1, <2>2 DEF Contract!Next
<1>6. CASE DropRows(w)
  <2>1. /\ req[w].seen = rows \cap Subtree(req[w].row)
        /\ rows' = rows \ (req[w].seen \cup {req[w].row})
        /\ marked' = marked \cap rows'
        /\ issued' = issued
    BY <1>0, <1>6 DEF DropRows, Fresh, At
  <2>2. CASE req[w].row = Root
    <3>1. status \in Statuses /\ status' = "deleted"
      BY <1>0, <1>6, <2>2 DEF DropRows, Fresh, At
    <3>2. rows' = {} /\ marked' = {}
      BY <1>0, <2>1, <2>2 DEF Subtree, TypeOK
    <3>3. Contract!Delete
      BY <2>1, <3>1, <3>2 DEF Contract!Delete, Contract!Statuses, Statuses
    <3> QED BY <3>3 DEF Contract!Next
  <2>3. CASE req[w].row # Root
    <3>1. /\ req[w].row \in rows /\ req[w].row \in Rows
          /\ status = "draft" /\ status' = status
      BY <1>0, <1>6, <2>3 DEF DropRows, Fresh, At, TypeOK
    <3>2. /\ rows' = rows \ Subtree(req[w].row)
          /\ marked' = marked \ Subtree(req[w].row)
      BY <1>0, <2>1, <2>3 DEF Subtree, TypeOK
    <3>3. Contract!Drop(req[w].row)
      BY <2>1, <3>1, <3>2 DEF Contract!Drop, Contract!Subtree, Subtree
    <3> QED BY <3>1, <3>3 DEF Contract!Next
  <2> QED BY <2>2, <2>3
<1>7. CASE \/ LoadSurvey(w) \/ ValidateStatus(w) \/ LoadForDelete(w) \/ LoadRow(w)
           \/ GetSurvey(w) \/ Collect(w) \/ Abandon(w)
  BY <1>7 DEF LoadSurvey, ValidateStatus, LoadForDelete, LoadRow, GetSurvey, Collect,
              Abandon, database, Contract!contractVars
<1> QED BY <1>1, <1>2, <1>3, <1>4, <1>5, <1>6, <1>7 DEF Step

\* The statements of non-overlapping requests add up to the atomic operations of
\* SurveyContract, for any set of workers and any tree of rows.
THEOREM SerialImplementsContract == SerialSpec => ImplementsContract
<1>1. Init => Contract!Init
  BY DEF Init, Contract!Init
<1>2. SerialInv /\ [SerialNext]_vars => [Contract!Next]_(Contract!contractVars)
  <2>1. SerialInv /\ SerialNext => Contract!Next \/ UNCHANGED Contract!contractVars
    BY StepImplements DEF SerialNext
  <2>2. UNCHANGED vars => UNCHANGED Contract!contractVars
    BY DEF vars, Contract!contractVars
  <2> QED BY <2>1, <2>2
<1> QED
  BY SerialInvariant, <1>1, <1>2, PTL DEF SerialSpec, ImplementsContract, Contract!Spec
=============================================================================

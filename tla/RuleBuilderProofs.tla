-------------------------- MODULE RuleBuilderProofs --------------------------
(***************************************************************************)
(* Theorems about RuleBuilder: types; acyclicity and order of the links    *)
(* whose only target is a field, while requests do not overlap, outside    *)
(* the window from search to storage, and between reorderings; and about   *)
(* RuleSearch: the search answers truly, ends, and implements RuleBuilder. *)
(***************************************************************************)
EXTENDS RuleSearch, SequenceTheorems, WellFoundedInduction, TLAPS

-----------------------------------------------------------------------------
(* Graphs *)

\* Fewer edges, no more cycles.
LEMMA AcyclicSubset ==
    ASSUME NEW E, NEW F, Acyclic(F), E \subseteq F
    PROVE  Acyclic(E)
BY DEF Acyclic

\* What the search establishes: a negative answer for a graph F with the proposed
\* edge means that the edge closes no cycle in any acyclic part E of F.
LEMMA SearchSound ==
    ASSUME NEW E, NEW F, NEW s \in Fields, NEW t \in Fields,
           E \subseteq F, Acyclic(E), ~CycleReachable(F \cup {<<t, s>>}, t)
    PROVE  Acyclic(E \cup {<<t, s>>})
<1> DEFINE G == F \cup {<<t, s>>}
           R == Reachable(G, t)
<1>1. t \in R
  BY DEF Reachable
<1>2. \A f \in R, g \in Fields : <<f, g>> \in G => g \in R
  BY DEF Reachable, Closed
<1>3. SUFFICES ASSUME NEW S \in SUBSET Fields, S # {},
                      \A f \in S : \E g \in S : <<f, g>> \in E \cup {<<t, s>>}
               PROVE  FALSE
  BY DEF Acyclic
<1>4. t \in S
  <2>1. PICK f \in S : \A g \in S : <<f, g>> \notin E
    BY <1>3 DEF Acyclic
  <2>2. PICK g \in S : <<f, g>> \in E \cup {<<t, s>>}
    BY <1>3
  <2> QED BY <2>1, <2>2
<1> DEFINE T == S \cap R
<1>5. T \in SUBSET R /\ T # {}
  BY <1>1, <1>4
<1>6. \A f \in T : \E g \in T : <<f, g>> \in G
  <2>1. TAKE f \in T
  <2>2. PICK g \in S : <<f, g>> \in E \cup {<<t, s>>}
    BY <1>3
  <2>3. <<f, g>> \in G
    BY <2>2
  <2>4. g \in R
    BY <2>3, <1>2
  <2> QED BY <2>3, <2>4
<1>7. CycleReachable(G, t)
  BY <1>5, <1>6 DEF CycleReachable
<1> QED BY <1>7

-----------------------------------------------------------------------------
(* Types *)

\* What a request remembers of its validation.
Remembered ==
    \A w \in Workers : req[w] \in LinkRequest =>
        /\ req[w].body \in BodyOf(req[w].op)
        /\ kind = "rule" => (Given(req[w].body.sec) # Given(req[w].body.fld))

TypeInv == TypeOK /\ Remembered

LEMMA RequestKinds ==
    ASSUME TypeOK, NEW w \in Workers
    PROVE  /\ At(w, "idle") => req[w] = Idle
           /\ At(w, "search") \/ At(w, "store") => req[w] \in LinkRequest
           /\ At(w, "move") => req[w] \in MoveRequest
BY DEF TypeOK, At, Idle, LinkRequest, MoveRequest

LEMMA IdleIsNoLinkRequest == Idle \notin LinkRequest /\ \A m \in MoveRequest : m \notin LinkRequest
BY DEF Idle, LinkRequest, MoveRequest

LEMMA FinishTypeInv ==
    ASSUME TypeInv, NEW w \in Workers, Finish(w)
    PROVE  /\ req' \in [Workers -> {Idle} \cup LinkRequest \cup MoveRequest]
           /\ kind' = kind => Remembered'
BY IdleIsNoLinkRequest DEF TypeInv, TypeOK, Finish, Remembered, BodyOf

\* A body without missing keys is a row, and so is a row with some keys replaced;
\* both keep a dependency free of sections.
LEMMA StoredRow ==
    ASSUME NEW op \in {"create", "form", "patch"}, NEW d \in BodyOf(op)
    PROVE  /\ op # "patch" => /\ d \in Link
                              /\ kind = "dependency" => d.sec = None /\ d.fld # None
           /\ \A row \in Link :
                /\ Merged(d, row) \in Link
                /\ kind = "dependency" /\ row.sec = None /\ row.fld # None
                      => Merged(d, row).sec = None /\ Merged(d, row).fld # None
BY BuilderAssumption DEF BodyOf, Body, Link, Merged, Kept

LEMMA DeleteTypes ==
    ASSUME TypeOK, NEW ids, Delete(ids)
    PROVE  /\ links' \in [Ids -> Link \cup {Unused, Gone}]
           /\ \A i \in Ids : links'[i] \in Link => links'[i] = links[i]
BY NotALink DEF TypeOK, Delete

LEMMA StepTypeInv ==
    ASSUME TypeInv, NEW w \in Workers, Step(w)
    PROVE  TypeInv'
<1> USE DEF TypeInv
<1>1. CASE Validate(w)
  <2>1. PICK op \in {"create", "form", "patch"}, i \in Ids : \E d \in BodyOf(op) :
           /\ Accepted(d)
           /\ req' = [req EXCEPT ![w] = [pc |-> "search", op |-> op, id |-> i, body |-> d]]
    BY <1>1 DEF Validate
  <2>2. PICK d \in BodyOf(op) :
           /\ Accepted(d)
           /\ req' = [req EXCEPT ![w] = [pc |-> "search", op |-> op, id |-> i, body |-> d]]
    BY <2>1
  <2>3. [pc |-> "search", op |-> op, id |-> i, body |-> d] \in LinkRequest
    BY DEF LinkRequest, BodyOf
  <2>4. TypeOK'
    BY <1>1, <2>2, <2>3 DEF TypeOK, Validate, tables
  <2>5. Remembered'
    BY <1>1, <2>2 DEF TypeOK, Remembered, Validate, tables, Accepted, BodyOf
  <2> QED BY <2>4, <2>5
<1>2. CASE Search(w)
  <2>1. CASE Finish(w)
    BY <1>2, <2>1, FinishTypeInv DEF Search, TypeOK, tables
  <2>2. CASE req' = [req EXCEPT ![w].pc = "store"]
    <3>1. req[w] \in LinkRequest
      BY <1>2, RequestKinds DEF Search
    <3>2. req'[w] \in LinkRequest /\ req'[w].body = req[w].body /\ req'[w].op = req[w].op
      BY <2>2, <3>1 DEF LinkRequest, TypeOK
    <3>3. TypeOK'
      BY <1>2, <2>2, <3>2 DEF TypeOK, Search, tables
    <3>4. Remembered'
      BY <1>2, <2>2, <3>1, <3>2 DEF TypeOK, Remembered, Search, tables, BodyOf
    <3> QED BY <3>3, <3>4
  <2> QED BY <1>2, <2>1, <2>2 DEF Search
<1>3. CASE Store(w)
  <2>1. req[w] \in LinkRequest /\ req[w].body \in BodyOf(req[w].op)
    BY <1>3, RequestKinds DEF Store, Remembered
  <2>2. req[w].op \in {"create", "form", "patch"} /\ req[w].id \in Ids
    BY <2>1 DEF LinkRequest
  <2>3. /\ links' \in [Ids -> Link \cup {Unused, Gone}]
        /\ kind = "dependency" =>
              \A i \in Ids : links'[i] \in Link => links'[i].sec = None /\ links'[i].fld # None
    <3>1. CASE req[w].op = "create"
      BY <1>3, <2>1, <2>2, <3>1, StoredRow DEF Store, TypeOK
    <3>2. CASE req[w].op = "form"
      BY <1>3, <2>1, <2>2, <3>2, StoredRow DEF Store, TypeOK
    <3>3. CASE req[w].op = "patch"
      <4>1. CASE req[w].id \in Rows
        <5>1. links' = [links EXCEPT ![req[w].id] = Merged(req[w].body, links[req[w].id])]
          BY <1>3, <3>3, <4>1 DEF Store
        <5>2. links[req[w].id] \in Link
          BY <4>1 DEF Rows
        <5> QED BY <2>1, <2>2, <5>1, <5>2, StoredRow DEF TypeOK
      <4>2. CASE req[w].id \notin Rows
        BY <1>3, <3>3, <4>2 DEF Store, TypeOK
      <4> QED BY <4>1, <4>2
    <3> QED BY <2>2, <3>1, <3>2, <3>3
  <2> QED BY <1>3, <2>3, FinishTypeInv DEF Store, TypeOK
<1>4. CASE LoadSection(w)
  <2>1. PICK s \in Sections, p \in SectionPositions :
           req' = [req EXCEPT ![w] = [pc |-> "move", section |-> s, to |-> p,
                                      old |-> secOrder[s]]]
    BY <1>4 DEF LoadSection
  <2>2. [pc |-> "move", section |-> s, to |-> p, old |-> secOrder[s]] \in MoveRequest
    BY DEF MoveRequest, TypeOK
  <2>3. TypeOK'
    BY <1>4, <2>1, <2>2 DEF TypeOK, LoadSection, tables
  <2>4. Remembered'
    BY <1>4, <2>1, <2>2, IdleIsNoLinkRequest
    DEF TypeOK, Remembered, LoadSection, tables, BodyOf
  <2> QED BY <2>3, <2>4
<1>5. CASE MoveSection(w)
  <2>1. req[w].section \in Sections /\ req[w].to \in SectionPositions
    BY <1>5, RequestKinds DEF MoveSection, MoveRequest
  <2>2. secOrder' \in [Sections -> SectionPositions] /\ Injective(secOrder')
    BY <1>5, <2>1 DEF MoveSection, TypeOK
  <2> QED BY <1>5, <2>2, FinishTypeInv DEF MoveSection, TypeOK
<1>6. CASE Abandon(w)
  BY <1>6, FinishTypeInv DEF Abandon, TypeOK, tables
<1> QED BY <1>1, <1>2, <1>3, <1>4, <1>5, <1>6 DEF Step

LEMMA AtOnceTypeInv ==
    ASSUME TypeInv, AtOnce
    PROVE  TypeInv'
<1> USE DEF TypeInv
<1>1. UNCHANGED <<kind, req>>
  BY DEF AtOnce, DropLink, Cascade, MoveField, FormMove, FormMoveSection, FormMoveField
<1>2. Remembered'
  BY <1>1 DEF Remembered, BodyOf
<1>3. CASE \E i \in Ids : DropLink(i)
  <2>1. PICK i \in Ids : DropLink(i)
    BY <1>3
  <2>2. Delete({i})
    BY <2>1 DEF DropLink
  <2> QED BY <2>1, <2>2, DeleteTypes, <1>2 DEF DropLink, TypeOK
<1>4. CASE \E x \in Fields \cup Sections : Cascade(x)
  <2>1. PICK x \in Fields \cup Sections : Cascade(x)
    BY <1>4
  <2>2. Delete({i \in Rows : {links[i].src, links[i].sec, links[i].fld} \cap Below(x) # {}})
    BY <2>1 DEF Cascade
  <2> QED BY <2>1, <2>2, DeleteTypes, <1>2 DEF Cascade, TypeOK
<1>5. CASE \E f \in Fields, p \in FieldPositions : MoveField(f, p)
  <2>1. PICK f \in Fields, p \in FieldPositions : MoveField(f, p)
    BY <1>5
  <2>2. [place[f] EXCEPT ![2] = p] \in Sections \X FieldPositions
    BY DEF TypeOK
  <2>3. place' = [place EXCEPT ![f] = [place[f] EXCEPT ![2] = p]]
    BY <2>1 DEF MoveField
  <2>4. place' \in [Fields -> Sections \X FieldPositions]
    BY <2>2, <2>3 DEF TypeOK
  <2> QED BY <2>1, <2>4, <1>2 DEF MoveField, TypeOK
<1>6. CASE FormMove
  <2>1. CASE \E s \in Sections, p \in SectionPositions : FormMoveSection(s, p)
    BY <2>1, <1>2 DEF FormMoveSection, TypeOK
  <2>2. CASE \E f \in Fields, s \in Sections, p \in FieldPositions : FormMoveField(f, s, p)
    BY <2>2, <1>2 DEF FormMoveField, TypeOK
  <2> QED BY <1>6, <2>1, <2>2 DEF FormMove
<1> QED BY <1>3, <1>4, <1>5, <1>6 DEF AtOnce

LEMMA InitTypeInv == Init => TypeInv
BY NotALink, IdleIsNoLinkRequest DEF Init, TypeInv, TypeOK, Remembered

LEMMA StutterTypeInv ==
    ASSUME TypeInv, UNCHANGED vars
    PROVE  TypeInv'
BY DEF TypeInv, TypeOK, Remembered, vars, BodyOf

\* Positions are never shared and every row is a link of its table, whatever
\* overlaps and whatever a body leaves out.
THEOREM TypeCorrect == Spec => []TypeOK
<1>1. TypeInv /\ [Next]_vars => TypeInv'
  BY StepTypeInv, AtOnceTypeInv, StutterTypeInv DEF Next
<1>2. TypeInv => TypeOK
  BY DEF TypeInv
<1> QED BY InitTypeInv, <1>1, <1>2, PTL DEF Spec

-----------------------------------------------------------------------------
(* Requests that do not overlap *)

Alone == \A v, w \in Workers : v = w \/ At(v, "idle") \/ At(w, "idle")

\* A request about to store was searched in the table as it still is.
Searched ==
    \A w \in Workers : At(w, "store") =>
        \/ kind = "rule" /\ ~Given(req[w].body.fld)
        \/ /\ req[w].body.src \in Fields
           /\ req[w].body.fld \in Fields
           /\ ~RefusesCycle(req[w])

SerialInv == TypeInv /\ Alone /\ Searched /\ SingleTargetAcyclic

\* Overwriting or creating one row adds at most the edge of the new row to those
\* of the other single-target rows, and nothing when the row has no such edge.
LEMMA StoreEdges ==
    ASSUME TypeOK, NEW i \in Ids, NEW row \in Link,
           links' = [links EXCEPT ![i] = row]
    PROVE  /\ EdgesOf(SingleTarget)' \subseteq
                  EdgesOf(SingleTarget \ {i}) \cup {<<row.fld, row.src>>}
           /\ row.sec # None \/ row.fld = None =>
                  EdgesOf(SingleTarget)' \subseteq EdgesOf(SingleTarget \ {i})
<1>1. \A j \in Ids : j # i => links'[j] = links[j]
  BY DEF TypeOK
<1>2. links'[i] = row
  BY DEF TypeOK
<1>3. EdgesOf(SingleTarget)' =
         {<<links'[j].fld, links'[j].src>> :
             j \in {k \in Ids : links'[k] \in Link /\ links'[k].sec = None /\ links'[k].fld # None}}
  BY DEF EdgesOf, SingleTarget, Rows
<1>4. EdgesOf(SingleTarget \ {i}) =
         {<<links[j].fld, links[j].src>> :
             j \in {k \in Ids : k # i /\ links[k] \in Link /\ links[k].sec = None /\ links[k].fld # None}}
  BY DEF EdgesOf, SingleTarget, Rows
<1> QED BY <1>1, <1>2, <1>3, <1>4

LEMMA FewerEdges ==
    ASSUME NEW ids, NEW more, ids \subseteq more
    PROVE  EdgesOf(ids) \subseteq EdgesOf(more)
BY DEF EdgesOf

LEMMA SameLinksAcyclic ==
    ASSUME SingleTargetAcyclic, links' = links
    PROVE  SingleTargetAcyclic'
BY DEF SingleTargetAcyclic, SingleTarget, Rows, EdgesOf

\* What Store does to the table: nothing, or one row written from the body.
Writes(r, i, row) ==
    /\ links' = [links EXCEPT ![i] = row]
    /\ r.op = "create" \/ i = r.id
    /\ row = r.body \/ (\E old \in Link : row = Merged(r.body, old))
    /\ r.op # "patch" => row = r.body

LEMMA StoreWrites ==
    ASSUME TypeInv, NEW w \in Workers, Store(w)
    PROVE  links' = links \/ \E i \in Ids, row \in Link : Writes(req[w], i, row)
<1> DEFINE r == req[w]
           d == r.body
<1>1. r \in LinkRequest /\ d \in BodyOf(r.op) /\ r.op \in {"create", "form", "patch"}
  BY RequestKinds DEF Store, TypeInv, Remembered, LinkRequest
<1>2. CASE r.op = "create"
  <2>1. PICK i \in Ids : links' = [links EXCEPT ![i] = d]
    BY <1>2 DEF Store
  <2>2. d \in Link
    BY <1>1, <1>2, StoredRow
  <2> QED BY <1>2, <2>1, <2>2 DEF Writes
<1>3. CASE r.op = "form"
  <2>1. links' = [links EXCEPT ![r.id] = d]
    BY <1>3 DEF Store
  <2>2. d \in Link /\ r.id \in Ids
    BY <1>1, <1>3, StoredRow DEF LinkRequest
  <2> QED BY <1>3, <2>1, <2>2 DEF Writes
<1>4. CASE r.op = "patch" /\ r.id \in Rows
  <2>1. links' = [links EXCEPT ![r.id] = Merged(d, links[r.id])]
    BY <1>4 DEF Store
  <2>2. r.id \in Ids /\ links[r.id] \in Link
    BY <1>4 DEF Rows
  <2>3. Merged(d, links[r.id]) \in Link
    BY <1>1, <2>2, StoredRow
  <2> QED BY <1>4, <2>1, <2>2, <2>3 DEF Writes
<1>5. CASE r.op = "patch" /\ r.id \notin Rows
  BY <1>5 DEF Store
<1> QED BY <1>1, <1>2, <1>3, <1>4, <1>5

\* A request about to store names both fields, or is about a rule and names no
\* target field.
Sent ==
    \A w \in Workers : At(w, "store") =>
        \/ kind = "rule" /\ ~Given(req[w].body.fld)
        \/ req[w].body.src \in Fields /\ req[w].body.fld \in Fields

\* A row with a field as its only target was sent with both fields: what a partial
\* update leaves out makes it a row with two targets, or none.
LEMMA SingleTargetWasSent ==
    ASSUME TypeInv, Sent, NEW w \in Workers, At(w, "store"),
           NEW i, NEW row \in Link, Writes(req[w], i, row),
           row.sec = None, row.fld # None
    PROVE  /\ req[w].body.src \in Fields /\ req[w].body.fld \in Fields
           /\ row.src = req[w].body.src /\ row.fld = req[w].body.fld
<1> DEFINE r == req[w]
           d == r.body
<1>1. r \in LinkRequest /\ d \in BodyOf(r.op)
  BY RequestKinds DEF TypeInv, Remembered
<1>2. Given(d.fld)
  <2>1. row.fld \in Fields
    BY DEF Link
  <2>2. CASE row = d
    BY <2>1, <2>2, BuilderAssumption DEF Given
  <2>3. CASE r.op = "patch" /\ d.fld = Absent
    <3>1. kind = "rule" \/ kind = "dependency"
      BY DEF TypeInv, TypeOK
    <3>2. kind = "rule" => Given(d.sec)
      BY <1>1, <2>3 DEF TypeInv, Remembered, Given
    <3>3. kind = "dependency" => FALSE
      BY <2>3, BuilderAssumption DEF Sent
    <3>4. kind = "rule" => row.sec # None
      BY <3>2, BuilderAssumption DEF Writes, Merged, Kept, Given
    <3> QED BY <3>1, <3>3, <3>4
  <2>4. CASE r.op = "patch" /\ d.fld = None
    BY <2>4, BuilderAssumption DEF Writes, Merged, Kept
  <2> QED BY <2>2, <2>3, <2>4 DEF Writes, Given
<1>3. d.src \in Fields /\ d.fld \in Fields
  BY <1>2 DEF Sent
<1>4. row.fld = d.fld /\ row.src = d.src
  BY <1>3, BuilderAssumption DEF Writes, Merged, Kept
<1> QED BY <1>3, <1>4

LEMMA SearchedSent == Searched => Sent
BY DEF Searched, Sent

\* The row a request writes closes no cycle among the single-target links.
LEMMA StoreAcyclic ==
    ASSUME TypeInv, Searched, SingleTargetAcyclic, NEW w \in Workers, Store(w)
    PROVE  SingleTargetAcyclic'
<1>1. CASE links' = links
  BY <1>1, SameLinksAcyclic
<1>2. ASSUME NEW i \in Ids, NEW row \in Link, Writes(req[w], i, row)
      PROVE  SingleTargetAcyclic'
  <2> DEFINE r == req[w]
             kept == EdgesOf(SingleTarget \ {i})
  <2>1. Acyclic(kept)
    BY FewerEdges, AcyclicSubset DEF SingleTargetAcyclic
  <2>2. links' = [links EXCEPT ![i] = row]
    BY <1>2 DEF Writes
  <2>3. CASE row.sec # None \/ row.fld = None
    BY <2>1, <2>2, <2>3, StoreEdges, AcyclicSubset DEF TypeInv, SingleTargetAcyclic
  <2>4. CASE row.sec = None /\ row.fld # None
    <3>1. /\ r.body.fld \in Fields
          /\ row.src = r.body.src /\ row.fld = r.body.fld
      BY <1>2, <2>4, SingleTargetWasSent, SearchedSent DEF Store
    <3>7. ~RefusesCycle(r)
      BY <3>1, BuilderAssumption DEF Searched, Store, Given
    <3>2. kept \subseteq EdgesOf(SearchedRows(r))
      BY <1>2, FewerEdges DEF SearchedRows, SingleTarget, Writes
    <3>3. ~CycleReachable(EdgesOf(SearchedRows(r)) \cup {<<row.fld, row.src>>}, row.fld)
      BY <3>1, <3>7 DEF RefusesCycle, ProposedGraph
    <3>4. row.fld \in Fields /\ row.src \in Fields
      BY <2>4 DEF Link
    <3>5. Acyclic(kept \cup {<<row.fld, row.src>>})
      BY <2>1, <3>2, <3>3, <3>4, SearchSound
    <3>6. EdgesOf(SingleTarget)' \subseteq kept \cup {<<row.fld, row.src>>}
      BY <2>2, StoreEdges DEF TypeInv
    <3> QED BY <3>5, <3>6, AcyclicSubset DEF SingleTargetAcyclic
  <2> QED BY <2>3, <2>4
<1> QED BY <1>1, <1>2, StoreWrites

LEMMA DeleteAcyclic ==
    ASSUME TypeOK, SingleTargetAcyclic, NEW ids, Delete(ids)
    PROVE  SingleTargetAcyclic'
<1>1. \A i \in Ids : links'[i] \in Link => links'[i] = links[i]
  BY DeleteTypes
<1>2. EdgesOf(SingleTarget)' \subseteq EdgesOf(SingleTarget)
  BY <1>1 DEF EdgesOf, SingleTarget, Rows
<1> QED BY <1>2, AcyclicSubset DEF SingleTargetAcyclic

\* A worker that steps alone keeps every other one idle.
LEMMA StepAlone ==
    ASSUME TypeInv, NEW w \in Workers, Step(w),
           \A v \in Workers \ {w} : At(v, "idle")
    PROVE  \A v \in Workers \ {w} : At(v, "idle")'
<1>1. \A v \in Workers \ {w} : req'[v] = req[v]
  BY DEF TypeInv, TypeOK, Step, Validate, Search, Store, LoadSection, MoveSection, Abandon, Finish
<1> QED BY <1>1 DEF At

\* A request that goes on from its search was answered about the table as it is.
Passed(w) ==
    \/ kind = "rule" /\ ~Given(req[w].body.fld)
    \/ /\ req[w].body.src \in Fields
       /\ req[w].body.fld \in Fields
       /\ ~RefusesCycle(req[w])

LEMMA SearchPasses ==
    ASSUME TypeInv, NEW w \in Workers, Search(w), At(w, "store")'
    PROVE  Passed(w)'
<1> DEFINE r == req[w]
<1>1. r \in LinkRequest /\ r.body \in BodyOf(r.op)
  BY RequestKinds DEF Search, TypeInv, Remembered
<1>2. req' = [req EXCEPT ![w].pc = "store"] /\ ~Finish(w)
  BY DEF Search, Finish, At, Idle, TypeInv, TypeOK
<1>3. req'[w] = [r EXCEPT !.pc = "store"]
  BY <1>2 DEF TypeInv, TypeOK
<1>4. \/ kind = "rule" /\ ~Given(r.body.fld)
      \/ r.body.src \in Fields /\ r.body.fld \in Fields /\ ~RefusesCycle(r)
  BY <1>1, <1>2 DEF Search, Skipped, Complete, Given, BodyOf, Body
<1>5. req'[w].body = r.body /\ req'[w].op = r.op /\ req'[w].id = r.id
  BY <1>1, <1>3 DEF LinkRequest
<1>6. kind' = kind /\ links' = links
  BY DEF Search, tables
<1>7. RefusesCycle(req[w])' = RefusesCycle(r)
  BY <1>5, <1>6 DEF RefusesCycle, ProposedGraph, SearchedRows, Rows, EdgesOf,
                    CycleReachable, Reachable, Closed
<1> QED BY <1>4, <1>5, <1>6, <1>7 DEF Passed, Given

\* Only Search brings a request to the point where it is stored.
LEMMA ToStore ==
    ASSUME TypeInv, NEW w \in Workers, Step(w), At(w, "store")'
    PROVE  Search(w)
BY DEF Step, Validate, Store, LoadSection, MoveSection, Abandon, Finish, Idle, At,
       TypeInv, TypeOK

LEMMA StepSearched ==
    ASSUME SerialInv, NEW w \in Workers, Step(w),
           \A v \in Workers \ {w} : At(v, "idle")
    PROVE  Searched'
<1>1. \A v \in Workers \ {w} : ~At(v, "store")'
  BY StepAlone DEF SerialInv, At
<1>2. At(w, "store")' => Passed(w)'
  BY ToStore, SearchPasses DEF SerialInv
<1> QED BY <1>1, <1>2 DEF Searched, Passed

LEMMA StepSerialInv ==
    ASSUME SerialInv, NEW w \in Workers, Step(w),
           \A v \in Workers \ {w} : At(v, "idle")
    PROVE  SerialInv'
<1>1. TypeInv'
  BY StepTypeInv DEF SerialInv
<1>2. Alone'
  BY StepAlone DEF SerialInv, Alone
<1>3. Searched'
  BY StepSearched
<1>4. SingleTargetAcyclic'
  <2>1. CASE Store(w)
    BY <2>1, StoreAcyclic DEF SerialInv
  <2>2. CASE ~Store(w)
    <3>1. links' = links
      BY <2>2 DEF Step, Validate, Search, LoadSection, MoveSection, Abandon, tables
    <3> QED BY <3>1, SameLinksAcyclic DEF SerialInv
  <2> QED BY <2>1, <2>2
<1> QED BY <1>1, <1>2, <1>3, <1>4 DEF SerialInv

LEMMA AtOnceSerialInv ==
    ASSUME SerialInv, AtOnce, \A w \in Workers : At(w, "idle")
    PROVE  SerialInv'
<1>1. TypeInv'
  BY AtOnceTypeInv DEF SerialInv
<1>2. req' = req
  BY DEF AtOnce, DropLink, Cascade, MoveField, FormMove, FormMoveSection, FormMoveField
<1>3. Alone' /\ Searched'
  BY <1>2 DEF Alone, Searched, At
<1>4. SingleTargetAcyclic'
  <2>1. CASE \E i \in Ids : DropLink(i)
    <3>1. PICK i \in Ids : DropLink(i)
      BY <2>1
    <3>2. Delete({i})
      BY <3>1 DEF DropLink
    <3> QED BY <3>2, DeleteAcyclic DEF SerialInv, TypeInv
  <2>2. CASE \E x \in Fields \cup Sections : Cascade(x)
    <3>1. PICK x \in Fields \cup Sections : Cascade(x)
      BY <2>2
    <3>2. Delete({i \in Rows : {links[i].src, links[i].sec, links[i].fld} \cap Below(x) # {}})
      BY <3>1 DEF Cascade
    <3> QED BY <3>2, DeleteAcyclic DEF SerialInv, TypeInv
  <2>3. CASE links' = links
    BY <2>3, SameLinksAcyclic DEF SerialInv
  <2> QED BY <2>1, <2>2, <2>3 DEF AtOnce, MoveField, FormMove, FormMoveSection, FormMoveField
<1> QED BY <1>1, <1>3, <1>4 DEF SerialInv

LEMMA InitSerialInv == Init => SerialInv
<1> SUFFICES ASSUME Init PROVE SerialInv
  OBVIOUS
<1>1. TypeInv
  BY InitTypeInv
<1>2. Alone /\ Searched
  BY DEF Init, Alone, Searched, At, Idle
<1>3. EdgesOf(SingleTarget) = {}
  BY NotALink DEF Init, EdgesOf, SingleTarget, Rows
<1>4. SingleTargetAcyclic
  BY <1>3 DEF SingleTargetAcyclic, Acyclic
<1> QED BY <1>1, <1>2, <1>4 DEF SerialInv

LEMMA StutterSerialInv ==
    ASSUME SerialInv, UNCHANGED vars
    PROVE  SerialInv'
<1>1. TypeInv'
  BY StutterTypeInv DEF SerialInv
<1>2. links' = links /\ req' = req /\ kind' = kind
  BY DEF vars
<1>3. Alone'
  BY <1>2 DEF SerialInv, Alone, At
<1>4. \A w \in Workers : RefusesCycle(req[w])' = RefusesCycle(req[w])
  BY <1>2 DEF RefusesCycle, ProposedGraph, SearchedRows, Rows, EdgesOf, CycleReachable,
              Reachable, Closed
<1>5. Searched'
  BY <1>2, <1>4 DEF SerialInv, Searched, At
<1> QED BY <1>1, <1>2, <1>3, <1>5, SameLinksAcyclic DEF SerialInv

\* While requests do not overlap, dependencies and field rules with one target
\* never form a cycle: each was searched when it was stored, and no reordering,
\* deletion or two-target rule adds an edge to them.
THEOREM SerialAcyclic == SerialSpec => []SingleTargetAcyclic
<1>1. SerialInv /\ [SerialNext]_vars => SerialInv'
  BY StepSerialInv, AtOnceSerialInv, StutterSerialInv DEF SerialNext
<1>2. SerialInv => SingleTargetAcyclic
  BY DEF SerialInv
<1> QED BY InitSerialInv, <1>1, <1>2, PTL DEF SerialSpec

-----------------------------------------------------------------------------
(* Requests that overlap but for the window from the search to the storage *)

OneStores == \A v, w \in Workers : At(v, "store") /\ At(w, "store") => v = w

ApartInv == TypeInv /\ Searched /\ OneStores /\ SingleTargetAcyclic

\* Fewer edges, no more cycles that can be reached.
LEMMA ReachesLess ==
    ASSUME NEW E, NEW F, E \subseteq F, NEW t, CycleReachable(E, t)
    PROVE  CycleReachable(F, t)
<1>1. Reachable(E, t) \subseteq Reachable(F, t)
  BY DEF Reachable, Closed
<1>2. PICK S \in SUBSET Reachable(E, t) : S # {} /\ \A f \in S : \E g \in S : <<f, g>> \in E
  BY DEF CycleReachable
<1>3. S \in SUBSET Reachable(F, t) /\ \A f \in S : \E g \in S : <<f, g>> \in F
  BY <1>1, <1>2
<1> QED BY <1>2, <1>3 DEF CycleReachable

\* What was searched is still free of cycles when rows have only gone.
LEMMA StillPassed ==
    ASSUME NEW w \in Workers, Passed(w), req'[w] = req[w], kind' = kind,
           \A i \in Ids : links'[i] \in Link => links'[i] = links[i]
    PROVE  Passed(w)'
<1>1. Rows' \subseteq Rows /\ \A i \in Rows' : links'[i] = links[i]
  BY DEF Rows
<1>2. SearchedRows(req[w])' \subseteq SearchedRows(req[w])
      /\ SearchedRows(req[w])' \subseteq Rows'
  BY <1>1 DEF SearchedRows
<1>3. EdgesOf(SearchedRows(req[w]))' \subseteq EdgesOf(SearchedRows(req[w]))
  BY <1>1, <1>2 DEF EdgesOf
<1>4. ProposedGraph(req[w])' \subseteq ProposedGraph(req[w])
  BY <1>3 DEF ProposedGraph
<1>5. RefusesCycle(req[w])' => RefusesCycle(req[w])
  <2>1. RefusesCycle(req[w])' = CycleReachable(ProposedGraph(req[w])', req[w].body.fld)
    BY DEF RefusesCycle, CycleReachable, Reachable, Closed
  <2> QED BY <1>4, <2>1, ReachesLess DEF RefusesCycle
<1> QED BY <1>5 DEF Passed, Given

LEMMA ApartStepInv ==
    ASSUME ApartInv, NEW w \in Workers, Step(w),
           Search(w) => \A v \in Workers : ~At(v, "store")
    PROVE  ApartInv'
<1>1. TypeInv /\ TypeOK /\ TypeInv'
  BY StepTypeInv DEF ApartInv, TypeInv
<1>2. \A v \in Workers \ {w} : req'[v] = req[v]
  BY <1>1 DEF TypeOK, Step, Validate, Search, Store, LoadSection, MoveSection, Abandon, Finish
<1>3. kind' = kind
  BY DEF Step, Validate, Search, Store, LoadSection, MoveSection, Abandon, tables
<1>4. At(w, "store")' => Search(w)
  BY <1>1, ToStore
<1>5. OneStores'
  BY <1>2, <1>4 DEF ApartInv, OneStores, At
<1>6. CASE Store(w)
  <2>1. \A v \in Workers : ~At(v, "store")'
    BY <1>2, <1>4, <1>6 DEF ApartInv, OneStores, Store, Search, At
  <2>2. SingleTargetAcyclic'
    BY <1>1, <1>6, StoreAcyclic DEF ApartInv
  <2> QED BY <1>1, <1>5, <2>1, <2>2 DEF ApartInv, Searched
<1>7. CASE ~Store(w)
  <2>1. links' = links
    BY <1>7 DEF Step, Validate, Search, LoadSection, MoveSection, Abandon, tables
  <2>2. SingleTargetAcyclic'
    BY <2>1, SameLinksAcyclic DEF ApartInv
  <2>3. ASSUME NEW v \in Workers, At(v, "store")'
        PROVE  Passed(v)'
    <3>1. CASE v = w
      BY <1>1, <1>4, <2>3, <3>1, SearchPasses
    <3>2. CASE v # w
      <4>1. req'[v] = req[v] /\ Passed(v)
        BY <1>2, <2>3, <3>2 DEF ApartInv, Searched, Passed, At
      <4> QED BY <1>3, <2>1, <4>1, StillPassed
    <3> QED BY <3>1, <3>2
  <2> QED BY <1>1, <1>5, <2>2, <2>3 DEF ApartInv, Searched, Passed
<1> QED BY <1>6, <1>7

LEMMA ApartAtOnceInv ==
    ASSUME ApartInv, AtOnce
    PROVE  ApartInv'
<1>1. TypeInv'
  BY AtOnceTypeInv DEF ApartInv
<1>2. req' = req /\ kind' = kind
  BY DEF AtOnce, DropLink, Cascade, MoveField, FormMove, FormMoveSection, FormMoveField
<1>3. \/ \E ids : Delete(ids)
      \/ links' = links
  BY DEF AtOnce, DropLink, Cascade, MoveField, FormMove, FormMoveSection, FormMoveField
<1>4. SingleTargetAcyclic' /\ \A i \in Ids : links'[i] \in Link => links'[i] = links[i]
  BY <1>3, DeleteAcyclic, DeleteTypes, SameLinksAcyclic DEF ApartInv, TypeInv
<1>5. Searched'
  BY <1>2, <1>4, StillPassed DEF ApartInv, Searched, Passed, At
<1>6. OneStores'
  BY <1>2 DEF ApartInv, OneStores, At
<1> QED BY <1>1, <1>4, <1>5, <1>6 DEF ApartInv

\* Requests may overlap in every other way, and whatever is moved, reordered or deleted
\* between: as long as no request is searched while another one is between its search and
\* its storage, the single-target links form no cycle. Only overlaps in that window can
\* close one.
THEOREM ApartAcyclic == ApartSpec => []SingleTargetAcyclic
<1>1. Init => ApartInv
  BY InitSerialInv DEF Init, ApartInv, SerialInv, OneStores, At, Idle
<1>2. ApartInv /\ [ApartNext]_vars => ApartInv'
  <2>1. ASSUME ApartInv, UNCHANGED vars
        PROVE  ApartInv'
    <3>1. TypeInv' /\ SingleTargetAcyclic'
      BY <2>1, StutterTypeInv, SameLinksAcyclic DEF ApartInv, vars
    <3>2. Searched'
      BY <2>1, StillPassed DEF ApartInv, Searched, Passed, At, vars
    <3> QED BY <2>1, <3>1, <3>2 DEF ApartInv, OneStores, At, vars
  <2> QED BY <2>1, ApartStepInv, ApartAtOnceInv DEF ApartNext
<1>3. ApartInv => SingleTargetAcyclic
  BY DEF ApartInv
<1> QED BY <1>1, <1>2, <1>3, PTL DEF ApartSpec

-----------------------------------------------------------------------------
(* The order of the sections *)

\* What a request learned about the order still holds.
OrderKnown ==
    \A w \in Workers :
        /\ At(w, "search") \/ At(w, "store") =>
              (Given(req[w].body.src) => WellOrdered(secOrder, req[w].body))
        /\ At(w, "move") => req[w].old = secOrder[req[w].section]

OrderInv == SerialInv /\ OrderKnown

LEMMA WellOrderedNotForward ==
    ASSUME NEW order \in [Sections -> SectionPositions],
           place \in [Fields -> Sections \X FieldPositions],
           NEW l \in Link, l.fld # None, WellOrdered(order, l)
    PROVE  ~(order[place[l.fld][1]] < order[place[l.src][1]])
<1>1. l.src \in Fields /\ l.fld \in Fields
  BY DEF Link
<1>2. Given(l.fld)
  BY <1>1, BuilderAssumption DEF Given
<1>3. PrecedesField(order, l.src, l.fld)
  BY <1>2 DEF WellOrdered
<1>4. place[l.src][1] \in Sections /\ place[l.fld][1] \in Sections
  BY <1>1
<1>5. order[place[l.src][1]] \in Nat /\ order[place[l.fld][1]] \in Nat
  BY <1>4, BuilderAssumption
<1> QED BY <1>3, <1>5 DEF PrecedesField, PrecedesSection

TurnsNone ==
    \A i \in Ids : PointsForward(i)' => PointsForward(i) /\ links'[i] = links[i]

LEMMA StoreTurnsNone ==
    ASSUME OrderInv, NEW w \in Workers, Store(w)
    PROVE  TurnsNone
<1>1. secOrder' = secOrder /\ place' = place
  BY DEF Store
<1>2. CASE links' = links
  BY <1>1, <1>2 DEF TurnsNone, PointsForward
<1>3. ASSUME NEW i \in Ids, NEW row \in Link, Writes(req[w], i, row)
      PROVE  TurnsNone
  <2>1. links' = [links EXCEPT ![i] = row]
    BY <1>3 DEF Writes
  <2>2. \A j \in Ids \ {i} : links'[j] = links[j]
    BY <2>1 DEF OrderInv, SerialInv, TypeInv, TypeOK
  <2>3. links'[i] = row
    BY <2>1 DEF OrderInv, SerialInv, TypeInv, TypeOK
  <2>4. ASSUME row.sec = None, row.fld # None
        PROVE  ~(secOrder[place[row.fld][1]] < secOrder[place[row.src][1]])
    <3>1. row.src = req[w].body.src /\ row.fld = req[w].body.fld
      BY <1>3, <2>4, SingleTargetWasSent, SearchedSent DEF OrderInv, SerialInv, Store
    <3>2. Given(row.src) /\ ~Given(row.sec)
      BY <2>4, BuilderAssumption DEF Given, Link
    <3>3. WellOrdered(secOrder, req[w].body)
      BY <3>1, <3>2 DEF OrderInv, OrderKnown, Store
    <3>4. WellOrdered(secOrder, row)
      BY <3>1, <3>2, <3>3 DEF WellOrdered
    <3> QED BY <2>4, <3>4, WellOrderedNotForward DEF OrderInv, SerialInv, TypeInv, TypeOK
  <2>5. ~PointsForward(i)'
    BY <1>1, <2>3, <2>4 DEF PointsForward
  <2>6. \A j \in Ids \ {i} : PointsForward(j)' = PointsForward(j)
    BY <1>1, <2>2 DEF PointsForward
  <2> QED BY <2>2, <2>5, <2>6 DEF TurnsNone
<1> QED BY <1>2, <1>3, StoreWrites DEF OrderInv, SerialInv

LEMMA MoveSectionTurnsNone ==
    ASSUME OrderInv, NEW w \in Workers, MoveSection(w)
    PROVE  TurnsNone
<1> DEFINE r == req[w]
           order == [secOrder EXCEPT ![r.section] = r.to]
<1>1. r.section \in Sections /\ r.to \in SectionPositions /\ At(w, "move")
  BY RequestKinds DEF MoveSection, MoveRequest, OrderInv, SerialInv, TypeInv
<1>2. links' = links /\ place' = place
  BY DEF MoveSection
<1>3. CASE secOrder' = secOrder
  BY <1>2, <1>3 DEF TurnsNone, PointsForward
<1>4. CASE secOrder' = order /\ r.to = r.old
  <2>1. r.old = secOrder[r.section]
    BY <1>1 DEF OrderInv, OrderKnown
  <2>2. order = secOrder
    BY <1>1, <1>4, <2>1 DEF OrderInv, SerialInv, TypeInv, TypeOK
  <2> QED BY <1>3, <1>4, <2>2
<1>5. CASE secOrder' = order /\ StillOrdered(order)
  <2>1. order \in [Sections -> SectionPositions]
    BY <1>1 DEF OrderInv, SerialInv, TypeInv, TypeOK
  <2>2. ASSUME NEW i \in Ids, links[i] \in Link, links[i].fld # None
        PROVE  ~(order[place[links[i].fld][1]] < order[place[links[i].src][1]])
    <3>1. WellOrdered(order, links[i])
      BY <1>5, <2>2 DEF StillOrdered, Rows
    <3> QED BY <2>1, <2>2, <3>1, WellOrderedNotForward DEF OrderInv, SerialInv, TypeInv, TypeOK
  <2>3. \A i \in Ids : ~PointsForward(i)'
    BY <1>2, <1>5, <2>2 DEF PointsForward
  <2> QED BY <2>3 DEF TurnsNone
<1> QED BY <1>3, <1>4, <1>5 DEF MoveSection

LEMMA AtOnceTurnsNone ==
    ASSUME OrderInv, AtOnce, ~FormMove
    PROVE  TurnsNone
<1>1. TypeOK
  BY DEF OrderInv, SerialInv, TypeInv
<1>2. CASE \E i \in Ids : DropLink(i)
  <2>1. PICK i \in Ids : DropLink(i)
    BY <1>2
  <2>2. Delete({i}) /\ secOrder' = secOrder /\ place' = place
    BY <2>1 DEF DropLink
  <2> QED BY <1>1, <2>2, DeleteTypes DEF TurnsNone, PointsForward
<1>3. CASE \E x \in Fields \cup Sections : Cascade(x)
  <2>1. PICK x \in Fields \cup Sections : Cascade(x)
    BY <1>3
  <2>2. /\ Delete({i \in Rows : {links[i].src, links[i].sec, links[i].fld} \cap Below(x) # {}})
        /\ secOrder' = secOrder /\ place' = place
    BY <2>1 DEF Cascade
  <2> QED BY <1>1, <2>2, DeleteTypes DEF TurnsNone, PointsForward
<1>4. CASE \E f \in Fields, p \in FieldPositions : MoveField(f, p)
  <2>1. PICK f \in Fields, p \in FieldPositions : MoveField(f, p)
    BY <1>4
  <2>2. place' = [place EXCEPT ![f] = [place[f] EXCEPT ![2] = p]]
        /\ secOrder' = secOrder /\ links' = links
    BY <2>1 DEF MoveField
  <2>3. \A g \in Fields : place'[g][1] = place[g][1]
    BY <1>1, <2>2 DEF TypeOK
  <2> QED BY <2>2, <2>3 DEF TurnsNone, PointsForward, Link
<1> QED BY <1>2, <1>3, <1>4 DEF AtOnce

\* A step of the only busy worker leaves what it knows of the order true.
LEMMA StepOrderKnown ==
    ASSUME OrderInv, NEW w \in Workers, Step(w),
           \A v \in Workers \ {w} : At(v, "idle")
    PROVE  OrderKnown'
<1>1. TypeInv /\ TypeOK
  BY DEF OrderInv, SerialInv, TypeInv
<1>2. \A v \in Workers \ {w} : At(v, "idle")'
  BY <1>1, StepAlone
<1>3. CASE Validate(w)
  <2>1. req'[w].pc = "search" /\ Accepted(req'[w].body)
        /\ secOrder' = secOrder /\ place' = place
    BY <1>1, <1>3 DEF Validate, tables, TypeOK
  <2>2. Given(req'[w].body.src) => WellOrdered(secOrder, req'[w].body)
    BY <2>1 DEF Accepted
  <2> QED BY <1>2, <2>1, <2>2 DEF OrderKnown, At, Given, WellOrdered, PrecedesSection, PrecedesField
<1>4. CASE Search(w)
  <2>1. secOrder' = secOrder /\ place' = place /\ req[w] \in LinkRequest
    BY <1>1, <1>4, RequestKinds DEF Search, tables
  <2>2. req'[w] = Idle \/ (req'[w].body = req[w].body /\ req'[w].pc = "store")
    BY <1>1, <1>4, <2>1 DEF Search, Finish, LinkRequest, TypeOK
  <2>3. At(w, "search")
    BY <1>4 DEF Search
  <2> QED BY <1>2, <2>1, <2>2, <2>3 DEF OrderInv, OrderKnown, At, Idle, Given, WellOrdered,
                                       PrecedesSection, PrecedesField
<1>5. CASE LoadSection(w)
  <2>1. req'[w].pc = "move" /\ req'[w].old = secOrder[req'[w].section] /\ secOrder' = secOrder
    BY <1>1, <1>5 DEF LoadSection, tables, TypeOK
  <2> QED BY <1>2, <2>1 DEF OrderKnown, At
<1>6. CASE Store(w) \/ MoveSection(w) \/ Abandon(w)
  <2>1. req'[w] = Idle
    BY <1>1, <1>6 DEF Store, MoveSection, Abandon, Finish, TypeOK
  <2> QED BY <1>2, <2>1 DEF OrderKnown, At, Idle
<1> QED BY <1>3, <1>4, <1>5, <1>6 DEF Step

LEMMA NextOrderInv ==
    ASSUME OrderInv, [SerialNext]_vars
    PROVE  OrderInv' /\ [FormMove \/ TurnsNone]_vars
<1>1. CASE AtOnce /\ \A w \in Workers : At(w, "idle")
  <2>1. SerialInv'
    BY <1>1, AtOnceSerialInv DEF OrderInv
  <2>2. req' = req
    BY <1>1 DEF AtOnce, DropLink, Cascade, MoveField, FormMove, FormMoveSection, FormMoveField
  <2>3. OrderKnown'
    BY <1>1, <2>2 DEF OrderKnown, At
  <2> QED BY <1>1, <2>1, <2>3, AtOnceTurnsNone DEF OrderInv
<1>2. ASSUME NEW w \in Workers, Step(w), \A v \in Workers \ {w} : At(v, "idle")
      PROVE  OrderInv' /\ TurnsNone
  <2>1. SerialInv' /\ OrderKnown'
    BY <1>2, StepSerialInv, StepOrderKnown DEF OrderInv
  <2>2. CASE Store(w)
    BY <2>2, StoreTurnsNone, <2>1 DEF OrderInv
  <2>3. CASE MoveSection(w)
    BY <2>3, MoveSectionTurnsNone, <2>1 DEF OrderInv
  <2>4. CASE ~Store(w) /\ ~MoveSection(w)
    <3>1. UNCHANGED tables
      BY <1>2, <2>4 DEF Step, Validate, Search, LoadSection, Abandon
    <3>2. TurnsNone
      BY <3>1 DEF TurnsNone, PointsForward, tables
    <3> QED BY <2>1, <3>2 DEF OrderInv
  <2> QED BY <2>2, <2>3, <2>4
<1>3. CASE UNCHANGED vars
  <2>1. SerialInv'
    BY <1>3, StutterSerialInv DEF OrderInv
  <2>2. OrderKnown'
    BY <1>3 DEF OrderInv, OrderKnown, vars, At, WellOrdered, PrecedesSection, PrecedesField, Given
  <2> QED BY <1>3, <2>1, <2>2 DEF OrderInv
<1> QED BY <1>1, <1>2, <1>3 DEF SerialNext

\* While requests do not overlap, only a form of the admin site turns a link
\* against the order of the sections.
THEOREM SerialForward == SerialSpec => OnlyFormsTurnForward
<1>1. Init => OrderInv
  <2> SUFFICES ASSUME Init PROVE OrderInv
    OBVIOUS
  <2>1. OrderKnown
    BY DEF Init, OrderKnown, At, Idle
  <2> QED BY <2>1, InitSerialInv DEF OrderInv
<1>2. OrderInv /\ [SerialNext]_vars => OrderInv' /\ [FormMove \/ TurnsNone]_vars
  BY NextOrderInv
<1> QED BY <1>1, <1>2, PTL DEF SerialSpec, OnlyFormsTurnForward, TurnsNone

-----------------------------------------------------------------------------
(* Overlapping requests between reorderings of the sections *)

\* What a request about a link learned of the order still holds, and a reordering
\* has the survey to itself.
CalmKnown ==
    \A w \in Workers :
        /\ At(w, "search") \/ At(w, "store") =>
              (Given(req[w].body.src) => WellOrdered(secOrder, req[w].body))
        /\ At(w, "move") =>
              /\ req[w].old = secOrder[req[w].section]
              /\ \A v \in Workers \ {w} : At(v, "idle")

CalmInv == TypeInv /\ Sent /\ CalmKnown /\ StoredInOrder

LEMMA LeastNumber ==
    ASSUME NEW T \in SUBSET Nat, T # {}
    PROVE  \E x \in T : \A y \in T : ~(y < x)
<1>1. PICK x \in T : \A y \in T : <<y, x>> \notin OpToRel(<, Nat)
  BY WFMin, NatLessThanWellFounded
<1> QED BY <1>1 DEF OpToRel

\* Links in order close no cycle: of any set of fields the first depends on none
\* of the others.
LEMMA InOrderAcyclic ==
    ASSUME TypeOK, StoredInOrder
    PROVE  SingleTargetAcyclic
<1> DEFINE E == EdgesOf(SingleTarget)
           sec(f) == secOrder[place[f][1]]
           pos(f) == place[f][2]
<1>1. \A f \in Fields : place[f][1] \in Sections /\ sec(f) \in Nat /\ pos(f) \in Nat
  BY BuilderAssumption DEF TypeOK
<1>2. ASSUME NEW f \in Fields, NEW g \in Fields, <<f, g>> \in E
      PROVE  sec(g) < sec(f) \/ (place[g][1] = place[f][1] /\ pos(g) < pos(f))
  <2>1. PICK i \in SingleTarget : links[i].fld # None /\ f = links[i].fld /\ g = links[i].src
    BY <1>2 DEF EdgesOf
  <2>2. WellOrdered(secOrder, links[i])
    BY DEF StoredInOrder
  <2>3. PrecedesField(secOrder, g, f)
    BY <2>1, <2>2, BuilderAssumption DEF WellOrdered, Given
  <2> QED BY <2>3 DEF PrecedesField, PrecedesSection
<1>3. SUFFICES ASSUME NEW S \in SUBSET Fields, S # {}
               PROVE  \E f \in S : \A g \in S : <<f, g>> \notin E
  BY DEF SingleTargetAcyclic, Acyclic
<1>4. PICK f1 \in S : \A g \in S : ~(sec(g) < sec(f1))
  <2> DEFINE T == {sec(f) : f \in S}
  <2>1. T \in SUBSET Nat /\ T # {}
    BY <1>1, <1>3
  <2> HIDE DEF T
  <2>2. PICK x \in T : \A y \in T : ~(y < x)
    BY <2>1, LeastNumber
  <2> QED BY <2>2 DEF T
<1> DEFINE first == {f \in S : sec(f) = sec(f1)}
<1>5. PICK f2 \in first : \A g \in first : ~(pos(g) < pos(f2))
  <2> DEFINE T == {pos(f) : f \in first}
  <2>1. T \in SUBSET Nat /\ T # {}
    BY <1>1, <1>3
  <2> HIDE DEF T
  <2>2. PICK x \in T : \A y \in T : ~(y < x)
    BY <2>1, LeastNumber
  <2> QED BY <2>2 DEF T
<1>6. \A g \in S : <<f2, g>> \notin E
  <2> SUFFICES ASSUME NEW g \in S, <<f2, g>> \in E PROVE FALSE
    OBVIOUS
  <2>1. sec(g) < sec(f2) \/ (place[g][1] = place[f2][1] /\ pos(g) < pos(f2))
    BY <1>2
  <2>2. ~(sec(g) < sec(f2))
    BY <1>4
  <2>3. g \in first
    BY <2>1, <2>2
  <2> QED BY <1>5, <2>1, <2>2, <2>3
<1> QED BY <1>6

\* The row a request writes is in order if its only target is a field.
LEMMA StoreInOrder ==
    ASSUME CalmInv, NEW w \in Workers, Store(w)
    PROVE  StoredInOrder'
<1>1. TypeInv /\ TypeOK /\ secOrder' = secOrder /\ place' = place
  BY DEF CalmInv, TypeInv, Store
<1>2. CASE links' = links
  BY <1>1, <1>2 DEF CalmInv, StoredInOrder, SingleTarget, Rows, WellOrdered, PrecedesField,
                    PrecedesSection
<1>3. ASSUME NEW i \in Ids, NEW row \in Link, Writes(req[w], i, row)
      PROVE  StoredInOrder'
  <2>1. links'[i] = row /\ \A j \in Ids \ {i} : links'[j] = links[j]
    BY <1>1, <1>3 DEF Writes, TypeOK
  <2>2. ASSUME row.sec = None
        PROVE  WellOrdered(secOrder, row)
    <3>1. CASE row.fld = None
      BY <2>2, <3>1, BuilderAssumption DEF WellOrdered, Given
    <3>2. CASE row.fld # None
      <4>1. row.src = req[w].body.src /\ row.fld = req[w].body.fld
            /\ req[w].body.src \in Fields
        BY <1>1, <1>3, <2>2, <3>2, SingleTargetWasSent DEF CalmInv, Store
      <4>2. WellOrdered(secOrder, req[w].body)
        BY <4>1, BuilderAssumption DEF CalmInv, CalmKnown, Store, Given
      <4>3. ~Given(row.sec)
        BY <2>2 DEF Given
      <4> QED BY <4>1, <4>2, <4>3 DEF WellOrdered
    <3> QED BY <3>1, <3>2
  <2> QED BY <1>1, <2>1, <2>2 DEF CalmInv, StoredInOrder, SingleTarget, Rows, WellOrdered,
                                  PrecedesField, PrecedesSection
<1> QED BY <1>1, <1>2, <1>3, StoreWrites

\* A reordering that nothing overlaps keeps the links in order.
LEMMA MoveSectionInOrder ==
    ASSUME CalmInv, NEW w \in Workers, MoveSection(w)
    PROVE  StoredInOrder'
<1> DEFINE r == req[w]
           order == [secOrder EXCEPT ![r.section] = r.to]
<1>1. TypeOK /\ At(w, "move") /\ r.section \in Sections
  BY RequestKinds DEF MoveSection, MoveRequest, CalmInv, TypeInv
<1>2. links' = links /\ place' = place
  BY DEF MoveSection
<1>3. CASE secOrder' = secOrder
  BY <1>2, <1>3 DEF CalmInv, StoredInOrder, SingleTarget, Rows, WellOrdered, PrecedesField,
                    PrecedesSection
<1>4. CASE secOrder' = order /\ r.to = r.old
  <2>1. order = secOrder
    BY <1>1, <1>4 DEF CalmInv, CalmKnown, TypeOK
  <2> QED BY <1>3, <1>4, <2>1
<1>5. CASE secOrder' = order /\ StillOrdered(order)
  <2>1. \A i \in Rows : WellOrdered(order, links[i])
    BY <1>5 DEF StillOrdered
  <2> QED BY <1>2, <1>5, <2>1 DEF StoredInOrder, SingleTarget, Rows, WellOrdered,
                                  PrecedesField, PrecedesSection
<1> QED BY <1>3, <1>4, <1>5 DEF MoveSection

LEMMA DeleteInOrder ==
    ASSUME CalmInv, NEW ids, Delete(ids), UNCHANGED <<kind, secOrder, place, req>>
    PROVE  StoredInOrder' /\ Sent' /\ CalmKnown'
<1>1. \A i \in Ids : links'[i] \in Link => links'[i] = links[i]
  BY DeleteTypes DEF CalmInv, TypeInv
<1>2. StoredInOrder'
  BY <1>1 DEF CalmInv, StoredInOrder, SingleTarget, Rows, WellOrdered, PrecedesField,
              PrecedesSection
<1>3. Sent' /\ CalmKnown'
  BY DEF CalmInv, Sent, CalmKnown, At, Given, WellOrdered, PrecedesField, PrecedesSection
<1> QED BY <1>2, <1>3

\* What the workers know stays true: the order changes only when the others are idle.
LEMMA CalmStepKnown ==
    ASSUME CalmInv, NEW w \in Workers, CalmStep(w)
    PROVE  Sent' /\ CalmKnown'
<1>1. TypeInv /\ TypeOK /\ Sent /\ CalmKnown /\ Step(w)
  BY DEF CalmInv, TypeInv, CalmStep
<1>2. \A v \in Workers \ {w} : req'[v] = req[v]
  BY <1>1 DEF TypeOK, Step, Validate, Search, Store, LoadSection, MoveSection, Abandon, Finish
<1>3. kind' = kind /\ place' = place
  BY <1>1 DEF Step, Validate, Search, Store, LoadSection, MoveSection, Abandon, tables
<1>4. CASE Validate(w)
  <2>1. req'[w].pc = "search" /\ Accepted(req'[w].body) /\ secOrder' = secOrder
    BY <1>1, <1>4 DEF Validate, tables, TypeOK
  <2>2. \A v \in Workers : ~At(v, "move")
    BY <1>1, <1>4 DEF CalmStep, Validate, At
  <2>3. \A v \in Workers : ~At(v, "move")'
    BY <1>2, <2>1, <2>2 DEF At
  <2>4. Sent'
    BY <1>1, <1>2, <1>3, <2>1 DEF Sent, At, Given
  <2>5. CalmKnown'
    BY <1>1, <1>2, <1>3, <2>1, <2>3 DEF CalmKnown, At, Given, Accepted, WellOrdered,
                                       PrecedesSection, PrecedesField
  <2> QED BY <2>4, <2>5
<1>5. CASE Search(w)
  <2>1. secOrder' = secOrder /\ req[w] \in LinkRequest /\ At(w, "search")
    BY <1>1, <1>5, RequestKinds DEF Search, tables
  <2>2. \/ req'[w] = Idle
        \/ /\ req'[w].body = req[w].body /\ req'[w].pc = "store"
           /\ \/ kind = "rule" /\ ~Given(req[w].body.fld)
              \/ Given(req[w].body.src) /\ Given(req[w].body.fld)
    BY <1>1, <1>5, <2>1 DEF Search, Skipped, Complete, Finish, LinkRequest, TypeOK
  <2>3. /\ Given(req[w].body.src) => req[w].body.src \in Fields
        /\ Given(req[w].body.fld) => req[w].body.fld \in Fields
    BY <2>1 DEF LinkRequest, Body, Given
  <2>4. Sent'
    BY <1>1, <1>2, <1>3, <2>2, <2>3 DEF Sent, At, Given, Idle
  <2>5. CalmKnown'
    BY <1>1, <1>2, <1>3, <2>1, <2>2 DEF CalmKnown, At, Idle, Given, WellOrdered,
                                       PrecedesSection, PrecedesField
  <2> QED BY <2>4, <2>5
<1>6. CASE LoadSection(w)
  <2>1. req'[w].pc = "move" /\ req'[w].old = secOrder[req'[w].section] /\ secOrder' = secOrder
    BY <1>1, <1>6 DEF LoadSection, tables, TypeOK
  <2>2. \A v \in Workers \ {w} : At(v, "idle") /\ req'[v] = req[v]
    BY <1>2, <1>6 DEF CalmStep
  <2>3. Sent'
    BY <2>1, <2>2 DEF Sent, At
  <2>4. CalmKnown'
    BY <2>1, <2>2 DEF CalmKnown, At
  <2> QED BY <2>3, <2>4
<1>7. CASE MoveSection(w)
  <2>1. \A v \in Workers \ {w} : At(v, "idle")
    BY <1>1, <1>7 DEF CalmKnown, MoveSection
  <2>2. req'[w] = Idle
    BY <1>1, <1>7 DEF MoveSection, Finish, TypeOK
  <2> QED BY <1>2, <2>1, <2>2 DEF Sent, CalmKnown, At, Idle
<1>8. CASE Store(w) \/ Abandon(w)
  <2>1. req'[w] = Idle /\ secOrder' = secOrder
    BY <1>1, <1>8 DEF Store, Abandon, Finish, TypeOK, tables
  <2>2. Sent'
    BY <1>1, <1>2, <1>3, <2>1 DEF Sent, At, Given, Idle
  <2>3. CalmKnown'
    BY <1>1, <1>2, <1>3, <2>1 DEF CalmKnown, At, Idle, Given, WellOrdered,
                                 PrecedesSection, PrecedesField
  <2> QED BY <2>2, <2>3
<1> QED BY <1>1, <1>4, <1>5, <1>6, <1>7, <1>8 DEF Step

LEMMA CalmStepInv ==
    ASSUME CalmInv, NEW w \in Workers, CalmStep(w)
    PROVE  CalmInv'
<1>1. TypeInv'
  BY StepTypeInv DEF CalmInv, CalmStep
<1>2. Sent' /\ CalmKnown'
  BY CalmStepKnown
<1>3. CASE Store(w)
  BY <1>1, <1>2, <1>3, StoreInOrder DEF CalmInv
<1>4. CASE MoveSection(w)
  BY <1>1, <1>2, <1>4, MoveSectionInOrder DEF CalmInv
<1>5. CASE ~Store(w) /\ ~MoveSection(w)
  <2>1. UNCHANGED tables
    BY <1>5 DEF CalmStep, Step, Validate, Search, LoadSection, Abandon
  <2>2. StoredInOrder'
    BY <2>1 DEF CalmInv, StoredInOrder, SingleTarget, Rows, WellOrdered, PrecedesField,
                PrecedesSection, tables
  <2> QED BY <1>1, <1>2, <2>2 DEF CalmInv
<1> QED BY <1>3, <1>4, <1>5

LEMMA CalmNextInv ==
    ASSUME CalmInv, [CalmNext]_vars
    PROVE  CalmInv'
<1>1. CASE \E i \in Ids : DropLink(i)
  <2>1. PICK i \in Ids : DropLink(i)
    BY <1>1
  <2>2. Delete({i}) /\ UNCHANGED <<kind, secOrder, place, req>>
    BY <2>1 DEF DropLink
  <2> QED BY <1>1, <2>2, DeleteInOrder, AtOnceTypeInv DEF CalmInv, AtOnce
<1>2. CASE \E x \in Fields \cup Sections : Cascade(x)
  <2>1. PICK x \in Fields \cup Sections : Cascade(x)
    BY <1>2
  <2>2. /\ Delete({i \in Rows : {links[i].src, links[i].sec, links[i].fld} \cap Below(x) # {}})
        /\ UNCHANGED <<kind, secOrder, place, req>>
    BY <2>1 DEF Cascade
  <2> QED BY <1>2, <2>2, DeleteInOrder, AtOnceTypeInv DEF CalmInv, AtOnce
<1>3. CASE \E w \in Workers : CalmStep(w)
  BY <1>3, CalmStepInv
<1>4. CASE UNCHANGED vars
  <2>1. TypeInv'
    BY <1>4, StutterTypeInv DEF CalmInv
  <2> QED BY <1>4, <2>1 DEF CalmInv, vars, Sent, CalmKnown, StoredInOrder, SingleTarget, Rows,
                            At, Given, WellOrdered, PrecedesField, PrecedesSection
<1> QED BY <1>1, <1>2, <1>3, <1>4 DEF CalmNext

LEMMA InitCalmInv == Init => CalmInv
<1> SUFFICES ASSUME Init PROVE CalmInv
  OBVIOUS
<1>1. Sent /\ CalmKnown
  BY DEF Init, Sent, CalmKnown, At, Idle
<1>2. StoredInOrder
  BY NotALink DEF Init, StoredInOrder, SingleTarget, Rows
<1> QED BY <1>1, <1>2, InitTypeInv DEF CalmInv

\* While no field is moved, no form is used and sections are reordered one request
\* at a time, every link with a field as its only target has its source first,
\* however the requests about links overlap.
THEOREM CalmOrdered == CalmSpec => []StoredInOrder
<1>1. CalmInv => StoredInOrder
  BY DEF CalmInv
<1> QED BY InitCalmInv, CalmNextInv, <1>1, PTL DEF CalmSpec

\* Under the same conditions those links close no cycle, although two requests may
\* each have searched the table before the other stored.
THEOREM CalmAcyclic == CalmSpec => []SingleTargetAcyclic
<1>1. CalmInv => SingleTargetAcyclic
  BY InOrderAcyclic DEF CalmInv, TypeInv
<1> QED BY InitCalmInv, CalmNextInv, <1>1, PTL DEF CalmSpec

-----------------------------------------------------------------------------
(* Requests that overlap in every way *)

\* No link with one target is about its own source.
NoSelfReference == \A i \in SingleTarget : links[i].src # links[i].fld

\* What a request learned of its own body nobody can change.
BodyChecked ==
    \A w \in Workers : At(w, "search") \/ At(w, "store") =>
        (Given(req[w].body.src) => req[w].body.src # req[w].body.fld)

OverlapInv == TypeInv /\ Sent /\ BodyChecked /\ NoSelfReference

LEMMA StepBodyChecked ==
    ASSUME OverlapInv, NEW w \in Workers, Step(w)
    PROVE  Sent' /\ BodyChecked'
<1>1. TypeInv /\ TypeOK /\ Sent /\ BodyChecked
  BY DEF OverlapInv, TypeInv
<1>2. \A v \in Workers \ {w} : req'[v] = req[v]
  BY <1>1 DEF TypeOK, Step, Validate, Search, Store, LoadSection, MoveSection, Abandon, Finish
<1>3. kind' = kind
  BY DEF Step, Validate, Search, Store, LoadSection, MoveSection, Abandon, tables
<1>4. SUFFICES /\ At(w, "store")' =>
                    \/ kind = "rule" /\ ~Given(req'[w].body.fld)
                    \/ req'[w].body.src \in Fields /\ req'[w].body.fld \in Fields
               /\ (At(w, "search") \/ At(w, "store"))' =>
                    (Given(req'[w].body.src) => req'[w].body.src # req'[w].body.fld)
  BY <1>1, <1>2, <1>3 DEF Sent, BodyChecked, At, Given
<1>5. CASE Validate(w)
  <2>1. req'[w].pc = "search" /\ Accepted(req'[w].body)
    BY <1>1, <1>5 DEF Validate, TypeOK
  <2> QED BY <2>1 DEF At, Accepted
<1>6. CASE Search(w)
  <2>1. req[w] \in LinkRequest /\ At(w, "search")
    BY <1>1, <1>6, RequestKinds DEF Search
  <2>2. \/ req'[w] = Idle
        \/ /\ req'[w].body = req[w].body
           /\ \/ kind = "rule" /\ ~Given(req[w].body.fld)
              \/ Given(req[w].body.src) /\ Given(req[w].body.fld)
    BY <1>1, <1>6, <2>1 DEF Search, Skipped, Complete, Finish, LinkRequest, TypeOK
  <2>3. /\ Given(req[w].body.src) => req[w].body.src \in Fields
        /\ Given(req[w].body.fld) => req[w].body.fld \in Fields
    BY <2>1 DEF LinkRequest, Body, Given
  <2> QED BY <1>1, <2>1, <2>2, <2>3 DEF BodyChecked, At, Idle
<1>7. CASE LoadSection(w)
  BY <1>1, <1>7 DEF LoadSection, At, TypeOK
<1>8. CASE Store(w) \/ MoveSection(w) \/ Abandon(w)
  BY <1>1, <1>8 DEF Store, MoveSection, Abandon, Finish, At, Idle, TypeOK
<1> QED BY <1>5, <1>6, <1>7, <1>8 DEF Step

LEMMA StepNoSelfReference ==
    ASSUME OverlapInv, NEW w \in Workers, Step(w)
    PROVE  NoSelfReference'
<1>1. TypeInv /\ TypeOK /\ Sent /\ BodyChecked /\ NoSelfReference
  BY DEF OverlapInv, TypeInv
<1>2. CASE links' = links
  BY <1>1, <1>2 DEF NoSelfReference, SingleTarget, Rows
<1>3. CASE Store(w)
  <2>1. ASSUME NEW i \in Ids, NEW row \in Link, Writes(req[w], i, row)
        PROVE  NoSelfReference'
    <3>1. links'[i] = row /\ \A j \in Ids \ {i} : links'[j] = links[j]
      BY <1>1, <2>1 DEF Writes, TypeOK
    <3>2. ASSUME row.sec = None
          PROVE  row.src # row.fld
      <4>1. CASE row.fld = None
        BY <4>1, BuilderAssumption DEF Link
      <4>2. CASE row.fld # None
        <5>1. /\ row.src = req[w].body.src /\ row.fld = req[w].body.fld
              /\ req[w].body.src \in Fields /\ At(w, "store")
          BY <1>1, <1>3, <2>1, <3>2, <4>2, SingleTargetWasSent DEF Store
        <5> QED BY <1>1, <5>1, BuilderAssumption DEF BodyChecked, Given
      <4> QED BY <4>1, <4>2
    <3> QED BY <1>1, <3>1, <3>2 DEF NoSelfReference, SingleTarget, Rows
  <2> QED BY <1>1, <1>2, <1>3, <2>1, StoreWrites
<1>4. CASE ~Store(w)
  BY <1>2, <1>4 DEF Step, Validate, Search, LoadSection, MoveSection, Abandon, tables
<1> QED BY <1>3, <1>4

\* However requests overlap, whatever is moved meanwhile and whatever their bodies leave
\* out, no stored link has its own source as its only target: unlike the order and the
\* search, this check has all it needs in the body.
THEOREM NeverItself == Spec => []NoSelfReference
<1>1. Init => OverlapInv
  <2> SUFFICES ASSUME Init PROVE OverlapInv
    OBVIOUS
  <2>1. Sent /\ BodyChecked
    BY DEF Init, Sent, BodyChecked, At, Idle
  <2>2. NoSelfReference
    BY NotALink DEF Init, NoSelfReference, SingleTarget, Rows
  <2> QED BY <2>1, <2>2, InitTypeInv DEF OverlapInv
<1>2. OverlapInv /\ [Next]_vars => OverlapInv'
  <2>1. ASSUME OverlapInv, NEW w \in Workers, Step(w)
        PROVE  OverlapInv'
    BY <2>1, StepTypeInv, StepBodyChecked, StepNoSelfReference DEF OverlapInv
  <2>2. ASSUME OverlapInv, AtOnce
        PROVE  OverlapInv'
    <3>1. UNCHANGED <<kind, req>>
      BY <2>2 DEF AtOnce, DropLink, Cascade, MoveField, FormMove, FormMoveSection, FormMoveField
    <3>2. Sent' /\ BodyChecked'
      BY <2>2, <3>1 DEF OverlapInv, Sent, BodyChecked, At, Given
    <3>3. \A i \in Ids : links'[i] \in Link => links'[i] = links[i]
      <4>1. CASE \E ids : Delete(ids)
        BY <2>2, <4>1, DeleteTypes DEF OverlapInv, TypeInv
      <4>2. CASE links' = links
        BY <4>2
      <4> QED BY <2>2, <4>1, <4>2
              DEF AtOnce, DropLink, Cascade, MoveField, FormMove, FormMoveSection, FormMoveField
    <3>4. NoSelfReference'
      BY <2>2, <3>3 DEF OverlapInv, NoSelfReference, SingleTarget, Rows
    <3> QED BY <2>2, <3>2, <3>4, AtOnceTypeInv DEF OverlapInv
  <2>3. ASSUME OverlapInv, UNCHANGED vars
        PROVE  OverlapInv'
    <3>1. TypeInv'
      BY <2>3, StutterTypeInv DEF OverlapInv
    <3> QED BY <2>3, <3>1 DEF OverlapInv, vars, Sent, BodyChecked, NoSelfReference,
                              SingleTarget, Rows, At, Given
  <2> QED BY <2>1, <2>2, <2>3 DEF Next
<1>3. OverlapInv => NoSelfReference
  BY DEF OverlapInv
<1> QED BY <1>1, <1>2, <1>3, PTL DEF Spec

-----------------------------------------------------------------------------
(* The search *)

SearchTypeOK ==
    /\ graph \subseteq Fields \X Fields
    /\ target \in Fields
    /\ visited \subseteq Fields /\ path \subseteq visited
    /\ calls \in Seq(Fields)
    /\ ahead \in [Fields -> SUBSET Fields]
    /\ answer \in {"open", "yes", "no"}

\* The path is the open calls, each made by the one before; all is reached from the
\* target.
OnPath ==
    /\ answer # "no" <=> calls # <<>>
    /\ path = {calls[i] : i \in 1..Len(calls)}
    /\ \A i, j \in 1..Len(calls) : calls[i] = calls[j] => i = j
    /\ \A i \in 1..(Len(calls) - 1) : <<calls[i], calls[i + 1]>> \in graph
    /\ target \in visited /\ visited \subseteq Reachable(graph, target)

\* The nodes whose calls have returned FALSE.
Left == visited \ path

\* A node is left after all it leads to, so there is no cycle among those left.
LeftFree ==
    /\ Closed(graph, Left)
    /\ \A S \in SUBSET Left : S # {} => \E f \in S : \A g \in S : <<f, g>> \notin graph

\* What the loop of an open call has passed was left, or is the call it waits for.
LoopPassed ==
    answer = "open" =>
        \A i \in 1..Len(calls) : \A next \in Neighbours(calls[i]) \ ahead[calls[i]] :
            next \in Left \/ (i < Len(calls) /\ next = calls[i + 1])

\* A loop goes over the neighbours; that of a node not entered has not begun.
AheadOfLoop == \A node \in Fields : ahead[node] \subseteq Neighbours(node)
LoopUnbegun == \A node \in Fields \ visited : ahead[node] = Neighbours(node)

SearchInv ==
    /\ SearchTypeOK /\ OnPath /\ LeftFree
    /\ LoopPassed /\ AheadOfLoop /\ LoopUnbegun
    /\ answer = "yes" => CycleReachable(graph, target)

LEMMA BeginInv ==
    ASSUME NEW E \in SUBSET (Fields \X Fields), NEW t \in Fields, Begin(E, t)
    PROVE  SearchInv'
<1>1. graph' = E /\ target' = t /\ answer' = "open"
  BY DEF Begin
<1>2. calls' \in Seq(Fields) /\ Len(calls') = 1 /\ calls'[1] = t /\ calls' # <<>>
  BY DEF Begin
<1>3. \A node \in Fields : ahead'[node] = Neighbours(node)' /\ Neighbours(node)' \subseteq Fields
  BY DEF Begin, Neighbours
<1>4. SearchTypeOK'
  BY <1>1, <1>2, <1>3 DEF Begin, SearchTypeOK
<1>5. OnPath'
  <2>1. path' = {calls'[i] : i \in 1..Len(calls')}
    BY <1>2 DEF Begin
  <2>2. t \in Reachable(graph', target')
    BY <1>1 DEF Reachable
  <2> QED BY <1>1, <1>2, <2>1, <2>2 DEF Begin, OnPath
<1>6. LeftFree'
  BY DEF Begin, LeftFree, Left, Closed
<1>7. (LoopPassed /\ AheadOfLoop /\ LoopUnbegun)'
  BY <1>2, <1>3 DEF LoopPassed, AheadOfLoop, LoopUnbegun, SearchTypeOK
<1> QED BY <1>1, <1>4, <1>5, <1>6, <1>7 DEF SearchInv

\* The innermost call.
LEMMA CurrentCall ==
    ASSUME SearchInv, answer = "open"
    PROVE  /\ Len(calls) \in Nat \ {0}
           /\ Current \in Fields /\ Current \in path
           /\ Current = calls[Len(calls)]
           /\ \A i \in 1..Len(calls) : calls[i] \in Fields
BY DEF SearchInv, SearchTypeOK, OnPath, Current

\* What a reachable node leads to is reachable.
LEMMA ReachableClosed ==
    ASSUME NEW E, NEW t, NEW f \in Reachable(E, t), NEW g \in Fields, <<f, g>> \in E
    PROVE  g \in Reachable(E, t)
BY DEF Reachable, Closed

\* The path from a node to the call that meets it again is a cycle.
LEMMA MetAgain ==
    ASSUME SearchInv, answer = "open",
           NEW next \in path, next \in Neighbours(Current)
    PROVE  CycleReachable(graph, target)
<1>1. PICK j \in 1..Len(calls) : next = calls[j]
  BY DEF SearchInv, OnPath
<1> DEFINE S == {calls[i] : i \in j..Len(calls)}
<1>2. S \subseteq path
  BY CurrentCall DEF SearchInv, OnPath
<1>3. S \subseteq Reachable(graph, target) /\ S # {}
  BY <1>1, <1>2, CurrentCall DEF SearchInv, SearchTypeOK, OnPath
<1>4. \A f \in S : \E g \in S : <<f, g>> \in graph
  <2>1. TAKE f \in S
  <2>2. PICK i \in j..Len(calls) : f = calls[i]
    OBVIOUS
  <2>3. CASE i = Len(calls)
    <3>1. f = Current /\ <<f, next>> \in graph
      BY <2>2, <2>3, CurrentCall DEF Neighbours
    <3>2. next \in S
      BY <1>1, CurrentCall
    <3> QED BY <3>1, <3>2
  <2>4. CASE i # Len(calls)
    <3>1. i \in 1..(Len(calls) - 1) /\ i + 1 \in j..Len(calls)
      BY <1>1, <2>2, <2>4, CurrentCall
    <3>2. <<calls[i], calls[i + 1]>> \in graph
      BY <3>1 DEF SearchInv, OnPath
    <3> QED BY <2>2, <3>1, <3>2
  <2> QED BY <2>3, <2>4
<1> QED BY <1>3, <1>4 DEF CycleReachable

\* The loop of the innermost call goes on from next without a call being opened.
LEMMA LoopGoesOn ==
    ASSUME SearchInv, answer = "open", NEW next \in ahead[Current],
           ahead' = [ahead EXCEPT ![Current] = @ \ {next}],
           UNCHANGED <<input, visited, path, calls>>,
           \/ next \in Left /\ UNCHANGED answer
           \/ answer' = "yes" /\ CycleReachable(graph, target)
    PROVE  SearchInv'
<1>1. SearchTypeOK'
  BY CurrentCall DEF SearchInv, SearchTypeOK, input
<1>2. OnPath'
  BY DEF SearchInv, OnPath, input
<1>3. LeftFree'
  BY DEF SearchInv, LeftFree, Left, Closed, input
<1>4. LoopPassed'
  <2>1. SUFFICES ASSUME answer' = "open", NEW i \in 1..Len(calls),
                        NEW node \in Neighbours(calls[i]) \ ahead'[calls[i]]
                 PROVE  node \in Left \/ (i < Len(calls) /\ node = calls[i + 1])
    BY DEF LoopPassed, Left, Neighbours, input
  <2>2. node = next \/ node \notin ahead[calls[i]]
    BY <2>1, CurrentCall DEF SearchInv, SearchTypeOK
  <2> QED BY <2>1, <2>2 DEF SearchInv, LoopPassed
<1>5. AheadOfLoop' /\ LoopUnbegun'
  BY CurrentCall DEF SearchInv, SearchTypeOK, AheadOfLoop, LoopUnbegun, Neighbours, input
<1> QED BY <1>1, <1>2, <1>3, <1>4, <1>5 DEF SearchInv, input

LEMMA FollowInv ==
    ASSUME SearchInv, NEW next \in Fields, Follow(next)
    PROVE  SearchInv'
<1>1. /\ answer = "open" /\ next \in ahead[Current]
      /\ ahead' = [ahead EXCEPT ![Current] = @ \ {next}]
      /\ UNCHANGED input
  BY DEF Follow
<1>2. next \in Neighbours(Current)
  BY <1>1, CurrentCall DEF SearchInv, SearchTypeOK, AheadOfLoop
<1>3. CASE next \in path /\ answer' = "yes" /\ UNCHANGED <<visited, path, calls>>
  BY <1>1, <1>2, <1>3, MetAgain, LoopGoesOn
<1>4. CASE next \in visited \ path /\ UNCHANGED <<visited, path, calls, answer>>
  BY <1>1, <1>4, LoopGoesOn DEF Left
<1>5. CASE /\ next \notin visited /\ UNCHANGED answer
           /\ visited' = visited \cup {next} /\ path' = path \cup {next}
           /\ calls' = Append(calls, next)
  <2> DEFINE n == Len(calls)
  <2>1. /\ n \in Nat \ {0} /\ Len(calls') = n + 1 /\ calls' \in Seq(Fields)
        /\ \A i \in 1..n : calls'[i] = calls[i]
        /\ calls'[n + 1] = next
    BY <1>5, CurrentCall, <1>1 DEF SearchInv, SearchTypeOK
  <2>2. calls[n] = Current /\ Current \in path /\ Current # next
    BY <1>1, <1>5, CurrentCall DEF SearchInv, SearchTypeOK
  <2>3. SearchTypeOK'
    BY <1>1, <1>5, <2>1 DEF SearchInv, SearchTypeOK, input
  <2>4. Left' = Left
    BY <1>5 DEF Left, SearchInv, SearchTypeOK
  <2>5. OnPath'
    <3>1. path' = {calls'[i] : i \in 1..Len(calls')}
      <4>1. \A x \in path' : \E i \in 1..Len(calls') : x = calls'[i]
        BY <1>5, <2>1 DEF SearchInv, OnPath
      <4>2. \A i \in 1..Len(calls') : calls'[i] \in path'
        BY <1>5, <2>1 DEF SearchInv, OnPath
      <4> QED BY <4>1, <4>2
    <3>2. \A i, j \in 1..Len(calls') : calls'[i] = calls'[j] => i = j
      <4>1. \A i \in 1..n : calls[i] \in path
        BY DEF SearchInv, OnPath
      <4>2. next \notin path
        BY <1>5 DEF SearchInv, SearchTypeOK
      <4>3. \A i, j \in 1..n : calls[i] = calls[j] => i = j
        BY DEF SearchInv, OnPath
      <4> QED BY <2>1, <4>1, <4>2, <4>3
    <3>3. \A i \in 1..(Len(calls') - 1) : <<calls'[i], calls'[i + 1]>> \in graph'
      <4>1. SUFFICES ASSUME NEW i \in 1..n PROVE <<calls'[i], calls'[i + 1]>> \in graph
        BY <1>1, <2>1 DEF input
      <4>2. CASE i = n
        <5>1. calls'[i] = Current /\ calls'[i + 1] = next
          BY <2>1, <2>2, <4>2
        <5> QED BY <1>2, <5>1 DEF Neighbours
      <4>3. CASE i # n
        <5>1. i \in 1..(n - 1) /\ i \in 1..n /\ i + 1 \in 1..n
          BY <2>1, <4>3
        <5>2. <<calls[i], calls[i + 1]>> \in graph
          BY <5>1 DEF SearchInv, OnPath
        <5> QED BY <1>1, <2>1, <5>1, <5>2 DEF input
      <4> QED BY <4>2, <4>3
    <3>4. next \in Reachable(graph, target)
      BY <1>2, <2>2, ReachableClosed DEF Neighbours, SearchInv, SearchTypeOK, OnPath
    <3>5. calls' # <<>> /\ answer' = "open"
      BY <1>1, <1>5, <2>1
    <3> QED BY <1>1, <1>5, <3>1, <3>2, <3>3, <3>4, <3>5 DEF SearchInv, OnPath, input
  <2>6. LeftFree'
    BY <1>1, <2>4 DEF SearchInv, LeftFree, Closed, input
  <2>7. LoopPassed'
    <3>1. SUFFICES ASSUME NEW i \in 1..(n + 1),
                          NEW node \in Neighbours(calls'[i]) \ ahead'[calls'[i]]
                   PROVE  node \in Left \/ (i < n + 1 /\ node = calls'[i + 1])
      BY <1>1, <2>1, <2>4 DEF LoopPassed, Neighbours, input
    <3>2. CASE i = n + 1
      <4>1. calls'[i] = next
        BY <2>1, <3>2
      <4>2. ahead'[next] = ahead[next] /\ ahead[next] = Neighbours(next)
        BY <1>1, <1>5, <2>2 DEF SearchInv, SearchTypeOK, LoopUnbegun
      <4> QED BY <4>1, <4>2
    <3>3. CASE i = n
      <4>1. calls'[i] = Current
        BY <2>1, <2>2, <3>3
      <4>2. node = next \/ node \notin ahead[Current]
        BY <1>1, <2>2, <4>1 DEF SearchInv, SearchTypeOK
      <4>3. node \notin ahead[Current] => node \in Left
        BY <1>1, <2>1, <2>2, <4>1, <3>3 DEF SearchInv, LoopPassed
      <4> QED BY <2>1, <3>3, <4>2, <4>3
    <3>4. CASE i \in 1..(n - 1)
      <4>1. calls'[i] = calls[i] /\ calls'[i + 1] = calls[i + 1] /\ i \in 1..n
        BY <2>1, <3>4
      <4>2. calls[i] # Current
        BY <2>1, <2>2, <3>4 DEF SearchInv, OnPath
      <4>3. ahead'[calls[i]] = ahead[calls[i]]
        BY <1>1, <2>1, <4>1, <4>2, CurrentCall DEF SearchInv, SearchTypeOK
      <4> QED BY <1>1, <2>1, <3>4, <4>1, <4>3 DEF SearchInv, LoopPassed
    <3> QED BY <2>1, <3>2, <3>3, <3>4
  <2>8. AheadOfLoop' /\ LoopUnbegun'
    BY <1>1, <1>5, <2>2
    DEF SearchInv, SearchTypeOK, AheadOfLoop, LoopUnbegun, Neighbours, input
  <2> QED BY <1>1, <1>5, <2>3, <2>5, <2>6, <2>7, <2>8 DEF SearchInv
<1> QED BY <1>3, <1>4, <1>5 DEF Follow, HasCycle

LEMMA ReturnInv ==
    ASSUME SearchInv, Return
    PROVE  SearchInv'
<1> DEFINE n == Len(calls)
<1>1. /\ answer = "open" /\ ahead[Current] = {}
      /\ path' = path \ {Current} /\ calls' = SubSeq(calls, 1, n - 1)
      /\ answer' = IF n = 1 THEN "no" ELSE answer
      /\ UNCHANGED <<input, visited, ahead>>
  BY DEF Return
<1>2. /\ n \in Nat \ {0} /\ calls[n] = Current
      /\ Current \in Fields /\ Current \in path /\ Current \in visited
  BY <1>1, CurrentCall DEF SearchInv, SearchTypeOK
<1>3. /\ calls' \in Seq(Fields) /\ Len(calls') = n - 1
      /\ \A i \in 1..(n - 1) : i \in 1..n /\ calls'[i] = calls[i]
  <2>1. n - 1 \in Int /\ 1 \in Int /\ \A i \in 1..(n - 1) : calls[i] \in Fields
    BY <1>1, <1>2, CurrentCall
  <2>2. /\ SubSeq(calls, 1, n - 1) \in Seq(Fields)
        /\ Len(SubSeq(calls, 1, n - 1)) = IF 1 <= n - 1 THEN (n - 1) - 1 + 1 ELSE 0
        /\ \A i \in 1..((n - 1) - 1 + 1) : SubSeq(calls, 1, n - 1)[i] = calls[1 + i - 1]
    BY ONLY <2>1, SubSeqProperties
  <2>3. \A i \in 1..(n - 1) : i \in 1..n /\ 1 + i - 1 = i
    BY <1>2
  <2> HIDE DEF n
  <2>4. (n - 1) - 1 + 1 = n - 1 /\ (IF 1 <= n - 1 THEN n - 1 ELSE 0) = n - 1
    BY <1>2
  <2> QED BY <1>1, <2>2, <2>3, <2>4
<1>4. SearchTypeOK'
  BY <1>1, <1>3 DEF SearchInv, SearchTypeOK, input
<1>5. Left' = Left \cup {Current} /\ Current \notin Left
  BY <1>1, <1>2 DEF Left
<1>6. \A next \in Fields : <<Current, next>> \in graph => next \in Left
  BY <1>1, <1>2 DEF SearchInv, LoopPassed, Neighbours
<1>7. OnPath'
  <2>1. path' = {calls'[i] : i \in 1..Len(calls')}
    <3>1. \A i \in 1..(n - 1) : calls[i] # Current
      BY <1>2 DEF SearchInv, OnPath
    <3>2. \A x \in path' : \E i \in 1..(n - 1) : x = calls[i]
      <4>1. SUFFICES ASSUME NEW x \in path, x # Current
                     PROVE  \E i \in 1..(n - 1) : x = calls[i]
        BY <1>1
      <4>2. PICK i \in 1..n : x = calls[i]
        BY DEF SearchInv, OnPath
      <4>3. i # n
        BY <1>2, <4>1, <4>2
      <4> QED BY <1>2, <4>2, <4>3
    <3>3. \A i \in 1..(n - 1) : calls[i] \in path'
      BY <1>1, <1>3, <3>1 DEF SearchInv, OnPath
    <3> QED BY <1>3, <3>2, <3>3
  <2>2. \A i, j \in 1..Len(calls') : calls'[i] = calls'[j] => i = j
    BY <1>3 DEF SearchInv, OnPath
  <2>3. \A i \in 1..(Len(calls') - 1) : <<calls'[i], calls'[i + 1]>> \in graph'
    <3>1. SUFFICES ASSUME NEW i \in 1..(n - 2)
                   PROVE  <<calls'[i], calls'[i + 1]>> \in graph
      BY <1>1, <1>2, <1>3 DEF input
    <3>2. i \in 1..(n - 1) /\ i + 1 \in 1..(n - 1)
      BY <1>2
    <3> QED BY <1>3, <3>2 DEF SearchInv, OnPath
  <2>4. answer' # "no" <=> calls' # <<>>
    <3>1. calls' = <<>> <=> Len(calls') = 0
      BY <1>3
    <3> QED BY <1>1, <1>2, <1>3, <3>1
  <2> QED BY <1>1, <2>1, <2>2, <2>3, <2>4 DEF SearchInv, OnPath, input
<1>8. LeftFree'
  <2>1. Closed(graph, Left')
    BY <1>5, <1>6 DEF SearchInv, LeftFree, Closed
  <2>2. ASSUME NEW S \in SUBSET Left', S # {}
        PROVE  \E f \in S : \A g \in S : <<f, g>> \notin graph
    <3>1. CASE S \cap Left # {}
      <4>1. S \cap Left \in SUBSET Left
        OBVIOUS
      <4>2. PICK f \in S \cap Left : \A g \in S \cap Left : <<f, g>> \notin graph
        BY <3>1, <4>1 DEF SearchInv, LeftFree
      <4>3. \A g \in S : <<f, g>> \in graph => g \in Left
        BY <1>2, <1>5, <4>2 DEF SearchInv, SearchTypeOK, LeftFree, Closed
      <4> QED BY <4>2, <4>3
    <3>2. CASE S \cap Left = {}
      <4>1. S = {Current}
        BY <1>5, <2>2, <3>2
      <4>2. <<Current, Current>> \notin graph
        BY <1>2, <1>5, <1>6
      <4> QED BY <4>1, <4>2
    <3> QED BY <3>1, <3>2
  <2> QED BY <1>1, <2>1, <2>2 DEF LeftFree, Closed, input
<1>9. LoopPassed'
  <2>1. SUFFICES ASSUME NEW i \in 1..(n - 1),
                        NEW next \in Neighbours(calls[i]) \ ahead[calls[i]]
                 PROVE  next \in Left' \/ (i < n - 1 /\ next = calls[i + 1])
    <3>1. \A i \in 1..(n - 1) : i < n - 1 => calls'[i + 1] = calls[i + 1]
      BY <1>2, <1>3
    <3> QED BY <1>1, <1>3, <3>1 DEF LoopPassed, Neighbours, input
  <2>2. next \in Left \/ next = calls[i + 1]
    BY <1>1, <1>3 DEF SearchInv, LoopPassed
  <2>3. i = n - 1 => calls[i + 1] = Current
    BY <1>2
  <2> QED BY <1>2, <1>5, <2>2, <2>3
<1>10. AheadOfLoop' /\ LoopUnbegun'
  BY <1>1 DEF SearchInv, AheadOfLoop, LoopUnbegun, Neighbours, input
<1> QED BY <1>1, <1>4, <1>7, <1>8, <1>9, <1>10 DEF SearchInv

LEMMA SearchStutterInv ==
    ASSUME SearchInv, UNCHANGED searchVars
    PROVE  SearchInv'
BY DEF SearchInv, SearchTypeOK, OnPath, LeftFree, Left, Closed, LoopPassed, AheadOfLoop,
       LoopUnbegun, Neighbours, searchVars, input

\* When the outermost call returns FALSE, all that is reachable was left.
LEMMA SearchInvTrue ==
    ASSUME SearchInv
    PROVE  SearchTrue
<1>1. SUFFICES ASSUME answer = "no", CycleReachable(graph, target)
               PROVE  FALSE
  BY DEF SearchInv, SearchTrue
<1>2. path = {} /\ Left = visited
  BY <1>1 DEF SearchInv, OnPath, Left
<1>3. Reachable(graph, target) \subseteq Left
  BY <1>2 DEF SearchInv, SearchTypeOK, OnPath, LeftFree, Reachable
<1>4. PICK S \in SUBSET Left : S # {} /\ \A f \in S : \E g \in S : <<f, g>> \in graph
  BY <1>1, <1>3 DEF CycleReachable
<1> QED BY <1>4 DEF SearchInv, LeftFree

LEMMA SearchStepInv ==
    ASSUME SearchInv, SearchStep
    PROVE  SearchInv'
BY FollowInv, ReturnInv DEF SearchStep

\* What a request searches is a graph over the fields, from one of them.
LEMMA ProposedIsInput ==
    ASSUME TypeInv, NEW w \in Workers, At(w, "search"), Complete(req[w])
    PROVE  /\ req[w].body.fld \in Fields
           /\ ProposedGraph(req[w]) \in SUBSET (Fields \X Fields)
<1> DEFINE r == req[w]
<1>1. r \in LinkRequest /\ r.body \in Body
  BY RequestKinds DEF TypeInv, Remembered, BodyOf
<1>2. r.body.src \in Fields /\ r.body.fld \in Fields
  BY <1>1 DEF Body, Given, Complete
<1>3. EdgesOf(SearchedRows(r)) \subseteq Fields \X Fields
  BY DEF EdgesOf, SearchedRows, Rows, Link
<1> QED BY <1>2, <1>3 DEF ProposedGraph

\* The search in progress is about the request that waits for it and the rows as they
\* still are.
Asked(w) ==
    /\ At(w, "search") /\ Complete(req[w])
    /\ graph = ProposedGraph(req[w]) /\ target = req[w].body.fld

SearchingInv ==
    /\ TypeInv /\ Alone
    /\ answer = "none" => NoSearch
    /\ answer # "none" => SearchInv /\ \E w \in Workers : Asked(w)

\* A search in progress is that of the only worker that is not idle.
LEMMA AskedHere ==
    ASSUME SearchingInv, answer # "none",
           NEW w \in Workers, \A v \in Workers \ {w} : At(v, "idle")
    PROVE  Asked(w)
<1>1. PICK v \in Workers : Asked(v)
  BY DEF SearchingInv
<1>2. ~At(v, "idle")
  BY <1>1 DEF Asked, At
<1> QED BY <1>1, <1>2

\* Steps that leave the search alone and are taken while there is none.
LEMMA NoneInProgress ==
    ASSUME answer = "none", NoSearch, TypeInv', Alone', UNCHANGED searchVars
    PROVE  SearchingInv'
BY DEF SearchingInv, NoSearch, searchVars

LEMMA ForgetInv ==
    ASSUME TypeInv', Alone', Forget
    PROVE  SearchingInv'
BY DEF SearchingInv, NoSearch, Forget

\* A request that waits for a search only sees the answer change.
LEMMA SameAsked ==
    ASSUME NEW w \in Workers, UNCHANGED vars,
           graph' = ProposedGraph(req[w]), target' = req[w].body.fld,
           At(w, "search"), Complete(req[w])
    PROVE  Asked(w)'
<1>1. links' = links /\ req' = req
  BY DEF vars
<1>2. ProposedGraph(req[w])' = ProposedGraph(req[w])
  BY <1>1 DEF ProposedGraph, EdgesOf, SearchedRows, Rows
<1> QED BY <1>1, <1>2 DEF Asked, At, Complete, Given

\* Every step of RuleSearch is one of RuleBuilder without overlapping requests, or leaves
\* the tables and the requests alone: the search answers for Search.
LEMMA SearchingStepInv ==
    ASSUME SearchingInv, NEW w \in Workers, SearchingStep(w),
           \A v \in Workers \ {w} : At(v, "idle")
    PROVE  SearchingInv' /\ [SerialNext]_vars
<1>1. TypeInv /\ Alone
  BY DEF SearchingInv
<1>2. ASSUME Step(w)
      PROVE  TypeInv' /\ Alone' /\ SerialNext
  BY <1>1, <1>2, StepTypeInv, StepAlone DEF Alone, SerialNext
<1>3. ASSUME UNCHANGED vars
      PROVE  TypeInv' /\ Alone'
  BY <1>1, <1>3, StutterTypeInv DEF Alone, At, vars
<1>4. CASE StartSearch(w)
  <2>1. SearchInv'
    BY <1>1, <1>4, ProposedIsInput, BeginInv DEF StartSearch
  <2>2. Asked(w)' /\ answer' = "open"
    BY <1>4, SameAsked DEF StartSearch, Begin
  <2> QED BY <1>3, <1>4, <2>1, <2>2 DEF SearchingInv, StartSearch
<1>5. CASE EndSearch(w)
  <2>1. Asked(w) /\ SearchTrue
    BY <1>5, AskedHere, SearchInvTrue DEF EndSearch, SearchingInv
  <2>2. answer = "no" <=> ~RefusesCycle(req[w])
    BY <1>5, <2>1 DEF EndSearch, SearchTrue, Asked, RefusesCycle
  <2>3. Search(w)
    BY <1>5, <2>1, <2>2 DEF EndSearch, Search, Asked, Skipped, Complete
  <2> QED BY <1>2, <1>5, <2>3, ForgetInv DEF Step, EndSearch
<1>6. CASE SearchStep /\ UNCHANGED vars
  <2>1. answer = "open" /\ answer' # "none" /\ UNCHANGED input
    BY <1>6 DEF SearchStep, Follow, HasCycle, Return
  <2>2. Asked(w) /\ SearchInv'
    BY <1>6, <2>1, AskedHere, SearchStepInv DEF SearchingInv
  <2>3. Asked(w)'
    BY <1>6, <2>1, <2>2, SameAsked DEF Asked, input
  <2> QED BY <1>3, <1>6, <2>1, <2>2, <2>3 DEF SearchingInv
<1>7. CASE GoOn(w) /\ UNCHANGED searchVars
  <2>1. answer = "none" /\ NoSearch
    BY <1>7, AskedHere DEF GoOn, Asked, SearchingInv
  <2> QED BY <1>2, <1>7, <2>1, NoneInProgress DEF GoOn, Step
<1>8. CASE (Validate(w) \/ Store(w) \/ LoadSection(w) \/ MoveSection(w)) /\ UNCHANGED searchVars
  <2>1. ~At(w, "search")
    BY <1>8 DEF Validate, Store, LoadSection, MoveSection, At
  <2>2. answer = "none" /\ NoSearch
    BY <2>1, AskedHere DEF Asked, SearchingInv
  <2> QED BY <1>2, <1>8, <2>2, NoneInProgress DEF Step
<1>9. CASE Abandon(w) /\ Forget
  BY <1>2, <1>9, ForgetInv DEF Step
<1> QED BY <1>4, <1>5, <1>6, <1>7, <1>8, <1>9 DEF SearchingStep

LEMMA SearchingNextInv ==
    ASSUME SearchingInv, [SearchingNext]_searchingVars
    PROVE  SearchingInv' /\ [SerialNext]_vars
<1>1. CASE AtOnce /\ (\A w \in Workers : At(w, "idle")) /\ UNCHANGED searchVars
  <2>1. answer = "none" /\ NoSearch
    BY <1>1 DEF SearchingInv, Asked, At
  <2>2. req' = req
    BY <1>1 DEF AtOnce, DropLink, Cascade, MoveField, FormMove, FormMoveSection, FormMoveField
  <2>3. TypeInv' /\ Alone'
    BY <1>1, <2>2, AtOnceTypeInv DEF SearchingInv, Alone, At
  <2> QED BY <1>1, <2>1, <2>3, NoneInProgress DEF SerialNext
<1>2. CASE UNCHANGED searchingVars
  <2>1. UNCHANGED vars /\ UNCHANGED searchVars
    BY <1>2 DEF searchingVars
  <2>2. TypeInv' /\ Alone'
    BY <2>1, StutterTypeInv DEF SearchingInv, Alone, At, vars
  <2>3. CASE answer = "none"
    BY <2>1, <2>2, <2>3, NoneInProgress DEF SearchingInv
  <2>4. CASE answer # "none"
    <3>1. PICK w \in Workers : Asked(w)
      BY <2>4 DEF SearchingInv
    <3>2. Asked(w)'
      BY <2>1, <3>1, SameAsked DEF Asked, searchVars
    <3>3. SearchInv' /\ answer' = answer
      BY <2>1, <2>4, SearchStutterInv DEF SearchingInv, searchVars
    <3> QED BY <2>1, <2>2, <2>4, <3>2, <3>3 DEF SearchingInv
  <2> QED BY <2>1, <2>3, <2>4
<1> QED BY <1>1, <1>2, SearchingStepInv DEF SearchingNext

LEMMA SearchingInitInv == SearchingInit => SearchingInv
BY InitTypeInv DEF SearchingInit, Init, SearchingInv, NoSearch, Alone, At, Idle

\* has_cycle, in whatever order it follows the neighbours and on whatever rows there are,
\* answers as reachability does.
THEOREM SearchAnswersTrue == SearchingSpec => []SearchTrue
<1>1. SearchingInv => SearchTrue
  BY SearchInvTrue DEF SearchingInv, SearchTrue
<1> QED BY SearchingInitInv, SearchingNextInv, <1>1, PTL DEF SearchingSpec

\* The requests with the search in them do what RuleBuilder's do: Search may decide by
\* reachability.
THEOREM SearchImplementsBuilder == SearchingSpec => ImplementsBuilder
<1>1. SearchingInit => Init
  BY DEF SearchingInit
<1> QED BY SearchingInitInv, SearchingNextInv, <1>1, PTL
        DEF SearchingSpec, SerialSpec, ImplementsBuilder

\* So what holds of RuleBuilder without overlapping requests holds of them: no cycle
\* among the links with one target, and only a form turns a link forward.
THEOREM SearchingSafe ==
    SearchingSpec => []TypeOK /\ []SingleTargetAcyclic /\ OnlyFormsTurnForward
<1>1. SearchingInv => TypeOK
  BY DEF SearchingInv, TypeInv
<1>2. SearchingSpec => []TypeOK
  BY SearchingInitInv, SearchingNextInv, <1>1, PTL DEF SearchingSpec
<1>3. SearchingSpec => SerialSpec
  BY SearchImplementsBuilder DEF ImplementsBuilder
<1> QED BY <1>2, <1>3, SerialAcyclic, SerialForward, PTL

\* Sets of fields only grow or only shrink in it, and the calls return.
Advances ==
    \/ visited' # visited /\ visited \subseteq visited'
    \/ /\ visited' = visited /\ ahead' # ahead
       /\ \A node \in Fields : ahead'[node] \subseteq ahead[node]
    \/ visited' = visited /\ ahead' = ahead /\ Len(calls') < Len(calls)

\* Every step of has_cycle enters a node for good, takes a neighbour off a loop, or
\* returns from a call, on any graph, one with cycles in it already included: with
\* finitely many fields the recursion cannot go on for ever.
THEOREM SearchAdvances == SearchingSpec => [][SearchStep => Advances]_searchVars
<1>1. ASSUME SearchInv, SearchStep
      PROVE  Advances
  <2>1. ASSUME NEW next \in Fields, Follow(next)
        PROVE  Advances
    <3>1. /\ answer = "open" /\ next \in ahead[Current]
          /\ ahead' = [ahead EXCEPT ![Current] = @ \ {next}]
      BY <2>1 DEF Follow
    <3>2. /\ \A node \in Fields : ahead'[node] \subseteq ahead[node]
          /\ next \notin ahead'[Current]
      BY <1>1, <3>1, CurrentCall DEF SearchInv, SearchTypeOK
    <3>3. visited' = visited \/ (next \notin visited /\ visited' = visited \cup {next})
      BY <2>1 DEF Follow, HasCycle
    <3> QED BY <3>1, <3>2, <3>3 DEF Advances
  <2>2. CASE Return
    <3>2. answer = "open" /\ calls' = SubSeq(calls, 1, Len(calls) - 1)
      BY <2>2 DEF Return
    <3>3. Len(calls) \in Nat \ {0} /\ \A i \in 1..(Len(calls) - 1) : calls[i] \in Fields
      BY <1>1, <3>2, CurrentCall
    <3>4. Len(SubSeq(calls, 1, Len(calls) - 1)) < Len(calls)
      <4> DEFINE n == Len(calls)
      <4>1. n - 1 \in Int /\ 1 \in Int
        BY <3>3
      <4>2. Len(SubSeq(calls, 1, n - 1)) = IF 1 <= n - 1 THEN (n - 1) - 1 + 1 ELSE 0
        BY <3>3, <4>1, SubSeqProperties
      <4> HIDE DEF n
      <4>3. n \in Nat \ {0} => (IF 1 <= n - 1 THEN (n - 1) - 1 + 1 ELSE 0) < n
        OBVIOUS
      <4> QED BY <3>3, <4>2, <4>3 DEF n
    <3> QED BY <2>2, <3>2, <3>4 DEF Return, Advances
  <2> QED BY <1>1, <2>1, <2>2 DEF SearchStep
<1>2. SearchingInv => [SearchStep => Advances]_searchVars
  <2>1. SearchStep => answer # "none"
    BY DEF SearchStep, Follow, Return
  <2> QED BY <1>1, <2>1 DEF SearchingInv
<1> QED BY SearchingInitInv, SearchingNextInv, <1>2, PTL DEF SearchingSpec

=============================================================================

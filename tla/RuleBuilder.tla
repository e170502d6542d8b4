----------------------------- MODULE RuleBuilder -----------------------------
(***************************************************************************)
(* Conditional rules and field dependencies, as the administrators build   *)
(* them.  A row of either table is a link: its field src decides about a   *)
(* target, the section sec or the field fld.  A request validates its body *)
(* against the current order of sections and fields, searches the table    *)
(* for a cycle, and stores the columns it was sent: three moments between  *)
(* which other requests may run.                                           *)
(*                                                                         *)
(* One table is followed in a behaviour (kind).  The two never meet in     *)
(* these checks but in validate_cr_fd_conflict, which compares options;    *)
(* like the other checks on operators and values it can only end a         *)
(* request early (Abandon).  One survey is modelled.                       *)
(***************************************************************************)
EXTENDS FieldGraph, Naturals, FiniteSets

CONSTANTS Sections,
          FieldPositions, SectionPositions,   \* bound on the order columns
          Ids,                                \* bound on the rows ever created
          Workers,
          Absent,                             \* a key the body does not have
          Unused, Gone                        \* a row not created yet, deleted

ASSUME BuilderAssumption ==
    /\ FieldPositions \subseteq Nat /\ SectionPositions \subseteq Nat
    /\ Fields \cap Sections = {}
    /\ None # Absent
    /\ {None, Absent} \cap (Fields \cup Sections) = {}

VARIABLES kind,       \* the table: "rule" or "dependency"
          secOrder,   \* survey_sections.order
          place,      \* survey_fields.(section_id, order)
          links,      \* the table's rows
          req         \* what each worker holds in memory

tables == <<kind, secOrder, place, links>>
vars == <<kind, secOrder, place, links, req>>

Link == [src : Fields, sec : Sections \cup {None}, fld : Fields \cup {None}]
Body == [src : Fields \cup {Absent},
         sec : Sections \cup {None, Absent},
         fld : Fields \cup {None, Absent}]

ASSUME NotALink == Unused \notin Link /\ Gone \notin Link

\* A dependency has no section; its two fields are not nullable.  Only a PATCH
\* (or, for the nullable targets, a PUT) leaves a key out.
BodyOf(op) ==
    {d \in Body :
        /\ op # "patch" => Absent \notin {d.src, d.sec, d.fld}
        /\ kind = "dependency" => d.sec = None /\ d.fld # None}

LinkRequest == [pc : {"search", "store"}, op : {"create", "form", "patch"},
                id : Ids, body : Body]
MoveRequest == [pc : {"move"}, section : Sections, to : SectionPositions,
                old : SectionPositions]
Idle == [pc |-> "idle"]

Injective(f) == \A a, b \in DOMAIN f : f[a] = f[b] => a = b

TypeOK ==
    /\ kind \in {"rule", "dependency"}
    /\ secOrder \in [Sections -> SectionPositions] /\ Injective(secOrder)
    /\ place \in [Fields -> Sections \X FieldPositions] /\ Injective(place)
    /\ links \in [Ids -> Link \cup {Unused, Gone}]
    /\ kind = "dependency" =>
          \A i \in Ids : links[i] \in Link => links[i].sec = None /\ links[i].fld # None
    /\ req \in [Workers -> {Idle} \cup LinkRequest \cup MoveRequest]

Init ==
    /\ kind \in {"rule", "dependency"}
    /\ secOrder \in [Sections -> SectionPositions] /\ Injective(secOrder)
    /\ place \in [Fields -> Sections \X FieldPositions] /\ Injective(place)
    /\ links = [i \in Ids |-> Unused]
    /\ req = [w \in Workers |-> Idle]

Rows == {i \in Ids : links[i] \in Link}
At(w, location) == req[w].pc = location
Finish(w) == req' = [req EXCEPT ![w] = Idle]
Given(x) == x \notin {None, Absent}

-----------------------------------------------------------------------------
(* The validators *)

PrecedesSection(order, f, s) == order[place[f][1]] < order[s]

PrecedesField(order, f, g) ==
    IF place[f][1] = place[g][1] THEN place[f][2] < place[g][2]
                                 ELSE PrecedesSection(order, f, place[g][1])

\* validate_ordering_constraint, validate_fd_ordering_constraint
WellOrdered(order, l) ==
    /\ Given(l.sec) => PrecedesSection(order, l.src, l.sec)
    /\ Given(l.fld) => PrecedesField(order, l.src, l.fld)

\* Only the keys of the body are looked at, never the stored row: a check whose
\* operands were not sent is skipped.
Accepted(d) ==
    /\ kind = "rule" => (Given(d.sec) # Given(d.fld))
    /\ Given(d.src) => d.src # d.fld /\ WellOrdered(secOrder, d)

-----------------------------------------------------------------------------
(* Cycles *)

EdgesOf(ids) == {<<links[i].fld, links[i].src>> : i \in {j \in ids : links[j].fld # None}}

\* The stored rows left out of the graph.
SearchedNone(r) == {}

\* The rows a request searches: all but the one it edits.
SearchedRows(r) == IF r.op = "create" THEN Rows ELSE Rows \ {r.id}

ProposedGraph(r) == EdgesOf(SearchedRows(r)) \cup {<<r.body.fld, r.body.src>>}

RefusesCycle(r) == CycleReachable(ProposedGraph(r), r.body.fld)

-----------------------------------------------------------------------------
(* POST, PUT and PATCH of a link, and the forms of the admin site. *)

\* is_valid().  Through the API a rule cannot be created: perform_create reads
\* self.survey, which nothing sets.  The admin form can; it sends every column.
Validate(w) ==
    /\ At(w, "idle")
    /\ \E op \in {"create", "form", "patch"}, i \in Ids : \E d \in BodyOf(op) :
          /\ IF op = "create" THEN links[i] = Unused ELSE i \in Rows
          /\ Accepted(d)
          /\ req' = [req EXCEPT ![w] = [pc |-> "search", op |-> op, id |-> i, body |-> d]]
    /\ UNCHANGED tables

\* A body without target_field is not searched for rules; a missing depends_on_field
\* (or, for dependencies, dependent_field) is an AttributeError.
Skipped(r) == kind = "rule" /\ ~Given(r.body.fld)
Complete(r) == Given(r.body.src) /\ Given(r.body.fld)

\* detect_circular_dependencies_*
Search(w) ==
    /\ At(w, "search")
    /\ IF Skipped(req[w]) \/ (Complete(req[w]) /\ ~RefusesCycle(req[w]))
       THEN req' = [req EXCEPT ![w].pc = "store"]
       ELSE Finish(w)
    /\ UNCHANGED tables

\* A missing key stored as it stands in memory.
KeptNothing(new, old) == new

Kept(new, old) == IF new = Absent THEN old ELSE new

Merged(d, row) == [src |-> Kept(d.src, row.src),
                   sec |-> Kept(d.sec, row.sec),
                   fld |-> Kept(d.fld, row.fld)]

\* save(update_fields=...) writes the keys of the body and fails when the row is
\* gone; the form's save() writes all columns, as an INSERT when the row is gone.
Store(w) ==
    /\ At(w, "store")
    /\ LET r == req[w] IN
          \/ /\ r.op = "create"
             /\ \E i \in Ids : links[i] = Unused /\ links' = [links EXCEPT ![i] = r.body]
          \/ r.op = "form" /\ links' = [links EXCEPT ![r.id] = r.body]
          \/ /\ r.op = "patch"
             /\ links' = IF r.id \in Rows
                         THEN [links EXCEPT ![r.id] = Merged(r.body, links[r.id])]
                         ELSE links
    /\ Finish(w)
    /\ UNCHANGED <<kind, secOrder, place>>

Delete(ids) == links' = [i \in Ids |-> IF i \in ids THEN Gone ELSE links[i]]

DropLink(i) ==
    /\ i \in Rows
    /\ Delete({i})
    /\ UNCHANGED <<kind, secOrder, place, req>>

\* The cascade of deleting a field or a section.  The field stays in Fields: it
\* is as if no later request named it.
Below(x) == {x} \cup {f \in Fields : place[f][1] = x}

Cascade(x) ==
    /\ Delete({i \in Rows : {links[i].src, links[i].sec, links[i].fld} \cap Below(x) # {}})
    /\ UNCHANGED <<kind, secOrder, place, req>>

-----------------------------------------------------------------------------
(* Changes of order *)

\* PATCH or PUT of a section: the row is loaded, old_order with it.
LoadSection(w) ==
    /\ At(w, "idle")
    /\ \E s \in Sections, p \in SectionPositions :
          req' = [req EXCEPT ![w] = [pc |-> "move", section |-> s, to |-> p,
                                     old |-> secOrder[s]]]
    /\ UNCHANGED tables

NotRevalidated(order) == TRUE

\* _revalidate_ordering_for_survey, under the order about to be committed
StillOrdered(order) == \A i \in Rows : WellOrdered(order, links[i])

\* update_section: one transaction, rolled back when the position is taken or a
\* link would become ill-ordered; no link is looked at when the position is the
\* one that was loaded.
MoveSection(w) ==
    /\ At(w, "move")
    /\ LET r == req[w]
           order == [secOrder EXCEPT ![r.section] = r.to]
       IN IF Injective(order) /\ (r.to # r.old => StillOrdered(order))
          THEN secOrder' = order
          ELSE UNCHANGED secOrder
    /\ Finish(w)
    /\ UNCHANGED <<kind, place, links>>

\* update_field writes the order it is sent and revalidates nothing.
MoveField(f, p) ==
    /\ place' = [place EXCEPT ![f][2] = p]
    /\ Injective(place')
    /\ UNCHANGED <<kind, secOrder, links, req>>

\* The forms of the admin site revalidate nothing either; that of a field can
\* also change its section.
FormMoveSection(s, p) ==
    /\ secOrder' = [secOrder EXCEPT ![s] = p]
    /\ Injective(secOrder')
    /\ UNCHANGED <<kind, place, links, req>>

FormMoveField(f, s, p) ==
    /\ place' = [place EXCEPT ![f] = <<s, p>>]
    /\ Injective(place')
    /\ UNCHANGED <<kind, secOrder, links, req>>

\* Another check, an exception or a killed worker ends the request.
Abandon(w) ==
    /\ ~At(w, "idle")
    /\ Finish(w)
    /\ UNCHANGED tables

FormMove ==
    \/ \E s \in Sections, p \in SectionPositions : FormMoveSection(s, p)
    \/ \E f \in Fields, s \in Sections, p \in FieldPositions : FormMoveField(f, s, p)

Step(w) ==
    \/ Validate(w) \/ Search(w) \/ Store(w)
    \/ LoadSection(w) \/ MoveSection(w) \/ Abandon(w)

\* Requests whose effect is one transaction that depends on nothing read before.
AtOnce ==
    \/ \E i \in Ids : DropLink(i)
    \/ \E x \in Fields \cup Sections : Cascade(x)
    \/ \E f \in Fields, p \in FieldPositions : MoveField(f, p)
    \/ FormMove

Next == AtOnce \/ \E w \in Workers : Step(w)

Spec == Init /\ [][Next]_vars

\* Requests that do not overlap.
SerialNext ==
    \/ AtOnce /\ \A w \in Workers : At(w, "idle")
    \/ \E w \in Workers : Step(w) /\ \A v \in Workers \ {w} : At(v, "idle")

SerialSpec == Init /\ [][SerialNext]_vars

\* Requests about links that overlap in every way, while nobody moves a field or
\* uses the forms, and a reordering of the sections has the survey to itself.
CalmStep(w) ==
    /\ Step(w)
    /\ \/ \A v \in Workers \ {w} : At(v, "idle")
       \/ ~LoadSection(w) /\ \A v \in Workers : ~At(v, "move")

CalmNext ==
    \/ \E i \in Ids : DropLink(i)
    \/ \E x \in Fields \cup Sections : Cascade(x)
    \/ \E w \in Workers : CalmStep(w)

CalmSpec == Init /\ [][CalmNext]_vars

\* Requests that overlap in every way, except that none is searched while another one is
\* between its search and its storage: a lock around those two statements.
ApartNext ==
    \/ AtOnce
    \/ \E w \in Workers :
          /\ Step(w)
          /\ Search(w) => \A v \in Workers : ~At(v, "store")

ApartSpec == Init /\ [][ApartNext]_vars

-----------------------------------------------------------------------------
(* Properties *)

SingleTarget == {i \in Rows : links[i].sec = None}

\* Without overlapping requests the dependencies, and the rules whose only target
\* is a field, never form a cycle, although sections and fields may be moved so
\* that links point forward, and although rules with two targets (which a partial
\* update can make, unsearched) may be stored beside them.
SingleTargetAcyclic == Acyclic(EdgesOf(SingleTarget))

\* While only sections are moved, and only through the API, every link whose one
\* target is a field has its source before that field, however the requests that
\* stored it overlapped and whatever they left out.  No cycle can then be closed,
\* not even by requests that each searched before the other stored.
StoredInOrder == \A i \in SingleTarget : WellOrdered(secOrder, links[i])

\* A link whose target field lies in an earlier section than its source.
PointsForward(i) ==
    /\ links[i] \in Link /\ links[i].sec = None /\ links[i].fld # None
    /\ LET from == place[links[i].src][1]
           to == place[links[i].fld][1]
       IN secOrder[to] < secOrder[from]

\* Without overlapping requests only a form of the admin site turns a link
\* against the order of the sections: neither a stored link nor a reordering
\* through the API does, whatever was reordered before.
OnlyFormsTurnForward ==
    [][FormMove \/ \A i \in Ids :
          PointsForward(i)' => PointsForward(i) /\ links'[i] = links[i]]_vars
=============================================================================

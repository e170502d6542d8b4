-------------------------- MODULE FieldChangesProofs --------------------------
(***************************************************************************)
(* Theorems about FieldChanges, for any fields, texts, bodies, rows and    *)
(* workers.                                                                *)
(***************************************************************************)
EXTENDS FieldChanges, TLAPS

\* FitsField and Accepted, of any tables.
FitsIn(rs, f, c) ==
    \A i \in Ids : rs[i] # None =>
        /\ rs[i].src = f => ConditionFits(rs[i], c)
        /\ rs[i].dst = f => EffectFits(rs[i], c)

AcceptedIn(fs, rs, d) ==
    /\ ConditionSent(d) => OperatorFits(fs[d.src], d.op, d.value)
    /\ EffectSent(d) => /\ ActionFits(fs[d.dst], d.action, d.given)
                        /\ \A i \in RuleIds : rs[i] # None => ~Hides(d, rs[i])

\* A request that nobody overtook may rely on what it has read and checked.
FieldPending(fs, rs, r) ==
    r.pc \in {"loaded", "saving"} /\ ~r.overtaken =>
        /\ r.seen = fs[r.body.field]
        /\ Coherent(Edited(r.seen, r.body))
        /\ r.pc = "saving" /\ Changes(r) => FitsIn(rs, r.body.field, Edited(r.seen, r.body))

RowPending(fs, rs, r) ==
    r.pc = "store" =>
        /\ r.id \in DepIds <=> r.body.dst # None
        /\ r.new => ConditionSent(r.body) /\ (r.id \in DepIds => EffectSent(r.body))
        /\ ~r.overtaken => AcceptedIn(fs, rs, r.body)

Pending == \A w \in Workers : FieldPending(fields, rows, req[w]) /\ RowPending(fields, rows, req[w])

ChangesInv == TypeOK /\ Pending /\ StoredRowsFit /\ FieldsCoherent /\ HiddenOptionsUnasked

-----------------------------------------------------------------------------
(* The records *)

Requests == {Idle} \cup FieldRequest \cup RowRequest

LEMMA Apart ==
    /\ RuleIds \cap DepIds = {} /\ Ids = RuleIds \cup DepIds
    /\ \A i \in Ids : i \notin Fields /\ i \notin {"condition", "effect", "columns"}
    /\ None \notin Fields /\ Absent \notin Fields /\ Absent # None /\ None \notin Row
    /\ \A d \in FieldBodies : IsFieldBody(d)
    /\ \A d \in RowBodies : IsRowBody(d)
<1>1. RuleIds \cap DepIds = {} /\ Ids = RuleIds \cup DepIds
  BY ChangesAssumption DEF Ids
<1>2. \A i \in Ids : i \notin Fields /\ i \notin {"condition", "effect", "columns"}
  BY ChangesAssumption DEF Parts
<1>3. None \notin Fields
  BY ConditionsAssumption
<1>4. \A x \in Fields : x # Absent
  BY ChangesAssumption
<1>5. Absent # None
  BY ChangesAssumption
<1>6. (\A d \in FieldBodies : IsFieldBody(d)) /\ (\A d \in RowBodies : IsRowBody(d))
  BY ChangesAssumption
<1> QED BY <1>1, <1>2, <1>3, <1>4, <1>5, <1>6, NoneIsNoRow

LEMMA Locations ==
    ASSUME NEW r \in Requests
    PROVE  /\ r.pc \in {"loaded", "saving"} => r \in FieldRequest
           /\ r.pc = "store" => r \in RowRequest
           /\ r.pc \in {"idle", "loaded", "saving", "store"}
           /\ r.pc = "idle" => r = Idle
BY DEF Requests, Idle, FieldRequest, RowRequest

LEMMA EditedIsColumns ==
    ASSUME NEW c \in Columns, NEW d \in FieldBodies
    PROVE  Edited(c, d) \in Columns /\ d.field \in Fields
<1>1. /\ d.field \in Fields /\ d.type \in {Absent} \cup Types
      /\ d.options \in {Absent} \cup SUBSET Texts /\ d.limits \in {Absent} \cup SUBSET Limits
  BY Apart DEF IsFieldBody
<1>2. c.type \in Types /\ c.options \in SUBSET Texts /\ c.limits \in SUBSET Limits
  BY DEF Columns
<1> QED BY <1>1, <1>2 DEF Edited, Kept, Columns

\* What a condition or an action asks of a field depends on type and options.
LEMMA FitsByTypeAndOptions ==
    ASSUME NEW c, NEW e, c.type = e.type, c.options = e.options, NEW r
    PROVE  (ConditionFits(r, c) <=> ConditionFits(r, e)) /\ (EffectFits(r, c) <=> EffectFits(r, e))
BY DEF ConditionFits, EffectFits, OperatorFits, ActionFits, Among

\* What others write to fields that a request has not read, or to rows about them,
\* does not matter to it; otherwise it is overtaken.
LEMMA Frame ==
    ASSUME NEW fs, NEW rs, NEW fs2, NEW rs2, NEW F, NEW r \in Requests,
           \A x \in Fields \ F : fs2[x] = fs[x],
           \A i \in Ids : rs2[i] \in {rs[i], None}
                          \/ (rs2[i].src \in F /\ rs2[i].dst \in F),
           FieldPending(fs, rs, r), RowPending(fs, rs, r)
    PROVE  /\ Overtake(F, r) \in Requests
           /\ FieldPending(fs2, rs2, Overtake(F, r)) /\ RowPending(fs2, rs2, Overtake(F, r))
<1>1. CASE r.pc = "idle"
  <2>1. Overtake(F, r) = r
    BY <1>1 DEF Overtake, Reads
  <2> QED BY <1>1, <2>1 DEF FieldPending, RowPending
<1>2. CASE r.pc \in {"loaded", "saving"}
  <2>1. r \in FieldRequest /\ Reads(r) = {r.body.field} /\ r.body.field \in Fields
    BY <1>2, Locations, Apart DEF Reads, FieldRequest, IsFieldBody
  <2>2. CASE r.body.field \in F
    <3>1. Overtake(F, r) = [r EXCEPT !.overtaken = TRUE]
      BY <2>1, <2>2 DEF Overtake
    <3> QED BY <1>2, <2>1, <3>1 DEF FieldPending, RowPending, FieldRequest, Requests
  <2>3. CASE r.body.field \notin F
    <3>1. Overtake(F, r) = r
      BY <2>1, <2>3 DEF Overtake
    <3>2. fs2[r.body.field] = fs[r.body.field]
      BY <2>1, <2>3
    <3>3. ASSUME NEW c, FitsIn(rs, r.body.field, c)
          PROVE  FitsIn(rs2, r.body.field, c)
      BY <2>1, <2>3, <3>3 DEF FitsIn
    <3> QED BY <1>2, <3>1, <3>2, <3>3 DEF FieldPending, RowPending
  <2> QED BY <2>2, <2>3
<1>3. CASE r.pc = "store"
  <2>1. r \in RowRequest /\ Reads(r) = {r.body.src, r.body.dst} \cap Fields /\ IsRowBody(r.body)
    BY <1>3, Locations, Apart DEF Reads, RowRequest
  <2>2. CASE Reads(r) \cap F # {}
    <3>1. Overtake(F, r) = [r EXCEPT !.overtaken = TRUE]
      BY <2>2 DEF Overtake
    <3> QED BY <1>3, <2>1, <3>1 DEF FieldPending, RowPending, RowRequest, Requests
  <2>3. CASE Reads(r) \cap F = {}
    <3>1. Overtake(F, r) = r
      BY <2>3 DEF Overtake
    <3>2. /\ ConditionSent(r.body) => r.body.src \in Fields \ F
          /\ EffectSent(r.body) => r.body.dst \in Fields \ F
      BY <2>1, <2>3 DEF ConditionSent, EffectSent, IsRowBody
    <3>3. EffectSent(r.body) =>
             \A i \in RuleIds : rs2[i] # None /\ Hides(r.body, rs2[i]) => rs2[i] = rs[i]
      BY <3>2 DEF Hides, Ids
    <3>4. AcceptedIn(fs, rs, r.body) => AcceptedIn(fs2, rs2, r.body)
      BY <3>2, <3>3 DEF AcceptedIn
    <3> QED BY <1>3, <3>1, <3>4 DEF FieldPending, RowPending
  <2> QED BY <2>2, <2>3
<1> QED BY <1>1, <1>2, <1>3, Locations

LEMMA InitInv == Init => ChangesInv
<1> SUFFICES ASSUME Init PROVE ChangesInv
  OBVIOUS
<1>1. Stored = {} /\ \A w \in Workers : req[w] = Idle
  BY DEF Init, Stored
<1>2. TypeOK
  BY <1>1 DEF Init, TypeOK, Columns, Types, TextTypes
<1>3. FieldsCoherent
  BY DEF Init, FieldsCoherent, Coherent, Choices
<1> QED BY <1>1, <1>2, <1>3 DEF ChangesInv, Pending, FieldPending, RowPending, Idle, StoredRowsFit,
        HiddenOptionsUnasked

-----------------------------------------------------------------------------
(* The requests on a field *)

LEMMA LoadFieldStep ==
    ASSUME ChangesInv, NEW w \in Workers, NEW d \in FieldBodies, LoadField(w, d)
    PROVE  ChangesInv'
<1> DEFINE r == [pc |-> "loaded", body |-> d, seen |-> fields[d.field], overtaken |-> FALSE]
<1>1. d.field \in Fields /\ fields[d.field] \in Columns
  BY EditedIsColumns, Apart DEF ChangesInv, TypeOK, IsFieldBody
<1>2. r \in FieldRequest
  BY <1>1 DEF FieldRequest
<1>3. req' = [req EXCEPT ![w] = r] /\ UNCHANGED <<fields, rows, loose>> /\ Stored' = Stored
  BY DEF LoadField, tables, Stored
<1>4. TypeOK'
  BY <1>2, <1>3 DEF ChangesInv, TypeOK
<1>5. FieldPending(fields, rows, r) /\ RowPending(fields, rows, r)
  BY DEF FieldPending, RowPending, LoadField, Judged
<1>6. Pending'
  BY <1>3, <1>5 DEF Pending, ChangesInv, TypeOK
<1>7. StoredRowsFit' /\ FieldsCoherent' /\ HiddenOptionsUnasked'
  BY <1>3 DEF ChangesInv, StoredRowsFit, FieldsCoherent, HiddenOptionsUnasked
<1> QED BY <1>4, <1>6, <1>7 DEF ChangesInv

LEMMA SaveFieldStep ==
    ASSUME ChangesInv, NEW w \in Workers, SaveField(w)
    PROVE  ChangesInv'
<1> DEFINE r == [req[w] EXCEPT !.pc = "saving"]
<1>1. req[w] \in FieldRequest /\ req[w].pc = "loaded"
  BY Locations DEF SaveField, At, ChangesInv, TypeOK, Requests
<1>2. r \in FieldRequest /\ r.pc = "saving" /\ r.body = req[w].body /\ r.seen = req[w].seen
      /\ r.overtaken = req[w].overtaken
  BY <1>1 DEF FieldRequest
<1>3. req' = [req EXCEPT ![w] = r] /\ UNCHANGED <<fields, rows, loose>> /\ Stored' = Stored
  BY DEF SaveField, tables, Stored
<1>4. TypeOK'
  BY <1>2, <1>3 DEF ChangesInv, TypeOK
<1>5. Changes(req[w]) => FitsIn(rows, req[w].body.field, Edited(req[w].seen, req[w].body))
  BY DEF SaveField, FitsField, FitsIn, Stored
<1>6. FieldPending(fields, rows, r) /\ RowPending(fields, rows, r)
  <2>1. FieldPending(fields, rows, req[w])
    BY DEF ChangesInv, Pending
  <2>2. Changes(r) <=> Changes(req[w])
    BY <1>2 DEF Changes
  <2> HIDE DEF r
  <2> QED BY <1>1, <1>2, <1>5, <2>1, <2>2 DEF FieldPending, RowPending
<1>7. Pending'
  BY <1>3, <1>6 DEF Pending, ChangesInv, TypeOK
<1>8. StoredRowsFit' /\ FieldsCoherent' /\ HiddenOptionsUnasked'
  BY <1>3 DEF ChangesInv, StoredRowsFit, FieldsCoherent, HiddenOptionsUnasked
<1> QED BY <1>4, <1>7, <1>8 DEF ChangesInv

\* A field is written: the marks that are set or taken away are about f.
LEMMA FieldWritten ==
    ASSUME ChangesInv, NEW f \in Fields, NEW c \in Columns,
           fields' = [fields EXCEPT ![f] = c], UNCHANGED rows,
           loose' \subseteq loose \cup {<<f, "columns">>} \cup About(f),
           loose \ ({<<f, "columns">>} \cup About(f)) \subseteq loose',
           Coherent(c) \/ <<f, "columns">> \in loose',
           About(f) \subseteq loose'
             \/ (FitsIn(rows, f, c))
             \/ (loose \cap About(f) \subseteq loose'
                 /\ c.type = fields[f].type /\ c.options = fields[f].options),
           req' \in [Workers -> Requests]
    PROVE  TypeOK' /\ StoredRowsFit' /\ FieldsCoherent' /\ HiddenOptionsUnasked'
<1>1. Stored' = Stored /\ fields \in [Fields -> Columns] /\ rows \in [Ids -> {None} \cup Row]
  BY DEF Stored, ChangesInv, TypeOK
<1>2. About(f) \subseteq Ids \X Parts
  BY DEF About, Stored, Parts
<1>3. TypeOK'
  <2>1. fields' \in [Fields -> Columns]
    BY <1>1
  <2>2. loose' \subseteq (Fields \X {"columns"}) \cup (Ids \X (Parts \cup Ids))
    BY <1>2 DEF ChangesInv, TypeOK
  <2>3. \A i \in Stored' : IF i \in RuleIds
             THEN rows'[i].dst = None /\ rows'[i].action = None /\ rows'[i].given = None
             ELSE None \notin {rows'[i].dst, rows'[i].action, rows'[i].given}
    BY <1>1 DEF ChangesInv, TypeOK
  <2> QED BY <2>1, <2>2, <2>3, <1>1 DEF TypeOK, Requests
<1>4. FieldsCoherent'
  <2> SUFFICES ASSUME NEW g \in Fields PROVE Coherent(fields'[g]) \/ <<g, "columns">> \in loose'
    BY DEF FieldsCoherent
  <2>1. CASE g = f
    BY <2>1, <1>1
  <2>2. CASE g # f
    <3>1. <<g, "columns">> \notin {<<f, "columns">>} \cup About(f)
      BY <2>2, <1>2, Apart
    <3>2. fields'[g] = fields[g]
      BY <2>2, <1>1
    <3>3. Coherent(fields[g]) \/ <<g, "columns">> \in loose
      BY DEF ChangesInv, FieldsCoherent
    <3> QED BY <3>1, <3>2, <3>3
  <2> QED BY <2>1, <2>2
<1>5. HiddenOptionsUnasked'
  <2> SUFFICES ASSUME NEW d \in Stored \cap DepIds, NEW i \in Stored \cap RuleIds,
                      Hides(rows[d], rows[i])
               PROVE  <<d, i>> \in loose'
    BY <1>1 DEF HiddenOptionsUnasked
  <2>1. <<d, i>> \in loose
    BY DEF ChangesInv, HiddenOptionsUnasked
  <2>2. i \in Ids /\ d \in Ids
    BY Apart
  <2>3. <<d, i>> \notin {<<f, "columns">>} \cup About(f)
    BY <1>2, <2>2, Apart DEF Parts
  <2> QED BY <2>1, <2>3
<1>6. StoredRowsFit'
  <2> SUFFICES ASSUME NEW i \in Stored
               PROVE /\ \/ ConditionFits(rows[i], fields'[rows[i].src])
                        \/ <<i, "condition">> \in loose'
                     /\ i \in DepIds => \/ EffectFits(rows[i], fields'[rows[i].dst])
                                        \/ <<i, "effect">> \in loose'
    BY <1>1 DEF StoredRowsFit
  <2>1. i \in Ids /\ rows[i] \in Row /\ rows[i].src \in Fields
        /\ (i \in DepIds => rows[i].dst \in Fields)
    BY <1>1, Apart DEF Stored, Row, ChangesInv, TypeOK
  <2>2. /\ ConditionFits(rows[i], fields[rows[i].src]) \/ <<i, "condition">> \in loose
        /\ i \in DepIds => EffectFits(rows[i], fields[rows[i].dst]) \/ <<i, "effect">> \in loose
    BY DEF ChangesInv, StoredRowsFit
  <2>3. (<<i, "condition">> \in About(f) <=> rows[i].src = f)
        /\ (<<i, "effect">> \in About(f) <=> rows[i].dst = f)
    BY DEF About
  <2>4. {<<i, "condition">>, <<i, "effect">>} \cap {<<f, "columns">>} = {}
    OBVIOUS
  <2>5. ConditionFits(rows[i], fields'[rows[i].src]) \/ <<i, "condition">> \in loose'
    <3>1. CASE rows[i].src # f
      <4>1. fields'[rows[i].src] = fields[rows[i].src]
        BY <3>1, <2>1, <1>1
      <4> QED BY <4>1, <3>1, <2>2, <2>3, <2>4
    <3>2. CASE rows[i].src = f
      <4>1. fields'[rows[i].src] = c
        BY <3>2, <1>1
      <4>2. CASE About(f) \subseteq loose'
        BY <4>2, <3>2, <2>3
      <4>3. CASE FitsIn(rows, f, c)
        BY <4>1, <4>3, <3>2, <2>1 DEF FitsIn, Stored
      <4>4. CASE loose \cap About(f) \subseteq loose'
                 /\ c.type = fields[f].type /\ c.options = fields[f].options
        <5>1. ConditionFits(rows[i], c) <=> ConditionFits(rows[i], fields[f])
          BY <4>4, FitsByTypeAndOptions
        <5> QED BY <5>1, <4>1, <4>4, <3>2, <2>2, <2>3
      <4> QED BY <4>2, <4>3, <4>4
    <3> QED BY <3>1, <3>2
  <2>6. ASSUME i \in DepIds
        PROVE  EffectFits(rows[i], fields'[rows[i].dst]) \/ <<i, "effect">> \in loose'
    <3>1. CASE rows[i].dst # f
      <4>1. fields'[rows[i].dst] = fields[rows[i].dst]
        BY <2>6, <3>1, <2>1, <1>1
      <4> QED BY <2>6, <4>1, <3>1, <2>2, <2>3, <2>4
    <3>2. CASE rows[i].dst = f
      <4>1. fields'[rows[i].dst] = c
        BY <3>2, <1>1
      <4>2. CASE About(f) \subseteq loose'
        BY <4>2, <3>2, <2>3
      <4>3. CASE FitsIn(rows, f, c)
        BY <4>1, <4>3, <3>2, <2>1 DEF FitsIn, Stored
      <4>4. CASE loose \cap About(f) \subseteq loose'
                 /\ c.type = fields[f].type /\ c.options = fields[f].options
        <5>1. EffectFits(rows[i], c) <=> EffectFits(rows[i], fields[f])
          BY <4>4, FitsByTypeAndOptions
        <5> QED BY <2>6, <5>1, <4>1, <4>4, <3>2, <2>2, <2>3
      <4> QED BY <4>2, <4>3, <4>4
    <3> QED BY <3>1, <3>2
  <2> QED BY <2>5, <2>6
<1> QED BY <1>3, <1>4, <1>5, <1>6

\* The requests after a write to the fields F, or to rows about them.
LEMMA OthersPending ==
    ASSUME ChangesInv, NEW F, NEW W \in SUBSET Workers,
           req' = [v \in Workers |-> IF v \in W THEN Idle ELSE Overtake(F, req[v])],
           \A x \in Fields \ F : fields'[x] = fields[x],
           \A i \in Ids : rows'[i] \in {rows[i], None}
                          \/ (rows'[i].src \in F /\ rows'[i].dst \in F)
    PROVE  req' \in [Workers -> Requests] /\ Pending'
<1>1. ASSUME NEW v \in Workers
      PROVE  /\ req'[v] \in Requests
             /\ FieldPending(fields', rows', req'[v]) /\ RowPending(fields', rows', req'[v])
  <2>1. CASE v \in W
    <3>1. req'[v] = Idle
      BY <2>1
    <3> QED BY <3>1 DEF FieldPending, RowPending, Idle, Requests
  <2>2. CASE v \notin W
    <3>1. req'[v] = Overtake(F, req[v])
      BY <2>2
    <3>2. req[v] \in Requests /\ FieldPending(fields, rows, req[v]) /\ RowPending(fields, rows, req[v])
      BY DEF ChangesInv, TypeOK, Pending, Requests
    <3>3. /\ Overtake(F, req[v]) \in Requests
          /\ FieldPending(fields', rows', Overtake(F, req[v]))
          /\ RowPending(fields', rows', Overtake(F, req[v]))
      BY <3>2, Frame
    <3> QED BY <3>1, <3>3
  <2> QED BY <2>1, <2>2
<1> QED BY <1>1 DEF Pending

LEMMA CommitFieldStep ==
    ASSUME ChangesInv, NEW w \in Workers, CommitField(w)
    PROVE  ChangesInv'
<1> DEFINE r == req[w]
           f == r.body.field
           c == Edited(fields[f], r.body)
<1>1. r \in FieldRequest /\ r.pc = "saving" /\ r.body \in FieldBodies /\ f \in Fields
  BY Locations, EditedIsColumns, Apart
  DEF CommitField, At, ChangesInv, TypeOK, Requests, FieldRequest, IsFieldBody
<1>2. c \in Columns
  BY <1>1, EditedIsColumns DEF ChangesInv, TypeOK
<1>3. fields' = [fields EXCEPT ![f] = c] /\ UNCHANGED rows /\ Finish(w, {f})
  BY DEF CommitField
<1>4. loose' = IF r.overtaken THEN loose \cup {<<f, "columns">>} \cup About(f)
               ELSE loose \ ({<<f, "columns">>} \cup {x \in About(f) : Changes(r)})
  BY DEF CommitField
<1>5. r.overtaken \in BOOLEAN
  BY <1>1 DEF FieldRequest
<1>6. req' \in [Workers -> Requests] /\ Pending'
  <2>1. req' = [v \in Workers |-> IF v \in {w} THEN Idle ELSE Overtake({f}, req[v])]
    BY <1>3 DEF Finish
  <2>2. \A x \in Fields \ {f} : fields'[x] = fields[x]
    BY <1>3 DEF ChangesInv, TypeOK
  <2>3. {w} \in SUBSET Workers /\ \A i \in Ids : rows'[i] \in {rows[i], None}
    BY <1>3
  <2> HIDE DEF r, f, c
  <2> QED BY <2>1, <2>2, <2>3, OthersPending
<1>7. ASSUME ~r.overtaken
      PROVE  /\ Coherent(c)
             /\ Changes(r) => FitsIn(rows, f, c)
             /\ ~Changes(r) => c.type = fields[f].type /\ c.options = fields[f].options
  <2>1. r.seen = fields[f] /\ Coherent(c) /\ (Changes(r) => FitsIn(rows, f, c))
    BY <1>1, <1>7 DEF ChangesInv, Pending, FieldPending
  <2>2. ~Changes(r) => c.type = fields[f].type /\ c.options = fields[f].options
    BY <2>1 DEF Changes, Edited, Kept
  <2> QED BY <2>1, <2>2
<1>8. /\ loose' \subseteq loose \cup {<<f, "columns">>} \cup About(f)
      /\ loose \ ({<<f, "columns">>} \cup About(f)) \subseteq loose'
      /\ Coherent(c) \/ <<f, "columns">> \in loose'
  BY <1>4, <1>5, <1>7
<1>9. \/ About(f) \subseteq loose'
      \/ FitsIn(rows, f, c)
      \/ /\ loose \cap About(f) \subseteq loose'
         /\ c.type = fields[f].type /\ c.options = fields[f].options
  <2>1. CASE r.overtaken
    BY <2>1, <1>4
  <2>2. CASE ~r.overtaken /\ Changes(r)
    BY <2>2, <1>7
  <2>3. CASE ~r.overtaken /\ ~Changes(r)
    <3>1. <<f, "columns">> \notin About(f)
      BY DEF About
    <3>2. loose \cap About(f) \subseteq loose'
      BY <2>3, <3>1, <1>4
    <3> QED BY <2>3, <3>2, <1>7
  <2> QED BY <2>1, <2>2, <2>3
<1> HIDE DEF r, f, c
<1>10. TypeOK' /\ StoredRowsFit' /\ FieldsCoherent' /\ HiddenOptionsUnasked'
  BY <1>1, <1>2, <1>3, <1>6, <1>8, <1>9, FieldWritten
<1> QED BY <1>6, <1>10 DEF ChangesInv

LEMMA FieldFormStep ==
    ASSUME ChangesInv, NEW d \in FieldBodies, FieldForm(d)
    PROVE  ChangesInv'
<1> DEFINE f == d.field
           c == [type |-> d.type, options |-> d.options, limits |-> d.limits]
<1>1. f \in Fields /\ c \in Columns
  BY Apart DEF FieldForm, IsFieldBody, Columns
<1>2. /\ fields' = [fields EXCEPT ![f] = c] /\ UNCHANGED rows /\ Coherent(c)
      /\ req' = [v \in Workers |-> Overtake({f}, req[v])]
      /\ loose' = (loose \cup About(f)) \ {<<f, "columns">>}
  BY DEF FieldForm
<1>3. req' \in [Workers -> Requests] /\ Pending'
  <2>1. req' = [v \in Workers |-> IF v \in {} THEN Idle ELSE Overtake({f}, req[v])]
    BY <1>2
  <2>2. \A x \in Fields \ {f} : fields'[x] = fields[x]
    BY <1>2 DEF ChangesInv, TypeOK
  <2>3. {} \in SUBSET Workers /\ \A i \in Ids : rows'[i] \in {rows[i], None}
    BY <1>2
  <2> HIDE DEF f, c
  <2> QED BY <2>1, <2>2, <2>3, OthersPending
<1>4. <<f, "columns">> \notin About(f)
  BY DEF About
<1>5. About(f) \subseteq loose'
  BY <1>2, <1>4
<1> HIDE DEF f, c
<1>6. TypeOK' /\ StoredRowsFit' /\ FieldsCoherent' /\ HiddenOptionsUnasked'
  BY <1>1, <1>2, <1>3, <1>5, FieldWritten
<1> QED BY <1>3, <1>6 DEF ChangesInv

-----------------------------------------------------------------------------
(* The requests on a rule or dependency *)

LEMMA ValidateStep ==
    ASSUME ChangesInv, NEW w \in Workers, NEW i \in Ids, NEW d \in RowBodies, Validate(w, i, d)
    PROVE  ChangesInv'
<1> DEFINE r == [pc |-> "store", id |-> i, new |-> rows[i] = None, body |-> d, overtaken |-> FALSE]
<1>1. r \in RowRequest
  BY DEF RowRequest
<1>2. req' = [req EXCEPT ![w] = r] /\ UNCHANGED <<fields, rows, loose>> /\ Stored' = Stored
  BY DEF Validate, tables, Stored
<1>3. TypeOK'
  BY <1>1, <1>2 DEF ChangesInv, TypeOK
<1>4. AcceptedIn(fields, rows, d)
  BY Apart DEF Validate, Accepted, AcceptedIn, HidesStored, Stored
<1>5. FieldPending(fields, rows, r) /\ RowPending(fields, rows, r)
  BY <1>4 DEF FieldPending, RowPending, Validate
<1>6. Pending'
  BY <1>2, <1>5 DEF Pending, ChangesInv, TypeOK
<1>7. StoredRowsFit' /\ FieldsCoherent' /\ HiddenOptionsUnasked'
  BY <1>2 DEF ChangesInv, StoredRowsFit, FieldsCoherent, HiddenOptionsUnasked
<1> QED BY <1>3, <1>6, <1>7 DEF ChangesInv

LEMMA DropRowStep ==
    ASSUME ChangesInv, NEW i \in Ids, DropRow(i)
    PROVE  ChangesInv'
<1>1. /\ rows' = [rows EXCEPT ![i] = None] /\ UNCHANGED <<fields, req>>
      /\ loose' = {c \in loose : i \notin {c[1], c[2]}}
      /\ rows \in [Ids -> {None} \cup Row]
  BY DEF DropRow, ChangesInv, TypeOK
<1>2. Stored' = Stored \ {i} /\ \A j \in Stored' : j \in Ids /\ rows'[j] = rows[j]
  BY <1>1 DEF Stored
<1>3. TypeOK'
  BY <1>1, <1>2 DEF ChangesInv, TypeOK
<1>4. Pending'
  <2> SUFFICES ASSUME NEW v \in Workers
               PROVE  FieldPending(fields, rows', req[v]) /\ RowPending(fields, rows', req[v])
    BY <1>1 DEF Pending
  <2>1. FieldPending(fields, rows, req[v]) /\ RowPending(fields, rows, req[v])
    BY DEF ChangesInv, Pending
  <2>2. \A j \in Ids : rows'[j] # None => rows'[j] = rows[j]
    BY <1>1
  <2>3. FieldPending(fields, rows', req[v])
    BY <2>1, <2>2 DEF FieldPending, FitsIn
  <2>4. RowPending(fields, rows', req[v])
    BY <2>1, <2>2, Apart DEF RowPending, AcceptedIn
  <2> QED BY <2>3, <2>4
<1>5. \A j \in Stored', p \in Parts \cup Ids :
         p # i /\ <<j, p>> \in loose => <<j, p>> \in loose'
  BY <1>1, <1>2
<1>6. i \notin Parts
  BY Apart DEF Parts
<1>7. StoredRowsFit'
  BY <1>1, <1>2, <1>5, <1>6 DEF ChangesInv, StoredRowsFit, Parts
<1>8. HiddenOptionsUnasked'
  BY <1>1, <1>2, <1>5 DEF ChangesInv, HiddenOptionsUnasked
<1>9. FieldsCoherent'
  <2>1. \A f \in Fields : f # i /\ "columns" # i
    BY Apart
  <2>2. \A f \in Fields : <<f, "columns">> \in loose => <<f, "columns">> \in loose'
    BY <1>1, <2>1
  <2> QED BY <1>1, <2>2 DEF ChangesInv, FieldsCoherent
<1> QED BY <1>3, <1>4, <1>7, <1>8, <1>9 DEF ChangesInv

\* What a row that is stored holds: the body of a new one, or the old row with the
\* columns that were sent.
LEMMA RowStored ==
    ASSUME NEW i \in Ids, NEW d \in RowBodies, NEW old \in {None} \cup Row,
           i \in DepIds <=> d.dst # None,
           old # None => (i \in RuleIds => old.dst = None /\ old.action = None /\ old.given = None)
                         /\ (i \in DepIds => None \notin {old.dst, old.action, old.given}),
           old = None => ConditionSent(d) /\ (i \in DepIds => EffectSent(d)),
           NEW row, row = IF old = None THEN d ELSE Merged(old, d)
    PROVE  /\ row \in Row
           /\ i \in RuleIds => row.dst = None /\ row.action = None /\ row.given = None
           /\ i \in DepIds => None \notin {row.dst, row.action, row.given}
           /\ row.dst = d.dst
           /\ ConditionSent(d) => ConditionOf(row) = ConditionOf(d)
           /\ EffectSent(d) => EffectOf(row) = EffectOf(d)
<1>1. /\ d \in [src : {Absent} \cup Fields, op : {Absent} \cup Operators,
               value : {Absent} \cup Values, dst : {None} \cup Fields,
               action : {Absent, None} \cup Actions, given : {Absent, None} \cup Values]
      /\ IF d.dst = None THEN d.action = None /\ d.given = None
         ELSE d.src # Absent /\ None \notin {d.action, d.given}
  BY Apart DEF IsRowBody
<1>2. (i \in RuleIds <=> i \notin DepIds) /\ Absent # None /\ None \notin Row
  BY Apart
<1>3. CASE old = None
  <2>1. row = d
    BY <1>3
  <2>2. ConditionSent(d) /\ (i \in DepIds => EffectSent(d))
    BY <1>3
  <2>3. d.src \in Fields /\ d.op \in Operators /\ d.value \in Values
    BY <1>1, <2>2 DEF ConditionSent
  <2>4. d.dst \in {None} \cup Fields /\ d.action \in {None} \cup Actions /\ d.given \in {None} \cup Values
    BY <1>1, <1>2, <2>2 DEF EffectSent
  <2>5. d \in Row
    BY <1>1, <2>3, <2>4 DEF Row
  <2>6. i \in RuleIds => d.dst = None /\ d.action = None /\ d.given = None
    BY <1>1, <1>2
  <2>7. i \in DepIds => None \notin {d.dst, d.action, d.given}
    BY <1>1, <1>2
  <2> QED BY <2>1, <2>5, <2>6, <2>7
<1>4. CASE old # None
  <2>1. row = Merged(old, d) /\ old \in Row
    BY <1>4
  <2>2. /\ row.src = Kept(d.src, old.src) /\ row.op = Kept(d.op, old.op)
        /\ row.value = Kept(d.value, old.value) /\ row.dst = d.dst
        /\ row.action = Kept(d.action, old.action) /\ row.given = Kept(d.given, old.given)
    BY <2>1 DEF Merged
  <2>3. /\ old.src \in Fields /\ old.op \in Operators /\ old.value \in Values
        /\ old.action \in {None} \cup Actions /\ old.given \in {None} \cup Values
    BY <2>1 DEF Row
  <2>4. /\ row.src \in Fields /\ row.op \in Operators /\ row.value \in Values
        /\ row.dst \in {None} \cup Fields
        /\ row.action \in {None} \cup Actions /\ row.given \in {None} \cup Values
    BY <1>1, <2>2, <2>3 DEF Kept
  <2>5. row \in Row
    BY <2>1, <2>4 DEF Merged, Row
  <2>6. i \in RuleIds => row.dst = None /\ row.action = None /\ row.given = None
    BY <1>1, <1>2, <2>2 DEF Kept
  <2>7. i \in DepIds => None \notin {row.dst, row.action, row.given}
    BY <1>1, <1>2, <1>4, <2>2 DEF Kept
  <2>8. ConditionSent(d) => ConditionOf(row) = ConditionOf(d)
    BY <2>2 DEF ConditionSent, ConditionOf, Kept
  <2>9. EffectSent(d) => EffectOf(row) = EffectOf(d)
    BY <2>2 DEF EffectSent, EffectOf, Kept
  <2> QED BY <2>2, <2>5, <2>6, <2>7, <2>8, <2>9
<1> QED BY <1>3, <1>4

\* What Hides looks at.
LEMMA HidesByParts ==
    ASSUME NEW d, NEW e, NEW r, NEW s
    PROVE  /\ EffectOf(d) = EffectOf(e) => (Hides(d, r) <=> Hides(e, r))
           /\ ConditionOf(r) = ConditionOf(s) => (Hides(d, r) <=> Hides(d, s))
BY DEF ConditionOf, EffectOf, Hides

LEMMA StoreStep ==
    ASSUME ChangesInv, NEW w \in Workers, Store(w)
    PROVE  ChangesInv'
<1> DEFINE r == req[w]
           i == r.id
           d == r.body
           row == IF r.new THEN d ELSE Merged(rows[i], d)
<1>1. r \in RowRequest /\ r.pc = "store" /\ r.overtaken \in BOOLEAN /\ r.new \in BOOLEAN
      /\ i \in Ids /\ d \in RowBodies
  BY Locations DEF Store, At, ChangesInv, TypeOK, Requests, RowRequest
<1>2. /\ rows \in [Ids -> {None} \cup Row] /\ fields \in [Fields -> Columns] /\ UNCHANGED fields
      /\ \A j \in Ids : rows[j] # None =>
            IF j \in RuleIds THEN rows[j].dst = None /\ rows[j].action = None /\ rows[j].given = None
            ELSE None \notin {rows[j].dst, rows[j].action, rows[j].given}
  BY DEF ChangesInv, TypeOK, Store, Stored
<1>3. RowPending(fields, rows, r)
  BY DEF ChangesInv, Pending
<1>4. CASE r.new # (rows[i] = None)
  <2>1. Finish(w, {}) /\ UNCHANGED <<rows, loose>>
    BY <1>4 DEF Store
  <2>2. Stored' = Stored
    BY <2>1 DEF Stored
  <2>3. req' = [v \in Workers |-> IF v \in {w} THEN Idle ELSE Overtake({}, req[v])]
    BY <2>1 DEF Finish
  <2>4. /\ {w} \in SUBSET Workers /\ \A j \in Ids : rows'[j] \in {rows[j], None}
        /\ \A x \in Fields \ {} : fields'[x] = fields[x]
    BY <1>2, <2>1
  <2>5. req' \in [Workers -> Requests] /\ Pending'
    <3> HIDE DEF r, i, d, row
    <3> QED BY <2>3, <2>4, OthersPending
  <2>6. TypeOK'
    BY <1>2, <2>1, <2>2, <2>5 DEF ChangesInv, TypeOK, Requests
  <2>7. StoredRowsFit' /\ FieldsCoherent' /\ HiddenOptionsUnasked'
    BY <1>2, <2>1, <2>2 DEF ChangesInv, StoredRowsFit, FieldsCoherent, HiddenOptionsUnasked
  <2> QED BY <2>5, <2>6, <2>7 DEF ChangesInv
<1>5. CASE r.new = (rows[i] = None)
  <2>1. /\ rows' = [rows EXCEPT ![i] = row] /\ Finish(w, {row.src, row.dst})
        /\ loose' = (loose \cup Concerned(i, row)) \ {c \in Checked(i, d) : ~r.overtaken}
    BY <1>5 DEF Store
  <2>2. /\ row \in Row
        /\ i \in RuleIds => row.dst = None /\ row.action = None /\ row.given = None
        /\ i \in DepIds => None \notin {row.dst, row.action, row.given}
        /\ ConditionSent(d) => ConditionOf(row) = ConditionOf(d)
        /\ EffectSent(d) => EffectOf(row) = EffectOf(d)
    <3>1. rows[i] \in {None} \cup Row
      BY <1>1, <1>2
    <3>2. i \in DepIds <=> d.dst # None
      BY <1>1, <1>3 DEF RowPending
    <3>3. rows[i] # None => (i \in RuleIds => rows[i].dst = None /\ rows[i].action = None /\ rows[i].given = None)
                         /\ (i \in DepIds => None \notin {rows[i].dst, rows[i].action, rows[i].given})
      BY <1>1, <1>2, Apart
    <3>4. rows[i] = None => ConditionSent(d) /\ (i \in DepIds => EffectSent(d))
      BY <1>1, <1>3, <1>5 DEF RowPending
    <3>5. row = IF rows[i] = None THEN d ELSE Merged(rows[i], d)
      BY <1>5
    <3> HIDE DEF r, i, d, row
    <3> QED BY <1>1, <3>1, <3>2, <3>3, <3>4, <3>5, RowStored
  <2>3. ~r.overtaken => AcceptedIn(fields, rows, d)
    BY <1>1, <1>3 DEF RowPending
  <2> HIDE DEF r, i, d, row
  <2>4. rows'[i] = row /\ Stored' = Stored \cup {i}
        /\ \A j \in Ids : j # i => rows'[j] = rows[j]
    BY <1>1, <1>2, <2>1, <2>2, Apart DEF Stored
  <2>5. req' \in [Workers -> Requests] /\ Pending'
    <3>1. req' = [v \in Workers |-> IF v \in {w} THEN Idle ELSE Overtake({row.src, row.dst}, req[v])]
      BY <2>1 DEF Finish
    <3>2. {w} \in SUBSET Workers /\ \A x \in Fields \ {row.src, row.dst} : fields'[x] = fields[x]
      BY <1>2
    <3>3. \A j \in Ids : rows'[j] \in {rows[j], None}
                         \/ (rows'[j].src \in {row.src, row.dst} /\ rows'[j].dst \in {row.src, row.dst})
      BY <2>4
    <3> QED BY <3>1, <3>2, <3>3, OthersPending
  <2>6. /\ Concerned(i, row) \subseteq Ids \X (Parts \cup Ids)
        /\ Checked(i, d) \subseteq {i} \X (Parts \cup Ids)
    BY <1>1, Apart DEF Concerned, Checked, Parts
  <2>7. TypeOK'
    <3>1. rows' \in [Ids -> {None} \cup Row]
      BY <1>2, <2>1, <2>2
    <3>2. \A j \in Stored' : IF j \in RuleIds
               THEN rows'[j].dst = None /\ rows'[j].action = None /\ rows'[j].given = None
               ELSE None \notin {rows'[j].dst, rows'[j].action, rows'[j].given}
      BY <1>1, <1>2, <2>2, <2>4, Apart DEF Stored
    <3>3. loose' \subseteq (Fields \X {"columns"}) \cup (Ids \X (Parts \cup Ids))
      BY <2>1, <2>6 DEF ChangesInv, TypeOK
    <3> QED BY <1>2, <2>5, <3>1, <3>2, <3>3 DEF TypeOK, Requests
  <2>8. FieldsCoherent'
    <3>1. \A f \in Fields : <<f, "columns">> \in loose => <<f, "columns">> \in loose'
      BY <1>1, <2>1, <2>6, Apart
    <3> QED BY <1>2, <3>1 DEF ChangesInv, FieldsCoherent
  <2>9. \A p : \A j \in Ids : j # i /\ <<j, p>> \in loose => <<j, p>> \in loose'
    BY <2>1, <2>6
  <2>10. \A p : <<i, p>> \in loose \cup Concerned(i, row) /\ (r.overtaken \/ <<i, p>> \notin Checked(i, d))
                => <<i, p>> \in loose'
    BY <2>1
  <2>11. StoredRowsFit'
    <3> SUFFICES ASSUME NEW j \in Stored'
                 PROVE /\ \/ ConditionFits(rows'[j], fields[rows'[j].src])
                          \/ <<j, "condition">> \in loose'
                       /\ j \in DepIds => \/ EffectFits(rows'[j], fields[rows'[j].dst])
                                          \/ <<j, "effect">> \in loose'
      BY <1>2 DEF StoredRowsFit
    <3>1. j \in Ids
      BY DEF Stored
    <3>2. CASE j # i
      <4>1. j \in Stored /\ rows'[j] = rows[j]
        BY <3>1, <3>2, <2>4
      <4> QED BY <3>1, <3>2, <4>1, <2>9 DEF ChangesInv, StoredRowsFit
    <3>3. CASE j = i
      <4>1. ConditionFits(row, fields[row.src]) \/ <<i, "condition">> \in loose'
        <5>1. CASE ~r.overtaken /\ ConditionSent(d)
          <6>1. OperatorFits(fields[d.src], d.op, d.value)
            BY <2>3, <5>1 DEF AcceptedIn
          <6>2. row.src = d.src /\ row.op = d.op /\ row.value = d.value
            BY <2>2, <5>1 DEF ConditionOf
          <6> QED BY <6>1, <6>2 DEF ConditionFits
        <5>2. CASE ~(~r.overtaken /\ ConditionSent(d))
          <6>1. r.overtaken \/ <<i, "condition">> \notin Checked(i, d)
            BY <1>1, <5>2, Apart DEF Checked
          <6>2. CASE rows[i] = None \/ ConditionOf(row) # ConditionOf(rows[i])
            <7>1. <<i, "condition">> \in Concerned(i, row)
              BY <6>2 DEF Concerned
            <7> QED BY <6>1, <7>1, <2>10
          <6>3. CASE rows[i] # None /\ ConditionOf(row) = ConditionOf(rows[i])
            <7>1. i \in Stored
              BY <6>3, <1>1 DEF Stored
            <7>2. row.src = rows[i].src /\ row.op = rows[i].op /\ row.value = rows[i].value
              BY <6>3 DEF ConditionOf
            <7>3. ConditionFits(rows[i], fields[rows[i].src]) \/ <<i, "condition">> \in loose
              BY <7>1 DEF ChangesInv, StoredRowsFit
            <7> QED BY <6>1, <7>2, <7>3, <2>10 DEF ConditionFits
          <6> QED BY <6>2, <6>3
        <5> QED BY <5>1, <5>2
      <4>2. ASSUME i \in DepIds
            PROVE  EffectFits(row, fields[row.dst]) \/ <<i, "effect">> \in loose'
        <5>1. CASE ~r.overtaken /\ EffectSent(d)
          <6>1. ActionFits(fields[d.dst], d.action, d.given)
            BY <2>3, <5>1 DEF AcceptedIn
          <6>2. row.dst = d.dst /\ row.action = d.action /\ row.given = d.given
            BY <2>2, <5>1 DEF EffectOf
          <6> QED BY <6>1, <6>2 DEF EffectFits
        <5>2. CASE ~(~r.overtaken /\ EffectSent(d))
          <6>1. r.overtaken \/ <<i, "effect">> \notin Checked(i, d)
            BY <1>1, <5>2, Apart DEF Checked
          <6>2. CASE rows[i] = None \/ EffectOf(row) # EffectOf(rows[i])
            <7>1. <<i, "effect">> \in Concerned(i, row)
              BY <6>2 DEF Concerned
            <7> QED BY <6>1, <7>1, <2>10
          <6>3. CASE rows[i] # None /\ EffectOf(row) = EffectOf(rows[i])
            <7>1. i \in Stored
              BY <6>3, <1>1 DEF Stored
            <7>2. row.dst = rows[i].dst /\ row.action = rows[i].action /\ row.given = rows[i].given
              BY <6>3 DEF EffectOf
            <7>3. EffectFits(rows[i], fields[rows[i].dst]) \/ <<i, "effect">> \in loose
              BY <4>2, <7>1 DEF ChangesInv, StoredRowsFit
            <7> QED BY <6>1, <7>2, <7>3, <2>10 DEF EffectFits
          <6> QED BY <6>2, <6>3
        <5> QED BY <5>1, <5>2
      <4> QED BY <3>3, <4>1, <4>2, <2>4
    <3> QED BY <3>2, <3>3
  <2>12. HiddenOptionsUnasked'
    <3> SUFFICES ASSUME NEW e \in Stored' \cap DepIds, NEW j \in Stored' \cap RuleIds,
                        Hides(rows'[e], rows'[j])
                 PROVE  <<e, j>> \in loose'
      BY DEF HiddenOptionsUnasked
    <3>1. e \in Ids /\ j \in Ids /\ e # j
      BY Apart
    <3>2. CASE e # i /\ j # i
      <4>1. e \in Stored /\ j \in Stored /\ rows'[e] = rows[e] /\ rows'[j] = rows[j]
        BY <3>1, <3>2, <2>4
      <4>2. <<e, j>> \in loose
        BY <4>1 DEF ChangesInv, HiddenOptionsUnasked
      <4> QED BY <3>1, <3>2, <4>2, <2>9
    <3>3. CASE e = i
      <4>1. j # i /\ j \in Stored /\ rows'[j] = rows[j] /\ Hides(row, rows[j])
        BY <3>1, <3>3, <2>4
      <4>2. r.overtaken \/ <<i, j>> \notin Checked(i, d)
        <5> SUFFICES ASSUME ~r.overtaken, EffectSent(d) PROVE FALSE
          BY <1>1, Apart DEF Checked
        <5>1. ~Hides(d, rows[j])
          BY <2>3, <4>1 DEF AcceptedIn, Stored
        <5> QED BY <5>1, <4>1, <2>2, HidesByParts
      <4>3. CASE rows[i] = None \/ EffectOf(row) # EffectOf(rows[i])
        <5>1. <<i, j>> \in Concerned(i, row)
          BY <4>3 DEF Concerned
        <5> QED BY <5>1, <4>2, <3>3, <2>10
      <4>4. CASE rows[i] # None /\ EffectOf(row) = EffectOf(rows[i])
        <5>1. i \in Stored \cap DepIds /\ Hides(rows[i], rows[j])
          BY <4>4, <4>1, <3>3, <1>1, HidesByParts DEF Stored
        <5>2. <<i, j>> \in loose
          BY <5>1, <4>1 DEF ChangesInv, HiddenOptionsUnasked
        <5> QED BY <5>2, <4>2, <3>3, <2>10
      <4> QED BY <4>3, <4>4
    <3>4. CASE j = i
      <4>1. e # i /\ e \in Stored /\ rows'[e] = rows[e] /\ Hides(rows[e], row)
        BY <3>1, <3>4, <2>4
      <4>2. <<e, i>> \notin Checked(i, d)
        BY <4>1, <2>6
      <4>3. CASE rows[i] = None \/ ConditionOf(row) # ConditionOf(rows[i])
        <5>1. <<e, i>> \in Concerned(i, row)
          BY <4>3 DEF Concerned
        <5> QED BY <5>1, <4>2, <3>4, <2>1
      <4>4. CASE rows[i] # None /\ ConditionOf(row) = ConditionOf(rows[i])
        <5>1. i \in Stored \cap RuleIds /\ Hides(rows[e], rows[i])
          BY <4>4, <4>1, <3>4, <1>1, HidesByParts DEF Stored
        <5>2. <<e, i>> \in loose
          BY <5>1, <4>1 DEF ChangesInv, HiddenOptionsUnasked
        <5> QED BY <5>2, <4>1, <3>1, <3>4, <2>9
      <4> QED BY <4>3, <4>4
    <3> QED BY <3>2, <3>3, <3>4
  <2> QED BY <2>5, <2>7, <2>8, <2>11, <2>12 DEF ChangesInv
<1> QED BY <1>4, <1>5

-----------------------------------------------------------------------------

LEMMA NextInv == ChangesInv /\ [Next]_vars => ChangesInv'
<1> SUFFICES ASSUME ChangesInv, [Next]_vars PROVE ChangesInv'
  OBVIOUS
<1>1. CASE UNCHANGED vars
  <2>1. UNCHANGED <<fields, rows, req, loose>> /\ Stored' = Stored
    BY <1>1 DEF vars, Stored
  <2>2. TypeOK' /\ Pending'
    BY <2>1 DEF ChangesInv, TypeOK, Pending
  <2>3. StoredRowsFit' /\ FieldsCoherent' /\ HiddenOptionsUnasked'
    BY <2>1 DEF ChangesInv, StoredRowsFit, FieldsCoherent, HiddenOptionsUnasked
  <2> QED BY <2>2, <2>3 DEF ChangesInv
<1>2. ASSUME NEW w \in Workers, SaveField(w) PROVE ChangesInv'
  BY <1>2, SaveFieldStep
<1>3. ASSUME NEW w \in Workers, CommitField(w) PROVE ChangesInv'
  BY <1>3, CommitFieldStep
<1>4. ASSUME NEW w \in Workers, Store(w) PROVE ChangesInv'
  BY <1>4, StoreStep
<1>5. ASSUME NEW w \in Workers, NEW d \in FieldBodies, LoadField(w, d) PROVE ChangesInv'
  BY <1>5, LoadFieldStep
<1>6. ASSUME NEW w \in Workers, NEW i \in Ids, NEW d \in RowBodies, Validate(w, i, d)
      PROVE ChangesInv'
  BY <1>6, ValidateStep
<1>7. ASSUME NEW d \in FieldBodies, FieldForm(d) PROVE ChangesInv'
  BY <1>7, FieldFormStep
<1>8. ASSUME NEW i \in Ids, DropRow(i) PROVE ChangesInv'
  BY <1>8, DropRowStep
<1> QED BY <1>1, <1>2, <1>3, <1>4, <1>5, <1>6, <1>7, <1>8 DEF Next

\* The invariant holds in every state: what it adds to the properties is that a
\* request which nobody overtook still knows the truth when it writes.
THEOREM Inductive == Spec => []ChangesInv
BY InitInv, NextInv, PTL DEF Spec

\* The tables and the requests have their types, whatever is sent and in what order.
THEOREM TypeCorrect == Spec => []TypeOK
<1>1. ChangesInv => TypeOK
  BY DEF ChangesInv
<1> QED BY <1>1, Inductive, PTL

\* A condition or an action that its field rules out was never checked whole, or
\* by a request that another one overtook, or the field has been through a form.
THEOREM RowsFit == Spec => []StoredRowsFit
<1>1. ChangesInv => StoredRowsFit
  BY DEF ChangesInv
<1> QED BY <1>1, Inductive, PTL

\* Only a request that wrote over another one leaves a field with options or
\* validation rules that are not those of its type.
THEOREM ColumnsCoherent == Spec => []FieldsCoherent
<1>1. ChangesInv => FieldsCoherent
  BY DEF ChangesInv
<1> QED BY <1>1, Inductive, PTL

\* Only a rule that came later, a part of a body or an overlap leaves a rule that
\* asks for an option which a dependency hides.
THEOREM HiddenUnasked == Spec => []HiddenOptionsUnasked
<1>1. ChangesInv => HiddenOptionsUnasked
  BY DEF ChangesInv
<1> QED BY <1>1, Inductive, PTL
=============================================================================

---------------------------- MODULE FieldChanges ----------------------------
(***************************************************************************)
(* The type, options and validation rules of fields, under the conditional *)
(* rules and dependencies that name them.  A condition has to suit the     *)
(* type of its source and, for a choice, its options; so has the value of  *)
(* a dependency the field it modifies.  It is checked when the row is      *)
(* stored and again when the field changes, by requests that validate      *)
(* against what they read earlier.                                         *)
(*                                                                         *)
(* The fields of one draft survey; which rows may name which fields, their *)
(* order and their cycles are RuleBuilder's.  A request that a check       *)
(* refuses, or that fails, writes nothing: it is one that stops.           *)
(***************************************************************************)
EXTENDS Conditions

CONSTANTS JsonNumbers, Dates, Emails,   \* the texts that are sent as numbers, the
                                        \* ISO dates, the strings with an "@"
          RuleIds, DepIds,              \* bounds on the rows of the two tables
          FieldBodies, RowBodies,       \* what requests send
          Workers, Absent               \* a key that the body does not have

TextTypes == {"text", "textarea", "email"}
Choices == {"dropdown", "radio", "checkbox"}
Types == TextTypes \cup Choices \cup {"number", "date"}
Limits == {"min", "max", "min_length", "max_length", "regex"}
Actions == {"show_options", "hide_options", "set_value"}

\* The columns of a field that are looked at; limits are the keys of validation_rules.
Columns == [type : Types, options : SUBSET Texts, limits : SUBSET Limits]

\* A conditional rule has no dependent field and no action.
Row == [src : Fields, op : Operators, value : Values, dst : {None} \cup Fields,
        action : {None} \cup Actions, given : {None} \cup Values]

Ids == RuleIds \cup DepIds
Parts == {"condition", "effect"}

IsFieldBody(d) ==
    d \in [field : Fields, type : {Absent} \cup Types, options : {Absent} \cup SUBSET Texts,
           limits : {Absent} \cup SUBSET Limits]   \* field is that of the URL

\* The requests on a dependency fail when one of the fields is not named.
IsRowBody(d) ==
    /\ d \in [src : {Absent} \cup Fields, op : {Absent} \cup Operators,
              value : {Absent} \cup Values, dst : {None} \cup Fields,
              action : {Absent, None} \cup Actions, given : {Absent, None} \cup Values]
    /\ IF d.dst = None THEN d.action = None /\ d.given = None
       ELSE d.src # Absent /\ None \notin {d.action, d.given}

ASSUME ChangesAssumption ==
    /\ JsonNumbers \subseteq Texts
    /\ Dates \subseteq Texts \ JsonNumbers /\ Emails \subseteq Texts \ JsonNumbers
    /\ RuleIds \cap DepIds = {} /\ Ids \cap (Fields \cup Parts \cup {"columns"}) = {}
    /\ \A d \in FieldBodies : IsFieldBody(d)
    /\ \A d \in RowBodies : IsRowBody(d)
    /\ Absent # None
    /\ \A x \in Types \cup (SUBSET Texts) \cup (SUBSET Limits) \cup Fields \cup Operators
                \cup Values \cup Actions : x \notin {Absent, None}

ASSUME NoneIsNoRow == None \notin Row

VARIABLES fields,   \* survey_fields
          rows,     \* conditional_rules and field_dependencies
          req,      \* what each worker holds in memory
          loose     \* history: the checks that the stored rows may fail

tables == <<fields, rows>>
vars == <<fields, rows, req, loose>>

Stored == {i \in Ids : rows[i] # None}

Idle == [pc |-> "idle"]
FieldRequest == [pc : {"loaded", "saving"}, body : FieldBodies,
                 seen : Columns, overtaken : BOOLEAN]
RowRequest == [pc : {"store"}, id : Ids, new : BOOLEAN, body : RowBodies, overtaken : BOOLEAN]

TypeOK ==
    /\ fields \in [Fields -> Columns]
    /\ rows \in [Ids -> {None} \cup Row]
    /\ \A i \in Stored : IF i \in RuleIds
                         THEN rows[i].dst = None /\ rows[i].action = None /\ rows[i].given = None
                         ELSE None \notin {rows[i].dst, rows[i].action, rows[i].given}
    /\ req \in [Workers -> {Idle} \cup FieldRequest \cup RowRequest]
    /\ loose \subseteq (Fields \X {"columns"}) \cup (Ids \X (Parts \cup Ids))

-----------------------------------------------------------------------------
(* The validators *)

\* validate_field_options and validate_validation_rules, as far as they depend on
\* the type.
Coherent(c) ==
    /\ c.type \in Choices <=> c.options # {}
    /\ c.limits \cap {"min", "max"} # {} => c.type = "number"
    /\ c.limits \cap {"min_length", "max_length", "regex"} # {} => c.type \in TextTypes

\* The values are compared with the options, if there are any.
Among(texts, c) == c.options # {} => texts \subseteq c.options

IsNumber(v) == Float(v) # NoNumber
IsDate(v) == ~v.list /\ v.text \in Dates

\* validate_operator_value
OperatorFits(c, op, v) ==
    /\ op \in {"greater_than", "less_than"} => c.type \in {"number", "date"}
    /\ op = "in" /\ c.type \notin TextTypes => v.list
    /\ c.type = "number" =>
          /\ op = "in" => v.items \subseteq JsonNumbers
          /\ op \notin {"in", "contains"} => IsNumber(v)
    /\ c.type = "date" =>
          /\ op = "in" => v.items \subseteq Dates
          /\ op \notin {"in", "contains"} => IsDate(v)
    /\ c.type \in Choices =>
          /\ op = "in" => Among(v.items, c)
          /\ op \in {"equals", "not_equals"} /\ c.type # "checkbox" => Among({v.text}, c)
          /\ op = "contains" => Among({v.text}, c)

\* validate_action_value
ActionFits(c, action, v) ==
    /\ action \in {"show_options", "hide_options"} =>
          c.type \in Choices /\ v.list /\ v.items # {} /\ Among(v.items, c)
    /\ action = "set_value" =>
          /\ c.type \in {"dropdown", "radio"} => Among({v.text}, c)
          /\ c.type = "checkbox" => v.list /\ Among(v.items, c)
          /\ c.type = "number" => IsNumber(v)
          /\ c.type = "email" => ~v.list /\ v.text \in Emails
          /\ c.type = "date" => IsDate(v)

ConditionFits(r, c) == OperatorFits(c, r.op, r.value)
EffectFits(r, c) == ActionFits(c, r.action, r.given)

\* validate_cr_fd_conflict: the dependency d takes away what the rule r asks for.
Hides(d, r) ==
    /\ d.action = "hide_options" /\ d.dst = r.src
    /\ \/ r.op \in {"equals", "not_equals", "contains"} /\ r.value.text \in d.given.items
       \/ r.op = "in" /\ r.value.list /\ r.value.items \cap d.given.items # {}

-----------------------------------------------------------------------------
(* Requests *)

Init ==
    /\ fields = [f \in Fields |-> [type |-> "text", options |-> {}, limits |-> {}]]
    /\ rows = [i \in Ids |-> None]
    /\ req = [w \in Workers |-> Idle]
    /\ loose = {}

At(w, location) == req[w].pc = location

Kept(new, old) == IF new = Absent THEN old ELSE new

Edited(c, d) == [type |-> Kept(d.type, c.type), options |-> Kept(d.options, c.options),
                 limits |-> Kept(d.limits, c.limits)]

\* The missing keys are stored as well.
MergedNothing(r, d) == d

Merged(r, d) == [src |-> Kept(d.src, r.src), op |-> Kept(d.op, r.op),
                 value |-> Kept(d.value, r.value), dst |-> d.dst,
                 action |-> Kept(d.action, r.action), given |-> Kept(d.given, r.given)]

\* The fields a request has read.
Reads(r) == CASE r.pc = "idle" -> {}
              [] r.pc = "store" -> {r.body.src, r.body.dst} \cap Fields
              [] OTHER -> {r.body.field}

\* The requests that have read one of F go on with what they read.
Overtake(F, r) == IF Reads(r) \cap F = {} THEN r ELSE [r EXCEPT !.overtaken = TRUE]

Finish(w, F) == req' = [v \in Workers |-> IF v = w THEN Idle ELSE Overtake(F, req[v])]

\* The rules of the body are judged without those of the row.
JudgedByBody(c, d) == [Edited(c, d) EXCEPT !.limits = IF d.limits = Absent THEN {} ELSE d.limits]

\* FieldSerializer.validate completes the body with the columns of the loaded row.
Judged(c, d) == Edited(c, d)

\* PUT and PATCH of a field: get_object and is_valid.
LoadField(w, d) ==
    /\ At(w, "idle")
    /\ Coherent(Judged(fields[d.field], d))
    /\ req' = [req EXCEPT ![w] = [pc |-> "loaded", body |-> d, seen |-> fields[d.field],
                                  overtaken |-> FALSE]]
    /\ UNCHANGED <<tables, loose>>

\* type_changed or options_changed, by the row that was loaded.
Changes(r) == \/ r.body.type \notin {Absent, r.seen.type}
              \/ r.body.options \notin {Absent, r.seen.options}

\* Only the conditions are looked at again.
FitsConditionsOnly(f, c) == \A i \in Stored : rows[i].src = f => ConditionFits(rows[i], c)

\* _revalidate_rules_for_field
FitsField(f, c) ==
    \A i \in Stored : /\ rows[i].src = f => ConditionFits(rows[i], c)
                      /\ rows[i].dst = f => EffectFits(rows[i], c)

\* An UPDATE holds the row.
Locked(f) == \E v \in Workers : At(v, "saving") /\ req[v].body.field = f

\* update_field: the UPDATE, after which the conditions and actions are compared
\* with the object in memory; the exception would roll it back.
SaveField(w) ==
    /\ At(w, "loaded")
    /\ ~Locked(req[w].body.field)
    /\ Changes(req[w]) => FitsField(req[w].body.field, Edited(req[w].seen, req[w].body))
    /\ req' = [req EXCEPT ![w].pc = "saving"]
    /\ UNCHANGED <<tables, loose>>

\* The checks of the stored rows against f.
About(f) == {<<i, "condition">> : i \in {j \in Stored : rows[j].src = f}}
            \cup {<<i, "effect">> : i \in {j \in Stored : rows[j].dst = f}}

\* The commit; save(update_fields=...) has written the keys of the body.
CommitField(w) ==
    /\ At(w, "saving")
    /\ LET r == req[w] IN
          /\ fields' = [fields EXCEPT ![r.body.field] = Edited(@, r.body)]
          /\ Finish(w, {r.body.field})
          /\ loose' = IF r.overtaken THEN loose \cup {<<r.body.field, "columns">>} \cup About(r.body.field)
                      ELSE loose \ ({<<r.body.field, "columns">>} \cup
                                    {c \in About(r.body.field) : Changes(r)})
    /\ UNCHANGED rows

\* FieldAdmin.save_model, and the lines for fields in the form of a section:
\* every column is sent, and no rule is looked at.
FieldForm(d) ==
    LET f == d.field
        c == [type |-> d.type, options |-> d.options, limits |-> d.limits]
    IN /\ Absent \notin {d.type, d.options, d.limits}
       /\ Coherent(c) /\ ~Locked(f)
       /\ fields' = [fields EXCEPT ![f] = c]
       /\ req' = [v \in Workers |-> Overtake({f}, req[v])]
       /\ loose' = (loose \cup About(f)) \ {<<f, "columns">>}
       /\ UNCHANGED rows

\* A check is made only when all its operands are in the body.
ConditionSent(d) == Absent \notin {d.src, d.op, d.value}
EffectSent(d) == d.dst # None /\ Absent \notin {d.action, d.given}

HidesUnchecked(d) == FALSE

\* Of the rules that are stored now; a rule that comes later is compared with nothing.
HidesStored(d) == EffectSent(d) /\ \E i \in Stored \cap RuleIds : Hides(d, rows[i])

\* validate_conditional_rule_data, validate_field_dependency_data
Accepted(d) ==
    /\ ConditionSent(d) => OperatorFits(fields[d.src], d.op, d.value)
    /\ EffectSent(d) => ActionFits(fields[d.dst], d.action, d.given)
    /\ ~HidesStored(d)

\* POST, PUT and PATCH of a rule or dependency, and the forms, which send all.
Validate(w, i, d) ==
    /\ At(w, "idle")
    /\ i \in DepIds <=> d.dst # None
    /\ rows[i] = None => ConditionSent(d) /\ (i \in DepIds => EffectSent(d))
    /\ Accepted(d)
    /\ req' = [req EXCEPT ![w] = [pc |-> "store", id |-> i, new |-> rows[i] = None, body |-> d,
                                  overtaken |-> FALSE]]
    /\ UNCHANGED <<tables, loose>>

\* What a body has had checked.
Checked(i, d) == {c \in {<<i, "condition">>} : ConditionSent(d)}
                 \cup {c \in {<<i, "effect">>} \cup ({i} \X RuleIds) : EffectSent(d)}

ConditionOf(r) == <<r.src, r.op, r.value>>
EffectOf(r) == <<r.dst, r.action, r.given>>

\* The checks to which a change of row i matters.
Concerned(i, row) ==
    LET new == rows[i] = None IN
    {c \in {<<i, "condition">>} \cup (DepIds \X {i}) :
        new \/ ConditionOf(row) # ConditionOf(rows[i])}
    \cup {c \in {<<i, "effect">>} \cup ({i} \X RuleIds) :
             new \/ EffectOf(row) # EffectOf(rows[i])}

\* The INSERT, or save(update_fields=...), which fails when the row is gone.
Store(w) ==
    /\ At(w, "store")
    /\ LET r == req[w]
           i == r.id
           row == IF r.new THEN r.body ELSE Merged(rows[i], r.body)
       IN IF r.new = (rows[i] = None)
          THEN /\ rows' = [rows EXCEPT ![i] = row]
               /\ Finish(w, {row.src, row.dst})
               /\ loose' = (loose \cup Concerned(i, row)) \
                           {c \in Checked(i, r.body) : ~r.overtaken}
          ELSE Finish(w, {}) /\ UNCHANGED <<rows, loose>>
    /\ UNCHANGED fields

DropRow(i) ==
    /\ i \in Stored
    /\ rows' = [rows EXCEPT ![i] = None]
    /\ loose' = {c \in loose : i \notin {c[1], c[2]}}
    /\ UNCHANGED <<fields, req>>

Next ==
    \/ \E w \in Workers :
          \/ SaveField(w) \/ CommitField(w) \/ Store(w)
          \/ \E d \in FieldBodies : LoadField(w, d)
          \/ \E i \in Ids, d \in RowBodies : Validate(w, i, d)
    \/ \E d \in FieldBodies : FieldForm(d)
    \/ \E i \in Ids : DropRow(i)

Spec == Init /\ [][Next]_vars

-----------------------------------------------------------------------------
(* Properties *)

\* A condition or action that does not suit the field it is about was stored by a
\* request that did not send all of it, by one that another request overtook, or
\* before a form of the field: no other sequence of requests leaves an operator, a
\* value or an option that the type or the options of the field rule out.
StoredRowsFit ==
    \A i \in Stored :
       /\ ConditionFits(rows[i], fields[rows[i].src]) \/ <<i, "condition">> \in loose
       /\ i \in DepIds => \/ EffectFits(rows[i], fields[rows[i].dst])
                          \/ <<i, "effect">> \in loose

\* A field whose options or validation rules are not those of its type was written
\* by a request that loaded it before another one wrote it.
FieldsCoherent == \A f \in Fields : Coherent(fields[f]) \/ <<f, "columns">> \in loose

\* An option that a rule asks for is hidden by a dependency only if the rule came
\* later, the dependency was not sent whole, or the two requests overlapped.
HiddenOptionsUnasked ==
    \A d \in Stored \cap DepIds, i \in Stored \cap RuleIds :
       Hides(rows[d], rows[i]) => <<d, i>> \in loose
=============================================================================

--------------------------- MODULE MCFieldChanges ---------------------------
(* Two fields, one rule, one dependency, two requests at a time.             *)
EXTENDS FieldChanges, TLC

CONSTANTS first, second, section, rule, dep, w1, w2

Symmetry == Permutations(Workers)

MCTexts == {"1", "b", "[1, 'b']"}
MCNumber == [t \in MCTexts |-> IF t = "1" THEN 1 ELSE NoNumber]
MCSectionOf == [x \in {first, second} |-> section]

Scalar(t) == [text |-> t, list |-> FALSE, items |-> {t}]
Both == [text |-> "[1, 'b']", list |-> TRUE, items |-> {"1", "b"}]

FieldBody(field, type, options, limits) ==
    [field |-> field, type |-> type, options |-> options, limits |-> limits]
MCFieldBodies ==
    {FieldBody(first, "number", {}, Absent),
     FieldBody(second, "text", {}, {"regex"}),
     FieldBody(second, "dropdown", {"1", "b"}, {}),
     FieldBody(second, "number", {}, Absent),
     FieldBody(second, Absent, {"b"}, Absent)}

RowBody(src, op, value, dst, action, given) ==
    [src |-> src, op |-> op, value |-> value, dst |-> dst, action |-> action, given |-> given]
MCRowBodies ==
    {RowBody(second, "equals", Scalar("b"), None, None, None),
     RowBody(second, "greater_than", Scalar("1"), None, None, None),
     RowBody(Absent, Absent, Scalar("1"), None, None, None),
     RowBody(first, "equals", Scalar("b"), second, "hide_options", Both),
     RowBody(first, "equals", Scalar("1"), second, "set_value", Scalar("1")),
     RowBody(first, Absent, Absent, second, Absent, Scalar("b"))}
=============================================================================

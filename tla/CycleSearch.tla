----------------------------- MODULE CycleSearch -----------------------------
(***************************************************************************)
(* The depth-first search of detect_circular_dependencies_cr and _fd: a    *)
(* recursive has_cycle whose calls share two sets.  The calls that are     *)
(* open are a stack; a step is one call made by the loop of the innermost  *)
(* one, or its end.  Python iterates over a set, so the order of the       *)
(* neighbours is any.                                                      *)
(***************************************************************************)
EXTENDS FieldGraph, Sequences, Naturals

VARIABLES graph, target,   \* what is searched, with the proposed edge, and from where
          visited, path,   \* the sets that the calls share
          calls,           \* the nodes of the open calls, the innermost last
          ahead,           \* the neighbours that the loop of each node has not reached
          answer           \* "open" until the outermost call returns "yes" or "no"

input == <<graph, target>>
searchVars == <<graph, target, visited, path, calls, ahead, answer>>

\* No search is in progress.
NoSearch ==
    /\ graph = {} /\ target = None
    /\ visited = {} /\ path = {} /\ calls = <<>>
    /\ ahead = [node \in Fields |-> {}]
    /\ answer = "none"

\* The search's locals are gone.
Forget ==
    /\ graph' = {} /\ target' = None
    /\ visited' = {} /\ path' = {} /\ calls' = <<>>
    /\ ahead' = [node \in Fields |-> {}]
    /\ answer' = "none"

Neighbours(node) == {next \in Fields : <<node, next>> \in graph}

\* has_cycle(t): the outermost call enters its node.
Begin(E, t) ==
    /\ answer = "none"
    /\ graph' = E /\ target' = t
    /\ visited' = {t} /\ path' = {t} /\ calls' = <<t>>
    /\ ahead' = [node \in Fields |-> Neighbours(node)']
    /\ answer' = "open"

Current == calls[Len(calls)]

\* A node that was visited is checked for before one on the path.
VisitedFirst(next) ==
    \/ /\ next \in visited
       /\ UNCHANGED <<visited, path, calls, answer>>
    \/ /\ next \notin visited
       /\ visited' = visited \cup {next}
       /\ path' = path \cup {next}
       /\ calls' = Append(calls, next)
       /\ UNCHANGED answer

\* A call that returns at once, TRUE (and so do all the open ones) or FALSE, or enters
\* its node.
HasCycle(next) ==
    \/ /\ next \in path
       /\ answer' = "yes"
       /\ UNCHANGED <<visited, path, calls>>
    \/ /\ next \in visited \ path
       /\ UNCHANGED <<visited, path, calls, answer>>
    \/ /\ next \notin visited
       /\ visited' = visited \cup {next}
       /\ path' = path \cup {next}
       /\ calls' = Append(calls, next)
       /\ UNCHANGED answer

Follow(next) ==
    /\ answer = "open"
    /\ next \in ahead[Current]
    /\ HasCycle(next)
    /\ ahead' = [ahead EXCEPT ![Current] = @ \ {next}]
    /\ UNCHANGED input

\* The loop is over: path.discard(node), and the call returns FALSE.
Return ==
    /\ answer = "open"
    /\ ahead[Current] = {}
    /\ path' = path \ {Current}
    /\ calls' = SubSeq(calls, 1, Len(calls) - 1)
    /\ answer' = IF Len(calls) = 1 THEN "no" ELSE answer
    /\ UNCHANGED <<input, visited, ahead>>

SearchStep == Return \/ \E next \in Fields : Follow(next)
=============================================================================

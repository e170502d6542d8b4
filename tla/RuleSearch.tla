------------------------------ MODULE RuleSearch ------------------------------
(***************************************************************************)
(* RuleBuilder with the search of CycleSearch in place of its answer by    *)
(* reachability.  A request begins the search on the graph it has just     *)
(* read; the search works in memory only, so it is followed while requests *)
(* do not overlap.                                                         *)
(***************************************************************************)
EXTENDS RuleBuilder, CycleSearch

searchingVars == <<vars, searchVars>>

SearchingInit == Init /\ NoSearch

StartSearch(w) ==
    /\ At(w, "search") /\ Complete(req[w])
    /\ Begin(ProposedGraph(req[w]), req[w].body.fld)
    /\ UNCHANGED vars

EndSearch(w) ==
    /\ At(w, "search") /\ answer \in {"yes", "no"}
    /\ IF answer = "no" THEN req' = [req EXCEPT ![w].pc = "store"] ELSE Finish(w)
    /\ Forget
    /\ UNCHANGED tables

\* The request ends, or goes on, without a search.
GoOn(w) == At(w, "search") /\ ~Complete(req[w]) /\ Search(w)

SearchingStep(w) ==
    \/ StartSearch(w) \/ EndSearch(w)
    \/ SearchStep /\ UNCHANGED vars
    \/ GoOn(w) /\ UNCHANGED searchVars
    \/ (Validate(w) \/ Store(w) \/ LoadSection(w) \/ MoveSection(w)) /\ UNCHANGED searchVars
    \/ Abandon(w) /\ Forget

SearchingNext ==
    \/ AtOnce /\ (\A w \in Workers : At(w, "idle")) /\ UNCHANGED searchVars
    \/ \E w \in Workers : SearchingStep(w) /\ \A v \in Workers \ {w} : At(v, "idle")

SearchingSpec == SearchingInit /\ [][SearchingNext]_searchingVars

-----------------------------------------------------------------------------
(* Properties *)

\* The search answers yes exactly when a cycle can be reached from the target, wherever
\* it lies, although it looks at no node twice and gives up the rest of the graph at
\* the first node it meets again on its path; and it is asked about the rows as they
\* still are.
SearchTrue ==
    /\ answer = "yes" => CycleReachable(graph, target)
    /\ answer = "no" => ~CycleReachable(graph, target)

\* Each request decides as RuleBuilder says it does.
ImplementsBuilder == SerialSpec
=============================================================================

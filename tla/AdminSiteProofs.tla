--------------------------- MODULE AdminSiteProofs ---------------------------
(***************************************************************************)
(* Theorems about AdminSite, for any surveys, rows and links.              *)
(***************************************************************************)
EXTENDS AdminSite, TLAPS

Inv == TypeOK /\ RulesStayWithin /\ AnswersStayWithin

\* The status column cannot be changed by the survey form: the object that is asked
\* for the transition already has the new status.
LEMMA FormKeepsStatus ==
    ASSUME TypeOK, NEW s \in Surveys, NEW sent \in Statuses, SurveyForm(s, sent)
    PROVE  status' = status
<1>1. sent \notin AllowedTransitions[sent]
    BY DEF Statuses, AllowedTransitions
<1>2. status' = [status EXCEPT ![s] = status[s]]
    BY <1>1 DEF SurveyForm, MayTransition, InMemory
<1> QED BY <1>2 DEF TypeOK

\* Its effect is that of one request of the API, without the check of the status.
LEMMA FormEffect ==
    ASSUME TypeOK, NEW s \in Surveys, NEW sent \in Statuses, SurveyForm(s, sent)
    PROVE  \/ UNCHANGED vars
           \/ \E x \in Sections : status[s] \in Statuses /\ InsertSection(s, x) /\ UNCHANGED status
           \/ \E x \in Sections : home[x] = s /\ Remove({x})
<1>1. status' = status
    BY FormKeepsStatus
<1>2. CASE UNCHANGED <<home, place, links, answers, moved>>
    BY <1>1, <1>2 DEF vars
<1>3. CASE \E x \in Sections : InsertSection(s, x)
    BY <1>1, <1>3 DEF SurveyForm
<1>4. ASSUME NEW x \in Sections, home[x] = s, RemoveRows({x})
      PROVE  Remove({x})
    <2>1. status' = [t \in Surveys |-> IF t \in {x} THEN "deleted" ELSE status[t]]
        <3>1. \A t \in Surveys : t \notin {x}
            BY AdminAssumption
        <3>2. status = [t \in Surveys |-> status[t]]
            BY DEF TypeOK
        <3> QED BY <1>1, <3>1, <3>2
    <2> QED BY <1>4, <2>1 DEF Remove
<1> QED BY <1>2, <1>3, <1>4 DEF SurveyForm, SectionLines

-----------------------------------------------------------------------------
(* What a deletion leaves *)

\* The rows that survive a cascade are where they were.
LEMMA Survivors ==
    ASSUME TypeOK, NEW X, Remove(X)
    PROVE  /\ \A x \in Sections : home'[x] # None => home'[x] = home[x] /\ x \notin SectionsOf(X)
           /\ \A f \in Fields : place'[f] # None =>
                 place'[f] = place[f] /\ place[f] # None /\ f \notin FieldsOf(X)
           /\ \A f \in Fields \ FieldsOf(X) : Of(f)' = Of(f)
           /\ \A x \in Sections \ SectionsOf(X) : Of(x)' = Of(x)
           /\ \A i \in Ids : links'[i] # None => links'[i] = links[i] /\ i \notin LinksOf(X)
<1>1. \A x \in Sections : home'[x] # None => home'[x] = home[x] /\ x \notin SectionsOf(X)
    BY DEF Remove, RemoveRows
<1>2. \A f \in Fields : place'[f] # None =>
          place'[f] = place[f] /\ place[f] # None /\ f \notin FieldsOf(X)
    BY DEF Remove, RemoveRows
<1>3. ASSUME NEW f \in Fields, f \notin FieldsOf(X)  PROVE  Of(f)' = Of(f)
    <2>1. f \notin Sections
        BY AdminAssumption
    <2>2. place'[f] = place[f]
        BY <1>3 DEF Remove, RemoveRows
    <2>3. CASE place[f] = None
        BY <2>1, <2>2, <2>3 DEF Of
    <2>4. CASE place[f] # None
        <3>1. place[f] \in Sections /\ place[f] \notin SectionsOf(X)
            BY <1>3, <2>4 DEF FieldsOf, TypeOK
        <3>2. home'[place[f]] = home[place[f]]
            BY <3>1 DEF Remove, RemoveRows
        <3> QED BY <2>1, <2>2, <2>4, <3>2 DEF Of
    <2> QED BY <2>3, <2>4
<1>4. ASSUME NEW x \in Sections, x \notin SectionsOf(X)  PROVE  Of(x)' = Of(x)
    BY <1>4 DEF Of, Remove, RemoveRows
<1>5. \A i \in Ids : links'[i] # None => links'[i] = links[i] /\ i \notin LinksOf(X)
    BY DEF Remove, RemoveRows
<1> QED BY <1>1, <1>2, <1>3, <1>4, <1>5

\* The ends of a surviving link survive, where they were.
LEMMA EndsSurvive ==
    ASSUME TypeOK, NEW X, Remove(X), NEW i \in Ids, links'[i] # None
    PROVE  /\ i \in Stored /\ links'[i] = links[i] /\ links[i].survey \notin X
           /\ \A e \in Ends(links[i]) : /\ e \in Sections \cup Fields
                                        /\ e \notin SectionsOf(X) \cup FieldsOf(X)
                                        /\ Of(e)' = Of(e)
<1>1. i \in Stored /\ links'[i] = links[i] /\ i \notin LinksOf(X)
    BY Survivors DEF Stored
<1>2. links[i].survey \notin X /\ Ends(links[i]) \cap (SectionsOf(X) \cup FieldsOf(X)) = {}
    BY <1>1 DEF LinksOf
<1>3. links[i] \in Link
    BY <1>1 DEF TypeOK, Stored
<1>4. \A e \in Ends(links[i]) : e \in Sections \cup Fields
    BY <1>3 DEF Ends, Link
<1> QED BY <1>1, <1>2, <1>4, Survivors

LEMMA RemoveInv ==
    ASSUME Inv, NEW X, Remove(X)
    PROVE  Inv'
<1> USE DEF Inv
<1>1. status' \in [Surveys -> Statuses \cup {"deleted"}]
    BY DEF TypeOK, Remove
<1>2. home' \in [Sections -> Surveys \cup {None}] /\ place' \in [Fields -> Sections \cup {None}]
    BY DEF TypeOK, Remove, RemoveRows
<1>3. links' \in [Ids -> Link \cup {None}]
    BY DEF TypeOK, Remove, RemoveRows
<1>4. answers' \subseteq Surveys \X Fields /\ moved' \subseteq Sections \cup Fields
    BY DEF TypeOK, Remove, RemoveRows
<1>5. ASSUME NEW x \in Sections, home'[x] # None  PROVE  status'[home'[x]] \in Statuses
    <2>1. home'[x] = home[x] /\ home[x] \notin X /\ home[x] \in Surveys
        BY <1>5, Survivors DEF SectionsOf, TypeOK
    <2> QED BY <1>5, <2>1 DEF TypeOK, Remove
<1>6. ASSUME NEW f \in Fields, place'[f] # None  PROVE  home'[place'[f]] # None
    <2>1. place'[f] = place[f] /\ place[f] # None /\ f \notin FieldsOf(X)
        BY <1>6, Survivors
    <2>2. place[f] \in Sections /\ place[f] \notin SectionsOf(X)
        BY <2>1 DEF TypeOK, FieldsOf
    <2> QED BY <2>1, <2>2 DEF TypeOK, Remove, RemoveRows
<1>7. ASSUME NEW i \in Ids, links'[i] # None
      PROVE  /\ status'[links'[i].survey] \in Statuses
             /\ \A e \in Ends(links'[i]) : Of(e)' # None
             /\ \A f \in {links'[i].src, links'[i].fld} \ {None} : Within(f, links[i].survey)'
    <2>1. /\ i \in Stored /\ links'[i] = links[i] /\ links[i].survey \notin X
          /\ \A e \in Ends(links[i]) : /\ e \in Sections \cup Fields
                                       /\ e \notin SectionsOf(X) \cup FieldsOf(X)
                                       /\ Of(e)' = Of(e)
        BY <1>7, EndsSurvive
    <2>2. links[i] \in Link
        BY <2>1 DEF TypeOK, Stored
    <2>3. status'[links[i].survey] = status[links[i].survey]
        BY <2>1, <2>2 DEF Remove, Link
    <2>4. ASSUME NEW f \in {links[i].src, links[i].fld} \ {None}  PROVE  Within(f, links[i].survey)'
        <3>1. f \in Fields /\ f \notin FieldsOf(X) /\ Of(f)' = Of(f)
            <4>1. f \in Ends(links[i])
                BY DEF Ends
            <4>2. f \in Fields
                BY <2>2 DEF Link
            <4> QED BY <4>1, <4>2, <2>1
        <3>2. place'[f] = place[f] /\ (f \in moved => f \in moved')
            BY <3>1, AdminAssumption DEF Remove, RemoveRows, SectionsOf
        <3>3. Of(f) # None
            BY <2>1, <2>4 DEF TypeOK, Ends
        <3>4. place[f] # None
            BY <3>1, <3>3, AdminAssumption DEF Of
        <3>5. place[f] \in moved => place[f] \in moved'
            <4>1. place[f] \in Sections /\ place[f] \notin SectionsOf(X)
                BY <3>1, <3>4 DEF FieldsOf, TypeOK
            <4>2. place[f] \notin FieldsOf(X)
                BY <4>1, AdminAssumption DEF FieldsOf
            <4> QED BY <4>1, <4>2 DEF Remove, RemoveRows
        <3> QED BY <2>1, <3>1, <3>2, <3>5 DEF RulesStayWithin, Within
    <2>5. status'[links'[i].survey] \in Statuses /\ \A e \in Ends(links'[i]) : Of(e)' # None
        BY <2>1, <2>3 DEF TypeOK
    <2> QED BY <2>1, <2>4, <2>5
<1>8. ASSUME NEW a \in answers'
      PROVE  status'[a[1]] \in Statuses /\ Of(a[2])' # None /\ Within(a[2], a[1])'
    <2>1. a \in answers /\ a[1] \notin X /\ a[2] \notin FieldsOf(X)
        BY <1>8 DEF Remove, RemoveRows
    <2>2. a[1] \in Surveys /\ a[2] \in Fields /\ Of(a[2]) # None /\ status[a[1]] \in Statuses
        BY <2>1 DEF TypeOK
    <2>3. Of(a[2])' = Of(a[2]) /\ place'[a[2]] = place[a[2]]
        BY <2>1, <2>2, Survivors DEF Remove, RemoveRows
    <2>4. a[2] \in moved => a[2] \in moved'
        BY <2>1, <2>2, AdminAssumption DEF Remove, RemoveRows, SectionsOf
    <2>5. place[a[2]] \in Sections /\ place[a[2]] \notin SectionsOf(X)
        BY <2>1, <2>2, AdminAssumption DEF Of, FieldsOf, TypeOK
    <2>6. place[a[2]] \in moved => place[a[2]] \in moved'
        BY <2>5, AdminAssumption DEF Remove, RemoveRows, FieldsOf
    <2>7. status'[a[1]] = status[a[1]]
        BY <2>1, <2>2 DEF Remove
    <2> QED BY <2>1, <2>2, <2>3, <2>4, <2>6, <2>7 DEF AnswersStayWithin, Within
<1>9. TypeOK'
    BY <1>1, <1>2, <1>3, <1>4, <1>5, <1>6, <1>7, <1>8 DEF TypeOK, Stored
<1>10. RulesStayWithin'
    BY <1>7 DEF RulesStayWithin, Stored
<1>11. AnswersStayWithin'
    BY <1>8 DEF AnswersStayWithin
<1> QED BY <1>9, <1>10, <1>11

-----------------------------------------------------------------------------
(* Insertions and moves *)

\* What is enough when links and answers stay: that rows do not disappear, and that
\* a field that changes its survey is on record.
LEMMA SameLinksInv ==
    ASSUME Inv, UNCHANGED <<links, answers>>,
           status' \in [Surveys -> Statuses \cup {"deleted"}],
           \A s \in Surveys : status[s] \in Statuses => status'[s] \in Statuses,
           home' \in [Sections -> Surveys \cup {None}],
           place' \in [Fields -> Sections \cup {None}],
           moved' \subseteq Sections \cup Fields,
           \A x \in Sections : home'[x] # None => status'[home'[x]] \in Statuses,
           \A f \in Fields : place'[f] # None => home'[place'[f]] # None,
           \A e \in Sections \cup Fields : Of(e) # None => Of(e)' # None,
           \A f \in Fields, s \in Surveys : Of(f) # None /\ Within(f, s) => Within(f, s)'
    PROVE  Inv'
<1> USE DEF Inv
<1>1. ASSUME NEW i \in Stored
      PROVE  /\ status'[links[i].survey] \in Statuses
             /\ \A e \in Ends(links[i]) : Of(e)' # None
             /\ \A f \in {links[i].src, links[i].fld} \ {None} : Within(f, links[i].survey)'
    <2>1. links[i] \in Link
        BY DEF TypeOK, Stored
    <2>2. \A e \in Ends(links[i]) : e \in Sections \cup Fields /\ Of(e) # None
        BY <2>1 DEF Ends, Link, TypeOK
    <2>3. links[i].survey \in Surveys /\ status[links[i].survey] \in Statuses
        BY <2>1 DEF Link, TypeOK
    <2>4. ASSUME NEW f \in {links[i].src, links[i].fld} \ {None}
          PROVE  Within(f, links[i].survey)'
        <3>1. f \in Fields /\ Of(f) # None /\ Within(f, links[i].survey)
            BY <2>1, <2>2 DEF Ends, Link, RulesStayWithin
        <3>2. \A s \in Surveys : Within(f, s) => Within(f, s)'
            BY <3>1
        <3> QED BY <2>3, <3>1, <3>2 DEF Within
    <2> QED BY <2>2, <2>3, <2>4
<1>2. ASSUME NEW a \in answers
      PROVE  status'[a[1]] \in Statuses /\ Of(a[2])' # None /\ Within(a[2], a[1])'
    <2>1. a[1] \in Surveys /\ a[2] \in Fields /\ Of(a[2]) # None /\ Within(a[2], a[1])
        BY DEF TypeOK, AnswersStayWithin
    <2> QED BY <2>1 DEF TypeOK
<1>3. TypeOK'
    BY <1>1, <1>2 DEF TypeOK, Stored, Ends
<1>4. RulesStayWithin'
    BY <1>1 DEF RulesStayWithin, Stored
<1>5. AnswersStayWithin'
    BY <1>2 DEF AnswersStayWithin
<1> QED BY <1>3, <1>4, <1>5

LEMMA InsertInv ==
    ASSUME Inv, NEW s \in Surveys, NEW x \in Sections, status[s] \in Statuses,
           InsertSection(s, x), UNCHANGED status
    PROVE  Inv'
<1>1. home[x] = None /\ home' = [home EXCEPT ![x] = s] /\ UNCHANGED <<place, links, answers, moved>>
    BY DEF InsertSection
<1>2. s # None
    BY AdminAssumption
<1>3. home' \in [Sections -> Surveys \cup {None}]
    BY <1>1 DEF Inv, TypeOK
<1>4. \A e \in Sections \cup Fields : Of(e) # None => Of(e)' = Of(e)
    BY <1>1 DEF Of, Inv, TypeOK
<1>5. \A f \in Fields, t \in Surveys : Of(f) # None /\ Within(f, t) => Within(f, t)'
    BY <1>1, <1>4 DEF Within
<1>6. \A y \in Sections : home'[y] # None => status'[home'[y]] \in Statuses
    BY <1>1 DEF Inv, TypeOK
<1>7. \A f \in Fields : place'[f] # None => home'[place'[f]] # None
    BY <1>1, <1>2 DEF Inv, TypeOK
<1> QED BY <1>1, <1>3, <1>4, <1>5, <1>6, <1>7, SameLinksInv DEF Inv, TypeOK

LEMMA AddFieldInv ==
    ASSUME Inv, NEW x \in Sections, NEW f \in Fields, AddField(x, f)
    PROVE  Inv'
<1>1. place[f] = None /\ home[x] # None /\ place' = [place EXCEPT ![f] = x]
      /\ UNCHANGED <<status, home, links, answers, moved>>
    BY DEF AddField
<1>2. place' \in [Fields -> Sections \cup {None}]
    BY <1>1 DEF Inv, TypeOK
<1>3. \A e \in Sections \cup Fields : Of(e) # None => Of(e)' = Of(e)
    BY <1>1 DEF Of, Inv, TypeOK
<1>4. \A g \in Fields, t \in Surveys : Of(g) # None /\ Within(g, t) => Within(g, t)'
    <2>1. \A g \in Fields : Of(g) # None => g # f
        BY <1>1, AdminAssumption DEF Of
    <2>2. \A g \in Fields : g # f => place'[g] = place[g]
        BY <1>1 DEF Inv, TypeOK
    <2> QED BY <1>1, <1>3, <2>1, <2>2 DEF Within
<1>5. \A g \in Fields : place'[g] # None => home'[place'[g]] # None
    BY <1>1 DEF Inv, TypeOK
<1> QED BY <1>1, <1>2, <1>3, <1>4, <1>5, SameLinksInv DEF Inv, TypeOK

LEMMA TransitionInv ==
    ASSUME Inv, NEW s \in Surveys, NEW to \in Statuses, Transition(s, to)
    PROVE  Inv'
<1>1. status' = [status EXCEPT ![s] = to] /\ UNCHANGED <<home, place, links, answers, moved>>
    BY DEF Transition
<1>2. status' \in [Surveys -> Statuses \cup {"deleted"}]
    BY <1>1 DEF Inv, TypeOK
<1>3. \A t \in Surveys : status[t] \in Statuses => status'[t] \in Statuses
    BY <1>1 DEF Inv, TypeOK
<1>4. \A x \in Sections : home'[x] # None => status'[home'[x]] \in Statuses
    BY <1>1, <1>3 DEF Inv, TypeOK
<1>5. \A e \in Sections \cup Fields : Of(e)' = Of(e)
    BY <1>1 DEF Of
<1> QED BY <1>1, <1>2, <1>3, <1>4, <1>5, SameLinksInv DEF Inv, TypeOK, Within

LEMMA SectionFormInv ==
    ASSUME Inv, NEW s \in Surveys, NEW x \in Sections, SectionForm(x, s)
    PROVE  Inv'
<1>1. /\ home[x] # None /\ status[s] = "draft" /\ home' = [home EXCEPT ![x] = s]
      /\ moved' = (IF s = home[x] THEN moved ELSE moved \cup {x})
      /\ UNCHANGED <<status, place, links, answers>>
    BY DEF SectionForm, MayModify
<1>2. s # None
    BY AdminAssumption
<1>3. home' \in [Sections -> Surveys \cup {None}] /\ moved' \subseteq Sections \cup Fields
    BY <1>1 DEF Inv, TypeOK
<1>4. \A e \in Sections \cup Fields : Of(e) # None => Of(e)' # None
    BY <1>1, <1>2 DEF Of, Inv, TypeOK
<1>5. ASSUME NEW f \in Fields, NEW t \in Surveys, Of(f) # None, Within(f, t)
      PROVE  Within(f, t)'
    <2>1. f \notin Sections
        BY AdminAssumption
    <2>2. place[f] # None /\ place[f] \in Sections
        BY <1>5, <2>1 DEF Of, Inv, TypeOK
    <2>3. CASE place[f] = x /\ s # home[x]
        BY <1>1, <2>3 DEF Within
    <2>4. CASE ~(place[f] = x /\ s # home[x])
        <3>1. home'[place[f]] = home[place[f]]
            BY <1>1, <2>2, <2>4 DEF Inv, TypeOK
        <3>2. Of(f)' = Of(f)
            BY <1>1, <2>1, <2>2, <3>1 DEF Of
        <3> QED BY <1>1, <1>5, <3>2 DEF Within
    <2> QED BY <2>3, <2>4
<1>6. \A y \in Sections : home'[y] # None => status'[home'[y]] \in Statuses
    BY <1>1 DEF Inv, TypeOK, Statuses
<1>7. \A f \in Fields : place'[f] # None => home'[place'[f]] # None
    BY <1>1, <1>2 DEF Inv, TypeOK
<1> QED BY <1>1, <1>3, <1>4, <1>5, <1>6, <1>7, SameLinksInv DEF Inv, TypeOK

LEMMA FieldFormInv ==
    ASSUME Inv, NEW f \in Fields, NEW x \in Sections, FieldForm(f, x)
    PROVE  Inv'
<1>1. /\ place[f] # None /\ home[x] # None /\ place' = [place EXCEPT ![f] = x]
      /\ moved' = (IF x = place[f] THEN moved ELSE moved \cup {f})
      /\ UNCHANGED <<status, home, links, answers>>
    BY DEF FieldForm
<1>2. place' \in [Fields -> Sections \cup {None}] /\ moved' \subseteq Sections \cup Fields
    BY <1>1 DEF Inv, TypeOK
<1>3. x # None
    BY AdminAssumption
<1>4. \A e \in Sections \cup Fields : Of(e) # None => Of(e)' # None
    BY <1>1, <1>3 DEF Of, Inv, TypeOK
<1>5. ASSUME NEW g \in Fields, NEW t \in Surveys, Of(g) # None, Within(g, t)
      PROVE  Within(g, t)'
    <2>1. CASE g = f /\ x # place[f]
        BY <1>1, <2>1 DEF Within
    <2>2. CASE ~(g = f /\ x # place[f])
        <3>1. place'[g] = place[g] /\ Of(g)' = Of(g)
            BY <1>1, <2>2 DEF Of, Inv, TypeOK
        <3> QED BY <1>1, <1>5, <3>1 DEF Within
    <2> QED BY <2>1, <2>2
<1>6. \A g \in Fields : place'[g] # None => home'[place'[g]] # None
    BY <1>1 DEF Inv, TypeOK
<1> QED BY <1>1, <1>2, <1>4, <1>5, <1>6, SameLinksInv DEF Inv, TypeOK

-----------------------------------------------------------------------------
(* Answers and links *)

\* Rows that change neither status, nor place, nor answers: the links are checked
\* on their own.
LEMMA LinksInv ==
    ASSUME Inv, UNCHANGED <<status, home, place, answers, moved>>,
           NEW i \in Ids, NEW l \in Link, links' = [links EXCEPT ![i] = l],
           status[l.survey] \in Statuses,
           \A e \in Ends(l) : Of(e) # None,
           \A f \in {l.src, l.fld} \ {None} : Within(f, l.survey)
    PROVE  Inv'
<1>1. links' \in [Ids -> Link \cup {None}]
    BY DEF Inv, TypeOK
<1>2. \A e : Of(e)' = Of(e)
    BY DEF Of
<1>3. \A f, s : Within(f, s) => Within(f, s)'
    BY <1>2 DEF Within
<1>4. ASSUME NEW j \in Ids, links'[j] # None
      PROVE  /\ status[links'[j].survey] \in Statuses
             /\ \A e \in Ends(links'[j]) : Of(e) # None
             /\ \A f \in {links'[j].src, links'[j].fld} \ {None} : Within(f, links'[j].survey)
    <2>1. CASE j = i
        <3>1. links'[j] = l
            BY <2>1 DEF Inv, TypeOK
        <3> QED BY <3>1
    <2>2. CASE j # i
        <3>1. links'[j] = links[j] /\ j \in Stored
            BY <1>4, <2>2 DEF Inv, TypeOK, Stored
        <3> QED BY <3>1 DEF Inv, TypeOK, RulesStayWithin
    <2> QED BY <2>1, <2>2
<1>6. RulesStayWithin'
    BY <1>2, <1>4 DEF RulesStayWithin, Stored, Within
<1>7. AnswersStayWithin'
    BY <1>2 DEF Inv, AnswersStayWithin, Within
<1>8. TypeOK'
    BY <1>1, <1>2, <1>4 DEF Inv, TypeOK, Stored, Ends
<1> QED BY <1>6, <1>7, <1>8 DEF Inv

LEMMA PatchRuleInv ==
    ASSUME Inv, NEW i \in Ids, NEW d \in Body, PatchRule(i, d)
    PROVE  Inv'
<1> DEFINE old == links[i]
           l == [old EXCEPT !.src = Kept(d.src, old.src), !.sec = Kept(d.sec, old.sec),
                            !.fld = Kept(d.fld, old.fld)]
<1>1. /\ i \in Stored /\ MayModify(status[old.survey])
      /\ \A e \in {d.src, d.sec, d.fld} : Given(e) => Of(e) # None
      /\ PatchAccepted(d, old.survey)
      /\ links' = [links EXCEPT ![i] = l]
      /\ UNCHANGED <<status, home, place, answers, moved>>
    BY DEF PatchRule, Inv, TypeOK
<1>2. old \in Link
    BY <1>1 DEF Inv, TypeOK, Stored
<1>3. /\ d.src \in Fields \cup {Absent}
      /\ d.sec \in Sections \cup {None, Absent}
      /\ d.fld \in Fields \cup {None, Absent}
    BY DEF Body
<1>4. /\ l.survey = old.survey /\ l.src = Kept(d.src, old.src)
      /\ l.sec = Kept(d.sec, old.sec) /\ l.fld = Kept(d.fld, old.fld)
    BY <1>2 DEF Link
<1>5. l \in Link
    BY <1>2, <1>3 DEF Link, Kept
<1>6. \A e \in Ends(old) : Of(e) # None
    BY <1>1 DEF Inv, TypeOK
<1>7. ASSUME NEW e \in Ends(l)  PROVE  Of(e) # None
    <2>1. e # None /\ (e \in Ends(old) \/ (e \in {d.src, d.sec, d.fld} /\ e # Absent))
        BY <1>4 DEF Ends, Kept
    <2> QED BY <1>1, <1>6, <2>1 DEF Given
<1>8. ASSUME NEW f \in {l.src, l.fld} \ {None}  PROVE  Within(f, l.survey)
    <2>1. \/ f \in {old.src, old.fld} \ {None}
          \/ f \in {d.src, d.fld} /\ f # Absent
        BY <1>4 DEF Kept
    <2>2. CASE f \in {old.src, old.fld} \ {None}
        BY <1>1, <1>4, <2>2 DEF Inv, RulesStayWithin
    <2>3. CASE f \in {d.src, d.fld} /\ f # Absent
        <3>1. f # None /\ Given(f)
            BY <2>3 DEF Given
        <3>2. Of(f) = old.survey
            BY <1>1, <2>3, <3>1 DEF PatchAccepted
        <3> QED BY <1>4, <3>2 DEF Within
    <2> QED BY <2>1, <2>2, <2>3
<1>9. status[l.survey] \in Statuses
    BY <1>1, <1>4 DEF MayModify, Statuses
<1> HIDE DEF l, old
<1> QED BY <1>1, <1>5, <1>7, <1>8, <1>9, LinksInv

LEMMA LinkFormInv ==
    ASSUME Inv, NEW i \in Ids, NEW l \in Link, LinkForm(i, l)
    PROVE  Inv'
<1>1. /\ status[l.survey] = "draft" /\ FormAccepted(l)
      /\ links' = [links EXCEPT ![i] = l]
      /\ UNCHANGED <<status, home, place, answers, moved>>
    BY DEF LinkForm, MayModify
<1>2. \A e \in Ends(l) : Of(e) = l.survey
    BY <1>1 DEF FormAccepted
<1>3. l.survey # None
    BY AdminAssumption DEF Link
<1>4. \A e \in Ends(l) : Of(e) # None
    BY <1>2, <1>3
<1>5. \A f \in {l.src, l.fld} \ {None} : Within(f, l.survey)
    BY <1>2 DEF Ends, Within
<1> QED BY <1>1, <1>4, <1>5, LinksInv DEF Statuses

LEMMA SubmitInv ==
    ASSUME Inv, NEW s \in Surveys, Submit(s)
    PROVE  Inv'
<1>1. status[s] = "published" /\ UNCHANGED <<status, home, place, links, moved>>
    BY DEF Submit
<1>2. PICK A \in SUBSET Offered(s) : answers' = answers \cup ({s} \X A)
    BY DEF Submit
<1>3. \A e : Of(e)' = Of(e)
    BY <1>1 DEF Of
<1>4. ASSUME NEW a \in answers'
      PROVE  /\ a \in Surveys \X Fields /\ status[a[1]] \in Statuses
             /\ Of(a[2]) # None /\ Within(a[2], a[1])
    <2>1. CASE a \in answers
        BY <2>1 DEF Inv, TypeOK, AnswersStayWithin
    <2>2. CASE a \in {s} \X A
        <3>1. a[1] = s /\ a[2] \in Fields /\ Of(a[2]) = s /\ a \in Surveys \X Fields
            BY <1>2, <2>2 DEF Offered
        <3>2. s # None
            BY AdminAssumption
        <3> QED BY <1>1, <3>1, <3>2 DEF Within, Statuses
    <2> QED BY <1>2, <2>1, <2>2
<1>5. TypeOK'
    BY <1>1, <1>3, <1>4 DEF Inv, TypeOK, Stored, Ends
<1>6. RulesStayWithin'
    BY <1>1, <1>3 DEF Inv, RulesStayWithin, Stored, Within
<1>7. AnswersStayWithin'
    BY <1>1, <1>3, <1>4 DEF AnswersStayWithin, Within
<1> QED BY <1>5, <1>6, <1>7 DEF Inv

-----------------------------------------------------------------------------
(* The invariant *)

LEMMA InitInv ==
    ASSUME Init  PROVE Inv
<1>1. TypeOK
    BY DEF Init, TypeOK, Stored, Statuses
<1>2. RulesStayWithin /\ AnswersStayWithin
    BY DEF Init, RulesStayWithin, AnswersStayWithin, Stored
<1> QED BY <1>1, <1>2 DEF Inv

LEMMA StutterInv ==
    ASSUME Inv, UNCHANGED vars  PROVE Inv'
BY DEF Inv, vars, TypeOK, RulesStayWithin, AnswersStayWithin, Stored, Ends, Of, Within

LEMMA SurveyFormInv ==
    ASSUME Inv, NEW s \in Surveys, NEW sent \in Statuses, SurveyForm(s, sent)
    PROVE  Inv'
<1>1. TypeOK
    BY DEF Inv
<1>2. CASE UNCHANGED vars
    BY <1>2, StutterInv
<1>3. ASSUME NEW x \in Sections, status[s] \in Statuses, InsertSection(s, x), UNCHANGED status
      PROVE  Inv'
    BY <1>3, InsertInv
<1>4. ASSUME NEW x \in Sections, home[x] = s, Remove({x})  PROVE Inv'
    BY <1>4, RemoveInv
<1> QED BY <1>1, <1>2, <1>3, <1>4, FormEffect

LEMMA StepInv ==
    ASSUME Inv, Next  PROVE Inv'
<1>1. ASSUME NEW s \in Surveys, DeleteSurvey(s)  PROVE Inv'
    BY <1>1, RemoveInv DEF DeleteSurvey
<1>2. ASSUME NEW s \in Surveys, Submit(s)  PROVE Inv'
    BY <1>2, SubmitInv
<1>3. ASSUME NEW s \in Surveys, NEW x \in Sections, AddSection(s, x)  PROVE Inv'
    BY <1>3, InsertInv DEF AddSection, MayModify, Statuses
<1>4. ASSUME NEW s \in Surveys, NEW x \in Sections, SectionForm(x, s)  PROVE Inv'
    BY <1>4, SectionFormInv
<1>5. ASSUME NEW s \in Surveys, NEW st \in Statuses, Transition(s, st)  PROVE Inv'
    BY <1>5, TransitionInv
<1>6. ASSUME NEW s \in Surveys, NEW st \in Statuses, SurveyForm(s, st)  PROVE Inv'
    BY <1>6, SurveyFormInv
<1>7. ASSUME NEW x \in Sections, NEW f \in Fields, AddField(x, f)  PROVE Inv'
    BY <1>7, AddFieldInv
<1>8. ASSUME NEW x \in Sections, NEW f \in Fields, FieldForm(f, x)  PROVE Inv'
    BY <1>8, FieldFormInv
<1>9. ASSUME NEW x \in Sections \cup Fields, DropRow(x)  PROVE Inv'
    BY <1>9, RemoveInv DEF DropRow
<1>10. ASSUME NEW x \in Surveys \cup Sections \cup Fields \cup Ids, DeleteSelected(x)  PROVE Inv'
    BY <1>10, RemoveInv DEF DeleteSelected
<1>11. ASSUME NEW i \in Ids, DropLink(i)  PROVE Inv'
    BY <1>11, RemoveInv DEF DropLink
<1>12. ASSUME NEW i \in Ids, NEW d \in Body, PatchRule(i, d)  PROVE Inv'
    BY <1>12, PatchRuleInv
<1>13. ASSUME NEW i \in Ids, NEW l \in Link, LinkForm(i, l)  PROVE Inv'
    BY <1>13, LinkFormInv
<1> QED
    BY <1>1, <1>2, <1>3, <1>4, <1>5, <1>6, <1>7, <1>8, <1>9, <1>10, <1>11, <1>12, <1>13 DEF Next

LEMMA Invariance == Spec => []Inv
<1>1. Init => Inv
    BY InitInv
<1>2. Inv /\ [Next]_vars => Inv'
    BY StepInv, StutterInv
<1> QED BY <1>1, <1>2, PTL DEF Spec

\* Whatever forms are sent, every section, field, link and answer that is stored
\* hangs on rows that are stored.
THEOREM TypeCorrect == Spec => []TypeOK
<1>1. Inv => TypeOK
    BY DEF Inv
<1> QED BY <1>1, Invariance, PTL

\* A rule, a dependency and an answer have their fields in their own survey, unless a
\* form of a section or field has moved them.
THEOREM NamesWithin == Spec => []NamesStayWithin
<1>1. Inv => NamesStayWithin
    BY DEF Inv, NamesStayWithin
<1> QED BY <1>1, Invariance, PTL

-----------------------------------------------------------------------------
(* A closed survey stays put *)

\* A deletion that takes no row and no link of the survey itself.
LEMMA RemoveElsewhere ==
    ASSUME Inv, NEW X, Remove(X), NEW s \in Surveys, s \notin X,
           \A x \in SectionsOf(X) \cup FieldsOf(X) : Of(x) # s,
           \A i \in Stored : links[i].survey = s => i \notin X
    PROVE  StaysPut(s)
<1>1. TypeOK
    BY DEF Inv
<1>2. s # None
    BY AdminAssumption
<1>3. \A x \in Sections : home'[x] # None => Of(x)' = Of(x)
    BY <1>1, Survivors
<1>4. \A f \in Fields : Of(f)' # None => Of(f)' = Of(f)
    <2>1. ASSUME NEW f \in Fields, Of(f)' # None  PROVE  place'[f] # None
        BY <2>1, AdminAssumption DEF Of
    <2> QED BY <1>1, <2>1, Survivors
<1>5. SurveyRows(s)' \subseteq SurveyRows(s)
    BY <1>2, <1>3, <1>4 DEF SurveyRows, Of
<1>6. SurveyRows(s) \ SurveyRows(s)' = {}
    <2>1. \A x \in SurveyRows(s) : Of(x)' = Of(x)
        BY <1>1, Survivors DEF SurveyRows
    <2> QED BY <2>1 DEF SurveyRows
<1>7. SurveyLinks(s)' \subseteq SurveyLinks(s)
    BY <1>1, Survivors DEF SurveyLinks, Stored
<1>8. ASSUME NEW i \in Stored, links[i].survey = s, links'[i] # links[i]
      PROVE  \E e \in Ends(links[i]) : Of(e) # s
    <2>1. i \in LinksOf(X)
        BY <1>8 DEF Remove, RemoveRows, Stored
    <2> QED BY <1>8, <2>1 DEF LinksOf
<1> QED BY <1>5, <1>6, <1>7, <1>8 DEF StaysPut

\* Rows of another survey.
LEMMA RemoveOther ==
    ASSUME Inv, NEW s \in Surveys, NEW x \in Sections \cup Fields, Of(x) # None, Of(x) # s,
           Remove({x})
    PROVE  StaysPut(s)
<1>1. s \notin {x} /\ (\A i \in Ids : i \notin {x}) /\ (\A y \in Sections : home[y] \notin {x})
    BY AdminAssumption DEF Inv, TypeOK
<1>2. ASSUME NEW y \in SectionsOf({x}) \cup FieldsOf({x})  PROVE  Of(y) # s
    <2>1. CASE y = x
        BY <2>1
    <2>2. CASE y # x
        <3>1. y \in Fields /\ place[y] = x /\ x \in Sections
            BY <1>1, <2>2 DEF SectionsOf, FieldsOf
        <3>2. Of(y) = home[x] /\ Of(x) = home[x]
            BY <3>1, AdminAssumption DEF Of
        <3> QED BY <3>2
    <2> QED BY <2>1, <2>2
<1> QED BY <1>1, <1>2, RemoveElsewhere DEF Stored

LEMMA RemoveSurvey ==
    ASSUME Inv, NEW s \in Surveys, NEW t \in Surveys, s # t, Remove({t})
    PROVE  StaysPut(s)
<1>1. /\ \A i \in Ids : i \notin {t}
      /\ \A y \in Sections \cup Fields : y # t
      /\ t # None
    BY AdminAssumption
<1>2. ASSUME NEW y \in SectionsOf({t}) \cup FieldsOf({t})  PROVE  Of(y) # s
    <2>1. CASE y \in Sections
        <3>1. y \notin Fields
            BY <2>1, AdminAssumption
        <3> QED BY <1>1, <2>1, <3>1 DEF SectionsOf, FieldsOf, Of
    <2>2. CASE y \notin Sections
        <3>1. y \in Fields /\ place[y] \in Sections /\ home[place[y]] = t
            BY <1>1, <2>2 DEF SectionsOf, FieldsOf
        <3>2. Of(y) = t
            BY <2>2, <3>1, AdminAssumption DEF Of
        <3> QED BY <3>2
    <2> QED BY <2>1, <2>2
<1> QED BY <1>1, <1>2, RemoveElsewhere DEF Stored

\* The rows and links of a survey that nothing touches.
LEMMA Untouched ==
    ASSUME NEW s \in Surveys, SurveyRows(s)' = SurveyRows(s), UNCHANGED links
    PROVE  StaysPut(s)
BY DEF StaysPut, SurveyLinks, Stored

LEMMA InsertElsewhere ==
    ASSUME Inv, NEW s \in Surveys, NEW t \in Surveys, s # t, NEW x \in Sections, InsertSection(t, x)
    PROVE  StaysPut(s)
<1>1. s # None
    BY AdminAssumption
<1>2. home[x] = None /\ home' = [home EXCEPT ![x] = t] /\ UNCHANGED <<place, links>>
    BY DEF InsertSection
<1>3. \A y \in Sections : Of(y)' = s <=> Of(y) = s
    BY <1>1, <1>2 DEF Of, Inv, TypeOK
<1>4. \A f \in Fields : Of(f)' = s <=> Of(f) = s
    <2>1. ASSUME NEW f \in Fields, place[f] # None  PROVE  home'[place[f]] = home[place[f]]
        BY <1>2, <2>1 DEF Inv, TypeOK
    <2> QED BY <1>1, <1>2, <2>1, AdminAssumption DEF Of
<1>5. SurveyRows(s)' = SurveyRows(s)
    BY <1>3, <1>4 DEF SurveyRows
<1> QED BY <1>2, <1>5, Untouched

LEMMA SectionFormPut ==
    ASSUME Inv, NEW s \in Surveys, Closed(s), NEW t \in Surveys, NEW x \in Sections, SectionForm(x, t)
    PROVE  StaysPut(s)
<1>1. status[t] = "draft" /\ home' = [home EXCEPT ![x] = t] /\ UNCHANGED <<status, place, links>>
    BY DEF SectionForm, MayModify
<1>2. s # t /\ s # None
    BY <1>1, AdminAssumption DEF Closed
<1>3. \A y \in Sections : Of(y)' = IF y = x THEN t ELSE Of(y)
    BY <1>1 DEF Of, Inv, TypeOK
<1>4. ASSUME NEW f \in Fields  PROVE  Of(f)' = IF place[f] = x THEN t ELSE Of(f)
    <2>1. f \notin Sections /\ x # None
        BY AdminAssumption
    <2>2. place[f] # None => home'[place[f]] = IF place[f] = x THEN t ELSE home[place[f]]
        BY <1>1 DEF Inv, TypeOK
    <2> QED BY <1>1, <2>1, <2>2 DEF Of
<1>5. SurveyRows(s)' \subseteq SurveyRows(s)
    BY <1>2, <1>3, <1>4 DEF SurveyRows
<1>6. \A y \in SurveyRows(s) \ SurveyRows(s)' : TakenToDraft(y)
    BY <1>1, <1>3, <1>4 DEF SurveyRows, TakenToDraft
<1> QED BY <1>1, <1>5, <1>6 DEF StaysPut, SurveyLinks, Stored

LEMMA FieldFormPut ==
    ASSUME Inv, NEW s \in Surveys, Closed(s), NEW x \in Sections, NEW f \in Fields, FieldForm(f, x)
    PROVE  StaysPut(s)
<1>1. /\ status[home[x]] = "draft" /\ place' = [place EXCEPT ![f] = x]
      /\ UNCHANGED <<status, home, links>>
    BY DEF FieldForm, MayModify
<1>2. s # home[x] /\ x # None
    BY <1>1, AdminAssumption DEF Closed
<1>3. \A y \in Sections : Of(y)' = Of(y)
    BY <1>1 DEF Of
<1>4. \A g \in Fields : Of(g)' = IF g = f THEN home[x] ELSE Of(g)
    BY <1>1, <1>2, AdminAssumption DEF Of, Inv, TypeOK
<1>5. SurveyRows(s)' \subseteq SurveyRows(s)
    BY <1>2, <1>3, <1>4 DEF SurveyRows
<1>6. \A y \in SurveyRows(s) \ SurveyRows(s)' : TakenToDraft(y)
    BY <1>1, <1>3, <1>4, AdminAssumption DEF SurveyRows, TakenToDraft
<1> QED BY <1>1, <1>5, <1>6 DEF StaysPut, SurveyLinks, Stored

LEMMA AddFieldPut ==
    ASSUME Inv, NEW s \in Surveys, Closed(s), NEW x \in Sections, NEW f \in Fields, AddField(x, f)
    PROVE  StaysPut(s)
<1>1. /\ status[home[x]] = "draft" /\ place[f] = None /\ place' = [place EXCEPT ![f] = x]
      /\ UNCHANGED <<home, links>>
    BY DEF AddField, MayModify
<1>2. s # home[x] /\ x # None /\ s # None
    BY <1>1, AdminAssumption DEF Closed
<1>3. \A y \in Sections : Of(y)' = Of(y)
    BY <1>1 DEF Of
<1>4. \A g \in Fields : Of(g)' = s <=> Of(g) = s
    BY <1>1, <1>2, AdminAssumption DEF Of, Inv, TypeOK
<1>5. SurveyRows(s)' = SurveyRows(s)
    BY <1>3, <1>4 DEF SurveyRows
<1> QED BY <1>1, <1>5, Untouched

LEMMA LinksPut ==
    ASSUME Inv, NEW s \in Surveys, Closed(s), NEW i \in Ids, NEW l,
           status[l.survey] = "draft", l # None,
           links' = [links EXCEPT ![i] = l], UNCHANGED <<status, home, place>>
    PROVE  StaysPut(s)
<1>1. l.survey # s
    BY DEF Closed
<1>2. \A j \in Ids : links'[j] = IF j = i THEN l ELSE links[j]
    BY DEF Inv, TypeOK
<1>3. SurveyLinks(s)' \subseteq SurveyLinks(s)
    BY <1>1, <1>2 DEF SurveyLinks, Stored
<1>4. \A j \in Stored : links'[j] # links[j] => links'[j] = l
    BY <1>2 DEF Stored
<1>5. SurveyRows(s)' = SurveyRows(s)
    BY DEF SurveyRows, Of
<1> QED BY <1>3, <1>4, <1>5 DEF StaysPut

LEMMA PatchRulePut ==
    ASSUME Inv, NEW s \in Surveys, Closed(s), NEW i \in Ids, NEW d \in Body, PatchRule(i, d)
    PROVE  StaysPut(s)
<1> DEFINE old == links[i]
           l == [old EXCEPT !.src = Kept(d.src, old.src), !.sec = Kept(d.sec, old.sec),
                            !.fld = Kept(d.fld, old.fld)]
<1>1. /\ i \in Stored /\ status[old.survey] = "draft"
      /\ links' = [links EXCEPT ![i] = l]
      /\ UNCHANGED <<status, home, place>>
    BY DEF PatchRule, MayModify
<1>2. old \in Link
    BY <1>1 DEF Inv, TypeOK, Stored
<1>3. l.survey = old.survey
    BY <1>2 DEF Link
<1>4. l \in Link
    BY <1>2 DEF Link, Kept, Body
<1>5. l # None
    BY <1>4, NoneIsNoLink
<1> HIDE DEF l, old
<1> QED BY <1>1, <1>3, <1>5, LinksPut

LEMMA SurveyFormPut ==
    ASSUME Inv, NEW s \in Surveys, Closed(s), NEW t \in Surveys, NEW sent \in Statuses,
           SurveyForm(t, sent)
    PROVE  StaysPut(s)
<1>1. TypeOK
    BY DEF Inv
<1>2. CASE UNCHANGED <<home, place, links, answers, moved>>
    BY <1>2, Untouched DEF SurveyRows, Of
<1>3. CASE ~UNCHANGED <<home, place, links, answers, moved>>
    <2>1. sent = "draft"
        BY <1>3 DEF SurveyForm, MayModify, InMemory
    <2>2. CASE t = s
        BY <2>1, <2>2 DEF StaysPut, Unchecked, Closed
    <2>3. CASE t # s
        <3>1. ASSUME NEW x \in Sections, InsertSection(t, x)  PROVE  StaysPut(s)
            BY <2>3, <3>1, InsertElsewhere
        <3>2. ASSUME NEW x \in Sections, home[x] = t, Remove({x})  PROVE  StaysPut(s)
            BY <2>3, <3>2, RemoveOther, AdminAssumption DEF Of
        <3> QED BY <1>1, <1>3, <3>1, <3>2, FormEffect DEF vars
    <2> QED BY <2>2, <2>3
<1> QED BY <1>2, <1>3

LEMMA DeleteSelectedPut ==
    ASSUME Inv, NEW s \in Surveys, Closed(s)',
           NEW x \in Surveys \cup Sections \cup Fields \cup Ids, DeleteSelected(x)
    PROVE  StaysPut(s)
<1>1. Remove({x})
    BY DEF DeleteSelected
<1>2. x # s
    <2>1. CASE x = s
        BY <1>1, <2>1 DEF Closed, Remove
    <2> QED BY <2>1
<1>3. CASE x \in Surveys
    BY <1>1, <1>2, <1>3, RemoveSurvey
<1>4. CASE x \in Sections \cup Fields
    <2>1. Of(x) # None
        BY <1>4, AdminAssumption DEF DeleteSelected
    <2>2. CASE Of(x) = s
        BY <1>4, <2>2 DEF StaysPut, Unchecked, SurveyRows
    <2> QED BY <1>1, <1>4, <2>1, <2>2, RemoveOther
<1>5. CASE x \in Ids
    <2>1. x \in Stored
        BY <1>5, AdminAssumption DEF DeleteSelected
    <2>2. CASE links[x].survey = s
        BY <2>1, <2>2 DEF StaysPut, Unchecked
    <2>3. CASE links[x].survey # s
        <3>1. SectionsOf({x}) = {} /\ FieldsOf({x}) = {}
            BY <1>5, AdminAssumption DEF SectionsOf, FieldsOf, Inv, TypeOK
        <3> QED BY <1>1, <1>2, <2>3, <3>1, RemoveElsewhere
    <2> QED BY <2>2, <2>3
<1> QED BY <1>3, <1>4, <1>5

LEMMA StepPut ==
    ASSUME Inv, Next, NEW s \in Surveys, Closed(s), Closed(s)'
    PROVE  StaysPut(s)
<1>1. ASSUME NEW t \in Surveys, DeleteSurvey(t)  PROVE StaysPut(s)
    <2>1. t # s
        BY <1>1 DEF DeleteSurvey, Remove, Closed
    <2> QED BY <1>1, <2>1, RemoveSurvey DEF DeleteSurvey
<1>2. ASSUME NEW t \in Surveys, Submit(t)  PROVE StaysPut(s)
    BY <1>2, Untouched DEF Submit, SurveyRows, Of
<1>3. ASSUME NEW t \in Surveys, NEW x \in Sections, AddSection(t, x)  PROVE StaysPut(s)
    BY <1>3, InsertElsewhere DEF AddSection, MayModify, Closed
<1>4. ASSUME NEW t \in Surveys, NEW st \in Statuses, Transition(t, st)  PROVE StaysPut(s)
    BY <1>4, Untouched DEF Transition, SurveyRows, Of
<1>5. ASSUME NEW x \in Sections \cup Fields, DropRow(x)  PROVE StaysPut(s)
    BY <1>5, RemoveOther DEF DropRow, MayModify, Closed
<1>6. ASSUME NEW i \in Ids, DropLink(i)  PROVE StaysPut(s)
    <2>1. links[i].survey # s /\ Remove({i})
        BY <1>6 DEF DropLink, MayModify, Closed
    <2>2. SectionsOf({i}) = {} /\ FieldsOf({i}) = {} /\ i # s
        BY AdminAssumption DEF SectionsOf, FieldsOf, Inv, TypeOK
    <2> QED BY <2>1, <2>2, RemoveElsewhere
<1>7. ASSUME NEW i \in Ids, NEW l \in Link, LinkForm(i, l)  PROVE StaysPut(s)
    BY <1>7, LinksPut, NoneIsNoLink DEF LinkForm, MayModify
<1> QED
    BY <1>1, <1>2, <1>3, <1>4, <1>5, <1>6, <1>7, SectionFormPut, FieldFormPut, AddFieldPut,
       PatchRulePut, SurveyFormPut, DeleteSelectedPut DEF Next

\* Outside the two requests that look at no stored status, a published or archived
\* survey gains nothing and loses only what a form takes to a draft, and links with
\* an end in another survey.
THEOREM ClosedFrozen == Spec => ClosedStaysPut
<1>1. Inv /\ [Next]_vars => [\A s \in Surveys : Closed(s) /\ Closed(s)' => StaysPut(s)]_vars
    BY StepPut
<1> QED BY <1>1, Invariance, PTL DEF Spec, ClosedStaysPut
=============================================================================

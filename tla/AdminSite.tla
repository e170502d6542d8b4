------------------------------ MODULE AdminSite ------------------------------
(***************************************************************************)
(* The forms of the Django admin site beside the API, over several         *)
(* surveys.  A form sends every column, foreign keys included, so a        *)
(* section, field, rule or dependency can change its survey, which no      *)
(* request of the API does; and the checks of save_model look at the       *)
(* object in memory, after the form has written to it.                     *)
(*                                                                         *)
(* A POST is one step (it is one transaction, and SurveyLifecycle is about *)
(* what interleaves).  Left out: the order columns and the cycle search    *)
(* (RuleBuilder), operators and options (FieldChanges), and the columns of *)
(* a row that tell nothing about where it is.  A free name stands for the  *)
(* next primary key.                                                       *)
(***************************************************************************)
EXTENDS SurveyStatus

CONSTANTS Surveys, Sections, Fields,
          Ids,       \* names of conditional rules and dependencies
          Absent,    \* a key that the body of a PATCH does not have
          None       \* NULL, and no row

ASSUME AdminAssumption ==
    /\ Surveys \cap (Sections \cup Fields \cup Ids) = {}
    /\ Sections \cap (Fields \cup Ids) = {} /\ Fields \cap Ids = {}
    /\ {Absent, None} \cap (Surveys \cup Sections \cup Fields \cup Ids) = {}
    /\ Absent # None

\* sec and fld: the target of a rule.  A dependency is in every respect here a rule
\* whose target is a field, except that no request gives it a section.
Link == [survey : Surveys, src : Fields,
         sec : Sections \cup {None}, fld : Fields \cup {None}]

ASSUME NoneIsNoLink == None \notin Link

VARIABLES status,    \* of each survey
          home,      \* Section.survey
          place,     \* Field.section
          links,     \* the rows of conditional_rules and field_dependencies
          answers,   \* <<s, f>>: a response to survey s has an answer to field f
          moved      \* history: the rows that a form put below another parent

rowVars == <<home, place, links>>
vars == <<status, home, place, links, answers, moved>>

\* The survey of a section or field.
Of(x) == IF x \in Sections THEN home[x]
         ELSE IF place[x] = None THEN None ELSE home[place[x]]

Stored == {i \in Ids : links[i] # None}
Ends(l) == {l.src, l.sec, l.fld} \ {None}

\* Types and foreign keys.
TypeOK ==
    /\ status \in [Surveys -> Statuses \cup {"deleted"}]
    /\ home \in [Sections -> Surveys \cup {None}]
    /\ place \in [Fields -> Sections \cup {None}]
    /\ links \in [Ids -> Link \cup {None}]
    /\ answers \subseteq Surveys \X Fields
    /\ moved \subseteq Sections \cup Fields
    /\ \A x \in Sections : home[x] # None => status[home[x]] \in Statuses
    /\ \A f \in Fields : place[f] # None => home[place[f]] # None
    /\ \A i \in Stored :
          /\ status[links[i].survey] \in Statuses
          /\ \A e \in Ends(links[i]) : Of(e) # None
    /\ \A a \in answers : status[a[1]] \in Statuses /\ Of(a[2]) # None

Init ==
    /\ status = [s \in Surveys |-> "draft"]
    /\ home = [x \in Sections |-> None]
    /\ place = [f \in Fields |-> None]
    /\ links = [i \in Ids |-> None]
    /\ answers = {}
    /\ moved = {}

\* validate_survey_is_draft
MayModify(st) == st = "draft"

\* on_delete=CASCADE: what goes with the rows X.
SectionsOf(X) == {x \in Sections : x \in X \/ home[x] \in X}
FieldsOf(X) == {f \in Fields : f \in X \/ place[f] \in SectionsOf(X)}

\* The rules that name a deleted section as their target are left behind.
LinksOfFields(X) ==
    {i \in Stored : i \in X \/ links[i].survey \in X \/ Ends(links[i]) \cap FieldsOf(X) # {}}

LinksOf(X) ==
    {i \in Stored : \/ i \in X \/ links[i].survey \in X
                    \/ Ends(links[i]) \cap (SectionsOf(X) \cup FieldsOf(X)) # {}}

RemoveRows(X) ==
    /\ home' = [x \in Sections |-> IF x \in SectionsOf(X) THEN None ELSE home[x]]
    /\ place' = [f \in Fields |-> IF f \in FieldsOf(X) THEN None ELSE place[f]]
    /\ links' = [i \in Ids |-> IF i \in LinksOf(X) THEN None ELSE links[i]]
    /\ answers' = {a \in answers : a[1] \notin X /\ a[2] \notin FieldsOf(X)}
    /\ moved' = moved \ (SectionsOf(X) \cup FieldsOf(X))

Remove(X) ==
    /\ status' = [s \in Surveys |-> IF s \in X THEN "deleted" ELSE status[s]]
    /\ RemoveRows(X)

-----------------------------------------------------------------------------
(* The API, as far as the forms meet it *)

InsertSection(s, x) ==
    /\ home[x] = None
    /\ home' = [home EXCEPT ![x] = s]
    /\ UNCHANGED <<place, links, answers, moved>>

\* SectionViewSet.perform_create; also the add form of a section.
AddSection(s, x) ==
    /\ MayModify(status[s])
    /\ InsertSection(s, x)
    /\ UNCHANGED status

\* FieldViewSet.perform_create; also the add form of a field, and a line added
\* to the form of its section.
AddField(x, f) ==
    /\ home[x] # None /\ MayModify(status[home[x]])
    /\ place[f] = None
    /\ place' = [place EXCEPT ![f] = x]
    /\ UNCHANGED <<status, home, links, answers, moved>>

\* perform_destroy of a section or field; delete_model of their forms.
DropRow(x) ==
    /\ Of(x) # None /\ MayModify(status[Of(x)])
    /\ Remove({x})

DropLink(i) ==
    /\ i \in Stored /\ MayModify(status[links[i].survey])
    /\ Remove({i})

Complete(s) ==
    /\ \E x \in Sections : home[x] = s
    /\ \A x \in Sections : home[x] = s => \E f \in Fields : place[f] = x

\* transition_to of an object whose status is from.
MayTransition(s, from, to) ==
    to \in AllowedTransitions[from] /\ (to = "published" => Complete(s))

\* PATCH of the survey.
Transition(s, to) ==
    /\ status[s] \in Statuses /\ MayTransition(s, status[s], to)
    /\ status' = [status EXCEPT ![s] = to]
    /\ UNCHANGED <<home, place, links, answers, moved>>

\* perform_destroy; delete_model of the form; created_by's cascade.
DeleteSurvey(s) == status[s] \in Statuses /\ Remove({s})

\* survey_fields: an answer to any other field is refused.
Offered(s) == {f \in Fields : Of(f) = s}

\* SurveySubmitView.post: the answers of one response.
Submit(s) ==
    /\ status[s] = "published"
    /\ \E A \in SUBSET Offered(s) : answers' = answers \cup ({s} \X A)
    /\ UNCHANGED <<status, home, place, links, moved>>

Given(x) == x \notin {None, Absent}
Kept(new, old) == IF new = Absent THEN old ELSE new

Body == [src : Fields \cup {Absent}, sec : Sections \cup {None, Absent},
         fld : Fields \cup {None, Absent}]

\* The source is compared with the URL, the target with nothing.
PatchAcceptedBySource(d, s) ==
    /\ Given(d.sec) # Given(d.fld)
    /\ Given(d.fld) => Given(d.src)
    /\ Given(d.src) => Of(d.src) = s /\ d.src # d.fld

\* validate_conditional_rule_data with the pk of the URL.  Without a source it
\* compares nothing, and a field cannot be named, as the cycle search then fails.
PatchAccepted(d, s) ==
    /\ Given(d.sec) # Given(d.fld)
    /\ Given(d.fld) => Given(d.src)
    /\ Given(d.src) => /\ Of(d.src) = s /\ d.src # d.fld
                       /\ Given(d.sec) => Of(d.sec) = s
                       /\ Given(d.fld) => Of(d.fld) = s

\* ConditionalRuleViewSet.perform_update; the rule is found by its survey column.
PatchRule(i, d) ==
    /\ i \in Stored /\ MayModify(status[links[i].survey])
    /\ \A e \in {d.src, d.sec, d.fld} : Given(e) => Of(e) # None
    /\ PatchAccepted(d, links[i].survey)
    /\ LET old == links[i]
       IN  links' = [links EXCEPT ![i] = [old EXCEPT !.src = Kept(d.src, old.src),
                                                     !.sec = Kept(d.sec, old.sec),
                                                     !.fld = Kept(d.fld, old.fld)]]
    /\ UNCHANGED <<status, home, place, answers, moved>>

-----------------------------------------------------------------------------
(* The forms *)

\* What obj.status holds when save_model runs: the form has already copied the
\* choice of the administrator into it.
InMemory(s, sent) == sent

\* The lines for the sections: one is added, or marked for deletion.
SectionLines(s) ==
    \/ \E x \in Sections : InsertSection(s, x)
    \/ \E x \in Sections : home[x] = s /\ RemoveRows({x})

\* SurveyAdmin.save_model and save_formset.  A status other than the stored one
\* goes to transition_to, which starts from obj.status; then the lines are checked
\* against the same obj.status, even when the transition was refused.
SurveyForm(s, sent) ==
    /\ status[s] \in Statuses
    /\ status' = [status EXCEPT ![s] =
                     IF sent # @ /\ MayTransition(s, InMemory(s, sent), sent) THEN sent ELSE @]
    /\ \/ MayModify(InMemory(s, sent)) /\ SectionLines(s)
       \/ UNCHANGED <<home, place, links, answers, moved>>

\* SectionAdmin.save_model: the survey that is checked is the one it goes to.
SectionForm(x, s) ==
    /\ home[x] # None
    /\ MayModify(status[s])
    /\ home' = [home EXCEPT ![x] = s]
    /\ moved' = IF s = home[x] THEN moved ELSE moved \cup {x}
    /\ UNCHANGED <<status, place, links, answers>>

\* The survey that is checked is the one the field comes from.
FieldFormFromDraft(f, x) ==
    /\ place[f] # None /\ home[x] # None
    /\ MayModify(status[home[place[f]]])
    /\ place' = [place EXCEPT ![f] = x]
    /\ moved' = IF x = place[f] THEN moved ELSE moved \cup {f}
    /\ UNCHANGED <<status, home, links, answers>>

\* FieldAdmin.save_model
FieldForm(f, x) ==
    /\ place[f] # None /\ home[x] # None
    /\ MayModify(status[home[x]])
    /\ place' = [place EXCEPT ![f] = x]
    /\ moved' = IF x = place[f] THEN moved ELSE moved \cup {f}
    /\ UNCHANGED <<status, home, links, answers>>

\* The clean() of the model, then validate_*_data: one target, and every end in
\* the survey of the row.
FormAccepted(l) ==
    /\ (l.sec = None) # (l.fld = None)
    /\ l.src # l.fld
    /\ \A e \in Ends(l) : Of(e) = l.survey

\* ConditionalRuleAdmin and FieldDependencyAdmin, adding or changing; the API's
\* requests on dependencies, which send both fields, do no more.
LinkForm(i, l) ==
    /\ MayModify(status[l.survey]) /\ FormAccepted(l)
    /\ links' = [links EXCEPT ![i] = l]
    /\ UNCHANGED <<status, home, place, answers, moved>>

\* The action delete_selected, which every list of the site has: it calls
\* delete() on the rows and none of the methods above.
DeleteSelected(x) ==
    /\ IF x \in Surveys THEN status[x] \in Statuses
       ELSE IF x \in Ids THEN x \in Stored ELSE Of(x) # None
    /\ Remove({x})

Next ==
    \/ \E s \in Surveys :
          \/ DeleteSurvey(s) \/ Submit(s)
          \/ \E x \in Sections : AddSection(s, x) \/ SectionForm(x, s)
          \/ \E st \in Statuses : Transition(s, st) \/ SurveyForm(s, st)
    \/ \E x \in Sections, f \in Fields : AddField(x, f) \/ FieldForm(f, x)
    \/ \E x \in Sections \cup Fields : DropRow(x)
    \/ \E x \in Surveys \cup Sections \cup Fields \cup Ids : DeleteSelected(x)
    \/ \E i \in Ids :
          \/ DropLink(i)
          \/ \E d \in Body : PatchRule(i, d)
          \/ \E l \in Link : LinkForm(i, l)

Spec == Init /\ [][Next]_vars

-----------------------------------------------------------------------------
(* Properties *)

Within(x, s) == Of(x) = s \/ x \in moved \/ (x \in Fields /\ place[x] \in moved)

\* The fields a rule or dependency names are those of its survey, as long as no
\* form has put them, or their section, elsewhere (a target section may be of any
\* survey: a PATCH that sends it alone is not compared with anything).  The
\* conditions of a survey are evaluated on the answers to its own fields, so a
\* rule whose source is elsewhere hides its target for good.
RulesStayWithin ==
    \A i \in Stored : \A f \in {links[i].src, links[i].fld} \ {None} : Within(f, links[i].survey)

\* responses/models.py, FieldResponse.clean: an answer belongs to a field of the
\* survey of its response, again unless a form has moved it.
AnswersStayWithin == \A a \in answers : Within(a[2], a[1])

\* Whatever else the API and the forms do, no row of a survey comes to name a field
\* of another one.
NamesStayWithin == RulesStayWithin /\ AnswersStayWithin

Closed(s) == status[s] \in {"published", "archived"}

SurveyRows(s) == {x \in Sections \cup Fields : Of(x) = s}
SurveyLinks(s) == {<<i, links[i]>> : i \in {j \in Stored : links[j].survey = s}}

\* The two requests that look at no stored status.
Unchecked(s) ==
    \/ \E sent \in Statuses \ {status[s]} : SurveyForm(s, sent)
    \/ \E x \in SurveyRows(s) \cup {i \in Stored : links[i].survey = s} : DeleteSelected(x)

TakenToDraft(x) == status[Of(x)'] = "draft"

StaysPut(s) ==
    \/ Unchecked(s)
    \/ /\ SurveyRows(s)' \subseteq SurveyRows(s)
       /\ SurveyLinks(s)' \subseteq SurveyLinks(s)
       /\ \A x \in SurveyRows(s) \ SurveyRows(s)' : TakenToDraft(x)
       /\ \A i \in Stored :
             links[i].survey = s /\ links'[i] # links[i] =>
                \/ links'[i] # None /\ status[links'[i].survey] = "draft"
                \/ \E e \in Ends(links[i]) : Of(e) # s

\* docs/architecture.md:89, "Only draft surveys can have their structure modified",
\* as far as it holds with the site in use.  A published or archived survey gains
\* nothing, and what leaves it was taken to a draft by a form, or is a link that
\* had an end in another survey and went with it; the exceptions are the action
\* delete_selected and a survey form that asks for another status.
ClosedStaysPut == [][\A s \in Surveys : Closed(s) /\ Closed(s)' => StaysPut(s)]_vars
=============================================================================

# Verification of the survey platform

TLA+ models of the survey platform (Django REST Framework, PostgreSQL, Redis,
Celery), checked with TLC on small instances and proved with TLAPS for every
instance. The models are translated from the code under `src/apps`. Nothing here
is generated; `PROJECT.json` maps every definition to the lines it stands for.

## The system

| component | code | state it keeps | operations |
|---|---|---|---|
| survey lifecycle and structure API | `surveys/views.py`, `services.py`, `models.py`, `serializers.py` | rows of `surveys` (with `status`), `survey_sections`, `survey_fields` | create, PATCH/PUT, delete on each; the status machine draft -> published -> archived |
| rules and dependencies (builder) | the same files | rows of `conditional_rules`, `field_dependencies` | create, update, delete; validation of targets, order, cycles; revalidation when fields or sections change |
| visibility, dependencies and answer validation | `surveys/services.py`, `responses/services.py` | none (pure functions) | `get_visible_sections`, `get_visible_fields`, `resolve_dependencies`, `validate_submission` |
| response submission | `responses/views.py`, `responses/services.py`, `responses/models.py` | rows of `survey_responses`, `field_responses` | submit |
| structure cache | `common/cache.py`, `surveys/cache.py`, `retrieve()` | one Redis key per survey | get, set, invalidate, expiry |
| audit trail | `audit/signals.py`, `middleware.py`, `tasks.py` | thread-local request, Celery queue, `audit_logs` | a task per save or delete of a tracked model |
| response listing, detail | `responses/views.py`, `responses/serializers.py` | none (an audit entry each) | read, decrypt |
| admin site | `*/admin.py` | the same tables | forms with lines, `delete_selected` |
| accounts, roles, JWT | `accounts/` | `users` | register, list, edit; the user pages of the admin site; permission classes |
| exception handler | `common/drf_exception_handler.py` | none | 400 for an `IntegrityError`, 500 for what nobody caught |
| settings, containers, load test | `config/`, `locustfile.py` | none | - |

How they interact: every view works on the shared tables in autocommit mode
(`ATOMIC_REQUESTS` is not set), from four gunicorn workers, so any two requests
interleave between any two statements. The write requests commit to PostgreSQL
and delete a Redis key, in an order that depends on the operation; `retrieve()`
reads Redis, then PostgreSQL, then writes Redis. Submissions read the survey, the
fields and the structure in separate statements and end in one transaction.
Deleting a survey, section or field reaches the responses by `on_delete=CASCADE`.
Saving a tracked row sends a Celery task from inside the request, and from inside its
transaction when it has one. The admin site writes to the same tables with checks of
its own, over all surveys.

What is hard here: lost updates (rows are loaded, checked in memory and saved
whole, without locks or versions), checks separated from the writes they guard,
the two stores of the cache-aside pattern, cascades racing insertions, the unique
index as the only arbiter between two submissions, partial bodies validated without
the row they are merged into, two sets of forms with different checks, a task queue
outside the transaction, and errors that arrive in the middle of a request. `PROJECT.json` lists each of these at its line under
`hazards`, with the properties about it.

What makes each component correct:

- lifecycle: the status only moves forward; the structure of a published survey
  does not change and has no empty section; no row outlives its parent.
- submission: one response per user and survey, all or nothing, only for a
  published survey, stored encrypted where the field says so; a truthful reply;
  every request ends.
- cache: what is served is not older than a known bound, is what its reader's role
  may see, and becomes the current structure once writes stop.
- rules: one target per rule, dependencies point backwards, no cycle.
- evaluation: a target is visible exactly when it has no rule or one that holds, and a
  submission is judged by what its author was shown.
- field definitions: the conditions and actions that are stored suit the type and the
  options of the fields they are about.
- admin site: rules and answers stay with the fields of their survey, and a survey that
  is not a draft keeps its structure.
- audit trail: one entry for each committed change, about that change, naming who made
  it, or a failure that explains why there is none.
- accounts: served is who the documentation says, an edit changes what it names, and
  somebody can always manage the accounts.

## Modules

| module | models | kind |
|---|---|---|
| `SurveyStatus` | the status values and their allowed transitions | pure operators |
| `SurveyTree` | the rows below one survey, what a complete survey is | constants and pure operators |
| `SurveyContract` | what the administration promises, one atomic step per request | abstract specification |
| `SurveyEnvironment` | what is left of that promise when requests overlap | abstract specification |
| `SurveyLifecycle` | the write requests statement by statement, by several workers | detailed specification, refines `SurveyEnvironment`, and `SurveyContract` when requests do not overlap |
| `SurveyLifecycleProofs` | theorems about it | proofs |
| `SubmissionContract` | what POST submit promises: one atomic step that stores all or nothing and answers truly | abstract specification |
| `Submission` | POST submit statement by statement, composed with `SurveyEnvironment` for the administrators' side | detailed specification, refines `SubmissionContract` |
| `SubmissionProofs` | theorems about it and about `SubmittedAnswers` | proofs |
| `SurveyCache` | one survey's cache entry, its readers and writers, with time | specification |
| `SurveyCacheProofs` | theorems about it | proofs |
| `FieldGraph` | graphs over fields: acyclic, reachable, a cycle that can be reached | pure operators |
| `RuleBuilder` | rules and dependencies: validation, search by reachability, storage; reordering of sections and fields | specification, extends `FieldGraph` |
| `CycleSearch` | the depth-first search, one recursive call a step | variables and actions, extends `FieldGraph` |
| `RuleSearch` | `RuleBuilder` composed with `CycleSearch` | detailed specification, refines `RuleBuilder` while requests do not overlap |
| `RuleBuilderProofs` | theorems about the three | proofs |
| `Conditions` | conditions over answers, visibility, active dependencies | pure operators |
| `AnswerValidation` | `validate_submission` on one submission | specification, extends `Conditions` |
| `SubmittedAnswers` | the same over the sections and fields of `SurveyTree`, with its properties | instance of `AnswerValidation` |
| `FieldChanges` | types, options and validation rules of fields under the rules and dependencies that name them | specification, extends `Conditions` |
| `FieldChangesProofs` | theorems about it | proofs |
| `AdminSite` | several surveys under the forms of the admin site beside the API | specification, extends `SurveyStatus` |
| `AdminSiteProofs` | theorems about it | proofs |
| `AuditTrail` | middleware, signals, broker, Celery workers | specification |
| `AuditTrailProofs` | theorems about it | proofs |
| `Accounts` | permissions, registration, edits and deletions of accounts | specification |
| `AccountsProofs` | theorems about it | proofs |
| `MC*` | the small instances | TLC |

### SurveyTree, SurveyContract and SurveyEnvironment

A row is a `Section` (parent: the survey) or a `Field` (parent: a section). A
primary key is never reused and the API never changes a parent, so `Parent` is a
constant; `issued` remembers the keys handed out. `rows` is the set of existing
rows, `status` the column of the survey row, with `unborn` and `deleted` for a
survey that has no row. The content of a row is one bit (`marked`); an edit flips
it. For a field, `Submission` reads it as `is_encrypted`.

`SurveyContract` is the documentation's view of the administration. `SurveyEnvironment`
has the same variables and gives up what overlapping requests break: the structure changes
in any status (`Add`, `Edit`, `Drop`), a survey is published that has become incomplete
(`Advance`), and a copy of the survey row that is out of date is written back, over a
later status or over the deletion (`Overwrite`). It keeps the foreign keys, the keys that
are never reused and the deletion of everything at once.

### SurveyLifecycle

`req[w]` is what worker `w` holds in memory: the control location, the operation,
the row or parent it works on, the status column as it was loaded (`snap`), the
status asked for, and the rows Django's `Collector` gathered (`seen`). Between two
locations lies exactly one database statement (or group of reads, see below):

- PATCH/PUT of a survey: `LoadSurvey` (`get_object`), `ValidateStatus`
  (`validate_status` -> `transition_to`: allowed transition, completeness),
  `TransitionSave` (`save(update_fields=["status"])`, inside `is_valid()`, before the
  other columns are known to be valid), `SaveSurvey` (`serializer.save()`: UPDATE of
  every column from memory, or an INSERT when the row is gone).
- section and field requests: `LoadRow`, `GetSurvey` (the draft check on the row it
  has just read), then `InsertRow`, `EditRow`, or `Collect` and `DropRows`.
- DELETE of a survey: `LoadForDelete`, `Collect`, `DropRows`, with no draft check.
- `Abandon`: the request ends early (a constraint, a killed worker, an exception of
  the audit dispatch).

PostgreSQL's foreign keys are modelled from how they are used: an insertion below a
missing row fails; a deletion fails at commit when a child was inserted after
`Collect`. Two abstractions of granularity: the two SELECTs of the completeness
check (sections, then their fields) and the SELECTs of one `Collector` are one step
each. One survey is modelled: no request of the API writes rows of two (the forms of
the admin site do, see `AdminSite`).

### Submission

`post[q]` is what a submission holds in memory: its control location, the field ids
it offers, the `is_encrypted` flags as read (`secret`), the answers that
`validate_submission` returned (`cleaned`). The tables are `responses`, `answers`
and `sealed` (the answers stored as a Fernet token). The unique index behaves as
PostgreSQL's: an insertion waits while an open transaction holds the key
(`KeyHeld`) and conflicts with a committed row (`KeyTaken`). Foreign keys are
deferred, so they are checked by `Commit`.

The administrators act through the actions of `SurveyEnvironment`, extended by the
cascade to responses and answers, and thereby do whatever their overlapping requests can
do (`SurveyLifecycle` refines `SurveyEnvironment`). Two history variables tell the steps
apart that an overlap is needed for: `late` collects the rows that are added, edited or
dropped outside the first draft (`LateRequest`: the draft check was made before the
publication), and `undone` what a stale copy of the survey row has undone, its `status`
or its `deletion` (`SaveStaleCopy`). `Administer` is everything else. The properties say
by these what an overlap can spoil: an answer's encryption only for a late row, "already
submitted" only for a late row or a deletion, and a response in a draft only after a
stale copy was saved. `LateRows` and `Undoings` bound the two for TLC; with all rows and
both undoings nothing of `SurveyEnvironment` is left out (`NothingLeftOut`).

### SurveyCache

The structure is a version number which every committed write increases. `entry` is
the Redis key's content with its age and the view (`full`, or `filtered` for other
roles) it was serialized for. Four kinds of write: `update` (commit, then invalidate:
create and update views), `drop` (invalidate, then commit: `delete_section`,
`delete_field`, `delete_conditional_rule`, `delete_field_dependency`), `silent`
(commit only: a PATCH that changed the status and was then refused, and the
`delete_selected` action of the admin site), `destroy` (the survey: `instance.id` is
`None` after `delete()`, so another key is invalidated). Requests age and are killed
at `Timeout`; the entry expires at `TTL`. `excused` and `superseded` are history
variables of the properties. The status filter that hides unpublished surveys from
customers is left out: it can only make `StartRead` fail. One key is modelled, the one
the writers invalidate. `retrieve()` builds the key from the primary key as the URL spells
it, so that `/surveys/01/` has an entry of its own, which no write deletes: for that key
every write is `silent`, and `BoundedStaleness`, which holds for every choice of
`WriteKinds`, is what is left.

### RuleBuilder, CycleSearch and RuleSearch

A conditional rule and a field dependency are both a link: a source field `src` that
decides about a section `sec` or a field `fld`. A behaviour follows one of the two
tables (`kind`): their checks are the same, and they meet only in
`validate_cr_fd_conflict`, which compares options and can only refuse. `place` and
`secOrder` are the order columns. A request has three moments: `Validate`
(`is_valid()`), `Search` (`detect_circular_dependencies_*`) and `Store`.

A body has the value `Absent` for a key the request did not send; only a PATCH (or a
PUT, for the nullable targets) has such keys. The validators look at the keys of the
body and never at the row, and `save(update_fields=...)` writes only those keys
(`Merged`). `Search` is skipped when a rule's body names no target field; without
`depends_on_field` (or, for a dependency, without either field) the code reads an
attribute of `None` and the request ends. The admin form sends every column and
re-inserts a row that is gone. A rule can only be created by the form: the API's
`perform_create` uses `self.survey`, which nothing sets, and answers 500.

The order changes in three ways: `LoadSection`/`MoveSection` (`update_section`:
revalidates every link in the transaction unless the new position is the one it
loaded), `MoveField` (`update_field`: revalidates nothing when only the order
changes) and the admin forms (nothing is revalidated; a field may also change its
section). `Cascade` is the deletion of a section or field; the field stays in
`Fields`, as if no later request named it.

What the search answers is stated in `RuleBuilder` by reachability
(`CycleReachable`). `CycleSearch` has `has_cycle` itself: `visited` and `path` are the
sets its recursive calls share, `calls` the nodes of the calls that are open, `ahead`
what the loop of each has still to go over. A step is `Follow` (the innermost loop calls
`has_cycle(next)`: it returns at once, or enters the node) or `Return` (the loop is over,
`path.discard`, FALSE); a TRUE ends all the calls. Python iterates over a set, so the
neighbours come in any order. `RuleSearch` puts this in place of `Search`: `StartSearch`
builds the graph from the rows, `EndSearch` acts on the answer, and a request may be
killed in between (`Abandon`). The search works in memory only, on one list of rows read
at its start, so nothing another request does can reach it; it is followed where requests
do not overlap (`SearchingSpec`), and there `RuleSearch` refines `RuleBuilder`
(`ImplementsBuilder`).

Three restrictions of `Spec` are looked at. Under `SerialSpec` (proved about, and checked with
the search in it) a
request has the survey to itself, while anything may be moved between requests. Under
`CalmSpec` (proved about) requests about links overlap in every way, but no field is
moved, no form is used, and a request that reorders sections has the survey to itself.
Under `ApartSpec` (proved about) requests overlap in every way and everything may be moved at
any time, but no request is searched while another one is between its search and its
storage. Outside all three, two requests that each search before the other stores can close
a cycle (two creations around a `MoveField`).

### Conditions and AnswerValidation

A JSON value is the text `str()` gives, whether it is a list, and the texts of its
items; which texts are numbers, contain one another or are blank is given by
constants (`Number`, `Substrings`, `Blank`), so that `nan`, `[]` and a list searched
by `contains` behave as in Python. Booleans and infinities are left out (the float of
`true` is not that of its text). `HoldsOf` has the six operators, `VisibleFields` the
section-by-section loop of `validate_submission`, `Modifications` the active
dependencies. Of the format checks, lengths, regular expressions and e-mail and date
formats are one set of fitting texts per field (`Pattern`).

`AnswerValidation` runs the loop over the visible fields in any order (it iterates
over a Python set) and keeps, skips or refuses each one. Conditions are evaluated on
the raw answers, those of hidden fields included, and never on each other's result:
evaluation is one pass, so a cycle among rules cannot make it loop. A `set_value`
dependency changes nothing at submission.

`SubmittedAnswers` instantiates the module over the sections and fields of `SurveyTree`,
with `Root` for a null target. An accepted validation's result is one of the choices that
`Validate` of `Submission` leaves open (`KeptIsAChoice`), so that `Submission` covers
every set of rules without carrying one.

### FieldChanges

`fields[f]` has the three columns that conditions are compared with: the type, the
options, and the keys of `validation_rules`. `rows` are the conditional rules and the
dependencies; a rule is a row without a dependent field. A body has `Absent` for a key
that was not sent. The validators are translated as they are: `Coherent`
(`validate_field_options`, `validate_validation_rules`), `OperatorFits`, `ActionFits`,
`Hides` (`validate_cr_fd_conflict`).

A request on a field is `LoadField` (`get_object`, `is_valid`: the body completed with
the loaded columns), `SaveField` (the UPDATE, after which the row is locked, and
`_revalidate_rules_for_field` when the type or the options differ from those loaded)
and `CommitField`. A request on a rule or dependency is `Validate` (each check only when
all its operands are in the body) and `Store`. `FieldForm` is the admin site's: one
transaction, no look at the rules. Which rows may name which fields is `RuleBuilder`'s.

`loose` is the history variable of the properties: the pairs of a row and a check that
were stored without that check, or by a request that another one overtook (wrote what
it had read). The properties say that nothing else makes a condition unfit.

### AdminSite

Several surveys, each with a `status`; `home` and `place` are the foreign keys of
sections and fields, which the forms, unlike the API, can change; `links` are rules and
dependencies with their `survey` column; `answers` are the stored answers as pairs of a
survey and a field. One request is one step (the forms run in one transaction; what
interleaves is in the other modules). What is modelled closely is which object a check
looks at:

- `SurveyForm`: `save_model` and `save_formset` look at the object into which the form
  has already written the chosen status (`InMemory`). `transition_to` therefore starts
  from the status it is asked for and always refuses, and the draft check of the section
  lines passes for a closed survey when the choice sent is `draft`
  (`FormKeepsStatus` and `FormEffect` in the proofs).
- `SectionForm`, `FieldForm`: the survey that is checked is the one the row goes to.
- `DeleteSelected`: no method of the admin classes is called, so nothing is checked.
- `PatchRule` (API): without `depends_on_field` the target section is compared with
  nothing, not even the survey of the URL.

`moved` remembers the rows a form has put below another parent. A free name stands for
the next primary key.

### AuditTrail

An operation is `save` (an autocommitted `save()` of a tracked model), `account` (of an
untracked one), `atomic` (inside a transaction that goes on) or `view`. `asked` records
how it came: kind, owner of the token (`bearer`), owner of the session (`cookie`).
`local` is the thread-local user, written by `Begin` (the middleware) and never cleared;
`fate` is what became of the write. `Dispatch` appends to the broker's `queue`, inside
the transaction when there is one; `DispatchFails` is an unreachable broker (the
exception handler answers 500, and an autocommitted write stays). `Take` acknowledges
the task; `Record` inserts the entry, which fails when the account is gone; `GiveUp` is
any other failure, after which nothing is retried. `Fails` rolls a transaction back after
its task was sent. `Crash` is a worker process that dies. `lost` remembers what was given
up. An operation makes one tracked write; a cascade, which makes several, is several
operations of one request in this respect.

### Accounts

`req[w]` is a request from its authentication on: `Arrive` reads the account of the
token and applies the permission class of the view to the role it has (`admitted` or
`refused`), `Load`/`OpenForm` read the account to edit, `Check` validates the body
against the other rows, `Update`/`Insert` write every column. The user pages of the
admin site are op `form`. The other components' operations appear in `Arrive` only.
`stale` marks an edit whose account was written after it was read; `abdicated` remembers
that a sender wrote its own account or wrote after losing the rights it was served by.
Addresses have a normal spelling (`Normal`), which only registration enforces.

## Runs

| run | specification | bounds | shows |
|---|---|---|---|
| `lifecycle_serial` | `SerialSpec` | 2 workers, 2 sections, 3 fields | the statements refine `SurveyContract`; a published survey is and stays complete |
| `lifecycle_concurrent` | `Spec` | 2 workers, 2 sections with a field each | foreign keys hold; only a stale copy moves the status backwards; the statements refine `SurveyEnvironment` |
| `submission` | `FairSpec` | 2 submissions of one user, 1 section with 2 fields, late requests on one field, stale copies of both kinds | the statements refine `SubmissionContract`; all of the submission properties |
| `cache` | `FairSpec` | 2 readers, 1 writer, 2 writes, TTL = Timeout = 1 tick, all kinds | causes and bound of staleness, convergence |
| `cache_roles` | `Spec` | the same, updates only | **violated**: one key for two views |
| `rules` | `SearchingSpec` | 3 fields, 2 sections, 2 rows ever, 2 field and 3 section positions | no cycle among dependencies and single-target rules; only forms turn a link forward; the search, call by call, answers by reachability |
| `validation` | `ValidationSpec` | 3 fields of three types in 2 sections; every set of at most 2 of 8 rules and of 4 dependencies; 100 submissions | what is kept, what is refused, whatever the order of the fields |
| `fields` | `Spec` | 2 workers, 2 fields, 1 rule, 1 dependency, 5 field bodies, 6 row bodies | by what a stored condition can come not to suit its field |
| `admin` | `Spec` | 2 surveys, 2 sections, 2 fields, 1 link | which rules and answers leave their survey; how a closed survey changes |
| `audit` | `Spec` (fair) | 2 operations, 1 user, 2 threads, 2 Celery workers | one entry each, phantoms, actor, arrival |
| `audit_actor` | `Spec` | the same | **violated**: a change made with a token is logged without its user |
| `accounts` | `Spec` | 2 accounts, 2 workers, 1 address in two spellings | who is served, what an edit changes, a manager remains |

Why the bounds are enough: two workers and two submissions of one user give every
pairwise race, which is what each check-then-act in the code is about (the proofs
cover any number). Two sections, one of them possibly without fields, tell complete
from incomplete; a second field in a section tells a dropped field from a dropped
section. The cache needs two readers so that one can hold an old result while the
other fills the key, and two versions after the first so that a stale entry can
itself be superseded; ages are compared only with `TTL + 2 * Timeout`. Three fields in
two sections give links within a section and across sections, and a spare section
position allows moving to and fro; two rows suffice for a cycle, and for an edit of one
beside the other (the theorems hold for any number). In `validation` two rules on one
target distinguish any from all, on a section and its field the two levels of
visibility, and two dependencies on one field whether all of them restrict it. In
`fields` one rule and one dependency meet on the same field, as source and as target, and
the bodies have each kind of omission, a type with and one without options, and a
validation rule; two requests overlap in every way. In `admin` two surveys with two
sections and two fields allow a row to leave a survey for another while its rule or answer
stays; the link may be any record, so every kind of rule occurs. In `audit` two operations
through two threads and two workers share a thread, the queue and a worker, in either
order; one user beside the anonymous one tells the right name from a missing one, and the
theorem covers several. In `accounts` two accounts suffice for mutual demotion and for a
key that could be given out twice, and two spellings for one collision. No
symmetry is used where liveness is checked. The deadlock check
is off in `validation` (a validation ends), in the runs of `AuditTrail` (the operations
are used up), and in `admin` and `fields`, where nothing waits for anything.

The two violated properties are statements of the documentation; the counterexamples
are described in `PROJECT.json` under `findings`.

### What a property excuses

Where the code lets a hazard happen, the property about it names the steps by which it
happens and says that there are no others. It does not catch the hazard itself:

| property | excuses | what is left to it |
|---|---|---|
| `ClosedStaysPut` | `delete_selected`, and survey forms that ask for another status; what a form took to a draft | a closed survey gains nothing and loses nothing otherwise |
| `StoredRowsFit` | partial bodies, requests that were overtaken, field forms (`loose`) | every other stored condition and action suits its field |
| `FieldsCoherent` | a field written by a request that was overtaken (`loose`) | merged partial updates stay coherent otherwise |
| `HiddenOptionsUnasked` | rules that come after the dependency, partial bodies, overlaps (`loose`) | a dependency that comes later hides nothing that is asked for |
| `OnlyRollbacksArePhantoms` | transactions that are rolled back after the signal, or still open | no other entry is of a change that was not made |
| `OnlyNamedUnlessStale` | edits whose account was written after they read it (`stale`) | an edit changes the columns it names |
| `ManagerRemains` | senders that wrote their own account, or were served after they had lost their rights (`abdicated`) | nobody else removes the last manager |

`PublishedComplete`, `SingleTargetAcyclic` and `OnlyFormsTurnForward` are checked while
requests do not overlap, and do not hold in general when they do; for the second the
theorems `CalmAcyclic` and `ApartAcyclic` say under which overlaps it does.

### What the models show beside the runs

Some statements of the documentation or of comments are not true of the code, and the
properties above are worded around them. TLC finds each of these traces at once when the
stronger statement is checked in place of the weaker one:

- "Transitions are forward-only" (`models.py:29`): a PATCH of the title that loaded the
  draft writes `status` back over a publication (`SaveSurvey`). Hence
  `BackwardOnlyFromStaleCopy`.
- "Publishing requires at least one section with at least one field"
  (`architecture.md:89`): a section inserted between the completeness check and the write
  of the status is published empty. `PublishedComplete` holds under `SerialSpec` only.
- "subsequent retrieve calls return fresh data" (`surveys/views.py:8`): a GET that read
  before an update and stores after its invalidation leaves the old structure for the
  whole `SURVEY_CACHE_TIMEOUT`. Hence `StaleEntryHasCause` and `BoundedStaleness`.
- "No self-reference or circular dependencies" (`api-reference.md:294`): a PATCH of a
  rule that names a section and a source keeps the old target field, skips the cycle
  search, and may make the rule depend on its own target. Hence `SingleTargetAcyclic`.
- "Ensures all required visible fields have values" (`responses/services.py:124`): the
  text of an empty list is `[]`, which is not blank; a required checkbox list is accepted
  empty. And `nan` passes both `min` and `max`.
- "Only draft surveys can have their structure modified" (`architecture.md:89`): the
  exceptions are spelled out in `ClosedStaysPut`.
- A survey's status cannot be changed by the admin form at all (`FormKeepsStatus`).
- A hidden option may be asked for by a rule that is stored after the dependency:
  `validate_cr_fd_conflict` is called in one direction only. Hence
  `HiddenOptionsUnasked`.

Fairness. `Submission`: a worker that has begun a request takes its next step
(gunicorn runs every worker; PostgreSQL wakes a waiter when the holder of the key ends
its transaction); nothing is assumed of clients, administrators or crashes.
`SurveyCache`: time passes, Redis expires keys, and a begun request goes on or is
killed. `AuditTrail`: a thread goes on with its request and a Celery worker takes and
records tasks (gunicorn and Celery start again what has died); clients, failures and
crashes owe nothing. No fairness is assumed for safety properties. The other modules state
none: they have no liveness property.

## Proofs

`tlapm` checks every obligation of the eight proof modules, for any tree of rows
(`TreeAssumption`), any set of workers, requests and users (`PostsAssumption`), any
lifetime and timeout (`CacheAssumption`), any fields, sections, positions and number of
links (`BuilderAssumption`), any survey, rules, dependencies and answers
(`ValidationAssumption`), any bodies a request may have (`ChangesAssumption`), any number
of surveys (`AdminAssumption`), any operations, users, threads and workers
(`NoneIsNoUser`), and any users, addresses and bodies of an edit (`AddressesNormalise`,
`BodiesNameColumns`, `NoneIsNothing`). The assumptions say that the sets of names
are disjoint and the constants of their types, and of addresses that the normal spelling
of a normal spelling is itself; TLC evaluates them in the runs.

`SurveyLifecycleProofs`:

- `TypeCorrect`, `Referential`: the inductive invariant `LocalInv` adds to the types
  what a request remembers (`Remembered`): the row of an `add` is a section or the
  root, what `Collect` saw lies in the subtree, a request at `transition` wants an
  allowed transition. Referential integrity is then inductive: `DropRows` is the only
  step that removes rows, and its guard is the deferred foreign-key check.
- `OverlappingImplementsEnvironment`: for overlapping requests, with no assumption but the
  tree. A statement that writes the status advances it, leaves it, or is an `Overwrite`. A
  deletion takes exactly the subtree: `Collect` saw nothing outside of it (`Remembered`)
  and the foreign-key check refuses it when there is more inside. A row or survey that is
  gone has nothing left below it (`NoSurveyNoRows`), so that deleting it again is a stutter.
- `BackwardOnlyStale`: each step that writes `status` is examined; a `transition`
  from an up-to-date `snap` is in `AllowedTransitions`.
- `SerialPublishedComplete`, `SerialImplementsContract`: `SerialInv` adds `Fresh`: the
  one request in progress has a current copy (`snap` is the status, what it saw is what
  is there, the survey is a draft when it writes to the structure, and complete when it
  is about to be published). It is not true when requests overlap: that is where the
  first two traces of the list above come from. The refinement maps each writing statement to one contract
  operation and the rest to stutters.

`SubmissionProofs`, about `Submission`:

- `SubmissionInv` conjoins the safety properties with what makes them inductive:
  `BegunAfterPublication` (a request in flight saw a published survey, and there is no way
  back into the first draft), `KeyExclusive` (while a request holds the index key no other
  row or holder of that user exists), `SecretsCurrent` (the flags in memory are those of
  the rows no late request touched), `CleanedIntact` (the accepted answers have their
  fields unless something was deleted). One lemma per group of actions; `MemoryStepInv`
  serves all steps that change only local state, and `Recorded` says of all three actions
  of the administrators' side what the histories keep of them.
- `SubmissionIsOneStep`: the refinement of `SubmissionContract`. `Commit` is the one step
  that stores: `KeyExclusive` gives the guard of the contract's `Accept`,
  `BegunAfterPublication` the status and `SecretsCurrent` the tokens. Each reply that is
  not 201 is a `Refuse`, true when it is given (`DuplicateReplyIsTrue`); each step of the
  administrators is a `SurveyChanges` by its cascade; the other steps are stutters. With
  `OverlappingImplementsEnvironment` and `NothingLeftOut` this links both sides of the
  system, each statement by statement: what is promised to a customer holds beside
  every overlap of the administrators' requests that `SurveyLifecycle` describes.

and about `SubmittedAnswers`: `ValidationInv` adds `Progress` to the types, what the loop
has established for the fields already checked: each is kept when answered and fitting, an
error when it is not, and skipped when blank and optional. `VisibleAreShown` proves that the
section-by-section loop finds the fields that are `Shown`. `VerdictTrue`,
`OffersRespected` and `ValidationTyped` follow from it.

`RuleBuilderProofs`:

- `TypeCorrect`, for overlapping requests too.
- `SerialAcyclic`. Storing one link adds one edge, from its target. `SearchSound` is the
  core: when the search of the proposed graph from that target found nothing, the new
  edge closes no cycle in any acyclic part of the graph (a cycle would have to use the
  new edge, hence be reachable from its target); the single-target links are that part.
  `SingleTargetWasSent` shows that what a request stores as a single-target link has exactly the fields it searched with, although a
  PATCH stores only its keys: a missing target field is `Kept` from a row whose section
  the body then sets. The invariant carries, for the one request in progress, that its
  search was passed; order plays no part in it, which is why reordering cannot break it.
- `SerialForward`: a link is stored in order (`Accepted`, under an order that cannot
  change between `Validate` and `Store`), `MoveSection` revalidates under `OrderKnown`
  (the position it loaded is the current one), and the other steps do not touch the
  order of sections.
- `CalmOrdered`, `CalmAcyclic`: under `CalmSpec` requests about links overlap, so that a
  search proves nothing about what is stored later. `CalmInv` has instead the order:
  what a request was accepted under still holds when it stores (`CalmKnown`), hence
  every stored link is in order, and `InOrderAcyclic` picks from any set of fields the
  one that comes first, which depends on no other of them.
- `ApartAcyclic`, under `ApartSpec`: the window from search to storage is the only one that
  matters. A request in it was searched in the rows as they are, or in more
  (`StillPassed`): rows only go while it is in there, and fewer edges make no more cycles
  (`ReachesLess`). So a lock around those two statements would be enough, and `SerialSpec`
  and the order of the fields are not needed for it.
- `NeverItself`, under `Spec`: beside every overlap and every move no single-target link
  has its own source as its target. What this check needs is in the body, which nobody
  else can change (`BodyChecked`); the order and the search need the other rows, and
  under `Spec` their results do not last.
- `SearchAnswersTrue`: has_cycle against reachability. `SearchInv` says that the path is the
  open calls, each made by the one before (`OnPath`), that what a loop has passed was
  left, or is the call it waits for (`LoopPassed`), and that the nodes that were left lead
  only to one another and have no cycle among them (`LeftFree`). So the call that meets a
  node on the path closes a cycle that can be reached (`MetAgain`); a node is left after
  all it leads to, which adds no cycle to those left (`ReturnInv`); and when the outermost
  call returns FALSE all that can be reached was left. That no node is entered twice is
  what makes this worth a proof: it is right only because a node met again is either on
  the path or left.
- `SearchAdvances`: every step enters a node for good, takes a neighbour off a loop or
  returns, so that with finitely many fields the recursion ends, on rows that have cycles
  already, too (two-target rules may).
- `SearchImplementsBuilder`: the request that waits for the search is the only busy one, and
  the graph is still that of the rows (`Asked`); `EndSearch` is then `Search`, and the
  steps of the search are stutters. `SearchingSafe` carries the theorems about
  `SerialSpec` over to the specification of the run.

`SurveyCacheProofs`: `CacheInv` adds to the types and `StaleEntryHasCause` that no version
is superseded before a later one is committed (`NewestCurrent`), that the age of what a
reader holds is bounded by the age of its request, and by `TTL + Timeout` more when it
came from the cache (`DataYoung`), and that an entry was at most one request time old when
it was stored (`EntryYoung`). `BoundedStaleness` is their sum.

`FieldChangesProofs`: `ChangesInv` adds `Pending` to the types and the three properties: a
request that nobody overtook holds the columns as they are, its result is coherent, and
every row that is stored fits it when it has looked; a row request has had its checks made
against the tables as they are. The one step that needs thought is `Store`: which checks a
changed row is exempt from (`Concerned`), and which it has had (`Checked`).

`AdminSiteProofs`: `TypeOK` with the two parts of `NamesStayWithin` is inductive;
`Survivors` says what a cascade leaves where it was. `FormKeepsStatus` and `FormEffect`
reduce the survey form to an insertion, a deletion or nothing. `ClosedFrozen` then goes
through the actions that can touch the rows of a survey that is closed before and after.

`AuditTrailProofs`: `AuditInv` adds `InService` (the thread-local user is that of the
request in service, its write has got as far as it has, its task was not sent before
`Dispatch`) and `TasksNameSender`. `OneEntryEach` follows an operation from place to place;
two lemmas describe `Append`, `Head` and `Tail` as changes of the set of queued operations.

`AccountsProofs`: `AccountsInv` is `TypeOK` (no two accounts share an address) and
`ManagerRemains` with what a request in progress knows: who was admitted was admitted by
the matrix for the role it then had (`Admitted`), a request holds another account only
when it was served as a manager's, and only under a key that was given out
(`Authorised`), and the row that an edit nobody overtook has in memory is the row in the table (`RowCurrent`).
`WriteMarks` says which requests a write makes stale, and `Written` is the one lemma
through which `Update`, `Delete` and `Insert` keep the invariant. `MatrixTrue`,
`EditsNameTheirColumns` and `ManagerStays` are the properties of the run.

Only model-checked: the liveness properties `EverySubmissionAnswered`, `EventuallyFresh` and
`EntriesArrive` (liveness under fairness is out of the prover's reach). Every other
property of a passing run is a theorem. That a search comes to an end is a liveness
property too, and no run states it; what a proof can say of it is `SearchAdvances`.

## Plan

Done, in this order: the lifecycle, the submission, the cache, the builder, the
evaluation; then the admin site, the field definitions, the audit trail, the accounts, and
the proofs about them and about the cache; then the two refinements that link the
lifecycle and the submission, and the proofs about the validation over the survey tree
and about the accounts; last the cycle search as a state machine, its proof, and the
refinement of `RuleBuilder` by it. Left, most important first:

1. The forms of `AdminSite` interleaved with the statements of API requests.
2. More about the order of the links when requests overlap than `CalmOrdered` says.

## Not modelled

- Two observations on the views that need no model: `ConditionalRuleViewSet.
  perform_create` uses `self.survey`, which nothing sets, so creating a rule through the
  API answers 500 and stores nothing; and `perform_destroy` of a survey invalidates the
  key of `None` (modelled as `destroy`).
- What the response listing and detail views show; SimpleJWT's tokens, passwords and
  logins; the wording of error bodies.
- The forms of `validation_rules` values, of orders and of lengths: a request they refuse
  is one that stops.
- `CacheService.get_or_set`, `IsDataAnalyst` and `IsDataViewer` have no caller.
- The deletion of a customer's account under its submission: the admin site refuses it
  while there are responses, and the submission that loses the race would be told that it
  was already submitted, as for any other missing foreign key.
- Redelivery by the broker and the retries of `delay()`. The task is acknowledged before it
  runs, so Redis's visibility timeout can only hand out again what no worker has
  acknowledged yet; a publication that is retried after a lost confirmation could leave two
  entries of one change, and `OneEntryEach` does not cover it.
- Cryptography: a value is a token or not.
- Settings, containers, load test: configuration and clients. `Timeout` is gunicorn's
  default worker timeout, as no option sets it.

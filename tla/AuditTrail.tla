----------------------------- MODULE AuditTrail -----------------------------
(***************************************************************************)
(* The audit trail: a middleware notes who sends the request, the signals  *)
(* of the models and the views of the responses hand a task to the broker, *)
(* and Celery workers write the entries.                                   *)
(*                                                                         *)
(* An operation is named by an element of Ops, used once.  A thread serves *)
(* one request at a time; a process may die at any moment.  The broker     *)
(* keeps its queue (the volume of redis); a task is acknowledged when a    *)
(* worker receives it, and no failure is retried.                          *)
(***************************************************************************)
EXTENDS Sequences, Naturals

CONSTANTS Ops,        \* bound: the operations of a behaviour
          Users, Threads, CeleryWorkers,
          None        \* no user: anonymous, or NULL in the column

ASSUME NoneIsNoUser == None \notin Users

\* save: one autocommitted save() of a tracked model.  account: of the model User.
\* atomic: a write inside a transaction that goes on after it (update_section,
\* update_field, create_submission, the forms of the admin site, every deletion).
\* view: a list or detail of responses.
Kinds == {"save", "account", "atomic", "view"}

\* Without the rows that are written in a transaction.
TrackedButAtomic == {"save"}

\* _TRACKED_MODELS
Tracked == {"save", "atomic"}

VARIABLES users,     \* the accounts that exist
          req,       \* the request of each thread
          local,     \* _thread_local.current_user; stays when the request is over
          asked,     \* history: kind, bearer and cookie of each operation
          fate,      \* of the write: "none", "open", "committed" or "rolledback"
          queue,     \* the tasks at the broker
          running,   \* the task of each Celery worker
          entries,   \* audit_logs
          lost       \* history: the operations whose task was given up

web == <<req, local, asked, fate>>
celery == <<queue, running, entries>>
vars == <<users, web, celery, lost>>

Idle == [pc |-> "idle"]
Request == [pc : {"routed", "written", "sent"}, op : Ops]
Question == [kind : Kinds, bearer : Users \cup {None}, cookie : Users \cup {None}]
Task == [op : Ops, user : Users \cup {None}]
NotAsked == [kind |-> "none"]

TypeOK ==
    /\ users \subseteq Users
    /\ req \in [Threads -> {Idle} \cup Request]
    /\ local \in [Threads -> Users \cup {None}]
    /\ asked \in [Ops -> {NotAsked} \cup Question]
    /\ fate \in [Ops -> {"none", "open", "committed", "rolledback"}]
    /\ queue \in Seq(Task)
    /\ running \in [CeleryWorkers -> {Idle} \cup Task]
    /\ entries \subseteq Task
    /\ lost \subseteq Ops

Init ==
    /\ users = Users
    /\ req = [t \in Threads |-> Idle]
    /\ local = [t \in Threads |-> None]
    /\ asked = [o \in Ops |-> NotAsked]
    /\ fate = [o \in Ops |-> "none"]
    /\ queue = <<>>
    /\ running = [w \in CeleryWorkers |-> Idle]
    /\ entries = {}
    /\ lost = {}

At(t, location) == req[t].pc = location

-----------------------------------------------------------------------------
(* The web server *)

\* Only a user is noted; an anonymous request leaves what was there.
NotedIfAny(t, cookie) == IF cookie = None THEN local[t] ELSE cookie

\* AuditIPMiddleware runs before the view, and so before JWTAuthentication: the
\* user it finds in the request is that of the session cookie.
Noted(t, cookie) == cookie

\* A request of the API has a bearer; a form of the admin site only the cookie.
Begin(t, o, k, bearer, cookie) ==
    /\ At(t, "idle") /\ asked[o] = NotAsked
    /\ {bearer, cookie} \subseteq users \cup {None}
    /\ IF k = "atomic" THEN {bearer, cookie} # {None} ELSE bearer # None
    /\ asked' = [asked EXCEPT ![o] = [kind |-> k, bearer |-> bearer, cookie |-> cookie]]
    /\ local' = [local EXCEPT ![t] = Noted(t, cookie)]
    /\ req' = [req EXCEPT ![t] = [pc |-> "routed", op |-> o]]
    /\ UNCHANGED <<users, fate, celery, lost>>

Kind(t) == asked[req[t].op].kind

\* As with ATOMIC_REQUESTS, which the settings leave off.
OutcomeInTransaction(k) == IF k = "view" THEN "none" ELSE "open"

Outcome(k) == CASE k = "view" -> "none" [] k = "atomic" -> "open" [] OTHER -> "committed"

\* The SQL of the save or delete, or of the view.
Write(t) ==
    /\ At(t, "routed")
    /\ fate' = [fate EXCEPT ![req[t].op] = Outcome(Kind(t))]
    /\ req' = [req EXCEPT ![t].pc = "written"]
    /\ UNCHANGED <<users, local, asked, celery, lost>>

\* All that is known of the sender.
ActorRecord(t) == asked[req[t].op]

\* The views name request.user, the signals the user of the thread.
Actor(t) == IF Kind(t) = "view" THEN asked[req[t].op].bearer ELSE local[t]

\* audit_post_save, audit_post_delete, and the views: create_audit_log.delay().
Dispatch(t) ==
    /\ At(t, "written")
    /\ queue' = IF Kind(t) \in Tracked \cup {"view"}
                THEN Append(queue, [op |-> req[t].op, user |-> Actor(t)])
                ELSE queue
    /\ req' = [req EXCEPT ![t].pc = "sent"]
    /\ UNCHANGED <<users, local, asked, fate, running, entries, lost>>

Close(o, how) == [fate EXCEPT ![o] = IF @ = "open" THEN how ELSE @]

Reply(t, how) ==
    /\ fate' = Close(req[t].op, how)
    /\ req' = [req EXCEPT ![t] = Idle]
    /\ UNCHANGED <<users, local, asked, celery>>

\* The response; the end of a transaction, if there is one.
Finish(t) == At(t, "sent") /\ Reply(t, "committed") /\ UNCHANGED lost

\* The broker does not answer, and delay() raises: status 500.
DispatchFails(t) ==
    /\ At(t, "written") /\ Kind(t) \in Tracked \cup {"view"}
    /\ Reply(t, "rolledback")
    /\ lost' = lost \cup {req[t].op}

\* What the transaction does after the signal fails: an order that is taken, a rule
\* that no longer fits, an encryption.
Fails(t) ==
    /\ At(t, "sent") /\ fate[req[t].op] = "open"
    /\ Reply(t, "rolledback")
    /\ UNCHANGED lost

\* A new process serves the thread.
Crash(t) ==
    /\ ~At(t, "idle")
    /\ fate' = Close(req[t].op, "rolledback")
    /\ lost' = IF At(t, "sent") THEN lost ELSE lost \cup {req[t].op}
    /\ req' = [req EXCEPT ![t] = Idle]
    /\ local' = [local EXCEPT ![t] = None]
    /\ UNCHANGED <<users, asked, celery>>

-----------------------------------------------------------------------------
(* The Celery workers *)

Take(w) ==
    /\ running[w] = Idle /\ queue # <<>>
    /\ running' = [running EXCEPT ![w] = Head(queue)]
    /\ queue' = Tail(queue)
    /\ UNCHANGED <<users, web, entries, lost>>

End(w) ==
    /\ running[w] # Idle
    /\ running' = [running EXCEPT ![w] = Idle]
    /\ UNCHANGED <<users, web, queue>>

\* A failed task is retried for ever.
RecordRetried(w) ==
    /\ End(w)
    /\ running[w].user \in users \cup {None}
    /\ entries' = entries \cup {running[w]}
    /\ UNCHANGED lost

\* create_audit_log; the foreign key has to name an account that exists.
Record(w) ==
    /\ End(w)
    /\ IF running[w].user \in users \cup {None}
       THEN entries' = entries \cup {running[w]} /\ UNCHANGED lost
       ELSE lost' = lost \cup {running[w].op} /\ UNCHANGED entries

\* The worker dies, or the INSERT fails.
GiveUp(w) ==
    /\ End(w)
    /\ lost' = lost \cup {running[w].op}
    /\ UNCHANGED entries

\* A form of the admin site; AuditLog.user is SET_NULL.
DeleteUser(u) ==
    /\ u \in users
    /\ users' = users \ {u}
    /\ entries' = {[e EXCEPT !.user = IF @ = u THEN None ELSE @] : e \in entries}
    /\ UNCHANGED <<web, queue, running, lost>>

Serve(t) == Write(t) \/ Dispatch(t) \/ Finish(t)
Work(w) == Take(w) \/ Record(w)

Next ==
    \/ \E t \in Threads :
          \/ \E o \in Ops, k \in Kinds, b, c \in Users \cup {None} : Begin(t, o, k, b, c)
          \/ Serve(t) \/ DispatchFails(t) \/ Fails(t) \/ Crash(t)
    \/ \E w \in CeleryWorkers : Work(w) \/ GiveUp(w)
    \/ \E u \in Users : DeleteUser(u)

\* Gunicorn and Celery start again what has died: requests are served and tasks run.
Fairness ==
    /\ \A t \in Threads : WF_vars(Serve(t))
    /\ \A w \in CeleryWorkers : WF_vars(Work(w))

Spec == Init /\ [][Next]_vars /\ Fairness

-----------------------------------------------------------------------------
(* Properties *)

Queued == {queue[i].op : i \in DOMAIN queue}
Running == {running[w].op : w \in {v \in CeleryWorkers : running[v] # Idle}}
Logged == {e.op : e \in entries}
Pending == {req[t].op : t \in {s \in Threads : ~At(s, "idle") /\ ~At(s, "sent")}}

Owed == {o \in Ops : asked[o] # NotAsked /\ asked[o].kind # "account"}

\* Every operation that needs an entry, and was carried out, is at exactly one
\* place: with its thread, at the broker, with a worker, in the log, or given up
\* after a failure.  No committed change goes without its entry for another reason,
\* and none has two.
OneEntryEach ==
    /\ Owed \subseteq Pending \cup Queued \cup Running \cup Logged \cup lost
    /\ \A i, j \in DOMAIN queue : queue[i].op = queue[j].op => i = j
    /\ \A v, w \in CeleryWorkers :
          running[v] # Idle /\ running[w] # Idle /\ running[v].op = running[w].op => v = w
    /\ \A d, e \in entries : d.op = e.op => d = e
    /\ Queued \cap Running = {} /\ (Queued \cup Running) \cap Logged = {}

\* An entry of a change that was not made comes from a transaction that was rolled
\* back after the signal, or is still open.
OnlyRollbacksArePhantoms ==
    \A o \in Queued \cup Running \cup Logged :
       /\ asked[o].kind = "save" => fate[o] = "committed"
       /\ asked[o].kind = "atomic" => fate[o] # "none"

\* The user of an entry is the one who sent that request: of a view the bearer of
\* the token, of a change the owner of the session, never that of a request the
\* thread served before.
ActorSentIt ==
    \A e \in entries : e.user # None =>
       e.user = IF asked[e.op].kind = "view" THEN asked[e.op].bearer ELSE asked[e.op].cookie

\* docs/architecture.md:147, "Read user + IP from thread-local storage (set by
\* AuditIPMiddleware)": the change a token was used for is logged under its user, as
\* long as the account exists.
AuthorLogged ==
    \A e \in entries : asked[e.op].bearer \in users => e.user = asked[e.op].bearer

\* Every operation that needs an entry is eventually in the log, or given up after a
\* failure: neither a thread nor the queue nor a worker keeps one for ever.
EntriesArrive == \A o \in Ops : o \in Owed ~> o \in Logged \cup lost
=============================================================================

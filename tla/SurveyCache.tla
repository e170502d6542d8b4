----------------------------- MODULE SurveyCache -----------------------------
(***************************************************************************)
(* The cache-aside copy of one survey's structure in Redis, under the key  *)
(* survey:{pk}:structure.  retrieve() reads the cache, then the database,  *)
(* then stores; the write requests commit and delete the key in an order   *)
(* that depends on the operation.  Nothing makes the two stores change     *)
(* together.                                                               *)
(*                                                                         *)
(* The structure is abstracted to a version that every committed write     *)
(* increases.  Time passes in ticks, kept as ages: of the entry, of each   *)
(* request, and of every version since it was superseded.                  *)
(***************************************************************************)
EXTENDS Naturals

CONSTANTS Readers,      \* GET requests
          Writers,      \* write requests
          WriteKinds,   \* the kinds of write that occur
          MaxVersion,   \* bound: the number of writes
          TTL,          \* SURVEY_CACHE_TIMEOUT, in ticks
          Timeout,      \* gunicorn's worker timeout, in ticks
          NoEntry, NoData

\* update: commit, then delete the key (create and update views, PATCH survey).
\* drop: delete the key, then commit (delete_section, delete_field, ...).
\* silent: commit and delete no key of this survey (a status PATCH refused for
\* another column; the delete_selected action of the admin site).
\* destroy: the survey itself; the key is built from the cleared primary key.
Kinds == {"update", "drop", "silent", "destroy"}

ASSUME CacheAssumption ==
    /\ WriteKinds \subseteq Kinds
    /\ MaxVersion \in Nat /\ TTL \in Nat /\ Timeout \in Nat
    /\ NoEntry \notin [ver : 0..MaxVersion, view : {"full", "filtered"}, age : 0..TTL,
                       excused : BOOLEAN]
    /\ NoData \notin 0..MaxVersion

Roles == {"admin", "reader"}
Versions == 0..MaxVersion

VARIABLES version,      \* of the structure in the database
          exists,       \* the survey row is there
          entry,        \* what Redis holds under the key
          superseded,   \* ticks since each version was replaced, up to Horizon
          reader,       \* the GET requests
          writer        \* the write requests

vars == <<version, exists, entry, superseded, reader, writer>>

\* Ages beyond the promised bound need not be told apart.
Horizon == TTL + 2 * Timeout + 1

Entry == [ver : Versions, view : {"full", "filtered"}, age : 0..TTL, excused : BOOLEAN]

ReaderState == [pc   : {"idle", "cacheGet", "query", "store", "reply"},
                role : Roles,
                data : Versions \cup {NoData},
                view : {"full", "filtered"},
                age  : 0..Timeout]

WriterState == [pc   : {"idle", "commit", "invalidate"},
                kind : Kinds,
                age  : 0..Timeout]

TypeOK ==
    /\ version \in Versions
    /\ exists \in BOOLEAN
    /\ entry \in Entry \cup {NoEntry}
    /\ superseded \in [Versions -> 0..Horizon]
    /\ reader \in [Readers -> ReaderState]
    /\ writer \in [Writers -> WriterState]

IdleReader == [pc |-> "idle", role |-> "admin", data |-> NoData, view |-> "full", age |-> 0]
IdleWriter == [pc |-> "idle", kind |-> "update", age |-> 0]

Init ==
    /\ version = 0
    /\ exists = TRUE
    /\ entry = NoEntry
    /\ superseded = [v \in Versions |-> 0]
    /\ reader = [r \in Readers |-> IdleReader]
    /\ writer = [w \in Writers |-> IdleWriter]

-----------------------------------------------------------------------------
(* SurveyViewSet.retrieve *)

\* SurveyDetailSerializer.get_sections
ViewOf(role) == IF role = "admin" THEN "full" ELSE "filtered"

\* self.get_object(): 404 when the row is not visible, which changes nothing.
StartRead(r) ==
    /\ reader[r].pc = "idle"
    /\ exists
    /\ \E role \in Roles :
          reader' = [reader EXCEPT ![r].pc = "cacheGet", ![r].role = role]
    /\ UNCHANGED <<version, exists, entry, superseded, writer>>

CacheHit(r) ==
    /\ reader[r].pc = "cacheGet"
    /\ entry # NoEntry
    /\ reader' = [reader EXCEPT ![r].pc = "reply", ![r].data = entry.ver, ![r].view = entry.view]
    /\ UNCHANGED <<version, exists, entry, superseded, writer>>

CacheMiss(r) ==
    /\ reader[r].pc = "cacheGet"
    /\ entry = NoEntry
    /\ reader' = [reader EXCEPT ![r].pc = "query"]
    /\ UNCHANGED <<version, exists, entry, superseded, writer>>

\* super().retrieve(): 404 when the row has gone in the meantime.
Query(r) ==
    /\ reader[r].pc = "query"
    /\ reader' = IF exists
                 THEN [reader EXCEPT ![r].pc = "store", ![r].data = version,
                                     ![r].view = ViewOf(reader[r].role)]
                 ELSE [reader EXCEPT ![r] = IdleReader]
    /\ UNCHANGED <<version, exists, entry, superseded, writer>>

\* set_structure: stored whatever happened since the query.  The excused bit is
\* no state of the program: it records that the stored version was already old.
Store(r) ==
    /\ reader[r].pc = "store"
    /\ entry' = [ver |-> reader[r].data, view |-> reader[r].view, age |-> 0,
                 excused |-> reader[r].data # version]
    /\ reader' = [reader EXCEPT ![r].pc = "reply"]
    /\ UNCHANGED <<version, exists, superseded, writer>>

EndRead(r) ==
    /\ reader[r].pc = "reply"
    /\ reader' = [reader EXCEPT ![r] = IdleReader]
    /\ UNCHANGED <<version, exists, entry, superseded, writer>>

-----------------------------------------------------------------------------
(* The write requests *)

StartWrite(w) ==
    /\ writer[w].pc = "idle"
    /\ exists
    /\ version < MaxVersion
    /\ \E kind \in WriteKinds :
          writer' = [writer EXCEPT ![w].kind = kind,
                        ![w].pc = IF kind = "drop" THEN "invalidate" ELSE "commit"]
    /\ UNCHANGED <<version, exists, entry, superseded, reader>>

\* A commit that no deletion of the key follows excuses an entry that it makes old.
CommitWrite(w) ==
    /\ writer[w].pc = "commit"
    /\ version < MaxVersion
    /\ version' = version + 1
    /\ exists' = (exists /\ writer[w].kind # "destroy")
    /\ entry' = IF entry # NoEntry /\ writer[w].kind # "update"
                THEN [entry EXCEPT !.excused = TRUE] ELSE entry
    /\ writer' = IF writer[w].kind = "update"
                 THEN [writer EXCEPT ![w].pc = "invalidate"]
                 ELSE [writer EXCEPT ![w] = IdleWriter]
    /\ UNCHANGED <<superseded, reader>>

\* The key is deleted under another name.
InvalidateOtherKey(w) ==
    /\ writer[w].pc = "invalidate"
    /\ writer' = IF writer[w].kind = "drop"
                 THEN [writer EXCEPT ![w].pc = "commit"]
                 ELSE [writer EXCEPT ![w] = IdleWriter]
    /\ UNCHANGED <<version, exists, entry, superseded, reader>>

\* cache.delete(key)
Invalidate(w) ==
    /\ writer[w].pc = "invalidate"
    /\ entry' = NoEntry
    /\ writer' = IF writer[w].kind = "drop"
                 THEN [writer EXCEPT ![w].pc = "commit"]
                 ELSE [writer EXCEPT ![w] = IdleWriter]
    /\ UNCHANGED <<version, exists, superseded, reader>>

\* The request ends before its next statement: the worker is killed, the draft
\* check or a constraint refuses it, or dispatching the audit task raises after
\* the row was saved.
AbandonWrite(w) ==
    /\ writer[w].pc # "idle"
    /\ writer' = [writer EXCEPT ![w] = IdleWriter]
    /\ entry' = IF entry # NoEntry /\ writer[w].pc = "invalidate" /\ writer[w].kind = "update"
                THEN [entry EXCEPT !.excused = TRUE] ELSE entry
    /\ UNCHANGED <<version, exists, superseded, reader>>

AbandonRead(r) ==
    /\ reader[r].pc # "idle"
    /\ reader' = [reader EXCEPT ![r] = IdleReader]
    /\ UNCHANGED <<version, exists, entry, superseded, writer>>

-----------------------------------------------------------------------------
(* Time *)

\* Redis drops the entry when its time to live is over.
Expire ==
    /\ entry # NoEntry
    /\ entry.age = TTL
    /\ entry' = NoEntry
    /\ UNCHANGED <<version, exists, superseded, reader, writer>>

Older(age) == IF age < Horizon THEN age + 1 ELSE age

\* What is due happens before time goes on: the expiry, and the kill of a request
\* that has used up its timeout.
RequestsInTime ==
    /\ \A r \in Readers : reader[r].pc # "idle" => reader[r].age < Timeout
    /\ \A w \in Writers : writer[w].pc # "idle" => writer[w].age < Timeout

\* The key outlives its time to live.
ExpiryNotDue == RequestsInTime

NothingDue == RequestsInTime /\ (entry # NoEntry => entry.age < TTL)

\* The key is stored without a time to live.
EntryNotAged == entry

EntryAged == IF entry = NoEntry THEN NoEntry ELSE [entry EXCEPT !.age = @ + 1]

Aging(request) == IF request.pc = "idle" THEN request ELSE [request EXCEPT !.age = @ + 1]

Tick ==
    /\ NothingDue
    /\ entry' = EntryAged
    /\ reader' = [r \in Readers |-> Aging(reader[r])]
    /\ writer' = [w \in Writers |-> Aging(writer[w])]
    /\ superseded' = [v \in Versions |-> IF v < version THEN Older(superseded[v]) ELSE 0]
    /\ UNCHANGED <<version, exists>>

ReadStep(r) == CacheHit(r) \/ CacheMiss(r) \/ Query(r) \/ Store(r) \/ EndRead(r)

WriteStep(w) == CommitWrite(w) \/ Invalidate(w)

Next ==
    \/ \E r \in Readers : StartRead(r) \/ ReadStep(r) \/ AbandonRead(r)
    \/ \E w \in Writers : StartWrite(w) \/ WriteStep(w) \/ AbandonWrite(w)
    \/ Expire
    \/ Tick

Spec == Init /\ [][Next]_vars

\* Time goes on, Redis expires keys, and a worker that has begun a request makes
\* progress with it or is killed.
FairSpec ==
    /\ Spec
    /\ WF_vars(Tick)
    /\ WF_vars(Expire)
    /\ \A r \in Readers : WF_vars(ReadStep(r) \/ AbandonRead(r))
    /\ \A w \in Writers : WF_vars(WriteStep(w) \/ AbandonWrite(w))

-----------------------------------------------------------------------------
(* Properties *)

Stale(v) == v < version

\* An old entry has one of the known causes: its writer has yet to delete the key,
\* or it was stored after the write, or the write deleted the key too early, not
\* at all, or was cut off.  A completed update never leaves one by itself.
StaleEntryHasCause ==
    entry # NoEntry /\ Stale(entry.ver) =>
        entry.excused \/ \E w \in Writers : writer[w].kind = "update" /\ writer[w].pc = "invalidate"

\* Whatever the interleaving, a retrieve returns a structure that was current at
\* most TTL plus two request times before: the one that stored it and this one.
BoundedStaleness ==
    \A r \in Readers : reader[r].pc = "reply" => superseded[reader[r].data] <= TTL + 2 * Timeout

\* Once writes stop the cache converges: whatever it holds is the last version.
EventuallyFresh == <>[](entry # NoEntry => ~Stale(entry.ver))

\* docs/architecture.md:137: "Non-admin users get role-filtered sections", and an
\* administrator sees all of them.
ReplyMatchesRole ==
    \A r \in Readers : reader[r].pc = "reply" => reader[r].view = ViewOf(reader[r].role)
=============================================================================

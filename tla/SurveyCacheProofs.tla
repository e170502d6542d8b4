--------------------------- MODULE SurveyCacheProofs ---------------------------
(***************************************************************************)
(* Theorems about SurveyCache, for any readers and writers, any number of  *)
(* writes, and any lifetime and timeout: every cached structure that is    *)
(* out of date has one of the known causes, and no reply is older than the *)
(* lifetime and two request times.                                         *)
(***************************************************************************)
EXTENDS SurveyCache, TLAPS

\* A version is superseded when a later one is committed, and no earlier.
NewestCurrent == \A v \in Versions : v >= version => superseded[v] = 0

\* A request that computed a structure did so since it began; one that found it in
\* the cache got what was at most TTL older than that.
DataYoung ==
    \A r \in Readers :
        /\ reader[r].pc \in {"store", "reply"} => reader[r].data \in 0..version
        /\ reader[r].pc = "store" => superseded[reader[r].data] <= reader[r].age
        /\ reader[r].pc = "reply" =>
              superseded[reader[r].data] <= TTL + Timeout + reader[r].age

\* What is cached was at most one request time old when it was stored.
EntryYoung ==
    entry # NoEntry => entry.ver <= version /\ superseded[entry.ver] <= Timeout + entry.age

CacheInv == TypeOK /\ NewestCurrent /\ DataYoung /\ EntryYoung /\ StaleEntryHasCause

LEMMA Bounds == TTL \in Nat /\ Timeout \in Nat /\ MaxVersion \in Nat
                /\ Horizon = TTL + 2 * Timeout + 1
                /\ Versions = 0..MaxVersion /\ NoData \notin 0..MaxVersion
BY CacheAssumption DEF Horizon, Versions

LEMMA NoEntryIsNone == NoEntry \notin Entry
BY CacheAssumption DEF Entry, Versions

LEMMA InitInv == Init => CacheInv
<1> SUFFICES ASSUME Init PROVE CacheInv
  OBVIOUS
<1>1. IdleReader \in ReaderState /\ IdleWriter \in WriterState
  BY Bounds DEF IdleReader, IdleWriter, ReaderState, WriterState, Roles, Kinds
<1>2. TypeOK
  BY <1>1, Bounds DEF Init, TypeOK
<1> QED
  BY <1>2, Bounds DEF Init, CacheInv, NewestCurrent, DataYoung, EntryYoung,
     StaleEntryHasCause, IdleReader, IdleWriter

-----------------------------------------------------------------------------
(* One lemma for the steps of a reader, of a writer, and of time *)

\* The steps of a reader that leave the entry and the database alone.
LEMMA ReaderInv ==
    ASSUME CacheInv, NEW r \in Readers, NEW s \in ReaderState,
           reader' = [reader EXCEPT ![r] = s],
           UNCHANGED <<version, exists, entry, superseded, writer>>,
           s.pc \in {"store", "reply"} => s.data \in 0..version,
           s.pc = "store" => superseded[s.data] <= s.age,
           s.pc = "reply" => superseded[s.data] <= TTL + Timeout + s.age
    PROVE  CacheInv'
<1>1. TypeOK'
  BY DEF CacheInv, TypeOK
<1>2. DataYoung'
  BY DEF CacheInv, DataYoung, TypeOK
<1> QED
  BY <1>1, <1>2 DEF CacheInv, NewestCurrent, EntryYoung, StaleEntryHasCause, Stale

LEMMA ReadInv ==
    ASSUME CacheInv, NEW r \in Readers, StartRead(r) \/ ReadStep(r) \/ AbandonRead(r)
    PROVE  CacheInv'
<1>0. reader[r] \in ReaderState /\ reader \in [Readers -> ReaderState]
  BY DEF CacheInv, TypeOK
<1>i. IdleReader \in ReaderState /\ IdleReader.pc = "idle"
  BY Bounds DEF IdleReader, ReaderState, Roles
<1>1. CASE StartRead(r)
  <2> PICK role \in Roles :
         reader' = [reader EXCEPT ![r].pc = "cacheGet", ![r].role = role]
    BY <1>1 DEF StartRead
  <2> DEFINE s == [reader[r] EXCEPT !.pc = "cacheGet", !.role = role]
  <2>1. s \in ReaderState /\ s.pc = "cacheGet"
    BY <1>0 DEF ReaderState
  <2>2. reader' = [reader EXCEPT ![r] = s]
    BY <1>0
  <2> HIDE DEF s
  <2> QED BY <1>1, <2>1, <2>2, ReaderInv DEF StartRead
<1>2. CASE CacheHit(r)
  <2> DEFINE s == [reader[r] EXCEPT !.pc = "reply", !.data = entry.ver, !.view = entry.view]
  <2>1. entry \in Entry /\ entry.ver \in 0..version /\ entry.age \in 0..TTL
    BY <1>2, Bounds DEF CacheHit, CacheInv, TypeOK, EntryYoung, Entry
  <2>2. s \in ReaderState /\ s.pc = "reply" /\ s.data = entry.ver /\ s.age \in 0..Timeout
    BY <1>0, <2>1 DEF ReaderState, Entry
  <2>3. reader' = [reader EXCEPT ![r] = s]
    BY <1>0, <1>2 DEF CacheHit
  <2> HIDE DEF s
  <2>4. superseded[entry.ver] <= TTL + Timeout + s.age
    <3>1. superseded[entry.ver] \in Nat /\ superseded[entry.ver] <= Timeout + entry.age
      BY <1>2, <2>1, Bounds DEF CacheHit, CacheInv, TypeOK, EntryYoung, Entry
    <3> QED BY <2>1, <2>2, <3>1, Bounds
  <2> QED BY <1>2, <2>1, <2>2, <2>3, <2>4, ReaderInv DEF CacheHit
<1>3. CASE CacheMiss(r)
  <2> DEFINE s == [reader[r] EXCEPT !.pc = "query"]
  <2>1. s \in ReaderState /\ s.pc = "query"
    BY <1>0 DEF ReaderState
  <2>2. reader' = [reader EXCEPT ![r] = s]
    BY <1>0, <1>3 DEF CacheMiss
  <2> HIDE DEF s
  <2> QED BY <1>3, <2>1, <2>2, ReaderInv DEF CacheMiss
<1>4. CASE Query(r)
  <2>1. CASE exists
    <3> DEFINE s == [reader[r] EXCEPT !.pc = "store", !.data = version,
                                      !.view = ViewOf(reader[r].role)]
    <3>1. s \in ReaderState /\ s.pc = "store" /\ s.data = version /\ s.age \in 0..Timeout
      BY <1>0 DEF ReaderState, ViewOf, CacheInv, TypeOK
    <3>2. version \in 0..version /\ superseded[version] = 0
      BY Bounds DEF CacheInv, TypeOK, NewestCurrent
    <3>3. reader' = [reader EXCEPT ![r] = s]
      BY <1>0, <1>4, <2>1 DEF Query
    <3>4. superseded[s.data] <= s.age
      BY <3>1, <3>2, Bounds
    <3> HIDE DEF s
    <3> QED BY <1>4, <3>1, <3>2, <3>3, <3>4, ReaderInv DEF Query
  <2>2. CASE ~exists
    BY <1>4, <1>i, <2>2, ReaderInv DEF Query
  <2> QED BY <2>1, <2>2
<1>5. CASE Store(r)
  <2>1. reader[r].data \in 0..version /\ superseded[reader[r].data] <= reader[r].age
        /\ reader[r].age \in 0..Timeout /\ reader[r].data \in Versions
    BY <1>0, <1>5, Bounds DEF Store, CacheInv, DataYoung, ReaderState, TypeOK
  <2>2. entry' = [ver |-> reader[r].data, view |-> reader[r].view, age |-> 0,
                  excused |-> reader[r].data # version]
        /\ reader' = [reader EXCEPT ![r].pc = "reply"]
        /\ UNCHANGED <<version, exists, superseded, writer>>
    BY <1>5 DEF Store
  <2>3. entry' \in Entry /\ entry' # NoEntry
    <3>1. reader[r].data \in Versions /\ reader[r].view \in {"full", "filtered"} /\ 0 \in 0..TTL
      BY <1>0, <2>1, Bounds DEF ReaderState
    <3>2. (reader[r].data # version) \in BOOLEAN
      OBVIOUS
    <3>3. entry' \in Entry
      BY <2>2, <3>1, <3>2 DEF Entry
    <3> QED BY <3>3, NoEntryIsNone DEF Entry, Versions
  <2>4. TypeOK'
    BY <1>0, <2>2, <2>3 DEF CacheInv, TypeOK, ReaderState
  <2>5. superseded[reader[r].data] \in Nat
    BY <2>1, Bounds DEF CacheInv, TypeOK
  <2>6. DataYoung'
    <3>1. superseded[reader[r].data] <= TTL + Timeout + reader[r].age
      BY <2>1, <2>5, Bounds
    <3>2. /\ reader'[r].data = reader[r].data /\ reader'[r].age = reader[r].age
          /\ reader'[r].pc = "reply"
          /\ \A q \in Readers \ {r} : reader'[q] = reader[q]
      BY <1>0, <2>2 DEF ReaderState
    <3> QED BY <2>1, <2>2, <3>1, <3>2 DEF CacheInv, DataYoung
  <2>7. EntryYoung' /\ StaleEntryHasCause'
    <3>1. /\ entry'.ver = reader[r].data /\ entry'.age = 0
          /\ entry'.excused = (reader[r].data # version)
      BY <2>2
    <3>2. reader[r].data <= version /\ superseded[reader[r].data] <= Timeout + 0
      BY <2>1, <2>5, Bounds DEF CacheInv, TypeOK
    <3>3. EntryYoung'
      BY <2>2, <3>1, <3>2 DEF EntryYoung
    <3>4. reader[r].data < version => reader[r].data # version
      BY <2>1, Bounds DEF CacheInv, TypeOK
    <3> QED BY <2>2, <3>1, <3>3, <3>4 DEF StaleEntryHasCause, Stale
  <2> QED BY <2>2, <2>4, <2>6, <2>7 DEF CacheInv, NewestCurrent
<1>6. CASE EndRead(r)
  BY <1>6, <1>i, ReaderInv DEF EndRead
<1>7. CASE AbandonRead(r)
  BY <1>7, <1>i, ReaderInv DEF AbandonRead
<1> QED BY <1>1, <1>2, <1>3, <1>4, <1>5, <1>6, <1>7 DEF ReadStep

LEMMA WriteInv ==
    ASSUME CacheInv, NEW w \in Writers, StartWrite(w) \/ WriteStep(w) \/ AbandonWrite(w)
    PROVE  CacheInv'
<1>0. /\ writer \in [Writers -> WriterState] /\ writer[w] \in WriterState
      /\ IdleWriter \in WriterState
      /\ version \in 0..MaxVersion /\ superseded \in [0..MaxVersion -> 0..Horizon]
      /\ reader \in [Readers -> ReaderState] /\ entry \in Entry \cup {NoEntry}
  BY Bounds DEF CacheInv, TypeOK, IdleWriter, WriterState, Kinds
<1>r. UNCHANGED <<superseded, reader>>
  BY DEF StartWrite, WriteStep, CommitWrite, Invalidate, AbandonWrite
<1>1. CASE StartWrite(w)
  <2>1. PICK kind \in WriteKinds :
           writer' = [writer EXCEPT ![w].kind = kind,
                         ![w].pc = IF kind = "drop" THEN "invalidate" ELSE "commit"]
    BY <1>1 DEF StartWrite
  <2>2. kind \in Kinds
    BY CacheAssumption
  <2>3. TypeOK'
    BY <1>0, <1>1, <2>1, <2>2 DEF StartWrite, CacheInv, TypeOK, WriterState
  <2>4. StaleEntryHasCause'
    <3>1. writer[w].pc = "idle" /\ UNCHANGED <<entry, version>>
      BY <1>1 DEF StartWrite
    <3>2. \A v \in Writers \ {w} : writer'[v] = writer[v]
      BY <1>0, <2>1
    <3> QED BY <3>1, <3>2 DEF CacheInv, StaleEntryHasCause, Stale
  <2> QED BY <1>1, <1>r, <2>3, <2>4 DEF StartWrite, CacheInv, NewestCurrent, DataYoung, EntryYoung
<1>2. CASE CommitWrite(w)
  <2>1. version' = version + 1 /\ version' \in 0..MaxVersion /\ writer[w].pc = "commit"
    BY <1>0, <1>2, Bounds DEF CommitWrite
  <2>2. /\ entry = NoEntry => entry' = NoEntry
        /\ entry # NoEntry =>
              \/ entry' = [entry EXCEPT !.excused = TRUE]
              \/ entry' = entry /\ writer'[w].pc = "invalidate" /\ writer'[w].kind = "update"
    <3>1. CASE writer[w].kind = "update"
      BY <1>0, <1>2, <3>1 DEF CommitWrite, WriterState
    <3>2. CASE writer[w].kind # "update"
      BY <1>2, <3>2 DEF CommitWrite
    <3> QED BY <3>1, <3>2
  <2>3. writer' \in [Writers -> WriterState]
    BY <1>0, <1>2 DEF CommitWrite, WriterState
  <2>4. entry # NoEntry => /\ entry' \in Entry /\ entry'.ver = entry.ver
                           /\ entry'.age = entry.age /\ entry' # NoEntry
    BY <1>0, <2>2, NoEntryIsNone DEF Entry
  <2>5. exists' \in BOOLEAN
    BY <1>2 DEF CommitWrite, CacheInv, TypeOK
  <2>6. TypeOK'
    BY <1>0, <1>r, <2>1, <2>2, <2>3, <2>4, <2>5, Bounds DEF TypeOK
  <2>7. NewestCurrent'
    BY <1>0, <1>r, <2>1, Bounds DEF CacheInv, NewestCurrent
  <2>8. DataYoung'
    BY <1>0, <1>r, <2>1 DEF CacheInv, DataYoung
  <2>9. EntryYoung'
    BY <1>0, <1>r, <2>1, <2>2, <2>4, Bounds DEF CacheInv, EntryYoung, Entry
  <2>10. StaleEntryHasCause'
    <3>1. entry # NoEntry /\ entry' = [entry EXCEPT !.excused = TRUE] => entry'.excused
      BY <1>0 DEF Entry
    <3> QED BY <2>2, <3>1 DEF StaleEntryHasCause
  <2> QED BY <2>6, <2>7, <2>8, <2>9, <2>10 DEF CacheInv
<1>3. CASE Invalidate(w)
  <2>1. writer' \in [Writers -> WriterState]
    BY <1>0, <1>3 DEF Invalidate, WriterState
  <2>2. TypeOK'
    BY <1>r, <1>3, <2>1 DEF Invalidate, CacheInv, TypeOK
  <2> QED BY <1>r, <1>3, <2>2 DEF Invalidate, CacheInv, NewestCurrent, DataYoung, EntryYoung,
                              StaleEntryHasCause
<1>4. CASE AbandonWrite(w)
  <2>1. /\ UNCHANGED <<version, exists>> /\ writer' = [writer EXCEPT ![w] = IdleWriter]
        /\ entry = NoEntry => entry' = NoEntry
        /\ entry # NoEntry =>
              \/ entry' = [entry EXCEPT !.excused = TRUE]
              \/ entry' = entry /\ ~(writer[w].pc = "invalidate" /\ writer[w].kind = "update")
    BY <1>4 DEF AbandonWrite
  <2>2. entry # NoEntry => /\ entry' \in Entry /\ entry'.ver = entry.ver
                           /\ entry'.age = entry.age /\ entry' # NoEntry
                           /\ entry' = [entry EXCEPT !.excused = TRUE] => entry'.excused
    BY <1>0, <2>1, NoEntryIsNone DEF Entry
  <2>3. TypeOK'
    BY <1>0, <1>r, <2>1, <2>2 DEF CacheInv, TypeOK
  <2>4. EntryYoung'
    BY <1>r, <2>1, <2>2 DEF CacheInv, EntryYoung
  <2>5. StaleEntryHasCause'
    <3>1. \A v \in Writers \ {w} : writer'[v] = writer[v]
      BY <1>0, <2>1
    <3> QED BY <2>1, <2>2, <3>1 DEF CacheInv, StaleEntryHasCause, Stale
  <2> QED BY <1>r, <2>1, <2>3, <2>4, <2>5 DEF CacheInv, NewestCurrent, DataYoung
<1> QED BY <1>1, <1>2, <1>3, <1>4 DEF WriteStep

\* Time ages every request and the entry together with the versions.
LEMMA TimeInv ==
    ASSUME CacheInv, Tick
    PROVE  CacheInv'
<1>0. /\ writer \in [Writers -> WriterState]
      /\ version \in 0..MaxVersion /\ superseded \in [0..MaxVersion -> 0..Horizon]
      /\ reader \in [Readers -> ReaderState] /\ entry \in Entry \cup {NoEntry}
  BY Bounds DEF CacheInv, TypeOK
<1>1. UNCHANGED <<version, exists>>
  BY DEF Tick
<1>2. \A v \in 0..MaxVersion :
         superseded'[v] = IF v < version THEN Older(superseded[v]) ELSE 0
  BY Bounds DEF Tick
<1>3. superseded' \in [0..MaxVersion -> 0..Horizon]
      /\ \A v \in 0..MaxVersion : superseded'[v] <= superseded[v] + 1
  BY <1>0, <1>2, Bounds DEF Tick, Older
<1>4. \A r \in Readers :
         /\ reader'[r] \in ReaderState /\ reader'[r].pc = reader[r].pc
         /\ reader'[r].data = reader[r].data
         /\ reader[r].pc # "idle" => reader'[r].age = reader[r].age + 1
  <2> SUFFICES ASSUME NEW r \in Readers
               PROVE  /\ Aging(reader[r]) \in ReaderState
                      /\ Aging(reader[r]).pc = reader[r].pc
                      /\ Aging(reader[r]).data = reader[r].data
                      /\ reader[r].pc # "idle" => Aging(reader[r]).age = reader[r].age + 1
    BY DEF Tick
  <2>1. CASE reader[r].pc = "idle"
    BY <1>0, <2>1 DEF Aging
  <2>2. CASE reader[r].pc # "idle"
    <3>1. reader[r].age < Timeout
      BY <2>2 DEF Tick, NothingDue, RequestsInTime
    <3>2. reader[r].age + 1 \in 0..Timeout
      BY <1>0, <3>1, Bounds DEF ReaderState
    <3>3. Aging(reader[r]) = [reader[r] EXCEPT !.age = reader[r].age + 1]
      BY <2>2 DEF Aging
    <3> QED BY <1>0, <3>2, <3>3 DEF ReaderState
  <2> QED BY <2>1, <2>2
<1>5. \A w \in Writers :
         /\ writer'[w] \in WriterState /\ writer'[w].pc = writer[w].pc
         /\ writer'[w].kind = writer[w].kind
  <2> SUFFICES ASSUME NEW w \in Writers
               PROVE  /\ Aging(writer[w]) \in WriterState
                      /\ Aging(writer[w]).pc = writer[w].pc
                      /\ Aging(writer[w]).kind = writer[w].kind
    BY DEF Tick
  <2>1. CASE writer[w].pc = "idle"
    BY <1>0, <2>1 DEF Aging
  <2>2. CASE writer[w].pc # "idle"
    <3>1. writer[w].age < Timeout
      BY <2>2 DEF Tick, NothingDue, RequestsInTime
    <3>2. writer[w].age + 1 \in 0..Timeout
      BY <1>0, <3>1, Bounds DEF WriterState
    <3>3. Aging(writer[w]) = [writer[w] EXCEPT !.age = writer[w].age + 1]
      BY <2>2 DEF Aging
    <3> QED BY <1>0, <3>2, <3>3 DEF WriterState
  <2> QED BY <2>1, <2>2
<1>6. /\ entry = NoEntry => entry' = NoEntry
      /\ entry # NoEntry =>
            /\ entry' \in Entry /\ entry'.ver = entry.ver /\ entry'.excused = entry.excused
            /\ entry'.age = entry.age + 1 /\ entry' # NoEntry
  <2>1. entry = NoEntry => entry' = NoEntry
    BY DEF Tick, EntryAged
  <2>2. ASSUME entry # NoEntry
        PROVE  /\ entry' \in Entry /\ entry'.ver = entry.ver
               /\ entry'.excused = entry.excused /\ entry'.age = entry.age + 1
    <3>1. entry \in Entry /\ entry.age < TTL /\ entry' = [entry EXCEPT !.age = entry.age + 1]
      BY <1>0, <2>2 DEF Tick, NothingDue, EntryAged
    <3>2. entry.age + 1 \in 0..TTL
      BY <3>1, Bounds DEF Entry
    <3> QED BY <3>1, <3>2 DEF Entry
  <2> QED BY <2>1, <2>2, NoEntryIsNone
<1>7. TypeOK'
  <2>1. reader' \in [Readers -> ReaderState] /\ writer' \in [Writers -> WriterState]
    BY <1>4, <1>5 DEF Tick
  <2> QED BY <1>0, <1>1, <1>3, <1>6, <2>1, Bounds DEF CacheInv, TypeOK
<1>8. NewestCurrent'
  BY <1>0, <1>1, <1>2, Bounds DEF NewestCurrent
<1>9. DataYoung'
  <2> SUFFICES ASSUME NEW r \in Readers, reader[r].pc \in {"store", "reply"}
               PROVE  /\ reader[r].data \in 0..version
                      /\ reader[r].pc = "store" =>
                            superseded'[reader[r].data] <= reader[r].age + 1
                      /\ reader[r].pc = "reply" =>
                            superseded'[reader[r].data] <= TTL + Timeout + (reader[r].age + 1)
    BY <1>1, <1>4 DEF DataYoung
  <2>1. reader[r].data \in 0..version /\ reader[r].data \in 0..MaxVersion
        /\ reader[r].age \in Nat
    BY <1>0, Bounds DEF CacheInv, DataYoung, ReaderState
  <2>2. /\ superseded[reader[r].data] \in Nat /\ superseded'[reader[r].data] \in Nat
        /\ superseded'[reader[r].data] <= superseded[reader[r].data] + 1
    BY <1>0, <1>3, <2>1, Bounds
  <2>3. /\ reader[r].pc = "store" => superseded[reader[r].data] <= reader[r].age
        /\ reader[r].pc = "reply" => superseded[reader[r].data] <= TTL + Timeout + reader[r].age
    BY DEF CacheInv, DataYoung
  <2>4. TTL \in Nat /\ Timeout \in Nat
    BY Bounds
  <2>5. reader[r].pc = "store" => superseded'[reader[r].data] <= reader[r].age + 1
    BY <2>1, <2>2, <2>3
  <2>6. reader[r].pc = "reply" =>
           superseded'[reader[r].data] <= TTL + Timeout + (reader[r].age + 1)
    BY <2>1, <2>2, <2>3, <2>4
  <2> QED BY <2>1, <2>5, <2>6
<1>10. EntryYoung'
  <2> SUFFICES ASSUME entry # NoEntry
               PROVE  entry.ver <= version /\ superseded'[entry.ver] <= Timeout + (entry.age + 1)
    BY <1>1, <1>6 DEF EntryYoung
  <2>1. entry.ver <= version /\ entry.ver \in 0..MaxVersion /\ entry.age \in Nat
        /\ superseded[entry.ver] <= Timeout + entry.age
    BY <1>0, Bounds DEF CacheInv, EntryYoung, Entry
  <2>2. superseded[entry.ver] \in Nat /\ superseded'[entry.ver] \in Nat
        /\ superseded'[entry.ver] <= superseded[entry.ver] + 1
    BY <1>0, <1>3, <2>1, Bounds
  <2> QED BY <2>1, <2>2, Bounds
<1>11. StaleEntryHasCause'
  BY <1>1, <1>5, <1>6 DEF CacheInv, StaleEntryHasCause, Stale
<1> QED BY <1>7, <1>8, <1>9, <1>10, <1>11 DEF CacheInv

-----------------------------------------------------------------------------
(* The invariance theorem and what follows from it *)

LEMMA NextInv ==
    ASSUME CacheInv, [Next]_vars
    PROVE  CacheInv'
<1>1. CASE Expire
  BY <1>1 DEF Expire, CacheInv, TypeOK, NewestCurrent, DataYoung, EntryYoung, StaleEntryHasCause
<1>2. CASE UNCHANGED vars
  BY <1>2 DEF vars, CacheInv, TypeOK, NewestCurrent, DataYoung, EntryYoung,
     StaleEntryHasCause, Stale
<1> QED BY <1>1, <1>2, ReadInv, WriteInv, TimeInv DEF Next

THEOREM Inductive == Spec => []CacheInv
BY InitInv, NextInv, PTL DEF Spec

\* Every variable of the cache module keeps its type; with it, no key outlives its
\* time to live.
THEOREM TypeCorrect == Spec => []TypeOK
<1>1. CacheInv => TypeOK
  BY DEF CacheInv
<1> QED BY <1>1, Inductive, PTL

\* An update that ran to its end never leaves an old structure in the cache by
\* itself, whatever readers and writers it meets.
THEOREM StalenessCaused == Spec => []StaleEntryHasCause
<1>1. CacheInv => StaleEntryHasCause
  BY DEF CacheInv
<1> QED BY <1>1, Inductive, PTL

\* No reply is older than the lifetime of the key and two request times, for any
\* lifetime, timeout, and number of requests.
THEOREM StalenessBounded == Spec => []BoundedStaleness
<1>1. CacheInv => BoundedStaleness
  <2> SUFFICES ASSUME CacheInv, NEW r \in Readers, reader[r].pc = "reply"
               PROVE  superseded[reader[r].data] <= TTL + 2 * Timeout
    BY DEF BoundedStaleness
  <2>1. superseded[reader[r].data] <= TTL + Timeout + reader[r].age
    BY DEF CacheInv, DataYoung
  <2>2. reader[r].data \in 0..MaxVersion /\ reader[r].age \in 0..Timeout
    BY Bounds DEF CacheInv, DataYoung, TypeOK, ReaderState
  <2>3. superseded[reader[r].data] \in Nat
    BY <2>2, Bounds DEF CacheInv, TypeOK
  <2> QED BY <2>1, <2>2, <2>3, Bounds
<1> QED BY <1>1, Inductive, PTL
=============================================================================

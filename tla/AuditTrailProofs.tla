--------------------------- MODULE AuditTrailProofs ---------------------------
(***************************************************************************)
(* Theorems about AuditTrail, for any operations, users, threads and       *)
(* Celery workers.                                                         *)
(***************************************************************************)
EXTENDS AuditTrail, TLAPS

Sender(o) == IF asked[o].kind = "view" THEN asked[o].bearer ELSE asked[o].cookie

\* Of every request in service: its operation is known and its own, the thread
\* remembers the owner of its session, the write has got as far as the request, and
\* no task was sent before Dispatch.
InService ==
    /\ \A t \in Threads : ~At(t, "idle") =>
          /\ asked[req[t].op] # NotAsked
          /\ local[t] = asked[req[t].op].cookie
          /\ fate[req[t].op] = IF At(t, "routed") THEN "none" ELSE Outcome(Kind(t))
          /\ ~At(t, "sent") => req[t].op \notin Queued \cup Running \cup Logged
    /\ \A s, t \in Threads : ~At(s, "idle") /\ ~At(t, "idle") /\ req[s].op = req[t].op => s = t

\* Of every task: its operation was asked for, and it names the sender.
TasksNameSender ==
    /\ \A o \in Queued \cup Running \cup Logged : asked[o] # NotAsked
    /\ \A i \in DOMAIN queue : queue[i].user = Sender(queue[i].op)
    /\ \A w \in CeleryWorkers : running[w] # Idle => running[w].user = Sender(running[w].op)

NothingUnasked == \A o \in Ops : asked[o] = NotAsked => fate[o] = "none"

AuditInv ==
    /\ TypeOK /\ InService /\ TasksNameSender /\ NothingUnasked
    /\ OneEntryEach /\ OnlyRollbacksArePhantoms /\ ActorSentIt

-----------------------------------------------------------------------------
(* The records, and the queue as a set of operations *)

LEMMA Records ==
    /\ Idle.pc = "idle" /\ Idle \notin Request
    /\ \A r \in Request : r.pc \in {"routed", "written", "sent"} /\ r.op \in Ops
    /\ Idle \notin Task
    /\ \A k \in Task : k.op \in Ops /\ k.user \in Users \cup {None}
    /\ NotAsked \notin Question
    /\ \A a \in Question : /\ a.kind \in Kinds
                           /\ a.bearer \in Users \cup {None} /\ a.cookie \in Users \cup {None}
<1>1. Idle \notin Request
  BY DEF Idle, Request
<1>2. Idle \notin Task
  <2> SUFFICES ASSUME Idle \in Task PROVE FALSE
    OBVIOUS
  <2>1. DOMAIN Idle = {"pc"} /\ DOMAIN Idle = {"op", "user"}
    BY DEF Idle, Task
  <2> QED BY <2>1
<1>3. NotAsked \notin Question
  <2> SUFFICES ASSUME NotAsked \in Question PROVE FALSE
    OBVIOUS
  <2>1. NotAsked.kind \in Kinds /\ NotAsked.kind = "none"
    BY DEF NotAsked, Question
  <2> QED BY <2>1 DEF Kinds
<1> QED BY <1>1, <1>2, <1>3 DEF Idle, Request, Task, Question

LEMMA Appended ==
    ASSUME NEW q \in Seq(Task), NEW e \in Task
    PROVE  /\ Append(q, e) \in Seq(Task)
           /\ {Append(q, e)[i].op : i \in DOMAIN Append(q, e)} = {q[i].op : i \in DOMAIN q} \cup {e.op}
           /\ \A i \in DOMAIN Append(q, e) :
                 \/ i \in DOMAIN q /\ Append(q, e)[i] = q[i]
                 \/ i = Len(q) + 1 /\ Append(q, e)[i] = e
<1>1. /\ Append(q, e) \in Seq(Task)
      /\ DOMAIN Append(q, e) = 1..(Len(q) + 1) /\ DOMAIN q = 1..Len(q) /\ Len(q) \in Nat
      /\ Append(q, e)[Len(q) + 1] = e
      /\ \A i \in 1..Len(q) : Append(q, e)[i] = q[i]
  OBVIOUS
<1>2. \A i \in 1..(Len(q) + 1) : i \in 1..Len(q) \/ i = Len(q) + 1
  BY <1>1
<1>3. Len(q) + 1 \in 1..(Len(q) + 1) /\ 1..Len(q) \subseteq 1..(Len(q) + 1)
  BY <1>1
<1> DEFINE a == Append(q, e)
<1>4. a \in Seq(Task) /\ DOMAIN a = 1..(Len(q) + 1) /\ a[Len(q) + 1] = e
      /\ \A i \in 1..Len(q) : a[i] = q[i]
  BY <1>1
<1> HIDE DEF a
<1>5. \A i \in DOMAIN a : (i \in DOMAIN q /\ a[i] = q[i]) \/ (i = Len(q) + 1 /\ a[i] = e)
  BY <1>1, <1>2, <1>4
<1>6. {a[i].op : i \in DOMAIN a} \subseteq {q[i].op : i \in DOMAIN q} \cup {e.op}
  BY <1>5
<1>7. {q[i].op : i \in DOMAIN q} \cup {e.op} \subseteq {a[i].op : i \in DOMAIN a}
  BY <1>1, <1>3, <1>4
<1>8. a \in Seq(Task)
      /\ {a[i].op : i \in DOMAIN a} = {q[i].op : i \in DOMAIN q} \cup {e.op}
      /\ \A i \in DOMAIN a : (i \in DOMAIN q /\ a[i] = q[i]) \/ (i = Len(q) + 1 /\ a[i] = e)
  BY <1>4, <1>5, <1>6, <1>7
<1> QED BY <1>8 DEF a

LEMMA Taken ==
    ASSUME NEW q \in Seq(Task), q # <<>>
    PROVE  /\ Head(q) \in Task /\ Tail(q) \in Seq(Task)
           /\ 1 \in DOMAIN q /\ Head(q) = q[1]
           /\ \A i \in DOMAIN Tail(q) : i + 1 \in DOMAIN q /\ i + 1 # 1 /\ Tail(q)[i] = q[i + 1]
           /\ \A j \in DOMAIN q : j = 1 \/ \E i \in DOMAIN Tail(q) : j = i + 1
           /\ DOMAIN Tail(q) \subseteq Nat
<1>1. /\ Head(q) \in Task /\ Tail(q) \in Seq(Task) /\ Len(q) \in Nat /\ Len(q) # 0
      /\ DOMAIN q = 1..Len(q) /\ DOMAIN Tail(q) = 1..(Len(q) - 1) /\ Head(q) = q[1]
      /\ \A i \in 1..(Len(q) - 1) : Tail(q)[i] = q[i + 1]
  OBVIOUS
<1>2. \A j \in 1..Len(q) : j # 1 => j - 1 \in 1..(Len(q) - 1) /\ j = (j - 1) + 1
  BY <1>1
<1> DEFINE r == Tail(q)
<1>3. r \in Seq(Task) /\ DOMAIN r = 1..(Len(q) - 1) /\ \A i \in 1..(Len(q) - 1) : r[i] = q[i + 1]
  BY <1>1
<1> HIDE DEF r
<1>4. 1 \in DOMAIN q
  BY <1>1
<1>5. \A i \in DOMAIN r : i + 1 \in DOMAIN q /\ i + 1 # 1 /\ r[i] = q[i + 1]
  BY <1>1, <1>3
<1>6. \A j \in DOMAIN q : j = 1 \/ \E i \in DOMAIN r : j = i + 1
  BY <1>1, <1>2, <1>3
<1>7. DOMAIN r \subseteq Nat
  BY <1>1, <1>3
<1>8. Head(q) \in Task /\ Head(q) = q[1]
  BY <1>1
<1> QED BY <1>3, <1>4, <1>5, <1>6, <1>7, <1>8 DEF r

LEMMA InitInv == Init => AuditInv
<1> SUFFICES ASSUME Init PROVE AuditInv
  OBVIOUS
<1>1. TypeOK
  BY DEF Init, TypeOK
<1>2. \A t \in Threads : At(t, "idle")
  BY Records DEF Init, At
<1>3. Queued = {} /\ Running = {} /\ Logged = {} /\ Owed = {} /\ DOMAIN queue = {}
  BY DEF Init, Queued, Running, Logged, Owed
<1> QED
  BY <1>1, <1>2, <1>3 DEF Init, AuditInv, InService, TasksNameSender, NothingUnasked,
     OneEntryEach, OnlyRollbacksArePhantoms, ActorSentIt

-----------------------------------------------------------------------------
(* The web server *)

LEMMA BeginInv ==
    ASSUME AuditInv, NEW t \in Threads, NEW o \in Ops, NEW k \in Kinds,
           NEW b \in Users \cup {None}, NEW c \in Users \cup {None}, Begin(t, o, k, b, c)
    PROVE  AuditInv'
<1>0. TypeOK /\ InService /\ TasksNameSender /\ NothingUnasked
      /\ OneEntryEach /\ OnlyRollbacksArePhantoms /\ ActorSentIt
  BY DEF AuditInv
<1> DEFINE question == [kind |-> k, bearer |-> b, cookie |-> c]
<1>1. question \in Question /\ question # NotAsked
  BY Records DEF Question
<1>2. /\ asked' = [asked EXCEPT ![o] = question] /\ asked[o] = NotAsked /\ req[t].pc = "idle"
      /\ local' = [local EXCEPT ![t] = c]
      /\ req' = [req EXCEPT ![t] = [pc |-> "routed", op |-> o]]
      /\ UNCHANGED <<users, fate, queue, running, entries, lost>>
  BY DEF Begin, At, Noted, celery
<1>3. asked'[o] = question /\ \A p \in Ops \ {o} : asked'[p] = asked[p]
  BY <1>0, <1>2 DEF TypeOK
<1>4. req'[t].pc = "routed" /\ req'[t].op = o /\ local'[t] = c
      /\ \A s \in Threads \ {t} : req'[s] = req[s] /\ local'[s] = local[s]
  BY <1>0, <1>2 DEF TypeOK
<1>5. Queued' = Queued /\ Running' = Running /\ Logged' = Logged
      /\ o \notin Queued \cup Running \cup Logged
  BY <1>0, <1>2 DEF TasksNameSender, Queued, Running, Logged
<1>6. \A s \in Threads : req[s].pc # "idle" => req[s].op \in Ops /\ req[s].op # o
  BY <1>0, <1>2, Records DEF InService, At, TypeOK
<1>7. Queued \cup Running \cup Logged \subseteq Ops
  <2>1. Queued \subseteq Ops
    BY <1>0, Records DEF TypeOK, Queued
  <2>2. Running \subseteq Ops /\ Logged \subseteq Ops
    BY <1>0, Records DEF TypeOK, Running, Logged
  <2> QED BY <2>1, <2>2
<1> HIDE DEF question
<1>8. TypeOK'
  BY <1>0, <1>1, <1>2 DEF TypeOK, Request
<1>9. InService'
  <2>1. \A s \in Threads \ {t} : req[s].pc # "idle" => Kind(s)' = Kind(s)
    BY <1>3, <1>4, <1>6 DEF Kind
  <2>2. \A s \in Threads \ {t} : req[s].pc # "idle" =>
          /\ asked'[req'[s].op] # NotAsked
          /\ local'[s] = asked'[req'[s].op].cookie
          /\ fate'[req'[s].op] = IF req'[s].pc = "routed" THEN "none" ELSE Outcome(Kind(s)')
          /\ req'[s].pc # "sent" => req'[s].op \notin Queued \cup Running \cup Logged
    BY <1>0, <1>2, <1>3, <1>4, <1>6, <2>1 DEF InService, At
  <2>3. /\ asked'[o] # NotAsked /\ c = asked'[o].cookie /\ fate'[o] = "none"
    BY <1>0, <1>1, <1>2, <1>3 DEF NothingUnasked, question
  <2>4. \A s, u \in Threads : req'[s].pc # "idle" /\ req'[u].pc # "idle" /\ req'[s].op = req'[u].op => s = u
    BY <1>0, <1>4, <1>6 DEF InService, At
  <2> QED BY <1>4, <1>5, <2>2, <2>3, <2>4 DEF InService, At, Outcome
<1>10. \A p \in Queued \cup Running \cup Logged : asked'[p] = asked[p] /\ Sender(p)' = Sender(p)
  BY <1>3, <1>5, <1>7 DEF Sender
<1>11. TasksNameSender'
  <2>1. \A i \in DOMAIN queue : queue[i].op \in Queued
    BY DEF Queued
  <2>2. \A w \in CeleryWorkers : running[w] # Idle => running[w].op \in Running
    BY DEF Running
  <2>3. \A i \in DOMAIN queue : queue[i].user = Sender(queue[i].op)'
    BY <1>0, <1>2, <1>10, <2>1 DEF TasksNameSender
  <2>4. \A w \in CeleryWorkers : running[w] # Idle => running[w].user = Sender(running[w].op)'
    BY <1>0, <1>2, <1>10, <2>2 DEF TasksNameSender
  <2> QED BY <1>0, <1>2, <1>5, <1>10, <2>3, <2>4 DEF TasksNameSender
<1>12. NothingUnasked'
  BY <1>0, <1>1, <1>2, <1>3 DEF NothingUnasked
<1>13. OneEntryEach'
  <2>1. Owed' \subseteq Owed \cup {o}
    BY <1>3 DEF Owed
  <2>2. Pending \cup {o} \subseteq Pending'
    BY <1>2, <1>4 DEF Pending, At
  <2> QED BY <1>0, <1>2, <1>5, <2>1, <2>2 DEF OneEntryEach
<1>14. OnlyRollbacksArePhantoms'
  BY <1>0, <1>2, <1>5, <1>10 DEF OnlyRollbacksArePhantoms
<1>15. ActorSentIt'
  BY <1>0, <1>2, <1>10 DEF ActorSentIt, Logged
<1> QED BY <1>8, <1>9, <1>11, <1>12, <1>13, <1>14, <1>15 DEF AuditInv

\* Steps of the web server that send nothing leave the tasks as they are.
LEMMA TasksKept ==
    ASSUME AuditInv, UNCHANGED <<asked, queue, running, entries>>
    PROVE  /\ Queued' = Queued /\ Running' = Running /\ Logged' = Logged /\ Owed' = Owed
           /\ TasksNameSender' /\ ActorSentIt'
           /\ Queued \cup Running \cup Logged \subseteq Ops
<1>1. Queued' = Queued /\ Running' = Running /\ Logged' = Logged /\ Owed' = Owed
  BY DEF Queued, Running, Logged, Owed
<1>2. TasksNameSender' /\ ActorSentIt'
  BY <1>1 DEF AuditInv, TasksNameSender, ActorSentIt, Sender
<1>3. Queued \subseteq Ops
  BY Records DEF AuditInv, TypeOK, Queued
<1>4. Running \subseteq Ops /\ Logged \subseteq Ops
  BY Records DEF AuditInv, TypeOK, Running, Logged
<1> QED BY <1>1, <1>2, <1>3, <1>4

LEMMA Serving ==
    ASSUME TypeOK, InService, NEW t \in Threads, ~At(t, "idle")
    PROVE  /\ req[t] \in Request /\ req[t].op \in Ops /\ asked[req[t].op] \in Question
           /\ Kind(t) \in Kinds
           /\ \A s \in Threads \ {t} : ~At(s, "idle") => req[s].op # req[t].op /\ req[s].op \in Ops
BY Records DEF TypeOK, InService, At, Kind

LEMMA WriteInv ==
    ASSUME AuditInv, NEW t \in Threads, Write(t)
    PROVE  AuditInv'
<1>0. TypeOK /\ InService /\ TasksNameSender /\ NothingUnasked
      /\ OneEntryEach /\ OnlyRollbacksArePhantoms /\ ActorSentIt
  BY DEF AuditInv
<1> DEFINE o == req[t].op
<1>1. req[t].pc = "routed" /\ req' = [req EXCEPT ![t].pc = "written"]
      /\ fate' = [fate EXCEPT ![o] = Outcome(Kind(t))]
      /\ UNCHANGED <<users, local, asked, queue, running, entries, lost>>
  BY DEF Write, At, celery
<1>2. /\ req[t] \in Request /\ o \in Ops /\ Kind(t) \in Kinds /\ ~At(t, "idle")
      /\ \A s \in Threads \ {t} : ~At(s, "idle") => req[s].op # o /\ req[s].op \in Ops
  BY <1>0, <1>1, Serving DEF At
<1>3. req'[t].pc = "written" /\ req'[t].op = o /\ \A s \in Threads \ {t} : req'[s] = req[s]
  BY <1>0, <1>1, <1>2 DEF TypeOK, Request
<1>4. fate'[o] = Outcome(Kind(t)) /\ \A p \in Ops \ {o} : fate'[p] = fate[p]
  BY <1>0, <1>1, <1>2 DEF TypeOK
<1>5. /\ Queued' = Queued /\ Running' = Running /\ Logged' = Logged /\ Owed' = Owed
      /\ TasksNameSender' /\ ActorSentIt' /\ o \notin Queued \cup Running \cup Logged
      /\ Queued \cup Running \cup Logged \subseteq Ops
  BY <1>0, <1>1, <1>2, TasksKept DEF InService, At
<1>6. TypeOK'
  <2>1. Outcome(Kind(t)) \in {"none", "open", "committed", "rolledback"}
    BY DEF Outcome
  <2> QED BY <1>0, <1>1, <1>2, <2>1 DEF TypeOK, Request
<1>7. \A s \in Threads : ~At(s, "idle") => Kind(s)' = Kind(s)
  BY <1>1, <1>3 DEF Kind
<1>8. InService'
  BY <1>0, <1>1, <1>2, <1>3, <1>4, <1>5, <1>7 DEF InService, At
<1>9. NothingUnasked'
  BY <1>0, <1>1, <1>2, <1>4 DEF NothingUnasked, InService
<1>10. Pending' = Pending
  BY <1>1, <1>3 DEF Pending, At
<1>11. OneEntryEach'
  BY <1>0, <1>1, <1>5, <1>10 DEF OneEntryEach
<1>12. OnlyRollbacksArePhantoms'
  BY <1>0, <1>1, <1>4, <1>5 DEF OnlyRollbacksArePhantoms
<1> QED BY <1>5, <1>6, <1>8, <1>9, <1>11, <1>12 DEF AuditInv

\* Finish, DispatchFails, Fails and Crash: the request is over, and has sent its task
\* or is given up.
LEMMA OverInv ==
    ASSUME AuditInv, NEW t \in Threads, ~At(t, "idle"), NEW how \in {"committed", "rolledback"},
           fate' = Close(req[t].op, how), req' = [req EXCEPT ![t] = Idle],
           local' \in {local, [local EXCEPT ![t] = None]},
           \/ At(t, "sent") /\ lost' = lost
           \/ lost' = lost \cup {req[t].op},
           UNCHANGED <<users, asked, queue, running, entries>>
    PROVE  AuditInv'
<1>0. TypeOK /\ InService /\ TasksNameSender /\ NothingUnasked
      /\ OneEntryEach /\ OnlyRollbacksArePhantoms /\ ActorSentIt
  BY DEF AuditInv
<1> DEFINE o == req[t].op
<1>2. /\ o \in Ops /\ asked[o] # NotAsked
      /\ \A s \in Threads \ {t} : ~At(s, "idle") => req[s].op # o /\ req[s].op \in Ops
  BY <1>0, Serving DEF InService
<1>3. /\ req'[t] = Idle
      /\ \A s \in Threads \ {t} : req'[s] = req[s] /\ local'[s] = local[s]
  BY <1>0 DEF TypeOK
<1>4. /\ fate'[o] = IF fate[o] = "open" THEN how ELSE fate[o]
      /\ \A p \in Ops \ {o} : fate'[p] = fate[p]
      /\ fate' \in [Ops -> {"none", "open", "committed", "rolledback"}]
  BY <1>0, <1>2 DEF TypeOK, Close
<1>5. /\ Queued' = Queued /\ Running' = Running /\ Logged' = Logged /\ Owed' = Owed
      /\ TasksNameSender' /\ ActorSentIt'
      /\ Queued \cup Running \cup Logged \subseteq Ops
  BY TasksKept
<1>6. TypeOK'
  <2>1. local' \in [Threads -> Users \cup {None}]
    BY <1>0 DEF TypeOK
  <2>2. lost' \subseteq Ops
    BY <1>0, <1>2 DEF TypeOK
  <2> QED BY <1>0, <1>4, <2>1, <2>2 DEF TypeOK
<1>7. \A s \in Threads \ {t} : Kind(s)' = Kind(s)
  BY <1>3 DEF Kind
<1>8. InService'
  <2>1. ~(req'[t].pc # "idle")
    BY <1>3, Records
  <2> QED BY <1>0, <1>2, <1>3, <1>4, <1>5, <1>7, <2>1 DEF InService, At
<1>9. NothingUnasked'
  BY <1>0, <1>2, <1>4 DEF NothingUnasked
<1>10. Pending \subseteq Pending' \cup {o} /\ (At(t, "sent") => Pending \subseteq Pending')
  BY <1>2, <1>3 DEF Pending, At
<1>11. OneEntryEach'
  <2>1. Owed' \subseteq Pending' \cup Queued' \cup Running' \cup Logged' \cup lost'
    BY <1>0, <1>5, <1>10 DEF OneEntryEach
  <2> QED BY <1>0, <1>5, <2>1 DEF OneEntryEach
<1>12. OnlyRollbacksArePhantoms'
  BY <1>0, <1>2, <1>4, <1>5 DEF OnlyRollbacksArePhantoms
<1> QED BY <1>5, <1>6, <1>8, <1>9, <1>11, <1>12 DEF AuditInv

LEMMA DispatchInv ==
    ASSUME AuditInv, NEW t \in Threads, Dispatch(t)
    PROVE  AuditInv'
<1>0. TypeOK /\ InService /\ TasksNameSender /\ NothingUnasked
      /\ OneEntryEach /\ OnlyRollbacksArePhantoms /\ ActorSentIt
  BY DEF AuditInv
<1> DEFINE o == req[t].op
<1> DEFINE task == [op |-> o, user |-> Actor(t)]
<1>1. /\ req[t].pc = "written" /\ req' = [req EXCEPT ![t].pc = "sent"]
      /\ queue' = IF Kind(t) \in Tracked \cup {"view"} THEN Append(queue, task) ELSE queue
      /\ UNCHANGED <<users, local, asked, fate, running, entries, lost>>
  BY DEF Dispatch, At
<1>2. /\ req[t] \in Request /\ o \in Ops /\ Kind(t) \in Kinds /\ ~At(t, "idle")
      /\ asked[o] \in Question
      /\ \A s \in Threads \ {t} : ~At(s, "idle") => req[s].op # o /\ req[s].op \in Ops
  BY <1>0, <1>1, Serving DEF At
<1>3. req'[t].pc = "sent" /\ req'[t].op = o /\ \A s \in Threads \ {t} : req'[s] = req[s]
  BY <1>0, <1>1, <1>2 DEF TypeOK, Request
<1>4. /\ local[t] = asked[o].cookie /\ fate[o] = Outcome(Kind(t)) /\ asked[o] # NotAsked
      /\ o \notin Queued \cup Running \cup Logged
  BY <1>0, <1>1, <1>2 DEF InService, At
<1>5. task \in Task /\ task.user = Sender(o) /\ task.op = o
  <2>1. Actor(t) = Sender(o)
    BY <1>4 DEF Actor, Sender, Kind
  <2>2. Sender(o) \in Users \cup {None}
    BY <1>2, Records DEF Sender
  <2> QED BY <1>2, <2>1, <2>2 DEF Task
<1> HIDE DEF task
<1>6. Running' = Running /\ Logged' = Logged /\ Owed' = Owed
  BY <1>1 DEF Running, Logged, Owed
<1>7. \A s \in Threads : Kind(s)' = Kind(s)
  BY <1>1, <1>3 DEF Kind
<1>8. \A p : Sender(p)' = Sender(p)
  BY <1>1 DEF Sender
<1>9. NothingUnasked' /\ ActorSentIt'
  BY <1>0, <1>1 DEF NothingUnasked, ActorSentIt
<1>10. Pending \subseteq Pending' \cup {o}
  BY <1>3 DEF Pending, At
<1>11. CASE Kind(t) \in Tracked \cup {"view"}
  <2>1. queue' = Append(queue, task)
    BY <1>1, <1>11
  <2>2. queue' \in Seq(Task) /\ Queued' = Queued \cup {o}
    <3>1. queue \in Seq(Task)
      BY <1>0 DEF TypeOK
    <3>2. /\ Append(queue, task) \in Seq(Task)
          /\ {Append(queue, task)[i].op : i \in DOMAIN Append(queue, task)} =
                {queue[i].op : i \in DOMAIN queue} \cup {task.op}
      BY <1>5, <3>1, Appended
    <3>3. Queued' = {Append(queue, task)[i].op : i \in DOMAIN Append(queue, task)}
      BY <2>1 DEF Queued
    <3> QED BY <1>5, <2>1, <3>2, <3>3 DEF Queued
  <2>3. \A i \in DOMAIN queue' : \/ i \in DOMAIN queue /\ queue'[i] = queue[i]
                                 \/ i = Len(queue) + 1 /\ queue'[i] = task
    BY <1>0, <1>5, <2>1, Appended DEF TypeOK
  <2>4. TypeOK'
    BY <1>0, <1>1, <1>2, <2>2 DEF TypeOK, Request
  <2>5. InService'
    BY <1>0, <1>1, <1>2, <1>3, <1>6, <1>7, <2>2 DEF InService, At
  <2>6. TasksNameSender'
    <3>1. \A i \in DOMAIN queue' : queue'[i].user = Sender(queue'[i].op)
      BY <1>0, <1>5, <2>3 DEF TasksNameSender
    <3>2. \A p \in Queued' \cup Running' \cup Logged' : asked'[p] # NotAsked
      BY <1>0, <1>1, <1>4, <1>6, <2>2 DEF TasksNameSender
    <3>3. (\A i \in DOMAIN queue : queue[i].user = Sender(queue[i].op))'
      BY <1>8, <3>1
    <3>4. (\A w \in CeleryWorkers : running[w] # Idle => running[w].user = Sender(running[w].op))'
      BY <1>0, <1>1, <1>8 DEF TasksNameSender
    <3> QED BY <3>2, <3>3, <3>4 DEF TasksNameSender
  <2>7. OneEntryEach'
    <3>1. \A i \in DOMAIN queue : queue[i].op \in Queued
      BY DEF Queued
    <3>2. \A i, j \in DOMAIN queue' : queue'[i].op = queue'[j].op => i = j
      BY <1>0, <1>4, <1>5, <2>3, <3>1 DEF OneEntryEach
    <3>3. Owed' \subseteq Pending' \cup Queued' \cup Running' \cup Logged' \cup lost'
      BY <1>0, <1>1, <1>6, <1>10, <2>2 DEF OneEntryEach
    <3>4. /\ Queued' \cap Running' = {}
          /\ (Queued' \cup Running') \cap Logged' = {}
      BY <1>0, <1>4, <1>6, <2>2 DEF OneEntryEach
    <3> QED BY <1>0, <1>1, <3>2, <3>3, <3>4 DEF OneEntryEach
  <2>8. OnlyRollbacksArePhantoms'
    BY <1>0, <1>1, <1>4, <1>6, <2>2 DEF OnlyRollbacksArePhantoms, Outcome, Kind
  <2> QED BY <1>9, <2>4, <2>5, <2>6, <2>7, <2>8 DEF AuditInv
<1>12. CASE Kind(t) \notin Tracked \cup {"view"}
  <2>1. queue' = queue /\ asked[o].kind = "account"
    BY <1>1, <1>2, <1>12 DEF Kind, Kinds, Tracked
  <2>2. Queued' = Queued /\ o \notin Owed
    BY <2>1 DEF Queued, Owed
  <2>3. TypeOK'
    BY <1>0, <1>1, <1>2, <2>1 DEF TypeOK, Request
  <2>4. InService'
    BY <1>0, <1>1, <1>2, <1>3, <1>6, <1>7, <2>2 DEF InService, At
  <2>5. TasksNameSender'
    BY <1>1, <2>1, TasksKept
  <2>6. OneEntryEach'
    BY <1>0, <1>1, <1>6, <1>10, <2>1, <2>2 DEF OneEntryEach
  <2>7. OnlyRollbacksArePhantoms'
    BY <1>0, <1>1, <1>6, <2>2 DEF OnlyRollbacksArePhantoms
  <2> QED BY <1>9, <2>3, <2>4, <2>5, <2>6, <2>7 DEF AuditInv
<1> QED BY <1>11, <1>12

-----------------------------------------------------------------------------
(* The Celery workers, and the accounts *)

\* The web side is not touched and no task is made.
LEMMA WebKept ==
    ASSUME AuditInv, UNCHANGED web,
           Queued' \cup Running' \cup Logged' \subseteq Queued \cup Running \cup Logged
    PROVE  InService' /\ NothingUnasked' /\ OnlyRollbacksArePhantoms'
           /\ Pending' = Pending /\ Owed' = Owed
           /\ \A o \in Queued' \cup Running' \cup Logged' : asked'[o] # NotAsked
<1>1. \A t \in Threads : Kind(t)' = Kind(t)
  BY DEF Kind, web
<1>2. InService'
  BY <1>1 DEF AuditInv, InService, web, At
<1> QED
  BY <1>2 DEF AuditInv, NothingUnasked, OnlyRollbacksArePhantoms, TasksNameSender, web, Pending,
     At, Owed

LEMMA TakeInv ==
    ASSUME AuditInv, NEW w \in CeleryWorkers, Take(w)
    PROVE  AuditInv'
<1>0. TypeOK /\ TasksNameSender /\ OneEntryEach /\ ActorSentIt
  BY DEF AuditInv
<1> DEFINE task == Head(queue)
<1>1. /\ running[w] = Idle /\ queue # <<>> /\ queue \in Seq(Task)
      /\ running' = [running EXCEPT ![w] = task] /\ queue' = Tail(queue)
      /\ UNCHANGED <<users, web, entries, lost>>
  BY <1>0 DEF Take, TypeOK
<1>2. /\ task \in Task /\ queue' \in Seq(Task)
      /\ 1 \in DOMAIN queue /\ task = queue[1]
      /\ \A i \in DOMAIN queue' : i + 1 \in DOMAIN queue /\ i + 1 # 1 /\ queue'[i] = queue[i + 1]
      /\ \A j \in DOMAIN queue : j = 1 \/ \E i \in DOMAIN queue' : j = i + 1
      /\ DOMAIN queue' \subseteq Nat
  BY <1>1, Taken
<1> HIDE DEF task
<1>3. /\ running'[w] = task /\ task # Idle /\ running' \in [CeleryWorkers -> {Idle} \cup Task]
      /\ \A v \in CeleryWorkers \ {w} : running'[v] = running[v]
  BY <1>0, <1>1, <1>2, Records DEF TypeOK
<1>4. Queued = Queued' \cup {task.op} /\ task.op \notin Queued'
  <2>1. \A i \in DOMAIN queue' : queue'[i].op \in Queued /\ queue'[i].op # task.op
    BY <1>0, <1>2 DEF Queued, OneEntryEach
  <2>2. \A j \in DOMAIN queue : queue[j].op = task.op \/ queue[j].op \in Queued'
    BY <1>2 DEF Queued
  <2> QED BY <1>2, <2>1, <2>2 DEF Queued
<1>5. Running' = Running \cup {task.op} /\ Logged' = Logged
  BY <1>1, <1>3 DEF Running, Logged
<1>6. TypeOK'
  BY <1>0, <1>1, <1>2, <1>3 DEF TypeOK, web
<1>7. /\ InService' /\ NothingUnasked' /\ OnlyRollbacksArePhantoms'
      /\ Pending' = Pending /\ Owed' = Owed
      /\ \A o \in Queued' \cup Running' \cup Logged' : asked'[o] # NotAsked
  BY <1>1, <1>4, <1>5, WebKept
<1>8. \A o : Sender(o)' = Sender(o)
  BY <1>1 DEF Sender, web
<1>9. TasksNameSender'
  <2>1. \A i \in DOMAIN queue' : queue'[i].user = Sender(queue'[i].op)
    BY <1>0, <1>2 DEF TasksNameSender
  <2>2. \A v \in CeleryWorkers : running'[v] # Idle => running'[v].user = Sender(running'[v].op)
    BY <1>0, <1>2, <1>3 DEF TasksNameSender
  <2>3. (\A i \in DOMAIN queue : queue[i].user = Sender(queue[i].op))'
    BY <1>8, <2>1
  <2>4. (\A v \in CeleryWorkers : running[v] # Idle => running[v].user = Sender(running[v].op))'
    BY <1>8, <2>2
  <2> QED BY <1>7, <2>3, <2>4 DEF TasksNameSender
<1>10. OneEntryEach'
  <2>1. \A i, j \in DOMAIN queue' : queue'[i].op = queue'[j].op => i = j
    BY <1>0, <1>2 DEF OneEntryEach
  <2>2. \A v \in CeleryWorkers \ {w} : running[v] # Idle => running[v].op # task.op
    BY <1>0, <1>4 DEF OneEntryEach, Running
  <2>3. \A u, v \in CeleryWorkers :
           running'[u] # Idle /\ running'[v] # Idle /\ running'[u].op = running'[v].op => u = v
    BY <1>0, <1>3, <2>2 DEF OneEntryEach
  <2>4. /\ Owed' \subseteq Pending' \cup Queued' \cup Running' \cup Logged' \cup lost'
        /\ Queued' \cap Running' = {} /\ (Queued' \cup Running') \cap Logged' = {}
    BY <1>0, <1>1, <1>4, <1>5, <1>7 DEF OneEntryEach
  <2> QED BY <1>0, <1>1, <2>1, <2>3, <2>4 DEF OneEntryEach
<1>11. ActorSentIt'
  BY <1>0, <1>1 DEF ActorSentIt, web
<1> QED BY <1>6, <1>7, <1>9, <1>10, <1>11 DEF AuditInv

\* Record and GiveUp: the task is over, and is logged or given up.
LEMMA EndInv ==
    ASSUME AuditInv, NEW w \in CeleryWorkers, End(w),
           \/ entries' = entries \cup {running[w]} /\ lost' = lost
           \/ entries' = entries /\ lost' = lost \cup {running[w].op}
    PROVE  AuditInv'
<1>0. TypeOK /\ TasksNameSender /\ OneEntryEach /\ ActorSentIt
  BY DEF AuditInv
<1> DEFINE task == running[w]
<1>1. /\ task # Idle /\ running' = [running EXCEPT ![w] = Idle]
      /\ UNCHANGED <<users, web, queue>>
  BY DEF End
<1>2. task \in Task /\ task.op \in Ops /\ task.user = Sender(task.op)
  BY <1>0, <1>1, Records DEF TypeOK, TasksNameSender
<1>3. /\ running' \in [CeleryWorkers -> {Idle} \cup Task] /\ running'[w] = Idle
      /\ \A v \in CeleryWorkers \ {w} : running'[v] = running[v]
  BY <1>0, <1>1 DEF TypeOK
<1>4. Queued' = Queued
  BY <1>1 DEF Queued
<1>5. Running = Running' \cup {task.op} /\ task.op \notin Running'
  <2>1. \A v \in CeleryWorkers \ {w} : running[v] # Idle => running[v].op # task.op
    BY <1>0, <1>1 DEF OneEntryEach
  <2> QED BY <1>1, <1>3, <2>1 DEF Running
<1>6. Logged \subseteq Logged' /\ Logged' \subseteq Logged \cup {task.op}
      /\ task.op \in Logged' \cup lost' /\ lost \subseteq lost'
  BY DEF Logged
<1>7. TypeOK'
  BY <1>0, <1>1, <1>2, <1>3 DEF TypeOK, web
<1>8. /\ InService' /\ NothingUnasked' /\ OnlyRollbacksArePhantoms'
      /\ Pending' = Pending /\ Owed' = Owed
      /\ \A o \in Queued' \cup Running' \cup Logged' : asked'[o] # NotAsked
  BY <1>1, <1>4, <1>5, <1>6, WebKept
<1>9. \A o : Sender(o)' = Sender(o)
  BY <1>1 DEF Sender, web
<1>10. TasksNameSender'
  <2>1. \A v \in CeleryWorkers : running'[v] # Idle => running'[v].user = Sender(running'[v].op)
    BY <1>0, <1>3 DEF TasksNameSender
  <2>2. (\A v \in CeleryWorkers : running[v] # Idle => running[v].user = Sender(running[v].op))'
    BY <1>9, <2>1
  <2>3. (\A i \in DOMAIN queue : queue[i].user = Sender(queue[i].op))'
    BY <1>0, <1>1, <1>9 DEF TasksNameSender
  <2> QED BY <1>8, <2>2, <2>3 DEF TasksNameSender
<1>11. OneEntryEach'
  <2>1. \A u, v \in CeleryWorkers :
           running'[u] # Idle /\ running'[v] # Idle /\ running'[u].op = running'[v].op => u = v
    BY <1>0, <1>3 DEF OneEntryEach
  <2>2. task.op \in Running /\ task.op \notin Queued \cup Logged
    BY <1>0, <1>5 DEF OneEntryEach
  <2>3. \A d, e \in entries' : d.op = e.op => d = e
    <3>1. \A e \in entries : e.op # task.op
      BY <2>2 DEF Logged
    <3> QED BY <1>0, <3>1 DEF OneEntryEach
  <2>4. /\ Owed' \subseteq Pending' \cup Queued' \cup Running' \cup Logged' \cup lost'
        /\ Queued' \cap Running' = {} /\ (Queued' \cup Running') \cap Logged' = {}
    BY <1>0, <1>4, <1>5, <1>6, <1>8, <2>2 DEF OneEntryEach
  <2> QED BY <1>0, <1>1, <2>1, <2>3, <2>4 DEF OneEntryEach
<1>12. ActorSentIt'
  <2>1. \A e \in entries' : e.user # None => e.user = Sender(e.op)
    BY <1>0, <1>2 DEF ActorSentIt, Sender
  <2> QED BY <1>1, <2>1 DEF ActorSentIt, Sender, web
<1> QED BY <1>7, <1>8, <1>10, <1>11, <1>12 DEF AuditInv

LEMMA DeleteUserInv ==
    ASSUME AuditInv, NEW u \in Users, DeleteUser(u)
    PROVE  AuditInv'
<1>0. TypeOK /\ TasksNameSender /\ OneEntryEach /\ ActorSentIt
  BY DEF AuditInv
<1> DEFINE Cleared(e) == [e EXCEPT !.user = IF e.user = u THEN None ELSE e.user]
<1>1. /\ users' = users \ {u} /\ entries' = {Cleared(e) : e \in entries}
      /\ UNCHANGED <<web, queue, running, lost>>
  BY DEF DeleteUser
<1>2. \A e \in entries : /\ Cleared(e) \in Task /\ Cleared(e).op = e.op
                         /\ Cleared(e).user \in {None, e.user}
  BY <1>0 DEF TypeOK, Task
<1> HIDE DEF Cleared
<1>3. Queued' = Queued /\ Running' = Running
  BY <1>1 DEF Queued, Running
<1>4. Logged' = Logged
  BY <1>1, <1>2 DEF Logged
<1>5. TypeOK'
  BY <1>0, <1>1, <1>2 DEF TypeOK, web
<1>6. /\ InService' /\ NothingUnasked' /\ OnlyRollbacksArePhantoms'
      /\ Pending' = Pending /\ Owed' = Owed
      /\ \A o \in Queued' \cup Running' \cup Logged' : asked'[o] # NotAsked
  BY <1>1, <1>3, <1>4, WebKept
<1>7. TasksNameSender'
  BY <1>0, <1>1, <1>6 DEF TasksNameSender, Sender, web
<1>8. OneEntryEach'
  <2>1. \A d, e \in entries' : d.op = e.op => d = e
    BY <1>0, <1>1, <1>2 DEF OneEntryEach
  <2> QED BY <1>0, <1>1, <1>3, <1>4, <1>6, <2>1 DEF OneEntryEach
<1>9. ActorSentIt'
  <2>1. \A e \in entries' : e.user # None => e.user = Sender(e.op)
    BY <1>0, <1>1, <1>2 DEF ActorSentIt, Sender
  <2> QED BY <1>1, <2>1 DEF ActorSentIt, Sender, web
<1> QED BY <1>5, <1>6, <1>7, <1>8, <1>9 DEF AuditInv

-----------------------------------------------------------------------------
(* The invariance theorem and what follows from it *)

LEMMA NextInv ==
    ASSUME AuditInv, [Next]_vars
    PROVE  AuditInv'
<1>1. ASSUME NEW t \in Threads, Finish(t) \/ DispatchFails(t) \/ Fails(t) \/ Crash(t)
      PROVE  AuditInv'
  <2>1. ~At(t, "idle") /\ req' = [req EXCEPT ![t] = Idle]
        /\ UNCHANGED <<users, asked, queue, running, entries>>
    BY <1>1 DEF Finish, DispatchFails, Fails, Crash, Reply, celery, At
  <2>2. /\ fate' = Close(req[t].op, "committed") \/ fate' = Close(req[t].op, "rolledback")
        /\ local' \in {local, [local EXCEPT ![t] = None]}
        /\ \/ At(t, "sent") /\ lost' = lost
           \/ lost' = lost \cup {req[t].op}
    BY <1>1 DEF Finish, DispatchFails, Fails, Crash, Reply
  <2> QED BY <2>1, <2>2, OverInv
<1>2. ASSUME NEW w \in CeleryWorkers, Record(w) \/ GiveUp(w)
      PROVE  AuditInv'
  BY <1>2, EndInv DEF Record, GiveUp
<1>3. CASE UNCHANGED vars
  <2>1. /\ Queued' = Queued /\ Running' = Running /\ Logged' = Logged
        /\ TasksNameSender' /\ ActorSentIt' /\ InService' /\ NothingUnasked'
        /\ OnlyRollbacksArePhantoms' /\ Pending' = Pending /\ Owed' = Owed
    BY <1>3, TasksKept, WebKept DEF vars, web, celery
  <2> QED BY <1>3, <2>1 DEF AuditInv, vars, web, celery, TypeOK, OneEntryEach
<1> QED BY <1>1, <1>2, <1>3, BeginInv, WriteInv, DispatchInv, TakeInv, DeleteUserInv
        DEF Next, Serve, Work

THEOREM Inductive == Spec => []AuditInv
BY InitInv, NextInv, PTL DEF Spec

\* Every variable of the audit module keeps its type.
THEOREM TypeCorrect == Spec => []TypeOK
<1>1. AuditInv => TypeOK
  BY DEF AuditInv
<1> QED BY <1>1, Inductive, PTL

\* No operation has two entries, and one that has none is under way or was given up
\* after a failure.
THEOREM EntryUnique == Spec => []OneEntryEach
<1>1. AuditInv => OneEntryEach
  BY DEF AuditInv
<1> QED BY <1>1, Inductive, PTL

\* Only a transaction that was rolled back after its signal leaves an entry of what
\* was not done.
THEOREM PhantomsExplained == Spec => []OnlyRollbacksArePhantoms
<1>1. AuditInv => OnlyRollbacksArePhantoms
  BY DEF AuditInv
<1> QED BY <1>1, Inductive, PTL

\* However threads are reused, an entry names nobody or the one who sent its request.
THEOREM ActorTrue == Spec => []ActorSentIt
<1>1. AuditInv => ActorSentIt
  BY DEF AuditInv
<1> QED BY <1>1, Inductive, PTL
=============================================================================

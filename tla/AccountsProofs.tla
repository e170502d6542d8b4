---------------------------- MODULE AccountsProofs ----------------------------
(***************************************************************************)
(* Theorems about Accounts, for every set of users, addresses, bodies and  *)
(* overlapping requests.                                                   *)
(***************************************************************************)
EXTENDS Accounts, TLAPS

-----------------------------------------------------------------------------
(* The inductive invariant *)

\* What the permission classes decided, from the role the sender had.
Admitted ==
    \A w \in Workers :
        req[w].pc \in {"admitted", "refused"} =>
            /\ req[w].op # "form"
            /\ At(w, "refused") <=> ~Permitted(req[w].op, req[w].role)
            /\ req[w].by = None => req[w].role = "anonymous"

InHand(w) == req[w].pc \in {"loaded", "checked"}

\* An account is in hand only of one who was served as a manager; its key was given out.
Authorised ==
    \A w \in Workers : InHand(w) =>
        /\ req[w].target # None => req[w].target \in made /\ req[w].manager
        /\ req[w].manager => req[w].by \in Users
        /\ At(w, "loaded") => req[w].target # None /\ req[w].named = {}

\* The copy in memory is the row, but for what the body names, as long as no other
\* request has written it; so it is from the read to the write, not only before it.
RowCurrent ==
    \A w \in Workers :
        InHand(w) /\ req[w].target # None /\ ~req[w].stale =>
            /\ accounts[req[w].target] # None
            /\ \A c \in Columns \ req[w].named : req[w].row[c] = accounts[req[w].target][c]

AccountsInv == TypeOK /\ Admitted /\ Authorised /\ RowCurrent /\ ManagerRemains

-----------------------------------------------------------------------------
(* Records *)

\* Each form of a request, told apart by its location.
LEMMA RequestForms ==
    ASSUME TypeOK, NEW w \in Workers
    PROVE  /\ req[w].pc \in {"idle", "admitted", "refused", "loaded", "checked"}
           /\ req[w].pc = "idle" => req[w] = Idle
           /\ req[w].pc \in {"admitted", "refused"} => req[w] \in Request
           /\ InHand(w) => req[w] \in Edit
<1>1. req[w] = Idle \/ req[w] \in Request \/ req[w] \in Edit
  BY DEF TypeOK
<1>2. CASE req[w] = Idle
  BY <1>2 DEF Idle, InHand
<1>3. CASE req[w] \in Request
  BY <1>3 DEF Request, InHand
<1>4. CASE req[w] \in Edit
  BY <1>4 DEF Edit, InHand
<1> QED BY <1>1, <1>2, <1>3, <1>4

\* An edit changes the columns of the body and no other.
LEMMA EditedColumns ==
    ASSUME NEW row \in Account, NEW body \in Bodies
    PROVE  /\ Edited(row, body) \in Account
           /\ DOMAIN body \subseteq Columns
           /\ \A c \in Columns \ DOMAIN body : Edited(row, body)[c] = row[c]
<1>1. PICK named \in SUBSET Columns, a \in Account : body = [c \in named |-> a[c]]
  BY BodiesNameColumns
<1>2. DOMAIN body = named /\ \A c \in named : body[c] = a[c]
  BY <1>1
<1>3. DOMAIN row = Columns /\ DOMAIN a = Columns
  BY DEF Account, Columns
<1>4. Edited(row, body) = [c \in Columns |-> IF c \in named THEN a[c] ELSE row[c]]
  BY <1>2, <1>3 DEF Edited
<1>5. Edited(row, body) =
         [email |-> IF "email" \in named THEN a.email ELSE row.email,
          role |-> IF "role" \in named THEN a.role ELSE row.role,
          active |-> IF "active" \in named THEN a.active ELSE row.active,
          staff |-> IF "staff" \in named THEN a.staff ELSE row.staff]
  BY <1>4 DEF Columns
<1>6. Edited(row, body) \in Account
  BY <1>5 DEF Account
<1> QED BY <1>2, <1>4, <1>6

\* A new account is well typed, whether or not its address is normalised.
LEMMA NewTyped == ASSUME NEW e \in Emails, NEW role \in Roles
                  PROVE  New(e, role) \in Account
BY DEF New, Account

LEMMA InitInv == Init => AccountsInv
<1> SUFFICES ASSUME Init PROVE AccountsInv
  OBVIOUS
<1>1. PICK u \in Users, e \in Emails :
        /\ accounts = [v \in Users |->
              IF v = u THEN [email |-> Normal[e], role |-> "admin", active |-> TRUE, staff |-> TRUE]
                       ELSE None]
        /\ made = {u}
  BY DEF Init
<1>2. [email |-> Normal[e], role |-> "admin", active |-> TRUE, staff |-> TRUE] \in Account
  BY AddressesNormalise DEF Account, Roles
<1>3. \A w \in Workers : req[w] = Idle
  BY DEF Init
<1>4. TypeOK
  BY <1>1, <1>2 DEF Init, TypeOK
<1>5. Admitted /\ Authorised /\ RowCurrent
  BY <1>3 DEF Admitted, Authorised, RowCurrent, InHand, Idle
<1>6. Manages(u)
  BY <1>1, <1>2, NoneIsNothing DEF Manages, Active
<1> QED BY <1>4, <1>5, <1>6 DEF AccountsInv, ManagerRemains

-----------------------------------------------------------------------------
(* Steps that write no account *)

\* The location of one request changes, and nothing is stored: what has to be shown
\* is about the new value of this request only.
LEMMA Unwritten ==
    ASSUME AccountsInv, NEW w \in Workers, NEW r \in {Idle} \cup Request \cup Edit,
           req' = [req EXCEPT ![w] = r], UNCHANGED <<accounts, made, abdicated>>,
           r.pc \in {"admitted", "refused"} =>
               /\ r.op # "form"
               /\ r.pc = "refused" <=> ~Permitted(r.op, r.role)
               /\ r.by = None => r.role = "anonymous",
           r.pc \in {"loaded", "checked"} =>
               /\ r.target # None => r.target \in made /\ r.manager
               /\ r.manager => r.by \in Users
               /\ r.pc = "loaded" => r.target # None /\ r.named = {}
               /\ r.target # None /\ ~r.stale =>
                     /\ accounts[r.target] # None
                     /\ \A c \in Columns \ r.named : r.row[c] = accounts[r.target][c]
    PROVE  AccountsInv'
<1>1. \A v \in Workers : req'[v] = IF v = w THEN r ELSE req[v]
  BY DEF AccountsInv, TypeOK
<1>2. TypeOK'
  BY DEF AccountsInv, TypeOK
<1>3. Admitted'
  BY <1>1 DEF AccountsInv, Admitted, At
<1>4. Authorised'
  BY <1>1 DEF AccountsInv, Authorised, InHand, At
<1>5. RowCurrent'
  BY <1>1 DEF AccountsInv, RowCurrent, InHand
<1>6. ManagerRemains'
  BY DEF AccountsInv, ManagerRemains, Manages, Active
<1> QED BY <1>2, <1>3, <1>4, <1>5, <1>6 DEF AccountsInv

LEMMA ArriveInv ==
    ASSUME AccountsInv, NEW w \in Workers, NEW op \in Operations, NEW u \in Users \cup {None},
           Arrive(w, op, u)
    PROVE  AccountsInv'
<1> DEFINE r == [pc |-> IF Permitted(op, RoleOf(u)) THEN "admitted" ELSE "refused",
                 op |-> op, by |-> u, role |-> RoleOf(u)]
<1>1. RoleOf(u) \in Roles \cup {"anonymous"}
  BY DEF Arrive, Active, RoleOf, AccountsInv, TypeOK, Account
<1>2. r \in Request /\ r.pc \in {"admitted", "refused"} /\ r.op # "form"
  BY <1>1 DEF Request, Arrive
<1>3. r.pc = "refused" <=> ~Permitted(r.op, r.role)
  OBVIOUS
<1>4. r.by = None => r.role = "anonymous"
  BY DEF RoleOf
<1>5. req' = [req EXCEPT ![w] = r] /\ UNCHANGED <<accounts, made, abdicated>>
  BY DEF Arrive
<1> HIDE DEF r
<1> QED BY <1>2, <1>3, <1>4, <1>5, Unwritten

LEMMA StopInv ==
    ASSUME AccountsInv, NEW w \in Workers, Stop(w)
    PROVE  AccountsInv'
<1>1. Idle.pc = "idle"
  BY DEF Idle
<1>2. req' = [req EXCEPT ![w] = Idle] /\ UNCHANGED <<accounts, made, abdicated>>
  BY DEF Stop
<1> QED BY <1>1, <1>2, Unwritten

LEMMA LoadInv ==
    ASSUME AccountsInv, NEW w \in Workers, NEW u \in Users, Load(w, u)
    PROVE  AccountsInv'
<1> DEFINE r == Become(w, "loaded", u, accounts[u], {})
<1>1. req[w] \in Request /\ At(w, "admitted") /\ req[w].op = "users"
  BY RequestForms DEF Load, At, AccountsInv
<1>2. req[w].role = "admin" /\ req[w].by \in Users
  BY <1>1 DEF AccountsInv, Admitted, At, Permitted, IsAdmin, Request
<1>3. accounts[u] \in Account /\ accounts[u] # None /\ u \in made
  BY DEF Load, AccountsInv, TypeOK
<1>4. r \in Edit
  BY <1>1, <1>2, <1>3 DEF Become, Edit, Request
<1>5. /\ r.pc = "loaded" /\ r.target = u /\ r.manager /\ r.by \in Users
      /\ r.named = {} /\ r.row = accounts[u]
  BY <1>2 DEF Become
<1>6. u # None
  BY NoneIsNothing
<1>7. req' = [req EXCEPT ![w] = r] /\ UNCHANGED <<accounts, made, abdicated>>
  BY DEF Load
<1> HIDE DEF r
<1> QED BY <1>3, <1>4, <1>5, <1>6, <1>7, Unwritten

LEMMA OpenFormInv ==
    ASSUME AccountsInv, NEW w \in Workers, NEW by \in Users, NEW u \in Users,
           OpenForm(w, by, u)
    PROVE  AccountsInv'
<1> DEFINE r == [pc |-> "loaded", op |-> "form", by |-> by, manager |-> Manages(by), target |-> u,
                 row |-> accounts[u], named |-> {}, stale |-> FALSE]
<1>1. accounts[u] \in Account /\ accounts[u] # None /\ u \in made
  BY DEF OpenForm, AccountsInv, TypeOK
<1>2. Manages(by) = TRUE
  BY DEF OpenForm, Manages, Staff
<1>3. r \in Edit
  BY <1>1, <1>2 DEF Edit, Operations
<1>4. /\ r.pc = "loaded" /\ r.target = u /\ r.manager /\ r.by \in Users
      /\ r.named = {} /\ r.row = accounts[u]
  BY <1>2
<1>5. u # None
  BY NoneIsNothing
<1>6. req' = [req EXCEPT ![w] = r] /\ UNCHANGED <<accounts, made, abdicated>>
  BY DEF OpenForm
<1> HIDE DEF r
<1> QED BY <1>1, <1>3, <1>4, <1>5, <1>6, Unwritten

LEMMA CheckInv ==
    ASSUME AccountsInv, NEW w \in Workers, NEW body \in Bodies, Check(w, body)
    PROVE  AccountsInv'
<1> DEFINE r == [req[w] EXCEPT !.pc = "checked", !.row = Edited(req[w].row, body),
                               !.named = DOMAIN body]
<1>1. At(w, "loaded") /\ InHand(w) /\ req[w] \in Edit
  BY RequestForms DEF Check, At, InHand, AccountsInv
<1>2. /\ Edited(req[w].row, body) \in Account /\ DOMAIN body \subseteq Columns
      /\ \A c \in Columns \ DOMAIN body : Edited(req[w].row, body)[c] = req[w].row[c]
  <2>1. req[w].row \in Account
    BY <1>1 DEF Edit
  <2> QED BY <2>1, EditedColumns
<1>3. r \in Edit
  BY <1>1, <1>2 DEF Edit
<1>4. /\ r.pc = "checked" /\ r.target = req[w].target /\ r.manager = req[w].manager
      /\ r.by = req[w].by /\ r.stale = req[w].stale
      /\ r.named = DOMAIN body /\ r.row = Edited(req[w].row, body)
  BY <1>1 DEF Edit
<1>5. /\ r.target # None => r.target \in made /\ r.manager
      /\ r.manager => r.by \in Users
  BY <1>1, <1>4 DEF AccountsInv, Authorised
<1>6. r.target # None /\ ~r.stale =>
        /\ accounts[r.target] # None
        /\ \A c \in Columns \ r.named : r.row[c] = accounts[r.target][c]
  <2> SUFFICES ASSUME r.target # None, ~r.stale
               PROVE  /\ accounts[r.target] # None
                      /\ \A c \in Columns \ r.named : r.row[c] = accounts[r.target][c]
    OBVIOUS
  <2>1. req[w].named = {}
    BY <1>1 DEF AccountsInv, Authorised
  <2>2. /\ accounts[req[w].target] # None
        /\ \A c \in Columns : req[w].row[c] = accounts[req[w].target][c]
    BY <1>1, <1>4, <2>1 DEF AccountsInv, RowCurrent
  <2> HIDE DEF r
  <2> QED BY <1>2, <1>4, <2>2
<1>7. req' = [req EXCEPT ![w] = r] /\ UNCHANGED <<accounts, made, abdicated>>
  BY DEF Check
<1> HIDE DEF r
<1> QED BY <1>3, <1>4, <1>5, <1>6, <1>7, Unwritten

LEMMA RegisterInv ==
    ASSUME AccountsInv, NEW w \in Workers, NEW e \in Emails, NEW role \in Roles,
           Register(w, e, role)
    PROVE  AccountsInv'
<1> DEFINE r == Become(w, "checked", None, New(Normal[e], role), Columns)
<1>1. req[w] \in Request /\ At(w, "admitted")
  BY RequestForms DEF Register, At, AccountsInv
<1>2. req[w].role = "admin" => req[w].by \in Users
  BY <1>1 DEF AccountsInv, Admitted, At, Request
<1>3. New(Normal[e], role) \in Account
  BY NewTyped, AddressesNormalise
<1>4. r \in Edit
  BY <1>1, <1>3 DEF Become, Edit, Request
<1>5. r.pc = "checked" /\ r.target = None /\ (r.manager => r.by \in Users)
  BY <1>2 DEF Become
<1>6. req' = [req EXCEPT ![w] = r] /\ UNCHANGED <<accounts, made, abdicated>>
  BY DEF Register
<1> HIDE DEF r
<1> QED BY <1>4, <1>5, <1>6, Unwritten

LEMMA PostNewInv ==
    ASSUME AccountsInv, NEW w \in Workers, NEW by \in Users, NEW e \in Emails,
           NEW role \in Roles, PostNew(w, by, e, role)
    PROVE  AccountsInv'
<1> DEFINE r == [pc |-> "checked", op |-> "form", by |-> by, manager |-> Manages(by),
                 target |-> None, row |-> New(e, role), named |-> Columns, stale |-> FALSE]
<1>1. New(e, role) \in Account /\ Manages(by) = TRUE
  BY NewTyped DEF PostNew, Manages, Staff
<1>2. r \in Edit
  BY <1>1 DEF Edit, Operations
<1>3. r.pc = "checked" /\ r.target = None /\ r.by \in Users
  OBVIOUS
<1>4. req' = [req EXCEPT ![w] = r] /\ UNCHANGED <<accounts, made, abdicated>>
  BY DEF PostNew
<1> HIDE DEF r
<1> QED BY <1>2, <1>3, <1>4, Unwritten

-----------------------------------------------------------------------------
(* Steps that write an account *)

\* The writer is done; every other request that has the account in hand is stale from
\* now on, and no other request changes.
LEMMA WriteMarks ==
    ASSUME TypeOK, NEW w \in Workers, NEW u \in Users, NEW row, Write(w, u, row),
           NEW v \in Workers
    PROVE  \/ req'[v] = Idle
           \/ /\ req'[v] = req[v]
              /\ InHand(v) => req[v].target # u
           \/ /\ InHand(v) /\ req'[v] \in Edit /\ req'[v].stale
              /\ \A c \in {"pc", "op", "by", "manager", "target", "row", "named"} :
                    req'[v][c] = req[v][c]
<1>1. CASE v = w
  BY <1>1 DEF Write
<1>2. CASE v # w /\ InHand(v) /\ req[v].target = u
  <2>1. req'[v] = [req[v] EXCEPT !.stale = TRUE] /\ req[v] \in Edit
    BY <1>2, RequestForms DEF Write, InHand
  <2> QED BY <1>2, <2>1 DEF Edit
<1>3. CASE v # w /\ ~(InHand(v) /\ req[v].target = u)
  BY <1>3 DEF Write, InHand
<1> QED BY <1>1, <1>2, <1>3

\* A write keeps the invariant when the address is free and a manager stays besides.
LEMMA Written ==
    ASSUME AccountsInv, NEW w \in Workers, NEW u \in Users, NEW row \in Account \cup {None},
           Write(w, u, row), made \subseteq made', made' \subseteq Users,
           row # None => u \in made' /\ EmailFree(row.email, u),
           abdicated' \/ \E m \in Users \ {u} : Manages(m)
    PROVE  AccountsInv'
<1>1. \A v \in Users : accounts'[v] = IF v = u THEN row ELSE accounts[v]
  BY DEF Write, AccountsInv, TypeOK
<1>2. TypeOK
  BY DEF AccountsInv
<1>3. TypeOK'
  <2>1. accounts' \in [Users -> {None} \cup Account]
    BY <1>2 DEF Write, TypeOK
  <2>2. \A v \in Users : accounts'[v] # None => v \in made'
    BY <1>1, <1>2 DEF TypeOK
  <2>3. ASSUME NEW x \in Users, NEW y \in Users, accounts'[x] # None, accounts'[y] # None,
               accounts'[x].email = accounts'[y].email
        PROVE  x = y
    <3>1. CASE x # u /\ y # u
      BY <1>1, <1>2, <2>3, <3>1 DEF TypeOK
    <3>2. CASE x = u /\ y # u
      BY <1>1, <2>3, <3>2 DEF EmailFree
    <3>3. CASE x # u /\ y = u
      BY <1>1, <2>3, <3>3 DEF EmailFree
    <3> QED BY <3>1, <3>2, <3>3
  <2>4. \A v \in Workers : req'[v] \in {Idle} \cup Request \cup Edit
    BY <1>2, WriteMarks DEF TypeOK
  <2>5. req' \in [Workers -> {Idle} \cup Request \cup Edit]
    BY <2>4 DEF Write
  <2>6. abdicated' \in BOOLEAN
    BY DEF Write
  <2> QED BY <2>1, <2>2, <2>3, <2>5, <2>6 DEF TypeOK
<1>4. ASSUME NEW v \in Workers, req'[v].pc \in {"admitted", "refused"}
      PROVE  req'[v] = req[v]
  BY <1>2, <1>4, WriteMarks DEF Idle, InHand
<1>5. Admitted'
  BY <1>4 DEF AccountsInv, Admitted, At
<1>6. ASSUME NEW v \in Workers, InHand(v)'
      PROVE  /\ InHand(v)
             /\ \A c \in {"pc", "op", "by", "manager", "target", "row", "named"} :
                   req'[v][c] = req[v][c]
             /\ req'[v].stale \/ (req'[v] = req[v] /\ req[v].target # u)
  <2>1. req'[v] # Idle
    BY <1>6 DEF Idle, InHand
  <2>2. CASE req'[v] = req[v] /\ (InHand(v) => req[v].target # u)
    BY <1>6, <2>2 DEF InHand
  <2> QED BY <1>2, <2>1, <2>2, WriteMarks
<1>7. Authorised'
  <2> SUFFICES ASSUME NEW v \in Workers, InHand(v)'
               PROVE  /\ req'[v].target # None => req'[v].target \in made' /\ req'[v].manager
                      /\ req'[v].manager => req'[v].by \in Users
                      /\ req'[v].pc = "loaded" => req'[v].target # None /\ req'[v].named = {}
    BY DEF Authorised, At
  <2>1. /\ req[v].target # None => req[v].target \in made /\ req[v].manager
        /\ req[v].manager => req[v].by \in Users
        /\ req[v].pc = "loaded" => req[v].target # None /\ req[v].named = {}
    BY <1>6 DEF AccountsInv, Authorised, At
  <2> QED BY <1>6, <2>1
<1>8. RowCurrent'
  <2> SUFFICES ASSUME NEW v \in Workers, InHand(v)', req'[v].target # None, ~req'[v].stale
               PROVE  /\ accounts'[req'[v].target] # None
                      /\ \A c \in Columns \ req'[v].named :
                            req'[v].row[c] = accounts'[req'[v].target][c]
    BY DEF RowCurrent
  <2>1. InHand(v) /\ req'[v] = req[v] /\ req[v].target # u
    BY <1>6
  <2>2. accounts'[req[v].target] = accounts[req[v].target]
    BY <1>1, <1>2, <2>1 DEF AccountsInv, Authorised, TypeOK
  <2> QED BY <2>1, <2>2 DEF AccountsInv, RowCurrent
<1>9. ManagerRemains'
  BY <1>1 DEF ManagerRemains, Manages, Active
<1> QED BY <1>3, <1>5, <1>7, <1>8, <1>9 DEF AccountsInv

\* Who has an account in hand may write it: a manager remains beside the account
\* written, unless the writer abdicates by the write.
LEMMA WriterRemains ==
    ASSUME AccountsInv, NEW w \in Workers, InHand(w), req[w].target # None, NEW row,
           Write(w, req[w].target, row)
    PROVE  abdicated' \/ \E m \in Users \ {req[w].target} : Manages(m)
BY DEF AccountsInv, Authorised, Write

LEMMA UpdateInv ==
    ASSUME AccountsInv, NEW w \in Workers, Update(w)
    PROVE  AccountsInv'
<1>1. InHand(w) /\ req[w].target # None /\ req[w] \in Edit
  BY RequestForms DEF Update, At, InHand, AccountsInv
<1>2. req[w].row \in Account /\ req[w].target \in made /\ req[w].target \in Users
  BY <1>1 DEF Edit, AccountsInv, Authorised, TypeOK
<1>3. /\ Write(w, req[w].target, req[w].row) /\ made' = made
      /\ EmailFree(req[w].row.email, req[w].target)
  BY DEF Update
<1>4. abdicated' \/ \E m \in Users \ {req[w].target} : Manages(m)
  BY <1>1, <1>3, WriterRemains
<1> QED BY <1>2, <1>3, <1>4, Written DEF AccountsInv, TypeOK

LEMMA DeleteInv ==
    ASSUME AccountsInv, NEW w \in Workers, Delete(w)
    PROVE  AccountsInv'
<1>1. InHand(w) /\ req[w].target # None
  BY DEF Delete, At, InHand, AccountsInv, Authorised
<1>2. req[w].target \in Users
  BY <1>1 DEF AccountsInv, Authorised, TypeOK
<1>3. Write(w, req[w].target, None) /\ made' = made
  BY DEF Delete
<1>4. abdicated' \/ \E m \in Users \ {req[w].target} : Manages(m)
  BY <1>1, <1>3, WriterRemains
<1> QED BY <1>2, <1>3, <1>4, Written DEF AccountsInv, TypeOK

\* The new row takes the place of none.
LEMMA InsertInv ==
    ASSUME AccountsInv, NEW w \in Workers, Insert(w)
    PROVE  AccountsInv'
<1>1. InHand(w) /\ req[w] \in Edit
  BY RequestForms DEF Insert, At, InHand, AccountsInv
<1>2. req[w].row \in Account /\ EmailFree(req[w].row.email, None)
  BY <1>1 DEF Edit, Insert
<1>3. PICK u \in Users \ made : Write(w, u, req[w].row) /\ made' = made \cup {u}
  BY DEF Insert
<1>4. accounts[u] = None
  BY <1>3 DEF AccountsInv, TypeOK
<1>5. EmailFree(req[w].row.email, u)
  BY <1>2, NoneIsNothing DEF EmailFree
<1>6. abdicated' \/ \E m \in Users \ {u} : Manages(m)
  BY <1>3, <1>4 DEF AccountsInv, ManagerRemains, Write, Manages, Active
<1> QED BY <1>2, <1>3, <1>5, <1>6, Written DEF AccountsInv, TypeOK

-----------------------------------------------------------------------------
(* Every step, and the theorems *)

LEMMA NextInv ==
    ASSUME AccountsInv, [Next]_vars
    PROVE  AccountsInv'
<1>1. ASSUME NEW w \in Workers, NEW u \in Users \cup {None}, NEW op \in Operations,
             Arrive(w, op, u)
      PROVE  AccountsInv'
  BY <1>1, ArriveInv
<1>2. ASSUME NEW w \in Workers, NEW by \in Users, NEW u \in Users, OpenForm(w, by, u)
      PROVE  AccountsInv'
  BY <1>2, OpenFormInv
<1>3. ASSUME NEW w \in Workers, NEW by \in Users, NEW e \in Emails, NEW role \in Roles,
             PostNew(w, by, e, role)
      PROVE  AccountsInv'
  BY <1>3, PostNewInv
<1>4. ASSUME NEW w \in Workers, NEW u \in Users, Load(w, u)
      PROVE  AccountsInv'
  BY <1>4, LoadInv
<1>5. ASSUME NEW w \in Workers, NEW body \in Bodies, Check(w, body)
      PROVE  AccountsInv'
  BY <1>5, CheckInv
<1>6. ASSUME NEW w \in Workers, NEW e \in Emails, NEW role \in Roles, Register(w, e, role)
      PROVE  AccountsInv'
  BY <1>6, RegisterInv
<1>7. ASSUME NEW w \in Workers, Update(w) \/ Insert(w) \/ Delete(w) \/ Stop(w)
      PROVE  AccountsInv'
  BY <1>7, UpdateInv, InsertInv, DeleteInv, StopInv
<1>8. CASE UNCHANGED vars
  BY <1>8 DEF vars, AccountsInv, TypeOK, Admitted, Authorised, RowCurrent, ManagerRemains,
              InHand, At, Manages, Active
<1> QED BY <1>1, <1>2, <1>3, <1>4, <1>5, <1>6, <1>7, <1>8 DEF Next

THEOREM Inductive == Spec => []AccountsInv
BY InitInv, NextInv, PTL DEF Spec

\* Every reachable state is well typed: no key names an account that was not created
\* and no two accounts have one address.
THEOREM TypeCorrect == Spec => []TypeOK
BY Inductive, PTL DEF AccountsInv

\* The permission classes give the API exactly the documented matrix.
THEOREM MatrixTrue == Spec => []ServedAsDocumented
<1>1. ASSUME NEW role \in Roles \cup {"anonymous"}, NEW op \in Operations, op # "form"
      PROVE  Permitted(op, role) <=> op \in Documented[role]
  <2> USE DEF IsAdmin, IsCustomer, IsAuthenticated, CanViewResponses, IsAdminOrReadOnly
  <2>1. CASE role = "admin"
    <3>1. Documented["admin"] = Operations \ {"submit", "form"}
      BY DEF Documented, Operations
    <3>2. Permitted(op, "admin") <=> op # "submit"
      BY DEF Permitted
    <3> QED BY <1>1, <2>1, <3>1, <3>2
  <2>2. CASE role = "data_analyst"
    BY <1>1, <2>2 DEF Permitted, Documented, Operations
  <2>3. CASE role = "data_viewer"
    BY <1>1, <2>3 DEF Permitted, Documented, Operations
  <2>4. CASE role = "customer"
    BY <1>1, <2>4 DEF Permitted, Documented, Operations
  <2>5. CASE role = "anonymous"
    BY <1>1, <2>5 DEF Permitted, Documented, Operations
  <2> QED BY <2>1, <2>2, <2>3, <2>4, <2>5 DEF Roles
<1>2. AccountsInv => ServedAsDocumented
  <2> SUFFICES ASSUME AccountsInv, NEW w \in Workers, req[w].pc \in {"admitted", "refused"}
               PROVE  At(w, "refused") <=> req[w].op \notin Documented[req[w].role]
    BY DEF ServedAsDocumented
  <2>1. req[w].role \in Roles \cup {"anonymous"} /\ req[w].op \in Operations
    BY RequestForms DEF AccountsInv, Request
  <2>2. req[w].op # "form" /\ (At(w, "refused") <=> ~Permitted(req[w].op, req[w].role))
    BY DEF AccountsInv, Admitted
  <2> QED BY <1>1, <2>1, <2>2
<1> QED BY <1>2, Inductive, PTL

\* An edit changes columns it does not name only when it was overtaken.
THEOREM EditsNameTheirColumns == Spec => []OnlyNamedUnlessStale
<1>1. AccountsInv => OnlyNamedUnlessStale
  BY DEF AccountsInv, RowCurrent, OnlyNamedUnlessStale, InHand, At
<1> QED BY <1>1, Inductive, PTL

\* The last manager goes only by its own request, or by one that was served to a
\* sender who has lost the right meanwhile.
THEOREM ManagerStays == Spec => []ManagerRemains
BY Inductive, PTL DEF AccountsInv
=============================================================================

------------------------------ MODULE Accounts ------------------------------
(***************************************************************************)
(* The accounts, who may do what with them, and how the requests that      *)
(* register, edit and delete them overlap.                                 *)
(*                                                                         *)
(* A request is authenticated first: its sender is read from the database, *)
(* and the permission of the view looks at the role it had then.  An edit  *)
(* reads the row, checks the body against other rows, and writes all       *)
(* columns back.  The operations of the other parts are served or refused  *)
(* here; what they do is in their own modules.                             *)
(***************************************************************************)
EXTENDS TLC

CONSTANTS Users,      \* bound: the primary keys, each used for one account
          Emails,     \* addresses as they are spelled
          Normal,     \* BaseUserManager.normalize_email: the domain in lower case
          Bodies,     \* what an edit may name: records over some of the columns
          Workers,
          None        \* no account, no sender, or no row yet

Roles == {"admin", "data_analyst", "data_viewer", "customer"}

\* staff: is_staff with the permissions of a superuser.
Account == [email : Emails, role : Roles, active : BOOLEAN, staff : BOOLEAN]
Columns == {"email", "role", "active", "staff"}

ASSUME AddressesNormalise ==
    Normal \in [Emails -> Emails] /\ \A e \in Emails : Normal[Normal[e]] = Normal[e]

ASSUME BodiesNameColumns ==
    \A body \in Bodies : \E named \in SUBSET Columns, a \in Account :
        body = [c \in named |-> a[c]]

ASSUME NoneIsNothing == None \notin Users \cup Account

VARIABLES accounts,    \* the table users
          made,        \* the keys that were given out
          req,         \* the request of each worker
          abdicated    \* history: a sender wrote its own account, or wrote after it had
                       \* lost the rights it was served by

vars == <<accounts, made, req, abdicated>>

Idle == [pc |-> "idle"]

\* "form" is the user pages of the admin site.
Operations == {"register", "profile", "users", "read surveys", "write surveys",
               "sections and fields", "rules and dependencies", "submit",
               "read responses", "audit logs", "form"}

Request == [pc : {"admitted", "refused"}, op : Operations, by : Users \cup {None},
            role : Roles \cup {"anonymous"}]

\* manager: the sender was served as one who manages accounts.  row is what will be
\* written, named the columns it takes from the body.  stale is history: another
\* request wrote the account after this one had read it.
Edit == [pc : {"loaded", "checked"}, op : Operations, by : Users \cup {None}, manager : BOOLEAN,
         target : Users \cup {None}, row : Account, named : SUBSET Columns, stale : BOOLEAN]

TypeOK ==
    /\ accounts \in [Users -> {None} \cup Account]
    /\ made \subseteq Users
    /\ \A u \in Users : accounts[u] # None => u \in made
    /\ \A u, v \in made :
          accounts[u] # None /\ accounts[v] # None /\ accounts[u].email = accounts[v].email => u = v
    /\ req \in [Workers -> {Idle} \cup Request \cup Edit]
    /\ abdicated \in BOOLEAN

\* manage.py createsuperuser has made the first account.
Init ==
    /\ \E u \in Users, e \in Emails :
          /\ accounts = [v \in Users |->
                IF v = u THEN [email |-> Normal[e], role |-> "admin", active |-> TRUE, staff |-> TRUE]
                         ELSE None]
          /\ made = {u}
    /\ req = [w \in Workers |-> Idle]
    /\ abdicated = FALSE

At(w, location) == req[w].pc = location

Active(u) == accounts[u] # None /\ accounts[u].active

\* A deactivated member of the staff keeps the admin site.
StaffEvenInactive(u) == accounts[u] # None /\ accounts[u].staff

\* AdminSite.has_permission
Staff(u) == Active(u) /\ accounts[u].staff

Manages(u) == Active(u) /\ (accounts[u].role = "admin" \/ accounts[u].staff)

RoleOf(u) == IF u = None THEN "anonymous" ELSE accounts[u].role

-----------------------------------------------------------------------------
(* Permissions: every request, by the role of its sender *)

IsAdmin(role) == role = "admin"

IsCustomer(role) == role = "customer"
IsAuthenticated(role) == role # "anonymous"
CanViewResponses(role) == role \in {"admin", "data_analyst", "data_viewer"}

\* The roles are not looked at in the views that also read.
IsAuthenticatedOnly(op, role) == IsAuthenticated(role)

IsAdminOrReadOnly(op, role) ==
    IsAuthenticated(role) /\ (op = "read surveys" \/ role = "admin")

Permitted(op, role) ==
    CASE op = "register" -> TRUE
      [] op = "profile" -> IsAuthenticated(role)
      [] op \in {"read surveys", "write surveys"} -> IsAdminOrReadOnly(op, role)
      [] op = "submit" -> IsCustomer(role)
      [] op = "read responses" -> CanViewResponses(role)
      [] OTHER -> IsAdmin(role)

\* JWTAuthentication refuses the token of an account that is gone or not active.
Arrive(w, op, u) ==
    /\ At(w, "idle") /\ op # "form"
    /\ u # None => Active(u)
    /\ req' = [req EXCEPT ![w] =
          [pc |-> IF Permitted(op, RoleOf(u)) THEN "admitted" ELSE "refused",
           op |-> op, by |-> u, role |-> RoleOf(u)]]
    /\ UNCHANGED <<accounts, made, abdicated>>

\* The reply; also a refusal, an IntegrityError, or the end of the worker.
Stop(w) ==
    /\ ~At(w, "idle")
    /\ req' = [req EXCEPT ![w] = Idle]
    /\ UNCHANGED <<accounts, made, abdicated>>

-----------------------------------------------------------------------------
(* The operations on accounts *)

EmailFree(email, target) ==
    \A u \in Users \ {target} : accounts[u] # None => accounts[u].email # email

\* As a PUT that does not send a column would, were it given its default.
EditedFromDefaults(row, body) ==
    body @@ [email |-> row.email, role |-> "customer", active |-> TRUE, staff |-> FALSE]

\* The serializer, or the form, sets the attributes that the body names.
Edited(row, body) == [c \in Columns |-> IF c \in DOMAIN body THEN body[c] ELSE row[c]]

Become(w, location, target, row, named) ==
    [pc |-> location, op |-> req[w].op, by |-> req[w].by,
     manager |-> req[w].role = "admin", target |-> target, row |-> row, named |-> named, stale |-> FALSE]

\* get_object of UserDetailView.
Load(w, u) ==
    /\ At(w, "admitted") /\ req[w].op = "users"
    /\ accounts[u] # None
    /\ req' = [req EXCEPT ![w] = Become(w, "loaded", u, accounts[u], {})]
    /\ UNCHANGED <<accounts, made, abdicated>>

\* A page of the admin site is shown; it will post every column back.
OpenForm(w, by, u) ==
    /\ At(w, "idle") /\ Staff(by)
    /\ accounts[u] # None
    /\ req' = [req EXCEPT ![w] =
          [pc |-> "loaded", op |-> "form", by |-> by, manager |-> Manages(by), target |-> u,
           row |-> accounts[u], named |-> {}, stale |-> FALSE]]
    /\ UNCHANGED <<accounts, made, abdicated>>

\* UserUpdateSerializer does not know is_staff.  The form is posted by one who may
\* still do so, for an account that is still there.
Check(w, body) ==
    LET r == req[w] IN
    /\ At(w, "loaded")
    /\ IF r.op = "form" THEN Staff(r.by) /\ accounts[r.target] # None
                        ELSE "staff" \notin DOMAIN body
    /\ EmailFree(Edited(r.row, body).email, r.target)
    /\ req' = [req EXCEPT ![w] = [r EXCEPT !.pc = "checked", !.row = Edited(r.row, body),
                                           !.named = DOMAIN body]]
    /\ UNCHANGED <<accounts, made, abdicated>>

New(email, role) == [email |-> email, role |-> role, active |-> TRUE, staff |-> FALSE]

\* UserRegistrationSerializer; create_user normalises after the address was checked.
Register(w, email, role) ==
    /\ At(w, "admitted") /\ req[w].op = "register"
    /\ EmailFree(email, None)
    /\ role = "customer" \/ req[w].role = "admin"
    /\ req' = [req EXCEPT ![w] = Become(w, "checked", None, New(Normal[email], role), Columns)]
    /\ UNCHANGED <<accounts, made, abdicated>>

\* The add page of the admin site does not normalise.
PostNew(w, by, email, role) ==
    /\ At(w, "idle") /\ Staff(by)
    /\ EmailFree(email, None)
    /\ req' = [req EXCEPT ![w] =
          [pc |-> "checked", op |-> "form", by |-> by, manager |-> Manages(by), target |-> None,
           row |-> New(email, role), named |-> Columns, stale |-> FALSE]]
    /\ UNCHANGED <<accounts, made, abdicated>>

\* Account u becomes row, and the request is over.
Write(w, u, row) ==
    /\ accounts' = [accounts EXCEPT ![u] = row]
    /\ req' = [v \in Workers |->
          IF v = w THEN Idle
          ELSE IF req[v].pc \in {"loaded", "checked"} /\ req[v].target = u
               THEN [req[v] EXCEPT !.stale = TRUE] ELSE req[v]]
    /\ abdicated' = (abdicated \/ req[w].by = u \/ (req[w].manager /\ ~Manages(req[w].by)))

\* save(): an UPDATE of all columns, or an INSERT when no row has the key.  The
\* unique index refuses an address that was taken meanwhile.
Update(w) ==
    /\ At(w, "checked") /\ req[w].target # None
    /\ EmailFree(req[w].row.email, req[w].target)
    /\ Write(w, req[w].target, req[w].row)
    /\ UNCHANGED made

Insert(w) ==
    /\ At(w, "checked") /\ req[w].target = None
    /\ EmailFree(req[w].row.email, None)
    /\ \E u \in Users \ made : Write(w, u, req[w].row) /\ made' = made \cup {u}

\* The key of a deleted account is given out again.
DeleteFreesKey(w) ==
    /\ At(w, "loaded") /\ req[w].op = "form"
    /\ Staff(req[w].by) /\ accounts[req[w].target] # None
    /\ Write(w, req[w].target, None)
    /\ made' = made \ {req[w].target}

\* The admin site deletes the account of the page.
Delete(w) ==
    /\ At(w, "loaded") /\ req[w].op = "form"
    /\ Staff(req[w].by) /\ accounts[req[w].target] # None
    /\ Write(w, req[w].target, None)
    /\ UNCHANGED made

Next == \E w \in Workers :
    \/ \E u \in Users \cup {None}, op \in Operations : Arrive(w, op, u)
    \/ \E by, u \in Users : OpenForm(w, by, u)
    \/ \E by \in Users, e \in Emails, role \in Roles : PostNew(w, by, e, role)
    \/ \E u \in Users : Load(w, u)
    \/ \E body \in Bodies : Check(w, body)
    \/ \E e \in Emails, role \in Roles : Register(w, e, role)
    \/ Update(w) \/ Insert(w) \/ Delete(w)
    \/ Stop(w)

Spec == Init /\ [][Next]_vars

-----------------------------------------------------------------------------
(* Properties *)

\* The matrix of docs/authentication.md:49-61, for the views as they are.
Documented ==
    [admin |-> {"register", "profile", "users", "read surveys", "write surveys",
                "sections and fields", "rules and dependencies", "read responses", "audit logs"},
     data_analyst |-> {"register", "profile", "read surveys", "read responses"},
     data_viewer |-> {"register", "profile", "read surveys", "read responses"},
     customer |-> {"register", "profile", "read surveys", "submit"},
     anonymous |-> {"register"}]

\* A request of the API is served exactly when the documented matrix gives the
\* operation to the role its sender had when it was authenticated.
ServedAsDocumented ==
    \A w \in Workers :
        req[w].pc \in {"admitted", "refused"} =>
            (At(w, "refused") <=> req[w].op \notin Documented[req[w].role])

\* UserUpdateSerializer and the user form: what is about to be written differs from
\* the stored account in the columns the request names, and the account is there;
\* otherwise another request wrote the account after this one had read it.  Only so
\* can a role that was taken, a deactivation or a deletion be undone by an edit that
\* is about something else.
OnlyNamedUnlessStale ==
    \A w \in Workers :
        At(w, "checked") /\ req[w].target # None /\ ~req[w].stale =>
            /\ accounts[req[w].target] # None
            /\ \A c \in Columns \ req[w].named : req[w].row[c] = accounts[req[w].target][c]

\* Somebody active can manage the accounts (IsAdmin, or the admin site), unless a
\* sender wrote its own account, or was still served after it had lost its rights:
\* two administrators who demote each other at the same time.  No code guards the
\* last administrator.
ManagerRemains == abdicated \/ \E u \in Users : Manages(u)
=============================================================================

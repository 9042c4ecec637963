-------------------------------- MODULE Accounts --------------------------------
(* The accounts of the server: its start-up with the default admin               *)
(* (cmd/server/main.go, db/db.go, EnsureDefaultAdmin of auth/auth.go),           *)
(* registration, login, the change of a password and the gate in front of the    *)
(* session controls (api/router.go).  Requests overlap, the database comes and   *)
(* goes, the server is restarted.                                                *)

CONSTANTS Names,      (* user names                                              *)
          Emails,
          Passwords,
          Long,       (* the passwords of at least ten characters                *)
          Admin,      (* DEFAULT_ADMIN_USERNAME, ..._EMAIL, ..._PASSWORD         *)
          AdminEmail,
          Initial,
          NoRow,      (* not a row                                               *)
          Requests    (* requests that run at the same time                      *)

Rows == [email : Emails, password : Passwords, required : BOOLEAN]

ASSUME AccountsAssumption ==
    /\ Long \subseteq Passwords
    /\ Admin \in Names /\ AdminEmail \in Emails /\ Initial \in Passwords
    /\ NoRow \notin Rows

VARIABLES
    server,      (* "down", in EnsureDefaultAdmin "checking" or "inserting",     *)
                 (* "up" after it, "unprepared": up without a database at start  *)
    database,    (* whether it can be reached                                    *)
    migrated,    (* the tables exist                                             *)
    users,       (* the rows, by user name: it is unique, and never changes      *)
    tokens,      (* whose tokens there are; they outlive everything here         *)
    pc,          (* where a request is                                           *)
    who,         (* the user of its token                                        *)
    new,         (* the new password of a change                                 *)
    bootstrap,   (* history: EnsureDefaultAdmin inserted the row of Admin        *)
    updated      (* history: for whom the UPDATE of ChangePassword has run       *)

start == <<server, migrated>>
requests == <<pc, who, new>>
history == <<bootstrap, updated>>
vars == <<start, database, users, tokens, requests, history>>

TypeOK ==
    /\ server \in {"down", "checking", "inserting", "up", "unprepared"}
    /\ database \in BOOLEAN /\ migrated \in BOOLEAN
    /\ users \in [Names -> Rows \cup {NoRow}]
    /\ tokens \in SUBSET Names
    /\ pc \in [Requests -> {"idle", "checked", "inside"}]
    /\ who \in [Requests -> Names]
    /\ new \in [Requests -> Passwords]
    /\ bootstrap \in BOOLEAN
    /\ updated \in SUBSET Names

Init ==
    /\ server = "down" /\ database \in BOOLEAN /\ migrated = FALSE
    /\ users = [n \in Names |-> NoRow]
    /\ tokens = {}
    /\ pc = [r \in Requests |-> "idle"]
    /\ who = [r \in Requests |-> Admin]
    /\ new = [r \in Requests |-> Initial]
    /\ bootstrap = FALSE /\ updated = {}

-------------------------------------------------------------------------------
(* The definitions named X_... are faulty variants of X, each with a mistake     *)
(* that a change of the code could bring in; the specification uses none.        *)

Registered(n) == users[n] # NoRow
Taken(e) == \E n \in Names : Registered(n) /\ users[n].email = e

(* UNIQUE on both columns. *)
Insert_Upsert(n, e, p, required) ==
    users' = [users EXCEPT ![n] = [email |-> e, password |-> p, required |-> required]]
Insert(n, e, p, required) ==
    /\ ~Registered(n) /\ ~Taken(e)
    /\ users' = [users EXCEPT ![n] = [email |-> e, password |-> p, required |-> required]]

-------------------------------------------------------------------------------
(* Start-up *)

(* Connect and the migrations.  Without a database the server starts all the     *)
(* same, and uses it when it is there; an error of a migration ends it again.    *)
Start ==
    /\ server = "down"
    /\ IF database THEN server' = "checking" /\ migrated' = TRUE
                   ELSE server' = "unprepared" /\ UNCHANGED migrated
    /\ UNCHANGED <<database, users, tokens, requests, history>>

(* EnsureDefaultAdmin: the name is looked up; an error ends the process. *)
AfterLookup_ErrorIgnored ==
    IF database /\ ~Registered(Admin) THEN "inserting" ELSE "up"
AfterLookup ==
    IF ~database THEN "down" ELSE IF Registered(Admin) THEN "up" ELSE "inserting"

LookUpAdmin ==
    /\ server = "checking"
    /\ server' = AfterLookup
    /\ UNCHANGED <<migrated, database, users, tokens, requests, history>>

(* ... and the row inserted; that it cannot be, too. *)
AdminRow_NotRequired == Insert(Admin, AdminEmail, Initial, FALSE)
AdminRow == Insert(Admin, AdminEmail, Initial, TRUE)

InsertAdmin ==
    /\ server = "inserting"
    /\ database
    /\ AdminRow
    /\ server' = "up"
    /\ bootstrap' = TRUE
    /\ UNCHANGED <<migrated, database, tokens, requests, updated>>

AdminFails ==
    /\ server = "inserting"
    /\ ~database \/ Taken(AdminEmail)
    /\ server' = "down"
    /\ UNCHANGED <<migrated, database, users, tokens, requests, history>>

(* The process ends, and its requests with it. *)
Stop ==
    /\ server # "down"
    /\ server' = "down"
    /\ pc' = [r \in Requests |-> "idle"]
    /\ UNCHANGED <<migrated, database, users, tokens, who, new, history>>

(* The database becomes unreachable, or reachable again. *)
DatabaseChanges ==
    /\ database' = ~database
    /\ UNCHANGED <<start, users, tokens, requests, history>>

-------------------------------------------------------------------------------
(* Requests: what is refused changes nothing and has no action *)

Serving == server \in {"up", "unprepared"} /\ database /\ migrated

(* handleRegister: one INSERT, and a token. *)
Register(n, e, p) ==
    /\ Serving
    /\ Insert(n, e, p, FALSE)
    /\ tokens' = tokens \cup {n}
    /\ UNCHANGED <<start, database, requests, history>>

(* handleLogin *)
Login(n, p) ==
    /\ Serving
    /\ Registered(n) /\ users[n].password = p
    /\ tokens' = tokens \cup {n}
    /\ UNCHANGED <<start, database, users, requests, history>>

(* ChangePassword: the length of the new password and the hash of the current    *)
(* one are checked ...                                                           *)
CheckPassword(r, n, current, p) ==
    /\ Serving
    /\ pc[r] = "idle" /\ n \in tokens
    /\ p \in Long
    /\ users[n].password = current
    /\ pc' = [pc EXCEPT ![r] = "checked"]
    /\ who' = [who EXCEPT ![r] = n]
    /\ new' = [new EXCEPT ![r] = p]
    /\ UNCHANGED <<start, database, users, tokens, history>>

(* ... then, unless the database fails, the row is updated, whatever it is now. *)
Updated(row, p) == [row EXCEPT !.password = p, !.required = FALSE]

UpdatePassword(r) ==
    LET n == who[r]
    IN  /\ Serving
        /\ pc[r] = "checked"
        /\ users' = [users EXCEPT ![n] = Updated(@, new[r])]
        /\ updated' = updated \cup {n}
        /\ pc' = [pc EXCEPT ![r] = "idle"]
        /\ UNCHANGED <<start, database, tokens, who, new, bootstrap>>

UpdateFails(r) ==
    /\ pc[r] = "checked" /\ ~database
    /\ pc' = [pc EXCEPT ![r] = "idle"]
    /\ UNCHANGED <<start, database, users, tokens, who, new, history>>

(* requirePasswordRotation reads the flag, then the handler behind it runs. *)
Enter(r, n) ==
    /\ Serving
    /\ pc[r] = "idle" /\ n \in tokens
    /\ ~users[n].required
    /\ pc' = [pc EXCEPT ![r] = "inside"]
    /\ who' = [who EXCEPT ![r] = n]
    /\ UNCHANGED <<start, database, users, tokens, new, history>>

Return(r) ==
    /\ pc[r] = "inside"
    /\ pc' = [pc EXCEPT ![r] = "idle"]
    /\ UNCHANGED <<start, database, users, tokens, who, new, history>>

Next ==
    \/ Start \/ LookUpAdmin \/ InsertAdmin \/ AdminFails \/ Stop \/ DatabaseChanges
    \/ \E n \in Names, e \in Emails, p \in Passwords : Register(n, e, p)
    \/ \E n \in Names, p \in Passwords : Login(n, p)
    \/ \E r \in Requests :
          \/ \E n \in Names : Enter(r, n) \/ \E c, p \in Passwords : CheckPassword(r, n, c, p)
          \/ UpdatePassword(r) \/ UpdateFails(r) \/ Return(r)

Spec == Init /\ [][Next]_vars

-------------------------------------------------------------------------------
(* Properties *)

(* Whoever holds a token, or is being served, has a row, and nobody is served    *)
(* while the server starts.                                                      *)
TokenInv ==
    /\ \A n \in tokens : Registered(n)
    /\ \A r \in Requests : pc[r] # "idle" =>
          Registered(who[r]) /\ server \in {"up", "unprepared"}

(* The row that EnsureDefaultAdmin has made asks for another password until one  *)
(* was written.                                                                  *)
AdminInv == bootstrap => Registered(Admin) /\ (users[Admin].required \/ Admin \in updated)

(* The default admin is served behind the gate only after a change of password,  *)
(* whatever restarts, registrations and other requests came in between.          *)
RotationFirst ==
    \A r \in Requests :
        pc[r] = "inside" /\ who[r] = Admin /\ bootstrap => Admin \in updated

AccountsInv == TypeOK /\ TokenInv /\ AdminInv /\ RotationFirst

(* A server that has had its database when it started has the account of the     *)
(* default admin, though perhaps as somebody else registered it.                 *)
AdminThere == server = "up" => Registered(Admin)

(* A row that is there is only changed by its user: no restart takes a changed   *)
(* password back or asks for another one, no registration takes a name over.     *)
ByOwner(n) ==
    \E r \in Requests :
        /\ pc[r] = "checked" /\ who[r] = n
        /\ users'[n].password = new[r] /\ users'[n].email = users[n].email
        /\ ~users'[n].required

RowsKept ==
    [][\A n \in Names : Registered(n) /\ users'[n] # users[n] => ByOwner(n)]_vars

===============================================================================

----------------------------- MODULE Accounts_proofs -----------------------------
(* Proofs about Accounts.                                                        *)
EXTENDS Accounts, TLAPS

(* What an INSERT does to the rows. *)
LEMMA InsertRow ==
    ASSUME AccountsAssumption, TypeOK, NEW n \in Names, NEW e \in Emails,
           NEW p \in Passwords, NEW required \in BOOLEAN, Insert(n, e, p, required)
    PROVE  /\ users' \in [Names -> Rows \cup {NoRow}]
           /\ users'[n] # NoRow /\ users'[n].required = required
           /\ \A o \in Names : users[o] # NoRow => users'[o] = users[o]
<1> DEFINE row == [email |-> e, password |-> p, required |-> required]
<1>1. row \in Rows /\ row # NoRow /\ row.required = required
  BY DEF Rows, AccountsAssumption
<1>2. users[n] = NoRow /\ users' = [users EXCEPT ![n] = row]
  BY DEF Insert, Registered
<1> HIDE DEF row
<1> QED
  BY <1>1, <1>2 DEF TypeOK

(* What the UPDATE of ChangePassword does to a row that is there. *)
LEMMA UpdateRow ==
    ASSUME AccountsAssumption, TypeOK, TokenInv, NEW r \in Requests, UpdatePassword(r)
    PROVE  /\ who[r] \in Names /\ pc[r] = "checked" /\ users[who[r]] \in Rows
           /\ users' \in [Names -> Rows \cup {NoRow}]
           /\ users'[who[r]] = [users[who[r]] EXCEPT !.password = new[r], !.required = FALSE]
           /\ users'[who[r]] \in Rows
           /\ \A o \in Names : o # who[r] => users'[o] = users[o]
<1> DEFINE n == who[r]
           row == [users[n] EXCEPT !.password = new[r], !.required = FALSE]
<1>1. n \in Names /\ new[r] \in Passwords /\ pc[r] = "checked"
  BY DEF TypeOK, UpdatePassword
<1>2. users[n] \in Rows
  BY <1>1 DEF TypeOK, TokenInv, Registered
<1>3. row \in Rows
  BY <1>1, <1>2 DEF Rows
<1>4. users' = [users EXCEPT ![n] = row]
  BY DEF UpdatePassword, Updated
<1> HIDE DEF row
<1>5. users'[n] = row /\ users' \in [Names -> Rows \cup {NoRow}]
  BY <1>1, <1>3, <1>4 DEF TypeOK
<1>6. \A o \in Names : o # n => users'[o] = users[o]
  BY <1>1, <1>4 DEF TypeOK
<1> QED
  BY <1>1, <1>2, <1>3, <1>5, <1>6 DEF row

(* The invariant holds at the start. *)
LEMMA AccountsInit == ASSUME AccountsAssumption, Init PROVE AccountsInv
<1>1. TypeOK
  BY DEF Init, TypeOK, AccountsAssumption
<1>2. TokenInv /\ AdminInv /\ RotationFirst
  BY DEF Init, TokenInv, AdminInv, RotationFirst
<1> QED
  BY <1>1, <1>2 DEF AccountsInv

(* A step that changes no row, token or history and starts no request.           *)
LEMMA QuietStep ==
    ASSUME AccountsInv, TypeOK', UNCHANGED <<users, tokens, who, bootstrap, updated>>,
           \A r \in Requests : pc'[r] \in {pc[r], "idle"},
           server' = server \/ (\A r \in Requests : pc'[r] = "idle")
    PROVE  AccountsInv'
BY DEF AccountsInv, TokenInv, AdminInv, RotationFirst, Registered

(* While the server starts, nobody is being served. *)
LEMMA Starting ==
    ASSUME TokenInv, TypeOK, server \notin {"up", "unprepared"}
    PROVE  \A r \in Requests : pc[r] = "idle"
BY DEF TokenInv

(* Every step keeps the invariant. *)
LEMMA AccountsStep == ASSUME AccountsAssumption, AccountsInv, [Next]_vars PROVE AccountsInv'
<1> USE DEF AccountsInv
<1>1. CASE Start
  <2>1. TypeOK'
    BY <1>1 DEF Start, TypeOK, requests, history
  <2> QED
    BY <1>1, <2>1, Starting, QuietStep DEF Start, requests, history
<1>2. CASE LookUpAdmin
  <2>1. TypeOK'
    BY <1>2 DEF LookUpAdmin, AfterLookup, TypeOK, requests, history
  <2> QED
    BY <1>2, <2>1, Starting, QuietStep DEF LookUpAdmin, requests, history
<1>3. CASE InsertAdmin
  <2>1. /\ users' \in [Names -> Rows \cup {NoRow}]
        /\ users'[Admin] # NoRow /\ users'[Admin].required = TRUE
        /\ \A o \in Names : users[o] # NoRow => users'[o] = users[o]
    BY <1>3, InsertRow DEF InsertAdmin, AdminRow, AccountsAssumption
  <2>2. \A r \in Requests : pc[r] = "idle"
    BY <1>3, Starting DEF InsertAdmin
  <2>3. /\ UNCHANGED <<migrated, database, tokens, pc, who, new, updated>>
        /\ server' = "up" /\ bootstrap' = TRUE
    BY <1>3 DEF InsertAdmin, requests
  <2>4. TypeOK'
    BY <2>1, <2>3 DEF TypeOK
  <2>5. TokenInv'
    BY <2>1, <2>2, <2>3 DEF TokenInv, TypeOK, Registered
  <2>6. AdminInv'
    BY <2>1 DEF AdminInv, Registered
  <2>7. RotationFirst'
    BY <2>2, <2>3 DEF RotationFirst
  <2> QED
    BY <2>4, <2>5, <2>6, <2>7
<1>4. CASE AdminFails
  <2>1. TypeOK'
    BY <1>4 DEF AdminFails, TypeOK, requests, history
  <2> QED
    BY <1>4, <2>1, Starting, QuietStep DEF AdminFails, requests, history
<1>5. CASE Stop
  <2>1. TypeOK'
    BY <1>5 DEF Stop, TypeOK, history
  <2> QED
    BY <1>5, <2>1, QuietStep DEF Stop, history
<1>6. CASE DatabaseChanges
  <2>1. TypeOK'
    BY <1>6 DEF DatabaseChanges, TypeOK, start, requests, history
  <2> QED
    BY <1>6, <2>1, QuietStep DEF DatabaseChanges, start, requests, history
<1>7. ASSUME NEW n \in Names, NEW e \in Emails, NEW p \in Passwords, Register(n, e, p)
      PROVE  AccountsInv'
  <2>1. /\ users' \in [Names -> Rows \cup {NoRow}]
        /\ users'[n] # NoRow
        /\ \A o \in Names : users[o] # NoRow => users'[o] = users[o]
    BY <1>7, InsertRow DEF Register
  <2>2. /\ UNCHANGED <<server, migrated, database, pc, who, new, bootstrap, updated>>
        /\ tokens' = tokens \cup {n}
    BY <1>7 DEF Register, start, requests, history
  <2>3. TypeOK'
    BY <2>1, <2>2 DEF TypeOK
  <2>4. TokenInv'
    BY <2>1, <2>2 DEF TokenInv, TypeOK, Registered
  <2>5. AdminInv' /\ RotationFirst'
    BY <2>1, <2>2 DEF AdminInv, RotationFirst, Registered, AccountsAssumption
  <2> QED
    BY <2>3, <2>4, <2>5
<1>8. ASSUME NEW n \in Names, NEW p \in Passwords, Login(n, p) PROVE AccountsInv'
  <2>1. /\ UNCHANGED <<server, migrated, database, users, pc, who, new, bootstrap,
                       updated>>
        /\ tokens' = tokens \cup {n} /\ Registered(n)
    BY <1>8 DEF Login, start, requests, history
  <2>2. TypeOK'
    BY <2>1 DEF TypeOK
  <2>3. TokenInv' /\ AdminInv' /\ RotationFirst'
    BY <2>1 DEF TokenInv, AdminInv, RotationFirst, Registered
  <2> QED
    BY <2>2, <2>3
<1>9. ASSUME NEW r \in Requests, NEW n \in Names, Enter(r, n) PROVE AccountsInv'
  <2>1. /\ UNCHANGED <<server, migrated, database, users, tokens, new, bootstrap, updated>>
        /\ pc' = [pc EXCEPT ![r] = "inside"] /\ who' = [who EXCEPT ![r] = n]
        /\ n \in tokens /\ ~users[n].required /\ server \in {"up", "unprepared"}
    BY <1>9 DEF Enter, Serving, start, history
  <2>2. TypeOK'
    BY <2>1 DEF TypeOK
  <2>3. TokenInv'
    BY <2>1 DEF TokenInv, TypeOK, Registered
  <2>4. AdminInv'
    BY <2>1 DEF AdminInv, Registered
  <2>5. n = Admin /\ bootstrap => Admin \in updated
    BY <2>1 DEF AdminInv
  <2>6. RotationFirst'
    BY <2>1, <2>5 DEF RotationFirst, TypeOK
  <2> QED
    BY <2>2, <2>3, <2>4, <2>6
<1>10. ASSUME NEW r \in Requests, NEW n \in Names, NEW c \in Passwords, NEW p \in Passwords,
              CheckPassword(r, n, c, p)
       PROVE  AccountsInv'
  <2>1. /\ UNCHANGED <<server, migrated, database, users, tokens, bootstrap, updated>>
        /\ pc' = [pc EXCEPT ![r] = "checked"] /\ who' = [who EXCEPT ![r] = n]
        /\ new' = [new EXCEPT ![r] = p]
        /\ n \in tokens /\ server \in {"up", "unprepared"}
    BY <1>10 DEF CheckPassword, Serving, start, history
  <2>2. TypeOK'
    BY <2>1 DEF TypeOK
  <2>3. TokenInv'
    BY <2>1 DEF TokenInv, TypeOK, Registered
  <2>4. AdminInv' /\ RotationFirst'
    BY <2>1 DEF AdminInv, RotationFirst, TypeOK, Registered
  <2> QED
    BY <2>2, <2>3, <2>4
<1>11. ASSUME NEW r \in Requests, UpdatePassword(r) PROVE AccountsInv'
  <2>1. /\ UNCHANGED <<server, migrated, database, tokens, who, new, bootstrap>>
        /\ pc' = [pc EXCEPT ![r] = "idle"]
        /\ updated' = updated \cup {who[r]}
    BY <1>11 DEF UpdatePassword, start
  <2>2. /\ who[r] \in Names
        /\ users' \in [Names -> Rows \cup {NoRow}] /\ users'[who[r]] \in Rows
        /\ \A o \in Names : o # who[r] => users'[o] = users[o]
    BY <1>11, UpdateRow
  <2>3. \A o \in Names : Registered(o) => Registered(o)'
    BY <2>2 DEF Registered, AccountsAssumption
  <2>4. TypeOK'
    BY <2>1, <2>2 DEF TypeOK
  <2>5. TokenInv'
    BY <2>1, <2>3 DEF TokenInv, TypeOK
  <2>6. AdminInv'
    BY <2>1, <2>2, <2>3 DEF AdminInv, AccountsAssumption
  <2>7. RotationFirst'
    BY <2>1 DEF RotationFirst, TypeOK
  <2> QED
    BY <2>4, <2>5, <2>6, <2>7
<1>12. ASSUME NEW r \in Requests, UpdateFails(r) \/ Return(r) PROVE AccountsInv'
  <2>1. /\ UNCHANGED <<server, migrated, database, users, tokens, who, new, bootstrap, updated>>
        /\ pc' = [pc EXCEPT ![r] = "idle"]
    BY <1>12 DEF UpdateFails, Return, start, history
  <2>2. TypeOK'
    BY <2>1 DEF TypeOK
  <2> QED
    BY <2>1, <2>2, QuietStep DEF TypeOK
<1>13. CASE UNCHANGED vars
  BY <1>13 DEF vars, start, requests, history, TypeOK, TokenInv, AdminInv, RotationFirst,
               Registered
<1> QED
  BY <1>1, <1>2, <1>3, <1>4, <1>5, <1>6, <1>7, <1>8, <1>9, <1>10, <1>11, <1>12, <1>13 DEF Next

(* The invariant of the accounts (auth/auth.go, api/router.go). *)
THEOREM AccountsCorrect == Spec => []AccountsInv
<1>1. Init => AccountsInv
  BY AccountsAssumption, AccountsInit
<1>2. AccountsInv /\ [Next]_vars => AccountsInv'
  BY AccountsAssumption, AccountsStep
<1> QED
  BY <1>1, <1>2, PTL DEF Spec

(* For any users and requests, the default admin passes requirePasswordRotation  *)
(* only after ChangePassword has written a password.                             *)
THEOREM RotationComesFirst == Spec => []RotationFirst
BY AccountsCorrect, PTL DEF AccountsInv

(* Every step keeps AdminThere. *)
LEMMA AdminThereStep ==
    ASSUME AccountsAssumption, AccountsInv, AdminThere, [Next]_vars PROVE AdminThere'
<1> USE DEF AccountsInv
<1>1. CASE server' = server /\ users' = users
  BY <1>1 DEF AdminThere, Registered
<1>2. CASE Start \/ AdminFails \/ Stop
  BY <1>2 DEF Start, AdminFails, Stop, AdminThere
<1>3. CASE LookUpAdmin
  BY <1>3 DEF LookUpAdmin, AfterLookup, AdminThere, Registered
<1>4. CASE InsertAdmin
  BY <1>4, InsertRow DEF InsertAdmin, AdminRow, AccountsAssumption, AdminThere, Registered
<1>5. ASSUME NEW n \in Names, NEW e \in Emails, NEW p \in Passwords, Register(n, e, p)
      PROVE  AdminThere'
  BY <1>5, InsertRow DEF Register, start, AccountsAssumption, AdminThere, Registered
<1>6. ASSUME NEW r \in Requests, UpdatePassword(r) PROVE AdminThere'
  <2>1. server' = server
    BY <1>6 DEF UpdatePassword, start
  <2> QED
    BY <1>6, <2>1, UpdateRow DEF AccountsAssumption, AdminThere, Registered
<1>7. CASE DatabaseChanges \/ UNCHANGED vars
  BY <1>1, <1>7 DEF DatabaseChanges, vars, start
<1>8. ASSUME NEW n \in Names, NEW p \in Passwords, Login(n, p) PROVE AdminThere'
  BY <1>1, <1>8 DEF Login, start
<1>9. ASSUME NEW r \in Requests, NEW n \in Names,
             Enter(r, n) \/ \E c, p \in Passwords : CheckPassword(r, n, c, p)
      PROVE  AdminThere'
  BY <1>1, <1>9 DEF Enter, CheckPassword, start
<1>10. ASSUME NEW r \in Requests, UpdateFails(r) \/ Return(r) PROVE AdminThere'
  BY <1>1, <1>10 DEF UpdateFails, Return, start
<1> QED
  BY <1>2, <1>3, <1>4, <1>5, <1>6, <1>7, <1>8, <1>9, <1>10 DEF Next

(* A server that was up with its database at start has the account of the        *)
(* default admin (EnsureDefaultAdmin).                                           *)
THEOREM AdminIsThere == Spec => []AdminThere
<1>1. Init => AdminThere
  BY DEF Init, AdminThere
<1>2. AccountsInv /\ AdminThere /\ [Next]_vars => AdminThere'
  BY AccountsAssumption, AdminThereStep
<1> QED
  BY <1>1, <1>2, AccountsCorrect, PTL DEF Spec

(* A step that changes a row is the UPDATE of its user. *)
LEMMA RowsKeptStep ==
    ASSUME AccountsAssumption, AccountsInv, [Next]_vars,
           NEW n \in Names, Registered(n), users'[n] # users[n]
    PROVE  ByOwner(n)
<1> USE DEF AccountsInv
<1>1. CASE Start \/ LookUpAdmin \/ AdminFails \/ Stop \/ DatabaseChanges \/ UNCHANGED vars
  BY <1>1 DEF Start, LookUpAdmin, AdminFails, Stop, DatabaseChanges, vars
<1>2. CASE InsertAdmin
  BY <1>2, InsertRow DEF InsertAdmin, AdminRow, AccountsAssumption, Registered
<1>3. ASSUME NEW m \in Names, NEW e \in Emails, NEW p \in Passwords, Register(m, e, p)
      PROVE  ByOwner(n)
  BY <1>3, InsertRow DEF Register, Registered
<1>4. ASSUME NEW m \in Names, NEW p \in Passwords, Login(m, p) PROVE ByOwner(n)
  BY <1>4 DEF Login
<1>5. ASSUME NEW r \in Requests, NEW m \in Names,
             Enter(r, m) \/ \E c, p \in Passwords : CheckPassword(r, m, c, p)
      PROVE  ByOwner(n)
  BY <1>5 DEF Enter, CheckPassword
<1>6. ASSUME NEW r \in Requests, UpdateFails(r) \/ Return(r) PROVE ByOwner(n)
  BY <1>6 DEF UpdateFails, Return
<1>7. ASSUME NEW r \in Requests, UpdatePassword(r) PROVE ByOwner(n)
  <2>1. /\ who[r] = n /\ pc[r] = "checked" /\ users[n] \in Rows
        /\ users'[n] = [users[n] EXCEPT !.password = new[r], !.required = FALSE]
    BY <1>7, UpdateRow
  <2>2. /\ users'[n].password = new[r] /\ users'[n].email = users[n].email
        /\ ~users'[n].required
    BY <2>1 DEF Rows
  <2> QED
    BY <2>1, <2>2 DEF ByOwner
<1> QED
  BY <1>1, <1>2, <1>3, <1>4, <1>5, <1>6, <1>7 DEF Next

(* Only the UPDATE of a user's own request changes a row: restarts, other users  *)
(* and registrations leave it alone.                                             *)
THEOREM RowsAreKept == Spec => RowsKept
<1>1. AccountsInv /\ [Next]_vars
        => [\A n \in Names : Registered(n) /\ users'[n] # users[n] => ByOwner(n)]_vars
  BY AccountsAssumption, RowsKeptStep
<1> QED
  BY <1>1, AccountsCorrect, PTL DEF Spec, RowsKept
===============================================================================

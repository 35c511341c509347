-------------------------- MODULE AuthBridgeProofs --------------------------
(***************************************************************************)
(* The safety invariants of AuthBridge for any sets of users, requests,    *)
(* addresses and tokens, and any number of changes.                        *)
(*                                                                         *)
(* Three facts carry the argument: a request between the INSERTs has its   *)
(* user row; a request that is alone is the only one of its user in        *)
(* provisioning, so nobody else writes the row it has read or written; and *)
(* a token in anybody's hands has an owner, so it is not issued again.     *)
(***************************************************************************)
EXTENDS AuthBridge, TLAPS

USE BridgeAssumption

Later == {"lookup", "signin", "store", "serve"}

RequestInv ==
    \A r \in Requests :
        /\ pc(r) = "idle" => req[r] = NoRequest
        /\ pc(r) # "idle" => me(r) \in Users /\ req[r].as \in Account

\* The row that an UPDATE has found and the second INSERT follows.
RowFollows == \A r \in Requests : pc(r) \in {"update", "insertAuth"} => user[me(r)] # NoRow

\* Nobody else provisions the user of a request that is alone.
AloneApart ==
    \A r, q \in Requests :
        r # q /\ req[r].alone /\ pc(r) \in Provisioning \cup {"lookup"} /\ me(q) = me(r) =>
            pc(q) \notin Provisioning

\* What a request that is alone has read or written is still there.
AloneRow ==
    \A r \in Requests : req[r].alone /\ ~req[r].failed =>
        /\ pc(r) = "update" => user[me(r)] # NoRow /\ user[me(r)].email = req[r].as.email
        /\ pc(r) = "insertAuth" =>
              /\ user[me(r)] # NoRow
              /\ user[me(r)].role = req[r].as.role /\ user[me(r)].email = req[r].as.email

IInv ==
    /\ TypeOK /\ RequestInv /\ RowFollows /\ TablesAgree
    /\ AloneApart /\ AloneRow /\ AloneSetsRole /\ CookieIsOwn

\* Before the first request there is nothing to disagree about.
THEOREM InitIInv == Init => IInv
  BY DEF Init, IInv, TypeOK, RequestInv, RowFollows, TablesAgree, AloneApart, AloneRow,
         AloneSetsRole, CookieIsOwn, pc, me, NoRequest, RequestRecord, Provisioning, Account

-----------------------------------------------------------------------------
(* What a step of a request does to it *)

\* A request goes on with x, which knows no less of its failures.
GoesOn(r, x) ==
    /\ x \in RequestRecord
    /\ x.pc # "idle" /\ x.user = me(r) /\ x.as = req[r].as /\ x.alone = req[r].alone
    /\ req[r].failed => x.failed

\* Goto,
LEMMA GotoGoesOn ==
  ASSUME TypeOK, NEW r \in Requests, NEW from \in Provisioning \cup Later,
         NEW to \in Provisioning \cup Later, Goto(r, from, to)
  PROVE  /\ pc(r) = from /\ req' = [req EXCEPT ![r] = req'[r]]
         /\ GoesOn(r, req'[r]) /\ req'[r].pc = to
         /\ req'[r].token = req[r].token /\ req'[r].failed = req[r].failed
  BY DEF Goto, TypeOK, RequestRecord, GoesOn, pc, me, Later, Provisioning

\* Fails,
LEMMA FailsGoesOn ==
  ASSUME TypeOK, NEW r \in Requests, NEW from \in Provisioning, Fails(r, from)
  PROVE  /\ pc(r) = from /\ req' = [req EXCEPT ![r] = req'[r]]
         /\ GoesOn(r, req'[r]) /\ req'[r].pc = "lookup"
         /\ req'[r].token = req[r].token /\ req'[r].failed
  BY DEF Fails, TypeOK, RequestRecord, GoesOn, pc, me, Provisioning

\* Goes
LEMMA GoesGoesOn ==
  ASSUME TypeOK, NEW r \in Requests, NEW from \in Later, NEW to \in Later,
         NEW token \in Tokens \cup {NoToken}, Goes(r, from, token, to)
  PROVE  /\ pc(r) = from /\ req' = [req EXCEPT ![r] = req'[r]]
         /\ GoesOn(r, req'[r]) /\ req'[r].pc = to
         /\ req'[r].token = token
<1> DEFINE x == [req[r] EXCEPT !.pc = to, !.token = token]
<1>1. pc(r) = from /\ req' = [req EXCEPT ![r].pc = to, ![r].token = token]
  BY DEF Goes
<1>2. req \in [Requests -> RequestRecord]
  BY DEF TypeOK
<1>3. req' = [req EXCEPT ![r] = x]
  BY <1>1, <1>2
<1>4. x \in RequestRecord /\ x.pc = to /\ x.token = token
      /\ x.user = me(r) /\ x.as = req[r].as /\ x.alone = req[r].alone
      /\ x.failed = req[r].failed
  BY <1>2 DEF RequestRecord, Later, me
<1> HIDE DEF x
<1>5. req'[r] = x
  BY <1>2, <1>3
<1> QED
  BY <1>1, <1>3, <1>4, <1>5 DEF GoesOn, Later

\* and OpenFails let a request go on.
LEMMA OpenFailsGoesOn ==
  ASSUME TypeOK, NEW r \in Requests, OpenFails(r)
  PROVE  /\ pc(r) = "open" /\ req' = [req EXCEPT ![r] = req'[r]]
         /\ GoesOn(r, req'[r]) /\ req'[r].pc \in {"lookup", "insertUser"}
         /\ req'[r].token = req[r].token /\ req'[r].failed
  BY DEF OpenFails, Fails, TypeOK, RequestRecord, GoesOn, pc, me, Provisioning

-----------------------------------------------------------------------------
(* The two tables, by the statements that write them *)

\* A statement that ends provisioning, or goes on, and writes nothing.
Quiet(r) ==
    \/ SelectFinds(r) \/ SelectFindsNone(r) \/ OpenFails(r)
    \/ UpdateRoleFails(r) \/ InsertUserFails(r)
    \/ LookupToken(r) \/ SigninSucceeds(r) \/ SigninFails(r) \/ StoreToken(r)

\* Every other step of a request writes a table, or is the last.
LEMMA StepCases ==
  ASSUME NEW r, RequestStep(r)
  PROVE  \/ Quiet(r) \/ UpdateRole(r) \/ InsertUser(r) \/ InsertAuth(r)
         \/ InsertAuthFails(r) \/ Serve(r)
  BY DEF RequestStep, Quiet

\* What such a step leaves behind, and where it goes.
LEMMA QuietStep ==
  ASSUME TypeOK, RequestInv, NEW r \in Requests, Quiet(r)
  PROVE  /\ pc(r) # "idle" /\ pc(r) # "insertAuth"
         /\ req' = [req EXCEPT ![r] = req'[r]] /\ GoesOn(r, req'[r])
         /\ UNCHANGED <<portal, changes, user, auth, hurt>>
         /\ req'[r].pc # "insertAuth"
         /\ req'[r].pc \in Provisioning => pc(r) = "open"
         /\ req'[r].pc = "lookup" => pc(r) \in Provisioning
         /\ req'[r].pc = "update" => Found(r)
         /\ req'[r].pc = "lookup" /\ ~req'[r].failed =>
               Found(r) /\ user[me(r)].role = req[r].as.role /\ pc(r) = "open"
<1>1. CASE SelectFinds(r)
  <2>1. \/ Goto(r, "open", "lookup") /\ user[me(r)].role = req[r].as.role
        \/ Goto(r, "open", "update")
    BY <1>1 DEF SelectFinds
  <2>2. Found(r) /\ UNCHANGED <<portal, changes, user, auth, hurt>>
    BY <1>1 DEF SelectFinds, accounts, database
  <2>3. CASE Goto(r, "open", "lookup") /\ user[me(r)].role = req[r].as.role
    BY <2>2, <2>3, GotoGoesOn DEF Provisioning, Later
  <2>4. CASE Goto(r, "open", "update")
    BY <2>2, <2>4, GotoGoesOn DEF Provisioning, Later
  <2> QED
    BY <2>1, <2>3, <2>4
<1>2. CASE SelectFindsNone(r)
  <2>1. Goto(r, "open", "insertUser") /\ UNCHANGED <<portal, changes, user, auth, hurt>>
    BY <1>2 DEF SelectFindsNone, accounts, database
  <2> QED
    BY <2>1, GotoGoesOn DEF Provisioning, Later
<1>3. CASE OpenFails(r)
  <2>1. UNCHANGED <<portal, changes, user, auth, hurt>>
    BY <1>3 DEF OpenFails, accounts, database
  <2> QED
    BY <1>3, <2>1, OpenFailsGoesOn DEF Provisioning
<1>4. CASE UpdateRoleFails(r)
  <2>1. Fails(r, "update") /\ UNCHANGED <<portal, changes, user, auth, hurt>>
    BY <1>4 DEF UpdateRoleFails, accounts, database
  <2> QED
    BY <2>1, FailsGoesOn DEF Provisioning
<1>5. CASE InsertUserFails(r)
  <2>1. Fails(r, "insertUser") /\ UNCHANGED <<portal, changes, user, auth, hurt>>
    BY <1>5 DEF InsertUserFails, accounts, database
  <2> QED
    BY <2>1, FailsGoesOn DEF Provisioning
<1>6. CASE LookupToken(r)
  <2>1. UNCHANGED <<portal, changes, user, auth, hurt>>
    BY <1>6 DEF LookupToken, accounts, database
  <2>2. PICK to \in {"signin", "serve"} : Goes(r, "lookup", cache[me(r)], to)
    BY <1>6 DEF LookupToken
  <2>3. cache[me(r)] \in Tokens \cup {NoToken}
    BY <2>2 DEF Goes, RequestInv, TypeOK
  <2> QED
    BY <2>1, <2>2, <2>3, GoesGoesOn DEF Provisioning, Later
<1>7. CASE SigninSucceeds(r)
  <2>1. PICK t \in Tokens : Goes(r, "signin", t, "store")
    BY <1>7 DEF SigninSucceeds
  <2>2. UNCHANGED <<portal, changes, user, auth, hurt>>
    BY <1>7 DEF SigninSucceeds, accounts, database
  <2> QED
    BY <2>1, <2>2, GoesGoesOn DEF Provisioning, Later
<1>8. CASE SigninFails(r)
  <2>1. Goto(r, "signin", "serve") /\ UNCHANGED <<portal, changes, user, auth, hurt>>
    BY <1>8 DEF SigninFails, accounts, database
  <2> QED
    BY <2>1, GotoGoesOn DEF Provisioning, Later
<1>9. CASE StoreToken(r)
  <2>1. Goto(r, "store", "serve") /\ UNCHANGED <<portal, changes, user, auth, hurt>>
    BY <1>9 DEF StoreToken, accounts, database
  <2> QED
    BY <2>1, GotoGoesOn DEF Provisioning, Later
<1> QED
  BY <1>1, <1>2, <1>3, <1>4, <1>5, <1>6, <1>7, <1>8, <1>9 DEF Quiet

-----------------------------------------------------------------------------
(* Who is alone *)

\* A request that goes on within provisioning, or ends it, disturbs nobody who is alone.
LEMMA MovesApart ==
  ASSUME IInv, NEW r \in Requests, pc(r) # "idle",
         req' = [req EXCEPT ![r] = req'[r]], GoesOn(r, req'[r]),
         req'[r].pc \in Provisioning \cup {"lookup"} => pc(r) \in Provisioning
  PROVE  req' \in [Requests -> RequestRecord] /\ RequestInv' /\ AloneApart'
<1>1. \A q \in Requests : q # r => req'[q] = req[q]
  BY DEF IInv, TypeOK
<1>2. req' \in [Requests -> RequestRecord]
  BY DEF IInv, TypeOK, GoesOn
<1>3. RequestInv'
  BY <1>1 DEF IInv, RequestInv, GoesOn, pc, me
<1>4. AloneApart'
  BY <1>1 DEF IInv, AloneApart, GoesOn, pc, me
<1> QED
  BY <1>2, <1>3, <1>4

\* Everything but the tokens.
TableInv ==
    /\ portal \in [Users -> Account] /\ changes \in 0..MaxChanges
    /\ user \in [Users -> UserRow \cup {NoRow}] /\ auth \subseteq Users /\ hurt \subseteq Users
    /\ req \in [Requests -> RequestRecord]
    /\ RequestInv /\ RowFollows /\ TablesAgree /\ AloneApart /\ AloneRow /\ AloneSetsRole

\* A quiet step keeps everything about the tables;
LEMMA QuietTables ==
  ASSUME IInv, NEW r \in Requests, Quiet(r)
  PROVE  TableInv'
<1> DEFINE x == req'[r]
<1>0. TypeOK /\ RequestInv
  BY DEF IInv
<1>1. /\ pc(r) # "idle" /\ pc(r) # "insertAuth"
      /\ req' = [req EXCEPT ![r] = x] /\ GoesOn(r, x)
      /\ UNCHANGED <<portal, changes, user, auth, hurt>>
      /\ x.pc # "insertAuth"
      /\ x.pc \in Provisioning => pc(r) = "open"
      /\ x.pc = "lookup" => pc(r) \in Provisioning
      /\ x.pc = "update" => Found(r)
      /\ x.pc = "lookup" /\ ~x.failed =>
            Found(r) /\ user[me(r)].role = req[r].as.role /\ pc(r) = "open"
  BY <1>0, QuietStep
<1>2. \A q \in Requests : q # r => req'[q] = req[q]
  BY <1>0, <1>1 DEF TypeOK
<1>3. req' \in [Requests -> RequestRecord] /\ RequestInv' /\ AloneApart'
  BY <1>1, MovesApart DEF Provisioning
<1> HIDE DEF x
<1>4. RowFollows'
  BY <1>1, <1>2 DEF IInv, RowFollows, GoesOn, Found, pc, me, x
<1>5. TablesAgree'
  <2>1. \A q \in Requests : pc(q) = "insertAuth" <=> pc(q)' = "insertAuth"
    BY <1>1, <1>2 DEF pc, x
  <2>2. \A q \in Requests : me(q)' = me(q)
    BY <1>1, <1>2 DEF me, x, GoesOn
  <2> QED
    BY <1>1, <2>1, <2>2 DEF IInv, TablesAgree
<1>6. AloneRow'
  BY <1>1, <1>2 DEF IInv, AloneRow, GoesOn, Found, pc, me, x
<1>7. AloneSetsRole'
  BY <1>1, <1>2 DEF IInv, AloneSetsRole, GoesOn, Found, pc, me, x
<1> QED
  BY <1>0, <1>1, <1>3, <1>4, <1>5, <1>6, <1>7 DEF TableInv, TypeOK

\* A statement that writes a row of the user table meets no other request that
\* is alone with that user.
LEMMA OthersAreElsewhere ==
  ASSUME IInv, NEW r \in Requests, pc(r) \in Provisioning,
         NEW q \in Requests, q # r, req[q].alone, pc(q) \in Provisioning \cup {"lookup"}
  PROVE  me(q) # me(r)
  BY DEF IInv, AloneApart

\* so do the UPDATE,
LEMMA UpdateRoleTables ==
  ASSUME IInv, NEW r \in Requests, UpdateRole(r)
  PROVE  TableInv'
<1> DEFINE u == me(r)
<1>0. TypeOK /\ RequestInv
  BY DEF IInv
<1>1. /\ pc(r) = "update" /\ req' = [req EXCEPT ![r] = req'[r]] /\ GoesOn(r, req'[r])
      /\ req'[r].pc = "lookup" /\ req'[r].failed = req[r].failed
  BY <1>0, GotoGoesOn DEF UpdateRole, Provisioning, Later
<1>2. \A q \in Requests : q # r => req'[q] = req[q]
  BY <1>0, <1>1 DEF TypeOK
<1>3. req' \in [Requests -> RequestRecord] /\ RequestInv' /\ AloneApart'
  BY <1>1, MovesApart DEF Provisioning
<1>4. /\ user' = [user EXCEPT ![u].role = req[r].as.role]
      /\ UNCHANGED <<portal, changes, auth, hurt>>
      /\ u \in Users /\ req[r].as \in Account
  BY <1>0, <1>1 DEF UpdateRole, accounts, RequestInv
<1> HIDE DEF u
<1>5. /\ user' \in [Users -> UserRow \cup {NoRow}]
      /\ \A v \in Users : user[v] # NoRow => user'[v] # NoRow
      /\ \A v \in Users : user[v] = NoRow /\ v # u => user'[v] = NoRow
      /\ \A v \in Users : v # u => user'[v] = user[v]
      /\ user[u] # NoRow /\ user'[u] # NoRow
      /\ user'[u].role = req[r].as.role /\ user'[u].email = user[u].email
  <2> DEFINE row == [user[u] EXCEPT !.role = req[r].as.role]
  <2>1. user[u] # NoRow
    BY <1>1 DEF IInv, RowFollows, u
  <2>2. user \in [Users -> UserRow \cup {NoRow}] /\ user[u] \in UserRow
    BY <1>0, <1>4, <2>1 DEF TypeOK
  <2>3. row \in UserRow /\ row.role = req[r].as.role /\ row.email = user[u].email
    BY <1>4, <2>2 DEF UserRow, Account
  <2>4. row # NoRow
    BY <2>3
  <2>5. user' = [user EXCEPT ![u] = row]
    BY <1>4
  <2> HIDE DEF row
  <2>6. user'[u] = row /\ \A v \in Users : v # u => user'[v] = user[v]
    BY <1>4, <2>2, <2>5
  <2>7. user' \in [Users -> UserRow \cup {NoRow}]
    BY <2>2, <2>3, <2>5
  <2> QED
    BY <2>1, <2>3, <2>4, <2>6, <2>7
<1>6. RowFollows'
  BY <1>0, <1>1, <1>2, <1>5 DEF IInv, RowFollows, RequestInv, pc, me, GoesOn
<1>7. TablesAgree'
  <2>1. \A q \in Requests : pc(q) = "insertAuth" <=> pc(q)' = "insertAuth"
    BY <1>1, <1>2 DEF pc
  <2>2. \A q \in Requests : me(q)' = me(q)
    BY <1>1, <1>2 DEF me, GoesOn
  <2>3. \A v \in Users : user'[v] # NoRow => user[v] # NoRow
    BY <1>5
  <2>4. TablesAgree /\ auth' = auth /\ hurt' = hurt
    BY <1>4 DEF IInv
  <2> SUFFICES ASSUME NEW v \in Users
               PROVE  /\ v \in auth => user'[v] # NoRow
                      /\ user'[v] # NoRow /\ v \notin auth =>
                            v \in hurt \/ \E q \in Requests : pc(q)' = "insertAuth" /\ me(q)' = v
    BY <2>4 DEF TablesAgree
  <2>5. v \in auth => user'[v] # NoRow
    BY <1>5, <2>4 DEF TablesAgree
  <2>6. user'[v] # NoRow /\ v \notin auth =>
           v \in hurt \/ \E q \in Requests : pc(q) = "insertAuth" /\ me(q) = v
    BY <2>3, <2>4 DEF TablesAgree
  <2> QED
    BY <2>1, <2>2, <2>5, <2>6
<1>8. \A q \in Requests : q # r /\ req[q].alone /\ pc(q) \in Provisioning \cup {"lookup"}
         => me(q) # u
  BY <1>1, OthersAreElsewhere DEF Provisioning, u
<1>9. AloneRow' /\ AloneSetsRole'
  <2>1. ASSUME NEW q \in Requests, q # r, req[q].alone, pc(q) \in Provisioning \cup {"lookup"}
        PROVE  user'[me(q)] = user[me(q)]
    BY <1>0, <1>5, <1>8, <2>1 DEF RequestInv, Provisioning
  <2>2. AloneRow'
    BY <1>1, <1>2, <2>1 DEF IInv, AloneRow, GoesOn, pc, me, Provisioning
  <2>3. ASSUME req[r].alone, ~req[r].failed
        PROVE  user'[u] # NoRow /\ user'[u].role = req[r].as.role
               /\ user'[u].email = req[r].as.email
    BY <1>1, <1>5, <2>3 DEF IInv, AloneRow, u
  <2>4. AloneSetsRole'
    <3> SUFFICES ASSUME NEW q \in Requests, pc(q)' = "lookup", req'[q].alone, ~req'[q].failed
                 PROVE  /\ user'[me(q)'] # NoRow /\ user'[me(q)'].role = req'[q].as.role
                        /\ user'[me(q)'].email = req'[q].as.email
      BY DEF AloneSetsRole, me
    <3>1. CASE q = r
      BY <1>1, <2>3, <3>1 DEF GoesOn, me, u
    <3>2. CASE q # r
      BY <1>2, <2>1, <3>2 DEF IInv, AloneSetsRole, pc, me
    <3> QED
      BY <3>1, <3>2
  <2> QED
    BY <2>2, <2>4
<1> QED
  BY <1>0, <1>3, <1>4, <1>5, <1>6, <1>7, <1>9 DEF TableInv, TypeOK

\* the first INSERT,
LEMMA InsertUserTables ==
  ASSUME IInv, NEW r \in Requests, InsertUser(r)
  PROVE  TableInv'
<1> DEFINE u == me(r)
<1> DEFINE row == [email |-> req[r].as.email, role |-> req[r].as.role, name |-> DisplayName]
<1>0. TypeOK /\ RequestInv
  BY DEF IInv
<1>1. /\ pc(r) = "insertUser" /\ req' = [req EXCEPT ![r] = req'[r]] /\ GoesOn(r, req'[r])
      /\ req'[r].pc = "insertAuth" /\ req'[r].failed = req[r].failed
  BY <1>0, GotoGoesOn DEF InsertUser, Provisioning, Later
<1>2. \A q \in Requests : q # r => req'[q] = req[q]
  BY <1>0, <1>1 DEF TypeOK
<1>3. req' \in [Requests -> RequestRecord] /\ RequestInv' /\ AloneApart'
  BY <1>1, MovesApart DEF Provisioning
<1>4. /\ user' = [user EXCEPT ![u] = row] /\ user[u] = NoRow
      /\ UNCHANGED <<portal, changes, auth, hurt>>
      /\ u \in Users /\ req[r].as \in Account
  BY <1>0, <1>1 DEF InsertUser, accounts, RequestInv
<1>5. /\ row \in UserRow /\ row # NoRow
      /\ row.role = req[r].as.role /\ row.email = req[r].as.email
  BY <1>4 DEF UserRow, Account, DisplayName
<1> HIDE DEF u, row
<1>6. user'[u] = row /\ \A v \in Users : v # u => user'[v] = user[v]
  BY <1>0, <1>4 DEF TypeOK
<1>7. user' \in [Users -> UserRow \cup {NoRow}]
  BY <1>0, <1>4, <1>5 DEF TypeOK
<1>8. \A q \in Requests : q # r /\ req[q].alone /\ pc(q) \in Provisioning \cup {"lookup"}
         => me(q) # u
  BY <1>1, OthersAreElsewhere DEF Provisioning, u
<1>9. ASSUME NEW q \in Requests, q # r, req[q].alone, pc(q) \in Provisioning \cup {"lookup"}
      PROVE  user'[me(q)] = user[me(q)]
  BY <1>0, <1>6, <1>8, <1>9 DEF RequestInv, Provisioning
<1>10. RowFollows'
  <2> SUFFICES ASSUME NEW q \in Requests, pc(q)' \in {"update", "insertAuth"}
               PROVE  user'[me(q)'] # NoRow
    BY DEF RowFollows, me
  <2>1. CASE q = r
    BY <1>1, <1>5, <1>6, <2>1 DEF GoesOn, me, u
  <2>2. CASE q # r
    <3>1. pc(q) \in {"update", "insertAuth"} /\ me(q)' = me(q)
      BY <1>2, <2>2 DEF pc, me
    <3>2. me(q) \in Users /\ user[me(q)] # NoRow
      BY <1>0, <3>1 DEF IInv, RowFollows, RequestInv
    <3> QED
      BY <1>5, <1>6, <3>1, <3>2
  <2> QED
    BY <2>1, <2>2
<1>11. TablesAgree'
  <2>1. TablesAgree /\ auth' = auth /\ hurt' = hurt
    BY <1>4 DEF IInv
  <2> SUFFICES ASSUME NEW v \in Users
               PROVE  /\ v \in auth => user'[v] # NoRow
                      /\ user'[v] # NoRow /\ v \notin auth =>
                            v \in hurt \/ \E q \in Requests : pc(q)' = "insertAuth" /\ me(q)' = v
    BY <2>1 DEF TablesAgree
  <2>2. CASE v = u
    <3>1. pc(r)' = "insertAuth" /\ me(r)' = u
      BY <1>1 DEF GoesOn, pc, me, u
    <3> QED
      BY <1>5, <1>6, <2>2, <3>1
  <2>3. CASE v # u
    <3>1. user'[v] = user[v]
      BY <1>6, <2>3
    <3>2. \A q \in Requests : pc(q) = "insertAuth" => pc(q)' = "insertAuth" /\ me(q)' = me(q)
      BY <1>1, <1>2 DEF pc, me, GoesOn
    <3> QED
      BY <2>1, <3>1, <3>2 DEF TablesAgree
  <2> QED
    BY <2>2, <2>3
<1>12. AloneRow'
  <2> SUFFICES ASSUME NEW q \in Requests, req'[q].alone, ~req'[q].failed
               PROVE  /\ pc(q)' = "update" => user'[me(q)'] # NoRow
                                             /\ user'[me(q)'].email = req'[q].as.email
                      /\ pc(q)' = "insertAuth" =>
                            /\ user'[me(q)'] # NoRow
                            /\ user'[me(q)'].role = req'[q].as.role
                            /\ user'[me(q)'].email = req'[q].as.email
    BY DEF AloneRow, me
  <2>1. CASE q = r
    BY <1>1, <1>5, <1>6, <2>1 DEF GoesOn, pc, me, u
  <2>2. CASE q # r
    BY <1>2, <1>9, <2>2 DEF IInv, AloneRow, pc, me, Provisioning
  <2> QED
    BY <2>1, <2>2
<1>13. AloneSetsRole'
  BY <1>1, <1>2, <1>9 DEF IInv, AloneSetsRole, GoesOn, pc, me
<1> QED
  BY <1>0, <1>3, <1>4, <1>7, <1>10, <1>11, <1>12, <1>13 DEF TableInv, TypeOK

\* the second, well or not,
LEMMA InsertAuthTables ==
  ASSUME IInv, NEW r \in Requests, InsertAuth(r) \/ InsertAuthFails(r)
  PROVE  TableInv'
<1> DEFINE u == me(r)
<1>0. TypeOK /\ RequestInv
  BY DEF IInv
<1>1. /\ pc(r) = "insertAuth" /\ req' = [req EXCEPT ![r] = req'[r]] /\ GoesOn(r, req'[r])
      /\ req'[r].pc = "lookup"
      /\ UNCHANGED <<portal, changes, user>>
      /\ \/ auth' = auth \cup {u} /\ hurt' = hurt
         \/ auth' = auth /\ hurt' = hurt \cup {u}
  <2>1. CASE InsertAuth(r)
    BY <1>0, <2>1, GotoGoesOn DEF InsertAuth, accounts, Provisioning, Later
  <2>2. CASE InsertAuthFails(r)
    BY <1>0, <2>2, FailsGoesOn DEF InsertAuthFails, accounts, Provisioning
  <2> QED
    BY <2>1, <2>2
<1>2. \A q \in Requests : q # r => req'[q] = req[q]
  BY <1>0, <1>1 DEF TypeOK
<1>3. req' \in [Requests -> RequestRecord] /\ RequestInv' /\ AloneApart'
  BY <1>1, MovesApart DEF Provisioning
<1>4. u \in Users /\ user[u] # NoRow
  BY <1>0, <1>1 DEF IInv, RequestInv, RowFollows
<1> HIDE DEF u
<1>5. RowFollows'
  BY <1>1, <1>2 DEF IInv, RowFollows, GoesOn, pc, me
<1>6. TablesAgree'
  <2>1. \A q \in Requests : pc(q) = "insertAuth" =>
           me(q) = u \/ (pc(q)' = "insertAuth" /\ me(q)' = me(q))
    <3> SUFFICES ASSUME NEW q \in Requests, pc(q) = "insertAuth", q # r
                 PROVE  pc(q)' = "insertAuth" /\ me(q)' = me(q)
      BY DEF u
    <3> QED
      BY <1>2 DEF pc, me
  <2>2. TablesAgree
    BY DEF IInv
  <2> QED
    BY <1>1, <1>4, <2>1, <2>2 DEF TablesAgree
<1>7. AloneRow'
  BY <1>1, <1>2 DEF IInv, AloneRow, GoesOn, pc, me
<1>8. AloneSetsRole'
  BY <1>1, <1>2 DEF IInv, AloneSetsRole, AloneRow, GoesOn, pc, me
<1> QED
  BY <1>0, <1>1, <1>3, <1>4, <1>5, <1>6, <1>7, <1>8 DEF TableInv, TypeOK

\* the end of a request,
LEMMA ServeTables ==
  ASSUME IInv, NEW r \in Requests, Serve(r)
  PROVE  TableInv'
<1>0. TypeOK /\ RequestInv
  BY DEF IInv
<1>1. /\ pc(r) = "serve" /\ req' = [req EXCEPT ![r] = NoRequest]
      /\ UNCHANGED <<portal, changes, user, auth, hurt>>
  BY DEF Serve, accounts, database
<1>2. req'[r] = NoRequest /\ \A q \in Requests : q # r => req'[q] = req[q]
  BY <1>0, <1>1 DEF TypeOK
<1>3. NoRequest \in RequestRecord /\ NoRequest.pc = "idle" /\ ~NoRequest.alone
  BY DEF NoRequest, RequestRecord
<1>4. req' \in [Requests -> RequestRecord]
  BY <1>0, <1>1, <1>3 DEF TypeOK
<1>5. RequestInv'
  BY <1>0, <1>2, <1>3 DEF RequestInv, pc, me
<1>6. RowFollows'
  BY <1>1, <1>2, <1>3 DEF IInv, RowFollows, pc, me
<1>7. TablesAgree'
  <2>1. \A q \in Requests : pc(q) = "insertAuth" => pc(q)' = "insertAuth" /\ me(q)' = me(q)
    BY <1>1, <1>2 DEF pc, me
  <2>2. TablesAgree
    BY DEF IInv
  <2> QED
    BY <1>1, <2>1, <2>2 DEF TablesAgree
<1>8. AloneApart'
  BY <1>2, <1>3 DEF IInv, AloneApart, pc, me, Provisioning
<1>9. AloneRow'
  BY <1>1, <1>2, <1>3 DEF IInv, AloneRow, pc, me
<1>10. AloneSetsRole'
  BY <1>1, <1>2, <1>3 DEF IInv, AloneSetsRole, pc, me
<1> QED
  BY <1>0, <1>1, <1>4, <1>5, <1>6, <1>7, <1>8, <1>9, <1>10 DEF TableInv, TypeOK

\* and hence every step of a request;
LEMMA RequestTables ==
  ASSUME IInv, NEW r \in Requests, RequestStep(r)
  PROVE  TableInv'
BY StepCases, QuietTables, UpdateRoleTables, InsertUserTables, InsertAuthTables, ServeTables

\* a request that arrives, after which the others of its user are not alone;
LEMMA ValidateTables ==
  ASSUME IInv, NEW r \in Requests, NEW u \in Users, Validate(r, u)
  PROVE  TableInv'
<1> DEFINE x == [NoRequest EXCEPT !.pc = "open", !.user = u, !.as = portal[u],
                    !.alone = \A o \in {q \in Requests : me(q) = u} : pc(o) \notin Provisioning]
<1>0. TypeOK /\ RequestInv
  BY DEF IInv
<1>1. /\ pc(r) = "idle"
      /\ req' = [q \in Requests |-> IF q = r THEN x
                    ELSE IF q \in {o \in Requests : me(o) = u}
                    THEN [req[q] EXCEPT !.alone = FALSE] ELSE req[q]]
      /\ UNCHANGED <<portal, changes, user, auth, hurt>>
  BY DEF Validate, accounts, database
<1>2. /\ x \in RequestRecord /\ x.pc = "open" /\ x.user = u /\ x.as \in Account
      /\ x.alone => \A o \in Requests : me(o) = u => pc(o) \notin Provisioning
  BY <1>0 DEF x, NoRequest, RequestRecord, Provisioning, TypeOK
<1> HIDE DEF x
<1>3. /\ req'[r] = x
      /\ \A q \in Requests : q # r /\ me(q) # u => req'[q] = req[q]
  BY <1>1
<1>4. \A q \in Requests : q # r => req'[q] \in RequestRecord /\ req'[q].pc = req[q].pc
         /\ req'[q].user = req[q].user /\ req'[q].as = req[q].as
         /\ req'[q].token = req[q].token /\ req'[q].failed = req[q].failed
         /\ (req'[q].alone => req[q].alone /\ me(q) # u)
  BY <1>0, <1>1 DEF TypeOK, RequestRecord
<1>5. req' \in [Requests -> RequestRecord]
  BY <1>1, <1>2, <1>3, <1>4
<1>6. RequestInv'
  <2>1. \A q \in Requests : pc(q) = "idle" => req[q] = NoRequest
    BY <1>0 DEF RequestInv
  <2>2. NoRequest.user = NoUser
    BY DEF NoRequest
  <2>3. \A q \in Requests : q # r /\ pc(q) = "idle" => req'[q] = NoRequest
    BY <1>3, <2>1, <2>2 DEF me
  <2> QED
    BY <1>0, <1>2, <1>3, <1>4, <2>3 DEF RequestInv, pc, me
<1>7. RowFollows'
  BY <1>1, <1>2, <1>3, <1>4 DEF IInv, RowFollows, pc, me
<1>8. TablesAgree'
  <2>1. \A q \in Requests : pc(q) = "insertAuth" => pc(q)' = "insertAuth" /\ me(q)' = me(q)
    BY <1>1, <1>4 DEF pc, me
  <2>2. TablesAgree
    BY DEF IInv
  <2> QED
    BY <1>1, <2>1, <2>2 DEF TablesAgree
<1>9. AloneApart'
  <2> SUFFICES ASSUME NEW p \in Requests, NEW q \in Requests, p # q, req'[p].alone,
                      pc(p)' \in Provisioning \cup {"lookup"}, me(q)' = me(p)'
               PROVE  pc(q)' \notin Provisioning
    BY DEF AloneApart
  <2>1. CASE p = r
    BY <1>2, <1>3, <1>4, <2>1 DEF pc, me
  <2>2. CASE q = r
    BY <1>2, <1>3, <1>4, <2>2 DEF pc, me
  <2>3. CASE p # r /\ q # r
    BY <1>4, <2>3 DEF IInv, AloneApart, pc, me
  <2> QED
    BY <2>1, <2>2, <2>3
<1>10. AloneRow'
  BY <1>1, <1>2, <1>3, <1>4 DEF IInv, AloneRow, pc, me
<1>11. AloneSetsRole'
  BY <1>1, <1>2, <1>3, <1>4 DEF IInv, AloneSetsRole, pc, me
<1> QED
  BY <1>0, <1>1, <1>5, <1>6, <1>7, <1>8, <1>9, <1>10, <1>11 DEF TableInv, TypeOK

\* a change of account and the end of a token;
LEMMA EnvironmentTables ==
  ASSUME IInv, (\E u \in Users : AccountChanges(u)) \/ (\E t \in Tokens : TokenDies(t))
  PROVE  TableInv'
<1>0. TypeOK
  BY DEF IInv
<1>1. UNCHANGED <<user, auth, hurt, req>>
  BY DEF AccountChanges, TokenDies, database
<1>2. portal' \in [Users -> Account] /\ changes' \in 0..MaxChanges
  BY <1>0 DEF AccountChanges, TokenDies, accounts, TypeOK
<1> QED
  BY <1>0, <1>1, <1>2 DEF IInv, TableInv, TypeOK, RequestInv, RowFollows, TablesAgree,
                          AloneApart, AloneRow, AloneSetsRole, pc, me

\* a restart, which marks the users it hurts;
LEMMA RestartTables ==
  ASSUME IInv, Restart
  PROVE  TableInv'
<1>0. TypeOK /\ RequestInv
  BY DEF IInv
<1>1. /\ UNCHANGED <<portal, changes, user, auth>>
      /\ hurt' = hurt \cup {me(r) : r \in {q \in Requests : pc(q) = "insertAuth"}}
      /\ \A r \in Requests : req'[r] = NoRequest
      /\ req' = [r \in Requests |-> NoRequest]
  BY DEF Restart, accounts
<1>2. NoRequest \in RequestRecord /\ NoRequest.pc = "idle" /\ ~NoRequest.alone
  BY DEF NoRequest, RequestRecord
<1>3. hurt' \subseteq Users /\ \A r \in Requests : pc(r) = "insertAuth" => me(r) \in hurt'
  BY <1>0, <1>1 DEF TypeOK, RequestInv
<1>4. req' \in [Requests -> RequestRecord]
  BY <1>1, <1>2
<1>5. RequestInv' /\ RowFollows' /\ AloneApart' /\ AloneRow' /\ AloneSetsRole'
  BY <1>1, <1>2 DEF RequestInv, RowFollows, AloneApart, AloneRow, AloneSetsRole, pc, me
<1>6. TablesAgree'
  <2>1. TablesAgree
    BY DEF IInv
  <2>2. hurt \subseteq hurt'
    BY <1>1
  <2> QED
    BY <1>1, <1>3, <2>1, <2>2 DEF TablesAgree
<1> QED
  BY <1>0, <1>1, <1>3, <1>4, <1>5, <1>6 DEF TableInv, TypeOK

\* any step.
LEMMA NextTables ==
  ASSUME IInv, Next
  PROVE  TableInv'
BY RequestTables, ValidateTables, EnvironmentTables, RestartTables DEF Next

-----------------------------------------------------------------------------
(* The tokens *)

TokenInv ==
    /\ owner \in [Tokens -> Users \cup {NoUser}]
    /\ alive \subseteq {t \in Tokens : owner[t] # NoUser}
    /\ cache \in [Users -> Tokens \cup {NoToken}]
    /\ CookieIsOwn

\* A request keeps its user and its token, or holds none.
KeepsToken(r) ==
    \/ req'[r].token = NoToken
    \/ req'[r].token = req[r].token /\ me(r)' = me(r)

\* If all do, and sign-ins and cache stay, every cookie stays its owner's;
LEMMA TokensStay ==
  ASSUME IInv, UNCHANGED signedIn, \A r \in Requests : KeepsToken(r)
  PROVE  TokenInv'
BY DEF IInv, TypeOK, TokenInv, CookieIsOwn, KeepsToken, signedIn, me

\* a request that goes on with its token does,
LEMMA MovesKeep ==
  ASSUME IInv, NEW r \in Requests, req' = [req EXCEPT ![r] = req'[r]],
         GoesOn(r, req'[r]), req'[r].token = req[r].token
  PROVE  \A q \in Requests : KeepsToken(q)
BY DEF IInv, TypeOK, GoesOn, KeepsToken, me

\* so the statements do.
LEMMA StatementTokens ==
  ASSUME IInv, NEW r \in Requests,
         \/ SelectFinds(r) \/ SelectFindsNone(r) \/ OpenFails(r)
         \/ UpdateRole(r) \/ UpdateRoleFails(r)
         \/ InsertUser(r) \/ InsertUserFails(r) \/ InsertAuth(r) \/ InsertAuthFails(r)
         \/ SigninFails(r)
  PROVE  TokenInv'
<1>0. TypeOK
  BY DEF IInv
<1>1. UNCHANGED signedIn
  BY DEF SelectFinds, SelectFindsNone, OpenFails, UpdateRole, UpdateRoleFails, InsertUser,
         InsertUserFails, InsertAuth, InsertAuthFails, SigninFails
<1>2. \/ OpenFails(r)
      \/ \E from \in Provisioning : Fails(r, from)
      \/ \E from, to \in Provisioning \cup Later : Goto(r, from, to)
  BY DEF SelectFinds, SelectFindsNone, UpdateRole, UpdateRoleFails, InsertUser,
         InsertUserFails, InsertAuth, InsertAuthFails, SigninFails, Provisioning, Later
<1>3. req' = [req EXCEPT ![r] = req'[r]] /\ GoesOn(r, req'[r]) /\ req'[r].token = req[r].token
  BY <1>0, <1>2, GotoGoesOn, FailsGoesOn, OpenFailsGoesOn
<1> QED
  BY <1>1, <1>3, MovesKeep, TokensStay

\* The cached token is the user's own,
LEMMA LookupTokens ==
  ASSUME IInv, NEW r \in Requests, LookupToken(r)
  PROVE  TokenInv'
<1>0. TypeOK /\ RequestInv
  BY DEF IInv
<1>1. PICK to \in {"signin", "serve"} : Goes(r, "lookup", cache[me(r)], to)
  BY DEF LookupToken
<1>2. me(r) \in Users /\ cache[me(r)] \in Tokens \cup {NoToken}
  BY <1>0, <1>1 DEF Goes, RequestInv, TypeOK
<1>3. req' = [req EXCEPT ![r] = req'[r]] /\ GoesOn(r, req'[r]) /\ req'[r].token = cache[me(r)]
  BY <1>0, <1>1, <1>2, GoesGoesOn DEF Later
<1>4. me(r)' = me(r) /\ \A q \in Requests : q # r => req'[q] = req[q]
  BY <1>0, <1>3 DEF TypeOK, GoesOn, me
<1>5. UNCHANGED signedIn
  BY DEF LookupToken
<1> QED
  BY <1>0, <1>2, <1>3, <1>4, <1>5 DEF IInv, TypeOK, TokenInv, CookieIsOwn, signedIn, me

\* a new one was nobody's,
LEMMA SigninTokens ==
  ASSUME IInv, NEW r \in Requests, SigninSucceeds(r)
  PROVE  TokenInv'
<1>0. TypeOK /\ RequestInv /\ CookieIsOwn
  BY DEF IInv
<1>1. PICK t \in Tokens : /\ owner[t] = NoUser /\ Goes(r, "signin", t, "store")
                          /\ owner' = [owner EXCEPT ![t] = me(r)]
                          /\ alive' = alive \cup {t}
  BY DEF SigninSucceeds
<1>2. me(r) \in Users
  BY <1>0, <1>1 DEF Goes, RequestInv
<1>3. req' = [req EXCEPT ![r] = req'[r]] /\ GoesOn(r, req'[r]) /\ req'[r].token = t
  BY <1>0, <1>1, GoesGoesOn DEF Later
<1>4. me(r)' = me(r) /\ \A q \in Requests : q # r => req'[q] = req[q]
  BY <1>0, <1>3 DEF TypeOK, GoesOn, me
<1>5. cache' = cache
  BY DEF SigninSucceeds
<1>6. owner'[t] = me(r) /\ \A s \in Tokens : s # t => owner'[s] = owner[s]
  BY <1>0, <1>1 DEF TypeOK
<1>7. owner' \in [Tokens -> Users \cup {NoUser}]
      /\ alive' \subseteq {s \in Tokens : owner'[s] # NoUser}
  BY <1>0, <1>1, <1>2, <1>6 DEF TypeOK
<1>8. \A q \in Requests : q # r /\ req[q].token # NoToken =>
         owner'[req[q].token] = me(q)
  <2> SUFFICES ASSUME NEW q \in Requests, q # r, req[q].token # NoToken
               PROVE  owner'[req[q].token] = me(q)
    OBVIOUS
  <2>1. req[q].token \in Tokens /\ owner[req[q].token] = me(q)
    BY <1>0 DEF TypeOK, RequestRecord, CookieIsOwn
  <2>2. pc(q) # "idle"
    BY <1>0 DEF RequestInv, NoRequest
  <2>3. me(q) # NoUser
    BY <1>0, <2>2 DEF RequestInv
  <2> QED
    BY <1>1, <1>6, <2>1, <2>3
<1>9. \A u \in Users : cache[u] # NoToken => owner'[cache[u]] = u
  BY <1>0, <1>1, <1>6 DEF TypeOK, CookieIsOwn
<1>10. CookieIsOwn'
  BY <1>3, <1>4, <1>5, <1>6, <1>8, <1>9 DEF CookieIsOwn, me
<1> QED
  BY <1>0, <1>5, <1>7, <1>10 DEF TokenInv, TypeOK

\* and the request stores its own.
LEMMA StoreTokens ==
  ASSUME IInv, NEW r \in Requests, StoreToken(r)
  PROVE  TokenInv'
<1>0. TypeOK /\ RequestInv /\ CookieIsOwn
  BY DEF IInv
<1>1. Goto(r, "store", "serve") /\ cache' = [cache EXCEPT ![me(r)] = req[r].token]
      /\ UNCHANGED <<owner, alive>>
  BY DEF StoreToken
<1>2. /\ pc(r) = "store" /\ req' = [req EXCEPT ![r] = req'[r]] /\ GoesOn(r, req'[r])
      /\ req'[r].token = req[r].token
  BY <1>0, <1>1, GotoGoesOn DEF Provisioning, Later
<1>3. me(r) \in Users /\ req[r].token \in Tokens \cup {NoToken}
  BY <1>0, <1>2 DEF RequestInv, TypeOK, RequestRecord
<1>4. \A q \in Requests : req'[q].token = req[q].token /\ me(q)' = me(q)
  BY <1>0, <1>2 DEF TypeOK, GoesOn, me
<1>5. /\ cache' \in [Users -> Tokens \cup {NoToken}] /\ cache'[me(r)] = req[r].token
      /\ \A u \in Users : u # me(r) => cache'[u] = cache[u]
  BY <1>0, <1>1, <1>3 DEF TypeOK
<1>6. CookieIsOwn'
  BY <1>0, <1>1, <1>4, <1>5 DEF CookieIsOwn
<1> QED
  BY <1>0, <1>1, <1>5, <1>6 DEF TokenInv, TypeOK

\* The end of a request drops its token,
LEMMA ServeTokens ==
  ASSUME IInv, NEW r \in Requests, Serve(r)
  PROVE  TokenInv'
<1>1. UNCHANGED signedIn /\ req' = [req EXCEPT ![r] = NoRequest]
  BY DEF Serve
<1>2. \A q \in Requests : KeepsToken(q)
  <2>1. req'[r] = NoRequest /\ \A q \in Requests : q # r => req'[q] = req[q]
    BY <1>1 DEF IInv, TypeOK
  <2> QED
    BY <2>1 DEF KeepsToken, NoRequest, me
<1> QED
  BY <1>1, <1>2, TokensStay

\* a new request has none,
LEMMA ValidateTokens ==
  ASSUME IInv, NEW r \in Requests, NEW u \in Users, Validate(r, u)
  PROVE  TokenInv'
<1>1. UNCHANGED signedIn
  BY DEF Validate
<1>2. \A q \in Requests : KeepsToken(q)
  <2>1. req'[r].token = NoToken
    BY DEF Validate, NoRequest
  <2>2. \A q \in Requests : q # r => req'[q].token = req[q].token /\ req'[q].user = req[q].user
    BY DEF IInv, TypeOK, Validate, RequestRecord
  <2> QED
    BY <2>1, <2>2 DEF KeepsToken, me
<1> QED
  BY <1>1, <1>2, TokensStay

\* a restart drops them all.
LEMMA OtherTokens ==
  ASSUME IInv, Restart \/ (\E u \in Users : AccountChanges(u)) \/ (\E t \in Tokens : TokenDies(t))
  PROVE  TokenInv'
<1>0. TypeOK /\ CookieIsOwn
  BY DEF IInv
<1>1. CASE Restart
  BY <1>0, <1>1 DEF Restart, TypeOK, TokenInv, CookieIsOwn, NoRequest
<1>2. CASE \E u \in Users : AccountChanges(u)
  <2>1. UNCHANGED signedIn /\ req' = req
    BY <1>2 DEF AccountChanges
  <2> QED
    BY <1>0, <2>1 DEF TypeOK, TokenInv, CookieIsOwn, signedIn, me
<1>3. CASE \E t \in Tokens : TokenDies(t)
  BY <1>0, <1>3 DEF TokenDies, TypeOK, TokenInv, CookieIsOwn, me
<1> QED
  BY <1>1, <1>2, <1>3

\* So no step gives a cookie to a stranger.
LEMMA NextTokens ==
  ASSUME IInv, Next
  PROVE  TokenInv'
<1>1. ASSUME NEW r \in Requests, RequestStep(r)
      PROVE  TokenInv'
  BY <1>1, StatementTokens, LookupTokens, SigninTokens, StoreTokens, ServeTokens
     DEF RequestStep
<1> QED
  BY <1>1, ValidateTokens, OtherTokens DEF Next

-----------------------------------------------------------------------------
(* The theorems *)

\* No step leaves the invariant.
THEOREM NextIInv == IInv /\ [Next]_vars => IInv'
<1>1. CASE IInv /\ Next
  <2>1. TableInv' /\ TokenInv'
    BY <1>1, NextTables, NextTokens
  <2> QED
    BY <2>1 DEF TableInv, TokenInv, IInv, TypeOK
<1>2. CASE IInv /\ UNCHANGED vars
  BY <1>2 DEF vars, IInv, TypeOK, RequestInv, RowFollows, TablesAgree, AloneApart, AloneRow,
              AloneSetsRole, CookieIsOwn, pc, me
<1> QED
  BY <1>1, <1>2

\* IInv holds in every reachable state, whatever the requests interleave to.
THEOREM Invariance == Spec => []IInv
BY InitIInv, NextIInv, PTL DEF Spec

\* Every variable keeps its type; only a token with an owner is accepted.
THEOREM TypeCorrect == Spec => []TypeOK
<1>1. IInv => TypeOK
  BY DEF IInv
<1> QED
  BY <1>1, Invariance, PTL

\* The user and the auth table of Open WebUI agree, but for a request between
\* the two INSERTs, or one that was cut off there (provisionUserDB).
THEOREM Tables == Spec => []TablesAgree
<1>1. IInv => TablesAgree
  BY DEF IInv
<1> QED
  BY <1>1, Invariance, PTL

\* A request that met no other of its user leaves its role in the row.
THEOREM RoleSet == Spec => []AloneSetsRole
<1>1. IInv => AloneSetsRole
  BY DEF IInv
<1> QED
  BY <1>1, Invariance, PTL

\* Whatever is cached or injected was issued for the user it goes to
\* (tokenCache and cookieInjector), for any number of tokens.
THEOREM OwnCookie == Spec => []CookieIsOwn
<1>1. IInv => CookieIsOwn
  BY DEF IInv
<1> QED
  BY <1>1, Invariance, PTL
=============================================================================

---------------------------- MODULE AuthBridge ----------------------------
(***************************************************************************)
(* The auth-bridge (auth-bridge/cmd/main.go): concurrent requests that are *)
(* validated at the portal, provision their user in Open WebUI's SQLite    *)
(* file in several statements without a transaction, sign the user in once *)
(* and inject the cached cookie into every response.                       *)
(*                                                                         *)
(* A request that the portal does not validate is redirected and changes   *)
(* nothing; it has no action.  A statement may fail at any time: Open      *)
(* WebUI writes to the same file, and the bridge sets no busy time-out.    *)
(* Two users never share an address, so an address is told by its user.    *)
(***************************************************************************)
EXTENDS Naturals

CONSTANTS
    Users,      \* portal user ids, also the ids of their rows
    Requests,   \* request goroutines
    Addresses,  \* the e-mail addresses a user may come to have
    Tokens,     \* sign-in tokens, each issued once: a bound
    MaxChanges, \* how often the portal changes a user: a bound
    NoUser,     \* nobody
    NoAccount,  \* no account has been read
    NoRow,      \* no row of that id in the user table
    NoToken     \* a nil *http.Cookie

Roles == {"admin", "user"}      \* after mapRole

VARIABLES
    portal,     \* [Users -> Account]: what /auth/me answers
    changes,    \* how often portal has changed
    user,       \* the user table of Open WebUI
    auth,       \* the ids in its auth table
    owner,      \* [Tokens -> Users \cup {NoUser}]: whom a token was issued for
    alive,      \* the tokens Open WebUI accepts
    cache,      \* tokenCache
    req,        \* [Requests -> RequestRecord]
    hurt        \* history: the users whose provisioning was cut off half-way

vars == <<portal, changes, user, auth, owner, alive, cache, req, hurt>>

Account == [email : Addresses, role : Roles]

UserRow == [email : Addresses, role : Roles, name : {"fullName", "email"}]

ASSUME BridgeAssumption ==
    /\ MaxChanges \in Nat
    /\ NoUser \notin Users /\ NoToken \notin Tokens /\ NoRow \notin UserRow

Provisioning == {"open", "update", "insertUser", "insertAuth"}

\* failed: a statement of this request failed.  alone: no other request of
\* the user was being provisioned when this one began, and none has begun since.
RequestRecord ==
    [pc : Provisioning \cup {"idle", "lookup", "signin", "store", "serve"},
     user : Users \cup {NoUser}, as : Account \cup {NoAccount}, token : Tokens \cup {NoToken},
     failed : BOOLEAN, alone : BOOLEAN]

TypeOK ==
    /\ portal \in [Users -> Account]
    /\ changes \in 0..MaxChanges
    /\ user \in [Users -> UserRow \cup {NoRow}]
    /\ auth \subseteq Users
    /\ owner \in [Tokens -> Users \cup {NoUser}]
    /\ alive \subseteq {t \in Tokens : owner[t] # NoUser}
    /\ cache \in [Users -> Tokens \cup {NoToken}]
    /\ req \in [Requests -> RequestRecord]
    /\ hurt \subseteq Users

NoRequest == [pc |-> "idle", user |-> NoUser, as |-> NoAccount, token |-> NoToken,
              failed |-> FALSE, alone |-> FALSE]

Init ==
    /\ portal \in [Users -> Account]
    /\ changes = 0
    /\ user = [u \in Users |-> NoRow]
    /\ auth = {}
    /\ owner = [t \in Tokens |-> NoUser]
    /\ alive = {}
    /\ cache = [u \in Users |-> NoToken]
    /\ req = [r \in Requests |-> NoRequest]
    /\ hurt = {}

pc(r) == req[r].pc
me(r) == req[r].user

Goto(r, from, to) == pc(r) = from /\ req' = [req EXCEPT ![r].pc = to]

\* A statement that fails ends provisioning; its error is only logged.
Fails(r, from) ==
    /\ pc(r) = from
    /\ req' = [req EXCEPT ![r].pc = "lookup", ![r].failed = TRUE]

Goes(r, from, token, to) ==
    /\ pc(r) = from
    /\ req' = [req EXCEPT ![r].pc = to, ![r].token = token]

database == <<user, auth, hurt>>
signedIn == <<owner, alive, cache>>
accounts == <<portal, changes>>

-----------------------------------------------------------------------------
(* validateSession *)

\* The account as it is when the portal answers.
Validate(r, u) ==
    /\ pc(r) = "idle"
    /\ LET others == {q \in Requests : me(q) = u}
       IN  req' = [q \in Requests |->
                     IF q = r
                     THEN [NoRequest EXCEPT !.pc = "open", !.user = u, !.as = portal[u],
                              !.alone = \A o \in others : pc(o) \notin Provisioning]
                     ELSE IF q \in others THEN [req[q] EXCEPT !.alone = FALSE]
                     ELSE req[q]]
    /\ UNCHANGED <<accounts, database, signedIn>>

-----------------------------------------------------------------------------
(* provisionUserDB *)

\* Mutant: displayName does not fall back to the address.
EmptyName == ""

\* full_name is the JSON name of two fields of UserInfo, so encoding/json sets
\* neither, and displayName falls through to the address.
DisplayName == "email"

Found(r) == user[me(r)] # NoRow /\ user[me(r)].email = req[r].as.email

\* Mutant: an existing user is left as it is.
SelectIgnoresRole(r) ==
    /\ pc(r) = "open" /\ Found(r)
    /\ Goto(r, "open", "lookup")
    /\ UNCHANGED <<accounts, database, signedIn>>

SelectFinds(r) ==
    /\ pc(r) = "open" /\ Found(r)
    /\ Goto(r, "open", IF user[me(r)].role = req[r].as.role THEN "lookup" ELSE "update")
    /\ UNCHANGED <<accounts, database, signedIn>>

\* sql.ErrNoRows.
SelectFindsNone(r) ==
    /\ pc(r) = "open" /\ ~Found(r)
    /\ Goto(r, "open", "insertUser")
    /\ UNCHANGED <<accounts, database, signedIn>>

\* The PRAGMA fails, which ends provisioning; or the query does, which is taken
\* for a user that does not exist.
OpenFails(r) ==
    /\ \/ Fails(r, "open")
       \/ pc(r) = "open" /\ req' = [req EXCEPT ![r].pc = "insertUser", ![r].failed = TRUE]
    /\ UNCHANGED <<accounts, database, signedIn>>

UpdateRole(r) ==
    /\ Goto(r, "update", "lookup")
    /\ user' = [user EXCEPT ![me(r)].role = req[r].as.role]
    /\ UNCHANGED <<accounts, auth, hurt, signedIn>>

UpdateRoleFails(r) == Fails(r, "update") /\ UNCHANGED <<accounts, database, signedIn>>

\* Mutant: provisioning ends with the first INSERT.
InsertUserOnly(r) ==
    /\ Goto(r, "insertUser", "lookup")
    /\ user[me(r)] = NoRow
    /\ user' = [user EXCEPT ![me(r)] =
                   [email |-> req[r].as.email, role |-> req[r].as.role, name |-> DisplayName]]
    /\ UNCHANGED <<accounts, auth, hurt, signedIn>>

InsertUser(r) ==
    /\ Goto(r, "insertUser", "insertAuth")
    /\ user[me(r)] = NoRow
    /\ user' = [user EXCEPT ![me(r)] =
                   [email |-> req[r].as.email, role |-> req[r].as.role, name |-> DisplayName]]
    /\ UNCHANGED <<accounts, auth, hurt, signedIn>>

\* The id is taken, or the database is busy.
InsertUserFails(r) == Fails(r, "insertUser") /\ UNCHANGED <<accounts, database, signedIn>>

InsertAuth(r) ==
    /\ Goto(r, "insertAuth", "lookup")
    /\ auth' = auth \cup {me(r)}
    /\ UNCHANGED <<accounts, user, hurt, signedIn>>

InsertAuthFails(r) ==
    /\ Fails(r, "insertAuth")
    /\ hurt' = hurt \cup {me(r)}
    /\ UNCHANGED <<accounts, user, auth, signedIn>>

-----------------------------------------------------------------------------
(* The token cookie *)

LookupToken(r) ==
    /\ LET t == cache[me(r)]
       IN  Goes(r, "lookup", t, IF t = NoToken THEN "signin" ELSE "serve")
    /\ UNCHANGED <<accounts, database, signedIn>>

\* Open WebUI answers 200 with a token cookie for the address it was given ...
SigninSucceeds(r) ==
    /\ \E t \in Tokens :
          /\ owner[t] = NoUser
          /\ Goes(r, "signin", t, "store")
          /\ owner' = [owner EXCEPT ![t] = me(r)]
          /\ alive' = alive \cup {t}
    /\ UNCHANGED <<accounts, database, cache>>

\* ... or anything else within 10 seconds, and the user sees the sign-in form.
SigninFails(r) ==
    /\ Goto(r, "signin", "serve")
    /\ UNCHANGED <<accounts, database, signedIn>>

StoreToken(r) ==
    /\ Goto(r, "store", "serve")
    /\ cache' = [cache EXCEPT ![me(r)] = req[r].token]
    /\ UNCHANGED <<accounts, database, owner, alive>>

\* proxy.ServeHTTP, with cookieInjector if there is a token.
Serve(r) ==
    /\ pc(r) = "serve"
    /\ req' = [req EXCEPT ![r] = NoRequest]
    /\ UNCHANGED <<accounts, database, signedIn>>

-----------------------------------------------------------------------------
(* The environment *)

\* The portal gives a user another role or address.
AccountChanges(u) ==
    /\ changes < MaxChanges
    /\ changes' = changes + 1
    /\ \E a \in Account \ {portal[u]} : portal' = [portal EXCEPT ![u] = a]
    /\ UNCHANGED <<database, signedIn, req>>

\* A token expires, the user signs out in Open WebUI, or its key is replaced.
TokenDies(t) ==
    /\ t \in alive
    /\ alive' = alive \ {t}
    /\ UNCHANGED <<accounts, database, owner, cache, req>>

\* SIGTERM ends the process at once, and Docker starts it again.
Restart ==
    /\ hurt' = hurt \cup {me(r) : r \in {q \in Requests : pc(q) = "insertAuth"}}
    /\ cache' = [u \in Users |-> NoToken]
    /\ req' = [r \in Requests |-> NoRequest]
    /\ UNCHANGED <<accounts, user, auth, owner, alive>>

RequestStep(r) ==
    \/ SelectFinds(r) \/ SelectFindsNone(r) \/ OpenFails(r)
    \/ UpdateRole(r) \/ UpdateRoleFails(r)
    \/ InsertUser(r) \/ InsertUserFails(r) \/ InsertAuth(r) \/ InsertAuthFails(r)
    \/ LookupToken(r) \/ SigninSucceeds(r) \/ SigninFails(r) \/ StoreToken(r) \/ Serve(r)

Next ==
    \/ \E r \in Requests : RequestStep(r) \/ \E u \in Users : Validate(r, u)
    \/ \E u \in Users : AccountChanges(u)
    \/ \E t \in Tokens : TokenDies(t)
    \/ Restart

Spec == Init /\ [][Next]_vars

\* Every goroutine runs on: its calls end within 5 and 10 seconds, and SQLite
\* answers at once.
FairSpec == Spec /\ \A r \in Requests : WF_vars(RequestStep(r))

-----------------------------------------------------------------------------
(* Safety *)

\* The two tables agree: no auth row without a user row, and no user row
\* without an auth row except while a request is about to insert it or after
\* that statement failed or the bridge ended in front of it, however many
\* first requests of the user run at a time.
TablesAgree ==
    \A u \in Users :
        /\ u \in auth => user[u] # NoRow
        /\ user[u] # NoRow /\ u \notin auth =>
              u \in hurt \/ \E r \in Requests : pc(r) = "insertAuth" /\ me(r) = u

\* A request that met no other of its user and no failure leaves the role it
\* was validated with in the user's row.
AloneSetsRole ==
    \A r \in Requests :
        pc(r) = "lookup" /\ req[r].alone /\ ~req[r].failed =>
            LET row == user[me(r)]
            IN  row # NoRow /\ row.role = req[r].as.role /\ row.email = req[r].as.email

\* The cookie a request injects, and the cookie kept for a user, were issued
\* for that user (main.go:349: a wrapper per request, not ModifyResponse on
\* the shared proxy).
CookieIsOwn ==
    /\ \A r \in Requests : req[r].token # NoToken => owner[req[r].token] = me(r)
    /\ \A u \in Users : cache[u] # NoToken => owner[cache[u]] = u

-----------------------------------------------------------------------------
(* Liveness, under FairSpec *)

\* provisionUserDB of some request of u has come to its end without a failure.
Provisioned(u) == \E r \in Requests : me(r) = u /\ pc(r) = "lookup" /\ ~req[r].failed

\* Requests validated before a change of role may write the old role after
\* newer ones have written the new one; but once the portal has settled, and
\* provisioning succeeds again and again, the row has the portal's role for good.
RolesConverge ==
    \A u \in Users, x \in Roles :
        <>[](portal[u].role = x) /\ []<>Provisioned(u) =>
            <>[](user[u] # NoRow /\ user[u].role = x)

-----------------------------------------------------------------------------
(* What the guide and the comments say, and the code does not do *)

\* SSO-INTEGRATION-GUIDE.md:92 "If not exists: inserts into user and auth
\* tables", where existence is by address: a request that finds no row and
\* meets no other request does not fail to insert for an id that is taken.
MissingUserIsInserted ==
    \A r \in Requests :
        pc(r) = "insertUser" /\ ~req[r].failed /\ req[r].alone => user[me(r)] = NoRow

\* The same sentence: after provisioning without failures a user has both rows.
ProvisionedInBothTables ==
    \A r \in Requests :
        pc(r) = "lookup" /\ req[r].alone /\ ~req[r].failed => me(r) \in auth

\* main.go:154 "inject it via a response wrapper so the browser has an active
\* session immediately": a cached token that is injected is accepted.
CachedTokenIsAccepted ==
    [][\A r \in Requests : pc(r) = "lookup" /\ pc(r)' = "serve" => cache[me(r)] \in alive]_vars

\* ARCHITECTURE.md:867 "Name: user.Name" in the request that creates a user, and
\* main.go:69 a field for the portal's full_name: a row shows the full name.
RowShowsFullName == \A u \in Users : user[u] # NoRow => user[u].name = "fullName"
=============================================================================

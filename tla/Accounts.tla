-------------------------------- MODULE Accounts --------------------------------
(***************************************************************************)
(* Accounts and sessions: the users table, the stateless session cookies,  *)
(* login with its throttle and lockout, password changes, the setup wizard *)
(* and the administrators' edits.                                          *)
(*                                                                         *)
(* A request reads rows, spends a quarter of a second in bcrypt or counts  *)
(* administrators, and commits later; a commit writes the columns whose    *)
(* value differs from the one the request read.                            *)
(***************************************************************************)
EXTENDS Naturals

CONSTANTS
  Names,      \* user names
  Seed,       \* the name of the seeded administrator
  Browsers,   \* each with its cookie and its address
  Requests,   \* threads that serve requests
  MaxId,      \* bound: user ids are 1..MaxId
  MaxHash,    \* bound: passwords ever set
  Threshold,  \* [security] lockout_threshold
  PerIp,      \* _LOGIN_FAIL_MAX
  MaxFails    \* bound: wrong passwords

Ids == 1..MaxId

\* What the proofs assume of the constants.
AccountsConstants ==
  /\ Seed \in Names /\ "none" \notin Names
  /\ {MaxId, MaxHash} \subseteq Nat \ {0} /\ {Threshold, MaxFails} \subseteq Nat

VARIABLES
  users,    \* the table
  cookie,   \* each browser's session
  request,  \* each thread's request
  recent,   \* failed logins of each address in the current window
  hashes,   \* hashes made so far: each is new, with a salt of its own
  seeds,    \* the hashes that are of the seed password
  fails,    \* wrong passwords so far, for the bound
  raced     \* history: an administrator went after another had gone since the
            \* check that one remains

vars == <<users, cookie, request, recent, hashes, seeds, fails, raced>>

Hash   == 1..MaxHash
NoUser == [name |-> "none"]
User   == [name : Names, hash : Hash, admin : BOOLEAN, failed : 0..Threshold,
           locked : {"no", "yes", "over"}]

\* `knew' and `overtaken' are history: the password presented or set for this
\* session, and whether the account changed between the check and the session.
SignedOut == [id |-> 0]
Session   == [id : Ids, print : Hash, knew : Hash, overtaken : BOOLEAN]

\* `overtaken' is history: the password was changed, the row deleted or, for a
\* removal, some administrator removed since the request's checks.
NoRequest == [op |-> "none", id |-> 0]
Request   == [op : {"login", "setup", "change", "demote", "promote", "delete", "reset"},
              by : Browsers, id : Ids, read : User \cup {NoUser}, overtaken : BOOLEAN]
Removals  == {"demote", "delete"}

Present(i) == users[i] # NoUser
IsAdmin(i) == Present(i) /\ users[i].admin

TypeOK ==
  /\ users \in [Ids -> User \cup {NoUser}]
  /\ \A i, j \in Ids : Present(i) /\ i # j => users[i].name # users[j].name
  /\ cookie \in [Browsers -> Session \cup {SignedOut}]
  /\ request \in [Requests -> Request \cup {NoRequest}]
  /\ recent \in [Browsers -> Nat]
  /\ hashes \in 1..MaxHash /\ seeds \subseteq Hash
  /\ fails \in 0..MaxFails
  /\ raced \in BOOLEAN

Seeded == [name |-> Seed, hash |-> 1, admin |-> TRUE, failed |-> 0, locked |-> "no"]

Init ==
  /\ users = [i \in Ids |-> IF i = 1 THEN Seeded ELSE NoUser]
  /\ cookie = [b \in Browsers |-> SignedOut]
  /\ request = [r \in Requests |-> NoRequest]
  /\ recent = [b \in Browsers |-> 0]
  /\ hashes = 1 /\ seeds = {1}
  /\ fails = 0
  /\ raced = FALSE

-------------------------------------------------------------------------------
(***************************************************************************)
(* Sessions.                                                               *)
(***************************************************************************)
\* Mutant of SignedIn: the cookie's fingerprint is not compared.
SignedInById(b, i) == Present(i) /\ cookie[b].id = i

\* current_user: the cookie was issued against the password the row has now.
SignedIn(b, i) == Present(i) /\ cookie[b].id = i /\ cookie[b].print = users[i].hash

\* start_session: the commit expired the row, which is read again here.
StartSession(r, knew, print) ==
  cookie' = [cookie EXCEPT ![request[r].by] =
    [id |-> request[r].id, print |-> print, knew |-> knew,
     overtaken |-> request[r].overtaken]]

Logout(b) ==
  /\ cookie[b] # SignedOut
  /\ cookie' = [cookie EXCEPT ![b] = SignedOut]
  /\ UNCHANGED <<users, request, recent, hashes, seeds, fails, raced>>

Begin(r, op, b, i) ==
  /\ request[r] = NoRequest
  /\ request' = [request EXCEPT ![r] =
       [op |-> op, by |-> b, id |-> i, overtaken |-> FALSE,
        read |-> IF op = "login" THEN users[i] ELSE NoUser]]

\* r is done, and the requests in S find what they checked changed.
Ends(r, S) ==
  request' = [q \in Requests |->
    IF q = r THEN NoRequest
    ELSE IF q \in S THEN [request[q] EXCEPT !.overtaken = TRUE] ELSE request[q]]

On(i) == {q \in Requests : request[q].id = i}

NewHash == hashes < MaxHash /\ hashes' = hashes + 1

-------------------------------------------------------------------------------
(***************************************************************************)
(* Login.                                                                  *)
(***************************************************************************)
Throttled(b) == recent[b] >= PerIp

\* A wrong password.
Miss(b) ==
  /\ fails < MaxFails /\ fails' = fails + 1
  /\ recent' = [recent EXCEPT ![b] = @ + 1]

\* An account that is locked is refused, right password or not.
LoginBegin(r, b, i) ==
  /\ ~Throttled(b)
  /\ Present(i) /\ users[i].locked # "yes"
  /\ Begin(r, "login", b, i)
  /\ UNCHANGED <<users, cookie, recent, hashes, seeds, fails, raced>>

LoginUnknown(b) ==
  /\ ~Throttled(b)
  /\ Miss(b)
  /\ UNCHANGED <<users, cookie, request, hashes, seeds, raced>>

\* The count of failures that is written is the one that was read, plus one; at
\* the threshold the account is locked and the count starts again.
LoginFails(r) ==
  LET i == request[r].id
      n == request[r].read.failed + 1
      m == IF n >= Threshold THEN 0 ELSE n
  IN /\ request[r].op = "login"
     /\ Miss(request[r].by)
     /\ users' = IF ~Present(i) THEN users
                 ELSE [users EXCEPT
                   ![i].failed = IF m = request[r].read.failed THEN @ ELSE m,
                   ![i].locked = IF n >= Threshold THEN "yes" ELSE @]
     /\ Ends(r, {})
     /\ UNCHANGED <<cookie, hashes, seeds, raced>>

\* The lockout is cleared as far as it was there when the row was read.  A row
\* that is gone fails the commit.
LoginSucceeds(r) ==
  LET i == request[r].id
      read == request[r].read
  IN /\ request[r].op = "login"
     /\ recent' = [recent EXCEPT ![request[r].by] = 0]
     /\ IF Present(i)
          THEN /\ users' = [users EXCEPT
                    ![i].failed = IF read.failed = 0 THEN @ ELSE 0,
                    ![i].locked = IF read.locked = "no" THEN @ ELSE "no"]
               /\ StartSession(r, read.hash, users[i].hash)
          ELSE UNCHANGED <<users, cookie>>
     /\ Ends(r, {})
     /\ UNCHANGED <<hashes, seeds, fails, raced>>

-------------------------------------------------------------------------------
(***************************************************************************)
(* Passwords: the setup wizard, a user's own, an administrator's reset.    *)
(***************************************************************************)
\* The first administrator whose password is the seed, whoever asks.
SetupBegin(r, b) ==
  /\ \E i \in Ids :
       /\ IsAdmin(i) /\ users[i].hash \in seeds
       /\ \A j \in Ids : IsAdmin(j) /\ users[j].hash \in seeds => i <= j
       /\ Begin(r, "setup", b, i)
  /\ UNCHANGED <<users, cookie, recent, hashes, seeds, fails, raced>>

ChangeBegin(r, b, i) ==
  /\ SignedIn(b, i) /\ ~Throttled(b)
  /\ Begin(r, "change", b, i)
  /\ UNCHANGED <<users, cookie, recent, hashes, seeds, fails, raced>>

ChangeFails(b, i) ==
  /\ SignedIn(b, i) /\ ~Throttled(b)
  /\ Miss(b)
  /\ UNCHANGED <<users, cookie, request, hashes, seeds, raced>>

\* The other requests on the account checked a password that is no longer its.
SetPassword(r) ==
  LET i == request[r].id
  IN /\ request[r].op \in {"setup", "change", "reset"}
     /\ NewHash
     /\ IF Present(i)
          THEN /\ users' = [users EXCEPT ![i].hash = hashes']
               /\ IF request[r].op = "reset" THEN UNCHANGED cookie
                  ELSE StartSession(r, hashes', hashes')
               /\ Ends(r, On(i))
          ELSE UNCHANGED <<users, cookie>> /\ Ends(r, {})
     /\ UNCHANGED <<recent, seeds, fails, raced>>

-------------------------------------------------------------------------------
(***************************************************************************)
(* Administrators.                                                         *)
(***************************************************************************)
CreateUser(b, name, admin) ==
  /\ \E a \in Ids : SignedIn(b, a) /\ IsAdmin(a)
  /\ \A i \in Ids : users[i].name # name
  /\ NewHash
  /\ \E i \in Ids :
       /\ ~Present(i) /\ \A j \in Ids : Present(j) => j < i
       /\ \A k \in Ids : k < i => \E j \in Ids : Present(j) /\ k <= j
       /\ users' = [users EXCEPT ![i] =
            [name |-> name, hash |-> hashes', admin |-> admin, failed |-> 0, locked |-> "no"]]
  /\ UNCHANGED <<cookie, request, recent, seeds, fails, raced>>

\* Mutant of MayRemove: the administrators are counted without leaving out the one
\* to be removed.
MayRemoveLast(a, i) == IsAdmin(i) => \E j \in Ids : IsAdmin(j)

\* No one removes themselves, and the last administrator stays.
MayRemove(a, i) == i # a /\ (IsAdmin(i) => \E j \in Ids \ {i} : IsAdmin(j))

AdminBegin(r, b, op, i) ==
  /\ Present(i)
  /\ \E a \in Ids : /\ SignedIn(b, a) /\ IsAdmin(a)
                    /\ op \in Removals => MayRemove(a, i)
  /\ op = "demote" => users[i].admin
  /\ op = "promote" => ~users[i].admin
  /\ Begin(r, op, b, i)
  /\ UNCHANGED <<users, cookie, recent, hashes, seeds, fails, raced>>

Removing == {q \in Requests : request[q].op \in Removals}

\* The commit of a PATCH or a DELETE.
AdminEnd(r) ==
  LET i == request[r].id
      op == request[r].op
  IN /\ op \in {"demote", "promote", "delete"}
     /\ users' = IF ~Present(i) THEN users
                 ELSE CASE op = "delete"  -> [users EXCEPT ![i] = NoUser]
                        [] op = "demote"  -> [users EXCEPT ![i].admin = FALSE]
                        [] op = "promote" -> [users EXCEPT ![i].admin = TRUE]
     /\ raced' = (raced \/ (op \in Removals /\ IsAdmin(i) /\ request[r].overtaken))
     /\ Ends(r, (IF op = "delete" THEN On(i) ELSE {}) \cup
                (IF op \in Removals /\ IsAdmin(i) THEN Removing ELSE {}))
     /\ UNCHANGED <<cookie, recent, hashes, seeds, fails>>

-------------------------------------------------------------------------------
\* The process starts again: requests and the throttle are forgotten, and an
\* empty table is seeded (ensure_default_admin).
Restart ==
  /\ request' = [r \in Requests |-> NoRequest]
  /\ recent' = [b \in Browsers |-> 0]
  /\ IF \E i \in Ids : Present(i) THEN UNCHANGED <<users, hashes, seeds>>
     ELSE /\ NewHash
          /\ users' = [users EXCEPT ![1] = [Seeded EXCEPT !.hash = hashes']]
          /\ seeds' = seeds \cup {hashes'}
  /\ UNCHANGED <<cookie, fails, raced>>

\* A failure leaves its window, a lock ends.
Pass(b) ==
  /\ recent[b] > 0
  /\ recent' = [recent EXCEPT ![b] = @ - 1]
  /\ UNCHANGED <<users, cookie, request, hashes, seeds, fails, raced>>

LockEnds(i) ==
  /\ Present(i) /\ users[i].locked = "yes"
  /\ users' = [users EXCEPT ![i].locked = "over"]
  /\ UNCHANGED <<cookie, request, recent, hashes, seeds, fails, raced>>

Serve(r) ==
  \/ LoginFails(r) \/ LoginSucceeds(r) \/ SetPassword(r) \/ AdminEnd(r)
  \/ \E b \in Browsers :
       \/ SetupBegin(r, b)
       \/ \E i \in Ids : \/ LoginBegin(r, b, i) \/ ChangeBegin(r, b, i)
                         \/ \E op \in Removals \cup {"promote", "reset"} :
                              AdminBegin(r, b, op, i)

Next ==
  \/ \E r \in Requests : Serve(r)
  \/ \E b \in Browsers :
       \/ Logout(b) \/ LoginUnknown(b) \/ Pass(b)
       \/ \E i \in Ids : ChangeFails(b, i)
       \/ \E name \in Names, admin \in BOOLEAN : CreateUser(b, name, admin)
  \/ \E i \in Ids : LockEnds(i)
  \/ Restart

Spec == Init /\ [][Next]_vars

-------------------------------------------------------------------------------
(***************************************************************************)
(* Properties.                                                             *)
(***************************************************************************)
\* Someone can administer the installation, unless two removals overlapped: each
\* was checked against the table, but only before the other was committed.
AdminRemains == raced \/ \E i \in Ids : IsAdmin(i)

\* Who is signed in presented or set the password the account has now, though
\* passwords change and ids are reused; or the account changed under the request
\* that signed them in.
SignedInKnow ==
  \A b \in Browsers, i \in Ids : SignedIn(b, i) =>
    cookie[b].knew = users[i].hash \/ cookie[b].overtaken
===============================================================================

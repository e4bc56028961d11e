------------------------------ MODULE DeskAccounts ------------------------------
(***************************************************************************)
(* Local accounts: the routes that register, sign in, change passwords and *)
(* administer users (backend/app/api.py), and the short transactions of    *)
(* store.py they are made of; roles and tokens are auth.py's.              *)
(*                                                                         *)
(* The routes are synchronous, so requests run in threads of the server,   *)
(* side by side.  No request holds a lock, and what one of its sessions    *)
(* has read another request may have changed when it commits.  `overtaken' *)
(* remembers where that has happened, `raced' and `blurred' which requests *)
(* a change of roles has run into and whose mirror such a request wrote    *)
(* last; the properties say that nothing else can go wrong.                *)
(***************************************************************************)
EXTENDS Naturals, FiniteSets

CONSTANTS Names,        \* usernames; the id is "local:" and the username
          Threads,      \* requests the server works on at once
          LOCKOUT_AFTER,
          HasKey,       \* SMP_API_KEY is configured (SMP_AUTH_JWT_SECRET is not)
          AdminEmails,  \* names whose <name>@local is in SMP_ADMIN_EMAILS
          MaxRequests,  \* bound on the requests ever begun
          Faults        \* "restart": the process dies between two transactions

ASSUME AccountsAssumption == /\ LOCKOUT_AFTER \in Nat \ {0} /\ MaxRequests \in Nat
                             /\ HasKey \in BOOLEAN /\ IsFiniteSet(Names)
                             /\ Faults \subseteq {"restart"}
                             /\ "none" \notin Names /\ AdminEmails \subseteq Names

VARIABLES
  account,    \* LocalAccountRow of a name, or NoAccount
  mirror,     \* UserRow.role of a name, "none" without a row
  secret,     \* the stored JWT secret, 0 for none
  token,      \* the secret the token of a name was signed with, 0 for none
  request,    \* request[t]: what thread t is doing
  begun,      \* number of requests so far
  audited,    \* number of rows in the audit log
  wrong,      \* history: wrong passwords counted since the count was last cleared
  overtaken,  \* history: <<what, name>> where a commit rested on an outdated read
  raced,      \* history: threads whose user's role another request set meanwhile
  blurred     \* history: names whose role was last written by a raced thread

tables == <<account, mirror, secret>>
roleGhosts == <<raced, blurred>>
ghosts == <<wrong, overtaken, roleGhosts>>
vars   == <<tables, token, audited, request, begun, ghosts>>

--------------------------------------------------------------------------------

Roles == {"user", "admin"}
Locks == {"no", "now", "past"}    \* locked_until: NULL, after now, not after now
Rows  == [role : Roles, disabled : BOOLEAN, failed : 0..MaxRequests, locked : Locks]
NoAccount == [role |-> "none", disabled |-> FALSE, failed |-> 0, locked |-> "no"]
Fresh(role) == [NoAccount EXCEPT !.role = role]

Edits    == [op : {"role"}, to : Roles] \cup [op : {"disabled"}, to : {"on", "off"}]
              \cup [op : {"password"}, to : {"reset", "own"}]
Own      == [op |-> "password", to |-> "own"]
Sessions == [op : {"register", "fail", "clear", "me"}, to : {"-"}]
Ops      == Edits \cup Sessions

(* role: the role the route knows of the account.  row: what the session    *)
(* has read.  admins: the enabled admins local_admin_count has counted.     *)
Request(at, op, u, role) ==
  [at |-> at, op |-> op, name |-> u, role |-> role, row |-> NoAccount, admins |-> {}]
Plain(op) == [op |-> op, to |-> "-"]
Done == Request("idle", Plain("me"), "none", "none")

Steps == {"idle", "counting", "enrolling", "inserting", "loading", "guarding",
          "storing", "auditing", "minting", "signing", "mirroring"}

Exists(u) == account[u] # NoAccount

(* The rows local_admin_count counts. *)
EnabledAdmins == {u \in Names : account[u].role = "admin" /\ ~account[u].disabled}

(* An empty database, or one that has been in use by accounts in good order. *)
Init == /\ \/ account = [u \in Names |-> NoAccount]
           \/ /\ account \in [Names -> {NoAccount, Fresh("user"), Fresh("admin")}]
              /\ EnabledAdmins # {}
        /\ mirror = [u \in Names |-> account[u].role]
        /\ secret = IF EnabledAdmins = {} THEN 0 ELSE 1
        /\ token = [u \in Names |-> IF Exists(u) THEN secret ELSE 0]
        /\ audited = 0 /\ begun = 0
        /\ request = [t \in Threads |-> Done]
        /\ wrong = [u \in Names |-> 0] /\ overtaken = {}
        /\ raced = {} /\ blurred = {}

--------------------------------------------------------------------------------
(* What the transactions do. *)

(* An ORM session updates the columns that it changed, and no others. *)
Columns == {"role", "disabled", "failed", "locked"}
Merge(read, set, stamped, current) ==
  [c \in Columns |-> IF set[c] # read[c] \/ c \in stamped THEN set[c] ELSE current[c]]

(* Columns that get a new time, and so change even where they were set.     *)
Stamped(op, row) == {c \in {"disabled", "locked"} :
  IF c = "disabled" THEN op.op = "disabled" /\ op.to = "on"
                    ELSE op.op = "fail" /\ row.failed + 1 >= LOCKOUT_AFTER}

(* record_login_failure.  Mutant: one try too many. *)
FailedLate(row) == LET n == row.failed + 1 IN
               [row EXCEPT !.failed = n, !.locked = IF n > LOCKOUT_AFTER THEN "now" ELSE @]
Failed(row) == LET n == row.failed + 1 IN
               [row EXCEPT !.failed = n, !.locked = IF n >= LOCKOUT_AFTER THEN "now" ELSE @]

(* clear_login_failures, and set_local_password beside the hash. *)
Cleared(row) == [row EXCEPT !.failed = 0, !.locked = "no"]

(* What the session sets in the row it has read. *)
Changed(op, row) == CASE op.op = "role"     -> [row EXCEPT !.role = op.to]
                      [] op.op = "disabled" -> [row EXCEPT !.disabled = (op.to = "on")]
                      [] op.op = "fail"     -> Failed(row)
                      [] OTHER              -> Cleared(row)

(* The role in the mirror afterwards.  Mutant: set_local_role leaves it.    *)
MirroredNot(op, role) == role
Mirrored(op, role) == IF op.op = "role" THEN op.to ELSE role

(* The secret as set_setting stores it.  Mutant: it is not stored. *)
KeptNot(new) == secret
Kept(new) == new

(* Does this change need another enabled admin (set_local_role,             *)
(* set_local_disabled)?  Mutant: only demotions do.                         *)
RemovesRole(op, row) == row.role = "admin" /\ op.op = "role" /\ op.to # "admin"
Removes(op, row) == row.role = "admin" /\ \/ op.op = "role" /\ op.to # "admin"
                                          \/ op.op = "disabled" /\ op.to = "on"

(* What request q has read of the account is not what is there now. *)
FailuresMoved(q) == q.op.op \in {"fail", "clear", "password"} /\
  \/ account[q.name].failed # q.row.failed
  \/ account[q.name].locked # q.row.locked
RolesMoved(q) == q.op.op \in {"role", "disabled"} /\
  \/ account[q.name].role # q.row.role
  \/ account[q.name].disabled # q.row.disabled
  \/ Removes(q.op, q.row) /\ q.admins # EnabledAdmins
Marked(what, u) == overtaken' = overtaken \cup ({what} \X {u})

(* Thread t sets the role of u under the other requests that concern u.     *)
Races(t, u) == raced' = raced \cup {s \in Threads \ {t} : request[s].name = u}
Writes(t, u) == blurred' = IF t \in raced THEN blurred \cup {u} ELSE blurred \ {u}

(* Thread t goes on to the step `at', or is done. *)
Goes(t, at) == request' = [request EXCEPT ![t].at = at]
Ends(t) == request' = [request EXCEPT ![t] = Done]

--------------------------------------------------------------------------------
(* Requests begin. *)

Begins(t, q) == /\ request[t].at = "idle" /\ begun < MaxRequests
                /\ begun' = begun + 1
                /\ request' = [request EXCEPT ![t] = q]
                /\ raced' = raced \ {t}
                /\ UNCHANGED <<tables, token, audited, wrong, overtaken, blurred>>

(* register_local: 409 for a name that is taken. *)
Register(t, u) ==
  /\ ~Exists(u)
  /\ Begins(t, Request("counting", Plain("register"), u, "none"))

(* login_local: 401, 403 or 429 change nothing; otherwise the password is   *)
(* verified, which takes long, and the answer is right or wrong.            *)
Login(t, u) ==
  /\ Exists(u) /\ ~account[u].disabled /\ account[u].locked # "now"
  /\ \E how \in {"fail", "clear"} :
       Begins(t, Request("loading", Plain(how), u, account[u].role))

(* decode_api_token: the signature is that of the stored secret. *)
Verifies(u) == secret # 0 /\ token[u] = secret

(* role_for: what SMP_ADMIN_EMAILS says of <name>@local, then what the      *)
(* account says, never what the token says.                                 *)
RoleFor(u) == IF u \in AdminEmails \/ account[u].role = "admin" THEN "admin" ELSE "user"

(* auth_enforced: without an API key or an account everybody is an admin.   *)
Enforced == HasKey \/ \E u \in Names : Exists(u)

(* require_admin: with the key, with an admin's token, or on an open desk.  *)
Admitted == HasKey \/ ~Enforced \/ \E u \in Names : Verifies(u) /\ RoleFor(u) = "admin"

(* me: the role is read when the token is decoded, and _touch writes it to  *)
(* the mirror.  A disabled account's token still works.                     *)
Me(t, u) ==
  /\ Verifies(u)
  /\ Begins(t, Request("mirroring", Plain("me"), u, RoleFor(u)))

(* admin_set_role, admin_set_disabled, admin_set_password: 404 without the  *)
(* account.                                                                 *)
Edit(t, u) ==
  /\ Admitted /\ Exists(u)
  /\ \E op \in Edits \ {Own} : Begins(t, Request("loading", op, u, "none"))

(* change_own_password: 401 unless the current password is given too.       *)
ChangeOwn(t, u) ==
  /\ Verifies(u) /\ Exists(u)
  /\ Begins(t, Request("loading", Own, u, "none"))

--------------------------------------------------------------------------------
(* And go on, one transaction at a time. *)

(* local_account_count decides the role: the first account is the admin's.  *)
Count(t) ==
  LET none == \A u \in Names : ~Exists(u) IN
  /\ request[t].at = "counting"
  /\ request' = [request EXCEPT ![t].at = "enrolling",
                    ![t].role = IF none THEN "admin" ELSE "user"]
  /\ UNCHANGED <<tables, token, audited, begun, ghosts>>

(* create_local_account: first upsert_user ... *)
Enrol(t) ==
  LET q == request[t] IN
  /\ q.at = "enrolling"
  /\ mirror' = [mirror EXCEPT ![q.name] = q.role]
  /\ Goes(t, "inserting")
  /\ Races(t, q.name) /\ Writes(t, q.name)
  /\ UNCHANGED <<account, secret, token, audited, begun, wrong, overtaken>>

(* ... then the credentials, in a session of their own.  The username is    *)
(* unique: the slower of two registrations gets an error.                   *)
Insert(t) ==
  LET q == request[t] IN
  /\ q.at = "inserting"
  /\ IF Exists(q.name) THEN Ends(t) /\ UNCHANGED <<account, roleGhosts>>
     ELSE /\ account' = [account EXCEPT ![q.name] = Fresh(q.role)]
          /\ Races(t, q.name) /\ Writes(t, q.name)
          /\ Goes(t, "minting")
  /\ UNCHANGED <<mirror, secret, token, audited, begun, wrong, overtaken>>

(* A session reads the row it is going to change. *)
Load(t) ==
  LET q == request[t]  row == account[q.name] IN
  /\ q.at = "loading"
  /\ request' = [request EXCEPT
       ![t].at = IF Removes(q.op, row) THEN "guarding" ELSE "storing",
       ![t].row = row]
  /\ UNCHANGED <<tables, token, audited, begun, ghosts>>

(* local_admin_count, in another session: 422 for the last enabled admin.   *)
Guard(t) ==
  /\ request[t].at = "guarding"
  /\ IF Cardinality(EnabledAdmins) <= 1 THEN Ends(t)
     ELSE request' = [request EXCEPT ![t].at = "storing", ![t].admins = EnabledAdmins]
  /\ UNCHANGED <<tables, token, audited, begun, ghosts>>

(* The session commits; set_local_role writes the mirror with it. *)
Store(t) ==
  LET q == request[t]  u == q.name IN
  /\ q.at = "storing"
  /\ account' = [account EXCEPT ![u] =
                    Merge(q.row, Changed(q.op, q.row), Stamped(q.op, q.row), @)]
  /\ mirror' = [mirror EXCEPT ![u] = Mirrored(q.op, @)]
  /\ wrong' = CASE q.op.op = "fail"                 -> [wrong EXCEPT ![u] = @ + 1]
                [] q.op.op \in {"clear", "password"} -> [wrong EXCEPT ![u] = 0]
                [] OTHER                             -> wrong
  /\ overtaken' = overtaken
       \cup {m \in {"failures", "admins"} \X {u} :
              \/ m[1] = "failures" /\ FailuresMoved(q)
              \/ m[1] = "admins" /\ RolesMoved(q)}
  /\ IF q.op.op = "role" THEN Races(t, u) /\ Writes(t, u) ELSE UNCHANGED roleGhosts
  /\ CASE q.op.op = "fail" \/ q.op = Own -> Ends(t)
       [] q.op.op = "clear"             -> Goes(t, "minting")
       [] OTHER                         -> Goes(t, "auditing")
  /\ UNCHANGED <<secret, token, audited, begun>>

(* write_audit, in a transaction after the change's own. *)
Audit(t) ==
  /\ request[t].at = "auditing"
  /\ audited' = audited + 1
  /\ Ends(t)
  /\ UNCHANGED <<tables, token, begun, ghosts>>

(* mint_api_token: ensure_jwt_secret takes the stored secret ... *)
Mint(t) ==
  /\ request[t].at = "minting"
  /\ IF secret # 0
     THEN token' = [token EXCEPT ![request[t].name] = secret] /\ Goes(t, "mirroring")
     ELSE UNCHANGED token /\ Goes(t, "signing")
  /\ UNCHANGED <<tables, audited, begun, ghosts>>

(* ... or stores one that it has made up.                                   *)
Generate(t) ==
  LET new == CHOOSE n \in 1..(MaxRequests + 1) : n # secret /\ \A u \in Names : n # token[u] IN
  /\ request[t].at = "signing"
  /\ secret' = Kept(new) /\ token' = [token EXCEPT ![request[t].name] = new]
  /\ Goes(t, "mirroring")
  /\ IF secret # 0 THEN Marked("secret", "none") ELSE UNCHANGED overtaken
  /\ UNCHANGED <<account, mirror, audited, begun, wrong, roleGhosts>>

(* upsert_user, with the role that the request has read at its beginning. *)
Mirror(t) ==
  LET q == request[t] IN
  /\ q.at = "mirroring"
  /\ mirror' = [mirror EXCEPT ![q.name] = q.role]
  /\ Writes(t, q.name)
  /\ Ends(t)
  /\ UNCHANGED <<account, secret, token, audited, begun, wrong, overtaken, raced>>

--------------------------------------------------------------------------------

(* Fifteen minutes pass: the lock is over, the count stays. *)
Unlock(u) ==
  /\ account[u].locked = "now"
  /\ account' = [account EXCEPT ![u].locked = "past"]
  /\ UNCHANGED <<mirror, secret, token, audited, request, begun, ghosts>>

(* The process is killed: its requests vanish where they are. *)
Restart ==
  /\ "restart" \in Faults /\ \E t \in Threads : request[t] # Done
  /\ request' = [t \in Threads |-> Done]
  /\ UNCHANGED <<tables, token, audited, begun, ghosts>>

Next == \/ \E t \in Threads, u \in Names : Register(t, u) \/ Login(t, u) \/ Me(t, u)
                                         \/ Edit(t, u) \/ ChangeOwn(t, u)
        \/ \E t \in Threads : \/ Count(t) \/ Enrol(t) \/ Insert(t) \/ Load(t) \/ Guard(t)
                              \/ Store(t) \/ Audit(t) \/ Mint(t) \/ Generate(t) \/ Mirror(t)
        \/ \E u \in Names : Unlock(u)
        \/ Restart

Spec == Init /\ [][Next]_vars

--------------------------------------------------------------------------------

TypeOK == /\ account \in [Names -> Rows \cup {NoAccount}]
          /\ mirror \in [Names -> Roles \cup {"none"}]
          /\ secret \in Nat /\ token \in [Names -> Nat]
          /\ begun \in 0..MaxRequests /\ audited \in 0..MaxRequests
          /\ request \in [Threads -> [at : Steps, op : Ops, name : Names \cup {"none"},
                                      role : Roles \cup {"none"}, row : Rows \cup {NoAccount}, admins : SUBSET Names]]
          /\ wrong \in [Names -> 0..MaxRequests]
          /\ overtaken \subseteq {"failures", "admins", "secret"} \X (Names \cup {"none"})
          /\ raced \subseteq Threads /\ blurred \subseteq Names

(* "Cannot demote the last admin", "Cannot disable the last admin": once    *)
(* there are accounts one of them is an enabled admin, whatever demotions,  *)
(* disablings, registrations and restarts interleave, provided that no two  *)
(* changes of roles overlapped so that a guard's count was outdated when    *)
(* its change was committed.                                                *)
AdminRemains ==
  (\E u \in Names : Exists(u)) => EnabledAdmins # {} \/ \E u \in Names : <<"admins", u>> \in overtaken

(* LOCKOUT_AFTER wrong passwords in a row, and no fewer, have locked an     *)
(* account, and the stored count is theirs, across sign-ins, resets, locks  *)
(* that run out and restarts; unless two countings overlapped.              *)
FailuresCounted == \A u \in Names : <<"failures", u>> \notin overtaken =>
  /\ account[u].failed = wrong[u]
  /\ (account[u].locked # "no") <=> (wrong[u] >= LOCKOUT_AFTER)

(* The mirrored role, by which failed-run alarms find the admins            *)
(* (notifications._admin_user_ids), is the account's, or for a name that    *)
(* SMP_ADMIN_EMAILS lists the one that role_for gives it, although every    *)
(* sign-in writes it back from a read made before the password was checked. *)
(* Only a request during which another one set that user's role may leave   *)
(* an older one behind, and the user's next request that runs undisturbed   *)
(* puts it right.                                                           *)
MirrorAgrees == \A u \in Names :
  Exists(u) /\ u \notin blurred => mirror[u] \in {account[u].role, RoleFor(u)}

(* Every token handed out can be verified: it was signed with the secret    *)
(* that is stored; unless two first sign-ins overlapped and stored two.     *)
TokensVerify == \/ <<"secret", "none">> \in overtaken
                \/ \A u \in Names : token[u] # 0 => Verifies(u)
================================================================================

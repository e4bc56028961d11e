--------------------------- MODULE DeskAccountsProofs ---------------------------
(***************************************************************************)
(* The accounts, for any number of names, threads and requests: an admin   *)
(* remains, tokens can be verified, the mirrored roles are right and so    *)
(* are the counts of wrong passwords.                                      *)
(*                                                                         *)
(* AdminRemains is not inductive: a change that is about to be committed,  *)
(* or a row about to be inserted, must be known to leave an admin.  AInv   *)
(* adds that a change which takes away an admin has counted more than one, *)
(* that a row inserted for a user comes after another account, and that    *)
(* accounts never go.                                                      *)
(***************************************************************************)
EXTENDS DeskAccounts, FiniteSetTheorems, TLAPS

AnyRow   == [role : Roles \cup {"none"}, disabled : BOOLEAN, failed : Nat, locked : Locks]
Requests == [at : Steps, op : Ops, name : Names \cup {"none"}, role : Roles \cup {"none"},
             row : AnyRow, admins : SUBSET Names]

Moved  == \E u \in Names : <<"admins", u>> \in overtaken
InUse  == \E u \in Names : Exists(u)

Shape == /\ account \in [Names -> AnyRow] /\ request \in [Threads -> Requests]
         /\ \A u \in Names : Exists(u) => account[u].role \in Roles

Enrolling(q) == q.at \in {"enrolling", "inserting"} =>
                  /\ q.name \in Names /\ q.role \in Roles
                  /\ q.role = "user" => InUse
Changing(q)  == q.at \in {"loading", "guarding", "storing"} =>
                  q.name \in Names /\ Exists(q.name)
Counting(q)  == q.at = "counting" => q.name \in Names
Guarded(q)   == q.at = "storing" /\ Removes(q.op, q.row) => Cardinality(q.admins) > 1

(* What is known of a request whatever it does. *)
Careful(q) == Counting(q) /\ Enrolling(q) /\ Changing(q) /\ Guarded(q)

AInv == /\ Shape
        /\ \A t \in Threads : Careful(request[t])
        /\ InUse => EnabledAdmins # {} \/ Moved

--------------------------------------------------------------------------------

LEMMA NoAccountIsRow == NoAccount \in AnyRow /\ NoAccount.role = "none"
BY DEF NoAccount, AnyRow, Locks

LEMMA FreshIsRow ==
  ASSUME NEW role \in Roles
  PROVE  /\ Fresh(role) \in AnyRow /\ Fresh(role).role = role
         /\ Fresh(role).disabled = FALSE /\ Fresh(role) # NoAccount
BY DEF Fresh, NoAccount, AnyRow, Roles, Locks

LEMMA OpsHave ==
  /\ Edits \subseteq Ops /\ Own \in Edits
  /\ \A op \in {"register", "fail", "clear", "me"} : Plain(op) \in Ops
  /\ \A op \in Ops : op.op = "role" => op.to \in Roles
<1>1. Edits \subseteq Ops
  BY DEF Ops
<1>2. Own \in Edits
  BY DEF Own, Edits
<1>3. \A op \in {"register", "fail", "clear", "me"} : Plain(op) \in Ops
  BY DEF Plain, Ops, Sessions
<1>4. \A op \in Ops : op.op = "role" => op.to \in Roles
  BY DEF Ops, Edits, Sessions
<1> QED BY <1>1, <1>2, <1>3, <1>4

LEMMA RequestIsRequest ==
  ASSUME NEW at \in Steps, NEW op \in Ops, NEW u \in Names \cup {"none"},
         NEW role \in Roles \cup {"none"}
  PROVE  /\ Request(at, op, u, role) \in Requests
         /\ Request(at, op, u, role).at = at /\ Request(at, op, u, role).name = u
BY NoAccountIsRow DEF Request, Requests

LEMMA DoneIsCareful == Done \in Requests /\ Careful(Done)
<1>1. Done \in Requests /\ Done.at = "idle"
  BY OpsHave, RequestIsRequest DEF Done, Steps
<1> QED BY <1>1 DEF Careful, Counting, Enrolling, Changing, Guarded

(* A session writes what it has changed and leaves the rest. *)
LEMMA MergeIsRow ==
  ASSUME NEW read \in AnyRow, NEW set \in AnyRow, NEW current \in AnyRow, NEW stamped
  PROVE  LET new == Merge(read, set, stamped, current) IN
         /\ new \in AnyRow
         /\ new.role = IF set.role # read.role \/ "role" \in stamped
                       THEN set.role ELSE current.role
         /\ new.disabled = IF set.disabled # read.disabled \/ "disabled" \in stamped
                           THEN set.disabled ELSE current.disabled
BY DEF Merge, Columns, AnyRow

LEMMA ChangedIsRow ==
  ASSUME NEW op \in Ops, NEW row \in AnyRow
  PROVE  /\ Changed(op, row) \in AnyRow
         /\ op.op # "role" => Changed(op, row).role = row.role
         /\ op.op = "role" => Changed(op, row).role = op.to
         /\ op.op # "disabled" => Changed(op, row).disabled = row.disabled
         /\ op.op = "disabled" => Changed(op, row).disabled = (op.to = "on")
<1>1. CASE op.op = "role"
  BY <1>1, OpsHave DEF Changed, AnyRow
<1>2. CASE op.op = "disabled"
  BY <1>2 DEF Changed, AnyRow
<1>3. CASE op.op = "fail"
  <2> DEFINE n == row.failed + 1
             locked == IF n >= LOCKOUT_AFTER THEN "now" ELSE row.locked
  <2>1. /\ n \in Nat /\ locked \in Locks /\ row.role \in Roles \cup {"none"}
        /\ row.disabled \in BOOLEAN
    BY DEF AnyRow, Locks
  <2>2. Failed(row) = [row EXCEPT !.failed = n, !.locked = locked]
    BY DEF Failed
  <2> HIDE DEF n, locked
  <2>3. /\ Failed(row) \in AnyRow
        /\ Failed(row).role = row.role /\ Failed(row).disabled = row.disabled
    BY <2>1, <2>2 DEF AnyRow
  <2> QED BY <1>3, <2>3 DEF Changed
<1>4. CASE op.op \notin {"role", "disabled", "fail"}
  BY <1>4 DEF Changed, Cleared, AnyRow, Locks
<1> QED BY <1>1, <1>2, <1>3, <1>4

--------------------------------------------------------------------------------
(* How steps keep AInv. *)

(* Accounts do not go, the ghosts stay, and the requests stay careful.      *)
LEMMA Preserved ==
  ASSUME AInv, NEW reqs \in [Threads -> Requests], request' = reqs,
         NEW rows \in [Names -> AnyRow], account' = rows,
         \A t \in Threads : Careful(reqs[t]),
         \A u \in Names : Exists(u) => rows[u] # NoAccount,
         \A u \in Names : rows[u] # NoAccount => rows[u].role \in Roles,
         InUse' => EnabledAdmins' # {} \/ Moved'
  PROVE  AInv'
<1>1. Shape'
  BY DEF Shape, Exists
<1>2. \A u \in Names : Exists(u) => Exists(u)'
  BY DEF Exists
<1>3. InUse => InUse'
  BY <1>2 DEF InUse
<1>4. ASSUME NEW t \in Threads
      PROVE  Careful(request[t])'
  <2>1. request'[t] = reqs[t] /\ Careful(reqs[t])
    OBVIOUS
  <2>2. Counting(request[t])' /\ Guarded(request[t])'
    BY <2>1 DEF Careful, Counting, Guarded, Removes
  <2>3. Enrolling(request[t])'
    BY <2>1, <1>3 DEF Careful, Enrolling
  <2>4. Changing(request[t])'
    BY <2>1, <1>2 DEF Careful, Changing
  <2> QED BY <2>2, <2>3, <2>4 DEF Careful
<1> QED BY <1>1, <1>4 DEF AInv

(* One request goes on, or another begins, and the accounts stay.           *)
LEMMA Quiet ==
  ASSUME AInv, NEW t \in Threads, NEW q \in Requests, Careful(q),
         request' = [request EXCEPT ![t] = q],
         UNCHANGED account, overtaken \subseteq overtaken'
  PROVE  AInv'
<1> DEFINE reqs == [request EXCEPT ![t] = q]
<1>1. reqs \in [Threads -> Requests] /\ account \in [Names -> AnyRow]
  BY DEF AInv, Shape
<1>2. \A s \in Threads : Careful(reqs[s])
  <2> TAKE s \in Threads
  <2>1. reqs[s] = IF s = t THEN q ELSE request[s]
    BY DEF AInv, Shape
  <2> QED BY <2>1 DEF AInv
<1>3. \A u \in Names : Exists(u) => account[u] # NoAccount /\ account[u].role \in Roles
  BY DEF AInv, Shape, Exists
<1>4. \A u \in Names : account[u] # NoAccount => account[u].role \in Roles
  BY DEF AInv, Shape, Exists
<1>5. InUse' => EnabledAdmins' # {} \/ Moved'
  <2>1. InUse' = InUse
    BY DEF InUse, Exists
  <2>2. EnabledAdmins' = EnabledAdmins
    BY DEF EnabledAdmins
  <2>3. Moved => Moved'
    BY DEF Moved
  <2> QED BY <2>1, <2>2, <2>3 DEF AInv
<1>6. request' = reqs
  OBVIOUS
<1> HIDE DEF reqs
<1> QED BY <1>1, <1>2, <1>3, <1>4, <1>5, <1>6, Preserved

(* A request that only goes on to a step where nothing is asked of it.      *)
LEMMA GoesOn ==
  ASSUME AInv, NEW t \in Threads, UNCHANGED account, overtaken \subseteq overtaken',
         \/ Ends(t)
         \/ \E at \in {"auditing", "minting", "signing", "mirroring"} : Goes(t, at)
  PROVE  AInv'
<1>1. CASE Ends(t)
  BY <1>1, DoneIsCareful, Quiet DEF Ends
<1>2. CASE \E at \in {"auditing", "minting", "signing", "mirroring"} : Goes(t, at)
  <2>1. PICK at \in {"auditing", "minting", "signing", "mirroring"} : Goes(t, at)
    BY <1>2
  <2> DEFINE q == [request[t] EXCEPT !.at = at]
  <2>2. request[t] \in Requests
    BY DEF AInv, Shape
  <2>3. q \in Requests /\ q.at = at
    BY <2>2 DEF Requests, Steps
  <2>4. request' = [request EXCEPT ![t] = q]
    BY <2>1 DEF Goes
  <2>5. Careful(q)
    BY <2>3 DEF Careful, Counting, Enrolling, Changing, Guarded
  <2> HIDE DEF q
  <2> QED BY <2>3, <2>4, <2>5, Quiet
<1> QED BY <1>1, <1>2

--------------------------------------------------------------------------------
(* The requests begin. *)

LEMMA BeginsCareful ==
  ASSUME AInv, NEW t \in Threads, NEW q \in Requests, Careful(q), Begins(t, q)
  PROVE  AInv'
BY Quiet DEF Begins, tables, ghosts

LEMMA BeginKeeps ==
  ASSUME AInv, NEW t \in Threads, NEW u \in Names,
         Register(t, u) \/ Login(t, u) \/ Me(t, u) \/ Edit(t, u) \/ ChangeOwn(t, u)
  PROVE  AInv'
<1>0. u \in Names \cup {"none"} /\ "none" \in Roles \cup {"none"}
  OBVIOUS
<1>1. CASE Register(t, u)
  <2> DEFINE q == Request("counting", Plain("register"), u, "none")
  <2>1. q \in Requests /\ q.at = "counting" /\ q.name = u
    BY <1>0, OpsHave, RequestIsRequest DEF Steps
  <2>2. Begins(t, q)
    BY <1>1 DEF Register
  <2> HIDE DEF q
  <2>3. Careful(q)
    BY <2>1 DEF Careful, Counting, Enrolling, Changing, Guarded
  <2> QED BY <2>1, <2>2, <2>3, BeginsCareful
<1>2. CASE Me(t, u)
  <2> DEFINE q == Request("mirroring", Plain("me"), u, RoleFor(u))
  <2>1. RoleFor(u) \in Roles \cup {"none"}
    BY DEF RoleFor, Roles
  <2>2. q \in Requests /\ q.at = "mirroring"
    BY <2>1, <1>0, OpsHave, RequestIsRequest DEF Steps
  <2>3. Begins(t, q)
    BY <1>2 DEF Me
  <2> HIDE DEF q
  <2>4. Careful(q)
    BY <2>2 DEF Careful, Counting, Enrolling, Changing, Guarded
  <2> QED BY <2>2, <2>3, <2>4, BeginsCareful
<1>3. ASSUME NEW op \in Ops, NEW role \in Roles \cup {"none"}, Exists(u),
             Begins(t, Request("loading", op, u, role))
      PROVE  AInv'
  <2> DEFINE q == Request("loading", op, u, role)
  <2>1. q \in Requests /\ q.at = "loading" /\ q.name = u
    BY <1>0, RequestIsRequest DEF Steps
  <2>2. Begins(t, q)
    BY <1>3
  <2> HIDE DEF q
  <2>3. Careful(q)
    BY <2>1, <1>3 DEF Careful, Counting, Enrolling, Changing, Guarded
  <2> QED BY <2>1, <2>2, <2>3, BeginsCareful
<1>4. CASE Login(t, u)
  <2>1. account[u].role \in Roles \cup {"none"}
    BY DEF AInv, Shape, AnyRow
  <2>2. PICK how \in {"fail", "clear"} :
          Begins(t, Request("loading", Plain(how), u, account[u].role))
    BY <1>4 DEF Login
  <2>3. Plain(how) \in Ops
    BY OpsHave
  <2>4. Exists(u)
    BY <1>4 DEF Login
  <2> QED BY <2>1, <2>2, <2>3, <2>4, <1>3
<1>5. CASE Edit(t, u)
  <2>1. PICK op \in Edits \ {Own} : Begins(t, Request("loading", op, u, "none"))
    BY <1>5 DEF Edit
  <2>2. op \in Ops /\ Exists(u)
    BY OpsHave, <1>5 DEF Edit
  <2> QED BY <2>1, <2>2, <1>0, <1>3
<1>6. CASE ChangeOwn(t, u)
  <2>1. Own \in Ops /\ Exists(u) /\ Begins(t, Request("loading", Own, u, "none"))
    BY OpsHave, <1>6 DEF ChangeOwn
  <2> QED BY <2>1, <1>0, <1>3
<1> QED BY <1>1, <1>2, <1>4, <1>5, <1>6

--------------------------------------------------------------------------------
(* The transactions. *)

LEMMA CountKeeps ==
  ASSUME AInv, NEW t \in Threads, Count(t)
  PROVE  AInv'
<1> DEFINE none == \A u \in Names : ~Exists(u)
           role == IF none THEN "admin" ELSE "user"
           q == [request[t] EXCEPT !.at = "enrolling", !.role = role]
<1>1. request[t] \in Requests /\ request[t].at = "counting" /\ request[t].name \in Names
  BY DEF Count, AInv, Shape, Careful, Counting
<1>2. /\ q \in Requests /\ q.at = "enrolling" /\ q.role = role
      /\ q.name = request[t].name
  BY <1>1 DEF Requests, Steps, Roles
<1>3. role \in Roles /\ (role = "user" => InUse)
  BY DEF Roles, InUse
<1>4. request' = [request EXCEPT ![t] = q]
  BY DEF Count
<1>5. UNCHANGED account /\ overtaken \subseteq overtaken'
  BY DEF Count, tables, ghosts
<1> HIDE DEF q, role
<1>6. Careful(q)
  BY <1>1, <1>2, <1>3 DEF Careful, Counting, Enrolling, Changing, Guarded
<1> QED BY <1>2, <1>4, <1>5, <1>6, Quiet

LEMMA EnrolKeeps ==
  ASSUME AInv, NEW t \in Threads, Enrol(t)
  PROVE  AInv'
<1> DEFINE q == [request[t] EXCEPT !.at = "inserting"]
<1>1. /\ request[t] \in Requests /\ request[t].name \in Names /\ request[t].role \in Roles
      /\ request[t].role = "user" => InUse
  BY DEF Enrol, AInv, Shape, Careful, Enrolling
<1>2. /\ q \in Requests /\ q.at = "inserting" /\ q.role = request[t].role
      /\ q.name = request[t].name
  BY <1>1 DEF Requests, Steps
<1>3. request' = [request EXCEPT ![t] = q]
  BY DEF Enrol, Goes
<1>4. UNCHANGED account /\ overtaken \subseteq overtaken'
  BY DEF Enrol, Marked
<1> HIDE DEF q
<1>5. Careful(q)
  BY <1>1, <1>2 DEF Careful, Counting, Enrolling, Changing, Guarded
<1> QED BY <1>2, <1>3, <1>4, <1>5, Quiet

(* A row that is inserted for a user comes after an admin's.                *)
LEMMA InsertKeeps ==
  ASSUME AInv, NEW t \in Threads, Insert(t)
  PROVE  AInv'
<1> DEFINE u == request[t].name
           role == request[t].role
           q == [request[t] EXCEPT !.at = "minting"]
           reqs == [request EXCEPT ![t] = q]
           rows == [account EXCEPT ![u] = Fresh(role)]
<1>1. /\ request[t] \in Requests /\ u \in Names /\ role \in Roles
      /\ role = "user" => InUse
  BY DEF Insert, AInv, Shape, Careful, Enrolling
<1>2. CASE Exists(u)
  <2>1. Ends(t) /\ UNCHANGED account /\ overtaken \subseteq overtaken'
    BY <1>2 DEF Insert, ghosts
  <2> QED BY <2>1, GoesOn
<1>3. CASE ~Exists(u)
  <2>1. /\ account' = rows /\ request' = reqs /\ overtaken' = overtaken
    BY <1>3 DEF Insert, Goes, ghosts
  <2>2. q \in Requests /\ q.at = "minting"
    BY <1>1 DEF Requests, Steps
  <2>3. account \in [Names -> AnyRow] /\ request \in [Threads -> Requests]
    BY DEF AInv, Shape
  <2>4. /\ Fresh(role) \in AnyRow /\ Fresh(role).role = role
        /\ Fresh(role).disabled = FALSE /\ Fresh(role) # NoAccount
    BY <1>1, FreshIsRow
  <2> HIDE DEF q, role
  <2>5. rows \in [Names -> AnyRow] /\ reqs \in [Threads -> Requests]
    BY <2>2, <2>3, <2>4
  <2>6. \A v \in Names : rows[v] = IF v = u THEN Fresh(role) ELSE account[v]
    BY <2>3, <1>1
  <2>7. Careful(q)
    BY <2>2 DEF Careful, Counting, Enrolling, Changing, Guarded
  <2>8. \A s \in Threads : reqs[s] = IF s = t THEN q ELSE request[s]
    BY <2>3
  <2>9. \A s \in Threads : Careful(reqs[s])
    BY <2>7, <2>8 DEF AInv
  <2>10. \A v \in Names : Exists(v) => rows[v] # NoAccount
    BY <2>4, <2>6 DEF Exists
  <2>11. \A v \in Names : rows[v] # NoAccount => rows[v].role \in Roles
    BY <1>1, <2>4, <2>6 DEF AInv, Shape, Exists, role
  <2>12. EnabledAdmins' # {} \/ Moved'
    <3>1. CASE role = "admin"
      <4>1. u \in EnabledAdmins'
        BY <3>1, <1>1, <2>1, <2>4, <2>6 DEF EnabledAdmins
      <4> QED BY <4>1
    <3>2. CASE role = "user"
      <4>1. EnabledAdmins # {} \/ Moved
        BY <3>2, <1>1 DEF AInv, role
      <4>2. Moved => Moved'
        BY <2>1 DEF Moved
      <4>3. ASSUME NEW v \in EnabledAdmins
            PROVE  v \in EnabledAdmins'
        <5>1. v \in Names /\ account[v].role = "admin"
          BY DEF EnabledAdmins
        <5>2. account[u].role = "none"
          BY <1>3, NoAccountIsRow DEF Exists
        <5>3. v # u
          BY <5>1, <5>2
        <5> QED BY <5>1, <5>3, <2>1, <2>6 DEF EnabledAdmins
      <4> QED BY <4>1, <4>2, <4>3
    <3> QED BY <1>1, <3>1, <3>2 DEF Roles, role
  <2> HIDE DEF reqs, rows, u
  <2> QED BY <2>1, <2>5, <2>9, <2>10, <2>11, <2>12, Preserved
<1> QED BY <1>2, <1>3

LEMMA LoadKeeps ==
  ASSUME AInv, NEW t \in Threads, Load(t)
  PROVE  AInv'
<1> DEFINE row == account[request[t].name]
           at == IF Removes(request[t].op, row) THEN "guarding" ELSE "storing"
           q == [request[t] EXCEPT !.at = at, !.row = row]
<1>1. request[t] \in Requests /\ request[t].name \in Names /\ Exists(request[t].name)
  BY DEF Load, AInv, Shape, Careful, Changing
<1>2. row \in AnyRow
  BY <1>1 DEF AInv, Shape
<1>3. at \in {"guarding", "storing"} /\ (at = "storing" => ~Removes(request[t].op, row))
  OBVIOUS
<1>4. request' = [request EXCEPT ![t] = q]
  BY DEF Load
<1>5. UNCHANGED account /\ overtaken \subseteq overtaken'
  BY DEF Load, tables, ghosts
<1> HIDE DEF at, row
<1>6. /\ q \in Requests /\ q.at = at /\ q.op = request[t].op /\ q.row = row
      /\ q.name = request[t].name
  BY <1>1, <1>2, <1>3 DEF Requests, Steps
<1> HIDE DEF q
<1>7. Careful(q)
  BY <1>1, <1>3, <1>6 DEF Careful, Counting, Enrolling, Changing, Guarded
<1> QED BY <1>4, <1>5, <1>6, <1>7, Quiet

LEMMA AdminsAreFinite ==
  /\ EnabledAdmins \subseteq Names /\ IsFiniteSet(EnabledAdmins)
  /\ Cardinality(EnabledAdmins) \in Nat
<1>1. EnabledAdmins \subseteq Names
  BY DEF EnabledAdmins
<1> QED BY <1>1, AccountsAssumption, FS_Subset, FS_CardinalityType

LEMMA GuardKeeps ==
  ASSUME AInv, NEW t \in Threads, Guard(t)
  PROVE  AInv'
<1> DEFINE q == [request[t] EXCEPT !.at = "storing", !.admins = EnabledAdmins]
<1>1. UNCHANGED account /\ overtaken \subseteq overtaken'
  BY DEF Guard, tables, ghosts
<1>2. CASE Cardinality(EnabledAdmins) <= 1
  <2>1. Ends(t)
    BY <1>2 DEF Guard
  <2> QED BY <1>1, <2>1, GoesOn
<1>3. CASE ~(Cardinality(EnabledAdmins) <= 1)
  <2>1. request[t] \in Requests /\ request[t].name \in Names /\ Exists(request[t].name)
    BY DEF Guard, AInv, Shape, Careful, Changing
  <2>2. /\ q \in Requests /\ q.at = "storing" /\ q.admins = EnabledAdmins
        /\ q.name = request[t].name
    BY <2>1, AdminsAreFinite DEF Requests, Steps
  <2>3. request' = [request EXCEPT ![t] = q]
    BY <1>3 DEF Guard
  <2>4. Cardinality(EnabledAdmins) > 1
    BY <1>3, AdminsAreFinite
  <2> HIDE DEF q
  <2>5. Careful(q)
    BY <2>1, <2>2, <2>4 DEF Careful, Counting, Enrolling, Changing, Guarded
  <2> QED BY <1>1, <2>2, <2>3, <2>5, Quiet
<1> QED BY <1>2, <1>3

(* A change that was decided on an outdated read is remembered.             *)
LEMMA OvertakenIsMoved ==
  ASSUME NEW t \in Threads, Store(t), request[t].name \in Names
  PROVE  /\ overtaken \subseteq overtaken'
         /\ RolesMoved(request[t]) => Moved'
<1> DEFINE u == request[t].name
           Outdated(m) == \/ m[1] = "failures" /\ FailuresMoved(request[t])
                          \/ m[1] = "admins" /\ RolesMoved(request[t])
           marks == {m \in {"failures", "admins"} \X {u} : Outdated(m)}
<1>1. overtaken' = overtaken \cup marks
  BY DEF Store
<1>2. RolesMoved(request[t]) => <<"admins", u>> \in marks
  <2>1. <<"admins", u>> \in {"failures", "admins"} \X {u}
    OBVIOUS
  <2>2. RolesMoved(request[t]) => Outdated(<<"admins", u>>)
    OBVIOUS
  <2> HIDE DEF Outdated
  <2> QED BY <2>1, <2>2
<1> HIDE DEF marks
<1> QED BY <1>1, <1>2 DEF Moved

(* If what the change was decided on still holds, it leaves an admin: it    *)
(* takes none away, or there was another.                                   *)
LEMMA ChangeLeavesAdmin ==
  ASSUME Shape, NEW q \in Requests, q.at = "storing", q.name \in Names,
         Guarded(q), ~RolesMoved(q), EnabledAdmins # {},
         account' = [account EXCEPT ![q.name] =
                       Merge(q.row, Changed(q.op, q.row), Stamped(q.op, q.row), @)]
  PROVE  EnabledAdmins' # {}
<1> DEFINE u == q.name
           old == account[u]
           set == Changed(q.op, q.row)
           new == Merge(q.row, set, Stamped(q.op, q.row), old)
<1>1. q.row \in AnyRow /\ q.op \in Ops /\ old \in AnyRow
  BY DEF Requests, Shape
<1>2. /\ set \in AnyRow
      /\ q.op.op # "role" => set.role = q.row.role
      /\ q.op.op = "role" => set.role = q.op.to
      /\ q.op.op # "disabled" => set.disabled = q.row.disabled
      /\ q.op.op = "disabled" => set.disabled = (q.op.to = "on")
  BY <1>1, ChangedIsRow
<1>3. /\ "role" \notin Stamped(q.op, q.row)
      /\ "disabled" \in Stamped(q.op, q.row) => q.op.op = "disabled" /\ q.op.to = "on"
  BY DEF Stamped
<1>4. /\ new.role = IF set.role # q.row.role THEN set.role ELSE old.role
      /\ new.disabled = IF set.disabled # q.row.disabled \/ "disabled" \in Stamped(q.op, q.row)
                        THEN set.disabled ELSE old.disabled
  BY <1>1, <1>2, <1>3, MergeIsRow
<1>5. \A v \in Names : account'[v] = IF v = u THEN new ELSE account[v]
  BY DEF Shape
<1> HIDE DEF new, set, old
<1>6. \A v \in EnabledAdmins : v # u => v \in EnabledAdmins'
  BY <1>5 DEF EnabledAdmins
<1>7. CASE q.op.op \in {"role", "disabled"} /\ Removes(q.op, q.row)
  <2>1. q.admins = EnabledAdmins /\ Cardinality(EnabledAdmins) > 1
    BY <1>7 DEF RolesMoved, Guarded
  <2>2. PICK v \in EnabledAdmins : v # u
    <3>1. SUFFICES ASSUME EnabledAdmins \subseteq {u}
                   PROVE  FALSE
      OBVIOUS
    <3>2. IsFiniteSet({u}) /\ Cardinality({u}) = 1
      BY FS_Singleton
    <3>3. Cardinality(EnabledAdmins) <= 1
      BY <3>1, <3>2, FS_Subset
    <3> QED BY <2>1, <3>3, AdminsAreFinite
  <2> QED BY <2>2, <1>6
<1>8. CASE ~(q.op.op \in {"role", "disabled"} /\ Removes(q.op, q.row))
  <2>1. PICK v \in EnabledAdmins : TRUE
    OBVIOUS
  <2>2. CASE v # u
    BY <2>1, <2>2, <1>6
  <2>3. CASE v = u
    <3>1. old.role = "admin" /\ old.disabled = FALSE
      BY <2>1, <2>3, <1>1 DEF EnabledAdmins, old, AnyRow
    <3>2. new.role = "admin" /\ new.disabled = FALSE
      <4>1. CASE q.op.op = "role"
        <5>1. q.row.role = "admin" /\ q.row.disabled = FALSE
          BY <4>1, <3>1 DEF RolesMoved, old
        <5>2. q.op.to = "admin"
          BY <4>1, <5>1, <1>8 DEF Removes
        <5> QED BY <4>1, <5>1, <5>2, <3>1, <1>2, <1>3, <1>4
      <4>2. CASE q.op.op = "disabled"
        <5>1. q.row.role = "admin" /\ q.row.disabled = FALSE
          BY <4>2, <3>1 DEF RolesMoved, old
        <5>2. q.op.to # "on"
          BY <4>2, <5>1, <1>8 DEF Removes
        <5> QED BY <4>2, <5>1, <5>2, <3>1, <1>2, <1>3, <1>4
      <4>3. CASE q.op.op \notin {"role", "disabled"}
        BY <4>3, <3>1, <1>2, <1>3, <1>4
      <4> QED BY <4>1, <4>2, <4>3
    <3>3. u \in EnabledAdmins'
      BY <3>2, <1>5 DEF EnabledAdmins
    <3> QED BY <3>3
  <2> QED BY <2>2, <2>3
<1> QED BY <1>7, <1>8

LEMMA StoreKeeps ==
  ASSUME AInv, NEW t \in Threads, Store(t)
  PROVE  AInv'
<1> DEFINE p == request[t]
           u == p.name
           set == Changed(p.op, p.row)
           new == Merge(p.row, set, Stamped(p.op, p.row), account[u])
           rows == [account EXCEPT ![u] = new]
<1>1. /\ p \in Requests /\ p.at = "storing" /\ u \in Names /\ Exists(u)
      /\ Guarded(p) /\ Shape
  BY DEF Store, AInv, Shape, Careful, Changing
<1>2. p.row \in AnyRow /\ p.op \in Ops /\ account[u] \in AnyRow /\ account[u].role \in Roles
  BY <1>1 DEF Requests, Shape
<1>3. /\ set \in AnyRow /\ (p.op.op # "role" => set.role = p.row.role)
      /\ (p.op.op = "role" => set.role \in Roles)
  BY <1>2, ChangedIsRow, OpsHave
<1>4. "role" \notin Stamped(p.op, p.row)
  BY DEF Stamped
<1>5. new \in AnyRow /\ (new.role = IF set.role # p.row.role THEN set.role ELSE account[u].role)
  BY <1>2, <1>3, <1>4, MergeIsRow
<1>6. new.role \in Roles
  BY <1>2, <1>3, <1>5
<1>7. account' = rows
  BY DEF Store
<1>8. overtaken \subseteq overtaken' /\ (RolesMoved(p) => Moved')
  BY <1>1, OvertakenIsMoved
<1>9. account' = [account EXCEPT ![p.name] =
                    Merge(p.row, Changed(p.op, p.row), Stamped(p.op, p.row), @)]
  BY DEF Store
<1>10. EnabledAdmins' # {} \/ Moved'
  <2>1. EnabledAdmins # {} \/ Moved
    BY <1>1 DEF AInv, InUse
  <2>2. CASE Moved
    BY <2>2, <1>8 DEF Moved
  <2>3. CASE RolesMoved(p)
    BY <2>3, <1>8
  <2>4. CASE EnabledAdmins # {} /\ ~RolesMoved(p)
    <3> HIDE DEF p
    <3> QED BY <2>4, <1>1, <1>9, ChangeLeavesAdmin DEF u
  <2> QED BY <2>1, <2>2, <2>3, <2>4
<1>11. \/ Ends(t)
       \/ \E at \in {"auditing", "minting"} : Goes(t, at)
  BY DEF Store
<1>12. PICK q \in Requests : request' = [request EXCEPT ![t] = q] /\ Careful(q)
  <2>1. CASE Ends(t)
    BY <2>1, DoneIsCareful DEF Ends
  <2>2. CASE \E at \in {"auditing", "minting"} : Goes(t, at)
    <3>1. PICK at \in {"auditing", "minting"} : Goes(t, at)
      BY <2>2
    <3> DEFINE r == [request[t] EXCEPT !.at = at]
    <3>2. r \in Requests /\ r.at = at /\ request' = [request EXCEPT ![t] = r]
      BY <1>1, <3>1 DEF Requests, Steps, Goes
    <3> HIDE DEF r
    <3>3. Careful(r)
      BY <3>2 DEF Careful, Counting, Enrolling, Changing, Guarded
    <3> QED BY <3>2, <3>3
  <2> QED BY <1>11, <2>1, <2>2
<1> DEFINE reqs == [request EXCEPT ![t] = q]
<1>13. reqs \in [Threads -> Requests] /\ (\A s \in Threads : Careful(reqs[s]))
  <2>1. request \in [Threads -> Requests]
    BY DEF AInv, Shape
  <2>2. \A s \in Threads : reqs[s] = IF s = t THEN q ELSE request[s]
    BY <2>1
  <2>3. \A s \in Threads : Careful(reqs[s])
    BY <2>2, <1>12 DEF AInv
  <2> QED BY <2>1, <2>3
<1> HIDE DEF p, set, new
<1>14. account \in [Names -> AnyRow]
  BY <1>1 DEF Shape
<1>15. \A v \in Names : rows[v] = IF v = u THEN new ELSE account[v]
  BY <1>14, <1>1
<1>16. rows \in [Names -> AnyRow]
  BY <1>14, <1>5
<1>17. \A v \in Names : Exists(v) => rows[v] # NoAccount
  <2>1. new # NoAccount
    BY <1>6, NoAccountIsRow DEF Roles
  <2> QED BY <2>1, <1>15 DEF Exists
<1>18. \A v \in Names : rows[v] # NoAccount => rows[v].role \in Roles
  BY <1>15, <1>6, <1>1 DEF Shape, Exists
<1> HIDE DEF reqs, rows
<1>19. request' = reqs
  BY <1>12 DEF reqs
<1> QED BY <1>7, <1>10, <1>13, <1>16, <1>17, <1>18, <1>19, Preserved

LEMMA RestKeeps ==
  ASSUME AInv, NEW t \in Threads, Audit(t) \/ Mint(t) \/ Generate(t) \/ Mirror(t)
  PROVE  AInv'
<1>1. CASE Audit(t)
  BY <1>1, GoesOn DEF Audit, tables, ghosts
<1>2. CASE Mint(t)
  BY <1>2, GoesOn DEF Mint, tables, ghosts
<1>3. CASE Generate(t)
  BY <1>3, GoesOn DEF Generate, Marked
<1>4. CASE Mirror(t)
  BY <1>4, GoesOn DEF Mirror, Marked
<1> QED BY <1>1, <1>2, <1>3, <1>4

LEMMA UnlockKeeps ==
  ASSUME AInv, NEW u \in Names, Unlock(u)
  PROVE  AInv'
<1> DEFINE rows == [account EXCEPT ![u].locked = "past"]
<1>1. account \in [Names -> AnyRow] /\ request \in [Threads -> Requests]
  BY DEF AInv, Shape
<1>2. account' = rows /\ request' = request /\ overtaken' = overtaken
  BY DEF Unlock, ghosts
<1>3. rows \in [Names -> AnyRow]
  BY <1>1 DEF AnyRow, Locks
<1>4. \A v \in Names : rows[v].role = account[v].role /\ rows[v].disabled = account[v].disabled
  BY <1>1 DEF AnyRow
<1>5. account[u] # NoAccount
  BY DEF Unlock, NoAccount
<1>6. \A v \in Names : v # u => rows[v] = account[v]
  BY <1>1
<1>7. account[u].role \in Roles
  BY <1>5 DEF AInv, Shape, Exists
<1>8. rows[u] # NoAccount
  BY <1>4, <1>7, NoAccountIsRow DEF Roles
<1>9. \A v \in Names : Exists(v) => rows[v] # NoAccount
  BY <1>6, <1>8 DEF Exists
<1>10. \A v \in Names : rows[v] # NoAccount => rows[v].role \in Roles
  BY <1>4, <1>6, <1>7 DEF AInv, Shape, Exists
<1>11. \A t \in Threads : Careful(request[t])
  BY DEF AInv
<1>12. InUse
  BY <1>5 DEF InUse, Exists
<1>13. EnabledAdmins' = EnabledAdmins
  BY <1>2, <1>4 DEF EnabledAdmins
<1>14. EnabledAdmins' # {} \/ Moved'
  BY <1>2, <1>12, <1>13 DEF AInv, Moved
<1> HIDE DEF rows
<1> QED BY <1>1, <1>2, <1>3, <1>9, <1>10, <1>11, <1>14, Preserved

LEMMA RestartKeeps ==
  ASSUME AInv, Restart
  PROVE  AInv'
<1> DEFINE reqs == [t \in Threads |-> Done]
<1>1. account' = account /\ request' = reqs /\ overtaken' = overtaken
  BY DEF Restart, tables, ghosts
<1>2. account \in [Names -> AnyRow] /\ reqs \in [Threads -> Requests]
  BY DoneIsCareful DEF AInv, Shape
<1>3. \A t \in Threads : Careful(reqs[t])
  BY DoneIsCareful
<1>4. /\ \A u \in Names : Exists(u) => account[u] # NoAccount
      /\ \A u \in Names : account[u] # NoAccount => account[u].role \in Roles
  BY DEF AInv, Shape, Exists
<1>5. InUse' => EnabledAdmins' # {} \/ Moved'
  BY <1>1 DEF AInv, InUse, Exists, EnabledAdmins, Moved
<1> HIDE DEF reqs
<1> QED BY <1>1, <1>2, <1>3, <1>4, <1>5, Preserved

--------------------------------------------------------------------------------

LEMMA InitHolds == Init => AInv
<1> SUFFICES ASSUME Init PROVE AInv
  OBVIOUS
<1>1. request \in [Threads -> Requests] /\ (\A t \in Threads : request[t] = Done)
  BY DoneIsCareful DEF Init
<1>2. \A t \in Threads : Careful(request[t])
  BY <1>1, DoneIsCareful
<1>3. CASE account = [u \in Names |-> NoAccount]
  <2>1. account \in [Names -> AnyRow]
    BY <1>3, NoAccountIsRow
  <2>2. \A u \in Names : ~Exists(u)
    BY <1>3 DEF Exists
  <2> QED BY <1>1, <1>2, <2>1, <2>2 DEF AInv, Shape, InUse
<1>4. CASE account \in [Names -> {NoAccount, Fresh("user"), Fresh("admin")}] /\ EnabledAdmins # {}
  <2>1. "user" \in Roles /\ "admin" \in Roles
    BY DEF Roles
  <2>2. \A r \in {NoAccount, Fresh("user"), Fresh("admin")} :
          r \in AnyRow /\ (r # NoAccount => r.role \in Roles)
    BY <2>1, FreshIsRow, NoAccountIsRow
  <2>3. account \in [Names -> AnyRow]
    BY <1>4, <2>2
  <2>4. \A u \in Names : Exists(u) => account[u].role \in Roles
    BY <1>4, <2>2 DEF Exists
  <2> QED BY <1>1, <1>2, <1>4, <2>3, <2>4 DEF AInv, Shape
<1> QED BY <1>3, <1>4 DEF Init

LEMMA NextKeeps == AInv /\ [Next]_vars => AInv'
<1> SUFFICES ASSUME AInv, [Next]_vars PROVE AInv'
  OBVIOUS
<1>1. ASSUME NEW t \in Threads, NEW u \in Names,
             Register(t, u) \/ Login(t, u) \/ Me(t, u) \/ Edit(t, u) \/ ChangeOwn(t, u)
      PROVE  AInv'
  BY <1>1, BeginKeeps
<1>2. ASSUME NEW t \in Threads,
             \/ Count(t) \/ Enrol(t) \/ Insert(t) \/ Load(t) \/ Guard(t)
             \/ Store(t) \/ Audit(t) \/ Mint(t) \/ Generate(t) \/ Mirror(t)
      PROVE  AInv'
  BY <1>2, CountKeeps, EnrolKeeps, InsertKeeps, LoadKeeps, GuardKeeps, StoreKeeps, RestKeeps
<1>3. ASSUME NEW u \in Names, Unlock(u)
      PROVE  AInv'
  BY <1>3, UnlockKeeps
<1>4. CASE Restart
  BY <1>4, RestartKeeps
<1>5. CASE UNCHANGED vars
  <2>1. account' = account /\ request' = request /\ overtaken' = overtaken
    BY <1>5 DEF vars, tables, ghosts
  <2> QED BY <2>1 DEF AInv, Shape, Careful, Counting, Enrolling, Changing, Guarded,
                      InUse, Exists, EnabledAdmins, Moved, Removes
<1> QED BY <1>1, <1>2, <1>3, <1>4, <1>5 DEF Next

(* What a count, a guard or a registration in hand is sure of, in every     *)
(* reachable state.                                                         *)
THEOREM Invariance == Spec => []AInv
BY InitHolds, NextKeeps, PTL DEF Spec

(* "Cannot demote the last admin": for any number of accounts and of        *)
(* requests at once, an instance in use keeps an enabled admin, unless two  *)
(* changes of roles overlapped.                                             *)
THEOREM AnAdminRemains == Spec => []AdminRemains
<1>1. AInv => AdminRemains
  BY DEF AInv, AdminRemains, InUse, Moved
<1> QED BY <1>1, Invariance, PTL

--------------------------------------------------------------------------------
(* The tokens. *)

Twice == <<"secret", "none">> \in overtaken
TokenInv == /\ DOMAIN token = Names /\ token = [u \in Names |-> token[u]]
            /\ Twice \/ \A u \in Names : token[u] # 0 => token[u] = secret

LEMMA TokensStay ==
  ASSUME TokenInv, UNCHANGED <<token, secret>>, overtaken \subseteq overtaken'
  PROVE  TokenInv'
BY DEF TokenInv, Twice

LEMMA GenerateSigns ==
  ASSUME TokenInv, NEW t \in Threads, Generate(t)
  PROVE  TokenInv'
<1>1. PICK new : /\ secret' = new
                 /\ token' = [token EXCEPT ![request[t].name] = new]
  BY DEF Generate, Kept
<1>2. IF secret # 0 THEN Marked("secret", "none") ELSE UNCHANGED overtaken
  BY DEF Generate
<1>3. DOMAIN token' = Names /\ token' = [u \in Names |-> token'[u]]
  BY <1>1 DEF TokenInv
<1>4. CASE secret # 0
  BY <1>2, <1>3, <1>4 DEF Marked, TokenInv, Twice
<1>5. CASE secret = 0 /\ Twice
  BY <1>2, <1>3, <1>5 DEF TokenInv, Twice
<1>6. CASE secret = 0 /\ ~Twice
  <2>1. \A u \in Names : token[u] = 0
    BY <1>6 DEF TokenInv
  <2>2. \A u \in Names : token'[u] # 0 => token'[u] = secret'
    BY <2>1, <1>1 DEF TokenInv
  <2> QED BY <1>3, <2>2 DEF TokenInv
<1> QED BY <1>4, <1>5, <1>6

LEMMA TokensStep ==
  ASSUME TokenInv, [Next]_vars
  PROVE  TokenInv'
<1>1. ASSUME NEW t \in Threads, Mint(t)
      PROVE  TokenInv'
  <2>1. CASE secret # 0
    <3>1. /\ token' = [token EXCEPT ![request[t].name] = secret]
          /\ secret' = secret /\ overtaken' = overtaken
      BY <2>1, <1>1 DEF Mint, tables, ghosts
    <3> QED BY <3>1 DEF TokenInv, Twice
  <2>2. CASE secret = 0
    BY <2>2, <1>1, TokensStay DEF Mint, tables, ghosts
  <2> QED BY <2>1, <2>2
<1>2. ASSUME NEW t \in Threads, Store(t)
      PROVE  TokenInv'
  BY <1>2, TokensStay DEF Store
<1>3. ASSUME NEW t \in Threads,
             \/ Count(t) \/ Enrol(t) \/ Insert(t) \/ Load(t) \/ Guard(t)
             \/ Audit(t) \/ Mirror(t)
      PROVE  TokenInv'
  <2>1. UNCHANGED <<token, secret>> /\ overtaken \subseteq overtaken'
    BY <1>3 DEF Count, Enrol, Insert, Load, Guard, Audit, Mirror, Marked, tables, ghosts
  <2> QED BY <2>1, TokensStay
<1>4. ASSUME NEW t \in Threads, NEW u \in Names,
             Register(t, u) \/ Login(t, u) \/ Me(t, u) \/ Edit(t, u) \/ ChangeOwn(t, u)
      PROVE  TokenInv'
  BY <1>4, TokensStay DEF Register, Login, Me, Edit, ChangeOwn, Begins, tables, ghosts
<1>5. CASE UNCHANGED vars \/ Restart \/ \E u \in Names : Unlock(u)
  BY <1>5, TokensStay DEF vars, Restart, Unlock, tables, ghosts
<1> QED BY <1>1, <1>2, <1>3, <1>4, <1>5, GenerateSigns DEF Next

(* Whoever holds a token is let in (mint_api_token, ensure_jwt_secret and   *)
(* decode_api_token), for any number of accounts, unless two first sign-ins *)
(* overlapped and made up a secret each.                                    *)
THEOREM TokensHold == Spec => []TokensVerify
<1>1. Init => TokenInv
  <2> SUFFICES ASSUME Init PROVE TokenInv
    OBVIOUS
  <2>1. token = [u \in Names |-> IF Exists(u) THEN secret ELSE 0]
    BY DEF Init
  <2> QED BY <2>1 DEF TokenInv
<1>2. TokenInv => TokensVerify
  BY DEF TokenInv, TokensVerify, Twice, Verifies
<1> QED BY <1>1, <1>2, TokensStep, PTL DEF Spec

--------------------------------------------------------------------------------
(* The mirror: who signs in has an account, and a request that no other has *)
(* run into knows the role of its user as it is now.                        *)

Signing(q)  == q.at \in {"minting", "signing", "mirroring"} =>
                 q.name \in Names /\ Exists(q.name)

(* A role that u may be mirrored with while its account is `row'.           *)
Right(u, row, role) ==
  role \in {row.role, IF u \in AdminEmails \/ row.role = "admin" THEN "admin" ELSE "user"}

(* What request q knows of its user's account and mirror as long as it is   *)
(* not raced: the name that it registers is free, and mirrored; a sign-in   *)
(* has the role; a change of roles starts from the role that is stored.     *)
Knows(q, row, mirrored) ==
  /\ q.at \in {"counting", "enrolling", "inserting"} => row = NoAccount
  /\ q.at = "inserting" => mirrored = q.role
  /\ q.at \in {"minting", "signing", "mirroring"} => Right(q.name, row, q.role)
  /\ q.at \in {"loading", "guarding", "storing"} /\ q.op.op = "clear" =>
       Right(q.name, row, q.role)
  /\ q.at \in {"guarding", "storing"} /\ q.op.op = "role" => q.row.role = row.role

MirrorInv == /\ mirror = [u \in Names |-> mirror[u]]
             /\ token = [u \in Names |-> token[u]]
             /\ \A u \in Names : token[u] # 0 => Exists(u)
             /\ \A t \in Threads : Signing(request[t])
             /\ \A t \in Threads : request[t].at = "idle" \/ request[t].name \in Names
             /\ \A t \in Threads :
                  \/ t \in raced
                  \/ Knows(request[t], account[request[t].name], mirror[request[t].name])
             /\ \A u \in Names :
                  u \in blurred \/ ~Exists(u) \/ Right(u, account[u], mirror[u])

(* What a request knows it goes on to know while the role stays.            *)
LEMMA KnowsStays ==
  ASSUME NEW q, NEW row, NEW new, NEW m, Knows(q, row, m), new.role = row.role,
         new = NoAccount <=> row = NoAccount
  PROVE  Knows(q, new, m)
BY DEF Knows, Right

(* A step after which every request knows what it should, and every mirror  *)
(* that is not blurred is right.                                            *)
LEMMA MirrorKept ==
  ASSUME MirrorInv, NEW reqs, request' = reqs, NEW rows, account' = rows,
         NEW m, mirror' = m, m = [u \in Names |-> m[u]],
         token' = [u \in Names |-> token'[u]],
         \A u \in Names : token'[u] # 0 => rows[u] # NoAccount,
         \A t \in Threads : reqs[t].at \in {"minting", "signing", "mirroring"} =>
           reqs[t].name \in Names /\ rows[reqs[t].name] # NoAccount,
         \A t \in Threads : reqs[t].at = "idle" \/ reqs[t].name \in Names,
         \A t \in Threads :
           t \in raced' \/ Knows(reqs[t], rows[reqs[t].name], m[reqs[t].name]),
         \A u \in Names :
           u \in blurred' \/ rows[u] = NoAccount \/ Right(u, rows[u], m[u])
  PROVE  MirrorInv'
<1>1. \A t \in Threads : Signing(request[t])'
  BY DEF Signing, Exists
<1>2. \A u \in Names : token'[u] # 0 => Exists(u)'
  BY DEF Exists
<1>3. \A t \in Threads :
        (t \in raced \/ Knows(request[t], account[request[t].name], mirror[request[t].name]))'
  BY DEF Knows, Right
<1>4. \A u \in Names : (u \in blurred \/ ~Exists(u) \/ Right(u, account[u], mirror[u]))'
  BY DEF Exists, Right
<1> QED BY <1>1, <1>2, <1>3, <1>4 DEF MirrorInv

(* One request goes on, or begins, and neither accounts nor mirror change.  *)
LEMMA MirrorQuiet ==
  ASSUME AInv, MirrorInv, NEW t \in Threads, NEW q,
         q.at \in {"minting", "signing", "mirroring"} => q.name \in Names /\ Exists(q.name),
         q.at = "idle" \/ q.name \in Names, request' = [request EXCEPT ![t] = q],
         UNCHANGED <<account, mirror, blurred>>,
         \A s \in Threads : s # t => (s \in raced => s \in raced'),
         t \in raced' \/ Knows(q, account[q.name], mirror[q.name]),
         token' = [u \in Names |-> token'[u]],
         \A u \in Names : token'[u] # 0 => Exists(u)
  PROVE  MirrorInv'
<1> DEFINE reqs == [request EXCEPT ![t] = q]
<1>1. \A s \in Threads : reqs[s] = IF s = t THEN q ELSE request[s]
  BY DEF AInv, Shape
<1>2. request' = reqs
  OBVIOUS
<1> HIDE DEF reqs
<1>3. \A s \in Threads : reqs[s].at \in {"minting", "signing", "mirroring"} =>
        reqs[s].name \in Names /\ account[reqs[s].name] # NoAccount
  BY <1>1 DEF MirrorInv, Signing, Exists
<1>4. \A s \in Threads :
        s \in raced' \/ Knows(reqs[s], account[reqs[s].name], mirror[reqs[s].name])
  BY <1>1 DEF MirrorInv
<1>5. \A u \in Names :
        u \in blurred' \/ account[u] = NoAccount \/ Right(u, account[u], mirror[u])
  BY DEF MirrorInv, Exists
<1>6. \A u \in Names : token'[u] # 0 => account[u] # NoAccount
  BY DEF Exists
<1>7. mirror = [u \in Names |-> mirror[u]]
  BY DEF MirrorInv
<1>8. \A s \in Threads : reqs[s].at = "idle" \/ reqs[s].name \in Names
  BY <1>1 DEF MirrorInv
<1> QED BY <1>2, <1>3, <1>4, <1>5, <1>6, <1>7, <1>8, MirrorKept

LEMMA EndsIsQuiet ==
  /\ Done.at = "idle"
  /\ \A row, m : Knows(Done, row, m)
BY DEF Done, Request, Knows

(* A request begins, with a role that is read then.                         *)
LEMMA MirrorBegins ==
  ASSUME AInv, MirrorInv, NEW t \in Threads, NEW u \in Names,
         Register(t, u) \/ Login(t, u) \/ Me(t, u) \/ Edit(t, u) \/ ChangeOwn(t, u)
  PROVE  MirrorInv'
<1>1. ASSUME NEW at \in {"counting", "loading", "mirroring"}, NEW op, NEW role,
             at = "mirroring" => Exists(u), at = "counting" => ~Exists(u),
             at = "mirroring" \/ op.op = "clear" => Right(u, account[u], role),
             Begins(t, Request(at, op, u, role))
      PROVE  MirrorInv'
  <2> DEFINE q == Request(at, op, u, role)
  <2>1. q.at = at /\ q.name = u /\ q.op = op /\ q.role = role
    BY DEF Request
  <2>2. /\ request' = [request EXCEPT ![t] = q] /\ raced' = raced \ {t}
        /\ UNCHANGED <<account, mirror, token, blurred>>
    BY <1>1 DEF Begins, tables
  <2> HIDE DEF q
  <2>3. Knows(q, account[q.name], mirror[q.name])
    BY <2>1, <1>1 DEF Knows, Exists
  <2>4. token' = [v \in Names |-> token'[v]] /\ \A v \in Names : token'[v] # 0 => Exists(v)
    BY <2>2 DEF MirrorInv
  <2>5. \A s \in Threads : s # t => (s \in raced => s \in raced')
    BY <2>2
  <2>6. q.at \in {"minting", "signing", "mirroring"} => q.name \in Names /\ Exists(q.name)
    BY <2>1, <1>1
  <2>7. q.name \in Names
    BY <2>1
  <2> QED BY <2>2, <2>3, <2>4, <2>5, <2>6, <2>7, MirrorQuiet
<1>2. CASE Me(t, u)
  <2>1. Exists(u)
    BY <1>2 DEF Me, Verifies, MirrorInv
  <2>2. Right(u, account[u], RoleFor(u))
    BY DEF Right, RoleFor
  <2> QED BY <1>1, <1>2, <2>1, <2>2 DEF Me
<1>3. CASE Register(t, u)
  <2>1. Plain("register").op # "clear"
    BY DEF Plain
  <2> QED BY <1>1, <1>3, <2>1 DEF Register
<1>4. CASE Login(t, u)
  <2>1. Right(u, account[u], account[u].role)
    BY DEF Right
  <2>2. PICK how \in {"fail", "clear"} :
          Begins(t, Request("loading", Plain(how), u, account[u].role))
    BY <1>4 DEF Login
  <2> QED BY <1>1, <2>1, <2>2
<1>5. CASE Edit(t, u) \/ ChangeOwn(t, u)
  <2>1. PICK op \in Edits : Begins(t, Request("loading", op, u, "none"))
    BY <1>5, OpsHave DEF Edit, ChangeOwn
  <2>2. op.op # "clear"
    BY DEF Edits
  <2> QED BY <1>1, <2>1, <2>2
<1> QED BY <1>2, <1>3, <1>4, <1>5

LEMMA MirrorLooks ==
  ASSUME AInv, MirrorInv, NEW t \in Threads, Count(t) \/ Load(t) \/ Guard(t) \/ Audit(t)
  PROVE  MirrorInv'
<1> DEFINE p == request[t]
           Known(q) == Knows(q, account[q.name], mirror[q.name])
<1>0. /\ p \in Requests /\ (t \in raced \/ Known(p))
      /\ p.at = "idle" \/ p.name \in Names
  BY DEF AInv, Shape, MirrorInv
<1>1. UNCHANGED <<account, mirror, token, blurred, raced>>
  BY DEF Count, Load, Guard, Audit, tables, ghosts, roleGhosts
<1>2. PICK q : /\ request' = [request EXCEPT ![t] = q]
               /\ q.at \notin {"minting", "signing", "mirroring"}
               /\ t \in raced \/ Known(q)
               /\ q.at = "idle" \/ q.name \in Names
  <2>1. CASE Count(t)
    <3> DEFINE role == IF \A u \in Names : ~Exists(u) THEN "admin" ELSE "user"
               q == [p EXCEPT !.at = "enrolling", !.role = role]
    <3>1. request' = [request EXCEPT ![t] = q] /\ p.at = "counting"
      BY <2>1 DEF Count
    <3> HIDE DEF role
    <3>2. q.at = "enrolling" /\ q.name = p.name
      BY <1>0 DEF Requests
    <3> HIDE DEF q, p
    <3>3. t \in raced \/ Known(q)
      BY <1>0, <3>1, <3>2 DEF Knows
    <3> QED BY <1>0, <3>1, <3>2, <3>3
  <2>2. CASE Load(t)
    <3> DEFINE row == account[p.name]
               at == IF Removes(p.op, row) THEN "guarding" ELSE "storing"
               q == [p EXCEPT !.at = at, !.row = row]
    <3>1. request' = [request EXCEPT ![t] = q] /\ p.at = "loading"
      BY <2>2 DEF Load
    <3>2. at \in {"guarding", "storing"}
      OBVIOUS
    <3> HIDE DEF at
    <3>3. q.at = at /\ q.name = p.name /\ q.op = p.op /\ q.role = p.role /\ q.row = row
      BY <1>0 DEF Requests
    <3> HIDE DEF q
    <3>4. t \in raced \/ Known(q)
      BY <1>0, <3>1, <3>2, <3>3 DEF Knows
    <3> QED BY <1>0, <3>1, <3>2, <3>3, <3>4
  <2>3. CASE Guard(t) /\ ~Ends(t)
    <3> DEFINE q == [p EXCEPT !.at = "storing", !.admins = EnabledAdmins]
    <3>1. request' = [request EXCEPT ![t] = q] /\ p.at = "guarding"
      BY <2>3 DEF Guard
    <3>2. q.at = "storing" /\ q.name = p.name /\ q.op = p.op /\ q.role = p.role /\ q.row = p.row
      BY <1>0 DEF Requests
    <3> HIDE DEF q, p
    <3>3. t \in raced \/ Known(q)
      BY <1>0, <3>1, <3>2 DEF Knows
    <3> QED BY <1>0, <3>1, <3>2, <3>3
  <2>4. CASE Ends(t)
    BY <2>4, EndsIsQuiet DEF Ends
  <2> QED BY <2>1, <2>2, <2>3, <2>4 DEF Audit
<1>3. token' = [v \in Names |-> token'[v]] /\ \A v \in Names : token'[v] # 0 => Exists(v)
  BY <1>1 DEF MirrorInv
<1>4. t \in raced' \/ Knows(q, account[q.name], mirror[q.name])
  BY <1>1, <1>2
<1>5. \A s \in Threads : s # t => (s \in raced => s \in raced')
  BY <1>1
<1> QED BY <1>1, <1>2, <1>3, <1>4, <1>5, MirrorQuiet

LEMMA MirrorSigns ==
  ASSUME AInv, MirrorInv, NEW t \in Threads, Mint(t) \/ Generate(t)
  PROVE  MirrorInv'
<1> DEFINE p == request[t]
<1>0. /\ p \in Requests /\ p.at \in {"minting", "signing"}
      /\ p.name \in Names /\ Exists(p.name)
      /\ t \in raced \/ Knows(p, account[p.name], mirror[p.name])
  BY DEF AInv, Shape, MirrorInv, Signing, Mint, Generate
<1>1. UNCHANGED <<account, mirror, blurred, raced>>
  BY DEF Mint, Generate, tables, ghosts, roleGhosts
<1>2. PICK at \in {"signing", "mirroring"} : Goes(t, at)
  BY DEF Mint, Generate
<1> DEFINE q == [p EXCEPT !.at = at]
<1>3. /\ request' = [request EXCEPT ![t] = q] /\ q.at = at /\ q.name = p.name
      /\ q.role = p.role
  BY <1>0, <1>2 DEF Goes, Requests
<1>5. token' = token \/ \E new : token' = [token EXCEPT ![p.name] = new]
  BY DEF Mint, Generate
<1>6. token' = [v \in Names |-> token'[v]] /\ \A v \in Names : token'[v] # 0 => Exists(v)
  BY <1>0, <1>5 DEF MirrorInv
<1> HIDE DEF q, p
<1>7. t \in raced' \/ Knows(q, account[q.name], mirror[q.name])
  BY <1>0, <1>1, <1>3 DEF Knows
<1>8. q.at \in {"minting", "signing", "mirroring"} => q.name \in Names /\ Exists(q.name)
  BY <1>0, <1>3
<1>9. \A s \in Threads : s # t => (s \in raced => s \in raced')
  BY <1>1
<1> QED BY <1>1, <1>3, <1>6, <1>7, <1>8, <1>9, MirrorQuiet

(* One request goes on and writes the account or the mirror of its user;    *)
(* the other requests on that user are raced, or know as much as before.    *)
Moving(t, q, u, rows, m) ==
  /\ request' = [request EXCEPT ![t] = q]
  /\ q.at = "idle" \/ q.name = u
  /\ account' = rows /\ mirror' = m /\ token' = token /\ m = [v \in Names |-> m[v]]
  /\ \A v \in Names : v # u => m[v] = mirror[v] /\ rows[v] = account[v]
  /\ \A v \in Names : v # u /\ v \in blurred => v \in blurred'
  /\ rows[u] # NoAccount \/ account[u] = NoAccount
  /\ q.at \in {"minting", "signing", "mirroring"} => q.name = u /\ rows[u] # NoAccount
  /\ raced \subseteq raced'
  /\ \A s \in Threads : s # t /\ request[s].name = u =>
       s \in raced' \/ Knows(request[s], rows[u], m[u])
  /\ t \in raced' \/ Knows(q, rows[q.name], m[q.name])
  /\ u \in blurred' \/ rows[u] = NoAccount \/ Right(u, rows[u], m[u])

LEMMA MirrorMoves ==
  ASSUME AInv, MirrorInv, NEW t \in Threads, NEW q, NEW u \in Names, NEW rows, NEW m,
         Moving(t, q, u, rows, m)
  PROVE  MirrorInv'
<1> USE DEF Moving
<1> DEFINE reqs == [request EXCEPT ![t] = q]
<1>1. \A s \in Threads : reqs[s] = IF s = t THEN q ELSE request[s]
  BY DEF AInv, Shape
<1>2. request' = reqs
  OBVIOUS
<1> HIDE DEF reqs
<1>3. \A v \in Names : account[v] # NoAccount => rows[v] # NoAccount
  BY DEF Exists
<1>4. \A s \in Threads : reqs[s].at \in {"minting", "signing", "mirroring"} =>
        reqs[s].name \in Names /\ rows[reqs[s].name] # NoAccount
  BY <1>1, <1>3 DEF MirrorInv, Signing, Exists
<1>5. ASSUME NEW s \in Threads
      PROVE  s \in raced' \/ Knows(reqs[s], rows[reqs[s].name], m[reqs[s].name])
  <2>1. CASE s = t
    BY <1>1, <2>1
  <2>2. CASE s # t /\ request[s].name = u
    BY <1>1, <2>2
  <2>3. CASE s # t /\ request[s].name # u /\ request[s].name \in Names
    BY <1>1, <2>3 DEF MirrorInv
  <2>4. CASE s # t /\ request[s].at = "idle"
    BY <1>1, <2>4 DEF Knows
  <2> QED BY <2>1, <2>2, <2>3, <2>4 DEF MirrorInv
<1>6. \A v \in Names : v \in blurred' \/ rows[v] = NoAccount \/ Right(v, rows[v], m[v])
  BY DEF MirrorInv, Exists
<1>7. token' = [v \in Names |-> token'[v]] /\ \A v \in Names : token'[v] # 0 => rows[v] # NoAccount
  BY <1>3 DEF MirrorInv, Exists
<1>8. \A s \in Threads : reqs[s].at = "idle" \/ reqs[s].name \in Names
  BY <1>1 DEF MirrorInv
<1> QED BY <1>2, <1>4, <1>5, <1>6, <1>7, <1>8, MirrorKept

(* The other requests on u are raced when one of them sets its role.        *)
LEMMA OthersRaced ==
  ASSUME NEW t \in Threads, NEW u, Races(t, u)
  PROVE  /\ raced \subseteq raced'
         /\ \A s \in Threads : s # t /\ request[s].name = u => s \in raced'
         /\ t \notin raced => t \notin raced'
BY DEF Races

(* What is written by a request that is not raced.                          *)
LEMMA WrittenClearly ==
  ASSUME NEW t \in Threads, NEW u, Writes(t, u)
  PROVE  /\ t \in raced => u \in blurred'
         /\ \A v \in Names : v # u /\ v \in blurred => v \in blurred'
BY DEF Writes

LEMMA MirrorEnrols ==
  ASSUME AInv, MirrorInv, NEW t \in Threads, Enrol(t)
  PROVE  MirrorInv'
<1>0. PICK u \in Names : u = request[t].name
  BY DEF Enrol, AInv, Careful, Enrolling
<1> DEFINE q == [request[t] EXCEPT !.at = "inserting"]
           m == [mirror EXCEPT ![u] = request[t].role]
<1>1. /\ request[t] \in Requests /\ request[t].at = "enrolling"
      /\ t \in raced \/ Knows(request[t], account[u], mirror[u])
  BY <1>0 DEF AInv, Shape, MirrorInv, Enrol
<1>2. /\ q.at = "inserting" /\ q.name = u /\ q.role = request[t].role
      /\ request' = [request EXCEPT ![t] = q]
  BY <1>0, <1>1 DEF Enrol, Goes, Requests
<1>3. Races(t, u) /\ Writes(t, u) /\ mirror' = m /\ UNCHANGED <<account, token>>
  BY <1>0 DEF Enrol
<1>4. /\ m = [v \in Names |-> m[v]] /\ m[u] = request[t].role
      /\ \A v \in Names : v # u => m[v] = mirror[v]
  BY DEF MirrorInv
<1> HIDE DEF q, m
<1>5. t \in raced \/ account[u] = NoAccount
  BY <1>1 DEF Knows
<1>6. t \in raced' \/ Knows(q, account[q.name], m[q.name])
  BY <1>2, <1>3, <1>4, <1>5, OthersRaced DEF Knows
<1>7. u \in blurred' \/ account[u] = NoAccount \/ Right(u, account[u], m[u])
  BY <1>3, <1>5, WrittenClearly
<1>8. /\ raced \subseteq raced'
      /\ \A s \in Threads : s # t /\ request[s].name = u =>
           s \in raced' \/ Knows(request[s], account[u], m[u])
  BY <1>3, OthersRaced
<1>9. \A v \in Names : v # u /\ v \in blurred => v \in blurred'
  BY <1>3, WrittenClearly
<1>10. \A v \in Names : v # u => m[v] = mirror[v] /\ account[v] = account[v]
  BY <1>4
<1>11. /\ q.at = "idle" \/ q.name = u
       /\ q.at \in {"minting", "signing", "mirroring"} => q.name = u /\ account[u] # NoAccount
       /\ account' = account /\ token' = token
       /\ account[u] # NoAccount \/ account[u] = NoAccount
  BY <1>2, <1>3
<1>12. Moving(t, q, u, account, m)
  BY <1>2, <1>3, <1>4, <1>6, <1>7, <1>8, <1>9, <1>10, <1>11 DEF Moving
<1> QED BY <1>12, MirrorMoves

LEMMA MirrorInserts ==
  ASSUME AInv, MirrorInv, NEW t \in Threads, Insert(t)
  PROVE  MirrorInv'
<1>0. PICK u \in Names : u = request[t].name
  BY DEF Insert, AInv, Careful, Enrolling
<1> DEFINE q == [request[t] EXCEPT !.at = "minting"]
           rows == [account EXCEPT ![u] = Fresh(request[t].role)]
<1>1. /\ request[t] \in Requests /\ request[t].at = "inserting" /\ request[t].role \in Roles
      /\ t \in raced \/ Knows(request[t], account[u], mirror[u])
      /\ account \in [Names -> AnyRow]
  BY <1>0 DEF Insert, AInv, Shape, Careful, Enrolling, MirrorInv
<1>2. UNCHANGED <<mirror, token>>
  BY DEF Insert
<1>3. CASE Exists(u)
  <2>1. Ends(t) /\ UNCHANGED <<account, raced, blurred>>
    BY <1>0, <1>3 DEF Insert, roleGhosts
  <2>2. token' = [v \in Names |-> token'[v]] /\ \A v \in Names : token'[v] # 0 => Exists(v)
    BY <1>2 DEF MirrorInv
  <2>3. request' = [request EXCEPT ![t] = Done]
    BY <2>1 DEF Ends
  <2> QED BY <2>1, <2>2, <2>3, <1>2, EndsIsQuiet, MirrorQuiet
<1>4. CASE ~Exists(u)
  <2>1. /\ account' = rows /\ Races(t, u) /\ Writes(t, u)
        /\ request' = [request EXCEPT ![t] = q]
        /\ q.at = "minting" /\ q.name = u /\ q.role = request[t].role
    BY <1>0, <1>1, <1>4 DEF Insert, Goes, Requests
  <2>2. rows[u].role = request[t].role /\ rows[u] # NoAccount
    BY <1>1, FreshIsRow
  <2>3. \A v \in Names : v # u => rows[v] = account[v]
    BY <1>1
  <2> HIDE DEF q, rows
  <2>4. Right(u, rows[u], request[t].role)
    BY <2>2 DEF Right
  <2>5. Knows(q, rows[u], mirror[u])
    BY <2>1, <2>4 DEF Knows
  <2>6. u \in blurred' \/ Right(u, rows[u], mirror[u])
    <3>1. CASE t \in raced
      BY <2>1, <3>1, WrittenClearly
    <3>2. CASE Knows(request[t], account[u], mirror[u])
      BY <3>2, <1>1, <2>4 DEF Knows
    <3> QED BY <1>1, <3>1, <3>2
  <2>7. mirror = [v \in Names |-> mirror[v]]
    BY DEF MirrorInv
  <2>8. /\ raced \subseteq raced'
        /\ \A s \in Threads : s # t /\ request[s].name = u =>
             s \in raced' \/ Knows(request[s], rows[u], mirror[u])
    BY <2>1, OthersRaced
  <2>9. \A v \in Names : v # u /\ v \in blurred => v \in blurred'
    BY <2>1, WrittenClearly
  <2>10. \A v \in Names : v # u => mirror[v] = mirror[v] /\ rows[v] = account[v]
    BY <2>3
  <2>11. /\ q.at = "idle" \/ q.name = u
         /\ q.at \in {"minting", "signing", "mirroring"} => q.name = u /\ rows[u] # NoAccount
         /\ mirror' = mirror /\ token' = token
         /\ rows[u] # NoAccount \/ account[u] = NoAccount
         /\ t \in raced' \/ Knows(q, rows[q.name], mirror[q.name])
         /\ u \in blurred' \/ rows[u] = NoAccount \/ Right(u, rows[u], mirror[u])
    BY <1>2, <2>1, <2>2, <2>5, <2>6
  <2>12. Moving(t, q, u, rows, mirror)
    BY <2>1, <2>7, <2>8, <2>9, <2>10, <2>11 DEF Moving
  <2> QED BY <2>12, MirrorMoves
<1> QED BY <1>3, <1>4

(* A session that changes another column than the role leaves the mirror.   *)
LEMMA MirrorStores ==
  ASSUME AInv, MirrorInv, NEW t \in Threads, Store(t)
  PROVE  MirrorInv'
<1>0. PICK u \in Names : u = request[t].name
  BY DEF Store, AInv, Careful, Changing
<1> DEFINE p == request[t]
           set == Changed(p.op, p.row)
           new == Merge(p.row, set, Stamped(p.op, p.row), account[u])
           rows == [account EXCEPT ![u] = new]
           m == [mirror EXCEPT ![u] = Mirrored(p.op, mirror[u])]
<1>1. /\ p \in Requests /\ u = p.name /\ Exists(u) /\ account \in [Names -> AnyRow]
      /\ account[u].role \in Roles /\ p.at = "storing"
      /\ t \in raced \/ Knows(p, account[u], mirror[u])
  BY <1>0 DEF Store, AInv, Shape, Careful, Changing, MirrorInv
<1>2. p.row \in AnyRow /\ p.op \in Ops /\ account[u] \in AnyRow
  BY <1>1 DEF Requests
<1>3. /\ set \in AnyRow /\ (p.op.op # "role" => set.role = p.row.role)
      /\ (p.op.op = "role" => set.role = p.op.to /\ p.op.to \in Roles)
  BY <1>2, ChangedIsRow, OpsHave
<1>4. "role" \notin Stamped(p.op, p.row)
  BY DEF Stamped
<1>5. new.role = IF set.role # p.row.role THEN set.role ELSE account[u].role
  BY <1>2, <1>3, <1>4, MergeIsRow
<1>6. account' = rows /\ mirror' = m /\ token' = token
  BY <1>1 DEF Store
<1>7. IF p.op.op = "role" THEN Races(t, u) /\ Writes(t, u) ELSE UNCHANGED <<raced, blurred>>
  BY <1>1 DEF Store, roleGhosts
<1> HIDE DEF set, new
<1>8. /\ rows[u] = new /\ m[u] = IF p.op.op = "role" THEN p.op.to ELSE mirror[u]
      /\ m = [v \in Names |-> m[v]]
      /\ \A v \in Names : v # u => m[v] = mirror[v] /\ rows[v] = account[v]
  BY <1>1 DEF MirrorInv, Mirrored
<1>9. new.role \in Roles /\ new # NoAccount
  <2>1. new.role \in Roles
    BY <1>1, <1>2, <1>3, <1>5
  <2> QED BY <2>1, NoAccountIsRow DEF Roles
<1> HIDE DEF rows, m
<1>10. PICK q : /\ request' = [request EXCEPT ![t] = q]
                /\ q.at = "idle" \/ q.name = u
                /\ \/ q.at \in {"idle", "auditing"}
                   \/ q.at = "minting" /\ p.op.op = "clear" /\ q.role = p.role
  <2>1. CASE Ends(t)
    BY <2>1, EndsIsQuiet DEF Ends
  <2>2. CASE Goes(t, "auditing") \/ (Goes(t, "minting") /\ p.op.op = "clear")
    <3>1. PICK at \in {"auditing", "minting"} :
            Goes(t, at) /\ (at = "minting" => p.op.op = "clear")
      BY <2>2
    <3> DEFINE r == [request[t] EXCEPT !.at = at]
    <3>2. r.at = at /\ r.name = u /\ r.role = p.role /\ request' = [request EXCEPT ![t] = r]
      BY <1>1, <3>1 DEF Goes, Requests
    <3> HIDE DEF r
    <3> QED BY <3>1, <3>2
  <2>3. \/ Ends(t) \/ Goes(t, "auditing")
        \/ Goes(t, "minting") /\ p.op.op = "clear"
    BY DEF Store
  <2> QED BY <2>1, <2>2, <2>3
<1> HIDE DEF p
<1>11. CASE p.op.op = "role"
  <2>1. q.at \notin {"minting", "signing", "mirroring"}
    BY <1>10, <1>11
  <2>2. Knows(q, rows[q.name], m[q.name])
    BY <1>10, <1>11 DEF Knows
  <2>3. u \in blurred' \/ Right(u, rows[u], m[u])
    <3>1. CASE t \in raced
      BY <1>7, <1>11, <3>1, WrittenClearly
    <3>2. CASE Knows(p, account[u], mirror[u])
      <4>1. p.row.role = account[u].role
        BY <1>1, <1>11, <3>2 DEF Knows
      <4>2. new.role = p.op.to
        BY <1>3, <1>5, <1>11, <4>1
      <4> QED BY <1>8, <1>11, <4>2 DEF Right
    <3> QED BY <1>1, <3>1, <3>2
  <2>4. Races(t, u) /\ Writes(t, u)
    BY <1>7, <1>11
  <2>5. /\ raced \subseteq raced'
        /\ \A s \in Threads : s # t /\ request[s].name = u =>
             s \in raced' \/ Knows(request[s], rows[u], m[u])
    BY <2>4, OthersRaced
  <2>6. \A v \in Names : v # u /\ v \in blurred => v \in blurred'
    BY <2>4, WrittenClearly
  <2>7. /\ q.at \in {"minting", "signing", "mirroring"} => q.name = u /\ rows[u] # NoAccount
        /\ rows[u] # NoAccount \/ account[u] = NoAccount
        /\ t \in raced' \/ Knows(q, rows[q.name], m[q.name])
        /\ u \in blurred' \/ rows[u] = NoAccount \/ Right(u, rows[u], m[u])
    BY <1>8, <1>9, <2>1, <2>2, <2>3
  <2>8. Moving(t, q, u, rows, m)
    BY <1>6, <1>8, <1>10, <2>5, <2>6, <2>7 DEF Moving
  <2> QED BY <2>8, MirrorMoves
<1>12. CASE p.op.op # "role"
  <2>1. new.role = account[u].role /\ m[u] = mirror[u] /\ account[u] # NoAccount
    BY <1>1, <1>3, <1>5, <1>8, <1>12 DEF Exists
  <2>2. \A s \in Threads : s # t /\ request[s].name = u =>
          s \in raced' \/ Knows(request[s], rows[u], m[u])
    <3> SUFFICES ASSUME NEW s \in Threads, request[s].name = u, s \notin raced
                 PROVE  Knows(request[s], rows[u], m[u])
      BY <1>7, <1>12
    <3>1. Knows(request[s], account[u], mirror[u])
      BY DEF MirrorInv
    <3>2. Knows(request[s], new, mirror[u])
      BY <3>1, <1>9, <2>1, KnowsStays
    <3> QED BY <3>2, <1>8, <2>1
  <2>3. t \in raced' \/ Knows(q, rows[q.name], m[q.name])
    <3> SUFFICES ASSUME t \notin raced PROVE Knows(q, rows[q.name], m[q.name])
      BY <1>7, <1>12
    <3>1. p.op.op = "clear" => Right(u, account[u], p.role)
      BY <1>1 DEF Knows
    <3>2. p.op.op = "clear" => Right(u, rows[u], p.role)
      BY <3>1, <1>8, <2>1 DEF Right
    <3> QED BY <1>10, <3>2 DEF Knows
  <2>4. u \in blurred' \/ Right(u, rows[u], m[u])
    BY <1>1, <1>7, <1>8, <1>12, <2>1 DEF MirrorInv, Right
  <2>5. raced' = raced /\ blurred' = blurred
    BY <1>7, <1>12
  <2>6. /\ q.at \in {"minting", "signing", "mirroring"} => q.name = u /\ rows[u] # NoAccount
        /\ rows[u] # NoAccount \/ account[u] = NoAccount
        /\ raced \subseteq raced'
        /\ \A v \in Names : v # u /\ v \in blurred => v \in blurred'
        /\ u \in blurred' \/ rows[u] = NoAccount \/ Right(u, rows[u], m[u])
    BY <1>8, <1>9, <1>10, <2>4, <2>5
  <2>7. Moving(t, q, u, rows, m)
    BY <1>6, <1>8, <1>10, <2>2, <2>3, <2>6 DEF Moving
  <2> QED BY <2>7, MirrorMoves
<1> QED BY <1>11, <1>12

LEMMA MirrorWrites ==
  ASSUME AInv, MirrorInv, NEW t \in Threads, Mirror(t)
  PROVE  MirrorInv'
<1>1. PICK u \in Names : u = request[t].name /\ Exists(u)
  BY DEF Mirror, MirrorInv, Signing
<1> DEFINE m == [mirror EXCEPT ![u] = request[t].role]
<1>2. /\ mirror' = m /\ Writes(t, u) /\ UNCHANGED <<account, token, raced>>
      /\ request' = [request EXCEPT ![t] = Done] /\ request[t].at = "mirroring"
  BY <1>1 DEF Mirror, Ends
<1>3. /\ m = [v \in Names |-> m[v]] /\ m[u] = request[t].role
      /\ \A v \in Names : v # u => m[v] = mirror[v]
  BY DEF MirrorInv
<1> HIDE DEF m
<1>4. \A s \in Threads : s # t /\ request[s].name = u =>
        s \in raced' \/ Knows(request[s], account[u], m[u])
  <2> SUFFICES ASSUME NEW s \in Threads, request[s].name = u, s \notin raced
               PROVE  Knows(request[s], account[u], m[u])
    BY <1>2
  <2>1. Knows(request[s], account[u], mirror[u])
    BY DEF MirrorInv
  <2> QED BY <2>1, <1>1 DEF Knows, Exists
<1>5. u \in blurred' \/ Right(u, account[u], m[u])
  <2>1. CASE t \in raced
    BY <2>1, <1>2, WrittenClearly
  <2>2. CASE t \notin raced
    BY <2>2, <1>1, <1>2, <1>3 DEF MirrorInv, Knows
  <2> QED BY <2>1, <2>2
<1>6. account[u] # NoAccount
  BY <1>1 DEF Exists
<1>7. \A v \in Names : v # u => m[v] = mirror[v] /\ account[v] = account[v]
  BY <1>3
<1>8. /\ Done.at \in {"minting", "signing", "mirroring"} => Done.name = u /\ account[u] # NoAccount
      /\ Done.at = "idle" \/ Done.name = u
      /\ account' = account /\ token' = token
      /\ account[u] # NoAccount \/ account[u] = NoAccount
      /\ raced \subseteq raced'
      /\ t \in raced' \/ Knows(Done, account[Done.name], m[Done.name])
      /\ u \in blurred' \/ account[u] = NoAccount \/ Right(u, account[u], m[u])
  BY <1>2, <1>5, <1>6, EndsIsQuiet
<1>9. \A v \in Names : v # u /\ v \in blurred => v \in blurred'
  BY <1>2, WrittenClearly
<1>10. Moving(t, Done, u, account, m)
  BY <1>2, <1>3, <1>4, <1>7, <1>8, <1>9 DEF Moving
<1> QED BY <1>10, MirrorMoves

LEMMA MirrorUnlocks ==
  ASSUME AInv, MirrorInv, NEW u \in Names, Unlock(u)
  PROVE  MirrorInv'
<1> DEFINE new == [account[u] EXCEPT !.locked = "past"]
           rows == [account EXCEPT ![u] = new]
<1>1. /\ account[u] \in AnyRow /\ account \in [Names -> AnyRow]
      /\ account[u].locked = "now" /\ account' = rows
      /\ UNCHANGED <<mirror, token, request, raced, blurred>>
  BY DEF Unlock, AInv, Shape, ghosts, roleGhosts
<1>2. account[u] # NoAccount
  BY <1>1 DEF NoAccount
<1>3. account[u].role \in Roles /\ new.role = account[u].role
  BY <1>1, <1>2 DEF AInv, Shape, Exists, AnyRow
<1>4. new # NoAccount
  BY <1>3, NoAccountIsRow DEF Roles
<1>5. \A v \in Names : rows[v] = IF v = u THEN new ELSE account[v]
  BY <1>1
<1> HIDE DEF new, rows
<1>6. \A v \in Names : /\ rows[v].role = account[v].role
                       /\ rows[v] = NoAccount <=> account[v] = NoAccount
  BY <1>2, <1>3, <1>4, <1>5
<1>7. \A t \in Threads : request[t].at \in {"minting", "signing", "mirroring"} =>
        request[t].name \in Names /\ rows[request[t].name] # NoAccount
  BY <1>6 DEF MirrorInv, Signing, Exists
<1>8. ASSUME NEW t \in Threads
      PROVE  t \in raced \/ Knows(request[t], rows[request[t].name], mirror[request[t].name])
  <2>1. CASE request[t].at = "idle"
    BY <2>1 DEF Knows
  <2>2. CASE t \notin raced /\ request[t].name \in Names
    <3> DEFINE v == request[t].name
    <3>1. Knows(request[t], account[v], mirror[v])
      BY <2>2 DEF MirrorInv
    <3>2. rows[v].role = account[v].role /\ (rows[v] = NoAccount <=> account[v] = NoAccount)
      BY <2>2, <1>6
    <3> HIDE DEF v
    <3>3. Knows(request[t], rows[v], mirror[v])
      BY <3>1, <3>2, KnowsStays
    <3> QED BY <3>3 DEF v
  <2> QED BY <2>1, <2>2 DEF MirrorInv
<1>9. \A v \in Names : v \in blurred \/ rows[v] = NoAccount \/ Right(v, rows[v], mirror[v])
  BY <1>6 DEF MirrorInv, Exists, Right
<1>10. /\ token = [v \in Names |-> token[v]] /\ mirror = [v \in Names |-> mirror[v]]
       /\ \A v \in Names : token[v] # 0 => rows[v] # NoAccount
       /\ \A t \in Threads : request[t].at = "idle" \/ request[t].name \in Names
  BY <1>6 DEF MirrorInv, Exists
<1> QED BY <1>1, <1>7, <1>8, <1>9, <1>10, MirrorKept

LEMMA MirrorStep ==
  ASSUME AInv, MirrorInv, [Next]_vars
  PROVE  MirrorInv'
<1>1. CASE Restart \/ UNCHANGED vars
  <2> DEFINE reqs == IF request' = request THEN request ELSE [t \in Threads |-> Done]
  <2>1. /\ request' = reqs
        /\ UNCHANGED <<account, mirror, token, raced, blurred>>
    BY <1>1 DEF Restart, vars, tables, ghosts, roleGhosts
  <2>2. \A t \in Threads : reqs[t] = request[t] \/ reqs[t] = Done
    OBVIOUS
  <2> HIDE DEF reqs
  <2>3. \A t \in Threads :
          /\ reqs[t].at \in {"minting", "signing", "mirroring"} =>
               reqs[t].name \in Names /\ account[reqs[t].name] # NoAccount
          /\ reqs[t].at = "idle" \/ reqs[t].name \in Names
          /\ t \in raced' \/ Knows(reqs[t], account[reqs[t].name], mirror[reqs[t].name])
    BY <2>1, <2>2, EndsIsQuiet DEF MirrorInv, Signing, Exists
  <2>4. /\ mirror = [v \in Names |-> mirror[v]] /\ token' = [v \in Names |-> token'[v]]
        /\ \A v \in Names : token'[v] # 0 => account[v] # NoAccount
        /\ \A v \in Names :
             v \in blurred' \/ account[v] = NoAccount \/ Right(v, account[v], mirror[v])
    BY <2>1 DEF MirrorInv, Exists
  <2> QED BY <2>1, <2>3, <2>4, MirrorKept
<1>3. ASSUME NEW t \in Threads,
             \/ Count(t) \/ Enrol(t) \/ Insert(t) \/ Load(t) \/ Guard(t)
             \/ Store(t) \/ Audit(t) \/ Mint(t) \/ Generate(t) \/ Mirror(t)
      PROVE  MirrorInv'
  BY <1>3, MirrorLooks, MirrorEnrols, MirrorInserts, MirrorStores, MirrorSigns, MirrorWrites
<1>4. ASSUME NEW t \in Threads, NEW u \in Names,
             Register(t, u) \/ Login(t, u) \/ Me(t, u) \/ Edit(t, u) \/ ChangeOwn(t, u)
      PROVE  MirrorInv'
  BY <1>4, MirrorBegins
<1>5. ASSUME NEW u \in Names, Unlock(u)
      PROVE  MirrorInv'
  BY <1>5, MirrorUnlocks
<1> QED BY <1>1, <1>3, <1>4, <1>5 DEF Next

(* The role in the mirror, by which alarms find the admins, is the          *)
(* account's or the one role_for gives, for any number of accounts and      *)
(* requests and any listed emails, unless the last request that wrote it    *)
(* was run into by another that set the role.                               *)
THEOREM MirrorIsRight == Spec => []MirrorAgrees
<1>1. Init => MirrorInv
  <2> SUFFICES ASSUME Init PROVE MirrorInv
    OBVIOUS
  <2>1. /\ mirror = [u \in Names |-> account[u].role]
        /\ token = [u \in Names |-> IF Exists(u) THEN secret ELSE 0]
        /\ \A t \in Threads : request[t] = Done
    BY DEF Init
  <2>2. \A t \in Threads : /\ Signing(request[t]) /\ request[t].at = "idle"
                          /\ \A row, m : Knows(request[t], row, m)
    BY <2>1, EndsIsQuiet DEF Signing
  <2>3. \A u \in Names : Right(u, account[u], mirror[u])
    BY <2>1 DEF Right
  <2> QED BY <2>1, <2>2, <2>3 DEF MirrorInv
<1>2. AInv /\ MirrorInv /\ [Next]_vars => MirrorInv'
  BY MirrorStep
<1>3. MirrorInv => MirrorAgrees
  BY DEF MirrorInv, MirrorAgrees, Right, RoleFor
<1> QED BY <1>1, <1>2, <1>3, Invariance, PTL DEF Spec

--------------------------------------------------------------------------------
(* The wrong passwords. *)

Miscounted(u) == <<"failures", u>> \in overtaken
Agrees(row, n) == /\ n \in Nat /\ row.failed = n
                  /\ (row.locked # "no") <=> (n >= LOCKOUT_AFTER)
Working(q) == q.at \in {"loading", "guarding", "storing"} =>
                q.op.op \in {"role", "disabled", "fail", "clear", "password"}
CountInv == /\ wrong = [u \in Names |-> wrong[u]]
            /\ \A u \in Names : Miscounted(u) \/ Agrees(account[u], wrong[u])
            /\ \A t \in Threads : Working(request[t])

LEMMA FreshAgrees == ASSUME NEW role PROVE Agrees(Fresh(role), 0)
BY AccountsAssumption DEF Agrees, Fresh, NoAccount

LEMMA CountStays ==
  ASSUME CountInv, UNCHANGED <<account, wrong>>, overtaken \subseteq overtaken',
         \A t \in Threads : Working(request'[t])
  PROVE  CountInv'
<1>1. \A t \in Threads : Working(request[t])'
  BY DEF Working
<1> QED BY <1>1 DEF CountInv, Miscounted

(* One request goes on, and no count changes. *)
LEMMA CountQuiet ==
  ASSUME AInv, CountInv, NEW t \in Threads, NEW q, Working(q),
         request' = [request EXCEPT ![t] = q],
         UNCHANGED <<account, wrong>>, overtaken \subseteq overtaken'
  PROVE  CountInv'
<1>1. \A s \in Threads : request'[s] = IF s = t THEN q ELSE request[s]
  BY DEF AInv, Shape
<1>2. \A s \in Threads : Working(request'[s])
  BY <1>1 DEF CountInv
<1> QED BY <1>2, CountStays

(* A change that has read what is there counts right.                       *)
LEMMA ChangeAgrees ==
  ASSUME NEW op \in Ops, NEW row \in AnyRow, NEW old \in AnyRow, NEW n \in Nat,
         Agrees(old, n),
         op.op \in {"fail", "clear", "password"} =>
           row.failed = old.failed /\ row.locked = old.locked,
         op.op \in {"role", "disabled", "fail", "clear", "password"}
  PROVE  Agrees(Merge(row, Changed(op, row), Stamped(op, row), old),
                CASE op.op = "fail" -> n + 1
                  [] op.op \in {"clear", "password"} -> 0
                  [] OTHER -> n)
<1> DEFINE set == Changed(op, row)
           new == Merge(row, set, Stamped(op, row), old)
<1>1. /\ new.failed = IF set.failed # row.failed \/ "failed" \in Stamped(op, row)
                      THEN set.failed ELSE old.failed
      /\ new.locked = IF set.locked # row.locked \/ "locked" \in Stamped(op, row)
                      THEN set.locked ELSE old.locked
  BY DEF Merge, Columns
<1>2. /\ "failed" \notin Stamped(op, row)
      /\ "locked" \in Stamped(op, row) <=>
           op.op = "fail" /\ row.failed + 1 >= LOCKOUT_AFTER
  BY DEF Stamped
<1>3. row.failed \in Nat /\ old.failed = n /\ LOCKOUT_AFTER \in Nat \ {0}
  BY AccountsAssumption DEF AnyRow, Agrees
<1>4. CASE op.op \in {"role", "disabled"}
  <2>1. set.failed = row.failed /\ set.locked = row.locked
    <3>1. CASE op.op = "role"
      BY <3>1 DEF Changed, AnyRow
    <3>2. CASE op.op = "disabled"
      BY <3>2 DEF Changed, AnyRow
    <3> QED BY <1>4, <3>1, <3>2
  <2>2. new.failed = old.failed /\ new.locked = old.locked
    BY <1>1, <1>2, <1>4, <2>1
  <2> HIDE DEF new
  <2>3. Agrees(new, n)
    BY <2>2 DEF Agrees
  <2> QED BY <2>3, <1>4 DEF new
<1>5. CASE op.op = "fail"
  <2> DEFINE k == row.failed + 1
             locked == IF k >= LOCKOUT_AFTER THEN "now" ELSE row.locked
  <2>1. k = n + 1 /\ k \in Nat /\ row.locked = old.locked /\ row.failed = n
    BY <1>3, <1>5
  <2>2. set = [row EXCEPT !.failed = k, !.locked = locked]
    BY <1>5 DEF Changed, Failed
  <2> HIDE DEF k, locked
  <2>3. set.failed = k /\ set.locked = locked
    BY <2>2 DEF AnyRow
  <2>4. new.failed = k
    BY <1>1, <2>1, <2>3
  <2>5. new.locked = locked
    BY <1>1, <1>2, <1>5, <2>1, <2>3 DEF locked, k
  <2>6. (locked # "no") <=> (n + 1 >= LOCKOUT_AFTER)
    <3>1. CASE k >= LOCKOUT_AFTER
      BY <3>1, <2>1 DEF locked
    <3>2. CASE ~(k >= LOCKOUT_AFTER)
      <4>1. locked = old.locked /\ ~(n >= LOCKOUT_AFTER)
        BY <3>2, <2>1, <1>3 DEF locked
      <4> QED BY <3>2, <4>1, <2>1 DEF Agrees
    <3> QED BY <3>1, <3>2
  <2> HIDE DEF new
  <2>7. Agrees(new, n + 1)
    BY <2>1, <2>4, <2>5, <2>6 DEF Agrees
  <2> QED BY <2>7, <1>5 DEF new
<1>6. CASE op.op \in {"clear", "password"}
  <2>1. set.failed = 0 /\ set.locked = "no"
    BY <1>6 DEF Changed, Cleared, AnyRow
  <2>2. row.failed = old.failed /\ row.locked = old.locked
    BY <1>6
  <2>3. new.failed = 0 /\ new.locked = "no"
    BY <1>1, <2>1, <2>2
  <2> HIDE DEF new
  <2>4. Agrees(new, 0)
    BY <2>3, <1>3 DEF Agrees
  <2> QED BY <2>4, <1>6 DEF new
<1> QED BY <1>4, <1>5, <1>6

LEMMA DoneWorks == Working(Done)
BY DEF Working, Done, Request

LEMMA CountBegins ==
  ASSUME AInv, CountInv, NEW t \in Threads, NEW u \in Names,
         Register(t, u) \/ Login(t, u) \/ Me(t, u) \/ Edit(t, u) \/ ChangeOwn(t, u)
  PROVE  CountInv'
<1>1. ASSUME NEW at, NEW op, NEW role, Begins(t, Request(at, op, u, role)),
             at = "loading" => op.op \in {"role", "disabled", "fail", "clear", "password"},
             at \notin {"guarding", "storing"}
      PROVE  CountInv'
  <2> DEFINE q == Request(at, op, u, role)
  <2>1. q.at = at /\ q.op = op
    BY DEF Request
  <2>2. /\ request' = [request EXCEPT ![t] = q]
        /\ UNCHANGED <<account, wrong>> /\ overtaken \subseteq overtaken'
    BY <1>1 DEF Begins, tables, ghosts
  <2> HIDE DEF q
  <2>3. Working(q)
    BY <1>1, <2>1 DEF Working
  <2> QED BY <2>2, <2>3, CountQuiet
<1>2. CASE Register(t, u)
  BY <1>1, <1>2 DEF Register
<1>3. CASE Me(t, u)
  BY <1>1, <1>3 DEF Me
<1>4. CASE Login(t, u)
  <2>1. PICK how \in {"fail", "clear"} :
          Begins(t, Request("loading", Plain(how), u, account[u].role))
    BY <1>4 DEF Login
  <2>2. Plain(how).op = how
    BY DEF Plain
  <2> QED BY <1>1, <2>1, <2>2
<1>5. CASE Edit(t, u)
  <2>1. PICK op \in Edits : Begins(t, Request("loading", op, u, "none"))
    BY <1>5 DEF Edit
  <2>2. op.op \in {"role", "disabled", "password"}
    BY DEF Edits
  <2> QED BY <1>1, <2>1, <2>2
<1>6. CASE ChangeOwn(t, u)
  <2>1. Begins(t, Request("loading", Own, u, "none")) /\ Own.op = "password"
    BY <1>6 DEF ChangeOwn, Own
  <2> QED BY <1>1, <2>1
<1> QED BY <1>2, <1>3, <1>4, <1>5, <1>6

LEMMA CountLooks ==
  ASSUME AInv, CountInv, NEW t \in Threads,
         \/ Count(t) \/ Enrol(t) \/ Load(t) \/ Guard(t)
         \/ Audit(t) \/ Mint(t) \/ Generate(t) \/ Mirror(t)
  PROVE  CountInv'
<1>0. request[t] \in Requests /\ Working(request[t])
  BY DEF AInv, Shape, CountInv
<1>1. UNCHANGED <<account, wrong>> /\ overtaken \subseteq overtaken'
  BY DEF Count, Enrol, Load, Guard, Audit, Mint, Generate, Mirror, Marked, tables, ghosts
<1>2. CASE \/ Ends(t)
           \/ \E at \in {"inserting", "signing", "mirroring"} : Goes(t, at)
  <2>1. ASSUME NEW at \in {"inserting", "signing", "mirroring"}, Goes(t, at)
        PROVE  CountInv'
    <3> DEFINE q == [request[t] EXCEPT !.at = at]
    <3>1. q.at = at /\ request' = [request EXCEPT ![t] = q]
      BY <1>0, <2>1 DEF Goes, Requests
    <3> HIDE DEF q
    <3>2. Working(q)
      BY <3>1 DEF Working
    <3> QED BY <1>1, <3>1, <3>2, CountQuiet
  <2> QED BY <1>1, <1>2, <2>1, DoneWorks, CountQuiet DEF Ends
<1>3. CASE Enrol(t) \/ Audit(t) \/ Mint(t) \/ Generate(t) \/ Mirror(t)
  BY <1>2, <1>3 DEF Enrol, Audit, Mint, Generate, Mirror
<1>4. CASE Count(t)
  <2> DEFINE role == IF \A u \in Names : ~Exists(u) THEN "admin" ELSE "user"
             q == [request[t] EXCEPT !.at = "enrolling", !.role = role]
  <2>1. request' = [request EXCEPT ![t] = q]
    BY <1>4 DEF Count
  <2>2. q.at = "enrolling"
    BY <1>0 DEF Requests
  <2> HIDE DEF q
  <2>3. Working(q)
    BY <2>2 DEF Working
  <2> QED BY <1>1, <2>1, <2>3, CountQuiet
<1>5. CASE Load(t)
  <2> DEFINE row == account[request[t].name]
             at == IF Removes(request[t].op, row) THEN "guarding" ELSE "storing"
             q == [request[t] EXCEPT !.at = at, !.row = row]
  <2>1. request' = [request EXCEPT ![t] = q] /\ request[t].at = "loading"
    BY <1>5 DEF Load
  <2> HIDE DEF at, row
  <2>2. q.op = request[t].op
    BY <1>0 DEF Requests
  <2> HIDE DEF q
  <2>3. Working(q)
    BY <1>0, <2>1, <2>2 DEF Working
  <2> QED BY <1>1, <2>1, <2>3, CountQuiet
<1>6. CASE Guard(t) /\ ~Ends(t)
  <2> DEFINE q == [request[t] EXCEPT !.at = "storing", !.admins = EnabledAdmins]
  <2>1. request' = [request EXCEPT ![t] = q] /\ request[t].at = "guarding"
    BY <1>6 DEF Guard
  <2>2. q.op = request[t].op
    BY <1>0 DEF Requests
  <2> HIDE DEF q
  <2>3. Working(q)
    BY <1>0, <2>1, <2>2 DEF Working
  <2> QED BY <1>1, <2>1, <2>3, CountQuiet
<1> QED BY <1>2, <1>3, <1>4, <1>5, <1>6

LEMMA CountInserts ==
  ASSUME AInv, CountInv, NEW t \in Threads, Insert(t)
  PROVE  CountInv'
<1> DEFINE q == [request[t] EXCEPT !.at = "minting"]
<1>0. PICK u \in Names : u = request[t].name
  BY DEF Insert, AInv, Careful, Enrolling
<1>1. request[t] \in Requests /\ request \in [Threads -> Requests]
      /\ account \in [Names -> AnyRow] /\ UNCHANGED <<wrong, overtaken>>
  BY DEF Insert, AInv, Shape, ghosts
<1>2. CASE Exists(u)
  <2>1. Ends(t) /\ UNCHANGED account
    BY <1>0, <1>2 DEF Insert
  <2> QED BY <2>1, <1>1, DoneWorks, CountQuiet DEF Ends
<1>3. CASE ~Exists(u)
  <2>1. /\ account' = [account EXCEPT ![u] = Fresh(request[t].role)]
        /\ request' = [request EXCEPT ![t] = q] /\ q.at = "minting"
    BY <1>0, <1>1, <1>3 DEF Insert, Goes, Requests
  <2> HIDE DEF q
  <2>2. \A s \in Threads : Working(request[s])'
    <3>1. Working(q)
      BY <2>1 DEF Working
    <3>2. \A s \in Threads : request'[s] = IF s = t THEN q ELSE request[s]
      BY <1>1, <2>1
    <3>3. \A s \in Threads : Working(request'[s])
      BY <3>1, <3>2 DEF CountInv
    <3> QED BY <3>3 DEF Working
  <2>3. \A v \in Names : account'[v] = IF v = u THEN Fresh(request[t].role) ELSE account[v]
    BY <1>1, <2>1
  <2>4. Miscounted(u) \/ wrong[u] = 0
    <3>1. account[u].failed = 0
      BY <1>3 DEF Exists, NoAccount
    <3> QED BY <3>1 DEF CountInv, Agrees
  <2>5. Miscounted(u)' \/ Agrees(account'[u], wrong'[u])
    BY <1>1, <2>3, <2>4, FreshAgrees DEF Miscounted
  <2>6. \A v \in Names : v # u => Miscounted(v)' \/ Agrees(account'[v], wrong'[v])
    BY <1>1, <2>3 DEF CountInv, Miscounted
  <2>7. \A v \in Names : (Miscounted(v) \/ Agrees(account[v], wrong[v]))'
    BY <2>5, <2>6 DEF Agrees
  <2> QED BY <1>1, <2>2, <2>7 DEF CountInv
<1> QED BY <1>2, <1>3

LEMMA CountStores ==
  ASSUME AInv, CountInv, NEW t \in Threads, Store(t)
  PROVE  CountInv'
<1>0. PICK u \in Names : u = request[t].name
  BY DEF Store, AInv, Careful, Changing
<1> DEFINE p == request[t]
           new == Merge(p.row, Changed(p.op, p.row), Stamped(p.op, p.row), account[u])
           n == CASE p.op.op = "fail" -> wrong[u] + 1
                  [] p.op.op \in {"clear", "password"} -> 0
                  [] OTHER -> wrong[u]
<1>1. /\ p \in Requests /\ request \in [Threads -> Requests]
      /\ p.row \in AnyRow /\ p.op \in Ops /\ account \in [Names -> AnyRow]
      /\ p.op.op \in {"role", "disabled", "fail", "clear", "password"}
  BY DEF Store, AInv, Shape, Requests, CountInv, Working
<1>2. account' = [account EXCEPT ![u] = new]
  BY <1>0 DEF Store
<1>3. wrong' = [wrong EXCEPT ![u] = n]
  <2>1. wrong' = CASE p.op.op = "fail"                 -> [wrong EXCEPT ![u] = @ + 1]
                   [] p.op.op \in {"clear", "password"} -> [wrong EXCEPT ![u] = 0]
                   [] OTHER                             -> wrong
    BY <1>0 DEF Store
  <2>2. CASE p.op.op = "fail"
    BY <2>1, <2>2
  <2>3. CASE p.op.op \in {"clear", "password"}
    BY <2>1, <2>3
  <2>4. CASE p.op.op \in {"role", "disabled"}
    <3>1. wrong' = wrong /\ n = wrong[u]
      BY <2>1, <2>4
    <3>2. wrong = [wrong EXCEPT ![u] = wrong[u]]
      BY DEF CountInv
    <3> QED BY <3>1, <3>2
  <2> QED BY <1>1, <2>2, <2>3, <2>4
<1>4. overtaken \subseteq overtaken' /\ (FailuresMoved(p) => Miscounted(u)')
  <2> DEFINE Outdated(m) == \/ m[1] = "failures" /\ FailuresMoved(p)
                            \/ m[1] = "admins" /\ RolesMoved(p)
             marks == {m \in {"failures", "admins"} \X {u} : Outdated(m)}
  <2>1. overtaken' = overtaken \cup marks
    BY <1>0 DEF Store
  <2>2. <<"failures", u>> \in {"failures", "admins"} \X {u}
    OBVIOUS
  <2>3. FailuresMoved(p) => Outdated(<<"failures", u>>)
    OBVIOUS
  <2> HIDE DEF Outdated
  <2>4. FailuresMoved(p) => <<"failures", u>> \in marks
    BY <2>2, <2>3
  <2> HIDE DEF marks
  <2> QED BY <2>1, <2>4 DEF Miscounted
<1>5. Miscounted(u)' \/ Agrees(new, n)
  <2>1. CASE Miscounted(u)
    BY <2>1, <1>4 DEF Miscounted
  <2>2. CASE FailuresMoved(p)
    BY <2>2, <1>4
  <2>3. CASE Agrees(account[u], wrong[u]) /\ ~FailuresMoved(p)
    <3>1. p.op.op \in {"fail", "clear", "password"} =>
            p.row.failed = account[u].failed /\ p.row.locked = account[u].locked
      BY <2>3, <1>0 DEF FailuresMoved
    <3>2. wrong[u] \in Nat /\ account[u] \in AnyRow
      BY <2>3, <1>1 DEF Agrees
    <3> HIDE DEF p
    <3> QED BY <2>3, <3>1, <3>2, <1>1, ChangeAgrees
  <2> QED BY <2>1, <2>2, <2>3 DEF CountInv
<1> HIDE DEF new, n
<1>6. \A v \in Names : /\ account'[v] = IF v = u THEN new ELSE account[v]
                       /\ wrong'[v] = IF v = u THEN n ELSE wrong[v]
  BY <1>1, <1>2, <1>3 DEF CountInv
<1>7. \A v \in Names : (Miscounted(v) \/ Agrees(account[v], wrong[v]))'
  <2>1. \A v \in Names : Miscounted(v)' \/ Agrees(account'[v], wrong'[v])
    BY <1>4, <1>5, <1>6 DEF CountInv, Miscounted
  <2> QED BY <2>1 DEF Agrees
<1>8. wrong' = [v \in Names |-> wrong'[v]]
  BY <1>3 DEF CountInv
<1>9. \A s \in Threads : Working(request[s])'
  <2>1. PICK q : request' = [request EXCEPT ![t] = q] /\ Working(q)
    <3>1. CASE Ends(t)
      BY <3>1, DoneWorks DEF Ends
    <3>2. CASE \E at \in {"auditing", "minting"} : Goes(t, at)
      <4>1. PICK at \in {"auditing", "minting"} : Goes(t, at)
        BY <3>2
      <4> DEFINE r == [request[t] EXCEPT !.at = at]
      <4>2. r.at = at /\ request' = [request EXCEPT ![t] = r]
        BY <1>1, <4>1 DEF Goes, Requests
      <4> HIDE DEF r
      <4> QED BY <4>2 DEF Working
    <3> QED BY <3>1, <3>2 DEF Store
  <2>2. \A s \in Threads : request'[s] = IF s = t THEN q ELSE request[s]
    BY <1>1, <2>1
  <2>3. \A s \in Threads : Working(request'[s])
    BY <2>1, <2>2 DEF CountInv
  <2> QED BY <2>3 DEF Working
<1> QED BY <1>7, <1>8, <1>9 DEF CountInv

LEMMA CountUnlocks ==
  ASSUME AInv, CountInv, NEW u \in Names, Unlock(u)
  PROVE  CountInv'
<1> DEFINE new == [account[u] EXCEPT !.locked = "past"]
<1>1. /\ account[u] \in AnyRow /\ account \in [Names -> AnyRow]
      /\ account[u].locked = "now" /\ account' = [account EXCEPT ![u] = new]
      /\ UNCHANGED <<request, wrong, overtaken>>
  BY DEF Unlock, AInv, Shape, ghosts
<1>2. new.failed = account[u].failed /\ new.locked = "past"
  BY <1>1 DEF AnyRow
<1>3. \A v \in Names : account'[v] = IF v = u THEN new ELSE account[v]
  BY <1>1
<1> HIDE DEF new
<1>4. \A v \in Names : Agrees(account[v], wrong[v]) => Agrees(account'[v], wrong'[v])
  BY <1>1, <1>2, <1>3 DEF Agrees
<1>5. \A v \in Names : (Miscounted(v) \/ Agrees(account[v], wrong[v]))'
  <2>1. \A v \in Names : Miscounted(v)' \/ Agrees(account'[v], wrong'[v])
    BY <1>1, <1>4 DEF CountInv, Miscounted
  <2> QED BY <2>1 DEF Agrees
<1>6. \A t \in Threads : Working(request[t])'
  BY <1>1 DEF CountInv, Working
<1> QED BY <1>1, <1>5, <1>6 DEF CountInv

LEMMA CountStep ==
  ASSUME AInv, CountInv, [Next]_vars
  PROVE  CountInv'
<1>1. CASE Restart
  <2>1. /\ request' = [t \in Threads |-> Done]
        /\ UNCHANGED <<account, wrong, overtaken>>
    BY <1>1 DEF Restart, tables, ghosts
  <2>2. \A t \in Threads : Working(request'[t])
    BY <2>1, DoneWorks
  <2> QED BY <2>1, <2>2, CountStays
<1>2. CASE UNCHANGED vars
  <2>1. UNCHANGED <<account, wrong, overtaken, request>>
    BY <1>2 DEF vars, tables, ghosts
  <2>2. \A t \in Threads : Working(request'[t])
    BY <2>1 DEF CountInv
  <2> QED BY <2>1, <2>2, CountStays
<1>3. ASSUME NEW t \in Threads,
             \/ Count(t) \/ Enrol(t) \/ Insert(t) \/ Load(t) \/ Guard(t)
             \/ Store(t) \/ Audit(t) \/ Mint(t) \/ Generate(t) \/ Mirror(t)
      PROVE  CountInv'
  BY <1>3, CountLooks, CountInserts, CountStores
<1>4. ASSUME NEW t \in Threads, NEW u \in Names,
             Register(t, u) \/ Login(t, u) \/ Me(t, u) \/ Edit(t, u) \/ ChangeOwn(t, u)
      PROVE  CountInv'
  BY <1>4, CountBegins
<1>5. ASSUME NEW u \in Names, Unlock(u)
      PROVE  CountInv'
  BY <1>5, CountUnlocks
<1> QED BY <1>1, <1>2, <1>3, <1>4, <1>5 DEF Next

(* LOCKOUT_AFTER wrong passwords in a row lock an account and no fewer do   *)
(* (record_login_failure, clear_login_failures), for every limit and any    *)
(* number of requests, unless two countings overlapped.                     *)
THEOREM LockoutIsExact == Spec => []FailuresCounted
<1>1. Init => CountInv
  <2> SUFFICES ASSUME Init PROVE CountInv
    OBVIOUS
  <2>1. wrong = [u \in Names |-> 0] /\ \A t \in Threads : request[t] = Done
    BY DEF Init
  <2>2. \A u \in Names : \/ account[u] = NoAccount
                         \/ \E role \in Roles : account[u] = Fresh(role)
    BY DEF Init, Roles
  <2>3. Agrees(NoAccount, 0)
    BY AccountsAssumption DEF Agrees, NoAccount
  <2>4. \A u \in Names : Agrees(account[u], wrong[u])
    BY <2>1, <2>2, <2>3, FreshAgrees
  <2> QED BY <2>1, <2>4, DoneWorks DEF CountInv
<1>2. AInv /\ CountInv /\ [Next]_vars => CountInv'
  BY CountStep
<1>3. CountInv => FailuresCounted
  BY DEF CountInv, FailuresCounted, Miscounted, Agrees
<1> QED BY <1>1, <1>2, <1>3, Invariance, PTL DEF Spec
================================================================================

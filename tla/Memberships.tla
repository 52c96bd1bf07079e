----------------------------- MODULE Memberships -----------------------------
(***************************************************************************)
(* The members of one organization: invitations, their acceptance and      *)
(* expiry, changes of a member by an admin, departures, and the limit on   *)
(* seats.  A request reads the membership it is about without a lock; some *)
(* then check a rule under a row lock that they hold to their end; and all *)
(* write, in the same transaction, the columns that differ from what they  *)
(* have read, to whatever the row has become.  The organization stays      *)
(* active and its seats are limited.                                       *)
(***************************************************************************)
EXTENDS Naturals, FiniteSets

CONSTANTS Users, Requests,
          MaxLimit,    \* bound on the limit of seats
          Nobody

ASSUME UsersAssumption == IsFiniteSet(Users) /\ Nobody \notin Users
ASSUME LimitAssumption == MaxLimit \in Nat \ {0}

VARIABLES member,   \* the organization_members rows
          limit,    \* seat_limit of the organization
          req,      \* the requests under way
          raced     \* history: a seat was taken or the limit lowered on a
                    \* read that was out of date, past the lock
vars == <<member, limit, req, raced>>

-----------------------------------------------------------------------------
(* "none" is a user without a row.  The term of an invitation is left open:  *)
(* it may be accepted as long as it is pending, and expire just as well.    *)
RowType == [status : {"none", "pending", "active", "suspended", "removed"},
            admin : BOOLEAN, guest : BOOLEAN]
Row(status, admin, guest) == [status |-> status, admin |-> admin, guest |-> guest]
NoRow == Row("none", FALSE, FALSE)

(* The row a request has read and the one it makes of it, the limit it has  *)
(* read (or will set), the admins it has locked, and whose seats it has     *)
(* counted to set a limit.                                                  *)
RequestType ==
  [op : {"idle", "invite", "guest", "patch", "remove", "leave", "accept",
         "withdraw", "limit"},
   user : Users \cup {Nobody}, read : RowType, new : RowType, limit : 0 .. MaxLimit,
   checked : BOOLEAN, locks : SUBSET Users, seats : SUBSET Users]
Asked(op, u, read, new, n) ==
  [op |-> op, user |-> u, read |-> read, new |-> new, limit |-> n,
   checked |-> FALSE, locks |-> {}, seats |-> {}]
Idle == Asked("idle", Nobody, NoRow, NoRow, 0)

(* No request leaves a row that is not there with rights.                   *)
TypeOK ==
  /\ member \in [Users -> RowType]
  /\ \A u \in Users : member[u].status = "none" => member[u] = NoRow
  /\ limit \in 1 .. MaxLimit
  /\ req \in [Requests -> RequestType]
  /\ raced \in BOOLEAN

(* provision_organization leaves one pending admin.                         *)
Init ==
  /\ \E founder \in Users :
       member = [u \in Users |-> IF u = founder THEN Row("pending", TRUE, FALSE) ELSE NoRow]
  /\ limit \in 1 .. MaxLimit
  /\ req = [r \in Requests |-> Idle]
  /\ raced = FALSE

-----------------------------------------------------------------------------
(* count_consumed_seats: pending rows count, tombstones and guests do not.  *)
TakesSeat(m) == m.status \notin {"none", "removed"} /\ ~m.guest
Seated == {u \in Users : TakesSeat(member[u])}
Used == Cardinality(Seated)

(* _row_satisfies_invariant                                                 *)
Governs(m) == m.admin /\ m.status \in {"active", "suspended"}
Admins == {u \in Users : Governs(member[u])}

(* _ALLOWED_TRANSITIONS, and no change at all.                              *)
Transition(old, new) ==
  \/ new = old
  \/ old = "pending" /\ new \in {"active", "suspended", "removed"}
  \/ old = "active" /\ new \in {"suspended", "removed"}
  \/ old = "suspended" /\ new \in {"active", "removed"}

(* The requests that take the lock of the organization, and those that lock *)
(* its admins.                                                              *)
NeedsSeat(x) == x.op \in {"invite", "guest"} /\ ~x.new.guest
MayUnseatAdmin(x) == x.op \in {"patch", "remove", "leave"}

OrganizationLocked == \E r \in Requests : req[r].checked /\ NeedsSeat(req[r])
LockedByOthers(r) == UNION {req[s].locks : s \in Requests \ {r}}

(* A request reads the row of u (and the limit, when it takes a seat) and    *)
(* is about to write new; of both only the columns that it may write.       *)
Begin(r, op, u, read, new) ==
  /\ req[r] = Idle
  /\ \E n \in {0, limit} :
       /\ n = limit <=> NeedsSeat(Asked(op, u, read, new, n))
       /\ req' = [req EXCEPT ![r] = Asked(op, u, read, new, n)]
  /\ UNCHANGED <<member, limit, raced>>

Move(r, op, u, status) ==
  Begin(r, op, u, Row(member[u].status, FALSE, FALSE), Row(status, FALSE, FALSE))

-----------------------------------------------------------------------------
(* invite_member, and the guest that a project invites.                     *)
Invite(r, u) ==
  /\ member[u].status \in {"none", "removed"}
  /\ \E admin, guest \in BOOLEAN :
       /\ ~(admin /\ guest)
       /\ Begin(r, "invite", u, member[u], Row("pending", admin, guest))

(* update_member_guest: an admin is not made a guest.                       *)
ToggleGuest(r, u) ==
  LET guest == member[u].guest IN
  /\ member[u].status # "none"
  /\ ~guest => ~member[u].admin
  /\ Begin(r, "guest", u, Row("none", FALSE, guest), Row("none", FALSE, ~guest))

(* update_member                                                            *)
Patch(r, u) ==
  LET m == member[u] IN
  /\ m.status # "none"
  /\ \E status \in {"pending", "active", "suspended", "removed"}, admin \in BOOLEAN :
       /\ Transition(m.status, status)
       /\ status # m.status \/ admin # m.admin
       /\ Begin(r, "patch", u, Row(m.status, m.admin, FALSE), Row(status, admin, FALSE))

(* remove_member                                                            *)
Remove(r, u) ==
  /\ member[u].status # "none"
  /\ Begin(r, "remove", u, NoRow, NoRow)

(* leave_organization                                                       *)
Leave(r, u) ==
  /\ member[u].status \notin {"none", "removed"}
  /\ Move(r, "leave", u, "removed")

Pending(u) == member[u].status = "pending"

(* accept_invitation, and the sole invitation of a new account, which is    *)
(* accepted without a look at the seats when the user activates or logs in. *)
Accept(r, u) ==
  /\ Pending(u)
  /\ member[u].guest \/ Used <= limit
  /\ Move(r, "accept", u, "active")
AcceptAtLogin(r, u) == Pending(u) /\ Move(r, "accept", u, "active")

(* decline_invitation, and sweep_expired_invitations row by row: the term   *)
(* of the invitation has passed, and resend_invite has not begun a new one. *)
Withdraw(r, u) == Pending(u) /\ Move(r, "withdraw", u, "removed")

(* update_organization: not below the seats in use.                         *)
Relimit(r, n) ==
  /\ req[r] = Idle
  /\ n # limit /\ Used <= n
  /\ req' = [req EXCEPT ![r] = [Asked("limit", Nobody, NoRow, NoRow, n) EXCEPT !.seats = Seated]]
  /\ UNCHANGED <<member, limit, raced>>

-----------------------------------------------------------------------------
(* Mutant: assert_seat_available with lock=False.                           *)
CheckSeatUnlocked(r) ==
  /\ NeedsSeat(req[r]) /\ ~req[r].checked
  /\ Used < req[r].limit
  /\ req' = [req EXCEPT ![r].checked = TRUE]
  /\ UNCHANGED <<member, limit, raced>>
(* assert_seat_available: SELECT ... FOR UPDATE, then the count.            *)
CheckSeat(r) ==
  /\ NeedsSeat(req[r]) /\ ~req[r].checked
  /\ ~OrganizationLocked
  /\ Used < req[r].limit
  /\ req' = [req EXCEPT ![r].checked = TRUE]
  /\ UNCHANGED <<member, limit, raced>>

(* Mutant: assert_last_admin_invariant with lock=False.                     *)
CheckAdminUnlocked(r) ==
  /\ MayUnseatAdmin(req[r]) /\ ~req[r].checked
  /\ \E S \in SUBSET Admins : S \ {req[r].user} # {} \/ Governs(req[r].new)
  /\ req' = [req EXCEPT ![r].checked = TRUE]
  /\ UNCHANGED <<member, limit, raced>>
(* assert_last_admin_invariant: it locks the admins S whose account is not  *)
(* deactivated.                                                             *)
CheckAdmin(r) ==
  /\ MayUnseatAdmin(req[r]) /\ ~req[r].checked
  /\ \E S \in SUBSET (Admins \ LockedByOthers(r)) :
       /\ S \ {req[r].user} # {} \/ Governs(req[r].new)
       /\ req' = [req EXCEPT ![r].checked = TRUE, ![r].locks = S]
  /\ UNCHANGED <<member, limit, raced>>

(* An invitation read no row and inserts one: uq_org_member.                *)
Inserts(x) == x.op = "invite" /\ x.read.status = "none"

(* What x makes of the row m: it writes the columns that differ from what   *)
(* it has read.                                                             *)
Column(read, new, now) == IF new # read THEN new ELSE now
Written(x, m) ==
  IF x.op = "remove" THEN NoRow
  ELSE IF Inserts(x) THEN x.new
  ELSE Row(Column(x.read.status, x.new.status, m.status),
           Column(x.read.admin, x.new.admin, m.admin),
           Column(x.read.guest, x.new.guest, m.guest))

(* Mutant: an UPDATE that finds no row does not fail.                       *)
FailsNever(x, u) == FALSE
(* x has read the row of u, and fails when that is deleted.                 *)
Fails(x, u) == x.user = u /\ ~Inserts(x)

(* A request that was granted no seat writes to a row that it read when the *)
(* row still had one (or none of its own); a seat is granted under a limit  *)
(* that is no more.                                                         *)
Revives(x, m) ==
  /\ ~NeedsSeat(x)
  /\ m.status # x.read.status \/ (x.op = "invite" /\ m.guest # x.read.guest)
  /\ ~TakesSeat(m) /\ TakesSeat(Written(x, m))
OutOfDate(x) == NeedsSeat(x) /\ x.limit # limit

Write(r) ==
  LET x == req[r]
      u == x.user IN
  /\ x.op \notin {"idle", "limit"}
  /\ NeedsSeat(x) \/ MayUnseatAdmin(x) => x.checked
  /\ u \notin LockedByOthers(r)
  /\ Inserts(x) => member[u].status = "none"
  /\ member' = [member EXCEPT ![u] = Written(x, @)]
  /\ req' = [s \in Requests |->
               IF s = r \/ (x.op = "remove" /\ Fails(req[s], u)) THEN Idle ELSE req[s]]
  /\ raced' = (raced \/ Revives(x, member[u]) \/ OutOfDate(x))
  /\ UNCHANGED limit

WriteLimit(r) ==
  /\ req[r].op = "limit"
  /\ ~OrganizationLocked
  /\ limit' = req[r].limit
  /\ raced' = (raced \/ ~(Seated \subseteq req[r].seats))
  /\ req' = [req EXCEPT ![r] = Idle]
  /\ UNCHANGED member

(* A check refuses the request, its row is gone or taken, or it dies.       *)
Abort(r) ==
  /\ req[r] # Idle
  /\ req' = [req EXCEPT ![r] = Idle]
  /\ UNCHANGED <<member, limit, raced>>

(* UserManager.delete: an account is anonymized and all its memberships go,  *)
(* the one of a last admin too.                                             *)
DeleteAccount(u) ==
  /\ member[u].status # "none"
  /\ \A r \in Requests : u \notin req[r].locks
  /\ member' = [member EXCEPT ![u] = NoRow]
  /\ req' = [r \in Requests |-> IF Fails(req[r], u) THEN Idle ELSE req[r]]
  /\ UNCHANGED <<limit, raced>>

-----------------------------------------------------------------------------
Read(r, u) ==
  \/ Invite(r, u) \/ ToggleGuest(r, u) \/ Patch(r, u) \/ Remove(r, u) \/ Leave(r, u)
  \/ Accept(r, u) \/ AcceptAtLogin(r, u) \/ Withdraw(r, u)

Proceed(r) == CheckSeat(r) \/ CheckAdmin(r) \/ Write(r) \/ WriteLimit(r) \/ Abort(r)

Next ==
  \/ \E r \in Requests :
       \/ \E u \in Users : Read(r, u)
       \/ \E n \in 1 .. MaxLimit : Relimit(r, n)
       \/ Proceed(r)
  \/ \E u \in Users : DeleteAccount(u)

Spec == Init /\ [][Next]_vars

-----------------------------------------------------------------------------
(* "two invites racing on the last free seat": the seats in use exceed the  *)
(* limit only after a request wrote to a row that was not what it had read  *)
(* (an acceptance revives a seat given to another since), or the limit was  *)
(* lowered on a count of the seats that another one was taken after.        *)
SeatsWithinLimit == ~raced => Used <= limit

(* The organization is not left without an admin (of a deactivated account, *)
(* or not: users.is_active is not modelled), by no two demotions,           *)
(* removals or departures at once; only a decline, an expiry or a second    *)
(* invitation may do so, when the invitation of the row that it writes was  *)
(* taken up since it read it; or the admin's account is deleted.            *)
TakenUp(r) ==
  LET x == req[r] IN
  /\ x.op \in {"withdraw", "invite"} /\ x.read.status \in {"pending", "removed"}
  /\ Governs(member[x.user])
  /\ req'[r] # x /\ member'[x.user].status = x.new.status
NeverHeadless ==
  [][Admins # {} /\ Admins' = {} =>
       (\E r \in Requests : TakenUp(r)) \/ (\E u \in Users : DeleteAccount(u))]_vars
=============================================================================

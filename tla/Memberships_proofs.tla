-------------------------- MODULE Memberships_proofs --------------------------
(***************************************************************************)
(* What Memberships keeps, for any number of users and requests.  Two      *)
(* locks carry the proof: the admins that a request has locked stay admins *)
(* until it writes (LockInv), and at most one request at a time has been   *)
(* granted a seat, which is still free (SeatInv).  What a request has read *)
(* is worth nothing when it writes, except that it read a row that is      *)
(* still there, and what its own operation makes of it (ShapeOf).          *)
(***************************************************************************)
EXTENDS Memberships, TLAPS, FiniteSetTheorems

-----------------------------------------------------------------------------
(* What each operation may read and write.                                  *)
ShapeOf(x) ==
  /\ x.op = "limit" => x.limit \in 1 .. MaxLimit /\ Cardinality(x.seats) <= x.limit
  /\ x.op \notin {"idle", "limit"} => x.user \in Users
  /\ x.op = "invite" => x.read.status \in {"none", "removed"} /\ x.new.status = "pending"
  /\ x.op = "guest" => /\ x.read.status = x.new.status /\ x.read.admin = x.new.admin
                       /\ x.read.guest # x.new.guest
  /\ x.op = "patch" => /\ x.read.guest = x.new.guest
                       /\ x.read.status # "none" /\ x.new.status # "none"
                       /\ x.read.status = "removed" => x.new.status = "removed"
  /\ x.op = "remove" => ~Governs(x.new)
  /\ x.op = "leave" => x.read.status \notin {"none", "removed"}
  /\ x.op \in {"accept", "withdraw"} => x.read.status = "pending"
  /\ x.op = "accept" => x.new.status = "active"
  /\ x.op \in {"leave", "withdraw"} => x.new.status = "removed"
  /\ x.op \in {"accept", "leave", "withdraw"} =>
       x.read.admin = x.new.admin /\ x.read.guest = x.new.guest

(* The row that a request will update exists.                               *)
RowThere(x) == x.op \notin {"idle", "limit"} /\ ~Inserts(x) => member[x.user].status # "none"

ShapeInv == \A r \in Requests : ShapeOf(req[r]) /\ RowThere(req[r])

(* The request keeps another admin locked, or leaves its user one.          *)
KeepsAdmin(x) == x.locks \ {x.user} # {} \/ Governs(x.new)

LockInv ==
  /\ \A r \in Requests : req[r].locks \subseteq Admins
  /\ \A r \in Requests : MayUnseatAdmin(req[r]) /\ req[r].checked => KeepsAdmin(req[r])

Granted(x) == NeedsSeat(x) /\ x.checked

SeatInv ==
  /\ \A r, s \in Requests : Granted(req[r]) /\ Granted(req[s]) => r = s
  /\ ~raced => \A r \in Requests : Granted(req[r]) /\ req[r].limit = limit => Used < limit

IInv == TypeOK /\ ShapeInv /\ LockInv /\ SeatInv /\ SeatsWithinLimit

-----------------------------------------------------------------------------
(* A request begins: it has read a row, and locked nothing.                 *)
Opens(r, x) ==
  /\ x \in RequestType /\ ShapeOf(x) /\ RowThere(x)
  /\ x.locks = {} /\ ~x.checked
  /\ req' = [req EXCEPT ![r] = x]
  /\ UNCHANGED <<member, limit, raced>>

LEMMA RowTypes == NoRow \in RowType
BY DEF NoRow, Row, RowType

LEMMA BeginOpens ==
  ASSUME TypeOK, NEW r \in Requests, NEW u \in Users, NEW old \in RowType, NEW new \in RowType,
         NEW op \in {"invite", "guest", "patch", "remove", "leave", "accept", "withdraw"},
         Begin(r, op, u, old, new),
         \A n : LET x == Asked(op, u, old, new, n) IN ShapeOf(x) /\ RowThere(x)
  PROVE  \E x : Opens(r, x)
<1>1. PICK n \in {0, limit} : req' = [req EXCEPT ![r] = Asked(op, u, old, new, n)]
  BY DEF Begin
<1>2. n \in 0 .. MaxLimit
  BY LimitAssumption DEF TypeOK
<1> QED
  BY <1>1, <1>2 DEF Begin, Opens, Asked, RequestType

LEMMA ReadsOpen ==
  ASSUME IInv, NEW r \in Requests, NEW u \in Users, Read(r, u)
  PROVE  \E x : Opens(r, x)
<1>1. /\ member[u] \in RowType /\ TypeOK
      /\ member[u].status \in {"none", "pending", "active", "suspended", "removed"}
      /\ member[u].admin \in BOOLEAN /\ member[u].guest \in BOOLEAN
  BY DEF IInv, TypeOK, RowType
<1> USE <1>1 DEF ShapeOf, RowThere, Inserts, Asked, Row, RowType
<1>3. CASE Invite(r, u)
  <2>1. PICK admin \in BOOLEAN, guest \in BOOLEAN :
          Begin(r, "invite", u, member[u], Row("pending", admin, guest))
    BY <1>3 DEF Invite
  <2>2. Row("pending", admin, guest) \in RowType
    OBVIOUS
  <2>3. \A n : LET x == Asked("invite", u, member[u], Row("pending", admin, guest), n)
               IN  ShapeOf(x) /\ RowThere(x)
    BY <1>3 DEF Invite
  <2> HIDE DEF ShapeOf, RowThere, Inserts, Asked, Row, RowType
  <2> QED
    BY <2>1, <2>2, <2>3, BeginOpens
<1>4. CASE ToggleGuest(r, u)
  <2> DEFINE old == Row("none", FALSE, member[u].guest)
             new == Row("none", FALSE, ~member[u].guest)
  <2>1. old \in RowType /\ new \in RowType
    OBVIOUS
  <2>2. \A n : LET x == Asked("guest", u, old, new, n) IN ShapeOf(x) /\ RowThere(x)
    BY <1>4 DEF ToggleGuest
  <2>3. Begin(r, "guest", u, old, new)
    BY <1>4 DEF ToggleGuest
  <2> HIDE DEF ShapeOf, RowThere, Inserts, Asked, Row, RowType, old, new
  <2> QED
    BY <2>1, <2>2, <2>3, BeginOpens
<1>5. CASE Patch(r, u)
  <2> DEFINE old == Row(member[u].status, member[u].admin, FALSE)
  <2>1. PICK status \in {"pending", "active", "suspended", "removed"}, admin \in BOOLEAN :
          /\ Transition(member[u].status, status)
          /\ Begin(r, "patch", u, old, Row(status, admin, FALSE))
    BY <1>5 DEF Patch
  <2> DEFINE new == Row(status, admin, FALSE)
  <2>2. old \in RowType /\ new \in RowType
    OBVIOUS
  <2>3. \A n : LET x == Asked("patch", u, old, new, n) IN ShapeOf(x) /\ RowThere(x)
    BY <1>5, <2>1 DEF Patch, Transition
  <2> HIDE DEF ShapeOf, RowThere, Inserts, Asked, Row, RowType, old
  <2> QED
    BY <2>1, <2>2, <2>3, BeginOpens
<1>6. CASE Remove(r, u)
  <2>1. NoRow \in RowType
    BY DEF NoRow
  <2>2. \A n : LET x == Asked("remove", u, NoRow, NoRow, n) IN ShapeOf(x) /\ RowThere(x)
    BY <1>6 DEF Remove, Governs, NoRow
  <2>3. Begin(r, "remove", u, NoRow, NoRow)
    BY <1>6 DEF Remove
  <2> HIDE DEF ShapeOf, RowThere, Inserts, Asked, Row, RowType
  <2> QED
    BY <2>1, <2>2, <2>3, BeginOpens
<1>7. ASSUME NEW op \in {"leave", "accept", "withdraw"}, NEW st \in {"active", "removed"},
             Move(r, op, u, st),
             op \in {"accept", "withdraw"} => Pending(u),
             op = "leave" => member[u].status \notin {"none", "removed"},
             op = "accept" => st = "active",
             op \in {"leave", "withdraw"} => st = "removed"
      PROVE  \E x : Opens(r, x)
  <2> DEFINE old == Row(member[u].status, FALSE, FALSE)
             new == Row(st, FALSE, FALSE)
  <2>1. old \in RowType /\ new \in RowType
    OBVIOUS
  <2>2. \A n : LET x == Asked(op, u, old, new, n) IN ShapeOf(x) /\ RowThere(x)
    BY <1>7 DEF Pending
  <2>3. op \in {"invite", "guest", "patch", "remove", "leave", "accept", "withdraw"}
        /\ Begin(r, op, u, old, new)
    BY <1>7 DEF Move
  <2> HIDE DEF ShapeOf, RowThere, Inserts, Asked, Row, RowType, old, new
  <2> QED
    BY <2>1, <2>2, <2>3, BeginOpens
<1>8. CASE Leave(r, u)
  BY <1>7, <1>8 DEF Leave
<1>9. CASE Accept(r, u) \/ AcceptAtLogin(r, u) \/ Withdraw(r, u)
  BY <1>7, <1>9 DEF Accept, AcceptAtLogin, Withdraw
<1> QED
  BY <1>3, <1>4, <1>5, <1>6, <1>8, <1>9 DEF Read

LEMMA RelimitOpens ==
  ASSUME IInv, NEW r \in Requests, NEW n \in 1 .. MaxLimit, Relimit(r, n)
  PROVE  \E x : Opens(r, x)
<1> DEFINE x == [Asked("limit", Nobody, NoRow, NoRow, n) EXCEPT !.seats = Seated]
<1>1. x \in RequestType
  <2> DEFINE y == Asked("limit", Nobody, NoRow, NoRow, n)
  <2>1. y \in RequestType
    BY LimitAssumption DEF Asked, RequestType, NoRow, Row, RowType
  <2>2. Seated \in SUBSET Users
    BY DEF Seated
  <2> HIDE DEF y
  <2>3. [y EXCEPT !.seats = Seated] \in RequestType
    BY <2>1, <2>2 DEF RequestType
  <2> QED
    BY <2>3 DEF y
<1>2. x.op = "limit" /\ x.limit = n /\ x.seats = Seated /\ x.locks = {} /\ ~x.checked
  BY DEF Asked
<1>3. req' = [req EXCEPT ![r] = x] /\ UNCHANGED <<member, limit, raced>> /\ Used <= n
  BY DEF Relimit
<1> HIDE DEF x
<1>4. ShapeOf(x) /\ RowThere(x)
  BY <1>2, <1>3 DEF ShapeOf, RowThere, Used
<1> QED
  BY <1>1, <1>2, <1>3, <1>4 DEF Opens

LEMMA OpensKeeps ==
  ASSUME IInv, NEW r \in Requests, NEW x, Opens(r, x)
  PROVE  IInv'
<1> USE DEF Opens, IInv
<1>1. req'[r] = x /\ \A s \in Requests \ {r} : req'[s] = req[s]
  BY DEF TypeOK
<1>2. TypeOK'
  BY DEF TypeOK
<1>3. ShapeInv'
  BY <1>1 DEF ShapeInv, RowThere
<1>4. Admins' = Admins /\ Used' = Used
  BY DEF Admins, Used, Seated
<1>5. LockInv'
  BY <1>1, <1>4 DEF LockInv
<1>6. SeatInv'
  BY <1>1, <1>4 DEF SeatInv, Granted
<1>7. SeatsWithinLimit'
  BY <1>4 DEF SeatsWithinLimit
<1> QED
  BY <1>2, <1>3, <1>5, <1>6, <1>7

-----------------------------------------------------------------------------
(* One request moves, and everything else stays: a check or an end.         *)
LEMMA Fields ==
  ASSUME TypeOK, NEW r \in Requests
  PROVE  /\ req[r] \in RequestType
         /\ req[r].op \in {"idle", "invite", "guest", "patch", "remove", "leave",
                          "accept", "withdraw", "limit"}
         /\ req[r].read \in RowType /\ req[r].new \in RowType
         /\ req[r].limit \in 0 .. MaxLimit
         /\ [req[r] EXCEPT !.checked = TRUE] \in RequestType
         /\ \A S \in SUBSET Users : [req[r] EXCEPT !.checked = TRUE, !.locks = S] \in RequestType
BY DEF TypeOK, RequestType

LEMMA CheckSeatKeeps ==
  ASSUME IInv, NEW r \in Requests, CheckSeat(r)
  PROVE  IInv'
<1> DEFINE x == [req[r] EXCEPT !.checked = TRUE]
<1>1. x \in RequestType /\ req[r] \in RequestType
  BY Fields DEF IInv
<1>2. /\ x.op = req[r].op /\ x.user = req[r].user /\ x.read = req[r].read /\ x.new = req[r].new
      /\ x.limit = req[r].limit /\ x.locks = req[r].locks /\ x.checked
      /\ x.seats = req[r].seats
  BY <1>1 DEF RequestType
<1>3. req' = [req EXCEPT ![r] = x] /\ UNCHANGED <<member, limit, raced>>
  BY DEF CheckSeat
<1> HIDE DEF x
<1>4. req'[r] = x /\ \A s \in Requests \ {r} : req'[s] = req[s]
  BY <1>3 DEF IInv, TypeOK
<1>5. Admins' = Admins /\ Used' = Used
  BY <1>3 DEF Admins, Used, Seated
<1>6. NeedsSeat(req[r]) /\ Used < req[r].limit /\ \A s \in Requests : ~Granted(req[s])
  BY DEF CheckSeat, OrganizationLocked, Granted
<1>7. TypeOK'
  BY <1>1, <1>3 DEF IInv, TypeOK
<1>8. ShapeInv'
  <2>1. ShapeOf(x) /\ RowThere(x)
    BY <1>2, <1>3 DEF IInv, ShapeInv, ShapeOf, RowThere, Inserts
  <2> QED
    BY <1>3, <1>4, <2>1 DEF IInv, ShapeInv, RowThere
<1>9. LockInv'
  BY <1>2, <1>4, <1>5, <1>6 DEF IInv, LockInv, NeedsSeat, MayUnseatAdmin
<1>10. SeatInv'
  <2>1. \A s \in Requests \ {r} : ~Granted(req'[s])
    BY <1>4, <1>6
  <2>2. \A s, t \in Requests : Granted(req'[s]) /\ Granted(req'[t]) => s = t
    BY <2>1
  <2>3. \A s \in Requests : Granted(req'[s]) /\ req'[s].limit = limit => Used < limit
    BY <1>2, <1>4, <1>6, <2>1
  <2> QED
    BY <1>3, <1>5, <2>2, <2>3 DEF SeatInv
<1>11. SeatsWithinLimit'
  BY <1>3, <1>5 DEF IInv, SeatsWithinLimit
<1> QED
  BY <1>7, <1>8, <1>9, <1>10, <1>11 DEF IInv

LEMMA CheckAdminKeeps ==
  ASSUME IInv, NEW r \in Requests, CheckAdmin(r)
  PROVE  IInv'
<1>1. PICK S \in SUBSET (Admins \ LockedByOthers(r)) :
        /\ S \ {req[r].user} # {} \/ Governs(req[r].new)
        /\ req' = [req EXCEPT ![r].checked = TRUE, ![r].locks = S]
  BY DEF CheckAdmin
<1> DEFINE x == [req[r] EXCEPT !.checked = TRUE, !.locks = S]
<1>2. x \in RequestType /\ req[r] \in RequestType
  BY Fields DEF IInv, Admins
<1>3. /\ x.op = req[r].op /\ x.user = req[r].user /\ x.read = req[r].read /\ x.new = req[r].new
      /\ x.limit = req[r].limit /\ x.locks = S /\ x.checked
      /\ x.seats = req[r].seats
  BY <1>2 DEF RequestType
<1>4. req' = [req EXCEPT ![r] = x] /\ UNCHANGED <<member, limit, raced>>
  BY <1>1 DEF CheckAdmin, IInv, TypeOK
<1> HIDE DEF x
<1>5. req'[r] = x /\ \A s \in Requests \ {r} : req'[s] = req[s]
  BY <1>4 DEF IInv, TypeOK
<1>6. Admins' = Admins /\ Used' = Used
  BY <1>4 DEF Admins, Used, Seated
<1>7. TypeOK'
  BY <1>2, <1>4 DEF IInv, TypeOK
<1>8. ShapeInv'
  <2>1. ShapeOf(x) /\ RowThere(x)
    BY <1>3, <1>4 DEF IInv, ShapeInv, ShapeOf, RowThere, Inserts
  <2> QED
    BY <1>4, <1>5, <2>1 DEF IInv, ShapeInv, RowThere
<1>9. LockInv'
  <2>1. x.locks \subseteq Admins /\ KeepsAdmin(x)
    BY <1>1, <1>3 DEF KeepsAdmin
  <2> QED
    BY <1>5, <1>6, <2>1 DEF IInv, LockInv
<1>10. SeatInv'
  <2>1. ~Granted(x)
    BY <1>3 DEF CheckAdmin, Granted, NeedsSeat, MayUnseatAdmin
  <2> QED
    BY <1>4, <1>5, <1>6, <2>1 DEF IInv, SeatInv
<1>11. SeatsWithinLimit'
  BY <1>4, <1>6 DEF IInv, SeatsWithinLimit
<1> QED
  BY <1>7, <1>8, <1>9, <1>10, <1>11 DEF IInv

LEMMA IdleOK ==
  /\ Idle \in RequestType /\ ShapeOf(Idle) /\ Idle.locks = {} /\ ~Idle.checked
  /\ ~Granted(Idle) /\ ~MayUnseatAdmin(Idle)
  /\ RowThere(Idle) /\ (RowThere(Idle))'
BY LimitAssumption DEF Idle, Asked, RequestType, ShapeOf, RowThere, Granted, NeedsSeat,
   MayUnseatAdmin, NoRow, Row, RowType

LEMMA AbortKeeps ==
  ASSUME IInv, NEW r \in Requests, Abort(r)
  PROVE  IInv'
<1>1. req'[r] = Idle /\ \A s \in Requests \ {r} : req'[s] = req[s]
  BY DEF Abort, IInv, TypeOK
<1>2. UNCHANGED <<member, limit, raced>> /\ Admins' = Admins /\ Used' = Used
  BY DEF Abort, Admins, Used, Seated
<1>3. TypeOK'
  BY IdleOK, <1>2 DEF Abort, IInv, TypeOK
<1>4. ShapeInv'
  BY IdleOK, <1>1, <1>2 DEF IInv, ShapeInv, RowThere
<1>5. LockInv'
  BY IdleOK, <1>1, <1>2 DEF IInv, LockInv
<1>6. SeatInv'
  BY IdleOK, <1>1, <1>2 DEF IInv, SeatInv
<1>7. SeatsWithinLimit'
  BY <1>2 DEF IInv, SeatsWithinLimit
<1> QED
  BY <1>3, <1>4, <1>5, <1>6, <1>7 DEF IInv

LEMMA WriteLimitKeeps ==
  ASSUME IInv, NEW r \in Requests, WriteLimit(r)
  PROVE  IInv'
<1>1. req'[r] = Idle /\ \A s \in Requests \ {r} : req'[s] = req[s]
  BY DEF WriteLimit, IInv, TypeOK
<1>2. UNCHANGED member /\ Admins' = Admins /\ Used' = Used
  BY DEF WriteLimit, Admins, Used, Seated
<1>3. TypeOK'
  BY IdleOK, <1>2 DEF WriteLimit, IInv, TypeOK, ShapeInv, ShapeOf
<1>4. ShapeInv'
  BY IdleOK, <1>1, <1>2 DEF IInv, ShapeInv, RowThere
<1>5. LockInv'
  BY IdleOK, <1>1, <1>2 DEF IInv, LockInv
<1>6. SeatInv'
  <2>1. \A s \in Requests : ~Granted(req'[s])
    BY IdleOK, <1>1 DEF WriteLimit, OrganizationLocked, Granted
  <2> QED
    BY <2>1 DEF SeatInv
<1>7. SeatsWithinLimit'
  <2> DEFINE seats == req[r].seats
  <2>1. /\ seats \subseteq Users /\ Cardinality(seats) <= limit'
        /\ ~raced' => Seated \subseteq seats
    BY DEF WriteLimit, IInv, TypeOK, RequestType, ShapeInv, ShapeOf
  <2>2. IsFiniteSet(seats)
    BY <2>1, FS_Subset, UsersAssumption
  <2>3. ~raced' => Used <= Cardinality(seats)
    BY <2>1, <2>2, FS_Subset DEF Used
  <2>4. Used \in Nat /\ Cardinality(seats) \in Nat /\ limit' \in Nat
    <3>1. IsFiniteSet(Seated)
      BY FS_Subset, UsersAssumption DEF Seated
    <3> QED
      BY <1>3, <2>2, <3>1, FS_CardinalityType DEF Used, TypeOK
  <2> HIDE DEF seats
  <2> QED
    BY <1>2, <2>1, <2>3, <2>4 DEF SeatsWithinLimit
<1> QED
  BY <1>3, <1>4, <1>5, <1>6, <1>7 DEF IInv

-----------------------------------------------------------------------------
(* What a write makes of the row: what each part of the invariant needs.    *)
LEMMA WrittenRow ==
  ASSUME NEW x \in RequestType, NEW m \in RowType, ShapeOf(x),
         x.op \notin {"idle", "limit"}
  PROVE  /\ Written(x, m) \in RowType
         /\ Inserts(x) \/ m.status # "none" =>
              (x.op = "remove" /\ Written(x, m) = NoRow) \/ Written(x, m).status # "none"
BY DEF Written, Column, Inserts, ShapeOf, RequestType, RowType, NoRow, Row

(* A request that was granted no seat takes none, unless it revives a row.  *)
LEMMA NoSeatTaken ==
  ASSUME NEW x \in RequestType, NEW m \in RowType, ShapeOf(x),
         x.op \notin {"idle", "limit"}, ~NeedsSeat(x), ~Revives(x, m),
         TakesSeat(Written(x, m))
  PROVE  TakesSeat(m)
<1> SUFFICES ASSUME ~TakesSeat(m) PROVE FALSE
  OBVIOUS
<1>1. m.status = x.read.status /\ (x.op = "invite" => m.guest = x.read.guest)
  BY DEF Revives
<1> USE <1>1 DEF ShapeOf, TakesSeat, Written, Column, Inserts, NeedsSeat, Row, NoRow, RequestType, RowType
<1>2. CASE x.op = "invite"
  BY <1>2
<1>3. CASE x.op = "guest"
  BY <1>3
<1>4. CASE x.op \in {"patch", "remove"}
  BY <1>4
<1>5. CASE x.op \in {"leave", "accept", "withdraw"}
  BY <1>5
<1> QED
  BY <1>2, <1>3, <1>4, <1>5

(* Who unseats an admin: a checked request that keeps no other admin and    *)
(* leaves its user none, or a late answer to an invitation.                 *)
LEMMA WhoUnseats ==
  ASSUME NEW x \in RequestType, NEW m \in RowType, ShapeOf(x),
         x.op \notin {"idle", "limit"}, Inserts(x) => m.status = "none",
         Governs(m), ~Governs(Written(x, m))
  PROVE  \/ MayUnseatAdmin(x) /\ ~Governs(x.new)
         \/ /\ x.op \in {"withdraw", "invite"} /\ x.read.status \in {"pending", "removed"}
            /\ Written(x, m).status = x.new.status
<1> USE DEF ShapeOf, Governs, Written, Column, Inserts, Row, NoRow, RequestType, RowType
<1>1. CASE MayUnseatAdmin(x)
  BY <1>1 DEF MayUnseatAdmin
<1>2. CASE x.op \in {"guest", "accept"}
  BY <1>2
<1>3. CASE x.op \in {"withdraw", "invite"}
  BY <1>3
<1> QED
  BY <1>1, <1>2, <1>3 DEF MayUnseatAdmin

LEMMA WriteFacts ==
  ASSUME IInv, NEW r \in Requests, Write(r)
  PROVE  /\ req[r] \in RequestType /\ ShapeOf(req[r]) /\ req[r].op \notin {"idle", "limit"}
         /\ req[r].user \in Users /\ member[req[r].user] \in RowType
         /\ Inserts(req[r]) \/ member[req[r].user].status # "none"
         /\ member'[req[r].user] = Written(req[r], member[req[r].user])
         /\ \A u \in Users \ {req[r].user} : member'[u] = member[u]
         /\ req'[r] = Idle
         /\ \A s \in Requests \ {r} :
              \/ req'[s] = Idle
              \/ /\ req'[s] = req[s]
                 /\ ~(req[r].op = "remove" /\ Fails(req[s], req[r].user))
<1>1. req[r] \in RequestType /\ ShapeOf(req[r]) /\ RowThere(req[r])
  BY DEF IInv, TypeOK, ShapeInv
<1>2. req[r].op \notin {"idle", "limit"}
  BY DEF Write
<1>3. req[r].user \in Users
  BY <1>1, <1>2 DEF ShapeOf
<1>4. member' = [member EXCEPT ![req[r].user] = Written(req[r], @)]
  BY DEF Write
<1>5. req' = [s \in Requests |-> IF s = r \/ (req[r].op = "remove" /\ Fails(req[s], req[r].user))
                                THEN Idle ELSE req[s]]
  BY DEF Write
<1> QED
  BY <1>1, <1>2, <1>3, <1>4, <1>5 DEF IInv, TypeOK, RowThere

LEMMA UsedIsFinite ==
  /\ IsFiniteSet({u \in Users : TakesSeat(member[u])}) /\ Used \in Nat
  /\ Used' \in Nat
<1>1. /\ IsFiniteSet({u \in Users : TakesSeat(member[u])})
      /\ IsFiniteSet({u \in Users : TakesSeat(member'[u])})
  BY FS_Subset, UsersAssumption
<1> QED
  BY <1>1, FS_CardinalityType DEF Used, Seated

(* A write takes one seat at most, and none without a grant or a revival.   *)
LEMMA SeatsOfAWrite ==
  ASSUME IInv, NEW r \in Requests, Write(r)
  PROVE  /\ Used' <= Used + 1
         /\ ~NeedsSeat(req[r]) /\ ~Revives(req[r], member[req[r].user]) => Used' <= Used
<1> DEFINE x == req[r]
           old == {u \in Users : TakesSeat(member[u])}
           new == {u \in Users : TakesSeat(member'[u])}
<1>1. IsFiniteSet(old) /\ Used \in Nat /\ Used = Cardinality(old) /\ Used' = Cardinality(new)
  BY UsedIsFinite DEF Used, Seated
<1>2. new \subseteq old \cup {x.user}
  BY WriteFacts
<1>3. IsFiniteSet(old \cup {x.user}) /\ Cardinality(old \cup {x.user}) <= Cardinality(old) + 1
  BY <1>1, FS_AddElement
<1>4. Used' <= Used + 1
  <2>1. Cardinality(new) <= Cardinality(old \cup {x.user}) /\ Cardinality(new) \in Nat
    BY <1>2, <1>3, FS_Subset, FS_CardinalityType
  <2>2. Cardinality(old \cup {x.user}) \in Nat
    BY <1>3, FS_CardinalityType
  <2> QED
    BY <1>1, <1>3, <2>1, <2>2
<1>5. ASSUME ~NeedsSeat(x), ~Revives(x, member[x.user]) PROVE Used' <= Used
  <2>1. new \subseteq old
    BY <1>2, <1>5, WriteFacts, NoSeatTaken
  <2> QED
    BY <1>1, <2>1, FS_Subset
<1> QED
  BY <1>4, <1>5

LEMMA WriteKeeps ==
  ASSUME IInv, NEW r \in Requests, Write(r)
  PROVE  IInv'
<1> DEFINE x == req[r]
           m == member[x.user]
<1>1. Written(x, m) \in RowType
      /\ ((x.op = "remove" /\ Written(x, m) = NoRow) \/ Written(x, m).status # "none")
  BY WriteFacts, WrittenRow
<1>2. TypeOK'
  <2>1. member' \in [Users -> RowType]
    BY <1>1, WriteFacts DEF Write, IInv, TypeOK
  <2>2. \A u \in Users : member'[u].status = "none" => member'[u] = NoRow
    BY <1>1, WriteFacts DEF IInv, TypeOK
  <2>3. req' \in [Requests -> RequestType]
    BY IdleOK DEF Write, IInv, TypeOK
  <2>4. limit' \in 1 .. MaxLimit /\ raced' \in BOOLEAN
    BY DEF Write, IInv, TypeOK
  <2> QED
    BY <2>1, <2>2, <2>3, <2>4 DEF TypeOK
<1>3. ShapeInv'
  <2> SUFFICES ASSUME NEW s \in Requests
               PROVE  ShapeOf(req'[s]) /\ (RowThere(req[s]))'
    BY DEF ShapeInv
  <2>1. CASE req'[s] = Idle
    BY <2>1, IdleOK DEF RowThere, Idle, Asked
  <2>2. CASE s # r /\ req'[s] = req[s] /\ ~(x.op = "remove" /\ Fails(req[s], x.user))
    <3>1. ShapeOf(req[s]) /\ RowThere(req[s])
      BY DEF IInv, ShapeInv
    <3>2. ASSUME req[s].op \notin {"idle", "limit"}, ~Inserts(req[s])
          PROVE  member'[req[s].user].status # "none"
      <4>1. member[req[s].user].status # "none" /\ req[s].user \in Users
        BY <3>1, <3>2 DEF RowThere, ShapeOf
      <4>2. CASE req[s].user = x.user
        BY <1>1, <2>2, <3>2, <4>2, WriteFacts DEF Fails
      <4> QED
        BY <4>1, <4>2, WriteFacts
    <3> QED
      BY <2>2, <3>1, <3>2 DEF RowThere
  <2> QED
    BY <2>1, <2>2, WriteFacts
<1>4. LockInv'
  <2>1. \A s \in Requests \ {r} : x.user \notin req[s].locks
    BY DEF Write, LockedByOthers
  <2>2. \A s \in Requests : req'[s].locks \subseteq Admins'
    BY <2>1, WriteFacts, IdleOK DEF IInv, LockInv, Admins
  <2>3. \A s \in Requests : MayUnseatAdmin(req'[s]) /\ req'[s].checked => KeepsAdmin(req'[s])
    BY WriteFacts, IdleOK DEF IInv, LockInv
  <2> QED
    BY <2>2, <2>3 DEF LockInv
<1>5. UNCHANGED limit /\ (~raced' => ~raced /\ ~Revives(x, m) /\ ~OutOfDate(x))
  BY Zenon DEF Write
<1>6. Used \in Nat /\ Used' \in Nat /\ limit \in Nat /\ x.limit \in Nat
  <2>1. x.limit \in 0 .. MaxLimit /\ limit \in 1 .. MaxLimit
    BY Fields DEF IInv, TypeOK
  <2> QED
    BY <2>1, UsedIsFinite, LimitAssumption
<1>7. NeedsSeat(x) => Granted(x)
  BY DEF Write, Granted
<1>8. ASSUME ~raced'
      PROVE  Used' <= limit /\ \A s \in Requests : Granted(req'[s]) /\ req'[s].limit = limit => Used' < limit
  <2>1. Used <= limit /\ \A s \in Requests : Granted(req[s]) /\ req[s].limit = limit => Used < limit
    BY <1>5, <1>8 DEF IInv, SeatInv, SeatsWithinLimit
  <2>2. CASE NeedsSeat(x)
    <3>1. x.limit = limit
      BY <1>5, <1>8, <2>2 DEF OutOfDate
    <3>2. Used < limit
      BY <1>7, <2>1, <2>2, <3>1
    <3>3. Used' <= limit
      BY <1>6, <3>2, SeatsOfAWrite
    <3>4. \A s \in Requests : ~Granted(req'[s])
      BY <1>7, <2>2, WriteFacts, IdleOK DEF IInv, SeatInv
    <3> QED
      BY <3>3, <3>4
  <2>3. CASE ~NeedsSeat(x)
    <3>1. Used' <= Used
      BY <1>5, <1>8, <2>3, SeatsOfAWrite
    <3>2. \A s \in Requests : Granted(req'[s]) => req'[s] = req[s]
      BY WriteFacts, IdleOK
    <3>3. ASSUME NEW s \in Requests, Granted(req'[s]), req'[s].limit = limit PROVE Used' < limit
      <4>1. Used < limit
        BY <2>1, <3>2, <3>3
      <4> QED
        BY <1>6, <3>1, <4>1
    <3>4. Used' <= limit
      BY <1>6, <2>1, <3>1
    <3> QED
      BY <3>3, <3>4
  <2> QED
    BY <2>2, <2>3
<1>9. SeatInv'
  <2>1. \A s, t \in Requests : Granted(req'[s]) /\ Granted(req'[t]) => s = t
    BY WriteFacts, IdleOK DEF IInv, SeatInv
  <2> QED
    BY <1>5, <1>8, <2>1 DEF SeatInv
<1>10. SeatsWithinLimit'
  BY <1>5, <1>8 DEF SeatsWithinLimit
<1> QED
  BY <1>2, <1>3, <1>4, <1>9, <1>10 DEF IInv

LEMMA DeleteAccountKeeps ==
  ASSUME IInv, NEW u \in Users, DeleteAccount(u)
  PROVE  IInv'
<1>1. /\ member'[u] = NoRow /\ \A v \in Users \ {u} : member'[v] = member[v]
      /\ \A r \in Requests : req'[r] = Idle \/ (req'[r] = req[r] /\ ~Fails(req[r], u))
      /\ UNCHANGED <<limit, raced>>
  <2>1. member' = [member EXCEPT ![u] = NoRow] /\ member \in [Users -> RowType]
    BY DEF DeleteAccount, IInv, TypeOK
  <2>2. req' = [r \in Requests |-> IF Fails(req[r], u) THEN Idle ELSE req[r]]
        /\ UNCHANGED <<limit, raced>>
    BY DEF DeleteAccount
  <2>3. ASSUME NEW r \in Requests
        PROVE  req'[r] = Idle \/ (req'[r] = req[r] /\ ~Fails(req[r], u))
    <3>1. req'[r] = IF Fails(req[r], u) THEN Idle ELSE req[r]
      BY <2>2
    <3> QED
      BY <3>1
  <2>4. member'[u] = NoRow /\ \A v \in Users \ {u} : member'[v] = member[v]
    BY <2>1
  <2> QED
    BY <2>2, <2>3, <2>4
<1>2. Used' <= Used
  <2>1. {v \in Users : TakesSeat(member'[v])} \subseteq {v \in Users : TakesSeat(member[v])}
    BY <1>1 DEF TakesSeat, NoRow, Row
  <2> QED
    BY <2>1, UsedIsFinite, FS_Subset DEF Used, Seated
<1>3. TypeOK'
  BY IdleOK, RowTypes DEF DeleteAccount, IInv, TypeOK
<1>4. ShapeInv'
  <2> SUFFICES ASSUME NEW r \in Requests
               PROVE  ShapeOf(req'[r]) /\ (RowThere(req[r]))'
    BY DEF ShapeInv
  <2>1. CASE req'[r] = Idle
    BY <2>1, IdleOK DEF RowThere, Idle, Asked
  <2>2. CASE req'[r] = req[r] /\ ~Fails(req[r], u)
    BY <1>1, <2>2 DEF IInv, ShapeInv, ShapeOf, RowThere, Fails
  <2> QED
    BY <1>1, <2>1, <2>2
<1>5. LockInv'
  <2>1. \A r \in Requests : req'[r].locks \subseteq Admins'
    BY <1>1, IdleOK DEF DeleteAccount, IInv, LockInv, Admins
  <2> QED
    BY <1>1, <2>1, IdleOK DEF IInv, LockInv
<1>6. SeatInv' /\ SeatsWithinLimit'
  <2>1. Used \in Nat /\ Used' \in Nat /\ limit \in Nat
    BY UsedIsFinite, LimitAssumption DEF IInv, TypeOK
  <2>2. \A r \in Requests : Granted(req'[r]) => req'[r] = req[r]
    BY <1>1, IdleOK
  <2>3. \A r, s \in Requests : Granted(req'[r]) /\ Granted(req'[s]) => r = s
    BY <2>2 DEF IInv, SeatInv
  <2>4. ASSUME ~raced, NEW r \in Requests, Granted(req'[r]), req'[r].limit = limit
        PROVE  Used' < limit
    <3>1. Used < limit
      BY <2>2, <2>4 DEF IInv, SeatInv
    <3> QED
      BY <1>2, <2>1, <3>1
  <2>5. ~raced => Used' <= limit
    BY <1>2, <2>1 DEF IInv, SeatsWithinLimit
  <2> QED
    BY <1>1, <2>3, <2>4, <2>5 DEF SeatInv, SeatsWithinLimit
<1> QED
  BY <1>3, <1>4, <1>5, <1>6 DEF IInv

-----------------------------------------------------------------------------
LEMMA Initially == Init => IInv
<1> SUFFICES ASSUME Init PROVE IInv
  OBVIOUS
<1>1. \A r \in Requests : req[r] = Idle
  BY DEF Init
<1>2. PICK founder \in Users :
        member = [u \in Users |-> IF u = founder THEN Row("pending", TRUE, FALSE) ELSE NoRow]
  BY DEF Init
<1>3. TypeOK
  BY <1>2, IdleOK DEF Init, TypeOK, RowType, NoRow, Row
<1>4. ShapeInv /\ LockInv /\ SeatInv
  BY <1>1, IdleOK DEF ShapeInv, LockInv, SeatInv
<1>5. SeatsWithinLimit
  <2>1. {u \in Users : TakesSeat(member[u])} = {founder}
    BY <1>2 DEF TakesSeat, NoRow, Row
  <2>2. Used = 1
    BY <2>1, FS_Singleton DEF Used, Seated
  <2> QED
    BY <1>3, <2>2 DEF TypeOK, SeatsWithinLimit
<1> QED
  BY <1>3, <1>4, <1>5 DEF IInv

LEMMA Invariance == IInv /\ [Next]_vars => IInv'
<1>1. ASSUME IInv, UNCHANGED vars PROVE IInv'
  <2>1. Admins' = Admins /\ Used' = Used
    BY <1>1 DEF vars, Admins, Used, Seated
  <2> QED
    BY <1>1, <2>1 DEF vars, IInv, TypeOK, ShapeInv, RowThere, LockInv, SeatInv, SeatsWithinLimit
<1>2. ASSUME IInv, NEW r \in Requests, NEW u \in Users, Read(r, u) PROVE IInv'
  BY <1>2, ReadsOpen, OpensKeeps
<1>3. ASSUME IInv, NEW r \in Requests, NEW n \in 1 .. MaxLimit, Relimit(r, n) PROVE IInv'
  BY <1>3, RelimitOpens, OpensKeeps
<1>4. ASSUME IInv, NEW r \in Requests, Proceed(r) PROVE IInv'
  BY <1>4, CheckSeatKeeps, CheckAdminKeeps, WriteKeeps, WriteLimitKeeps, AbortKeeps DEF Proceed
<1>5. ASSUME IInv, NEW u \in Users, DeleteAccount(u) PROVE IInv'
  BY <1>5, DeleteAccountKeeps
<1> QED
  BY <1>1, <1>2, <1>3, <1>4, <1>5 DEF Next

(* Every reachable state is well typed, and no user without a row has       *)
(* rights, for any number of users and requests.                            *)
THEOREM TypeCorrect == Spec => []TypeOK
<1>1. IInv => TypeOK
  BY DEF IInv
<1> QED
  BY <1>1, Initially, Invariance, PTL DEF Spec

(* The seats in use stay within the limit until a request writes to a row   *)
(* or under a limit that is not what it has read.                           *)
THEOREM SeatsStayWithinLimit == Spec => []SeatsWithinLimit
<1>1. IInv => SeatsWithinLimit
  BY DEF IInv
<1> QED
  BY <1>1, Initially, Invariance, PTL DEF Spec

(* A step that leaves the organization without an admin is the late answer  *)
(* to an invitation that was taken up since, or the end of an account.      *)
LEMMA HeadlessStep ==
  ASSUME IInv, [Next]_vars, Admins # {}, Admins' = {}
  PROVE  (\E r \in Requests : TakenUp(r)) \/ (\E u \in Users : DeleteAccount(u))
<1>1. CASE UNCHANGED member
  BY <1>1 DEF Admins
<1>2. ASSUME NEW r \in Requests, Write(r) PROVE TakenUp(r)
  <2> DEFINE x == req[r]
             m == member[x.user]
  <2>1. Admins \subseteq {x.user} /\ Governs(m) /\ ~Governs(Written(x, m))
    BY <1>2, WriteFacts DEF Admins
  <2>2. ~(MayUnseatAdmin(x) /\ ~Governs(x.new))
    BY <1>2, <2>1 DEF Write, IInv, LockInv, KeepsAdmin
  <2>3. Inserts(x) => m.status = "none"
    BY <1>2 DEF Write
  <2>4. /\ x.op \in {"withdraw", "invite"} /\ x.read.status \in {"pending", "removed"}
        /\ Written(x, m).status = x.new.status
    BY <1>2, <2>1, <2>2, <2>3, WriteFacts, WhoUnseats
  <2>5. req'[r] # x
    BY <1>2, WriteFacts DEF Idle, Asked
  <2> QED
    BY <1>2, <2>1, <2>4, <2>5, WriteFacts DEF TakenUp
<1>3. \/ UNCHANGED member \/ \E r \in Requests : Write(r)
      \/ \E u \in Users : DeleteAccount(u)
  <2>1. ASSUME NEW r \in Requests, NEW u \in Users, Read(r, u) PROVE UNCHANGED member
    BY <2>1, ReadsOpen DEF Opens
  <2>2. ASSUME NEW r \in Requests, NEW n \in 1 .. MaxLimit, Relimit(r, n) PROVE UNCHANGED member
    BY <2>2 DEF Relimit
  <2>3. ASSUME NEW r \in Requests, Proceed(r) PROVE UNCHANGED member \/ Write(r)
    BY <2>3 DEF Proceed, CheckSeat, CheckAdmin, WriteLimit, Abort
  <2> QED
    BY <2>1, <2>2, <2>3 DEF Next, vars
<1> QED
  BY <1>1, <1>2, <1>3

(* No two demotions, removals or departures at once leave the organization  *)
(* without an admin, however many there are; only a late answer to an       *)
(* invitation does, and the end of the last admin's account.                *)
THEOREM NoOrganizationLeftHeadless == Spec => NeverHeadless
<1>1. IInv /\ [Next]_vars =>
        [Admins # {} /\ Admins' = {} =>
           (\E r \in Requests : TakenUp(r)) \/ (\E u \in Users : DeleteAccount(u))]_vars
  BY HeadlessStep
<1> QED
  BY <1>1, Initially, Invariance, PTL DEF Spec, NeverHeadless

=============================================================================

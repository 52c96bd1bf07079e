------------------------- MODULE Borgingsplan_proofs -------------------------
(***************************************************************************)
(* Proofs about Borgingsplan, for any number of requests and of versions:  *)
(* what holds of every table the transactions commit, and that these       *)
(* tables have the history that PlanHistory describes.                     *)
(***************************************************************************)
EXTENDS Borgingsplan, TLAPS

-----------------------------------------------------------------------------
(* What holds of every table the transactions commit.                       *)
Newest(t) == \A p \in Active(t), q \in Present(t) : t[q].version <= t[p].version
Started(t) == (\E p \in Plans : t[p].status # "absent") => Active(t) # {}
Gapless(t) ==
  \A p \in Present(t) :
    t[p].version = 1 \/ \E q \in Present(t) : t[q].version = t[p].version - 1
Numbered(t) == \A p \in Present(t) : t[p].version >= 1

Good(t) ==
  /\ t \in [Plans -> PlanType]
  /\ Indexed(t) /\ Newest(t) /\ Started(t) /\ Gapless(t) /\ Numbered(t)

(* A request knows a row that was inserted before it.                       *)
ReqInv ==
  /\ req \in [Requests -> RequestType]
  /\ \A r \in Requests :
    LET q == req[r] IN
    /\ q.plan \in Plans => plan[q.plan].status # "absent"
    /\ q.op \in {"publish", "new_version", "reset"} => q.plan \in Plans
    /\ q.op = "generate" /\ q.read \in {"draft", "published"} => q.plan \in Plans

IInv == Good(plan) /\ ReqInv

(* n is the greatest version in t, or 0 when there is none.                 *)
Top(t, n) ==
  /\ n \in Nat
  /\ \A p \in Present(t) : t[p].version <= n
  /\ n = 0 \/ \E p \in Present(t) : t[p].version = n

-----------------------------------------------------------------------------
LEMMA MaxIs ==
  ASSUME NEW S \in SUBSET Int, NEW m \in S, \A y \in S : y <= m
  PROVE  Max(S) = m
<1>1. m \in S /\ \A y \in S : m >= y
  OBVIOUS
<1>2. PICK x \in S : x = Max(S) /\ \A y \in S : x >= y
  BY <1>1 DEF Max
<1> QED
  BY <1>1, <1>2

(* _next_version_number is one more than the greatest version.              *)
LEMMA NextIs ==
  ASSUME NEW t \in [Plans -> PlanType], NEW n, Top(t, n)
  PROVE  NextVersion(t) = n + 1
<1> DEFINE S == {t[p].version : p \in Present(t)} \cup {0}
<1>1. S \in SUBSET Int
  BY DEF Present, PlanType
<1>2. n \in S /\ \A y \in S : y <= n
  BY DEF Top, Present, PlanType
<1> HIDE DEF S
<1>3. Max(S) = n
  BY <1>1, <1>2, MaxIs
<1> QED
  BY <1>3 DEF S, NextVersion

LEMMA RowsInTable ==
  ASSUME NEW t
  PROVE  Active(t) \subseteq Present(t) /\ Present(t) \subseteq Plans
BY DEF Active, Present

(* A draft can only be inserted where nothing is active.                    *)
LEMMA Vacant ==
  ASSUME NEW t \in [Plans -> PlanType], NEW v,
         NEW u \in WithDraft(t, v), Indexed(u)
  PROVE  /\ Active(t) = {}
         /\ \E q \in Plans : /\ t[q].status = "absent"
                             /\ u = [t EXCEPT ![q] = [status |-> "draft", version |-> v]]
<1>1. PICK q \in Plans : /\ t[q].status = "absent"
                         /\ u = [t EXCEPT ![q] = [status |-> "draft", version |-> v]]
  BY DEF WithDraft
<1>2. q \in Active(u)
  BY <1>1 DEF Active
<1>3. ASSUME NEW p \in Active(t) PROVE FALSE
  <2>1. p # q /\ u[p] = t[p]
    BY <1>1, <1>3 DEF Active
  <2>2. p \in Active(u)
    BY <1>3, <2>1 DEF Active
  <2> QED
    BY <1>2, <2>1, <2>2 DEF Indexed
<1> QED
  BY <1>1, <1>3

(* The draft that follows on the greatest version.                          *)
LEMMA Inserted ==
  ASSUME NEW t \in [Plans -> PlanType], NEW n, Top(t, n), Gapless(t), Numbered(t),
         NEW v, v = n + 1, NEW u \in WithDraft(t, v), Indexed(u)
  PROVE  Good(u)
<1>0. n \in Nat
  BY DEF Top
<1>1. PICK q \in Plans : /\ t[q].status = "absent"
                         /\ u = [t EXCEPT ![q] = [status |-> "draft", version |-> v]]
  BY <1>0, Vacant
<1>2. Active(t) = {}
  BY <1>0, Vacant
<1>3. u \in [Plans -> PlanType]
  BY <1>0, <1>1 DEF PlanType, Statuses
<1>4. u[q] = [status |-> "draft", version |-> n + 1] /\ q \notin Present(t)
  BY <1>1 DEF Present
<1>5. \A p \in Plans : p # q => u[p] = t[p]
  BY <1>1
<1>6. Active(u) = {q} /\ Present(u) = Present(t) \cup {q}
  BY <1>2, <1>4, <1>5 DEF Active, Present
<1>7. \A p \in Present(t) : u[p] = t[p] /\ t[p].version <= n /\ t[p].version \in Nat
  BY <1>4, <1>5 DEF Present, Top, PlanType
<1>8. Newest(u)
  BY <1>0, <1>4, <1>6, <1>7 DEF Newest
<1>9. Started(u)
  BY <1>6 DEF Started
<1>10. Numbered(u)
  BY <1>0, <1>4, <1>6, <1>7 DEF Numbered
<1>11. Gapless(u)
  <2>1. ASSUME NEW p \in Present(t)
        PROVE  u[p].version = 1 \/ \E g \in Present(u) : u[g].version = u[p].version - 1
    BY <1>6, <1>7, <2>1 DEF Gapless
  <2>2. u[q].version = 1 \/ \E g \in Present(u) : u[g].version = u[q].version - 1
    BY <1>0, <1>4, <1>6, <1>7 DEF Top
  <2> QED
    BY <1>6, <2>1, <2>2 DEF Gapless
<1> QED
  BY <1>3, <1>8, <1>9, <1>10, <1>11 DEF Good

-----------------------------------------------------------------------------
(* Where nothing is active, nothing ever was.                               *)
LEMMA Blank ==
  ASSUME Good(plan), Active(plan) = {}
  PROVE  Top(plan, 0) /\ Present(plan) = {} /\ \A p \in Plans : plan[p].status = "absent"
<1>1. \A p \in Plans : plan[p].status = "absent"
  BY DEF Good, Started
<1>2. Present(plan) = {}
  BY <1>1 DEF Present
<1> QED
  BY <1>1, <1>2 DEF Top

(* The plan that a committed generate or new version superseded was the     *)
(* active one.                                                              *)
LEMMA Retired ==
  ASSUME Good(plan), NEW p \in Present(plan), NEW t, t = Marked(plan, p, "superseded"),
         Active(t) = {}
  PROVE  /\ t \in [Plans -> PlanType] /\ p \in Active(plan)
         /\ Top(t, plan[p].version) /\ Gapless(t) /\ Numbered(t)
<1>1. p \in Plans /\ plan[p] \in PlanType /\ plan \in [Plans -> PlanType]
  BY DEF Present, Good
<1>2. t[p] = [plan[p] EXCEPT !.status = "superseded"] /\ \A q \in Plans : q # p => t[q] = plan[q]
  BY <1>1 DEF Marked
<1>3. t \in [Plans -> PlanType]
  BY <1>1 DEF Marked, PlanType, Statuses
<1>4. t[p].version = plan[p].version /\ t[p].status = "superseded" /\ plan[p].version \in Nat
  BY <1>1, <1>2 DEF PlanType
<1>5. Present(t) = Present(plan) /\ \A q \in Plans : t[q].version = plan[q].version
  BY <1>2, <1>4 DEF Present
<1>6. PICK a \in Active(plan) : TRUE
  BY <1>1 DEF Good, Started, Present
<1>7. a = p
  <2>1. SUFFICES ASSUME a # p PROVE FALSE
    OBVIOUS
  <2>2. a \in Active(t)
    BY <1>2, <1>6, <2>1 DEF Active
  <2> QED
    BY <2>2
<1>8. Top(t, plan[p].version)
  <2>1. \A q \in Present(t) : t[q].version <= plan[p].version
    BY <1>5, <1>6, <1>7, RowsInTable DEF Good, Newest
  <2>2. p \in Present(t) /\ t[p].version = plan[p].version
    BY <1>4, <1>5
  <2> QED
    BY <1>4, <2>1, <2>2 DEF Top
<1>9. Gapless(t) /\ Numbered(t)
  BY <1>5, RowsInTable DEF Good, Gapless, Numbered
<1> QED
  BY <1>3, <1>6, <1>7, <1>8, <1>9

(* The plan that a committed generate or reset deleted was the active one.  *)
LEMMA Dropped ==
  ASSUME Good(plan), NEW p \in Plans, plan[p].status # "absent",
         NEW t, t = Without(plan, p), Active(t) = {}
  PROVE  /\ t \in [Plans -> PlanType] /\ p \in Active(plan)
         /\ Top(t, plan[p].version - 1) /\ Gapless(t) /\ Numbered(t)
<1>1. plan[p] \in PlanType /\ plan \in [Plans -> PlanType] /\ plan[p].version \in Nat
  BY DEF Good, PlanType
<1>2. PICK a \in Active(plan) : TRUE
  BY DEF Good, Started
<1>3. p \in Present(plan) /\ t = Marked(plan, p, "deleted")
  BY <1>2 DEF Without
<1>4. t[p] = [plan[p] EXCEPT !.status = "deleted"] /\ \A q \in Plans : q # p => t[q] = plan[q]
  BY <1>1, <1>3 DEF Marked
<1>5. t \in [Plans -> PlanType]
  BY <1>1, <1>3 DEF Marked, PlanType, Statuses
<1>6. a = p
  <2>1. SUFFICES ASSUME a # p PROVE FALSE
    OBVIOUS
  <2>2. a \in Active(t)
    BY <1>2, <1>4, <2>1 DEF Active
  <2> QED
    BY <2>2
<1>7. t[p].status = "deleted"
  BY <1>1, <1>4 DEF PlanType
<1>8. Present(t) = Present(plan) \ {p}
  BY <1>4, <1>7 DEF Present
<1>9. \A q \in Present(t) : /\ q \in Present(plan) /\ q \in Plans /\ q # p /\ t[q] = plan[q]
                            /\ plan[q].version \in Nat
  BY <1>1, <1>4, <1>8 DEF Present, PlanType
<1>10. \A q \in Present(t) : plan[q].version <= plan[p].version - 1
  <2>1. TAKE q \in Present(t)
  <2>2. plan[q].version <= plan[p].version
    BY <1>2, <1>6, <1>9 DEF Good, Newest
  <2>3. plan[q].version # plan[p].version
    BY <1>3, <1>9 DEF Good, Indexed, Unique
  <2> QED
    BY <1>1, <1>9, <2>2, <2>3
<1>11. plan[p].version >= 1
  BY <1>3 DEF Good, Numbered
<1>12. plan[p].version = 1 \/ \E q \in Present(t) : t[q].version = plan[p].version - 1
  <2>1. CASE plan[p].version # 1
    <3>1. PICK q \in Present(plan) : plan[q].version = plan[p].version - 1
      BY <1>3, <2>1 DEF Good, Gapless
    <3>2. q # p
      BY <1>1, <3>1
    <3> QED
      BY <1>8, <1>9, <3>1, <3>2
  <2> QED
    BY <2>1
<1>13. Top(t, plan[p].version - 1)
  BY <1>1, <1>9, <1>10, <1>11, <1>12 DEF Top
<1>14. Numbered(t)
  BY <1>9 DEF Good, Numbered
<1>15. Gapless(t)
  <2>1. SUFFICES ASSUME NEW q \in Present(t), t[q].version # 1
                 PROVE  \E g \in Present(t) : t[g].version = t[q].version - 1
    BY DEF Gapless
  <2>2. PICK g \in Present(plan) : plan[g].version = plan[q].version - 1
    BY <1>9, <2>1 DEF Good, Gapless
  <2>3. g # p
    BY <1>1, <1>9, <1>10, <2>1, <2>2
  <2> QED
    BY <1>8, <1>9, <2>1, <2>2, <2>3
<1> QED
  BY <1>2, <1>5, <1>6, <1>13, <1>14, <1>15
-----------------------------------------------------------------------------
(* What a transaction that inserts a draft of the next version leaves.      *)
LEMMA CommitInserts ==
  ASSUME NEW t \in [Plans -> PlanType], NEW v, NEW r, Commit(r, WithDraft(t, v))
  PROVE  /\ Active(t) = {}
         /\ \A p \in Plans : t[p].status # "absent" => plan'[p] = t[p]
         /\ plan' \in WithDraft(t, v) /\ Indexed(plan')
<1>1. plan' \in WithDraft(t, v) /\ Indexed(plan')
  BY DEF Commit
<1>2. PICK q \in Plans : /\ t[q].status = "absent"
                         /\ plan' = [t EXCEPT ![q] = [status |-> "draft", version |-> v]]
  BY <1>1, Vacant
<1>3. \A p \in Plans : t[p].status # "absent" => plan'[p] = t[p]
  BY <1>2
<1> QED
  BY <1>1, <1>3, Vacant

(* A superseded row is left alone.                                          *)
Kept(t) == \A p \in Plans : plan[p].status = "superseded" => t[p] = plan[p]

LEMMA Superseding ==
  ASSUME Good(plan), NEW p \in Present(plan), NEW r,
         LET t == Marked(plan, p, "superseded") IN Commit(r, WithDraft(t, NextVersion(t)))
  PROVE  /\ Good(plan') /\ Kept(plan')
         /\ p \in Active(plan)
         /\ NextVersion(Marked(plan, p, "superseded")) = plan[p].version + 1
<1> DEFINE t == Marked(plan, p, "superseded")
<1>1. t \in [Plans -> PlanType]
  BY DEF Good, Marked, PlanType, Statuses, Present
<1>2. \A q \in Plans : plan[q].status = "superseded" => t[q] = plan[q]
  BY DEF Good, Marked, PlanType, Present
<1>3. Commit(r, WithDraft(t, NextVersion(t)))
  OBVIOUS
<1> HIDE DEF t
<1>4. /\ Active(t) = {}
      /\ \A q \in Plans : t[q].status # "absent" => plan'[q] = t[q]
      /\ plan' \in WithDraft(t, NextVersion(t)) /\ Indexed(plan')
  BY <1>1, <1>3, CommitInserts
<1>5. Top(t, plan[p].version) /\ Gapless(t) /\ Numbered(t) /\ p \in Active(plan)
  <2>1. t = Marked(plan, p, "superseded")
    BY DEF t
  <2> QED
    BY <1>4, <2>1, Retired
<1>6. NextVersion(t) = plan[p].version + 1
  BY <1>1, <1>5, NextIs
<1>7. Good(plan')
  <2> DEFINE n == plan[p].version
             v == NextVersion(t)
  <2>1. Top(t, n) /\ v = n + 1 /\ plan' \in WithDraft(t, v)
    BY <1>4, <1>5, <1>6
  <2> HIDE DEF n, v
  <2> QED
    BY <1>1, <1>4, <1>5, <2>1, Inserted
<1>8. Kept(plan')
  BY <1>2, <1>4 DEF Kept
<1> QED
  BY <1>5, <1>6, <1>7, <1>8 DEF t

(* The table that remains when the draft is put aside.                      *)
LEMMA WithoutKeeps ==
  ASSUME Good(plan), NEW p \in Plans, plan[p].status # "absent", Active(Without(plan, p)) = {}
  PROVE  Kept(Without(plan, p))
<1>1. p \in Active(plan)
  BY Dropped
<1> QED
  BY <1>1 DEF Good, Without, Marked, Kept, Active, PlanType

LEMMA WithoutTyped ==
  ASSUME Good(plan), NEW p \in Plans
  PROVE  Without(plan, p) \in [Plans -> PlanType]
BY DEF Good, Without, Marked, PlanType, Statuses

LEMMA Replacing ==
  ASSUME Good(plan), NEW p \in Plans, plan[p].status # "absent", NEW r, NEW v,
         LET t == Without(plan, p) IN
           v \in {NextVersion(t), plan[p].version} /\ Commit(r, WithDraft(t, v))
  PROVE  /\ Good(plan') /\ Kept(plan')
         /\ p \in Active(plan) /\ v = plan[p].version
<1> DEFINE t == Without(plan, p)
<1>1. t \in [Plans -> PlanType]
  BY WithoutTyped
<1>2. Commit(r, WithDraft(t, v)) /\ v \in {NextVersion(t), plan[p].version}
  OBVIOUS
<1> HIDE DEF t
<1>3. /\ Active(t) = {}
      /\ \A q \in Plans : t[q].status # "absent" => plan'[q] = t[q]
      /\ plan' \in WithDraft(t, v) /\ Indexed(plan')
  BY <1>1, <1>2, CommitInserts
<1>4. Top(t, plan[p].version - 1) /\ Gapless(t) /\ Numbered(t) /\ p \in Active(plan)
  BY <1>3, Dropped DEF t
<1>5. NextVersion(t) = (plan[p].version - 1) + 1 /\ plan[p].version \in Nat
  BY <1>1, <1>4, NextIs DEF Good, PlanType
<1>6. v = (plan[p].version - 1) + 1
  BY <1>2, <1>5
<1>7. Good(plan')
  <2> DEFINE n == plan[p].version - 1
  <2>1. Top(t, n) /\ v = n + 1
    BY <1>4, <1>6
  <2> HIDE DEF n
  <2> QED
    BY <1>1, <1>3, <1>4, <2>1, Inserted
<1>8. Kept(t)
  BY <1>3, WithoutKeeps DEF t
<1>9. Kept(plan')
  BY <1>3, <1>8 DEF Kept
<1> QED
  BY <1>4, <1>5, <1>6, <1>7, <1>9

LEMMA FirstPlan ==
  ASSUME Good(plan), NEW r, Commit(r, WithDraft(plan, NextVersion(plan)))
  PROVE  Good(plan') /\ Kept(plan')
<1>1. plan \in [Plans -> PlanType]
  BY DEF Good
<1>2. Active(plan) = {} /\ plan' \in WithDraft(plan, NextVersion(plan)) /\ Indexed(plan')
  BY <1>1, CommitInserts
<1>3. Top(plan, 0) /\ \A p \in Plans : plan[p].status = "absent"
  BY <1>2, Blank
<1>4. NextVersion(plan) = 0 + 1
  BY <1>1, <1>3, NextIs
<1>5. Good(plan')
  BY <1>1, <1>2, <1>3, <1>4, Inserted DEF Good
<1>6. Kept(plan')
  BY <1>3 DEF Kept
<1> QED
  BY <1>5, <1>6

(* Only the active plan can be published.                                   *)
LEMMA Publishing ==
  ASSUME Good(plan), NEW p \in Present(plan), NEW r, Commit(r, {Marked(plan, p, "published")})
  PROVE  Good(plan') /\ Kept(plan')
<1>1. plan' = Marked(plan, p, "published") /\ Indexed(plan')
  BY DEF Commit
<1>2. p \in Plans /\ plan \in [Plans -> PlanType]
  BY DEF Good, Present
<1>3. plan'[p] = [plan[p] EXCEPT !.status = "published"]
      /\ \A q \in Plans : q # p => plan'[q] = plan[q]
  BY <1>1, <1>2 DEF Marked
<1>4. plan'[p].status = "published" /\ plan'[p].version = plan[p].version
  BY <1>2, <1>3 DEF PlanType
<1>5. PICK a \in Active(plan) : TRUE
  BY <1>2 DEF Good, Started, Present
<1>6. a = p
  <2>1. SUFFICES ASSUME a # p PROVE FALSE
    OBVIOUS
  <2>2. a \in Active(plan') /\ p \in Active(plan')
    BY <1>2, <1>3, <1>4, <1>5, <2>1 DEF Active
  <2> QED
    BY <1>1, <2>1, <2>2 DEF Indexed
<1>7. Active(plan') = Active(plan) /\ Present(plan') = Present(plan)
      /\ \A q \in Plans : plan'[q].version = plan[q].version
  BY <1>2, <1>3, <1>4, <1>5, <1>6 DEF Active, Present
<1>8. plan' \in [Plans -> PlanType]
  BY <1>1, <1>2 DEF Marked, PlanType, Statuses
<1>9. Newest(plan') /\ Numbered(plan')
  BY <1>7, RowsInTable DEF Good, Newest, Numbered
<1>10. Gapless(plan')
  BY <1>7, RowsInTable DEF Good, Gapless
<1>11. Started(plan')
  BY <1>5, <1>7 DEF Started
<1>12. Kept(plan')
  BY <1>3, <1>5, <1>6 DEF Kept, Active
<1> QED
  BY <1>1, <1>8, <1>9, <1>10, <1>11, <1>12 DEF Good

-----------------------------------------------------------------------------
LEMMA Initially == Init => IInv
<1> SUFFICES ASSUME Init PROVE IInv
  OBVIOUS
<1>1. plan \in [Plans -> PlanType] /\ \A p \in Plans : plan[p].status = "absent"
  BY DEF Init, PlanType, Statuses
<1>2. Present(plan) = {} /\ Active(plan) = {}
  BY <1>1 DEF Present, Active
<1>3. Good(plan)
  BY <1>1, <1>2 DEF Good, Indexed, Unique, Newest, Started, Gapless, Numbered
<1>4. ReqInv
  BY NoPlanAssumption DEF Init, ReqInv, Idle, RequestType, Statuses
<1> QED
  BY <1>3, <1>4 DEF IInv

(* A row that was inserted never becomes absent again.                      *)
LEMMA Moved ==
  ASSUME IInv, NEW r \in Requests, req' = [req EXCEPT ![r] = Idle],
         \A p \in Plans : plan[p].status # "absent" => plan'[p].status # "absent"
  PROVE  ReqInv'
BY NoPlanAssumption DEF IInv, ReqInv, Idle, RequestType, Statuses

LEMMA KeptRows ==
  ASSUME NEW t, t \in [Plans -> PlanType], NEW v, NEW r, Commit(r, WithDraft(t, v)),
         \A p \in Plans : plan[p].status # "absent" => t[p].status # "absent"
  PROVE  \A p \in Plans : plan[p].status # "absent" => plan'[p].status # "absent"
BY CommitInserts

LEMMA MarkedRows ==
  ASSUME Good(plan), NEW p \in Plans, NEW s \in Statuses \ {"absent"}
  PROVE  /\ Marked(plan, p, s) \in [Plans -> PlanType]
         /\ \A q \in Plans : plan[q].status # "absent" => Marked(plan, p, s)[q].status # "absent"
BY DEF Good, Marked, PlanType, Statuses

LEMMA WithoutRows ==
  ASSUME Good(plan), NEW p \in Plans
  PROVE  \A q \in Plans : plan[q].status # "absent" => Without(plan, p)[q].status # "absent"
BY MarkedRows DEF Without, Statuses

LEMMA BeginStep ==
  ASSUME IInv, NEW r \in Requests, NEW op \in {"generate", "publish", "new_version", "reset"},
         NEW p \in Plans \cup {NoPlan}, Begin(r, op, p),
         p \in Plans => plan[p].status # "absent",
         op # "generate" => p \in Plans
  PROVE  Good(plan') /\ Kept(plan') /\ ReqInv'
<1>1. plan' = plan /\ Good(plan)
  BY DEF Begin, IInv
<1>2. Good(plan') /\ Kept(plan')
  BY <1>1 DEF Kept
<1> DEFINE q == [op |-> op, plan |-> p, read |-> IF p = NoPlan THEN "absent" ELSE plan[p].status]
<1>3. q \in RequestType
  BY <1>1, NoPlanAssumption DEF Good, RequestType, PlanType, Statuses
<1>4. req' = [req EXCEPT ![r] = q]
  BY DEF Begin
<1>5. q.op = op /\ q.plan = p /\ (q.read # "absent" => p # NoPlan)
  OBVIOUS
<1> HIDE DEF q
<1>6. ASSUME NEW x \in Requests PROVE req'[x] = IF x = r THEN q ELSE req[x]
  BY <1>4 DEF IInv, ReqInv
<1>7. req' \in [Requests -> RequestType]
  BY <1>3, <1>4 DEF IInv, ReqInv
<1>8. ASSUME NEW x \in Requests
      PROVE  LET y == req'[x] IN
             /\ y.plan \in Plans => plan[y.plan].status # "absent"
             /\ y.op \in {"publish", "new_version", "reset"} => y.plan \in Plans
             /\ y.op = "generate" /\ y.read \in {"draft", "published"} => y.plan \in Plans
  <2>1. CASE x = r
    <3>1. req'[x] = q
      BY <1>6, <2>1
    <3> QED
      BY <1>5, <3>1, NoPlanAssumption
  <2>2. CASE x # r
    <3>1. req'[x] = req[x]
      BY <1>6, <2>2
    <3> QED
      BY <3>1 DEF IInv, ReqInv
  <2> QED
    BY <2>1, <2>2
<1>9. ReqInv'
  BY <1>1, <1>7, <1>8 DEF ReqInv
<1> QED
  BY <1>2, <1>9

LEMMA Stepwise ==
  ASSUME IInv, [Next]_vars
  PROVE  Good(plan') /\ Kept(plan') /\ ReqInv'
<1>0. Good(plan) /\ plan \in [Plans -> PlanType]
  BY DEF IInv, Good
<1>1. CASE UNCHANGED vars
  BY <1>0, <1>1 DEF IInv, ReqInv, Kept, vars
<1>2. ASSUME NEW r \in Requests, GenerateRead(r) PROVE Good(plan') /\ Kept(plan') /\ ReqInv'
  <2>1. PICK p \in Plans \cup {NoPlan} :
          (p # NoPlan => p \in Active(plan)) /\ Begin(r, "generate", p)
    BY <1>2 DEF GenerateRead
  <2> QED
    BY <2>1, BeginStep, NoPlanAssumption DEF Active
<1>3. ASSUME NEW r \in Requests, PublishRead(r) PROVE Good(plan') /\ Kept(plan') /\ ReqInv'
  BY <1>3, BeginStep DEF PublishRead, Active
<1>4. ASSUME NEW r \in Requests, NewVersionRead(r) PROVE Good(plan') /\ Kept(plan') /\ ReqInv'
  BY <1>4, BeginStep DEF NewVersionRead, Active
<1>5. ASSUME NEW r \in Requests, ResetRead(r) PROVE Good(plan') /\ Kept(plan') /\ ReqInv'
  BY <1>5, BeginStep DEF ResetRead
<1>6. ASSUME NEW r \in Requests, GenerateWrite(r) PROVE Good(plan') /\ Kept(plan') /\ ReqInv'
  <2> DEFINE p == req[r].plan
  <2>1. /\ p \in Plans => plan[p].status # "absent"
        /\ req[r].read \in {"draft", "published"} => p \in Plans
    BY <1>6 DEF GenerateWrite, IInv, ReqInv
  <2>2. req' = [req EXCEPT ![r] = Idle]
    BY <1>6 DEF GenerateWrite, Commit
  <2>3. CASE LET t == Marked(plan, p, "superseded") IN
               p \in Present(plan) /\ Commit(r, WithDraft(t, NextVersion(t)))
    <3> DEFINE t == Marked(plan, p, "superseded")
    <3>1. Good(plan') /\ Kept(plan')
      BY <1>0, <2>3, Superseding
    <3>2. t \in [Plans -> PlanType] /\ \A q \in Plans : plan[q].status # "absent" => t[q].status # "absent"
      BY <1>0, <2>3, MarkedRows, RowsInTable DEF Statuses
    <3>3. Commit(r, WithDraft(t, NextVersion(t)))
      BY <2>3
    <3> HIDE DEF t
    <3>4. \A q \in Plans : plan[q].status # "absent" => plan'[q].status # "absent"
      BY <3>2, <3>3, KeptRows
    <3> QED
      BY <2>2, <3>1, <3>4, Moved
  <2>4. CASE LET t == Without(plan, p) IN
               req[r].read = "draft" /\ Commit(r, WithDraft(t, NextVersion(t)))
    <3> DEFINE t == Without(plan, p)
    <3>1. p \in Plans /\ plan[p].status # "absent"
      BY <2>1, <2>4
    <3>2. Commit(r, WithDraft(t, NextVersion(t)))
      BY <2>4
    <3>3. Good(plan') /\ Kept(plan')
      BY <1>0, <3>1, <3>2, Replacing
    <3>4. t \in [Plans -> PlanType] /\ \A q \in Plans : plan[q].status # "absent" => t[q].status # "absent"
      BY <1>0, <3>1, WithoutRows, WithoutTyped
    <3> HIDE DEF t
    <3>5. \A q \in Plans : plan[q].status # "absent" => plan'[q].status # "absent"
      BY <3>2, <3>4, KeptRows
    <3> QED
      BY <2>2, <3>3, <3>5, Moved
  <2>5. CASE Commit(r, WithDraft(plan, NextVersion(plan)))
    <3>1. Good(plan') /\ Kept(plan')
      BY <1>0, <2>5, FirstPlan
    <3>2. \A q \in Plans : plan[q].status # "absent" => plan'[q].status # "absent"
      BY <1>0, <2>5, KeptRows
    <3> QED
      BY <2>2, <3>1, <3>2, Moved
  <2> QED
    BY <1>6, <2>3, <2>4, <2>5 DEF GenerateWrite
<1>7. ASSUME NEW r \in Requests, PublishWrite(r) PROVE Good(plan') /\ Kept(plan') /\ ReqInv'
  <2> DEFINE p == req[r].plan
  <2>1. p \in Present(plan) /\ p \in Plans /\ Commit(r, {Marked(plan, p, "published")})
    BY <1>7, RowsInTable DEF PublishWrite
  <2>2. Good(plan') /\ Kept(plan')
    BY <1>0, <2>1, Publishing
  <2>3. plan' = Marked(plan, p, "published") /\ req' = [req EXCEPT ![r] = Idle]
    BY <2>1 DEF Commit
  <2>4. \A q \in Plans : plan[q].status # "absent" => plan'[q].status # "absent"
    BY <1>0, <2>1, <2>3, MarkedRows DEF Statuses
  <2> QED
    BY <2>2, <2>3, <2>4, Moved
<1>8. ASSUME NEW r \in Requests, NewVersionWrite(r) PROVE Good(plan') /\ Kept(plan') /\ ReqInv'
  <2> DEFINE p == req[r].plan
             t == Marked(plan, p, "superseded")
  <2>1. p \in Present(plan) /\ p \in Plans /\ Commit(r, WithDraft(t, NextVersion(t)))
    BY <1>8, RowsInTable DEF NewVersionWrite
  <2>2. Good(plan') /\ Kept(plan')
    BY <1>0, <2>1, Superseding
  <2>3. t \in [Plans -> PlanType] /\ \A q \in Plans : plan[q].status # "absent" => t[q].status # "absent"
    BY <1>0, <2>1, MarkedRows DEF Statuses
  <2>4. req' = [req EXCEPT ![r] = Idle]
    BY <2>1 DEF Commit
  <2> HIDE DEF t
  <2>5. \A q \in Plans : plan[q].status # "absent" => plan'[q].status # "absent"
    BY <2>1, <2>3, KeptRows
  <2> QED
    BY <2>2, <2>4, <2>5, Moved
<1>9. ASSUME NEW r \in Requests, ResetWrite(r) PROVE Good(plan') /\ Kept(plan') /\ ReqInv'
  <2> DEFINE p == req[r].plan
             t == Without(plan, p)
  <2>1. p \in Plans /\ plan[p].status # "absent" /\ Commit(r, WithDraft(t, plan[p].version))
    BY <1>9 DEF ResetWrite, IInv, ReqInv
  <2>2. Good(plan') /\ Kept(plan')
    BY <1>0, <2>1, Replacing
  <2>3. t \in [Plans -> PlanType] /\ \A q \in Plans : plan[q].status # "absent" => t[q].status # "absent"
    BY <1>0, <2>1, WithoutRows, WithoutTyped
  <2>4. req' = [req EXCEPT ![r] = Idle]
    BY <2>1 DEF Commit
  <2> HIDE DEF t
  <2>5. \A q \in Plans : plan[q].status # "absent" => plan'[q].status # "absent"
    BY <2>1, <2>3, KeptRows
  <2> QED
    BY <2>2, <2>4, <2>5, Moved
<1>10. ASSUME NEW r \in Requests, Abort(r) PROVE Good(plan') /\ Kept(plan') /\ ReqInv'
  BY <1>0, <1>10, Moved DEF Abort, Kept
<1> QED
  BY <1>1, <1>2, <1>3, <1>4, <1>5, <1>6, <1>7, <1>8, <1>9, <1>10 DEF Next

-----------------------------------------------------------------------------
THEOREM Invariant == Spec => []IInv
<1>1. IInv /\ [Next]_vars => IInv'
  BY Stepwise DEF IInv
<1> QED
  BY Initially, <1>1, PTL DEF Spec

(* Rows and requests keep their types.                                      *)
THEOREM TypeCorrect == Spec => []TypeOK
<1>1. IInv => TypeOK
  BY DEF IInv, Good, ReqInv, TypeOK
<1> QED
  BY Invariant, <1>1, PTL

(* The plan in use is the newest version, whatever the interleaving.        *)
THEOREM NewestIsActive == Spec => []ActiveIsNewest
<1>1. IInv => ActiveIsNewest
  BY DEF IInv, Good, Newest, ActiveIsNewest
<1> QED
  BY Invariant, <1>1, PTL

(* Once a plan was generated, one is in use.                                *)
THEOREM AlwaysOneActive == Spec => []ActiveOnceGenerated
<1>1. IInv => ActiveOnceGenerated
  BY DEF IInv, Good, Started, ActiveOnceGenerated
<1> QED
  BY Invariant, <1>1, PTL

(* A superseded version is never changed or deleted again.                  *)
THEOREM AuditTrail == Spec => SupersededForGood
<1>1. IInv /\ [Next]_vars
        => [\A p \in Plans : plan[p].status = "superseded" => plan'[p] = plan[p]]_vars
  BY Stepwise DEF Kept
<1> QED
  BY Invariant, <1>1, PTL DEF Spec, SupersededForGood

-----------------------------------------------------------------------------
(* The refinement of PlanHistory.  A plan that was published is never a    *)
(* draft again, so that whoever has read it as published can not archive a *)
(* draft.                                                                   *)
Issued(p) == plan[p].status \notin {"absent", "draft"}
StaysIssued == \A p \in Plans : Issued(p) => Issued(p)'
FoundIssued(q) == q.op = "new_version" \/ (q.op = "generate" /\ q.read = "published")
IssuedInv == \A r \in Requests : FoundIssued(req[r]) => Issued(req[r].plan)

LEMMA InsertKeepsIssued ==
  ASSUME NEW t \in [Plans -> PlanType], NEW v, NEW r, Commit(r, WithDraft(t, v)),
         \A p \in Plans : Issued(p) => t[p].status \notin {"absent", "draft"}
  PROVE  StaysIssued
BY CommitInserts DEF StaysIssued, Issued

LEMMA MarkKeepsIssued ==
  ASSUME Good(plan), NEW p \in Plans, NEW s \in {"published", "superseded", "deleted"}
  PROVE  \A q \in Plans : Issued(q) => Marked(plan, p, s)[q].status \notin {"absent", "draft"}
BY DEF Good, Marked, PlanType, Issued

LEMMA WithoutKeepsIssued ==
  ASSUME Good(plan), NEW p \in Plans
  PROVE  \A q \in Plans : Issued(q) => Without(plan, p)[q].status \notin {"absent", "draft"}
BY MarkKeepsIssued DEF Without, Issued

(* How a step writes the table: not at all, or by one of these commits.     *)
Supersedes(r, p) ==
  LET t == Marked(plan, p, "superseded") IN
  p \in Present(plan) /\ Issued(p) /\ Commit(r, WithDraft(t, NextVersion(t)))
Replaces(r, p) ==
  /\ p \in Plans /\ plan[p].status # "absent"
  /\ \E v \in {NextVersion(Without(plan, p)), plan[p].version} :
       Commit(r, WithDraft(Without(plan, p), v))
Publishes(r, p) == p \in Present(plan) /\ Commit(r, {Marked(plan, p, "published")})
Starts(r) == Commit(r, WithDraft(plan, NextVersion(plan)))

LEMMA Commits ==
  ASSUME IInv, IssuedInv, [Next]_vars, plan' # plan
  PROVE  \E r \in Requests :
           /\ req' = [req EXCEPT ![r] = Idle]
           /\ Starts(r) \/ \E p \in Plans : Supersedes(r, p) \/ Replaces(r, p) \/ Publishes(r, p)
<1>1. \A r \in Requests : GenerateRead(r) \/ PublishRead(r) \/ NewVersionRead(r) \/ ResetRead(r)
                           \/ Abort(r) => plan' = plan
  BY DEF GenerateRead, PublishRead, NewVersionRead, ResetRead, Begin, Abort
<1>2. PICK r \in Requests :
        GenerateWrite(r) \/ PublishWrite(r) \/ NewVersionWrite(r) \/ ResetWrite(r)
  BY <1>1 DEF Next, vars
<1> DEFINE p == req[r].plan
           W == Starts(r) \/ Supersedes(r, p) \/ Replaces(r, p) \/ Publishes(r, p)
<1>3. /\ p \in Plans => plan[p].status # "absent"
      /\ req[r].op \in {"publish", "new_version", "reset"} => p \in Plans
      /\ req[r].op = "generate" /\ req[r].read \in {"draft", "published"} => p \in Plans
      /\ FoundIssued(req[r]) => Issued(p)
  BY DEF IInv, ReqInv, IssuedInv
<1>4. req' = [req EXCEPT ![r] = Idle]
  BY <1>2 DEF GenerateWrite, PublishWrite, NewVersionWrite, ResetWrite, Commit
<1>5. CASE GenerateWrite(r)
  <2>1. \/ Starts(r)
        \/ req[r].read = "published" /\ p \in Present(plan)
           /\ LET t == Marked(plan, p, "superseded") IN Commit(r, WithDraft(t, NextVersion(t)))
        \/ req[r].read = "draft"
           /\ Commit(r, WithDraft(Without(plan, p), NextVersion(Without(plan, p))))
    BY <1>5 DEF GenerateWrite, Starts
  <2>2. req[r].op = "generate"
    BY <1>5 DEF GenerateWrite
  <2> QED
    BY <1>3, <1>4, <2>1, <2>2, RowsInTable DEF Supersedes, Replaces, FoundIssued
<1>6. CASE PublishWrite(r)
  BY <1>4, <1>6, RowsInTable DEF PublishWrite, Publishes
<1>7. CASE NewVersionWrite(r)
  BY <1>3, <1>4, <1>7, RowsInTable DEF NewVersionWrite, Supersedes, FoundIssued
<1>8. CASE ResetWrite(r)
  BY <1>3, <1>4, <1>8 DEF ResetWrite, Replaces
<1> QED
  BY <1>2, <1>5, <1>6, <1>7, <1>8

LEMMA IssuedStays ==
  ASSUME IInv, IssuedInv, [Next]_vars PROVE StaysIssued
<1>1. Good(plan) /\ plan \in [Plans -> PlanType]
  BY DEF IInv, Good
<1>2. CASE plan' = plan
  BY <1>2 DEF StaysIssued, Issued
<1>3. ASSUME NEW r, Starts(r) PROVE StaysIssued
  BY <1>1, <1>3, InsertKeepsIssued DEF Starts, Issued
<1>4. ASSUME NEW r, NEW p \in Plans, Supersedes(r, p) PROVE StaysIssued
  <2> DEFINE t == Marked(plan, p, "superseded")
  <2>1. /\ t \in [Plans -> PlanType] /\ Commit(r, WithDraft(t, NextVersion(t)))
        /\ \A q \in Plans : Issued(q) => t[q].status \notin {"absent", "draft"}
    BY <1>1, <1>4, MarkedRows, MarkKeepsIssued DEF Supersedes, Statuses
  <2> HIDE DEF t
  <2> QED
    BY <2>1, InsertKeepsIssued
<1>5. ASSUME NEW r, NEW p \in Plans, Replaces(r, p) PROVE StaysIssued
  <2> DEFINE t == Without(plan, p)
  <2>1. PICK v \in {NextVersion(t), plan[p].version} : Commit(r, WithDraft(t, v))
    BY <1>5 DEF Replaces
  <2>2. /\ t \in [Plans -> PlanType]
        /\ \A q \in Plans : Issued(q) => t[q].status \notin {"absent", "draft"}
    BY <1>1, WithoutTyped, WithoutKeepsIssued
  <2> HIDE DEF t
  <2> QED
    BY <2>1, <2>2, InsertKeepsIssued
<1>6. ASSUME NEW r, NEW p \in Plans, Publishes(r, p) PROVE StaysIssued
  BY <1>1, <1>6, MarkKeepsIssued DEF Publishes, Commit, StaysIssued, Issued
<1> QED
  BY <1>2, <1>3, <1>4, <1>5, <1>6, Commits

LEMMA IssuedStep ==
  ASSUME IInv, IssuedInv, [Next]_vars PROVE IssuedInv'
<1> SUFFICES ASSUME NEW x \in Requests, FoundIssued(req'[x])
             PROVE  plan'[req'[x].plan].status \notin {"absent", "draft"}
  BY DEF IssuedInv, FoundIssued, Issued
<1>1. req \in [Requests -> RequestType] /\ plan \in [Plans -> PlanType]
  BY DEF IInv, ReqInv, Good
<1>2. CASE req'[x] = req[x]
  <2>1. req[x].plan \in Plans /\ Issued(req[x].plan)
    BY <1>2 DEF IInv, ReqInv, IssuedInv, FoundIssued
  <2> QED
    BY <1>2, <2>1, IssuedStays DEF StaysIssued, Issued
<1>3. ~FoundIssued(Idle)
  BY DEF FoundIssued, Idle
<1>4. ASSUME NEW r \in Requests, NEW op, NEW p, Begin(r, op, p), r = x
      PROVE  /\ plan' = plan /\ req'[x].plan = p /\ req'[x].op = op
             /\ req'[x].read = IF p = NoPlan THEN "absent" ELSE plan[p].status
  BY <1>1, <1>4 DEF Begin
<1>5. ASSUME NEW r \in Requests,
             GenerateRead(r) \/ PublishRead(r) \/ NewVersionRead(r) \/ ResetRead(r)
      PROVE  req'[x] = req[x] \/ (r = x /\ plan'[req'[x].plan].status \notin {"absent", "draft"})
  <2>1. CASE r = x
    <3>1. CASE GenerateRead(r)
      <4>1. PICK p \in Plans \cup {NoPlan} : Begin(r, "generate", p)
        BY <3>1 DEF GenerateRead
      <4> QED
        BY <1>4, <2>1, <4>1 DEF FoundIssued
    <3>2. CASE NewVersionRead(r)
      <4>1. PICK p \in Active(plan) : plan[p].status = "published" /\ Begin(r, "new_version", p)
        BY <3>2 DEF NewVersionRead
      <4> QED
        BY <1>4, <2>1, <4>1
    <3>3. CASE PublishRead(r) \/ ResetRead(r)
      <4>1. PICK op \in {"publish", "reset"}, p \in Plans : Begin(r, op, p)
        BY <3>3, RowsInTable DEF PublishRead, ResetRead
      <4> QED
        BY <1>4, <2>1, <4>1 DEF FoundIssued
    <3> QED
      BY <1>5, <2>1, <3>1, <3>2, <3>3
  <2>2. CASE r # x
    <3>1. \A op, p : Begin(r, op, p) => req'[x] = req[x]
      BY <1>1, <2>2 DEF Begin
    <3> QED
      BY <1>5, <3>1 DEF GenerateRead, PublishRead, NewVersionRead, ResetRead
  <2> QED
    BY <2>1, <2>2
<1>6. ASSUME NEW r \in Requests,
             GenerateWrite(r) \/ PublishWrite(r) \/ NewVersionWrite(r) \/ ResetWrite(r) \/ Abort(r)
      PROVE  req'[x] = req[x]
  <2>1. req' = [req EXCEPT ![r] = Idle]
    BY <1>6 DEF GenerateWrite, PublishWrite, NewVersionWrite, ResetWrite, Commit, Abort
  <2> QED
    BY <1>1, <1>3, <2>1
<1>7. UNCHANGED vars => req'[x] = req[x]
  BY DEF vars
<1> QED
  BY <1>2, <1>5, <1>6, <1>7 DEF Next

-----------------------------------------------------------------------------
(* What the auditor reads: the active plan, if there is one.                *)
LEMMA CurrentIs ==
  ASSUME NEW t \in [Plans -> PlanType], NEW n, Top(t, n)
  PROVE  Current(t) = n
<1> DEFINE S == {t[p].version : p \in Present(t)} \cup {0}
<1>1. S \in SUBSET Int
  BY DEF Present, PlanType
<1>2. n \in S /\ \A y \in S : y <= n
  BY DEF Top, Present, PlanType
<1> HIDE DEF S
<1>3. Max(S) = n
  BY <1>1, <1>2, MaxIs
<1> QED
  BY <1>3 DEF S, Current

LEMMA ActiveRead ==
  ASSUME NEW t, Good(t), NEW a \in Active(t)
  PROVE  /\ Current(t) = t[a].version /\ Current(t) \in Nat
         /\ State(t) = t[a].status /\ State(t) \in {"draft", "published"}
<1>1. a \in Plans /\ t[a].version \in Nat /\ t \in [Plans -> PlanType] /\ a \in Present(t)
  BY DEF Active, Present, Good, PlanType
<1>2. Top(t, t[a].version)
  BY <1>1 DEF Good, Newest, Top
<1>3. \A p \in Plans : t[p].status = "published" => p = a
  BY DEF Good, Indexed, Active
<1>4. State(t) = t[a].status
  BY <1>1, <1>3 DEF State, Active
<1> QED
  BY <1>1, <1>2, <1>4, CurrentIs DEF Active

LEMMA BlankRead ==
  ASSUME NEW t \in [Plans -> PlanType], \A p \in Plans : t[p].status = "absent"
  PROVE  Current(t) = 0 /\ State(t) = "none" /\ Archive(t) = {}
<1>1. Present(t) = {} /\ Active(t) = {}
  BY DEF Present, Active
<1>2. Top(t, 0)
  BY <1>1 DEF Top
<1> QED
  BY <1>1, <1>2, CurrentIs DEF State, Archive

(* A commit that inserts a draft of version v.                              *)
LEMMA DraftRead ==
  ASSUME NEW t \in [Plans -> PlanType], NEW v, NEW r, Commit(r, WithDraft(t, v)), Good(plan')
  PROVE  Current(plan') = v /\ State(plan') = "draft" /\ Archive(plan') = Archive(t)
<1>1. plan' \in WithDraft(t, v) /\ Indexed(plan')
  BY CommitInserts
<1>2. PICK q \in Plans : /\ t[q].status = "absent"
                         /\ plan' = [t EXCEPT ![q] = [status |-> "draft", version |-> v]]
  BY <1>1, Vacant
<1>3. plan'[q].status = "draft" /\ plan'[q].version = v
      /\ \A p \in Plans : p # q => plan'[p] = t[p]
  BY <1>2
<1>4. Current(plan') = v /\ State(plan') = "draft"
  <2>1. q \in Active(plan')
    BY <1>3 DEF Active
  <2> QED
    BY <1>3, <2>1, ActiveRead
<1>5. {p \in Plans : plan'[p].status = "superseded"} = {p \in Plans : t[p].status = "superseded"}
  BY <1>2, <1>3
<1>6. \A p \in Plans : t[p].status = "superseded" => plan'[p].version = t[p].version
  BY <1>2, <1>3
<1>7. Archive(plan') = Archive(t)
  BY <1>5, <1>6 DEF Archive
<1> QED
  BY <1>4, <1>7

(* What a mark on the active plan adds to the archive.                      *)
LEMMA MarkRead ==
  ASSUME Good(plan), NEW p \in Active(plan), NEW s \in {"published", "superseded", "deleted"}
  PROVE  Archive(Marked(plan, p, s)) =
           IF s = "superseded" THEN Archive(plan) \cup {plan[p].version} ELSE Archive(plan)
<1> DEFINE t == Marked(plan, p, s)
           old == {q \in Plans : plan[q].status = "superseded"}
           new == {q \in Plans : t[q].status = "superseded"}
<1>1. p \in Plans /\ p \notin old
  BY DEF Active
<1>2. t[p].status = s /\ t[p].version = plan[p].version
      /\ \A q \in Plans : q # p => t[q] = plan[q]
  BY <1>1 DEF Good, Marked, PlanType
<1>3. new = IF s = "superseded" THEN old \cup {p} ELSE old
  BY <1>1, <1>2
<1>4. \A q \in Plans : t[q].version = plan[q].version
  BY <1>2
<1>5. Archive(t) = {plan[q].version : q \in new} /\ Archive(plan) = {plan[q].version : q \in old}
  BY <1>4 DEF Archive
<1> HIDE DEF t, old, new
<1>6. {plan[q].version : q \in old \cup {p}} = {plan[q].version : q \in old} \cup {plan[p].version}
  OBVIOUS
<1>7. Archive(t) = IF s = "superseded" THEN Archive(plan) \cup {plan[p].version} ELSE Archive(plan)
  BY <1>3, <1>5, <1>6
<1> QED
  BY <1>7 DEF t

-----------------------------------------------------------------------------
(* Every commit is a step of the history, or not noticed.                   *)
HistoryMoves == History!Next \/ UNCHANGED <<Current(plan), State(plan), Archive(plan)>>

LEMMA StartMoves ==
  ASSUME IInv, NEW r, Starts(r)
  PROVE  HistoryMoves
<1>1. Good(plan) /\ plan \in [Plans -> PlanType]
  BY DEF IInv, Good
<1>2. Commit(r, WithDraft(plan, NextVersion(plan)))
  BY DEF Starts
<1>3. Active(plan) = {} /\ Good(plan')
  BY <1>1, <1>2, CommitInserts, FirstPlan
<1>4. Top(plan, 0) /\ \A p \in Plans : plan[p].status = "absent"
  BY <1>1, <1>3, Blank
<1>5. Current(plan) = 0 /\ State(plan) = "none" /\ Archive(plan) = {}
  BY <1>1, <1>4, BlankRead
<1>6. NextVersion(plan) = 1
  BY <1>1, <1>4, NextIs
<1>7. Current(plan') = 1 /\ State(plan') = "draft" /\ Archive(plan') = Archive(plan)
  BY <1>1, <1>2, <1>3, <1>6, DraftRead
<1>8. History!Generate
  BY <1>5, <1>7 DEF History!Generate
<1> QED
  BY <1>8 DEF HistoryMoves, History!Next

LEMMA SupersedeMoves ==
  ASSUME IInv, NEW r, NEW p \in Plans, Supersedes(r, p)
  PROVE  HistoryMoves
<1> DEFINE t == Marked(plan, p, "superseded")
<1>1. Good(plan)
  BY DEF IInv
<1>2. p \in Present(plan) /\ Issued(p) /\ Commit(r, WithDraft(t, NextVersion(t)))
  BY DEF Supersedes
<1>3. Good(plan') /\ p \in Active(plan) /\ NextVersion(t) = plan[p].version + 1
  BY <1>1, <1>2, Superseding
<1>4. Current(plan) = plan[p].version /\ State(plan) = "published"
  BY <1>1, <1>2, <1>3, ActiveRead DEF Issued
<1>5. t \in [Plans -> PlanType] /\ Archive(t) = Archive(plan) \cup {plan[p].version}
  BY <1>1, <1>3, MarkedRows, MarkRead DEF Statuses
<1> HIDE DEF t
<1>6. /\ Current(plan') = plan[p].version + 1 /\ State(plan') = "draft"
      /\ Archive(plan') = Archive(plan) \cup {plan[p].version}
  BY <1>2, <1>3, <1>5, DraftRead
<1>7. History!Succeed
  BY <1>4, <1>6 DEF History!Succeed
<1> QED
  BY <1>7 DEF HistoryMoves, History!Next

LEMMA ReplaceMoves ==
  ASSUME IInv, NEW r, NEW p \in Plans, Replaces(r, p)
  PROVE  HistoryMoves
<1> DEFINE t == Without(plan, p)
<1>1. Good(plan) /\ plan[p].status # "absent"
  BY DEF IInv, Replaces
<1>2. PICK v \in {NextVersion(t), plan[p].version} : Commit(r, WithDraft(t, v))
  BY DEF Replaces
<1>3. Good(plan') /\ p \in Active(plan) /\ v = plan[p].version
  BY <1>1, <1>2, Replacing
<1>4. /\ Current(plan) = v /\ State(plan) \in {"draft", "published"}
  BY <1>1, <1>3, ActiveRead
<1>5. t \in [Plans -> PlanType] /\ Archive(t) = Archive(plan)
  BY <1>1, <1>3, WithoutTyped, MarkRead DEF Without
<1> HIDE DEF t
<1>6. Current(plan') = v /\ State(plan') = "draft" /\ Archive(plan') = Archive(plan)
  BY <1>2, <1>3, <1>5, DraftRead
<1> QED
  BY <1>4, <1>6 DEF HistoryMoves, History!Next, History!Lose

LEMMA PublishMoves ==
  ASSUME IInv, NEW r, NEW p \in Plans, Publishes(r, p)
  PROVE  HistoryMoves
<1>1. Good(plan) /\ plan \in [Plans -> PlanType]
  BY DEF IInv, Good
<1>2. plan' = Marked(plan, p, "published") /\ Good(plan') /\ p \in Present(plan)
  BY <1>1, Publishing DEF Publishes, Commit
<1>3. plan'[p].status = "published" /\ plan'[p].version = plan[p].version
      /\ \A q \in Plans : q # p => plan'[q] = plan[q]
  BY <1>1, <1>2 DEF Marked, PlanType
<1>4. p \in Active(plan')
  BY <1>3 DEF Active
<1>5. p \in Active(plan)
  <2>1. PICK a \in Active(plan) : TRUE
    BY <1>1, <1>2 DEF Good, Started, Present
  <2>2. a \in Active(plan') \/ a = p
    BY <1>3, <2>1 DEF Active
  <2> QED
    BY <1>2, <1>4, <2>1, <2>2 DEF Good, Indexed
<1>6. /\ Current(plan) = plan[p].version /\ State(plan) = plan[p].status
      /\ Current(plan') = plan[p].version /\ State(plan') = "published"
      /\ plan[p].status \in {"draft", "published"}
  BY <1>1, <1>2, <1>3, <1>4, <1>5, ActiveRead
<1>7. Archive(plan') = Archive(plan)
  BY <1>1, <1>2, <1>5, MarkRead
<1> QED
  BY <1>6, <1>7 DEF HistoryMoves, History!Next, History!Publish

LEMMA HistorySteps ==
  ASSUME IInv, IssuedInv, [Next]_vars PROVE HistoryMoves
<1>1. CASE plan' = plan
  BY <1>1 DEF HistoryMoves
<1>2. CASE plan' # plan
  BY <1>2, Commits, StartMoves, SupersedeMoves, ReplaceMoves, PublishMoves
<1> QED
  BY <1>1, <1>2

(* However the requests interleave, the plans of a project are one history *)
(* of versions: each follows on a published one, which it archives.         *)
THEOREM Refinement == Spec => ImplementsPlanHistory
<1>1. Init => History!Init /\ IInv /\ IssuedInv
  <2> SUFFICES ASSUME Init PROVE History!Init /\ IInv /\ IssuedInv
    OBVIOUS
  <2>1. plan \in [Plans -> PlanType] /\ \A p \in Plans : plan[p].status = "absent"
    BY Initially DEF Init, IInv, Good
  <2> QED
    BY <2>1, BlankRead, Initially DEF Init, History!Init, IssuedInv, FoundIssued, Idle
<1>2. IInv /\ IssuedInv /\ [Next]_vars => IInv' /\ IssuedInv'
  BY Stepwise, IssuedStep DEF IInv
<1>3. IInv /\ IssuedInv /\ [Next]_vars
        => [History!Next]_<<Current(plan), State(plan), Archive(plan)>>
  BY HistorySteps DEF HistoryMoves
<1> QED
  BY <1>1, <1>2, <1>3, PTL DEF Spec, ImplementsPlanHistory, History!Spec

(* The archive of a project is complete: whoever works with version n finds *)
(* the versions 1 .. n - 1 superseded in it, and no other.  It follows from *)
(* the history alone.                                                       *)
THEOREM CompleteArchive == Spec => []ArchiveComplete
<1> DEFINE J == /\ Current(plan) \in Nat
                /\ State(plan) = "none" => Current(plan) = 0 /\ Archive(plan) = {}
                /\ State(plan) # "none" => Current(plan) >= 1
                /\ Archive(plan) = 1 .. (Current(plan) - 1)
<1>1. History!Init => J
  BY DEF History!Init
<1>2. J /\ [History!Next]_<<Current(plan), State(plan), Archive(plan)>> => J'
  <2> SUFFICES ASSUME J, [History!Next]_<<Current(plan), State(plan), Archive(plan)>>
               PROVE  J'
    OBVIOUS
  <2>1. CASE History!Generate
    BY <2>1 DEF History!Generate
  <2>2. CASE History!Publish \/ History!Lose
    BY <2>2 DEF History!Publish, History!Lose
  <2>3. CASE History!Succeed
    <3>1. \A c \in Nat : c >= 1 => 1 .. ((c + 1) - 1) = 1 .. (c - 1) \cup {c}
      OBVIOUS
    <3>2. /\ Current(plan) \in Nat /\ Current(plan) >= 1
          /\ Current(plan') = Current(plan) + 1 /\ State(plan') = "draft"
          /\ Archive(plan') = Archive(plan) \cup {Current(plan)}
      BY <2>3 DEF History!Succeed
    <3> QED
      BY <3>1, <3>2
  <2>4. CASE UNCHANGED <<Current(plan), State(plan), Archive(plan)>>
    BY <2>4
  <2> QED
    BY <2>1, <2>2, <2>3, <2>4 DEF History!Next
<1>3. J => ArchiveComplete
  BY DEF ArchiveComplete
<1> HIDE DEF J
<1> QED
  BY <1>1, <1>2, <1>3, Refinement, PTL DEF ImplementsPlanHistory, History!Spec
=============================================================================

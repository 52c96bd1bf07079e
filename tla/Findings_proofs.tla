--------------------------- MODULE Findings_proofs ---------------------------
(***************************************************************************)
(* Proofs about Findings, for any number of findings, requests and keys.   *)
(* The invariant has two parts: what the unique index makes of the keys,   *)
(* and what a request may hold between its read and its commit.  What a    *)
(* request that nobody disturbed will do is a third (LawfulInv, MarkInv).  *)
(***************************************************************************)
EXTENDS Findings, FiniteSetTheorems, TLAPS

-----------------------------------------------------------------------------
(* A key belongs to one row, deleted or not, and a create with that key    *)
(* was only ever answered with this row.                                   *)
KeyInv ==
  /\ \A x, y \in Findings : row[x].key = row[y].key /\ row[x].key # NoKey => x = y
  /\ \A k \in Keys : \A x \in answers[k] : row[x].key = k

(* Creates name no finding; a deletion changes no other column.            *)
RequestInv ==
  \A r \in Requests :
    /\ request[r].op \in {"idle", "create"} => request[r].on = NoFinding
    /\ request[r].op = "delete" =>
         request[r].status = "same" /\ request[r].set = {} /\ request[r].clear = {}

IInv == TypeOK /\ KeyInv /\ RequestInv

LEMMA Initial == Init => IInv
<1> SUFFICES ASSUME Init PROVE IInv
  OBVIOUS
<1>1. Absent \in RowType
  BY DEF Absent, RowType, Status
<1>2. Idle \in RequestType
  BY DEF Idle, RequestType, Status
<1> QED
  BY <1>1, <1>2 DEF Init, IInv, TypeOK, KeyInv, RequestInv, Absent, Idle

-----------------------------------------------------------------------------
(* A read writes nothing but its own request.                              *)

LEMMA ChangeKeeps ==
  ASSUME IInv, NEW r \in Requests, NEW x \in Findings, NEW dup \in Findings \cup {NoFinding},
         NEW op \in {"patch", "bulk", "duplicate", "reopen", "delete"},
         NEW st \in Status, NEW set \in SUBSET Fields, NEW clear \in SUBSET Fields,
         op = "delete" => st = row[x].status /\ set = {} /\ clear = {},
         Change(r, op, x, st, set, clear, dup)
  PROVE  IInv'
<1>1. PICK same \in SUBSET (set \cap row[x].has) :
        request' = [request EXCEPT
          ![r] = [Idle EXCEPT !.op = op, !.on = x, !.dup = dup,
                              !.status = IF st = row[x].status THEN "same" ELSE st,
                              !.set = set \ same,
                              !.clear = clear \cap row[x].has]]
  BY DEF Change
<1> DEFINE q == [Idle EXCEPT !.op = op, !.on = x, !.dup = dup,
                             !.status = IF st = row[x].status THEN "same" ELSE st,
                             !.set = set \ same,
                             !.clear = clear \cap row[x].has]
<1>2. q \in RequestType
  BY DEF RequestType, Idle
<1>3. UNCHANGED <<row, answers>>
  BY DEF Change
<1>4. TypeOK'
  BY <1>1, <1>2, <1>3 DEF IInv, TypeOK
<1>5. KeyInv'
  BY <1>3 DEF IInv, KeyInv
<1>6. RequestInv'
  BY <1>1 DEF IInv, TypeOK, RequestInv, Idle
<1> QED
  BY <1>4, <1>5, <1>6 DEF IInv

LEMMA ReadKeeps ==
  ASSUME IInv, NEW r \in Requests, NEW x \in Findings,
         \/ PatchRead(r, x) \/ BulkRead(r, x) \/ ReopenRead(r, x) \/ DeleteRead(r, x)
         \/ \E target \in Findings : DuplicateRead(r, x, target)
  PROVE  IInv'
<1>1. Live(x) => row[x].status \in Status
  BY DEF IInv, TypeOK, RowType, Live
<1>2. CASE PatchRead(r, x)
  <2>1. PICK st \in Status, set \in SUBSET Fields :
          \E clear \in SUBSET (Fields \ set) : Change(r, "patch", x, st, set, clear, NoFinding)
    BY <1>2 DEF PatchRead
  <2>2. PICK clear \in SUBSET Fields : Change(r, "patch", x, st, set, clear, NoFinding)
    BY <2>1
  <2> QED
    BY <2>2, ChangeKeeps
<1>3. CASE BulkRead(r, x)
  <2>1. ASSUME NEW st \in Status, NEW set \in SUBSET Fields, NEW clear \in SUBSET Fields,
               Change(r, "bulk", x, st, set, clear, NoFinding)
        PROVE  IInv'
    BY <2>1, ChangeKeeps
  <2>2. ASSUME NEW st \in Status, NEW set \in SUBSET (Fields \cap {"assignee", "deadline"}),
               Change(r, "bulk", x, st, set, {}, NoFinding)
        PROVE  IInv'
    BY <2>1, <2>2
  <2>3. ASSUME NEW f \in Fields, Change(r, "bulk", x, row[x].status, {f}, {}, NoFinding)
        PROVE  IInv'
    BY <1>1, <1>3, <2>1, <2>3 DEF BulkRead
  <2>4. CASE Change(r, "bulk", x, row[x].status, {}, Fields \cap {"assignee"}, NoFinding)
    BY <1>1, <1>3, <2>1, <2>4 DEF BulkRead
  <2>5. \/ \E st \in Status, set \in SUBSET (Fields \cap {"assignee", "deadline"}) :
             Change(r, "bulk", x, st, set, {}, NoFinding)
        \/ \E f \in Fields : Change(r, "bulk", x, row[x].status, {f}, {}, NoFinding)
        \/ Change(r, "bulk", x, row[x].status, {}, Fields \cap {"assignee"}, NoFinding)
    BY <1>3 DEF BulkRead
  <2> QED
    BY <2>2, <2>3, <2>4, <2>5
<1>4. CASE ReopenRead(r, x)
  <2>1. /\ "in_progress" \in Status
        /\ Fields \cap {"note"} \in SUBSET Fields /\ {} \in SUBSET Fields
    BY DEF Status
  <2>2. CASE Change(r, "reopen", x, "in_progress", Fields \cap {"note"}, {}, NoFinding)
    BY <2>1, <2>2, ChangeKeeps
  <2>3. CASE Change(r, "reopen", x, "in_progress", {}, Fields \cap {"note"}, NoFinding)
    BY <2>1, <2>3, ChangeKeeps
  <2> QED
    BY <1>4, <2>2, <2>3 DEF ReopenRead
<1>5. CASE DeleteRead(r, x)
  BY <1>1, <1>5, ChangeKeeps DEF DeleteRead
<1>6. ASSUME NEW target \in Findings, DuplicateRead(r, x, target) PROVE IInv'
  BY <1>6, ChangeKeeps DEF DuplicateRead, Status
<1> QED
  BY <1>2, <1>3, <1>4, <1>5, <1>6

LEMMA CreateReadKeeps ==
  ASSUME IInv, NEW r \in Requests, NEW k \in Keys \cup {NoKey}, CreateRead(r, k)
  PROVE  IInv'
<1> DEFINE prior == {x \in Findings : Live(x) /\ k # NoKey /\ row[x].key = k}
<1>1. CASE prior = {}
  <2>1. /\ request' = [request EXCEPT ![r] = [Idle EXCEPT !.op = "create", !.key = k]]
        /\ UNCHANGED <<row, answers>>
    BY <1>1 DEF CreateRead
  <2>2. [Idle EXCEPT !.op = "create", !.key = k] \in RequestType
    BY DEF Idle, RequestType
  <2>3. TypeOK' /\ RequestInv'
    BY <2>1, <2>2 DEF IInv, TypeOK, RequestInv, Idle
  <2> QED
    BY <2>1, <2>3 DEF IInv, KeyInv
<1>2. CASE prior # {}
  <2>1. answers' = [answers EXCEPT ![k] = @ \cup prior] /\ UNCHANGED <<row, request>>
    BY <1>2 DEF CreateRead
  <2>2. k \in Keys
    BY <1>2
  <2>3. KeyInv'
    BY <2>1, <2>2 DEF IInv, TypeOK, KeyInv
  <2>4. TypeOK' /\ RequestInv'
    BY <2>1, <2>2 DEF IInv, TypeOK, RequestInv
  <2> QED
    BY <2>3, <2>4 DEF IInv
<1> QED
  BY <1>1, <1>2

-----------------------------------------------------------------------------
(* Writes.                                                                 *)

(* The insert finds its key unused, so the row it makes is the only one.   *)
LEMMA CreateInsertKeeps ==
  ASSUME IInv, NEW r \in Requests, CreateInsert(r) PROVE IInv'
<1> DEFINE k == request[r].key
<1>1. k \in Keys \cup {NoKey}
  BY DEF IInv, TypeOK, RequestType
<1>2. request' = [request EXCEPT ![r] = Idle]
  BY DEF CreateInsert
<1>3. Idle \in RequestType
  BY DEF Idle, RequestType, Status
<1>4. RequestInv' /\ request' \in [Requests -> RequestType]
  BY <1>2, <1>3 DEF IInv, TypeOK, RequestInv, Idle
<1>5. CASE KeyTaken(k)
  BY <1>4, <1>5 DEF CreateInsert, IInv, TypeOK, KeyInv
<1>6. CASE ~KeyTaken(k)
  <2>1. PICK x \in Findings :
          /\ row[x] = Absent
          /\ row' = [row EXCEPT ![x].status = "draft", ![x].key = k]
          /\ answers' = IF k = NoKey THEN answers
                        ELSE [answers EXCEPT ![k] = @ \cup {x}]
    BY <1>6 DEF CreateInsert
  <2>2. row' \in [Findings -> RowType]
    <3>1. row \in [Findings -> RowType] /\ row[x] \in RowType
      BY DEF IInv, TypeOK
    <3>2. [row[x] EXCEPT !.status = "draft", !.key = k] \in RowType
      BY <1>1, <3>1 DEF RowType, Status
    <3>3. row' = [row EXCEPT ![x] = [row[x] EXCEPT !.status = "draft", !.key = k]]
      BY <2>1
    <3> QED
      BY <3>1, <3>2, <3>3
  <2>3. answers' \in [Keys -> SUBSET Findings]
    <3>1. CASE k = NoKey
      BY <2>1, <3>1 DEF IInv, TypeOK
    <3>2. CASE k # NoKey
      <4>1. k \in Keys /\ answers[k] \cup {x} \in SUBSET Findings
        BY <1>1, <3>2 DEF IInv, TypeOK
      <4>2. answers' = [answers EXCEPT ![k] = answers[k] \cup {x}]
        BY <2>1, <3>2
      <4> QED
        BY <4>1, <4>2 DEF IInv, TypeOK
    <3> QED
      BY <3>1, <3>2
  <2>4. /\ row'[x].key = k
        /\ \A y \in Findings : y # x => row'[y].key = row[y].key
    BY <2>1 DEF IInv, TypeOK, RowType
  <2>5. k # NoKey => \A y \in Findings : row[y].key # k
    BY <1>6 DEF KeyTaken
  <2>6. \A y, z \in Findings : row'[y].key = row'[z].key /\ row'[y].key # NoKey => y = z
    BY <2>4, <2>5 DEF IInv, KeyInv
  <2>7. \A i \in Keys : \A y \in answers'[i] : row'[y].key = i
    <3> SUFFICES ASSUME NEW i \in Keys, NEW y \in answers'[i] PROVE row'[y].key = i
      OBVIOUS
    <3>1. row[x].key = NoKey
      BY <2>1 DEF Absent
    <3>2. CASE y \in answers[i]
      BY <2>4, <3>1, <3>2, FindingsAssumption DEF IInv, TypeOK, KeyInv
    <3>3. CASE y \notin answers[i]
      BY <1>1, <2>1, <2>4, <3>3 DEF IInv, TypeOK
    <3> QED
      BY <3>2, <3>3
  <2> QED
    BY <1>4, <2>2, <2>3, <2>6, <2>7 DEF IInv, TypeOK, KeyInv
<1> QED
  BY <1>5, <1>6

LEMMA CommitKeeps ==
  ASSUME IInv, NEW r \in Requests, Commit(r) PROVE IInv'
<1> DEFINE q == request[r]
           x == q.on
<1>1. q \in RequestType /\ x \in Findings
  BY DEF Commit, IInv, TypeOK, RequestType
<1>2. row' = [row EXCEPT ![x] = After(q, row[x])]
  BY DEF Commit
<1>3. After(q, row[x]) \in RowType /\ After(q, row[x]).key = row[x].key
  <2>1. row[x] \in RowType
    BY <1>1 DEF IInv, TypeOK
  <2>2. Written(q, row[x].status) \in Status \cup {"none"}
    BY <1>1, <2>1 DEF Written, RequestType, RowType
  <2>3. /\ (row[x].has \ q.clear) \cup q.set \in SUBSET Fields
        /\ (IF q.op = "duplicate" THEN q.dup ELSE row[x].dup) \in Findings \cup {NoFinding}
        /\ (row[x].deleted \/ q.op = "delete") \in BOOLEAN
    BY <1>1, <2>1 DEF RowType, RequestType
  <2> DEFINE st == Written(q, row[x].status)
             has == (row[x].has \ q.clear) \cup q.set
             dup == IF q.op = "duplicate" THEN q.dup ELSE row[x].dup
             gone == row[x].deleted \/ q.op = "delete"
  <2>4. After(q, row[x]) = [status |-> st, has |-> has, deleted |-> gone,
                            dup |-> dup, key |-> row[x].key]
    <3>1. row[x] = [status |-> row[x].status, has |-> row[x].has, dup |-> row[x].dup,
                    deleted |-> row[x].deleted, key |-> row[x].key]
      BY <2>1 DEF RowType
    <3>2. After(q, row[x]) = [row[x] EXCEPT !.status = st, !.has = has, !.dup = dup,
                                            !.deleted = gone]
      BY Zenon DEF After
    <3> QED
      BY <3>1, <3>2
  <2>5. st \in Status \cup {"none"} /\ has \in SUBSET Fields /\ gone \in BOOLEAN
        /\ dup \in Findings \cup {NoFinding} /\ row[x].key \in Keys \cup {NoKey}
    BY <2>1, <2>2, <2>3 DEF RowType
  <2> HIDE DEF st, has, dup, gone
  <2> QED
    BY <2>4, <2>5 DEF RowType
<1>4. \A y \in Findings : row'[y].key = row[y].key
  BY <1>1, <1>2, <1>3 DEF IInv, TypeOK
<1>5. answers' = answers
  BY DEF Commit
<1>6. KeyInv'
  BY <1>4, <1>5 DEF IInv, TypeOK, KeyInv
<1>7. \A p \in Requests :
        \/ request'[p] = Idle
        \/ request'[p] = request[p]
        \/ request'[p] = [request[p] EXCEPT !.stale = TRUE]
  BY DEF Commit
<1>8. Idle \in RequestType
  BY DEF Idle, RequestType, Status
<1>9. ASSUME NEW p \in Requests PROVE request'[p] \in RequestType
  <2>1. request[p] \in RequestType
    BY DEF IInv, TypeOK
  <2>2. [request[p] EXCEPT !.stale = TRUE] \in RequestType
    BY <2>1 DEF RequestType
  <2> QED
    BY <1>7, <1>8, <2>1, <2>2
<1>10. request' \in [Requests -> RequestType]
  <2>1. request' = [p \in Requests |-> request'[p]]
    BY DEF Commit
  <2> QED
    BY <1>9, <2>1
<1>11. RequestInv'
  <2> SUFFICES ASSUME NEW p \in Requests
               PROVE  /\ request'[p].op \in {"idle", "create"} => request'[p].on = NoFinding
                      /\ request'[p].op = "delete" =>
                           /\ request'[p].status = "same"
                           /\ request'[p].set = {} /\ request'[p].clear = {}
    BY DEF RequestInv
  <2>1. request[p] \in RequestType
    BY DEF IInv, TypeOK
  <2>2. \/ request'[p] = Idle
        \/ /\ request'[p].op = request[p].op /\ request'[p].on = request[p].on
           /\ request'[p].status = request[p].status
           /\ request'[p].set = request[p].set /\ request'[p].clear = request[p].clear
    BY <1>7, <2>1 DEF RequestType
  <2> QED
    BY <2>2 DEF IInv, RequestInv, Idle
<1> QED
  BY <1>2, <1>3, <1>5, <1>6, <1>10, <1>11 DEF IInv, TypeOK

LEMMA AbortKeeps ==
  ASSUME IInv, NEW r \in Requests, Abort(r) PROVE IInv'
<1>1. Idle \in RequestType
  BY DEF Idle, RequestType, Status
<1> QED
  BY <1>1 DEF Abort, IInv, TypeOK, KeyInv, RequestInv, Idle

LEMMA Step == IInv /\ [Next]_vars => IInv'
<1> SUFFICES ASSUME IInv, [Next]_vars PROVE IInv'
  OBVIOUS
<1>1. CASE UNCHANGED vars
  BY <1>1 DEF vars, IInv, TypeOK, KeyInv, RequestInv
<1>2. CASE Next
  BY <1>2, CreateReadKeeps, CreateInsertKeeps, ReadKeeps, CommitKeeps, AbortKeeps DEF Next
<1> QED
  BY <1>1, <1>2

LEMMA Invariance == Spec => []IInv
  BY Initial, Step, PTL DEF Spec

-----------------------------------------------------------------------------
(* Every state is well typed.                                              *)
THEOREM TypeCorrect == Spec => []TypeOK
<1>1. IInv => TypeOK
  BY DEF IInv
<1> QED
  BY <1>1, Invariance, PTL

(* All answers to one idempotency key name the same finding, however often *)
(* the create is replayed, during another replay or after a deletion.      *)
THEOREM ReplaysAgree == Spec => []OneFindingPerKey
<1>1. ASSUME IInv, NEW k \in Keys PROVE Cardinality(answers[k]) <= 1
  <2>1. answers[k] \subseteq Findings /\ \A x \in answers[k] : row[x].key = k
    BY <1>1 DEF IInv, TypeOK, KeyInv
  <2>2. CASE answers[k] = {}
    BY <2>2, FS_EmptySet
  <2>3. CASE answers[k] # {}
    <3>1. PICK x \in answers[k] : TRUE
      BY <2>3
    <3>2. answers[k] = {x}
      BY <1>1, <2>1, <3>1, FindingsAssumption DEF IInv, KeyInv
    <3> QED
      BY <3>2, FS_Singleton
  <2> QED
    BY <2>2, <2>3
<1>2. IInv => OneFindingPerKey
  BY <1>1 DEF OneFindingPerKey
<1> QED
  BY <1>2, Invariance, PTL

(* The step of one request from which the next theorem follows: only the   *)
(* commit of a bulk operation writes to a deleted row, and it stays one.   *)
LEMMA DeletedStep ==
  ASSUME IInv, [Next]_vars, NEW x \in Findings, row[x].deleted, row'[x] # row[x]
  PROVE  /\ row'[x].deleted
         /\ \E r \in Requests : request[r].op = "bulk" /\ request[r].on = x
<1>1. row[x] \in RowType
  BY DEF IInv, TypeOK
<1>2. ASSUME NEW r \in Requests, CreateInsert(r) PROVE FALSE
  <2>1. PICK y \in Findings :
          /\ row[y] = Absent
          /\ row' = [row EXCEPT ![y].status = "draft", ![y].key = request[r].key]
    BY <1>2 DEF CreateInsert
  <2>2. x # y
    BY <2>1 DEF Absent
  <2> QED
    BY <2>1, <2>2 DEF IInv, TypeOK
<1>3. ASSUME NEW r \in Requests, Commit(r)
      PROVE  row'[x].deleted /\ request[r].op = "bulk" /\ request[r].on = x
  <2>1. /\ row' = [row EXCEPT ![request[r].on] = After(request[r], row[request[r].on])]
        /\ request[r].on # NoFinding /\ Reload(request[r])
    BY <1>3 DEF Commit
  <2>2. request[r].on = x /\ row'[x] = After(request[r], row[x])
    BY <2>1 DEF IInv, TypeOK
  <2>3. row'[x].deleted
    BY <1>1, <2>2 DEF After, RowType
  <2>4. request[r].op \notin {"idle", "create", "patch", "duplicate", "reopen"}
    BY <2>1, <2>2 DEF IInv, RequestInv, Reload
  <2>5. request[r].op # "delete"
    <3> SUFFICES ASSUME request[r].op = "delete" PROVE After(request[r], row[x]) = row[x]
      BY <2>2
    <3>1. request[r].status = "same" /\ request[r].set = {} /\ request[r].clear = {}
      BY DEF IInv, RequestInv
    <3> QED
      BY <1>1, <3>1 DEF After, Written, RowType
  <2>6. request[r] \in RequestType
    BY DEF IInv, TypeOK
  <2> QED
    BY <2>2, <2>3, <2>4, <2>5, <2>6 DEF RequestType
<1>4. ASSUME NEW r \in Requests, NEW y \in Findings,
             \/ PatchRead(r, y) \/ BulkRead(r, y) \/ ReopenRead(r, y) \/ DeleteRead(r, y)
             \/ \E target \in Findings : DuplicateRead(r, y, target)
      PROVE  FALSE
  <2>1. \A op, st, set, clear, dup : Change(r, op, y, st, set, clear, dup) => row' = row
    BY DEF Change
  <2> QED
    BY <1>4, <2>1 DEF PatchRead, BulkRead, ReopenRead, DeleteRead, DuplicateRead
<1>5. ASSUME NEW r \in Requests, NEW k \in Keys \cup {NoKey}, CreateRead(r, k) \/ Abort(r)
      PROVE  FALSE
  BY <1>5 DEF CreateRead, Abort
<1>6. Next
  BY DEF vars
<1> QED
  BY <1>2, <1>3, <1>4, <1>5, <1>6 DEF Next

(* An edit that was on its way when its finding was deleted is rolled      *)
(* back; a bulk operation leaves the finding deleted.                      *)
THEOREM DeletedFindingsStayPut == Spec => DeletedStaysPut
<1>1. IInv /\ [Next]_vars =>
        [\A x \in Findings :
           row[x].deleted /\ row'[x] # row[x] =>
             /\ row'[x].deleted
             /\ \E r \in Requests : request[r].op = "bulk" /\ request[r].on = x]_vars
  BY DeletedStep
<1> QED
  BY <1>1, Invariance, PTL DEF Spec, DeletedStaysPut

-----------------------------------------------------------------------------
(* The lifecycle rules: they survive from the read of a request, at which  *)
(* its gates were evaluated, to its commit, as long as nobody writes to    *)
(* its row.  So the invariant is about the commit that is still to come.   *)
Lawful(was, now, op) ==
  now.status # was.status =>
    /\ was.status = "verified" => op = "reopen"
    /\ now.status = "open" => Required("open") \subseteq now.has
    /\ now.status = "resolved" => \/ Required("resolved") \subseteq now.has
                                  \/ now.dup # NoFinding
    /\ now.status = "verified" => was.status = "resolved"

LawfulInv ==
  \A r \in Requests :
    LET q == request[r] IN
    q.on # NoFinding =>
      /\ row[q.on].status # "none"
      /\ ~q.stale => Lawful(row[q.on], After(q, row[q.on]), q.op)

LEMMA AfterFields ==
  ASSUME NEW q \in RequestType, NEW was \in RowType
  PROVE  /\ After(q, was).status = IF q.status = "same" THEN was.status ELSE q.status
         /\ After(q, was).has = (was.has \ q.clear) \cup q.set
         /\ After(q, was).dup = IF q.op = "duplicate" THEN q.dup ELSE was.dup
BY DEF After, Written, RowType

(* What a request that read x is about to make of it.                      *)
LEMMA ChangeMeans ==
  ASSUME IInv, IInv', NEW r \in Requests, NEW x \in Findings,
         NEW op, NEW dup, NEW st \in Status, NEW set \in SUBSET Fields,
         NEW clear \in SUBSET (Fields \ set), Change(r, op, x, st, set, clear, dup)
  PROVE  LET q == request'[r]
             now == After(q, row[x]) IN
         /\ q.on = x /\ q.op = op
         /\ now.status = st
         /\ now.has = (row[x].has \ clear) \cup set
         /\ op = "duplicate" => now.dup = dup
<1>1. PICK same \in SUBSET (set \cap row[x].has) :
        request' = [request EXCEPT
          ![r] = [Idle EXCEPT !.op = op, !.on = x, !.dup = dup,
                              !.status = IF st = row[x].status THEN "same" ELSE st,
                              !.set = set \ same,
                              !.clear = clear \cap row[x].has]]
  BY DEF Change
<1> DEFINE q == request'[r]
<1>2. q = [Idle EXCEPT !.op = op, !.on = x, !.dup = dup,
                       !.status = IF st = row[x].status THEN "same" ELSE st,
                       !.set = set \ same,
                       !.clear = clear \cap row[x].has]
  BY <1>1 DEF IInv, TypeOK
<1>3. /\ q.on = x /\ q.op = op /\ q.dup = dup
      /\ q.status = IF st = row[x].status THEN "same" ELSE st
      /\ q.set = set \ same /\ q.clear = clear \cap row[x].has
  BY <1>2 DEF Idle
<1>4. row[x] \in RowType /\ q \in RequestType
  BY DEF IInv, TypeOK
<1>5. /\ After(q, row[x]).status = IF q.status = "same" THEN row[x].status ELSE q.status
      /\ After(q, row[x]).has = (row[x].has \ q.clear) \cup q.set
      /\ After(q, row[x]).dup = IF q.op = "duplicate" THEN q.dup ELSE row[x].dup
  BY <1>4, AfterFields
<1>6. (row[x].has \ q.clear) \cup q.set = (row[x].has \ clear) \cup set
  BY <1>3
<1>7. After(q, row[x]).status = st
  <2>1. st # "same"
    BY DEF Status
  <2> QED
    BY <1>3, <1>5, <2>1
<1>8. After(q, row[x]).has = (row[x].has \ clear) \cup set
  BY <1>5, <1>6
<1>9. op = "duplicate" => After(q, row[x]).dup = dup
  BY <1>3, <1>5
<1> QED
  BY <1>3, <1>7, <1>8, <1>9

(* What the gate lets through.                                             *)
LEMMA GateIsLawful ==
  ASSUME NEW was, NEW now, NEW op, was.status \in Status, now.status \in Status,
         Gate(was.status, now.status, now.has)
  PROVE  Lawful(was, now, op)
BY DEF Gate, Lawful, Transitions, Status

LEMMA ReadLawful ==
  ASSUME IInv, IInv', NEW r \in Requests, NEW x \in Findings,
         \/ PatchRead(r, x) \/ BulkRead(r, x) \/ ReopenRead(r, x) \/ DeleteRead(r, x)
         \/ \E target \in Findings : DuplicateRead(r, x, target)
  PROVE  /\ request'[r].on = x /\ row[x].status # "none"
         /\ Lawful(row[x], After(request'[r], row[x]), request'[r].op)
<1> DEFINE now == After(request'[r], row[x])
<1>1. row[x].status \in Status /\ row[x].status # "none"
  BY DEF IInv, TypeOK, RowType, Live, PatchRead, BulkRead, ReopenRead, DeleteRead,
         DuplicateRead, Status
<1>2. ASSUME NEW op, NEW st \in Status, NEW set \in SUBSET Fields,
             NEW clear \in SUBSET (Fields \ set),
             Change(r, op, x, st, set, clear, NoFinding),
             st # row[x].status => Gate(row[x].status, st, (row[x].has \ clear) \cup set)
      PROVE  request'[r].on = x /\ Lawful(row[x], now, request'[r].op)
  <2>1. /\ request'[r].on = x
        /\ now.status = st /\ now.has = (row[x].has \ clear) \cup set
    BY <1>2, ChangeMeans
  <2>2. CASE st = row[x].status
    BY <2>1, <2>2 DEF Lawful
  <2>3. CASE st # row[x].status
    BY <1>1, <1>2, <2>1, <2>3, GateIsLawful
  <2> QED
    BY <2>1, <2>2, <2>3
<1>3. CASE PatchRead(r, x)
  <2>1. PICK st \in Status, set \in SUBSET Fields : \E clear \in SUBSET (Fields \ set) :
          /\ Gate(row[x].status, st, (row[x].has \ clear) \cup set)
          /\ Change(r, "patch", x, st, set, clear, NoFinding)
    BY <1>3 DEF PatchRead
  <2>2. PICK clear \in SUBSET (Fields \ set) :
          /\ Gate(row[x].status, st, (row[x].has \ clear) \cup set)
          /\ Change(r, "patch", x, st, set, clear, NoFinding)
    BY <2>1
  <2>3. request'[r].on = x /\ Lawful(row[x], now, request'[r].op)
    BY <1>2, <2>2
  <2> QED
    BY <1>1, <2>3
<1>4. CASE BulkRead(r, x)
  <2>1. ASSUME NEW st \in Status, NEW set \in SUBSET (Fields \cap {"assignee", "deadline"}),
               Gate(row[x].status, st, row[x].has \cup set),
               Change(r, "bulk", x, st, set, {}, NoFinding)
        PROVE  request'[r].on = x /\ Lawful(row[x], now, request'[r].op)
    <3>1. (row[x].has \ {}) \cup set = row[x].has \cup set
          /\ set \in SUBSET Fields /\ {} \in SUBSET (Fields \ set)
      OBVIOUS
    <3> QED
      BY <1>2, <2>1, <3>1
  <2>2. ASSUME NEW f \in Fields, Change(r, "bulk", x, row[x].status, {f}, {}, NoFinding)
        PROVE  request'[r].on = x /\ Lawful(row[x], now, request'[r].op)
    <3>1. {f} \in SUBSET Fields /\ {} \in SUBSET (Fields \ {f})
      OBVIOUS
    <3> QED
      BY <1>1, <1>2, <2>2, <3>1
  <2>3. CASE Change(r, "bulk", x, row[x].status, {}, Fields \cap {"assignee"}, NoFinding)
    <3>1. {} \in SUBSET Fields /\ Fields \cap {"assignee"} \in SUBSET (Fields \ {})
      OBVIOUS
    <3>2. request'[r].on = x /\ Lawful(row[x], now, request'[r].op)
      BY <1>1, <1>2, <2>3, <3>1
    <3> QED
      BY <1>1, <3>2
  <2>4. \/ \E st \in Status, set \in SUBSET (Fields \cap {"assignee", "deadline"}) :
             /\ Gate(row[x].status, st, row[x].has \cup set)
             /\ Change(r, "bulk", x, st, set, {}, NoFinding)
        \/ \E f \in Fields : Change(r, "bulk", x, row[x].status, {f}, {}, NoFinding)
        \/ Change(r, "bulk", x, row[x].status, {}, Fields \cap {"assignee"}, NoFinding)
    BY <1>4 DEF BulkRead
  <2> QED
    BY <1>1, <2>1, <2>2, <2>3, <2>4
<1>5. CASE ReopenRead(r, x)
  <2>1. ASSUME NEW set \in SUBSET Fields, NEW clear \in SUBSET (Fields \ set),
               Change(r, "reopen", x, "in_progress", set, clear, NoFinding)
        PROVE  request'[r].on = x /\ Lawful(row[x], now, request'[r].op)
    <3>1. /\ request'[r].on = x /\ request'[r].op = "reopen"
          /\ now.status = "in_progress"
      BY <2>1, ChangeMeans DEF Status
    <3> QED
      BY <3>1 DEF Lawful
  <2> QED
    BY <1>5, <2>1 DEF ReopenRead
<1>6. CASE DeleteRead(r, x)
  <2>1. Change(r, "delete", x, row[x].status, {}, {}, NoFinding)
    BY <1>6 DEF DeleteRead
  <2>2. {} \in SUBSET Fields /\ {} \in SUBSET (Fields \ {})
    OBVIOUS
  <2>3. request'[r].on = x /\ now.status = row[x].status
    BY <1>1, <2>1, <2>2, ChangeMeans
  <2> QED
    BY <1>1, <2>3 DEF Lawful
<1>7. ASSUME NEW target \in Findings, DuplicateRead(r, x, target)
      PROVE  request'[r].on = x /\ Lawful(row[x], now, request'[r].op)
  <2> DEFINE set == (Fields \cap {"note"}) \ row[x].has
  <2>1. /\ Change(r, "duplicate", x, "resolved", set, {}, target)
        /\ row[x].status # "verified"
    BY <1>7 DEF DuplicateRead
  <2>2. request'[r].on = x /\ now.status = "resolved" /\ now.dup = target
    <3>1. "resolved" \in Status /\ set \in SUBSET Fields /\ {} \in SUBSET (Fields \ set)
      BY DEF Status
    <3> HIDE DEF set
    <3> QED
      BY <2>1, <3>1, ChangeMeans
  <2> QED
    BY <2>1, <2>2, FindingsAssumption DEF Lawful
<1>8. CASE \E target \in Findings : DuplicateRead(r, x, target)
  <2>1. request'[r].on = x /\ Lawful(row[x], now, request'[r].op)
    BY <1>7, <1>8
  <2> QED
    BY <1>1, <2>1
<1> HIDE DEF now
<1>9. request'[r].on = x /\ row[x].status # "none" /\ Lawful(row[x], now, request'[r].op)
  BY <1>3, <1>4, <1>5, <1>6, <1>8 DEF now
<1> QED
  BY <1>9 DEF now

LEMMA LawfulStep ==
  ASSUME IInv, IInv', LawfulInv, [Next]_vars PROVE LawfulInv'
<1> SUFFICES ASSUME NEW p \in Requests, request'[p].on # NoFinding
             PROVE  LET q == request'[p] IN
                    /\ row'[q.on].status # "none"
                    /\ ~q.stale => Lawful(row'[q.on], After(q, row'[q.on]), q.op)
  BY DEF LawfulInv, After, Written
<1>1. request[p] \in RequestType /\ row \in [Findings -> RowType]
  BY DEF IInv, TypeOK
<1>2. Idle.on = NoFinding
  BY DEF Idle
<1>3. (* The request goes on, and nobody wrote to its row. *)
      ASSUME request'[p] = request[p] \/ request'[p] = [request[p] EXCEPT !.stale = TRUE],
             row'[request[p].on] = row[request[p].on]
      PROVE  LET q == request'[p] IN
             /\ row'[q.on].status # "none"
             /\ ~q.stale => Lawful(row'[q.on], After(q, row'[q.on]), q.op)
  BY <1>1, <1>3 DEF LawfulInv, RequestType
<1>4. CASE UNCHANGED vars
  BY <1>3, <1>4 DEF vars
<1>5. ASSUME NEW r \in Requests, NEW x \in Findings,
             \/ PatchRead(r, x) \/ BulkRead(r, x) \/ ReopenRead(r, x) \/ DeleteRead(r, x)
             \/ \E target \in Findings : DuplicateRead(r, x, target)
      PROVE  LET q == request'[p] IN
             /\ row'[q.on].status # "none"
             /\ ~q.stale => Lawful(row'[q.on], After(q, row'[q.on]), q.op)
  <2>1. row' = row /\ \E q : request' = [request EXCEPT ![r] = q]
    <3>1. \A op, st, set, clear, dup : Change(r, op, x, st, set, clear, dup) =>
            row' = row /\ \E q : request' = [request EXCEPT ![r] = q]
      BY DEF Change
    <3> QED
      BY <1>5, <3>1 DEF PatchRead, BulkRead, ReopenRead, DeleteRead, DuplicateRead
  <2>2. CASE p = r
    BY <1>5, <2>1, <2>2, ReadLawful
  <2>3. CASE p # r
    BY <1>3, <2>1, <2>3 DEF IInv, TypeOK
  <2> QED
    BY <2>2, <2>3
<1>6. ASSUME NEW r \in Requests, NEW k \in Keys \cup {NoKey}, CreateRead(r, k)
      PROVE  LET q == request'[p] IN
             /\ row'[q.on].status # "none"
             /\ ~q.stale => Lawful(row'[q.on], After(q, row'[q.on]), q.op)
  <2>1. row' = row
    BY <1>6 DEF CreateRead
  <2>2. \/ request' = request
        \/ request' = [request EXCEPT ![r] = [Idle EXCEPT !.op = "create", !.key = k]]
    BY <1>6 DEF CreateRead
  <2>3. [Idle EXCEPT !.op = "create", !.key = k].on = NoFinding
    BY DEF Idle
  <2>4. request'[p] = request[p]
    BY <2>2, <2>3 DEF IInv, TypeOK
  <2> QED
    BY <1>3, <2>1, <2>4
<1>7. ASSUME NEW r \in Requests, CreateInsert(r)
      PROVE  LET q == request'[p] IN
             /\ row'[q.on].status # "none"
             /\ ~q.stale => Lawful(row'[q.on], After(q, row'[q.on]), q.op)
  <2>1. request'[p] = request[p]
    BY <1>2, <1>7 DEF CreateInsert, IInv, TypeOK
  <2>2. request[p].on \in Findings /\ row[request[p].on].status # "none"
    BY <1>1, <2>1 DEF LawfulInv, RequestType
  <2>3. CASE row' = row
    BY <1>3, <2>1, <2>3
  <2>4. ASSUME NEW x \in Findings, row[x] = Absent, NEW v, row' = [row EXCEPT ![x] = v]
        PROVE  row'[request[p].on] = row[request[p].on]
    BY <1>1, <2>2, <2>4 DEF Absent
  <2>5. \/ row' = row
        \/ \E x \in Findings : row[x] = Absent /\ \E v : row' = [row EXCEPT ![x] = v]
    <3>1. \/ row' = row
          \/ \E x \in Findings :
               /\ row[x] = Absent
               /\ row' = [row EXCEPT ![x].status = "draft", ![x].key = request[r].key]
      BY <1>7 DEF CreateInsert
    <3>2. ASSUME NEW x \in Findings,
                 row' = [row EXCEPT ![x].status = "draft", ![x].key = request[r].key]
          PROVE  \E v : row' = [row EXCEPT ![x] = v]
      <4>1. row' = [row EXCEPT ![x] = [row[x] EXCEPT !.status = "draft", !.key = request[r].key]]
        BY <1>1, <3>2
      <4> QED
        BY <4>1
    <3> QED
      BY <3>1, <3>2
  <2> QED
    BY <1>3, <2>1, <2>3, <2>4, <2>5
<1>8. ASSUME NEW r \in Requests, Commit(r)
      PROVE  LET q == request'[p] IN
             /\ row'[q.on].status # "none"
             /\ ~q.stale => Lawful(row'[q.on], After(q, row'[q.on]), q.op)
  <2> DEFINE x == request[r].on
             y == request[p].on
  <2>1. /\ row' = [row EXCEPT ![x] = After(request[r], row[x])] /\ x # NoFinding
        /\ request'[p] = IF p = r THEN Idle
                         ELSE IF x \in Reads(request[p]) /\ row' # row
                              THEN [request[p] EXCEPT !.stale = TRUE] ELSE request[p]
    BY <1>8 DEF Commit
  <2>2. request[r] \in RequestType /\ x \in Findings
    BY <2>1 DEF IInv, TypeOK, RequestType
  <2>3. p # r
    BY <1>2, <2>1
  <2>4. request'[p] = request[p] \/ request'[p] = [request[p] EXCEPT !.stale = TRUE]
    BY <2>1, <2>3
  <2>5. CASE row'[y] = row[y]
    BY <1>3, <2>4, <2>5
  <2>6. CASE row'[y] # row[y]
    <3>1. y = x /\ row' # row
      BY <1>1, <2>1, <2>6
    <3>2. request'[p] = [request[p] EXCEPT !.stale = TRUE]
      BY <2>1, <2>3, <3>1 DEF Reads
    <3>3. request'[p].stale /\ request'[p].on = x
      BY <1>1, <3>1, <3>2 DEF RequestType
    <3>4. row'[x] = After(request[r], row[x]) /\ row[x] \in RowType
      BY <1>1, <2>1, <2>2
    <3>5. row'[x].status = IF request[r].status = "same" THEN row[x].status
                           ELSE request[r].status
      BY <2>2, <3>4, AfterFields
    <3>6. row[x].status # "none"
      BY <2>1 DEF LawfulInv
    <3>7. row'[x].status # "none"
      BY <2>2, <3>5, <3>6 DEF RequestType, Status
    <3> QED
      BY <3>3, <3>7
  <2> QED
    BY <2>5, <2>6
<1>9. ASSUME NEW r \in Requests, Abort(r)
      PROVE  LET q == request'[p] IN
             /\ row'[q.on].status # "none"
             /\ ~q.stale => Lawful(row'[q.on], After(q, row'[q.on]), q.op)
  <2>1. row' = row /\ request'[p] = request[p]
    BY <1>2, <1>9 DEF Abort, IInv, TypeOK
  <2> QED
    BY <1>3, <2>1
<1> QED
  BY <1>4, <1>5, <1>6, <1>7, <1>8, <1>9 DEF Next

(* The request that ends either commits, lawfully, or changes nothing.     *)
LEMMA UndisturbedStep ==
  ASSUME IInv, LawfulInv, [Next]_vars, NEW r \in Requests,
         request[r].on # NoFinding, request'[r] = Idle, ~request[r].stale
  PROVE  LegalStep(request[r].on, request[r].op)
<1> DEFINE x == request[r].on
<1>1. request[r] \in RequestType /\ x \in Findings /\ Idle.on = NoFinding
  BY DEF IInv, TypeOK, RequestType, Idle
<1>2. request'[r] # request[r]
  BY <1>1
<1>3. CASE row' = row
  BY <1>3 DEF LegalStep
<1>4. CASE row' # row
  <2>1. PICK p \in Requests : CreateInsert(p) \/ Commit(p)
    <3>1. \A p \in Requests, y \in Findings : \A op, st, set, clear, dup :
            Change(p, op, y, st, set, clear, dup) => row' = row
      BY DEF Change
    <3>2. \A p \in Requests, y \in Findings :
            PatchRead(p, y) \/ BulkRead(p, y) \/ ReopenRead(p, y) => row' = row
      BY <3>1 DEF PatchRead, BulkRead, ReopenRead
    <3>3. \A p \in Requests, y \in Findings :
            DeleteRead(p, y) \/ (\E z \in Findings : DuplicateRead(p, y, z)) => row' = row
      BY <3>1 DEF DeleteRead, DuplicateRead
    <3>4. \A p \in Requests : \A k : CreateRead(p, k) \/ Abort(p) => row' = row
      BY DEF CreateRead, Abort
    <3> QED
      BY <1>4, <3>2, <3>3, <3>4 DEF Next, vars
  <2>2. CASE CreateInsert(p)
    <3>1. request[p].op = "create" /\ request' = [request EXCEPT ![p] = Idle]
      BY <2>2 DEF CreateInsert
    <3>2. p # r
      BY <3>1 DEF IInv, RequestInv
    <3> QED
      BY <1>2, <3>1, <3>2 DEF IInv, TypeOK
  <2>3. CASE Commit(p)
    <3>1. p = r
      <4>1. ASSUME p # r PROVE FALSE
        <5>1. request'[r] = [request[r] EXCEPT !.stale = TRUE]
          BY <1>2, <2>3, <4>1 DEF Commit
        <5>2. request'[r].on = x
          BY <1>1, <5>1 DEF RequestType
        <5> QED
          BY <1>1, <5>2
      <4> QED
        BY <4>1
    <3>2. row'[x] = After(request[r], row[x])
      BY <1>1, <2>3, <3>1 DEF Commit, IInv, TypeOK
    <3>3. Lawful(row[x], row'[x], request[r].op)
      BY <3>2 DEF LawfulInv
    <3> QED
      BY <3>3 DEF Lawful, LegalStep
  <2> QED
    BY <2>1, <2>2, <2>3
<1> QED
  BY <1>3, <1>4

(* A request whose rows nobody wrote between its read and its commit obeys *)
(* the lifecycle, whatever it asks for: the gates of finding.py hold when  *)
(* they are evaluated too early, as long as nobody interferes.             *)
THEOREM UndisturbedRequestsAreLegal == Spec => LegalWhenUndisturbed
<1> DEFINE J == IInv /\ LawfulInv
<1>1. Init => J
  BY Initial DEF Init, LawfulInv, Idle
<1>2. J /\ [Next]_vars => J'
  BY Step, LawfulStep
<1>3. J /\ [Next]_vars =>
        [\A r \in Requests :
           request[r].on # NoFinding /\ request'[r] = Idle /\ ~request[r].stale =>
             LegalStep(request[r].on, request[r].op)]_vars
  BY UndisturbedStep
<1> QED
  BY <1>1, <1>2, <1>3, PTL DEF Spec, LegalWhenUndisturbed

-----------------------------------------------------------------------------
(* Duplicates.  A mark that nobody disturbed still has a target that is no *)
(* duplicate, so that the edge it adds leads out of every circle.          *)
Unmarked(q) == q.dup \in Findings /\ q.dup # q.on /\ (~q.stale => row[q.dup].dup = NoFinding)
MarkInv == \A r \in Requests : request[r].op = "duplicate" => Unmarked(request[r])

(* Only the commit of a mark changes what a finding is a duplicate of.     *)
LEMMA DupStep ==
  ASSUME IInv, [Next]_vars, NEW x \in Findings, row'[x].dup # row[x].dup
  PROVE  \E r \in Requests : Commit(r) /\ request[r].op = "duplicate" /\ request[r].on = x
<1>1. \A p \in Requests, y \in Findings : \A op, st, set, clear, dup :
        Change(p, op, y, st, set, clear, dup) => row' = row
  BY DEF Change
<1>2. \A p \in Requests, y \in Findings :
        PatchRead(p, y) \/ BulkRead(p, y) \/ ReopenRead(p, y) => row' = row
  BY <1>1 DEF PatchRead, BulkRead, ReopenRead
<1>3. \A p \in Requests, y \in Findings :
        DeleteRead(p, y) \/ (\E z \in Findings : DuplicateRead(p, y, z)) => row' = row
  BY <1>1 DEF DeleteRead, DuplicateRead
<1>4. \A p \in Requests : \A k : CreateRead(p, k) \/ Abort(p) => row' = row
  BY DEF CreateRead, Abort
<1>5. row \in [Findings -> RowType] /\ request \in [Requests -> RequestType]
  BY DEF IInv, TypeOK
<1>6. ASSUME NEW p \in Requests, CreateInsert(p) PROVE FALSE
  <2>1. \/ row' = row
        \/ \E y \in Findings : row' = [row EXCEPT ![y].status = "draft", ![y].key = request[p].key]
    BY <1>6 DEF CreateInsert
  <2>2. ASSUME NEW y \in Findings,
               row' = [row EXCEPT ![y].status = "draft", ![y].key = request[p].key]
        PROVE  FALSE
    <3>1. row'[x] = row[x] \/ row'[x] = [row[x] EXCEPT !.status = "draft", !.key = request[p].key]
      BY <1>5, <2>2
    <3> QED
      BY <1>5, <3>1 DEF RowType
  <2> QED
    BY <2>1, <2>2
<1>7. PICK r \in Requests : Commit(r)
  BY <1>2, <1>3, <1>4, <1>6 DEF Next, vars
<1>8. request[r].on \in Findings /\ row' = [row EXCEPT ![request[r].on] = After(request[r], row[request[r].on])]
  BY <1>5, <1>7 DEF Commit, RequestType
<1>9. request[r].on = x /\ row'[x] = After(request[r], row[x])
  BY <1>5, <1>8
<1>10. request[r].op = "duplicate"
  BY <1>5, <1>9, AfterFields
<1> QED
  BY <1>7, <1>9, <1>10

(* What a new mark has read.                                               *)
LEMMA MarkRead ==
  ASSUME IInv, NEW r \in Requests, NEW x \in Findings, NEW target \in Findings,
         DuplicateRead(r, x, target)
  PROVE  /\ request'[r].dup = target /\ request'[r].on = x
         /\ target # x /\ row[target].dup = NoFinding
<1> DEFINE note == (Fields \cap {"note"}) \ row[x].has
<1>1. /\ Change(r, "duplicate", x, "resolved", note, {}, target)
      /\ target # x /\ row[target].dup = NoFinding
  BY DEF DuplicateRead
<1>2. \A set, clear : Change(r, "duplicate", x, "resolved", set, clear, target) =>
        request'[r].dup = target /\ request'[r].on = x
  BY DEF Change, Idle, IInv, TypeOK
<1> QED
  BY <1>1, <1>2

LEMMA MarkStep ==
  ASSUME IInv, IInv', MarkInv, [Next]_vars PROVE MarkInv'
<1> SUFFICES ASSUME NEW p \in Requests, request'[p].op = "duplicate"
             PROVE  Unmarked(request[p])'
  BY DEF MarkInv
<1>1. request \in [Requests -> RequestType] /\ row \in [Findings -> RowType]
  BY DEF IInv, TypeOK
<1>2. Idle.op = "idle"
  BY DEF Idle
<1>3. (* The request goes on, and its target is a duplicate of the same. *)
      ASSUME request'[p] = request[p] \/ request'[p] = [request[p] EXCEPT !.stale = TRUE],
             ~request'[p].stale => row'[request[p].dup].dup = row[request[p].dup].dup
      PROVE  Unmarked(request[p])'
  <2>1. /\ request'[p].op = request[p].op /\ request'[p].on = request[p].on
        /\ request'[p].dup = request[p].dup /\ (request[p].stale => request'[p].stale)
    BY <1>1, <1>3 DEF RequestType
  <2>2. Unmarked(request[p])
    BY <2>1 DEF MarkInv
  <2> QED
    BY <1>3, <2>1, <2>2 DEF Unmarked
<1>4. CASE UNCHANGED vars
  BY <1>3, <1>4 DEF vars
<1>5. ASSUME NEW r \in Requests, NEW x \in Findings,
             \/ PatchRead(r, x) \/ BulkRead(r, x) \/ ReopenRead(r, x) \/ DeleteRead(r, x)
             \/ \E target \in Findings : DuplicateRead(r, x, target)
      PROVE  Unmarked(request[p])'
  <2>1. \A op, st, set, clear, dup : Change(r, op, x, st, set, clear, dup) =>
          /\ row' = row /\ request'[r].op = op
          /\ \A s \in Requests : s # r => request'[s] = request[s]
    BY <1>1 DEF Change, Idle
  <2>2. CASE p # r
    <3>1. row' = row /\ request'[p] = request[p]
      BY <1>5, <2>1, <2>2 DEF PatchRead, BulkRead, ReopenRead, DeleteRead, DuplicateRead
    <3> QED
      BY <1>3, <3>1
  <2>3. CASE p = r
    <3>1. ~(PatchRead(r, x) \/ BulkRead(r, x) \/ ReopenRead(r, x) \/ DeleteRead(r, x))
      <4>1. \A op, st, set, clear, dup :
              Change(r, op, x, st, set, clear, dup) => op = "duplicate"
        BY <2>1, <2>3
      <4>2. ~PatchRead(r, x) /\ ~BulkRead(r, x)
        BY <4>1 DEF PatchRead, BulkRead
      <4>3. ~ReopenRead(r, x) /\ ~DeleteRead(r, x)
        BY <4>1 DEF ReopenRead, DeleteRead
      <4> QED
        BY <4>2, <4>3
    <3>2. PICK target \in Findings : DuplicateRead(r, x, target)
      BY <1>5, <3>1
    <3>3. row' = row
      BY <2>1, <3>2 DEF DuplicateRead
    <3> QED
      BY <2>3, <3>2, <3>3, MarkRead DEF Unmarked
  <2> QED
    BY <2>2, <2>3
<1>6. ASSUME NEW r \in Requests, NEW k \in Keys \cup {NoKey}, CreateRead(r, k)
      PROVE  Unmarked(request[p])'
  <2>1. row' = row
    BY <1>6 DEF CreateRead
  <2>2. \/ request' = request
        \/ request' = [request EXCEPT ![r] = [Idle EXCEPT !.op = "create", !.key = k]]
    BY <1>6 DEF CreateRead
  <2>3. [Idle EXCEPT !.op = "create", !.key = k].op = "create"
    BY DEF Idle
  <2>4. request'[p] = request[p]
    BY <1>1, <2>2, <2>3
  <2> QED
    BY <1>3, <2>1, <2>4
<1>7. ASSUME NEW r \in Requests, CreateInsert(r) \/ Abort(r)
      PROVE  Unmarked(request[p])'
  <2>1. request'[p] = request[p]
    BY <1>1, <1>2, <1>7 DEF CreateInsert, Abort
  <2>2. Unmarked(request[p])
    BY <2>1 DEF MarkInv
  <2>3. ~Commit(r) \/ row' = row
    BY <1>7 DEF Abort, CreateInsert, Commit, IInv, RequestInv
  <2>4. row'[request[p].dup].dup = row[request[p].dup].dup
    <3>1. SUFFICES ASSUME row'[request[p].dup].dup # row[request[p].dup].dup PROVE FALSE
      OBVIOUS
    <3>2. PICK s \in Requests : Commit(s)
      BY <2>2, <3>1, DupStep DEF Unmarked
    <3>3. request[s].on # NoFinding /\ request'[s] = Idle /\ row' # row
      BY <1>1, <3>1, <3>2 DEF Commit
    <3>4. CreateInsert(r)
      BY <1>7, <3>3 DEF Abort
    <3>5. s = r
      BY <1>1, <3>3, <3>4 DEF CreateInsert, Idle
    <3> QED
      BY <3>3, <3>4, <3>5 DEF CreateInsert, IInv, RequestInv
  <2> QED
    BY <1>3, <2>1, <2>4
<1>8. ASSUME NEW r \in Requests, Commit(r)
      PROVE  Unmarked(request[p])'
  <2> DEFINE x == request[r].on
  <2>1. /\ row' = [row EXCEPT ![x] = After(request[r], row[x])]
        /\ request'[p] = IF p = r THEN Idle
                         ELSE IF x \in Reads(request[p]) /\ row' # row
                              THEN [request[p] EXCEPT !.stale = TRUE] ELSE request[p]
    BY <1>8 DEF Commit
  <2>2. p # r
    BY <1>2, <2>1
  <2>3. CASE request[p].dup = x /\ row' # row
    <3>1. request'[p] = [request[p] EXCEPT !.stale = TRUE] /\ request'[p].stale
      BY <1>1, <2>1, <2>2, <2>3 DEF Reads, RequestType
    <3> QED
      BY <1>3, <3>1
  <2>4. CASE ~(request[p].dup = x /\ row' # row)
    <3>1. row'[request[p].dup] = row[request[p].dup]
      BY <1>1, <2>1, <2>4
    <3> QED
      BY <1>3, <2>1, <2>2, <3>1
  <2> QED
    BY <2>3, <2>4
<1> QED
  BY <1>4, <1>5, <1>6, <1>7, <1>8 DEF Next

(* The mark that closes a circle around S was disturbed: otherwise its     *)
(* target is in S but a duplicate of nothing.                              *)
LEMMA CircleStep ==
  ASSUME IInv, MarkInv, [Next]_vars, NEW S \in SUBSET Findings, Circle(S)', ~Circle(S)
  PROVE  \E r \in Requests :
           /\ request[r].op = "duplicate" /\ request[r].on \in S
           /\ request[r].stale /\ request'[r] = Idle
<1>1. row \in [Findings -> RowType] /\ request \in [Requests -> RequestType]
  BY DEF IInv, TypeOK
<1>2. S # {} /\ \A y \in S : row'[y].dup \in S
  BY DEF Circle
<1>3. PICK x \in S : row'[x].dup # row[x].dup
  BY <1>2 DEF Circle
<1>4. PICK r \in Requests : Commit(r) /\ request[r].op = "duplicate" /\ request[r].on = x
  BY <1>3, DupStep
<1> DEFINE t == request[r].dup
<1>5. t \in Findings /\ t # x /\ (~request[r].stale => row[t].dup = NoFinding)
  BY <1>4 DEF MarkInv, Unmarked
<1>6. /\ row' = [row EXCEPT ![x] = After(request[r], row[x])]
      /\ request'[r] = Idle
  BY <1>4 DEF Commit
<1>7. row'[x].dup = t /\ row'[t] = row[t]
  BY <1>1, <1>4, <1>5, <1>6, AfterFields
<1>8. t \in S /\ row[t].dup \in Findings
  BY <1>2, <1>3, <1>7
<1> QED
  BY <1>4, <1>5, <1>6, <1>8, FindingsAssumption

(* Duplicates form chains, but no circle, so that every chain ends in a    *)
(* finding that is worked on; unless a mark is committed on top of a write *)
(* to its finding or its target that it has not seen.                      *)
THEOREM CirclesNeedARace == Spec => CircleOnlyByStaleMark
<1> DEFINE J == IInv /\ MarkInv
<1>1. Init => J
  BY Initial DEF Init, MarkInv, Idle
<1>2. J /\ [Next]_vars => J'
  BY Step, MarkStep
<1>3. J /\ [Next]_vars =>
        [\A S \in SUBSET Findings :
           Circle(S)' /\ ~Circle(S) =>
             \E r \in Requests :
               /\ request[r].op = "duplicate" /\ request[r].on \in S
               /\ request[r].stale /\ request'[r] = Idle]_vars
  BY CircleStep
<1> QED
  BY <1>1, <1>2, <1>3, PTL DEF Spec, CircleOnlyByStaleMark

=============================================================================

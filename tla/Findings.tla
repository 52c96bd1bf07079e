------------------------------ MODULE Findings ------------------------------
(***************************************************************************)
(* The findings (snags) of one project: creation with an idempotency key,  *)
(* the PATCH endpoint and its lifecycle gates, duplicate marking,          *)
(* reopening, deletion, and the rows of a bulk request.                    *)
(*                                                                         *)
(* No handler locks the row it reads.  A request is therefore two actions: *)
(* the read, at which every gate is evaluated and which leaves the changes *)
(* to make; and the flush and commit, which write the changed columns only *)
(* to whatever the row has become.  A row of a bulk request is a request   *)
(* of its own (each runs in its own savepoint).  Permissions are left out: *)
(* some caller with the role a gate asks for exists.                       *)
(***************************************************************************)
EXTENDS Integers, FiniteSets

CONSTANTS
  Findings,   \* bound: ids of the findings that may ever be created
  Requests,   \* requests that can be in progress at one time
  Keys,       \* (creator, Idempotency-Key) pairs of queued creates
  Fields,     \* the optional fields modelled, among AllFields
  NoFinding, NoKey

AllFields == {"assignee", "deadline", "note", "evidence"}

ASSUME FindingsAssumption ==
  /\ NoFinding \notin Findings
  /\ NoKey \notin Keys
  /\ Fields \subseteq AllFields

VARIABLES
  row,      \* the rows of the findings table
  request,  \* requests in progress
  answers   \* findings the creates with a key were answered with

vars == <<row, request, answers>>

Status == {"draft", "open", "in_progress", "resolved", "verified"}

(* _FINDING_TRANSITIONS                                                    *)
Transitions ==
  [draft |-> {"open"}, open |-> {"in_progress", "resolved"},
   in_progress |-> {"resolved", "open"}, resolved |-> {"verified", "in_progress"},
   verified |-> {}]

(* What the promotion and the evidence gate ask for.                       *)
Required(st) ==
  Fields \cap CASE st = "open" -> {"assignee", "deadline"}
                [] st = "resolved" -> {"note", "evidence"}
                [] OTHER -> {}

(* A row; has is the set of its optional fields that are filled in.        *)
RowType ==
  [status : Status \cup {"none"}, has : SUBSET Fields, deleted : BOOLEAN,
   dup : Findings \cup {NoFinding}, key : Keys \cup {NoKey}]
Absent ==
  [status |-> "none", has |-> {}, deleted |-> FALSE, dup |-> NoFinding, key |-> NoKey]

(* A request between its read and its commit: the columns it will change,  *)
(* and whether a row it has read was written by another one since.         *)
RequestType ==
  [op : {"idle", "create", "patch", "bulk", "duplicate", "reopen", "delete"},
   on : Findings \cup {NoFinding}, status : Status \cup {"same"},
   set : SUBSET Fields, clear : SUBSET Fields, dup : Findings \cup {NoFinding},
   key : Keys \cup {NoKey}, stale : BOOLEAN]
Idle ==
  [op |-> "idle", on |-> NoFinding, status |-> "same", set |-> {}, clear |-> {},
   dup |-> NoFinding, key |-> NoKey, stale |-> FALSE]

TypeOK ==
  /\ row \in [Findings -> RowType]
  /\ request \in [Requests -> RequestType]
  /\ answers \in [Keys -> SUBSET Findings]

Init ==
  /\ row = [x \in Findings |-> Absent]
  /\ request = [r \in Requests |-> Idle]
  /\ answers = [k \in Keys |-> {}]

Live(x) == row[x].status # "none" /\ ~row[x].deleted

-----------------------------------------------------------------------------
(* Creation.                                                               *)

(* Mutant: the unique index ignores deleted rows, as the pre-check does.   *)
KeyTakenLive(k) == k # NoKey /\ \E x \in Findings : Live(x) /\ row[x].key = k

(* uq_findings_creator_idempotency_key covers deleted rows.                *)
KeyTaken(k) == k # NoKey /\ \E x \in Findings : row[x].key = k

(* The pre-check: a replay is answered with the finding of its key.        *)
CreateRead(r, k) ==
  /\ request[r] = Idle
  /\ LET prior == {x \in Findings : Live(x) /\ k # NoKey /\ row[x].key = k}
     IN IF prior = {}
        THEN /\ request' = [request EXCEPT ![r] = [Idle EXCEPT !.op = "create", !.key = k]]
             /\ UNCHANGED <<row, answers>>
        ELSE /\ answers' = [answers EXCEPT ![k] = @ \cup prior]
             /\ UNCHANGED <<row, request>>

(* The insert; a unique violation is answered 409.                         *)
CreateInsert(r) ==
  /\ request[r].op = "create"
  /\ LET k == request[r].key
     IN IF KeyTaken(k)
        THEN UNCHANGED <<row, answers>>
        ELSE \E x \in Findings :
               /\ row[x] = Absent
               /\ row' = [row EXCEPT ![x].status = "draft", ![x].key = k]
               /\ answers' = IF k = NoKey THEN answers
                             ELSE [answers EXCEPT ![k] = @ \cup {x}]
  /\ request' = [request EXCEPT ![r] = Idle]

-----------------------------------------------------------------------------
(* Reads: the gates, and the changes they let through.                     *)

(* Mutant: the promotion gate looks at draft -> open only.                 *)
GateOnPromotion(was, st, has) ==
  /\ st # was => st \in Transitions[was]
  /\ was = "draft" => Required(st) \subseteq has
  /\ st # was => (st = "resolved" => Required(st) \subseteq has)

(* The lifecycle gates of update_finding, which set_status shares: a legal *)
(* transition, and the fields an open or newly resolved finding must have. *)
Gate(was, st, has) ==
  /\ st # was => st \in Transitions[was]
  /\ st = "open" => Required(st) \subseteq has
  /\ st = "resolved" /\ st # was => Required(st) \subseteq has

(* Only a column whose value differs from the one read is written; same    *)
(* are those of the set ones that are given the value they had.            *)
Change(r, op, x, st, set, clear, dup) ==
  /\ request[r] = Idle
  /\ \E same \in SUBSET (set \cap row[x].has) :
       request' = [request EXCEPT
         ![r] = [Idle EXCEPT !.op = op, !.on = x, !.dup = dup,
                             !.status = IF st = row[x].status THEN "same" ELSE st,
                             !.set = set \ same,
                             !.clear = clear \cap row[x].has]]
  /\ UNCHANGED <<row, answers>>

PatchRead(r, x) ==
  /\ Live(x)
  /\ \E st \in Status, set \in SUBSET Fields :
       \E clear \in SUBSET (Fields \ set) :
         /\ Gate(row[x].status, st, (row[x].has \ clear) \cup set)
         /\ Change(r, "patch", x, st, set, clear, NoFinding)

(* set_status with an assignee and a deadline aboard; assign, which may    *)
(* take the assignee away, set_deadline and delete have no gate.           *)
BulkRead(r, x) ==
  /\ Live(x)
  /\ \/ \E st \in Status, set \in SUBSET (Fields \cap {"assignee", "deadline"}) :
          /\ Gate(row[x].status, st, row[x].has \cup set)
          /\ Change(r, "bulk", x, st, set, {}, NoFinding)
     \/ \E f \in Fields \cap {"assignee", "deadline"} :
          Change(r, "bulk", x, row[x].status, {f}, {}, NoFinding)
     \/ Change(r, "bulk", x, row[x].status, {}, Fields \cap {"assignee"}, NoFinding)

(* Mutant: any live finding will do as the target.                         *)
DuplicateReadOfAny(r, x, target) ==
  /\ Live(x) /\ Live(target) /\ x # target
  /\ row[x].status # "verified"
  /\ Change(r, "duplicate", x, "resolved", (Fields \cap {"note"}) \ row[x].has, {}, target)

(* mark-duplicate: the target is not itself a duplicate, the finding is    *)
(* not verified; a missing note is filled in.                              *)
DuplicateRead(r, x, target) ==
  /\ Live(x) /\ Live(target) /\ x # target
  /\ row[target].dup = NoFinding
  /\ row[x].status # "verified"
  /\ Change(r, "duplicate", x, "resolved", (Fields \cap {"note"}) \ row[x].has, {}, target)

(* reopen: the reason replaces the note; one of blanks leaves none.        *)
ReopenRead(r, x) ==
  /\ Live(x) /\ row[x].status = "verified"
  /\ \/ Change(r, "reopen", x, "in_progress", Fields \cap {"note"}, {}, NoFinding)
     \/ Change(r, "reopen", x, "in_progress", {}, Fields \cap {"note"}, NoFinding)

(* DELETE, and op = delete of a bulk request.                              *)
DeleteRead(r, x) ==
  Live(x) /\ Change(r, "delete", x, row[x].status, {}, {}, NoFinding)

-----------------------------------------------------------------------------
(* Writes.                                                                 *)

Reads(q) == {q.on, q.dup}

(* Mutant: the response is built without reading the row again.            *)
ReloadSkipped(q) == TRUE

(* The single-finding handlers load the row again after the flush; a row   *)
(* deleted meanwhile is not found, and the transaction rolls back.         *)
Reload(q) == q.op \in {"patch", "duplicate", "reopen"} => ~row[q.on].deleted

(* Mutant: fields the payload leaves unset are written as they are.        *)
WrittenUnset(q, was) == q.status
Written(q, was) == IF q.status = "same" THEN was ELSE q.status

After(q, was) ==
  [was EXCEPT !.status = Written(q, was.status),
              !.has = (was.has \ q.clear) \cup q.set,
              !.dup = IF q.op = "duplicate" THEN q.dup ELSE was.dup,
              !.deleted = was.deleted \/ q.op = "delete"]

Commit(r) ==
  LET q == request[r]
      x == q.on
  IN /\ x # NoFinding
     /\ Reload(q)
     /\ row' = [row EXCEPT ![x] = After(q, row[x])]
     /\ request' = [p \in Requests |->
          IF p = r THEN Idle
          ELSE IF x \in Reads(request[p]) /\ row' # row
               THEN [request[p] EXCEPT !.stale = TRUE] ELSE request[p]]
     /\ UNCHANGED answers

(* A refused flush, a lost connection, a crash: nothing is written.        *)
Abort(r) ==
  /\ request[r] # Idle
  /\ request' = [request EXCEPT ![r] = Idle]
  /\ UNCHANGED <<row, answers>>

Next ==
  \E r \in Requests :
    \/ \E k \in Keys \cup {NoKey} : CreateRead(r, k)
    \/ CreateInsert(r)
    \/ \E x \in Findings :
         \/ PatchRead(r, x) \/ BulkRead(r, x) \/ ReopenRead(r, x) \/ DeleteRead(r, x)
         \/ \E target \in Findings : DuplicateRead(r, x, target)
    \/ Commit(r)
    \/ Abort(r)

Spec == Init /\ [][Next]_vars

-----------------------------------------------------------------------------
(* However often a queued create is replayed, concurrently or after its    *)
(* finding was deleted, every answer to its key names the same finding.    *)
OneFindingPerKey == \A k \in Keys : Cardinality(answers[k]) <= 1

(* A deleted finding is never edited, and never comes back: an edit that   *)
(* was on its way when it was deleted is rolled back, a bulk one excepted. *)
DeletedStaysPut ==
  [][\A x \in Findings :
       row[x].deleted /\ row'[x] # row[x] =>
         /\ row'[x].deleted
         /\ \E r \in Requests : request[r].op = "bulk" /\ request[r].on = x]_vars

(* The lifecycle rules over one step of finding x.                         *)
LegalStep(x, op) ==
  LET was == row[x]
      now == row'[x]
  IN now.status # was.status =>
       /\ was.status = "verified" => op = "reopen"
       /\ now.status = "open" => Required("open") \subseteq now.has
       /\ now.status = "resolved" => \/ Required("resolved") \subseteq now.has
                                     \/ now.dup # NoFinding
       /\ now.status = "verified" => was.status = "resolved"

(* A request whose rows nobody wrote between its read and its commit obeys *)
(* the rules, whatever payload it carries and whichever endpoint it uses.  *)
LegalWhenUndisturbed ==
  [][\A r \in Requests :
       request[r].on # NoFinding /\ request'[r] = Idle /\ ~request[r].stale =>
         LegalStep(request[r].on, request[r].op)]_vars

(* Findings each of which is a duplicate of one of them, so that none of   *)
(* them is the one to look at.                                             *)
Circle(S) == S # {} /\ \A x \in S : row[x].dup \in S

(* mark-duplicate refuses a target that is a duplicate itself: marks may   *)
(* form chains, but one that closes a circle has read its finding or its   *)
(* target before another mark (or edit) of it was committed.               *)
CircleOnlyByStaleMark ==
  [][\A S \in SUBSET Findings :
       Circle(S)' /\ ~Circle(S) =>
         \E r \in Requests :
           /\ request[r].op = "duplicate" /\ request[r].on \in S
           /\ request[r].stale /\ request'[r] = Idle]_vars

=============================================================================

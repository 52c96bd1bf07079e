---------------------------- MODULE MobileOutbox ----------------------------
(***************************************************************************)
(* The offline outbox of the mobile app: photos, new findings and updates  *)
(* of findings that were queued in SQLite, the sync pass that replays them *)
(* and the endpoints of the API it calls.                                  *)
(*                                                                         *)
(* One action is one SQLite statement of the app or one HTTP exchange, so  *)
(* that the app can be killed between any two of them.  The read cache and *)
(* the sign-out wipe are left out.                                         *)
(***************************************************************************)
EXTENDS Integers, FiniteSets

CONSTANTS
  N,            \* entries that may ever be queued: 1 .. N, in FIFO order
  Photos,       \* entries that upload a photo
  Creates,      \* entries that create a finding
  Synced,       \* creates that were synced before
  Needs,        \* Needs[e]: the entries whose temp ids are in e's payload
  Target,       \* Target[u]: the create of the finding u updates
  Wants,        \* Wants[u]: the status update u sets
  Refused,      \* entries the server refuses with a 4xx of its own
  MaxAttempts,  \* MAX_ATTEMPTS
  MaxCrashes,   \* bound: times the app is killed
  Others,       \* whether colleagues and sweeps touch the server's rows
  None

Entries == 1 .. N
Updates == Entries \ (Photos \cup Creates)
Status  == {"draft", "open", "in_progress", "resolved", "verified"}

ASSUME EntriesAssumption ==
  /\ N \in Nat /\ MaxAttempts \in Nat \ {0} /\ MaxCrashes \in Nat
  /\ Photos \subseteq Entries /\ Creates \subseteq Entries \ Photos
  /\ Synced \subseteq Creates /\ Refused \subseteq Entries
  /\ Others \in BOOLEAN /\ None \notin Entries
ASSUME PayloadAssumption ==
  /\ Needs \in [Entries -> SUBSET Entries]
  /\ \A e \in Entries : \A d \in Needs[e] : d < e /\ d \notin Updates
  /\ \A p \in Photos : Needs[p] = {}
  /\ Target \in [Updates -> Creates]
  /\ Wants \in [Updates -> Status]

VARIABLES
  status,    \* outbox.status; "unqueued" before, "gone" after the row exists
  attempts,  \* outbox.attempts
  mapped,    \* entries whose temp id sync_meta maps to a server id
  phase,     \* what the sync pass is doing
  current,   \* the entry it is doing it for
  todo,      \* the entries of the pass's snapshot that are left
  photo,     \* ProjectFile.status of the photos on the server
  finding,   \* Finding.status on the server
  made,      \* rows the server inserted for a create
  applied,   \* updates the server has carried out
  crashes

outbox == <<status, attempts, mapped>>
pass   == <<phase, current, todo>>
server == <<photo, finding, made, applied>>
vars   == <<outbox, pass, server, crashes>>

TypeOK ==
  /\ status \in [Entries -> {"unqueued", "pending", "syncing", "failed",
                             "conflicted", "gone"}]
  /\ attempts \in [Entries -> 0 .. MaxAttempts]
  /\ mapped \subseteq Photos \cup Creates
  /\ phase \in {"idle", "next", "send", "ok", "recorded", "transient", "failed", "conflict"}
  /\ current \in Entries \cup {None}
  /\ todo \subseteq Entries
  /\ photo \in [Photos -> {"absent", "pending", "ready", "swept"}]
  /\ finding \in [Creates -> Status \cup {"absent", "deleted"}]
  /\ made \in [Creates -> 0 .. 2]
  /\ applied \subseteq Updates
  /\ crashes \in 0 .. MaxCrashes

Init ==
  /\ status = [e \in Entries |-> IF e \in Synced THEN "gone" ELSE "unqueued"]
  /\ attempts = [e \in Entries |-> 0]
  /\ mapped = Synced
  /\ phase = "idle" /\ current = None /\ todo = {}
  /\ photo = [p \in Photos |-> "absent"]
  /\ finding = [c \in Creates |-> IF c \in Synced THEN "open" ELSE "absent"]
  /\ made = [c \in Creates |-> IF c \in Synced THEN 1 ELSE 0]
  /\ applied = {} /\ crashes = 0

-----------------------------------------------------------------------------
(* The server: what a request that reaches it does, and its answer.        *)

Transitions ==
  [draft |-> {"open"}, open |-> {"in_progress", "resolved"},
   in_progress |-> {"resolved", "open"}, resolved |-> {"verified", "in_progress"},
   verified |-> {}]

(* Mutant: the key is not looked up.                                       *)
ServeCreateAlways(c, answer) ==
  /\ made[c] < 2
  /\ made' = [made EXCEPT ![c] = @ + 1]
  /\ finding' = [finding EXCEPT ![c] = "draft"]
  /\ answer = "ok"
  /\ UNCHANGED <<photo, applied>>

(* create_finding: a key that is known answers with its finding, or with   *)
(* 409 once that was deleted.                                              *)
ServeCreate(c, answer) ==
  /\ IF made[c] = 0
     THEN /\ made' = [made EXCEPT ![c] = 1]
          /\ finding' = [finding EXCEPT ![c] = "draft"]
     ELSE UNCHANGED <<made, finding>>
  /\ answer = IF finding[c] = "deleted" THEN "transient" ELSE "ok"
  /\ UNCHANGED <<photo, applied>>

(* update_finding: a no-op, a legal transition, or 422; 404 when deleted.  *)
ServeUpdate(u, answer) ==
  LET c == Target[u]
      legal == /\ finding[c] \in Status
               /\ Wants[u] \in Transitions[finding[c]] \cup {finding[c]}
  IN /\ finding' = IF legal THEN [finding EXCEPT ![c] = Wants[u]] ELSE finding
     /\ applied' = IF legal THEN applied \cup {u} ELSE applied
     /\ answer = IF legal THEN "ok"
                 ELSE IF finding[c] \in Status THEN "conflict" ELSE "failed"
     /\ UNCHANGED <<photo, made>>

(* initiate, PUT and complete, or the first of them only.  A refusal of    *)
(* complete rolls back the `rejected` it wrote.  A photo that is ready is  *)
(* refused by complete with 409, one that was swept by initiate.           *)
ServePhoto(p, answer) ==
  /\ \/ /\ photo[p] \in {"absent", "pending"}
        /\ \/ photo' = [photo EXCEPT ![p] = "pending"] /\ answer = "transient"
           \/ /\ p \in Refused /\ answer = "failed"
              /\ photo' = [photo EXCEPT ![p] = "pending"]
           \/ /\ p \notin Refused /\ answer = "ok"
              /\ photo' = [photo EXCEPT ![p] = "ready"]
     \/ photo[p] \in {"ready", "swept"} /\ UNCHANGED photo /\ answer = "transient"
  /\ UNCHANGED <<finding, made, applied>>

Serve(e, answer) ==
  \/ e \in Photos /\ ServePhoto(e, answer)
  \/ e \in Creates \ Refused /\ ServeCreate(e, answer)
  \/ e \in Updates \ Refused /\ ServeUpdate(e, answer)
  \/ e \in Refused \ Photos /\ answer = "failed" /\ UNCHANGED server

Answers == {"ok", "transient", "failed", "conflict"}

(* Colleagues move and delete findings; the pending-upload sweep removes   *)
(* an upload that was never completed.                                     *)
OtherWrites ==
  /\ Others
  /\ \/ \E c \in Creates :
          /\ finding[c] \in Status
          /\ \E s \in Transitions[finding[c]] \cup {"deleted"} :
               finding' = [finding EXCEPT ![c] = s]
          /\ UNCHANGED photo
     \/ \E p \in Photos :
          /\ photo[p] = "pending"
          /\ photo' = [photo EXCEPT ![p] = "swept"]
          /\ UNCHANGED finding
  /\ UNCHANGED <<outbox, pass, made, applied, crashes>>

-----------------------------------------------------------------------------
(* The screens.                                                            *)

(* Offline, or because the request that was tried first got no answer; it  *)
(* may have reached the server all the same (a photo, or an entry that     *)
(* refers to queued ones, is not tried).                                   *)
Enqueue(e) ==
  /\ status[e] = "unqueued"
  /\ \A d \in Entries : d < e => status[d] # "unqueued"
  /\ status' = [status EXCEPT ![e] = "pending"]
  /\ \/ UNCHANGED server
     \/ /\ e \notin Photos /\ Needs[e] \subseteq Synced
        /\ \E answer \in Answers : Serve(e, answer)
  /\ UNCHANGED <<attempts, mapped, pass, crashes>>

(* Mutant: the retry leaves the attempts as they are.                      *)
RetryFailedSpent ==
  /\ \E e \in Entries : status[e] = "failed"
  /\ status' = [e \in Entries |-> IF status[e] = "failed" THEN "pending" ELSE status[e]]
  /\ UNCHANGED <<attempts, mapped, pass, server, crashes>>

(* retryFailed                                                             *)
RetryFailed ==
  /\ \E e \in Entries : status[e] = "failed"
  /\ status' = [e \in Entries |-> IF status[e] = "failed" THEN "pending" ELSE status[e]]
  /\ attempts' = [e \in Entries |-> IF status[e] = "failed" THEN 0 ELSE attempts[e]]
  /\ UNCHANGED <<mapped, pass, server, crashes>>

(* clearConflicts                                                          *)
ClearConflicted ==
  /\ \E e \in Entries : status[e] = "conflicted"
  /\ status' = [e \in Entries |-> IF status[e] = "conflicted" THEN "gone" ELSE status[e]]
  /\ UNCHANGED <<attempts, mapped, pass, server, crashes>>

-----------------------------------------------------------------------------
(* SyncEngine.run                                                          *)

Pending == {e \in Entries : status[e] = "pending"}

(* Photos first, then creates, then updates; each in FIFO order.           *)
Rank(e) == IF e \in Photos THEN 0 ELSE IF e \in Creates THEN 1 ELSE 2
First(e) == \A d \in todo : Rank(e) < Rank(d) \/ (Rank(e) = Rank(d) /\ e <= d)

StartPass ==
  /\ phase = "idle" /\ Pending # {}
  /\ phase' = "next" /\ todo' = Pending
  /\ UNCHANGED <<current, outbox, server, crashes>>

(* The pass is through with entry e.                                       *)
Advance(e) ==
  /\ todo' = todo \ {e}
  /\ phase' = IF todo = {e} THEN "idle" ELSE "next"
  /\ current' = None

(* Mutant: one attempt too many.                                           *)
SpentLate(e) == attempts[e] > MaxAttempts
Spent(e) == attempts[e] >= MaxAttempts

(* Mutant: an entry that waits uses up an attempt.                         *)
WaitBurning(e) ==
  /\ attempts' = [attempts EXCEPT ![e] = @ + 1]
  /\ UNCHANGED <<status, mapped>>

(* An entry whose photos or finding have no server id yet stays pending.   *)
Wait(e) == UNCHANGED outbox

(* The head of syncPhoto, syncCreate and syncUpdate.                       *)
Consider ==
  /\ phase = "next"
  /\ \E e \in todo :
       /\ First(e)
       /\ \/ /\ Spent(e)
             /\ status' = [status EXCEPT ![e] = "failed"]
             /\ Advance(e)
             /\ UNCHANGED <<attempts, mapped>>
          \/ /\ ~Spent(e) /\ ~(Needs[e] \subseteq mapped)
             /\ Wait(e)
             /\ Advance(e)
          \/ /\ ~Spent(e) /\ Needs[e] \subseteq mapped
             /\ status' = [status EXCEPT ![e] = "syncing"]
             /\ phase' = "send" /\ current' = e
             /\ UNCHANGED <<attempts, mapped, todo>>
  /\ UNCHANGED <<server, crashes>>

(* The request is answered ...                                             *)
Answered ==
  /\ phase = "send"
  /\ \E answer \in Answers : Serve(current, answer) /\ phase' = answer
  /\ UNCHANGED <<current, todo, outbox, crashes>>

(* ... or it is not, whether or not it reached the server.                 *)
Unanswered ==
  /\ phase = "send"
  /\ phase' = "transient"
  /\ \/ UNCHANGED server
     \/ \E answer \in Answers : Serve(current, answer)
  /\ UNCHANGED <<current, todo, outbox, crashes>>

(* setMeta, for the temp id of a photo or a finding.                       *)
RecordMapping ==
  /\ phase = "ok"
  /\ mapped' = IF current \in Updates THEN mapped ELSE mapped \cup {current}
  /\ phase' = "recorded"
  /\ UNCHANGED <<status, attempts, current, todo, server, crashes>>

(* removeEntry                                                             *)
RemoveEntry ==
  /\ phase = "recorded"
  /\ status' = [status EXCEPT ![current] = "gone"]
  /\ Advance(current)
  /\ UNCHANGED <<attempts, mapped, server, crashes>>

StatusAfter(p) ==
  CASE p = "transient" -> "pending" [] p = "failed" -> "failed" [] OTHER -> "conflicted"

(* The catch blocks: back to pending, parked as failed, or a conflict.     *)
RecordFailure ==
  /\ phase \in {"transient", "failed", "conflict"}
  /\ status' = [status EXCEPT ![current] = StatusAfter(phase)]
  /\ attempts' = IF phase = "conflict" THEN attempts
                 ELSE [attempts EXCEPT ![current] = @ + 1]
  /\ Advance(current)
  /\ UNCHANGED <<mapped, server, crashes>>

(* The app is killed; what SQLite holds stays.                             *)
Crash ==
  /\ phase # "idle" /\ crashes < MaxCrashes
  /\ crashes' = crashes + 1
  /\ phase' = "idle" /\ current' = None /\ todo' = {}
  /\ UNCHANGED <<outbox, server>>

PassStep == Consider \/ Answered \/ Unanswered \/ RecordMapping \/ RemoveEntry \/ RecordFailure

Next ==
  \/ \E e \in Entries : Enqueue(e)
  \/ RetryFailed \/ ClearConflicted
  \/ StartPass \/ PassStep \/ Crash
  \/ OtherWrites

Spec == Init /\ [][Next]_vars

(* The user comes back to the app, presses retry, and a request that is    *)
(* sent again and again gets through at last (a photo: all three of them). *)
FairSpec ==
  /\ Spec
  /\ WF_vars(StartPass) /\ WF_vars(PassStep)
  /\ \A e \in Entries : SF_vars(Answered /\ current = e /\ phase' # "transient")
  /\ WF_vars(RetryFailed)

-----------------------------------------------------------------------------
(* However often a create is tried and replayed, lost answers and crashes  *)
(* included, the server makes one finding of it.                           *)
OneSnagPerCreate == \A c \in Creates : made[c] <= 1

(* An entry leaves the outbox only when the server has what it asked for,  *)
(* or when the server's version won and the user cleared the conflict.     *)
NothingDropped ==
  [][\A e \in Entries :
       status[e] # "gone" /\ status'[e] = "gone" =>
         \/ status[e] = "conflicted"
         \/ e \in Photos /\ photo[e] = "ready"
         \/ e \in Creates /\ made[e] = 1
         \/ e \in applied]_vars

(* sync.ts: an entry that waits for a photo or a finding burns no attempt, *)
(* so that a slow photo can not fail the finding.                          *)
WaitingBurnsNothing ==
  \A e \in Entries :
    ~(Needs[e] \subseteq mapped) => attempts[e] = 0 /\ status[e] \notin {"failed", "syncing"}

(* A create that is queued reaches the server in the end, or it is stuck   *)
(* for good and for one of these reasons: the server refuses it or a photo *)
(* of it, the app was killed while one of them was being sent, or the      *)
(* photo's row on the server is no longer pending and the app never learnt *)
(* its id.                                                                 *)
Stranded(e) == status[e] = "syncing" /\ current # e
Stuck(c) ==
  \/ Stranded(c) \/ c \in Refused
  \/ \E p \in Needs[c] \ mapped :
       Stranded(p) \/ p \in Refused \/ photo[p] \in {"ready", "swept"}
CreatesReachServer ==
  \A c \in Creates : status[c] = "pending" ~> (made[c] = 1 \/ []Stuck(c))

(* What the user sees of the entries, and what the server carried out.     *)
ShownAs(s) ==
  CASE s \in {"pending", "syncing"} -> "queued"
    [] s = "failed" -> "parked"
    [] s = "conflicted" -> "contested"
    [] OTHER -> s
Shown == [e \in Entries |-> ShownAs(status[e])]
CarriedOut ==
  [e \in Entries |->
     IF e \in Creates THEN made[e]
     ELSE IF e \in applied \/ (e \in Photos /\ photo[e] = "ready") THEN 1 ELSE 0]

(* The outbox is the channel that Delivery describes: at most once, causes *)
(* first, and nothing given up unseen, whatever is lost, retried or killed *)
(* and whatever colleagues do on the server meanwhile.                     *)
Channel == INSTANCE Delivery WITH
             Entries <- Entries,
             Needs <- Needs,
             Contestable <- Updates,
             entry <- Shown,
             done <- CarriedOut
ImplementsDelivery == Channel!Spec

=============================================================================

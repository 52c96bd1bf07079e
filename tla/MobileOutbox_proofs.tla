------------------------- MODULE MobileOutbox_proofs -------------------------
(***************************************************************************)
(* Proofs about MobileOutbox, for any number of entries, any payloads and  *)
(* dependencies, any retry limit and any number of crashes.  The safety    *)
(* properties follow from what the server and the pass keep (ServerInv,    *)
(* PassInv); that the outbox implements Delivery takes ChannelInv besides. *)
(***************************************************************************)
EXTENDS MobileOutbox, TLAPS

-----------------------------------------------------------------------------
(* The server has what entry e asks for.                                   *)
Delivered(e) ==
  \/ e \in Photos /\ photo[e] = "ready"
  \/ e \in Creates /\ made[e] = 1
  \/ e \in applied

(* The server's rows: a key has at most one finding.                       *)
ServerInv == \A c \in Creates : made[c] <= 1

(* An entry that is being sent has attempts left and waits for nothing;    *)
(* once it is answered with success, the server has it.                    *)
PassInv ==
  /\ phase \notin {"idle", "next"} =>
       /\ current \in Entries /\ Needs[current] \subseteq mapped
       /\ attempts[current] < MaxAttempts
  /\ phase \in {"ok", "recorded"} => Delivered(current)

IInv == TypeOK /\ ServerInv /\ PassInv /\ WaitingBurnsNothing

LEMMA Kinds ==
  /\ Photos \subseteq Entries /\ Creates \subseteq Entries /\ Updates \subseteq Entries
  /\ Photos \cap Creates = {} /\ Updates \cap (Photos \cup Creates) = {}
  /\ \A e \in Entries : e \in Photos \/ e \in Creates \/ e \in Updates
BY EntriesAssumption DEF Updates

LEMMA Initial == Init => IInv
<1> SUFFICES ASSUME Init PROVE IInv
  OBVIOUS
<1>1. TypeOK
  BY EntriesAssumption DEF Init, TypeOK, Status
<1>2. ServerInv /\ PassInv
  BY DEF Init, ServerInv, PassInv
<1>3. WaitingBurnsNothing
  BY DEF Init, WaitingBurnsNothing
<1> QED
  BY <1>1, <1>2, <1>3 DEF IInv

-----------------------------------------------------------------------------
(* The server.                                                             *)

ServerTypeOK ==
  /\ photo \in [Photos -> {"absent", "pending", "ready", "swept"}]
  /\ finding \in [Creates -> Status \cup {"absent", "deleted"}]
  /\ made \in [Creates -> 0 .. 2]
  /\ applied \subseteq Updates

(* What the server has it keeps.                                           *)
Keeps == \A e \in Entries : Delivered(e) => Delivered(e)'

(* A request leaves the server's rows in order, takes nothing back, and is *)
(* answered with success only when it was carried out.                     *)
LEMMA ServeKeeps ==
  ASSUME ServerTypeOK, ServerInv, NEW e \in Entries, NEW answer \in Answers, Serve(e, answer)
  PROVE  ServerTypeOK' /\ ServerInv' /\ Keeps /\ (answer = "ok" => Delivered(e)')
<1>1. CASE e \in Photos /\ ServePhoto(e, answer)
  BY <1>1 DEF ServePhoto, ServerTypeOK, ServerInv, Keeps, Delivered
<1>2. CASE e \in Creates \ Refused /\ ServeCreate(e, answer)
  BY <1>2 DEF ServeCreate, ServerTypeOK, ServerInv, Keeps, Delivered, Status
<1>3. CASE e \in Updates \ Refused /\ ServeUpdate(e, answer)
  <2>1. Target[e] \in Creates /\ Wants[e] \in Status
    BY <1>3, PayloadAssumption
  <2>2. UNCHANGED <<photo, made>> /\ (applied' = applied \/ applied' = applied \cup {e})
    BY <1>3 DEF ServeUpdate
  <2>3. finding' \in [Creates -> Status \cup {"absent", "deleted"}]
    BY <1>3, <2>1 DEF ServeUpdate, ServerTypeOK
  <2>4. answer = "ok" => e \in applied'
    BY <1>3 DEF ServeUpdate
  <2> QED
    BY <1>3, <2>2, <2>3, <2>4 DEF ServerTypeOK, ServerInv, Keeps, Delivered
<1>4. CASE e \in Refused \ Photos /\ answer = "failed" /\ UNCHANGED server
  BY <1>4 DEF server, ServerTypeOK, ServerInv, Keeps, Delivered
<1> QED
  BY <1>1, <1>2, <1>3, <1>4 DEF Serve

LEMMA OthersKeep ==
  ASSUME ServerTypeOK, ServerInv, OtherWrites
  PROVE  ServerTypeOK' /\ ServerInv' /\ Keeps
<1>1. ASSUME NEW c \in Creates, finding[c] \in Status,
             NEW s \in Transitions[finding[c]] \cup {"deleted"},
             finding' = [finding EXCEPT ![c] = s], UNCHANGED <<photo, made, applied>>
      PROVE  ServerTypeOK' /\ ServerInv' /\ Keeps
  <2>1. s \in Status \cup {"deleted"}
    BY <1>1 DEF Transitions, Status
  <2> QED
    BY <1>1, <2>1 DEF ServerTypeOK, ServerInv, Keeps, Delivered
<1>2. ASSUME NEW p \in Photos, photo[p] = "pending", photo' = [photo EXCEPT ![p] = "swept"],
             UNCHANGED <<finding, made, applied>>
      PROVE  ServerTypeOK' /\ ServerInv' /\ Keeps
  BY <1>2 DEF ServerTypeOK, ServerInv, Keeps, Delivered
<1> QED
  BY <1>1, <1>2 DEF OtherWrites

-----------------------------------------------------------------------------
(* The queue and the pass, one lemma per action.                           *)

(* The part of the type invariant that is about the app.                   *)
AppTypeOK ==
  /\ status \in [Entries -> {"unqueued", "pending", "syncing", "failed", "conflicted", "gone"}]
  /\ attempts \in [Entries -> 0 .. MaxAttempts]
  /\ mapped \subseteq Photos \cup Creates
  /\ phase \in {"idle", "next", "send", "ok", "recorded", "transient", "failed", "conflict"}
  /\ current \in Entries \cup {None}
  /\ todo \subseteq Entries
  /\ crashes \in 0 .. MaxCrashes

LEMMA TypeParts == TypeOK <=> AppTypeOK /\ ServerTypeOK
BY DEF TypeOK, AppTypeOK, ServerTypeOK

(* A step that leaves the server alone takes nothing back.                 *)
LEMMA QuietServer ==
  ASSUME ServerTypeOK, ServerInv, UNCHANGED server
  PROVE  ServerTypeOK' /\ ServerInv' /\ Keeps
BY DEF ServerTypeOK, ServerInv, Keeps, Delivered, server

(* A step that leaves the pass and the attempts alone keeps the pass in    *)
(* order.                                                                  *)
LEMMA QuietPass ==
  ASSUME PassInv, Keeps, UNCHANGED <<pass, attempts, mapped>>
  PROVE  PassInv'
<1>1. phase' = phase /\ current' = current /\ attempts' = attempts /\ mapped' = mapped
  BY DEF pass
<1>2. ASSUME phase \in {"ok", "recorded"} PROVE Delivered(current)'
  <2>1. current \in Entries /\ Delivered(current)
    BY <1>2 DEF PassInv
  <2>2. \A e \in Entries : e = current => Delivered(e)'
    BY <2>1 DEF Keeps
  <2> QED
    BY <1>1, <2>1, <2>2 DEF Delivered
<1> QED
  BY <1>1, <1>2 DEF PassInv

LEMMA EnqueueStep ==
  ASSUME IInv, NEW e \in Entries, Enqueue(e)
  PROVE  IInv'
<1> USE DEF IInv
<1>1. ServerTypeOK' /\ ServerInv' /\ Keeps
  <2>1. CASE UNCHANGED server
    BY <2>1, QuietServer, TypeParts
  <2>2. CASE \E answer \in Answers : Serve(e, answer)
    BY <2>2, ServeKeeps, TypeParts
  <2> QED
    BY <2>1, <2>2 DEF Enqueue
<1>2. UNCHANGED <<attempts, mapped, phase, current, todo, crashes>>
      /\ status' = [status EXCEPT ![e] = "pending"]
  BY DEF Enqueue, pass
<1>3. AppTypeOK'
  BY <1>2, TypeParts DEF AppTypeOK
<1>4. PassInv'
  BY <1>1, <1>2, QuietPass DEF pass
<1>5. WaitingBurnsNothing'
  BY <1>2 DEF WaitingBurnsNothing, TypeOK
<1> QED
  BY <1>1, <1>3, <1>4, <1>5 DEF TypeOK, AppTypeOK, ServerTypeOK

LEMMA RetryFailedStep ==
  ASSUME IInv, RetryFailed
  PROVE  IInv'
<1> USE DEF IInv
<1>1. UNCHANGED server
      /\ UNCHANGED <<mapped, phase, current, todo, crashes>>
      /\ status' = [e \in Entries |-> IF status[e] = "failed" THEN "pending" ELSE status[e]]
      /\ attempts' = [e \in Entries |-> IF status[e] = "failed" THEN 0 ELSE attempts[e]]
  BY DEF RetryFailed, pass
<1>2. ServerTypeOK' /\ ServerInv' /\ Keeps
  BY <1>1, QuietServer, TypeParts
<1>3. AppTypeOK'
  BY <1>1, TypeParts, EntriesAssumption DEF AppTypeOK
<1>4. PassInv'
  <2>1. phase \notin {"idle", "next"} => attempts'[current] < MaxAttempts
    BY <1>1, EntriesAssumption DEF PassInv
  <2>2. phase \in {"ok", "recorded"} => Delivered(current)'
    BY <1>1 DEF PassInv, Delivered, server
  <2> QED
    BY <1>1, <2>1, <2>2 DEF PassInv
<1>5. WaitingBurnsNothing'
  BY <1>1 DEF WaitingBurnsNothing, TypeOK
<1> QED
  BY <1>2, <1>3, <1>4, <1>5 DEF TypeOK, AppTypeOK, ServerTypeOK

LEMMA ClearConflictedStep ==
  ASSUME IInv, ClearConflicted
  PROVE  IInv'
<1> USE DEF IInv
<1>1. UNCHANGED server
      /\ UNCHANGED <<attempts, mapped, phase, current, todo, crashes>>
      /\ status' = [e \in Entries |-> IF status[e] = "conflicted" THEN "gone" ELSE status[e]]
  BY DEF ClearConflicted, pass
<1>2. ServerTypeOK' /\ ServerInv' /\ Keeps
  BY <1>1, QuietServer, TypeParts
<1>3. AppTypeOK'
  BY <1>1, TypeParts DEF AppTypeOK
<1>4. PassInv'
  BY <1>1, <1>2, QuietPass DEF pass
<1>5. WaitingBurnsNothing'
  BY <1>1 DEF WaitingBurnsNothing, TypeOK
<1> QED
  BY <1>2, <1>3, <1>4, <1>5 DEF TypeOK, AppTypeOK, ServerTypeOK

LEMMA StartPassStep ==
  ASSUME IInv, StartPass
  PROVE  IInv'
<1> USE DEF IInv
<1>1. UNCHANGED server
      /\ UNCHANGED <<status, attempts, mapped, current, crashes>>
      /\ phase' = "next" /\ todo' = Pending
  BY DEF StartPass, outbox
<1>2. ServerTypeOK' /\ ServerInv' /\ Keeps
  BY <1>1, QuietServer, TypeParts
<1>3. AppTypeOK'
  BY <1>1, TypeParts DEF AppTypeOK, Pending
<1>4. PassInv'
  BY <1>1 DEF PassInv
<1>5. WaitingBurnsNothing'
  BY <1>1 DEF WaitingBurnsNothing
<1> QED
  BY <1>2, <1>3, <1>4, <1>5 DEF TypeOK, AppTypeOK, ServerTypeOK

(* An entry that has spent its attempts was sent before, so it waits for   *)
(* nothing and may be parked.                                              *)
LEMMA ConsiderStep ==
  ASSUME IInv, Consider
  PROVE  IInv'
<1> USE DEF IInv
<1>0. PICK e \in todo :
         \/ /\ Spent(e)
            /\ status' = [status EXCEPT ![e] = "failed"]
            /\ Advance(e)
            /\ UNCHANGED <<attempts, mapped>>
         \/ /\ ~Spent(e) /\ ~(Needs[e] \subseteq mapped)
            /\ Wait(e)
            /\ Advance(e)
         \/ /\ ~Spent(e) /\ Needs[e] \subseteq mapped
            /\ status' = [status EXCEPT ![e] = "syncing"]
            /\ phase' = "send" /\ current' = e
            /\ UNCHANGED <<attempts, mapped, todo>>
  BY DEF Consider
<1>1. e \in Entries /\ UNCHANGED server /\ UNCHANGED crashes
  BY TypeParts DEF AppTypeOK, Consider
<1>2. ServerTypeOK' /\ ServerInv' /\ Keeps
  BY <1>1, QuietServer, TypeParts
<1>3. Spent(e) => Needs[e] \subseteq mapped
  BY <1>1, EntriesAssumption DEF Spent, WaitingBurnsNothing, TypeOK
<1>4. ~Spent(e) => attempts[e] < MaxAttempts
  BY <1>1, EntriesAssumption DEF Spent, TypeOK
<1>5. AppTypeOK' /\ UNCHANGED <<attempts, mapped>>
  BY <1>0, <1>1, TypeParts DEF AppTypeOK, Advance, Wait, outbox
<1>6. PassInv'
  BY <1>0, <1>1, <1>4, <1>5 DEF PassInv, Advance
<1>7. WaitingBurnsNothing'
  BY <1>0, <1>1, <1>3, <1>5 DEF WaitingBurnsNothing, TypeOK, Wait, outbox
<1> QED
  BY <1>2, <1>5, <1>6, <1>7 DEF TypeOK, AppTypeOK, ServerTypeOK

LEMMA AnsweredStep ==
  ASSUME IInv, Answered
  PROVE  IInv'
<1> USE DEF IInv
<1>1. /\ phase = "send"
      /\ UNCHANGED <<current, todo, status, attempts, mapped, crashes>>
  BY DEF Answered, outbox
<1>2. current \in Entries
  BY <1>1 DEF PassInv
<1>3. PICK answer \in Answers : Serve(current, answer) /\ phase' = answer
  BY DEF Answered
<1>4. ServerTypeOK' /\ ServerInv' /\ Keeps
  BY <1>2, <1>3, ServeKeeps, TypeParts
<1>5. \A e \in Entries : e = current /\ answer = "ok" => Delivered(e)'
  BY <1>3, ServeKeeps, TypeParts
<1>6. AppTypeOK'
  BY <1>1, <1>3, TypeParts DEF AppTypeOK, Answers
<1>7. PassInv'
  <2>1. phase' \in {"ok", "recorded"} => Delivered(current)'
    BY <1>1, <1>2, <1>3, <1>5 DEF Answers, Delivered
  <2> QED
    BY <1>1, <2>1 DEF PassInv
<1>8. WaitingBurnsNothing'
  BY <1>1 DEF WaitingBurnsNothing
<1> QED
  BY <1>4, <1>6, <1>7, <1>8 DEF TypeOK, AppTypeOK, ServerTypeOK

LEMMA UnansweredStep ==
  ASSUME IInv, Unanswered
  PROVE  IInv'
<1> USE DEF IInv
<1>1. /\ phase = "send" /\ phase' = "transient"
      /\ UNCHANGED <<current, todo, status, attempts, mapped, crashes>>
  BY DEF Unanswered, outbox
<1>2. current \in Entries
  BY <1>1 DEF PassInv
<1>3. ServerTypeOK' /\ ServerInv' /\ Keeps
  <2>1. CASE UNCHANGED server
    BY <2>1, QuietServer, TypeParts
  <2>2. CASE \E answer \in Answers : Serve(current, answer)
    BY <1>2, <2>2, ServeKeeps, TypeParts
  <2> QED
    BY <2>1, <2>2 DEF Unanswered
<1>4. AppTypeOK'
  BY <1>1, TypeParts DEF AppTypeOK
<1>5. PassInv'
  BY <1>1 DEF PassInv
<1>6. WaitingBurnsNothing'
  BY <1>1 DEF WaitingBurnsNothing
<1> QED
  BY <1>3, <1>4, <1>5, <1>6 DEF TypeOK, AppTypeOK, ServerTypeOK

LEMMA RecordMappingStep ==
  ASSUME IInv, RecordMapping
  PROVE  IInv'
<1> USE DEF IInv
<1>1. /\ phase = "ok" /\ phase' = "recorded"
      /\ mapped' = IF current \in Updates THEN mapped ELSE mapped \cup {current}
      /\ UNCHANGED <<current, todo, status, attempts, crashes>> /\ UNCHANGED server
  BY DEF RecordMapping
<1>2. current \in Entries /\ Delivered(current)
  BY <1>1 DEF PassInv
<1>3. ServerTypeOK' /\ ServerInv' /\ Keeps
  BY <1>1, QuietServer, TypeParts
<1>4. mapped \subseteq mapped'
  BY <1>1
<1>5. AppTypeOK'
  BY <1>1, <1>2, TypeParts, Kinds DEF AppTypeOK
<1>6. PassInv'
  BY <1>1, <1>2, <1>4 DEF PassInv, Delivered, server
<1>7. WaitingBurnsNothing'
  BY <1>1, <1>4 DEF WaitingBurnsNothing
<1> QED
  BY <1>3, <1>5, <1>6, <1>7 DEF TypeOK, AppTypeOK, ServerTypeOK

LEMMA RemoveEntryStep ==
  ASSUME IInv, RemoveEntry
  PROVE  IInv'
<1> USE DEF IInv
<1>1. /\ phase = "recorded" /\ status' = [status EXCEPT ![current] = "gone"]
      /\ phase' \in {"idle", "next"} /\ current' = None /\ todo' = todo \ {current}
      /\ UNCHANGED <<attempts, mapped, crashes>> /\ UNCHANGED server
  BY DEF RemoveEntry, Advance
<1>2. ServerTypeOK' /\ ServerInv' /\ Keeps
  BY <1>1, QuietServer, TypeParts
<1>3. AppTypeOK'
  BY <1>1, TypeParts DEF AppTypeOK
<1>4. PassInv'
  BY <1>1 DEF PassInv
<1>5. WaitingBurnsNothing'
  BY <1>1 DEF WaitingBurnsNothing, TypeOK
<1> QED
  BY <1>2, <1>3, <1>4, <1>5 DEF TypeOK, AppTypeOK, ServerTypeOK

(* The entry that failed was sent, so it waits for nothing and may burn an *)
(* attempt; it had one left, so the count stays within the limit.          *)
LEMMA RecordFailureStep ==
  ASSUME IInv, RecordFailure
  PROVE  IInv'
<1> USE DEF IInv
<1>1. /\ phase \in {"transient", "failed", "conflict"}
      /\ status' = [status EXCEPT ![current] = StatusAfter(phase)]
      /\ attempts' = IF phase = "conflict" THEN attempts
                     ELSE [attempts EXCEPT ![current] = attempts[current] + 1]
      /\ phase' \in {"idle", "next"} /\ current' = None /\ todo' = todo \ {current}
      /\ UNCHANGED <<mapped, crashes>> /\ UNCHANGED server
  BY DEF RecordFailure, Advance
<1>2. /\ current \in Entries /\ Needs[current] \subseteq mapped
      /\ attempts[current] < MaxAttempts
  BY <1>1 DEF PassInv
<1>3. ServerTypeOK' /\ ServerInv' /\ Keeps
  BY <1>1, QuietServer, TypeParts
<1>4. StatusAfter(phase) \in {"pending", "failed", "conflicted"}
  BY <1>1 DEF StatusAfter
<1>5. attempts' \in [Entries -> 0 .. MaxAttempts]
  BY <1>1, <1>2, EntriesAssumption DEF TypeOK
<1>6. AppTypeOK'
  BY <1>1, <1>4, <1>5, TypeParts DEF AppTypeOK
<1>7. PassInv'
  BY <1>1 DEF PassInv
<1>8. WaitingBurnsNothing'
  BY <1>1, <1>2 DEF WaitingBurnsNothing, TypeOK
<1> QED
  BY <1>3, <1>6, <1>7, <1>8 DEF TypeOK, AppTypeOK, ServerTypeOK

LEMMA CrashStep ==
  ASSUME IInv, Crash
  PROVE  IInv'
<1> USE DEF IInv
<1>1. /\ crashes < MaxCrashes /\ crashes' = crashes + 1
      /\ phase' = "idle" /\ current' = None /\ todo' = {}
      /\ UNCHANGED <<status, attempts, mapped>> /\ UNCHANGED server
  BY DEF Crash, outbox
<1>2. ServerTypeOK' /\ ServerInv' /\ Keeps
  BY <1>1, QuietServer, TypeParts
<1>3. AppTypeOK'
  BY <1>1, TypeParts, EntriesAssumption DEF AppTypeOK
<1>4. PassInv'
  BY <1>1 DEF PassInv
<1>5. WaitingBurnsNothing'
  BY <1>1 DEF WaitingBurnsNothing
<1> QED
  BY <1>2, <1>3, <1>4, <1>5 DEF TypeOK, AppTypeOK, ServerTypeOK

LEMMA OtherWritesStep ==
  ASSUME IInv, OtherWrites
  PROVE  IInv'
<1> USE DEF IInv
<1>1. UNCHANGED <<status, attempts, mapped, phase, current, todo, crashes>>
  BY DEF OtherWrites, outbox, pass
<1>2. ServerTypeOK' /\ ServerInv' /\ Keeps
  BY OthersKeep, TypeParts
<1>3. AppTypeOK'
  BY <1>1, TypeParts DEF AppTypeOK
<1>4. PassInv'
  BY <1>1, <1>2, QuietPass DEF pass
<1>5. WaitingBurnsNothing'
  BY <1>1 DEF WaitingBurnsNothing
<1> QED
  BY <1>2, <1>3, <1>4, <1>5 DEF TypeOK, AppTypeOK, ServerTypeOK

-----------------------------------------------------------------------------
(* The invariant and the theorems.                                         *)

LEMMA Step == IInv /\ [Next]_vars => IInv'
<1> SUFFICES ASSUME IInv, [Next]_vars PROVE IInv'
  OBVIOUS
<1>1. CASE \E e \in Entries : Enqueue(e)
  BY <1>1, EnqueueStep
<1>2. CASE RetryFailed
  BY <1>2, RetryFailedStep
<1>3. CASE ClearConflicted
  BY <1>3, ClearConflictedStep
<1>4. CASE StartPass
  BY <1>4, StartPassStep
<1>5. CASE PassStep
  BY <1>5, ConsiderStep, AnsweredStep, UnansweredStep, RecordMappingStep, RemoveEntryStep,
     RecordFailureStep DEF PassStep
<1>6. CASE Crash
  BY <1>6, CrashStep
<1>7. CASE OtherWrites
  BY <1>7, OtherWritesStep
<1>8. CASE UNCHANGED vars
  BY <1>8 DEF vars, outbox, pass, server, IInv, TypeOK, ServerInv, PassInv, Delivered,
              WaitingBurnsNothing
<1> QED
  BY <1>1, <1>2, <1>3, <1>4, <1>5, <1>6, <1>7, <1>8 DEF Next

LEMMA Invariance == Spec => []IInv
BY Initial, Step, PTL DEF Spec

(* Every reachable state is well typed; in particular no entry is sent     *)
(* more often than MAX_ATTEMPTS between two retries by hand.               *)
THEOREM TypeCorrect == Spec => []TypeOK
<1>1. IInv => TypeOK
  BY DEF IInv
<1> QED
  BY <1>1, Invariance, PTL

(* However often a create is tried and replayed, and wherever the app is   *)
(* killed, the server makes at most one finding of it.                     *)
THEOREM CreatesAreNotDoubled == Spec => []OneSnagPerCreate
<1>1. IInv => OneSnagPerCreate
  BY DEF IInv, ServerInv, OneSnagPerCreate
<1> QED
  BY <1>1, Invariance, PTL

(* An entry whose photos or finding have no server id yet has burnt no     *)
(* attempt and is neither parked as failed nor being sent.                 *)
THEOREM WaitingIsFree == Spec => []WaitingBurnsNothing
<1>1. IInv => WaitingBurnsNothing
  BY DEF IInv
<1> QED
  BY <1>1, Invariance, PTL

(* An entry leaves the outbox only when the server has what it asked for,  *)
(* or when the user cleared a conflict the server had won.                 *)
THEOREM NothingIsDropped == Spec => NothingDropped
<1> DEFINE Kept(e) ==
      status[e] # "gone" /\ status'[e] = "gone" => status[e] = "conflicted" \/ Delivered(e)
<1>1. ASSUME IInv, [Next]_vars, NEW e \in Entries PROVE Kept(e)
  <2> USE DEF IInv
  <2>1. CASE UNCHANGED status
    BY <2>1
  <2>2. CASE \E d \in Entries : Enqueue(d)
    BY <1>1, <2>2 DEF Enqueue, TypeOK
  <2>3. CASE RetryFailed
    BY <1>1, <2>3 DEF RetryFailed, TypeOK
  <2>4. CASE ClearConflicted
    BY <1>1, <2>4 DEF ClearConflicted, TypeOK
  <2>5. CASE Consider
    BY <1>1, <2>5 DEF Consider, Wait, outbox, TypeOK
  <2>6. CASE RemoveEntry
    <3>1. Delivered(current)
      BY <1>1, <2>6 DEF RemoveEntry, PassInv
    <3>2. e # current => status'[e] = status[e]
      BY <1>1, <2>6 DEF RemoveEntry, TypeOK
    <3> QED
      BY <1>1, <2>6, <3>1, <3>2
  <2>7. CASE RecordFailure
    <3>1. StatusAfter(phase) # "gone"
      BY <1>1, <2>7 DEF RecordFailure, StatusAfter
    <3> QED
      BY <1>1, <2>7, <3>1 DEF RecordFailure, TypeOK
  <2>8. (StartPass \/ Answered \/ Unanswered \/ RecordMapping \/ Crash \/ OtherWrites)
        => UNCHANGED status
    BY DEF StartPass, Answered, Unanswered, RecordMapping, Crash, OtherWrites, outbox
  <2> QED
    BY <1>1, <2>1, <2>2, <2>3, <2>4, <2>5, <2>6, <2>7, <2>8 DEF Next, PassStep, vars, outbox
<1>2. IInv /\ [Next]_vars =>
        [\A e \in Entries :
           status[e] # "gone" /\ status'[e] = "gone" =>
             \/ status[e] = "conflicted"
             \/ e \in Photos /\ photo[e] = "ready"
             \/ e \in Creates /\ made[e] = 1
             \/ e \in applied]_vars
  BY <1>1 DEF Delivered
<1> QED
  BY <1>2, Invariance, PTL DEF Spec, NothingDropped

-----------------------------------------------------------------------------
(* The refinement of Delivery.  It needs more of the pass: the entry that  *)
(* is sent is marked so, the rest of the snapshot is still pending, only   *)
(* an update meets a conflict, and the server has whatever has a server    *)
(* id.                                                                     *)
ChannelInv ==
  /\ phase \in {"idle", "next"} => current = None
  /\ phase \notin {"idle", "next"} => status[current] = "syncing"
  /\ phase = "conflict" => current \in Updates
  /\ \A e \in todo : e # current => status[e] = "pending"
  /\ Synced \subseteq mapped
  /\ \A d \in mapped : Delivered(d)

LEMMA ChannelInitial == Init => ChannelInv
<1> SUFFICES ASSUME Init PROVE ChannelInv
  OBVIOUS
<1>1. \A d \in mapped : Delivered(d)
  BY EntriesAssumption DEF Init, Delivered
<1> QED
  BY <1>1 DEF Init, ChannelInv

LEMMA MappedStays ==
  ASSUME IInv, Keeps, \A d \in mapped : Delivered(d)
  PROVE  \A d \in mapped : Delivered(d)'
BY Kinds DEF Keeps, IInv, TypeOK

(* Only an update is answered with a conflict.                             *)
LEMMA ConflictOfUpdate ==
  ASSUME NEW e \in Entries, Serve(e, "conflict")
  PROVE  e \in Updates
<1>1. ~ServePhoto(e, "conflict") /\ ~ServeCreate(e, "conflict")
  BY DEF ServePhoto, ServeCreate
<1> QED
  BY <1>1 DEF Serve

LEMMA ServerKeeps ==
  ASSUME IInv, [Next]_vars PROVE Keeps
<1>1. ServerTypeOK /\ ServerInv
  BY TypeParts DEF IInv
<1>2. CASE UNCHANGED server
  BY <1>1, <1>2, QuietServer
<1>3. ASSUME NEW e \in Entries, NEW answer \in Answers, Serve(e, answer) PROVE Keeps
  BY <1>1, <1>3, ServeKeeps
<1>4. CASE Answered \/ Unanswered
  <2>1. current \in Entries
    BY <1>4 DEF Answered, Unanswered, IInv, PassInv
  <2> QED
    BY <1>2, <1>3, <1>4, <2>1 DEF Answered, Unanswered
<1>5. CASE \E e \in Entries : Enqueue(e)
  BY <1>2, <1>3, <1>5 DEF Enqueue
<1>6. CASE OtherWrites
  BY <1>1, <1>6, OthersKeep
<1>7. (RetryFailed \/ ClearConflicted \/ StartPass \/ Consider \/ RecordMapping
       \/ RemoveEntry \/ RecordFailure \/ Crash \/ UNCHANGED vars) => UNCHANGED server
  BY DEF RetryFailed, ClearConflicted, StartPass, Consider, RecordMapping, RemoveEntry,
         RecordFailure, Crash, vars
<1> QED
  BY <1>2, <1>4, <1>5, <1>6, <1>7 DEF Next, PassStep

LEMMA ChannelStep ==
  ASSUME IInv, ChannelInv, [Next]_vars PROVE ChannelInv'
<1>1. /\ status \in [Entries -> {"unqueued", "pending", "syncing", "failed", "conflicted", "gone"}]
      /\ todo \subseteq Entries /\ None \notin Entries
      /\ phase \notin {"idle", "next"} => current \in Entries
      /\ phase \in {"ok", "recorded"} => Delivered(current)
  BY EntriesAssumption DEF IInv, TypeOK, PassInv
<1>2. \A d \in mapped : Delivered(d)'
  BY ServerKeeps, MappedStays DEF ChannelInv
<1> USE DEF ChannelInv
<1>3. ASSUME NEW e \in Entries, Enqueue(e) PROVE ChannelInv'
  BY <1>1, <1>2, <1>3 DEF Enqueue, pass
<1>4. CASE RetryFailed
  BY <1>1, <1>2, <1>4 DEF RetryFailed, pass
<1>5. CASE ClearConflicted
  BY <1>1, <1>2, <1>5 DEF ClearConflicted, pass
<1>6. CASE StartPass
  BY <1>1, <1>2, <1>6 DEF StartPass, outbox, Pending
<1>7. CASE Consider
  <2>1. PICK e \in todo :
          \/ status' = [status EXCEPT ![e] = "failed"] /\ Advance(e) /\ UNCHANGED mapped
          \/ UNCHANGED outbox /\ Advance(e)
          \/ /\ status' = [status EXCEPT ![e] = "syncing"]
             /\ phase' = "send" /\ current' = e /\ UNCHANGED <<mapped, todo>>
    BY <1>7 DEF Consider, Wait
  <2>2. phase = "next"
    BY <1>7 DEF Consider
  <2> QED
    BY <1>1, <1>2, <2>1, <2>2 DEF Advance, outbox
<1>8. CASE Answered
  <2>1. PICK answer \in Answers : Serve(current, answer) /\ phase' = answer
    BY <1>8 DEF Answered
  <2>2. answer = "conflict" => current \in Updates
    BY <1>1, <1>8, <2>1, ConflictOfUpdate DEF Answered
  <2> QED
    BY <1>1, <1>2, <1>8, <2>1, <2>2 DEF Answered, Answers, outbox
<1>9. CASE Unanswered
  BY <1>1, <1>2, <1>9 DEF Unanswered, outbox
<1>10. CASE RecordMapping
  <2>1. Delivered(current)'
    BY <1>1, <1>10 DEF RecordMapping, Delivered, server
  <2> QED
    BY <1>1, <1>2, <1>10, <2>1 DEF RecordMapping, Delivered
<1>11. CASE RemoveEntry
  BY <1>1, <1>2, <1>11 DEF RemoveEntry, Advance
<1>12. CASE RecordFailure
  BY <1>1, <1>2, <1>12 DEF RecordFailure, Advance
<1>13. CASE Crash
  BY <1>1, <1>2, <1>13 DEF Crash, outbox
<1>14. CASE OtherWrites
  BY <1>1, <1>2, <1>14 DEF OtherWrites, outbox, pass
<1>15. CASE UNCHANGED vars
  BY <1>2, <1>15 DEF vars, outbox, pass
<1> QED
  BY <1>3, <1>4, <1>5, <1>6, <1>7, <1>8, <1>9, <1>10, <1>11, <1>12, <1>13, <1>14, <1>15
     DEF Next, PassStep

(* What the server carried out, as Delivery counts it.                     *)
Counted ==
  /\ CarriedOut \in [Entries -> {0, 1}]
  /\ \A e \in Entries : CarriedOut[e] = 1 <=> Delivered(e)

LEMMA CountIs == IInv => Counted
<1> SUFFICES ASSUME IInv PROVE Counted
  OBVIOUS
<1>1. \A c \in Creates : made[c] \in {0, 1}
  BY DEF IInv, TypeOK, ServerInv
<1>2. applied \cap (Creates \cup Photos) = {} /\ Creates \cap Photos = {}
  BY Kinds DEF IInv, TypeOK
<1> QED
  BY <1>1, <1>2 DEF Counted, CarriedOut, Delivered

(* Once is all it ever carries an entry out.                               *)
OnceMore(e) ==
  \/ UNCHANGED CarriedOut
  \/ CarriedOut[e] = 0 /\ CarriedOut' = [CarriedOut EXCEPT ![e] = 1]

LEMMA ServeOnce ==
  ASSUME IInv, IInv', NEW e \in Entries, NEW answer \in Answers, Serve(e, answer)
  PROVE  OnceMore(e)
<1>1. Keeps
  BY ServeKeeps, TypeParts DEF IInv
<1>2. \A d \in Entries : d # e /\ Delivered(d)' => Delivered(d)
  <2>1. CASE e \in Photos /\ ServePhoto(e, answer)
    BY <2>1 DEF ServePhoto, Delivered, IInv, TypeOK
  <2>2. CASE e \in Creates \ Refused /\ ServeCreate(e, answer)
    BY <2>2 DEF ServeCreate, Delivered, IInv, TypeOK
  <2>3. CASE e \in Updates \ Refused /\ ServeUpdate(e, answer)
    BY <2>3 DEF ServeUpdate, Delivered
  <2>4. CASE UNCHANGED server
    BY <2>4 DEF server, Delivered
  <2> QED
    BY <2>1, <2>2, <2>3, <2>4 DEF Serve
<1>3. /\ CarriedOut \in [Entries -> {0, 1}] /\ CarriedOut' \in [Entries -> {0, 1}]
      /\ \A d \in Entries : (CarriedOut[d] = 1 <=> Delivered(d))
                           /\ (CarriedOut'[d] = 1 <=> Delivered(d)')
  <2>1. Counted /\ Counted'
    BY CountIs, PTL
  <2> QED
    BY <2>1 DEF Counted
<1>4. \A d \in Entries : d # e => CarriedOut'[d] = CarriedOut[d]
  BY <1>1, <1>2, <1>3 DEF Keeps
<1>5. CarriedOut[e] = 1 => CarriedOut'[e] = 1
  BY <1>1, <1>3 DEF Keeps
<1>6. CASE CarriedOut'[e] = CarriedOut[e]
  BY <1>3, <1>4, <1>6 DEF OnceMore
<1>7. CASE CarriedOut'[e] # CarriedOut[e]
  <2>1. CarriedOut[e] = 0 /\ CarriedOut'[e] = 1
    BY <1>3, <1>5, <1>7
  <2>2. CarriedOut' = [CarriedOut EXCEPT ![e] = 1]
    BY <1>3, <1>4, <2>1
  <2> QED
    BY <2>1, <2>2 DEF OnceMore
<1> QED
  BY <1>6, <1>7

(* Colleagues and sweeps carry nothing out.                                *)
LEMMA OthersCarryNothing ==
  ASSUME IInv, OtherWrites PROVE UNCHANGED CarriedOut
<1>1. UNCHANGED <<made, applied>> /\ \A p \in Photos : photo'[p] = "ready" <=> photo[p] = "ready"
  BY DEF OtherWrites, IInv, TypeOK
<1> QED
  BY <1>1 DEF CarriedOut

LEMMA QuietCount == UNCHANGED server => UNCHANGED CarriedOut
BY DEF server, CarriedOut

(* An entry that moves from one status to another moves for the user.      *)
LEMMA ShownMove ==
  ASSUME IInv, NEW e \in Entries, NEW s, status' = [status EXCEPT ![e] = s]
  PROVE  Shown[e] = ShownAs(status[e]) /\ Shown' = [Shown EXCEPT ![e] = ShownAs(s)]
<1>1. status' \in [Entries -> {status[d] : d \in Entries} \cup {s}]
      /\ status'[e] = s /\ \A d \in Entries : d # e => status'[d] = status[d]
  BY DEF IInv, TypeOK
<1> QED
  BY <1>1 DEF Shown

LEMMA ReadyWhenMapped ==
  ASSUME IInv, ChannelInv, NEW e \in Entries, Needs[e] \subseteq mapped
  PROVE  \A d \in Needs[e] : CarriedOut[d] = 1
<1>1. Needs[e] \subseteq Entries
  BY PayloadAssumption
<1> QED
  BY <1>1, CountIs DEF ChannelInv, Counted

-----------------------------------------------------------------------------
(* Every step of the outbox is a step of the channel, or the user does not *)
(* see it.                                                                 *)
ChannelMoves == Channel!Next \/ UNCHANGED <<Shown, CarriedOut>>

LEMMA ChannelStarts == Init => Channel!Init
<1> SUFFICES ASSUME Init PROVE Channel!Init
  OBVIOUS
<1>1. Shown = [e \in Entries |-> IF e \in Synced THEN "gone" ELSE "unqueued"]
  BY DEF Init, Shown, ShownAs
<1>2. CarriedOut = [e \in Entries |-> IF e \in Synced THEN 1 ELSE 0]
  BY EntriesAssumption DEF Init, CarriedOut
<1> QED
  BY <1>1, <1>2 DEF Channel!Init

(* A request that is answered or not, for an entry that the user sees in   *)
(* the queue.                                                              *)
LEMMA DeliverMoves ==
  ASSUME IInv, IInv', ChannelInv, UNCHANGED status,
         NEW e \in Entries, status[e] = "syncing", Needs[e] \subseteq mapped,
         UNCHANGED server \/ \E answer \in Answers : Serve(e, answer)
  PROVE  ChannelMoves
<1>1. UNCHANGED Shown /\ Shown[e] = "queued"
  BY DEF Shown, ShownAs
<1>2. OnceMore(e)
  BY ServeOnce, QuietCount DEF OnceMore
<1>3. Channel!Ready(e)
  BY ReadyWhenMapped DEF Channel!Ready
<1> QED
  BY <1>1, <1>2, <1>3 DEF OnceMore, ChannelMoves, Channel!Next, Channel!Deliver, Channel!CarryOut

LEMMA QueueMoves ==
  ASSUME IInv, IInv', ChannelInv, NEW e \in Entries, Enqueue(e)
  PROVE  ChannelMoves
<1>1. status[e] = "unqueued" /\ status' = [status EXCEPT ![e] = "pending"]
  BY DEF Enqueue
<1>2. Shown[e] = "unqueued" /\ Shown' = [Shown EXCEPT ![e] = "queued"]
  BY <1>1, ShownMove DEF ShownAs
<1>3. UNCHANGED CarriedOut \/ (Needs[e] \subseteq mapped /\ OnceMore(e))
  BY ServeOnce, QuietCount DEF Enqueue, ChannelInv
<1>4. UNCHANGED CarriedOut \/ Channel!CarryOut(e)
  BY <1>3, ReadyWhenMapped DEF OnceMore, Channel!CarryOut, Channel!Ready
<1> QED
  BY <1>2, <1>4 DEF ChannelMoves, Channel!Next, Channel!Queue, Channel!Move

LEMMA ButtonMoves ==
  ASSUME IInv, RetryFailed \/ ClearConflicted
  PROVE  ChannelMoves
<1>1. status \in [Entries -> {"unqueued", "pending", "syncing", "failed", "conflicted", "gone"}]
      /\ UNCHANGED CarriedOut
  BY QuietCount DEF IInv, TypeOK, RetryFailed, ClearConflicted
<1>2. CASE RetryFailed
  <2>1. Shown' = [e \in Entries |-> IF Shown[e] = "parked" THEN "queued" ELSE Shown[e]]
    BY <1>1, <1>2 DEF RetryFailed, Shown, ShownAs
  <2> QED
    BY <1>1, <2>1 DEF ChannelMoves, Channel!Next, Channel!Retry, Channel!MoveAll
<1>3. CASE ClearConflicted
  <2>1. Shown' = [e \in Entries |-> IF Shown[e] = "contested" THEN "gone" ELSE Shown[e]]
    BY <1>1, <1>3 DEF ClearConflicted, Shown, ShownAs
  <2> QED
    BY <1>1, <2>1 DEF ChannelMoves, Channel!Next, Channel!Clear, Channel!MoveAll
<1> QED
  BY <1>2, <1>3

LEMMA ConsiderMoves ==
  ASSUME IInv, ChannelInv, Consider
  PROVE  ChannelMoves
<1>1. UNCHANGED CarriedOut
  BY QuietCount DEF Consider
<1>2. PICK e \in todo :
        \/ Spent(e) /\ status' = [status EXCEPT ![e] = "failed"]
        \/ UNCHANGED status
        \/ status' = [status EXCEPT ![e] = "syncing"]
  BY DEF Consider, Wait, outbox
<1>3. e \in Entries /\ status[e] = "pending"
  BY EntriesAssumption DEF Consider, IInv, TypeOK, ChannelInv
<1>4. Shown[e] = "queued"
  BY <1>3 DEF Shown, ShownAs
<1>5. CASE UNCHANGED status
  BY <1>1, <1>5 DEF ChannelMoves, Shown
<1>6. CASE status' = [status EXCEPT ![e] = "syncing"]
  <2>1. Shown' = [Shown EXCEPT ![e] = "queued"]
    BY <1>3, <1>6, ShownMove DEF ShownAs
  <2>2. Shown' = Shown
    BY <1>3, <1>4, <2>1 DEF Shown
  <2> QED
    BY <1>1, <2>2 DEF ChannelMoves
<1>7. CASE Spent(e) /\ status' = [status EXCEPT ![e] = "failed"]
  <2>1. Shown' = [Shown EXCEPT ![e] = "parked"]
    BY <1>3, <1>7, ShownMove DEF ShownAs
  <2>2. Needs[e] \subseteq mapped
    BY <1>3, <1>7, EntriesAssumption DEF Spent, IInv, WaitingBurnsNothing, TypeOK
  <2>3. Channel!Park(e)
    BY <1>1, <1>3, <1>4, <2>1, <2>2, ReadyWhenMapped DEF Channel!Park, Channel!Move, Channel!Ready
  <2> QED
    BY <1>3, <2>3 DEF ChannelMoves, Channel!Next
<1> QED
  BY <1>2, <1>5, <1>6, <1>7

LEMMA RemoveMoves ==
  ASSUME IInv, ChannelInv, RemoveEntry
  PROVE  ChannelMoves
<1>1. UNCHANGED CarriedOut
  BY QuietCount DEF RemoveEntry
<1>2. current \in Entries /\ status[current] = "syncing" /\ Delivered(current)
  BY DEF RemoveEntry, IInv, PassInv, ChannelInv
<1>3. Shown[current] = "queued" /\ Shown' = [Shown EXCEPT ![current] = "gone"]
  BY <1>2, ShownMove DEF ShownAs, RemoveEntry
<1>4. CarriedOut[current] = 1
  BY <1>2, CountIs DEF Counted
<1> QED
  BY <1>1, <1>2, <1>3, <1>4 DEF ChannelMoves, Channel!Next, Channel!Forget, Channel!Move

LEMMA FailureMoves ==
  ASSUME IInv, ChannelInv, RecordFailure
  PROVE  ChannelMoves
<1>1. UNCHANGED CarriedOut
  BY QuietCount DEF RecordFailure
<1>2. /\ current \in Entries /\ status[current] = "syncing" /\ Needs[current] \subseteq mapped
      /\ phase = "conflict" => current \in Updates
      /\ phase \in {"transient", "failed", "conflict"}
      /\ status' = [status EXCEPT ![current] = StatusAfter(phase)]
  BY DEF RecordFailure, IInv, PassInv, ChannelInv
<1>3. Shown[current] = "queued" /\ Shown' = [Shown EXCEPT ![current] = ShownAs(StatusAfter(phase))]
  BY <1>2, ShownMove DEF ShownAs
<1>4. Channel!Ready(current)
  BY <1>2, ReadyWhenMapped DEF Channel!Ready
<1>5. CASE phase = "transient"
  <2>1. Shown' = [Shown EXCEPT ![current] = "queued"]
    BY <1>3, <1>5 DEF ShownAs, StatusAfter
  <2>2. Shown' = Shown
    BY <1>2, <1>3, <2>1 DEF Shown
  <2> QED
    BY <1>1, <2>2 DEF ChannelMoves
<1>6. CASE phase = "failed"
  <2>1. Shown' = [Shown EXCEPT ![current] = "parked"]
    BY <1>3, <1>6 DEF ShownAs, StatusAfter
  <2> QED
    BY <1>1, <1>2, <1>3, <1>4, <2>1 DEF ChannelMoves, Channel!Next, Channel!Park, Channel!Move
<1>7. CASE phase = "conflict"
  <2>1. Shown' = [Shown EXCEPT ![current] = "contested"]
    BY <1>3, <1>7 DEF ShownAs, StatusAfter
  <2> QED
    BY <1>1, <1>2, <1>3, <1>4, <1>7, <2>1
       DEF ChannelMoves, Channel!Next, Channel!Contest, Channel!Move
<1> QED
  BY <1>2, <1>5, <1>6, <1>7

LEMMA ChannelSteps ==
  ASSUME IInv, IInv', ChannelInv, [Next]_vars PROVE ChannelMoves
<1>1. CASE \E e \in Entries : Enqueue(e)
  BY <1>1, QueueMoves
<1>2. CASE RetryFailed \/ ClearConflicted
  BY <1>2, ButtonMoves
<1>3. CASE Answered \/ Unanswered
  <2>1. /\ current \in Entries /\ status[current] = "syncing"
        /\ Needs[current] \subseteq mapped /\ UNCHANGED status
        /\ UNCHANGED server \/ \E answer \in Answers : Serve(current, answer)
    BY <1>3 DEF Answered, Unanswered, outbox, IInv, PassInv, ChannelInv
  <2> QED
    BY <2>1, DeliverMoves
<1>4. CASE Consider \/ RemoveEntry \/ RecordFailure
  BY <1>4, ConsiderMoves, RemoveMoves, FailureMoves
<1>5. CASE StartPass \/ RecordMapping \/ Crash \/ OtherWrites \/ UNCHANGED vars
  <2>1. UNCHANGED status
    BY <1>5 DEF StartPass, RecordMapping, Crash, OtherWrites, vars, outbox
  <2>2. UNCHANGED CarriedOut
    BY <1>5, QuietCount, OthersCarryNothing DEF StartPass, RecordMapping, Crash, vars
  <2> QED
    BY <2>1, <2>2 DEF ChannelMoves, Shown
<1> QED
  BY <1>1, <1>2, <1>3, <1>4, <1>5 DEF Next, PassStep

(* The outbox delivers at most once, after what an entry refers to, and    *)
(* gives nothing up but in sight of the user: sync.ts and the endpoints it *)
(* calls implement the channel, for any retries, crashes and lost answers. *)
THEOREM Refinement == Spec => ImplementsDelivery
<1>1. Init => Channel!Init /\ IInv /\ ChannelInv
  BY Initial, ChannelInitial, ChannelStarts
<1>2. IInv /\ ChannelInv /\ [Next]_vars => IInv' /\ ChannelInv'
  BY Step, ChannelStep
<1>3. IInv /\ ChannelInv /\ [Next]_vars => [Channel!Next]_<<Shown, CarriedOut>>
  BY Step, ChannelSteps DEF ChannelMoves
<1> QED
  BY <1>1, <1>2, <1>3, PTL DEF Spec, ImplementsDelivery, Channel!Spec

=============================================================================

------------------------------ MODULE Delivery ------------------------------
(***************************************************************************)
(* What the outbox promises whoever queues entries while offline, without  *)
(* the sync pass, its answers, attempts and crashes: the server carries an *)
(* entry out at most once and after what it refers to; until then the      *)
(* entry is kept, and it is given up only where the user can see it.  The  *)
(* mobile outbox implements it.                                            *)
(***************************************************************************)
EXTENDS Naturals

CONSTANTS Entries,
          Needs,       \* Needs[e]: the entries that e refers to
          Contestable  \* entries that a newer version on the server refutes

VARIABLES entry,  \* what the user sees of it
          done    \* how often the server carried it out

Init ==
  /\ entry \in [Entries -> {"unqueued", "gone"}]
  /\ done = [e \in Entries |-> IF entry[e] = "gone" THEN 1 ELSE 0]

Ready(e) == \A d \in Needs[e] : done[d] = 1

CarryOut(e) ==
  /\ Ready(e) /\ done[e] = 0
  /\ done' = [done EXCEPT ![e] = 1]

Move(e, from, to) ==
  /\ entry[e] = from
  /\ entry' = [entry EXCEPT ![e] = to]

(* The request that was tried before the entry was queued may have been    *)
(* carried out, unanswered.                                                *)
Queue(e) == Move(e, "unqueued", "queued") /\ (UNCHANGED done \/ CarryOut(e))
Deliver(e) == entry[e] = "queued" /\ CarryOut(e) /\ UNCHANGED entry
Forget(e) == Move(e, "queued", "gone") /\ done[e] = 1 /\ UNCHANGED done

(* Only an entry that waits for nothing is given up.                       *)
Park(e) == Move(e, "queued", "parked") /\ Ready(e) /\ UNCHANGED done
Contest(e) ==
  e \in Contestable /\ Move(e, "queued", "contested") /\ Ready(e) /\ UNCHANGED done

(* The user's two buttons.                                                 *)
MoveAll(from, to) ==
  /\ entry' = [e \in Entries |-> IF entry[e] = from THEN to ELSE entry[e]]
  /\ UNCHANGED done
Retry == MoveAll("parked", "queued")
Clear == MoveAll("contested", "gone")

Next ==
  \/ \E e \in Entries : Queue(e) \/ Deliver(e) \/ Forget(e) \/ Park(e) \/ Contest(e)
  \/ Retry \/ Clear

Spec == Init /\ [][Next]_<<entry, done>>

=============================================================================

------------------------------ MODULE Reminders ------------------------------
(***************************************************************************)
(* The deadlines of an organization's projects and the sweep that reminds  *)
(* of them.  Each API instance runs the sweep at an interval, one at a     *)
(* time as long as the connection with the advisory lock lives.  A sweep   *)
(* decides and logs in one transaction what it is about to send, and sends *)
(* afterwards; recompute_deadlines clears the log of a deadline whose date *)
(* changes.                                                                *)
(***************************************************************************)
EXTENDS Integers, FiniteSets

CONSTANTS Deadlines, Instances,
          Tiers,       \* reminder_days: how many days ahead to remind
          Missed,      \* the notification_type that is not a reminder
          Nobody,
          MaxDay,      \* bound on the calendar
          MaxGen,      \* bound on the changes of a due date
          MaxFaults    \* bound on crashes, database errors and lost e-mails

ASSUME TiersAssumption == IsFiniteSet(Tiers) /\ Tiers \subseteq Nat /\ Missed \notin Tiers
ASSUME BoundsAssumption == {MaxDay, MaxGen, MaxFaults} \subseteq Nat
ASSUME NobodyAssumption == Nobody \notin Instances

VARIABLES today,
          deadline,    \* the rows of deadlines
          filing,      \* deadlines that a request to mark as met has read
          log,         \* deadline_notification_log
          lock,        \* the holder of the advisory lock
          sweep,       \* the sweep of each instance
          sent,        \* history: the notices dispatched
          twice,       \* history: those dispatched more than once
          failed,      \* history: the transaction of some sweep failed
          overtaken,   \* history: deadlines whose date changed while a sweep
                       \* was about to log a notice of the date before
          faults       \* the faults so far

rows == <<deadline, filing>>
sweepVars == <<lock, sweep>>
history == <<sent, twice, failed>>
vars == <<today, rows, log, sweepVars, history, overtaken, faults>>

-----------------------------------------------------------------------------
Kinds == Tiers \cup {Missed}
(* gen counts the due dates a deadline has had; due = -1 is none, also of a *)
(* deadline whose row is still to be inserted.                              *)
Notice == [deadline : Deadlines, kind : Kinds, gen : 0 .. MaxGen]
DeadlineType == [status : {"pending", "met", "not_applicable"}, due : -1 .. MaxDay, gen : 0 .. MaxGen]
SweepType == [pc : {"idle", "reading", "deciding", "sending"}, notices : SUBSET Notice]
Resting == [pc |-> "idle", notices |-> {}]

TypeOK ==
  /\ today \in 0 .. MaxDay
  /\ deadline \in [Deadlines -> DeadlineType]
  /\ filing \subseteq Deadlines
  /\ log \subseteq Notice
  /\ lock \in Instances \cup {Nobody}
  /\ sweep \in [Instances -> SweepType]
  /\ sent \subseteq Notice /\ twice \subseteq sent
  /\ failed \in BOOLEAN
  /\ overtaken \subseteq Deadlines
  /\ faults \in 0 .. MaxFaults

Init ==
  /\ today = 0
  /\ \E due \in [Deadlines -> -1 .. MaxDay] :
       deadline = [d \in Deadlines |->
                     [status |-> IF due[d] = -1 THEN "not_applicable" ELSE "pending",
                      due |-> due[d], gen |-> 0]]
  /\ filing = {} /\ log = {} /\ lock = Nobody
  /\ sweep = [i \in Instances |-> Resting]
  /\ sent = {} /\ twice = {} /\ failed = FALSE /\ overtaken = {} /\ faults = 0

-----------------------------------------------------------------------------
Pending(d) == deadline[d].status = "pending"
Overdue(d) == deadline[d].due < today

(* What is to be sent today: the closest of the tiers that are reached.     *)
Applicable(d) ==
  LET reached == {k \in Tiers : deadline[d].due - today <= k} IN
  IF Overdue(d) THEN {Missed} ELSE {k \in reached : \A l \in reached : k <= l}

Logged(d, k) == \E n \in log : n.deadline = d /\ n.kind = k

(* The reminders and alerts that are due today, logged or not.              *)
Due == {n \in Notice : /\ Pending(n.deadline)
                       /\ n.kind \in Applicable(n.deadline)
                       /\ n.gen = deadline[n.deadline].gen}

Fault == faults < MaxFaults /\ faults' = faults + 1
(* Mutant: a lock of the session, which a pooled connection keeps.          *)
ReleasedNever(i) == lock
(* The lock of the transaction ends with it.                                *)
Released(i) == IF lock = i THEN Nobody ELSE lock

-----------------------------------------------------------------------------
(* _run_guarded, and the deadlines that _sweep_org reads.                   *)
SweepBegin(i) ==
  /\ sweep[i].pc = "idle"
  /\ lock = Nobody
  /\ lock' = i
  /\ sweep' = [sweep EXCEPT ![i] = [pc |-> "reading", notices |-> Due]]
  /\ UNCHANGED <<today, rows, log, history, overtaken, faults>>

(* _sweep_deadline asks the log, by which time the deadline may be another. *)
SweepDecide(i) ==
  /\ sweep[i].pc = "reading"
  /\ sweep' = [sweep EXCEPT
       ![i] = [pc |-> "deciding",
               notices |-> {n \in sweep[i].notices : ~Logged(n.deadline, n.kind)}]]
  /\ UNCHANGED <<today, rows, log, lock, history, overtaken, faults>>

Conflict(i) == \E n \in sweep[i].notices : Logged(n.deadline, n.kind)

(* Mutant: without uq_dl_notif_log_reminder_dedup and uq_dl_notif_log_missed. *)
SweepCommitAnyway(i) ==
  /\ sweep[i].pc = "deciding"
  /\ log' = log \cup sweep[i].notices
  /\ sweep' = [sweep EXCEPT ![i].pc = "sending"]
  /\ UNCHANGED <<today, rows, lock, history, overtaken, faults>>
SweepCommit(i) ==
  /\ sweep[i].pc = "deciding"
  /\ ~Conflict(i)
  /\ log' = log \cup sweep[i].notices
  /\ sweep' = [sweep EXCEPT ![i].pc = "sending"]
  /\ UNCHANGED <<today, rows, lock, history, overtaken, faults>>

(* A flush that fails rolls the transaction back.  The loop over the        *)
(* deadlines catches the error, and what was staged by then is still sent.  *)
SweepRefused(i) ==
  /\ sweep[i].pc = "deciding"
  /\ (Conflict(i) /\ UNCHANGED faults) \/ Fault
  /\ \E staged \in SUBSET sweep[i].notices :
       sweep' = [sweep EXCEPT ![i] = [pc |-> "sending", notices |-> staged]]
  /\ failed' = TRUE
  /\ UNCHANGED <<today, rows, log, lock, sent, twice, overtaken>>

Sending(i, n) ==
  /\ sweep[i].pc = "sending"
  /\ n \in sweep[i].notices
  /\ sweep' = [sweep EXCEPT ![i].notices = sweep[i].notices \ {n}]
  /\ UNCHANGED <<today, rows, log, lock, failed, overtaken>>

Send(i) ==
  \E n \in sweep[i].notices :
    /\ Sending(i, n)
    /\ sent' = sent \cup {n}
    /\ twice' = IF n \in sent THEN twice \cup {n} ELSE twice
    /\ UNCHANGED faults

(* A dispatch that fails is logged and not tried again.                     *)
SendFails(i) ==
  \E n \in sweep[i].notices : Sending(i, n) /\ Fault /\ UNCHANGED <<sent, twice>>

SweepEnd(i) ==
  /\ sweep[i].pc = "sending"
  /\ sweep[i].notices = {}
  /\ sweep' = [sweep EXCEPT ![i] = Resting]
  /\ lock' = Released(i)
  /\ UNCHANGED <<today, rows, log, history, overtaken, faults>>

Crash(i) ==
  /\ sweep[i].pc # "idle"
  /\ Fault
  /\ sweep' = [sweep EXCEPT ![i] = Resting]
  /\ lock' = Released(i)
  /\ UNCHANGED <<today, rows, log, history, overtaken>>

(* The connection that holds the lock drops, the sweep goes on.             *)
LockLost ==
  /\ lock # Nobody
  /\ Fault
  /\ lock' = Nobody
  /\ UNCHANGED <<today, rows, log, sweep, history, overtaken>>

-----------------------------------------------------------------------------
(* Mutant: the log of a deadline that was met is kept.                      *)
ClearedUnlessMet(d) == IF deadline[d].status = "met" THEN log ELSE {n \in log : n.deadline # d}
Cleared(d) == {n \in log : n.deadline # d}

(* A sweep that has read the date of d is about to log a notice of it.      *)
Overtaking(d) ==
  \E i \in Instances :
    sweep[i].pc \in {"reading", "deciding"} /\ \E n \in sweep[i].notices : n.deadline = d

(* Mutant: the due date is counted from the day after.                      *)
RedateInclusive(d) ==
  /\ deadline[d].gen < MaxGen
  /\ \E due \in 0 .. MaxDay :
       /\ deadline[d].status # "not_applicable" => due # deadline[d].due
       /\ deadline' = [deadline EXCEPT ![d] = [status |-> "pending", due |-> due + 1,
                                               gen |-> deadline[d].gen + 1]]
  /\ log' = IF deadline[d].status = "not_applicable" THEN log ELSE Cleared(d)
  /\ overtaken' = IF Overtaking(d) THEN overtaken \cup {d} ELSE overtaken
  /\ UNCHANGED <<today, filing, sweepVars, history, faults>>
(* recompute_deadlines when the source date of d changes or is set.  A      *)
(* deadline that was not applicable has no log to clear.                    *)
Redate(d) ==
  /\ deadline[d].gen < MaxGen
  /\ \E due \in 0 .. MaxDay :
       /\ deadline[d].status # "not_applicable" => due # deadline[d].due
       /\ deadline' = [deadline EXCEPT ![d] = [status |-> "pending", due |-> due,
                                               gen |-> deadline[d].gen + 1]]
  /\ log' = IF deadline[d].status = "not_applicable" THEN log ELSE Cleared(d)
  /\ overtaken' = IF Overtaking(d) THEN overtaken \cup {d} ELSE overtaken
  /\ UNCHANGED <<today, filing, sweepVars, history, faults>>

(* recompute_deadlines when the source date is taken away.                  *)
Undate(d) ==
  /\ deadline[d].status # "not_applicable"
  /\ deadline' = [deadline EXCEPT
       ![d] = [status |-> "not_applicable", due |-> -1, gen |-> deadline[d].gen]]
  /\ log' = Cleared(d)
  /\ overtaken' = IF Overtaking(d) THEN overtaken \cup {d} ELSE overtaken
  /\ UNCHANGED <<today, filing, sweepVars, history, faults>>

(* mark_deadline_met, which reads and writes without a lock: the date may   *)
(* have changed, or be gone, when it writes.                                *)
MarkMetRead(d) ==
  /\ Pending(d)
  /\ filing' = filing \cup {d}
  /\ UNCHANGED <<today, deadline, log, sweepVars, history, overtaken, faults>>

MarkMet(d) ==
  /\ d \in filing
  /\ filing' = filing \ {d}
  /\ deadline' = [deadline EXCEPT ![d].status = "met"]
  /\ UNCHANGED <<today, log, sweepVars, history, overtaken, faults>>

NextDay ==
  /\ today < MaxDay
  /\ today' = today + 1
  /\ UNCHANGED <<rows, log, sweepVars, history, overtaken, faults>>

-----------------------------------------------------------------------------
Step(i) == SweepBegin(i) \/ SweepDecide(i) \/ SweepCommit(i) \/ SweepRefused(i) \/ Send(i) \/ SweepEnd(i)

Next ==
  \/ \E i \in Instances : Step(i) \/ SendFails(i) \/ Crash(i)
  \/ \E d \in Deadlines : Redate(d) \/ Undate(d) \/ MarkMetRead(d) \/ MarkMet(d)
  \/ LockLost \/ NextDay

Spec == Init /\ [][Next]_vars

(* The loop of an instance catches what a sweep raises, and a sweep gets    *)
(* on; the fault budget bounds the sweeps that fail.                        *)
FairSpec == Spec /\ \A i \in Instances : WF_vars(Step(i))

-----------------------------------------------------------------------------
(* "never a double-send after commit": a notice of one due date goes out    *)
(* twice only if the transaction of a sweep failed, or if the date changed  *)
(* under a sweep that had read it.                                          *)
SentOnce == ~failed => \A n \in twice : n.deadline \in overtaken

(* "so the new due date gets fresh reminders": what the log holds back was  *)
(* sent for the due date of today, unless a sweep was overtaken.            *)
LogIsOfThisDate ==
  \A n \in log : n.gen = deadline[n.deadline].gen \/ n.deadline \in overtaken

(* No crash, lost lock or second instance keeps the alert of a missed       *)
(* deadline from being logged in the end (if only by a log of its former    *)
(* date, which LogIsOfThisDate is about).                                   *)
MissedIsLogged ==
  \A d \in Deadlines :
    (Pending(d) /\ Overdue(d)) ~> (Logged(d, Missed) \/ ~Pending(d) \/ ~Overdue(d))
=============================================================================

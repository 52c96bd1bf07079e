--------------------------- MODULE Reminders_proofs ---------------------------
(***************************************************************************)
(* Proofs about Reminders, for any number of deadlines, of instances that  *)
(* sweep, of tiers, and any bounds.                                        *)
(***************************************************************************)
EXTENDS Reminders, TLAPS

-----------------------------------------------------------------------------
(* A sweep that has read the deadlines and has not logged its notices.      *)
Open(i) == sweep[i].pc \in {"reading", "deciding"}
Sends(i) == sweep[i].pc = "sending"

(* A deadline that waits has a date, one that does not apply has none.      *)
DueInv ==
  \A d \in Deadlines :
    /\ deadline[d].status = "pending" => deadline[d].due # -1
    /\ deadline[d].status = "not_applicable" => deadline[d].due = -1

(* No notice is of a date to come.                                          *)
GenInv ==
  /\ \A n \in log : n.gen <= deadline[n.deadline].gen
  /\ \A n \in sent : n.gen <= deadline[n.deadline].gen
  /\ \A i \in Instances : \A n \in sweep[i].notices : n.gen <= deadline[n.deadline].gen

(* Unless a sweep was overtaken, what is logged or about to be is of the    *)
(* date the deadline has, and it has one.                                   *)
Current(n) == n.gen = deadline[n.deadline].gen /\ deadline[n.deadline].due # -1
DateInv ==
  /\ \A n \in log : Current(n) \/ n.deadline \in overtaken
  /\ \A i \in Instances : Open(i) =>
       \A n \in sweep[i].notices : Current(n) \/ n.deadline \in overtaken

(* What was sent or is being sent is in the log, or of a date that is past. *)
Settled(n) ==
  n \in log \/ n.gen < deadline[n.deadline].gen \/ deadline[n.deadline].due = -1
Unsettled(n) == n.deadline \in overtaken
SentInv ==
  ~failed =>
    /\ \A n \in sent : Unsettled(n) \/ Settled(n)
    /\ \A i \in Instances : Sends(i) =>
         \A n \in sweep[i].notices :
           Unsettled(n) \/ (Settled(n) /\ n \notin sent)
    /\ \A i, j \in Instances : Sends(i) /\ Sends(j) /\ i # j =>
         \A n \in sweep[i].notices : Unsettled(n) \/ n \notin sweep[j].notices

IInv == TypeOK /\ DueInv /\ GenInv /\ DateInv /\ SentInv /\ SentOnce

-----------------------------------------------------------------------------
LEMMA Initially == Init => IInv
<1> SUFFICES ASSUME Init PROVE IInv
  OBVIOUS
<1>1. PICK due \in [Deadlines -> -1 .. MaxDay] :
        deadline = [d \in Deadlines |->
                      [status |-> IF due[d] = -1 THEN "not_applicable" ELSE "pending",
                       due |-> due[d], gen |-> 0]]
  BY DEF Init
<1>2. /\ today = 0 /\ log = {} /\ filing = {} /\ lock = Nobody /\ sent = {} /\ twice = {}
      /\ failed = FALSE /\ overtaken = {} /\ faults = 0
      /\ sweep = [i \in Instances |-> Resting]
  BY DEF Init
<1>3. deadline \in [Deadlines -> DeadlineType]
  BY <1>1, BoundsAssumption DEF DeadlineType
<1>4. sweep \in [Instances -> SweepType] /\ \A i \in Instances : sweep[i] = Resting
  BY <1>2 DEF SweepType, Resting
<1>5. TypeOK
  <2>1. 0 \in 0 .. MaxDay /\ 0 \in 0 .. MaxFaults
    BY BoundsAssumption
  <2> QED
    BY <1>2, <1>3, <1>4, <2>1 DEF TypeOK
<1>6. DueInv
  BY <1>1 DEF DueInv
<1>7. GenInv /\ DateInv /\ SentInv /\ SentOnce
  BY <1>2, <1>4 DEF GenInv, DateInv, SentInv, SentOnce, Open, Sends, Resting
<1> QED
  BY <1>5, <1>6, <1>7 DEF IInv

(* A sweep that only goes on changes one instance.                          *)
LEMMA OneSweep ==
  ASSUME TypeOK, NEW i \in Instances, NEW s \in SweepType, sweep' = [sweep EXCEPT ![i] = s]
  PROVE  /\ sweep' \in [Instances -> SweepType] /\ sweep'[i] = s
         /\ \A j \in Instances : j # i => sweep'[j] = sweep[j]
BY DEF TypeOK

LEMMA FaultTyped ==
  ASSUME TypeOK, Fault
  PROVE  faults' \in 0 .. MaxFaults
BY BoundsAssumption DEF TypeOK, Fault

-----------------------------------------------------------------------------
LEMMA BeginStep ==
  ASSUME IInv, NEW i \in Instances, SweepBegin(i)
  PROVE  IInv'
<1> DEFINE s == [pc |-> "reading", notices |-> Due]
<1>1. Due \subseteq Notice
  BY DEF Due
<1>2. s \in SweepType
  BY <1>1 DEF SweepType
<1>3. /\ sweep' = [sweep EXCEPT ![i] = s] /\ lock' = i
      /\ UNCHANGED <<today, deadline, filing, log, sent, twice, failed, overtaken, faults>>
  BY DEF SweepBegin, rows, history
<1>4. s.pc = "reading" /\ s.notices = Due
  OBVIOUS
<1> HIDE DEF s
<1>5. /\ sweep' \in [Instances -> SweepType] /\ sweep'[i] = s
      /\ \A j \in Instances : j # i => sweep'[j] = sweep[j]
  BY <1>2, <1>3, OneSweep DEF IInv
<1>6. TypeOK'
  BY <1>3, <1>5 DEF IInv, TypeOK
<1>7. \A n \in Due : Current(n) /\ n.gen <= deadline[n.deadline].gen
  BY DEF Due, Pending, Current, IInv, DueInv, TypeOK, Notice, DeadlineType
<1>8. DueInv' /\ SentOnce'
  BY <1>3 DEF IInv, DueInv, SentOnce
<1>9. GenInv'
  BY <1>3, <1>4, <1>5, <1>7 DEF IInv, GenInv
<1>10. DateInv'
  BY <1>3, <1>4, <1>5, <1>7 DEF IInv, DateInv, Open, Current
<1>11. SentInv'
  BY <1>3, <1>4, <1>5 DEF IInv, SentInv, Sends, Settled, Unsettled
<1> QED
  BY <1>6, <1>8, <1>9, <1>10, <1>11 DEF IInv

LEMMA DecideStep ==
  ASSUME IInv, NEW i \in Instances, SweepDecide(i)
  PROVE  IInv'
<1> DEFINE left == {n \in sweep[i].notices : ~Logged(n.deadline, n.kind)}
           s == [pc |-> "deciding", notices |-> left]
<1>1. left \subseteq sweep[i].notices
  OBVIOUS
<1> HIDE DEF left
<1>2. s \in SweepType
  BY <1>1 DEF SweepType, IInv, TypeOK
<1>3. /\ sweep' = [sweep EXCEPT ![i] = s] /\ Open(i)
      /\ UNCHANGED <<today, deadline, filing, log, lock, sent, twice, failed, overtaken, faults>>
  BY DEF SweepDecide, rows, history, Open, left
<1>4. s.pc = "deciding" /\ s.notices = left
  OBVIOUS
<1> HIDE DEF s
<1>5. /\ sweep' \in [Instances -> SweepType] /\ sweep'[i] = s
      /\ \A j \in Instances : j # i => sweep'[j] = sweep[j]
  BY <1>2, <1>3, OneSweep DEF IInv
<1>6. TypeOK'
  BY <1>3, <1>5 DEF IInv, TypeOK
<1>7. DueInv' /\ SentOnce'
  BY <1>3 DEF IInv, DueInv, SentOnce
<1>8. GenInv'
  BY <1>1, <1>3, <1>4, <1>5 DEF IInv, GenInv
<1>9. DateInv'
  BY <1>1, <1>3, <1>4, <1>5 DEF IInv, DateInv, Open, Current
<1>10. SentInv'
  BY <1>3, <1>4, <1>5 DEF IInv, SentInv, Sends, Settled, Unsettled
<1> QED
  BY <1>6, <1>7, <1>8, <1>9, <1>10 DEF IInv

LEMMA CommitStep ==
  ASSUME IInv, NEW i \in Instances, SweepCommit(i)
  PROVE  IInv'
<1> DEFINE N == sweep[i].notices
           s == [pc |-> "sending", notices |-> N]
<1>0. N \subseteq Notice /\ sweep[i] \in SweepType
  BY DEF IInv, TypeOK, SweepType
<1>1. /\ sweep' = [sweep EXCEPT ![i].pc = "sending"] /\ log' = log \cup N /\ sweep[i].pc = "deciding"
      /\ UNCHANGED <<today, deadline, filing, lock, sent, twice, failed, overtaken, faults>>
  BY DEF SweepCommit, rows, history
<1>2. \A n \in N : n \notin log
  BY DEF SweepCommit, Conflict, Logged
<1>3. s \in SweepType /\ sweep' = [sweep EXCEPT ![i] = s]
  <2>1. [sweep[i] EXCEPT !.pc = "sending"] = s
    BY <1>0 DEF SweepType
  <2>2. s \in SweepType
    BY <1>0 DEF SweepType
  <2> HIDE DEF s
  <2> QED
    BY <1>1, <2>1, <2>2
<1>4. s.pc = "sending" /\ s.notices = N
  OBVIOUS
<1> HIDE DEF s
<1>5. /\ sweep' \in [Instances -> SweepType] /\ sweep'[i] = s
      /\ \A j \in Instances : j # i => sweep'[j] = sweep[j]
  BY <1>3, OneSweep DEF IInv
<1>6. TypeOK'
  BY <1>0, <1>1, <1>5 DEF IInv, TypeOK
<1>7. DueInv' /\ SentOnce'
  BY <1>1 DEF IInv, DueInv, SentOnce
<1>8. GenInv'
  BY <1>1, <1>4, <1>5 DEF IInv, GenInv
<1>9. \A n \in N : Current(n) \/ n.deadline \in overtaken
  BY <1>1 DEF IInv, DateInv, Open
<1>10. DateInv'
  BY <1>1, <1>4, <1>5, <1>9 DEF IInv, DateInv, Open, Current
(* What it has logged was neither sent before nor is it being sent.         *)
<1>11. \A n \in N : Unsettled(n) \/ ~Settled(n)
  BY <1>0, <1>2, <1>9 DEF Unsettled, Settled, Current, Notice, IInv, TypeOK, DeadlineType
<1> HIDE DEF N
<1>12. \A n : Settled(n) => Settled(n)'
  BY <1>1 DEF Settled
<1>13. \A n \in N : Settled(n)'
  BY <1>1 DEF Settled
<1>14. SentInv'
  BY <1>1, <1>4, <1>5, <1>11, <1>12, <1>13 DEF IInv, SentInv, Sends, Unsettled
<1> QED
  BY <1>6, <1>7, <1>8, <1>10, <1>14 DEF IInv

LEMMA RefusedStep ==
  ASSUME IInv, NEW i \in Instances, SweepRefused(i)
  PROVE  IInv'
<1>1. PICK staged \in SUBSET sweep[i].notices :
        sweep' = [sweep EXCEPT ![i] = [pc |-> "sending", notices |-> staged]]
  BY DEF SweepRefused
<1> DEFINE s == [pc |-> "sending", notices |-> staged]
<1>2. s \in SweepType
  BY DEF IInv, TypeOK, SweepType
<1>3. s.pc = "sending" /\ s.notices \subseteq sweep[i].notices
  OBVIOUS
<1>4. /\ failed' = TRUE /\ (faults' = faults \/ Fault)
      /\ UNCHANGED <<today, deadline, filing, log, lock, sent, twice, overtaken>>
  BY DEF SweepRefused, rows
<1> HIDE DEF s
<1>5. /\ sweep' \in [Instances -> SweepType] /\ sweep'[i] = s
      /\ \A j \in Instances : j # i => sweep'[j] = sweep[j]
  BY <1>1, <1>2, OneSweep DEF IInv, s
<1>6. TypeOK'
  BY <1>4, <1>5, FaultTyped DEF IInv, TypeOK
<1>7. DueInv' /\ SentOnce' /\ SentInv'
  BY <1>4 DEF IInv, DueInv, SentOnce, SentInv
<1>8. GenInv'
  BY <1>3, <1>4, <1>5 DEF IInv, GenInv
<1>9. DateInv'
  BY <1>3, <1>4, <1>5 DEF IInv, DateInv, Open, Current
<1> QED
  BY <1>6, <1>7, <1>8, <1>9 DEF IInv
LEMMA SendingStep ==
  ASSUME IInv, NEW i \in Instances, NEW n \in sweep[i].notices, Sending(i, n),
         \/ UNCHANGED <<sent, twice>>
         \/ /\ sent' = sent \cup {n}
            /\ twice' = IF n \in sent THEN twice \cup {n} ELSE twice,
         faults' = faults \/ Fault
  PROVE  IInv'
<1> DEFINE s == [pc |-> "sending", notices |-> sweep[i].notices \ {n}]
<1>0. sweep[i].notices \subseteq Notice /\ sweep[i] \in SweepType
  BY DEF IInv, TypeOK, SweepType
<1>1. /\ sweep' = [sweep EXCEPT ![i].notices = sweep[i].notices \ {n}] /\ sweep[i].pc = "sending"
      /\ UNCHANGED <<today, deadline, filing, log, lock, failed, overtaken>>
  BY DEF Sending, rows
<1>2. s \in SweepType /\ sweep' = [sweep EXCEPT ![i] = s]
  <2>1. [sweep[i] EXCEPT !.notices = sweep[i].notices \ {n}] = s
    BY <1>0, <1>1 DEF SweepType
  <2>2. s \in SweepType
    BY <1>0 DEF SweepType
  <2> HIDE DEF s
  <2> QED
    BY <1>1, <2>1, <2>2
<1>3. s.pc = "sending" /\ s.notices = sweep[i].notices \ {n}
  OBVIOUS
<1> HIDE DEF s
<1>4. /\ sweep' \in [Instances -> SweepType] /\ sweep'[i] = s
      /\ \A j \in Instances : j # i => sweep'[j] = sweep[j]
  BY <1>2, OneSweep DEF IInv
<1>5. n \in Notice /\ (sent' = sent \/ sent' = sent \cup {n})
      /\ (twice' = twice \/ (n \in sent /\ sent' = sent \cup {n} /\ twice' = twice \cup {n}))
  BY <1>0
<1>6. TypeOK'
  BY <1>1, <1>4, <1>5, FaultTyped DEF IInv, TypeOK
<1>7. DueInv'
  BY <1>1 DEF IInv, DueInv
<1>8. GenInv'
  BY <1>1, <1>3, <1>4, <1>5 DEF IInv, GenInv
<1>9. DateInv'
  BY <1>1, <1>3, <1>4 DEF IInv, DateInv, Open, Current
<1>10. \A m : Settled(m)' = Settled(m) /\ Unsettled(m)' = Unsettled(m)
  BY <1>1 DEF Settled, Unsettled
<1>11. ~failed => Unsettled(n) \/ (Settled(n) /\ n \notin sent)
  BY <1>1 DEF IInv, SentInv, Sends
<1>12. SentOnce'
  BY <1>1, <1>5, <1>11 DEF IInv, SentOnce, Unsettled
<1>13. SentInv'
  <2> SUFFICES ASSUME ~failed PROVE SentInv'
    BY <1>1 DEF SentInv
  <2>1. \A m \in sent' : Unsettled(m) \/ Settled(m)
    BY <1>5, <1>11 DEF IInv, SentInv
  <2>2. \A j \in Instances : Sends(j)' => Sends(j) /\ sweep'[j].notices \subseteq sweep[j].notices
    BY <1>1, <1>3, <1>4 DEF Sends
  <2>3. ASSUME NEW j \in Instances, Sends(j)', NEW m \in sweep'[j].notices
        PROVE  Unsettled(m) \/ (Settled(m) /\ m \notin sent')
    <3>1. Sends(j) /\ m \in sweep[j].notices
      BY <2>2, <2>3
    <3>2. Unsettled(m) \/ (Settled(m) /\ m \notin sent)
      BY <3>1 DEF IInv, SentInv
    <3>3. CASE m = n
      <4>1. j # i
        BY <1>3, <1>4, <2>3, <3>3
      <4>2. Unsettled(n)
        BY <1>1, <3>1, <3>3, <4>1 DEF IInv, SentInv, Sends
      <4> QED
        BY <3>3, <4>2
    <3> QED
      BY <1>5, <3>2, <3>3
  <2>4. \A j, k \in Instances : Sends(j)' /\ Sends(k)' /\ j # k =>
          \A m \in sweep'[j].notices : Unsettled(m) \/ m \notin sweep'[k].notices
    BY <2>2 DEF IInv, SentInv
  <2> QED
    BY <1>10, <2>1, <2>3, <2>4 DEF SentInv
<1> QED
  BY <1>6, <1>7, <1>8, <1>9, <1>12, <1>13 DEF IInv

(* A sweep that ends or dies.                                               *)
LEMMA RestStep ==
  ASSUME IInv, NEW i \in Instances, sweep' = [sweep EXCEPT ![i] = Resting],
         lock' = Released(i), faults' = faults \/ Fault,
         UNCHANGED <<today, deadline, filing, log, sent, twice, failed, overtaken>>
  PROVE  IInv'
<1>1. Resting \in SweepType /\ Resting.pc = "idle" /\ Resting.notices = {}
  BY DEF Resting, SweepType
<1>2. /\ sweep' \in [Instances -> SweepType] /\ sweep'[i] = Resting
      /\ \A j \in Instances : j # i => sweep'[j] = sweep[j]
  BY <1>1, OneSweep DEF IInv
<1>3. TypeOK'
  BY <1>2, FaultTyped DEF IInv, TypeOK, Released
<1>4. DueInv' /\ SentOnce'
  BY DEF IInv, DueInv, SentOnce
<1>5. GenInv'
  BY <1>1, <1>2 DEF IInv, GenInv
<1>6. DateInv'
  BY <1>1, <1>2 DEF IInv, DateInv, Open, Current
<1>7. SentInv'
  BY <1>1, <1>2 DEF IInv, SentInv, Sends, Settled, Unsettled
<1> QED
  BY <1>3, <1>4, <1>5, <1>6, <1>7 DEF IInv

-----------------------------------------------------------------------------
(* The row of d becomes e: with a new date, or without one.                 *)
LEMMA DateMoves ==
  ASSUME IInv, NEW d \in Deadlines, NEW e \in DeadlineType,
         deadline' = [deadline EXCEPT ![d] = e],
         e.status = "pending" => e.due # -1,
         e.status = "not_applicable" => e.due = -1,
         e.gen >= deadline[d].gen,
         e.gen > deadline[d].gen \/ e.due = -1,
         log' = Cleared(d) \/ (log' = log /\ deadline[d].due = -1),
         overtaken' = IF Overtaking(d) THEN overtaken \cup {d} ELSE overtaken,
         UNCHANGED <<today, filing, sweepVars, history, faults>>
  PROVE  IInv'
<1>1. deadline \in [Deadlines -> DeadlineType] /\ log \subseteq Notice /\ sent \subseteq Notice
      /\ \A i \in Instances : sweep[i].notices \subseteq Notice
  BY DEF IInv, TypeOK, SweepType
<1>2. /\ deadline' \in [Deadlines -> DeadlineType] /\ deadline'[d] = e
      /\ \A x \in Deadlines : x # d => deadline'[x] = deadline[x]
  BY <1>1
<1>3. UNCHANGED <<today, filing, lock, sweep, sent, twice, failed, faults>>
  BY DEF sweepVars, history
<1>4. \A x \in Deadlines : deadline'[x].gen \in Nat /\ deadline[x].gen \in Nat
                          /\ deadline[x].gen <= deadline'[x].gen
  BY <1>1, <1>2 DEF DeadlineType
<1>5. log' \subseteq log /\ (\A n \in log : n.deadline # d => n \in log')
      /\ (\A n \in log' : n.deadline = d => deadline[d].due = -1)
  BY DEF Cleared
<1>6. overtaken \subseteq overtaken' /\ overtaken' \subseteq overtaken \cup {d}
      /\ (Overtaking(d) => d \in overtaken')
  OBVIOUS
<1>7. TypeOK'
  BY <1>2, <1>3, <1>5, <1>6 DEF IInv, TypeOK
<1>8. DueInv'
  BY <1>2 DEF IInv, DueInv
<1>9. \A n \in Notice : n.gen \in Nat /\ n.deadline \in Deadlines
  BY DEF Notice
<1>10. \A n \in Notice : n.gen <= deadline[n.deadline].gen => n.gen <= deadline'[n.deadline].gen
  BY <1>4, <1>9
<1>11. GenInv'
  BY <1>1, <1>3, <1>5, <1>10 DEF IInv, GenInv
<1>12. \A n \in Notice : n.deadline # d => (Current(n)' <=> Current(n))
  BY <1>2, <1>9 DEF Current
<1>13. \A n \in log' : Current(n)' \/ n.deadline \in overtaken'
  <2>1. ASSUME NEW n \in log', n.deadline = d PROVE n.deadline \in overtaken'
    BY <1>5, <1>6, <2>1 DEF IInv, DateInv, Current
  <2> QED
    BY <1>1, <1>5, <1>6, <1>12, <2>1 DEF IInv, DateInv
<1>14. ASSUME NEW i \in Instances, Open(i), NEW n \in sweep[i].notices
       PROVE  Current(n)' \/ n.deadline \in overtaken'
  <2>1. CASE n.deadline = d
    BY <1>6, <1>14, <2>1 DEF Overtaking, Open
  <2>2. CASE n.deadline # d
    BY <1>1, <1>6, <1>12, <1>14, <2>2 DEF IInv, DateInv
  <2> QED
    BY <2>1, <2>2
<1>15. DateInv'
  BY <1>3, <1>13, <1>14 DEF DateInv, Open
<1>16. \A n \in Notice : n.deadline = d /\ n.gen <= deadline[d].gen => Settled(n)'
  BY <1>2, <1>4, <1>9 DEF Settled, DeadlineType
<1>17. \A n \in Notice : n.deadline # d /\ Settled(n) => Settled(n)'
  BY <1>2, <1>5, <1>9 DEF Settled
<1>18. \A n \in Notice : Unsettled(n) => Unsettled(n)'
  BY <1>6 DEF Unsettled
<1>19. SentInv'
  <2> SUFFICES ASSUME ~failed PROVE SentInv'
    BY <1>3 DEF SentInv
  <2>1. \A n \in sent : (Unsettled(n) \/ Settled(n))'
    BY <1>1, <1>16, <1>17, <1>18 DEF IInv, SentInv, GenInv
  <2>2. ASSUME NEW i \in Instances, Sends(i), NEW n \in sweep[i].notices
        PROVE  (Unsettled(n) \/ (Settled(n) /\ n \notin sent))'
    <3>1. n \in Notice /\ n.gen <= deadline[n.deadline].gen
      BY <1>1 DEF IInv, GenInv
    <3>2. Unsettled(n) \/ (Settled(n) /\ n \notin sent)
      BY <2>2 DEF IInv, SentInv
    <3> QED
      BY <1>3, <1>16, <1>17, <1>18, <3>1, <3>2
  <2>3. ASSUME NEW i \in Instances, NEW j \in Instances, Sends(i), Sends(j), i # j,
               NEW n \in sweep[i].notices
        PROVE  Unsettled(n)' \/ n \notin sweep[j].notices
    BY <1>1, <1>18, <2>3 DEF IInv, SentInv
  <2> QED
    BY <1>3, <2>1, <2>2, <2>3 DEF SentInv, Sends
<1>20. SentOnce'
  BY <1>3, <1>6 DEF IInv, SentOnce
<1> QED
  BY <1>7, <1>8, <1>11, <1>15, <1>19, <1>20 DEF IInv

LEMMA RedateStep ==
  ASSUME IInv, NEW d \in Deadlines, Redate(d)
  PROVE  IInv'
<1>1. PICK due \in 0 .. MaxDay :
        deadline' = [deadline EXCEPT ![d] = [status |-> "pending", due |-> due,
                                             gen |-> deadline[d].gen + 1]]
  BY DEF Redate
<1> DEFINE e == [status |-> "pending", due |-> due, gen |-> deadline[d].gen + 1]
<1>2. deadline[d].gen \in 0 .. MaxGen /\ deadline[d].gen < MaxGen
  BY DEF Redate, IInv, TypeOK, DeadlineType
<1>3. e \in DeadlineType /\ e.status = "pending" /\ e.due # -1 /\ e.gen = deadline[d].gen + 1
  BY <1>2, BoundsAssumption DEF DeadlineType
<1> HIDE DEF e
<1>4. log' = Cleared(d) \/ (log' = log /\ deadline[d].due = -1)
  BY DEF Redate, IInv, DueInv
<1>5. deadline' = [deadline EXCEPT ![d] = e]
  BY <1>1 DEF e
<1>6. e.gen >= deadline[d].gen /\ e.gen > deadline[d].gen
  BY <1>2, <1>3
<1>7. /\ overtaken' = IF Overtaking(d) THEN overtaken \cup {d} ELSE overtaken
      /\ UNCHANGED <<today, filing, sweepVars, history, faults>>
  BY DEF Redate
<1> QED
  BY <1>3, <1>4, <1>5, <1>6, <1>7, DateMoves

LEMMA UndateStep ==
  ASSUME IInv, NEW d \in Deadlines, Undate(d)
  PROVE  IInv'
<1> DEFINE e == [status |-> "not_applicable", due |-> -1, gen |-> deadline[d].gen]
<1>1. deadline[d] \in DeadlineType /\ deadline \in [Deadlines -> DeadlineType]
  BY DEF IInv, TypeOK
<1>2. e \in DeadlineType /\ e.status = "not_applicable" /\ e.due = -1 /\ e.gen = deadline[d].gen
      /\ deadline[d].gen \in Nat
  BY <1>1, BoundsAssumption DEF DeadlineType
<1>3. deadline' = [deadline EXCEPT ![d] = e]
  BY DEF Undate
<1> HIDE DEF e
<1>4. log' = Cleared(d) /\ (overtaken' = IF Overtaking(d) THEN overtaken \cup {d} ELSE overtaken)
      /\ UNCHANGED <<today, filing, sweepVars, history, faults>>
  BY DEF Undate
<1>5. e.gen >= deadline[d].gen
  BY <1>2
<1> QED
  BY <1>2, <1>3, <1>4, <1>5, DateMoves

LEMMA MetStep ==
  ASSUME IInv, NEW d \in Deadlines, MarkMet(d)
  PROVE  IInv'
<1>1. /\ filing' = filing \ {d} /\ deadline' = [deadline EXCEPT ![d].status = "met"]
      /\ UNCHANGED <<today, log, lock, sweep, sent, twice, failed, overtaken, faults>>
  BY DEF MarkMet, sweepVars, history
<1>2. \A x \in Deadlines : /\ deadline'[x].due = deadline[x].due /\ deadline'[x].gen = deadline[x].gen
                          /\ deadline'[x].status = IF x = d THEN "met" ELSE deadline[x].status
  BY <1>1 DEF IInv, TypeOK, DeadlineType
<1>3. deadline' \in [Deadlines -> DeadlineType]
  BY <1>1 DEF IInv, TypeOK, DeadlineType
<1>4. TypeOK'
  BY <1>1, <1>3 DEF IInv, TypeOK
<1>5. DueInv'
  BY <1>2 DEF IInv, DueInv
<1>6. log \subseteq Notice /\ sent \subseteq Notice
      /\ (\A i \in Instances : sweep[i].notices \subseteq Notice)
      /\ \A n \in Notice : n.deadline \in Deadlines
  BY DEF IInv, TypeOK, SweepType, Notice
<1>7. GenInv'
  BY <1>1, <1>2, <1>6 DEF IInv, GenInv
<1>8. \A n \in Notice : (Current(n)' <=> Current(n)) /\ (Settled(n)' <=> Settled(n))
                       /\ (Unsettled(n)' <=> Unsettled(n))
  BY <1>1, <1>2, <1>6 DEF Current, Settled, Unsettled
<1>9. DateInv'
  BY <1>1, <1>6, <1>8 DEF IInv, DateInv, Open
<1>10. SentInv'
  BY <1>1, <1>6, <1>8 DEF IInv, SentInv, Sends
<1>11. SentOnce'
  BY <1>1 DEF IInv, SentOnce
<1> QED
  BY <1>4, <1>5, <1>7, <1>9, <1>10, <1>11 DEF IInv

(* The invariants look at nothing else.                                     *)
LEMMA OthersKeep ==
  ASSUME IInv, UNCHANGED <<deadline, log, sweep, sent, twice, failed, overtaken>>, TypeOK'
  PROVE  IInv'
<1>1. \A n : (Current(n)' <=> Current(n)) /\ (Settled(n)' <=> Settled(n))
           /\ (Unsettled(n)' <=> Unsettled(n))
  BY DEF Current, Settled, Unsettled
<1>2. DueInv' /\ GenInv' /\ SentOnce'
  BY DEF IInv, DueInv, GenInv, SentOnce
<1>3. DateInv' /\ SentInv'
  BY <1>1 DEF IInv, DateInv, SentInv, Open, Sends
<1> QED
  BY <1>2, <1>3 DEF IInv

-----------------------------------------------------------------------------
LEMMA Stepwise == IInv /\ [Next]_vars => IInv'
<1> SUFFICES ASSUME IInv, [Next]_vars PROVE IInv'
  OBVIOUS
<1>1. CASE UNCHANGED vars
  <2>1. UNCHANGED <<today, deadline, filing, log, lock, sweep, sent, twice, failed, overtaken, faults>>
    BY <1>1 DEF vars, rows, sweepVars, history
  <2>2. TypeOK'
    BY <2>1 DEF IInv, TypeOK
  <2> QED
    BY <2>1, <2>2, OthersKeep
<1>2. ASSUME NEW i \in Instances, Step(i) PROVE IInv'
  <2>1. CASE Send(i)
    <3>1. PICK n \in sweep[i].notices :
            /\ Sending(i, n) /\ sent' = sent \cup {n} /\ UNCHANGED faults
            /\ twice' = IF n \in sent THEN twice \cup {n} ELSE twice
      BY <2>1 DEF Send
    <3> QED
      BY <3>1, SendingStep
  <2>2. CASE SweepEnd(i)
    BY <2>2, RestStep DEF SweepEnd, rows, history
  <2> QED
    BY <1>2, <2>1, <2>2, BeginStep, DecideStep, CommitStep, RefusedStep DEF Step
<1>3. ASSUME NEW i \in Instances, SendFails(i) PROVE IInv'
  BY <1>3, SendingStep DEF SendFails
<1>4. ASSUME NEW i \in Instances, Crash(i) PROVE IInv'
  BY <1>4, RestStep DEF Crash, rows, history
<1>5. ASSUME NEW d \in Deadlines, MarkMetRead(d) PROVE IInv'
  <2>1. /\ filing' = filing \cup {d}
        /\ UNCHANGED <<today, deadline, log, lock, sweep, sent, twice, failed, overtaken, faults>>
    BY <1>5 DEF MarkMetRead, sweepVars, history
  <2>2. TypeOK'
    BY <2>1 DEF IInv, TypeOK
  <2> QED
    BY <2>1, <2>2, OthersKeep
<1>6. CASE LockLost
  <2>1. /\ lock' = Nobody /\ Fault
        /\ UNCHANGED <<today, deadline, filing, log, sweep, sent, twice, failed, overtaken>>
    BY <1>6 DEF LockLost, rows, history
  <2>2. TypeOK'
    BY <2>1, FaultTyped DEF IInv, TypeOK
  <2> QED
    BY <2>1, <2>2, OthersKeep
<1>7. CASE NextDay
  <2>1. /\ today < MaxDay /\ today' = today + 1
        /\ UNCHANGED <<deadline, filing, log, lock, sweep, sent, twice, failed, overtaken, faults>>
    BY <1>7 DEF NextDay, rows, sweepVars, history
  <2>2. TypeOK'
    BY <2>1, BoundsAssumption DEF IInv, TypeOK
  <2> QED
    BY <2>1, <2>2, OthersKeep
<1> QED
  BY <1>1, <1>2, <1>3, <1>4, <1>5, <1>6, <1>7, RedateStep, UndateStep, MetStep DEF Next

THEOREM Invariant == Spec => []IInv
BY Initially, Stepwise, PTL DEF Spec

(* Deadlines, log and sweeps keep their types.                              *)
THEOREM TypeCorrect == Spec => []TypeOK
<1>1. IInv => TypeOK
  BY DEF IInv
<1> QED
  BY Invariant, <1>1, PTL

(* No notice of a due date is sent twice, whichever instances sweep side by *)
(* side, while no transaction fails and no date moves under a sweep.        *)
THEOREM NothingSentTwice == Spec => []SentOnce
<1>1. IInv => SentOnce
  BY DEF IInv
<1> QED
  BY Invariant, <1>1, PTL

(* The log of a deadline that no sweep was overtaken on is of its due date. *)
THEOREM FreshReminders == Spec => []LogIsOfThisDate
<1>1. IInv => LogIsOfThisDate
  BY DEF IInv, DateInv, Current, LogIsOfThisDate
<1> QED
  BY Invariant, <1>1, PTL

=============================================================================

---------------------------- MODULE Borgingsplan ----------------------------
(***************************************************************************)
(* The versions of a project's borgingsplan (the quality assurance plan):  *)
(* generate, publish, new version, reset to template.  Each request reads  *)
(* the plan it is about without a lock and writes in the same transaction  *)
(* later; a partial unique index allows one draft or published row, and a  *)
(* unique constraint one row per version number.  The moments and their    *)
(* checklists come and go with their plan and are left out.                *)
(***************************************************************************)
EXTENDS Integers, FiniteSets, FiniteSetsExt

CONSTANTS Plans,     \* bound: the rows that may ever be inserted
          Requests, NoPlan

ASSUME NoPlanAssumption == NoPlan \notin Plans
ASSUME FiniteAssumption == IsFiniteSet(Plans)

VARIABLES plan,      \* the rows of borgingsplans
          req        \* the requests under way
vars == <<plan, req>>

-----------------------------------------------------------------------------
Statuses == {"absent", "draft", "published", "superseded", "deleted"}
PlanType == [status : Statuses, version : Nat]
(* What a request does, and the row and the status it has read.             *)
RequestType == [op : {"idle", "generate", "publish", "new_version", "reset"},
                plan : Plans \cup {NoPlan}, read : Statuses]
Idle == [op |-> "idle", plan |-> NoPlan, read |-> "absent"]

TypeOK ==
  /\ plan \in [Plans -> PlanType]
  /\ req \in [Requests -> RequestType]

Init ==
  /\ plan = [p \in Plans |-> [status |-> "absent", version |-> 0]]
  /\ req = [r \in Requests |-> Idle]

-----------------------------------------------------------------------------
(* Of a table of plans t.                                                   *)
Present(t) == {p \in Plans : t[p].status \in {"draft", "published", "superseded"}}
Active(t) == {p \in Plans : t[p].status \in {"draft", "published"}}

Unique(t) == \A p, q \in Present(t) : t[p].version = t[q].version => p = q
(* Mutant: without ux_borgingsplans_one_active.                             *)
IndexedByVersion(t) == Unique(t)
(* ux_borgingsplans_one_active and uq_borgingsplans_project_version.        *)
Indexed(t) == Unique(t) /\ \A p, q \in Active(t) : p = q

(* Mutant: the greatest number so far, from -1 as the sequences have it.    *)
SameVersion(t) == Max({t[p].version : p \in Present(t)} \cup {-1})
(* Mutant: the number of rows there ever were.                              *)
CountedVersion(t) == Cardinality({p \in Plans : t[p].status # "absent"}) + 1
(* _next_version_number                                                     *)
NextVersion(t) == Max({t[p].version : p \in Present(t)} \cup {0}) + 1

Marked(t, p, s) == [t EXCEPT ![p].status = s]
(* session.delete of a row that is gone only warns.                         *)
Without(t, p) == IF p \in Present(t) THEN Marked(t, p, "deleted") ELSE t
(* The tables that follow when a draft of version v is inserted.            *)
WithDraft(t, v) ==
  {[t EXCEPT ![q] = [status |-> "draft", version |-> v]] :
     q \in {p \in Plans : t[p].status = "absent"}}

Begin(r, op, p) ==
  /\ req[r] = Idle
  /\ req' = [req EXCEPT ![r] = [op |-> op, plan |-> p,
                                read |-> IF p = NoPlan THEN "absent" ELSE plan[p].status]]
  /\ UNCHANGED plan

(* A transaction that an index refuses, or that updates a row that is gone, *)
(* is rolled back.                                                          *)
Commit(r, tables) ==
  /\ \E t \in tables : Indexed(t) /\ plan' = t
  /\ req' = [req EXCEPT ![r] = Idle]

Abort(r) ==
  /\ req[r] # Idle
  /\ req' = [req EXCEPT ![r] = Idle]
  /\ UNCHANGED plan

-----------------------------------------------------------------------------
(* generate_borgingsplan; a published plan is only passed over with force.  *)
GenerateRead(r) ==
  \E p \in Plans \cup {NoPlan} :
    /\ IF p = NoPlan THEN Active(plan) = {} ELSE p \in Active(plan)
    /\ Begin(r, "generate", p)

(* Mutant: the old plan is put aside in a transaction of its own.           *)
GenerateWriteInTwo(r) ==
  /\ req[r].op = "generate"
  /\ LET p == req[r].plan IN
     \/ p # NoPlan /\ Commit(r, {Without(plan, p)})
     \/ p = NoPlan /\ Commit(r, WithDraft(plan, NextVersion(plan)))
GenerateWrite(r) ==
  /\ req[r].op = "generate"
  /\ LET p == req[r].plan
         Insert(t) == Commit(r, WithDraft(t, NextVersion(t))) IN
     \/ req[r].read = "published" /\ p \in Present(plan)
        /\ Insert(Marked(plan, p, "superseded"))
     \/ req[r].read = "draft" /\ Insert(Without(plan, p))
     \/ p = NoPlan /\ Insert(plan)

PublishRead(r) ==
  \E p \in Active(plan) : plan[p].status = "draft" /\ Begin(r, "publish", p)

PublishWrite(r) ==
  /\ req[r].op = "publish"
  /\ req[r].plan \in Present(plan)
  /\ Commit(r, {Marked(plan, req[r].plan, "published")})

(* new_borgingsplan_version, with _clone_plan.                              *)
NewVersionRead(r) ==
  \E p \in Active(plan) : plan[p].status = "published" /\ Begin(r, "new_version", p)

NewVersionWrite(r) ==
  LET superseded == Marked(plan, req[r].plan, "superseded") IN
  /\ req[r].op = "new_version"
  /\ req[r].plan \in Present(plan)
  /\ Commit(r, WithDraft(superseded, NextVersion(superseded)))

(* reset_borgingsplan_to_template                                           *)
ResetRead(r) ==
  \E p \in Plans : plan[p].status = "draft" /\ Begin(r, "reset", p)

ResetWrite(r) ==
  LET p == req[r].plan IN
  /\ req[r].op = "reset"
  /\ Commit(r, WithDraft(Without(plan, p), plan[p].version))

-----------------------------------------------------------------------------
Next ==
  \E r \in Requests :
    \/ GenerateRead(r) \/ GenerateWrite(r)
    \/ PublishRead(r) \/ PublishWrite(r)
    \/ NewVersionRead(r) \/ NewVersionWrite(r)
    \/ ResetRead(r) \/ ResetWrite(r)
    \/ Abort(r)

Spec == Init /\ [][Next]_vars

-----------------------------------------------------------------------------
(* The version that is edited or inspected is the newest: no interleaving   *)
(* of requests brings an older one back beside or above it.                 *)
ActiveIsNewest ==
  \A p \in Active(plan), q \in Present(plan) : plan[q].version <= plan[p].version

(* A project that ever had a plan has one to work with.                     *)
ActiveOnceGenerated == (\E p \in Plans : plan[p].status # "absent") => Active(plan) # {}

(* "older versions persist as superseded rows (legal audit trail)": no      *)
(* request, however late, revives, renumbers or deletes one.                *)
SupersededForGood ==
  [][\A p \in Plans : plan[p].status = "superseded" => plan'[p] = plan[p]]_vars

(* "published plans are read-only"; "older versions persist".               *)
PublishedPersists ==
  [][\A p \in Plans :
       plan[p].status = "published" => plan'[p].status \in {"published", "superseded"}]_vars

(* What an auditor reads in a table of plans t.                             *)
Current(t) == Max({t[p].version : p \in Present(t)} \cup {0})
State(t) ==
  IF Active(t) = {} THEN "none"
  ELSE IF \E p \in Plans : t[p].status = "published" THEN "published" ELSE "draft"
Archive(t) == {t[p].version : p \in {q \in Plans : t[q].status = "superseded"}}

(* The rows are the history PlanHistory describes: one version is followed  *)
(* by the next, each is archived when and only when it is succeeded, and no *)
(* interleaving of requests skips, repeats or reopens one.                  *)
History == INSTANCE PlanHistory WITH
             current <- Current(plan),
             state <- State(plan),
             archive <- Archive(plan)
ImplementsPlanHistory == History!Spec

(* The archive of a project is complete: whoever works with version n finds *)
(* the versions 1 .. n - 1 superseded in it, and no other, although drafts  *)
(* are deleted and numbers are used again.                                  *)
ArchiveComplete == Archive(plan) = 1 .. (Current(plan) - 1)
=============================================================================

----------------------------- MODULE PlanHistory -----------------------------
(***************************************************************************)
(* The history of a project's borgingsplan as an auditor reads it: one     *)
(* version is worked with, the versions before it are in the archive, and  *)
(* nothing leaves the archive.  The rows and requests of Borgingsplan      *)
(* implement it.                                                           *)
(***************************************************************************)
EXTENDS Naturals

VARIABLES current,  \* the number of the version that is worked with
          state,    \* whether it is a draft, or published
          archive   \* the numbers of the superseded versions

Init == current = 0 /\ state = "none" /\ archive = {}

Generate ==
  /\ state = "none"
  /\ current' = 1 /\ state' = "draft"
  /\ UNCHANGED archive

Publish ==
  /\ state = "draft"
  /\ state' = "published"
  /\ UNCHANGED <<current, archive>>

Succeed ==
  /\ state = "published"
  /\ archive' = archive \cup {current}
  /\ current' = current + 1 /\ state' = "draft"

(* A request that found a draft replaces it although it was published      *)
(* since: the published version is lost, but not its number.               *)
Lose ==
  /\ state = "published"
  /\ state' = "draft"
  /\ UNCHANGED <<current, archive>>

Next == Generate \/ Publish \/ Succeed \/ Lose

Spec == Init /\ [][Next]_<<current, state, archive>>

=============================================================================

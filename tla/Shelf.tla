------------------------------- MODULE Shelf -------------------------------
(***************************************************************************)
(* The documents of a project as its readers find them, without uploads,   *)
(* checks, objects and half-done requests: the versions that can be opened *)
(* and the one that each document pins.  The rows of FileVersions          *)
(* implement it.                                                           *)
(***************************************************************************)
CONSTANTS Files, Documents, None   \* the versions are files

VARIABLES state,  \* "coming", "open", "hidden" by the sweep, or "closed" for good
          doc,    \* the document of a version that is open or hidden
          live,   \* the documents that there are
          head    \* the version a document pins

Init ==
  /\ state = [v \in Files |-> "coming"]
  /\ doc = [v \in Files |-> None]
  /\ live = Documents
  /\ head = [d \in Documents |-> None]

Readable(v) == state[v] \in {"open", "hidden"}

(* A version opens in a document that is there, or arrives after the sweep *)
(* gave it up; either may take the pin away.                               *)
Unpin(d) == head' \in {head, [head EXCEPT ![d] = None]}
Open(v, d) ==
  /\ state[v] = "coming" /\ d \in live
  /\ \E s \in {"open", "hidden"} : state' = [state EXCEPT ![v] = s]
  /\ doc' = [doc EXCEPT ![v] = d]
  /\ Unpin(d)
  /\ UNCHANGED live

(* A second completion of the same version opens nothing.                  *)
Reopen(v) == Readable(v) /\ Unpin(doc[v]) /\ UNCHANGED <<state, doc, live>>

Pin(v) ==
  /\ Readable(v)
  /\ head' = [head EXCEPT ![doc[v]] = v]
  /\ UNCHANGED <<state, doc, live>>

Hide(S) ==
  /\ \A v \in S : state[v] = "open"
  /\ state' = [v \in Files |-> IF v \in S THEN "hidden" ELSE state[v]]
  /\ UNCHANGED <<doc, live, head>>

(* Versions close for good, and no document pins a closed one.             *)
Closing(S) ==
  /\ state' = [v \in Files |-> IF v \in S THEN "closed" ELSE state[v]]
  /\ doc' = [v \in Files |-> IF v \in S THEN None ELSE doc[v]]
  /\ head' = [d \in Documents |-> IF head[d] \in S THEN None ELSE head[d]]

Close(v) == Closing({v}) /\ UNCHANGED live

(* A document goes with all of its versions, those to come included.       *)
Drop(d, S) ==
  /\ \A v \in Files : Readable(v) => (v \in S <=> doc[v] = d)
  /\ Closing(S)
  /\ live' = live \ {d}

Next ==
  \/ \E v \in Files :
       Reopen(v) \/ Pin(v) \/ Close(v) \/ \E d \in Documents : Open(v, d)
  \/ \E S \in SUBSET Files : Hide(S) \/ \E d \in Documents : Drop(d, S)

Spec == Init /\ [][Next]_<<state, doc, live, head>>

=============================================================================

-------------------------- MODULE FileVersions_proofs --------------------------
(***************************************************************************)
(* What FileVersions keeps for every project: a version that users see has *)
(* its bytes unless something is removing it, a pinned head is a ready     *)
(* version of its document, and no content is uploaded twice.              *)
(*                                                                         *)
(* No row is locked between the read of a request and its write, so the    *)
(* properties are not inductive: what a request read must still mean       *)
(* something when it writes.  A row never comes back, keeps its document   *)
(* and its content, and its content alone decides whether it is accepted   *)
(* or rejected (RowInv, RequestOK); so the row a request holds is the one  *)
(* it read or is gone.  Bytes must be there from the moment an upload is   *)
(* let through (NeedsBytes), before the version is ready.  That readers    *)
(* find the shelf of Shelf takes one fact more, that no row outlives its   *)
(* document (LiveInv).                                                     *)
(***************************************************************************)
EXTENDS FileVersions, TLAPS

-----------------------------------------------------------------------------
RowOK(f) ==
  /\ row[f].status = "absent" => row[f] = Absent
  /\ Exists(f) => row[f].doc \in Documents /\ row[f].content \in Contents
  /\ row[f].status = "ready" => row[f].content \notin Invalid
  /\ row[f].status = "rejected" => row[f].content \in Invalid
  /\ row[f].swept => f \in old
  /\ f \in old => row[f].status # "absent"

RowInv == \A f \in Files : RowOK(f)

SweepInv ==
  /\ sweep.todo \subseteq sweep.rows
  /\ sweep.rows \subseteq old
  /\ sweep.pc = "idle" => sweep.rows = {}

OnFile == {"accepting", "discarding", "rejecting", "accepted", "rejected",
           "restoring", "deleting"}

(* What a request holds is what it read, unless the row is gone.            *)
RequestOK(x) ==
  /\ x.pc \in OnFile =>
       /\ x.file \in Files /\ x.doc \in Documents
       /\ row[x.file].status # "absent"
       /\ Exists(x.file) => row[x.file].doc = x.doc
  /\ x.pc \in {"accepting", "accepted"} /\ Exists(x.file) => row[x.file].content \notin Invalid
  /\ x.pc \in {"discarding", "rejecting", "rejected"} /\ Exists(x.file) =>
       row[x.file].content \in Invalid
  /\ x.pc = "restoring" /\ Exists(x.file) => row[x.file].status = "ready"
  /\ x.pc = "inserting" =>
       /\ x.doc \in Documents /\ x.content \in Contents
       /\ \A g \in x.seen : row[g].status # "absent"
       /\ \A g \in Files : Active(g) /\ row[g].content = x.content => g \notin x.seen /\ g \notin old
  /\ x.pc = "dropping" => x.doc \in Documents

RequestInv == \A r \in Requests : RequestOK(req[r])

Settling(x, f) == x.pc \in {"accepting", "accepted"} /\ x.file = f
NeedsBytes(f) ==
  /\ Exists(f) /\ ~row[f].swept
  /\ row[f].status = "ready" \/ \E r \in Requests : Settling(req[r], f)

BytesInv ==
  \A f \in Files : NeedsBytes(f) /\ f \notin stored => f \in abandoned \/ Removing(f)

IInv == TypeOK /\ RowInv /\ SweepInv /\ RequestInv /\ PinnedHeadIsReady /\ BytesInv

-----------------------------------------------------------------------------
LEMMA Kinds ==
  /\ Absent \in RowType /\ Absent.status = "absent" /\ Absent.swept = FALSE
  /\ Gone \in RowType /\ Gone.status = "deleted" /\ Gone.swept = FALSE
  /\ Idle \in RequestType /\ Idle.pc = "idle"
<1>1. 0 \in 0 .. MaxVersion
  BY BoundsAssumption
<1> QED
  BY <1>1 DEF Absent, Gone, Idle, RowType, RequestType

(* A request begins with what it is about.                                  *)
LEMMA BegunOnDocument ==
  ASSUME NEW d \in Documents
  PROVE  [Idle EXCEPT !.pc = "dropping", !.doc = d] \in RequestType
<1>1. PICK z \in RequestType : z = Idle
  BY Kinds
<1>2. [z EXCEPT !.pc = "dropping", !.doc = d] \in RequestType
  BY DEF RequestType
<1> QED
  BY <1>1, <1>2

LEMMA BegunOnFile ==
  ASSUME NEW d \in Documents, NEW f \in Files, NEW pc \in OnFile
  PROVE  [Idle EXCEPT !.pc = pc, !.file = f, !.doc = d] \in RequestType
<1>1. PICK z \in RequestType : z = Idle
  BY Kinds
<1>2. [z EXCEPT !.pc = pc, !.file = f, !.doc = d] \in RequestType
  BY DEF RequestType, OnFile
<1> QED
  BY <1>1, <1>2

LEMMA BegunUpload ==
  ASSUME NEW d \in Documents, NEW c \in Contents, NEW v \in 0 .. MaxVersion,
         NEW S \in SUBSET Files
  PROVE  [Idle EXCEPT !.pc = "inserting", !.doc = d, !.content = c, !.version = v, !.seen = S]
           \in RequestType
<1>1. PICK z \in RequestType : z = Idle
  BY Kinds
<1>2. [z EXCEPT !.pc = "inserting", !.doc = d, !.content = c, !.version = v, !.seen = S]
        \in RequestType
  BY DEF RequestType
<1> QED
  BY <1>1, <1>2

LEMMA RowFields ==
  ASSUME TypeOK, NEW f \in Files
  PROVE  /\ row[f] \in RowType
         /\ row[f].status \in {"absent", "pending", "ready", "rejected", "deleted"}
         /\ row[f].version \in 0 .. MaxVersion /\ row[f].swept \in BOOLEAN
         /\ row[f].doc \in Documents \cup {None} /\ row[f].content \in Contents \cup {None}
BY DEF TypeOK, RowType

LEMMA RequestFields ==
  ASSUME TypeOK, NEW r \in Requests
  PROVE  /\ req[r] \in RequestType
         /\ req[r].doc \in Documents \cup {None} /\ req[r].file \in Files \cup {None}
         /\ req[r].content \in Contents \cup {None}
         /\ req[r].version \in 0 .. MaxVersion
         /\ req[r].seen \subseteq Files
         /\ req[r].setType \in BOOLEAN /\ req[r].clearHead \in BOOLEAN
BY DEF TypeOK, RequestType

LEMMA Initially == Init => IInv
<1> SUFFICES ASSUME Init PROVE IInv
  OBVIOUS
<1>1. /\ \A f \in Files : row[f] = Absent
      /\ \A r \in Requests : req[r] = Idle
      /\ old = {} /\ stored = {} /\ abandoned = {}
      /\ sweep.pc = "idle" /\ sweep.rows = {} /\ sweep.todo = {}
      /\ \A d \in Documents : document[d].head = None
  BY DEF Init
<1>2. TypeOK
  <2>1. row \in [Files -> RowType] /\ req \in [Requests -> RequestType]
    BY Kinds DEF Init
  <2>2. document \in [Documents -> DocumentType]
    BY DEF Init, DocumentType
  <2> QED
    BY <2>1, <2>2 DEF Init, TypeOK
<1>3. RowInv
  BY <1>1, Kinds DEF RowInv, RowOK, Exists, Active
<1>4. SweepInv
  BY <1>1 DEF SweepInv
<1>5. RequestInv
  BY <1>1, Kinds DEF RequestInv, RequestOK, OnFile
<1>6. PinnedHeadIsReady
  BY <1>1 DEF PinnedHeadIsReady
<1>7. BytesInv
  BY <1>1, Kinds DEF BytesInv, NeedsBytes, Exists, Active
<1> QED
  BY <1>2, <1>3, <1>4, <1>5, <1>6, <1>7 DEF IInv

-----------------------------------------------------------------------------
(* How rows may change: none comes back, and one that stays keeps what      *)
(* decides about it.                                                        *)
Onward ==
  \A f \in Files : row[f].status # "absent" =>
    /\ row'[f].status # "absent"
    /\ Exists(f)' => /\ Exists(f) /\ row'[f].doc = row[f].doc
                     /\ row'[f].content = row[f].content
    /\ row[f].status = "ready" /\ Exists(f)' => row'[f].status = "ready"
    /\ Active(f)' => Active(f)

LEMMA RequestStays ==
  ASSUME IInv, Onward, old' = old, NEW x \in RequestType, RequestOK(x)
  PROVE  RequestOK(x)'
<1>1. x.pc \in OnFile =>
        /\ x.file \in Files /\ x.doc \in Documents
        /\ row'[x.file].status # "absent"
        /\ Exists(x.file)' => row'[x.file].doc = x.doc
  BY DEF Onward, RequestOK
<1>2. /\ x.pc \in {"accepting", "accepted"} /\ Exists(x.file)' => row'[x.file].content \notin Invalid
      /\ x.pc \in {"discarding", "rejecting", "rejected"} /\ Exists(x.file)' =>
           row'[x.file].content \in Invalid
      /\ x.pc = "restoring" /\ Exists(x.file)' => row'[x.file].status = "ready"
  BY DEF Onward, RequestOK, OnFile
<1>3. x.pc = "inserting" =>
       /\ x.doc \in Documents /\ x.content \in Contents
       /\ \A g \in x.seen : row'[g].status # "absent"
       /\ \A g \in Files : Active(g)' /\ row'[g].content = x.content
                            => g \notin x.seen /\ g \notin old'
  <2> SUFFICES ASSUME x.pc = "inserting"
               PROVE  /\ \A g \in x.seen : row'[g].status # "absent"
                      /\ \A g \in Files : Active(g)' /\ row'[g].content = x.content
                                           => g \notin x.seen /\ g \notin old'
    BY DEF RequestOK
  <2>1. x.seen \subseteq Files /\ \A g \in x.seen : row[g].status # "absent"
    BY DEF RequestOK, RequestType
  <2>2. \A g \in x.seen : row'[g].status # "absent"
    BY <2>1 DEF Onward
  <2>3. ASSUME NEW g \in Files, Active(g)', row'[g].content = x.content
        PROVE  g \notin x.seen /\ g \notin old'
    <3>1. CASE row[g].status = "absent"
      BY <2>1, <3>1 DEF IInv, RowInv, RowOK
    <3>2. CASE row[g].status # "absent"
      <4>1. Active(g) /\ row[g].content = x.content
        BY <2>3, <3>2 DEF Onward, Exists
      <4> QED
        BY <4>1 DEF RequestOK
    <3> QED
      BY <3>1, <3>2
  <2> QED
    BY <2>2, <2>3
<1> QED
  BY <1>1, <1>2, <1>3 DEF RequestOK

(* One request moves on while the others stay where they are.               *)
LEMMA RequestMoves ==
  ASSUME IInv, Onward, old' = old, NEW r \in Requests, NEW e \in RequestType,
         req' = [req EXCEPT ![r] = e], RequestOK(e)'
  PROVE  RequestInv'
<1>1. \A q \in Requests : req'[q] = IF q = r THEN e ELSE req[q]
  BY DEF IInv, TypeOK
<1>2. ASSUME NEW q \in Requests, q # r PROVE RequestOK(req[q])'
  <2> DEFINE x == req[q]
  <2>1. x \in RequestType /\ RequestOK(x) /\ req'[q] = req[q]
    BY <1>1, <1>2, RequestFields DEF IInv, RequestInv
  <2>2. PICK y \in RequestType : y = req[q]
    BY <2>1
  <2>3. RequestOK(y)'
    BY <2>1, <2>2, RequestStays
  <2> QED
    BY <2>1, <2>2, <2>3 DEF RequestOK
<1>3. ASSUME NEW q \in Requests, q = r PROVE RequestOK(req[q])'
  BY <1>1, <1>3 DEF RequestOK
<1> QED
  BY <1>2, <1>3 DEF RequestInv

(* A step of a request that leaves the rows, the documents and the sweep    *)
(* alone.  It may delete bytes it says it is removing.                      *)
LEMMA RequestOnly ==
  ASSUME IInv, NEW r \in Requests, NEW e \in RequestType, RequestOK(e),
         req' = [req EXCEPT ![r] = e],
         req[r].pc \notin {"deleting", "dropping"},
         stored' \subseteq stored,
         \A f \in Files : f \in stored \ stored' /\ NeedsBytes(f) =>
           \/ e.pc = "deleting" /\ e.file = f
           \/ e.pc = "dropping" /\ e.doc = row[f].doc,
         \A f \in Files : Settling(e, f) => Settling(req[r], f) \/ f \in stored',
         UNCHANGED <<row, old, document, sweep, abandoned>>
  PROVE  IInv'
<1>1. Onward
  BY DEF Onward, Exists, Active
<1>2. TypeOK'
  BY DEF IInv, TypeOK
<1>3. RequestOK(e)'
  BY DEF RequestOK, Exists, Active
<1>4. RequestInv'
  BY <1>1, <1>3, RequestMoves
<1>5. RowInv' /\ SweepInv' /\ PinnedHeadIsReady'
  BY DEF IInv, RowInv, RowOK, SweepInv, PinnedHeadIsReady, Ready, Versions, Exists, Active
<1>6. \A q \in Requests : req'[q] = IF q = r THEN e ELSE req[q]
  BY DEF IInv, TypeOK
<1>7. ASSUME NEW f \in Files, NeedsBytes(f)', f \notin stored'
      PROVE  (f \in abandoned \/ Removing(f))'
  <2>1. NeedsBytes(f)
    <3>1. \A q \in Requests : Settling(req'[q], f) => \E p \in Requests : Settling(req[p], f)
      BY <1>6, <1>7
    <3> QED
      BY <1>7, <3>1 DEF NeedsBytes, Exists, Active
  <2>2. CASE f \in stored
    BY <1>6, <1>7, <2>1, <2>2 DEF Removing
  <2>3. CASE f \notin stored
    <3>1. f \in abandoned \/ Removing(f)
      BY <2>1, <2>3 DEF IInv, BytesInv
    <3>2. Removing(f) => Removing(f)'
      BY <1>6 DEF Removing
    <3> QED
      BY <3>1, <3>2
  <2> QED
    BY <2>2, <2>3
<1> QED
  BY <1>2, <1>4, <1>5, <1>7 DEF IInv, BytesInv

LEMMA InitiateReadStep ==
  ASSUME IInv, NEW r \in Requests, NEW d \in Documents, NEW c \in Contents,
         InitiateRead(r, d, c)
  PROVE  IInv'
<1>1. PICK v \in 0 .. MaxVersion - 1 :
        Start(r, [Idle EXCEPT !.pc = "inserting", !.doc = d, !.content = c, !.version = v + 1,
                              !.seen = {f \in Files : row[f] # Absent}])
  BY DEF InitiateRead
<1> DEFINE S == {f \in Files : row[f] # Absent}
           e == [Idle EXCEPT !.pc = "inserting", !.doc = d, !.content = c, !.version = v + 1,
                             !.seen = S]
<1>2. /\ e.pc = "inserting" /\ e.doc = d /\ e.content = c /\ e.version = v + 1 /\ e.seen = S
      /\ e.file = None
  BY DEF Idle
<1>3. e \in RequestType
  <2>1. v + 1 \in 0 .. MaxVersion /\ S \in SUBSET Files
    BY BoundsAssumption
  <2> HIDE DEF S
  <2> QED
    BY <2>1, BegunUpload
<1>4. req' = [req EXCEPT ![r] = e] /\ req[r].pc = "idle"
  BY <1>1, Kinds DEF Start
<1> HIDE DEF e
<1>5. \A g \in S : row[g].status # "absent"
  BY DEF IInv, RowInv, RowOK
<1>6. \A g \in Files : ~(Active(g) /\ row[g].content = c)
  BY DEF InitiateRead, Duplicate
<1>7. RequestOK(e)
  BY <1>2, <1>5, <1>6 DEF RequestOK, OnFile
<1>8. \A f \in Files : ~Settling(e, f)
  BY <1>2 DEF Settling
<1>9. stored' \subseteq stored /\ UNCHANGED <<row, old, document, sweep, abandoned>>
      /\ stored \ stored' = {}
  BY DEF InitiateRead
<1> QED
  BY <1>3, <1>4, <1>7, <1>8, <1>9, RequestOnly

LEMMA CompleteCheckStep ==
  ASSUME IInv, NEW r \in Requests, NEW f \in Files, CompleteCheck(r, f)
  PROVE  IInv'
<1> DEFINE e == [Idle EXCEPT !.pc = IF row[f].content \in Invalid THEN "discarding"
                                    ELSE "accepting",
                             !.file = f, !.doc = row[f].doc]
<1>1. row[f].status = "pending" /\ Exists(f) /\ row[f].doc \in Documents /\ f \in stored
  BY DEF CompleteCheck, Exists, Active, IInv, RowInv, RowOK
<1>2. /\ e.file = f /\ e.doc = row[f].doc
      /\ e.pc = IF row[f].content \in Invalid THEN "discarding" ELSE "accepting"
  BY DEF Idle
<1>3. e \in RequestType
  <2>1. e.pc \in OnFile
    BY <1>2 DEF OnFile
  <2> QED
    BY <1>1, <1>2, <2>1, BegunOnFile
<1>4. req' = [req EXCEPT ![r] = e] /\ req[r].pc = "idle"
  BY Kinds DEF CompleteCheck, Start
<1> HIDE DEF e
<1>5. RequestOK(e)
  BY <1>1, <1>2 DEF RequestOK, OnFile
<1>6. \A g \in Files : Settling(e, g) => g \in stored
  BY <1>1, <1>2 DEF Settling
<1>7. stored' = stored /\ UNCHANGED <<row, old, document, sweep, abandoned>>
  BY DEF CompleteCheck
<1>8. stored' \subseteq stored /\ stored \ stored' = {}
  BY <1>7
<1> QED
  BY <1>3, <1>4, <1>5, <1>6, <1>7, <1>8, RequestOnly

(* The object of an upload whose bytes are not of its type: nobody lets it  *)
(* through, so nobody needs it.                                             *)
LEMMA CompleteDiscardStep ==
  ASSUME IInv, NEW r \in Requests, CompleteDiscard(r)
  PROVE  IInv'
<1> DEFINE e == [req[r] EXCEPT !.pc = "rejecting"]
           f == req[r].file
<1>1. req[r].pc = "discarding" /\ req[r] \in RequestType /\ RequestOK(req[r])
  BY RequestFields DEF CompleteDiscard, IInv, RequestInv
<1>2. e \in RequestType /\ e.pc = "rejecting" /\ e.file = f /\ e.doc = req[r].doc
  BY <1>1 DEF RequestType
<1>3. req' = [req EXCEPT ![r] = e]
  BY DEF CompleteDiscard, Continue
<1> HIDE DEF e
<1>4. RequestOK(e)
  BY <1>1, <1>2 DEF RequestOK, OnFile
<1>5. f \in Files /\ ~NeedsBytes(f)
  <2>1. f \in Files /\ (Exists(f) => row[f].content \in Invalid)
    BY <1>1 DEF RequestOK, OnFile
  <2>2. row[f].status = "ready" => row[f].content \notin Invalid
    BY <2>1 DEF IInv, RowInv, RowOK
  <2>3. \A q \in Requests : Settling(req[q], f) /\ Exists(f) => row[f].content \notin Invalid
    BY DEF IInv, RequestInv, RequestOK, Settling
  <2> QED
    BY <2>1, <2>2, <2>3 DEF NeedsBytes
<1>6. stored' \subseteq stored /\ stored \ stored' \subseteq {f}
      /\ UNCHANGED <<row, old, document, sweep, abandoned>>
  BY DEF CompleteDiscard, RemoveObject
<1>7. \A g \in Files : ~(g \in stored \ stored' /\ NeedsBytes(g))
  BY <1>5, <1>6
<1>8. \A g \in Files : ~Settling(e, g)
  BY <1>2 DEF Settling
<1> QED
  BY <1>1, <1>2, <1>3, <1>4, <1>6, <1>7, <1>8, RequestOnly

LEMMA CompleteReadStep ==
  ASSUME IInv, NEW r \in Requests, CompleteRead(r)
  PROVE  IInv'
<1> DEFINE x == req[r]
           pc == IF x.pc = "accepting" THEN "accepted" ELSE "rejected"
           untyped == document[x.doc].type = None
           pinned == document[x.doc].head # None
           e == [x EXCEPT !.pc = pc, !.setType = untyped, !.clearHead = pinned]
<1>1. x.pc \in {"accepting", "rejecting"} /\ x \in RequestType /\ RequestOK(x)
  BY RequestFields DEF CompleteRead, IInv, RequestInv
<1>2. /\ e.pc = pc /\ e.file = x.file /\ e.doc = x.doc
  BY <1>1 DEF RequestType
<1>3. e \in RequestType
  <2>1. pc \in {"accepted", "rejected"} /\ untyped \in BOOLEAN /\ pinned \in BOOLEAN
    OBVIOUS
  <2>2. x \in RequestType
    BY <1>1
  <2> HIDE DEF x, pc, untyped, pinned
  <2>3. [x EXCEPT !.pc = pc] \in RequestType
    BY <2>1, <2>2 DEF RequestType
  <2>4. [[x EXCEPT !.pc = pc] EXCEPT !.setType = untyped] \in RequestType
    BY <2>1, <2>3 DEF RequestType
  <2>5. [[[x EXCEPT !.pc = pc] EXCEPT !.setType = untyped] EXCEPT !.clearHead = pinned]
          \in RequestType
    BY <2>1, <2>4 DEF RequestType
  <2> QED
    BY <2>5
<1>4. req' = [req EXCEPT ![r] = e]
  BY DEF CompleteRead
<1> HIDE DEF e
<1>5. RequestOK(e)
  BY <1>1, <1>2 DEF RequestOK, OnFile
<1>6. \A g \in Files : Settling(e, g) => Settling(x, g)
  BY <1>1, <1>2 DEF Settling
<1>7. stored' = stored /\ UNCHANGED <<row, old, document, sweep, abandoned>>
  BY DEF CompleteRead
<1>8. stored' \subseteq stored /\ stored \ stored' = {}
  BY <1>7
<1> QED
  BY <1>1, <1>3, <1>4, <1>5, <1>6, <1>7, <1>8, RequestOnly

LEMMA RestoreReadStep ==
  ASSUME IInv, NEW r \in Requests, NEW f \in Files, RestoreRead(r, f)
  PROVE  IInv'
<1> DEFINE e == [Idle EXCEPT !.pc = "restoring", !.file = f, !.doc = row[f].doc]
<1>1. row[f].status = "ready" /\ Exists(f) /\ row[f].doc \in Documents
  BY DEF RestoreRead, Exists, Active, IInv, RowInv, RowOK
<1>2. e.file = f /\ e.doc = row[f].doc /\ e.pc = "restoring"
  BY DEF Idle
<1>3. e \in RequestType
  <2>1. e.pc \in OnFile
    BY <1>2 DEF OnFile
  <2> QED
    BY <1>1, <1>2, <2>1, BegunOnFile
<1>4. req' = [req EXCEPT ![r] = e] /\ req[r].pc = "idle"
  BY Kinds DEF RestoreRead, Start
<1> HIDE DEF e
<1>5. RequestOK(e)
  BY <1>1, <1>2 DEF RequestOK, OnFile
<1>6. \A g \in Files : ~Settling(e, g)
  BY <1>2 DEF Settling
<1>7. stored' = stored /\ UNCHANGED <<row, old, document, sweep, abandoned>>
  BY DEF RestoreRead
<1>8. stored' \subseteq stored /\ stored \ stored' = {}
  BY <1>7
<1> QED
  BY <1>3, <1>4, <1>5, <1>6, <1>7, <1>8, RequestOnly

(* The deletions say what they are removing before the row is gone.         *)
LEMMA DeleteObjectStep ==
  ASSUME IInv, NEW r \in Requests, NEW f \in Files, DeleteObject(r, f)
  PROVE  IInv'
<1> DEFINE e == [Idle EXCEPT !.pc = "deleting", !.file = f, !.doc = row[f].doc]
<1>1. Exists(f) /\ row[f].doc \in Documents /\ row[f].status # "absent"
  BY DEF DeleteObject, Exists, Active, IInv, RowInv, RowOK
<1>2. e.file = f /\ e.doc = row[f].doc /\ e.pc = "deleting"
  BY DEF Idle
<1>3. e \in RequestType
  <2>1. e.pc \in OnFile
    BY <1>2 DEF OnFile
  <2> QED
    BY <1>1, <1>2, <2>1, BegunOnFile
<1>4. req' = [req EXCEPT ![r] = e] /\ req[r].pc = "idle"
  BY Kinds DEF DeleteObject, Start
<1> HIDE DEF e
<1>5. RequestOK(e)
  BY <1>1, <1>2 DEF RequestOK, OnFile
<1>6. \A g \in Files : ~Settling(e, g)
  BY <1>2 DEF Settling
<1>7. stored' \subseteq stored /\ stored \ stored' \subseteq {f}
      /\ UNCHANGED <<row, old, document, sweep, abandoned>>
  BY DEF DeleteObject, RemoveObject
<1>8. \A g \in Files : g \in stored \ stored' => e.pc = "deleting" /\ e.file = g
  BY <1>2, <1>7
<1> QED
  BY <1>3, <1>4, <1>5, <1>6, <1>7, <1>8, RequestOnly

LEMMA DeleteDocumentStep ==
  ASSUME IInv, NEW r \in Requests, NEW d \in Documents, DeleteDocument(r, d)
  PROVE  IInv'
<1> DEFINE e == [Idle EXCEPT !.pc = "dropping", !.doc = d]
<1>1. e.doc = d /\ e.pc = "dropping"
  BY DEF Idle
<1>2. e \in RequestType
  BY BegunOnDocument
<1>3. req' = [req EXCEPT ![r] = e] /\ req[r].pc = "idle"
  BY Kinds DEF DeleteDocument, Start
<1> HIDE DEF e
<1>4. RequestOK(e)
  BY <1>1 DEF RequestOK, OnFile
<1>5. \A g \in Files : ~Settling(e, g)
  BY <1>1 DEF Settling
<1>6. /\ stored' \subseteq stored /\ stored \ stored' \subseteq Versions(d)
      /\ UNCHANGED <<row, old, document, sweep, abandoned>>
  BY DEF DeleteDocument
<1>7. \A g \in Files : g \in stored \ stored' => e.pc = "dropping" /\ e.doc = row[g].doc
  BY <1>1, <1>6 DEF Versions
<1> QED
  BY <1>2, <1>3, <1>4, <1>5, <1>6, <1>7, RequestOnly

-----------------------------------------------------------------------------
(* The last step of a request, which changes rows and documents.            *)
LEMMA RequestEnds ==
  ASSUME IInv, NEW r \in Requests, End(r), Onward,
         row' \in [Files -> RowType], document' \in [Documents -> DocumentType],
         RowInv', PinnedHeadIsReady',
         \A f \in Files : row[f].status = "absent" /\ Exists(f)' => row'[f].status = "pending",
         \A f \in Files : row'[f].status = "ready" =>
           row[f].status = "ready" \/ Settling(req[r], f),
         \A f \in Files : row[f].status # "absent" /\ Exists(f)' => row'[f].swept = row[f].swept,
         \A f \in Files : req[r].pc = "deleting" /\ req[r].file = f => ~Exists(f)',
         req[r].pc = "dropping" => \A f \in Files : Exists(f)' => row'[f].doc # req[r].doc,
         UNCHANGED <<old, stored, sweep, abandoned>>
  PROVE  IInv'
<1>1. req' = [req EXCEPT ![r] = Idle] /\ Idle \in RequestType /\ Idle.pc = "idle"
  BY Kinds DEF End
<1>2. TypeOK'
  BY <1>1 DEF IInv, TypeOK
<1>3. RequestOK(Idle)'
  <2>1. PICK x \in RequestType : x = Idle /\ x.pc = "idle"
    BY <1>1
  <2>2. RequestOK(x)'
    BY <2>1 DEF RequestOK, OnFile
  <2> QED
    BY <2>1, <2>2 DEF Idle
<1>4. RequestInv'
  BY <1>1, <1>3, RequestMoves
<1>5. SweepInv'
  BY DEF IInv, SweepInv
<1>6. \A q \in Requests : req'[q] = IF q = r THEN Idle ELSE req[q]
  BY <1>1 DEF IInv, TypeOK
<1>7. ASSUME NEW f \in Files, NeedsBytes(f)', f \notin stored'
      PROVE  (f \in abandoned \/ Removing(f))'
  <2>1. /\ Exists(f)' /\ ~row'[f].swept
        /\ row'[f].status = "ready" \/ \E q \in Requests : Settling(req'[q], f)
    BY <1>7 DEF NeedsBytes, Settling
  <2>2. \A q \in Requests : Settling(req'[q], f) =>
          Settling(req[q], f) /\ row[f].status # "absent"
    BY <1>1, <1>6 DEF Settling, IInv, RequestInv, RequestOK, OnFile
  <2>3. row[f].status # "absent"
    BY <2>1, <2>2
  <2>4. Exists(f) /\ row'[f].doc = row[f].doc /\ ~row[f].swept
    BY <2>1, <2>3 DEF Onward
  <2>5. NeedsBytes(f)
    BY <2>1, <2>2, <2>4 DEF NeedsBytes
  <2>6. f \in abandoned \/ Removing(f)
    BY <1>7, <2>5 DEF IInv, BytesInv
  <2>7. Removing(f) => Removing(f)'
    <3> SUFFICES ASSUME NEW q \in Requests,
                        \/ req[q].pc = "deleting" /\ req[q].file = f
                        \/ req[q].pc = "dropping" /\ req[q].doc = row[f].doc
                 PROVE  Removing(f)'
      BY DEF Removing
    <3>1. q # r
      BY <2>1, <2>4 DEF Exists, Active
    <3> QED
      BY <1>6, <2>4, <3>1 DEF Removing
  <2> QED
    BY <2>6, <2>7
<1> QED
  BY <1>2, <1>4, <1>5, <1>7 DEF IInv, BytesInv

(* The rows that stay keep their pins.                                      *)
LEMMA PinsStay ==
  ASSUME IInv, NEW f \in Files, NEW d \in Documents, f \in Ready(d), Onward, Exists(f)'
  PROVE  f \in Ready(d)'
BY DEF Ready, Versions, Onward, Exists, Active

LEMMA InitiateInsertStep ==
  ASSUME IInv, NEW r \in Requests, InitiateInsert(r)
  PROVE  IInv'
<1> DEFINE x == req[r]
<1>1. PICK f \in Files : Insert(r, f)
  BY DEF InitiateInsert
<1> DEFINE e == [Absent EXCEPT !.status = "pending", !.doc = x.doc, !.version = x.version,
                               !.content = x.content]
<1>2. x.pc = "inserting" /\ x.doc \in Documents /\ x.content \in Contents
      /\ x.version \in 0 .. MaxVersion
  BY RequestFields DEF InitiateInsert, IInv, RequestInv, RequestOK
<1>3. row' = [row EXCEPT ![f] = e] /\ row[f].status = "absent" /\ document' = document
  BY <1>1, Kinds DEF Insert, InitiateInsert
<1>4. e \in RowType /\ e.status = "pending" /\ e.doc = x.doc /\ e.content = x.content
      /\ e.swept = FALSE
  <2>1. PICK z \in RowType : z = Absent /\ z.swept = FALSE
    BY Kinds
  <2> DEFINE g == [z EXCEPT !.status = "pending", !.doc = x.doc, !.version = x.version,
                            !.content = x.content]
  <2>2. g \in RowType
    BY <1>2 DEF RowType
  <2>3. g.status = "pending" /\ g.doc = x.doc /\ g.content = x.content /\ g.swept = z.swept
    BY DEF RowType
  <2>4. g = e
    BY <2>1
  <2> HIDE DEF g, e
  <2> QED
    BY <2>1, <2>2, <2>3, <2>4
<1> HIDE DEF e
<1>5. \A g \in Files : row'[g] = IF g = f THEN e ELSE row[g]
  BY <1>3 DEF IInv, TypeOK
<1>6. row' \in [Files -> RowType] /\ document' \in [Documents -> DocumentType]
  BY <1>3, <1>4 DEF IInv, TypeOK
<1>7. Onward
  BY <1>3, <1>5 DEF Onward, Exists, Active
<1>8. UNCHANGED <<old, stored, sweep, abandoned>> /\ End(r)
  BY DEF InitiateInsert
<1>9. RowInv'
  <2>1. RowOK(f)'
    BY <1>2, <1>4, <1>5 DEF RowOK, Exists, Active
  <2>2. ASSUME NEW g \in Files, g # f PROVE RowOK(g)'
    BY <1>5, <1>8, <2>2 DEF IInv, RowInv, RowOK, Exists, Active
  <2> QED
    BY <2>1, <2>2 DEF RowInv
<1>10. PinnedHeadIsReady'
  BY <1>3, <1>5 DEF IInv, PinnedHeadIsReady, Ready, Versions, Exists, Active
<1>11. /\ \A g \in Files : row[g].status = "absent" /\ Exists(g)' => row'[g].status = "pending"
       /\ \A g \in Files : row'[g].status = "ready" => row[g].status = "ready"
       /\ \A g \in Files : row[g].status # "absent" => row'[g].swept = row[g].swept
  BY <1>3, <1>4, <1>5 DEF Exists, Active
<1> QED
  BY <1>2, <1>6, <1>7, <1>8, <1>9, <1>10, <1>11, RequestEnds

(* The row a completion writes is the one it read, or another completion of *)
(* the same upload came first.                                              *)
LEMMA Settled ==
  ASSUME IInv, NEW r \in Requests, End(r), req[r].pc \in {"accepted", "rejected"},
         Exists(req[r].file),
         NEW s \in {"ready", "rejected"}, s = "ready" <=> req[r].pc = "accepted",
         row' = [row EXCEPT ![req[r].file].status = s],
         document' \in [Documents -> DocumentType],
         \A d \in Documents : document'[d].head \in {None, document[d].head},
         UNCHANGED <<old, stored, sweep, abandoned>>
  PROVE  IInv'
<1>0. PICK f \in Files : f = req[r].file
  BY DEF IInv, RequestInv, RequestOK, OnFile
<1> DEFINE e == [row[f] EXCEPT !.status = s]
<1>1. /\ f \in Files /\ RequestOK(req[r]) /\ RowOK(f) /\ row[f] \in RowType
      /\ row[f].status \in {"pending", "ready", "rejected"} /\ old' = old
  BY <1>0, RowFields DEF IInv, RequestInv, RequestOK, OnFile, RowInv, Exists, Active
<1>2. /\ e \in RowType /\ e.status = s /\ e.doc = row[f].doc /\ e.content = row[f].content
      /\ e.swept = row[f].swept
  BY <1>1 DEF RowType
<1>3. row' = [row EXCEPT ![f] = e]
  BY <1>0
<1> HIDE DEF e
<1>4. \A g \in Files : row'[g] = IF g = f THEN e ELSE row[g]
  BY <1>3 DEF IInv, TypeOK
<1>5. row' \in [Files -> RowType]
  BY <1>2, <1>3 DEF IInv, TypeOK
<1>6. s = "ready" <=> row[f].content \notin Invalid
  BY <1>0, <1>1 DEF RequestOK
<1>7. (row[f].status = "ready" => s = "ready") /\ (row[f].status = "rejected" => s = "rejected")
  BY <1>1, <1>6 DEF RowOK
<1>8. Onward
  BY <1>1, <1>2, <1>4, <1>7 DEF Onward, Exists, Active
<1>9. RowInv'
  <2>1. RowOK(f)'
    BY <1>1, <1>2, <1>4, <1>6 DEF RowOK, Exists, Active
  <2>2. ASSUME NEW g \in Files, g # f PROVE RowOK(g)'
    BY <1>1, <1>4, <2>2 DEF IInv, RowInv, RowOK, Exists, Active
  <2> QED
    BY <2>1, <2>2 DEF RowInv
<1>10. \A g \in Files : Exists(g) => Exists(g)'
  BY <1>2, <1>4 DEF Exists, Active
<1>11. PinnedHeadIsReady'
  <2> SUFFICES ASSUME NEW d \in Documents, document'[d].head # None
               PROVE  document'[d].head \in Ready(d)'
    BY DEF PinnedHeadIsReady
  <2>1. document'[d].head = document[d].head /\ document[d].head \in Ready(d)
    BY DEF IInv, PinnedHeadIsReady
  <2>2. document[d].head \in Files /\ Exists(document[d].head)
    BY <2>1 DEF Ready, Versions
  <2>3. PICK g \in Files : g = document[d].head
    BY <2>2
  <2>4. g \in Ready(d) /\ Exists(g)'
    BY <1>10, <2>1, <2>2, <2>3
  <2>5. g \in Ready(d)'
    BY <1>8, <2>4, PinsStay
  <2> QED
    BY <2>1, <2>3, <2>5 DEF Ready, Versions
<1>12. /\ \A g \in Files : row[g].status = "absent" /\ Exists(g)' => row'[g].status = "pending"
       /\ \A g \in Files : row'[g].status = "ready" =>
            row[g].status = "ready" \/ Settling(req[r], g)
       /\ \A g \in Files : row[g].status # "absent" => row'[g].swept = row[g].swept
  BY <1>0, <1>1, <1>2, <1>4 DEF Exists, Active, Settling
<1> QED
  BY <1>5, <1>8, <1>9, <1>11, <1>12, RequestEnds

LEMMA CompleteRejectStep ==
  ASSUME IInv, NEW r \in Requests, CompleteReject(r)
  PROVE  IInv'
BY Settled DEF CompleteReject, IInv, TypeOK

LEMMA CompleteAcceptStep ==
  ASSUME IInv, NEW r \in Requests, CompleteAccept(r)
  PROVE  IInv'
<1> DEFINE x == req[r]
           type == TypeOf[row[x.file].content]
           D == document[x.doc]
           typed == IF x.setType THEN type ELSE D.type
           head == IF x.clearHead /\ type \in ClearsHead THEN None ELSE D.head
           e == [D EXCEPT !.type = typed, !.head = head]
<1>1. x.pc = "accepted" /\ Exists(x.file) /\ x.file \in Files /\ x.doc \in Documents
  BY DEF CompleteAccept, IInv, RequestInv, RequestOK, OnFile
<1>2. type \in FileTypes /\ D \in DocumentType
  BY <1>1, TypesAssumption DEF IInv, RowInv, RowOK, TypeOK
<1>3. typed \in FileTypes \cup {None} /\ head \in {None, D.head} /\ head \in Files \cup {None}
  BY <1>2 DEF DocumentType
<1>4. document' = [document EXCEPT ![x.doc] = e]
  BY <1>1 DEF CompleteAccept
<1> HIDE DEF typed, head
<1>5. e \in DocumentType /\ e.head = head
  BY <1>2, <1>3 DEF DocumentType
<1> HIDE DEF e
<1>6. /\ document' \in [Documents -> DocumentType]
      /\ \A d \in Documents : document'[d].head \in {None, document[d].head}
  BY <1>3, <1>4, <1>5 DEF IInv, TypeOK
<1>7. /\ row' = [row EXCEPT ![x.file].status = "ready"]
      /\ End(r) /\ UNCHANGED <<old, stored, sweep, abandoned>>
  BY DEF CompleteAccept
<1> QED
  BY <1>1, <1>6, <1>7, Settled

LEMMA RestoreWriteStep ==
  ASSUME IInv, NEW r \in Requests, RestoreWrite(r)
  PROVE  IInv'
<1>1. PICK f \in Files : f = req[r].file
  BY DEF RestoreWrite, IInv, RequestInv, RequestOK, OnFile
<1>2. PICK d \in Documents : d = req[r].doc
  BY DEF RestoreWrite, IInv, RequestInv, RequestOK, OnFile
<1>3. req[r].pc = "restoring" /\ Exists(f) /\ row[f].status = "ready" /\ row[f].doc = d
  BY <1>1, <1>2 DEF RestoreWrite, IInv, RequestInv, RequestOK, OnFile
<1> DEFINE e == [document[d] EXCEPT !.head = f]
<1>4. e \in DocumentType /\ e.head = f
  BY DEF IInv, TypeOK, DocumentType
<1>5. document' = [document EXCEPT ![d] = e]
  BY <1>1, <1>2 DEF RestoreWrite
<1> HIDE DEF e
<1>6. row' = row /\ End(r) /\ UNCHANGED <<old, stored, sweep, abandoned>>
  BY DEF RestoreWrite
<1>7. document' \in [Documents -> DocumentType] /\ row' \in [Files -> RowType]
  BY <1>4, <1>5, <1>6 DEF IInv, TypeOK
<1>8. Onward /\ RowInv'
  BY <1>6 DEF Onward, IInv, RowInv, RowOK, Exists, Active
<1>9. PinnedHeadIsReady'
  <2>1. \A c \in Documents : document'[c].head = IF c = d THEN f ELSE document[c].head
    BY <1>4, <1>5 DEF IInv, TypeOK
  <2> QED
    BY <1>3, <1>6, <2>1 DEF IInv, PinnedHeadIsReady, Ready, Versions, Exists, Active
<1>10. /\ \A g \in Files : row[g].status = "absent" /\ Exists(g)' => row'[g].status = "pending"
       /\ \A g \in Files : row'[g].status = "ready" => row[g].status = "ready"
       /\ \A g \in Files : row[g].status # "absent" => row'[g].swept = row[g].swept
  BY <1>6 DEF Exists, Active
<1> QED
  BY <1>3, <1>6, <1>7, <1>8, <1>9, <1>10, RequestEnds

(* Rows are removed, and the pins on them with them.                        *)
LEMMA RowsRemoved ==
  ASSUME IInv, NEW r \in Requests, End(r), NEW S \in SUBSET Files,
         \A f \in S : Exists(f), row' = Removed(S),
         document' \in [Documents -> DocumentType],
         \A d \in Documents : document'[d].head # None =>
           document'[d].head = document[d].head /\ document[d].head \notin S,
         req[r].pc \in {"deleting", "dropping"},
         \A f \in Files : req[r].pc = "deleting" /\ req[r].file = f => f \in S,
         \A f \in Files : req[r].pc = "dropping" /\ Exists(f) /\ row[f].doc = req[r].doc
                           => f \in S,
         UNCHANGED <<old, stored, sweep, abandoned>>
  PROVE  IInv'
<1>1. \A f \in Files : row'[f] = IF f \in S THEN Gone ELSE row[f]
  BY DEF Removed
<1>2. row' \in [Files -> RowType]
  BY Kinds DEF Removed, IInv, TypeOK
<1>3. \A f \in Files : Exists(f)' <=> Exists(f) /\ f \notin S
  BY <1>1, Kinds DEF Exists, Active
<1>4. \A f \in S : row[f].status # "absent"
  BY DEF Exists, Active
<1>5. Onward
  BY <1>1, <1>3, <1>4, Kinds DEF Onward, Active
<1>6. RowInv'
  <2>1. ASSUME NEW f \in S PROVE RowOK(f)'
    <3>1. row'[f] = Gone /\ ~Exists(f)' /\ f \in Files
      BY <1>1, <1>3
    <3> QED
      BY <3>1, Kinds DEF RowOK
  <2>2. ASSUME NEW f \in Files, f \notin S PROVE RowOK(f)'
    <3>1. row'[f] = row[f] /\ old' = old
      BY <1>1, <2>2
    <3> QED
      BY <3>1 DEF IInv, RowInv, RowOK, Exists, Active
  <2> QED
    BY <2>1, <2>2 DEF RowInv
<1>7. PinnedHeadIsReady'
  <2> SUFFICES ASSUME NEW d \in Documents, document'[d].head # None
               PROVE  document'[d].head \in Ready(d)'
    BY DEF PinnedHeadIsReady
  <2>1. document'[d].head = document[d].head /\ document[d].head \notin S
        /\ document[d].head \in Ready(d)
    BY DEF IInv, PinnedHeadIsReady
  <2>2. PICK g \in Files : g = document[d].head
    BY <2>1 DEF Ready, Versions
  <2>3. g \in Ready(d) /\ Exists(g)'
    BY <1>3, <2>1, <2>2 DEF Ready, Versions
  <2>4. g \in Ready(d)'
    BY <1>5, <2>3, PinsStay
  <2> QED
    BY <2>1, <2>2, <2>4 DEF Ready, Versions
<1>8. /\ \A f \in Files : row[f].status = "absent" /\ Exists(f)' => row'[f].status = "pending"
      /\ \A f \in Files : row'[f].status = "ready" => row[f].status = "ready"
      /\ \A f \in Files : row[f].status # "absent" /\ Exists(f)' => row'[f].swept = row[f].swept
  BY <1>1, <1>3, Kinds DEF Exists, Active
<1>9. /\ \A f \in Files : req[r].pc = "deleting" /\ req[r].file = f => ~Exists(f)'
      /\ req[r].pc = "dropping" => \A f \in Files : Exists(f)' => row'[f].doc # req[r].doc
  BY <1>1, <1>3
<1> QED
  BY <1>2, <1>5, <1>6, <1>7, <1>8, <1>9, RequestEnds

LEMMA DeleteRowStep ==
  ASSUME IInv, NEW r \in Requests, DeleteRow(r)
  PROVE  IInv'
<1>1. PICK f \in Files : f = req[r].file
  BY DEF DeleteRow, IInv, RequestInv, RequestOK, OnFile
<1>2. /\ req[r].pc = "deleting" /\ Exists(f) /\ row' = Removed({f}) /\ document' = Unpinned({f})
      /\ End(r) /\ UNCHANGED <<old, stored, sweep, abandoned>>
  BY <1>1 DEF DeleteRow
<1>3. \A d \in Documents :
        /\ document'[d] \in DocumentType
        /\ document'[d].head = IF document[d].head = f THEN None ELSE document[d].head
  BY <1>2 DEF Unpinned, IInv, TypeOK, DocumentType
<1>4. document' \in [Documents -> DocumentType]
  BY <1>2, <1>3 DEF Unpinned
<1> DEFINE S == {f}
<1>5. S \in SUBSET Files /\ (\A g \in S : Exists(g)) /\ row' = Removed(S)
  BY <1>2
<1>6. \A d \in Documents : document'[d].head # None =>
        document'[d].head = document[d].head /\ document[d].head \notin S
  BY <1>3
<1>7. \A g \in Files : req[r].file = g => g \in S
  BY <1>1
<1> HIDE DEF S
<1> QED
  BY <1>2, <1>4, <1>5, <1>6, <1>7, RowsRemoved

LEMMA DeleteCommitStep ==
  ASSUME IInv, NEW r \in Requests, DeleteCommit(r)
  PROVE  IInv'
<1>1. PICK d \in Documents : d = req[r].doc
  BY DEF DeleteCommit, IInv, RequestInv, RequestOK
<1> DEFINE S == Versions(d)
           e == [document[d] EXCEPT !.live = FALSE, !.head = None]
<1>2. /\ req[r].pc = "dropping" /\ row' = Removed(S)
      /\ End(r) /\ UNCHANGED <<old, stored, sweep, abandoned>>
  BY <1>1 DEF DeleteCommit
<1>3. e \in DocumentType /\ e.head = None
  BY DEF IInv, TypeOK, DocumentType
<1>4. document' = [document EXCEPT ![d] = e]
  BY <1>1 DEF DeleteCommit
<1> HIDE DEF e
<1>5. document' \in [Documents -> DocumentType]
  BY <1>3, <1>4 DEF IInv, TypeOK
<1>6. \A c \in Documents : document'[c].head # None =>
        document'[c].head = document[c].head /\ document[c].head \notin S
  <2> SUFFICES ASSUME NEW c \in Documents, document'[c].head # None
               PROVE  document'[c].head = document[c].head /\ document[c].head \notin S
    OBVIOUS
  <2>1. c # d /\ document'[c].head = document[c].head
    BY <1>3, <1>4 DEF IInv, TypeOK
  <2>2. document[c].head \in Ready(c)
    BY <2>1 DEF IInv, PinnedHeadIsReady
  <2> QED
    BY <2>1, <2>2 DEF Ready, Versions
<1>7. S \in SUBSET Files /\ (\A f \in S : Exists(f))
      /\ \A f \in Files : Exists(f) /\ row[f].doc = d => f \in S
  BY DEF Versions
<1> HIDE DEF S
<1> QED
  BY <1>1, <1>2, <1>5, <1>6, <1>7, RowsRemoved

-----------------------------------------------------------------------------
(* Steps that change no row and begin no request.                           *)
LEMMA AbortStep ==
  ASSUME IInv, NEW r \in Requests, Abort(r)
  PROVE  IInv'
<1>1. /\ req' = [req EXCEPT ![r] = Idle] /\ Idle \in RequestType /\ Idle.pc = "idle"
      /\ abandoned' = abandoned \cup Left(r)
      /\ UNCHANGED <<row, old, stored, document, sweep>>
  BY Kinds DEF Abort, End
<1>2. Onward
  BY <1>1 DEF Onward, Exists, Active
<1>3. TypeOK'
  BY <1>1 DEF IInv, TypeOK, Left
<1>4. RequestOK(Idle)'
  <2>1. PICK x \in RequestType : x = Idle /\ x.pc = "idle"
    BY <1>1
  <2>2. RequestOK(x)'
    BY <2>1 DEF RequestOK, OnFile
  <2> QED
    BY <2>1, <2>2 DEF Idle
<1>5. RequestInv'
  BY <1>1, <1>2, <1>4, RequestMoves
<1>6. RowInv' /\ SweepInv' /\ PinnedHeadIsReady'
  BY <1>1 DEF IInv, RowInv, RowOK, SweepInv, PinnedHeadIsReady, Ready, Versions, Exists, Active
<1>7. \A q \in Requests : req'[q] = IF q = r THEN Idle ELSE req[q]
  BY <1>1 DEF IInv, TypeOK
<1>8. ASSUME NEW f \in Files, NeedsBytes(f)', f \notin stored
      PROVE  (f \in abandoned \/ Removing(f))'
  <2>1. NeedsBytes(f)
    BY <1>1, <1>7, <1>8 DEF NeedsBytes, Settling, Exists, Active
  <2>2. f \in abandoned \/ Removing(f)
    BY <1>8, <2>1 DEF IInv, BytesInv
  <2>3. Exists(f)
    BY <2>1 DEF NeedsBytes
  <2>4. Removing(f) => f \in Left(r) \/ Removing(f)'
    BY <1>1, <1>7, <2>3 DEF Removing, Left, Versions
  <2> QED
    BY <1>1, <2>2, <2>4
<1> QED
  BY <1>1, <1>3, <1>5, <1>6, <1>8 DEF IInv, BytesInv

(* The shape of a step that leaves rows, documents and requests alone.      *)
LEMMA RowsStay ==
  ASSUME IInv, UNCHANGED <<row, document, req>>, old \subseteq old',
         TypeOK', SweepInv', RequestInv',
         \A f \in old' : row[f].status # "absent",
         \A f \in Files : NeedsBytes(f) /\ f \notin stored' =>
           \/ f \in abandoned'
           \/ f \in sweep'.rows \ sweep'.todo
           \/ f \notin stored /\ Removing(f) /\ f \notin sweep.rows \ sweep.todo
  PROVE  IInv'
<1>1. RowInv' /\ PinnedHeadIsReady'
  BY DEF IInv, RowInv, RowOK, PinnedHeadIsReady, Ready, Versions, Exists, Active
<1>2. \A f \in Files : NeedsBytes(f)' => NeedsBytes(f)
  BY DEF NeedsBytes, Settling, Exists, Active
<1>3. \A f \in Files : Removing(f) /\ f \notin sweep.rows \ sweep.todo => Removing(f)'
  BY DEF Removing
<1>4. \A f \in Files : f \in sweep'.rows \ sweep'.todo => Removing(f)'
  BY DEF Removing
<1>5. BytesInv'
  BY <1>2, <1>3, <1>4 DEF BytesInv
<1> QED
  BY <1>1, <1>5 DEF IInv

LEMMA RequestsStay ==
  ASSUME IInv, UNCHANGED <<row, req, old>>
  PROVE  RequestInv'
BY DEF IInv, RequestInv, RequestOK, Exists, Active

LEMMA PutStep ==
  ASSUME IInv, NEW f \in Files, Put(f)
  PROVE  IInv'
<1>1. stored' = stored \cup {f} /\ UNCHANGED <<row, old, document, req, sweep, abandoned>>
  BY DEF Put
<1>2. TypeOK' /\ SweepInv'
  BY <1>1 DEF IInv, TypeOK, SweepInv
<1>3. RequestInv'
  BY <1>1, RequestsStay
<1>4. \A g \in old' : row[g].status # "absent"
  BY <1>1 DEF IInv, TypeOK, RowInv, RowOK
<1>5. \A g \in Files : NeedsBytes(g) /\ g \notin stored' =>
           \/ g \in abandoned'
           \/ g \in sweep'.rows \ sweep'.todo
           \/ g \notin stored /\ Removing(g) /\ g \notin sweep.rows \ sweep.todo
  BY <1>1 DEF IInv, BytesInv
<1> QED
  BY <1>1, <1>2, <1>3, <1>4, <1>5, RowsStay

(* An upload is a day old when the initiates that did not see it are over.  *)
LEMMA AgeStep ==
  ASSUME IInv, NEW f \in Files, Age(f)
  PROVE  IInv'
<1>1. /\ old' = old \cup {f} /\ UNCHANGED <<row, stored, document, req, sweep, abandoned>>
      /\ row[f].status = "pending"
  BY DEF Age
<1>2. TypeOK' /\ SweepInv'
  BY <1>1 DEF IInv, TypeOK, SweepInv
<1>3. RequestInv'
  <2> SUFFICES ASSUME NEW r \in Requests PROVE RequestOK(req[r])'
    BY DEF RequestInv
  <2>1. PICK x \in RequestType : x = req[r]
    BY RequestFields DEF IInv
  <2>2. RequestOK(x) /\ req'[r] = x
    BY <1>1, <2>1 DEF IInv, RequestInv
  <2>3. x.pc = "inserting" => f \in x.seen
    BY <2>1 DEF Age
  <2>4. x.pc = "inserting" => ~(Active(f) /\ row[f].content = x.content)
    BY <2>2, <2>3 DEF RequestOK
  <2>5. RequestOK(x)'
    BY <1>1, <2>2, <2>4 DEF RequestOK, Exists, Active
  <2> QED
    BY <2>2, <2>5 DEF RequestOK
<1>4. \A g \in old' : row[g].status # "absent"
  BY <1>1 DEF IInv, TypeOK, RowInv, RowOK
<1>5. \A g \in Files : NeedsBytes(g) /\ g \notin stored' =>
           \/ g \in abandoned'
           \/ g \in sweep'.rows \ sweep'.todo
           \/ g \notin stored /\ Removing(g) /\ g \notin sweep.rows \ sweep.todo
  BY <1>1 DEF IInv, BytesInv
<1> QED
  BY <1>1, <1>2, <1>3, <1>4, <1>5, RowsStay

LEMMA SweepFields ==
  ASSUME TypeOK
  PROVE  /\ sweep = [pc |-> sweep.pc, rows |-> sweep.rows, todo |-> sweep.todo]
         /\ sweep.pc \in {"idle", "reaping"} /\ sweep.rows \subseteq Files
         /\ sweep.todo \subseteq Files
BY DEF TypeOK

LEMMA SweepReadStep ==
  ASSUME IInv, SweepRead
  PROVE  IInv'
<1>1. /\ sweep.rows = {} /\ Stale \subseteq old /\ old \subseteq Files
      /\ UNCHANGED <<row, old, stored, document, req, abandoned>>
  BY DEF SweepRead, Stale, IInv, SweepInv, TypeOK
<1>2. sweep' = [pc |-> "reaping", rows |-> Stale, todo |-> Stale]
  BY DEF SweepRead
<1>3. TypeOK' /\ SweepInv'
  BY <1>1, <1>2 DEF IInv, TypeOK, SweepInv
<1>4. RequestInv'
  BY <1>1, RequestsStay
<1>5. \A g \in old' : row[g].status # "absent"
  BY <1>1 DEF IInv, TypeOK, RowInv, RowOK
<1>6. \A g \in Files : NeedsBytes(g) /\ g \notin stored' =>
           \/ g \in abandoned'
           \/ g \in sweep'.rows \ sweep'.todo
           \/ g \notin stored /\ Removing(g) /\ g \notin sweep.rows \ sweep.todo
  BY <1>1 DEF IInv, BytesInv
<1> QED
  BY <1>1, <1>3, <1>4, <1>5, <1>6, RowsStay

LEMMA SweepObjectStep ==
  ASSUME IInv, NEW f \in Files, SweepObject(f)
  PROVE  IInv'
<1>1. /\ f \in sweep.todo /\ stored' \subseteq stored /\ stored \ stored' \subseteq {f}
      /\ UNCHANGED <<row, old, document, req, abandoned>>
  BY DEF SweepObject, RemoveObject
<1> DEFINE e == [sweep EXCEPT !.todo = sweep.todo \ {f}]
<1>2. sweep' = e
  BY DEF SweepObject
<1>3. e.pc = sweep.pc /\ e.rows = sweep.rows /\ e.todo = sweep.todo \ {f}
      /\ e \in [pc : {"idle", "reaping"}, rows : SUBSET Files, todo : SUBSET Files]
  BY DEF IInv, TypeOK
<1> HIDE DEF e
<1>4. TypeOK' /\ SweepInv'
  BY <1>1, <1>2, <1>3 DEF IInv, TypeOK, SweepInv
<1>5. RequestInv'
  BY <1>1, RequestsStay
<1>6. \A g \in old' : row[g].status # "absent"
  BY <1>1 DEF IInv, TypeOK, RowInv, RowOK
<1>7. f \in sweep'.rows \ sweep'.todo /\ sweep.rows \ sweep.todo \subseteq sweep'.rows \ sweep'.todo
  BY <1>1, <1>2, <1>3 DEF IInv, SweepInv
<1>8. \A g \in Files : NeedsBytes(g) /\ g \notin stored' =>
           \/ g \in abandoned'
           \/ g \in sweep'.rows \ sweep'.todo
           \/ g \notin stored /\ Removing(g) /\ g \notin sweep.rows \ sweep.todo
  BY <1>1, <1>7 DEF IInv, BytesInv
<1> QED
  BY <1>1, <1>4, <1>5, <1>6, <1>8, RowsStay

LEMMA SweepFailStep ==
  ASSUME IInv, SweepFail
  PROVE  IInv'
<1>1. /\ abandoned' = abandoned \cup (sweep.rows \ sweep.todo)
      /\ UNCHANGED <<row, old, stored, document, req>>
  BY DEF SweepFail
<1>2. sweep'.pc = "idle" /\ sweep'.rows = {} /\ sweep'.todo = {}
      /\ sweep' \in [pc : {"idle", "reaping"}, rows : SUBSET Files, todo : SUBSET Files]
  BY DEF SweepFail, NotSweeping
<1>3. TypeOK' /\ SweepInv'
  BY <1>1, <1>2, SweepFields DEF IInv, TypeOK, SweepInv
<1>4. RequestInv'
  BY <1>1, RequestsStay
<1>5. \A g \in old' : row[g].status # "absent"
  BY <1>1 DEF IInv, TypeOK, RowInv, RowOK
<1>6. \A g \in Files : NeedsBytes(g) /\ g \notin stored' =>
           \/ g \in abandoned'
           \/ g \in sweep'.rows \ sweep'.todo
           \/ g \notin stored /\ Removing(g) /\ g \notin sweep.rows \ sweep.todo
  BY <1>1 DEF IInv, BytesInv
<1> QED
  BY <1>1, <1>3, <1>4, <1>5, <1>6, RowsStay

(* The sweep hides what it read, completed meanwhile or not.                *)
LEMMA SweepCommitStep ==
  ASSUME IInv, SweepCommit
  PROVE  IInv'
<1>1. /\ row' = Swept /\ sweep.todo = {} /\ sweep.rows \subseteq old
      /\ UNCHANGED <<old, stored, document, req, abandoned>>
  BY DEF SweepCommit, IInv, SweepInv
<1>2. sweep'.pc = "idle" /\ sweep'.rows = {} /\ sweep'.todo = {}
      /\ sweep' \in [pc : {"idle", "reaping"}, rows : SUBSET Files, todo : SUBSET Files]
  BY DEF SweepCommit, NotSweeping
<1>3. \A f \in Files :
        /\ row'[f] \in RowType /\ row'[f].status = row[f].status /\ row'[f].doc = row[f].doc
        /\ row'[f].content = row[f].content
        /\ row'[f].swept = (row[f].swept \/ (f \in sweep.rows /\ Exists(f)))
  <2> SUFFICES ASSUME NEW f \in Files
               PROVE  /\ row'[f] \in RowType /\ row'[f].status = row[f].status
                      /\ row'[f].doc = row[f].doc /\ row'[f].content = row[f].content
                      /\ row'[f].swept = (row[f].swept \/ (f \in sweep.rows /\ Exists(f)))
    OBVIOUS
  <2>1. row[f] \in RowType /\ row[f].swept \in BOOLEAN
    BY RowFields DEF IInv
  <2> DEFINE e == [row[f] EXCEPT !.swept = TRUE]
  <2>2. e \in RowType /\ e.status = row[f].status /\ e.doc = row[f].doc
        /\ e.content = row[f].content /\ e.swept = TRUE
    BY <2>1 DEF RowType
  <2>3. row'[f] = IF f \in sweep.rows /\ Exists(f) THEN e ELSE row[f]
    BY <1>1 DEF Swept
  <2> HIDE DEF e
  <2>4. CASE f \in sweep.rows /\ Exists(f)
    BY <2>2, <2>3, <2>4
  <2>5. CASE ~(f \in sweep.rows /\ Exists(f))
    BY <2>1, <2>3, <2>5
  <2> QED
    BY <2>4, <2>5
<1>4. row' \in [Files -> RowType]
  BY <1>1, <1>3 DEF Swept
<1>5. TypeOK' /\ SweepInv'
  BY <1>1, <1>2, <1>4 DEF IInv, TypeOK, SweepInv
<1>6. \A f \in Files : (Exists(f)' <=> Exists(f)) /\ (Active(f)' <=> Active(f))
  BY <1>3 DEF Exists, Active
<1>7. ASSUME NEW f \in Files PROVE RowOK(f)'
  <2>1. RowOK(f)
    BY DEF IInv, RowInv
  <2>2. row[f].status = "absent" => row'[f] = row[f]
    BY <1>1 DEF Swept, Exists, Active
  <2> QED
    BY <1>1, <1>3, <1>6, <2>1, <2>2 DEF RowOK, Absent
<1>8. RequestInv'
  BY <1>1, <1>3, <1>6, RequestFields DEF IInv, RequestInv, RequestOK, OnFile
<1>9. PinnedHeadIsReady'
  BY <1>1, <1>3, <1>6 DEF IInv, PinnedHeadIsReady, Ready, Versions
<1>10. ASSUME NEW f \in Files, NeedsBytes(f)', f \notin stored
       PROVE  (f \in abandoned \/ Removing(f))'
  <2>1. Exists(f) /\ ~row[f].swept /\ f \notin sweep.rows
    BY <1>3, <1>6, <1>10, RowFields DEF NeedsBytes, IInv
  <2>2. NeedsBytes(f)
    BY <1>1, <1>3, <1>10, <2>1 DEF NeedsBytes, Settling
  <2>3. f \in abandoned \/ Removing(f)
    BY <1>10, <2>2 DEF IInv, BytesInv
  <2> QED
    BY <1>1, <1>3, <2>1, <2>3 DEF Removing
<1> QED
  BY <1>1, <1>5, <1>7, <1>8, <1>9, <1>10 DEF IInv, RowInv, BytesInv

LEMMA Stepwise == IInv /\ [Next]_vars => IInv'
<1> SUFFICES ASSUME IInv, [Next]_vars PROVE IInv'
  OBVIOUS
<1>1. ASSUME NEW r \in Requests, Proceed(r) PROVE IInv'
  BY <1>1, InitiateInsertStep, CompleteDiscardStep, CompleteReadStep, CompleteRejectStep,
     CompleteAcceptStep, RestoreWriteStep, DeleteRowStep, DeleteCommitStep, AbortStep DEF Proceed
<1>2. ASSUME NEW r \in Requests, NEW d \in Documents, NEW c \in Contents, InitiateRead(r, d, c)
      PROVE  IInv'
  BY <1>2, InitiateReadStep
<1>3. ASSUME NEW r \in Requests, NEW f \in Files,
             CompleteCheck(r, f) \/ RestoreRead(r, f) \/ DeleteObject(r, f)
      PROVE  IInv'
  BY <1>3, CompleteCheckStep, RestoreReadStep, DeleteObjectStep
<1>4. ASSUME NEW r \in Requests, NEW d \in Documents, DeleteDocument(r, d) PROVE IInv'
  BY <1>4, DeleteDocumentStep
<1>5. ASSUME NEW f \in Files, Put(f) \/ Age(f) \/ SweepObject(f) PROVE IInv'
  BY <1>5, PutStep, AgeStep, SweepObjectStep
<1>6. CASE UNCHANGED vars
  BY <1>6 DEF vars, IInv, TypeOK, RowInv, RowOK, SweepInv, RequestInv, RequestOK,
              PinnedHeadIsReady, Ready, Versions, BytesInv, NeedsBytes, Settling, Removing,
              Exists, Active
<1> QED
  BY <1>1, <1>2, <1>3, <1>4, <1>5, <1>6, SweepReadStep, SweepCommitStep, SweepFailStep DEF Next

-----------------------------------------------------------------------------
THEOREM Invariant == Spec => []IInv
<1> QED
  BY Initially, Stepwise, PTL DEF Spec

(* Every variable keeps its type in every run.                              *)
THEOREM TypeCorrect == Spec => []TypeOK
<1>1. IInv => TypeOK
  BY DEF IInv
<1> QED
  BY <1>1, Invariant, PTL

(* Whatever restore_version, complete_upload and the deletions interleave,  *)
(* the version a document pins is a ready version of that document.         *)
THEOREM PinsAreReady == Spec => []PinnedHeadIsReady
<1>1. IInv => PinnedHeadIsReady
  BY DEF IInv
<1> QED
  BY <1>1, Invariant, PTL

(* A version that users see has its bytes, unless a deletion or the sweep   *)
(* is removing it or was stopped after it deleted the object.               *)
THEOREM VersionsHaveBytes == Spec => []NoDanglingVersion
<1>1. IInv => NoDanglingVersion
  BY DEF IInv, BytesInv, NeedsBytes, NoDanglingVersion, Exists, Active
<1> QED
  BY <1>1, Invariant, PTL

(* A row is inserted for the content the request asked for.                 *)
LEMMA InsertedContent ==
  ASSUME NEW r \in Requests, NEW h \in Files, Insert(r, h), TypeOK
  PROVE  /\ row'[h].content = req[r].content
         /\ \A f \in Files : f # h => row'[f] = row[f]
<1> DEFINE e == [Absent EXCEPT !.status = "pending", !.doc = req[r].doc,
                               !.version = req[r].version, !.content = req[r].content]
<1>1. e.content = req[r].content
  BY DEF Absent
<1>2. row' = [row EXCEPT ![h] = e]
  BY DEF Insert
<1> HIDE DEF e
<1> QED
  BY <1>1, <1>2 DEF TypeOK

LEMMA NewContent ==
  ASSUME IInv, [Next]_vars, NEW f \in Files, NEW g \in Files,
         row[f] = Absent, row'[f] # Absent, Active(g)
  PROVE  row[g].content # row'[f].content
<1>1. ~Exists(f)
  BY Kinds DEF Exists, Active
<1>2. ASSUME NEW r \in Requests, InitiateInsert(r)
      PROVE  row[g].content # row'[f].content
  <2>1. PICK h \in Files : Insert(r, h)
    BY <1>2 DEF InitiateInsert
  <2>2. f = h /\ row'[f].content = req[r].content
    BY <2>1, InsertedContent DEF IInv
  <2>3. CASE row[g].swept
    <3>1. g \in old /\ req[r].pc = "inserting" /\ RequestOK(req[r])
      BY <1>2, <2>3 DEF IInv, RowInv, RowOK, RequestInv, InitiateInsert
    <3> QED
      BY <2>2, <3>1 DEF RequestOK
  <2>4. CASE ~row[g].swept
    BY <1>1, <2>1, <2>2, <2>4 DEF Insert, ContentTaken, Exists
  <2> QED
    BY <2>3, <2>4
<1>3. ASSUME NEW r \in Requests, CompleteReject(r) \/ CompleteAccept(r) PROVE FALSE
  <2>1. Exists(req[r].file) /\ req[r].file # f
    BY <1>1, <1>3 DEF CompleteReject, CompleteAccept
  <2>2. row'[f] = row[f]
    BY <1>3, <2>1 DEF CompleteReject, CompleteAccept, IInv, TypeOK
  <2> QED
    BY <2>2
<1>4. ASSUME NEW S, \A h \in S : Exists(h), row' = Removed(S) PROVE FALSE
  <2>1. row'[f] = row[f]
    BY <1>1, <1>4 DEF Removed
  <2> QED
    BY <2>1
<1>5. ASSUME NEW r \in Requests, DeleteRow(r) \/ DeleteCommit(r) PROVE FALSE
  <2>1. CASE DeleteRow(r)
    <3>1. row' = Removed({req[r].file}) /\ \A h \in {req[r].file} : Exists(h)
      BY <2>1 DEF DeleteRow
    <3> QED
      BY <1>4, <3>1
  <2>2. CASE DeleteCommit(r)
    <3>1. row' = Removed(Versions(req[r].doc)) /\ \A h \in Versions(req[r].doc) : Exists(h)
      BY <2>2 DEF DeleteCommit, Versions
    <3> QED
      BY <1>4, <3>1
  <2> QED
    BY <1>5, <2>1, <2>2
<1>6. ~SweepCommit
  BY <1>1 DEF SweepCommit, Swept
<1>7. row' # row
  OBVIOUS
<1> QED
  BY <1>2, <1>3, <1>5, <1>6, <1>7 DEF Next, Proceed, vars, InitiateRead, Put, CompleteCheck,
     CompleteDiscard, CompleteRead, RestoreRead, RestoreWrite, DeleteObject, DeleteDocument,
     Abort, Age, SweepRead, SweepObject, SweepFail

(* No content gets a second row while it has one that is pending or ready,  *)
(* hidden by the sweep or not: the index refuses it against the rows that   *)
(* are not hidden, and a row is hidden only when every initiate that did    *)
(* not see it is over.                                                      *)
THEOREM NoUploadTwice == Spec => UploadsNotDoubled
<1>1. IInv /\ [Next]_vars =>
        [\A f, g \in Files :
           row[f] = Absent /\ row'[f] # Absent /\ Active(g)
             => row[g].content # row'[f].content]_vars
  BY NewContent
<1> QED
  BY <1>1, Invariant, PTL DEF Spec, UploadsNotDoubled

-----------------------------------------------------------------------------
(* The refinement.  A version arrives only in a document that is there,     *)
(* for which its row must not outlive the document.                         *)
LiveInv == \A f \in Files : Exists(f) => document[row[f].doc].live

ShelfMoves ==
  Reader!Next \/ UNCHANGED <<StateShown, DocShown, LiveShown, HeadShown>>

LEMMA ShelfStarts == Init => Reader!Init /\ LiveInv
<1> SUFFICES ASSUME Init PROVE Reader!Init /\ LiveInv
  OBVIOUS
<1>1. \A f \in Files : row[f].status = "absent"
  BY Kinds DEF Init
<1>2. \A d \in Documents : document[d].live /\ document[d].head = None
  BY DEF Init
<1>3. /\ StateShown = [f \in Files |-> "coming"] /\ DocShown = [f \in Files |-> None]
  BY <1>1 DEF StateShown, DocShown, Shown
<1>4. LiveShown = Documents /\ HeadShown = [d \in Documents |-> None]
  BY <1>2 DEF LiveShown, HeadShown
<1>5. LiveInv
  BY <1>1 DEF LiveInv, Exists, Active
<1> QED
  BY <1>3, <1>4, <1>5 DEF Reader!Init

(* Nobody sees a step that changes neither rows nor documents.              *)
LEMMA Unseen ==
  ASSUME LiveInv, UNCHANGED <<row, document>>
  PROVE  ShelfMoves /\ LiveInv'
BY DEF ShelfMoves, StateShown, DocShown, LiveShown, HeadShown, Shown, LiveInv, Exists, Active

LEMMA InsertSeen ==
  ASSUME IInv, LiveInv, NEW r \in Requests, InitiateInsert(r)
  PROVE  ShelfMoves /\ LiveInv'
<1>1. PICK f \in Files : Insert(r, f)
  BY DEF InitiateInsert
<1> DEFINE d == req[r].doc
           e == [Absent EXCEPT !.status = "pending", !.doc = d,
                               !.version = req[r].version, !.content = req[r].content]
<1>2. e.status = "pending" /\ e.doc = d
  BY DEF Absent
<1>3. row' = [row EXCEPT ![f] = e] /\ row[f].status = "absent" /\ document' = document
      /\ document[d].live
  BY <1>1, Kinds DEF Insert, InitiateInsert
<1> HIDE DEF e
<1>4. \A g \in Files : row'[g] = IF g = f THEN e ELSE row[g]
  BY <1>3 DEF IInv, TypeOK
<1>5. UNCHANGED <<StateShown, DocShown, LiveShown, HeadShown>>
  BY <1>2, <1>3, <1>4 DEF StateShown, DocShown, LiveShown, HeadShown, Shown
<1>6. LiveInv'
  BY <1>2, <1>3, <1>4 DEF LiveInv, Exists, Active
<1> QED
  BY <1>5, <1>6 DEF ShelfMoves

(* A completion reaches a row of the document it read, which is there.      *)
LEMMA CompletionRow ==
  ASSUME IInv, LiveInv, NEW r \in Requests, req[r].pc \in {"accepted", "rejected"},
         Exists(req[r].file)
  PROVE  /\ req[r].file \in Files /\ req[r].doc \in Documents
         /\ row[req[r].file].doc = req[r].doc
         /\ document[req[r].doc].live
         /\ row[req[r].file].status
              \in {"pending", IF req[r].pc = "accepted" THEN "ready" ELSE "rejected"}
<1>1. PICK f \in Files : f = req[r].file
  BY DEF IInv, RequestInv, RequestOK, OnFile
<1>2. RequestOK(req[r]) /\ RowOK(f)
  BY DEF IInv, RequestInv, RowInv
<1>3. row[f].doc = req[r].doc /\ req[r].doc \in Documents /\ document[req[r].doc].live
  BY <1>1, <1>2 DEF RequestOK, OnFile, LiveInv
<1>4. row[f].status \in {"pending", IF req[r].pc = "accepted" THEN "ready" ELSE "rejected"}
  BY <1>1, <1>2 DEF RequestOK, RowOK, Exists, Active
<1> QED
  BY <1>1, <1>3, <1>4

LEMMA RejectSeen ==
  ASSUME IInv, LiveInv, NEW r \in Requests, CompleteReject(r)
  PROVE  ShelfMoves /\ LiveInv'
<1>1. PICK f \in Files : f = req[r].file
  BY CompletionRow DEF CompleteReject
<1> DEFINE e == [row[f] EXCEPT !.status = "rejected"]
<1>2. row[f].status \in {"pending", "rejected"} /\ Exists(f)
  BY <1>1, CompletionRow DEF CompleteReject
<1>3. e.status = "rejected" /\ e.doc = row[f].doc
  BY RowFields DEF IInv, RowType
<1>4. row' = [row EXCEPT ![f] = e] /\ document' = document
  BY <1>1 DEF CompleteReject
<1> HIDE DEF e
<1>5. \A g \in Files : row'[g] = IF g = f THEN e ELSE row[g]
  BY <1>4 DEF IInv, TypeOK
<1>6. LiveInv'
  BY <1>2, <1>3, <1>4, <1>5 DEF LiveInv, Exists, Active
<1>7. \A d \in Documents : document[d].head \notin {f}
  BY <1>2, NoneAssumption DEF IInv, PinnedHeadIsReady, Ready, Versions
<1>8. Reader!Close(f)
  <2>1. StateShown' = [g \in Files |-> IF g \in {f} THEN "closed" ELSE StateShown[g]]
    BY <1>3, <1>5 DEF StateShown, Shown
  <2>2. DocShown' = [g \in Files |-> IF g \in {f} THEN None ELSE DocShown[g]]
    BY <1>3, <1>5 DEF DocShown
  <2>3. /\ HeadShown' = [d \in Documents |-> IF HeadShown[d] \in {f} THEN None ELSE HeadShown[d]]
        /\ LiveShown' = LiveShown
    BY <1>4, <1>7 DEF HeadShown, LiveShown
  <2> QED
    BY <2>1, <2>2, <2>3 DEF Reader!Close, Reader!Closing
<1> QED
  BY <1>6, <1>8 DEF ShelfMoves, Reader!Next

LEMMA AcceptSeen ==
  ASSUME IInv, LiveInv, NEW r \in Requests, CompleteAccept(r)
  PROVE  ShelfMoves /\ LiveInv'
<1>1. PICK f \in Files : f = req[r].file
  BY CompletionRow DEF CompleteAccept
<1>2. PICK d \in Documents : d = req[r].doc
  BY CompletionRow DEF CompleteAccept
<1>3. /\ row[f].status \in {"pending", "ready"} /\ Exists(f) /\ row[f].doc = d
      /\ document[d].live
  BY <1>1, <1>2, CompletionRow DEF CompleteAccept
<1> DEFINE e == [row[f] EXCEPT !.status = "ready"]
           s == IF row[f].swept THEN "hidden" ELSE "open"
<1>4. e.status = "ready" /\ e.doc = d /\ e.swept = row[f].swept
  BY <1>3, RowFields DEF IInv, RowType
<1>5. row' = [row EXCEPT ![f] = e]
  BY <1>1 DEF CompleteAccept
<1> HIDE DEF e
<1>6. \A g \in Files : row'[g] = IF g = f THEN e ELSE row[g]
  BY <1>5 DEF IInv, TypeOK
<1>7. /\ \A c \in Documents : document'[c].live = document[c].live
      /\ \/ \A c \in Documents : document'[c].head = document[c].head
         \/ \A c \in Documents :
              document'[c].head = IF c = d THEN None ELSE document[c].head
  <2> DEFINE type == TypeOf[row[f].content]
             typed == IF req[r].setType THEN type ELSE document[d].type
             clears == req[r].clearHead /\ type \in ClearsHead
             head == IF clears THEN None ELSE document[d].head
             x == [document[d] EXCEPT !.type = typed, !.head = head]
  <2>1. document' = [document EXCEPT ![d] = x]
    BY <1>1, <1>2 DEF CompleteAccept
  <2> HIDE DEF typed, clears, head
  <2>2. x.live = document[d].live /\ x.head = head
    BY DEF IInv, TypeOK, DocumentType
  <2> HIDE DEF x
  <2>3. \A c \in Documents : document'[c] = IF c = d THEN x ELSE document[c]
    BY <2>1 DEF IInv, TypeOK
  <2>4. head = None \/ head = document[d].head
    BY DEF head
  <2> QED
    BY <2>2, <2>3, <2>4
<1>8. LiveInv'
  BY <1>3, <1>4, <1>6, <1>7 DEF LiveInv, Exists, Active, IInv, RowInv, RowOK
<1>9. /\ LiveShown' = LiveShown /\ d \in LiveShown
      /\ HeadShown' \in {HeadShown, [HeadShown EXCEPT ![d] = None]}
  BY <1>3, <1>7 DEF LiveShown, HeadShown
<1>10. StateShown' = [StateShown EXCEPT ![f] = s] /\ DocShown' = [DocShown EXCEPT ![f] = d]
  BY <1>4, <1>6 DEF StateShown, DocShown, Shown
<1>11. CASE row[f].status = "pending"
  <2>1. StateShown[f] = "coming" /\ s \in {"open", "hidden"}
    BY <1>11 DEF StateShown, Shown
  <2>2. Reader!Open(f, d)
    BY <1>9, <1>10, <2>1 DEF Reader!Open, Reader!Unpin
  <2> QED
    BY <1>8, <2>2 DEF ShelfMoves, Reader!Next
<1>12. CASE row[f].status = "ready"
  <2>1. StateShown[f] = s /\ s \in {"open", "hidden"} /\ DocShown[f] = d
    BY <1>3, <1>12 DEF StateShown, DocShown, Shown
  <2>2. StateShown' = StateShown /\ DocShown' = DocShown
    BY <1>10, <2>1 DEF StateShown, DocShown
  <2>3. Reader!Reopen(f)
    BY <1>9, <2>1, <2>2 DEF Reader!Reopen, Reader!Readable, Reader!Unpin
  <2> QED
    BY <1>8, <2>3 DEF ShelfMoves, Reader!Next
<1> QED
  BY <1>3, <1>11, <1>12

LEMMA RestoreSeen ==
  ASSUME IInv, LiveInv, NEW r \in Requests, RestoreWrite(r)
  PROVE  ShelfMoves /\ LiveInv'
<1>1. PICK f \in Files : f = req[r].file
  BY DEF RestoreWrite, IInv, RequestInv, RequestOK, OnFile
<1>2. PICK d \in Documents : d = req[r].doc
  BY DEF RestoreWrite, IInv, RequestInv, RequestOK, OnFile
<1>3. Exists(f) /\ row[f].status = "ready" /\ row[f].doc = d /\ row' = row
  BY <1>1, <1>2 DEF RestoreWrite, IInv, RequestInv, RequestOK, OnFile
<1> DEFINE e == [document[d] EXCEPT !.head = f]
<1>4. e.live = document[d].live /\ e.head = f
  BY DEF IInv, TypeOK, DocumentType
<1>5. document' = [document EXCEPT ![d] = e]
  BY <1>1, <1>2 DEF RestoreWrite
<1> HIDE DEF e
<1>6. \A c \in Documents : document'[c] = IF c = d THEN e ELSE document[c]
  BY <1>5 DEF IInv, TypeOK
<1>7. LiveInv'
  BY <1>3, <1>4, <1>6 DEF LiveInv, Exists, Active, IInv, RowInv, RowOK
<1>8. Reader!Pin(f)
  <2>1. StateShown[f] \in {"open", "hidden"} /\ DocShown[f] = d
    BY <1>3 DEF StateShown, DocShown, Shown
  <2>2. StateShown' = StateShown /\ DocShown' = DocShown
    BY <1>3 DEF StateShown, DocShown, Shown
  <2>3. LiveShown' = LiveShown /\ HeadShown' = [HeadShown EXCEPT ![d] = f]
    BY <1>4, <1>6 DEF LiveShown, HeadShown
  <2> QED
    BY <2>1, <2>2, <2>3 DEF Reader!Pin, Reader!Readable
<1> QED
  BY <1>7, <1>8 DEF ShelfMoves, Reader!Next

(* Rows that are removed close, and are pinned no longer.                   *)
LEMMA RemovalCloses ==
  ASSUME NEW S \in SUBSET Files, row' = Removed(S),
         \A d \in Documents :
           document'[d].head = IF document[d].head \in S THEN None ELSE document[d].head
  PROVE  Reader!Closing(S)
<1>1. \A f \in Files : row'[f] = IF f \in S THEN Gone ELSE row[f]
  BY DEF Removed
<1>2. StateShown' = [f \in Files |-> IF f \in S THEN "closed" ELSE StateShown[f]]
  BY <1>1, Kinds DEF StateShown, Shown
<1>3. DocShown' = [f \in Files |-> IF f \in S THEN None ELSE DocShown[f]]
  BY <1>1, Kinds DEF DocShown
<1>4. HeadShown' = [d \in Documents |-> IF HeadShown[d] \in S THEN None ELSE HeadShown[d]]
  BY DEF HeadShown
<1> QED
  BY <1>2, <1>3, <1>4 DEF Reader!Closing

LEMMA DeleteRowSeen ==
  ASSUME IInv, LiveInv, NEW r \in Requests, DeleteRow(r)
  PROVE  ShelfMoves /\ LiveInv'
<1>1. PICK f \in Files : f = req[r].file
  BY DEF DeleteRow, IInv, RequestInv, RequestOK, OnFile
<1>2. row' = Removed({f}) /\ document' = Unpinned({f})
  BY <1>1 DEF DeleteRow
<1>3. \A d \in Documents :
        /\ document'[d].live = document[d].live
        /\ document'[d].head = IF document[d].head \in {f} THEN None ELSE document[d].head
  BY <1>2 DEF Unpinned, IInv, TypeOK, DocumentType
<1>4. LiveInv'
  <2>1. \A g \in Files : row'[g] = IF g = f THEN Gone ELSE row[g]
    BY <1>2 DEF Removed
  <2> QED
    BY <1>3, <2>1, Kinds DEF LiveInv, Exists, Active, IInv, RowInv, RowOK
<1>5. LiveShown' = LiveShown
  BY <1>3 DEF LiveShown
<1>6. Reader!Close(f)
  BY <1>2, <1>3, <1>5, RemovalCloses DEF Reader!Close
<1> QED
  BY <1>4, <1>6 DEF ShelfMoves, Reader!Next

LEMMA DropSeen ==
  ASSUME IInv, LiveInv, NEW r \in Requests, DeleteCommit(r)
  PROVE  ShelfMoves /\ LiveInv'
<1>1. PICK d \in Documents : d = req[r].doc
  BY DEF DeleteCommit, IInv, RequestInv, RequestOK
<1> DEFINE S == Versions(d)
           e == [document[d] EXCEPT !.live = FALSE, !.head = None]
<1>2. row' = Removed(S) /\ S \in SUBSET Files
  BY <1>1 DEF DeleteCommit, Versions
<1>3. e.live = FALSE /\ e.head = None
  BY DEF IInv, TypeOK, DocumentType
<1>4. document' = [document EXCEPT ![d] = e]
  BY <1>1 DEF DeleteCommit
<1> HIDE DEF e
<1>5. \A c \in Documents : document'[c] = IF c = d THEN e ELSE document[c]
  BY <1>4 DEF IInv, TypeOK
<1>6. \A f \in Files : (f \in S <=> Exists(f) /\ row[f].doc = d)
                       /\ row'[f] = IF f \in S THEN Gone ELSE row[f]
  BY <1>2 DEF Versions, Removed
<1>7. \A c \in Documents :
        document'[c].head = IF document[c].head \in S THEN None ELSE document[c].head
  <2> SUFFICES ASSUME NEW c \in Documents
               PROVE  document'[c].head = IF document[c].head \in S THEN None
                                          ELSE document[c].head
    OBVIOUS
  <2>1. document[c].head = None \/ (document[c].head \in S <=> c = d)
    BY DEF IInv, PinnedHeadIsReady, Ready, Versions
  <2> QED
    BY <1>3, <1>5, <2>1
<1> HIDE DEF S
<1>8. LiveInv'
  BY <1>5, <1>6, Kinds DEF LiveInv, Exists, Active, IInv, RowInv, RowOK
<1>9. Reader!Drop(d, S)
  <2>1. \A f \in Files : StateShown[f] \in {"open", "hidden"} => (f \in S <=> DocShown[f] = d)
    BY <1>6 DEF StateShown, DocShown, Shown, Exists, Active
  <2>2. LiveShown' = LiveShown \ {d}
    BY <1>3, <1>5 DEF LiveShown
  <2>3. Reader!Closing(S)
    BY <1>2, <1>7, RemovalCloses
  <2> QED
    BY <2>1, <2>2, <2>3 DEF Reader!Drop, Reader!Readable
<1> QED
  BY <1>2, <1>8, <1>9 DEF ShelfMoves, Reader!Next

LEMMA SweepSeen ==
  ASSUME IInv, LiveInv, SweepCommit
  PROVE  ShelfMoves /\ LiveInv'
<1> DEFINE S == {f \in Files : StateShown[f] = "open" /\ f \in sweep.rows}
<1>1. row' = Swept /\ document' = document
  BY DEF SweepCommit
<1>2. \A f \in Files :
        /\ row'[f].status = row[f].status /\ row'[f].doc = row[f].doc
        /\ row'[f].swept = (row[f].swept \/ (f \in sweep.rows /\ Exists(f)))
  <2> SUFFICES ASSUME NEW f \in Files
               PROVE  /\ row'[f].status = row[f].status /\ row'[f].doc = row[f].doc
                      /\ row'[f].swept = (row[f].swept \/ (f \in sweep.rows /\ Exists(f)))
    OBVIOUS
  <2> DEFINE e == [row[f] EXCEPT !.swept = TRUE]
  <2>1. /\ row[f].swept \in BOOLEAN
        /\ e.status = row[f].status /\ e.doc = row[f].doc /\ e.swept = TRUE
    BY RowFields DEF IInv, RowType
  <2>2. row'[f] = IF f \in sweep.rows /\ Exists(f) THEN e ELSE row[f]
    BY <1>1 DEF Swept
  <2> HIDE DEF e
  <2> QED
    BY <2>1, <2>2
<1>3. LiveInv'
  BY <1>1, <1>2 DEF LiveInv, Exists, Active
<1>4. Reader!Hide(S)
  <2>1. \A f \in S : StateShown[f] = "open"
    OBVIOUS
  <2>2. \A f \in Files : Shown(f)' = IF f \in S THEN "hidden" ELSE Shown(f)
    BY <1>2, RowFields DEF IInv, StateShown, Shown, Exists, Active
  <2>3. StateShown' = [f \in Files |-> IF f \in S THEN "hidden" ELSE StateShown[f]]
    BY <2>2 DEF StateShown
  <2>4. DocShown' = DocShown /\ LiveShown' = LiveShown /\ HeadShown' = HeadShown
    BY <1>1, <1>2 DEF DocShown, LiveShown, HeadShown
  <2> QED
    BY <2>1, <2>3, <2>4 DEF Reader!Hide
<1>5. S \in SUBSET Files
  OBVIOUS
<1> QED
  BY <1>3, <1>4, <1>5 DEF ShelfMoves, Reader!Next

LEMMA ShelfStep ==
  ASSUME IInv, LiveInv, [Next]_vars
  PROVE  ShelfMoves /\ LiveInv'
<1>1. ASSUME NEW r \in Requests, Proceed(r) PROVE ShelfMoves /\ LiveInv'
  <2>1. CASE CompleteDiscard(r) \/ CompleteRead(r) \/ Abort(r)
    BY <2>1, Unseen DEF CompleteDiscard, CompleteRead, Abort
  <2> QED
    BY <1>1, <2>1, InsertSeen, RejectSeen, AcceptSeen, RestoreSeen, DeleteRowSeen, DropSeen
    DEF Proceed
<1>2. ASSUME NEW r \in Requests, NEW d \in Documents,
             DeleteDocument(r, d) \/ \E c \in Contents : InitiateRead(r, d, c)
      PROVE  ShelfMoves /\ LiveInv'
  BY <1>2, Unseen DEF InitiateRead, DeleteDocument
<1>3. ASSUME NEW r \in Requests, NEW f \in Files,
             CompleteCheck(r, f) \/ RestoreRead(r, f) \/ DeleteObject(r, f)
      PROVE  ShelfMoves /\ LiveInv'
  BY <1>3, Unseen DEF CompleteCheck, RestoreRead, DeleteObject
<1>4. ASSUME NEW f \in Files, Put(f) \/ Age(f) \/ SweepObject(f)
      PROVE  ShelfMoves /\ LiveInv'
  BY <1>4, Unseen DEF Put, Age, SweepObject
<1>5. CASE SweepRead \/ SweepFail \/ UNCHANGED vars
  BY <1>5, Unseen DEF SweepRead, SweepFail, vars
<1> QED
  BY <1>1, <1>2, <1>3, <1>4, <1>5, SweepSeen DEF Next

(* What readers find is the shelf of the abstract specification: versions   *)
(* open once, in a document that is there, close for good, and none that    *)
(* is closed is pinned.                                                     *)
THEOREM Refinement == Spec => ImplementsShelf
<1>1. Init => Reader!Init /\ IInv /\ LiveInv
  BY Initially, ShelfStarts
<1>2. IInv /\ LiveInv /\ [Next]_vars => IInv' /\ LiveInv'
  BY Stepwise, ShelfStep
<1>3. IInv /\ LiveInv /\ [Next]_vars
        => [Reader!Next]_<<StateShown, DocShown, LiveShown, HeadShown>>
  BY ShelfStep DEF ShelfMoves
<1> QED
  BY <1>1, <1>2, <1>3, PTL DEF Spec, ImplementsShelf, Reader!Spec
=============================================================================

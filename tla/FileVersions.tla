---------------------------- MODULE FileVersions ----------------------------
(***************************************************************************)
(* The versions of the documents of one project: initiating and completing *)
(* an upload, restoring and deleting a version, deleting a document, and   *)
(* the sweep of abandoned uploads.  Rows live in Postgres (READ COMMITTED, *)
(* no row is read FOR UPDATE), bytes in an object store that knows nothing *)
(* of transactions.  So every handler is split where another one can see   *)
(* what it has done or undo what it has read; a request carries in `req`   *)
(* what it read.                                                           *)
(***************************************************************************)
EXTENDS Naturals

CONSTANTS Files,        \* ids of file rows, each used once
          Documents,    \* the documents of the project
          Contents,     \* SHA-256 values of uploaded files
          TypeOf,       \* the file type a content is uploaded as
          Invalid,      \* the contents whose bytes are not of that type
          Requests,     \* requests under way at one time
          MaxVersion,   \* bound on version numbers
          None

FileTypes == {"ifc", "pdf", "dxf", "dwg"}
ClearsHead == {"ifc", "pdf"}

ASSUME TypesAssumption == TypeOf \in [Contents -> FileTypes] /\ Invalid \subseteq Contents
ASSUME BoundsAssumption == MaxVersion \in Nat
ASSUME NoneAssumption == None \notin Files \cup Documents \cup Contents \cup FileTypes

VARIABLES row,        \* the project_files rows
          old,        \* rows created before the cutoff of the sweep
          stored,     \* the files whose object is in the store
          document,   \* the documents rows
          req,        \* the requests under way
          sweep,      \* the sweep of pending uploads
          abandoned   \* history: files whose object was deleted by a request
                      \* that ended before it changed the row

vars == <<row, old, stored, document, req, sweep, abandoned>>

-----------------------------------------------------------------------------
(* "absent" is an id that was not handed out, "deleted" one whose row is    *)
(* gone.                                                                    *)
RowType ==
  [status : {"absent", "pending", "ready", "rejected", "deleted"},
   doc : Documents \cup {None}, version : 0 .. MaxVersion,
   content : Contents \cup {None}, swept : BOOLEAN]
Absent == [status |-> "absent", doc |-> None, version |-> 0,
           content |-> None, swept |-> FALSE]

DocumentType == [live : BOOLEAN, type : FileTypes \cup {None}, head : Files \cup {None}]

(* What a request does next, for which document, file and content; the     *)
(* version number it read and the rows there were; whether it found the    *)
(* document without a type and with a pinned head.                         *)
RequestType ==
  [pc : {"idle", "inserting", "accepting", "discarding", "rejecting", "accepted",
         "rejected", "restoring", "deleting", "dropping"},
   doc : Documents \cup {None}, file : Files \cup {None}, content : Contents \cup {None},
   version : 0 .. MaxVersion, seen : SUBSET Files, setType : BOOLEAN, clearHead : BOOLEAN]
Idle == [pc |-> "idle", doc |-> None, file |-> None, content |-> None,
         version |-> 0, seen |-> {}, setType |-> FALSE, clearHead |-> FALSE]

TypeOK ==
  /\ row \in [Files -> RowType]
  /\ old \subseteq Files
  /\ stored \subseteq Files
  /\ document \in [Documents -> DocumentType]
  /\ req \in [Requests -> RequestType]
  /\ sweep \in [pc : {"idle", "reaping"}, rows : SUBSET Files, todo : SUBSET Files]
  /\ abandoned \subseteq Files

Init ==
  /\ row = [f \in Files |-> Absent]
  /\ old = {}
  /\ stored = {}
  /\ document = [d \in Documents |-> [live |-> TRUE, type |-> None, head |-> None]]
  /\ req = [r \in Requests |-> Idle]
  /\ sweep = [pc |-> "idle", rows |-> {}, todo |-> {}]
  /\ abandoned = {}

-----------------------------------------------------------------------------
Active(f) == row[f].status \in {"pending", "ready"}
Exists(f) == Active(f) \/ row[f].status = "rejected"
Versions(d) == {f \in Files : Exists(f) /\ row[f].doc = d}
Ready(d) == {f \in Versions(d) : row[f].status = "ready"}

(* resolve_head_file_id over the ready versions: the pinned one, else the   *)
(* newest.  Swept rows are not left out.                                    *)
IsHead(f, d) ==
  /\ f \in Ready(d)
  /\ document[d].head \in Ready(d) => document[d].head = f
  /\ document[d].head \notin Ready(d) =>
       \A g \in Ready(d) : row[g].version <= row[f].version

(* coalesce(max(version_number), 0): rejected and swept rows count.         *)
IsMaxVersion(d, v) ==
  /\ \A f \in Versions(d) : row[f].version <= v
  /\ v = 0 \/ \E f \in Versions(d) : row[f].version = v

(* Mutant: the pre-check leaves swept rows out, like the index.             *)
DuplicateLive(c) == \E f \in Files : Active(f) /\ ~row[f].swept /\ row[f].content = c
(* The pre-check of initiate_upload: it does not look at deleted_at.        *)
Duplicate(c) == \E f \in Files : Active(f) /\ row[f].content = c

(* The two unique indexes: swept rows are not in the one on the content     *)
(* and are in the one on the version number.                                *)
ContentTaken(f, c) ==
  \E g \in Files \ {f} : Active(g) /\ ~row[g].swept /\ row[g].content = c
VersionTaken(d, v) == \E f \in Versions(d) : row[f].version = v

(* The row of a document that is being deleted is locked until that         *)
(* transaction ends, and so are its versions.                               *)
Locked(d) == \E r \in Requests : req[r].pc = "dropping" /\ req[r].doc = d

Start(r, x) == req[r] = Idle /\ req' = [req EXCEPT ![r] = x]
Continue(r, pc) == req' = [req EXCEPT ![r].pc = pc]
End(r) == req' = [req EXCEPT ![r] = Idle]

-----------------------------------------------------------------------------
(* initiate_upload: the reads, then the insert, which the indexes and the  *)
(* foreign key to the document may refuse.                                 *)
InitiateRead(r, d, c) ==
  /\ document[d].live
  /\ document[d].type \in {None, TypeOf[c]}
  /\ ~Duplicate(c)
  /\ \E v \in 0 .. MaxVersion - 1 :
       /\ IsMaxVersion(d, v)
       /\ Start(r, [Idle EXCEPT !.pc = "inserting", !.doc = d, !.content = c,
                                !.version = v + 1,
                                !.seen = {f \in Files : row[f] # Absent}])
  /\ UNCHANGED <<row, old, stored, document, sweep, abandoned>>

(* Mutant: without the foreign key to the document.                         *)
InsertOrphan(r, f) ==
  LET x == req[r] IN
  /\ row[f] = Absent
  /\ ~ContentTaken(f, x.content)
  /\ ~VersionTaken(x.doc, x.version)
  /\ row' = [row EXCEPT ![f] = [Absent EXCEPT !.status = "pending", !.doc = x.doc,
                                  !.version = x.version, !.content = x.content]]
Insert(r, f) ==
  LET x == req[r] IN
  /\ row[f] = Absent
  /\ document[x.doc].live
  /\ ~ContentTaken(f, x.content)
  /\ ~VersionTaken(x.doc, x.version)
  /\ row' = [row EXCEPT ![f] = [Absent EXCEPT !.status = "pending", !.doc = x.doc,
                                  !.version = x.version, !.content = x.content]]

InitiateInsert(r) ==
  /\ req[r].pc = "inserting"
  /\ ~Locked(req[r].doc)
  /\ \E f \in Files : Insert(r, f)
  /\ End(r)
  /\ UNCHANGED <<old, stored, document, sweep, abandoned>>

(* The client uploads the bytes it announced with the URL it was given.     *)
Put(f) ==
  /\ row[f].status = "pending"
  /\ f \notin stored
  /\ stored' = stored \cup {f}
  /\ UNCHANGED <<row, old, document, req, sweep, abandoned>>

(* complete_upload, phases 1 and 2: the row is pending, the object is there *)
(* and its head is read.  A rejected object is deleted (best effort).       *)
CompleteCheck(r, f) ==
  /\ row[f].status = "pending"
  /\ f \in stored
  /\ Start(r, [Idle EXCEPT !.pc = IF row[f].content \in Invalid THEN "discarding"
                                  ELSE "accepting",
                           !.file = f, !.doc = row[f].doc])
  /\ UNCHANGED <<row, old, stored, document, sweep, abandoned>>

RemoveObject(f) == stored' \in {stored, stored \ {f}}

CompleteDiscard(r) ==
  /\ req[r].pc = "discarding"
  /\ RemoveObject(req[r].file)
  /\ Continue(r, "rejecting")
  /\ UNCHANGED <<row, old, document, sweep, abandoned>>

(* Phase 3: the row is read again, then written.  The ORM writes only what  *)
(* differs from what was read of the document.                              *)
CompleteRead(r) ==
  LET x == req[r] IN
  /\ x.pc \in {"accepting", "rejecting"}
  /\ row[x.file].status = "pending"
  /\ req' = [req EXCEPT ![r].pc = IF @ = "accepting" THEN "accepted" ELSE "rejected",
                        ![r].setType = document[x.doc].type = None,
                        ![r].clearHead = document[x.doc].head # None]
  /\ UNCHANGED <<row, old, stored, document, sweep, abandoned>>

CompleteReject(r) ==
  LET x == req[r] IN
  /\ x.pc = "rejected"
  /\ Exists(x.file)
  /\ ~Locked(x.doc)
  /\ row' = [row EXCEPT ![x.file].status = "rejected"]
  /\ End(r)
  /\ UNCHANGED <<old, stored, document, sweep, abandoned>>

CompleteAccept(r) ==
  LET x == req[r]
      type == TypeOf[row[x.file].content]
      d == document[x.doc] IN
  /\ x.pc = "accepted"
  /\ Exists(x.file)
  /\ ~Locked(x.doc)
  /\ ~row[x.file].swept => ~ContentTaken(x.file, row[x.file].content)
  /\ row' = [row EXCEPT ![x.file].status = "ready"]
  /\ document' = [document EXCEPT
       ![x.doc].type = IF x.setType THEN type ELSE d.type,
       ![x.doc].head = IF x.clearHead /\ type \in ClearsHead THEN None ELSE d.head]
  /\ End(r)
  /\ UNCHANGED <<old, stored, sweep, abandoned>>

-----------------------------------------------------------------------------
(* restore_version pins a version that is ready and can be viewed (the      *)
(* extraction of a ready version may or may not have succeeded); the        *)
(* foreign key refuses one that is gone by then.                            *)
RestoreRead(r, f) ==
  /\ row[f].status = "ready"
  /\ ~IsHead(f, row[f].doc)
  /\ Start(r, [Idle EXCEPT !.pc = "restoring", !.file = f, !.doc = row[f].doc])
  /\ UNCHANGED <<row, old, stored, document, sweep, abandoned>>

(* Mutant: the id of the document is written where that of the file belongs. *)
RestoreWriteSwapped(r) ==
  LET x == req[r] IN
  /\ x.pc = "restoring"
  /\ Exists(x.file)
  /\ ~Locked(x.doc)
  /\ document' = [document EXCEPT ![x.doc].head = x.doc]
  /\ End(r)
  /\ UNCHANGED <<row, old, stored, sweep, abandoned>>
RestoreWrite(r) ==
  LET x == req[r] IN
  /\ x.pc = "restoring"
  /\ Exists(x.file)
  /\ ~Locked(x.doc)
  /\ document' = [document EXCEPT ![x.doc].head = x.file]
  /\ End(r)
  /\ UNCHANGED <<row, old, stored, sweep, abandoned>>

(* delete_file: phase 1 finds the row, phase 2 deletes the object (best     *)
(* effort), phase 3 the row.  ON DELETE SET NULL unpins it.                 *)
DeleteObject(r, f) ==
  /\ Exists(f)
  /\ RemoveObject(f)
  /\ Start(r, [Idle EXCEPT !.pc = "deleting", !.file = f, !.doc = row[f].doc])
  /\ UNCHANGED <<row, old, document, sweep, abandoned>>

(* Mutant: without the foreign key's ON DELETE SET NULL.                    *)
UnpinnedKept(S) == document
Unpinned(S) ==
  [d \in Documents |->
     [document[d] EXCEPT !.head = IF @ \in S THEN None ELSE @]]

Gone == [Absent EXCEPT !.status = "deleted"]
Removed(S) == [f \in Files |-> IF f \in S THEN Gone ELSE row[f]]

DeleteRow(r) ==
  LET x == req[r] IN
  /\ x.pc = "deleting"
  /\ Exists(x.file)
  /\ ~Locked(x.doc)
  /\ row' = Removed({x.file})
  /\ document' = Unpinned({x.file})
  /\ End(r)
  /\ UNCHANGED <<old, stored, sweep, abandoned>>

(* delete_document deletes the rows, then the objects of the versions it    *)
(* read (best effort), and commits last.                                    *)
DeleteDocument(r, d) ==
  /\ document[d].live
  /\ ~Locked(d)
  /\ stored' \in {stored \ S : S \in SUBSET Versions(d)}
  /\ Start(r, [Idle EXCEPT !.pc = "dropping", !.doc = d])
  /\ UNCHANGED <<row, old, document, sweep, abandoned>>

DeleteCommit(r) ==
  LET d == req[r].doc IN
  /\ req[r].pc = "dropping"
  /\ row' = Removed(Versions(d))
  /\ document' = [document EXCEPT ![d].live = FALSE, ![d].head = None]
  /\ End(r)
  /\ UNCHANGED <<old, stored, sweep, abandoned>>

(* A request ends before its last write: it is refused, an index or a       *)
(* foreign key stops it, its row is gone, the limit on jobs is reached, or  *)
(* the process dies.  The objects it deleted stay deleted.                  *)
Left(r) == {f \in Files : \/ req[r].pc = "deleting" /\ f = req[r].file
                          \/ req[r].pc = "dropping" /\ f \in Versions(req[r].doc)}

Abort(r) ==
  /\ req[r] # Idle
  /\ abandoned' = abandoned \cup Left(r)
  /\ End(r)
  /\ UNCHANGED <<row, old, stored, document, sweep>>

-----------------------------------------------------------------------------
(* The sweep of one schema.  A row is old after a day, when the initiates   *)
(* that began before it are over.                                           *)
Age(f) ==
  /\ row[f].status = "pending"
  /\ f \notin old
  /\ \A r \in Requests : req[r].pc = "inserting" => f \in req[r].seen
  /\ old' = old \cup {f}
  /\ UNCHANGED <<row, stored, document, req, sweep, abandoned>>

Stale == {f \in old : row[f].status = "pending" /\ ~row[f].swept}

SweepRead ==
  /\ sweep.pc = "idle"
  /\ Stale # {}
  /\ sweep' = [pc |-> "reaping", rows |-> Stale, todo |-> Stale]
  /\ UNCHANGED <<row, old, stored, document, req, abandoned>>

SweepObject(f) ==
  /\ f \in sweep.todo
  /\ RemoveObject(f)
  /\ sweep' = [sweep EXCEPT !.todo = @ \ {f}]
  /\ UNCHANGED <<row, old, document, req, abandoned>>

(* Mutant: the sweep stamps only the rows that are still pending.           *)
SweptPending == [f \in Files |-> IF f \in sweep.rows /\ row[f].status = "pending"
                                  THEN [row[f] EXCEPT !.swept = TRUE] ELSE row[f]]
(* soft_delete stamps deleted_at, whatever became of the row since; a row   *)
(* that is gone is not there to be stamped.                                 *)
Swept == [f \in Files |-> IF f \in sweep.rows /\ Exists(f)
                           THEN [row[f] EXCEPT !.swept = TRUE] ELSE row[f]]
NotSweeping == [pc |-> "idle", rows |-> {}, todo |-> {}]

SweepCommit ==
  /\ sweep.pc = "reaping" /\ sweep.todo = {}
  /\ \A f \in sweep.rows : ~Locked(row[f].doc)
  /\ row' = Swept
  /\ sweep' = NotSweeping
  /\ UNCHANGED <<old, stored, document, req, abandoned>>

(* The process dies, or the transaction fails on a row that is gone.        *)
SweepFail ==
  /\ sweep.pc = "reaping"
  /\ abandoned' = abandoned \cup (sweep.rows \ sweep.todo)
  /\ sweep' = NotSweeping
  /\ UNCHANGED <<row, old, stored, document, req>>

-----------------------------------------------------------------------------
Proceed(r) ==
  \/ InitiateInsert(r) \/ CompleteDiscard(r) \/ CompleteRead(r)
  \/ CompleteReject(r) \/ CompleteAccept(r) \/ RestoreWrite(r)
  \/ DeleteRow(r) \/ DeleteCommit(r)
  \/ Abort(r)

Next ==
  \/ \E r \in Requests :
       \/ Proceed(r)
       \/ \E d \in Documents, c \in Contents : InitiateRead(r, d, c)
       \/ \E f \in Files : CompleteCheck(r, f) \/ RestoreRead(r, f) \/ DeleteObject(r, f)
       \/ \E d \in Documents : DeleteDocument(r, d)
  \/ \E f \in Files : Put(f) \/ Age(f) \/ SweepObject(f)
  \/ SweepRead \/ SweepCommit \/ SweepFail

Spec == Init /\ [][Next]_vars

-----------------------------------------------------------------------------
(* A version that users see (ready and not swept) has its bytes, unless     *)
(* delete_file, delete_document or the sweep is removing it at this moment *)
(* or was stopped half way: all of them delete the object before the row,  *)
(* and the upload may be completed in between.                             *)
Removing(f) ==
  \/ f \in sweep.rows \ sweep.todo
  \/ \E r \in Requests :
       \/ req[r].pc = "deleting" /\ req[r].file = f
       \/ req[r].pc = "dropping" /\ req[r].doc = row[f].doc

NoDanglingVersion ==
  \A f \in Files : row[f].status = "ready" /\ ~row[f].swept /\ f \notin stored
                     => f \in abandoned \/ Removing(f)

(* The pinned head of a document is a ready version of it: restore_version *)
(* reads the version before it writes the pointer, and the version may be  *)
(* deleted, with its row or its document, in between.                      *)
PinnedHeadIsReady ==
  \A d \in Documents : document[d].head # None => document[d].head \in Ready(d)

(* No row is inserted for a content that another pending or ready row of   *)
(* the project has, be it swept or not: initiate_upload decides on a read  *)
(* that is out of date when it inserts, and the index alone does not see   *)
(* the swept uploads, which a late completion still makes ready.           *)
UploadsNotDoubled ==
  [][\A f, g \in Files :
       row[f] = Absent /\ row'[f] # Absent /\ Active(g)
         => row[g].content # row'[f].content]_vars

(* What the readers of a document see is the shelf of Shelf: a version     *)
(* opens in a document that is there and stays with it, what was deleted   *)
(* or rejected never opens, a document takes all of its versions along,    *)
(* and no completion, deletion or sweep leaves a pin on what is closed.    *)
Shown(f) ==
  CASE row[f].status \in {"absent", "pending"} -> "coming"
    [] row[f].status = "ready" -> IF row[f].swept THEN "hidden" ELSE "open"
    [] OTHER -> "closed"

StateShown == [f \in Files |-> Shown(f)]
DocShown == [f \in Files |-> IF row[f].status = "ready" THEN row[f].doc ELSE None]
LiveShown == {d \in Documents : document[d].live}
HeadShown == [d \in Documents |-> document[d].head]

Reader == INSTANCE Shelf WITH
  state <- StateShown, doc <- DocShown,
  live <- LiveShown, head <- HeadShown

ImplementsShelf == Reader!Spec
=============================================================================

--------------------------- MODULE UploadSession ---------------------------
(***************************************************************************)
(* One upload session (UploadsService) and the files its parts are stored  *)
(* in (StorageService, LocalDiskStorageDriver): preparation, storing or    *)
(* registering a part, and finalization, which binds the stored files to a *)
(* new source item.                                                        *)
(*                                                                         *)
(* A request that the client has given up, or that a retry has replaced,   *)
(* still runs to its end on the server: requests overlap freely.  Database *)
(* and disk are written in separate steps.  Checksums, metadata and the    *)
(* creation of the item's packages decide nothing here and are left out.   *)
(***************************************************************************)
EXTENDS Naturals, Sequences, FiniteSetsExt

CONSTANTS
  Part,       \* part numbers
  File,       \* storage keys; each write takes a new one (randomUUID)
  Req,        \* concurrent requests for the session
  NoFile,
  NoPart,
  MaxSize,    \* largest part (STORAGE_UPLOAD_PART_MAX_BYTES)
  Quota,      \* the uploader's storage quota
  MaxItems    \* finalizations are begun only below this many (bound)

ASSUME UploadAssumption ==
  /\ IsFiniteSet(Part)   \* 32-bit integers
  /\ NoFile \notin File
  /\ NoPart \notin Part
  /\ MaxSize \in Nat \ {0}
  /\ Quota \in Nat
  /\ MaxItems \in Nat

VARIABLES
  session,   \* the UploadSession row
  overdue,   \* expiresAt has passed
  part,      \* UploadPart rows by part number
  disk,      \* size of the object stored under a key, 0 when there is none
  used,      \* keys that have been given out
  items,     \* storageBindings of the source items made of this session
  req,       \* requests: where each stands and what it carries
  seen       \* history: the irregularities so far

vars == <<session, overdue, part, disk, used, items, req, seen>>

-----------------------------------------------------------------------------
Phases == {"UPLOADING", "COMPLETED", "EXPIRED"}

\* "none" until the row exists.  kind: SELF_SPACE_TEXT, or a kind with parts.
SessionRow == [phase : Phases \cup {"none"}, kind : {"text", "files"}]

PartRow == [file : File \cup {NoFile}, size : 0..MaxSize]

NoRow == [file |-> NoFile, size |-> 0]

\* A storageBinding names the file of each part; NoFile where there is no part.
Binding == [Part -> File \cup {NoFile}]

NoBinding == [p \in Part |-> NoFile]

(***************************************************************************)
(* Where a request stands:                                                 *)
(*   storing      the session was found open, the body is being written    *)
(*   stored       the file is complete, the previous part is read next     *)
(*   measuring    the quota is read next                                   *)
(*   refused      over quota, the file is removed next                     *)
(*   upserting    the row is written next                                  *)
(*   cleaning     the replaced file is removed next                        *)
(*   registering  the object and the quota are looked at next              *)
(*   entering     the row of a registered part is written next             *)
(*   closing      the phase is written next                                *)
(*   finalizing   the session was found open, the parts are read next      *)
(*   binding      the parts are read, the transaction commits next         *)
(***************************************************************************)
Places ==
  {"idle", "storing", "stored", "measuring", "refused", "upserting",
   "cleaning", "registering", "entering", "closing", "finalizing", "binding"}

OnPart == Places \ {"idle", "finalizing", "binding"}

\* old: the replaced file, as it was read before the quota.
Request ==
  {q \in [at : Places, part : Part \cup {NoPart}, file : File \cup {NoFile},
           size : 0..MaxSize, old : File \cup {NoFile}, binding : Binding] :
     q.at \in OnPart => q.part \in Part}

Idle ==
  [at |-> "idle", part |-> NoPart, file |-> NoFile, size |-> 0, old |-> NoFile,
   binding |-> NoBinding]

(***************************************************************************)
(* What a promise may have to exclude:                                     *)
(*   overlap      a request began while another one was under way          *)
(*   registered   a part was registered, which the web client never does   *)
(*   lost         a request stopped half way                               *)
(***************************************************************************)
Irregularity == {"overlap", "registered", "lost"}

TypeOK ==
  /\ session \in SessionRow
  /\ overdue \in BOOLEAN
  /\ part \in [Part -> PartRow]
  /\ disk \in [File -> 0..MaxSize]
  /\ used \subseteq File
  /\ items \in Seq(Binding)
  /\ req \in [Req -> Request]
  /\ seen \subseteq Irregularity

Init ==
  /\ session = [phase |-> "none", kind |-> "files"]
  /\ overdue = FALSE
  /\ part = [p \in Part |-> NoRow]
  /\ disk = [f \in File |-> 0]
  /\ used = {}
  /\ items = << >>
  /\ req = [r \in Req |-> Idle]
  /\ seen = {}

Advance(r, to) == req' = [req EXCEPT ![r].at = to]

Rest(r) == req' = [req EXCEPT ![r] = Idle]

Resting == \A r \in Req : req[r].at = "idle"

See(what) == seen' = seen \cup what \cup (IF Resting THEN {} ELSE {"overlap"})

-----------------------------------------------------------------------------
(* prepareUpload, requireOwnedActiveUploadSession *)

Prepare(kind) ==
  /\ session.phase = "none"
  /\ session' = [phase |-> "UPLOADING", kind |-> kind]
  /\ UNCHANGED <<overdue, part, disk, used, items, req, seen>>

Deadline ==
  /\ session.phase # "none"
  /\ overdue' = TRUE
  /\ UNCHANGED <<session, part, disk, used, items, req, seen>>

\* A request that meets an overdue session marks it, whatever its phase.
ExpireMark ==
  /\ overdue
  /\ session.phase # "EXPIRED"
  /\ session' = [session EXCEPT !.phase = "EXPIRED"]
  /\ UNCHANGED <<overdue, part, disk, used, items, req, seen>>

\* Mutant: a completed session is not refused.
SessionNotOverdue == session.phase # "none" /\ ~overdue

\* Mutant: the deadline is forgotten.
SessionNotCompleted == session.phase \notin {"none", "COMPLETED"}

SessionOpen == session.phase \notin {"none", "COMPLETED"} /\ ~overdue

-----------------------------------------------------------------------------
(* requireStorageQuotaForPart *)

Usage == MapThenSumSet(LAMBDA p : part[p].size, Part)

\* Mutant: what is used so far fits, so one more part is let in.
FitsWithout(p, size) == Usage <= Quota

\* Its reads are taken at one instant.
Fits(p, size) == (Usage - part[p].size) + size <= Quota

-----------------------------------------------------------------------------
(* storeUploadPartBody *)

StoreCheck(r, p) ==
  /\ req[r].at = "idle"
  /\ SessionOpen
  /\ session.kind = "files"
  /\ req' = [req EXCEPT ![r] = [Idle EXCEPT !.at = "storing", !.part = p]]
  /\ See({})
  /\ UNCHANGED <<session, overdue, part, disk, used, items>>

\* Mutant: a key names the part alone.
AnyKey == File

FreshKey == File \ used

StoreWrite(r, f, size) ==
  /\ req[r].at = "storing"
  /\ f \in FreshKey
  /\ disk' = [disk EXCEPT ![f] = size]
  /\ used' = used \cup {f}
  /\ req' = [req EXCEPT ![r] =
       [@ EXCEPT !.at = "stored", !.file = f, !.size = size]]
  /\ UNCHANGED <<session, overdue, part, items, seen>>

\* An empty or too large body, or a dropped connection: the file is removed.
StoreAbort(r) ==
  /\ req[r].at = "storing"
  /\ Rest(r)
  /\ UNCHANGED <<session, overdue, part, disk, used, items, seen>>

StoreLook(r) ==
  /\ req[r].at = "stored"
  /\ req' = [req EXCEPT ![r] =
       [@ EXCEPT !.at = "measuring", !.old = part[req[r].part].file]]
  /\ UNCHANGED <<session, overdue, part, disk, used, items, seen>>

StoreMeasure(r) ==
  /\ req[r].at = "measuring"
  /\ Advance(r, IF Fits(req[r].part, req[r].size) THEN "upserting" ELSE "refused")
  /\ UNCHANGED <<session, overdue, part, disk, used, items, seen>>

StoreRefuse(r) ==
  /\ req[r].at = "refused"
  /\ disk' = [disk EXCEPT ![req[r].file] = 0]
  /\ Rest(r)
  /\ UNCHANGED <<session, overdue, part, used, items, seen>>

StoreUpsert(r) ==
  /\ req[r].at = "upserting"
  /\ part' = [part EXCEPT ![req[r].part] =
                [file |-> req[r].file, size |-> req[r].size]]
  /\ Advance(r, "cleaning")
  /\ UNCHANGED <<session, overdue, disk, used, items, seen>>

Replaced(r) == {req[r].old} \ {NoFile, req[r].file}

StoreCleanup(r) ==
  /\ req[r].at = "cleaning"
  /\ disk' = [f \in File |-> IF f \in Replaced(r) THEN 0 ELSE disk[f]]
  /\ Advance(r, "closing")
  /\ UNCHANGED <<session, overdue, part, used, items, seen>>

\* The phase is written whatever it has become.
Close(r) ==
  /\ req[r].at = "closing"
  /\ session' = [session EXCEPT !.phase = "UPLOADING"]
  /\ Rest(r)
  /\ UNCHANGED <<overdue, part, disk, used, items, seen>>

-----------------------------------------------------------------------------
(* registerUploadPart: the client names a key under the session's prefix *)

RegisterCheck(r, p, f, size) ==
  /\ req[r].at = "idle"
  /\ SessionOpen
  /\ session.kind = "files"
  /\ req' = [req EXCEPT ![r] =
       [Idle EXCEPT !.at = "registering", !.part = p, !.file = f, !.size = size]]
  /\ See({"registered"})
  /\ UNCHANGED <<session, overdue, part, disk, used, items>>

\* requireExistingObject; an object that is there is not empty.
ObjectExists(f, size) == disk[f] = size

RegisterAdmit(r) ==
  /\ req[r].at = "registering"
  /\ IF ObjectExists(req[r].file, req[r].size) /\ Fits(req[r].part, req[r].size)
     THEN Advance(r, "entering")
     ELSE Rest(r)
  /\ UNCHANGED <<session, overdue, part, disk, used, items, seen>>

RegisterUpsert(r) ==
  /\ req[r].at = "entering"
  /\ part' = [part EXCEPT ![req[r].part] =
                [file |-> req[r].file, size |-> req[r].size]]
  /\ Advance(r, "closing")
  /\ UNCHANGED <<session, overdue, disk, used, items, seen>>

-----------------------------------------------------------------------------
(* finalizeUpload *)

FinalizeCheck(r) ==
  /\ req[r].at = "idle"
  /\ SessionOpen
  /\ Len(items) < MaxItems
  /\ Advance(r, "finalizing")
  /\ See({})
  /\ UNCHANGED <<session, overdue, part, disk, used, items>>

\* Mutant: the binding holds the rows.
PartRows == part

PartKeys == [p \in Part |-> part[p].file]

\* The parts are counted before the transaction and read in it; rows are never
\* deleted, so the later read decides.
FinalizeRead(r) ==
  /\ req[r].at = "finalizing"
  /\ IF session.kind = "text" \/ \E p \in Part : part[p].file # NoFile
     THEN req' = [req EXCEPT ![r] =
            [@ EXCEPT !.at = "binding", !.binding = PartKeys]]
     ELSE Rest(r)
  /\ UNCHANGED <<session, overdue, part, disk, used, items, seen>>

FinalizeCommit(r) ==
  /\ req[r].at = "binding"
  /\ items' = Append(items, req[r].binding)
  /\ session' = [session EXCEPT !.phase = "COMPLETED"]
  /\ Rest(r)
  /\ UNCHANGED <<overdue, part, disk, used, seen>>

-----------------------------------------------------------------------------
\* The server process ends, or a statement fails, between two steps.
LoseRequest(r) ==
  /\ req[r].at # "idle"
  /\ Rest(r)
  /\ seen' = seen \cup {"lost"}
  /\ UNCHANGED <<session, overdue, part, disk, used, items>>

Lifetime ==
  \/ \E kind \in {"text", "files"} : Prepare(kind)
  \/ Deadline
  \/ ExpireMark

Store(r) ==
  \/ \E p \in Part : StoreCheck(r, p)
  \/ \E f \in File, size \in 1..MaxSize : StoreWrite(r, f, size)
  \/ StoreAbort(r)
  \/ StoreLook(r)
  \/ StoreMeasure(r)
  \/ StoreRefuse(r)
  \/ StoreUpsert(r)
  \/ StoreCleanup(r)
  \/ Close(r)

Register(r) ==
  \/ \E p \in Part, f \in File, size \in 1..MaxSize : RegisterCheck(r, p, f, size)
  \/ RegisterAdmit(r)
  \/ RegisterUpsert(r)

Finalize(r) ==
  \/ FinalizeCheck(r)
  \/ FinalizeRead(r)
  \/ FinalizeCommit(r)

Next ==
  \/ Lifetime
  \/ \E r \in Req : Store(r) \/ Register(r) \/ Finalize(r) \/ LoseRequest(r)

Spec == Init /\ [][Next]_vars

-----------------------------------------------------------------------------
(* Properties *)

\* However stores of the same part overlap, stop half way or clean up after each
\* other, the file that a part row names is there, with the row's size.
PartRowsHaveFiles ==
  "registered" \notin seen =>
    \A p \in Part : part[p].file # NoFile => disk[part[p].file] = part[p].size

\* As long as requests do not overlap, the parts stay within the quota.
WithinQuota == "overlap" \notin seen => Usage <= Quota

\* As long as requests do not overlap, a session becomes one source item.
FinalizedOnce == "overlap" \notin seen => Len(items) <= 1

\* As long as parts go through the server one after the other, the files that a
\* finalized item is made of are not removed, whatever requests stop half way.
BoundFilesStay ==
  seen \subseteq {"lost"} =>
    \A i \in 1..Len(items), p \in Part :
      items[i][p] # NoFile => disk[items[i][p]] > 0

\* Past the deadline, once the requests that had found the session open have run
\* out, no part is stored, no file is written or removed and no item is made.
OverdueDrains ==
  [][overdue /\ Resting
       => overdue' /\ Resting' /\ UNCHANGED <<part, disk, items>>]_vars
=============================================================================

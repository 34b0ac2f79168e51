------------------------ MODULE UploadSessionProofs ------------------------
(***************************************************************************)
(* Proofs about UploadSession: types, the drain after the deadline, the    *)
(* safety of the cleanup that follows the replacement of a part, one item  *)
(* per session, whose files stay, and the quota.                           *)
(***************************************************************************)
EXTENDS UploadSession, FiniteSetTheorems, TLAPS

USE UploadAssumption

-----------------------------------------------------------------------------
(* Types *)

LEMMA IdleType == Idle \in Request
  BY DEF Idle, Request, Places, OnPart, Binding, NoBinding

\* A step that only moves one request keeps the types.
LEMMA RequestMoves ==
  ASSUME TypeOK, NEW r \in Req, NEW n \in Request,
         req' = [req EXCEPT ![r] = n],
         UNCHANGED <<session, overdue, part, disk, used, items>>,
         seen' \subseteq Irregularity
  PROVE  TypeOK'
  BY DEF TypeOK

LEMMA AdvanceType ==
  ASSUME TypeOK, NEW r \in Req, NEW to \in Places, Advance(r, to),
         to \in OnPart => req[r].at \in OnPart
  PROVE  req' \in [Req -> Request]
<1>1. [req[r] EXCEPT !.at = to] \in Request
  BY DEF TypeOK, Request
<1> QED
  BY <1>1 DEF TypeOK, Advance

LEMMA SeeType ==
  ASSUME TypeOK, NEW what \in SUBSET Irregularity, See(what)
  PROVE  seen' \subseteq Irregularity
  BY DEF TypeOK, See, Irregularity

LEMMA RestType ==
  ASSUME TypeOK, NEW r \in Req, Rest(r)
  PROVE  req' \in [Req -> Request]
  BY IdleType DEF TypeOK, Rest

LEMMA CarriedType ==
  ASSUME TypeOK, NEW r \in Req
  PROVE  /\ req[r].part \in Part \cup {NoPart}
         /\ req[r].file \in File \cup {NoFile}
         /\ req[r].size \in 0..MaxSize
         /\ [file |-> req[r].file, size |-> req[r].size] \in PartRow
  BY DEF TypeOK, Request, PartRow

LEMMA PartKnown ==
  ASSUME TypeOK, NEW r \in Req, req[r].at \in OnPart
  PROVE  req[r].part \in Part
  BY DEF TypeOK, Request

LEMMA StoreTypes ==
  ASSUME TypeOK, NEW r \in Req, Store(r)
  PROVE  TypeOK'
<1>1. ASSUME NEW p \in Part, StoreCheck(r, p) PROVE TypeOK'
  <2>1. [Idle EXCEPT !.at = "storing", !.part = p] \in Request
    BY IdleType DEF Request, Places, OnPart, Idle, Binding, NoBinding
  <2>2. seen' \subseteq Irregularity
    BY <1>1, SeeType DEF StoreCheck
  <2> QED BY <1>1, <2>1, <2>2, RequestMoves DEF StoreCheck
<1>2. ASSUME NEW f \in File, NEW size \in 1..MaxSize, StoreWrite(r, f, size)
      PROVE  TypeOK'
  <2>0. size \in 0..MaxSize
    OBVIOUS
  <2>1. [req[r] EXCEPT !.at = "stored", !.file = f, !.size = size] \in Request
    BY <1>2, <2>0 DEF StoreWrite, TypeOK, Request, Places, OnPart
  <2>2. req' \in [Req -> Request]
    BY <1>2, <2>1 DEF StoreWrite, TypeOK
  <2>3. disk' \in [File -> 0..MaxSize]
    BY <1>2, <2>0 DEF StoreWrite, TypeOK
  <2>4. used' \subseteq File
    BY <1>2 DEF StoreWrite, TypeOK
  <2> QED BY <1>2, <2>2, <2>3, <2>4 DEF StoreWrite, TypeOK
<1>3. CASE StoreAbort(r)
  BY <1>3, RestType DEF StoreAbort, TypeOK
<1>4. CASE StoreLook(r)
  <2>0. req[r].part \in Part
    BY <1>4, PartKnown DEF StoreLook, Places, OnPart
  <2>1. part[req[r].part].file \in File \cup {NoFile}
    BY <2>0 DEF TypeOK, PartRow
  <2>2. [req[r] EXCEPT !.at = "measuring", !.old = part[req[r].part].file] \in Request
    BY <1>4, <2>1 DEF StoreLook, TypeOK, Request, Places, OnPart
  <2>3. req' \in [Req -> Request]
    BY <1>4, <2>2 DEF StoreLook, TypeOK
  <2> QED BY <1>4, <2>3 DEF StoreLook, TypeOK
<1>5. CASE StoreMeasure(r)
  <2>1. req' \in [Req -> Request]
    BY <1>5, AdvanceType DEF StoreMeasure, Places, OnPart
  <2> QED BY <1>5, <2>1 DEF StoreMeasure, TypeOK
<1>6. CASE StoreRefuse(r)
  <2>0. 0 \in 0..MaxSize
    OBVIOUS
  <2>1. disk' \in [File -> 0..MaxSize]
    BY <1>6, <2>0 DEF StoreRefuse, TypeOK
  <2> QED BY <1>6, <2>1, RestType DEF StoreRefuse, TypeOK
<1>7. CASE StoreUpsert(r)
  <2>1. part' \in [Part -> PartRow]
    BY <1>7, CarriedType DEF StoreUpsert, TypeOK
  <2>2. req' \in [Req -> Request]
    BY <1>7, AdvanceType DEF StoreUpsert, Places, OnPart
  <2> QED BY <1>7, <2>1, <2>2 DEF StoreUpsert, TypeOK
<1>8. CASE StoreCleanup(r)
  <2>0. 0 \in 0..MaxSize
    OBVIOUS
  <2>1. disk' \in [File -> 0..MaxSize]
    BY <1>8, <2>0 DEF StoreCleanup, TypeOK
  <2>2. req' \in [Req -> Request]
    BY <1>8, AdvanceType DEF StoreCleanup, Places, OnPart
  <2> QED BY <1>8, <2>1, <2>2 DEF StoreCleanup, TypeOK
<1>9. CASE Close(r)
  <2>1. session' \in SessionRow
    BY <1>9 DEF Close, TypeOK, SessionRow, Phases
  <2> QED BY <1>9, <2>1, RestType DEF Close, TypeOK
<1> QED
  BY <1>1, <1>2, <1>3, <1>4, <1>5, <1>6, <1>7, <1>8, <1>9 DEF Store

LEMMA RegisterTypes ==
  ASSUME TypeOK, NEW r \in Req, Register(r)
  PROVE  TypeOK'
<1>1. ASSUME NEW p \in Part, NEW f \in File, NEW size \in 1..MaxSize,
             RegisterCheck(r, p, f, size)
      PROVE  TypeOK'
  <2>0. size \in 0..MaxSize
    OBVIOUS
  <2>1. [Idle EXCEPT !.at = "registering", !.part = p, !.file = f, !.size = size] \in Request
    BY <2>0, IdleType DEF Request, Places, OnPart, Idle, Binding, NoBinding
  <2>2. seen' \subseteq Irregularity
    BY <1>1, SeeType DEF RegisterCheck, Irregularity
  <2> QED BY <1>1, <2>1, <2>2, RequestMoves DEF RegisterCheck
<1>2. CASE RegisterAdmit(r)
  <2>1. req' \in [Req -> Request]
    BY <1>2, AdvanceType, RestType DEF RegisterAdmit, Places, OnPart
  <2> QED BY <1>2, <2>1 DEF RegisterAdmit, TypeOK
<1>3. CASE RegisterUpsert(r)
  <2>1. part' \in [Part -> PartRow]
    BY <1>3, CarriedType DEF RegisterUpsert, TypeOK
  <2>2. req' \in [Req -> Request]
    BY <1>3, AdvanceType DEF RegisterUpsert, Places, OnPart
  <2> QED BY <1>3, <2>1, <2>2 DEF RegisterUpsert, TypeOK
<1> QED
  BY <1>1, <1>2, <1>3 DEF Register

LEMMA FinalizeTypes ==
  ASSUME TypeOK, NEW r \in Req, Finalize(r)
  PROVE  TypeOK'
<1>1. CASE FinalizeCheck(r)
  <2>1. req' \in [Req -> Request]
    BY <1>1, AdvanceType DEF FinalizeCheck, Places, OnPart
  <2>2. seen' \subseteq Irregularity
    BY <1>1, SeeType DEF FinalizeCheck
  <2> QED BY <1>1, <2>1, <2>2 DEF FinalizeCheck, TypeOK
<1>2. CASE FinalizeRead(r)
  <2>1. PartKeys \in Binding
    BY DEF PartKeys, Binding, TypeOK, PartRow
  <2>2. [req[r] EXCEPT !.at = "binding", !.binding = PartKeys] \in Request
    BY <2>1 DEF TypeOK, Request, Places, OnPart
  <2>3. req' \in [Req -> Request]
    BY <1>2, <2>2, RestType DEF FinalizeRead, TypeOK
  <2> QED BY <1>2, <2>3 DEF FinalizeRead, TypeOK
<1>3. CASE FinalizeCommit(r)
  <2>1. req[r].binding \in Binding
    BY DEF TypeOK, Request
  <2>2. items' \in Seq(Binding)
    BY <1>3, <2>1 DEF FinalizeCommit, TypeOK
  <2>3. session' \in SessionRow
    BY <1>3 DEF FinalizeCommit, TypeOK, SessionRow, Phases
  <2> QED BY <1>3, <2>2, <2>3, RestType DEF FinalizeCommit, TypeOK
<1> QED
  BY <1>1, <1>2, <1>3 DEF Finalize

LEMMA LifetimeTypes ==
  ASSUME TypeOK, Lifetime
  PROVE  TypeOK'
<1>1. session' \in SessionRow
  BY DEF Lifetime, Prepare, Deadline, ExpireMark, TypeOK, SessionRow, Phases
<1>2. overdue' \in BOOLEAN
  BY DEF Lifetime, Prepare, Deadline, ExpireMark, TypeOK
<1>3. UNCHANGED <<part, disk, used, items, req, seen>>
  BY DEF Lifetime, Prepare, Deadline, ExpireMark
<1> QED
  BY <1>1, <1>2, <1>3 DEF TypeOK

LEMMA InitTypes == Init => TypeOK
<1> SUFFICES ASSUME Init PROVE TypeOK
  OBVIOUS
<1>1. req \in [Req -> Request]
  BY IdleType DEF Init
<1>2. items \in Seq(Binding)
  BY DEF Init
<1>3. 0 \in 0..MaxSize
  OBVIOUS
<1>4. part \in [Part -> PartRow] /\ disk \in [File -> 0..MaxSize]
  BY <1>3 DEF Init, PartRow, NoRow
<1>5. session \in SessionRow /\ used \subseteq File /\ seen = {} /\ overdue \in BOOLEAN
  BY DEF Init, SessionRow, Phases
<1> QED
  BY <1>1, <1>2, <1>4, <1>5 DEF TypeOK

LEMMA NextTypes == TypeOK /\ [Next]_vars => TypeOK'
<1> SUFFICES ASSUME TypeOK, [Next]_vars PROVE TypeOK'
  OBVIOUS
<1>1. ASSUME NEW r \in Req, LoseRequest(r) PROVE TypeOK'
  <2>1. seen' \subseteq Irregularity
    BY <1>1 DEF LoseRequest, TypeOK, Irregularity
  <2> QED BY <1>1, <2>1, RestType DEF LoseRequest, TypeOK
<1>2. CASE UNCHANGED vars
  BY <1>2 DEF vars, TypeOK
<1> QED
  BY <1>1, <1>2, LifetimeTypes, StoreTypes, FinalizeTypes, RegisterTypes
     DEF Next

\* Every row, file and request of every reachable state is of its type.
THEOREM UploadTypeCorrect == Spec => []TypeOK
  BY InitTypes, NextTypes, PTL DEF Spec

-----------------------------------------------------------------------------
(* The deadline *)

\* Past the deadline a session without requests in flight takes nothing more.
THEOREM OverdueSessionsDrain == Spec => OverdueDrains
<1>1. ASSUME [Next]_vars, overdue, Resting
      PROVE  overdue' /\ Resting' /\ UNCHANGED <<part, disk, items>>
  <2>1. CASE Lifetime
    BY <1>1, <2>1 DEF Lifetime, Prepare, Deadline, ExpireMark, Resting
  <2>2. ASSUME NEW r \in Req PROVE ~Store(r) /\ ~Finalize(r)
    BY <1>1 DEF Resting, SessionOpen, Store, StoreCheck, StoreWrite, StoreAbort,
       StoreLook, StoreMeasure, StoreRefuse, StoreUpsert, StoreCleanup, Close,
       Finalize, FinalizeCheck, FinalizeRead, FinalizeCommit
  <2>3. ASSUME NEW r \in Req PROVE ~LoseRequest(r) /\ ~Register(r)
    BY <1>1 DEF Resting, SessionOpen, LoseRequest, Register, RegisterCheck,
       RegisterAdmit, RegisterUpsert
  <2>4. CASE UNCHANGED vars
    BY <1>1, <2>4 DEF vars, Resting
  <2> QED
    BY <1>1, <2>1, <2>2, <2>3, <2>4 DEF Next
<1>2. [Next]_vars =>
        [overdue /\ Resting
           => overdue' /\ Resting' /\ UNCHANGED <<part, disk, items>>]_vars
  BY <1>1
<1> QED
  BY <1>2, PTL DEF Spec, OverdueDrains

-----------------------------------------------------------------------------
(***************************************************************************)
(* The safety of cleanup, when every part goes through the server.  A file *)
(* passes from the request that wrote it to the row that names it, and     *)
(* from there to the requests that have replaced it: it has one custodian  *)
(* that may keep it, and only a file without one is removed.               *)
(***************************************************************************)
Holding == {"stored", "measuring", "refused", "upserting"}

Replacing == {"measuring", "upserting", "cleaning"}

\* A part's file has been written, has the row's size and is no other part's.
RowKeeps(p) ==
  part[p].file # NoFile =>
    /\ part[p].file \in used
    /\ disk[part[p].file] = part[p].size
    /\ \A q \in Part \ {p} : part[q].file # part[p].file

\* A file that a request has written and not yet handed over is its own.
RequestHolds(r) ==
  req[r].at \in Holding =>
    /\ req[r].file \in used
    /\ disk[req[r].file] = req[r].size
    /\ \A p \in Part : part[p].file # req[r].file
    /\ \A q \in Req \ {r} : req[q].at \in Holding => req[q].file # req[r].file

\* A file that a request replaces is in no row but its part's, and in no row once
\* the request has written its own.
RequestReplaces(r) ==
  req[r].at \in Replacing /\ req[r].old # NoFile =>
    /\ req[r].old \in used
    /\ \A q \in Req : req[q].at \in Holding => req[q].file # req[r].old
    /\ \A p \in Part : part[p].file = req[r].old
                        => p = req[r].part /\ req[r].at # "cleaning"

Custody ==
  /\ TypeOK
  /\ \A p \in Part : RowKeeps(p)
  /\ \A r \in Req : RequestHolds(r) /\ RequestReplaces(r)

\* Until a part is registered; no request registers one before.
Kept ==
  /\ TypeOK
  /\ "registered" \notin seen =>
       /\ Custody
       /\ \A r \in Req : req[r].at \notin {"registering", "entering"}

LEMMA InitCustody == Init => Custody
<1> SUFFICES ASSUME Init PROVE Custody
  OBVIOUS
<1>1. \A p \in Part : RowKeeps(p)
  BY DEF Init, NoRow, RowKeeps
<1>2. \A r \in Req : req[r].at = "idle"
  BY DEF Init, Idle
<1> QED
  BY <1>1, <1>2, InitTypes
     DEF Custody, RequestHolds, RequestReplaces, Holding, Replacing

\* A step that leaves rows and files alone, and one request without a file.
LEMMA LetGo ==
  ASSUME Custody, TypeOK', NEW r \in Req, NEW n,
         req' = [req EXCEPT ![r] = n],
         n.at \notin Holding, n.at \notin Replacing,
         UNCHANGED <<part, disk, used>>
  PROVE  Custody'
<1>1. req'[r] = n /\ \A q \in Req \ {r} : req'[q] = req[q]
  BY DEF Custody, TypeOK
<1>2. \A p \in Part : RowKeeps(p)'
  BY DEF Custody, RowKeeps
<1>3. \A q \in Req : RequestHolds(q)'
  BY <1>1 DEF Custody, RequestHolds
<1>4. \A q \in Req : RequestReplaces(q)'
  BY <1>1 DEF Custody, RequestReplaces
<1> QED
  BY <1>2, <1>3, <1>4 DEF Custody

LEMMA RestIsIdle ==
  ASSUME TypeOK, NEW r \in Req
  PROVE  Idle.at \notin Holding /\ Idle.at \notin Replacing
  BY DEF Idle, Holding, Replacing

\* The requests' files are in File: none of them is NoFile.
LEMMA HeldIsFile ==
  ASSUME Custody, NEW r \in Req, req[r].at \in Holding
  PROVE  req[r].file \in File /\ req[r].file # NoFile
  BY DEF Custody, TypeOK, RequestHolds

\* The new file has never been named by a row or a request.
LEMMA WriteCustody ==
  ASSUME Custody, TypeOK', NEW r \in Req, NEW f \in File, NEW size \in 1..MaxSize,
         StoreWrite(r, f, size)
  PROVE  Custody'
<1> DEFINE n == [req[r] EXCEPT !.at = "stored", !.file = f, !.size = size]
<1>1. n.at = "stored" /\ n.file = f /\ n.size = size
  BY DEF Custody, TypeOK, Request
<1>2. req' = [req EXCEPT ![r] = n]
  BY DEF StoreWrite
<1> HIDE DEF n
<1>3. req'[r] = n /\ \A q \in Req \ {r} : req'[q] = req[q]
  BY <1>2 DEF Custody, TypeOK
<1>4. /\ f \notin used /\ used' = used \cup {f} /\ part' = part
      /\ disk'[f] = size /\ \A g \in File \ {f} : disk'[g] = disk[g]
  BY DEF StoreWrite, FreshKey, Custody, TypeOK
<1>5. used \subseteq File
  BY DEF Custody, TypeOK
<1>6. \A p \in Part : RowKeeps(p)'
  BY <1>4, <1>5 DEF Custody, RowKeeps
<1>7. \A q \in Req \ {r} : RequestHolds(q)'
  BY <1>1, <1>3, <1>4, <1>5 DEF Custody, RequestHolds
<1>8. f # NoFile
  OBVIOUS
<1>9. RequestHolds(r)'
  BY <1>1, <1>3, <1>4, <1>8 DEF Custody, RowKeeps, RequestHolds
<1>10. \A q \in Req : RequestReplaces(q)'
  BY <1>1, <1>3, <1>4 DEF Custody, RequestReplaces, Replacing
<1> QED
  BY <1>6, <1>7, <1>9, <1>10 DEF Custody

\* What the part's row names is in no other row and in no request's hands.
LEMMA LookCustody ==
  ASSUME Custody, TypeOK', NEW r \in Req, StoreLook(r)
  PROVE  Custody'
<1> DEFINE n == [req[r] EXCEPT !.at = "measuring", !.old = part[req[r].part].file]
<1>1. /\ n.at = "measuring" /\ n.file = req[r].file /\ n.size = req[r].size
      /\ n.old = part[req[r].part].file /\ n.part = req[r].part
  BY DEF Custody, TypeOK, Request
<1>2. req' = [req EXCEPT ![r] = n] /\ req[r].at = "stored"
      /\ UNCHANGED <<part, disk, used>>
  BY DEF StoreLook
<1> HIDE DEF n
<1>3. req'[r] = n /\ \A q \in Req \ {r} : req'[q] = req[q]
  BY <1>2 DEF Custody, TypeOK
<1>4. \A q \in Req : /\ req'[q].at \in Holding <=> req[q].at \in Holding
                      /\ req'[q].file = req[q].file /\ req'[q].size = req[q].size
  BY <1>1, <1>2, <1>3 DEF Holding
<1>5. \A p \in Part : RowKeeps(p)'
  BY <1>2 DEF Custody, RowKeeps
<1>6. \A q \in Req : RequestHolds(q)'
  BY <1>2, <1>4 DEF Custody, RequestHolds
<1>7. \A q \in Req \ {r} : RequestReplaces(q)'
  BY <1>2, <1>3, <1>4 DEF Custody, RequestReplaces
<1>8. req[r].part \in Part
  BY PartKnown DEF Custody, StoreLook, Places, OnPart
<1>9. RequestReplaces(r)'
  BY <1>1, <1>2, <1>3, <1>4, <1>8
     DEF Custody, RowKeeps, RequestHolds, RequestReplaces
<1> QED
  BY <1>5, <1>6, <1>7, <1>9 DEF Custody

LEMMA MeasureCustody ==
  ASSUME Custody, TypeOK', NEW r \in Req, StoreMeasure(r)
  PROVE  Custody'
<1>1. PICK to \in {"upserting", "refused"} : req' = [req EXCEPT ![r].at = to]
  BY DEF StoreMeasure, Advance
<1>2. \A q \in Req :
        /\ req'[q].at \in Holding <=> req[q].at \in Holding
        /\ req'[q].at \in Replacing => req[q].at \in Replacing
        /\ req'[q].at = "cleaning" <=> req[q].at = "cleaning"
        /\ req'[q].file = req[q].file /\ req'[q].size = req[q].size
        /\ req'[q].old = req[q].old /\ req'[q].part = req[q].part
  BY <1>1 DEF StoreMeasure, Custody, TypeOK, Request, Holding, Replacing
<1>3. UNCHANGED <<part, disk, used>>
  BY DEF StoreMeasure
<1>4. \A p \in Part : RowKeeps(p)'
  BY <1>3 DEF Custody, RowKeeps
<1>5. \A q \in Req : RequestHolds(q)'
  BY <1>2, <1>3 DEF Custody, RequestHolds
<1>6. \A q \in Req : RequestReplaces(q)'
  BY <1>2, <1>3 DEF Custody, RequestReplaces
<1> QED
  BY <1>4, <1>5, <1>6 DEF Custody

\* The refused file is in no row and in no other request's hands.
LEMMA RefuseCustody ==
  ASSUME Custody, TypeOK', NEW r \in Req, StoreRefuse(r)
  PROVE  Custody'
<1>1. req[r].at \in Holding /\ req[r].file \in File
  BY HeldIsFile DEF StoreRefuse, Holding
<1>2. \A f \in File \ {req[r].file} : disk'[f] = disk[f]
  BY DEF StoreRefuse, Custody, TypeOK
<1>3. UNCHANGED <<part, used>>
  BY DEF StoreRefuse
<1>4. /\ req'[r].at \notin Holding /\ req'[r].at \notin Replacing
      /\ \A q \in Req \ {r} : req'[q] = req[q]
  BY RestIsIdle DEF StoreRefuse, Rest, Custody, TypeOK
<1>5. used \subseteq File
  BY DEF Custody, TypeOK
<1>6. \A p \in Part : RowKeeps(p)'
  BY <1>1, <1>2, <1>3, <1>5 DEF Custody, RowKeeps, RequestHolds
<1>7. \A q \in Req : RequestHolds(q)'
  BY <1>1, <1>2, <1>3, <1>4, <1>5 DEF Custody, RequestHolds
<1>8. \A q \in Req : RequestReplaces(q)'
  BY <1>3, <1>4 DEF Custody, RequestReplaces
<1> QED
  BY <1>6, <1>7, <1>8 DEF Custody

\* The file passes from the request to the row.
LEMMA UpsertCustody ==
  ASSUME Custody, TypeOK', NEW r \in Req, StoreUpsert(r)
  PROVE  Custody'
<1>1. req[r].at \in Holding /\ req[r].file \in File /\ req[r].file # NoFile
  BY HeldIsFile DEF StoreUpsert, Holding
<1>2. req[r].part \in Part
  BY PartKnown DEF Custody, StoreUpsert, Places, OnPart
<1>3. /\ part'[req[r].part].file = req[r].file /\ part'[req[r].part].size = req[r].size
      /\ \A p \in Part \ {req[r].part} : part'[p] = part[p]
  BY <1>2 DEF StoreUpsert, Custody, TypeOK
<1>4. UNCHANGED <<disk, used>>
  BY DEF StoreUpsert
<1>5. /\ req[r].at = "upserting" /\ req'[r].at = "cleaning"
      /\ req'[r].old = req[r].old /\ req'[r].part = req[r].part
      /\ \A q \in Req \ {r} : req'[q] = req[q]
  BY DEF StoreUpsert, Advance, Custody, TypeOK, Request
<1>6. \A p \in Part : RowKeeps(p)'
  BY <1>1, <1>2, <1>3, <1>4 DEF Custody, RowKeeps, RequestHolds
<1>7. \A q \in Req : RequestHolds(q)'
  BY <1>1, <1>2, <1>3, <1>4, <1>5 DEF Custody, RequestHolds, Holding
<1>8. \A q \in Req \ {r} : RequestReplaces(q)'
  BY <1>1, <1>2, <1>3, <1>4, <1>5
     DEF Custody, RequestReplaces, RequestHolds, Holding
<1>9. RequestReplaces(r)'
  BY <1>1, <1>2, <1>3, <1>4, <1>5
     DEF Custody, RequestReplaces, RequestHolds, Holding, Replacing
<1> QED
  BY <1>6, <1>7, <1>8, <1>9 DEF Custody

\* The file removed is named by no row and held by no request.
LEMMA CleanupCustody ==
  ASSUME Custody, TypeOK', NEW r \in Req, StoreCleanup(r)
  PROVE  Custody'
<1>1. /\ req[r].at = "cleaning" /\ UNCHANGED <<part, used>>
      /\ \A f \in File : f # req[r].old => disk'[f] = disk[f]
      /\ req[r].old = NoFile => disk' = disk
  BY DEF StoreCleanup, Replaced, Custody, TypeOK
<1>2. /\ req'[r].at \notin Holding /\ req'[r].at \notin Replacing
      /\ \A q \in Req \ {r} : req'[q] = req[q]
  BY DEF StoreCleanup, Advance, Custody, TypeOK, Request, Holding, Replacing
<1>3. used \subseteq File
  BY DEF Custody, TypeOK
<1>4. \A p \in Part : RowKeeps(p)'
  BY <1>1, <1>3 DEF Custody, RowKeeps, RequestReplaces, Replacing
<1>5. \A q \in Req : RequestHolds(q)'
  BY <1>1, <1>2, <1>3 DEF Custody, RequestHolds, RequestReplaces, Replacing
<1>6. \A q \in Req : RequestReplaces(q)'
  BY <1>1, <1>2 DEF Custody, RequestReplaces
<1> QED
  BY <1>4, <1>5, <1>6 DEF Custody

LEMMA StoreCustody ==
  ASSUME Custody, TypeOK', NEW r \in Req, Store(r)
  PROVE  Custody'
<1>1. ASSUME NEW p \in Part, StoreCheck(r, p) PROVE Custody'
  <2>1. [Idle EXCEPT !.at = "storing", !.part = p].at = "storing"
    BY DEF Idle
  <2> QED
    BY <1>1, <2>1, LetGo DEF StoreCheck, Holding, Replacing
<1>2. CASE StoreAbort(r) \/ Close(r)
  BY <1>2, LetGo, RestIsIdle DEF StoreAbort, Close, Rest, Custody
<1> QED
  BY <1>1, <1>2, WriteCustody, LookCustody, MeasureCustody, RefuseCustody,
     UpsertCustody, CleanupCustody DEF Store

\* A store leaves its request in a place of its own.
LEMMA StoreMoves ==
  ASSUME TypeOK, NEW r \in Req, Store(r)
  PROVE  \E n : /\ req' = [req EXCEPT ![r] = n]
               /\ n.at \notin {"registering", "entering"}
<1>1. \A to : Advance(r, to) =>
        /\ req' = [req EXCEPT ![r] = [req[r] EXCEPT !.at = to]]
        /\ [req[r] EXCEPT !.at = to].at = to
  BY DEF Advance, TypeOK, Request
<1>2. ASSUME NEW p \in Part, StoreCheck(r, p)
      PROVE  /\ req' = [req EXCEPT ![r] = [Idle EXCEPT !.at = "storing", !.part = p]]
             /\ [Idle EXCEPT !.at = "storing", !.part = p].at = "storing"
  BY <1>2 DEF StoreCheck, Idle
<1>3. ASSUME NEW f \in File, NEW size \in 1..MaxSize, StoreWrite(r, f, size)
      PROVE  /\ req' = [req EXCEPT ![r] =
                  [req[r] EXCEPT !.at = "stored", !.file = f, !.size = size]]
             /\ [req[r] EXCEPT !.at = "stored", !.file = f, !.size = size].at = "stored"
  BY <1>3 DEF StoreWrite, TypeOK, Request
<1>4. ASSUME StoreLook(r)
      PROVE  /\ req' = [req EXCEPT ![r] =
                  [req[r] EXCEPT !.at = "measuring", !.old = part[req[r].part].file]]
             /\ [req[r] EXCEPT !.at = "measuring",
                               !.old = part[req[r].part].file].at = "measuring"
  BY <1>4 DEF StoreLook, TypeOK, Request
<1>5. CASE StoreAbort(r) \/ StoreRefuse(r) \/ Close(r)
  BY <1>5 DEF StoreAbort, StoreRefuse, Close, Rest, Idle
<1>6. CASE StoreMeasure(r) \/ StoreUpsert(r) \/ StoreCleanup(r)
  <2>1. PICK to \in {"upserting", "refused", "cleaning", "closing"} : Advance(r, to)
    BY <1>6 DEF StoreMeasure, StoreUpsert, StoreCleanup
  <2> QED
    BY <1>1, <2>1
<1> QED
  BY <1>2, <1>3, <1>4, <1>5, <1>6 DEF Store

LEMMA FinalizeMoves ==
  ASSUME TypeOK, NEW r \in Req, Finalize(r)
  PROVE  \E n : /\ req' = [req EXCEPT ![r] = n]
               /\ n.at \in {"finalizing", "binding", "idle"}
<1>1. CASE FinalizeCheck(r)
  <2>1. req' = [req EXCEPT ![r] = [req[r] EXCEPT !.at = "finalizing"]]
    BY <1>1 DEF FinalizeCheck, Advance
  <2>2. [req[r] EXCEPT !.at = "finalizing"].at = "finalizing"
    BY DEF TypeOK, Request
  <2> QED BY <2>1, <2>2
<1>2. CASE FinalizeRead(r)
  <2>1. \/ req' = [req EXCEPT ![r] =
             [req[r] EXCEPT !.at = "binding", !.binding = PartKeys]]
        \/ req' = [req EXCEPT ![r] = Idle]
    BY <1>2 DEF FinalizeRead, Rest
  <2>2. /\ [req[r] EXCEPT !.at = "binding", !.binding = PartKeys].at = "binding"
        /\ Idle.at = "idle"
    BY DEF TypeOK, Request, Idle
  <2> QED BY <2>1, <2>2
<1>3. CASE FinalizeCommit(r)
  <2>1. req' = [req EXCEPT ![r] = Idle]
    BY <1>3 DEF FinalizeCommit, Rest
  <2>2. Idle.at = "idle"
    BY DEF Idle
  <2> QED BY <2>1, <2>2
<1> QED BY <1>1, <1>2, <1>3 DEF Finalize

LEMMA FinalizeCustody ==
  ASSUME Custody, TypeOK', NEW r \in Req, Finalize(r)
  PROVE  Custody'
<1>1. PICK n : /\ req' = [req EXCEPT ![r] = n]
               /\ n.at \in {"finalizing", "binding", "idle"}
  BY FinalizeMoves DEF Custody
<1>2. UNCHANGED <<part, disk, used>>
  BY DEF Finalize, FinalizeCheck, FinalizeRead, FinalizeCommit
<1> QED
  BY <1>1, <1>2, LetGo DEF Holding, Replacing

LEMMA InitKept == Init => Kept
<1> SUFFICES ASSUME Init PROVE Kept
  OBVIOUS
<1>1. \A r \in Req : req[r].at = "idle"
  BY DEF Init, Idle
<1> QED
  BY <1>1, InitTypes, InitCustody DEF Kept

LEMMA NextKept == Kept /\ [Next]_vars => Kept'
<1> SUFFICES ASSUME Kept, [Next]_vars, "registered" \notin seen'
             PROVE  /\ Custody'
                    /\ \A r \in Req : req'[r].at \notin {"registering", "entering"}
  BY NextTypes DEF Kept
<1>1. TypeOK'
  BY NextTypes DEF Kept
<1>2. "registered" \notin seen
  BY DEF Next, vars, Lifetime, Prepare, Deadline, ExpireMark, Store, StoreCheck,
     StoreWrite, StoreAbort, StoreLook, StoreMeasure, StoreRefuse, StoreUpsert,
     StoreCleanup, Close, Register, RegisterCheck, RegisterAdmit, RegisterUpsert,
     Finalize, FinalizeCheck, FinalizeRead, FinalizeCommit, LoseRequest, See
<1>3. Custody /\ \A r \in Req : req[r].at \notin {"registering", "entering"}
  BY <1>2 DEF Kept
<1>4. \A r \in Req : ~Register(r)
  BY <1>3 DEF Register, RegisterCheck, RegisterAdmit, RegisterUpsert, See
<1>5. Custody'
  <2>1. ASSUME UNCHANGED <<part, disk, used, req>> PROVE Custody'
    BY <1>1, <1>3, <2>1 DEF Custody, RowKeeps, RequestHolds, RequestReplaces
  <2>2. CASE Lifetime \/ UNCHANGED vars
    BY <2>1, <2>2 DEF Lifetime, Prepare, Deadline, ExpireMark, vars
  <2>3. ASSUME NEW r \in Req, LoseRequest(r) PROVE Custody'
    BY <1>1, <1>3, <2>3, LetGo, RestIsIdle DEF LoseRequest, Rest, Custody
  <2> QED
    BY <1>1, <1>3, <1>4, <2>2, <2>3, StoreCustody, FinalizeCustody DEF Next
<1>6. \A r \in Req : req'[r].at \notin {"registering", "entering"}
  <2>1. CASE Lifetime \/ UNCHANGED vars
    BY <1>3, <2>1 DEF Lifetime, Prepare, Deadline, ExpireMark, vars
  <2>2. ASSUME NEW r \in Req, Store(r) \/ Finalize(r) \/ LoseRequest(r)
        PROVE  \A q \in Req : req'[q].at \notin {"registering", "entering"}
    <3>1. PICK n : /\ req' = [req EXCEPT ![r] = n]
                   /\ n.at \notin {"registering", "entering"}
      BY <1>3, <2>2, StoreMoves, FinalizeMoves DEF LoseRequest, Rest, Idle, Kept
    <3> QED
      BY <1>3, <3>1 DEF Custody, TypeOK
  <2> QED
    BY <1>4, <2>1, <2>2 DEF Next
<1> QED
  BY <1>5, <1>6

\* However stores of the same part overlap, stop half way or clean up after each
\* other, no file that a part row names is removed or overwritten, as long as no
\* part is registered.
THEOREM StoredPartsKeepTheirFiles == Spec => []PartRowsHaveFiles
<1>1. Kept => PartRowsHaveFiles
  BY DEF Kept, Custody, RowKeeps, PartRowsHaveFiles
<1> QED
  BY <1>1, InitKept, NextKept, PTL DEF Spec

-----------------------------------------------------------------------------
(***************************************************************************)
(* Finalization, when requests do not overlap.  At most one is under way,  *)
(* and once there is an item none is and none can begin: the phase that    *)
(* the finalization has written stands, or the deadline has passed.        *)
(***************************************************************************)
Alone ==
  \A r, q \in Req : req[r].at # "idle" /\ req[q].at # "idle" => r = q

Settled ==
  items # << >> =>
    Len(items) = 1 /\ Resting /\ (session.phase = "COMPLETED" \/ overdue)

Lone == "overlap" \notin seen => Alone /\ Settled

\* A request's step leaves the other requests where they are.
LEMMA OthersStay ==
  ASSUME TypeOK, NEW r \in Req, Store(r) \/ Register(r) \/ Finalize(r) \/ LoseRequest(r)
  PROVE  \A q \in Req \ {r} : req'[q] = req[q]
BY DEF TypeOK, Store, StoreCheck, StoreWrite, StoreAbort, StoreLook, StoreMeasure, StoreRefuse,
       StoreUpsert, StoreCleanup, Close, Register, RegisterCheck, RegisterAdmit,
       RegisterUpsert, Finalize, FinalizeCheck, FinalizeRead, FinalizeCommit, LoseRequest,
       Advance, Rest

\* What a step has seen is not forgotten.
LEMMA SeenGrows ==
  ASSUME [Next]_vars
  PROVE  seen \subseteq seen'
BY DEF Next, vars, Lifetime, Prepare, Deadline, ExpireMark, Store, StoreCheck,
       StoreWrite, StoreAbort, StoreLook, StoreMeasure, StoreRefuse, StoreUpsert,
       StoreCleanup, Close, Register, RegisterCheck, RegisterAdmit, RegisterUpsert,
       Finalize, FinalizeCheck, FinalizeRead, FinalizeCommit, LoseRequest, See

Begins(r) ==
  \/ \E p \in Part : StoreCheck(r, p)
  \/ \E p \in Part, f \in File, size \in 1..MaxSize : RegisterCheck(r, p, f, size)
  \/ FinalizeCheck(r)

\* A request that is not beginning is under way.
LEMMA UnderWay ==
  ASSUME NEW r \in Req, Store(r) \/ Register(r) \/ Finalize(r) \/ LoseRequest(r), ~Begins(r)
  PROVE  req[r].at # "idle"
BY DEF Begins, Store, StoreWrite, StoreAbort, StoreLook, StoreMeasure, StoreRefuse,
       StoreUpsert, StoreCleanup, Close, Register, RegisterAdmit,
       RegisterUpsert, Finalize, FinalizeRead, FinalizeCommit, LoseRequest

LEMMA NextLone ==
  ASSUME TypeOK, Lone, [Next]_vars
  PROVE  Lone'
<1> SUFFICES ASSUME "overlap" \notin seen' PROVE Alone' /\ Settled'
  BY DEF Lone
<1>1. Alone /\ Settled
  BY SeenGrows DEF Lone
<1>2. CASE UNCHANGED vars
  BY <1>1, <1>2 DEF vars, Alone, Settled, Resting
<1>3. CASE Lifetime
  <2>1. UNCHANGED <<req, items>> /\ (overdue => overdue')
    BY <1>3 DEF Lifetime, Prepare, Deadline, ExpireMark, TypeOK
  <2>2. session.phase = "COMPLETED" => session'.phase = "COMPLETED" \/ overdue'
    BY <1>3 DEF Lifetime, Prepare, Deadline, ExpireMark
  <2> QED
    BY <1>1, <2>1, <2>2 DEF Alone, Settled, Resting
<1>4. ASSUME NEW r \in Req, Begins(r)
      PROVE  Alone' /\ Settled'
  <2>1. Resting /\ SessionOpen /\ UNCHANGED items
    BY <1>4 DEF Begins, StoreCheck, RegisterCheck, FinalizeCheck, See
  <2>2. items = << >>
    BY <1>1, <2>1 DEF Settled, SessionOpen
  <2>3. \A q \in Req \ {r} : req'[q].at = "idle"
    BY <1>4, <2>1, OthersStay DEF Begins, Store, Register, Finalize, Resting
  <2> QED
    BY <2>1, <2>2, <2>3 DEF Alone, Settled
<1>5. ASSUME NEW r \in Req, Store(r) \/ Register(r) \/ Finalize(r) \/ LoseRequest(r), ~Begins(r)
      PROVE  Alone' /\ Settled'
  <2>1. req[r].at # "idle"
    BY <1>5, UnderWay
  <2>2. items = << >>
    BY <1>1, <2>1 DEF Settled, Resting
  <2>3. \A q \in Req \ {r} : req'[q].at = "idle"
    BY <1>1, <1>5, <2>1, OthersStay DEF Alone
  <2>4. Alone'
    BY <2>3 DEF Alone
  <2>5. CASE FinalizeCommit(r)
    <3>1. /\ items' = Append(items, req[r].binding) /\ session'.phase = "COMPLETED"
          /\ req' = [req EXCEPT ![r] = Idle]
      BY <2>5 DEF FinalizeCommit, Rest, TypeOK, SessionRow
    <3>2. Resting'
      BY <2>3, <3>1 DEF Resting, Idle, TypeOK
    <3>3. Len(items') = 1
      BY <2>2, <3>1
    <3> QED
      BY <2>4, <3>1, <3>2, <3>3 DEF Settled
  <2>6. CASE ~FinalizeCommit(r)
    <3>1. UNCHANGED items
      BY <1>5, <2>6 DEF Begins, Store, StoreWrite, StoreAbort, StoreLook, StoreMeasure,
            StoreRefuse, StoreUpsert, StoreCleanup, Close, Register, RegisterAdmit,
            RegisterUpsert, Finalize, FinalizeRead, LoseRequest
    <3> QED
      BY <2>2, <2>4, <3>1 DEF Settled
  <2> QED
    BY <2>5, <2>6
<1> QED
  BY <1>2, <1>3, <1>4, <1>5 DEF Next

LEMMA AlwaysLone == Spec => [](TypeOK /\ Lone)
<1>1. Init => TypeOK /\ Lone
  BY InitTypes DEF Init, Lone, Alone, Settled, Idle
<1>2. TypeOK /\ Lone /\ [Next]_vars => (TypeOK /\ Lone)'
  BY NextTypes, NextLone
<1> QED
  BY <1>1, <1>2, PTL DEF Spec

\* As long as requests do not overlap a session becomes one source item, although
\* the phase is checked outside the transaction, and later written by every store.
THEOREM FinalizedAtMostOnce == Spec => []FinalizedOnce
<1>1. ASSUME TypeOK, Lone PROVE FinalizedOnce
  <2>1. "overlap" \notin seen => items = << >> \/ Len(items) = 1
    BY <1>1 DEF Lone, Settled
  <2>2. ASSUME items = << >> PROVE Len(items) <= 1
    BY <2>2
  <2>3. ASSUME Len(items) = 1 PROVE Len(items) <= 1
    BY <2>3
  <2> QED
    BY <2>1, <2>2, <2>3 DEF FinalizedOnce
<1> QED
  BY <1>1, AlwaysLone, PTL

-----------------------------------------------------------------------------
(***************************************************************************)
(* The files of an item.  A row's file is there (Kept) and not empty, so a *)
(* binding that was just read names files that are there; nobody else is   *)
(* under way to remove one before it is committed, and nobody is after it. *)
(***************************************************************************)
BodyThere(r) ==
  req[r].at \in {"stored", "measuring", "upserting"} => req[r].size > 0

RowThere(p) == part[p].file # NoFile => part[p].size > 0

AllThere(binding) == \A p \in Part : binding[p] # NoFile => disk[binding[p]] > 0

Bound ==
  seen \subseteq {"lost"} =>
    /\ \A r \in Req : BodyThere(r)
    /\ \A p \in Part : RowThere(p)
    /\ \A r \in Req : req[r].at = "binding" => AllThere(req[r].binding)
    /\ \A i \in 1..Len(items) : AllThere(items[i])

\* The sizes that requests carry and rows have, whatever overlaps.
LEMMA SizesStay ==
  ASSUME TypeOK, NEW r \in Req, Store(r) \/ Finalize(r) \/ LoseRequest(r),
         \A q \in Req : BodyThere(q), \A p \in Part : RowThere(p)
  PROVE  (\A q \in Req : BodyThere(q)') /\ (\A p \in Part : RowThere(p)')
<1>1. BodyThere(r)'
  <2>1. CASE \E f \in File, size \in 1..MaxSize : StoreWrite(r, f, size)
    BY <2>1 DEF StoreWrite, TypeOK, Request, BodyThere
  <2>2. CASE StoreLook(r)
    <3>1. req[r].at = "stored" /\ req[r] \in Request
      BY <2>2 DEF StoreLook, TypeOK
    <3>2. req'[r] = [req[r] EXCEPT !.at = "measuring", !.old = part[req[r].part].file]
      BY <2>2 DEF StoreLook, TypeOK
    <3>3. req'[r].size = req[r].size
      BY <3>1, <3>2 DEF Request
    <3> QED
      BY <3>1, <3>3 DEF BodyThere
  <2>3. CASE StoreMeasure(r) \/ StoreUpsert(r) \/ StoreCleanup(r)
    <3>1. PICK to : req' = [req EXCEPT ![r] = [req[r] EXCEPT !.at = to]]
      BY <2>3 DEF StoreMeasure, StoreUpsert, StoreCleanup, Advance
    <3>2. req'[r] = [req[r] EXCEPT !.at = to] /\ req[r] \in Request
      BY <3>1 DEF TypeOK
    <3>3. req'[r].at = to /\ req'[r].size = req[r].size
      BY <3>2 DEF Request
    <3>4. to \in {"stored", "measuring", "upserting"}
            => req[r].at \in {"stored", "measuring", "upserting"}
      <4>1. req'[r].at \in {"upserting", "refused", "cleaning", "closing"}
        BY <2>3, <3>3 DEF StoreMeasure, StoreUpsert, StoreCleanup, Advance, TypeOK, Request
      <4>2. req'[r].at = "upserting" => req[r].at = "measuring"
        BY <2>3, <3>3 DEF StoreMeasure, StoreUpsert, StoreCleanup, Advance, TypeOK, Request
      <4> QED
        BY <3>3, <4>1, <4>2
    <3> QED
      BY <3>3, <3>4 DEF BodyThere
  <2>4. CASE \E p \in Part : StoreCheck(r, p)
    BY <2>4 DEF StoreCheck, Idle, TypeOK, BodyThere
  <2>5. CASE Rest(r)
    BY <2>5 DEF Rest, Idle, TypeOK, BodyThere
  <2>6. CASE Finalize(r)
    BY <2>6, FinalizeMoves DEF TypeOK, BodyThere
  <2> QED
    BY <2>1, <2>2, <2>3, <2>4, <2>5, <2>6 DEF Store, StoreAbort, StoreRefuse, Close,
                                              LoseRequest
<1>2. \A q \in Req : BodyThere(q)'
  BY <1>1, OthersStay DEF BodyThere
<1>3. \A p \in Part : RowThere(p)'
  <2>1. CASE StoreUpsert(r)
    BY <2>1 DEF StoreUpsert, TypeOK, BodyThere, RowThere
  <2>2. CASE ~StoreUpsert(r)
    <3>1. UNCHANGED part
      BY <2>2 DEF Store, StoreCheck, StoreWrite, StoreAbort, StoreLook, StoreMeasure,
            StoreRefuse, StoreCleanup, Close, Finalize, FinalizeCheck, FinalizeRead,
            FinalizeCommit, LoseRequest
    <3> QED
      BY <3>1 DEF RowThere
  <2> QED
    BY <2>1, <2>2
<1> QED
  BY <1>2, <1>3

LEMMA NextBound ==
  ASSUME Kept, Lone, Bound, [Next]_vars
  PROVE  Bound'
<1> SUFFICES ASSUME seen' \subseteq {"lost"}
             PROVE  /\ (\A r \in Req : BodyThere(r)') /\ (\A p \in Part : RowThere(p)')
                    /\ \A r \in Req : req'[r].at = "binding" => AllThere(req[r].binding)'
                    /\ \A i \in 1..Len(items') : AllThere(items[i])'
  BY DEF Bound
<1>1. /\ seen \subseteq {"lost"} /\ TypeOK /\ Alone /\ Settled
      /\ (\A r \in Req : BodyThere(r)) /\ (\A p \in Part : RowThere(p))
      /\ \A r \in Req : req[r].at = "binding" => AllThere(req[r].binding)
      /\ \A i \in 1..Len(items) : AllThere(items[i])
  BY SeenGrows DEF Bound, Kept, Lone
<1>2. CASE UNCHANGED <<part, disk, items, req>>
  BY <1>1, <1>2 DEF BodyThere, RowThere, AllThere
<1>3. ASSUME NEW r \in Req, Store(r) \/ Finalize(r) \/ LoseRequest(r)
      PROVE  /\ (\A q \in Req : BodyThere(q)') /\ (\A p \in Part : RowThere(p)')
             /\ \A q \in Req : req'[q].at = "binding" => AllThere(req[q].binding)'
             /\ \A i \in 1..Len(items') : AllThere(items[i])'
  <2>1. (\A q \in Req : BodyThere(q)') /\ (\A p \in Part : RowThere(p)')
    BY <1>1, <1>3, SizesStay
  <2>2. \A q \in Req \ {r} : req'[q] = req[q]
    BY <1>1, <1>3, OthersStay
  <2>3. CASE \E p \in Part : StoreCheck(r, p)
    <3>1. req'[r].at = "storing" /\ UNCHANGED <<disk, items>>
      BY <1>1, <2>3 DEF StoreCheck, Idle, TypeOK
    <3> QED
      BY <1>1, <2>1, <2>2, <3>1 DEF AllThere
  <2>4. CASE Store(r) /\ ~\E p \in Part : StoreCheck(r, p)
    <3>1. req[r].at # "idle" /\ req[r].at \notin {"finalizing", "binding"} /\ UNCHANGED items
      BY <2>4 DEF Store, StoreWrite, StoreAbort, StoreLook, StoreMeasure, StoreRefuse,
                  StoreUpsert, StoreCleanup, Close
    <3>2. items = << >>
      BY <1>1, <3>1 DEF Settled, Resting
    <3>3. \A q \in Req \ {r} : req'[q].at # "binding"
      BY <1>1, <2>2, <3>1 DEF Alone
    <3>4. req'[r].at # "binding"
      <4>1. CASE \E f \in File, size \in 1..MaxSize : StoreWrite(r, f, size)
        BY <1>1, <4>1 DEF StoreWrite, TypeOK, Request
      <4>2. CASE StoreLook(r)
        BY <1>1, <4>2 DEF StoreLook, TypeOK, Request
      <4>3. CASE StoreMeasure(r) \/ StoreUpsert(r) \/ StoreCleanup(r)
        BY <1>1, <4>3 DEF StoreMeasure, StoreUpsert, StoreCleanup, Advance, TypeOK, Request
      <4>4. CASE Rest(r)
        BY <1>1, <4>4 DEF Rest, Idle, TypeOK
      <4> QED
        BY <2>4, <4>1, <4>2, <4>3, <4>4 DEF Store, StoreAbort, StoreRefuse, Close
    <3> QED
      BY <2>1, <3>1, <3>2, <3>3, <3>4
  <2>5. CASE LoseRequest(r) \/ FinalizeCheck(r)
    <3>1. req'[r].at # "binding" /\ UNCHANGED <<disk, items>>
      <4>1. CASE LoseRequest(r)
        BY <1>1, <4>1 DEF LoseRequest, Rest, Idle, TypeOK
      <4>2. CASE FinalizeCheck(r)
        BY <1>1, <4>2 DEF FinalizeCheck, Advance, TypeOK, Request
      <4> QED
        BY <2>5, <4>1, <4>2
    <3> QED
      BY <1>1, <2>1, <2>2, <3>1 DEF AllThere
  <2>6. CASE FinalizeRead(r)
    <3>1. UNCHANGED <<part, disk, items>> /\ (req'[r].at = "binding" => req'[r].binding = PartKeys)
      <4>1. CASE Rest(r)
        BY <1>1, <2>6, <4>1 DEF FinalizeRead, Rest, Idle, TypeOK
      <4>2. CASE req' = [req EXCEPT ![r] = [@ EXCEPT !.at = "binding", !.binding = PartKeys]]
        <5>1. req'[r] = [req[r] EXCEPT !.at = "binding", !.binding = PartKeys]
          BY <1>1, <4>2 DEF TypeOK
        <5>2. req[r] \in Request
          BY <1>1 DEF TypeOK
        <5>3. req'[r].binding = PartKeys
          BY <5>1, <5>2 DEF Request
        <5> QED
          BY <2>6, <5>3 DEF FinalizeRead
      <4> QED
        BY <2>6, <4>1, <4>2 DEF FinalizeRead
    <3>2. AllThere(PartKeys)
      BY <1>1 DEF Kept, Custody, RowKeeps, RowThere, AllThere, PartKeys
    <3>3. AllThere(PartKeys)' /\ \A i \in 1..Len(items') : AllThere(items[i])'
      BY <1>1, <3>1, <3>2 DEF AllThere, PartKeys
    <3>4. ASSUME NEW q \in Req, req'[q].at = "binding"
          PROVE  AllThere(req[q].binding)'
      <4>1. CASE q = r
        BY <1>1, <3>1, <3>2, <3>4, <4>1 DEF AllThere
      <4>2. CASE q # r
        BY <1>1, <2>2, <3>1, <3>4, <4>2 DEF AllThere
      <4> QED
        BY <4>1, <4>2
    <3> QED
      BY <2>1, <3>3, <3>4
  <2>7. CASE FinalizeCommit(r)
    <3>1. /\ req[r].at = "binding" /\ items' = Append(items, req[r].binding)
          /\ req'[r].at # "binding" /\ UNCHANGED disk
      BY <1>1, <2>7 DEF FinalizeCommit, Rest, Idle, TypeOK
    <3>2. items = << >>
      BY <1>1, <3>1 DEF Settled, Resting
    <3>3. Len(items') = 1 /\ items'[1] = req[r].binding
      BY <3>1, <3>2
    <3>4. AllThere(req[r].binding)
      BY <1>1, <3>1
    <3> QED
      BY <1>1, <2>1, <2>2, <3>1, <3>3, <3>4 DEF AllThere
  <2> QED
    BY <1>3, <2>3, <2>4, <2>5, <2>6, <2>7 DEF Finalize
<1>4. CASE Lifetime \/ UNCHANGED vars
  BY <1>2, <1>4 DEF Lifetime, Prepare, Deadline, ExpireMark, vars
<1>5. \A r \in Req : ~Register(r)
  BY <1>1 DEF Kept, Register, RegisterCheck, RegisterAdmit, RegisterUpsert, See
<1> QED
  BY <1>3, <1>4, <1>5 DEF Next

\* As long as parts go through the server one after the other, the files of a
\* finalized item stay, whatever requests stop half way: no cleanup outlives the
\* finalization.
THEOREM FinalizedFilesStay == Spec => []BoundFilesStay
<1>1. Init => Bound
  BY DEF Init, Bound, BodyThere, RowThere, NoRow, Idle
<1>2. Spec => []Kept
  BY InitKept, NextKept, PTL DEF Spec
<1>3. Kept /\ TypeOK /\ Lone /\ Bound /\ [Next]_vars => Bound'
  BY NextBound
<1>4. Bound => BoundFilesStay
  BY DEF Bound, AllThere, BoundFilesStay
<1> QED
  BY <1>1, <1>2, <1>3, <1>4, AlwaysLone, PTL DEF Spec

-----------------------------------------------------------------------------
(***************************************************************************)
(* What the rows take together.  The sum that the quota is compared with   *)
(* is the number of bytes counted one by one; a row's bytes are disjoint   *)
(* from the others', so that a row that is written anew changes the sum by *)
(* the difference of the two sizes.                                        *)
(***************************************************************************)
Pick(s) == CHOOSE x \in s : TRUE

SumsUp(rows, sum) ==
  sum = [s \in SUBSET Part |-> IF s = {} THEN 0 ELSE rows[Pick(s)].size + sum[s \ {Pick(s)}]]

Total(rows) == (CHOOSE sum : SumsUp(rows, sum))[Part]

Bytes(rows, s) == {b \in s \X (1..MaxSize) : b[2] <= rows[b[1]].size}

\* Usage sums the sizes of the rows.
LEMMA UsageIsTotal == Usage = Total(part) /\ Usage' = Total(part')
  BY DEF Usage, Total, SumsUp, Pick, MapThenSumSet, MapThenFoldSet

\* Induction over the subsets of a finite set, by a least counterexample.
LEMMA MinimalSubset ==
  ASSUME NEW S, IsFiniteSet(S), NEW T \in SUBSET (SUBSET S), T # {}
  PROVE  \E s \in T : \A t \in T : ~(t \subseteq s /\ t # s)
<1>1. T \subseteq FiniteSubsetsOf(S)
  BY FS_FiniteSubsetsOfFinite
<1>2. PICK s \in T : \A t \in T : <<t, s>> \notin StrictSubsetOrdering(S)
  BY <1>1, FS_StrictSubsetOrderingWellFounded, WFMin
<1> QED
  BY <1>2 DEF StrictSubsetOrdering

LEMMA BytesFinite ==
  ASSUME NEW rows \in [Part -> PartRow], NEW s \in SUBSET Part
  PROVE  IsFiniteSet(Bytes(rows, s)) /\ Cardinality(Bytes(rows, s)) \in Nat
<1>1. IsFiniteSet(s) /\ IsFiniteSet(1..MaxSize)
  BY FS_Subset, FS_Interval
<1>2. IsFiniteSet(s \X (1..MaxSize))
  BY <1>1, FS_Product
<1>3. Bytes(rows, s) \in SUBSET (s \X (1..MaxSize))
  BY DEF Bytes
<1> QED
  BY <1>2, <1>3, FS_Subset, FS_CardinalityType

LEMMA BytesOfOne ==
  ASSUME NEW rows \in [Part -> PartRow], NEW x \in Part
  PROVE  Cardinality(Bytes(rows, {x})) = rows[x].size
<1>1. rows[x].size \in 0..MaxSize
  BY DEF PartRow
<1>2. Bytes(rows, {x}) = {x} \X (1..rows[x].size)
  <2>1. \A k : k \in 1..MaxSize /\ k <= rows[x].size <=> k \in 1..rows[x].size
    BY <1>1
  <2>2. \A b : b \in Bytes(rows, {x}) <=> b \in {x} \X (1..rows[x].size)
    BY <2>1 DEF Bytes
  <2> QED
    BY <2>2
<1>3. IsFiniteSet({x}) /\ Cardinality({x}) = 1
  BY FS_Singleton
<1>4. IsFiniteSet(1..rows[x].size) /\ Cardinality(1..rows[x].size) = rows[x].size
  <2> DEFINE n == rows[x].size
  <2>1. n \in Int /\ 1 \in Int /\ (IF 1 > n THEN 0 ELSE n - 1 + 1) = n
    BY <1>1
  <2> HIDE DEF n
  <2>2. IsFiniteSet(1..n) /\ Cardinality(1..n) = IF 1 > n THEN 0 ELSE n - 1 + 1
    BY <2>1, FS_Interval
  <2> QED
    BY <2>1, <2>2 DEF n
<1>5. Cardinality({x} \X (1..rows[x].size)) = 1 * rows[x].size
  BY <1>3, <1>4, FS_Product
<1>6. 1 * rows[x].size = rows[x].size
  BY <1>1
<1> QED
  BY <1>2, <1>5, <1>6

LEMMA BytesSplit ==
  ASSUME NEW rows \in [Part -> PartRow], NEW s \in SUBSET Part, NEW x \in s
  PROVE  Cardinality(Bytes(rows, s)) = rows[x].size + Cardinality(Bytes(rows, s \ {x}))
<1> DEFINE rest == Bytes(rows, s \ {x})
           one == Bytes(rows, {x})
<1>1. Bytes(rows, s) = one \cup rest /\ one \cap rest = {}
  BY DEF Bytes
<1>2. IsFiniteSet(one) /\ IsFiniteSet(rest) /\ Cardinality(rest) \in Nat
  BY BytesFinite
<1>3. Cardinality(one) = rows[x].size /\ rows[x].size \in Nat
  BY BytesOfOne DEF PartRow
<1> HIDE DEF rest, one
<1>4. Cardinality(one \cup rest) = Cardinality(one) + Cardinality(rest) - Cardinality({})
  BY <1>1, <1>2, FS_Union
<1> QED
  BY <1>1, <1>2, <1>3, <1>4, FS_EmptySet DEF rest

\* A sum exists: it counts the bytes.
LEMMA SumExists ==
  ASSUME NEW rows \in [Part -> PartRow]
  PROVE  \E sum : SumsUp(rows, sum)
<1> DEFINE count == [s \in SUBSET Part |-> Cardinality(Bytes(rows, s))]
<1>1. ASSUME NEW s \in SUBSET Part
      PROVE  count[s] = IF s = {} THEN 0 ELSE rows[Pick(s)].size + count[s \ {Pick(s)}]
  <2>1. CASE s = {}
    <3>1. Bytes(rows, s) = {}
      BY <2>1 DEF Bytes
    <3> QED
      BY <2>1, <3>1, FS_EmptySet
  <2>2. CASE s # {}
    <3>1. Pick(s) \in s
      BY <2>2 DEF Pick
    <3> QED
      BY <2>2, <3>1, BytesSplit
  <2> QED
    BY <2>1, <2>2
<1>2. count = [s \in SUBSET Part |->
                 IF s = {} THEN 0 ELSE rows[Pick(s)].size + count[s \ {Pick(s)}]]
  <2> HIDE DEF count
  <2> QED
    BY <1>1 DEF count
<1> HIDE DEF count
<1> QED
  BY <1>2 DEF SumsUp

LEMMA TotalCounts ==
  ASSUME NEW rows \in [Part -> PartRow]
  PROVE  Total(rows) = Cardinality(Bytes(rows, Part))
<1> DEFINE sum == CHOOSE sum : SumsUp(rows, sum)
           Wrong == {s \in SUBSET Part : sum[s] # Cardinality(Bytes(rows, s))}
<1>1. SumsUp(rows, sum)
  BY SumExists
<1> HIDE DEF sum
<1>2. \A s \in SUBSET Part :
        sum[s] = IF s = {} THEN 0 ELSE rows[Pick(s)].size + sum[s \ {Pick(s)}]
  BY <1>1 DEF SumsUp
<1>3. ASSUME NEW s \in Wrong, \A t \in Wrong : ~(t \subseteq s /\ t # s) PROVE FALSE
  <2>1. CASE s = {}
    <3>1. Bytes(rows, s) = {}
      BY <2>1 DEF Bytes
    <3> QED
      BY <1>2, <2>1, <3>1, FS_EmptySet
  <2>2. CASE s # {}
    <3>1. Pick(s) \in s
      BY <2>2 DEF Pick
    <3>2. sum[s \ {Pick(s)}] = Cardinality(Bytes(rows, s \ {Pick(s)}))
      BY <1>3, <3>1
    <3> QED
      BY <1>2, <2>2, <3>1, <3>2, BytesSplit
  <2> QED
    BY <2>1, <2>2
<1>4. Wrong = {}
  <2>1. Wrong \in SUBSET (SUBSET Part)
    OBVIOUS
  <2> HIDE DEF Wrong
  <2> QED
    BY <1>3, <2>1, MinimalSubset
<1> QED
  BY <1>4 DEF Total, sum

\* A row that is written changes the sum by the difference of the sizes.
LEMMA TotalOfChange ==
  ASSUME NEW rows \in [Part -> PartRow], NEW p \in Part, NEW row \in PartRow
  PROVE  /\ Total([rows EXCEPT ![p] = row]) = (Total(rows) - rows[p].size) + row.size
         /\ Total(rows) \in Nat
<1> DEFINE after == [rows EXCEPT ![p] = row]
<1>1. after \in [Part -> PartRow] /\ after[p] = row /\ \A q \in Part \ {p} : after[q] = rows[q]
  OBVIOUS
<1> HIDE DEF after
<1>2. Bytes(after, Part \ {p}) = Bytes(rows, Part \ {p})
  BY <1>1 DEF Bytes
<1>3. Total(after) = row.size + Cardinality(Bytes(rows, Part \ {p}))
  BY <1>1, <1>2, TotalCounts, BytesSplit
<1>4. Total(rows) = rows[p].size + Cardinality(Bytes(rows, Part \ {p}))
  BY TotalCounts, BytesSplit
<1>5. /\ rows[p].size \in Nat /\ row.size \in Nat
      /\ Cardinality(Bytes(rows, Part \ {p})) \in Nat
  BY BytesFinite DEF PartRow
<1> QED
  BY <1>3, <1>4, <1>5 DEF after

LEMMA NothingTakesNothing == Init => Total(part) = 0
<1> SUFFICES ASSUME Init PROVE Total(part) = 0
  OBVIOUS
<1>1. part \in [Part -> PartRow]
  BY InitTypes DEF TypeOK
<1>2. Bytes(part, Part) = {}
  BY DEF Init, NoRow, Bytes
<1> QED
  BY <1>1, <1>2, TotalCounts, FS_EmptySet

-----------------------------------------------------------------------------
(***************************************************************************)
(* The quota, when requests do not overlap.  A request that has been let   *)
(* in is the only one under way, so that what it has measured is still     *)
(* what the rows take when it writes its own.                              *)
(***************************************************************************)
Measured(r) ==
  req[r].at \in {"upserting", "entering"} =>
    (Total(part) - part[req[r].part].size) + req[r].size <= Quota

Budgeted == "overlap" \notin seen => Total(part) <= Quota /\ \A r \in Req : Measured(r)

LEMMA AdmitMeasures ==
  ASSUME TypeOK, NEW r \in Req, Store(r) \/ Register(r) \/ Finalize(r) \/ LoseRequest(r),
         UNCHANGED part, req'[r].at \in {"upserting", "entering"}
  PROVE  Measured(r)'
<1>1. StoreMeasure(r) \/ RegisterAdmit(r)
  <2>1. ASSUME Rest(r) PROVE FALSE
    BY <2>1 DEF Rest, Idle, TypeOK
  <2>2. ASSUME NEW p \in Part, StoreCheck(r, p) PROVE FALSE
    BY <2>2 DEF StoreCheck, Idle, TypeOK
  <2>3. ASSUME NEW f \in File, NEW size \in 1..MaxSize, StoreWrite(r, f, size) PROVE FALSE
    BY <2>3 DEF StoreWrite, TypeOK, Request
  <2>4. ASSUME NEW p \in Part, NEW f \in File, NEW size \in 1..MaxSize,
               RegisterCheck(r, p, f, size)
        PROVE  FALSE
    BY <2>4 DEF RegisterCheck, Idle, TypeOK
  <2>5. ASSUME StoreLook(r) PROVE FALSE
    BY <2>5 DEF StoreLook, TypeOK, Request
  <2>6. ASSUME StoreUpsert(r) \/ StoreCleanup(r) \/ RegisterUpsert(r) PROVE FALSE
    BY <2>6 DEF StoreUpsert, StoreCleanup, RegisterUpsert, Advance, TypeOK, Request
  <2>7. ASSUME Finalize(r) PROVE FALSE
    BY <2>1, <2>7, FinalizeMoves DEF TypeOK
  <2>8. CASE Store(r)
    BY <2>1, <2>2, <2>3, <2>5, <2>6, <2>8 DEF Store, StoreAbort, StoreRefuse, Close
  <2>9. CASE Register(r)
    BY <2>4, <2>6, <2>9 DEF Register
  <2> QED
    BY <2>1, <2>7, <2>8, <2>9 DEF LoseRequest
<1>2. Fits(req[r].part, req[r].size) /\ \E to \in Places : Advance(r, to)
  <2>1. ASSUME Rest(r) PROVE FALSE
    BY <2>1 DEF Rest, Idle, TypeOK
  <2>2. ASSUME Advance(r, "refused") PROVE FALSE
    BY <2>2 DEF Advance, TypeOK, Request
  <2> QED
    BY <1>1, <2>1, <2>2 DEF StoreMeasure, RegisterAdmit, Places
<1>3. req'[r].part = req[r].part /\ req'[r].size = req[r].size
  BY <1>2 DEF Advance, TypeOK, Request
<1> QED
  BY <1>2, <1>3, UsageIsTotal DEF Fits, Measured

LEMMA NextBudgeted ==
  ASSUME TypeOK, Lone, Budgeted, [Next]_vars
  PROVE  Budgeted'
<1> SUFFICES ASSUME "overlap" \notin seen'
             PROVE  Total(part') <= Quota /\ \A q \in Req : Measured(q)'
  BY DEF Budgeted
<1>1. Alone /\ Total(part) <= Quota /\ \A q \in Req : Measured(q)
  BY SeenGrows DEF Lone, Budgeted
<1>2. CASE UNCHANGED <<part, req>>
  BY <1>1, <1>2 DEF Measured
<1>3. ASSUME NEW r \in Req, Store(r) \/ Register(r) \/ Finalize(r) \/ LoseRequest(r)
      PROVE  Total(part') <= Quota /\ \A q \in Req : Measured(q)'
  <2>1. \A q \in Req \ {r} : req'[q] = req[q]
    BY <1>3, OthersStay
  <2>2. CASE StoreUpsert(r) \/ RegisterUpsert(r)
    <3> DEFINE row == [file |-> req[r].file, size |-> req[r].size]
    <3>1. /\ req[r].at \in {"upserting", "entering"} /\ part' = [part EXCEPT ![req[r].part] = row]
          /\ req'[r].at \notin {"upserting", "entering"}
      BY <2>2 DEF StoreUpsert, RegisterUpsert, Advance, TypeOK, Request
    <3>2. row \in PartRow /\ row.size = req[r].size /\ req[r].part \in Part
      BY <3>1, CarriedType, PartKnown DEF OnPart, Places
    <3> HIDE DEF row
    <3>3. Total(part') = (Total(part) - part[req[r].part].size) + req[r].size
      <4>1. part \in [Part -> PartRow]
        BY DEF TypeOK
      <4>2. Total([part EXCEPT ![req[r].part] = row])
              = (Total(part) - part[req[r].part].size) + row.size
        BY <3>2, <4>1, TotalOfChange
      <4> QED
        BY <3>1, <3>2, <4>2
    <3>4. \A q \in Req : req'[q].at \notin {"upserting", "entering"}
      BY <1>1, <2>1, <3>1 DEF Alone
    <3> QED
      BY <1>1, <3>1, <3>3, <3>4 DEF Measured
  <2>3. CASE ~(StoreUpsert(r) \/ RegisterUpsert(r))
    <3>1. UNCHANGED part
      BY <1>3, <2>3
         DEF Store, StoreCheck, StoreWrite, StoreAbort, StoreLook, StoreMeasure, StoreRefuse,
             StoreCleanup, Close, Register, RegisterCheck, RegisterAdmit, Finalize,
             FinalizeCheck, FinalizeRead, FinalizeCommit, LoseRequest
    <3>2. \A q \in Req \ {r} : Measured(q)'
      BY <1>1, <2>1, <3>1 DEF Measured
    <3>3. Measured(r)'
      <4>1. CASE req'[r].at \in {"upserting", "entering"}
        BY <1>3, <3>1, <4>1, AdmitMeasures
      <4>2. CASE req'[r].at \notin {"upserting", "entering"}
        BY <4>2 DEF Measured
      <4> QED
        BY <4>1, <4>2
    <3> QED
      BY <1>1, <3>1, <3>2, <3>3
  <2> QED
    BY <2>2, <2>3
<1>4. CASE Lifetime \/ UNCHANGED vars
  BY <1>2, <1>4 DEF Lifetime, Prepare, Deadline, ExpireMark, vars
<1> QED
  BY <1>3, <1>4 DEF Next

\* As long as requests do not overlap the parts stay within the quota, which is
\* measured in a step of its own, before the row is written.
THEOREM PartsStayWithinQuota == Spec => []WithinQuota
<1>1. Init => Budgeted
  <2> SUFFICES ASSUME Init PROVE Budgeted
    OBVIOUS
  <2>1. Total(part) = 0 /\ \A r \in Req : req[r].at = "idle"
    BY NothingTakesNothing DEF Init, Idle
  <2> QED
    BY <2>1 DEF Budgeted, Measured
<1>2. TypeOK /\ Lone /\ Budgeted /\ [Next]_vars => Budgeted'
  BY NextBudgeted
<1>3. Budgeted => WithinQuota
  BY UsageIsTotal DEF Budgeted, WithinQuota
<1> QED
  BY <1>1, <1>2, <1>3, AlwaysLone, PTL DEF Spec
=============================================================================

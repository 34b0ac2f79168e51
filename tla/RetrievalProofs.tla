--------------------------- MODULE RetrievalProofs ---------------------------
(***************************************************************************)
(* Theorems about Retrieval and, from "The views" on, about Projection:    *)
(* the requests that read an item or a share, and the lists that show      *)
(* them.  For any number of scopes, requests and owner requests, and any   *)
(* horizon.                                                                *)
(***************************************************************************)
EXTENDS Retrieval, Projection, SourceItemProofs, TLAPS

-----------------------------------------------------------------------------
(***************************************************************************)
(* The inductive invariant.  A share is inserted once, before any attempt  *)
(* on it: while there is none, nothing of a recipient's has happened, so   *)
(* that the insertion opens nothing that a completion has closed.  A late  *)
(* refusal writes a reason, whatever it overwrites.                        *)
(***************************************************************************)
Untouched ==
  /\ "recipient" \notin finished
  /\ \A s \in Scope : attempt["recipient"][s] = "none"
  /\ \A r \in Req : req[r].reader = "owner"

SharedOnce ==
  /\ maker # NotReading => share.state = "none"
  /\ share.state = "none" => Untouched

Refuses(r) ==
  req[r].at = "refusing" => req[r].reader = "recipient" /\ req[r].reason \in Reasons

Sealed ==
  /\ TypeOK
  /\ SharedOnce
  /\ \A r \in Req : Refuses(r)
  /\ ReadOnceCloses

-----------------------------------------------------------------------------
(* Requests that begin and end *)

\* A request that only reads: of a recipient's there is a share.
LEMMA EnterKeepsSealed ==
  ASSUME Sealed, NEW r \in Req, NEW at \in Places, NEW reader \in Reader,
         NEW s \in Scope, NEW reason \in Reasons \cup {"none"},
         Enter(r, at, reader, s, reason),
         reader = "recipient" => share.state # "none",
         at = "refusing" => reader = "recipient" /\ reason \in Reasons
  PROVE  Sealed'
<1> USE DEF Sealed
<1>1. /\ req' = [req EXCEPT ![r] = [at |-> at, reader |-> reader, scope |-> s, reason |-> reason]]
      /\ UNCHANGED <<now, source, owner, burn, share, attempt, maker, finished>>
  BY DEF Enter
<1>2. TypeOK'
  BY <1>1 DEF TypeOK, SourceTypeOK, Time, Request, Reader
<1>3. SharedOnce'
  BY <1>1 DEF SharedOnce, Untouched, TypeOK, Reader
<1>4. \A p \in Req : Refuses(p)'
  BY <1>1 DEF Refuses, TypeOK
<1>5. ReadOnceCloses'
  BY <1>1 DEF ReadOnceCloses, Closed
<1> QED
  BY <1>2, <1>3, <1>4, <1>5

\* A request that leaves has nothing of a recipient's any more.
LEMMA LeaveTyped ==
  ASSUME Sealed, NEW r \in Req, Leave(r)
  PROVE  /\ req' \in [Req -> Request]
         /\ \A p \in Req : Refuses(p)'
         /\ \A p \in Req : req'[p].reader = "recipient" => req[p].reader = "recipient"
<1>1. Idle \in Request
  BY DEF Idle, Request, Places, Reader, Reasons
<1>2. req' = [req EXCEPT ![r] = Idle] /\ req \in [Req -> Request]
  BY DEF Leave, Sealed, TypeOK
<1> QED
  BY <1>1, <1>2 DEF Sealed, Refuses, Idle

-----------------------------------------------------------------------------
(* The share *)

\* What is written over a share that is there, with the request's record dropped:
\* it stays as it is or is closed.
LEMMA ShareWriteKeepsSealed ==
  ASSUME Sealed, NEW r \in Req, Leave(r), share.state # "none",
         NEW reason \in Reasons, share' = [share EXCEPT !.state = reason],
         UNCHANGED <<now, source, owner, burn, attempt, maker, finished>>
  PROVE  Sealed'
<1> USE DEF Sealed
<1>1. share' \in Share /\ share'.state = reason /\ share'.repeat = share.repeat
  BY DEF TypeOK, Share
<1>2. TypeOK'
  BY <1>1, LeaveTyped DEF TypeOK, SourceTypeOK, Time
<1>3. SharedOnce'
  BY <1>1 DEF SharedOnce, Reasons
<1>4. ReadOnceCloses'
  BY <1>1 DEF ReadOnceCloses, Closed
<1> QED
  BY <1>2, <1>3, <1>4, LeaveTyped

\* The insertion of the share.
LEMMA CreateKeepsSealed ==
  ASSUME Sealed, Create
  PROVE  Sealed'
<1> USE DEF Sealed
<1>1. CASE CreateShareRead
  <2>1. TypeOK'
    BY <1>1 DEF CreateShareRead, TypeOK, SourceTypeOK, Time, Source
  <2> QED
    BY <1>1, <2>1 DEF CreateShareRead, SharedOnce, Untouched, Refuses, ReadOnceCloses, Closed
<1>2. CASE CreateShareGiveUp
  <2>1. TypeOK'
    BY <1>2 DEF CreateShareGiveUp, TypeOK, SourceTypeOK, Time
  <2> QED
    BY <1>2, <2>1 DEF CreateShareGiveUp, SharedOnce, Untouched, Refuses, ReadOnceCloses, Closed
<1>3. ASSUME NEW candidate \in now..Forever, NEW repeat \in BOOLEAN,
             CreateShareInsert(candidate, repeat)
      PROVE  Sealed'
  <2>1. Untouched /\ maker \in Until
    BY <1>3 DEF CreateShareInsert, SharedOnce, TypeOK
  <2>2. candidate \in Until
    BY HorizonAssumption DEF Until, Forever, TypeOK, SourceTypeOK, Time
  <2>3. ClampValidUntil(candidate, maker) \in Until
    BY <2>1, <2>2 DEF ClampValidUntil
  <2>4. share' \in Share /\ share'.state = "ACTIVE"
    BY <1>3, <2>3 DEF CreateShareInsert, Share
  <2>5. TypeOK'
    BY <1>3, <2>4 DEF CreateShareInsert, TypeOK, SourceTypeOK, Time
  <2>6. SharedOnce' /\ (\A r \in Req : Refuses(r)')
    BY <1>3, <2>4 DEF CreateShareInsert, SharedOnce, Refuses
  <2>7. ReadOnceCloses'
    BY <1>3, <2>1 DEF CreateShareInsert, ReadOnceCloses, Closed, Untouched
  <2> QED
    BY <2>5, <2>6, <2>7
<1> QED
  BY <1>1, <1>2, <1>3 DEF Create

-----------------------------------------------------------------------------
(* The item *)

\* The owner's other requests, with the cascade or without.
LEMMA SourceKeepsSealed ==
  ASSUME Sealed, SourceAlone \/ SourceCascade
  PROVE  Sealed'
<1> USE DEF Sealed
<1>1. PlainSourceStep \/ CascadingSourceStep
  BY DEF SourceAlone, SourceCascade, PlainSourceStep
<1>2. SourceTypeOK'
  BY <1>1, SourceStepType DEF TypeOK
<1>3. source.state # "ACTIVE" => source'.state # "ACTIVE"
  BY <1>1, SourceStaysInactive DEF TypeOK
<1>4. CASE SourceAlone
  <2>1. UNCHANGED <<burn, share, attempt, req, maker, finished>>
    BY <1>4 DEF SourceAlone
  <2> QED
    BY <1>2, <1>3, <2>1 DEF TypeOK, SharedOnce, Untouched, Refuses, ReadOnceCloses, Closed
<1>5. CASE SourceCascade
  <2>1. UNCHANGED <<burn, req, maker, finished>>
    BY <1>5 DEF SourceCascade
  <2>2. /\ share' \in Share /\ share'.repeat = share.repeat
        /\ share'.state = "none" <=> share.state = "none"
        /\ share.state \in Reasons => share'.state \in Reasons
    BY <1>5 DEF SourceCascade, TypeOK, Share, Reasons
  <2>3. attempt' \in [Reader -> [Scope -> Statuses]]
    BY <1>5 DEF SourceCascade, TypeOK, Statuses
  <2>4. \A s \in Scope : attempt["recipient"][s] = "none" => attempt'["recipient"][s] = "none"
    BY <1>5 DEF SourceCascade, Reader
  <2>5. TypeOK'
    BY <1>2, <2>1, <2>2, <2>3 DEF TypeOK
  <2>6. SharedOnce' /\ (\A r \in Req : Refuses(r)')
    BY <2>1, <2>2, <2>4 DEF SharedOnce, Untouched, Refuses
  <2>7. ReadOnceCloses'
    BY <1>3, <2>1, <2>2 DEF ReadOnceCloses, Closed
  <2> QED
    BY <2>5, <2>6, <2>7
<1> QED
  BY <1>4, <1>5

-----------------------------------------------------------------------------
(* The requests *)

LEMMA ArriveKeepsSealed ==
  ASSUME Sealed, NEW r \in Req, Arrive(r)
  PROVE  Sealed'
<1> USE DEF Places, Reader, Reasons
<1>1. ASSUME NEW s \in Scope, IssueSourceItemRetrieval(r, s)
      PROVE  Sealed'
  BY <1>1, EnterKeepsSealed DEF IssueSourceItemRetrieval
<1>2. ASSUME NEW s \in Scope, IssueRecipientRetrieval(r, s)
      PROVE  Sealed'
  BY <1>2, EnterKeepsSealed DEF IssueRecipientRetrieval
<1>3. \A s \in Scope : attempt["recipient"][s] # "none" => share.state # "none"
  BY DEF Sealed, SharedOnce, Untouched
<1>4. ASSUME NEW s \in Scope, NEW reader \in Reader, CreateDownloadStreamForAttempt(r, reader, s)
      PROVE  Sealed'
  BY <1>3, <1>4, EnterKeepsSealed DEF CreateDownloadStreamForAttempt
<1>5. ASSUME NEW s \in Scope, NEW reader \in Reader, NEW success \in BOOLEAN,
             CompleteRetrieval(r, reader, s, success)
      PROVE  Sealed'
  BY <1>3, <1>5, EnterKeepsSealed DEF CompleteRetrieval
<1> QED
  BY <1>1, <1>2, <1>4, <1>5 DEF Arrive

\* A status is written, and the request leaves.
LEMMA StatusTyped ==
  ASSUME Sealed, NEW r \in Req, NEW status \in Statuses, SetStatus(r, status)
  PROVE  /\ attempt' \in [Reader -> [Scope -> Statuses]]
         /\ req[r].reader = "owner" => attempt'["recipient"] = attempt["recipient"]
BY DEF SetStatus, Sealed, TypeOK, Reader

\* A status alone is written.
LEMMA StatusKeepsSealed ==
  ASSUME Sealed, NEW r \in Req, Leave(r), NEW status \in Statuses, SetStatus(r, status),
         UNCHANGED <<now, source, owner, burn, share, maker, finished>>
  PROVE  Sealed'
<1> USE DEF Sealed
<1>1. TypeOK'
  BY LeaveTyped, StatusTyped DEF TypeOK, SourceTypeOK, Time
<1>2. SharedOnce'
  <2>1. ASSUME share.state = "none" PROVE Untouched'
    BY <2>1, LeaveTyped, StatusTyped DEF SharedOnce, Untouched, TypeOK, Request, Reader
  <2> QED
    BY <2>1 DEF SharedOnce
<1>3. ReadOnceCloses'
  BY DEF ReadOnceCloses, Closed
<1> QED
  BY <1>1, <1>2, <1>3, LeaveTyped

\* The completion: what it burns or consumes it closes in the same step.
LEMMA CompletionKeepsSealed ==
  ASSUME Sealed, NEW r \in Req, CompleteCommit(r)
  PROVE  Sealed'
<1> USE DEF Sealed
<1> DEFINE reader == req[r].reader
<1>1. /\ reader \in Reader /\ finished' = finished \cup {reader}
      /\ UNCHANGED <<now, owner, burn, maker>>
  BY DEF CompleteCommit, TypeOK, Request
<1>2. /\ source' \in Source
      /\ source.state # "ACTIVE" => source'.state # "ACTIVE"
      /\ burn /\ reader = "owner" => source'.state # "ACTIVE"
  BY DEF CompleteCommit, PurgeItem, SetState, TypeOK, SourceTypeOK, Source, SourceStates
<1>3. /\ share' \in Share /\ share'.repeat = share.repeat
      /\ share.state \in Reasons => share'.state \in Reasons
      /\ reader = "recipient" /\ ~share.repeat => share'.state \in Reasons
      /\ reader = "owner" => share' = share
      /\ share.state # "none" => share'.state # "none"
  BY DEF CompleteCommit, ConsumeShare, CloseShare, TypeOK, Share, Reasons
<1>4. /\ attempt' \in [Reader -> [Scope -> Statuses]]
      /\ reader = "owner" => attempt'["recipient"] = attempt["recipient"]
  BY StatusTyped DEF CompleteCommit, Statuses
<1>5. Leave(r)
  BY DEF CompleteCommit
<1>6. share.state = "none" => reader = "owner"
  BY DEF SharedOnce, Untouched
<1>7. TypeOK'
  BY <1>1, <1>2, <1>3, <1>4, <1>5, LeaveTyped DEF TypeOK, SourceTypeOK, Time
<1>8. SharedOnce'
  <2>1. ASSUME share'.state = "none" PROVE Untouched'
    <3>1. share.state = "none" /\ Untouched /\ reader = "owner"
      BY <1>3, <1>6, <2>1 DEF SharedOnce
    <3>2. "recipient" \notin finished' /\ \A s \in Scope : attempt'["recipient"][s] = "none"
      BY <1>1, <1>4, <3>1 DEF Untouched
    <3>3. \A p \in Req : req'[p].reader = "owner"
      BY <1>5, <3>1, LeaveTyped DEF Untouched, Request, Reader
    <3> QED
      BY <3>2, <3>3 DEF Untouched
  <2>2. maker' # NotReading => share'.state = "none"
    BY <1>1, <1>3, <1>6 DEF SharedOnce
  <2> QED
    BY <2>1, <2>2 DEF SharedOnce
<1>9. ReadOnceCloses'
  <2>1. burn' /\ "owner" \in finished' => Closed("owner")'
    BY <1>1, <1>2 DEF ReadOnceCloses, Closed, Reader
  <2>2. "recipient" \in finished' /\ ~share'.repeat => Closed("recipient")'
    BY <1>1, <1>2, <1>3 DEF ReadOnceCloses, Closed, Reader
  <2> QED
    BY <2>1, <2>2 DEF ReadOnceCloses
<1> QED
  BY <1>5, <1>7, <1>8, <1>9, LeaveTyped

LEMMA ProceedKeepsSealed ==
  ASSUME Sealed, NEW r \in Req, Proceed(r)
  PROVE  Sealed'
<1>1. CASE IssueCommit(r) \/ FailCommit(r)
  BY <1>1, StatusKeepsSealed DEF IssueCommit, FailCommit, Statuses
<1>2. CASE IssueConflict(r) \/ LoseRequest(r)
  <2> USE DEF Sealed
  <2>1. Leave(r) /\ UNCHANGED <<now, source, owner, burn, share, attempt, maker, finished>>
    BY <1>2 DEF IssueConflict, LoseRequest
  <2>2. TypeOK'
    BY <2>1, LeaveTyped DEF TypeOK, SourceTypeOK, Time
  <2>3. SharedOnce'
    BY <2>1, LeaveTyped DEF SharedOnce, Untouched, TypeOK, Request, Reader
  <2>4. ReadOnceCloses'
    BY <2>1 DEF ReadOnceCloses, Closed
  <2> QED
    BY <2>1, <2>2, <2>3, <2>4, LeaveTyped
<1>3. CASE RefuseCommit(r)
  <2>1. req[r].reason \in Reasons /\ share.state # "none"
    BY <1>3 DEF RefuseCommit, Sealed, Refuses, SharedOnce, Untouched
  <2> QED
    BY <1>3, <2>1, ShareWriteKeepsSealed DEF RefuseCommit, CloseShare
<1>4. CASE CompleteCommit(r)
  BY <1>4, CompletionKeepsSealed
<1> QED
  BY <1>1, <1>2, <1>3, <1>4 DEF Proceed

-----------------------------------------------------------------------------
LEMMA InitSealed == Init => Sealed
<1> SUFFICES ASSUME Init PROVE Sealed
  OBVIOUS
<1>1. SourceTypeOK
  BY HorizonAssumption DEF Init, SourceInit, SourceTypeOK, Source, SourceStates, Levels,
                           PendingOps, Time, Until, Forever
<1>2. NoShare \in Share /\ Idle \in Request
  BY HorizonAssumption DEF NoShare, Share, Until, Forever, Idle, Request, Places, Reader, Reasons
<1>3. TypeOK
  BY <1>1, <1>2 DEF Init, TypeOK, Statuses
<1> QED
  BY <1>3 DEF Init, Sealed, SharedOnce, Untouched, Refuses, ReadOnceCloses, Closed,
              NoShare, Idle, Reader

LEMMA NextSealed ==
  ASSUME Sealed, [Next]_vars
  PROVE  Sealed'
<1>1. CASE UNCHANGED vars
  BY <1>1 DEF vars, Sealed, TypeOK, SourceTypeOK, SharedOnce, Untouched, Refuses,
              ReadOnceCloses, Closed
<1>2. CASE Next
  BY <1>2, SourceKeepsSealed, CreateKeepsSealed, ArriveKeepsSealed, ProceedKeepsSealed
     DEF Next
<1> QED
  BY <1>1, <1>2

LEMMA AlwaysSealed == Spec => []Sealed
BY InitSealed, NextSealed, PTL DEF Spec

-----------------------------------------------------------------------------
\* Every reachable state is well typed.
THEOREM RetrievalTypeCorrect == Spec => []TypeOK
<1>1. Sealed => TypeOK
  BY DEF Sealed
<1> QED
  BY <1>1, AlwaysSealed, PTL

\* Whatever requests are under way, a burned item and a consumed share stay closed.
THEOREM ReadOnceIsFinal == Spec => []ReadOnceCloses
<1>1. Sealed => ReadOnceCloses
  BY DEF Sealed
<1> QED
  BY <1>1, AlwaysSealed, PTL

-----------------------------------------------------------------------------
(* The drain *)

\* A step that closes nothing opens nothing, either.
LEMMA ClosedStaysClosed ==
  ASSUME Sealed, NEW reader \in Reader, Closed(reader), [Next]_vars
  PROVE  Closed(reader)'
<1> USE DEF Sealed
<1>1. CASE UNCHANGED vars
  BY <1>1 DEF vars, Closed
<1>2. CASE SourceAlone \/ SourceCascade
  <2>1. PlainSourceStep \/ CascadingSourceStep
    BY <1>2 DEF SourceAlone, SourceCascade, PlainSourceStep
  <2>2. source.state # "ACTIVE" => source'.state # "ACTIVE"
    BY <2>1, SourceStaysInactive DEF TypeOK
  <2>3. share.state \in Reasons => share'.state \in Reasons
    BY <1>2 DEF SourceAlone, SourceCascade, Reasons
  <2> QED
    BY <2>2, <2>3 DEF Closed
<1>3. CASE Create
  BY <1>3 DEF Create, CreateShareRead, CreateShareInsert, CreateShareGiveUp, SharedOnce,
              Closed, Reasons
<1>4. ASSUME NEW r \in Req, Arrive(r)
      PROVE  Closed(reader)'
  BY <1>4 DEF Arrive, IssueSourceItemRetrieval, IssueRecipientRetrieval,
              CreateDownloadStreamForAttempt, CompleteRetrieval, Enter, Closed
<1>5. ASSUME NEW r \in Req, CompleteCommit(r)
      PROVE  Closed(reader)'
  BY <1>5 DEF CompleteCommit, PurgeItem, SetState, ConsumeShare, CloseShare, Closed, Reasons,
              TypeOK, Share, SourceTypeOK, Source
<1>6. ASSUME NEW r \in Req, RefuseCommit(r)
      PROVE  Closed(reader)'
  BY <1>6 DEF RefuseCommit, CloseShare, Refuses, Closed, TypeOK, Share
<1>7. ASSUME NEW r \in Req, IssueCommit(r) \/ IssueConflict(r) \/ FailCommit(r) \/ LoseRequest(r)
      PROVE  Closed(reader)'
  BY <1>7 DEF IssueCommit, IssueConflict, FailCommit, LoseRequest, Closed
<1> QED
  BY <1>1, <1>2, <1>3, <1>4, <1>5, <1>6, <1>7 DEF Next, Proceed

\* Nothing of a closed object is handed out that was not under way before.
LEMMA NothingMoreHandedOut ==
  ASSUME Sealed, NEW reader \in Reader, Closed(reader), ~HandingOut(reader), [Next]_vars
  PROVE  ~HandingOut(reader)'
<1> USE DEF Sealed
<1>1. CASE UNCHANGED vars \/ SourceAlone \/ SourceCascade \/ Create
  BY <1>1 DEF vars, SourceAlone, SourceCascade, Create, CreateShareRead, CreateShareInsert,
              CreateShareGiveUp, HandingOut
<1>2. ASSUME NEW r \in Req, NEW at, NEW f, NEW s, NEW reason, Enter(r, at, f, s, reason),
             at \in {"issuing", "serving"} => f # reader
      PROVE  ~HandingOut(reader)'
  BY <1>2 DEF Enter, HandingOut, TypeOK
<1>3. ASSUME NEW r \in Req, Arrive(r)
      PROVE  ~HandingOut(reader)'
  <2>1. ASSUME NEW s \in Scope,
               \/ IssueSourceItemRetrieval(r, s)
               \/ IssueRecipientRetrieval(r, s)
        PROVE  ~HandingOut(reader)'
    BY <1>2, <2>1 DEF IssueSourceItemRetrieval, IssueRecipientRetrieval, ItemUsable, Closed,
                      Reasons, Reader
  <2>2. ASSUME NEW s \in Scope, NEW f \in Reader,
               \/ CreateDownloadStreamForAttempt(r, f, s)
               \/ \E success \in BOOLEAN : CompleteRetrieval(r, f, s, success)
        PROVE  ~HandingOut(reader)'
    BY <1>2, <2>2 DEF CreateDownloadStreamForAttempt, CompleteRetrieval, ItemUsable, Closed,
                      Reasons, Reader
  <2> QED
    BY <1>3, <2>1, <2>2 DEF Arrive
<1>4. ASSUME NEW r \in Req, Leave(r)
      PROVE  ~HandingOut(reader)'
  BY <1>4 DEF Leave, HandingOut, Idle, TypeOK
<1>5. ASSUME NEW r \in Req, Proceed(r)
      PROVE  Leave(r)
  BY <1>5 DEF Proceed, IssueCommit, IssueConflict, RefuseCommit, CompleteCommit, FailCommit,
              LoseRequest
<1> QED
  BY <1>1, <1>3, <1>4, <1>5 DEF Next

\* A purge runs no cascade, and still no retrieval attempt hands out anything of a
\* closed item or share once the requests in flight have run out.
THEOREM ClosedObjectsDrain == Spec => RetrievalDrains
<1>1. ASSUME Sealed, [Next]_vars
      PROVE  [\A reader \in Reader :
                Closed(reader) /\ ~HandingOut(reader)
                  => Closed(reader)' /\ ~HandingOut(reader)']_vars
  BY <1>1, ClosedStaysClosed, NothingMoreHandedOut
<1> QED
  BY <1>1, AlwaysSealed, PTL DEF Spec, RetrievalDrains

-----------------------------------------------------------------------------
(***************************************************************************)
(* The views.  Nothing orders two projections of one object, so no place   *)
(* of one says what the rows show.  The invariant counts by row: each row  *)
(* of an object with nothing missed shows what the object is, or some      *)
(* projection has that row still to write, and will write what the object  *)
(* is, because it has read no earlier than the last change or is to read   *)
(* yet.  A change of an object either keeps what the rows show current, or *)
(* begins a projection, or counts as missed.                               *)
(***************************************************************************)
\* The views that a projection at some place has yet to write.
Yet(at) ==
  CASE at \in {"read", "timeline"} -> Views
    [] at = "history"              -> {"history", "search"}
    [] at = "search"               -> {"search"}
    [] at = "done"                 -> {}

\* What a row may show and be up to date.
Current(o) == {status \in RowStatuses \cup {"gone"} : UpToDate(o, status)}

\* A projection under way will write what the object is.
Will(c, o, v) ==
  \/ /\ proj[c].object = o
     /\ v \in Yet(proj[c].at)
     /\ proj[c].at = "read" \/ proj[c].shows \in Current(o)
  \/ o = "share" /\ proj[c].shareNext

Told(o, v) == view[o][v] \in Current(o) \/ \E c \in Caller : Will(c, o, v)

Covered == \A o \in Objects \ missed, v \in Views : Told(o, v)

Followed == ProjectionTypeOK /\ Covered

LEMMA SourceStepOrNone ==
  ASSUME ProjectionNext
  PROVE  PlainSourceStep \/ CascadingSourceStep \/ UNCHANGED sourceVars
<1>1. CASE SourceRead \/ SourceIdles
  BY <1>1 DEF SourceRead, SourceIdles, PlainSourceStep, OwnerStep, BurnStep
<1>2. ASSUME NEW c \in Caller, ProjectedWrite(c) \/ UnprojectedWrite(c)
      PROVE  PlainSourceStep
  BY <1>2 DEF ProjectedWrite, UnprojectedWrite, PlainSourceStep, OwnerStep, BurnStep
<1>3. ASSUME NEW c \in Caller, CascadingWrite(c) PROVE CascadingSourceStep
  BY <1>3 DEF CascadingWrite, Cascades, CascadingSourceStep
<1>4. ASSUME NEW c \in Caller,
             \/ CreateShare(c) \/ \E reason \in InactiveReasons : InactivateShare(c, reason)
             \/ ProjectRead(c) \/ ProjectWrite(c) \/ LoseProjection(c)
      PROVE  UNCHANGED sourceVars
  BY <1>4 DEF CreateShare, InactivateShare, ProjectRead, ProjectWrite, LoseProjection, sourceVars
<1> QED
  BY <1>1, <1>2, <1>3, <1>4 DEF ProjectionNext

\* A projection that begins, reads, writes or ends, typed.
LEMMA ProjTyped ==
  ASSUME ProjectionTypeOK, NEW c \in Caller, NEW p \in {NotProjecting} \cup Projecting,
         proj' = [proj EXCEPT ![c] = p]
  PROVE  /\ proj' \in [Caller -> {NotProjecting} \cup Projecting]
         /\ proj'[c] = p
         /\ \A d \in Caller \ {c} : proj'[d] = proj[d]
  BY DEF ProjectionTypeOK

LEMMA BeginsTyped ==
  ASSUME ProjectionTypeOK, NEW c \in Caller, NEW o \in Objects, NEW next \in BOOLEAN,
         Begins(c, o, next)
  PROVE  /\ proj' \in [Caller -> {NotProjecting} \cup Projecting]
         /\ proj[c] = NotProjecting
         /\ proj'[c] = [object |-> o, at |-> "read", shows |-> "gone", shareNext |-> next]
         /\ \A d \in Caller \ {c} : proj'[d] = proj[d]
<1>1. [object |-> o, at |-> "read", shows |-> "gone", shareNext |-> next] \in Projecting
  BY DEF Projecting
<1> QED
  BY <1>1, ProjTyped DEF Begins

LEMMA ShowsStatuses ==
  ASSUME ProjectionTypeOK, NEW o \in Objects, NEW status \in Shows(o)
  PROVE  status \in RowStatuses \cup {"gone"}
<1> USE DEF ProjectionTypeOK
<1>1. CASE o = "share"
  BY <1>1 DEF Shows, ShareStatuses, RowStatuses, InactiveReasons
<1>2. CASE o = "item"
  BY <1>2 DEF Shows, SourceStatus, RowStatuses, SourceTypeOK, Source, SourceStates
<1> QED
  BY <1>1, <1>2 DEF Objects

\* A projection reads the object once.
LEMMA ReadsObject ==
  ASSUME ProjectionTypeOK, NEW c \in Caller, ProjectRead(c)
  PROVE  /\ proj' \in [Caller -> {NotProjecting} \cup Projecting]
         /\ proj[c].at = "read" /\ proj'[c].at = "timeline"
         /\ proj'[c].object = proj[c].object /\ proj'[c].shareNext = proj[c].shareNext
         /\ proj'[c].shows \in Shows(proj[c].object)
         /\ \A d \in Caller \ {c} : proj'[d] = proj[d]
<1>1. PICK status \in Shows(proj[c].object) :
        proj' = [proj EXCEPT ![c] = [@ EXCEPT !.at = "timeline", !.shows = status]]
  BY DEF ProjectRead
<1> DEFINE p == [proj[c] EXCEPT !.at = "timeline", !.shows = status]
<1>2. proj[c].at = "read" /\ proj[c] \in Projecting
  BY DEF ProjectRead, ProjectionTypeOK, NotProjecting
<1>3. proj[c].object \in Objects /\ status \in RowStatuses \cup {"gone"}
  BY <1>2, ShowsStatuses DEF Projecting
<1>4. /\ p \in Projecting /\ p.at = "timeline" /\ p.object = proj[c].object
      /\ p.shareNext = proj[c].shareNext /\ p.shows = status
  BY <1>2, <1>3 DEF Projecting, Views
<1>5. proj' = [proj EXCEPT ![c] = p]
  BY <1>1
<1> HIDE DEF p
<1> QED
  BY <1>1, <1>2, <1>4, <1>5, ProjTyped

\* It writes one view at a time, and has yet the others to write.
LEMMA WritesView ==
  ASSUME ProjectionTypeOK, NEW c \in Caller, ProjectWrite(c)
  PROVE  /\ proj[c] \in Projecting /\ proj[c].at \in Views
         /\ proj' \in [Caller -> {NotProjecting} \cup Projecting]
         /\ \A d \in Caller \ {c} : proj'[d] = proj[d]
         /\ \/ /\ proj[c].at # "search" /\ proj'[c].at = Follows[proj[c].at]
               /\ proj'[c].object = proj[c].object /\ proj'[c].shareNext = proj[c].shareNext
               /\ proj'[c].shows = proj[c].shows
            \/ /\ proj[c].at = "search" /\ proj[c].shareNext
               /\ proj'[c].object = "share" /\ proj'[c].at = "read" /\ ~proj'[c].shareNext
            \/ /\ proj[c].at = "search" /\ ~proj[c].shareNext /\ proj'[c] = NotProjecting
<1>1. proj[c] \in Projecting /\ proj[c].at \in Views
  BY DEF ProjectWrite, ProjectionTypeOK, NotProjecting, Views
<1>2. CASE proj[c].at # "search"
  <2> DEFINE p == [proj[c] EXCEPT !.at = Follows[proj[c].at]]
  <2>1. Follows[proj[c].at] \in Views
    BY <1>1, <1>2 DEF Follows, Views
  <2>2. /\ p \in Projecting /\ p.at = Follows[proj[c].at] /\ p.object = proj[c].object
        /\ p.shareNext = proj[c].shareNext /\ p.shows = proj[c].shows
    BY <1>1, <2>1 DEF Projecting
  <2>3. proj' = [proj EXCEPT ![c] = p]
    BY <2>1 DEF ProjectWrite, Views
  <2> HIDE DEF p
  <2> QED
    BY <1>1, <1>2, <2>2, <2>3, ProjTyped
<1>3. CASE proj[c].at = "search"
  <2>1. proj' = [proj EXCEPT ![c] = NextProjection(proj[c])]
    BY <1>3 DEF ProjectWrite, Follows
  <2>2. NextProjection(proj[c]) \in {NotProjecting} \cup Projecting
    BY DEF NextProjection, Projecting, Objects
  <2>3. CASE proj[c].shareNext
    <3>1. PICK p : p = [object |-> "share", at |-> "read", shows |-> "gone", shareNext |-> FALSE]
      OBVIOUS
    <3> QED
      BY <1>1, <1>3, <2>1, <2>2, <2>3, <3>1, ProjTyped DEF NextProjection
  <2>4. CASE ~proj[c].shareNext
    BY <1>1, <1>3, <2>1, <2>2, <2>4, ProjTyped DEF NextProjection
  <2> QED
    BY <2>3, <2>4
<1> QED
  BY <1>2, <1>3

LEMMA NextTyped == ProjectionTypeOK /\ [ProjectionNext]_projectionVars => ProjectionTypeOK'
<1> SUFFICES ASSUME ProjectionTypeOK, [ProjectionNext]_projectionVars PROVE ProjectionTypeOK'
  OBVIOUS
<1>1. SourceTypeOK'
  <2>1. CASE UNCHANGED sourceVars
    BY <2>1 DEF sourceVars, ProjectionTypeOK, SourceTypeOK
  <2> QED
    BY <2>1, SourceStepType, SourceStepOrNone DEF ProjectionTypeOK, projectionVars, sourceVars
<1>2. CASE SourceRead \/ SourceIdles \/ UNCHANGED projectionVars
  BY <1>1, <1>2 DEF ProjectionTypeOK, SourceRead, SourceIdles, projectionVars
<1>3. ASSUME NEW c \in Caller, ProjectedWrite(c) PROVE ProjectionTypeOK'
  BY <1>1, <1>3, BeginsTyped DEF ProjectionTypeOK, ProjectedWrite, Objects
<1>4. ASSUME NEW c \in Caller, UnprojectedWrite(c) PROVE ProjectionTypeOK'
  BY <1>1, <1>4 DEF ProjectionTypeOK, UnprojectedWrite, Objects
<1>5. ASSUME NEW c \in Caller, CascadingWrite(c) PROVE ProjectionTypeOK'
  BY <1>1, <1>5, BeginsTyped DEF ProjectionTypeOK, CascadingWrite, Objects, InactiveReasons
<1>6. ASSUME NEW c \in Caller, CreateShare(c) PROVE ProjectionTypeOK'
  BY <1>1, <1>6, BeginsTyped DEF ProjectionTypeOK, CreateShare, Objects
<1>7. ASSUME NEW c \in Caller, NEW reason \in InactiveReasons, InactivateShare(c, reason)
      PROVE  ProjectionTypeOK'
  BY <1>1, <1>7, BeginsTyped DEF ProjectionTypeOK, InactivateShare, Objects
<1>8. ASSUME NEW c \in Caller, ProjectRead(c) PROVE ProjectionTypeOK'
  BY <1>1, <1>8, ReadsObject DEF ProjectionTypeOK, ProjectRead
<1>9. ASSUME NEW c \in Caller, ProjectWrite(c) PROVE ProjectionTypeOK'
  <2>1. /\ proj[c].object \in Objects /\ proj[c].at \in Views
        /\ proj[c].shows \in RowStatuses \cup {"gone"}
    BY <1>9, WritesView DEF Projecting
  <2>2. view' \in [Objects -> [Views -> RowStatuses \cup {"gone"}]]
    BY <1>9, <2>1 DEF ProjectionTypeOK, ProjectWrite
  <2>3. missed' \in SUBSET Objects
    BY <1>9, <2>1 DEF ProjectionTypeOK, ProjectWrite
  <2> QED
    BY <1>1, <1>9, <2>2, <2>3, WritesView DEF ProjectionTypeOK, ProjectWrite
<1>10. ASSUME NEW c \in Caller, LoseProjection(c) PROVE ProjectionTypeOK'
  <2>1. proj[c].object \in Objects
    BY DEF ProjectionTypeOK, NotProjecting, Projecting, Objects
  <2> QED
    BY <1>1, <1>10, <2>1, ProjTyped DEF ProjectionTypeOK, LoseProjection, Objects
<1> QED
  BY <1>2, <1>3, <1>4, <1>5, <1>6, <1>7, <1>8, <1>9, <1>10 DEF ProjectionNext

-----------------------------------------------------------------------------
(* What is up to date stays so. *)

LEMMA ItemStaysCurrent ==
  ASSUME ProjectionTypeOK, now' \in Time, now' >= now, UNCHANGED <<source, burnAfterRead>>
  PROVE  Current("item") \subseteq Current("item")'
<1> SUFFICES ASSUME NEW s \in RowStatuses \cup {"gone"}, UpToDate("item", s)
             PROVE  UpToDate("item", s)'
  BY DEF Current
<1> DEFINE lapsed == Lapsed(source.validUntil)
<1>1. lapsed => lapsed'
  BY DEF Lapsed, ProjectionTypeOK, SourceTypeOK, Source, Until, Forever, Time
<1>2. Burned' = Burned
  BY DEF Burned
<1>3. CASE source.state = "ACTIVE" /\ s = "active"
  BY <1>3 DEF UpToDate
<1>4. CASE ~(source.state = "ACTIVE" /\ s = "active")
  <2>1. s \in Shows("item")
    BY <1>4 DEF UpToDate
  <2>2. CASE Burned
    BY <1>2, <2>1, <2>2 DEF UpToDate, Shows
  <2>3. CASE ~Burned
    <3>1. s = SourceStatus
      BY <2>1, <2>3 DEF Shows
    <3>2. source.state \in SourceStates
      BY DEF ProjectionTypeOK, SourceTypeOK, Source
    <3>3. s = SourceStatus'
      BY <1>1, <1>4, <3>1, <3>2 DEF SourceStatus, SourceStates
    <3> QED
      BY <1>2, <2>3, <3>3 DEF UpToDate, Shows
  <2> QED
    BY <2>2, <2>3
<1> QED
  BY <1>3, <1>4

LEMMA ShareStaysCurrent ==
  ASSUME shareState' = shareState
  PROVE  Current("share") \subseteq Current("share")'
  BY DEF Current, UpToDate, Shows, ShareStatuses

\* A step that changes neither the row nor the projections before it.
LEMMA ToldStaysTold ==
  ASSUME NEW o \in Objects, NEW v \in Views, Told(o, v), view'[o][v] = view[o][v],
         Current(o) \subseteq Current(o)',
         \A c \in Caller : proj'[c] = proj[c] \/ ~Will(c, o, v)
  PROVE  Told(o, v)'
<1>1. CASE view[o][v] \in Current(o)
  BY <1>1 DEF Told
<1>2. ASSUME NEW c \in Caller, Will(c, o, v) PROVE Told(o, v)'
  <2>1. proj'[c] = proj[c]
    BY <1>2
  <2>2. Will(c, o, v)'
    BY <1>2, <2>1 DEF Will
  <2> QED
    BY <2>2 DEF Told
<1> QED
  BY <1>1, <1>2 DEF Told

\* A projection that has begun, or is to follow, tells everything.
LEMMA BegunTells ==
  ASSUME ProjectionTypeOK, NEW c \in Caller, NEW o \in Objects, NEW next \in BOOLEAN,
         Begins(c, o, next)
  PROVE  /\ \A v \in Views : Told(o, v)'
         /\ next => \A v \in Views : Told("share", v)'
         /\ \A d \in Caller, p \in Objects, v \in Views : proj'[d] = proj[d] \/ ~Will(d, p, v)
<1>1. /\ proj[c] = NotProjecting
      /\ proj'[c] = [object |-> o, at |-> "read", shows |-> "gone", shareNext |-> next]
      /\ \A d \in Caller \ {c} : proj'[d] = proj[d]
  BY BeginsTyped
<1>2. \A v \in Views : Will(c, o, v)'
  BY <1>1 DEF Will, Yet
<1>3. next => \A v \in Views : Will(c, "share", v)'
  BY <1>1 DEF Will
<1>4. \A p \in Objects, v \in Views : ~Will(c, p, v)
  BY <1>1 DEF Will, NotProjecting, Yet
<1> QED
  BY <1>1, <1>2, <1>3, <1>4 DEF Told

LEMMA SourceClock ==
  ASSUME ProjectionTypeOK, ProjectionNext
  PROVE  now' \in Time /\ now' >= now
<1>1. now' = now \/ (now < Horizon /\ now' = now + 1)
  BY SourceStepOrNone
     DEF PlainSourceStep, OwnerStep, BurnStep, CascadingSourceStep, sourceVars, Tick, RevokeRead,
         ChangeConfidentialityRead, UpdateValidityRead, RefreshAvailabilityRead, NoticeExpiryRead,
         ChangeConfidentialityCommit, UpdateValidityCommit, MarkExpired, OwnerGiveUp,
         IssueBurnAttempt, BurnCommit, RevokeCommit, ExpireCommit, OwnerRead, OwnerWrite
<1> QED
  BY <1>1, HorizonAssumption DEF ProjectionTypeOK, SourceTypeOK, Time

-----------------------------------------------------------------------------
(* Every change is told, or counted as missed. *)

LEMMA IdleKeepsCovered ==
  ASSUME Followed, ProjectionNext, SourceRead \/ SourceIdles
  PROVE  Covered'
<1>1. UNCHANGED <<source, burnAfterRead, shareState, view, proj, missed>>
  BY DEF SourceRead, SourceIdles, Tick, OwnerGiveUp, RevokeRead, ChangeConfidentialityRead,
         UpdateValidityRead, RefreshAvailabilityRead, NoticeExpiryRead, IssueBurnAttempt, OwnerRead
<1>2. \A o \in Objects : Current(o) \subseteq Current(o)'
  BY <1>1, SourceClock, ItemStaysCurrent, ShareStaysCurrent DEF Objects, Followed
<1> QED
  BY <1>1, <1>2, ToldStaysTold DEF Covered, Followed

LEMMA WriteKeepsCovered ==
  ASSUME Followed, NEW c \in Caller, ProjectedWrite(c) \/ UnprojectedWrite(c)
  PROVE  Covered'
<1>1. UNCHANGED <<shareState, view>>
  BY DEF ProjectedWrite, UnprojectedWrite
<1>2. \A v \in Views : "share" \notin missed => Told("share", v)
  BY DEF Followed, Covered, Objects
<1>3. CASE ProjectedWrite(c)
  <2>1. Begins(c, "item", FALSE) /\ missed' = missed
    BY <1>3 DEF ProjectedWrite
  <2>2. /\ \A v \in Views : Told("item", v)'
        /\ \A d \in Caller, p \in Objects, v \in Views : proj'[d] = proj[d] \/ ~Will(d, p, v)
    BY <2>1, BegunTells DEF Followed, Objects
  <2>3. \A v \in Views : "share" \notin missed => Told("share", v)'
    BY <1>1, <1>2, <2>2, ToldStaysTold, ShareStaysCurrent DEF Objects
  <2> QED
    BY <2>1, <2>2, <2>3 DEF Covered, Objects
<1>4. CASE UnprojectedWrite(c)
  <2>1. missed' = missed \cup {"item"} /\ proj' = proj
    BY <1>4 DEF UnprojectedWrite
  <2>2. \A v \in Views : "share" \notin missed => Told("share", v)'
    BY <1>1, <1>2, <2>1, ToldStaysTold, ShareStaysCurrent DEF Objects
  <2> QED
    BY <2>1, <2>2 DEF Covered, Objects
<1> QED
  BY <1>3, <1>4

LEMMA CascadeKeepsCovered ==
  ASSUME Followed, NEW c \in Caller, CascadingWrite(c)
  PROVE  Covered'
<1>1. Begins(c, "item", shareState # "none") /\ UNCHANGED <<view, missed>>
  BY DEF CascadingWrite
<1>2. /\ \A v \in Views : Told("item", v)'
      /\ shareState # "none" => \A v \in Views : Told("share", v)'
      /\ \A d \in Caller, p \in Objects, v \in Views : proj'[d] = proj[d] \/ ~Will(d, p, v)
  BY <1>1, BegunTells DEF Followed, Objects
<1>3. ASSUME shareState = "none", "share" \notin missed PROVE \A v \in Views : Told("share", v)'
  <2>1. shareState' = shareState
    BY <1>3 DEF CascadingWrite
  <2> QED
    BY <1>1, <1>2, <1>3, <2>1, ToldStaysTold, ShareStaysCurrent DEF Objects, Followed, Covered
<1> QED
  BY <1>1, <1>2, <1>3 DEF Covered, Objects

LEMMA ShareWriteKeepsCovered ==
  ASSUME Followed, NEW c \in Caller,
         CreateShare(c) \/ \E reason \in InactiveReasons : InactivateShare(c, reason)
  PROVE  Covered'
<1>1. Begins(c, "share", FALSE) /\ UNCHANGED <<now, source, burnAfterRead, view, missed>>
  BY DEF CreateShare, InactivateShare
<1>2. /\ \A v \in Views : Told("share", v)'
      /\ \A d \in Caller, p \in Objects, v \in Views : proj'[d] = proj[d] \/ ~Will(d, p, v)
  BY <1>1, BegunTells DEF Followed, Objects
<1>3. now' \in Time /\ now' >= now
  BY <1>1, HorizonAssumption DEF Followed, ProjectionTypeOK, SourceTypeOK, Time
<1>4. "item" \notin missed => \A v \in Views : Told("item", v)'
  BY <1>1, <1>2, <1>3, ToldStaysTold, ItemStaysCurrent DEF Objects, Followed, Covered
<1> QED
  BY <1>1, <1>2, <1>4 DEF Covered, Objects

LEMMA ReadKeepsCovered ==
  ASSUME Followed, NEW c \in Caller, ProjectRead(c)
  PROVE  Covered'
<1>1. UNCHANGED <<now, source, burnAfterRead, shareState, view, missed>>
  BY DEF ProjectRead
<1>2. \A o \in Objects : Current(o)' = Current(o)
  BY <1>1 DEF Current, UpToDate, Shows, SourceStatus, ShareStatuses, Burned, Lapsed
<1>3. /\ proj[c].at = "read" /\ proj'[c].at = "timeline"
      /\ proj'[c].object = proj[c].object /\ proj'[c].shareNext = proj[c].shareNext
      /\ proj'[c].shows \in Shows(proj[c].object)
      /\ \A d \in Caller \ {c} : proj'[d] = proj[d]
  BY ReadsObject DEF Followed
<1>4. SUFFICES ASSUME NEW o \in Objects, NEW v \in Views, Told(o, v) PROVE Told(o, v)'
  BY <1>1 DEF Covered, Followed
<1>5. CASE Will(c, o, v)
  <2>1. proj[c].object = o => proj'[c].shows \in Current(o)
    BY <1>3, ShowsStatuses DEF Current, UpToDate, Followed
  <2>2. Will(c, o, v)'
    BY <1>2, <1>3, <1>5, <2>1 DEF Will, Yet
  <2> QED
    BY <2>2 DEF Told
<1>6. CASE ~Will(c, o, v)
  BY <1>1, <1>2, <1>3, <1>4, <1>6, ToldStaysTold
<1> QED
  BY <1>5, <1>6

LEMMA ViewKeepsCovered ==
  ASSUME Followed, NEW c \in Caller, ProjectWrite(c)
  PROVE  Covered'
<1> DEFINE p == proj[c]
<1>1. UNCHANGED <<now, source, burnAfterRead, shareState>>
  BY DEF ProjectWrite
<1>2. \A o \in Objects : Current(o)' = Current(o)
  BY <1>1 DEF Current, UpToDate, Shows, SourceStatus, ShareStatuses, Burned, Lapsed
<1>3. /\ p \in Projecting /\ p.at \in Views /\ p.object \in Objects
      /\ p.shows \in RowStatuses \cup {"gone"}
  BY WritesView DEF Followed, Projecting
<1>4. /\ view'[p.object][p.at] = p.shows
      /\ \A o \in Objects, v \in Views : (o # p.object \/ v # p.at) => view'[o][v] = view[o][v]
  BY <1>3 DEF ProjectWrite, Followed, ProjectionTypeOK
<1>5. /\ missed \subseteq missed'
      /\ (view[p.object][p.at] \in Current(p.object) /\ p.shows \notin Current(p.object))
           => p.object \in missed'
  BY <1>3 DEF ProjectWrite, Current
<1>6. SUFFICES ASSUME NEW o \in Objects \ missed', NEW v \in Views, Told(o, v) PROVE Told(o, v)'
  BY <1>5 DEF Covered, Followed
<1>7. CASE view[o][v] \in Current(o)
  <2>1. CASE o = p.object /\ v = p.at
    BY <1>2, <1>4, <1>5, <1>6, <1>7, <2>1 DEF Told
  <2>2. CASE o # p.object \/ v # p.at
    BY <1>2, <1>4, <1>6, <1>7, <2>2 DEF Told
  <2> QED
    BY <2>1, <2>2
<1>8. ASSUME NEW d \in Caller \ {c}, Will(d, o, v) PROVE Told(o, v)'
  <2>1. proj'[d] = proj[d]
    BY <1>8, WritesView DEF Followed
  <2>2. Will(d, o, v)'
    BY <1>2, <1>6, <1>8, <2>1 DEF Will
  <2> QED
    BY <2>2 DEF Told
<1>9. CASE Will(c, o, v)
  <2>1. CASE p.object = o /\ v \in Yet(p.at) /\ p.shows \in Current(o)
    <3>1. CASE v = p.at
      BY <1>2, <1>4, <1>6, <2>1, <3>1 DEF Told
    <3>2. CASE v # p.at
      <4>1. p.at # "search" /\ v \in Yet(Follows[p.at])
        BY <1>3, <2>1, <3>2 DEF Yet, Follows, Views
      <4>2. /\ proj'[c].at = Follows[p.at] /\ proj'[c].object = p.object
            /\ proj'[c].shows = p.shows
        BY <4>1, WritesView DEF Followed
      <4>3. Will(c, o, v)'
        BY <1>2, <1>6, <2>1, <4>1, <4>2 DEF Will
      <4> QED
        BY <4>3 DEF Told
    <3> QED
      BY <3>1, <3>2
  <2>2. CASE o = "share" /\ p.shareNext
    <3>1. proj'[c].shareNext \/ (proj'[c].object = "share" /\ proj'[c].at = "read")
      BY <2>2, WritesView DEF Followed
    <3>2. Will(c, o, v)'
      BY <2>2, <3>1 DEF Will, Yet
    <3> QED
      BY <3>2 DEF Told
  <2> QED
    BY <1>3, <1>9, <2>1, <2>2 DEF Will, Views
<1> QED
  BY <1>6, <1>7, <1>8, <1>9 DEF Told

LEMMA LossKeepsCovered ==
  ASSUME Followed, NEW c \in Caller, LoseProjection(c)
  PROVE  Covered'
<1>1. UNCHANGED <<now, source, burnAfterRead, shareState, view>>
  BY DEF LoseProjection
<1>2. \A o \in Objects : Current(o)' = Current(o)
  BY <1>1 DEF Current, UpToDate, Shows, SourceStatus, ShareStatuses, Burned, Lapsed
<1>3. \A d \in Caller \ {c} : proj'[d] = proj[d]
  BY ProjTyped DEF LoseProjection, Followed
<1>4. missed' = missed \cup {proj[c].object} \cup (IF proj[c].shareNext THEN {"share"} ELSE {})
  BY DEF LoseProjection
<1> SUFFICES ASSUME NEW o \in Objects \ missed', NEW v \in Views PROVE Told(o, v)'
  BY DEF Covered
<1>5. Told(o, v)
  BY <1>4 DEF Covered, Followed
<1>6. ~Will(c, o, v)
  BY <1>4 DEF Will
<1> QED
  BY <1>1, <1>2, <1>3, <1>5, <1>6, ToldStaysTold

LEMMA InitFollowed == ProjectionInit => Followed
<1> SUFFICES ASSUME ProjectionInit PROVE Followed
  OBVIOUS
<1>1. SourceTypeOK
  BY HorizonAssumption
     DEF ProjectionInit, SourceInit, SourceTypeOK, Source, SourceStates, PendingOps, Time
<1>2. ProjectionTypeOK
  BY <1>1 DEF ProjectionInit, ProjectionTypeOK, Objects, RowStatuses
<1>3. \A v \in Views : view["item"][v] = "active" /\ view["share"][v] = "gone"
  BY DEF ProjectionInit
<1>4. "active" \in Current("item") /\ "gone" \in Current("share")
  BY DEF ProjectionInit, SourceInit, Current, UpToDate, Shows, ShareStatuses, RowStatuses
<1> QED
  BY <1>2, <1>3, <1>4 DEF Followed, Covered, Told, Objects

LEMMA NextFollowed == Followed /\ [ProjectionNext]_projectionVars => Followed'
<1> SUFFICES ASSUME Followed, [ProjectionNext]_projectionVars PROVE Followed'
  OBVIOUS
<1>1. ProjectionTypeOK'
  BY NextTyped DEF Followed
<1>2. CASE UNCHANGED projectionVars
  <2>1. \A o \in Objects : Current(o)' = Current(o)
    BY <1>2
       DEF projectionVars, Current, UpToDate, Shows, SourceStatus, ShareStatuses, Burned, Lapsed
  <2>2. Covered'
    BY <1>2, <2>1, ToldStaysTold DEF projectionVars, Covered, Followed
  <2> QED
    BY <1>1, <2>2 DEF Followed
<1>3. CASE ProjectionNext
  <2>1. Covered'
    BY <1>3, IdleKeepsCovered, WriteKeepsCovered, CascadeKeepsCovered, ShareWriteKeepsCovered,
       ReadKeepsCovered, ViewKeepsCovered, LossKeepsCovered DEF ProjectionNext
  <2> QED
    BY <1>1, <2>1 DEF Followed
<1> QED
  BY <1>2, <1>3

LEMMA AlwaysFollowed == ProjectionSpec => []Followed
  BY InitFollowed, NextFollowed, PTL DEF ProjectionSpec

\* The views and the projections under way keep their types.
THEOREM ProjectionTypeCorrect == ProjectionSpec => []ProjectionTypeOK
<1>1. Followed => ProjectionTypeOK
  BY DEF Followed
<1> QED
  BY <1>1, AlwaysFollowed, PTL

\* An object all of whose projections have come through is shown as it is by the
\* timeline, the history and the search, whatever the order they landed in.
THEOREM ListsFollowTheirObjects == ProjectionSpec => []ViewsFollow
<1>1. Followed => ViewsFollow
  <2> SUFFICES ASSUME Followed, NEW o \in Objects \ missed,
                      \A c \in Caller : ~Projects(c, o), NEW v \in Views
               PROVE  UpToDate(o, view[o][v])
    BY DEF ViewsFollow
  <2>1. Told(o, v)
    BY DEF Followed, Covered
  <2>2. ASSUME NEW c \in Caller PROVE ~Will(c, o, v)
    <3>1. ~Projects(c, o) /\ proj[c] \in {NotProjecting} \cup Projecting
      BY DEF Followed, ProjectionTypeOK
    <3>2. CASE proj[c].at = "done"
      BY <3>1, <3>2 DEF Will, Yet, NotProjecting, Projecting, Views
    <3>3. CASE proj[c].at # "done"
      BY <3>1, <3>3 DEF Will, Projects
    <3> QED
      BY <3>2, <3>3
  <2> QED
    BY <2>1, <2>2 DEF Told, Current
<1> QED
  BY <1>1, AlwaysFollowed, PTL

\* Nothing but a row written, or one deleted, reaches the lists of a burned item.
LEMMA StaysBurnedOut ==
  ASSUME ProjectionTypeOK, BurnedOut, ProjectionNext
  PROVE  BurnedOut'
<1>1. /\ burnAfterRead /\ source.state = "PURGED"
      /\ \A v \in Views : view["item"][v] = "gone"
      /\ \A c \in Caller : owner[c] = "none" /\ ~HoldsRow(c)
  BY DEF BurnedOut, Burned
<1>2. /\ ~SourceRead
      /\ \A c \in Caller : ~ProjectedWrite(c) /\ ~UnprojectedWrite(c) /\ ~CascadingWrite(c)
  BY <1>1 DEF SourceRead, RevokeRead, ChangeConfidentialityRead, UpdateValidityRead,
     RefreshAvailabilityRead, NoticeExpiryRead, IssueBurnAttempt, OwnerRead, ProjectedWrite,
     UnprojectedWrite, CascadingWrite, Cascades, RevokeCommit, ExpireCommit,
     ChangeConfidentialityCommit, UpdateValidityCommit, BurnCommit, MarkExpired, OwnerWrite
<1>3. UNCHANGED <<source, owner, burnAfterRead>>
  <2>1. CASE SourceIdles
    BY <1>1, <2>1 DEF SourceIdles, Tick, OwnerGiveUp
  <2>2. ASSUME NEW c \in Caller,
               \/ CreateShare(c) \/ \E reason \in InactiveReasons : InactivateShare(c, reason)
               \/ ProjectRead(c) \/ ProjectWrite(c) \/ LoseProjection(c)
        PROVE  UNCHANGED <<source, owner, burnAfterRead>>
    BY <2>2 DEF CreateShare, InactivateShare, ProjectRead, ProjectWrite, LoseProjection
  <2> QED
    BY <1>2, <2>1, <2>2 DEF ProjectionNext
<1> DEFINE GoneNext ==
      (\A v \in Views : view'["item"][v] = "gone") /\ (\A c \in Caller : ~HoldsRow(c)')
<1>4. GoneNext
  <2>1. CASE SourceIdles
    BY <1>1, <2>1 DEF SourceIdles, HoldsRow
  <2>2. ASSUME NEW c \in Caller, NEW o \in Objects, Begins(c, o, FALSE), view' = view
        PROVE  GoneNext
    <3>1. /\ proj'[c] = [object |-> o, at |-> "read", shows |-> "gone", shareNext |-> FALSE]
          /\ \A d \in Caller \ {c} : proj'[d] = proj[d]
      BY <2>2, BeginsTyped
    <3> QED
      BY <1>1, <2>2, <3>1 DEF HoldsRow, Views
  <2>3. ASSUME NEW c \in Caller, ProjectRead(c) PROVE GoneNext
    <3>1. /\ proj'[c].object = proj[c].object
          /\ proj'[c].shows \in Shows(proj[c].object)
          /\ \A d \in Caller \ {c} : proj'[d] = proj[d]
      BY <2>3, ReadsObject
    <3>2. Shows("item") = {"gone"}
      BY <1>1 DEF Shows, Burned
    <3>3. view' = view
      BY <2>3 DEF ProjectRead
    <3> QED
      BY <1>1, <3>1, <3>2, <3>3 DEF HoldsRow
  <2>4. ASSUME NEW c \in Caller, ProjectWrite(c) PROVE GoneNext
    <3> DEFINE p == proj[c]
    <3>1. p \in Projecting /\ p.at \in Views /\ p.object \in Objects
      BY <2>4, WritesView DEF Projecting
    <3>2. p.object = "item" => p.shows = "gone"
      BY <1>1, <3>1 DEF HoldsRow
    <3>3. \A v \in Views : view'["item"][v] = "gone"
      BY <1>1, <2>4, <3>1, <3>2 DEF ProjectWrite, ProjectionTypeOK, Objects
    <3>4. proj'[c].object = "item" /\ proj'[c].at \in Views => proj'[c].shows = "gone"
      BY <2>4, <3>2, WritesView DEF NotProjecting, Views
    <3>5. \A d \in Caller \ {c} : proj'[d] = proj[d]
      BY <2>4, WritesView
    <3> QED
      BY <1>1, <3>3, <3>4, <3>5 DEF HoldsRow
  <2>5. ASSUME NEW c \in Caller, LoseProjection(c) PROVE GoneNext
    <3>1. view' = view /\ proj'[c] = NotProjecting /\ \A d \in Caller \ {c} : proj'[d] = proj[d]
      BY <2>5, ProjTyped DEF LoseProjection
    <3> QED
      BY <1>1, <3>1 DEF HoldsRow, NotProjecting
  <2>6. ASSUME NEW c \in Caller, CreateShare(c) PROVE GoneNext
    BY <2>6, <2>2 DEF CreateShare, Objects
  <2>7. ASSUME NEW c \in Caller, NEW reason \in InactiveReasons, InactivateShare(c, reason)
        PROVE  GoneNext
    BY <2>7, <2>2 DEF InactivateShare, Objects
  <2> QED
    BY <1>2, <2>1, <2>3, <2>4, <2>5, <2>6, <2>7 DEF ProjectionNext
<1> QED
  BY <1>1, <1>3, <1>4 DEF BurnedOut, Burned

\* No request brings a burned item back to the lists it has left, but one that
\* had read it, or decided to write it, before.
THEOREM BurnedItemsStayGone == ProjectionSpec => BurnedStaysGone
<1>1. Followed /\ [ProjectionNext]_projectionVars => [BurnedOut => BurnedOut']_projectionVars
  BY StaysBurnedOut DEF Followed
<1> QED
  BY <1>1, AlwaysFollowed, PTL DEF ProjectionSpec, BurnedStaysGone
=============================================================================

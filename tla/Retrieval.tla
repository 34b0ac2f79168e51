------------------------------ MODULE Retrieval ------------------------------
(***************************************************************************)
(* Retrieval with a trusted device: the owner's attempts on the item       *)
(* (RetrievalService) and the recipient's attempts on a share of it        *)
(* (SharesService), both downloaded through createDownloadStreamForAttempt.*)
(* An item that burns after reading is purged by the owner's completion,   *)
(* a share that allows no repetition is consumed by the recipient's.       *)
(*                                                                         *)
(* Every handler reads, awaits and writes: two actions, between which the  *)
(* request's record keeps what it is about to do.                          *)
(***************************************************************************)
EXTENDS SourceItem

CONSTANTS
  Scope,    \* device and attemptScopeKey, which name an attempt of a reader
  Req,      \* concurrent requests of the owner's and the recipient's devices
  NoScope

ASSUME RetrievalAssumption == NoScope \notin Scope

VARIABLES
  burn,      \* burnAfterReadEnabled of the item, fixed at its creation
  share      \* the ShareObject row

VARIABLES
  attempt,   \* status of the RetrievalAttempt row of each reader and scope
  req,       \* where each request stands
  maker,     \* createUserTargetedShare: the item's validUntil as it was read
  finished   \* history: the readers who have completed a retrieval

vars == <<now, source, owner, burn, share, attempt, req, maker, finished>>

-----------------------------------------------------------------------------
Reader == {"owner", "recipient"}

Statuses == {"none", "IN_PROGRESS", "COMPLETED", "FAILED", "ABANDONED"}

Reasons == {"SOURCE_INVALIDATED", "EXPIRED", "CONSUMED"}

\* inactiveReason is kept in place of INACTIVE, which it implies.
Share == [state : {"none", "ACTIVE"} \cup Reasons, validUntil : Until, repeat : BOOLEAN]

NoShare == [state |-> "none", validUntil |-> 0, repeat |-> FALSE]

(***************************************************************************)
(* Where a request stands:                                                 *)
(*   issuing      its reads have found the object retrievable              *)
(*   refusing     it has found the share overdue, or its item gone, and    *)
(*                will write that on the share                             *)
(*   serving      the download passed its checks; the bytes are on the way *)
(*   completing, failing   the answer of the client, read as not COMPLETED *)
(***************************************************************************)
Places == {"idle", "issuing", "refusing", "serving", "completing", "failing"}

Request ==
  [at : Places, reader : Reader, scope : Scope \cup {NoScope},
   reason : Reasons \cup {"none"}]

Idle == [at |-> "idle", reader |-> "owner", scope |-> NoScope, reason |-> "none"]

NotReading == Forever + 1

TypeOK ==
  /\ SourceTypeOK
  /\ burn \in BOOLEAN
  /\ share \in Share
  /\ attempt \in [Reader -> [Scope -> Statuses]]
  /\ req \in [Req -> Request]
  /\ maker \in Until \cup {NotReading}
  /\ finished \in SUBSET Reader

Init ==
  /\ SourceInit
  /\ burn \in BOOLEAN
  /\ share = NoShare
  /\ attempt = [f \in Reader |-> [s \in Scope |-> "none"]]
  /\ req = [r \in Req |-> Idle]
  /\ maker = NotReading
  /\ finished = {}

-----------------------------------------------------------------------------
(* createUserTargetedShare *)

ItemUsable == source.state = "ACTIVE" /\ ~Lapsed(source.validUntil)

CreateShareRead ==
  /\ maker = NotReading
  /\ share.state = "none"
  /\ ItemUsable
  /\ maker' = source.validUntil
  /\ UNCHANGED <<now, source, owner, burn, share, attempt, req, finished>>

\* Mutant: the share's minutes are counted from the end of the item.
AddValidUntil(candidate, limit) == limit + candidate - now

\* candidate < sourceValidUntil ? candidate : sourceValidUntil; null is Forever.
ClampValidUntil(candidate, limit) == IF candidate < limit THEN candidate ELSE limit

CreateShareInsert(candidate, repeat) ==
  /\ maker # NotReading
  /\ share' = [state |-> "ACTIVE", repeat |-> repeat,
               validUntil |-> ClampValidUntil(candidate, maker)]
  /\ maker' = NotReading
  /\ UNCHANGED <<now, source, owner, burn, attempt, req, finished>>

\* The recipient is not eligible, or the policy refuses.
CreateShareGiveUp ==
  /\ maker # NotReading
  /\ maker' = NotReading
  /\ UNCHANGED <<now, source, owner, burn, share, attempt, req, finished>>

-----------------------------------------------------------------------------
(* The reads of a request, with their early returns.                        *)

Enter(r, at, reader, s, reason) ==
  /\ req[r] = Idle
  /\ req' = [req EXCEPT ![r] =
       [at |-> at, reader |-> reader, scope |-> s, reason |-> reason]]
  /\ UNCHANGED <<now, source, owner, burn, share, attempt, maker, finished>>

\* An overdue item is marked EXPIRED instead: NoticeExpiryRead of SourceItem.
IssueSourceItemRetrieval(r, s) ==
  /\ ItemUsable
  /\ Enter(r, "issuing", "owner", s, "none")

IssueRecipientRetrieval(r, s) ==
  /\ share.state = "ACTIVE"
  /\ \/ /\ ~ItemUsable
        /\ Enter(r, "refusing", "recipient", s, "SOURCE_INVALIDATED")
     \/ /\ ItemUsable
        /\ Lapsed(share.validUntil)
        /\ Enter(r, "refusing", "recipient", s, "EXPIRED")
     \/ /\ ItemUsable
        /\ ~Lapsed(share.validUntil)
        /\ Enter(r, "issuing", "recipient", s, "none")

CompleteRetrieval(r, reader, s, success) ==
  /\ attempt[reader][s] \notin {"none", "COMPLETED"}
  /\ Enter(r, IF success THEN "completing" ELSE "failing", reader, s, "none")

\* Mutant: the download trusts the attempt for the share.
DownloadOfAnyShare(r, reader, s) ==
  /\ attempt[reader][s] = "IN_PROGRESS"
  /\ ItemUsable
  /\ Enter(r, "serving", reader, s, "none")

CreateDownloadStreamForAttempt(r, reader, s) ==
  /\ attempt[reader][s] = "IN_PROGRESS"
  /\ reader = "recipient" => share.state = "ACTIVE"
  /\ ItemUsable
  /\ Enter(r, "serving", reader, s, "none")

-----------------------------------------------------------------------------
(* The writes of a request.                                                 *)

SetStatus(r, status) ==
  attempt' = [attempt EXCEPT ![req[r].reader][req[r].scope] = status]

Leave(r) == req' = [req EXCEPT ![r] = Idle]

\* The upsert; the answer carries the wrapped key and the ciphertext of a text.
IssueCommit(r) ==
  /\ req[r].at = "issuing"
  /\ SetStatus(r, "IN_PROGRESS")
  /\ Leave(r)
  /\ UNCHANGED <<now, source, owner, burn, share, maker, finished>>

\* Two inserts of one key collide: the owner's handler answers with the row that
\* won, as it stands; the recipient's handler fails (LoseRequest).
IssueConflict(r) ==
  /\ req[r].at = "issuing"
  /\ req[r].reader = "owner"
  /\ attempt["owner"][req[r].scope] # "none"
  /\ Leave(r)
  /\ UNCHANGED <<now, source, owner, burn, share, attempt, maker, finished>>

CloseShare(reason) == share' = [share EXCEPT !.state = reason]

\* invalidateShareFromSource, and the EXPIRED written by issueRecipientRetrieval.
RefuseCommit(r) ==
  /\ req[r].at = "refusing"
  /\ CloseShare(req[r].reason)
  /\ Leave(r)
  /\ UNCHANGED <<now, source, owner, burn, attempt, maker, finished>>

ConsumeShare(r) ==
  IF req[r].reader = "recipient" /\ ~share.repeat
    THEN CloseShare("CONSUMED")
    ELSE UNCHANGED share

\* Mutant: an item that is overdue is taken for gone already.
PurgeUsableItem(r) ==
  source' = IF req[r].reader = "owner" /\ burn /\ ItemUsable
              THEN SetState("PURGED") ELSE source

PurgeItem(r) ==
  source' = IF req[r].reader = "owner" /\ burn THEN SetState("PURGED") ELSE source

\* One transaction; it writes the attempt, then the object the attempt is for,
\* and looks at neither state.
CompleteCommit(r) ==
  /\ req[r].at = "completing"
  /\ SetStatus(r, "COMPLETED")
  /\ PurgeItem(r)
  /\ ConsumeShare(r)
  /\ finished' = finished \cup {req[r].reader}
  /\ Leave(r)
  /\ UNCHANGED <<now, owner, burn, maker>>

FailCommit(r) ==
  /\ req[r].at = "failing"
  /\ SetStatus(r, "FAILED")
  /\ Leave(r)
  /\ UNCHANGED <<now, source, owner, burn, share, maker, finished>>

\* The download has ended; or the device is not eligible for a package, a
\* statement has failed, or the process stops.
LoseRequest(r) ==
  /\ req[r].at # "idle"
  /\ Leave(r)
  /\ UNCHANGED <<now, source, owner, burn, share, attempt, maker, finished>>

-----------------------------------------------------------------------------
(* invalidateDerivedAccess, in the transaction of the source write: shares  *)
(* still ACTIVE and attempts still open.                                    *)

SourceCascade ==
  /\ CascadingSourceStep
  /\ share' = IF share.state = "ACTIVE"
                THEN [share EXCEPT !.state = "SOURCE_INVALIDATED"] ELSE share
  /\ attempt' = [f \in Reader |-> [s \in Scope |->
       IF attempt[f][s] = "IN_PROGRESS" THEN "ABANDONED" ELSE attempt[f][s]]]
  /\ UNCHANGED <<burn, req, maker, finished>>

SourceAlone ==
  /\ OwnerStep
  /\ UNCHANGED <<burn, share, attempt, req, maker, finished>>

Create ==
  \/ CreateShareRead
  \/ \E candidate \in now..Forever, repeat \in BOOLEAN : CreateShareInsert(candidate, repeat)
  \/ CreateShareGiveUp

Arrive(r) ==
  \E s \in Scope :
    \/ IssueSourceItemRetrieval(r, s)
    \/ IssueRecipientRetrieval(r, s)
    \/ \E reader \in Reader :
         \/ CreateDownloadStreamForAttempt(r, reader, s)
         \/ \E success \in BOOLEAN : CompleteRetrieval(r, reader, s, success)

Proceed(r) ==
  \/ IssueCommit(r)
  \/ IssueConflict(r)
  \/ RefuseCommit(r)
  \/ CompleteCommit(r)
  \/ FailCommit(r)
  \/ LoseRequest(r)

Next ==
  \/ SourceAlone
  \/ SourceCascade
  \/ Create
  \/ \E r \in Req : Arrive(r) \/ Proceed(r)

Spec == Init /\ [][Next]_vars

-----------------------------------------------------------------------------
(* Properties *)

Closed(reader) ==
  \/ source.state # "ACTIVE"
  \/ reader = "recipient" /\ share.state \in Reasons

\* What may be read once is read once: when a completion by the owner has burned
\* the item, or one by the recipient has consumed a share without repetition, it
\* stays closed, whatever revocations, level and validity changes, refusals and
\* reopened attempts are still on their way.
ReadOnceCloses ==
  /\ burn /\ "owner" \in finished => Closed("owner")
  /\ "recipient" \in finished /\ ~share.repeat => Closed("recipient")

HandingOut(reader) ==
  \E r \in Req : req[r].reader = reader /\ req[r].at \in {"issuing", "serving"}

\* A purge runs no cascade, and attempts stay open or are opened again, yet
\* nothing comes of them: once the object is closed and the requests that read it
\* before have run out, no retrieval attempt has a package issued or a byte served,
\* ever again.  What the owner is shown of the item itself is not an attempt.
RetrievalDrains ==
  [][\A reader \in Reader :
       Closed(reader) /\ ~HandingOut(reader)
         => Closed(reader)' /\ ~HandingOut(reader)']_vars
=============================================================================

------------------------------ MODULE Projection ------------------------------
(***************************************************************************)
(* The views of one item and of one share of it (ProjectionService): a row *)
(* each in the timeline, the history and the search, rewritten by the      *)
(* request that has changed the object, after its transaction.             *)
(*                                                                         *)
(* A projection reads the object once and writes the three rows in turn;   *)
(* neither the read nor the rows carry a version, so that two projections  *)
(* may land in either order.  Of a row its status is kept, on which the    *)
(* lists select; the other columns are copied in the same statements.      *)
(***************************************************************************)
EXTENDS SourceItem

VARIABLES
  burnAfterRead,  \* burnAfterReadEnabled of the item, fixed at its creation
  shareState,     \* state of the ShareObject, with the reason of an INACTIVE one
  view,           \* status of each object in each view
  proj,           \* the projections each request has still to do
  missed          \* history: the objects with a write whose projection was lost, not
                  \* begun, or overtaken by one of an earlier read

projectionVars == <<now, source, owner, burnAfterRead, shareState, view, proj, missed>>

-----------------------------------------------------------------------------
Objects == {"item", "share"}

Views == {"timeline", "history", "search"}

InactiveReasons == {"SOURCE_INVALIDATED", "EXPIRED", "CONSUMED"}

RowStatuses == {"active", "expired", "invalidated", "purged", "source_invalidated", "consumed"}

\* The order of the writes.
Follows == [read |-> "timeline", timeline |-> "history", history |-> "search", search |-> "done"]

Projecting ==
  [object : Objects, at : {"read"} \cup Views, shows : RowStatuses \cup {"gone"},
   shareNext : BOOLEAN]

NotProjecting == [object |-> "item", at |-> "done", shows |-> "gone", shareNext |-> FALSE]

ProjectionTypeOK ==
  /\ SourceTypeOK
  /\ burnAfterRead \in BOOLEAN
  /\ shareState \in {"none", "ACTIVE"} \cup InactiveReasons
  /\ view \in [Objects -> [Views -> RowStatuses \cup {"gone"}]]
  /\ proj \in [Caller -> {NotProjecting} \cup Projecting]
  /\ missed \in SUBSET Objects

\* finalizeUpload has inserted the item and projected it.
ProjectionInit ==
  /\ SourceInit
  /\ burnAfterRead \in BOOLEAN
  /\ shareState = "none"
  /\ view = [item |-> [v \in Views |-> "active"], share |-> [v \in Views |-> "gone"]]
  /\ proj = [c \in Caller |-> NotProjecting]
  /\ missed = {}

-----------------------------------------------------------------------------
(* What a projection shows. *)

\* buildSourceVisibility: retainedStatus, which is activeStatusLabel too.
SourceStatus ==
  CASE source.state = "ACTIVE" /\ ~Lapsed(source.validUntil) -> "active"
    [] source.state = "ACTIVE" /\ Lapsed(source.validUntil)  -> "expired"
    [] source.state = "EXPIRED"     -> "expired"
    [] source.state = "INVALIDATED" -> "invalidated"
    [] source.state = "PURGED"      -> "purged"

\* buildShareVisibility; that an ACTIVE share is overdue is a choice here.
ShareStatuses ==
  CASE shareState = "none"               -> {"gone"}
    [] shareState = "ACTIVE"             -> {"active", "expired"}
    [] shareState = "EXPIRED"            -> {"expired"}
    [] shareState = "SOURCE_INVALIDATED" -> {"source_invalidated"}
    [] shareState = "CONSUMED"           -> {"consumed"}

Burned == burnAfterRead /\ source.state = "PURGED"

\* The rows of a burned item are deleted.
Shows(o) ==
  CASE o = "share"           -> ShareStatuses
    [] o = "item" /\ Burned  -> {"gone"}
    [] o = "item" /\ ~Burned -> {SourceStatus}

\* A row written earlier may show an item as active that has lapsed since.
UpToDate(o, status) ==
  \/ status \in Shows(o)
  \/ o = "item" /\ source.state = "ACTIVE" /\ status = "active"

-----------------------------------------------------------------------------
(* projectSourceItem, projectShareObject. *)

\* The read is the first thing a projection does.
ProjectRead(c) ==
  /\ proj[c].at = "read"
  /\ \E status \in Shows(proj[c].object) :
       proj' = [proj EXCEPT ![c] = [@ EXCEPT !.at = "timeline", !.shows = status]]
  /\ UNCHANGED <<now, source, owner, burnAfterRead, shareState, view, missed>>

\* projectSourceAndShares: the shares after the item.
NextProjection(p) ==
  IF p.shareNext
    THEN [object |-> "share", at |-> "read", shows |-> "gone", shareNext |-> FALSE]
    ELSE NotProjecting

\* One upsert, or one deleteMany.
ProjectWrite(c) ==
  LET p == proj[c]
  IN  /\ p.at \in Views
      /\ view' = [view EXCEPT ![p.object][p.at] = p.shows]
      /\ missed' = IF UpToDate(p.object, view[p.object][p.at]) /\ ~UpToDate(p.object, p.shows)
                     THEN missed \cup {p.object} ELSE missed
      /\ proj' = [proj EXCEPT ![c] =
                    IF Follows[p.at] = "done" THEN NextProjection(p)
                                              ELSE [p EXCEPT !.at = Follows[@]]]
      /\ UNCHANGED <<now, source, owner, burnAfterRead, shareState>>

\* A statement fails, or the process stops: the transaction before it stands.
LoseProjection(c) ==
  /\ proj[c] # NotProjecting
  /\ proj' = [proj EXCEPT ![c] = NotProjecting]
  /\ missed' = missed \cup {proj[c].object} \cup (IF proj[c].shareNext THEN {"share"} ELSE {})
  /\ UNCHANGED <<now, source, owner, burnAfterRead, shareState, view>>

-----------------------------------------------------------------------------
(* The writes that are followed by a projection. *)

Begins(c, object, shareNext) ==
  /\ proj[c] = NotProjecting
  /\ proj' = [proj EXCEPT ![c] =
       [object |-> object, at |-> "read", shows |-> "gone", shareNext |-> shareNext]]

\* No request answers, or begins anew, before its projections are through.
SourceRead ==
  /\ \E c \in Caller :
       /\ proj[c] = NotProjecting
       /\ \/ RevokeRead(c) \/ ChangeConfidentialityRead(c) \/ UpdateValidityRead(c)
          \/ RefreshAvailabilityRead(c) \/ NoticeExpiryRead(c)
          \/ burnAfterRead /\ IssueBurnAttempt(c)
  /\ UNCHANGED <<burnAfterRead, shareState, view, proj, missed>>

SourceIdles ==
  /\ Tick \/ \E c \in Caller : OwnerGiveUp(c)
  /\ UNCHANGED <<burnAfterRead, shareState, view, proj, missed>>

\* updateValidityForOwner, a level change that cascades nothing,
\* completeSourceItemRetrieval, and the download and the share creation that
\* meet an overdue item.
ProjectedWrite(c) ==
  /\ \/ \E until \in now..Forever : UpdateValidityCommit(c, until)
     \/ ChangeConfidentialityCommit(c, "CONFIDENTIAL")
     \/ BurnCommit(c)
     \/ MarkExpired(c)
  /\ Begins(c, "item", FALSE)
  /\ UNCHANGED <<burnAfterRead, shareState, view, missed>>

\* The owner's retrieval, the extractions and the public links that meet an
\* overdue item do not project.
UnprojectedWrite(c) ==
  /\ MarkExpired(c)
  /\ missed' = missed \cup {"item"}
  /\ UNCHANGED <<burnAfterRead, shareState, view, proj>>

Cascades(c) == RevokeCommit(c) \/ ExpireCommit(c) \/ ChangeConfidentialityCommit(c, "TOP_SECRET")

\* Mutant: the shares are left to their recipient's next request.
CascadeOfItemOnly(c) ==
  /\ Cascades(c)
  /\ shareState' = IF shareState = "ACTIVE" THEN "SOURCE_INVALIDATED" ELSE shareState
  /\ Begins(c, "item", FALSE)
  /\ UNCHANGED <<burnAfterRead, view, missed>>

CascadingWrite(c) ==
  /\ Cascades(c)
  /\ shareState' = IF shareState = "ACTIVE" THEN "SOURCE_INVALIDATED" ELSE shareState
  /\ Begins(c, "item", shareState # "none")
  /\ UNCHANGED <<burnAfterRead, view, missed>>

\* createUserTargetedShare inserts after a read (Retrieval has the two apart).
CreateShare(c) ==
  /\ owner[c] = "none"
  /\ shareState = "none"
  /\ shareState' = "ACTIVE"
  /\ Begins(c, "share", FALSE)
  /\ UNCHANGED <<now, source, owner, burnAfterRead, view, missed>>

\* issueRecipientRetrieval refuses, completeRecipientRetrieval consumes; both
\* write over whatever the state has become since they read it.
InactivateShare(c, reason) ==
  /\ owner[c] = "none"
  /\ shareState # "none"
  /\ shareState' = reason
  /\ Begins(c, "share", FALSE)
  /\ UNCHANGED <<now, source, owner, burnAfterRead, view, missed>>

ProjectionNext ==
  \/ SourceRead
  \/ SourceIdles
  \/ \E c \in Caller :
       \/ ProjectedWrite(c) \/ UnprojectedWrite(c) \/ CascadingWrite(c)
       \/ CreateShare(c) \/ \E reason \in InactiveReasons : InactivateShare(c, reason)
       \/ ProjectRead(c) \/ ProjectWrite(c) \/ LoseProjection(c)

ProjectionSpec == ProjectionInit /\ [][ProjectionNext]_projectionVars

-----------------------------------------------------------------------------
(* Properties *)

Projects(c, o) ==
  proj[c].at # "done" /\ (proj[c].object = o \/ (proj[c].shareNext /\ o = "share"))

\* Lists that were told of every change are right about it: when no projection of
\* an object is under way, none was lost, left out or overtaken, its timeline,
\* history and search rows all show what the object is, however many requests
\* have changed it, and burned items show nowhere.
ViewsFollow ==
  \A o \in Objects \ missed :
    (\A c \in Caller : ~Projects(c, o))
      => \A v \in Views : UpToDate(o, view[o][v])

HoldsRow(c) == proj[c].object = "item" /\ proj[c].at \in Views /\ proj[c].shows # "gone"

BurnedOut ==
  /\ Burned
  /\ \A v \in Views : view["item"][v] = "gone"
  /\ \A c \in Caller : owner[c] = "none" /\ ~HoldsRow(c)

\* A burned item that has left the lists is not brought back to them: not by a
\* projection that comes later, only by one that had read the item before, or by
\* a write decided before.
BurnedStaysGone == [][BurnedOut => BurnedOut']_projectionVars
=============================================================================

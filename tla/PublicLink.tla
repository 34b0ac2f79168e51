----------------------------- MODULE PublicLink -----------------------------
(***************************************************************************)
(* Public links of one source item (PublicLinksService and its             *)
(* controller): creation, the anonymous download with its reserved slot,   *)
(* and the tickets that are issued first and redeemed later.               *)
(*                                                                         *)
(* The database is shared and every await is a point where other requests  *)
(* run.  A transaction is one action when its first statement already      *)
(* takes the row lock (reservePublicDownload); when it reads without a     *)
(* lock and writes what it read (releasePublicDownload,                    *)
(* redeemIssuedTicket), the read and the write are two actions.            *)
(***************************************************************************)
EXTENDS SourceItem

CONSTANTS
  Link,          \* public links of the item
  Ticket,        \* delivery tickets (bound on the rows alive at once)
  Req,           \* concurrent anonymous requests
  MaxDownloads,  \* largest configured download count (bound)
  NoLink, NoTicket

ASSUME LinkAssumption ==
  /\ IsFiniteSet(Ticket)
  /\ MaxDownloads \in Nat
  /\ NoLink \notin Link
  /\ NoTicket \notin Ticket

VARIABLES
  link,      \* PublicLink rows
  ticket,    \* PublicLinkDeliveryTicket rows
  req,       \* anonymous requests: where each one stands and what it has read
  maker      \* createPublicLink requests: the item's validUntil as it was read

vars == <<now, source, owner, link, ticket, req, maker>>

-----------------------------------------------------------------------------
LinkStates == {"ACTIVE", "EXHAUSTED", "EXPIRED", "INVALIDATED"}

\* A row that does not exist has state "none".
LinkRow ==
  [state : LinkStates \cup {"none"}, configured : Nat, remaining : Nat,
   validUntil : Until]

NoLinkRow == [state |-> "none", configured |-> 0, remaining |-> 0, validUntil |-> 0]

\* "reserved" is a ticket created by reservePublicDownload, "issued" one created
\* by issueDeliveryTicket, "lapsed" an issued one past its expiresAt;
\* "redeemed" has redeemedAt set.
TicketRow ==
  [status : {"none", "reserved", "issued", "lapsed", "redeemed"},
   link : Link \cup {NoLink}]

NoTicketRow == [status |-> "none", link |-> NoLink]

(***************************************************************************)
(* Where an anonymous request stands:                                      *)
(*   rewriting   its refresh read found another state and writes it        *)
(*   download, issue   its refresh returned an ACTIVE link                 *)
(*   preparing   the slot is reserved, no handler is attached yet          *)
(*   streaming   the handlers are attached, the bytes are on their way     *)
(*   ended       the last byte is written, 'finish' has not come yet       *)
(*   aborted     the connection closed before the response had ended       *)
(*   unseen      it closed while nobody would act on it                    *)
(*   releasing   releasePublicDownload has read the ticket and the link    *)
(*   redeeming   redeemDeliveryTicket has found everything in order        *)
(***************************************************************************)
Places ==
  {"idle", "rewriting", "download", "issue", "preparing", "streaming", "ended",
   "aborted", "unseen", "releasing", "redeeming"}

Request ==
  [at : Places, link : Link \cup {NoLink}, ticket : Ticket \cup {NoTicket},
   state : LinkStates \cup {"none"}]

Idle == [at |-> "idle", link |-> NoLink, ticket |-> NoTicket, state |-> "none"]

NotReading == Forever + 1

Existing == {l \in Link : link[l].state # "none"}

WriteLink(l, remaining, state) ==
  [link EXCEPT ![l].remaining = remaining, ![l].state = state]

TypeOK ==
  /\ SourceTypeOK
  /\ link \in [Link -> LinkRow]
  /\ ticket \in [Ticket -> TicketRow]
  /\ req \in [Req -> Request]
  /\ maker \in [Caller -> Until \cup {NotReading}]

Init ==
  /\ SourceInit
  /\ link = [l \in Link |-> NoLinkRow]
  /\ ticket = [t \in Ticket |-> NoTicketRow]
  /\ req = [r \in Req |-> Idle]
  /\ maker = [c \in Caller |-> NotReading]

-----------------------------------------------------------------------------
(* createPublicLink *)

SourceUsable == source.state = "ACTIVE" /\ ~Lapsed(source.validUntil)

\* The default policy: outward access is refused for TOP_SECRET.
AllowPublicLinks(level) == level # "TOP_SECRET"

CreateLinkRead(c) ==
  /\ maker[c] = NotReading
  /\ SourceUsable
  /\ AllowPublicLinks(source.level)
  /\ maker' = [maker EXCEPT ![c] = source.validUntil]
  /\ UNCHANGED <<now, source, owner, link, ticket, req>>

\* candidate < sourceValidUntil ? candidate : sourceValidUntil; null is Forever.
ClampValidUntil(candidate, limit) == IF candidate < limit THEN candidate ELSE limit

CreateLinkInsert(c, l, downloads, candidate) ==
  /\ maker[c] # NotReading
  /\ link[l].state = "none"
  /\ link' = [link EXCEPT ![l] =
       [state |-> "ACTIVE", configured |-> downloads, remaining |-> downloads,
        validUntil |-> ClampValidUntil(candidate, maker[c])]]
  /\ maker' = [maker EXCEPT ![c] = NotReading]
  /\ UNCHANGED <<now, source, owner, ticket, req>>

CreateLinkGiveUp(c) ==
  /\ maker[c] # NotReading
  /\ maker' = [maker EXCEPT ![c] = NotReading]
  /\ UNCHANGED <<now, source, owner, link, ticket, req>>

-----------------------------------------------------------------------------
(* refreshPublicLinkState *)

\* Mutant: the refresh trusts the cascade and looks only at the link.
RefreshedStateOfLink(l) ==
  IF Lapsed(link[l].validUntil) THEN "EXPIRED"
  ELSE IF link[l].remaining <= 0 THEN "EXHAUSTED"
  ELSE link[l].state

RefreshedState(l) ==
  IF ~SourceUsable THEN "INVALIDATED"
  ELSE IF Lapsed(link[l].validUntil) THEN "EXPIRED"
  ELSE IF link[l].remaining <= 0 THEN "EXHAUSTED"
  ELSE link[l].state

\* A request whose read finds the stored state to be right and not ACTIVE is
\* answered "invalid" and changes nothing.
RefreshRead(r, l, goal) ==
  /\ req[r].at = "idle"
  /\ l \in Existing
  /\ \/ /\ RefreshedState(l) # link[l].state
        /\ req' = [req EXCEPT ![r] =
             [Idle EXCEPT !.at = "rewriting", !.link = l, !.state = RefreshedState(l)]]
     \/ /\ RefreshedState(l) = "ACTIVE"
        /\ link[l].state = "ACTIVE"
        /\ req' = [req EXCEPT ![r] = [Idle EXCEPT !.at = goal, !.link = l]]
  /\ UNCHANGED <<now, source, owner, link, ticket, maker>>

\* The update by id: whatever the row has become, it gets the state computed from
\* the earlier read.  That state is never ACTIVE, so the request ends here.
RefreshWrite(r) ==
  /\ req[r].at = "rewriting"
  /\ link' = [link EXCEPT ![req[r].link].state = req[r].state]
  /\ req' = [req EXCEPT ![r] = Idle]
  /\ UNCHANGED <<now, source, owner, ticket, maker>>

-----------------------------------------------------------------------------
(* createPublicDownload, after its refresh *)

\* Mutant: the updateMany without its guard.
HasSlotUnguarded(l) == link[l].state # "none"

HasSlot(l) == link[l].state = "ACTIVE" /\ link[l].remaining > 0

\* Mutant: the last slot taken without EXHAUSTED (off by one).
TakeSlotOffByOne(l) ==
  WriteLink(l, link[l].remaining - 1,
            IF link[l].remaining - 1 < 0 THEN "EXHAUSTED" ELSE link[l].state)

TakeSlot(l) ==
  WriteLink(l, link[l].remaining - 1,
            IF link[l].remaining - 1 <= 0 THEN "EXHAUSTED" ELSE link[l].state)

\* reservePublicDownload: guarded updateMany, EXHAUSTED when nothing is left, the
\* ticket; the updateMany holds the row until the commit.
Reserve(r, t) ==
  /\ req[r].at = "download"
  /\ ticket[t].status = "none"
  /\ HasSlot(req[r].link)
  /\ link' = TakeSlot(req[r].link)
  /\ ticket' = [ticket EXCEPT ![t] = [status |-> "reserved", link |-> req[r].link]]
  /\ req' = [req EXCEPT ![r].at = "preparing", ![r].ticket = t]
  /\ UNCHANGED <<now, source, owner, maker>>

ReserveRefused(r) ==
  /\ req[r].at = "download"
  /\ ~HasSlot(req[r].link)
  /\ req' = [req EXCEPT ![r] = Idle]
  /\ UNCHANGED <<now, source, owner, link, ticket, maker>>

-----------------------------------------------------------------------------
(* The response, its two handlers, and what they do to the slot *)

Respond(r, places, next) ==
  /\ req[r].at \in places
  /\ req' = [req EXCEPT ![r].at = next]
  /\ UNCHANGED <<now, source, owner, link, ticket, maker>>

\* The controller, once the service has answered: response.on('finish' | 'close').
AttachHandlers(r) == Respond(r, {"preparing"}, "streaming")

\* The stream is at its end: response.end(), writableEnded.
EndResponse(r) == Respond(r, {"streaming"}, "ended")

\* 'close' while the response had not been ended.
CloseEarly(r) == Respond(r, {"streaming"}, "aborted")

\* The connection closes before 'close' is attached, or after the response was ended
\* and before it has finished: neither handler does anything.
CloseUnseen(r) == Respond(r, {"preparing", "ended"}, "unseen")

\* 'finish': finishPublicDownload.
Finish(r) ==
  /\ req[r].at = "ended"
  /\ ticket' = [ticket EXCEPT ![req[r].ticket].status =
                  IF @ = "reserved" THEN "redeemed" ELSE @]
  /\ req' = [req EXCEPT ![r] = Idle]
  /\ UNCHANGED <<now, source, owner, link, maker>>

CanReactivate(l) ==
  link[l].state = "EXHAUSTED" /\ SourceUsable /\ ~Lapsed(link[l].validUntil)

\* releasePublicDownload reads ticket, link and source without a lock, the source
\* last: by then it may no longer be usable ...
ReleaseRead(r) ==
  /\ req[r].at = "aborted"
  /\ ticket[req[r].ticket].status = "reserved"
  /\ \E state \in {link[req[r].link].state} \cup
                   (IF CanReactivate(req[r].link) THEN {"ACTIVE"} ELSE {}) :
       req' = [req EXCEPT ![r].at = "releasing", ![r].state = state]
  /\ UNCHANGED <<now, source, owner, link, ticket, maker>>

\* Mutant: the slot goes back and the ticket stays.
ReleaseCommitKeepsTicket(r) ==
  /\ req[r].at = "releasing"
  /\ link' = WriteLink(req[r].link, link[req[r].link].remaining + 1, req[r].state)
  /\ req' = [req EXCEPT ![r] = Idle]
  /\ UNCHANGED <<now, source, owner, ticket, maker>>

\* ... deletes the ticket, increments the stored count, and writes the state the
\* read has led to.
ReleaseCommit(r) ==
  /\ req[r].at = "releasing"
  /\ ticket' = [ticket EXCEPT ![req[r].ticket] = NoTicketRow]
  /\ link' = WriteLink(req[r].link, link[req[r].link].remaining + 1, req[r].state)
  /\ req' = [req EXCEPT ![r] = Idle]
  /\ UNCHANGED <<now, source, owner, maker>>

-----------------------------------------------------------------------------
(* issueDeliveryTicket, after its refresh, and redeemDeliveryTicket *)

IssueTicket(r, t) ==
  /\ req[r].at = "issue"
  /\ ticket[t].status = "none"
  /\ ticket' = [ticket EXCEPT ![t] = [status |-> "issued", link |-> req[r].link]]
  /\ req' = [req EXCEPT ![r] = Idle]
  /\ UNCHANGED <<now, source, owner, link, maker>>

TicketLapses(t) ==
  /\ ticket[t].status = "issued"
  /\ ticket' = [ticket EXCEPT ![t].status = "lapsed"]
  /\ UNCHANGED <<now, source, owner, link, req, maker>>

\* The ticket, then inside the transaction the link and its item; the token of a
\* reserved ticket never leaves the server.
RedeemRead(r, t) ==
  /\ req[r].at = "idle"
  /\ ticket[t].status = "issued"
  /\ HasSlot(ticket[t].link)
  /\ SourceUsable
  /\ ~Lapsed(link[ticket[t].link].validUntil)
  /\ req' = [req EXCEPT ![r] =
       [Idle EXCEPT !.at = "redeeming", !.link = ticket[t].link, !.ticket = t]]
  /\ UNCHANGED <<now, source, owner, link, ticket, maker>>

RedeemCommit(r) ==
  /\ req[r].at = "redeeming"
  /\ ticket[req[r].ticket].status = "issued"
  /\ HasSlot(req[r].link)
  /\ ticket' = [ticket EXCEPT ![req[r].ticket].status = "redeemed"]
  /\ link' = TakeSlot(req[r].link)
  /\ req' = [req EXCEPT ![r] = Idle]
  /\ UNCHANGED <<now, source, owner, maker>>

\* Either guarded updateMany counts 0: the transaction rolls back.
RedeemRefused(r) ==
  /\ req[r].at = "redeeming"
  /\ ticket[req[r].ticket].status # "issued" \/ ~HasSlot(req[r].link)
  /\ req' = [req EXCEPT ![r] = Idle]
  /\ UNCHANGED <<now, source, owner, link, ticket, maker>>

\* A request that stops without a word: the server goes down, or a statement fails.
\* Neither finish nor release runs, and no job looks for reserved tickets.
LoseRequest(r) ==
  /\ req[r].at # "idle"
  /\ req' = [req EXCEPT ![r] = Idle]
  /\ UNCHANGED <<now, source, owner, link, ticket, maker>>

-----------------------------------------------------------------------------
(* The item's own steps *)

Invalidated ==
  [l \in Link |-> IF l \in Existing THEN [link[l] EXCEPT !.state = "INVALIDATED"]
                                    ELSE link[l]]

\* invalidateDerivedAccess, in the transaction of the source write.
SourceCascade ==
  /\ CascadingSourceStep
  /\ link' = Invalidated
  /\ UNCHANGED <<ticket, req, maker>>

SourceAlone ==
  /\ PlainSourceStep
  /\ UNCHANGED <<link, ticket, req, maker>>

MakerNext(c) ==
  \/ CreateLinkRead(c)
  \/ \E l \in Link, n \in 1..MaxDownloads, until \in now..Forever :
       CreateLinkInsert(c, l, n, until)
  \/ CreateLinkGiveUp(c)

ServerStep(r) ==
  \/ RefreshWrite(r)
  \/ \E t \in Ticket : Reserve(r, t)
  \/ ReserveRefused(r)
  \/ AttachHandlers(r)
  \/ ReleaseRead(r)
  \/ ReleaseCommit(r)
  \/ \E t \in Ticket : IssueTicket(r, t)
  \/ RedeemCommit(r)
  \/ RedeemRefused(r)

ClientStep(r) ==
  \/ \E l \in Link, goal \in {"download", "issue"} : RefreshRead(r, l, goal)
  \/ \E t \in Ticket : RedeemRead(r, t)
  \/ EndResponse(r)
  \/ Finish(r)
  \/ CloseEarly(r)
  \/ CloseUnseen(r)
  \/ LoseRequest(r)

Next ==
  \/ SourceAlone
  \/ SourceCascade
  \/ \E c \in Caller : MakerNext(c)
  \/ \E r \in Req : ServerStep(r) \/ ClientStep(r)
  \/ \E t \in Ticket : TicketLapses(t)

Spec == Init /\ [][Next]_vars

(***************************************************************************)
(* Fairness: the server runs on, and carries what it has let in as far as  *)
(* the client lets it.  LoseRequest is left out; nothing is assumed of     *)
(* clients and connections, which may close at any time and unseen.        *)
(***************************************************************************)
NextKept ==
  \/ SourceAlone
  \/ SourceCascade
  \/ \E c \in Caller : MakerNext(c)
  \/ \E r \in Req : ServerStep(r) \/ (ClientStep(r) /\ ~LoseRequest(r))
  \/ \E t \in Ticket : TicketLapses(t)

KeptSpec ==
  /\ Init /\ [][NextKept]_vars
  /\ \A r \in Req : WF_vars(ServerStep(r))

-----------------------------------------------------------------------------
(* Properties *)

Reserved(l) == {t \in Ticket : ticket[t].status = "reserved" /\ ticket[t].link = l}
Redeemed(l) == {t \in Ticket : ticket[t].status = "redeemed" /\ ticket[t].link = l}

\* The decrements at reservation and redemption, the increment at release and the
\* tickets that stand for them always balance: whatever the order of concurrent
\* downloads, aborts and redemptions, what is left plus what is held plus what is
\* spent is the configured download count.
SlotConservation ==
  \A l \in Existing :
    link[l].remaining + Cardinality(Reserved(l)) + Cardinality(Redeemed(l))
      = link[l].configured

\* No stale state write (refresh, release) leaves a link ACTIVE with nothing to give.
ActiveHasSlots == \A l \in Link : link[l].state = "ACTIVE" => link[l].remaining > 0

\* The link's rows implement the abstract budget: held units are the reserved
\* tickets, spent ones the redeemed tickets.
Budget ==
  INSTANCE DownloadBudget WITH
    budget <- [l \in Link |-> link[l].configured],
    held   <- [l \in Link |-> Cardinality(Reserved(l))],
    spent  <- [l \in Link |-> Cardinality(Redeemed(l))]

BudgetSpec == Budget!Spec

\* The item has left ACTIVE and the requests that read it before have run out.
Drained ==
  /\ source.state # "ACTIVE"
  /\ \A r \in Req : req[r].at \notin {"download", "issue", "redeeming"}

\* Revocation, expiry and purge are final for the public even though a stale
\* creation or release may leave a link row ACTIVE: once the requests in flight
\* have run out, no slot is taken and no ticket is issued, ever again.
RevocationDrains ==
  [][Drained => /\ Drained'
                /\ \A t \in Ticket : ticket[t].status \in {"none", "lapsed"}
                                        => ticket'[t] = ticket[t]
                /\ \A l \in Link : link[l].state # "none"
                                        => link'[l].remaining >= link[l].remaining]_vars

Open(r) == req[r].at \in {"streaming", "ended"}

Unseen(t) == \E r \in Req : req[r].at = "unseen" /\ req[r].ticket = t

\* When no client keeps a response open for ever, every slot that is reserved for a
\* download is spent or given back, whatever has become of the link and its item
\* meanwhile -- or is one of those whose connection closed unseen.
EverySlotSettles ==
  (\A r \in Req : []<>~Open(r)) =>
    \A t \in Ticket :
      ticket[t].status = "reserved" ~> ticket[t].status # "reserved" \/ Unseen(t)
=============================================================================

-------------------------- MODULE PublicLinkProofs --------------------------
(***************************************************************************)
(* Theorems about PublicLink, for any number of links, tickets, requests   *)
(* and instants.                                                           *)
(***************************************************************************)
EXTENDS PublicLink, SourceItemProofs, FiniteSetTheorems, TLAPS

-----------------------------------------------------------------------------
(* What the two kinds of row updates return *)

\* Writing the count and the state of one link leaves the others and its budget alone.
LEMMA WriteLinkRow ==
  ASSUME link \in [Link -> LinkRow], NEW l \in Link, NEW n \in Nat,
         NEW s \in LinkStates \cup {"none"}
  PROVE  /\ WriteLink(l, n, s) \in [Link -> LinkRow]
         /\ WriteLink(l, n, s)[l].state = s
         /\ WriteLink(l, n, s)[l].remaining = n
         /\ WriteLink(l, n, s)[l].configured = link[l].configured
         /\ \A m \in Link \ {l} : WriteLink(l, n, s)[m] = link[m]
BY DEF WriteLink, LinkRow

\* Taking a slot lowers the count by one and never leaves an ACTIVE link without slots.
LEMMA TakeSlotRow ==
  ASSUME link \in [Link -> LinkRow], NEW l \in Link, HasSlot(l)
  PROVE  /\ TakeSlot(l) \in [Link -> LinkRow]
         /\ TakeSlot(l)[l].state \in {"ACTIVE", "EXHAUSTED"}
         /\ TakeSlot(l)[l].state = "ACTIVE" => TakeSlot(l)[l].remaining > 0
         /\ TakeSlot(l)[l].remaining = link[l].remaining - 1
         /\ TakeSlot(l)[l].configured = link[l].configured
         /\ \A m \in Link \ {l} : TakeSlot(l)[m] = link[m]
<1> DEFINE n == link[l].remaining - 1
           s == IF n <= 0 THEN "EXHAUSTED" ELSE link[l].state
<1>1. n \in Nat
  BY DEF HasSlot, LinkRow
<1>2. s \in LinkStates \cup {"none"} /\ s \in {"ACTIVE", "EXHAUSTED"}
      /\ (s = "ACTIVE" => n > 0)
  BY <1>1 DEF HasSlot, LinkRow, LinkStates
<1>3. TakeSlot(l) = WriteLink(l, n, s)
  BY DEF TakeSlot
<1> HIDE DEF n, s
<1>4. n = link[l].remaining - 1
  BY DEF n
<1> QED
  BY <1>1, <1>2, <1>3, <1>4, WriteLinkRow

-----------------------------------------------------------------------------
(***************************************************************************)
(* The inductive invariant, part one: which rows and tickets a request     *)
(* stands on.  A request that holds a slot owns a reserved ticket of its   *)
(* link and owns it alone; this is what makes Finish and ReleaseCommit     *)
(* move exactly one ticket.                                                *)
(***************************************************************************)
HoldingPlaces == {"preparing", "streaming", "ended", "aborted", "unseen", "releasing"}

Holding(r) == req[r].at \in HoldingPlaces

\* The response moves on, and the slot is held as before.
Responds(r) == AttachHandlers(r) \/ EndResponse(r) \/ CloseEarly(r) \/ CloseUnseen(r)

\* A request under way names an existing link.
RequestLinks == \A r \in Req : req[r].at # "idle" => req[r].link \in Existing

\* A ticket that exists names an existing link.
TicketLinks == \A t \in Ticket : ticket[t].status # "none" => ticket[t].link \in Existing

Ownership ==
  \A r \in Req : Holding(r) =>
    /\ req[r].ticket \in Ticket
    /\ ticket[req[r].ticket] = [status |-> "reserved", link |-> req[r].link]

OneOwner ==
  \A r, s \in Req : Holding(r) /\ Holding(s) /\ req[r].ticket = req[s].ticket => r = s

RedeemTarget ==
  \A r \in Req : req[r].at = "redeeming" =>
    /\ req[r].ticket \in Ticket
    /\ ticket[req[r].ticket].status \in {"issued", "lapsed", "redeemed"}
    /\ ticket[req[r].ticket].link = req[r].link

\* What a request is about to write as the link's state.
StateToWrite ==
  \A r \in Req :
    /\ req[r].at = "rewriting" => req[r].state \in LinkStates \ {"ACTIVE"}
    /\ req[r].at = "releasing" => req[r].state \in LinkStates

Footing ==
  /\ TypeOK
  /\ RequestLinks /\ TicketLinks
  /\ Ownership /\ OneOwner /\ RedeemTarget
  /\ StateToWrite
  /\ ActiveHasSlots

\* The two fields of the ticket a request holds.
LEMMA HeldTicket ==
  ASSUME Footing
  PROVE  \A r \in Req : Holding(r) =>
           /\ req[r].ticket \in Ticket
           /\ ticket[req[r].ticket].status = "reserved"
           /\ ticket[req[r].ticket].link = req[r].link
<1> SUFFICES ASSUME NEW r \in Req, Holding(r)
             PROVE  /\ req[r].ticket \in Ticket
                    /\ ticket[req[r].ticket].status = "reserved"
                    /\ ticket[req[r].ticket].link = req[r].link
  OBVIOUS
<1>1. /\ req[r].ticket \in Ticket
      /\ ticket[req[r].ticket] = [status |-> "reserved", link |-> req[r].link]
  BY DEF Footing, Ownership
<1> QED
  BY <1>1

\* Steps that touch no link row, no ticket and no request keep the footing.
LEMMA FootingFrame ==
  ASSUME Footing, UNCHANGED <<link, ticket, req>>, TypeOK'
  PROVE  Footing'
BY DEF Footing, RequestLinks, TicketLinks, Ownership, OneOwner, RedeemTarget,
       StateToWrite, ActiveHasSlots, Holding, Existing

\* A request that comes to rest keeps the footing of the others.
LEMMA RestKeepsFooting ==
  ASSUME Footing, NEW r \in Req, req' = [req EXCEPT ![r] = Idle],
         UNCHANGED <<now, source, owner, maker, link, ticket>>
  PROVE  Footing'
<1> USE DEF Footing
<1>1. req' \in [Req -> Request] /\ req'[r].at = "idle"
      /\ \A s \in Req \ {r} : req'[s] = req[s]
  BY DEF TypeOK, Request, Idle, Places
<1>2. TypeOK'
  BY <1>1 DEF TypeOK, SourceTypeOK
<1>3. RequestLinks' /\ TicketLinks' /\ StateToWrite' /\ ActiveHasSlots'
  BY <1>1 DEF RequestLinks, TicketLinks, StateToWrite, ActiveHasSlots, Existing
<1>4. Ownership' /\ OneOwner' /\ RedeemTarget'
  BY <1>1 DEF Ownership, OneOwner, RedeemTarget, Holding, HoldingPlaces
<1> QED
  BY <1>2, <1>3, <1>4

\* The steps of the source item and of the link's creator.
LEMMA OwnerSideFooting ==
  ASSUME Footing, SourceAlone \/ SourceCascade \/ \E c \in Caller : MakerNext(c)
  PROVE  Footing'
<1> USE HorizonAssumption, LinkAssumption
<1> USE DEF Footing
<1>1. CASE SourceAlone
  <2>1. TypeOK'
    BY <1>1, SourceStepType DEF SourceAlone, TypeOK, Until, Forever, NotReading
  <2> QED
    BY <1>1, <2>1, FootingFrame DEF SourceAlone
<1>2. CASE SourceCascade
  <2>1. SourceTypeOK' /\ UNCHANGED <<ticket, req, maker>>
    BY <1>2, SourceStepType DEF SourceCascade, TypeOK
  <2>2. /\ link' \in [Link -> LinkRow]
        /\ \A l \in Link : /\ link'[l].state # "ACTIVE"
                           /\ link'[l].state = "none" <=> link[l].state = "none"
    BY <1>2 DEF SourceCascade, Invalidated, Existing, TypeOK, LinkRow, LinkStates
  <2>3. TypeOK'
    BY <2>1, <2>2 DEF TypeOK
  <2>4. RequestLinks' /\ TicketLinks' /\ StateToWrite' /\ ActiveHasSlots'
    BY <2>1, <2>2 DEF RequestLinks, TicketLinks, StateToWrite, ActiveHasSlots, Existing
  <2>5. Ownership' /\ OneOwner' /\ RedeemTarget'
    BY <2>1 DEF Ownership, OneOwner, RedeemTarget, Holding
  <2> QED
    BY <2>3, <2>4, <2>5
<1>3. ASSUME NEW c \in Caller, CreateLinkRead(c) \/ CreateLinkGiveUp(c)
      PROVE  Footing'
  <2>1. TypeOK'
    BY <1>3 DEF CreateLinkRead, CreateLinkGiveUp, TypeOK, SourceTypeOK, Source
  <2> QED
    BY <1>3, <2>1, FootingFrame DEF CreateLinkRead, CreateLinkGiveUp
<1>4. ASSUME NEW c \in Caller, NEW l \in Link, NEW n \in 1..MaxDownloads,
             NEW until \in now..Forever, CreateLinkInsert(c, l, n, until)
      PROVE  Footing'
  <2>1. ClampValidUntil(until, maker[c]) \in Until
    BY <1>4 DEF CreateLinkInsert, ClampValidUntil, TypeOK, SourceTypeOK, Time, Until,
                Forever
  <2>2. /\ link' \in [Link -> LinkRow]
        /\ link'[l].state = "ACTIVE" /\ link'[l].remaining > 0
        /\ \A m \in Link \ {l} : link'[m] = link[m]
    BY <1>4, <2>1 DEF CreateLinkInsert, TypeOK, LinkRow, LinkStates
  <2>3. TypeOK'
    BY <1>4, <2>2 DEF CreateLinkInsert, TypeOK, SourceTypeOK
  <2>4. UNCHANGED <<ticket, req>>
    BY <1>4 DEF CreateLinkInsert
  <2>5. RequestLinks' /\ TicketLinks' /\ StateToWrite' /\ ActiveHasSlots'
    BY <2>2, <2>4 DEF RequestLinks, TicketLinks, StateToWrite, ActiveHasSlots, Existing
  <2>6. Ownership' /\ OneOwner' /\ RedeemTarget'
    BY <2>4 DEF Ownership, OneOwner, RedeemTarget, Holding
  <2> QED
    BY <2>3, <2>5, <2>6
<1> QED
  BY <1>1, <1>2, <1>3, <1>4 DEF MakerNext

-----------------------------------------------------------------------------
(* The steps of an anonymous request *)

\* A refresh or a redemption that starts, a download that goes on: only the request
\* itself changes.
LEMMA RequestMoves ==
  ASSUME Footing, NEW r \in Req,
         \/ \E l \in Link, goal \in {"download", "issue"} : RefreshRead(r, l, goal)
         \/ \E t \in Ticket : RedeemRead(r, t)
         \/ Responds(r)
         \/ ReleaseRead(r)
  PROVE  Footing'
<1> USE DEF Footing
<1>0. UNCHANGED <<now, source, owner, link, ticket, maker>>
  BY DEF RefreshRead, RedeemRead, Responds, AttachHandlers, EndResponse, CloseEarly,
         CloseUnseen, Respond, ReleaseRead
<1>1. ASSUME NEW q \in Request, req' = [req EXCEPT ![r] = q],
             q.link \in Existing,
             q.at = "rewriting" => q.state \in LinkStates \ {"ACTIVE"},
             q.at = "releasing" => q.state \in LinkStates,
             q.at \in HoldingPlaces =>
               Holding(r) /\ q.ticket = req[r].ticket /\ q.link = req[r].link,
             q.at = "redeeming" => /\ q.ticket \in Ticket
                                   /\ ticket[q.ticket].status = "issued"
                                   /\ ticket[q.ticket].link = q.link
      PROVE  Footing'
  <2>1. req' \in [Req -> Request] /\ req'[r] = q
        /\ \A s \in Req \ {r} : req'[s] = req[s]
    BY <1>1 DEF TypeOK
  <2>2. TypeOK'
    BY <1>0, <2>1 DEF TypeOK, SourceTypeOK
  <2>3. RequestLinks' /\ TicketLinks' /\ StateToWrite' /\ ActiveHasSlots'
    BY <1>0, <1>1, <2>1 DEF RequestLinks, TicketLinks, StateToWrite, ActiveHasSlots,
                            Existing
  <2>4. Ownership'
    BY <1>0, <1>1, <2>1 DEF Ownership, Holding, HoldingPlaces
  <2>5. OneOwner'
    BY <1>0, <1>1, <2>1 DEF OneOwner, Holding, HoldingPlaces
  <2>6. RedeemTarget'
    BY <1>0, <1>1, <2>1 DEF RedeemTarget
  <2> QED
    BY <2>2, <2>3, <2>4, <2>5, <2>6
<1> USE DEF Request, Places
<1>2. ASSUME NEW l \in Link, NEW goal \in {"download", "issue"}, RefreshRead(r, l, goal)
      PROVE  Footing'
  <2>1. RefreshedState(l) \in LinkStates
    BY <1>2 DEF RefreshRead, RefreshedState, Existing, LinkStates, TypeOK, LinkRow
  <2>2. CASE RefreshedState(l) # link[l].state
    <3>1. RefreshedState(l) # "ACTIVE"
      BY <2>2 DEF RefreshedState
    <3> DEFINE q == [Idle EXCEPT !.at = "rewriting", !.link = l,
                                 !.state = RefreshedState(l)]
    <3>2. /\ q \in Request /\ q.link = l /\ q.at = "rewriting"
          /\ q.state = RefreshedState(l)
      BY <2>1 DEF Idle
    <3>3. req' = [req EXCEPT ![r] = q] /\ l \in Existing
      BY <1>2, <2>2 DEF RefreshRead
    <3> HIDE DEF q
    <3> QED
      BY <1>1, <2>1, <3>1, <3>2, <3>3 DEF HoldingPlaces
  <2>3. CASE RefreshedState(l) = link[l].state
    <3> DEFINE q == [Idle EXCEPT !.at = goal, !.link = l]
    <3>1. q \in Request /\ q.link = l /\ q.at = goal
      BY DEF Idle
    <3>2. req' = [req EXCEPT ![r] = q] /\ l \in Existing
      BY <1>2, <2>3 DEF RefreshRead
    <3> HIDE DEF q
    <3> QED
      BY <1>1, <3>1, <3>2 DEF HoldingPlaces
  <2> QED
    BY <2>2, <2>3
<1>3. ASSUME NEW t \in Ticket, RedeemRead(r, t)
      PROVE  Footing'
  <2> DEFINE q == [Idle EXCEPT !.at = "redeeming", !.link = ticket[t].link, !.ticket = t]
  <2>1. ticket[t].link \in Existing
    BY <1>3 DEF RedeemRead, TicketLinks
  <2>2. q \in Request /\ q.link = ticket[t].link /\ q.at = "redeeming" /\ q.ticket = t
    BY <2>1 DEF Idle, Existing
  <2>3. req' = [req EXCEPT ![r] = q] /\ ticket[t].status = "issued"
    BY <1>3 DEF RedeemRead
  <2> HIDE DEF q
  <2> QED
    BY <1>1, <2>1, <2>2, <2>3 DEF HoldingPlaces
<1>4. CASE Responds(r)
  <2>1. PICK next \in {"streaming", "ended", "aborted", "unseen"} :
          req' = [req EXCEPT ![r].at = next] /\ Holding(r)
    BY <1>4 DEF Responds, AttachHandlers, EndResponse, CloseEarly, CloseUnseen, Respond,
                Holding, HoldingPlaces
  <2> DEFINE q == [req[r] EXCEPT !.at = next]
  <2>2. q \in Request /\ q.link = req[r].link /\ q.at = next
        /\ q.ticket = req[r].ticket
    BY DEF TypeOK
  <2>3. req' = [req EXCEPT ![r] = q] /\ req[r].link \in Existing
    BY <2>1 DEF RequestLinks, Holding, HoldingPlaces
  <2> HIDE DEF q
  <2> QED
    BY <1>1, <2>1, <2>2, <2>3
<1>5. CASE ReleaseRead(r)
  <2>1. req[r].link \in Existing /\ Holding(r)
    BY <1>5 DEF ReleaseRead, RequestLinks, Holding, HoldingPlaces
  <2>2. PICK s \in LinkStates :
          req' = [req EXCEPT ![r].at = "releasing", ![r].state = s]
    BY <1>5, <2>1 DEF ReleaseRead, Existing, TypeOK, LinkRow, LinkStates
  <2> DEFINE q == [req[r] EXCEPT !.at = "releasing", !.state = s]
  <2>3. q \in Request /\ q.link = req[r].link /\ q.at = "releasing"
        /\ q.ticket = req[r].ticket /\ q.state = s
    BY DEF TypeOK
  <2>4. req' = [req EXCEPT ![r] = q]
    BY <2>2
  <2> HIDE DEF q
  <2> QED
    BY <1>1, <2>1, <2>2, <2>3, <2>4
<1> QED
  BY <1>2, <1>3, <1>4, <1>5

\* Steps after which the request rests and a link row or a ticket has changed.
LEMMA RowsMove ==
  ASSUME Footing, NEW r \in Req,
         \/ RefreshWrite(r) \/ Finish(r) \/ ReleaseCommit(r) \/ RedeemCommit(r)
         \/ \E t \in Ticket : IssueTicket(r, t)
  PROVE  Footing'
<1> USE DEF Footing
<1>0. /\ UNCHANGED <<now, source, owner, maker>>
      /\ req' \in [Req -> Request] /\ req'[r] = Idle
      /\ \A s \in Req \ {r} : req'[s] = req[s]
  BY DEF RefreshWrite, Finish, ReleaseCommit, RedeemCommit, IssueTicket, TypeOK,
         Request, Idle, Places
<1>1. Idle.at = "idle"
  BY DEF Idle
\* What each step does to the link rows, and to the tickets that requests stand on.
<1>2. ASSUME link' \in [Link -> LinkRow], ticket' \in [Ticket -> TicketRow],
             \A l \in Existing : link'[l].state # "none",
             \A l \in Link : link'[l].state = "ACTIVE" => link'[l].remaining > 0,
             \A t \in Ticket :
               \/ ticket'[t] = ticket[t]
               \/ ticket'[t].status = "none"
               \/ ticket'[t].link \in Existing,
             \A s \in Req \ {r} : Holding(s) => ticket'[req[s].ticket] = ticket[req[s].ticket],
             \A t \in Ticket : ticket[t].status \in {"issued", "lapsed", "redeemed"} =>
               /\ ticket'[t].status \in {"issued", "lapsed", "redeemed"}
               /\ ticket'[t].link = ticket[t].link
      PROVE  Footing'
  <2>1. TypeOK'
    BY <1>0, <1>2 DEF TypeOK, SourceTypeOK
  <2>2. RequestLinks' /\ TicketLinks'
    BY <1>0, <1>1, <1>2 DEF RequestLinks, TicketLinks, Existing
  <2>3. StateToWrite' /\ ActiveHasSlots'
    BY <1>0, <1>1, <1>2 DEF StateToWrite, ActiveHasSlots
  <2>4. Ownership' /\ OneOwner'
    BY <1>0, <1>1, <1>2 DEF Ownership, OneOwner, Holding, HoldingPlaces
  <2>5. RedeemTarget'
    BY <1>0, <1>1, <1>2 DEF RedeemTarget
  <2> QED
    BY <2>1, <2>2, <2>3, <2>4, <2>5
<1>3. CASE RefreshWrite(r)
  <2>1. req[r].link \in Existing /\ req[r].state \in LinkStates \ {"ACTIVE"}
    BY <1>3 DEF RefreshWrite, RequestLinks, StateToWrite
  <2>2. /\ ticket' = ticket
        /\ link' \in [Link -> LinkRow]
        /\ link'[req[r].link].state = req[r].state
        /\ \A l \in Link \ {req[r].link} : link'[l] = link[l]
    BY <1>3, <2>1 DEF RefreshWrite, TypeOK, LinkRow, Existing
  <2> QED
    BY <1>2, <2>1, <2>2 DEF Existing, ActiveHasSlots, TypeOK, LinkStates
<1>4. CASE Finish(r)
  <2>1. req[r].ticket \in Ticket /\ ticket[req[r].ticket].status = "reserved"
        /\ ticket[req[r].ticket].link \in Existing
    BY <1>4, HeldTicket DEF Finish, Holding, HoldingPlaces, RequestLinks
  <2>2. /\ link' = link
        /\ ticket' \in [Ticket -> TicketRow]
        /\ ticket'[req[r].ticket].link = ticket[req[r].ticket].link
        /\ \A t \in Ticket \ {req[r].ticket} : ticket'[t] = ticket[t]
    BY <1>4, <2>1 DEF Finish, TypeOK, TicketRow
  <2>3. \A s \in Req \ {r} : Holding(s) => req[s].ticket # req[r].ticket
    BY <1>4 DEF Finish, OneOwner, Holding, HoldingPlaces
  <2> QED
    BY <1>2, <2>1, <2>2, <2>3 DEF Existing, ActiveHasSlots, TypeOK, Ownership
<1>5. CASE ReleaseCommit(r)
  <2>1. /\ req[r].ticket \in Ticket /\ ticket[req[r].ticket].status = "reserved"
        /\ req[r].link \in Existing /\ req[r].state \in LinkStates
    BY <1>5, HeldTicket DEF ReleaseCommit, Holding, HoldingPlaces, RequestLinks, StateToWrite
  <2>2. link[req[r].link].remaining \in Nat
    BY <2>1 DEF Existing, TypeOK, LinkRow
  <2>3. /\ link' \in [Link -> LinkRow]
        /\ link'[req[r].link].state = req[r].state
        /\ link'[req[r].link].remaining > 0
        /\ \A l \in Link \ {req[r].link} : link'[l] = link[l]
    BY <1>5, <2>1, <2>2, WriteLinkRow DEF ReleaseCommit, TypeOK, Existing
  <2>4. /\ ticket' \in [Ticket -> TicketRow]
        /\ ticket'[req[r].ticket].status = "none"
        /\ \A t \in Ticket \ {req[r].ticket} : ticket'[t] = ticket[t]
    BY <1>5, <2>1 DEF ReleaseCommit, TypeOK, TicketRow, NoTicketRow
  <2>5. \A s \in Req \ {r} : Holding(s) => req[s].ticket # req[r].ticket
    BY <1>5 DEF ReleaseCommit, OneOwner, Holding, HoldingPlaces
  <2> QED
    BY <1>2, <2>1, <2>3, <2>4, <2>5 DEF Existing, ActiveHasSlots, Ownership, LinkStates
<1>6. CASE RedeemCommit(r)
  <2>1. /\ req[r].ticket \in Ticket /\ ticket[req[r].ticket].status = "issued"
        /\ req[r].link \in Existing /\ ticket[req[r].ticket].link = req[r].link
        /\ HasSlot(req[r].link)
    BY <1>6 DEF RedeemCommit, RedeemTarget, RequestLinks
  <2>2. /\ link' \in [Link -> LinkRow]
        /\ link'[req[r].link].state \in {"ACTIVE", "EXHAUSTED"}
        /\ link'[req[r].link].state = "ACTIVE" => link'[req[r].link].remaining > 0
        /\ \A l \in Link \ {req[r].link} : link'[l] = link[l]
    BY <1>6, <2>1, TakeSlotRow DEF RedeemCommit, TypeOK, Existing
  <2>3. /\ ticket' \in [Ticket -> TicketRow]
        /\ ticket'[req[r].ticket].status = "redeemed"
        /\ ticket'[req[r].ticket].link = req[r].link
        /\ \A t \in Ticket \ {req[r].ticket} : ticket'[t] = ticket[t]
    BY <1>6, <2>1 DEF RedeemCommit, TypeOK, TicketRow
  <2>4. \A s \in Req : Holding(s) => ticket[req[s].ticket].status = "reserved"
    BY HeldTicket
  <2> QED
    BY <1>2, <2>1, <2>2, <2>3, <2>4 DEF Existing, ActiveHasSlots, Ownership
<1>7. ASSUME NEW t \in Ticket, IssueTicket(r, t)
      PROVE  Footing'
  <2>1. req[r].link \in Existing /\ ticket[t].status = "none"
    BY <1>7 DEF IssueTicket, RequestLinks
  <2>2. /\ link' = link
        /\ ticket' \in [Ticket -> TicketRow]
        /\ ticket'[t].link = req[r].link
        /\ \A u \in Ticket \ {t} : ticket'[u] = ticket[u]
    BY <1>7, <2>1 DEF IssueTicket, TypeOK, TicketRow, Existing
  <2>3. \A s \in Req : Holding(s) => ticket[req[s].ticket].status = "reserved"
    BY HeldTicket
  <2> QED
    BY <1>2, <2>1, <2>2, <2>3 DEF Existing, ActiveHasSlots, TypeOK, Ownership
<1> QED
  BY <1>3, <1>4, <1>5, <1>6, <1>7

\* A reservation: the one step that makes a request the holder of a new ticket.
LEMMA ReserveFooting ==
  ASSUME Footing, NEW r \in Req, NEW t \in Ticket, Reserve(r, t)
  PROVE  Footing'
<1> USE DEF Footing
<1> DEFINE l == req[r].link
<1>1. l \in Existing /\ HasSlot(l) /\ ticket[t].status = "none" /\ req[r].at = "download"
  BY DEF Reserve, RequestLinks
<1>2. /\ link' \in [Link -> LinkRow]
      /\ link'[l].state \in {"ACTIVE", "EXHAUSTED"}
      /\ link'[l].state = "ACTIVE" => link'[l].remaining > 0
      /\ \A m \in Link \ {l} : link'[m] = link[m]
  BY <1>1, TakeSlotRow DEF Reserve, TypeOK, Existing
<1>3. /\ ticket' \in [Ticket -> TicketRow]
      /\ ticket'[t] = [status |-> "reserved", link |-> l]
      /\ \A u \in Ticket \ {t} : ticket'[u] = ticket[u]
  BY <1>1 DEF Reserve, TypeOK, TicketRow, Existing
<1>4. /\ req' \in [Req -> Request]
      /\ req'[r].at = "preparing" /\ req'[r].ticket = t /\ req'[r].link = l
      /\ \A s \in Req \ {r} : req'[s] = req[s]
  BY DEF Reserve, TypeOK, Request, Places
<1> HIDE DEF l
<1>5. TypeOK'
  BY <1>2, <1>3, <1>4 DEF Reserve, TypeOK, SourceTypeOK
<1>6. RequestLinks' /\ TicketLinks'
  BY <1>1, <1>2, <1>3, <1>4 DEF RequestLinks, TicketLinks, Existing
<1>7. StateToWrite' /\ ActiveHasSlots'
  BY <1>1, <1>2, <1>4 DEF StateToWrite, ActiveHasSlots, Existing
<1>8. \A s \in Req : Holding(s) => req[s].ticket # t
  BY <1>1, HeldTicket
<1>9. Ownership'
  BY <1>3, <1>4, <1>8 DEF Ownership, Holding, HoldingPlaces
<1>10. OneOwner'
  BY <1>4, <1>8 DEF OneOwner, Holding, HoldingPlaces
<1>11. RedeemTarget'
  BY <1>1, <1>3, <1>4 DEF RedeemTarget
<1> QED
  BY <1>5, <1>6, <1>7, <1>9, <1>10, <1>11

\* A ticket passing its expiresAt disturbs no request.
LEMMA LapseFooting ==
  ASSUME Footing, NEW t \in Ticket, TicketLapses(t)
  PROVE  Footing'
<1> USE DEF Footing
<1>1. /\ ticket' \in [Ticket -> TicketRow]
      /\ ticket[t].status = "issued" /\ ticket'[t].status = "lapsed"
      /\ ticket'[t].link = ticket[t].link
      /\ \A u \in Ticket \ {t} : ticket'[u] = ticket[u]
  BY DEF TicketLapses, TypeOK, TicketRow
<1>2. UNCHANGED <<now, source, owner, link, req, maker>>
  BY DEF TicketLapses
<1>3. TypeOK'
  BY <1>1, <1>2 DEF TypeOK, SourceTypeOK
<1>4. RequestLinks' /\ TicketLinks' /\ StateToWrite' /\ ActiveHasSlots'
  BY <1>1, <1>2 DEF RequestLinks, TicketLinks, StateToWrite, ActiveHasSlots, Existing
<1>5. Ownership' /\ OneOwner'
  BY <1>1, <1>2, HeldTicket DEF Ownership, OneOwner, Holding, HoldingPlaces
<1>6. RedeemTarget'
  BY <1>1, <1>2 DEF RedeemTarget
<1> QED
  BY <1>3, <1>4, <1>5, <1>6

\* No step of the system takes the footing away.
LEMMA FootingStep == Footing /\ [Next]_vars => Footing'
<1> SUFFICES ASSUME Footing, [Next]_vars PROVE Footing'
  OBVIOUS
<1>1. CASE SourceAlone \/ SourceCascade \/ \E c \in Caller : MakerNext(c)
  BY <1>1, OwnerSideFooting
<1>2. ASSUME NEW r \in Req, ServerStep(r) \/ ClientStep(r)
      PROVE  Footing'
  <2>1. CASE ReserveRefused(r) \/ RedeemRefused(r) \/ LoseRequest(r)
    BY <2>1, RestKeepsFooting DEF ReserveRefused, RedeemRefused, LoseRequest
  <2>2. CASE \E t \in Ticket : Reserve(r, t)
    BY <2>2, ReserveFooting
  <2>3. CASE \/ \E l \in Link, goal \in {"download", "issue"} : RefreshRead(r, l, goal)
             \/ \E t \in Ticket : RedeemRead(r, t)
             \/ Responds(r) \/ ReleaseRead(r)
    BY <2>3, RequestMoves
  <2>4. CASE \/ RefreshWrite(r) \/ Finish(r) \/ ReleaseCommit(r) \/ RedeemCommit(r)
             \/ \E t \in Ticket : IssueTicket(r, t)
    BY <2>4, RowsMove
  <2> QED
    BY <1>2, <2>1, <2>2, <2>3, <2>4 DEF ServerStep, ClientStep, Responds
<1>3. CASE \E t \in Ticket : TicketLapses(t)
  BY <1>3, LapseFooting
<1>4. CASE UNCHANGED vars
  <2>1. TypeOK'
    BY <1>4 DEF vars, Footing, TypeOK, SourceTypeOK
  <2> QED
    BY <1>4, <2>1, FootingFrame DEF vars
<1> QED
  BY <1>1, <1>2, <1>3, <1>4 DEF Next

\* Before the first request nobody stands anywhere.
LEMMA FootingInit == Init => Footing
<1> SUFFICES ASSUME Init PROVE Footing
  OBVIOUS
<1>1. TypeOK
  BY HorizonAssumption DEF Init, SourceInit, TypeOK, SourceTypeOK, Source, Time, Until,
     Forever, SourceStates, Levels, PendingOps, LinkRow, NoLinkRow, TicketRow,
     NoTicketRow, Request, Idle, Places, LinkStates, NotReading
<1>2. /\ \A r \in Req : req[r].at = "idle"
      /\ \A t \in Ticket : ticket[t].status = "none"
      /\ \A l \in Link : link[l].state = "none"
  BY DEF Init, Idle, NoTicketRow, NoLinkRow
<1> QED
  BY <1>1, <1>2 DEF Footing, RequestLinks, TicketLinks, Ownership, OneOwner,
                    RedeemTarget, StateToWrite, ActiveHasSlots, Holding, HoldingPlaces

\* The rows, the requests and the clock always have the types the code gives them; in
\* particular no interleaving of guarded decrements drives the count below zero.
THEOREM TypeCorrect == Spec => []TypeOK
<1>1. Footing => TypeOK
  BY DEF Footing
<1> QED
  BY <1>1, FootingInit, FootingStep, PTL DEF Spec

\* A link that is ACTIVE in the database has a slot to give, whatever stale state a
\* refresh or a release has written to it.
THEOREM ActiveAlwaysHasSlots == Spec => []ActiveHasSlots
<1>1. Footing => ActiveHasSlots
  BY DEF Footing
<1> QED
  BY <1>1, FootingInit, FootingStep, PTL DEF Spec

-----------------------------------------------------------------------------
(***************************************************************************)
(* The inductive invariant, part two: the slots.  Every step of the system *)
(* has one of six effects on the slots of the links, and the effects are   *)
(* exactly the actions of DownloadBudget.                                  *)
(***************************************************************************)
\* A row that does not exist has configured no downloads.
Unopened == \A l \in Link : l \notin Existing => link[l].configured = 0

Same(m) ==
  /\ Reserved(m)' = Reserved(m) /\ Redeemed(m)' = Redeemed(m)
  /\ link'[m].configured = link[m].configured
  /\ link'[m].remaining = link[m].remaining
  /\ link'[m].state = "none" <=> link[m].state = "none"

Others(l) == \A m \in Link \ {l} : Same(m)

SlotTaken(l) ==
  /\ l \in Existing /\ link'[l].state # "none"
  /\ link[l].remaining > 0
  /\ link'[l].remaining = link[l].remaining - 1
  /\ link'[l].configured = link[l].configured

Opened(l) ==
  /\ l \notin Existing /\ link'[l].state # "none"
  /\ link'[l].configured \in Nat \ {0}
  /\ link'[l].remaining = link'[l].configured
  /\ Reserved(l) = {} /\ Reserved(l)' = {} /\ Redeemed(l) = {} /\ Redeemed(l)' = {}
  /\ Others(l)

Held(l, t) ==
  /\ SlotTaken(l)
  /\ t \notin Reserved(l) /\ Reserved(l)' = Reserved(l) \cup {t}
  /\ Redeemed(l)' = Redeemed(l)
  /\ Others(l)

SpentAtOnce(l, t) ==
  /\ SlotTaken(l)
  /\ t \notin Redeemed(l) /\ Redeemed(l)' = Redeemed(l) \cup {t}
  /\ Reserved(l)' = Reserved(l)
  /\ Others(l)

Spent(l, t) ==
  /\ l \in Existing /\ link' = link
  /\ t \in Reserved(l) /\ Reserved(l)' = Reserved(l) \ {t}
  /\ t \notin Redeemed(l) /\ Redeemed(l)' = Redeemed(l) \cup {t}
  /\ Others(l)

HandedBack(l, t) ==
  /\ l \in Existing /\ link'[l].state # "none"
  /\ link'[l].remaining = link[l].remaining + 1
  /\ link'[l].configured = link[l].configured
  /\ t \in Reserved(l) /\ Reserved(l)' = Reserved(l) \ {t}
  /\ Redeemed(l)' = Redeemed(l)
  /\ Others(l)

SlotEffect ==
  \/ \A m \in Link : Same(m)
  \/ \E l \in Link : Opened(l)
  \/ \E l \in Link, t \in Ticket :
       Held(l, t) \/ SpentAtOnce(l, t) \/ Spent(l, t) \/ HandedBack(l, t)

\* Steps that leave counts and the settled or held tickets alone have no effect.
LEMMA QuietEffect ==
  ASSUME \A l \in Link : /\ link'[l].configured = link[l].configured
                         /\ link'[l].remaining = link[l].remaining
                         /\ link'[l].state = "none" <=> link[l].state = "none",
         \A t \in Ticket : \/ ticket'[t] = ticket[t]
                           \/ /\ ticket[t].status \notin {"reserved", "redeemed"}
                              /\ ticket'[t].status \notin {"reserved", "redeemed"}
  PROVE  SlotEffect
BY DEF SlotEffect, Same, Reserved, Redeemed

\* How one ticket's change of status moves the sets of its link.
TicketMoved(l, t) ==
  /\ \A m \in Link \ {l} : Reserved(m)' = Reserved(m) /\ Redeemed(m)' = Redeemed(m)
  /\ Reserved(l)' = IF ticket'[t].status = "reserved" THEN Reserved(l) \cup {t}
                    ELSE Reserved(l) \ {t}
  /\ Redeemed(l)' = IF ticket'[t].status = "redeemed" THEN Redeemed(l) \cup {t}
                    ELSE Redeemed(l) \ {t}
  /\ t \in Reserved(l) <=> ticket[t].status = "reserved"
  /\ t \in Redeemed(l) <=> ticket[t].status = "redeemed"

\* What the move of one ticket does to the held and spent sets of a link.
LEMMA TicketMoves ==
  ASSUME NEW l \in Link, NEW t \in Ticket,
         ticket'[t].link = l \/ ticket'[t].status = "none",
         ticket[t].link = l \/ ticket[t].status = "none",
         \A u \in Ticket \ {t} : ticket'[u] = ticket[u]
  PROVE  TicketMoved(l, t)
<1>1. \A m \in Link \ {l} : Reserved(m)' = Reserved(m) /\ Redeemed(m)' = Redeemed(m)
  BY DEF Reserved, Redeemed
<1>2. Reserved(l)' = IF ticket'[t].status = "reserved" THEN Reserved(l) \cup {t}
                     ELSE Reserved(l) \ {t}
  BY DEF Reserved
<1>3. Redeemed(l)' = IF ticket'[t].status = "redeemed" THEN Redeemed(l) \cup {t}
                     ELSE Redeemed(l) \ {t}
  BY DEF Redeemed
<1>4. /\ t \in Reserved(l) <=> ticket[t].status = "reserved"
      /\ t \in Redeemed(l) <=> ticket[t].status = "redeemed"
  BY DEF Reserved, Redeemed
<1> QED
  BY <1>1, <1>2, <1>3, <1>4 DEF TicketMoved

\* Every step has, for each link, one of the effects on count and tickets listed there.
LEMMA StepEffect == Footing /\ [Next]_vars => SlotEffect
<1> SUFFICES ASSUME Footing, [Next]_vars PROVE SlotEffect
  OBVIOUS
<1> USE DEF Footing
<1>1. CASE SourceAlone \/ UNCHANGED vars \/ \E t \in Ticket : TicketLapses(t)
  <2>1. link' = link
    BY <1>1 DEF SourceAlone, vars, TicketLapses
  <2>2. \A t \in Ticket : \/ ticket'[t] = ticket[t]
                          \/ /\ ticket[t].status \notin {"reserved", "redeemed"}
                             /\ ticket'[t].status \notin {"reserved", "redeemed"}
    BY <1>1 DEF SourceAlone, vars, TicketLapses, TypeOK, TicketRow
  <2> QED
    BY <2>1, <2>2, QuietEffect
<1>2. CASE SourceCascade
  <2>1. \A l \in Link : /\ link'[l].configured = link[l].configured
                        /\ link'[l].remaining = link[l].remaining
                        /\ link'[l].state = "none" <=> link[l].state = "none"
    BY <1>2 DEF SourceCascade, Invalidated, Existing, TypeOK, LinkRow
  <2> QED
    BY <1>2, <2>1, QuietEffect DEF SourceCascade
<1>3. ASSUME NEW c \in Caller, MakerNext(c) PROVE SlotEffect
  <2>1. CASE CreateLinkRead(c) \/ CreateLinkGiveUp(c)
    BY <2>1, QuietEffect DEF CreateLinkRead, CreateLinkGiveUp
  <2>2. ASSUME NEW l \in Link, NEW n \in 1..MaxDownloads, NEW until \in now..Forever,
               CreateLinkInsert(c, l, n, until)
        PROVE  SlotEffect
    <3>1. /\ l \notin Existing /\ link'[l].state # "none"
          /\ link'[l].configured = n /\ link'[l].remaining = n
          /\ \A m \in Link \ {l} : link'[m] = link[m]
          /\ ticket' = ticket
      BY <2>2 DEF CreateLinkInsert, Existing, TypeOK
    <3>2. /\ Reserved(l) = {} /\ Reserved(l)' = {} /\ Redeemed(l) = {} /\ Redeemed(l)' = {}
      BY <3>1 DEF TicketLinks, Reserved, Redeemed
    <3>3. Others(l)
      BY <3>1 DEF Others, Same, Reserved, Redeemed
    <3>4. Opened(l)
      BY <3>1, <3>2, <3>3, LinkAssumption DEF Opened
    <3> QED
      BY <3>4 DEF SlotEffect
  <2> QED
    BY <1>3, <2>1, <2>2 DEF MakerNext
<1>4. ASSUME NEW r \in Req, ServerStep(r) \/ ClientStep(r) PROVE SlotEffect
  <2>1. CASE \/ ReserveRefused(r) \/ RedeemRefused(r) \/ LoseRequest(r)
             \/ \E l \in Link, goal \in {"download", "issue"} : RefreshRead(r, l, goal)
             \/ \E t \in Ticket : RedeemRead(r, t)
             \/ Responds(r) \/ ReleaseRead(r)
    BY <2>1, QuietEffect DEF ReserveRefused, RedeemRefused, LoseRequest, RefreshRead,
         RedeemRead, Responds, AttachHandlers, EndResponse, CloseEarly, CloseUnseen,
         Respond, ReleaseRead
  <2>2. CASE RefreshWrite(r)
    <3>1. req[r].link \in Existing /\ req[r].state # "none" /\ ticket' = ticket
      BY <2>2 DEF RefreshWrite, RequestLinks, StateToWrite, LinkStates
    <3>2. \A l \in Link : /\ link'[l].configured = link[l].configured
                          /\ link'[l].remaining = link[l].remaining
                          /\ link'[l].state = "none" <=> link[l].state = "none"
      BY <2>2, <3>1 DEF RefreshWrite, TypeOK, LinkRow, Existing
    <3> QED
      BY <3>1, <3>2, QuietEffect
  <2>3. ASSUME NEW t \in Ticket, IssueTicket(r, t) PROVE SlotEffect
    BY <2>3, QuietEffect DEF IssueTicket, TypeOK
  <2>4. ASSUME NEW t \in Ticket, Reserve(r, t) PROVE SlotEffect
    <3>0. PICK l \in Link : l = req[r].link
      BY <2>4 DEF Reserve, RequestLinks, Existing
    <3>1. l \in Existing /\ HasSlot(l) /\ ticket[t].status = "none"
      BY <2>4, <3>0 DEF Reserve, RequestLinks
    <3>2. SlotTaken(l) /\ \A m \in Link \ {l} : link'[m] = link[m]
      BY <2>4, <3>0, <3>1, TakeSlotRow DEF Reserve, SlotTaken, HasSlot, TypeOK, Existing
    <3>3. /\ ticket'[t].status = "reserved" /\ ticket'[t].link = l
          /\ \A u \in Ticket \ {t} : ticket'[u] = ticket[u]
      BY <2>4, <3>0 DEF Reserve, TypeOK
    <3>4. Held(l, t)
      <4>1. TicketMoved(l, t)
        BY <3>1, <3>3, TicketMoves
      <4> QED
        BY <3>1, <3>2, <3>3, <4>1 DEF TicketMoved, Held, Others, Same
    <3> QED
      BY <3>1, <3>4 DEF SlotEffect, Existing
  <2>5. CASE RedeemCommit(r)
    <3>0. PICK l \in Link, t \in Ticket : l = req[r].link /\ t = req[r].ticket
      BY <2>5 DEF RedeemCommit, RequestLinks, RedeemTarget, Existing
    <3>1. /\ l \in Existing /\ HasSlot(l) /\ t \in Ticket
          /\ ticket[t].status = "issued" /\ ticket[t].link = l
      BY <2>5, <3>0 DEF RedeemCommit, RequestLinks, RedeemTarget
    <3>2. SlotTaken(l) /\ \A m \in Link \ {l} : link'[m] = link[m]
      BY <2>5, <3>0, <3>1, TakeSlotRow DEF RedeemCommit, SlotTaken, HasSlot, TypeOK, Existing
    <3>3. /\ ticket'[t].status = "redeemed" /\ ticket'[t].link = l
          /\ \A u \in Ticket \ {t} : ticket'[u] = ticket[u]
      BY <2>5, <3>0, <3>1 DEF RedeemCommit, TypeOK, TicketRow
    <3>4. SpentAtOnce(l, t)
      <4>1. TicketMoved(l, t)
        BY <3>1, <3>3, TicketMoves
      <4> QED
        BY <3>1, <3>2, <3>3, <4>1 DEF TicketMoved, SpentAtOnce, Others, Same
    <3> QED
      BY <3>1, <3>4 DEF SlotEffect, Existing
  <2>6. CASE Finish(r)
    <3>0. PICK l \in Link, t \in Ticket : l = req[r].link /\ t = req[r].ticket
      BY <2>6, HeldTicket DEF Finish, RequestLinks, Holding, HoldingPlaces, Existing
    <3>1. /\ l \in Existing /\ t \in Ticket
          /\ ticket[t].status = "reserved" /\ ticket[t].link = l
      BY <2>6, <3>0, HeldTicket DEF Finish, RequestLinks, Holding, HoldingPlaces
    <3>2. /\ link' = link
          /\ ticket'[t].status = "redeemed" /\ ticket'[t].link = l
          /\ \A u \in Ticket \ {t} : ticket'[u] = ticket[u]
      BY <2>6, <3>0, <3>1 DEF Finish, TypeOK, TicketRow
    <3>3. Spent(l, t)
      <4>1. TicketMoved(l, t)
        BY <3>1, <3>2, TicketMoves
      <4> QED
        BY <3>1, <3>2, <4>1 DEF TicketMoved, Spent, Others, Same
    <3> QED
      BY <3>1, <3>3 DEF SlotEffect, Existing
  <2>7. CASE ReleaseCommit(r)
    <3>0. PICK l \in Link, t \in Ticket : l = req[r].link /\ t = req[r].ticket
      BY <2>7, HeldTicket DEF ReleaseCommit, RequestLinks, Holding, HoldingPlaces, Existing
    <3>1. /\ l \in Existing /\ t \in Ticket /\ req[r].state \in LinkStates
          /\ ticket[t].status = "reserved" /\ ticket[t].link = l
      BY <2>7, <3>0, HeldTicket DEF ReleaseCommit, RequestLinks, StateToWrite, Holding, HoldingPlaces
    <3>2. link[l].remaining \in Nat
      BY <3>1 DEF Existing, TypeOK, LinkRow
    <3>3. /\ link'[l].state # "none"
          /\ link'[l].remaining = link[l].remaining + 1
          /\ link'[l].configured = link[l].configured
          /\ \A m \in Link \ {l} : link'[m] = link[m]
      BY <2>7, <3>0, <3>1, <3>2, WriteLinkRow DEF ReleaseCommit, TypeOK, Existing, LinkStates
    <3>4. /\ ticket'[t].status = "none"
          /\ \A u \in Ticket \ {t} : ticket'[u] = ticket[u]
      BY <2>7, <3>0, <3>1 DEF ReleaseCommit, TypeOK, NoTicketRow
    <3>5. HandedBack(l, t)
      <4>1. TicketMoved(l, t)
        BY <3>1, <3>4, TicketMoves
      <4> QED
        BY <3>1, <3>3, <3>4, <4>1 DEF TicketMoved, HandedBack, Others, Same
    <3> QED
      BY <3>1, <3>5 DEF SlotEffect, Existing
  <2> QED
    BY <1>4, <2>1, <2>2, <2>3, <2>4, <2>5, <2>6, <2>7 DEF ServerStep, ClientStep, Responds
<1> QED
  BY <1>1, <1>2, <1>3, <1>4 DEF Next

-----------------------------------------------------------------------------
(* Counting *)

\* The tickets of a link can be counted.
LEMMA SlotSetsFinite ==
  \A l \in Link : IsFiniteSet(Reserved(l)) /\ IsFiniteSet(Redeemed(l))
BY FS_Subset, LinkAssumption DEF Reserved, Redeemed

\* One more, as natural numbers.
LEMMA CountAdd ==
  ASSUME NEW S, NEW x, IsFiniteSet(S), x \notin S
  PROVE  Cardinality(S \cup {x}) = Cardinality(S) + 1 /\ Cardinality(S) \in Nat
BY FS_AddElement, FS_CardinalityType

\* One fewer, as natural numbers.
LEMMA CountRemove ==
  ASSUME NEW S, NEW x, IsFiniteSet(S), x \in S
  PROVE  /\ Cardinality(S \ {x}) = Cardinality(S) - 1
         /\ Cardinality(S) \in Nat /\ Cardinality(S) > 0
<1>1. Cardinality(S) \in Nat /\ Cardinality(S) # 0
  BY FS_CardinalityType, FS_EmptySet
<1> QED
  BY <1>1, FS_RemoveElement

SlotInv == Footing /\ Unopened /\ SlotConservation

held(l)  == Cardinality(Reserved(l))
spent(l) == Cardinality(Redeemed(l))

\* The effect of a step in numbers.
LEMMA EffectInNumbers ==
  ASSUME Footing
  PROVE  /\ \A l \in Link : held(l) \in Nat /\ spent(l) \in Nat
         /\ \A l \in Link : Same(l) => held(l)' = held(l) /\ spent(l)' = spent(l)
         /\ \A l \in Link : Opened(l) => /\ held(l) = 0 /\ spent(l) = 0
                                        /\ held(l)' = 0 /\ spent(l)' = 0
         /\ \A l \in Link, t \in Ticket :
              /\ Held(l, t) => held(l)' = held(l) + 1 /\ spent(l)' = spent(l)
              /\ SpentAtOnce(l, t) => held(l)' = held(l) /\ spent(l)' = spent(l) + 1
              /\ Spent(l, t) => /\ held(l) > 0 /\ held(l)' = held(l) - 1
                                /\ spent(l)' = spent(l) + 1
              /\ HandedBack(l, t) => /\ held(l) > 0 /\ held(l)' = held(l) - 1
                                     /\ spent(l)' = spent(l)
<1> USE DEF held, spent
<1>1. \A l \in Link : held(l) \in Nat /\ spent(l) \in Nat
  BY SlotSetsFinite, FS_CardinalityType
<1>2. \A l \in Link : Same(l) => held(l)' = held(l) /\ spent(l)' = spent(l)
  BY DEF Same
<1>3. ASSUME NEW l \in Link, Opened(l)
      PROVE  held(l) = 0 /\ spent(l) = 0 /\ held(l)' = 0 /\ spent(l)' = 0
  BY <1>3, FS_EmptySet DEF Opened
<1>4. ASSUME NEW l \in Link, NEW t \in Ticket, Held(l, t)
      PROVE  held(l)' = held(l) + 1 /\ spent(l)' = spent(l)
  BY <1>4, SlotSetsFinite, CountAdd DEF Held
<1>5. ASSUME NEW l \in Link, NEW t \in Ticket, SpentAtOnce(l, t)
      PROVE  held(l)' = held(l) /\ spent(l)' = spent(l) + 1
  BY <1>5, SlotSetsFinite, CountAdd DEF SpentAtOnce
<1>6. ASSUME NEW l \in Link, NEW t \in Ticket, Spent(l, t)
      PROVE  held(l) > 0 /\ held(l)' = held(l) - 1 /\ spent(l)' = spent(l) + 1
  BY <1>6, SlotSetsFinite, CountAdd, CountRemove DEF Spent
<1>7. ASSUME NEW l \in Link, NEW t \in Ticket, HandedBack(l, t)
      PROVE  held(l) > 0 /\ held(l)' = held(l) - 1 /\ spent(l)' = spent(l)
  BY <1>7, SlotSetsFinite, CountRemove DEF HandedBack
<1> QED
  BY <1>1, <1>2, <1>3, <1>4, <1>5, <1>6, <1>7

\* The balance survives every step: the effect on the count matches that on the tickets.
LEMMA SlotInvStep == SlotInv /\ [Next]_vars => SlotInv'
<1> SUFFICES ASSUME SlotInv, [Next]_vars PROVE SlotInv'
  OBVIOUS
<1>1. Footing /\ Footing' /\ SlotEffect
  BY FootingStep, StepEffect DEF SlotInv
<1> DEFINE Balanced(l) == /\ l \notin Existing => link[l].configured = 0
                          /\ l \in Existing =>
                               link[l].remaining + held(l) + spent(l) = link[l].configured
<1>2. \A l \in Link : Balanced(l)
  BY DEF SlotInv, Unopened, SlotConservation, held, spent
<1>3. \A l \in Link : link[l].remaining \in Nat /\ link[l].configured \in Nat
  BY <1>1 DEF Footing, TypeOK, LinkRow
<1>4. ASSUME NEW l \in Link, Same(l) PROVE Balanced(l)'
  BY <1>1, <1>2, <1>4, EffectInNumbers DEF Same, Existing
<1>5. ASSUME NEW l \in Link, Opened(l)
      PROVE  \A m \in Link : Balanced(m)'
  <2>1. Balanced(l)'
    BY <1>1, <1>5, EffectInNumbers DEF Opened, Existing
  <2> QED
    BY <1>4, <1>5, <2>1 DEF Opened, Others
<1>6. ASSUME NEW l \in Link, NEW t \in Ticket,
             Held(l, t) \/ SpentAtOnce(l, t) \/ Spent(l, t) \/ HandedBack(l, t)
      PROVE  \A m \in Link : Balanced(m)'
  <2>1. Others(l) /\ l \in Existing
    BY <1>6 DEF Held, SpentAtOnce, Spent, HandedBack, SlotTaken
  <2>2. Balanced(l)'
    BY <1>1, <1>2, <1>3, <1>6, EffectInNumbers
       DEF Held, SpentAtOnce, Spent, HandedBack, SlotTaken, Existing
  <2> QED
    BY <1>4, <2>1, <2>2 DEF Others
<1>7. \A l \in Link : Balanced(l)'
  BY <1>1, <1>4, <1>5, <1>6 DEF SlotEffect
<1> QED
  BY <1>1, <1>7 DEF SlotInv, Unopened, SlotConservation, Existing, held, spent

\* No link, no ticket: the balance holds before the first link is created.
LEMMA SlotInvInit == Init => SlotInv
<1> SUFFICES ASSUME Init PROVE SlotInv
  OBVIOUS
<1>1. \A l \in Link : link[l].state = "none" /\ link[l].configured = 0
  BY DEF Init, NoLinkRow
<1> QED
  BY <1>1, FootingInit DEF SlotInv, Unopened, SlotConservation, Existing

\* What is left, what is held and what is spent add up to the configured download
\* count, for any number of concurrent downloads, aborts and redemptions.
THEOREM SlotsAreConserved == Spec => []SlotConservation
<1>1. SlotInv => SlotConservation
  BY DEF SlotInv
<1> QED
  BY <1>1, SlotInvInit, SlotInvStep, PTL DEF Spec

-----------------------------------------------------------------------------
(* Refinement *)

\* The initial rows map to an unopened budget.
LEMMA BudgetInit == Init => Budget!Init
<1> SUFFICES ASSUME Init PROVE Budget!Init
  OBVIOUS
<1>1. \A l \in Link : link[l].configured = 0 /\ Reserved(l) = {} /\ Redeemed(l) = {}
  BY DEF Init, NoLinkRow, NoTicketRow, Reserved, Redeemed
<1> QED
  BY <1>1, FS_EmptySet DEF Budget!Init

\* Every step maps to one step of the abstract budget, or to none.
LEMMA BudgetStep == SlotInv /\ [Next]_vars => [Budget!Next]_(Budget!vars)
<1> SUFFICES ASSUME SlotInv, [Next]_vars PROVE [Budget!Next]_(Budget!vars)
  OBVIOUS
<1>1. Footing /\ SlotEffect
  BY StepEffect DEF SlotInv
<1> DEFINE b == [l \in Link |-> link[l].configured]
           h == [l \in Link |-> held(l)]
           s == [l \in Link |-> spent(l)]
<1>2. \A l \in Link : link[l].remaining \in Nat /\ link[l].configured \in Nat
  BY <1>1 DEF Footing, TypeOK, LinkRow
<1>3. \A l \in Link : Same(l) => /\ b'[l] = b[l] /\ h'[l] = h[l] /\ s'[l] = s[l]
  BY <1>1, EffectInNumbers DEF Same
<1>4. CASE \A l \in Link : Same(l)
  <2>1. b' = b /\ h' = h /\ s' = s
    BY <1>3, <1>4
  <2> QED
    BY <2>1 DEF Budget!vars, held, spent
<1>5. ASSUME NEW l \in Link, Opened(l)
      PROVE  Budget!Open(l)
  <2>1. b[l] = 0 /\ b'[l] \in Nat \ {0} /\ h'[l] = h[l] /\ s'[l] = s[l]
    BY <1>1, <1>5, EffectInNumbers DEF SlotInv, Unopened, Opened
  <2>2. \A m \in Link \ {l} : b'[m] = b[m] /\ h'[m] = h[m] /\ s'[m] = s[m]
    BY <1>3, <1>5 DEF Opened, Others
  <2>3. b' = [b EXCEPT ![l] = b'[l]] /\ h' = h /\ s' = s
    BY <2>1, <2>2
  <2> QED
    BY <2>1, <2>3 DEF Budget!Open, held, spent
<1>6. ASSUME NEW l \in Link, NEW t \in Ticket,
             Held(l, t) \/ SpentAtOnce(l, t) \/ Spent(l, t) \/ HandedBack(l, t)
      PROVE  Budget!Next
  <2>1. Others(l) /\ l \in Existing /\ b'[l] = b[l]
    BY <1>6 DEF Held, SpentAtOnce, Spent, HandedBack, SlotTaken
  <2>2. \A m \in Link \ {l} : b'[m] = b[m] /\ h'[m] = h[m] /\ s'[m] = s[m]
    BY <1>3, <2>1 DEF Others
  <2>3. b' = b
    BY <2>1, <2>2
  <2>4. h[l] \in Nat /\ s[l] \in Nat
    BY <1>1, EffectInNumbers
  <2>5. link[l].remaining > 0 => h[l] + s[l] < b[l]
    BY <1>2, <2>1, <2>4 DEF SlotInv, SlotConservation, held, spent
  <2>6. CASE Held(l, t)
    <3>1. h[l] + s[l] < b[l] /\ h'[l] = h[l] + 1 /\ s'[l] = s[l]
      BY <1>1, <2>5, <2>6, EffectInNumbers DEF Held, SlotTaken
    <3>2. h' = [h EXCEPT ![l] = h[l] + 1] /\ s' = s
      BY <2>2, <3>1
    <3>3. Budget!Hold(l)
      BY <2>3, <3>1, <3>2 DEF Budget!Hold, Budget!Available, held, spent
    <3> QED
      BY <3>3 DEF Budget!Next
  <2>7. CASE SpentAtOnce(l, t)
    <3>1. h[l] + s[l] < b[l] /\ h'[l] = h[l] /\ s'[l] = s[l] + 1
      BY <1>1, <2>5, <2>7, EffectInNumbers DEF SpentAtOnce, SlotTaken
    <3>2. s' = [s EXCEPT ![l] = s[l] + 1] /\ h' = h
      BY <2>2, <3>1
    <3>3. Budget!SpendAtOnce(l)
      BY <2>3, <3>1, <3>2 DEF Budget!SpendAtOnce, Budget!Available, held, spent
    <3> QED
      BY <3>3 DEF Budget!Next
  <2>8. CASE Spent(l, t)
    <3>1. h[l] > 0 /\ h'[l] = h[l] - 1 /\ s'[l] = s[l] + 1
      BY <1>1, <2>8, EffectInNumbers
    <3>2. h' = [h EXCEPT ![l] = h[l] - 1] /\ s' = [s EXCEPT ![l] = s[l] + 1]
      BY <2>2, <3>1
    <3>3. Budget!Spend(l)
      BY <2>3, <3>1, <3>2 DEF Budget!Spend, held, spent
    <3> QED
      BY <3>3 DEF Budget!Next
  <2>9. CASE HandedBack(l, t)
    <3>1. h[l] > 0 /\ h'[l] = h[l] - 1 /\ s'[l] = s[l]
      BY <1>1, <2>9, EffectInNumbers
    <3>2. h' = [h EXCEPT ![l] = h[l] - 1] /\ s' = s
      BY <2>2, <3>1
    <3>3. Budget!HandBack(l)
      BY <2>3, <3>1, <3>2 DEF Budget!HandBack, held, spent
    <3> QED
      BY <3>3 DEF Budget!Next
  <2> QED
    BY <1>6, <2>6, <2>7, <2>8, <2>9
<1> QED
  BY <1>1, <1>4, <1>5, <1>6 DEF SlotEffect, Budget!Next

\* The link service implements the abstract budget: a reservation holds a unit, a
\* finished download spends it, an aborted one hands it back, and no stale read or
\* write does anything else to the count.
THEOREM ImplementsBudget == Spec => BudgetSpec
BY SlotInvInit, SlotInvStep, BudgetInit, BudgetStep, PTL DEF Spec, BudgetSpec, Budget!Spec

-----------------------------------------------------------------------------
(* Revocation drains *)

\* The requests that may still serve someone are the ones that read the item while
\* it was ACTIVE.
Serving(r) == req[r].at \in {"download", "issue", "redeeming"}

\* One step after the drain: still drained, no ticket issued, no slot taken.
LEMMA DrainStep ==
  ASSUME Footing, [Next]_vars, Drained
  PROVE  /\ Drained'
         /\ \A t \in Ticket : ticket[t].status \in {"none", "lapsed"} => ticket'[t] = ticket[t]
         /\ \A l \in Link : link[l].state # "none" => link'[l].remaining >= link[l].remaining
<1> DEFINE Quiet == /\ \A t \in Ticket : ticket[t].status \in {"none", "lapsed"}
                                            => ticket'[t] = ticket[t]
                    /\ \A l \in Link : link[l].state # "none"
                                          => link'[l].remaining >= link[l].remaining
<1> SUFFICES Drained' /\ Quiet
  OBVIOUS
<1> USE DEF Footing
<1>0. /\ source.state # "ACTIVE" /\ ~SourceUsable /\ \A r \in Req : ~Serving(r)
      /\ \A l \in Link : link[l].remaining \in Nat
  BY DEF Drained, SourceUsable, Serving, TypeOK, LinkRow
<1>1. CASE SourceAlone \/ SourceCascade
  <2>1. source'.state # "ACTIVE" /\ UNCHANGED <<req, ticket>>
    BY <1>0, <1>1, SourceStaysInactive DEF SourceAlone, SourceCascade, TypeOK
  <2>2. \A l \in Link : link'[l].remaining = link[l].remaining
    BY <1>1 DEF SourceAlone, SourceCascade, Invalidated, Existing, TypeOK, LinkRow
  <2> QED
    BY <1>0, <2>1, <2>2 DEF Drained
<1>2. ASSUME NEW c \in Caller, MakerNext(c) PROVE Drained' /\ Quiet
  <2>1. UNCHANGED <<source, req, ticket>>
        /\ \A l \in Link : link[l].state # "none" => link'[l] = link[l]
    BY <1>2 DEF MakerNext, CreateLinkRead, CreateLinkInsert, CreateLinkGiveUp, TypeOK
  <2> QED
    BY <1>0, <2>1 DEF Drained
<1>3. ASSUME NEW r \in Req, ServerStep(r) \/ ClientStep(r) PROVE Drained' /\ Quiet
  <2>1. ~Serving(r)
    BY <1>0
  <2>2. \A t \in Ticket : ~RedeemRead(r, t) /\ ~Reserve(r, t) /\ ~IssueTicket(r, t)
    BY <1>0, <2>1 DEF RedeemRead, Reserve, IssueTicket, Serving
  <2>3. ~ReserveRefused(r) /\ ~RedeemCommit(r) /\ ~RedeemRefused(r)
    BY <2>1 DEF ReserveRefused, RedeemCommit, RedeemRefused, Serving
  <2>4. UNCHANGED source /\ \A s \in Req \ {r} : req'[s] = req[s]
    BY <1>3, <2>2, <2>3 DEF ServerStep, ClientStep, RefreshWrite, ReleaseRead,
       ReleaseCommit, RefreshRead, Finish, AttachHandlers, EndResponse, CloseEarly,
       CloseUnseen, Respond, LoseRequest, TypeOK
  <2>5. CASE RefreshWrite(r) \/ Finish(r) \/ LoseRequest(r) \/ ReleaseCommit(r)
    <3>1. req'[r].at = "idle"
      BY <2>5 DEF RefreshWrite, Finish, LoseRequest, ReleaseCommit, Idle, TypeOK
    <3>2. Drained'
      BY <1>0, <2>4, <3>1 DEF Drained, Serving
    <3>3. CASE RefreshWrite(r) \/ LoseRequest(r)
      <4>1. ticket' = ticket /\ \A l \in Link : link'[l].remaining = link[l].remaining
        BY <3>3 DEF RefreshWrite, LoseRequest, TypeOK, LinkRow
      <4> QED
        BY <1>0, <3>2, <4>1
    <3>4. CASE Finish(r) \/ ReleaseCommit(r)
      <4>1. req[r].ticket \in Ticket /\ ticket[req[r].ticket].status = "reserved"
            /\ req[r].link \in Existing
        BY <3>4, HeldTicket DEF Finish, ReleaseCommit, Holding, HoldingPlaces, RequestLinks
      <4>2. \A t \in Ticket \ {req[r].ticket} : ticket'[t] = ticket[t]
        BY <3>4 DEF Finish, ReleaseCommit, TypeOK
      <4>3. CASE Finish(r)
        BY <1>0, <3>2, <4>1, <4>2, <4>3 DEF Finish
      <4>4. CASE ReleaseCommit(r)
        <5>1. req[r].state \in LinkStates /\ link[req[r].link].remaining + 1 \in Nat
          BY <1>0, <4>1, <4>4 DEF ReleaseCommit, StateToWrite, Existing
        <5>2. /\ link'[req[r].link].remaining = link[req[r].link].remaining + 1
              /\ \A l \in Link \ {req[r].link} : link'[l] = link[l]
          BY <4>1, <4>4, <5>1, WriteLinkRow DEF ReleaseCommit, TypeOK, Existing
        <5> QED
          BY <1>0, <3>2, <4>1, <4>2, <5>2
      <4> QED
        BY <3>4, <4>3, <4>4
    <3> QED
      BY <2>5, <3>3, <3>4
  <2>6. CASE Responds(r) \/ ReleaseRead(r)
    <3>1. UNCHANGED <<link, ticket>> /\ req'[r].at \in HoldingPlaces
      BY <2>6 DEF Responds, AttachHandlers, EndResponse, CloseEarly, CloseUnseen, Respond,
                  ReleaseRead, TypeOK, Request, HoldingPlaces
    <3> QED
      BY <1>0, <2>4, <3>1 DEF Drained, Serving, HoldingPlaces
  <2>7. ASSUME NEW l \in Link, NEW goal \in {"download", "issue"}, RefreshRead(r, l, goal)
        PROVE  Drained' /\ Quiet
    <3>1. RefreshedState(l) = "INVALIDATED"
      BY <1>0 DEF RefreshedState
    <3>2. UNCHANGED <<link, ticket>> /\ req'[r].at = "rewriting"
      BY <2>7, <3>1 DEF RefreshRead, Idle, TypeOK
    <3> QED
      BY <1>0, <2>4, <3>2 DEF Drained, Serving
  <2> QED
    BY <1>3, <2>2, <2>3, <2>5, <2>6, <2>7 DEF ServerStep, ClientStep, Responds
<1>4. ASSUME NEW t \in Ticket, TicketLapses(t) PROVE Drained' /\ Quiet
  BY <1>0, <1>4 DEF TicketLapses, Drained, TypeOK
<1>5. CASE UNCHANGED vars
  BY <1>0, <1>5 DEF vars, Drained
<1> QED
  BY <1>1, <1>2, <1>3, <1>4, <1>5 DEF Next

\* When the item has left ACTIVE and the requests that saw it ACTIVE have run out, no
\* slot is taken and no ticket is issued or redeemed from then on -- even though stale
\* writes may still put links back to ACTIVE in the database.
THEOREM RevocationIsFinal == Spec => RevocationDrains
<1>1. Footing /\ [Next]_vars =>
        [Drained => /\ Drained'
                    /\ \A t \in Ticket : ticket[t].status \in {"none", "lapsed"}
                                            => ticket'[t] = ticket[t]
                    /\ \A l \in Link : link[l].state # "none"
                                          => link'[l].remaining >= link[l].remaining]_vars
  BY DrainStep
<1> QED
  BY <1>1, FootingInit, FootingStep, PTL DEF Spec, RevocationDrains
=============================================================================

----------------------------- MODULE SourceItem -----------------------------
(***************************************************************************)
(* One stored source item and the owner's requests that change it          *)
(* (SourceItemsService, and the writes other services make to the same     *)
(* row).  Access handed out from the item -- public links, extractions,    *)
(* shares -- lives in the modules that EXTEND this one: they conjoin the   *)
(* cascade of invalidateDerivedAccess to the actions that run it.          *)
(*                                                                         *)
(* A request is a slot of Caller.  Every handler reads the item, awaits,   *)
(* and then writes; the two halves are two actions, and what is kept       *)
(* between them is the operation that the read has let through.            *)
(***************************************************************************)
EXTENDS Naturals, FiniteSets

CONSTANTS
  Caller,    \* concurrent owner requests
  Horizon    \* last instant of the clock (bound)

ASSUME HorizonAssumption == Horizon \in Nat

VARIABLES
  now,       \* the server's clock, new Date()
  source,    \* the SourceItem row
  owner      \* what each owner request is about to write

sourceVars == <<now, source, owner>>

(***************************************************************************)
(* validUntil = null never passes: it is represented by Forever, an        *)
(* instant after every value of the clock.                                 *)
(***************************************************************************)
Forever == Horizon + 1
Time    == 0..Horizon
Until   == 0..Forever

Lapsed(until) == until < now

SourceStates == {"ACTIVE", "INVALIDATED", "EXPIRED", "PURGED"}

\* SECRET and CONFIDENTIAL differ only in limits that no property here tells
\* apart; TOP_SECRET is the level whose policy forbids access handed outward.
Levels == {"CONFIDENTIAL", "TOP_SECRET"}

Source == [state : SourceStates, level : Levels, validUntil : Until]

\* The operations an owner request may be between the two halves of.
PendingOps ==
  {"none", "revoke", "expire", "markExpired", "burn",
   "CONFIDENTIAL", "TOP_SECRET", "validity"}

SourceTypeOK ==
  /\ now \in Time
  /\ source \in Source
  /\ owner \in [Caller -> PendingOps]

SourceInit ==
  /\ now = 0
  /\ source \in [state : {"ACTIVE"}, level : Levels, validUntil : Until]
  /\ owner = [c \in Caller |-> "none"]

Tick ==
  /\ now < Horizon
  /\ now' = now + 1
  /\ UNCHANGED <<source, owner>>

-----------------------------------------------------------------------------
(* First halves: the read, the early returns, and what may be written.      *)

\* Mutant: the state of the item is not looked at.
OwnerReadInAnyState(c, ops) ==
  /\ owner[c] = "none"
  /\ \E op \in ops : owner' = [owner EXCEPT ![c] = op]
  /\ UNCHANGED <<now, source>>

OwnerRead(c, ops) ==
  /\ owner[c] = "none"
  /\ source.state = "ACTIVE"
  /\ \E op \in ops : owner' = [owner EXCEPT ![c] = op]
  /\ UNCHANGED <<now, source>>

RevokeRead(c) == OwnerRead(c, {"revoke"})

ChangeConfidentialityRead(c) == OwnerRead(c, Levels)

UpdateValidityRead(c) == OwnerRead(c, {"validity"})

\* refreshOwnedSourceItemAvailability: an overdue item is expired with its cascade.
RefreshAvailabilityRead(c) ==
  Lapsed(source.validUntil) /\ OwnerRead(c, {"expire"})

\* Retrieval, extraction, share and link requests that meet an overdue item
\* write EXPIRED on it alone.
NoticeExpiryRead(c) ==
  Lapsed(source.validUntil) /\ OwnerRead(c, {"markExpired"})

\* An attempt on a burn-after-read item, issued while the item was retrievable.
IssueBurnAttempt(c) ==
  ~Lapsed(source.validUntil) /\ OwnerRead(c, {"burn"})

-----------------------------------------------------------------------------
(* Second halves: the write.  None of them looks at the row again.          *)

OwnerWrite(c, op, row) ==
  /\ owner[c] = op
  /\ source' = row
  /\ owner' = [owner EXCEPT ![c] = "none"]
  /\ UNCHANGED now

SetState(state) == [source EXCEPT !.state = state]

\* invalidateSourceItem(id, INVALIDATED) and (id, EXPIRED); with the cascade.
RevokeCommit(c) == OwnerWrite(c, "revoke", SetState("INVALIDATED"))

ExpireCommit(c) == OwnerWrite(c, "expire", SetState("EXPIRED"))

\* The level change; with the cascade when the new level is TOP_SECRET.
ChangeConfidentialityCommit(c, level) ==
  OwnerWrite(c, level, [source EXCEPT !.level = level])

UpdateValidityCommit(c, until) ==
  OwnerWrite(c, "validity", [source EXCEPT !.validUntil = until])

\* No cascade.
MarkExpired(c) == OwnerWrite(c, "markExpired", SetState("EXPIRED"))

\* completeSourceItemRetrieval of a burn-after-read item; no cascade.
BurnCommit(c) == OwnerWrite(c, "burn", SetState("PURGED"))

\* A handler that never reaches its write: the policy refuses, or the
\* process stops.
OwnerGiveUp(c) ==
  /\ owner[c] # "none"
  /\ owner' = [owner EXCEPT ![c] = "none"]
  /\ UNCHANGED <<now, source>>

-----------------------------------------------------------------------------
(* Steps that leave derived access alone, and steps that cascade.           *)

OwnerStep ==
  \/ Tick
  \/ \E c \in Caller :
       \/ RevokeRead(c)
       \/ ChangeConfidentialityRead(c)
       \/ UpdateValidityRead(c)
       \/ RefreshAvailabilityRead(c)
       \/ NoticeExpiryRead(c)
       \/ ChangeConfidentialityCommit(c, "CONFIDENTIAL")
       \/ \E until \in now..Forever : UpdateValidityCommit(c, until)
       \/ MarkExpired(c)
       \/ OwnerGiveUp(c)

\* The owner's retrieval of a burn-after-read item, as far as the item sees it;
\* the module Retrieval has its attempts in full.
BurnStep == \E c \in Caller : IssueBurnAttempt(c) \/ BurnCommit(c)

PlainSourceStep == OwnerStep \/ BurnStep

CascadingSourceStep ==
  \E c \in Caller :
    \/ RevokeCommit(c)
    \/ ExpireCommit(c)
    \/ ChangeConfidentialityCommit(c, "TOP_SECRET")
=============================================================================

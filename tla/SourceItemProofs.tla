-------------------------- MODULE SourceItemProofs --------------------------
(***************************************************************************)
(* Lemmas about the steps of a source item, used by the proofs about       *)
(* everything that is handed out from it.                                  *)
(***************************************************************************)
EXTENDS SourceItem, TLAPS

\* Every step of the item, cascading or not, keeps its rows and requests well typed.
LEMMA SourceStepType ==
  ASSUME SourceTypeOK, PlainSourceStep \/ CascadingSourceStep
  PROVE  SourceTypeOK'
<1> USE HorizonAssumption
<1> USE DEF SourceTypeOK, Source, Time, Until, Forever, SourceStates, Levels, PendingOps
<1>1. CASE Tick
  BY <1>1 DEF Tick
<1>2. ASSUME NEW c \in Caller, NEW ops \in SUBSET PendingOps, OwnerRead(c, ops)
      PROVE  SourceTypeOK'
  BY <1>2 DEF OwnerRead
<1>3. ASSUME NEW c \in Caller, NEW op, NEW row \in Source, OwnerWrite(c, op, row)
      PROVE  SourceTypeOK'
  BY <1>3 DEF OwnerWrite
<1>4. ASSUME NEW c \in Caller, OwnerGiveUp(c)
      PROVE  SourceTypeOK'
  BY <1>4 DEF OwnerGiveUp
<1>5. CASE CascadingSourceStep
  BY <1>3, <1>5 DEF CascadingSourceStep, RevokeCommit, ExpireCommit,
                    ChangeConfidentialityCommit, SetState
<1>6. CASE PlainSourceStep
  <2>1. ASSUME NEW c \in Caller,
               \/ RevokeRead(c) \/ ChangeConfidentialityRead(c)
               \/ UpdateValidityRead(c) \/ RefreshAvailabilityRead(c)
               \/ NoticeExpiryRead(c) \/ IssueBurnAttempt(c)
        PROVE  SourceTypeOK'
    BY <1>2, <2>1 DEF RevokeRead, ChangeConfidentialityRead, UpdateValidityRead,
                      RefreshAvailabilityRead, NoticeExpiryRead, IssueBurnAttempt
  <2>2. ASSUME NEW c \in Caller,
               \/ ChangeConfidentialityCommit(c, "CONFIDENTIAL")
               \/ MarkExpired(c) \/ BurnCommit(c)
        PROVE  SourceTypeOK'
    BY <1>3, <2>2 DEF ChangeConfidentialityCommit, MarkExpired, BurnCommit, SetState
  <2>3. ASSUME NEW c \in Caller, NEW until \in now..Forever,
               UpdateValidityCommit(c, until)
        PROVE  SourceTypeOK'
    BY <1>3, <2>3 DEF UpdateValidityCommit
  <2> QED
    BY <1>1, <1>4, <1>6, <2>1, <2>2, <2>3 DEF PlainSourceStep, OwnerStep, BurnStep
<1> QED
  BY <1>5, <1>6

\* Once the item has left ACTIVE nothing brings it back.
LEMMA SourceStaysInactive ==
  ASSUME source.state # "ACTIVE", SourceTypeOK, PlainSourceStep \/ CascadingSourceStep
  PROVE  source'.state # "ACTIVE"
<1> USE DEF SourceTypeOK, Source
<1>1. ASSUME NEW c \in Caller, NEW ops, OwnerRead(c, ops) PROVE FALSE
  BY <1>1 DEF OwnerRead
<1>2. ASSUME NEW c \in Caller, NEW op, NEW row, row.state # "ACTIVE", OwnerWrite(c, op, row)
      PROVE  source'.state # "ACTIVE"
  BY <1>2 DEF OwnerWrite
<1>3. CASE CascadingSourceStep
  BY <1>2, <1>3 DEF CascadingSourceStep, RevokeCommit, ExpireCommit,
                    ChangeConfidentialityCommit, SetState
<1>4. CASE PlainSourceStep
  <2>1. CASE Tick \/ \E c \in Caller : OwnerGiveUp(c)
    BY <2>1 DEF Tick, OwnerGiveUp
  <2>2. ASSUME NEW c \in Caller,
               \/ RevokeRead(c) \/ ChangeConfidentialityRead(c)
               \/ UpdateValidityRead(c) \/ RefreshAvailabilityRead(c)
               \/ NoticeExpiryRead(c) \/ IssueBurnAttempt(c)
        PROVE  FALSE
    BY <1>1, <2>2 DEF RevokeRead, ChangeConfidentialityRead, UpdateValidityRead,
                      RefreshAvailabilityRead, NoticeExpiryRead, IssueBurnAttempt
  <2>3. ASSUME NEW c \in Caller,
               \/ ChangeConfidentialityCommit(c, "CONFIDENTIAL")
               \/ MarkExpired(c) \/ BurnCommit(c)
               \/ \E until \in now..Forever : UpdateValidityCommit(c, until)
        PROVE  source'.state # "ACTIVE"
    BY <1>2, <2>3 DEF ChangeConfidentialityCommit, MarkExpired, BurnCommit, SetState,
                      UpdateValidityCommit
  <2> QED
    BY <1>4, <2>1, <2>2, <2>3 DEF PlainSourceStep, OwnerStep, BurnStep
<1> QED
  BY <1>3, <1>4
=============================================================================

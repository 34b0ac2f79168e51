-------------------------- MODULE ExtractionProofs --------------------------
(***************************************************************************)
(* Theorems about Extraction, for any number of scope keys, requests and   *)
(* owner requests, any configured count and any horizon.                   *)
(***************************************************************************)
EXTENDS Extraction, SourceItemProofs, TLAPS

USE DEF history

-----------------------------------------------------------------------------
(***************************************************************************)
(* The inductive invariant.  A completion in flight has read the attempt   *)
(* when it was open.  Either it still is not COMPLETED, and the completion *)
(* is a retrieval of its own, or another has overtaken it; and the count   *)
(* that it has read was accounted for.                                     *)
(***************************************************************************)
Accounted(charge) == access.configured - charge <= retrievals + repeats

Pending(r) ==
  /\ req[r].at \in {"counting", "completing"} /\ attempt[req[r].scope] = "COMPLETED"
       => req[r].overtaken
  /\ req[r].at = "completing" => Accounted(req[r].remaining)

\* A request past its first await works on an entry that exists, and one that
\* writes to an attempt knows which.
Standing(r) ==
  /\ req[r].at # "idle" => access.state # "none"
  /\ req[r].at \in {"failing", "counting", "completing"} => req[r].scope \in Scope
  /\ req[r].at = "rewriting" => req[r].state \in AccessStates

\* Attempts belong to an entry; while there is none, nothing has been charged and
\* createExtraction is the only handler that can be under way.
Opened ==
  /\ \A s \in Scope : attempt[s] # "none" => access.state # "none"
  /\ maker # NotReading => access.state = "none"

Ledger ==
  /\ TypeOK
  /\ Opened
  /\ \A r \in Req : Standing(r) /\ Pending(r)
  /\ ChargedOnce

-----------------------------------------------------------------------------
(* Steps that leave the ledger's rows alone *)

\* What a step may do to the requests when it touches no row of the ledger.
LEMMA RequestStep ==
  ASSUME Ledger, NEW r \in Req, NEW q \in Request,
         req' = [req EXCEPT ![r] = q],
         UNCHANGED <<now, source, owner, access, attempt, maker, history>>,
         (Standing(r) /\ Pending(r))'
  PROVE  Ledger'
<1> USE DEF Ledger
<1>1. TypeOK'
  BY DEF TypeOK, SourceTypeOK, Time
<1>2. Opened' /\ ChargedOnce'
  BY DEF Opened, ChargedOnce
<1>3. \A p \in Req \ {r} : (Standing(p) /\ Pending(p))'
  BY DEF Standing, Pending, Accounted, TypeOK
<1> QED
  BY <1>1, <1>2, <1>3

\* Steps of the entry's state alone: refresh, wrong password, grant.
LEMMA StateStep ==
  ASSUME Ledger, NEW r \in Req, NEW state \in AccessStates, access.state # "none",
         access' = [access EXCEPT !.state = state], req' = [req EXCEPT ![r] = Idle],
         UNCHANGED <<now, source, owner, attempt, maker, history>>
  PROVE  Ledger'
<1> USE DEF Ledger
<1>1. /\ access' \in AccessRow /\ access'.state = state
      /\ access'.configured = access.configured
      /\ access'.remaining = access.remaining
  BY DEF TypeOK, AccessRow
<1>2. req' \in [Req -> Request] /\ req'[r] = Idle
  BY DEF TypeOK, Request, Idle, Places
<1>3. TypeOK'
  BY <1>1, <1>2 DEF TypeOK, SourceTypeOK, Time
<1>4. Opened' /\ ChargedOnce'
  BY <1>1 DEF Opened, ChargedOnce, AccessStates
<1>5. (Standing(r) /\ Pending(r))'
  BY <1>2 DEF Standing, Pending, Idle
<1>6. \A p \in Req \ {r} : (Standing(p) /\ Pending(p))'
  BY <1>1 DEF Standing, Pending, Accounted, TypeOK, AccessStates
<1> QED
  BY <1>3, <1>4, <1>5, <1>6

\* Steps of an attempt that do not complete it: opened, abandoned, failed.
LEMMA AttemptStep ==
  ASSUME Ledger, NEW r \in Req, NEW s \in Scope, NEW status \in AttemptStatus,
         status # "COMPLETED", NEW q \in Request, q.at \in {"idle", "granting"},
         access.state # "none",
         attempt' = [attempt EXCEPT ![s] = status], req' = [req EXCEPT ![r] = q],
         UNCHANGED <<now, source, owner, access, maker, history>>
  PROVE  Ledger'
<1> USE DEF Ledger
<1>1. TypeOK'
  BY DEF TypeOK, SourceTypeOK, Time
<1>2. Opened' /\ ChargedOnce'
  BY DEF Opened, ChargedOnce, TypeOK
<1>3. (Standing(r) /\ Pending(r))'
  BY DEF Standing, Pending, TypeOK
<1>4. \A p \in Req \ {r} : (Standing(p) /\ Pending(p))'
  BY DEF Standing, Pending, Accounted, TypeOK
<1> QED
  BY <1>1, <1>2, <1>3, <1>4

-----------------------------------------------------------------------------
(* Completion *)

\* The count one lower, and never below zero.
LEMMA OneLower ==
  ASSUME NEW n \in Nat
  PROVE  Decremented(n) \in Nat /\ Decremented(n) >= n - 1
BY DEF Decremented

\* The two histories together.
LEMMA SumIsNat == \A m, n \in Nat : m + n \in Nat
OBVIOUS

\* A charge of one more, paid by one more in the histories.
LEMMA OneMore ==
  ASSUME NEW configured \in Nat, NEW before \in Nat, NEW after \in Nat,
         NEW paid \in Nat, NEW then \in Nat,
         configured - before <= paid, after >= before - 1, then >= paid + 1
  PROVE  configured - after <= then
OBVIOUS

\* A completion writes a count one below the one it has read.  Either it is the step
\* that completes the attempt, or it has been overtaken: in both cases one history
\* counts it.
LEMMA CompletionKeepsLedger ==
  ASSUME Ledger, NEW r \in Req, CompleteCommit(r)
  PROVE  Ledger'
<1> USE DEF Ledger
<1> DEFINE n == Decremented(req[r].remaining)
           state == IF n = 0 THEN "EXHAUSTED" ELSE "ACTIVE"
<1>1. /\ access.state # "none" /\ req[r].scope \in Scope /\ req[r].remaining \in Nat
      /\ access.configured \in Nat /\ retrievals \in Nat /\ repeats \in Nat
  BY DEF CompleteCommit, Standing, TypeOK, Request, AccessRow
<1>2. n \in Nat /\ n >= req[r].remaining - 1
  BY <1>1, OneLower
<1>3. /\ retrievals' \in Nat /\ repeats' \in Nat
      /\ retrievals' + repeats' >= retrievals + repeats + 1
  BY <1>1 DEF CompleteCommit, Pending
<1>4. retrievals + repeats \in Nat /\ retrievals' + repeats' \in Nat
  BY <1>1, <1>3, SumIsNat
<1>5. access' = [access EXCEPT !.remaining = n, !.state = state]
  BY DEF CompleteCommit
<1>6. /\ access' \in AccessRow /\ access'.state = state
      /\ access'.configured = access.configured /\ access'.remaining = n
  <2> HIDE DEF n
  <2>1. state \in AccessStates
    BY DEF AccessStates
  <2> HIDE DEF state
  <2> QED
    BY <1>2, <1>5, <2>1 DEF TypeOK, AccessRow
<1>7. access.configured - n <= retrievals' + repeats'
  <2> HIDE DEF n
  <2>1. access.configured - req[r].remaining <= retrievals + repeats
    BY DEF CompleteCommit, Pending, Accounted
  <2> HIDE DEF Ledger
  <2> DEFINE configured == access.configured
             before == req[r].remaining
             paid == retrievals + repeats
             then == retrievals' + repeats'
  <2>2. /\ configured \in Nat /\ before \in Nat /\ n \in Nat
        /\ paid \in Nat /\ then \in Nat
        /\ configured - before <= paid /\ n >= before - 1 /\ then >= paid + 1
    BY <1>1, <1>2, <1>3, <1>4, <2>1
  <2> HIDE DEF configured, before, paid, then
  <2>3. configured - n <= then
    BY <2>2, OneMore
  <2> QED
    BY <2>3 DEF configured, then
<1>8. /\ req' \in [Req -> Request] /\ req'[r] = Idle
      /\ \A p \in Req \ {r} :
           /\ req'[p].at = req[p].at /\ req'[p].scope = req[p].scope
           /\ req'[p].remaining = req[p].remaining /\ req'[p].state = req[p].state
           /\ req[p].overtaken => req'[p].overtaken
           /\ SameCall(p, r) => req'[p].overtaken
  <2>1. \A p \in Req \ {r} : req'[p] = IF SameCall(p, r) THEN [req[p] EXCEPT !.overtaken = TRUE]
                                                      ELSE req[p]
    BY DEF CompleteCommit
  <2>2. ASSUME NEW p \in Req PROVE [req[p] EXCEPT !.overtaken = TRUE] \in Request
    BY DEF TypeOK, Request
  <2>3. req'[r] = Idle /\ Idle \in Request
    BY DEF CompleteCommit, Request, Idle, Places
  <2>4. req' = [p \in Req |-> req'[p]]
    BY DEF CompleteCommit
  <2>5. \A p \in Req : req'[p] \in Request
    BY <2>1, <2>2, <2>3 DEF TypeOK
  <2>6. req' \in [Req -> Request]
    BY <2>4, <2>5
  <2> QED
    BY <2>1, <2>3, <2>6 DEF TypeOK, Request
<1>9. /\ attempt' \in [Scope -> AttemptStatus] /\ attempt'[req[r].scope] = "COMPLETED"
      /\ \A s \in Scope \ {req[r].scope} : attempt'[s] = attempt[s]
  BY <1>1 DEF CompleteCommit, TypeOK, AttemptStatus
<1> HIDE DEF n
<1>10. TypeOK'
  BY <1>3, <1>6, <1>8, <1>9 DEF TypeOK, SourceTypeOK, Time, CompleteCommit
<1>11. Opened' /\ ChargedOnce'
  BY <1>1, <1>6, <1>7 DEF Opened, ChargedOnce, CompleteCommit
<1>12. ASSUME NEW p \in Req PROVE (Standing(p) /\ Pending(p))'
  <2>1. CASE p = r
    BY <1>8, <2>1 DEF Standing, Pending, Idle
  <2>2. CASE p # r
    <3>1. Standing(p)'
      BY <1>1, <1>6, <1>8, <2>2 DEF Standing, AccessStates
    <3>2. req[p].at \in {"counting", "completing"} /\ attempt'[req[p].scope] = "COMPLETED"
            => req'[p].overtaken
      BY <1>8, <1>9, <2>2 DEF Pending, SameCall, Standing
    <3>3. req[p].at = "completing" =>
            access'.configured - req[p].remaining <= retrievals' + repeats'
      <4> SUFFICES ASSUME req[p].at = "completing"
                   PROVE  access'.configured - req[p].remaining <= retrievals' + repeats'
        OBVIOUS
      <4>1. req[p].remaining \in Nat
        BY DEF TypeOK, Request
      <4>2. access.configured - req[p].remaining <= retrievals + repeats
        BY DEF Pending, Accounted
      <4> HIDE DEF Ledger
      <4> DEFINE configured == access.configured
                 count == req[p].remaining
                 paid == retrievals + repeats
                 then == retrievals' + repeats'
      <4>3. /\ configured \in Nat /\ count \in Nat /\ paid \in Nat /\ then \in Nat
            /\ configured - count <= paid /\ then >= paid + 1
        BY <1>1, <1>3, <1>4, <4>1, <4>2
      <4>4. access'.configured = configured
        BY <1>6
      <4> HIDE DEF configured, count, paid, then
      <4>5. configured - count <= then
        BY <4>3
      <4> QED
        BY <4>4, <4>5 DEF count, then
    <3> QED
      BY <1>8, <2>2, <3>1, <3>2, <3>3 DEF Pending, Accounted
  <2> QED
    BY <2>1, <2>2
<1> QED
  BY <1>10, <1>11, <1>12

-----------------------------------------------------------------------------
(* Every other step *)

\* The first half of a refresh remembers the entry.
LEMMA RefreshKeepsLedger ==
  ASSUME Ledger, NEW r \in Req, NEW q \in Request, Refresh(r, q),
         q.at \in {"refreshing", "rechecking"}
  PROVE  Ledger'
<1> DEFINE p == [q EXCEPT !.state = access.state, !.remaining = access.remaining]
<1>1. p \in Request /\ p.at = q.at
  BY DEF Ledger, TypeOK, AccessRow, Request
<1>2. /\ UNCHANGED <<now, source, owner, access, attempt, maker, history>>
      /\ access.state # "none" /\ req' = [req EXCEPT ![r] = p] /\ req \in [Req -> Request]
  BY DEF Refresh, Ledger, TypeOK
<1> HIDE DEF p
<1>3. (Standing(r) /\ Pending(r))'
  BY <1>1, <1>2 DEF Standing, Pending
<1> QED
  BY <1>1, <1>2, <1>3, RequestStep

\* The second half reads only, and what it is about to write is a state of the entry.
LEMMA RefreshedKeepsLedger ==
  ASSUME Ledger, NEW r \in Req, NEW onward \in Request, Refreshed(r, onward),
         onward.at \in {"idle", "verifying", "serving"}, req[r].at # "idle"
  PROVE  Ledger'
<1> DEFINE q == [Idle EXCEPT !.at = "rewriting", !.state = RefreshedState(r)]
<1>1. UNCHANGED <<now, source, owner, access, attempt, maker, history>>
      /\ access.state # "none" /\ req \in [Req -> Request]
  BY DEF Refreshed, Ledger, TypeOK, Standing
<1>2. CASE RefreshedState(r) # req[r].state /\ req' = [req EXCEPT ![r] = q]
  <2>1. RefreshedState(r) \in AccessStates
    BY <1>2 DEF RefreshedState, AccessStates
  <2>2. q \in Request /\ q.at = "rewriting" /\ q.state \in AccessStates
    BY <2>1 DEF Idle, Request, Places
  <2>3. req'[r] = q
    BY <1>1, <1>2
  <2> HIDE DEF q
  <2>4. (Standing(r) /\ Pending(r))'
    BY <1>1, <2>2, <2>3 DEF Standing, Pending
  <2> QED
    BY <1>1, <1>2, <2>2, <2>4, RequestStep
<1>3. CASE req' = [req EXCEPT ![r] = onward]
  <2>1. (Standing(r) /\ Pending(r))'
    BY <1>1, <1>3 DEF Standing, Pending
  <2> QED
    BY <1>1, <1>3, <2>1, RequestStep
<1> QED
  BY <1>2, <1>3 DEF Refreshed

\* The item's steps: the cascade closes the entry and abandons open attempts, which
\* completes none.
LEMMA SourceKeepsLedger ==
  ASSUME Ledger, SourceAlone \/ SourceCascade
  PROVE  Ledger'
<1> USE DEF Ledger
<1>1. SourceTypeOK'
  BY SourceStepType DEF SourceAlone, SourceCascade, TypeOK
<1>2. CASE SourceAlone
  <2>1. UNCHANGED <<access, attempt, req, maker, history>>
    BY <1>2 DEF SourceAlone
  <2>2. TypeOK'
    BY <1>1, <2>1 DEF TypeOK
  <2>3. Opened' /\ ChargedOnce' /\ \A r \in Req : (Standing(r) /\ Pending(r))'
    BY <2>1 DEF Opened, ChargedOnce, Standing, Pending, Accounted
  <2> QED
    BY <2>2, <2>3
<1>3. CASE SourceCascade
  <2>1. /\ access' \in AccessRow
        /\ access'.configured = access.configured
        /\ access'.remaining = access.remaining
        /\ access'.state = "none" <=> access.state = "none"
    BY <1>3 DEF SourceCascade, TypeOK, AccessRow, AccessStates
  <2>2. /\ attempt' \in [Scope -> AttemptStatus]
        /\ \A s \in Scope : attempt'[s] = "COMPLETED" <=> attempt[s] = "COMPLETED"
        /\ \A s \in Scope : attempt'[s] # "none" <=> attempt[s] # "none"
    BY <1>3 DEF SourceCascade, TypeOK, AttemptStatus
  <2>3. UNCHANGED <<req, maker, history>>
    BY <1>3 DEF SourceCascade
  <2>4. TypeOK'
    BY <1>1, <2>1, <2>2, <2>3 DEF TypeOK
  <2>5. Opened' /\ ChargedOnce'
    BY <2>1, <2>2, <2>3 DEF Opened, ChargedOnce, NotReading, Forever
  <2>6. \A r \in Req : (Standing(r) /\ Pending(r))'
    BY <2>1, <2>2, <2>3 DEF Standing, Pending, Accounted
  <2> QED
    BY <2>4, <2>5, <2>6
<1> QED
  BY <1>2, <1>3

\* createExtraction starts the ledger: as much remaining as configured.
LEMMA CreateKeepsLedger ==
  ASSUME Ledger, Create
  PROVE  Ledger'
<1> USE DEF Ledger
<1> USE HorizonAssumption, ExtractionAssumption
<1>1. CASE CreateRead \/ CreateGiveUp
  <2>1. UNCHANGED <<now, source, owner, access, attempt, req, history>>
    BY <1>1 DEF CreateRead, CreateGiveUp
  <2>2. TypeOK' /\ Opened'
    BY <1>1, <2>1 DEF CreateRead, CreateGiveUp, TypeOK, Opened, SourceTypeOK, Source, Time
  <2>3. ChargedOnce' /\ \A r \in Req : (Standing(r) /\ Pending(r))'
    BY <2>1 DEF ChargedOnce, Standing, Pending, Accounted
  <2> QED
    BY <2>2, <2>3
<1>2. ASSUME NEW n \in 1..MaxRetrievals, NEW until \in now..Forever, CreateInsert(n, until)
      PROVE  Ledger'
  <2>1. n \in Nat /\ retrievals \in Nat /\ access.state = "none"
        /\ UNCHANGED <<now, source, owner, attempt, req, history>> /\ maker' = NotReading
    BY <1>2 DEF CreateInsert, Opened, TypeOK
  <2>2. ClampValidUntil(until, maker) \in Until
    BY <1>2 DEF CreateInsert, ClampValidUntil, TypeOK, SourceTypeOK, Until, Time, Forever,
                NotReading
  <2>3. access' \in AccessRow /\ access'.state = "ACTIVE"
        /\ access'.configured = n /\ access'.remaining = n
    BY <1>2, <2>1, <2>2 DEF CreateInsert, AccessRow, AccessStates
  <2>4. TypeOK'
    BY <2>1, <2>3 DEF TypeOK, SourceTypeOK, Time
  <2>5. Opened' /\ ChargedOnce'
    <3>1. retrievals' + repeats' \in Nat /\ n - n = 0
      BY <2>1 DEF TypeOK
    <3> QED
      BY <2>1, <2>3, <3>1 DEF Opened, ChargedOnce
  <2>6. \A r \in Req : req[r].at = "idle"
    BY <2>1 DEF Standing
  <2>7. \A r \in Req : (Standing(r) /\ Pending(r))'
    BY <2>1, <2>3, <2>6 DEF Standing, Pending
  <2> QED
    BY <2>4, <2>5, <2>7
<1> QED
  BY <1>1, <1>2 DEF Create

\* A request that arrives reads, and remembers nothing the ledger does not vouch for.
LEMMA ArrivalKeepsLedger ==
  ASSUME Ledger, NEW r \in Req, Arrive(r)
  PROVE  Ledger'
<1> USE DEF Ledger
<1>1. CASE SubmitRead(r)
  <2> DEFINE q == [Idle EXCEPT !.at = "refreshing"]
  <2>1. q \in Request /\ q.at = "refreshing"
    BY DEF Idle, Request, Places
  <2>2. Refresh(r, q)
    BY <1>1 DEF SubmitRead
  <2> HIDE DEF q
  <2> QED
    BY <2>1, <2>2, RefreshKeepsLedger
<1>2. ASSUME NEW s \in Scope, FetchRead(r, s) PROVE Ledger'
  <2> DEFINE q == [Idle EXCEPT !.at = "opening"]
  <2>1. q \in Request /\ q.at = "opening"
    BY DEF Idle, Request, Places
  <2>2. req' = [req EXCEPT ![r] = q] /\ access.state # "none"
        /\ UNCHANGED <<now, source, owner, access, attempt, maker, history>>
    BY <1>2 DEF FetchRead, Opened
  <2> HIDE DEF q
  <2>3. (Standing(r) /\ Pending(r))'
    BY <2>1, <2>2 DEF Standing, Pending, TypeOK
  <2> QED
    BY <2>1, <2>2, <2>3, RequestStep
<1>3. ASSUME NEW s \in Scope, NEW success \in BOOLEAN, CompleteRead(r, s, success)
      PROVE  Ledger'
  <2> DEFINE q == [Idle EXCEPT !.at = IF success THEN "counting" ELSE "failing",
                               !.scope = s]
  <2>1. q \in Request /\ q.scope = s /\ q.at \in {"counting", "failing"}
    BY DEF Idle, Request, Places
  <2>2. req' = [req EXCEPT ![r] = q] /\ access.state # "none" /\ attempt[s] # "COMPLETED"
        /\ UNCHANGED <<now, source, owner, access, attempt, maker, history>>
    BY <1>3 DEF CompleteRead, Completable, Opened
  <2> HIDE DEF q
  <2>3. req'[r] = q
    BY <2>2 DEF TypeOK
  <2>4. (Standing(r) /\ Pending(r))'
    BY <2>1, <2>2, <2>3 DEF Standing, Pending
  <2> QED
    BY <2>1, <2>2, <2>4, RequestStep
<1> QED
  BY <1>1, <1>2, <1>3 DEF Arrive

\* A request that goes on, writes or stops.
LEMMA ProceedKeepsLedger ==
  ASSUME Ledger, NEW r \in Req, Proceed(r)
  PROVE  Ledger'
<1> USE DEF Ledger
<1>1. Idle \in Request /\ Idle.at = "idle"
  BY DEF Idle, Request, Places
<1>2. ASSUME NEW place \in Places
      PROVE  [Idle EXCEPT !.at = place] \in Request /\ [Idle EXCEPT !.at = place].at = place
  BY DEF Idle, Request
<1>3. {"verifying", "granting", "fetching", "serving", "rechecking"} \subseteq Places
  BY DEF Places
<1>4. CASE SubmitRefreshed(r)
  <2> DEFINE q == [Idle EXCEPT !.at = "verifying"]
  <2>1. q \in Request /\ q.at = "verifying"
    BY <1>2, <1>3
  <2>2. Refreshed(r, q) /\ req[r].at # "idle"
    BY <1>4 DEF SubmitRefreshed
  <2> HIDE DEF q
  <2> QED
    BY <2>1, <2>2, RefreshedKeepsLedger
<1>5. CASE RefreshWrite(r)
  BY <1>5, StateStep DEF RefreshWrite, Standing
<1>6. CASE WrongPassword(r)
  BY <1>6, StateStep DEF WrongPassword, Standing, AccessStates
<1>7. CASE Grant(r)
  BY <1>7, StateStep DEF Grant, Standing, AccessStates
<1>8. ASSUME NEW s \in Scope, AcceptPassword(r, s) PROVE Ledger'
  <2> DEFINE q == [Idle EXCEPT !.at = "granting"]
  <2>1. q \in Request /\ q.at = "granting"
    BY <1>2, <1>3
  <2>2. /\ attempt' = [attempt EXCEPT ![s] = "IN_PROGRESS"] /\ req' = [req EXCEPT ![r] = q]
        /\ UNCHANGED <<now, source, owner, access, maker, history>>
        /\ access.state # "none"
    BY <1>8 DEF AcceptPassword, Standing
  <2> HIDE DEF q
  <2> QED
    BY <2>1, <2>2, AttemptStep DEF AttemptStatus
<1>9. CASE FailCommit(r)
  BY <1>1, <1>9, AttemptStep DEF FailCommit, Standing, AttemptStatus
<1>10. CASE FetchItem(r)
  <2> DEFINE q == [Idle EXCEPT !.at = "fetching", !.usable = SourceUsable]
  <2>1. SourceUsable \in BOOLEAN
    BY DEF SourceUsable, Lapsed
  <2>2. q \in Request /\ q.at = "fetching"
    BY <2>1 DEF Idle, Request, Places
  <2>3. req' = [req EXCEPT ![r] = q] /\ access.state # "none"
        /\ UNCHANGED <<now, source, owner, access, attempt, maker, history>>
    BY <1>10 DEF FetchItem, Standing
  <2> HIDE DEF q
  <2>4. (Standing(r) /\ Pending(r))'
    BY <2>2, <2>3 DEF Standing, Pending, TypeOK
  <2> QED
    BY <2>2, <2>3, <2>4, RequestStep
<1>11. CASE FetchRefresh(r)
  <2> DEFINE q == [req[r] EXCEPT !.at = "rechecking"]
  <2>1. q \in Request /\ q.at = "rechecking"
    BY <1>3 DEF TypeOK, Request
  <2>2. Refresh(r, q)
    BY <1>11 DEF FetchRefresh
  <2> HIDE DEF q
  <2> QED
    BY <2>1, <2>2, RefreshKeepsLedger
<1>12. CASE FetchRefreshed(r)
  <2> DEFINE q == IF req[r].usable THEN [Idle EXCEPT !.at = "serving"] ELSE Idle
  <2>1. q \in Request /\ q.at \in {"idle", "serving"}
    BY <1>1, <1>2, <1>3
  <2>2. Refreshed(r, q) /\ req[r].at # "idle"
    BY <1>12 DEF FetchRefreshed
  <2> HIDE DEF q
  <2> QED
    BY <2>1, <2>2, RefreshedKeepsLedger
<1>13. CASE Served(r) \/ LoseRequest(r)
  <2>1. req' = [req EXCEPT ![r] = Idle]
        /\ UNCHANGED <<now, source, owner, access, attempt, maker, history>>
    BY <1>13 DEF Served, LoseRequest
  <2>2. (Standing(r) /\ Pending(r))'
    BY <1>1, <2>1 DEF Standing, Pending, TypeOK
  <2> QED
    BY <1>1, <2>1, <2>2, RequestStep
<1>14. CASE CompleteCount(r)
  <2> DEFINE q == [req[r] EXCEPT !.at = "completing", !.remaining = access.remaining]
  <2>1. access.remaining \in Nat
    BY DEF TypeOK, AccessRow
  <2>2. /\ q \in Request /\ q.at = "completing" /\ q.remaining = access.remaining
        /\ q.scope = req[r].scope /\ q.overtaken = req[r].overtaken
    BY <2>1 DEF TypeOK, Request, Places
  <2>3. req' = [req EXCEPT ![r] = q] /\ req[r].at = "counting"
        /\ UNCHANGED <<now, source, owner, access, attempt, maker, history>>
    BY <1>14 DEF CompleteCount, TypeOK, Request
  <2> HIDE DEF q
  <2>4. req'[r] = q
    BY <2>3 DEF TypeOK
  <2>5. Standing(r)'
    BY <2>2, <2>3, <2>4 DEF Standing
  <2>6. Pending(r)'
    BY <2>2, <2>3, <2>4 DEF Pending, Accounted, Standing, ChargedOnce, history
  <2> QED
    BY <2>2, <2>3, <2>5, <2>6, RequestStep
<1>15. CASE CompleteCommit(r)
  BY <1>15, CompletionKeepsLedger
<1> QED
  BY <1>4, <1>5, <1>6, <1>7, <1>8, <1>9, <1>10, <1>11, <1>12, <1>13, <1>14, <1>15 DEF Proceed

\* The ledger is inductive.
LEMMA LedgerStep == Ledger /\ [Next]_vars => Ledger'
<1> SUFFICES ASSUME Ledger, [Next]_vars PROVE Ledger'
  OBVIOUS
<1>1. CASE UNCHANGED vars
  BY <1>1 DEF vars, Ledger, TypeOK, SourceTypeOK, Time, Opened, ChargedOnce, Standing,
              Pending, Accounted
<1> QED
  BY <1>1, SourceKeepsLedger, CreateKeepsLedger, ArrivalKeepsLedger, ProceedKeepsLedger
     DEF Next

\* Before the extraction exists there is nothing to account for.
LEMMA LedgerInit == Init => Ledger
<1> SUFFICES ASSUME Init PROVE Ledger
  OBVIOUS
<1> USE HorizonAssumption
<1>1. SourceTypeOK
  BY DEF Init, SourceInit, SourceTypeOK, Source, Time, Until, Forever, SourceStates, PendingOps
<1>2. Idle \in Request /\ Idle.at = "idle"
  BY DEF Idle, Request, Places
<1>3. access \in AccessRow /\ access.state = "none" /\ maker = NotReading
      /\ attempt \in [Scope -> AttemptStatus] /\ \A s \in Scope : attempt[s] = "none"
  BY DEF Init, AccessRow, AttemptStatus, Until, Forever
<1>4. TypeOK
  BY <1>1, <1>2, <1>3 DEF Init, TypeOK
<1>5. Opened /\ ChargedOnce /\ \A r \in Req : Standing(r) /\ Pending(r)
  BY <1>2, <1>3 DEF Init, Opened, ChargedOnce, Standing, Pending
<1> QED
  BY <1>4, <1>5 DEF Ledger

-----------------------------------------------------------------------------
(* The theorems *)

\* Rows and requests keep their types; in particular no repetition of a completion
\* drives the count below zero.
THEOREM ExtractionTypeCorrect == Spec => []TypeOK
<1>1. Ledger => TypeOK
  BY DEF Ledger
<1> QED
  BY <1>1, LedgerInit, LedgerStep, PTL DEF Spec

\* Repeated and competing calls of completeExtractionRetrieval charge the recipient
\* once for each completed retrieval; only a call that had read the attempt before a
\* completion of it was written may charge it again, once.
THEOREM RetrievalsAreChargedOnce == Spec => []ChargedOnce
<1>1. Ledger => ChargedOnce
  BY DEF Ledger
<1> QED
  BY <1>1, LedgerInit, LedgerStep, PTL DEF Spec

\* No attempt is opened by the step.
Unopened == \A s \in Scope : attempt'[s] = "IN_PROGRESS" => attempt[s] = "IN_PROGRESS"

\* Whoever reads an inactive item, at whatever place, is refused.
LEMMA InactiveIsRefused ==
  ASSUME Ledger, Drained, NEW r \in Req, NEW onward \in Request, Refreshed(r, onward)
  PROVE  Drained' /\ Unopened
<1>1. RefreshedState(r) = "INVALIDATED"
  BY DEF RefreshedState, SourceUsable, Drained
<1>2. req' = [req EXCEPT ![r] = [Idle EXCEPT !.at = "rewriting", !.state = "INVALIDATED"]]
  BY <1>1 DEF Refreshed, Retrievable
<1> QED
  BY <1>2 DEF Refreshed, Drained, Unopened, Idle, Ledger, TypeOK

\* The drain lasts, and opens no attempt.
LEMMA ExtractionDrainStep ==
  ASSUME Ledger, [Next]_vars, Drained
  PROVE  Drained' /\ Unopened
<1> USE DEF Ledger
<1>0. /\ source.state # "ACTIVE"
      /\ \A r \in Req : req[r].at \notin {"verifying", "serving"}
      /\ req \in [Req -> Request] /\ attempt \in [Scope -> AttemptStatus]
  BY DEF Drained, TypeOK
<1>1. CASE SourceAlone \/ SourceCascade
  <2>1. source'.state # "ACTIVE" /\ UNCHANGED req
    BY <1>0, <1>1, SourceStaysInactive DEF SourceAlone, SourceCascade, TypeOK
  <2>2. Unopened
    BY <1>0, <1>1 DEF SourceAlone, SourceCascade, Unopened
  <2> QED
    BY <1>0, <2>1, <2>2 DEF Drained
<1>2. CASE Create
  BY <1>0, <1>2 DEF Create, CreateRead, CreateInsert, CreateGiveUp, Drained, Unopened
<1>3. ASSUME NEW r \in Req, Arrive(r) PROVE Drained' /\ Unopened
  <2>1. UNCHANGED <<source, attempt>>
    BY <1>3 DEF Arrive, SubmitRead, Refresh, FetchRead, CompleteRead
  <2>2. req'[r].at \notin {"verifying", "serving"}
    <3>1. CASE SubmitRead(r)
      BY <1>0, <3>1 DEF SubmitRead, Refresh, Idle
    <3>2. ASSUME NEW s \in Scope, FetchRead(r, s)
          PROVE  req'[r].at \notin {"verifying", "serving"}
      BY <1>0, <3>2 DEF FetchRead, Idle
    <3>3. ASSUME NEW s \in Scope, NEW success \in BOOLEAN, CompleteRead(r, s, success)
          PROVE  req'[r].at \notin {"verifying", "serving"}
      BY <1>0, <3>3 DEF CompleteRead, Idle
    <3> QED
      BY <1>3, <3>1, <3>2, <3>3 DEF Arrive
  <2>3. \A p \in Req \ {r} : req'[p] = req[p]
    BY <1>0, <1>3 DEF Arrive, SubmitRead, Refresh, FetchRead, CompleteRead
  <2> QED
    BY <1>0, <2>1, <2>2, <2>3 DEF Drained, Unopened
<1>4. ASSUME NEW r \in Req, Proceed(r) PROVE Drained' /\ Unopened
  <2>1. ~WrongPassword(r) /\ (\A s \in Scope : ~AcceptPassword(r, s)) /\ ~Served(r)
    BY <1>0 DEF WrongPassword, AcceptPassword, Served
  <2>2. [Idle EXCEPT !.at = "verifying"] \in Request
        /\ (IF req[r].usable THEN [Idle EXCEPT !.at = "serving"] ELSE Idle) \in Request
    BY DEF Idle, Request, Places
  <2>3. CASE SubmitRefreshed(r) \/ FetchRefreshed(r)
    BY <2>2, <2>3, InactiveIsRefused DEF SubmitRefreshed, FetchRefreshed
  <2>4. CASE FetchItem(r)
    BY <1>0, <2>4 DEF FetchItem, Idle, Drained, Unopened
  <2>5. CASE FetchRefresh(r)
    BY <1>0, <2>5 DEF FetchRefresh, Refresh, Drained, Unopened, Request
  <2>6. CASE CompleteCount(r)
    BY <1>0, <2>6 DEF CompleteCount, Drained, Unopened, Request
  <2>7. CASE CompleteCommit(r)
    <3>1. source' = source /\ \A p \in Req : req'[p].at \in {"idle", req[p].at}
      BY <1>0, <2>7 DEF CompleteCommit, Idle, Request
    <3>2. \A s \in Scope : attempt'[s] \in {attempt[s], "COMPLETED"}
      BY <1>0, <2>7 DEF CompleteCommit
    <3> QED
      BY <1>0, <3>1, <3>2 DEF Drained, Unopened
  <2>8. CASE RefreshWrite(r) \/ Grant(r) \/ FailCommit(r) \/ LoseRequest(r)
    <3>1. req' = [req EXCEPT ![r] = Idle] /\ UNCHANGED source
      BY <2>8 DEF RefreshWrite, Grant, FailCommit, LoseRequest
    <3>2. \A s \in Scope : attempt'[s] \in {attempt[s], "FAILED"}
      BY <1>0, <2>8 DEF RefreshWrite, Grant, FailCommit, LoseRequest
    <3> QED
      BY <1>0, <3>1, <3>2 DEF Idle, Drained, Unopened
  <2> QED
    BY <1>4, <2>1, <2>3, <2>4, <2>5, <2>6, <2>7, <2>8 DEF Proceed
<1>5. CASE UNCHANGED vars
  BY <1>0, <1>5 DEF vars, Drained, Unopened
<1> QED
  BY <1>1, <1>2, <1>3, <1>4, <1>5 DEF Next

\* When the item has left ACTIVE and the requests let through before have run out,
\* no password is verified, no attempt opened and no download started ever again --
\* though grants and completions may still write ACTIVE on the entry, and downloads
\* may be under way that have read the item when it was ACTIVE.
THEOREM ExtractionRevocationIsFinal == Spec => RevocationDrains
<1>1. Ledger /\ [Next]_vars =>
        [Drained => /\ Drained'
                    /\ \A s \in Scope : attempt'[s] = "IN_PROGRESS"
                                            => attempt[s] = "IN_PROGRESS"]_vars
  BY ExtractionDrainStep DEF Unopened
<1> QED
  BY <1>1, LedgerInit, LedgerStep, PTL DEF Spec, RevocationDrains
=============================================================================

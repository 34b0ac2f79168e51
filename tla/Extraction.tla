----------------------------- MODULE Extraction -----------------------------
(***************************************************************************)
(* A password extraction of one source item (ExtractionService): its       *)
(* creation, the password submissions that open retrieval attempts, the    *)
(* downloads of an open attempt and its completion, which lowers the       *)
(* retrieval count.                                                        *)
(*                                                                         *)
(* Every handler works on rows it has read before an await and writes them *)
(* by id; none of the writes is guarded.  A query that includes a relation *)
(* reads the row first and the relation in a statement of its own, so it   *)
(* is two steps.  The number of failed passwords and the captcha flag (the *)
(* client's own word) decide nothing here and are left out.                *)
(***************************************************************************)
EXTENDS SourceItem

CONSTANTS
  Scope,           \* attempt scope keys; one RetrievalAttempt row for each
  Req,             \* concurrent recipient requests
  NoScope,
  MaxRetrievals,   \* largest configured retrieval count
  MaxCompletions   \* completions are begun only below this many (bound)

ASSUME ExtractionAssumption ==
  /\ MaxRetrievals \in Nat
  /\ MaxCompletions \in Nat
  /\ NoScope \notin Scope

VARIABLES
  access,      \* the ExtractionAccess row
  attempt,     \* RetrievalAttempt status by scope key
  req,         \* recipient requests: where each stands and what it has read
  maker,       \* createExtraction: the item's validUntil as it was read
  retrievals,  \* history: how many times an attempt has become COMPLETED
  repeats      \* history: completions overtaken by one of the same attempt

vars == <<now, source, owner, access, attempt, req, maker, retrievals, repeats>>

history == <<retrievals, repeats>>

-----------------------------------------------------------------------------
AccessStates ==
  {"ACTIVE", "CHALLENGE_REQUIRED", "EXHAUSTED", "EXPIRED", "INVALIDATED"}

\* "none" until the row exists.
AccessRow ==
  [state : AccessStates \cup {"none"}, configured : Nat, remaining : Nat,
   validUntil : Until]

AttemptStatus == {"none", "IN_PROGRESS", "COMPLETED", "ABANDONED", "FAILED"}

(***************************************************************************)
(* Where a request stands:                                                 *)
(*   refreshing, rechecking   the refresh has read the entry, the item is  *)
(*               next; for a password, and for a download                  *)
(*   rewriting   the refresh found another state and is about to write it  *)
(*   verifying   the entry was retrievable, the password is being hashed   *)
(*   granting    the attempt is open, the entry's state is still to be set *)
(*   opening     the attempt was found open, the item is next              *)
(*   fetching    the item has been read, the refresh is next               *)
(*   serving     the bytes are being streamed                              *)
(*   counting    the attempt was read as not COMPLETED, the entry is next  *)
(*   completing, failing   the write is next                               *)
(***************************************************************************)
Places ==
  {"idle", "refreshing", "rechecking", "rewriting", "verifying", "granting",
   "opening", "fetching", "serving", "counting", "completing", "failing"}

\* remaining and state: what the request has read of the entry, or will write;
\* usable: whether the item it has read is ACTIVE and not overdue; overtaken, a
\* history: its attempt has been completed by another since it was read.
Request ==
  [at : Places, scope : Scope \cup {NoScope}, remaining : Nat,
   state : AccessStates \cup {"none"}, usable : BOOLEAN, overtaken : BOOLEAN]

Idle ==
  [at |-> "idle", scope |-> NoScope, remaining |-> 0, state |-> "none",
   usable |-> FALSE, overtaken |-> FALSE]

NotReading == Forever + 1

TypeOK ==
  /\ SourceTypeOK
  /\ access \in AccessRow
  /\ attempt \in [Scope -> AttemptStatus]
  /\ req \in [Req -> Request]
  /\ maker \in Until \cup {NotReading}
  /\ retrievals \in Nat
  /\ repeats \in Nat

Init ==
  /\ SourceInit
  /\ access = [state |-> "none", configured |-> 0, remaining |-> 0, validUntil |-> 0]
  /\ attempt = [s \in Scope |-> "none"]
  /\ req = [r \in Req |-> Idle]
  /\ maker = NotReading
  /\ retrievals = 0
  /\ repeats = 0

-----------------------------------------------------------------------------
(* createExtraction *)

SourceUsable == source.state = "ACTIVE" /\ ~Lapsed(source.validUntil)

\* The default policy: outward access is refused for TOP_SECRET.
AllowPasswordExtraction(level) == level # "TOP_SECRET"

CreateRead ==
  /\ maker = NotReading
  /\ access.state = "none"
  /\ SourceUsable
  /\ AllowPasswordExtraction(source.level)
  /\ maker' = source.validUntil
  /\ UNCHANGED <<now, source, owner, access, attempt, req, history>>

\* candidate < sourceValidUntil ? candidate : sourceValidUntil; null is Forever.
ClampValidUntil(candidate, limit) == IF candidate < limit THEN candidate ELSE limit

CreateInsert(count, candidate) ==
  /\ maker # NotReading
  /\ access' = [state |-> "ACTIVE", configured |-> count, remaining |-> count,
                validUntil |-> ClampValidUntil(candidate, maker)]
  /\ maker' = NotReading
  /\ UNCHANGED <<now, source, owner, attempt, req, history>>

CreateGiveUp ==
  /\ maker # NotReading
  /\ maker' = NotReading
  /\ UNCHANGED <<now, source, owner, access, attempt, req, history>>

-----------------------------------------------------------------------------
(* refreshExtractionState *)

\* Mutant: the refresh trusts the cascade and looks only at the entry.
RefreshedStateOfAccess(r) ==
  IF Lapsed(access.validUntil) THEN "EXPIRED"
  ELSE IF req[r].remaining <= 0 THEN "EXHAUSTED"
  ELSE req[r].state

\* Of the entry as it was read, and of the item now.
RefreshedState(r) ==
  IF ~SourceUsable THEN "INVALIDATED"
  ELSE IF Lapsed(access.validUntil) THEN "EXPIRED"
  ELSE IF req[r].remaining <= 0 THEN "EXHAUSTED"
  ELSE req[r].state

Retrievable(state) == state \in {"ACTIVE", "CHALLENGE_REQUIRED"}

\* The entry's row; for a request q that waits for the item's at the place given.
Refresh(r, q) ==
  /\ access.state # "none"
  /\ req' = [req EXCEPT ![r] =
       [q EXCEPT !.state = access.state, !.remaining = access.remaining]]
  /\ UNCHANGED <<now, source, owner, access, attempt, maker, history>>

\* The item's row.  The refresh either has a state to write, or lets the caller go
\* on.  A request that finds the stored state right and not retrievable ends,
\* unchanged.
Refreshed(r, onward) ==
  /\ \/ /\ RefreshedState(r) # req[r].state
        /\ req' = [req EXCEPT ![r] =
             [Idle EXCEPT !.at = "rewriting", !.state = RefreshedState(r)]]
     \/ /\ RefreshedState(r) = req[r].state
        /\ Retrievable(req[r].state)
        /\ req' = [req EXCEPT ![r] = onward]
  /\ UNCHANGED <<now, source, owner, access, attempt, maker, history>>

RefreshWrite(r) ==
  /\ req[r].at = "rewriting"
  /\ access' = [access EXCEPT !.state = req[r].state]
  /\ req' = [req EXCEPT ![r] = Idle]
  /\ UNCHANGED <<now, source, owner, attempt, maker, history>>

-----------------------------------------------------------------------------
(* submitPassword *)

\* getExtractionEntry is the refresh alone: it adds no behaviour to this one.
SubmitRead(r) ==
  /\ req[r].at = "idle"
  /\ Refresh(r, [Idle EXCEPT !.at = "refreshing"])

SubmitRefreshed(r) ==
  /\ req[r].at = "refreshing"
  /\ Refreshed(r, [Idle EXCEPT !.at = "verifying"])

WrongPassword(r) ==
  /\ req[r].at = "verifying"
  /\ access' = [access EXCEPT !.state = "CHALLENGE_REQUIRED"]
  /\ req' = [req EXCEPT ![r] = Idle]
  /\ UNCHANGED <<now, source, owner, attempt, maker, history>>

\* The upsert under the caller's scope key: whatever the attempt has become, it is
\* IN_PROGRESS again.
AcceptPassword(r, s) ==
  /\ req[r].at = "verifying"
  /\ attempt' = [attempt EXCEPT ![s] = "IN_PROGRESS"]
  /\ req' = [req EXCEPT ![r] = [Idle EXCEPT !.at = "granting"]]
  /\ UNCHANGED <<now, source, owner, access, maker, history>>

Grant(r) ==
  /\ req[r].at = "granting"
  /\ access' = [access EXCEPT !.state = "ACTIVE"]
  /\ req' = [req EXCEPT ![r] = Idle]
  /\ UNCHANGED <<now, source, owner, attempt, maker, history>>

-----------------------------------------------------------------------------
(* createDownloadStreamForAttempt *)

\* The attempt, and then its item.
FetchRead(r, s) ==
  /\ req[r].at = "idle"
  /\ attempt[s] = "IN_PROGRESS"
  /\ req' = [req EXCEPT ![r] = [Idle EXCEPT !.at = "opening"]]
  /\ UNCHANGED <<now, source, owner, access, attempt, maker, history>>

FetchItem(r) ==
  /\ req[r].at = "opening"
  /\ req' = [req EXCEPT ![r] = [Idle EXCEPT !.at = "fetching", !.usable = SourceUsable]]
  /\ UNCHANGED <<now, source, owner, access, attempt, maker, history>>

FetchRefresh(r) ==
  /\ req[r].at = "fetching"
  /\ Refresh(r, [req[r] EXCEPT !.at = "rechecking"])

\* The item's state is the one read with the attempt.
FetchRefreshed(r) ==
  /\ req[r].at = "rechecking"
  /\ Refreshed(r, IF req[r].usable THEN [Idle EXCEPT !.at = "serving"] ELSE Idle)

Served(r) ==
  /\ req[r].at = "serving"
  /\ req' = [req EXCEPT ![r] = Idle]
  /\ UNCHANGED <<now, source, owner, access, attempt, maker, history>>

-----------------------------------------------------------------------------
(* completeExtractionRetrieval *)

\* Mutant: no early return for an attempt that is already complete.
CompletableAgain(s) == attempt[s] # "none"

Completable(s) == attempt[s] \notin {"none", "COMPLETED"}

\* The attempt; its entry is read by a second statement.
CompleteRead(r, s, success) ==
  /\ req[r].at = "idle"
  /\ Completable(s)
  /\ retrievals < MaxCompletions
  /\ req' = [req EXCEPT ![r] =
       [Idle EXCEPT !.at = IF success THEN "counting" ELSE "failing", !.scope = s]]
  /\ UNCHANGED <<now, source, owner, access, attempt, maker, history>>

CompleteCount(r) ==
  /\ req[r].at = "counting"
  /\ req' = [req EXCEPT ![r].at = "completing", ![r].remaining = access.remaining]
  /\ UNCHANGED <<now, source, owner, access, attempt, maker, history>>

FailCommit(r) ==
  /\ req[r].at = "failing"
  /\ attempt' = [attempt EXCEPT ![req[r].scope] = "FAILED"]
  /\ req' = [req EXCEPT ![r] = Idle]
  /\ UNCHANGED <<now, source, owner, access, maker, history>>

\* Mutant: Math.max forgotten.
DecrementedBelowZero(n) == n - 1

Decremented(n) == IF n > 1 THEN n - 1 ELSE 0

\* Whether request p is completing the attempt that r completes.
SameCall(p, r) ==
  req[p].at \in {"counting", "completing"} /\ req[p].scope = req[r].scope

\* One transaction; the count it lowers is the one read before it.
CompleteCommit(r) ==
  /\ req[r].at = "completing"
  /\ attempt' = [attempt EXCEPT ![req[r].scope] = "COMPLETED"]
  /\ LET remaining == Decremented(req[r].remaining)
     IN  access' = [access EXCEPT
                      !.remaining = remaining,
                      !.state = IF remaining = 0 THEN "EXHAUSTED" ELSE "ACTIVE"]
  /\ retrievals' = IF attempt[req[r].scope] = "COMPLETED" THEN retrievals
                                                          ELSE retrievals + 1
  /\ repeats' = IF req[r].overtaken THEN repeats + 1 ELSE repeats
  /\ req' = [p \in Req |->
               IF p = r THEN Idle
               ELSE IF SameCall(p, r) THEN [req[p] EXCEPT !.overtaken = TRUE]
               ELSE req[p]]
  /\ UNCHANGED <<now, source, owner, maker>>

-----------------------------------------------------------------------------
\* A handler that stops half way: no package family, a dropped connection, or
\* the end of the server process.
LoseRequest(r) ==
  /\ req[r].at # "idle"
  /\ req' = [req EXCEPT ![r] = Idle]
  /\ UNCHANGED <<now, source, owner, access, attempt, maker, history>>

\* invalidateDerivedAccess, in the transaction of the source write.
SourceCascade ==
  /\ CascadingSourceStep
  /\ access' = [access EXCEPT !.state = IF @ = "none" THEN @ ELSE "INVALIDATED"]
  /\ attempt' = [s \in Scope |->
       IF attempt[s] = "IN_PROGRESS" THEN "ABANDONED" ELSE attempt[s]]
  /\ UNCHANGED <<req, maker, history>>

SourceAlone ==
  /\ PlainSourceStep
  /\ UNCHANGED <<access, attempt, req, maker, history>>

Create ==
  \/ CreateRead
  \/ \E n \in 1..MaxRetrievals, until \in now..Forever : CreateInsert(n, until)
  \/ CreateGiveUp

Arrive(r) ==
  \/ SubmitRead(r)
  \/ \E s \in Scope :
       \/ FetchRead(r, s)
       \/ \E success \in BOOLEAN : CompleteRead(r, s, success)

Proceed(r) ==
  \/ SubmitRefreshed(r)
  \/ RefreshWrite(r)
  \/ WrongPassword(r)
  \/ \E s \in Scope : AcceptPassword(r, s)
  \/ Grant(r)
  \/ FetchItem(r)
  \/ FetchRefresh(r)
  \/ FetchRefreshed(r)
  \/ Served(r)
  \/ FailCommit(r)
  \/ CompleteCount(r)
  \/ CompleteCommit(r)
  \/ LoseRequest(r)

Next ==
  \/ SourceAlone
  \/ SourceCascade
  \/ Create
  \/ \E r \in Req : Arrive(r) \/ Proceed(r)

Spec == Init /\ [][Next]_vars

-----------------------------------------------------------------------------
(* Properties *)

\* A completed retrieval is charged once, however often the client repeats its
\* complete call and whatever stale counts are written back, except for repetitions
\* that had read the attempt before the completion was written: each of those may
\* charge it once more, since the count it lowers is read after the status.
ChargedOnce ==
  access.state # "none" => access.configured - access.remaining <= retrievals + repeats

\* The item has left ACTIVE, and the requests that were let through before that have
\* run out.  Requests at every other place may be under way.
Drained ==
  /\ source.state # "ACTIVE"
  /\ \A r \in Req : req[r].at \notin {"verifying", "serving"}

\* Completions and grants may still write ACTIVE on the entry of an inactive item,
\* and downloads may be under way that have read the item when it was ACTIVE; yet no
\* password is verified, no attempt is opened and no byte is served, ever again.
RevocationDrains ==
  [][Drained => /\ Drained'
                /\ \A s \in Scope : attempt'[s] = "IN_PROGRESS"
                                      => attempt[s] = "IN_PROGRESS"]_vars
=============================================================================

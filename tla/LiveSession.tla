---------------------------- MODULE LiveSession ----------------------------
(***************************************************************************)
(* One live-transfer session (LiveTransferService): creation, joining by   *)
(* code, the confirmation of both sides, the choice of a transport, the    *)
(* end of the session, the fallback to a stored upload and the record that *)
(* is retained of it.                                                      *)
(*                                                                         *)
(* Every handler reads the session, checks what it has read, and updates   *)
(* the row by id without looking again; then it reads the row once more    *)
(* and writes the record.  Signals and relay chunks only read the session  *)
(* and are not part of this module.                                        *)
(***************************************************************************)
EXTENDS Naturals

CONSTANTS
  Device,     \* trusted devices, each of one user
  Initiator,  \* the device that creates the session
  NoDevice,
  Req,        \* concurrent requests
  Policies,   \* what the policy bundles in force may decide
  MaxUploads  \* fallbacks are begun only below this many uploads (bound)

\* allowPeerToPeer, allowRelay, allowPeerToPeerToRelayFallback,
\* allowLiveToStoredFallback, retainLiveTransferRecords, as the evaluation of
\* PolicyBundles has converted them.
Policy ==
  [p2p : BOOLEAN, relay : BOOLEAN, fallback : BOOLEAN, stored : BOOLEAN, retain : BOOLEAN]

ASSUME LiveAssumption ==
  /\ Initiator \in Device
  /\ NoDevice \notin Device
  /\ Policies \subseteq Policy
  /\ MaxUploads \in Nat

VARIABLES
  session,   \* the LiveTransferSession row
  policy,    \* the decision copied into the row
  overdue,   \* expiresAt has passed
  uploads,   \* upload sessions prepared for the fallback
  record,    \* outcome in the retained record
  req,       \* requests: where each stands and what it will write
  consent,   \* history: the devices that have confirmed
  seen       \* history: the irregularities so far

vars == <<session, policy, overdue, uploads, record, req, consent, seen>>

-----------------------------------------------------------------------------
Live == {"CONNECTING", "ACTIVE"}

Terminal == {"COMPLETED", "FAILED", "CANCELLED"}

\* EXPIRED is never written.
SessionStates == {"none", "AWAITING_JOIN", "AWAITING_CONFIRMATION"} \cup Live \cup Terminal

P2P == {"P2P_ATTEMPT", "P2P_ACTIVE"}

Relay == {"RELAY_ATTEMPT", "RELAY_ACTIVE"}

Transports == {"none"} \cup P2P \cup Relay

SessionRow ==
  [state : SessionStates, transport : Transports, joiner : Device \cup {NoDevice},
   initiatorOk : BOOLEAN, joinerOk : BOOLEAN, fallback : BOOLEAN]

(***************************************************************************)
(* Where a request stands; the row was read and found right for            *)
(*   joining, confirming, connecting, ending, preparing                    *)
(* and the write comes next.  A prepared upload is linked to the session;  *)
(* every other write is followed by the record: projecting reads the row   *)
(* again, recording writes what was read.                                  *)
(***************************************************************************)
Places ==
  {"idle", "joining", "confirming", "connecting", "ending", "preparing",
   "linking", "projecting", "recording"}

Request ==
  [at : Places, device : Device \cup {NoDevice}, state : SessionStates,
   transport : Transports]

Idle == [at |-> "idle", device |-> NoDevice, state |-> "none", transport |-> "none"]

\* overlap: a request began while another one was under way;
\* lost: a request stopped half way.
Irregularity == {"overlap", "lost"}

TypeOK ==
  /\ session \in SessionRow
  /\ policy \in Policies
  /\ overdue \in BOOLEAN
  /\ uploads \in Nat
  /\ record \in SessionStates
  /\ req \in [Req -> Request]
  /\ consent \subseteq Device
  /\ seen \subseteq Irregularity

Init ==
  /\ session = [state |-> "none", transport |-> "none", joiner |-> NoDevice,
                initiatorOk |-> FALSE, joinerOk |-> FALSE, fallback |-> FALSE]
  /\ policy \in Policies
  /\ overdue = FALSE
  /\ uploads = 0
  /\ record = "none"
  /\ req = [r \in Req |-> Idle]
  /\ consent = {}
  /\ seen = {}

-----------------------------------------------------------------------------
Resting == \A r \in Req : req[r].at = "idle"

\* A request has read the row and found it right for what it will write.
Begin(r, next) ==
  /\ req[r].at = "idle"
  /\ req' = [req EXCEPT ![r] = next]
  /\ seen' = IF Resting THEN seen ELSE seen \cup {"overlap"}
  /\ UNCHANGED <<session, policy, overdue, uploads, record, consent>>

\* The write is done, projectRetainedRecord is next.
Project(r) == req' = [req EXCEPT ![r] = [Idle EXCEPT !.at = "projecting"]]

Participant(d) == d = Initiator \/ d = session.joiner

-----------------------------------------------------------------------------
(* createSession, joinSession *)

Create(r) ==
  /\ req[r].at = "idle"
  /\ session.state = "none"
  /\ session' = [session EXCEPT !.state = "AWAITING_JOIN"]
  /\ Project(r)
  /\ UNCHANGED <<policy, overdue, uploads, record, consent, seen>>

Deadline ==
  /\ session.state # "none"
  /\ overdue' = TRUE
  /\ UNCHANGED <<session, policy, uploads, record, req, consent, seen>>

Joinable ==
  /\ ~overdue
  /\ session.state = "AWAITING_JOIN"
  /\ session.joiner = NoDevice

Join(r, d) ==
  /\ Joinable
  /\ Begin(r, [Idle EXCEPT !.at = "joining", !.device = d])

JoinCommit(r) ==
  /\ req[r].at = "joining"
  /\ session' = [session EXCEPT !.joiner = req[r].device,
                                !.state = "AWAITING_CONFIRMATION"]
  /\ Project(r)
  /\ UNCHANGED <<policy, overdue, uploads, record, consent, seen>>

-----------------------------------------------------------------------------
(* confirmSession *)

\* Mutant: one confirmation is enough.
AnyConfirmed(d) == TRUE

\* The session as the confirmation of d will leave it, by the row just read.
BothConfirmed(d) ==
  IF d = Initiator THEN session.joinerOk ELSE session.initiatorOk

\* Mutant: the relay is tried whether it is allowed or not.
TransportOrRelay == IF policy.p2p THEN "P2P_ATTEMPT" ELSE "RELAY_ATTEMPT"

\* Mutant: the state's value where there is no transport.
TransportOrState ==
  IF policy.p2p THEN "P2P_ATTEMPT"
  ELSE IF policy.relay THEN "RELAY_ATTEMPT"
  ELSE "CONNECTING"

FirstTransport ==
  IF policy.p2p THEN "P2P_ATTEMPT"
  ELSE IF policy.relay THEN "RELAY_ATTEMPT"
  ELSE "none"

Confirm(r, d) ==
  /\ Participant(d)
  /\ session.state = "AWAITING_CONFIRMATION"
  /\ session.joiner # NoDevice
  /\ Begin(r, IF BothConfirmed(d)
              THEN [at |-> "confirming", device |-> d, state |-> "CONNECTING",
                    transport |-> FirstTransport]
              ELSE [at |-> "confirming", device |-> d,
                    state |-> "AWAITING_CONFIRMATION",
                    transport |-> session.transport])

ConfirmCommit(r) ==
  /\ req[r].at = "confirming"
  /\ session' = [session EXCEPT
                   !.initiatorOk = @ \/ req[r].device = Initiator,
                   !.joinerOk = @ \/ req[r].device # Initiator,
                   !.state = req[r].state,
                   !.transport = req[r].transport]
  /\ consent' = consent \cup {req[r].device}
  /\ Project(r)
  /\ UNCHANGED <<policy, overdue, uploads, record, seen>>

-----------------------------------------------------------------------------
(* updateTransport *)

\* Mutant: assertTransportMutable is forgotten.
AnyTime == session.state # "none"

TransportMutable ==
  /\ session.state \in Live
  /\ session.initiatorOk
  /\ session.joinerOk

TransportPermitted(t) ==
  /\ t \in P2P => policy.p2p
  /\ t \in Relay => policy.relay
  /\ t \in Relay /\ session.transport = "P2P_ATTEMPT" => policy.fallback
  /\ t = "RELAY_ACTIVE" => session.transport = "RELAY_ATTEMPT"
  /\ t = "P2P_ACTIVE" => session.transport = "P2P_ATTEMPT"

Connect(r, d, t) ==
  /\ Participant(d)
  /\ TransportMutable
  /\ TransportPermitted(t)
  /\ Begin(r, [at |-> "connecting", device |-> d, transport |-> t,
               state |-> IF t \in {"P2P_ACTIVE", "RELAY_ACTIVE"} THEN "ACTIVE"
                                                                ELSE "CONNECTING"])

ConnectCommit(r) ==
  /\ req[r].at = "connecting"
  /\ session' = [session EXCEPT !.state = req[r].state, !.transport = req[r].transport]
  /\ Project(r)
  /\ UNCHANGED <<policy, overdue, uploads, record, consent, seen>>

-----------------------------------------------------------------------------
(* completeSession, failSession, confirmSession with confirmed = false *)

\* A participant may end the session in any state, one that has ended included.
End(r, d, outcome) ==
  /\ session.state # "none"
  /\ Participant(d)
  /\ Begin(r, [Idle EXCEPT !.at = "ending", !.device = d, !.state = outcome])

EndCommit(r) ==
  /\ req[r].at = "ending"
  /\ session' = [session EXCEPT !.state = req[r].state]
  /\ Project(r)
  /\ UNCHANGED <<policy, overdue, uploads, record, consent, seen>>

-----------------------------------------------------------------------------
(* beginStoredFallback *)

\* With a fallback already there, its upload session is returned.
NeedsFallback ==
  /\ session.state \in {"FAILED", "CANCELLED"}
  /\ ~session.fallback

Fallback(r, d) ==
  /\ Participant(d)
  /\ policy.stored
  /\ NeedsFallback
  /\ uploads < MaxUploads
  /\ Begin(r, [Idle EXCEPT !.at = "preparing", !.device = d])

FallbackPrepare(r) ==
  /\ req[r].at = "preparing"
  /\ uploads' = uploads + 1
  /\ req' = [req EXCEPT ![r].at = "linking"]
  /\ UNCHANGED <<session, policy, overdue, record, consent, seen>>

FallbackCommit(r) ==
  /\ req[r].at = "linking"
  /\ session' = [session EXCEPT !.fallback = TRUE]
  /\ req' = [req EXCEPT ![r] = Idle]
  /\ UNCHANGED <<policy, overdue, uploads, record, consent, seen>>

-----------------------------------------------------------------------------
(* projectRetainedRecord: the rows of the two owners take the same values,  *)
(* and stand as one.                                                        *)

ProjectRead(r) ==
  /\ req[r].at = "projecting"
  /\ req' = [req EXCEPT ![r] =
       IF policy.retain THEN [Idle EXCEPT !.at = "recording", !.state = session.state]
                        ELSE Idle]
  /\ UNCHANGED <<session, policy, overdue, uploads, record, consent, seen>>

Record(r) ==
  /\ req[r].at = "recording"
  /\ record' = req[r].state
  /\ req' = [req EXCEPT ![r] = Idle]
  /\ UNCHANGED <<session, policy, overdue, uploads, consent, seen>>

-----------------------------------------------------------------------------
\* The server process ends, or a statement fails, between two steps.
LoseRequest(r) ==
  /\ req[r].at # "idle"
  /\ req' = [req EXCEPT ![r] = Idle]
  /\ seen' = seen \cup {"lost"}
  /\ UNCHANGED <<session, policy, overdue, uploads, record, consent>>

Arrive(r) ==
  \/ Create(r)
  \/ \E d \in Device :
       \/ Join(r, d)
       \/ Confirm(r, d)
       \/ \E t \in P2P \cup Relay : Connect(r, d, t)
       \/ \E outcome \in Terminal : End(r, d, outcome)
       \/ Fallback(r, d)

Proceed(r) ==
  \/ JoinCommit(r)
  \/ ConfirmCommit(r)
  \/ ConnectCommit(r)
  \/ EndCommit(r)
  \/ FallbackPrepare(r)
  \/ FallbackCommit(r)
  \/ ProjectRead(r)
  \/ Record(r)
  \/ LoseRequest(r)

Next == Deadline \/ \E r \in Req : Arrive(r) \/ Proceed(r)

Spec == Init /\ [][Next]_vars

-----------------------------------------------------------------------------
(* Properties *)

\* Whatever confirmations, joins and ends overlap, a session connects only when
\* somebody has joined it and both confirmations are recorded.
BothSidesConfirmed ==
  session.state \in Live =>
    session.joiner # NoDevice /\ session.initiatorOk /\ session.joinerOk

\* Whatever requests overlap, the transport is one that the policy of the session
\* allows.
TransportAllowed ==
  /\ session.transport \in P2P => policy.p2p
  /\ session.transport \in Relay => policy.relay

\* Without overlapping requests, a session that has ended does not come back.
EndedStaysEnded ==
  [][session.state \in Terminal /\ "overlap" \notin seen
       => session'.state \in Terminal]_vars

\* 'Live-transfer requires both-side confirmation': the device at the other end of
\* a connected session has confirmed it.
JoinerConsented == session.state \in Live => session.joiner \in consent
=============================================================================

---------------------------- MODULE DeviceTrust ----------------------------
(***************************************************************************)
(* How the devices of one user become trusted (TrustService, and the       *)
(* removal of trust in MaintenanceService): bootstrap of the first device, *)
(* pairing by approval of a trusted one, recovery by code, and the         *)
(* challenges by which a trusted browser shows that it still has its key.  *)
(*                                                                         *)
(* Handlers read, check and write by id; only the bootstrap, through the   *)
(* unique user of a recovery set, and the resume, through its guarded      *)
(* update, look again when they write.  Left out are key material, the     *)
(* display of new codes, and whether the user is approved and enabled,     *)
(* which the approval, rejection and finalization of a pairing do not ask. *)
(***************************************************************************)
EXTENDS Naturals

CONSTANTS
  Device,    \* rows of TrustedDevice, each inserted at most once
  NoDevice,
  Req,       \* concurrent requests
  MaxCodes   \* recoveries are begun only up to this set of codes (bound)

ASSUME TrustAssumption ==
  /\ NoDevice \notin Device
  /\ MaxCodes \in Nat

VARIABLES
  trust,      \* trustState of each device
  pairing,    \* the PairingSession that each device has requested
  overdue,    \* devices whose pairing session has expired
  recovered,  \* devices with recoveryRequestedAt
  codes,      \* which set of recovery codes is stored, 0 when there is none
  challenge,  \* one TrustedDeviceResumeChallenge
  req,        \* requests: where each stands and what it has read
  warrant,    \* history: devices that a bootstrap, an approval or a code stands for
  boots,      \* history: bootstraps that succeeded
  spent,      \* history: sets of codes with which a recovery succeeded
  twice,      \* history: those with which a second one did
  resumes,    \* history: resumes that succeeded with the challenge
  seen        \* history: the irregularities so far

rows == <<trust, pairing, overdue, recovered, codes, challenge>>

history == <<warrant, boots, spent, twice, resumes>>

vars == <<rows, req, history, seen>>

-----------------------------------------------------------------------------
TrustStates == {"none", "UNTRUSTED", "TRUSTED"}

PairingStates ==
  {"none", "AWAITING_PAIR", "AWAITING_APPROVAL", "TRUSTED", "REJECTED", "EXPIRED"}

Challenge == [state : {"none", "open", "consumed", "lapsed"},
              device : Device \cup {NoDevice}]

(***************************************************************************)
(* Where a request stands.  It has read and checked; the write comes next. *)
(* device is the one it will write, codes the set that a code matched.     *)
(***************************************************************************)
Places ==
  {"idle", "bootstrapping", "approving", "rejecting", "finalizing", "expiring",
   "removing", "redeeming", "acknowledging", "resuming"}

Request == [at : Places, device : Device \cup {NoDevice}, codes : Nat]

Idle == [at |-> "idle", device |-> NoDevice, codes |-> 0]

\* overlap: a request began while another one was under way.
Irregularity == {"overlap"}

TypeOK ==
  /\ trust \in [Device -> TrustStates]
  /\ pairing \in [Device -> PairingStates]
  /\ overdue \subseteq Device
  /\ recovered \subseteq Device
  /\ codes \in Nat
  /\ challenge \in Challenge
  /\ req \in [Req -> Request]
  /\ warrant \subseteq Device
  /\ boots \in Nat
  /\ spent \subseteq Nat
  /\ twice \subseteq Nat
  /\ resumes \in Nat
  /\ seen \subseteq Irregularity

Init ==
  /\ trust = [d \in Device |-> "none"]
  /\ pairing = [d \in Device |-> "none"]
  /\ overdue = {}
  /\ recovered = {}
  /\ codes = 0
  /\ challenge = [state |-> "none", device |-> NoDevice]
  /\ req = [r \in Req |-> Idle]
  /\ warrant = {}
  /\ boots = 0
  /\ spent = {}
  /\ twice = {}
  /\ resumes = 0
  /\ seen = {}

-----------------------------------------------------------------------------
Resting == \A r \in Req : req[r].at = "idle"

Begin(r, next) ==
  /\ req[r].at = "idle"
  /\ req' = [req EXCEPT ![r] = next]
  /\ seen' = IF Resting THEN seen ELSE seen \cup {"overlap"}
  /\ UNCHANGED <<rows, history>>

On(place, d) == [Idle EXCEPT !.at = place, !.device = d]

\* The request is over.
Rest(r) ==
  /\ req' = [req EXCEPT ![r] = Idle]
  /\ UNCHANGED seen

Fresh(d) == trust[d] = "none"

SetTrust(d, state) == trust' = [trust EXCEPT ![d] = state]

\* Mutant: a new session takes the state of its device.
SetPairingUntrusted(d, state) ==
  pairing' = [pairing EXCEPT ![d] = IF trust[d] = "none" THEN "UNTRUSTED" ELSE state]

SetPairing(d, state) == pairing' = [pairing EXCEPT ![d] = state]

-----------------------------------------------------------------------------
(* bootstrapFirstDevice *)

BootstrapRead(r) ==
  /\ \A d \in Device : trust[d] # "TRUSTED"
  /\ Begin(r, [Idle EXCEPT !.at = "bootstrapping"])

\* Mutant: nothing keeps a user from a second recovery set.
NoRecoverySetNeeded == TRUE

\* RecoveryCredentialSet.userId is unique, and the insert of a second one takes
\* the transaction back.
NoRecoverySet == codes = 0

BootstrapCommit(r, d) ==
  /\ req[r].at = "bootstrapping"
  /\ Fresh(d)
  /\ NoRecoverySet
  /\ SetTrust(d, "TRUSTED")
  /\ codes' = codes + 1
  /\ warrant' = warrant \cup {d}
  /\ boots' = boots + 1
  /\ Rest(r)
  /\ UNCHANGED <<pairing, overdue, recovered, challenge, spent, twice, resumes>>

-----------------------------------------------------------------------------
(* createPairingSession, getPairingSession *)

\* The device's row is nobody's before its pairing session is there.
CreatePairingSession(d) ==
  /\ Fresh(d)
  /\ SetTrust(d, "UNTRUSTED")
  /\ SetPairing(d, "AWAITING_PAIR")
  /\ UNCHANGED <<overdue, recovered, codes, challenge, req, history, seen>>

PairingDeadline(d) ==
  /\ pairing[d] # "none"
  /\ d \notin overdue
  /\ overdue' = overdue \cup {d}
  /\ UNCHANGED <<trust, pairing, recovered, codes, challenge, req, history, seen>>

\* Mutant: the deadline is not looked at.
InTimeAlways(d) == TRUE

\* Otherwise the session is marked EXPIRED, and the handler refuses.
InTime(d) == d \notin overdue \/ pairing[d] = "TRUSTED"

NoticeOverdue(r, d) ==
  /\ pairing[d] # "none"
  /\ ~InTime(d)
  /\ Begin(r, On("expiring", d))

ExpireCommit(r) ==
  /\ req[r].at = "expiring"
  /\ SetPairing(req[r].device, "EXPIRED")
  /\ Rest(r)
  /\ UNCHANGED <<trust, overdue, recovered, codes, challenge, history>>

-----------------------------------------------------------------------------
(* approvePairing, rejectPairing, finalizePairing *)

\* Mutant: a session that is not TRUSTED can be approved.
AwaitsAnything(d) == pairing[d] # "none" /\ pairing[d] # "TRUSTED"

AwaitsPair(d) == pairing[d] = "AWAITING_PAIR"

\* The device of the request is looked up before the session; a device removed in
\* between is one removed before the write.
Approve(r, approver, d) ==
  /\ trust[approver] = "TRUSTED"
  /\ InTime(d)
  /\ AwaitsPair(d)
  /\ Begin(r, On("approving", d))

ApproveCommit(r) ==
  /\ req[r].at = "approving"
  /\ SetPairing(req[r].device, "AWAITING_APPROVAL")
  /\ warrant' = warrant \cup {req[r].device}
  /\ Rest(r)
  /\ UNCHANGED <<trust, overdue, recovered, codes, challenge, boots, spent, twice,
                 resumes>>

Reject(r, approver, d) ==
  /\ trust[approver] = "TRUSTED"
  /\ InTime(d)
  /\ AwaitsPair(d)
  /\ Begin(r, On("rejecting", d))

RejectCommit(r) ==
  /\ req[r].at = "rejecting"
  /\ SetPairing(req[r].device, "REJECTED")
  /\ Rest(r)
  /\ UNCHANGED <<trust, overdue, recovered, codes, challenge, history>>

\* Mutant: finalized before it is approved.
AwaitsSomeone(d) == pairing[d] \in {"AWAITING_PAIR", "AWAITING_APPROVAL"}

\* approvalPackage is written with the approval and never taken back.
Approved(d) == pairing[d] = "AWAITING_APPROVAL"

Finalize(r, d) ==
  /\ InTime(d)
  /\ Approved(d)
  /\ Begin(r, On("finalizing", d))

FinalizeCommit(r) ==
  /\ req[r].at = "finalizing"
  /\ SetTrust(req[r].device, "TRUSTED")
  /\ SetPairing(req[r].device, "TRUSTED")
  /\ Rest(r)
  /\ UNCHANGED <<overdue, recovered, codes, challenge, history>>

-----------------------------------------------------------------------------
(* removeTrustedAccess *)

Remove(r, d) ==
  /\ trust[d] = "TRUSTED"
  /\ Begin(r, On("removing", d))

RemoveCommit(r) ==
  /\ req[r].at = "removing"
  /\ SetTrust(req[r].device, "UNTRUSTED")
  /\ Rest(r)
  /\ UNCHANGED <<pairing, overdue, recovered, codes, challenge, history>>

-----------------------------------------------------------------------------
(* recoveryAttempt, acknowledgeRecoveryRotation *)

\* The code given matches one of the stored set.
Recover(r) ==
  /\ codes # 0
  /\ codes <= MaxCodes
  /\ Begin(r, [Idle EXCEPT !.at = "redeeming", !.codes = codes])

\* Mutant: the codes are not replaced.
SameCodes == codes' = codes

NewCodes == codes' = codes + 1

\* With a new user domain key, an overlapping recovery may be taken back for the
\* version of its key: it is a request that is lost.
RecoverCommit(r, d) ==
  /\ req[r].at = "redeeming"
  /\ Fresh(d)
  /\ SetTrust(d, "UNTRUSTED")
  /\ recovered' = recovered \cup {d}
  /\ NewCodes
  /\ warrant' = warrant \cup {d}
  /\ spent' = spent \cup {req[r].codes}
  /\ twice' = IF req[r].codes \in spent THEN twice \cup {req[r].codes} ELSE twice
  /\ Rest(r)
  /\ UNCHANGED <<pairing, overdue, challenge, boots, resumes>>

\* For a device without a recovery, only the display of the codes is cleared.
Acknowledge(r, d) ==
  /\ d \in recovered
  /\ Begin(r, On("acknowledging", d))

AcknowledgeCommit(r) ==
  /\ req[r].at = "acknowledging"
  /\ SetTrust(req[r].device, "TRUSTED")
  /\ Rest(r)
  /\ UNCHANGED <<pairing, overdue, recovered, codes, challenge, history>>

-----------------------------------------------------------------------------
(* createTrustedDeviceResumeChallenge, completeTrustedDeviceResume *)

CreateChallenge(d) ==
  /\ challenge.state = "none"
  /\ trust[d] = "TRUSTED"
  /\ challenge' = [state |-> "open", device |-> d]
  /\ UNCHANGED <<trust, pairing, overdue, recovered, codes, req, history, seen>>

ChallengeDeadline ==
  /\ challenge.state = "open"
  /\ challenge' = [challenge EXCEPT !.state = "lapsed"]
  /\ UNCHANGED <<trust, pairing, overdue, recovered, codes, req, history, seen>>

Resume(r) ==
  /\ challenge.state = "open"
  /\ trust[challenge.device] = "TRUSTED"
  /\ Begin(r, On("resuming", challenge.device))

\* Mutant: the challenge found open is consumed without looking again.
FoundOpen == challenge.state # "none"

StillOpen == challenge.state = "open"

ResumeCommit(r) ==
  /\ req[r].at = "resuming"
  /\ StillOpen
  /\ challenge' = [challenge EXCEPT !.state = "consumed"]
  /\ resumes' = resumes + 1
  /\ Rest(r)
  /\ UNCHANGED <<trust, pairing, overdue, recovered, codes, warrant, boots, spent, twice>>

-----------------------------------------------------------------------------
\* A statement fails, the answer to a guarded one is no, or the server stops.
LoseRequest(r) ==
  /\ req[r].at # "idle"
  /\ Rest(r)
  /\ UNCHANGED <<rows, history>>

Arrive(r) ==
  \/ BootstrapRead(r)
  \/ Recover(r)
  \/ Resume(r)
  \/ \E d \in Device :
       \/ NoticeOverdue(r, d)
       \/ \E approver \in Device : Approve(r, approver, d) \/ Reject(r, approver, d)
       \/ Finalize(r, d)
       \/ Remove(r, d)
       \/ Acknowledge(r, d)

Proceed(r) ==
  \/ \E d \in Device : BootstrapCommit(r, d) \/ RecoverCommit(r, d)
  \/ ExpireCommit(r)
  \/ ApproveCommit(r)
  \/ RejectCommit(r)
  \/ FinalizeCommit(r)
  \/ RemoveCommit(r)
  \/ AcknowledgeCommit(r)
  \/ ResumeCommit(r)
  \/ LoseRequest(r)

Next ==
  \/ ChallengeDeadline
  \/ \E d \in Device : CreatePairingSession(d) \/ PairingDeadline(d) \/ CreateChallenge(d)
  \/ \E r \in Req : Arrive(r) \/ Proceed(r)

Spec == Init /\ [][Next]_vars

-----------------------------------------------------------------------------
(* Properties *)

\* However requests overlap, a device is trusted only when a first-device bootstrap,
\* the approval of a trusted device or a recovery code stands behind it.
TrustHasWarrant == \A d \in Device : trust[d] = "TRUSTED" => d \in warrant

\* However bootstraps overlap with each other and with the removal of trust, a user
\* has one first-device bootstrap, ever.
BootstrappedOnce == boots <= 1

\* However its answers overlap, a resume challenge is good for one resume.
ResumedOnce == resumes <= 1

\* Without overlapping requests, one set of recovery codes brings back one device.
CodesSpentOnce == "overlap" \notin seen => twice = {}

\* Without overlapping requests, a pairing that was rejected or has expired leads
\* nowhere.
ClosedPairingStaysClosed ==
  [][\A d \in Device :
       pairing[d] \in {"REJECTED", "EXPIRED"} /\ "overlap" \notin seen
         => pairing'[d] \in {"REJECTED", "EXPIRED"}]_vars

\* No request that found the pairing of d in time is under way.
PairingDrained(d) ==
  /\ d \in overdue
  /\ pairing[d] # "TRUSTED"
  /\ \A r \in Req : req[r].device = d =>
       req[r].at \notin {"approving", "rejecting", "finalizing"}

\* Past its deadline, and once the requests that found it in time have run out, a
\* pairing session is never approved or finalized, however late the row is marked.
OverduePairingDrains ==
  [][\A d \in Device : PairingDrained(d) =>
       PairingDrained(d)' /\ pairing'[d] \in {pairing[d], "EXPIRED"}]_vars
=============================================================================

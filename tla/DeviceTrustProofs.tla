------------------------- MODULE DeviceTrustProofs -------------------------
(***************************************************************************)
(* Proofs about DeviceTrust for any devices and any overlapping requests.  *)
(***************************************************************************)
EXTENDS DeviceTrust, TLAPS

(***************************************************************************)
(* The inductive invariant.  What stands behind a device is recorded before *)
(* anything can make it trusted: with the approval in the pairing session, *)
(* with the request for recovery, and in the requests that have read them. *)
(***************************************************************************)
Promise(r) ==
  /\ req[r].at \notin {"idle", "bootstrapping", "redeeming"} => req[r].device \in Device
  /\ req[r].at \in {"finalizing", "acknowledging"} => req[r].device \in warrant

Grounds ==
  /\ TrustHasWarrant
  /\ \A d \in Device : pairing[d] = "AWAITING_APPROVAL" => d \in warrant
  /\ recovered \subseteq warrant

\* What was used up stays used up.
UsedUp ==
  /\ boots <= 1
  /\ codes = 0 => boots = 0
  /\ resumes <= 1
  /\ challenge.state # "consumed" => resumes = 0
  /\ challenge.state \notin {"none"} => challenge.device \in Device

Sound ==
  /\ TypeOK
  /\ Grounds
  /\ UsedUp
  /\ \A r \in Req : Promise(r)

LEMMA IdleType == Idle \in Request /\ Idle.at = "idle"
  BY DEF Idle, Request, Places

LEMMA OnType ==
  ASSUME NEW place \in Places, NEW d \in Device
  PROVE  /\ On(place, d) \in Request
         /\ On(place, d).at = place
         /\ On(place, d).device = d
  BY DEF On, Idle, Request

LEMMA InitSound == Init => Sound
<1> SUFFICES ASSUME Init PROVE Sound
  OBVIOUS
<1>1. TypeOK
  BY IdleType DEF Init, TypeOK, TrustStates, PairingStates, Challenge
<1>2. Grounds
  BY DEF Init, Grounds, TrustHasWarrant
<1>3. UsedUp
  BY DEF Init, UsedUp
<1>4. \A r \in Req : Promise(r)
  BY IdleType DEF Init, Promise
<1> QED
  BY <1>1, <1>2, <1>3, <1>4 DEF Sound

\* A request that begins has read what it promises, and writes no row.
LEMMA BeginKeeps ==
  ASSUME Sound, NEW r \in Req, NEW n \in Request, Begin(r, n),
         n.at \notin {"idle", "bootstrapping", "redeeming"} => n.device \in Device,
         n.at \in {"finalizing", "acknowledging"} => n.device \in warrant
  PROVE  Sound'
<1>1. req' \in [Req -> Request] /\ seen' \subseteq Irregularity
  BY DEF Begin, Sound, TypeOK, Irregularity
<1>2. \A q \in Req : Promise(q)'
  BY DEF Begin, Sound, TypeOK, Promise, history
<1>3. UNCHANGED <<rows, history>>
  BY DEF Begin
<1>4. TypeOK'
  BY <1>1, <1>3 DEF Sound, TypeOK, rows, history
<1>5. Grounds' /\ UsedUp'
  BY <1>3 DEF Sound, Grounds, TrustHasWarrant, UsedUp, rows, history
<1> QED
  BY <1>2, <1>4, <1>5 DEF Sound

\* A request that rests promises nothing more; the others keep their promises when
\* no warrant is taken back.
LEMMA RestKeeps ==
  ASSUME Sound, NEW r \in Req, Rest(r), warrant \subseteq warrant'
  PROVE  /\ req' \in [Req -> Request]
         /\ seen' \subseteq Irregularity
         /\ \A q \in Req : Promise(q)'
  BY IdleType DEF Rest, Sound, TypeOK, Promise

\* Trust and pairing written for one device.
LEMMA TrustType ==
  ASSUME Sound, NEW d \in Device, NEW state \in TrustStates, SetTrust(d, state)
  PROVE  /\ trust' \in [Device -> TrustStates]
         /\ trust'[d] = state
         /\ \A e \in Device \ {d} : trust'[e] = trust[e]
  BY DEF Sound, TypeOK, SetTrust

LEMMA PairingType ==
  ASSUME Sound, NEW d \in Device, NEW state \in PairingStates, SetPairing(d, state)
  PROVE  /\ pairing' \in [Device -> PairingStates]
         /\ pairing'[d] = state
         /\ \A e \in Device \ {d} : pairing'[e] = pairing[e]
  BY DEF Sound, TypeOK, SetPairing

-----------------------------------------------------------------------------
LEMMA ArriveKeeps ==
  ASSUME Sound, NEW r \in Req, Arrive(r)
  PROVE  Sound'
<1>1. CASE BootstrapRead(r)
  <2>1. PICK n : n = [Idle EXCEPT !.at = "bootstrapping"]
    OBVIOUS
  <2>2. n \in Request /\ n.at = "bootstrapping"
    BY <2>1 DEF Idle, Request, Places
  <2> QED
    BY <1>1, <2>1, <2>2, BeginKeeps DEF BootstrapRead
<1>2. CASE Recover(r)
  <2>1. PICK n : n = [Idle EXCEPT !.at = "redeeming", !.codes = codes]
    OBVIOUS
  <2>2. n \in Request /\ n.at = "redeeming"
    BY <2>1 DEF Idle, Request, Places, Sound, TypeOK
  <2> QED
    BY <1>2, <2>1, <2>2, BeginKeeps DEF Recover
<1>3. CASE Resume(r)
  <2>1. challenge.device \in Device
    BY <1>3 DEF Resume, Sound, UsedUp
  <2>2. "resuming" \in Places
    BY DEF Places
  <2> QED
    BY <1>3, <2>1, <2>2, OnType, BeginKeeps DEF Resume
<1>4. ASSUME NEW d \in Device, NEW place \in Places, Begin(r, On(place, d)),
             place \in {"finalizing", "acknowledging"} => d \in warrant
      PROVE  Sound'
  BY <1>4, OnType, BeginKeeps
<1>5. ASSUME NEW d \in Device,
             \/ NoticeOverdue(r, d)
             \/ \E approver \in Device : Approve(r, approver, d) \/ Reject(r, approver, d)
             \/ Remove(r, d)
      PROVE  Sound'
  BY <1>4, <1>5 DEF NoticeOverdue, Approve, Reject, Remove, Places
<1>6. ASSUME NEW d \in Device, Finalize(r, d) \/ Acknowledge(r, d)
      PROVE  Sound'
  <2>1. d \in warrant
    BY <1>6 DEF Finalize, Approved, Acknowledge, Sound, Grounds
  <2> QED
    BY <1>4, <1>6, <2>1 DEF Finalize, Acknowledge, Places
<1> QED
  BY <1>1, <1>2, <1>3, <1>5, <1>6 DEF Arrive

-----------------------------------------------------------------------------
LEMMA CreateKeeps ==
  ASSUME Sound, NEW d \in Device,
         CreatePairingSession(d) \/ PairingDeadline(d) \/ CreateChallenge(d)
           \/ ChallengeDeadline
  PROVE  Sound'
<1>1. CASE CreatePairingSession(d)
  <2>1. "UNTRUSTED" \in TrustStates /\ "AWAITING_PAIR" \in PairingStates
    BY DEF TrustStates, PairingStates
  <2>2. TypeOK'
    BY <1>1, <2>1, TrustType, PairingType DEF CreatePairingSession, Sound, TypeOK, history
  <2>3. Grounds'
    BY <1>1, <2>1, TrustType, PairingType
       DEF CreatePairingSession, Sound, Grounds, TrustHasWarrant, history
  <2> QED
    BY <1>1, <2>2, <2>3 DEF CreatePairingSession, Sound, UsedUp, Promise, history
<1>2. CASE PairingDeadline(d)
  BY <1>2 DEF PairingDeadline, Sound, TypeOK, Grounds, TrustHasWarrant, UsedUp, Promise,
     history
<1>3. ASSUME challenge' \in Challenge, challenge'.state \in {"open", "lapsed"},
             challenge'.device \in Device, challenge.state # "consumed",
             UNCHANGED <<trust, pairing, overdue, recovered, codes, req, history, seen>>
      PROVE  Sound'
  BY <1>3 DEF Sound, TypeOK, Grounds, TrustHasWarrant, UsedUp, Promise, history
<1>4. CASE CreateChallenge(d)
  <2>1. challenge' \in Challenge
    BY <1>4 DEF CreateChallenge, Challenge
  <2> QED
    BY <1>3, <1>4, <2>1 DEF CreateChallenge
<1>5. CASE ChallengeDeadline
  <2>1. challenge' \in Challenge /\ challenge'.state = "lapsed"
        /\ challenge'.device = challenge.device
    BY <1>5 DEF ChallengeDeadline, Challenge, Sound, TypeOK
  <2> QED
    BY <1>3, <1>5, <2>1 DEF ChallengeDeadline, Sound, UsedUp
<1> QED
  BY <1>1, <1>2, <1>4, <1>5

\* A new device with its own warrant, and a new set of codes.
LEMMA EnrolKeeps ==
  ASSUME Sound, NEW r \in Req, NEW d \in Device,
         BootstrapCommit(r, d) \/ RecoverCommit(r, d)
  PROVE  Sound'
<1>1. PICK state \in {"TRUSTED", "UNTRUSTED"} : SetTrust(d, state)
  BY DEF BootstrapCommit, RecoverCommit
<1>2. /\ trust' \in [Device -> TrustStates]
      /\ \A e \in Device \ {d} : trust'[e] = trust[e]
  BY <1>1, TrustType DEF TrustStates
<1>3. codes' = codes + 1 /\ warrant' = warrant \cup {d} /\ Rest(r)
  BY DEF BootstrapCommit, RecoverCommit, NewCodes
<1>4. /\ req' \in [Req -> Request]
      /\ seen' \subseteq Irregularity
      /\ \A q \in Req : Promise(q)'
  BY <1>3, RestKeeps
<1>5. CASE BootstrapCommit(r, d)
  <2>1. codes = 0 /\ boots' = boots + 1
        /\ UNCHANGED <<pairing, overdue, recovered, challenge, spent, twice, resumes>>
    BY <1>5 DEF BootstrapCommit, NoRecoverySet
  <2>2. TypeOK'
    BY <1>2, <1>3, <1>4, <2>1 DEF Sound, TypeOK
  <2>3. Grounds'
    BY <1>2, <1>3, <2>1 DEF Sound, Grounds, TrustHasWarrant
  <2>4. UsedUp'
    BY <1>3, <2>1 DEF Sound, TypeOK, UsedUp
  <2> QED
    BY <1>4, <2>2, <2>3, <2>4 DEF Sound
<1>6. CASE RecoverCommit(r, d)
  <2>1. recovered' = recovered \cup {d}
        /\ UNCHANGED <<pairing, overdue, challenge, boots, resumes>>
    BY <1>6 DEF RecoverCommit
  <2>2. spent' \subseteq Nat /\ twice' \subseteq Nat
    BY <1>6 DEF RecoverCommit, Sound, TypeOK, Request
  <2>3. TypeOK'
    BY <1>2, <1>3, <1>4, <2>1, <2>2 DEF Sound, TypeOK
  <2>4. Grounds'
    BY <1>2, <1>3, <2>1 DEF Sound, Grounds, TrustHasWarrant
  <2>5. UsedUp'
    BY <1>3, <2>1 DEF Sound, TypeOK, UsedUp
  <2> QED
    BY <1>4, <2>3, <2>4, <2>5 DEF Sound
<1> QED
  BY <1>5, <1>6

\* The writes to a pairing session.
LEMMA PairingKeeps ==
  ASSUME Sound, NEW r \in Req,
         ExpireCommit(r) \/ ApproveCommit(r) \/ RejectCommit(r) \/ FinalizeCommit(r)
  PROVE  Sound'
<1> DEFINE d == req[r].device
<1>1. /\ d \in Device
      /\ FinalizeCommit(r) => d \in warrant
      /\ warrant \subseteq warrant'
      /\ Rest(r)
  BY DEF Sound, Promise, ExpireCommit, ApproveCommit, RejectCommit, FinalizeCommit, history
<1>2. PICK state \in {"EXPIRED", "AWAITING_APPROVAL", "REJECTED", "TRUSTED"} :
        /\ SetPairing(d, state)
        /\ state = "AWAITING_APPROVAL" => d \in warrant'
  BY DEF ExpireCommit, ApproveCommit, RejectCommit, FinalizeCommit
<1> HIDE DEF d
<1>3. /\ pairing' \in [Device -> PairingStates]
      /\ pairing'[d] = state
      /\ \A e \in Device \ {d} : pairing'[e] = pairing[e]
  BY <1>1, <1>2, PairingType DEF PairingStates
<1>4. /\ req' \in [Req -> Request]
      /\ seen' \subseteq Irregularity
      /\ \A q \in Req : Promise(q)'
  BY <1>1, RestKeeps
<1>5. /\ trust' \in [Device -> TrustStates]
      /\ \A e \in Device : trust'[e] = "TRUSTED" => e \in warrant
  <2>1. CASE FinalizeCommit(r)
    <3>1. SetTrust(d, "TRUSTED") /\ "TRUSTED" \in TrustStates
      BY <2>1 DEF FinalizeCommit, TrustStates, d
    <3> QED
      BY <1>1, <2>1, <3>1, TrustType DEF Sound, Grounds, TrustHasWarrant
  <2>2. CASE ~FinalizeCommit(r)
    BY <2>2 DEF ExpireCommit, ApproveCommit, RejectCommit, Sound, TypeOK, Grounds,
       TrustHasWarrant
  <2> QED
    BY <2>1, <2>2
<1>6. /\ UNCHANGED <<overdue, recovered, codes, challenge, boots, spent, twice, resumes>>
      /\ warrant' \subseteq Device
  BY <1>1 DEF ExpireCommit, ApproveCommit, RejectCommit, FinalizeCommit, history, Sound,
     TypeOK, d
<1>7. TypeOK'
  BY <1>3, <1>4, <1>5, <1>6 DEF Sound, TypeOK
<1>8. Grounds'
  BY <1>1, <1>2, <1>3, <1>5, <1>6 DEF Sound, Grounds, TrustHasWarrant
<1>9. UsedUp'
  BY <1>6 DEF Sound, UsedUp
<1> QED
  BY <1>4, <1>7, <1>8, <1>9 DEF Sound

\* The other writes, and the end of a request.
LEMMA SettleKeeps ==
  ASSUME Sound, NEW r \in Req,
         \/ RemoveCommit(r) \/ AcknowledgeCommit(r) \/ ResumeCommit(r) \/ LoseRequest(r)
  PROVE  Sound'
<1>1. Rest(r) /\ UNCHANGED warrant
  BY DEF RemoveCommit, AcknowledgeCommit, ResumeCommit, LoseRequest, history
<1>2. /\ req' \in [Req -> Request]
      /\ seen' \subseteq Irregularity
      /\ \A q \in Req : Promise(q)'
  BY <1>1, RestKeeps
<1>3. CASE RemoveCommit(r) \/ AcknowledgeCommit(r)
  <2>1. PICK d \in Device, state \in {"TRUSTED", "UNTRUSTED"} :
          SetTrust(d, state) /\ (state = "TRUSTED" => d \in warrant)
    BY <1>3 DEF RemoveCommit, AcknowledgeCommit, Sound, Promise
  <2>2. /\ trust' \in [Device -> TrustStates]
        /\ \A e \in Device : trust'[e] = "TRUSTED" => e \in warrant
    BY <2>1, TrustType DEF TrustStates, Sound, Grounds, TrustHasWarrant
  <2>3. UNCHANGED <<pairing, overdue, recovered, codes, challenge, history>>
    BY <1>3 DEF RemoveCommit, AcknowledgeCommit
  <2> QED
    BY <1>2, <2>2, <2>3 DEF Sound, TypeOK, Grounds, TrustHasWarrant, UsedUp, history
<1>4. CASE ResumeCommit(r)
  <2>1. /\ challenge.state = "open"
        /\ resumes' = resumes + 1
        /\ UNCHANGED <<trust, pairing, overdue, recovered, codes, warrant, boots, spent,
                       twice>>
    BY <1>4 DEF ResumeCommit, StillOpen
  <2>2. /\ challenge' \in Challenge
        /\ challenge'.state = "consumed"
        /\ challenge'.device = challenge.device
    BY <1>4 DEF ResumeCommit, Challenge, Sound, TypeOK
  <2>3. TypeOK'
    BY <1>2, <2>1, <2>2 DEF Sound, TypeOK
  <2>4. Grounds' /\ UsedUp'
    BY <2>1, <2>2 DEF Sound, TypeOK, Grounds, TrustHasWarrant, UsedUp
  <2> QED
    BY <1>2, <2>3, <2>4 DEF Sound
<1>5. CASE LoseRequest(r)
  BY <1>2, <1>5 DEF LoseRequest, Sound, TypeOK, Grounds, TrustHasWarrant, UsedUp, rows,
     history
<1> QED
  BY <1>3, <1>4, <1>5

-----------------------------------------------------------------------------
LEMMA NextSound == Sound /\ [Next]_vars => Sound'
<1> SUFFICES ASSUME Sound, [Next]_vars PROVE Sound'
  OBVIOUS
<1>1. CASE ChallengeDeadline
  <2>1. challenge.device \in Device
    BY <1>1 DEF ChallengeDeadline, Sound, UsedUp
  <2> QED
    BY <1>1, <2>1, CreateKeeps
<1>2. ASSUME NEW d \in Device,
             CreatePairingSession(d) \/ PairingDeadline(d) \/ CreateChallenge(d)
      PROVE  Sound'
  BY <1>2, CreateKeeps
<1>3. ASSUME NEW r \in Req, Arrive(r) PROVE Sound'
  BY <1>3, ArriveKeeps
<1>4. ASSUME NEW r \in Req, Proceed(r) PROVE Sound'
  BY <1>4, EnrolKeeps, PairingKeeps, SettleKeeps DEF Proceed
<1>5. CASE UNCHANGED vars
  BY <1>5 DEF vars, rows, history, Sound, TypeOK, Grounds, TrustHasWarrant, UsedUp, Promise
<1> QED
  BY <1>1, <1>2, <1>3, <1>4, <1>5 DEF Next

LEMMA SoundHolds == Spec => []Sound
  BY InitSound, NextSound, PTL DEF Spec

\* Every reachable state of the handlers of TrustService is well typed.
THEOREM TrustTypeCorrect == Spec => []TypeOK
<1>1. Sound => TypeOK
  BY DEF Sound
<1> QED
  BY <1>1, SoundHolds, PTL

\* However requests overlap, what makes a device trusted is a bootstrap, an approval
\* (approvePairing) or a recovery code, whichever handler writes it.
THEOREM TrustIsEarned == Spec => []TrustHasWarrant
<1>1. Sound => TrustHasWarrant
  BY DEF Sound, Grounds
<1> QED
  BY <1>1, SoundHolds, PTL

\* bootstrapFirstDevice succeeds once in the life of a user.
THEOREM OneBootstrap == Spec => []BootstrappedOnce
<1>1. Sound => BootstrappedOnce
  BY DEF Sound, UsedUp, BootstrappedOnce
<1> QED
  BY <1>1, SoundHolds, PTL

\* completeTrustedDeviceResume succeeds once per challenge.
THEOREM OneResume == Spec => []ResumedOnce
<1>1. Sound => ResumedOnce
  BY DEF Sound, UsedUp, ResumedOnce
<1> QED
  BY <1>1, SoundHolds, PTL

-----------------------------------------------------------------------------
(***************************************************************************)
(* The deadline of a pairing session.  Its row is inserted once, with its  *)
(* device: a session past its deadline is not a new one again.             *)
(***************************************************************************)
Enrolled ==
  /\ \A d \in Device : pairing[d] # "none" \/ d \in overdue => ~Fresh(d)
  /\ \A r \in Req : req[r].at \in {"expiring", "approving", "rejecting", "finalizing"}
                      => ~Fresh(req[r].device)

LEMMA RowsStay ==
  ASSUME Sound, [Next]_vars, NEW d \in Device, ~Fresh(d)
  PROVE  ~Fresh(d)'
<1>1. ASSUME NEW e \in Device, NEW state \in {"TRUSTED", "UNTRUSTED"}, SetTrust(e, state)
      PROVE  ~Fresh(d)'
  BY <1>1, TrustType DEF Fresh, TrustStates
<1>2. CASE UNCHANGED trust
  BY <1>2 DEF Fresh
<1>3. ASSUME NEW r \in Req, Arrive(r) PROVE UNCHANGED trust
  BY <1>3 DEF Arrive, BootstrapRead, Recover, Resume, NoticeOverdue, Approve, Reject,
     Finalize, Remove, Acknowledge, Begin, rows
<1>4. ASSUME NEW r \in Req, Proceed(r) PROVE ~Fresh(d)'
  <2>1. ASSUME NEW e \in Device, BootstrapCommit(r, e) \/ RecoverCommit(r, e)
        PROVE  ~Fresh(d)'
    BY <1>1, <2>1 DEF BootstrapCommit, RecoverCommit
  <2>2. CASE FinalizeCommit(r) \/ RemoveCommit(r) \/ AcknowledgeCommit(r)
    <3>1. req[r].device \in Device
      BY <2>2 DEF FinalizeCommit, RemoveCommit, AcknowledgeCommit, Sound, Promise
    <3> QED
      BY <1>1, <2>2, <3>1 DEF FinalizeCommit, RemoveCommit, AcknowledgeCommit
  <2>3. CASE \/ ExpireCommit(r) \/ ApproveCommit(r) \/ RejectCommit(r)
             \/ ResumeCommit(r) \/ LoseRequest(r)
    BY <1>2, <2>3 DEF ExpireCommit, ApproveCommit, RejectCommit, ResumeCommit, LoseRequest,
       rows
  <2> QED
    BY <1>4, <2>1, <2>2, <2>3 DEF Proceed
<1>5. ASSUME NEW e \in Device,
             CreatePairingSession(e) \/ PairingDeadline(e) \/ CreateChallenge(e)
      PROVE  ~Fresh(d)'
  BY <1>1, <1>2, <1>5 DEF CreatePairingSession, PairingDeadline, CreateChallenge
<1>6. CASE ChallengeDeadline
  BY <1>2, <1>6 DEF ChallengeDeadline
<1>7. CASE UNCHANGED vars
  BY <1>2, <1>7 DEF vars, rows
<1> QED
  BY <1>2, <1>3, <1>4, <1>5, <1>6, <1>7 DEF Next

\* Which pairing sessions, deadlines and requests a step may touch.
LEMMA PairingStep ==
  ASSUME Sound, [Next]_vars
  PROVE  \/ UNCHANGED <<pairing, overdue, req>>
         \/ \E d \in Device : /\ CreatePairingSession(d) \/ PairingDeadline(d)
                              /\ UNCHANGED req
         \/ \E r \in Req :
              /\ \/ ExpireCommit(r) \/ ApproveCommit(r) \/ RejectCommit(r)
                 \/ FinalizeCommit(r)
              /\ UNCHANGED overdue
              /\ req' = [req EXCEPT ![r] = Idle]
         \/ \E r \in Req, d \in Device :
              /\ UNCHANGED <<pairing, overdue>>
              /\ req' = [req EXCEPT ![r] = On("expiring", d)]
              /\ pairing[d] # "none"
         \/ \E r \in Req, d \in Device, place \in {"approving", "rejecting", "finalizing"} :
              /\ UNCHANGED <<pairing, overdue>>
              /\ req' = [req EXCEPT ![r] = On(place, d)]
              /\ pairing[d] # "none" /\ InTime(d)
         \/ \E r \in Req, n \in Request :
              /\ UNCHANGED <<pairing, overdue>>
              /\ req' = [req EXCEPT ![r] = n]
              /\ n.at \notin {"expiring", "approving", "rejecting", "finalizing"}
<1>1. ASSUME NEW r \in Req, NEW n \in Request, req' = [req EXCEPT ![r] = n],
             n.at \notin {"expiring", "approving", "rejecting", "finalizing"},
             UNCHANGED <<pairing, overdue>>
      PROVE  \E q \in Req, m \in Request :
               /\ UNCHANGED <<pairing, overdue>>
               /\ req' = [req EXCEPT ![q] = m]
               /\ m.at \notin {"expiring", "approving", "rejecting", "finalizing"}
  BY <1>1
<1>2. CASE UNCHANGED vars
  BY <1>2 DEF vars, rows
<1>3. CASE ChallengeDeadline
  BY <1>3 DEF ChallengeDeadline
<1>4. ASSUME NEW d \in Device,
             CreatePairingSession(d) \/ PairingDeadline(d) \/ CreateChallenge(d)
      PROVE  \/ UNCHANGED <<pairing, overdue, req>>
             \/ /\ CreatePairingSession(d) \/ PairingDeadline(d)
                /\ UNCHANGED req
  BY <1>4 DEF CreatePairingSession, PairingDeadline, CreateChallenge
<1>5. ASSUME NEW r \in Req, NEW d \in Device,
             \/ BootstrapCommit(r, d) \/ RecoverCommit(r, d)
             \/ RemoveCommit(r) \/ AcknowledgeCommit(r) \/ ResumeCommit(r) \/ LoseRequest(r)
      PROVE  /\ req' = [req EXCEPT ![r] = Idle]
             /\ UNCHANGED <<pairing, overdue>>
  BY <1>5 DEF BootstrapCommit, RecoverCommit, RemoveCommit, AcknowledgeCommit, ResumeCommit,
     LoseRequest, Rest, rows
<1>6. ASSUME NEW r \in Req,
             ExpireCommit(r) \/ ApproveCommit(r) \/ RejectCommit(r) \/ FinalizeCommit(r)
      PROVE  UNCHANGED overdue /\ req' = [req EXCEPT ![r] = Idle]
  BY <1>6 DEF ExpireCommit, ApproveCommit, RejectCommit, FinalizeCommit, Rest
<1>7. ASSUME NEW r \in Req, BootstrapRead(r) \/ Recover(r) \/ Resume(r)
      PROVE  \E n \in Request :
               /\ UNCHANGED <<pairing, overdue>>
               /\ req' = [req EXCEPT ![r] = n]
               /\ n.at \notin {"expiring", "approving", "rejecting", "finalizing"}
  <2>1. CASE BootstrapRead(r)
    <3>1. PICK n : n = [Idle EXCEPT !.at = "bootstrapping"]
      OBVIOUS
    <3>2. n \in Request /\ n.at = "bootstrapping"
      BY <3>1 DEF Idle, Request, Places
    <3> QED
      BY <2>1, <3>1, <3>2 DEF BootstrapRead, Begin, rows
  <2>2. CASE Recover(r)
    <3>1. PICK n : n = [Idle EXCEPT !.at = "redeeming", !.codes = codes]
      OBVIOUS
    <3>2. n \in Request /\ n.at = "redeeming"
      BY <3>1 DEF Idle, Request, Places, Sound, TypeOK
    <3> QED
      BY <2>2, <3>1, <3>2 DEF Recover, Begin, rows
  <2>3. CASE Resume(r)
    <3>1. challenge.device \in Device /\ "resuming" \in Places
      BY <2>3 DEF Resume, Sound, UsedUp, Places
    <3>2. PICK n : n = On("resuming", challenge.device)
      OBVIOUS
    <3>3. n \in Request /\ n.at = "resuming"
      BY <3>1, <3>2, OnType
    <3> QED
      BY <2>3, <3>2, <3>3 DEF Resume, Begin, rows
  <2> QED
    BY <1>7, <2>1, <2>2, <2>3
<1>8. ASSUME NEW r \in Req, NEW d \in Device, Remove(r, d) \/ Acknowledge(r, d)
      PROVE  \E n \in Request :
               /\ UNCHANGED <<pairing, overdue>>
               /\ req' = [req EXCEPT ![r] = n]
               /\ n.at \notin {"expiring", "approving", "rejecting", "finalizing"}
  <2>1. PICK place \in {"removing", "acknowledging"} : Begin(r, On(place, d))
    BY <1>8 DEF Remove, Acknowledge
  <2> QED
    BY <2>1, OnType DEF Begin, rows, Places
<1>9. ASSUME NEW r \in Req, NEW d \in Device, NoticeOverdue(r, d)
      PROVE  /\ UNCHANGED <<pairing, overdue>>
             /\ req' = [req EXCEPT ![r] = On("expiring", d)]
             /\ pairing[d] # "none"
  BY <1>9 DEF NoticeOverdue, Begin, rows
<1>10. ASSUME NEW r \in Req, NEW d \in Device,
              \/ \E approver \in Device : Approve(r, approver, d) \/ Reject(r, approver, d)
              \/ Finalize(r, d)
       PROVE  \E place \in {"approving", "rejecting", "finalizing"} :
                /\ UNCHANGED <<pairing, overdue>>
                /\ req' = [req EXCEPT ![r] = On(place, d)]
                /\ pairing[d] # "none" /\ InTime(d)
  BY <1>10 DEF Approve, Reject, Finalize, AwaitsPair, Approved, Begin, rows
<1>11. Idle \in Request /\ Idle.at \notin {"expiring", "approving", "rejecting", "finalizing"}
  BY IdleType
<1>12. ASSUME NEW r \in Req, Arrive(r)
       PROVE  \/ \E d \in Device :
                   /\ UNCHANGED <<pairing, overdue>>
                   /\ req' = [req EXCEPT ![r] = On("expiring", d)]
                   /\ pairing[d] # "none"
              \/ \E d \in Device, place \in {"approving", "rejecting", "finalizing"} :
                   /\ UNCHANGED <<pairing, overdue>>
                   /\ req' = [req EXCEPT ![r] = On(place, d)]
                   /\ pairing[d] # "none" /\ InTime(d)
              \/ \E n \in Request :
                   /\ UNCHANGED <<pairing, overdue>>
                   /\ req' = [req EXCEPT ![r] = n]
                   /\ n.at \notin {"expiring", "approving", "rejecting", "finalizing"}
  BY <1>7, <1>8, <1>9, <1>10, <1>12 DEF Arrive
<1>13. ASSUME NEW r \in Req, Proceed(r)
       PROVE  \/ /\ \/ ExpireCommit(r) \/ ApproveCommit(r) \/ RejectCommit(r)
                    \/ FinalizeCommit(r)
                 /\ UNCHANGED overdue
                 /\ req' = [req EXCEPT ![r] = Idle]
              \/ /\ UNCHANGED <<pairing, overdue>>
                 /\ req' = [req EXCEPT ![r] = Idle]
  <2>1. CASE \E d \in Device : BootstrapCommit(r, d) \/ RecoverCommit(r, d)
    BY <1>5, <2>1
  <2>2. CASE RemoveCommit(r) \/ AcknowledgeCommit(r) \/ ResumeCommit(r) \/ LoseRequest(r)
    BY <2>2 DEF RemoveCommit, AcknowledgeCommit, ResumeCommit, LoseRequest, Rest, rows
  <2> QED
    BY <1>6, <1>13, <2>1, <2>2 DEF Proceed
<1> QED
  BY <1>1, <1>2, <1>3, <1>4, <1>11, <1>12, <1>13 DEF Next

LEMMA InitEnrolled == Init => Enrolled
  BY IdleType DEF Init, Enrolled

LEMMA EnrolledStep == Sound /\ Enrolled /\ [Next]_vars => Enrolled'
<1> SUFFICES ASSUME Sound, Enrolled, [Next]_vars PROVE Enrolled'
  OBVIOUS
<1>1. \A d \in Device : ~Fresh(d) => ~Fresh(d)'
  BY RowsStay
<1>2. CASE UNCHANGED <<pairing, overdue, req>>
  BY <1>1, <1>2 DEF Enrolled, Sound, Promise
<1>3. ASSUME NEW d \in Device, CreatePairingSession(d) \/ PairingDeadline(d), UNCHANGED req
      PROVE  Enrolled'
  <2>1. ~Fresh(d)'
    BY <1>1, <1>3 DEF CreatePairingSession, PairingDeadline, SetTrust, Fresh, Sound, TypeOK,
       Enrolled
  <2>2. \A e \in Device \ {d} : pairing'[e] = pairing[e] /\ (e \in overdue' => e \in overdue)
    BY <1>3 DEF CreatePairingSession, PairingDeadline, SetPairing, Sound, TypeOK
  <2> QED
    BY <1>1, <1>3, <2>1, <2>2 DEF Enrolled, Sound, Promise
<1>4. ASSUME NEW r \in Req, UNCHANGED overdue, req' = [req EXCEPT ![r] = Idle],
             \/ ExpireCommit(r) \/ ApproveCommit(r) \/ RejectCommit(r) \/ FinalizeCommit(r)
      PROVE  Enrolled'
  <2>1. req[r].device \in Device /\ ~Fresh(req[r].device)
    BY <1>4 DEF ExpireCommit, ApproveCommit, RejectCommit, FinalizeCommit, Enrolled, Sound,
       Promise
  <2>2. \A e \in Device \ {req[r].device} : pairing'[e] = pairing[e]
    BY <1>4 DEF ExpireCommit, ApproveCommit, RejectCommit, FinalizeCommit, SetPairing, Sound,
       TypeOK
  <2>3. \A q \in Req : q # r => req'[q] = req[q]
    BY <1>4 DEF Sound, TypeOK
  <2>4. req'[r] = Idle
    BY <1>4 DEF Sound, TypeOK
  <2> QED
    BY <1>1, <1>4, <2>1, <2>2, <2>3, <2>4, IdleType DEF Enrolled, Sound, Promise
<1>5. ASSUME NEW r \in Req, NEW d \in Device,
             NEW place \in {"expiring", "approving", "rejecting", "finalizing"},
             UNCHANGED <<pairing, overdue>>, req' = [req EXCEPT ![r] = On(place, d)],
             pairing[d] # "none"
      PROVE  Enrolled'
  <2>1. req'[r].device = d /\ ~Fresh(d)
    BY <1>5, OnType DEF Enrolled, Sound, TypeOK, Places
  <2>2. \A q \in Req : q # r => req'[q] = req[q]
    BY <1>5 DEF Sound, TypeOK
  <2> QED
    BY <1>1, <1>5, <2>1, <2>2 DEF Enrolled, Sound, Promise
<1>6. ASSUME NEW r \in Req, NEW n \in Request,
             UNCHANGED <<pairing, overdue>>, req' = [req EXCEPT ![r] = n],
             n.at \notin {"expiring", "approving", "rejecting", "finalizing"}
      PROVE  Enrolled'
  <2>1. req'[r] = n /\ \A q \in Req : q # r => req'[q] = req[q]
    BY <1>6 DEF Sound, TypeOK
  <2> QED
    BY <1>1, <1>6, <2>1 DEF Enrolled, Sound, Promise
<1> QED
  BY <1>2, <1>3, <1>4, <1>5, <1>6, PairingStep

LEMMA DrainStep ==
  ASSUME Sound, Enrolled, [Next]_vars, NEW d \in Device, PairingDrained(d)
  PROVE  PairingDrained(d)' /\ pairing'[d] \in {pairing[d], "EXPIRED"}
<1>1. d \in overdue /\ pairing[d] # "TRUSTED" /\ ~InTime(d) /\ ~Fresh(d)
  BY DEF PairingDrained, InTime, Enrolled
<1>2. CASE UNCHANGED <<pairing, overdue, req>>
  BY <1>2 DEF PairingDrained
<1>3. ASSUME NEW e \in Device, CreatePairingSession(e) \/ PairingDeadline(e), UNCHANGED req
      PROVE  PairingDrained(d)' /\ pairing'[d] = pairing[d]
  <2>1. pairing'[d] = pairing[d] /\ d \in overdue'
    BY <1>1, <1>3 DEF CreatePairingSession, PairingDeadline, SetPairing, Sound, TypeOK
  <2> QED
    BY <1>3, <2>1 DEF PairingDrained
<1>4. ASSUME NEW r \in Req, UNCHANGED overdue, req' = [req EXCEPT ![r] = Idle],
             \/ ExpireCommit(r) \/ ApproveCommit(r) \/ RejectCommit(r) \/ FinalizeCommit(r)
      PROVE  PairingDrained(d)' /\ pairing'[d] \in {pairing[d], "EXPIRED"}
  <2>1. req[r].device \in Device
    BY <1>4 DEF ExpireCommit, ApproveCommit, RejectCommit, FinalizeCommit, Sound, Promise
  <2>2. pairing'[d] \in {pairing[d], "EXPIRED"}
    <3>1. CASE ExpireCommit(r)
      BY <2>1, <3>1 DEF ExpireCommit, SetPairing, Sound, TypeOK
    <3>2. CASE ApproveCommit(r) \/ RejectCommit(r) \/ FinalizeCommit(r)
      <4>1. req[r].device # d
        BY <3>2 DEF ApproveCommit, RejectCommit, FinalizeCommit, PairingDrained
      <4> QED
        BY <2>1, <3>2, <4>1 DEF ApproveCommit, RejectCommit, FinalizeCommit, SetPairing, Sound,
           TypeOK
    <3> QED
      BY <1>4, <3>1, <3>2
  <2>3. req'[r] = Idle /\ \A q \in Req : q # r => req'[q] = req[q]
    BY <1>4 DEF Sound, TypeOK
  <2> QED
    BY <1>1, <1>4, <2>2, <2>3, IdleType DEF PairingDrained
<1>5. ASSUME NEW r \in Req, NEW e \in Device,
             UNCHANGED <<pairing, overdue>>, req' = [req EXCEPT ![r] = On("expiring", e)]
      PROVE  PairingDrained(d)' /\ pairing'[d] = pairing[d]
  <2>1. req'[r].at = "expiring" /\ \A q \in Req : q # r => req'[q] = req[q]
    BY <1>5, OnType DEF Sound, TypeOK, Places
  <2> QED
    BY <1>5, <2>1 DEF PairingDrained
<1>6. ASSUME NEW r \in Req, NEW e \in Device,
             NEW place \in {"approving", "rejecting", "finalizing"},
             UNCHANGED <<pairing, overdue>>, req' = [req EXCEPT ![r] = On(place, e)],
             InTime(e)
      PROVE  PairingDrained(d)' /\ pairing'[d] = pairing[d]
  <2>1. req'[r].device = e /\ e # d
    BY <1>1, <1>6, OnType DEF Sound, TypeOK, Places
  <2>2. \A q \in Req : q # r => req'[q] = req[q]
    BY <1>6 DEF Sound, TypeOK
  <2> QED
    BY <1>6, <2>1, <2>2 DEF PairingDrained
<1>7. ASSUME NEW r \in Req, NEW n \in Request,
             UNCHANGED <<pairing, overdue>>, req' = [req EXCEPT ![r] = n],
             n.at \notin {"expiring", "approving", "rejecting", "finalizing"}
      PROVE  PairingDrained(d)' /\ pairing'[d] = pairing[d]
  <2>1. req'[r] = n /\ \A q \in Req : q # r => req'[q] = req[q]
    BY <1>7 DEF Sound, TypeOK
  <2> QED
    BY <1>7, <2>1 DEF PairingDrained
<1> QED
  BY <1>2, <1>3, <1>4, <1>5, <1>6, <1>7, PairingStep

\* getPairingSession marks a late session only when somebody looks; whether or not
\* anybody does, no approval and no finalization succeeds after the requests that
\* found the session in time.
THEOREM LatePairingIsClosed == Spec => OverduePairingDrains
<1>1. Sound /\ Enrolled /\ [Next]_vars =>
        [\A d \in Device : PairingDrained(d) =>
           PairingDrained(d)' /\ pairing'[d] \in {pairing[d], "EXPIRED"}]_vars
  BY DrainStep
<1> QED
  BY <1>1, InitEnrolled, EnrolledStep, SoundHolds, PTL DEF Spec, OverduePairingDrains
-----------------------------------------------------------------------------
(***************************************************************************)
(* Codes and closed pairings, when requests do not overlap.  One request   *)
(* at a time is under way, so the set of codes it has matched, and the     *)
(* pairing it has found open, are still those of the rows when it writes.  *)
(***************************************************************************)
Open == {"AWAITING_PAIR", "AWAITING_APPROVAL"}

Current(r) ==
  /\ req[r].at = "redeeming" => req[r].codes = codes
  /\ req[r].at \in {"approving", "rejecting", "finalizing"} => pairing[req[r].device] \in Open

Serial ==
  /\ \A r, q \in Req : req[r].at # "idle" /\ req[q].at # "idle" => r = q
  /\ \A r \in Req : Current(r)

InTurn ==
  "overlap" \notin seen =>
    /\ Serial
    /\ \A c \in spent : c < codes
    /\ twice = {}

\* A request that begins has read the codes or the pairing it will rely on.
LEMMA ArriveReads ==
  ASSUME Sound, NEW r \in Req, Arrive(r)
  PROVE  \E n : /\ Begin(r, n)
                /\ n.at = "redeeming" => n.codes = codes
                /\ n.at \in {"approving", "rejecting", "finalizing"} => pairing[n.device] \in Open
<1>1. CASE BootstrapRead(r)
  <2>1. PICK n : n = [Idle EXCEPT !.at = "bootstrapping"]
    OBVIOUS
  <2>2. n.at = "bootstrapping"
    BY <2>1 DEF Idle
  <2> QED
    BY <1>1, <2>1, <2>2 DEF BootstrapRead
<1>2. CASE Recover(r)
  <2>1. PICK n : n = [Idle EXCEPT !.at = "redeeming", !.codes = codes]
    OBVIOUS
  <2>2. n.at = "redeeming" /\ n.codes = codes
    BY <2>1 DEF Idle
  <2> QED
    BY <1>2, <2>1, <2>2 DEF Recover
<1>3. ASSUME NEW d \in Device, NEW place \in Places, Begin(r, On(place, d)),
             place # "redeeming",
             place \in {"approving", "rejecting", "finalizing"} => pairing[d] \in Open
      PROVE  \E n : /\ Begin(r, n)
                    /\ n.at = "redeeming" => n.codes = codes
                    /\ n.at \in {"approving", "rejecting", "finalizing"}
                         => pairing[n.device] \in Open
  <2>1. PICK n : n = On(place, d)
    OBVIOUS
  <2>2. n.at = place /\ n.device = d
    BY <2>1, OnType
  <2> QED
    BY <1>3, <2>1, <2>2
<1>4. CASE Resume(r)
  <2>1. challenge.device \in Device
    BY <1>4 DEF Resume, Sound, UsedUp
  <2> QED
    BY <1>3, <1>4, <2>1 DEF Resume, Places
<1>5. ASSUME NEW d \in Device, NoticeOverdue(r, d) \/ Remove(r, d) \/ Acknowledge(r, d)
      PROVE  \E place \in {"expiring", "removing", "acknowledging"} : Begin(r, On(place, d))
  BY <1>5 DEF NoticeOverdue, Remove, Acknowledge
<1>6. ASSUME NEW d \in Device,
             \/ \E approver \in Device : Approve(r, approver, d) \/ Reject(r, approver, d)
             \/ Finalize(r, d)
      PROVE  /\ pairing[d] \in Open
             /\ \E place \in {"approving", "rejecting", "finalizing"} : Begin(r, On(place, d))
  BY <1>6 DEF Approve, Reject, Finalize, AwaitsPair, Approved, Open
<1>7. {"expiring", "removing", "acknowledging", "approving", "rejecting", "finalizing"}
        \subseteq Places
  BY DEF Places
<1>8. ASSUME NEW d \in Device, NoticeOverdue(r, d) \/ Remove(r, d) \/ Acknowledge(r, d)
      PROVE  \E n : /\ Begin(r, n)
                    /\ n.at = "redeeming" => n.codes = codes
                    /\ n.at \in {"approving", "rejecting", "finalizing"}
                         => pairing[n.device] \in Open
  <2>1. PICK place \in {"expiring", "removing", "acknowledging"} : Begin(r, On(place, d))
    BY <1>5, <1>8
  <2> QED
    BY <1>3, <1>7, <2>1
<1>9. ASSUME NEW d \in Device,
             \/ \E approver \in Device : Approve(r, approver, d) \/ Reject(r, approver, d)
             \/ Finalize(r, d)
      PROVE  \E n : /\ Begin(r, n)
                    /\ n.at = "redeeming" => n.codes = codes
                    /\ n.at \in {"approving", "rejecting", "finalizing"}
                         => pairing[n.device] \in Open
  <2>1. PICK place \in {"approving", "rejecting", "finalizing"} : Begin(r, On(place, d))
    BY <1>6, <1>9
  <2> QED
    BY <1>3, <1>6, <1>7, <1>9, <2>1
<1> QED
  BY <1>1, <1>2, <1>4, <1>8, <1>9 DEF Arrive

\* A request that proceeds is over.
LEMMA ProceedRests ==
  ASSUME NEW r \in Req, Proceed(r)
  PROVE  req[r].at # "idle" /\ req' = [req EXCEPT ![r] = Idle] /\ UNCHANGED seen
BY DEF Proceed, BootstrapCommit, RecoverCommit, ExpireCommit, ApproveCommit, RejectCommit,
       FinalizeCommit, RemoveCommit, AcknowledgeCommit, ResumeCommit, LoseRequest, Rest

LEMMA NextInTurn == Sound /\ InTurn /\ [Next]_vars => InTurn'
<1> SUFFICES ASSUME Sound, InTurn, [Next]_vars, "overlap" \notin seen'
             PROVE  Serial' /\ (\A c \in spent : c < codes)' /\ (twice = {})'
  BY DEF InTurn
<1>1. TypeOK
  BY DEF Sound
<1>2. CASE \/ UNCHANGED vars \/ ChallengeDeadline
           \/ \E d \in Device : PairingDeadline(d) \/ CreateChallenge(d)
  BY <1>2 DEF vars, rows, history, ChallengeDeadline, PairingDeadline, CreateChallenge, InTurn,
              Serial, Current
<1>3. ASSUME NEW d \in Device, CreatePairingSession(d)
      PROVE  Serial' /\ (\A c \in spent : c < codes)' /\ (twice = {})'
  <2>1. /\ UNCHANGED <<req, codes, spent, twice, seen>>
        /\ pairing' = [pairing EXCEPT ![d] = "AWAITING_PAIR"]
    BY <1>3 DEF CreatePairingSession, SetPairing, history
  <2>2. \A e \in Device : pairing[e] \in Open => pairing'[e] \in Open
    BY <1>1, <2>1 DEF Open, TypeOK
  <2>3. \A q \in Req : Current(q)'
    BY <2>1, <2>2 DEF InTurn, Serial, Current, Sound, Promise
  <2> QED
    BY <2>1, <2>3 DEF InTurn, Serial
<1>4. ASSUME NEW r \in Req, Arrive(r)
      PROVE  Serial' /\ (\A c \in spent : c < codes)' /\ (twice = {})'
  <2>1. PICK n : /\ Begin(r, n)
                 /\ n.at = "redeeming" => n.codes = codes
                 /\ n.at \in {"approving", "rejecting", "finalizing"}
                      => pairing[n.device] \in Open
    BY <1>4, ArriveReads
  <2>2. Resting /\ UNCHANGED <<pairing, codes, spent, twice, seen>>
    BY <2>1 DEF Begin, rows, history
  <2>3. req'[r] = n /\ \A q \in Req \ {r} : req'[q].at = "idle"
    BY <1>1, <2>1, <2>2 DEF Begin, Resting, TypeOK
  <2> QED
    BY <2>1, <2>2, <2>3 DEF InTurn, Serial, Current
<1>5. ASSUME NEW r \in Req, Proceed(r)
      PROVE  Serial' /\ (\A c \in spent : c < codes)' /\ (twice = {})'
  <2>1. \A q \in Req : req'[q].at = "idle"
    BY <1>1, <1>5, ProceedRests, IdleType DEF InTurn, Serial, TypeOK
  <2>2. (\A c \in spent : c < codes) /\ twice = {} /\ Current(r)
    BY <1>5, ProceedRests DEF InTurn, Serial
  <2>3. CASE \E d \in Device : RecoverCommit(r, d)
    <3>1. /\ req[r].codes = codes /\ codes \notin spent /\ codes \in Nat
      BY <1>1, <2>2, <2>3 DEF RecoverCommit, Current, TypeOK
    <3>2. codes' = codes + 1 /\ spent' = spent \cup {codes} /\ twice' = twice
      BY <2>3, <3>1 DEF RecoverCommit, NewCodes
    <3>3. \A c \in spent' : c < codes'
      BY <1>1, <2>2, <3>1, <3>2 DEF TypeOK
    <3> QED
      BY <2>1, <2>2, <3>2, <3>3 DEF Serial, Current
  <2>4. CASE ~\E d \in Device : RecoverCommit(r, d)
    <3>1. UNCHANGED <<spent, twice>> /\ codes' \in {codes, codes + 1}
      BY <1>5, <2>4 DEF Proceed, BootstrapCommit, ExpireCommit, ApproveCommit, RejectCommit,
         FinalizeCommit, RemoveCommit, AcknowledgeCommit, ResumeCommit, LoseRequest, rows,
         history
    <3>2. \A c \in spent' : c < codes'
      BY <1>1, <2>2, <3>1 DEF TypeOK
    <3> QED
      BY <2>1, <2>2, <3>1, <3>2 DEF Serial, Current
  <2> QED
    BY <2>3, <2>4
<1> QED
  BY <1>2, <1>3, <1>4, <1>5 DEF Next

LEMMA InitInTurn == Init => InTurn
  BY IdleType DEF Init, InTurn, Serial, Current

\* Where no request overlaps another, a set of recovery codes brings back one device:
\* the set that a code matched is replaced in the step that uses it.
THEOREM OneRecoveryPerSet == Spec => []CodesSpentOnce
<1>1. InTurn => CodesSpentOnce
  BY DEF InTurn, CodesSpentOnce
<1> QED
  BY <1>1, InitInTurn, NextInTurn, SoundHolds, PTL DEF Spec

\* Where no request overlaps another, a pairing that was rejected or has expired is
\* neither approved nor finalized, although the writes do not look at the row again.
THEOREM ClosedPairingsLeadNowhere == Spec => ClosedPairingStaysClosed
<1>1. Sound /\ Enrolled /\ InTurn /\ [Next]_vars =>
        [\A d \in Device :
           pairing[d] \in {"REJECTED", "EXPIRED"} /\ "overlap" \notin seen
             => pairing'[d] \in {"REJECTED", "EXPIRED"}]_vars
  <2> SUFFICES ASSUME Sound, Enrolled, InTurn, [Next]_vars, NEW d \in Device,
                      pairing[d] \in {"REJECTED", "EXPIRED"}, "overlap" \notin seen
               PROVE  pairing'[d] \in {"REJECTED", "EXPIRED"}
    OBVIOUS
  <2>1. ~Fresh(d)
    BY DEF Enrolled
  <2>2. ASSUME NEW e \in Device, CreatePairingSession(e) \/ PairingDeadline(e)
        PROVE  pairing'[d] = pairing[d]
    BY <2>1, <2>2 DEF CreatePairingSession, PairingDeadline, SetPairing, Sound, TypeOK
  <2>3. ASSUME NEW r \in Req, \/ ExpireCommit(r) \/ ApproveCommit(r) \/ RejectCommit(r)
                              \/ FinalizeCommit(r)
        PROVE  pairing'[d] \in {pairing[d], "EXPIRED"}
    <3>1. Current(r)
      BY DEF InTurn, Serial
    <3>2. CASE ExpireCommit(r)
      BY <3>2 DEF ExpireCommit, SetPairing, Sound, TypeOK
    <3>3. CASE ApproveCommit(r) \/ RejectCommit(r) \/ FinalizeCommit(r)
      <4>1. req[r].device # d
        BY <3>1, <3>3 DEF Current, Open, ApproveCommit, RejectCommit, FinalizeCommit
      <4> QED
        BY <3>3, <4>1 DEF ApproveCommit, RejectCommit, FinalizeCommit, SetPairing, Sound,
           TypeOK
    <3> QED
      BY <2>3, <3>2, <3>3
  <2> QED
    BY <2>2, <2>3, PairingStep
<1> QED
  BY <1>1, InitEnrolled, EnrolledStep, InitInTurn, NextInTurn, SoundHolds, PTL
     DEF Spec, ClosedPairingStaysClosed
=============================================================================

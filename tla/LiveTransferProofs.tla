------------------------- MODULE LiveTransferProofs -------------------------
(***************************************************************************)
(* Theorems about live transfers: the session (LiveSession), for any       *)
(* number of devices and requests and any policies, and its relay          *)
(* (LiveRelay), for any number and sizes of payloads.                      *)
(***************************************************************************)
EXTENDS LiveSession, LiveRelay, TLAPS

USE LiveAssumption

-----------------------------------------------------------------------------
(***************************************************************************)
(* The inductive invariant.  Joining and the two confirmations are never   *)
(* taken back, so what a request has read of them still holds when it      *)
(* writes, whatever has been written in between.                           *)
(***************************************************************************)
Allowed(t) ==
  /\ t \in P2P => policy.p2p
  /\ t \in Relay => policy.relay

\* What the place of a request implies about the row and about its write.
Promise(r) ==
  /\ req[r].at \in {"joining", "confirming"} => req[r].device \in Device
  /\ req[r].at = "confirming" =>
       /\ session.joiner # NoDevice
       /\ req[r].state \in {"CONNECTING", "AWAITING_CONFIRMATION"}
       /\ req[r].state = "CONNECTING" =>
            IF req[r].device = Initiator THEN session.joinerOk ELSE session.initiatorOk
       /\ Allowed(req[r].transport)
  /\ req[r].at = "connecting" =>
       /\ session.joiner # NoDevice
       /\ session.initiatorOk
       /\ session.joinerOk
       /\ Allowed(req[r].transport)
  /\ req[r].at = "ending" => req[r].state \in Terminal

Handshake ==
  /\ TypeOK
  /\ BothSidesConfirmed
  /\ TransportAllowed
  /\ \A r \in Req : Promise(r)

\* What no step takes back.
Onward ==
  /\ policy' = policy
  /\ session.joiner # NoDevice => session'.joiner # NoDevice
  /\ session.initiatorOk => session'.initiatorOk
  /\ session.joinerOk => session'.joinerOk

LEMMA IdleType == Idle \in Request
  BY DEF Idle, Request, Places, SessionStates, Transports

LEMMA InitHandshake == Init => Handshake
<1> SUFFICES ASSUME Init PROVE Handshake
  OBVIOUS
<1>1. TypeOK
  BY IdleType DEF Init, TypeOK, SessionRow, SessionStates, Transports
<1>2. BothSidesConfirmed /\ TransportAllowed
  BY DEF Init, BothSidesConfirmed, TransportAllowed, Live, P2P, Relay
<1>3. \A r \in Req : Promise(r)
  BY DEF Init, Idle, Promise
<1> QED
  BY <1>1, <1>2, <1>3 DEF Handshake

\* One request moves and the row only goes onward: the promises of the other
\* requests hold, and what is left to show is about the request that moves.
LEMMA Moves ==
  ASSUME Handshake, TypeOK', Onward, NEW r \in Req, NEW n \in Request,
         req' = [req EXCEPT ![r] = n],
         BothSidesConfirmed', TransportAllowed', Promise(r)'
  PROVE  Handshake'
<1>1. \A q \in Req \ {r} : req'[q] = req[q]
  BY DEF Handshake, TypeOK
<1>2. \A q \in Req \ {r} : Promise(q)'
  BY <1>1 DEF Handshake, Onward, Promise, Allowed
<1> QED
  BY <1>2 DEF Handshake

\* A request begins: the row is as it was.
LEMMA Begins ==
  ASSUME Handshake, NEW r \in Req, NEW n \in Request, Begin(r, n), Promise(r)'
  PROVE  Handshake'
<1>1. /\ req' = [req EXCEPT ![r] = n]
      /\ UNCHANGED <<session, policy, overdue, uploads, record, consent>>
  BY DEF Begin
<1>2. seen' \subseteq Irregularity
  BY DEF Begin, Handshake, TypeOK, Irregularity
<1>3. TypeOK'
  BY <1>1, <1>2 DEF Handshake, TypeOK
<1>4. BothSidesConfirmed' /\ TransportAllowed' /\ Onward
  BY <1>1 DEF Handshake, BothSidesConfirmed, TransportAllowed, Onward
<1> QED
  BY <1>1, <1>3, <1>4, Moves

\* The row is written and the record comes next.
LEMMA Writes ==
  ASSUME Handshake, NEW r \in Req, Project(r), session' \in SessionRow, Onward,
         consent' \subseteq Device,
         UNCHANGED <<overdue, uploads, record, seen>>,
         BothSidesConfirmed', TransportAllowed'
  PROVE  Handshake'
<1> DEFINE n == [Idle EXCEPT !.at = "projecting"]
<1>1. n \in Request /\ n.at = "projecting"
  BY IdleType DEF Idle, Request, Places
<1>2. req' = [req EXCEPT ![r] = n]
  BY DEF Project
<1> HIDE DEF n
<1>3. TypeOK'
  BY <1>1, <1>2 DEF Handshake, TypeOK, Onward
<1>4. Promise(r)'
  BY <1>1, <1>2 DEF Handshake, TypeOK, Promise
<1> QED
  BY <1>1, <1>2, <1>3, <1>4, Moves

LEMMA CreateKeeps ==
  ASSUME Handshake, NEW r \in Req, Create(r)
  PROVE  Handshake'
<1>1. session' \in SessionRow /\ session'.state = "AWAITING_JOIN"
      /\ session'.transport = session.transport /\ session'.joiner = session.joiner
      /\ session'.initiatorOk = session.initiatorOk
      /\ session'.joinerOk = session.joinerOk
  BY DEF Create, Handshake, TypeOK, SessionRow, SessionStates
<1>2. policy' = policy
  BY DEF Create
<1>3. Onward /\ BothSidesConfirmed' /\ TransportAllowed'
  BY <1>1, <1>2 DEF Handshake, Onward, BothSidesConfirmed, TransportAllowed, Live
<1>4. consent' \subseteq Device
  BY DEF Create, Handshake, TypeOK
<1> QED
  BY <1>1, <1>3, <1>4, Writes DEF Create

LEMMA JoinKeeps ==
  ASSUME Handshake, NEW r \in Req, NEW d \in Device, Join(r, d)
  PROVE  Handshake'
<1> DEFINE n == [Idle EXCEPT !.at = "joining", !.device = d]
<1>1. n \in Request /\ n.at = "joining" /\ n.device = d
  BY IdleType DEF Idle, Request, Places
<1>2. Begin(r, n)
  BY DEF Join
<1> HIDE DEF n
<1>3. Promise(r)'
  BY <1>1, <1>2 DEF Begin, Handshake, TypeOK, Promise
<1> QED
  BY <1>1, <1>2, <1>3, Begins

LEMMA JoinCommitKeeps ==
  ASSUME Handshake, NEW r \in Req, JoinCommit(r)
  PROVE  Handshake'
<1>1. req[r].device \in Device
  BY DEF JoinCommit, Handshake, Promise
<1>2. session' \in SessionRow /\ session'.state = "AWAITING_CONFIRMATION"
      /\ session'.transport = session.transport /\ session'.joiner = req[r].device
      /\ session'.initiatorOk = session.initiatorOk
      /\ session'.joinerOk = session.joinerOk
  BY <1>1 DEF JoinCommit, Handshake, TypeOK, SessionRow, SessionStates
<1>3. policy' = policy
  BY DEF JoinCommit
<1>4. Onward /\ BothSidesConfirmed' /\ TransportAllowed'
  BY <1>1, <1>2, <1>3 DEF Handshake, Onward, BothSidesConfirmed, TransportAllowed, Live
<1>5. consent' \subseteq Device
  BY DEF JoinCommit, Handshake, TypeOK
<1> QED
  BY <1>2, <1>4, <1>5, Writes DEF JoinCommit

\* The confirmation of the other side has been read, and stays.
LEMMA ConfirmKeeps ==
  ASSUME Handshake, NEW r \in Req, NEW d \in Device, Confirm(r, d)
  PROVE  Handshake'
<1>1. PICK n : /\ Begin(r, n)
               /\ n = IF BothConfirmed(d)
                      THEN [at |-> "confirming", device |-> d, state |-> "CONNECTING",
                            transport |-> FirstTransport]
                      ELSE [at |-> "confirming", device |-> d,
                            state |-> "AWAITING_CONFIRMATION",
                            transport |-> session.transport]
  BY DEF Confirm
<1>2. /\ FirstTransport \in Transports /\ Allowed(FirstTransport)
      /\ session.transport \in Transports /\ Allowed(session.transport)
  BY DEF FirstTransport, Transports, P2P, Relay, Allowed, Handshake, TypeOK,
     SessionRow, TransportAllowed
<1>3. n \in Request
  BY <1>1, <1>2 DEF Request, Places, SessionStates, Live
<1>4. /\ n.at = "confirming" /\ n.device = d
      /\ n.state \in {"CONNECTING", "AWAITING_CONFIRMATION"}
      /\ n.state = "CONNECTING" => BothConfirmed(d)
      /\ Allowed(n.transport)
  BY <1>1, <1>2
<1>5. req'[r] = n /\ session' = session /\ policy' = policy
  BY <1>1 DEF Begin, Handshake, TypeOK
<1>6. Promise(r)'
  BY <1>4, <1>5 DEF Confirm, Promise, BothConfirmed, Allowed
<1> QED
  BY <1>1, <1>3, <1>6, Begins

LEMMA ConfirmCommitKeeps ==
  ASSUME Handshake, NEW r \in Req, ConfirmCommit(r)
  PROVE  Handshake'
<1>1. /\ req[r].device \in Device /\ session.joiner # NoDevice
      /\ req[r].state \in {"CONNECTING", "AWAITING_CONFIRMATION"}
      /\ req[r].state = "CONNECTING" =>
           IF req[r].device = Initiator THEN session.joinerOk ELSE session.initiatorOk
      /\ Allowed(req[r].transport) /\ req[r].transport \in Transports
  BY DEF ConfirmCommit, Handshake, TypeOK, Promise, Request
<1>2. /\ session' \in SessionRow
      /\ session'.state = req[r].state /\ session'.transport = req[r].transport
      /\ session'.joiner = session.joiner
      /\ session'.initiatorOk = (session.initiatorOk \/ req[r].device = Initiator)
      /\ session'.joinerOk = (session.joinerOk \/ req[r].device # Initiator)
  BY <1>1 DEF ConfirmCommit, Handshake, TypeOK, SessionRow, SessionStates, Live
<1>3. policy' = policy
  BY DEF ConfirmCommit
<1>4. Onward
  BY <1>2, <1>3 DEF Onward
<1>5. BothSidesConfirmed'
  BY <1>1, <1>2 DEF BothSidesConfirmed, Live
<1>6. TransportAllowed'
  BY <1>1, <1>2, <1>3 DEF TransportAllowed, Allowed
<1>7. consent' \subseteq Device
  BY <1>1 DEF ConfirmCommit, Handshake, TypeOK
<1> QED
  BY <1>2, <1>4, <1>5, <1>6, <1>7, Writes DEF ConfirmCommit

LEMMA ConnectKeeps ==
  ASSUME Handshake, NEW r \in Req, NEW d \in Device, NEW t \in P2P \cup Relay,
         Connect(r, d, t)
  PROVE  Handshake'
<1>1. PICK n : /\ Begin(r, n)
               /\ n = [at |-> "connecting", device |-> d, transport |-> t,
                       state |-> IF t \in {"P2P_ACTIVE", "RELAY_ACTIVE"}
                                 THEN "ACTIVE" ELSE "CONNECTING"]
  BY DEF Connect
<1>2. n \in Request
  BY <1>1 DEF Request, Places, SessionStates, Live, Transports
<1>3. n.at = "connecting" /\ n.transport = t
  BY <1>1
<1>4. req'[r] = n /\ session' = session /\ policy' = policy
  BY <1>1 DEF Begin, Handshake, TypeOK
<1>5. Promise(r)'
  BY <1>3, <1>4 DEF Connect, TransportMutable, TransportPermitted, Handshake,
     BothSidesConfirmed, Promise, Allowed
<1> QED
  BY <1>1, <1>2, <1>5, Begins

LEMMA ConnectCommitKeeps ==
  ASSUME Handshake, NEW r \in Req, ConnectCommit(r)
  PROVE  Handshake'
<1>1. /\ session.joiner # NoDevice /\ session.initiatorOk /\ session.joinerOk
      /\ Allowed(req[r].transport) /\ req[r].transport \in Transports
      /\ req[r].state \in SessionStates
  BY DEF ConnectCommit, Handshake, TypeOK, Promise, Request
<1>2. /\ session' \in SessionRow /\ session'.transport = req[r].transport
      /\ session'.joiner = session.joiner
      /\ session'.initiatorOk = session.initiatorOk
      /\ session'.joinerOk = session.joinerOk
  BY <1>1 DEF ConnectCommit, Handshake, TypeOK, SessionRow
<1>3. policy' = policy
  BY DEF ConnectCommit
<1>4. Onward /\ BothSidesConfirmed'
  BY <1>1, <1>2, <1>3 DEF Onward, BothSidesConfirmed
<1>5. TransportAllowed'
  BY <1>1, <1>2, <1>3 DEF TransportAllowed, Allowed
<1>6. consent' \subseteq Device
  BY DEF ConnectCommit, Handshake, TypeOK
<1> QED
  BY <1>2, <1>4, <1>5, <1>6, Writes DEF ConnectCommit

LEMMA EndKeeps ==
  ASSUME Handshake, NEW r \in Req, NEW d \in Device, NEW outcome \in Terminal,
         End(r, d, outcome)
  PROVE  Handshake'
<1> DEFINE n == [Idle EXCEPT !.at = "ending", !.device = d, !.state = outcome]
<1>1. n \in Request /\ n.at = "ending" /\ n.state = outcome
  BY IdleType DEF Idle, Request, Places, SessionStates
<1>2. Begin(r, n)
  BY DEF End
<1> HIDE DEF n
<1>3. Promise(r)'
  BY <1>1, <1>2 DEF Begin, Handshake, TypeOK, Promise
<1> QED
  BY <1>1, <1>2, <1>3, Begins

LEMMA EndCommitKeeps ==
  ASSUME Handshake, NEW r \in Req, EndCommit(r)
  PROVE  Handshake'
<1>1. req[r].state \in Terminal
  BY DEF EndCommit, Handshake, Promise
<1>2. session' \in SessionRow /\ session'.state = req[r].state
      /\ session'.transport = session.transport /\ session'.joiner = session.joiner
      /\ session'.initiatorOk = session.initiatorOk
      /\ session'.joinerOk = session.joinerOk
  BY <1>1 DEF EndCommit, Handshake, TypeOK, SessionRow, SessionStates
<1>3. policy' = policy
  BY DEF EndCommit
<1>4. Onward /\ BothSidesConfirmed' /\ TransportAllowed'
  BY <1>1, <1>2, <1>3
     DEF Handshake, Onward, BothSidesConfirmed, TransportAllowed, Live, Terminal
<1>5. consent' \subseteq Device
  BY DEF EndCommit, Handshake, TypeOK
<1> QED
  BY <1>2, <1>4, <1>5, Writes DEF EndCommit

LEMMA FallbackKeeps ==
  ASSUME Handshake, NEW r \in Req, NEW d \in Device, Fallback(r, d)
  PROVE  Handshake'
<1> DEFINE n == [Idle EXCEPT !.at = "preparing", !.device = d]
<1>1. n \in Request /\ n.at = "preparing"
  BY IdleType DEF Idle, Request, Places
<1>2. Begin(r, n)
  BY DEF Fallback
<1> HIDE DEF n
<1>3. Promise(r)'
  BY <1>1, <1>2 DEF Begin, Handshake, TypeOK, Promise
<1> QED
  BY <1>1, <1>2, <1>3, Begins

\* The row, if it changes at all, only gets its fallback; the request makes no
\* promise.
LEMMA Aside ==
  ASSUME Handshake, NEW r \in Req, NEW n \in Request,
         req' = [req EXCEPT ![r] = n],
         n.at \in {"idle", "linking", "projecting", "recording"},
         session' = session \/ session' = [session EXCEPT !.fallback = TRUE],
         uploads' \in Nat, record' \in SessionStates, seen' \subseteq Irregularity,
         UNCHANGED <<policy, overdue, consent>>
  PROVE  Handshake'
<1>1. /\ session' \in SessionRow /\ session'.state = session.state
      /\ session'.transport = session.transport /\ session'.joiner = session.joiner
      /\ session'.initiatorOk = session.initiatorOk
      /\ session'.joinerOk = session.joinerOk
  BY DEF Handshake, TypeOK, SessionRow
<1>2. TypeOK'
  BY <1>1 DEF Handshake, TypeOK
<1>3. Onward /\ BothSidesConfirmed' /\ TransportAllowed'
  BY <1>1 DEF Handshake, Onward, BothSidesConfirmed, TransportAllowed
<1>4. Promise(r)'
  BY DEF Handshake, TypeOK, Promise
<1> QED
  BY <1>2, <1>3, <1>4, Moves

LEMMA AsideKeeps ==
  ASSUME Handshake, NEW r \in Req,
         \/ FallbackPrepare(r)
         \/ FallbackCommit(r)
         \/ ProjectRead(r)
         \/ Record(r)
         \/ LoseRequest(r)
  PROVE  Handshake'
<1>1. Idle.at = "idle"
  BY DEF Idle
<1>2. CASE FallbackPrepare(r)
  <2>1. PICK n : n = [req[r] EXCEPT !.at = "linking"]
    OBVIOUS
  <2>2. req[r] \in Request
    BY DEF Handshake, TypeOK
  <2>3. n \in Request /\ n.at = "linking"
    BY <2>1, <2>2 DEF Request, Places
  <2>4. req' = [req EXCEPT ![r] = n]
    BY <1>2, <2>1 DEF FallbackPrepare
  <2>5. uploads' \in Nat
    BY <1>2 DEF FallbackPrepare, Handshake, TypeOK
  <2> QED
    BY <1>2, <2>3, <2>4, <2>5, Aside DEF FallbackPrepare, Handshake, TypeOK
<1>3. CASE FallbackCommit(r)
  BY <1>1, <1>3, IdleType, Aside DEF FallbackCommit, Handshake, TypeOK
<1>4. CASE ProjectRead(r)
  <2>1. PICK n : n = IF policy.retain
                     THEN [Idle EXCEPT !.at = "recording", !.state = session.state]
                     ELSE Idle
    OBVIOUS
  <2>2. n \in Request /\ n.at \in {"idle", "recording"}
    BY <1>1, <2>1, IdleType DEF Idle, Handshake, TypeOK, SessionRow, Request, Places
  <2>3. req' = [req EXCEPT ![r] = n]
    BY <1>4, <2>1 DEF ProjectRead
  <2> QED
    BY <1>4, <2>2, <2>3, Aside DEF ProjectRead, Handshake, TypeOK
<1>5. CASE Record(r)
  <2>1. record' \in SessionStates
    BY <1>5 DEF Record, Handshake, TypeOK, Request
  <2> QED
    BY <1>1, <1>5, <2>1, IdleType, Aside DEF Record, Handshake, TypeOK
<1>6. CASE LoseRequest(r)
  <2>1. seen' \subseteq Irregularity
    BY <1>6 DEF LoseRequest, Handshake, TypeOK, Irregularity
  <2> QED
    BY <1>1, <1>6, <2>1, IdleType, Aside DEF LoseRequest, Handshake, TypeOK
<1> QED
  BY <1>2, <1>3, <1>4, <1>5, <1>6

LEMMA NextHandshake == Handshake /\ [Next]_vars => Handshake'
<1> SUFFICES ASSUME Handshake, [Next]_vars PROVE Handshake'
  OBVIOUS
<1>1. CASE Deadline \/ UNCHANGED vars
  <2>1. /\ UNCHANGED <<session, policy, uploads, record, req, consent, seen>>
        /\ overdue' \in BOOLEAN
    BY <1>1 DEF Deadline, vars, Handshake, TypeOK
  <2> QED
    BY <2>1 DEF Handshake, TypeOK, BothSidesConfirmed, TransportAllowed, Promise, Allowed
<1>2. ASSUME NEW r \in Req, Arrive(r) PROVE Handshake'
  BY <1>2, CreateKeeps, JoinKeeps, ConfirmKeeps, ConnectKeeps, EndKeeps, FallbackKeeps
     DEF Arrive
<1>3. ASSUME NEW r \in Req, Proceed(r) PROVE Handshake'
  BY <1>3, JoinCommitKeeps, ConfirmCommitKeeps, ConnectCommitKeeps, EndCommitKeeps,
     AsideKeeps DEF Proceed
<1> QED
  BY <1>1, <1>2, <1>3 DEF Next

LEMMA HandshakeHolds == Spec => []Handshake
  BY InitHandshake, NextHandshake, PTL DEF Spec

\* Every row, record and request of every reachable state is of its type.
THEOREM LiveTypeCorrect == Spec => []TypeOK
<1>1. Handshake => TypeOK
  BY DEF Handshake
<1> QED
  BY <1>1, HandshakeHolds, PTL

\* Whatever confirmations, joins, transports and ends overlap, no session connects
\* before somebody has joined and both confirmations are recorded.
THEOREM ConnectedMeansConfirmed == Spec => []BothSidesConfirmed
<1>1. Handshake => BothSidesConfirmed
  BY DEF Handshake
<1> QED
  BY <1>1, HandshakeHolds, PTL

\* Whatever requests overlap, the transport in the row is one that the session's
\* policy allows.
THEOREM TransportObeysPolicy == Spec => []TransportAllowed
<1>1. Handshake => TransportAllowed
  BY DEF Handshake
<1> QED
  BY <1>1, HandshakeHolds, PTL
-----------------------------------------------------------------------------
(***************************************************************************)
(* The end, when requests do not overlap.  One request at a time is under  *)
(* way, so the state it has read is still there when it writes.            *)
(***************************************************************************)
Alone ==
  \A r, q \in Req : req[r].at # "idle" /\ req[q].at # "idle" => r = q

Reading == {"joining", "confirming", "connecting"}

Current(r) ==
  /\ req[r].at # "idle" => session.state # "none"
  /\ req[r].at \in Reading => session.state \notin Terminal
  /\ req[r].at = "connecting" => req[r].state \in Live

InTurn == "overlap" \notin seen => Alone /\ \A r \in Req : Current(r)

\* A request that begins where none is under way is alone, and reads the row.
LEMMA BeginsInTurn ==
  ASSUME TypeOK, NEW r \in Req, NEW n \in Request, Begin(r, n), "overlap" \notin seen',
         session.state # "none",
         n.at \in Reading => session.state \notin Terminal,
         n.at = "connecting" => n.state \in Live
  PROVE  Alone' /\ \A q \in Req : Current(q)'
<1>1. Resting /\ UNCHANGED session
  BY DEF Begin
<1>2. req'[r] = n /\ \A q \in Req \ {r} : req'[q].at = "idle"
  BY <1>1 DEF Begin, Resting, TypeOK
<1>3. \A q \in Req \ {r} : Current(q)'
  BY <1>2 DEF Current, Reading
<1>4. Current(r)'
  BY <1>1, <1>2 DEF Current
<1> QED
  BY <1>2, <1>3, <1>4 DEF Alone

\* Where a begun request proceeds the others rest, and it has nothing more to
\* read of the state.
LEMMA ProceedsInTurn ==
  ASSUME Handshake, Alone, \A q \in Req : Current(q), NEW r \in Req, Proceed(r)
  PROVE  Alone' /\ \A q \in Req : Current(q)'
<1>1. req[r].at # "idle" /\ \A q \in Req \ {r} : req[q].at = "idle"
  BY DEF Proceed, JoinCommit, ConfirmCommit, ConnectCommit, EndCommit, FallbackPrepare,
         FallbackCommit, ProjectRead, Record, LoseRequest, Alone
<1>2. session.state # "none"
  BY <1>1 DEF Current
<1>3. \A q \in Req \ {r} : req'[q] = req[q]
  BY DEF Proceed, JoinCommit, ConfirmCommit, ConnectCommit, EndCommit, FallbackPrepare,
         FallbackCommit, ProjectRead, Record, LoseRequest, Project, Handshake, TypeOK
<1>4. req'[r].at \notin Reading /\ session'.state # "none"
  <2>1. CASE JoinCommit(r)
    BY <2>1 DEF JoinCommit, Project, Idle, Reading, Handshake, TypeOK, SessionRow
  <2>2. CASE ConfirmCommit(r)
    <3>1. req[r].state # "none"
      BY <2>2 DEF ConfirmCommit, Handshake, Promise
    <3> QED
      BY <2>2, <3>1 DEF ConfirmCommit, Project, Idle, Reading, Handshake, TypeOK, SessionRow
  <2>3. CASE ConnectCommit(r)
    <3>1. req[r].state # "none"
      BY <2>3 DEF ConnectCommit, Current, Live
    <3> QED
      BY <2>3, <3>1 DEF ConnectCommit, Project, Idle, Reading, Handshake, TypeOK, SessionRow
  <2>4. CASE EndCommit(r)
    <3>1. req[r].state # "none"
      BY <2>4 DEF EndCommit, Handshake, Promise, Terminal
    <3> QED
      BY <2>4, <3>1 DEF EndCommit, Project, Idle, Reading, Handshake, TypeOK, SessionRow
  <2>5. CASE FallbackPrepare(r)
    <3>1. req'[r].at = "linking" /\ session' = session
      BY <2>5 DEF FallbackPrepare, Handshake, TypeOK, Request
    <3> QED
      BY <1>2, <3>1 DEF Reading
  <2>6. CASE FallbackCommit(r)
    BY <1>2, <2>6 DEF FallbackCommit, Idle, Reading, Handshake, TypeOK, SessionRow
  <2>7. CASE ProjectRead(r) \/ Record(r) \/ LoseRequest(r)
    <3>1. req'[r].at \in {"idle", "recording"} /\ session' = session
      <4>1. CASE ProjectRead(r)
        BY <4>1 DEF ProjectRead, Idle, Handshake, TypeOK
      <4>2. CASE Record(r) \/ LoseRequest(r)
        BY <4>2 DEF Record, LoseRequest, Idle, Handshake, TypeOK
      <4> QED
        BY <2>7, <4>1, <4>2
    <3> QED
      BY <1>2, <3>1 DEF Reading
  <2> QED
    BY <2>1, <2>2, <2>3, <2>4, <2>5, <2>6, <2>7 DEF Proceed
<1>5. \A q \in Req : Current(q)'
  BY <1>1, <1>3, <1>4 DEF Current, Reading
<1> QED
  BY <1>1, <1>3, <1>5 DEF Alone

LEMMA NextInTurn ==
  ASSUME Handshake, InTurn, [Next]_vars
  PROVE  InTurn'
<1> SUFFICES ASSUME "overlap" \notin seen'
             PROVE  Alone' /\ \A q \in Req : Current(q)'
  BY DEF InTurn
<1>1. "overlap" \notin seen
  BY DEF Next, vars, Deadline, Arrive, Create, Join, Confirm, Connect, End, Fallback, Begin,
         Proceed, JoinCommit, ConfirmCommit, ConnectCommit, EndCommit, FallbackPrepare,
         FallbackCommit, ProjectRead, Record, LoseRequest
<1>2. Alone /\ \A q \in Req : Current(q)
  BY <1>1 DEF InTurn
<1>3. TypeOK
  BY DEF Handshake
<1>4. CASE UNCHANGED vars \/ Deadline
  BY <1>2, <1>4 DEF vars, Deadline, Alone, Current
<1>5. ASSUME NEW r \in Req, Create(r)
      PROVE  Alone' /\ \A q \in Req : Current(q)'
  <2>1. \A q \in Req : req[q].at = "idle"
    BY <1>2, <1>5 DEF Create, Current
  <2>2. req'[r].at = "projecting" /\ \A q \in Req \ {r} : req'[q].at = "idle"
    BY <1>3, <1>5, <2>1 DEF Create, Project, Idle, TypeOK
  <2>3. session'.state = "AWAITING_JOIN"
    BY <1>3, <1>5 DEF Create, TypeOK, SessionRow
  <2> QED
    BY <2>2, <2>3 DEF Alone, Current, Reading
<1>6. ASSUME NEW r \in Req, NEW d \in Device, Join(r, d)
      PROVE  Alone' /\ \A q \in Req : Current(q)'
  <2> DEFINE n == [Idle EXCEPT !.at = "joining", !.device = d]
  <2>1. n \in Request /\ n.at = "joining"
    BY IdleType DEF Idle, Request, Places
  <2>2. Begin(r, n) /\ session.state = "AWAITING_JOIN"
    BY <1>6 DEF Join, Joinable
  <2> HIDE DEF n
  <2> QED
    BY <1>3, <2>1, <2>2, BeginsInTurn DEF Terminal
<1>7. ASSUME NEW r \in Req, NEW d \in Device, Confirm(r, d)
      PROVE  Alone' /\ \A q \in Req : Current(q)'
  <2> DEFINE n == IF BothConfirmed(d)
                  THEN [at |-> "confirming", device |-> d, state |-> "CONNECTING",
                        transport |-> FirstTransport]
                  ELSE [at |-> "confirming", device |-> d,
                        state |-> "AWAITING_CONFIRMATION", transport |-> session.transport]
  <2>1. n \in Request /\ n.at = "confirming"
    BY <1>3 DEF TypeOK, SessionRow, Request, Places, SessionStates, Live, FirstTransport,
                Transports, P2P, Relay
  <2>2. Begin(r, n) /\ session.state = "AWAITING_CONFIRMATION"
    BY <1>7 DEF Confirm
  <2> HIDE DEF n
  <2> QED
    BY <1>3, <2>1, <2>2, BeginsInTurn DEF Terminal
<1>8. ASSUME NEW r \in Req, NEW d \in Device, NEW t \in P2P \cup Relay, Connect(r, d, t)
      PROVE  Alone' /\ \A q \in Req : Current(q)'
  <2> DEFINE n == [at |-> "connecting", device |-> d, transport |-> t,
                   state |-> IF t \in {"P2P_ACTIVE", "RELAY_ACTIVE"} THEN "ACTIVE"
                                                                    ELSE "CONNECTING"]
  <2>1. n \in Request /\ n.at = "connecting" /\ n.state \in Live
    BY DEF Request, Places, SessionStates, Live, Transports
  <2>2. Begin(r, n) /\ session.state \in Live
    BY <1>8 DEF Connect, TransportMutable
  <2>3. session.state # "none" /\ session.state \notin Terminal
    BY <2>2 DEF Live, Terminal
  <2> HIDE DEF n
  <2> QED
    BY <1>3, <2>1, <2>2, <2>3, BeginsInTurn
<1>9. ASSUME NEW r \in Req, NEW d \in Device, NEW o \in Terminal, End(r, d, o)
      PROVE  Alone' /\ \A q \in Req : Current(q)'
  <2> DEFINE n == [Idle EXCEPT !.at = "ending", !.device = d, !.state = o]
  <2>1. n \in Request /\ n.at = "ending"
    BY IdleType DEF Idle, Request, Places, SessionStates
  <2>2. Begin(r, n) /\ session.state # "none"
    BY <1>9 DEF End
  <2> HIDE DEF n
  <2> QED
    BY <1>3, <2>1, <2>2, BeginsInTurn DEF Reading
<1>10. ASSUME NEW r \in Req, NEW d \in Device, Fallback(r, d)
       PROVE  Alone' /\ \A q \in Req : Current(q)'
  <2> DEFINE n == [Idle EXCEPT !.at = "preparing", !.device = d]
  <2>1. n \in Request /\ n.at = "preparing"
    BY IdleType DEF Idle, Request, Places
  <2>2. Begin(r, n) /\ session.state # "none"
    BY <1>10 DEF Fallback, NeedsFallback
  <2> HIDE DEF n
  <2> QED
    BY <1>3, <2>1, <2>2, BeginsInTurn DEF Reading
<1>11. ASSUME NEW r \in Req, Proceed(r)
       PROVE  Alone' /\ \A q \in Req : Current(q)'
  BY <1>2, <1>11, ProceedsInTurn
<1> QED
  BY <1>4, <1>5, <1>6, <1>7, <1>8, <1>9, <1>10, <1>11 DEF Next, Arrive

\* Where no request overlaps another, none brings a session back that has ended,
\* although joinSession, confirmSession and updateTransport write the state
\* without looking at the row again, and a request may stop half way.
THEOREM EndedSessionsStayEnded == Spec => EndedStaysEnded
<1>1. Init => InTurn
  BY DEF Init, InTurn, Alone, Current, Idle, Reading
<1>2. Handshake /\ InTurn /\ [Next]_vars =>
        [session.state \in Terminal /\ "overlap" \notin seen
           => session'.state \in Terminal]_vars
  <2> SUFFICES ASSUME Handshake, InTurn, Next, session.state \in Terminal,
                      "overlap" \notin seen
               PROVE  session'.state \in Terminal
    OBVIOUS
  <2>1. \A r \in Req : req[r].at \notin Reading
    BY DEF InTurn, Current
  <2>2. CASE \E r \in Req : EndCommit(r)
    <3> PICK r \in Req : EndCommit(r)
      BY <2>2
    <3>1. req[r].state \in Terminal
      BY DEF EndCommit, Handshake, Promise
    <3> QED
      BY <3>1 DEF EndCommit, Handshake, TypeOK, SessionRow
  <2>3. CASE \E r \in Req : FallbackCommit(r)
    BY <2>3 DEF FallbackCommit, Handshake, TypeOK, SessionRow
  <2>4. \A r \in Req : ~Create(r) /\ ~JoinCommit(r) /\ ~ConfirmCommit(r) /\ ~ConnectCommit(r)
    BY <2>1 DEF Create, JoinCommit, ConfirmCommit, ConnectCommit, Reading, Terminal
  <2> QED
    BY <2>2, <2>3, <2>4
       DEF Next, Deadline, Arrive, Join, Confirm, Connect, End, Fallback, Begin, Proceed,
           FallbackPrepare, ProjectRead, Record, LoseRequest
<1> QED
  BY <1>1, <1>2, HandshakeHolds, NextInTurn, PTL DEF Spec, EndedStaysEnded

-----------------------------------------------------------------------------
(***************************************************************************)
(* The relay.  The inductive invariant: each payload writes each row at    *)
(* most once, and until it has nothing there refers to it (Fresh).  An     *)
(* upload may remove the file it replaced at any later time, therefore,    *)
(* since no row will name that file again (Held).                          *)
(***************************************************************************)
\* Payload n has not come as far as the row of sequence q, and nothing has read it there.
Unused(n, q) ==
  /\ row[q].payload # n
  /\ \A m \in Payload : Uploading(m) /\ upload[m].sequence = q => upload[m].previous # n

\* The upload of the payload that is being sent is that of the sequence it is at.
InOrder ==
  sending # None =>
    /\ sent \in Payload
    /\ sending <= Size[sent]
    /\ Uploading(sent) => upload[sent].sequence = sending

\* Payload n has yet to write the row of sequence q.
Ahead(n, q) ==
  \/ n > sent
  \/ n = sent /\ sending # None /\ (q > sending \/ (q = sending /\ ~Uploading(n)))
  \/ upload[n].at \in {"read", "written"} /\ upload[n].sequence = q

Fresh ==
  \A n \in Payload :
    /\ Uploading(n) => n <= sent /\ upload[n].sequence # None
    /\ \A q \in Sequence : Ahead(n, q) => Unused(n, q)

\* The file a row names is there, and no upload is about to remove it.
Held ==
  /\ \A n \in Payload : upload[n].at = "written" => <<n, upload[n].sequence>> \in file
  /\ \A q \in Sequence : row[q].payload # None =>
       /\ <<row[q].payload, q>> \in file
       /\ \A n \in Payload :
            upload[n].at = "upserted" /\ upload[n].sequence = q
              => upload[n].previous # row[q].payload

\* Whoever has a key has the pair it came from.
Paired == \A s \in Side : key[s] # NoKey => pair[s] # None

Offered == RelayTypeOK /\ Paired /\ InOrder /\ Fresh /\ Held

Slot == [at : UploadSteps, sequence : Sequence \cup {None}, previous : 0..Sends]

LEMMA Sequences ==
  /\ Sends \in Nat /\ MaxPairs \in Nat
  /\ \A n \in Payload : n \in Nat /\ n # None /\ Size[n] \in Nat /\ Size[n] >= 1
  /\ \A n \in Payload : \A q \in 1..Size[n] : q \in Sequence
  /\ \A q \in Sequence : q \in Nat /\ q # None
BY RelayAssumption DEF Sequence, Payload, None

\* An upload that goes on keeps its sequence and what it read in the row.
LEMMA UploadGoesOn ==
  ASSUME RelayTypeOK, NEW n \in Payload, NEW at \in UploadSteps,
         upload' = [upload EXCEPT ![n].at = at]
  PROVE  /\ upload' \in [Payload -> Slot]
         /\ upload'[n].at = at
         /\ upload'[n].sequence = upload[n].sequence
         /\ upload'[n].previous = upload[n].previous
         /\ \A m \in Payload \ {n} : upload'[m] = upload[m]
<1> DEFINE moved == [upload[n] EXCEPT !.at = at]
<1>1. upload \in [Payload -> Slot] /\ upload[n] \in Slot
  BY DEF RelayTypeOK, Slot
<1>2. /\ moved \in Slot /\ moved.at = at
      /\ moved.sequence = upload[n].sequence /\ moved.previous = upload[n].previous
  BY <1>1 DEF Slot
<1>3. upload' = [upload EXCEPT ![n] = moved]
  OBVIOUS
<1> HIDE DEF moved
<1> QED
  BY <1>1, <1>2, <1>3

\* An acknowledgement keeps what the row names.
LEMMA AcknowledgedRow ==
  ASSUME RelayTypeOK, Acknowledge
  PROVE  /\ row' \in [Sequence -> ChunkRow]
         /\ \A q \in Sequence : row'[q].payload = row[q].payload
         /\ \A q \in Sequence : row'[q].receivedAt => row[q].receivedAt \/ q = receiving
<1> DEFINE marked == [row[receiving] EXCEPT !.receivedAt = TRUE]
<1>1. receiving \in Sequence /\ row \in [Sequence -> ChunkRow] /\ row[receiving] \in ChunkRow
  BY DEF RelayTypeOK, Acknowledge
<1>2. marked \in ChunkRow /\ marked.payload = row[receiving].payload
  BY <1>1 DEF ChunkRow
<1>3. row' = [row EXCEPT ![receiving] = marked]
  BY DEF Acknowledge
<1> HIDE DEF marked
<1> QED
  BY <1>1, <1>2, <1>3

LEMMA InitOffered == RelayInit => Offered
<1> SUFFICES ASSUME RelayInit PROVE Offered
  OBVIOUS
<1>1. RelayTypeOK
  <2>1. row \in [Sequence -> ChunkRow] /\ received \in [Sequence -> 0..Sends]
    BY Sequences DEF RelayInit, ChunkRow, NothingReceived, None
  <2>2. /\ upload \in [Payload -> Slot]
        /\ key \in [Side -> Keys] /\ sealed \in [Payload -> Keys]
    BY Sequences DEF RelayInit, Slot, UploadSteps, NotUploading, Keys, NoKey, None
  <2>3. /\ inbox \in [Side -> SUBSET (1..MaxPairs)]
        /\ pair \in [Side -> 0..MaxPairs] /\ made \in [Side -> 0..MaxPairs]
    BY Sequences DEF RelayInit, None
  <2>4. saved = received /\ sent \in 0..Sends
    BY Sequences DEF RelayInit
  <2> QED
    BY <2>1, <2>2, <2>3, <2>4 DEF RelayInit, RelayTypeOK, ExchangeStates, None, Slot
<1>2. \A n \in Payload : ~Uploading(n)
  BY DEF RelayInit, NotUploading, Uploading
<1>3. InOrder
  BY DEF RelayInit, InOrder
<1>4. Fresh
  BY <1>2, Sequences DEF RelayInit, Fresh, Unused, NotUploading, None
<1>5. Held
  BY <1>2 DEF RelayInit, Held, NotUploading
<1> QED
  BY <1>1, <1>3, <1>4, <1>5 DEF Offered, RelayInit, Paired

\* The steps of the exchange of keys, of the receiver and of the session.
LEMMA OthersTyped ==
  ASSUME RelayTypeOK,
         Exchange \/ Receive \/ \E outcome \in {"COMPLETED", "FAILED"} : EndSession(outcome)
  PROVE  RelayTypeOK'
<1> USE Sequences DEF RelayTypeOK, Side, Keys, None, serverVars, keyVars, sendVars, receiveVars
<1>1. ASSUME NEW s \in Side, Publish(s) \/ PublishFails(s) PROVE RelayTypeOK'
  <2>1. Announce(s) /\ made[s] + 1 \in 1..MaxPairs
    BY <1>1 DEF Publish, PublishFails, Announce
  <2>2. /\ made' \in [Side -> 0..MaxPairs] /\ made'[s] \in 1..MaxPairs
        /\ pair' \in [Side -> 0..MaxPairs] /\ published' \subseteq Side
    BY <2>1 DEF Announce
  <2>3. Announced(s) \in [Side -> SUBSET (1..MaxPairs)]
    BY <2>2 DEF Announced, Other
  <2>4. inbox' \in [Side -> SUBSET (1..MaxPairs)] /\ mishaps' \subseteq Mishap
    BY <1>1, <2>3 DEF Publish, PublishFails, Mishap
  <2> QED
    BY <2>1, <2>2, <2>4 DEF Announce
<1>2. ASSUME NEW s \in Side, PollSignals(s) PROVE RelayTypeOK'
  <2>1. /\ made' \in [Side -> 0..MaxPairs] /\ pair' \in [Side -> 0..MaxPairs]
        /\ mishaps' \subseteq Mishap
    <3>1. CASE pair[s] # None
      BY <1>2, <3>1 DEF PollSignals
    <3>2. CASE pair[s] = None
      <4>1. made[s] + 1 \in 0..MaxPairs
        BY <1>2, <3>2 DEF PollSignals
      <4>2. made' = [made EXCEPT ![s] = made[s] + 1] /\ pair' = [pair EXCEPT ![s] = made'[s]]
        BY <1>2, <3>2 DEF PollSignals
      <4>3. mishaps' = mishaps \cup {"exchange"}
        BY <1>2, <3>2 DEF PollSignals
      <4> QED
        BY <4>1, <4>2, <4>3 DEF Mishap
    <3> QED
      BY <3>1, <3>2
  <2>2. PICK public \in inbox[s] : key' = [key EXCEPT ![s] = KeyOf(s, pair'[s], public)]
    BY <1>2 DEF PollSignals
  <2>3. KeyOf(s, pair'[s], public) \in Keys
    BY <2>1, <2>2 DEF KeyOf
  <2>4. inbox' \in [Side -> SUBSET (1..MaxPairs)]
    BY <1>2 DEF PollSignals
  <2> QED
    BY <1>2, <2>1, <2>2, <2>3, <2>4 DEF PollSignals
<1>3. ASSUME NEW s \in Side, LosePoll(s) PROVE RelayTypeOK'
  BY <1>3 DEF LosePoll, Mishap
<1>4. ASSUME NEW s \in Side, Reload(s) PROVE RelayTypeOK'
  <2>1. NoKey \in Keys /\ NothingReceived \in [Sequence -> 0..Sends]
    BY DEF NoKey, NothingReceived
  <2> HIDE DEF Keys
  <2>2. pair' \in [Side -> 0..MaxPairs] /\ key' \in [Side -> Keys] /\ published' \subseteq Side
    BY <1>4, <2>1 DEF Reload
  <2> QED
    BY <1>4, <2>1, <2>2 DEF Reload
<1>5. CASE ListRelayChunks
  BY <1>5 DEF ListRelayChunks, Pending
<1>6. ASSUME NEW q \in Sequence, ReceiveChunk(q) PROVE RelayTypeOK'
  BY <1>6 DEF ReceiveChunk, ChunkRow
<1>7. CASE Acknowledge \/ AcknowledgeFails
  BY <1>7, AcknowledgedRow DEF Acknowledge, AcknowledgeFails
<1>8. CASE SaveRelayPayload
  BY <1>8 DEF SaveRelayPayload, Mishap, ExchangeStates
<1>9. ASSUME NEW outcome \in {"COMPLETED", "FAILED"}, EndSession(outcome) PROVE RelayTypeOK'
  BY <1>9 DEF EndSession, ExchangeStates
<1> QED
  BY <1>1, <1>2, <1>3, <1>4, <1>5, <1>6, <1>7, <1>8, <1>9 DEF Exchange, Receive

LEMMA SendTyped ==
  ASSUME RelayTypeOK, Paired, InOrder, Fresh, Send
  PROVE  RelayTypeOK'
<1> USE Sequences DEF RelayTypeOK, Side, None, serverVars, keyVars, sendVars, receiveVars
<1>1. CASE SendRelay
  <2>1. sent + 1 \in Payload
    BY <1>1 DEF SendRelay, Payload
  <2>3. 1 \in Sequence
    BY <2>1
  <2>2. pair["sender"] \in 1..MaxPairs
    BY <1>1 DEF SendRelay, Paired
  <2> QED
    BY <1>1, <2>1, <2>2, <2>3 DEF SendRelay, Mishap
<1>2. CASE UploadRead
  BY <1>2 DEF UploadRead, ChunkRow, UploadSteps
<1>3. CASE SendBreaksOff
  BY <1>3 DEF SendBreaksOff, Mishap
<1>4. ASSUME NEW n \in Payload, UploadWrite(n) PROVE RelayTypeOK'
  <2>1. upload' \in [Payload -> Slot]
    BY <1>4, UploadGoesOn DEF UploadWrite, UploadSteps
  <2>2. upload[n].sequence \in Sequence
    BY <1>4 DEF UploadWrite, Fresh, Uploading
  <2> QED
    BY <1>4, <2>1, <2>2 DEF UploadWrite, Chunk, Slot
<1>5. ASSUME NEW n \in Payload, UploadUpsert(n) PROVE RelayTypeOK'
  <2>1. upload' \in [Payload -> Slot]
    BY <1>5, UploadGoesOn DEF UploadUpsert, UploadSteps
  <2>2. [payload |-> n, receivedAt |-> FALSE] \in ChunkRow
    BY DEF ChunkRow, Payload
  <2> QED
    BY <1>5, <2>1, <2>2 DEF UploadUpsert, Slot
<1>6. ASSUME NEW n \in Payload, UploadRemove(n) PROVE RelayTypeOK'
  <2>1. NotUploading \in Slot
    BY DEF NotUploading, Slot, UploadSteps
  <2>2. sending' \in Sequence \cup {None}
    <3>1. CASE n = sent /\ sending # None /\ sending # Size[n]
      <4>1. sending + 1 \in 1..Size[n]
        BY <3>1 DEF InOrder
      <4>2. sending + 1 \in Sequence
        BY <4>1
      <4> QED
        BY <1>6, <3>1, <4>2 DEF UploadRemove, NextSequence
    <3>2. CASE ~(n = sent /\ sending # None /\ sending # Size[n])
      <4>1. upload[n].sequence # None
        BY <1>6 DEF UploadRemove, Fresh, Uploading
      <4> QED
        BY <1>6, <3>2, <4>1 DEF UploadRemove, NextSequence
    <3> QED
      BY <3>1, <3>2
  <2> QED
    BY <1>6, <2>1, <2>2 DEF UploadRemove, Slot
<1>7. ASSUME NEW n \in Payload, UploadFails(n) PROVE RelayTypeOK'
  BY <1>7 DEF UploadFails, UploadSteps, NotUploading, Mishap
<1> QED
  BY <1>1, <1>2, <1>3, <1>4, <1>5, <1>6, <1>7 DEF Send

\* What the other steps leave to the uploads.
LEMMA OthersLeave ==
  ASSUME RelayTypeOK,
         Exchange \/ Receive \/ \E outcome \in {"COMPLETED", "FAILED"} : EndSession(outcome)
  PROVE  /\ UNCHANGED <<file, upload, sent>>
         /\ \A q \in Sequence : row'[q].payload = row[q].payload
         /\ sending' \in {sending, None}
<1> USE DEF serverVars, keyVars, sendVars, receiveVars
<1>1. CASE Exchange
  BY <1>1 DEF Exchange, Publish, PublishFails, Announce, PollSignals, LosePoll, Reload
<1>2. CASE Receive /\ ~Acknowledge
  BY <1>2 DEF Receive, ListRelayChunks, ReceiveChunk, AcknowledgeFails, SaveRelayPayload
<1>3. CASE Acknowledge
  BY <1>3, AcknowledgedRow DEF Acknowledge
<1> QED
  BY <1>1, <1>2, <1>3 DEF EndSession

LEMMA StaysPaired ==
  ASSUME RelayTypeOK, Paired, [RelayNext]_relayVars
  PROVE  Paired'
<1> USE DEF RelayTypeOK, Paired, Side, None, serverVars, keyVars, sendVars, receiveVars
<1>1. CASE UNCHANGED <<pair, key>>
  BY <1>1
<1>2. ASSUME NEW s \in Side, Publish(s) \/ PublishFails(s) PROVE Paired'
  BY <1>2, Sequences DEF Publish, PublishFails, Announce
<1>3. ASSUME NEW s \in Side, PollSignals(s) PROVE Paired'
  <2>1. pair' = [pair EXCEPT ![s] = pair'[s]] /\ pair'[s] # None
    BY <1>3, Sequences DEF PollSignals
  <2>2. \A other \in Side \ {s} : key'[other] = key[other]
    BY <1>3 DEF PollSignals
  <2> QED
    BY <2>1, <2>2
<1>4. ASSUME NEW s \in Side, Reload(s) PROVE Paired'
  BY <1>4 DEF Reload
<1>5. CASE Send \/ Receive
  BY <1>1, <1>5 DEF Send, SendRelay, UploadRead, SendBreaksOff, UploadWrite, UploadUpsert,
     UploadRemove, UploadFails, Receive, ListRelayChunks, ReceiveChunk, Acknowledge,
     AcknowledgeFails, SaveRelayPayload
<1> QED
  BY <1>1, <1>2, <1>3, <1>4, <1>5 DEF RelayNext, Exchange, LosePoll, EndSession, relayVars

\* One sequence after another.
LEMMA SendInOrder ==
  ASSUME RelayTypeOK, InOrder, Fresh, Send
  PROVE  InOrder'
<1> USE Sequences DEF RelayTypeOK, InOrder, Uploading, Payload
<1>1. CASE SendRelay
  <2>1. sent' = sent + 1 /\ sending' = 1 /\ sent' \in Payload /\ upload' = upload
    BY <1>1 DEF SendRelay
  <2>2. ~Uploading(sent')
    BY <2>1 DEF Fresh
  <2> QED
    BY <2>1, <2>2
<1>2. CASE UploadRead
  BY <1>2 DEF UploadRead, sendVars
<1>3. CASE SendBreaksOff
  BY <1>3 DEF SendBreaksOff
<1>4. ASSUME NEW n \in Payload, UploadWrite(n) \/ UploadUpsert(n) PROVE InOrder'
  <2>1. PICK at \in {"written", "upserted"} : upload' = [upload EXCEPT ![n].at = at]
    BY <1>4 DEF UploadWrite, UploadUpsert
  <2>2. UNCHANGED <<sent, sending>> /\ Uploading(n)
    BY <1>4 DEF UploadWrite, UploadUpsert, sendVars
  <2>3. \A m \in Payload : upload'[m].sequence = upload[m].sequence
    BY <2>1, UploadGoesOn DEF UploadSteps
  <2>4. \A m \in Payload \ {n} : upload'[m] = upload[m]
    BY <2>1, UploadGoesOn DEF UploadSteps
  <2> QED
    BY <2>2, <2>3, <2>4
<1>5. ASSUME NEW n \in Payload, UploadRemove(n) PROVE InOrder'
  <2>1. /\ upload'[n] = NotUploading /\ sent' = sent
        /\ \A m \in Payload \ {n} : upload'[m] = upload[m]
    BY <1>5 DEF UploadRemove
  <2>2. CASE n = sent /\ sending = upload[n].sequence
    BY <1>5, <2>1, <2>2 DEF UploadRemove, NextSequence, NotUploading, None, Fresh
  <2>3. CASE ~(n = sent /\ sending = upload[n].sequence)
    BY <1>5, <2>1, <2>3 DEF UploadRemove, NotUploading
  <2> QED
    BY <2>2, <2>3
<1>6. ASSUME NEW n \in Payload, UploadFails(n) PROVE InOrder'
  BY <1>6 DEF UploadFails, NotUploading
<1> QED
  BY <1>1, <1>2, <1>3, <1>4, <1>5, <1>6 DEF Send

\* Steps that leave the uploads alone.
LEMMA LeavesFresh ==
  ASSUME RelayTypeOK, InOrder, Fresh, Held,
         UNCHANGED <<file, upload, sent>>,
         \A q \in Sequence : row'[q].payload = row[q].payload,
         sending' \in {sending, None}
  PROVE  InOrder' /\ Fresh' /\ Held'
<1>1. \A n \in Payload : Uploading(n)' <=> Uploading(n)
  BY DEF Uploading
<1>2. \A n \in Payload, q \in Sequence : Unused(n, q)' <=> Unused(n, q)
  BY DEF Unused, Uploading
<1>3. \A n \in Payload, q \in Sequence : Ahead(n, q)' => Ahead(n, q)
  BY <1>1 DEF Ahead
<1>4. InOrder'
  BY <1>1 DEF InOrder
<1>5. Fresh'
  BY <1>1, <1>2, <1>3 DEF Fresh
<1>6. Held'
  BY DEF Held
<1> QED
  BY <1>4, <1>5, <1>6

\* sendRelay takes a payload that nothing has met.
LEMMA SendRelayFresh ==
  ASSUME RelayTypeOK, InOrder, Fresh, Held, SendRelay
  PROVE  Fresh' /\ Held'
<1>1. /\ UNCHANGED <<row, file, upload>> /\ sent' = sent + 1 /\ sent + 1 \in Payload
      /\ sent \in Nat /\ sending' = 1
  BY Sequences DEF SendRelay, RelayTypeOK, Payload
<1>2. \A n \in Payload : Uploading(n)' <=> Uploading(n)
  BY <1>1 DEF Uploading
<1>3. \A n \in Payload, q \in Sequence : Unused(n, q)' <=> Unused(n, q)
  BY <1>1 DEF Unused, Uploading
<1>4. \A n \in Payload, q \in Sequence : Ahead(n, q)' => Ahead(n, q)
  BY <1>1, <1>2, Sequences DEF Ahead
<1>5. \A n \in Payload : n <= sent => n <= sent + 1
  BY <1>1, Sequences
<1>6. Fresh'
  BY <1>1, <1>2, <1>3, <1>4, <1>5 DEF Fresh
<1>7. Held'
  BY <1>1 DEF Held
<1> QED
  BY <1>6, <1>7

\* What the row names now, the upload of this payload is not.
LEMMA UploadReadFresh ==
  ASSUME RelayTypeOK, InOrder, Fresh, Held, UploadRead
  PROVE  Fresh' /\ Held'
<1> DEFINE read == [at |-> "read", sequence |-> sending, previous |-> row[sending].payload]
<1>1. /\ sent \in Payload /\ sending \in Sequence /\ sending # None /\ ~Uploading(sent)
      /\ UNCHANGED <<row, file, sent, sending>>
      /\ upload' = [upload EXCEPT ![sent] = read]
  BY DEF UploadRead, InOrder, RelayTypeOK, sendVars
<1>2. /\ upload'[sent] = read
      /\ \A m \in Payload \ {sent} : upload'[m] = upload[m]
  BY <1>1 DEF RelayTypeOK
<1>3. read.at = "read" /\ read.sequence = sending /\ read.previous = row[sending].payload
  OBVIOUS
<1> HIDE DEF read
<1>4. ASSUME NEW n \in Payload, NEW q \in Sequence, Unused(n, q) PROVE Unused(n, q)'
  BY <1>1, <1>2, <1>3, <1>4 DEF Unused, Uploading
<1>5. ASSUME NEW n \in Payload, NEW q \in Sequence, Ahead(n, q)' PROVE Ahead(n, q)
  BY <1>1, <1>2, <1>3, <1>5 DEF Ahead, Uploading
<1>6. \A n \in Payload : Uploading(n)' => n <= sent /\ upload'[n].sequence # None
  BY <1>1, <1>2, <1>3, Sequences DEF Fresh, Uploading
<1>7. Fresh'
  BY <1>1, <1>4, <1>5, <1>6 DEF Fresh
<1>8. Held'
  <2>1. \A n \in Payload :
          upload'[n].at \in {"written", "upserted"} => n # sent /\ upload'[n] = upload[n]
    BY <1>2, <1>3
  <2> QED
    BY <1>1, <2>1 DEF Held
<1> QED
  BY <1>7, <1>8

LEMMA UploadWriteFresh ==
  ASSUME RelayTypeOK, InOrder, Fresh, Held, NEW n \in Payload, UploadWrite(n)
  PROVE  Fresh' /\ Held'
<1>1. /\ UNCHANGED <<row, sent, sending>> /\ file' = file \cup {<<n, upload[n].sequence>>}
      /\ upload[n].at = "read" /\ upload' = [upload EXCEPT ![n].at = "written"]
  BY DEF UploadWrite, sendVars
<1>2. /\ upload'[n].at = "written" /\ upload'[n].sequence = upload[n].sequence
      /\ upload'[n].previous = upload[n].previous
      /\ \A m \in Payload \ {n} : upload'[m] = upload[m]
  BY <1>1, UploadGoesOn DEF UploadSteps
<1>3. \A m \in Payload : Uploading(m)' <=> Uploading(m)
  BY <1>1, <1>2 DEF Uploading
<1>4. \A m \in Payload : /\ upload'[m].sequence = upload[m].sequence
                          /\ upload'[m].previous = upload[m].previous
  BY <1>2
<1>5. \A m \in Payload, q \in Sequence : Unused(m, q)' <=> Unused(m, q)
  BY <1>1, <1>3, <1>4 DEF Unused
<1>6. \A m \in Payload, q \in Sequence : Ahead(m, q)' => Ahead(m, q)
  BY <1>1, <1>2, <1>3 DEF Ahead
<1>7. Fresh'
  BY <1>1, <1>3, <1>4, <1>5, <1>6 DEF Fresh
<1>8. Held'
  BY <1>1, <1>2 DEF Held
<1> QED
  BY <1>7, <1>8

\* The row names the new file, which nobody has read there.
LEMMA UploadUpsertFresh ==
  ASSUME RelayTypeOK, InOrder, Fresh, Held, NEW n \in Payload, UploadUpsert(n)
  PROVE  Fresh' /\ Held'
<1> DEFINE s == upload[n].sequence
<1>1. /\ UNCHANGED <<file, sent, sending>> /\ upload[n].at = "written" /\ Uploading(n)
      /\ upload' = [upload EXCEPT ![n].at = "upserted"]
      /\ row' = [row EXCEPT ![s] = [payload |-> n, receivedAt |-> FALSE]]
  BY DEF UploadUpsert, sendVars, Uploading
<1>2. /\ upload'[n].at = "upserted" /\ upload'[n].sequence = s
      /\ upload'[n].previous = upload[n].previous
      /\ \A m \in Payload \ {n} : upload'[m] = upload[m]
  BY <1>1, UploadGoesOn DEF UploadSteps
<1>3. n <= sent /\ s \in Sequence
  BY <1>1 DEF Fresh, RelayTypeOK
<1>4. Unused(n, s) /\ <<n, s>> \in file
  BY <1>1, <1>3 DEF Fresh, Held, Ahead
<1>5. /\ row'[s].payload = n
      /\ \A q \in Sequence \ {s} : row'[q] = row[q]
  BY <1>1, <1>3 DEF RelayTypeOK
<1>6. \A m \in Payload : Uploading(m)' <=> Uploading(m)
  BY <1>1, <1>2 DEF Uploading
<1>7. \A m \in Payload : /\ upload'[m].sequence = upload[m].sequence
                          /\ upload'[m].previous = upload[m].previous
  BY <1>2
<1>8. n = sent /\ sending # None => s = sending
  BY <1>1 DEF InOrder
<1>9. sent \in Nat /\ (sending # None => sending \in Nat)
  BY Sequences DEF RelayTypeOK
<1> HIDE DEF s
<1>10. ASSUME NEW m \in Payload, NEW q \in Sequence, Unused(m, q), m # n \/ q # s
       PROVE  Unused(m, q)'
  BY <1>5, <1>6, <1>7, <1>10 DEF Unused
<1>11. ASSUME NEW m \in Payload, NEW q \in Sequence, Ahead(m, q)'
       PROVE  Ahead(m, q) /\ (m # n \/ q # s)
  <2>1. Ahead(m, q)
    BY <1>1, <1>2, <1>6, <1>11 DEF Ahead
  <2>2. ASSUME m = n, q = s PROVE FALSE
    BY <1>1, <1>2, <1>3, <1>6, <1>8, <1>9, <1>11, <2>2, Sequences DEF Ahead
  <2> QED
    BY <2>1, <2>2
<1>12. Fresh'
  BY <1>1, <1>6, <1>7, <1>10, <1>11 DEF Fresh
<1>13. Held'
  <2>1. \A m \in Payload : upload'[m].at = "written" => upload'[m] = upload[m]
    BY <1>2
  <2>2. ASSUME NEW q \in Sequence, row'[q].payload # None
        PROVE  /\ <<row'[q].payload, q>> \in file
               /\ \A m \in Payload : upload'[m].at = "upserted" /\ upload'[m].sequence = q
                    => upload'[m].previous # row'[q].payload
    <3>1. CASE q = s
      BY <1>1, <1>2, <1>4, <1>5, <1>6, <1>7, <3>1 DEF Unused, Uploading
    <3>2. CASE q # s
      <4>1. row'[q] = row[q]
        BY <1>5, <3>2
      <4>2. \A m \in Payload : upload'[m].at = "upserted" /\ upload'[m].sequence = q
                               => upload'[m] = upload[m]
        BY <1>2, <3>2
      <4> QED
        BY <2>2, <4>1, <4>2 DEF Held
    <3> QED
      BY <3>1, <3>2
  <2> QED
    BY <1>1, <2>1, <2>2 DEF Held
<1> QED
  BY <1>12, <1>13

\* The file it removes is named no more: it was replaced once and will not return.
LEMMA UploadEndsFresh ==
  ASSUME RelayTypeOK, InOrder, Fresh, Held, NEW n \in Payload,
         UploadRemove(n) \/ UploadFails(n)
  PROVE  Fresh' /\ Held'
<1>1. /\ UNCHANGED <<row, sent>> /\ Uploading(n)
      /\ upload' = [upload EXCEPT ![n] = NotUploading]
  BY DEF UploadRemove, UploadFails, Uploading
<1>2. /\ upload'[n] = NotUploading /\ upload'[n].at = "done"
      /\ \A m \in Payload \ {n} : upload'[m] = upload[m]
  BY <1>1 DEF RelayTypeOK, NotUploading
<1>3. \A m \in Payload : Uploading(m)' => m # n /\ upload'[m] = upload[m] /\ Uploading(m)
  BY <1>2 DEF Uploading
<1>4. ASSUME NEW m \in Payload, NEW q \in Sequence, Unused(m, q) PROVE Unused(m, q)'
  BY <1>1, <1>3, <1>4 DEF Unused
<1>5. ASSUME NEW m \in Payload, NEW q \in Sequence, Ahead(m, q)' PROVE Ahead(m, q)
  <2>1. CASE m # n
    <3>1. m = sent => sending' = sending
      BY <2>1 DEF UploadRemove, UploadFails
    <3> QED
      BY <1>1, <1>2, <1>5, <2>1, <3>1 DEF Ahead, Uploading
  <2>2. CASE m = n /\ m = sent /\ sending' # None
    <3>1. UploadRemove(n) /\ sending # None /\ sending = upload[n].sequence
      BY <1>1, <2>2 DEF UploadRemove, UploadFails, InOrder, Fresh
    <3>2. sending' = sending + 1 /\ sending \in Nat
      BY <2>2, <3>1, Sequences DEF UploadRemove, NextSequence, RelayTypeOK
    <3> QED
      BY <1>1, <1>2, <1>5, <2>2, <3>1, <3>2, Sequences DEF Ahead
  <2>3. CASE m = n /\ ~(m = sent /\ sending' # None)
    BY <1>1, <1>2, <1>5, <2>3 DEF Ahead
  <2> QED
    BY <2>1, <2>2, <2>3
<1>6. Fresh'
  BY <1>1, <1>3, <1>4, <1>5 DEF Fresh
<1>7. Held'
  <2>1. CASE UNCHANGED file
    BY <1>1, <1>3, <2>1 DEF Held, Uploading
  <2>2. CASE UploadRemove(n)
    <3> DEFINE gone == <<upload[n].previous, upload[n].sequence>>
    <3>1. file' = file \ {gone} /\ upload[n].at = "upserted"
      BY <2>2 DEF UploadRemove, RemovePrevious
    <3>2. ASSUME NEW m \in Payload, upload'[m].at = "written"
          PROVE  <<m, upload'[m].sequence>> # gone
      <4>1. upload'[m] = upload[m] /\ Uploading(m) /\ upload[m].sequence \in Sequence
        BY <1>3, <3>2 DEF Uploading, Fresh, RelayTypeOK
      <4>2. Unused(m, upload[m].sequence)
        BY <3>2, <4>1 DEF Fresh, Ahead
      <4> QED
        BY <1>1, <4>1, <4>2 DEF Unused
    <3>3. ASSUME NEW q \in Sequence, row[q].payload # None
          PROVE  <<row[q].payload, q>> # gone
      BY <3>1, <3>3 DEF Held
    <3> QED
      BY <1>1, <1>3, <3>1, <3>2, <3>3 DEF Held, Uploading
  <2> QED
    BY <2>1, <2>2 DEF UploadFails
<1> QED
  BY <1>6, <1>7

LEMMA NextOffered == Offered /\ [RelayNext]_relayVars => Offered'
<1> SUFFICES ASSUME Offered, [RelayNext]_relayVars PROVE Offered'
  OBVIOUS
<1> USE DEF Offered
<1>1. Paired'
  BY StaysPaired
<1>2. CASE Exchange \/ Receive \/ \E outcome \in {"COMPLETED", "FAILED"} : EndSession(outcome)
  <2>1. RelayTypeOK'
    BY <1>2, OthersTyped
  <2>2. InOrder' /\ Fresh' /\ Held'
    BY <1>2, OthersLeave, LeavesFresh
  <2> QED
    BY <1>1, <2>1, <2>2
<1>3. CASE Send
  <2>1. RelayTypeOK' /\ InOrder'
    BY <1>3, SendTyped, SendInOrder
  <2>2. CASE SendBreaksOff
    BY <1>1, <2>1, <2>2, LeavesFresh DEF SendBreaksOff, serverVars
  <2>3. CASE ~SendBreaksOff
    <3>1. Fresh' /\ Held'
      BY <1>3, <2>3, SendRelayFresh, UploadReadFresh, UploadWriteFresh, UploadUpsertFresh,
         UploadEndsFresh DEF Send
    <3> QED
      BY <1>1, <2>1, <3>1
  <2> QED
    BY <2>2, <2>3
<1>4. CASE UNCHANGED relayVars
  <2>1. RelayTypeOK'
    BY <1>4 DEF relayVars, serverVars, keyVars, sendVars, receiveVars, RelayTypeOK
  <2>2. InOrder' /\ Fresh' /\ Held'
    BY <1>4, LeavesFresh DEF relayVars, serverVars, sendVars
  <2> QED
    BY <1>1, <2>1, <2>2
<1> QED
  BY <1>2, <1>3, <1>4 DEF RelayNext

LEMMA OfferedHolds == RelaySpec => []Offered
  BY InitOffered, NextOffered, PTL DEF RelaySpec

\* Types, for any number of payloads, chunks and key pairs.
THEOREM RelayTypeCorrect == RelaySpec => []RelayTypeOK
<1>1. Offered => RelayTypeOK
  BY DEF Offered
<1> QED
  BY <1>1, OfferedHolds, PTL

\* For any number and sizes of payloads, a relay chunk on offer can be downloaded: no
\* upload, however late, removes the file that a row names.
THEOREM OfferedChunksAreThere == RelaySpec => []OfferedIsThere
<1>1. Offered => OfferedIsThere
  BY DEF Offered, Held, OfferedIsThere, Downloadable
<1> QED
  BY <1>1, OfferedHolds, PTL

-----------------------------------------------------------------------------
(***************************************************************************)
(* One payload, sent once and saved whole.  While nothing has gone wrong   *)
(* the rows are the chunks sent so far, each of which the receiver has, or *)
(* has in its list, once it has asked for it; an acknowledged one it has.  *)
(***************************************************************************)
Arrived(q) == sending = None \/ q < sending \/ (q = sending /\ upload[1].at = "upserted")

Regular ==
  "payload" \notin mishaps =>
    /\ sent \in {0, 1}
    /\ sent = 1 /\ Uploading(1) => sending # None
    /\ \A q \in Sequence :
         /\ row[q].payload = IF sent = 1 /\ q <= Size[1] /\ Arrived(q) THEN 1 ELSE None
         /\ row[q].receivedAt => received[q] # None
         /\ received[q] # None \/ q \in listing => row[q].payload = 1
         /\ received[q] \in {None, 1}
    /\ receiving # None => received[receiving] # None
    /\ listedAll =>
         /\ sent = 1 /\ sending = None
         /\ \A q \in 1..Size[1] : q \in listing \/ received[q] # None
    /\ saved # NothingReceived => saved = Whole(1)

\* Steps that touch neither the payload nor its reception, and those that say so.
LEMMA LeavesRegular ==
  ASSUME Regular, mishaps \subseteq mishaps',
         \/ "payload" \in mishaps'
         \/ UNCHANGED <<row, sent, sending, upload, received, receiving, listing, listedAll, saved>>
  PROVE  Regular'
BY DEF Regular, Arrived, Uploading, Whole, NothingReceived

LEMMA ReceiveRegular ==
  ASSUME Offered, Regular, Receive, "payload" \notin mishaps'
  PROVE  Regular'
<1> USE DEF serverVars, keyVars, sendVars, receiveVars
<1>1. "payload" \notin mishaps
  BY DEF Receive, ListRelayChunks, ReceiveChunk, Acknowledge, AcknowledgeFails, SaveRelayPayload
<1>2. CASE ListRelayChunks
  <2>1. /\ UNCHANGED <<row, sent, sending, upload, received, receiving, saved>>
        /\ listing' = Pending /\ listedAll' = (sent > 0 /\ sending = None)
    BY <1>2 DEF ListRelayChunks
  <2>2. \A q \in Sequence : q \in Pending => row[q].payload = 1
    BY <1>1 DEF Regular, Pending
  <2>3. ASSUME sent > 0, sending = None, NEW q \in 1..Size[1]
        PROVE  sent = 1 /\ (q \in Pending \/ received[q] # None)
    <3>1. sent = 1 /\ 1 \in Payload
      BY <1>1, <2>3, Sequences DEF Regular, Payload, Offered, RelayTypeOK
    <3>2. q \in Sequence /\ q <= Size[1]
      BY <2>3, <3>1, Sequences
    <3>3. row[q].payload = 1
      BY <1>1, <2>3, <3>1, <3>2 DEF Regular, Arrived
    <3> QED
      BY <1>1, <3>1, <3>2, <3>3 DEF Regular, Pending, None
  <2>4. listedAll' => sent = 1 /\ sending = None
                      /\ \A q \in 1..Size[1] : q \in listing' \/ received[q] # None
    <3>1. sent > 0 => sent = 1
      BY <1>1 DEF Regular
    <3> QED
      BY <2>1, <2>3, <3>1
  <2> QED
    BY <1>1, <2>1, <2>2, <2>4 DEF Regular, Arrived, Uploading, Whole, NothingReceived
<1>3. ASSUME NEW p \in Sequence, ReceiveChunk(p) PROVE Regular'
  <2>1. /\ UNCHANGED <<row, sent, sending, upload, listing, listedAll, saved>>
        /\ received' = [received EXCEPT ![p] = row[p].payload] /\ receiving' = p
        /\ row[p].payload = 1
    BY <1>1, <1>3 DEF ReceiveChunk, Regular
  <2>2. received'[p] = 1 /\ \A q \in Sequence \ {p} : received'[q] = received[q]
    BY <2>1 DEF Offered, RelayTypeOK
  <2>3. \A q \in Sequence : received[q] # None => received'[q] # None
    BY <2>2 DEF None
  <2>4. listedAll => 1 \in Payload
    BY <1>1, Sequences DEF Regular, Offered, RelayTypeOK, Payload
  <2>5. listedAll => \A q \in 1..Size[1] : q \in listing \/ received'[q] # None
    BY <1>1, <2>3, <2>4, Sequences DEF Regular
  <2> QED
    BY <1>1, <2>1, <2>2, <2>3, <2>5 DEF Regular, Arrived, Uploading, Whole,
       NothingReceived, None
<1>4. CASE Acknowledge
  <2>1. /\ UNCHANGED <<sent, sending, upload, received, listing, listedAll, saved>>
        /\ receiving' = None /\ received[receiving] # None /\ receiving # None
    BY <1>1, <1>4 DEF Acknowledge, Regular
  <2>2. \A q \in Sequence : /\ row'[q].payload = row[q].payload
                            /\ row'[q].receivedAt => row[q].receivedAt \/ q = receiving
    BY <1>4, AcknowledgedRow DEF Offered
  <2> QED
    BY <1>1, <2>1, <2>2 DEF Regular, Arrived, Uploading, Whole, NothingReceived
<1>5. CASE AcknowledgeFails
  BY <1>1, <1>5 DEF AcknowledgeFails, Regular, Arrived, Uploading, Whole, NothingReceived
<1>6. CASE SaveRelayPayload
  <2>1. /\ UNCHANGED <<row, sent, sending, upload, received, receiving, listing, listedAll>>
        /\ saved' = received /\ listedAll /\ \A q \in listing : received[q] # None
    BY <1>6 DEF SaveRelayPayload, CanSave
  <2>2. 1 \in Payload
    BY <1>1, <2>1, Sequences DEF Regular, Offered, RelayTypeOK, Payload
  <2>3. ASSUME NEW q \in Sequence PROVE received[q] = IF q \in 1..Size[1] THEN 1 ELSE None
    <3>1. CASE q \in 1..Size[1]
      BY <1>1, <2>1, <3>1 DEF Regular
    <3>2. CASE q \notin 1..Size[1]
      BY <1>1, <2>2, <3>2, Sequences DEF Regular, None
    <3> QED
      BY <3>1, <3>2
  <2>4. received = Whole(1)
    BY <2>3 DEF Whole, Offered, RelayTypeOK
  <2> QED
    BY <1>1, <2>1, <2>4 DEF Regular, Arrived, Uploading, Whole, NothingReceived
<1> QED
  BY <1>2, <1>3, <1>4, <1>5, <1>6 DEF Receive

LEMMA SendRegular ==
  ASSUME Offered, Regular, Send, "payload" \notin mishaps'
  PROVE  Regular'
<1> USE DEF serverVars, keyVars, sendVars, receiveVars
<1>1. "payload" \notin mishaps
  BY DEF Send, SendRelay, UploadRead, SendBreaksOff, UploadWrite, UploadUpsert, UploadRemove,
         UploadFails
<1>2. /\ UNCHANGED <<received, receiving, listing, listedAll, saved>>
  BY DEF Send, SendRelay, UploadRead, SendBreaksOff, UploadWrite, UploadUpsert, UploadRemove,
         UploadFails
<1>3. sent \in {0, 1} /\ \A n \in Payload : Uploading(n) => n = 1 /\ sent = 1
  <2>1. sent \in {0, 1}
    BY <1>1 DEF Regular
  <2>2. \A n \in Payload : Uploading(n) => n <= sent
    BY DEF Offered, Fresh
  <2> QED
    BY <2>1, <2>2, Sequences DEF None
<1>4. CASE SendRelay
  <2>1. sent = 0 /\ sent' = 1 /\ sending' = 1 /\ UNCHANGED <<row, upload>> /\ ~listedAll
    BY <1>1, <1>4 DEF SendRelay, Regular
  <2>2. 1 \in Payload /\ upload[1].at = "done"
    BY <1>3, <1>4, <2>1, Sequences DEF SendRelay, Payload, Uploading
  <2>3. \A q \in Sequence : row[q].payload = None
    BY <1>1, <2>1 DEF Regular
  <2>4. \A q \in Sequence : ~Arrived(q)'
    BY <2>1, <2>2, Sequences DEF Arrived, None
  <2> QED
    BY <1>1, <1>2, <2>1, <2>2, <2>3, <2>4 DEF Regular, Uploading, Whole, NothingReceived, None
<1>5. ASSUME sent = 1, 1 \in Payload, sending # None, sent' = 1, row' = row,
             \A q \in 1..Size[1] : Arrived(q)' <=> Arrived(q),
             Uploading(1)' => sending' # None, mishaps' = mishaps
      PROVE  Regular'
  <2>1. \A q \in Sequence : q <= Size[1] => q \in 1..Size[1]
    BY <1>5, Sequences DEF None
  <2>2. ~listedAll
    BY <1>1, <1>5 DEF Regular
  <2> QED
    BY <1>1, <1>2, <1>5, <2>1, <2>2 DEF Regular, Whole, NothingReceived
<1>6. CASE UploadRead
  <2>1. /\ sending # None /\ sent \in Payload /\ sent = 1
        /\ UNCHANGED <<row, sent, sending, mishaps>> /\ ~Uploading(1)
    BY <1>3, <1>6, Sequences DEF UploadRead, Offered, InOrder, None
  <2>2. upload'[1].at = "read"
    BY <1>6, <2>1 DEF UploadRead, Offered, RelayTypeOK
  <2> QED
    BY <1>5, <2>1, <2>2 DEF Arrived, Uploading
<1>7. ASSUME NEW n \in Payload, UploadWrite(n) PROVE Regular'
  <2>1. /\ Uploading(n) /\ upload[n].at = "read" /\ UNCHANGED <<row, sent, sending, mishaps>>
        /\ upload' = [upload EXCEPT ![n].at = "written"]
    BY <1>7 DEF UploadWrite, Uploading
  <2>2. n = 1 /\ sent = 1 /\ sending # None
    BY <1>1, <1>3, <2>1 DEF Regular
  <2>3. upload'[1].at = "written"
    BY <2>1, <2>2, UploadGoesOn DEF Offered, UploadSteps
  <2> QED
    BY <1>5, <2>1, <2>2, <2>3 DEF Arrived
<1>8. ASSUME NEW n \in Payload, UploadUpsert(n) PROVE Regular'
  <2>1. /\ Uploading(n) /\ UNCHANGED <<sent, sending, mishaps>>
        /\ upload' = [upload EXCEPT ![n].at = "upserted"] /\ upload[n].at = "written"
        /\ row' = [row EXCEPT ![upload[n].sequence] = [payload |-> n, receivedAt |-> FALSE]]
    BY <1>8 DEF UploadUpsert, Uploading
  <2>2. n = 1 /\ sent = 1 /\ sending # None
    BY <1>1, <1>3, <2>1 DEF Regular
  <2>3. upload[1].sequence = sending /\ sending \in Sequence /\ sending <= Size[1]
    BY <2>1, <2>2 DEF Offered, InOrder, RelayTypeOK
  <2>4. upload'[1].at = "upserted"
    BY <2>1, <2>2, UploadGoesOn DEF Offered, UploadSteps
  <2>5. /\ row'[sending].payload = 1 /\ ~row'[sending].receivedAt
        /\ \A q \in Sequence \ {sending} : row'[q] = row[q]
    BY <2>1, <2>2, <2>3 DEF Offered, RelayTypeOK
  <2>6. Arrived(sending)' /\ \A q \in Sequence \ {sending} : Arrived(q)' <=> Arrived(q)
    BY <2>1, <2>2, <2>4 DEF Arrived
  <2>7. ~listedAll
    BY <1>1, <2>2 DEF Regular
  <2> QED
    BY <1>1, <1>2, <2>1, <2>2, <2>3, <2>5, <2>6, <2>7 DEF Regular, Whole, NothingReceived
<1>9. ASSUME NEW n \in Payload, UploadRemove(n) PROVE Regular'
  <2>1. /\ Uploading(n) /\ upload[n].at = "upserted" /\ UNCHANGED <<row, sent, mishaps>>
    BY <1>9 DEF UploadRemove, Uploading
  <2>2. n = 1 /\ sent = 1 /\ sending # None
    BY <1>1, <1>3, <2>1 DEF Regular
  <2>3. upload[1].sequence = sending /\ sending \in Sequence /\ sending <= Size[1]
    BY <2>1, <2>2 DEF Offered, InOrder, RelayTypeOK
  <2>4. sending' = IF sending = Size[1] THEN None ELSE sending + 1
    BY <1>9, <2>2, <2>3 DEF UploadRemove, NextSequence
  <2>5. upload'[1].at = "done"
    BY <1>9, <2>2 DEF UploadRemove, NotUploading, Offered, RelayTypeOK
  <2>6. \A q \in 1..Size[1] : Arrived(q)' <=> Arrived(q)
    BY <2>1, <2>2, <2>3, <2>4, <2>5, Sequences DEF Arrived, None
  <2> QED
    BY <1>5, <2>1, <2>2, <2>5, <2>6 DEF Uploading
<1>10. ASSUME NEW n \in Payload, UploadFails(n) PROVE FALSE
  BY <1>3, <1>10 DEF UploadFails
<1> QED
  BY <1>4, <1>6, <1>7, <1>8, <1>9, <1>10 DEF Send, SendBreaksOff

LEMMA NextRegular == Offered /\ Regular /\ [RelayNext]_relayVars => Regular'
<1> SUFFICES ASSUME Offered, Regular, [RelayNext]_relayVars PROVE Regular'
  OBVIOUS
<1> USE DEF serverVars, keyVars, sendVars, receiveVars
<1>1. CASE Exchange
  BY <1>1, LeavesRegular DEF Exchange, Publish, PublishFails, Announce, PollSignals, LosePoll,
                             Reload, Mishap, Offered, RelayTypeOK
<1>2. CASE Send \/ Receive
  BY <1>2, SendRegular, ReceiveRegular DEF Regular
<1>3. CASE \E outcome \in {"COMPLETED", "FAILED"} : EndSession(outcome)
  BY <1>3, LeavesRegular DEF EndSession
<1>4. CASE UNCHANGED relayVars
  BY <1>4, LeavesRegular DEF relayVars
<1> QED
  BY <1>1, <1>2, <1>3, <1>4 DEF RelayNext

\* For a payload of any size, sent once to a page that stays open and saved after a
\* list that the end of the sending precedes: it is saved whole.
THEOREM RegularPayloadsAreSavedWhole == RelaySpec => []SavedWhole
<1>1. RelayInit => Regular
  BY DEF RelayInit, Regular, Uploading, NotUploading, NothingReceived, None
<1>2. Regular => SavedWhole
  BY DEF Regular, SavedWhole
<1> QED
  BY <1>1, <1>2, OfferedHolds, NextRegular, PTL DEF RelaySpec
=============================================================================

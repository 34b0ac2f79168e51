------------------------- MODULE AdministrationProofs -------------------------
(***************************************************************************)
(* Theorems about what administrators administer: accounts (Identity), for *)
(* any number of accounts, invites, sessions, uploads and concurrent       *)
(* requests, and policy bundles (PolicyBundles), for any levels, defaults, *)
(* drafts, versions and requests.                                          *)
(***************************************************************************)
EXTENDS Identity, PolicyBundles, SequenceTheorems, TLAPS

-----------------------------------------------------------------------------
(***************************************************************************)
(* The inductive invariant.  A file is followed from the handler that has  *)
(* written it to the row that names it, from there to a removal that has   *)
(* read its key, and to the removal that is about to take it away; what    *)
(* falls out of this chain is in stray.                                    *)
(***************************************************************************)
Storing(x) == \E r \in Req : req[r].at = "storing" /\ req[r].upload = x

RowOrHandler ==
  \A x \in file \ stray : upload[x] # "deleted" => x \in part \/ Storing(x)

\* A removal that has read the keys knows of every part there was, and of the
\* later ones the history does.
KnowsKeys(r) ==
  req[r].at = "deleting" => req[r].uploads \cap part \subseteq req[r].keys \cup stray

\* Only the administrator comes to these places.
Administers(r) ==
  req[r].at \in {"invalidating", "collecting", "deleting", "cleaning"} => req[r].user = Admin

Followed ==
  /\ TypeOK
  /\ RowOrHandler
  /\ RemovalTakesFiles
  /\ \A r \in Req : KnowsKeys(r) /\ Administers(r)

-----------------------------------------------------------------------------
(* Requests *)

\* What a request keeps at the place where it stands.
LEMMA Records ==
  ASSUME TypeOK, NEW r \in Req
  PROVE  /\ req[r].at = "registering" => req[r].user \in User /\ req[r].invite \in Invite
         /\ req[r].at \notin {"idle", "registering"} => req[r].user \in Account
         /\ req[r].at = "guarded" => req[r].token \in Token
         /\ req[r].at = "invalidating" => req[r].invite \in Invite
         /\ req[r].at = "storing" => req[r].upload \in Upload
         /\ req[r].at \in {"collecting", "deleting"} =>
              req[r].of \in User /\ req[r].uploads \in SUBSET Upload
         /\ req[r].at \in {"deleting", "cleaning"} => req[r].keys \in SUBSET Upload
<1>1. req[r] \in {Idle} \cup Requests
  BY DEF TypeOK
<1> QED
  BY <1>1 DEF Requests, Idle

\* The request of a step, typed; the others stay where they are.
LEMMA RequestTyped ==
  ASSUME TypeOK, NEW r \in Req, NEW q \in {Idle} \cup Requests,
         req' = [req EXCEPT ![r] = q]
  PROVE  /\ req' \in [Req -> {Idle} \cup Requests]
         /\ req'[r] = q
         /\ \A p \in Req \ {r} : req'[p] = req[p]
BY DEF TypeOK

\* A request that is neither storing nor removing holds no file: it may go to any
\* place that keeps no file, as long as rows and files stay as they are.
LEMMA RequestKeepsFiles ==
  ASSUME Followed, NEW r \in Req, NEW q \in {Idle} \cup Requests,
         req' = [req EXCEPT ![r] = q],
         req[r].at \notin {"storing", "cleaning"},
         q.at # "deleting",
         q.at \in {"invalidating", "collecting", "cleaning"} => q.user = Admin,
         \A x \in Upload : upload[x] # "deleted" => upload'[x] # "deleted",
         \A x \in Upload : upload[x] = "deleted" => upload'[x] = "deleted",
         UNCHANGED <<part, file, stray>>
  PROVE  /\ RowOrHandler' /\ RemovalTakesFiles'
         /\ \A p \in Req : KnowsKeys(p)' /\ Administers(p)'
<1> USE DEF Followed
<1>1. /\ req'[r] = q
      /\ \A p \in Req \ {r} : req'[p] = req[p]
  BY RequestTyped
<1>2. \A x \in Upload : Storing(x) => Storing(x)'
  BY <1>1 DEF Storing
<1>3. file \subseteq Upload
  BY DEF TypeOK
<1>4. RowOrHandler'
  BY <1>2, <1>3 DEF RowOrHandler
<1>5. RemovalTakesFiles'
  BY <1>1, <1>3 DEF RemovalTakesFiles
<1>6. \A p \in Req : KnowsKeys(p)' /\ Administers(p)'
  BY <1>1 DEF KnowsKeys, Administers
<1> QED
  BY <1>4, <1>5, <1>6

-----------------------------------------------------------------------------
(* Accounts, invites and sessions *)

LEMMA ArriveFollowed ==
  ASSUME Followed, NEW r \in Req, Arrive(r)
  PROVE  Followed'
<1> USE DEF Followed
<1>1. ASSUME NEW q \in Requests, Enter(r, q), q.at \in {"registering", "crediting", "guarded"},
             UNCHANGED rows
      PROVE  Followed'
  <2>1. req[r] = Idle /\ req' = [req EXCEPT ![r] = q]
    BY <1>1 DEF Enter
  <2>2. req[r].at = "idle"
    BY <2>1 DEF Idle
  <2>3. TypeOK'
    BY <1>1, <2>1, RequestTyped DEF TypeOK, rows
  <2> QED
    BY <1>1, <2>1, <2>2, <2>3, RequestKeepsFiles DEF rows
<1>2. ASSUME NEW u \in User, NEW i \in Invite, RegisterRead(r, u, i)
      PROVE  Followed'
  <2>1. [at |-> "registering", user |-> u, invite |-> i] \in Requests
    BY DEF Requests
  <2> QED
    BY <1>1, <1>2, <2>1 DEF RegisterRead
<1>3. ASSUME NEW a \in Account, LoginRead(r, a)
      PROVE  Followed'
  <2>1. [at |-> "crediting", user |-> a] \in Requests
    BY DEF Requests
  <2> QED
    BY <1>1, <1>3, <2>1 DEF LoginRead
<1>4. ASSUME NEW t \in Token, ValidateToken(r, t)
      PROVE  Followed'
  <2>1. session[t] \in Account
    BY <1>4 DEF ValidateToken, TypeOK
  <2>2. [at |-> "guarded", user |-> session[t], token |-> t, usable |-> Usable(session[t])]
          \in Requests
    BY <2>1 DEF Requests, Usable, Exists, TypeOK, UserRow
  <2> QED
    BY <1>1, <1>4, <2>2 DEF ValidateToken
<1> QED
  BY <1>2, <1>3, <1>4 DEF Arrive

\* The steps without a request.
LEMMA TimeFollowed ==
  ASSUME Followed, \/ \E i \in Invite : InviteExpires(i)
                   \/ \E t \in Token : DestroySession(t)
  PROVE  Followed'
<1> USE DEF Followed
<1>1. UNCHANGED <<user, upload, part, file, req, stray>>
  BY DEF InviteExpires, DestroySession
<1>2. invite' \in [Invite -> InviteRow] /\ session' \in [Token -> Account \cup {None}]
  BY DEF InviteExpires, DestroySession, TypeOK, InviteRow, Closings
<1>3. TypeOK'
  BY <1>1, <1>2 DEF TypeOK
<1> QED
  BY <1>1, <1>3 DEF RowOrHandler, Storing, RemovalTakesFiles, KnowsKeys, Administers

\* Registration, login and the administrator's changes, which end their request and
\* change no upload.
LEMMA AccountFollowed ==
  ASSUME Followed, NEW r \in Req,
         \/ RegisterCommit(r)
         \/ \E t \in Token : CreateSession(r, t)
         \/ \E i \in Invite : CreateInvite(r, i)
         \/ InvalidateInviteCommit(r)
         \/ \E a \in Account : \E row \in UserRow : UpdateUser(r, a, row)
  PROVE  Followed'
<1> USE DEF Followed
<1>1. /\ req' = [req EXCEPT ![r] = Idle]
      /\ req[r].at \in {"registering", "crediting", "acting", "invalidating"}
      /\ UNCHANGED <<upload, part, file, stray>>
  BY DEF RegisterCommit, CreateSession, CreateInvite, InvalidateInviteCommit, UpdateUser,
         Acting, Leave
<1>2. user' \in [Account -> UserRow]
  <2>1. [is |-> "here", approved |-> FALSE, enabled |-> TRUE] \in UserRow
    BY DEF UserRow, Presence
  <2> QED
    BY <2>1 DEF RegisterCommit, CreateSession, CreateInvite, InvalidateInviteCommit,
                UpdateUser, TypeOK
<1>3. invite' \in [Invite -> InviteRow]
  <2>1. CASE RegisterCommit(r)
    BY <2>1, Records DEF RegisterCommit, TypeOK, InviteRow, Closings
  <2>2. CASE InvalidateInviteCommit(r)
    BY <2>2, Records DEF InvalidateInviteCommit, TypeOK, InviteRow, Closings
  <2>3. CASE \E i \in Invite : CreateInvite(r, i)
    BY <2>3 DEF CreateInvite, TypeOK, InviteRow, Presence
  <2> QED
    BY <2>1, <2>2, <2>3 DEF CreateSession, UpdateUser, TypeOK
<1>4. session' \in [Token -> Account \cup {None}]
  BY Records DEF RegisterCommit, CreateSession, CreateInvite, InvalidateInviteCommit,
                 UpdateUser, TypeOK
<1>5. TypeOK'
  BY <1>1, <1>2, <1>3, <1>4, RequestTyped DEF TypeOK
<1>6. Idle \in {Idle} \cup Requests /\ Idle.at = "idle"
  BY DEF Idle
<1> QED
  BY <1>1, <1>5, <1>6, RequestKeepsFiles

-----------------------------------------------------------------------------
(* Requests that go on *)

LEMMA OnwardFollowed ==
  ASSUME Followed, NEW r \in Req,
         \/ PassGuards(r)
         \/ \E x \in Upload : StartUpload(r, x)
         \/ \E i \in Invite : InvalidateInviteRead(r, i)
         \/ \E u \in User : RemoveRead(r, u)
  PROVE  Followed'
<1> USE DEF Followed
<1>1. ASSUME NEW q \in {Idle} \cup Requests, req' = [req EXCEPT ![r] = q],
             req[r].at \in {"guarded", "acting"},
             q.at \in {"idle", "acting", "invalidating", "collecting"},
             q.at \in {"invalidating", "collecting"} => q.user = Admin,
             UNCHANGED <<user, invite, session, part, file, stray>>,
             \/ UNCHANGED upload
             \/ \E x \in Upload, a \in User : upload[x] = None /\ upload' = [upload EXCEPT ![x] = a]
      PROVE  Followed'
  <2>1. /\ upload' \in [Upload -> Account \cup {None, "deleted"}]
        /\ \A x \in Upload : upload[x] # "deleted" => upload'[x] # "deleted"
        /\ \A x \in Upload : upload[x] = "deleted" => upload'[x] = "deleted"
    BY <1>1, IdentityAssumption DEF TypeOK, Account
  <2>2. TypeOK'
    BY <1>1, <2>1, RequestTyped DEF TypeOK
  <2> QED
    BY <1>1, <2>1, <2>2, RequestKeepsFiles
<1>2. CASE PassGuards(r)
  <2>1. [at |-> "acting", user |-> req[r].user] \in Requests
    BY <1>2, Records DEF PassGuards, Requests
  <2> QED
    BY <1>1, <1>2, <2>1 DEF PassGuards, rows
<1>3. ASSUME NEW x \in Upload, StartUpload(r, x)
      PROVE  Followed'
  BY <1>1, <1>3 DEF StartUpload, Acting, Leave, Idle
<1>4. ASSUME NEW i \in Invite, InvalidateInviteRead(r, i)
      PROVE  Followed'
  <2>1. [at |-> "invalidating", user |-> Admin, invite |-> i] \in Requests
    BY DEF Requests, Account
  <2> QED
    BY <1>1, <1>4, <2>1 DEF InvalidateInviteRead, Acting, rows
<1>5. ASSUME NEW u \in User, RemoveRead(r, u)
      PROVE  Followed'
  <2> DEFINE q == [at |-> "collecting", user |-> Admin, of |-> u,
                   uploads |-> {x \in Upload : upload[x] = u}]
  <2>1. q \in Requests
    BY DEF Requests, Account
  <2>2. q.at = "collecting" /\ q.user = Admin
    OBVIOUS
  <2>3. req' = [req EXCEPT ![r] = q] /\ req[r].at = "acting" /\ UNCHANGED rows
    BY <1>5 DEF RemoveRead, Acting
  <2> HIDE DEF q
  <2> QED
    BY <1>1, <2>1, <2>2, <2>3 DEF rows
<1> QED
  BY <1>2, <1>3, <1>4, <1>5

-----------------------------------------------------------------------------
(* Files *)

\* The file is in the hands of the handler that has written it.
LEMMA StoreFileFollowed ==
  ASSUME Followed, NEW r \in Req, NEW x \in Upload, StoreFile(r, x)
  PROVE  Followed'
<1> USE DEF Followed
<1> DEFINE q == [at |-> "storing", user |-> req[r].user, upload |-> x]
<1>1. /\ req[r].at = "acting" /\ req' = [req EXCEPT ![r] = q] /\ file' = file \cup {x}
      /\ UNCHANGED <<user, invite, session, upload, part, stray>>
  BY DEF StoreFile, Acting
<1>2. q \in Requests /\ q.at = "storing" /\ q.upload = x
  BY <1>1, Records DEF Requests
<1> HIDE DEF q
<1>3. /\ req' \in [Req -> {Idle} \cup Requests] /\ req'[r] = q
      /\ \A p \in Req \ {r} : req'[p] = req[p]
  BY <1>1, <1>2, RequestTyped
<1>4. TypeOK'
  BY <1>1, <1>3 DEF TypeOK
<1>5. Storing(x)' /\ \A y \in Upload : Storing(y) => Storing(y)'
  BY <1>1, <1>2, <1>3 DEF Storing
<1>6. RowOrHandler'
  BY <1>1, <1>4, <1>5 DEF RowOrHandler, TypeOK
<1>7. RemovalTakesFiles'
  BY <1>1, <1>2, <1>3 DEF RemovalTakesFiles
<1>8. \A p \in Req : KnowsKeys(p)' /\ Administers(p)'
  BY <1>1, <1>2, <1>3 DEF KnowsKeys, Administers
<1> QED
  BY <1>4, <1>6, <1>7, <1>8

\* The row takes it over; a removal that has read the keys before does not know it.
LEMMA StoreRowFollowed ==
  ASSUME Followed, NEW r \in Req, StoreRow(r)
  PROVE  Followed'
<1> USE DEF Followed
<1> DEFINE x == req[r].upload
<1>1. /\ req[r].at = "storing" /\ req' = [req EXCEPT ![r] = Idle]
      /\ upload[x] \in Account /\ part' = part \cup {x}
      /\ stray' = IF KeysRead(x) THEN stray \cup {x} ELSE stray
      /\ UNCHANGED <<user, invite, session, upload, file>>
  BY DEF StoreRow, Leave
<1>2. x \in Upload
  BY <1>1, Records
<1>3. /\ req' \in [Req -> {Idle} \cup Requests] /\ req'[r] = Idle
      /\ \A p \in Req \ {r} : req'[p] = req[p]
  BY <1>1, RequestTyped
<1>4. upload[x] # "deleted"
  BY <1>1, IdentityAssumption DEF Account
<1>5. Idle.at = "idle"
  BY DEF Idle
<1>6. TypeOK'
  BY <1>1, <1>2, <1>3 DEF TypeOK
<1>7. \A y \in Upload \ {x} : Storing(y) => Storing(y)'
  BY <1>3 DEF Storing
<1>8. stray \subseteq stray'
  BY <1>1
<1>9. RowOrHandler'
  BY <1>1, <1>6, <1>7, <1>8 DEF RowOrHandler, TypeOK
<1>10. RemovalTakesFiles'
  BY <1>1, <1>3, <1>4, <1>8 DEF RemovalTakesFiles
<1>11. ASSUME NEW p \in Req
       PROVE  KnowsKeys(p)' /\ Administers(p)'
  <2>1. req[p].at = "deleting" /\ x \in req[p].uploads => x \in stray'
    BY <1>1 DEF KeysRead
  <2> QED
    BY <1>1, <1>3, <1>5, <1>8, <2>1 DEF KnowsKeys, Administers
<1> QED
  BY <1>6, <1>9, <1>10, <1>11

LEMMA RemoveReadKeysFollowed ==
  ASSUME Followed, NEW r \in Req, RemoveReadKeys(r)
  PROVE  Followed'
<1> USE DEF Followed
<1> DEFINE q == [at |-> "deleting", user |-> Admin, of |-> req[r].of,
                 uploads |-> req[r].uploads, keys |-> req[r].uploads \cap part]
<1>1. req[r].at = "collecting" /\ req' = [req EXCEPT ![r] = q] /\ UNCHANGED rows
  BY DEF RemoveReadKeys
<1>2. /\ q \in Requests /\ q.at = "deleting" /\ q.user = Admin
      /\ q.uploads \cap part \subseteq q.keys
  BY <1>1, Records DEF Requests, Account
<1> HIDE DEF q
<1>3. /\ req' \in [Req -> {Idle} \cup Requests] /\ req'[r] = q
      /\ \A p \in Req \ {r} : req'[p] = req[p]
  BY <1>1, <1>2, RequestTyped
<1>4. TypeOK'
  BY <1>1, <1>3 DEF TypeOK, rows
<1>5. \A y \in Upload : Storing(y) => Storing(y)'
  BY <1>1, <1>3 DEF Storing
<1>6. RowOrHandler'
  BY <1>1, <1>4, <1>5 DEF RowOrHandler, TypeOK, rows
<1>7. RemovalTakesFiles'
  BY <1>1, <1>3 DEF RemovalTakesFiles, rows
<1>8. \A p \in Req : KnowsKeys(p)' /\ Administers(p)'
  BY <1>1, <1>2, <1>3 DEF KnowsKeys, Administers, rows
<1> QED
  BY <1>4, <1>6, <1>7, <1>8

\* What loses its row in the transaction is either among the keys, in the hands of a
\* handler that has not written its row, or stray.
LEMMA RemoveDeleteFollowed ==
  ASSUME Followed, NEW r \in Req, RemoveDelete(r)
  PROVE  Followed'
<1> USE DEF Followed
<1> DEFINE q == [at |-> "cleaning", user |-> Admin, keys |-> req[r].keys]
           uploads == req[r].uploads
           u == req[r].of
<1>1. /\ req[r].at = "deleting" /\ req' = [req EXCEPT ![r] = q]
      /\ user' = [user EXCEPT ![u].is = "removed"]
      /\ session' = [t \in Token |-> IF session[t] = u THEN None ELSE session[t]]
      /\ upload' = [x \in Upload |-> IF x \in uploads THEN "deleted" ELSE upload[x]]
      /\ part' = part \ uploads
      /\ invite' = [i \in Invite |->
           IF invite[i].by = u THEN [invite[i] EXCEPT !.is = "removed"] ELSE invite[i]]
      /\ UNCHANGED <<file, stray>>
  BY DEF RemoveDelete
<1>2. /\ q \in Requests /\ q.at = "cleaning" /\ q.user = Admin /\ q.keys = req[r].keys
      /\ uploads \subseteq Upload
  BY <1>1, Records DEF Requests, Account
<1> HIDE DEF q
<1>3. /\ req' \in [Req -> {Idle} \cup Requests] /\ req'[r] = q
      /\ \A p \in Req \ {r} : req'[p] = req[p]
  BY <1>1, <1>2, RequestTyped
<1>4. TypeOK'
  <2>1. user' \in [Account -> UserRow]
    BY <1>1 DEF TypeOK, UserRow, Presence
  <2>2. invite' \in [Invite -> InviteRow]
    BY <1>1 DEF TypeOK, InviteRow, Presence
  <2>3. /\ session' \in [Token -> Account \cup {None}] /\ part' \in SUBSET Upload
        /\ upload' \in [Upload -> Account \cup {None, "deleted"}]
    BY <1>1 DEF TypeOK
  <2> QED
    BY <1>1, <1>3, <2>1, <2>2, <2>3 DEF TypeOK
<1>5. \A x \in Upload : Storing(x) => Storing(x)'
  BY <1>1, <1>3 DEF Storing
<1>6. RowOrHandler'
  BY <1>1, <1>4, <1>5 DEF RowOrHandler, TypeOK
<1>7. RemovalTakesFiles'
  <2> SUFFICES ASSUME NEW x \in file \ stray, upload'[x] = "deleted"
               PROVE  \E p \in Req : \/ req'[p].at = "cleaning" /\ x \in req'[p].keys
                                     \/ req'[p].at = "storing" /\ x = req'[p].upload
    BY <1>1 DEF RemovalTakesFiles
  <2>1. x \in Upload
    BY DEF TypeOK
  <2>2. CASE upload[x] = "deleted"
    BY <1>1, <1>3, <2>2 DEF RemovalTakesFiles
  <2>3. CASE upload[x] # "deleted" /\ x \in part
    <3>1. x \in uploads
      BY <1>1, <2>1, <2>3
    <3>2. x \in req[r].keys
      BY <1>1, <2>3, <3>1 DEF KnowsKeys
    <3> QED
      BY <1>2, <1>3, <3>2
  <2>4. CASE Storing(x)
    BY <1>5, <2>1, <2>4 DEF Storing
  <2> QED
    BY <2>2, <2>3, <2>4 DEF RowOrHandler
<1>8. \A p \in Req : KnowsKeys(p)' /\ Administers(p)'
  BY <1>1, <1>2, <1>3 DEF KnowsKeys, Administers
<1> QED
  BY <1>4, <1>6, <1>7, <1>8

LEMMA RemoveFileFollowed ==
  ASSUME Followed, NEW r \in Req, NEW x \in Upload, NEW removed \in BOOLEAN,
         RemoveFile(r, x, removed)
  PROVE  Followed'
<1> USE DEF Followed
<1> DEFINE q == [req[r] EXCEPT !.keys = req[r].keys \ {x}]
<1>1. /\ req[r].at = "cleaning" /\ req' = [req EXCEPT ![r] = q]
      /\ file' = (IF removed THEN file \ {x} ELSE file)
      /\ stray' = (IF removed THEN stray ELSE stray \cup {x})
      /\ UNCHANGED <<user, invite, session, upload, part>>
  BY DEF RemoveFile, TypeOK
<1>2. q \in Requests /\ q.at = "cleaning" /\ q.user = req[r].user /\ q.keys = req[r].keys \ {x}
  <2>1. req[r] \in [at : {"cleaning"}, user : Account, keys : SUBSET Upload]
    BY <1>1 DEF TypeOK, Requests, Idle
  <2> QED
    BY <2>1 DEF Requests
<1> HIDE DEF q
<1>3. /\ req' \in [Req -> {Idle} \cup Requests] /\ req'[r] = q
      /\ \A p \in Req \ {r} : req'[p] = req[p]
  BY <1>1, <1>2, RequestTyped
<1>4. TypeOK'
  BY <1>1, <1>3 DEF TypeOK
<1>5. \A y \in Upload : Storing(y) => Storing(y)'
  BY <1>1, <1>3 DEF Storing
<1>6. file' \ stray' = (file \ stray) \ {x} /\ stray \subseteq stray'
  BY <1>1
<1>7. RowOrHandler'
  BY <1>1, <1>5, <1>6 DEF RowOrHandler, TypeOK
<1>8. RemovalTakesFiles'
  BY <1>1, <1>2, <1>3, <1>6 DEF RemovalTakesFiles
<1>9. \A p \in Req : KnowsKeys(p)' /\ Administers(p)'
  BY <1>1, <1>2, <1>3, <1>6 DEF KnowsKeys, Administers
<1> QED
  BY <1>4, <1>7, <1>8, <1>9

\* What the request held is stray from now on.
LEMMA EndRequestFollowed ==
  ASSUME Followed, NEW r \in Req, EndRequest(r)
  PROVE  Followed'
<1> USE DEF Followed
<1> DEFINE held == CASE req[r].at = "storing"  -> {req[r].upload}
                     [] req[r].at = "cleaning" -> req[r].keys
                     [] OTHER                  -> {}
<1>1. /\ req' = [req EXCEPT ![r] = Idle] /\ stray' = stray \cup held
      /\ UNCHANGED <<user, invite, session, upload, part, file>>
  BY DEF EndRequest, Leave
<1>2. held \subseteq Upload
  BY Records
<1>3. /\ req' \in [Req -> {Idle} \cup Requests] /\ req'[r] = Idle /\ Idle.at = "idle"
      /\ \A p \in Req \ {r} : req'[p] = req[p]
  BY <1>1, RequestTyped DEF Idle
<1>4. TypeOK'
  BY <1>1, <1>2, <1>3 DEF TypeOK
<1>5. \A y \in Upload \ held : Storing(y) => Storing(y)'
  BY <1>3 DEF Storing
<1>6. RowOrHandler'
  <2> HIDE DEF held
  <2> QED
    BY <1>1, <1>5 DEF RowOrHandler, TypeOK
<1>7. RemovalTakesFiles'
  BY <1>1, <1>3 DEF RemovalTakesFiles
<1>8. \A p \in Req : KnowsKeys(p)' /\ Administers(p)'
  <2> HIDE DEF held
  <2> QED
    BY <1>1, <1>3 DEF KnowsKeys, Administers
<1> QED
  BY <1>4, <1>6, <1>7, <1>8

-----------------------------------------------------------------------------
LEMMA InitFollowed == Init => Followed
<1> SUFFICES ASSUME Init PROVE Followed
  OBVIOUS
<1>1. user \in [Account -> UserRow] /\ invite \in [Invite -> InviteRow]
  BY DEF Init, UserRow, InviteRow, Presence
<1>2. TypeOK
  BY <1>1 DEF Init, TypeOK
<1> QED
  BY <1>2 DEF Init, Followed, RowOrHandler, RemovalTakesFiles, KnowsKeys, Administers, Idle

LEMMA NextFollowed ==
  ASSUME Followed, [Next]_vars
  PROVE  Followed'
<1>1. CASE UNCHANGED vars
  BY <1>1 DEF vars, Followed, TypeOK, RowOrHandler, Storing, RemovalTakesFiles, KnowsKeys,
              Administers
<1>2. ASSUME NEW r \in Req, Proceed(r)
      PROVE  Followed'
  BY <1>2, AccountFollowed, OnwardFollowed, StoreFileFollowed, StoreRowFollowed,
     EndRequestFollowed DEF Proceed
<1>3. ASSUME NEW r \in Req, Administer(r)
      PROVE  Followed'
  BY <1>3, AccountFollowed, OnwardFollowed, RemoveReadKeysFollowed, RemoveDeleteFollowed,
     RemoveFileFollowed DEF Administer
<1> QED
  BY <1>1, <1>2, <1>3, ArriveFollowed, TimeFollowed DEF Next

LEMMA AlwaysFollowed == Spec => []Followed
BY InitFollowed, NextFollowed, PTL DEF Spec

-----------------------------------------------------------------------------
\* Every reachable state is well typed.
THEOREM IdentityTypeCorrect == Spec => []TypeOK
<1>1. Followed => TypeOK
  BY DEF Followed
<1> QED
  BY <1>1, AlwaysFollowed, PTL

\* The removal of a user leaves no file behind but those that a failure, or a store
\* that overlapped it, has left.
THEOREM RemovalIsThorough == Spec => []RemovalTakesFiles
<1>1. Followed => RemovalTakesFiles
  BY DEF Followed
<1> QED
  BY <1>1, AlwaysFollowed, PTL

-----------------------------------------------------------------------------
(* Drains *)

\* A closed invite stays closed, and is read by nobody any more.
LEMMA InviteStaysClosed ==
  ASSUME TypeOK, [Next]_vars, NEW i \in Invite,
         invite[i].is # "none", ~Open(i), ~Registers(i)
  PROVE  ~Open(i)' /\ ~Registers(i)'
<1>1. ~Open(i)'
  <2>1. CASE UNCHANGED invite
    BY <2>1 DEF Open
  <2>2. CASE \E j \in Invite : InviteExpires(j)
    BY <2>2 DEF InviteExpires, Open, TypeOK, InviteRow
  <2>3. ASSUME NEW r \in Req, RegisterCommit(r) \/ InvalidateInviteCommit(r)
        PROVE  ~Open(i)'
    BY <2>3, Records DEF RegisterCommit, InvalidateInviteCommit, Open, TypeOK, InviteRow
  <2>4. ASSUME NEW r \in Req, NEW j \in Invite, CreateInvite(r, j)
        PROVE  ~Open(i)'
    BY <2>4 DEF CreateInvite, Open, TypeOK, InviteRow
  <2>5. ASSUME NEW r \in Req, RemoveDelete(r)
        PROVE  ~Open(i)'
    BY <2>5 DEF RemoveDelete, Open, TypeOK, InviteRow
  <2>6. ASSUME NEW r \in Req, Arrive(r)
        PROVE  UNCHANGED invite
    BY <2>6 DEF Arrive, RegisterRead, LoginRead, ValidateToken, rows
  <2>7. ASSUME NEW r \in Req, Proceed(r), ~RegisterCommit(r)
        PROVE  UNCHANGED invite
    BY <2>7 DEF Proceed, CreateSession, PassGuards, StartUpload, StoreFile, StoreRow,
                EndRequest, rows
  <2>8. ASSUME NEW r \in Req, Administer(r), ~InvalidateInviteCommit(r), ~RemoveDelete(r),
               \A j \in Invite : ~CreateInvite(r, j)
        PROVE  UNCHANGED invite
    BY <2>8 DEF Administer, InvalidateInviteRead, UpdateUser, RemoveRead, RemoveReadKeys,
                RemoveFile, rows
  <2>9. (\E t \in Token : DestroySession(t)) \/ UNCHANGED vars => UNCHANGED invite
    BY DEF DestroySession, vars
  <2> QED
    BY <2>1, <2>2, <2>3, <2>4, <2>5, <2>6, <2>7, <2>8, <2>9 DEF Next
<1>2. ~Registers(i)'
  <2>1. ASSUME NEW r \in Req, NEW q, req' = [req EXCEPT ![r] = q],
               q.at = "registering" => q.invite # i
        PROVE  ~Registers(i)'
    BY <2>1 DEF Registers, TypeOK
  <2>2. ASSUME NEW r \in Req, Arrive(r)
        PROVE  ~Registers(i)'
    BY <2>1, <2>2 DEF Arrive, RegisterRead, LoginRead, ValidateToken, Enter
  <2>3. ASSUME NEW r \in Req, Proceed(r)
        PROVE  ~Registers(i)'
    BY <2>1, <2>3 DEF Proceed, RegisterCommit, CreateSession, PassGuards, StartUpload,
                      StoreFile, StoreRow, EndRequest, Leave, Idle
  <2>4. ASSUME NEW r \in Req, Administer(r)
        PROVE  ~Registers(i)'
    <3>1. CASE \E x \in Upload, removed \in BOOLEAN : RemoveFile(r, x, removed)
      BY <3>1 DEF RemoveFile, Registers, TypeOK
    <3>2. CASE ~\E x \in Upload, removed \in BOOLEAN : RemoveFile(r, x, removed)
      BY <2>1, <2>4, <3>2 DEF Administer, CreateInvite, InvalidateInviteRead,
            InvalidateInviteCommit, UpdateUser, RemoveRead, RemoveReadKeys, RemoveDelete,
            Leave, Idle
    <3> QED
      BY <3>1, <3>2
  <2>5. UNCHANGED req => ~Registers(i)'
    BY DEF Registers
  <2> QED
    BY <2>2, <2>3, <2>4, <2>5 DEF Next, InviteExpires, DestroySession, vars
<1> QED
  BY <1>1, <1>2

\* An invite that is used up, expired or invalidated lets nobody in once those that
\* read it open are through.
THEOREM ClosedInvitesDrain == Spec => InvitesDrain
<1>1. ASSUME Followed, [Next]_vars
      PROVE  [\A i \in Invite : invite[i].is # "none" /\ ~Open(i) /\ ~Registers(i)
                => ~Open(i)' /\ ~Registers(i)']_vars
  BY <1>1, InviteStaysClosed DEF Followed
<1> QED
  BY <1>1, AlwaysFollowed, PTL DEF Spec, InvitesDrain

\* An invite that is not there yet has let nobody in.
FreshInvites == \A i \in Invite : invite[i].is = "none" => invite[i].by = None

LEMMA NextFresh ==
  ASSUME TypeOK, FreshInvites, [Next]_vars
  PROVE  FreshInvites'
<1> USE DEF FreshInvites
<1>1. CASE UNCHANGED invite
  BY <1>1
<1>2. ASSUME NEW r \in Req, \/ RegisterCommit(r) \/ InvalidateInviteCommit(r) \/ RemoveDelete(r)
                           \/ \E i \in Invite : CreateInvite(r, i)
      PROVE  FreshInvites'
  BY <1>2 DEF RegisterCommit, InvalidateInviteCommit, RemoveDelete, CreateInvite, TypeOK,
              InviteRow
<1>3. CASE \E i \in Invite : InviteExpires(i)
  BY <1>3 DEF InviteExpires, TypeOK, InviteRow
<1>4. ASSUME NEW r \in Req, Arrive(r)
      PROVE  UNCHANGED invite
  BY <1>4 DEF Arrive, RegisterRead, LoginRead, ValidateToken, rows
<1>5. ASSUME NEW r \in Req, Proceed(r)
      PROVE  FreshInvites'
  BY <1>1, <1>2, <1>5 DEF Proceed, CreateSession, PassGuards, StartUpload, StoreFile,
                          StoreRow, EndRequest, rows
<1>6. ASSUME NEW r \in Req, Administer(r)
      PROVE  FreshInvites'
  BY <1>1, <1>2, <1>6 DEF Administer, InvalidateInviteRead, UpdateUser, RemoveRead,
                          RemoveReadKeys, RemoveFile, rows
<1> QED
  BY <1>1, <1>3, <1>4, <1>5, <1>6 DEF Next, DestroySession, vars

\* What a step adds to an account, it adds to one that is there.
LEMMA NextOwnsNothing ==
  ASSUME TypeOK, FreshInvites, RemovedOwnsNothing, [Next]_vars
  PROVE  RemovedOwnsNothing'
<1> USE DEF RemovedOwnsNothing
<1>1. CASE UNCHANGED <<user, invite, session, upload, part>>
  BY <1>1
<1>2. ASSUME NEW r \in Req, RegisterCommit(r)
      PROVE  RemovedOwnsNothing'
  <2>1. \A a \in Account : user'[a].is = "removed" => user[a].is = "removed"
    BY <1>2 DEF RegisterCommit, TypeOK
  <2>2. user'[req[r].user].is = "here" /\ req[r].user \in Account
    BY <1>2, Records DEF RegisterCommit, TypeOK, Account
  <2>3. \A i \in Invite : /\ invite'[i].is = invite[i].is
                           /\ invite'[i].by \in {invite[i].by, req[r].user}
    BY <1>2, Records DEF RegisterCommit, TypeOK, InviteRow
  <2>4. UNCHANGED <<session, upload, part>>
    BY <1>2 DEF RegisterCommit
  <2>5. "here" # "removed"
    OBVIOUS
  <2> QED
    BY <2>1, <2>2, <2>3, <2>4, <2>5
<1>3. ASSUME NEW r \in Req, NEW t \in Token, CreateSession(r, t)
      PROVE  RemovedOwnsNothing'
  <2>1. user[req[r].user].is = "here"
    BY <1>3 DEF CreateSession, Exists
  <2>2. \A s \in Token : session'[s] \in {session[s], req[r].user}
    BY <1>3 DEF CreateSession, TypeOK
  <2> QED
    BY <1>3, <2>1, <2>2 DEF CreateSession
<1>4. ASSUME NEW t \in Token, DestroySession(t)
      PROVE  RemovedOwnsNothing'
  BY <1>4, IdentityAssumption DEF DestroySession, TypeOK, Account
<1>5. ASSUME NEW r \in Req, NEW x \in Upload, StartUpload(r, x)
      PROVE  RemovedOwnsNothing'
  <2>1. PICK a \in User : Exists(a) /\ upload' = [upload EXCEPT ![x] = a]
    BY <1>5 DEF StartUpload
  <2>2. \A y \in Upload : upload'[y] = IF y = x THEN a ELSE upload[y]
    BY <2>1 DEF TypeOK
  <2>3. part \subseteq Upload
    BY DEF TypeOK
  <2> QED
    BY <1>5, <2>1, <2>2, <2>3 DEF StartUpload, Exists, Account
<1>6. ASSUME NEW r \in Req, StoreRow(r)
      PROVE  RemovedOwnsNothing'
  BY <1>6 DEF StoreRow
<1>7. ASSUME UNCHANGED <<user, session, upload, part>>, NEW i \in Invite,
             invite'[i].by = invite[i].by,
             invite'[i].is = "here" => invite[i].is = "here" \/ invite[i].by = None,
             \A k \in Invite \ {i} : invite'[k] = invite[k]
      PROVE  RemovedOwnsNothing'
  <2>1. None \notin Account
    BY IdentityAssumption DEF Account
  <2>2. \A k \in Invite : invite'[k].is = "here" =>
          invite'[k].by = None \/ (invite[k].is = "here" /\ invite'[k].by = invite[k].by)
    BY <1>7
  <2> QED
    BY <1>7, <2>1, <2>2
<1>8. ASSUME NEW i \in Invite, InviteExpires(i)
       PROVE  RemovedOwnsNothing'
  BY <1>7, <1>8 DEF InviteExpires, TypeOK, InviteRow
<1>9. ASSUME NEW r \in Req, InvalidateInviteCommit(r)
       PROVE  RemovedOwnsNothing'
  BY <1>7, <1>9, Records DEF InvalidateInviteCommit, TypeOK, InviteRow
<1>10. ASSUME NEW r \in Req, NEW i \in Invite, CreateInvite(r, i)
       PROVE  RemovedOwnsNothing'
  BY <1>7, <1>10 DEF CreateInvite, TypeOK, InviteRow, FreshInvites
<1>11. ASSUME NEW r \in Req, NEW a \in Account, NEW row \in UserRow, UpdateUser(r, a, row)
      PROVE  RemovedOwnsNothing'
  <2>1. \A b \in Account : user'[b].is = user[b].is
    BY <1>11 DEF UpdateUser, TypeOK, UserRow
  <2> QED
    BY <1>11, <2>1 DEF UpdateUser
<1>12. ASSUME NEW r \in Req, RemoveDelete(r)
      PROVE  RemovedOwnsNothing'
  <2> DEFINE u == req[r].of
  <2>1. u \in User /\ req[r].uploads \subseteq Upload
    BY <1>12, Records DEF RemoveDelete
  <2>2. \A a \in Account : user'[a].is = IF a = u THEN "removed" ELSE user[a].is
    BY <1>12, <2>1 DEF RemoveDelete, TypeOK, Account, UserRow
  <2>3. \A t \in Token : session'[t] # u /\ session'[t] \in {None, session[t]}
    BY <1>12, <2>1, IdentityAssumption DEF RemoveDelete
  <2>4. \A x \in Upload : /\ upload'[x] # u
                           /\ upload'[x] = IF x \in req[r].uploads THEN "deleted" ELSE upload[x]
    BY <1>12, <2>1, IdentityAssumption DEF RemoveDelete
  <2>5. \A i \in Invite : invite'[i].is = "here" => invite[i].is = "here" /\ invite'[i] = invite[i]
                                                   /\ invite[i].by # u
    BY <1>12 DEF RemoveDelete, TypeOK, InviteRow
  <2>6. part' = part \ req[r].uploads /\ part \subseteq Upload
    BY <1>12 DEF RemoveDelete, TypeOK
  <2> HIDE DEF u
  <2>7. ASSUME NEW a \in Account, user'[a].is = "removed"
        PROVE  /\ \A t \in Token : session'[t] # a
               /\ \A x \in Upload : upload'[x] # a
               /\ \A i \in Invite : invite'[i].is = "here" => invite'[i].by # a
    BY <2>2, <2>3, <2>4, <2>5, <2>7, IdentityAssumption DEF Account
  <2> QED
    BY <2>4, <2>6, <2>7
<1>13. ASSUME NEW r \in Req, Arrive(r)
       PROVE  UNCHANGED rows
  BY <1>13 DEF Arrive, RegisterRead, LoginRead, ValidateToken
<1>14. ASSUME NEW r \in Req, Proceed(r)
       PROVE  RemovedOwnsNothing'
  BY <1>1, <1>2, <1>3, <1>5, <1>6, <1>14
     DEF Proceed, PassGuards, StoreFile, EndRequest, rows
<1>15. ASSUME NEW r \in Req, Administer(r)
       PROVE  RemovedOwnsNothing'
  BY <1>1, <1>11, <1>12, <1>15, <1>9, <1>10
     DEF Administer, InvalidateInviteRead, RemoveRead, RemoveReadKeys, RemoveFile, rows
<1> QED
  BY <1>1, <1>4, <1>13, <1>14, <1>15, <1>8 DEF Next, vars, rows

\* Whatever overlaps its removal, a removed account has no session, no upload and no
\* invite left, and no part is left without its upload.
THEOREM RemovalIsComplete == Spec => []RemovedOwnsNothing
<1>1. Init => RemovedOwnsNothing /\ FreshInvites
  BY DEF Init, RemovedOwnsNothing, FreshInvites
<1>2. Followed => TypeOK
  BY DEF Followed
<1> QED
  BY <1>1, <1>2, AlwaysFollowed, NextFresh, NextOwnsNothing, PTL DEF Spec

-----------------------------------------------------------------------------
(***************************************************************************)
(* Policy bundles.  The inductive invariant: the rows of a level are       *)
(* numbered without a gap and the last alone is current, and no request    *)
(* has read a version beyond them.  That the unique index lets an insert   *)
(* in then means that nothing was published since the read.                *)
(***************************************************************************)
Row == [version : Nat, isCurrent : BOOLEAN, body : Body]

Numbered ==
  \A l \in Level : \A i \in 1..Len(bundle[l]) :
    /\ bundle[l][i].version = i
    /\ bundle[l][i].isCurrent <=> i = Len(bundle[l])

ReadEarlier ==
  \A r \in Request :
    /\ request[r].at = "publish" => request[r].seen <= Len(bundle[request[r].level])
    /\ request[r].at = "restore" => \A l \in Level : request[r].seen[l] <= Len(bundle[l])

Versioned == PolicyTypeOK /\ Numbered /\ ReadEarlier

\* One more version of a level, which alone is current.
Grows(l, body) ==
  /\ bundle'[l] \in Seq(Row)
  /\ Len(bundle'[l]) = Len(bundle[l]) + 1
  /\ \A i \in 1..Len(bundle[l]) : bundle'[l][i] = [bundle[l][i] EXCEPT !.isCurrent = FALSE]
  /\ bundle'[l][Len(bundle'[l])].version = Len(bundle'[l])
  /\ bundle'[l][Len(bundle'[l])].isCurrent
  /\ bundle'[l][Len(bundle'[l])].body = body

Grown(l) == \E body : Grows(l, body)

\* What a request may write into a level.
Written(r, l, body) ==
  body = Default[l] \/ (request[r].at = "publish" /\ body = request[r].body)

\* What a request has read.
LEMMA ReadRecords ==
  ASSUME Versioned, NEW r \in Request
  PROVE  /\ request[r].at = "publish" =>
              /\ request[r].level \in Level /\ request[r].seen \in Nat
              /\ request[r].body \in Body
         /\ request[r].at = "restore" => request[r].seen \in [Level -> Nat]
         /\ request[r].at = "seed" => request[r].level \in Level
         /\ request[r].at = "create" =>
              /\ request[r].level \in Level
              /\ request[r].row \in DOMAIN bundle[request[r].level]
<1>1. request[r] \in {AtRest} \cup Publishing \cup Restoring \cup Seeding \cup Creating
  BY DEF Versioned, PolicyTypeOK
<1>2. request[r].at = "create" => request[r].row \in DOMAIN bundle[request[r].level]
  BY DEF Versioned, PolicyTypeOK
<1>3. CASE request[r] \in {AtRest} \cup Seeding
  BY <1>3 DEF AtRest, Seeding
<1>4. CASE request[r] \in Publishing
  BY <1>4 DEF Publishing, Body
<1>5. CASE request[r] \in Restoring
  BY <1>5 DEF Restoring
<1>6. CASE request[r] \in Creating
  BY <1>2, <1>6 DEF Creating
<1> QED
  BY <1>1, <1>3, <1>4, <1>5, <1>6

\* The largest current version is the number of rows.
LEMMA CurrentIsLast ==
  ASSUME Versioned, NEW l \in Level, NEW i, IsCurrentBundle(l, i)
  PROVE  i = Len(bundle[l]) /\ bundle[l][i].version = i /\ i \in 1..Len(bundle[l])
BY DEF IsCurrentBundle, Current, Versioned, Numbered, PolicyTypeOK

\* A version that the unique index lets in, one above what was there at some time,
\* is the next one.
LEMMA InsertsNext ==
  ASSUME Versioned, NEW l \in Level, NEW n \in Nat, n <= Len(bundle[l]),
         Inserts(l, n + 1)
  PROVE  n = Len(bundle[l])
<1>1. Len(bundle[l]) \in Nat /\ DOMAIN bundle[l] = 1..Len(bundle[l])
  BY DEF Versioned, PolicyTypeOK
<1>2. ASSUME n < Len(bundle[l]) PROVE FALSE
  <2>1. n + 1 \in DOMAIN bundle[l]
    BY <1>1, <1>2
  <2> QED
    BY <1>1, <2>1 DEF Inserts, Versioned, Numbered
<1> QED
  BY <1>1, <1>2

LEMMA AppendRow ==
  ASSUME NEW s \in Seq(Row), NEW row \in Row
  PROVE  /\ Append(s, row) \in Seq(Row)
         /\ Len(Append(s, row)) = Len(s) + 1
         /\ \A i \in 1..Len(s) : Append(s, row)[i] = s[i]
         /\ Append(s, row)[Len(s) + 1] = row
BY AppendProperties

LEMMA SupersedingGrows ==
  ASSUME Versioned, NEW l \in Level, NEW body \in Body,
         bundle'[l] = Superseding(l, Len(bundle[l]) + 1, body)
  PROVE  Grows(l, body)
<1> DEFINE s == [i \in DOMAIN bundle[l] |-> [bundle[l][i] EXCEPT !.isCurrent = FALSE]]
           row == [version |-> Len(bundle[l]) + 1, isCurrent |-> TRUE, body |-> body]
<1>1. Len(bundle[l]) \in Nat /\ DOMAIN bundle[l] = 1..Len(bundle[l])
      /\ \A i \in 1..Len(bundle[l]) : bundle[l][i] \in Row
  <2>1. bundle[l] \in Seq(Row)
    BY DEF Versioned, PolicyTypeOK, Row
  <2> QED
    BY <2>1, LenProperties, ElementOfSeq
<1>2. s \in Seq(Row) /\ Len(s) = Len(bundle[l])
  <2>1. s \in [1..Len(bundle[l]) -> Row]
    BY <1>1 DEF Row
  <2> QED
    BY <1>1, <2>1
<1>3. \A i \in 1..Len(bundle[l]) : s[i] = [bundle[l][i] EXCEPT !.isCurrent = FALSE]
  BY <1>1
<1>4. row \in Row
  BY <1>1 DEF Row
<1>5. bundle'[l] = Append(s, row)
  BY DEF Superseding
<1>6. row.version = Len(bundle[l]) + 1 /\ row.isCurrent /\ row.body = body
  OBVIOUS
<1> HIDE DEF s, row
<1>7. /\ bundle'[l] \in Seq(Row)
      /\ Len(bundle'[l]) = Len(bundle[l]) + 1
      /\ \A i \in 1..Len(bundle[l]) : bundle'[l][i] = s[i]
      /\ bundle'[l][Len(bundle[l]) + 1] = row
  <2>1. /\ Append(s, row) \in Seq(Row)
        /\ Len(Append(s, row)) = Len(s) + 1
        /\ \A i \in 1..Len(s) : Append(s, row)[i] = s[i]
        /\ Append(s, row)[Len(s) + 1] = row
    BY <1>2, <1>4, AppendRow
  <2> QED
    BY <1>2, <1>5, <2>1
<1> QED
  BY <1>3, <1>6, <1>7 DEF Grows

LEMMA FirstGrows ==
  ASSUME Versioned, NEW l \in Level, Len(bundle[l]) = 0, NEW body \in Body,
         bundle'[l] = Append(bundle[l], [version |-> 1, isCurrent |-> TRUE, body |-> body])
  PROVE  Grows(l, body)
<1> DEFINE row == [version |-> 1, isCurrent |-> TRUE, body |-> body]
<1>1. bundle[l] \in Seq(Row)
  BY DEF Versioned, PolicyTypeOK, Row
<1>2. row \in Row /\ row.version = 1 /\ row.isCurrent /\ row.body = body
  BY DEF Row
<1> HIDE DEF row
<1>3. /\ bundle'[l] \in Seq(Row)
      /\ Len(bundle'[l]) = 1
      /\ bundle'[l][1] = row
  <2>1. /\ Append(bundle[l], row) \in Seq(Row)
        /\ Len(Append(bundle[l], row)) = Len(bundle[l]) + 1
        /\ Append(bundle[l], row)[Len(bundle[l]) + 1] = row
    BY <1>1, <1>2, AppendRow
  <2> QED
    BY <2>1 DEF row
<1> QED
  BY <1>2, <1>3 DEF Grows

LEMMA DefaultIsBody == \A l \in Level : Default[l] \in Body
  BY DEF Body

\* What a write does: it ends its request, and each level is as it was or has one
\* more version.
LEMMA WriteGrows ==
  ASSUME Versioned, NEW r \in Request, Write(r)
  PROVE  /\ request' = [request EXCEPT ![r] = AtRest]
         /\ DOMAIN bundle' = Level
         /\ \A l \in Level :
              bundle'[l] = bundle[l] \/ \E body : Grows(l, body) /\ Written(r, l, body)
<1> USE DEF Answer, Written
<1>1. DOMAIN bundle = Level
  BY DEF Versioned, PolicyTypeOK
<1>2. CASE PublishCommit(r)
  <2> DEFINE l == request[r].level
             n == request[r].seen
  <2>1. l \in Level /\ n \in Nat /\ request[r].body \in Body /\ n <= Len(bundle[l])
    BY <1>2, ReadRecords DEF PublishCommit, Versioned, ReadEarlier
  <2>2. n = Len(bundle[l])
    BY <1>2, <2>1, InsertsNext DEF PublishCommit
  <2>3. bundle' = [bundle EXCEPT ![l] = Superseding(l, n + 1, request[r].body)]
    BY <1>2 DEF PublishCommit
  <2>4. bundle'[l] = Superseding(l, Len(bundle[l]) + 1, request[r].body)
    BY <1>1, <2>1, <2>2, <2>3
  <2>5. Grows(l, request[r].body)
    BY <2>1, <2>4, SupersedingGrows
  <2> QED
    BY <1>1, <1>2, <2>3, <2>5 DEF PublishCommit
<1>3. CASE RestoreCommit(r)
  <2>1. request[r].seen \in [Level -> Nat]
    BY <1>3, ReadRecords DEF RestoreCommit
  <2>2. ASSUME NEW l \in Level PROVE Grows(l, Default[l])
    <3>1. request[r].seen[l] = Len(bundle[l])
      BY <1>3, <2>1, InsertsNext DEF RestoreCommit, Versioned, ReadEarlier
    <3>2. bundle'[l] = Superseding(l, request[r].seen[l] + 1, Default[l])
      BY <1>3 DEF RestoreCommit
    <3> QED
      BY <3>1, <3>2, DefaultIsBody, SupersedingGrows
  <2> QED
    BY <1>3, <2>2 DEF RestoreCommit
<1>4. CASE EnsureCommit(r)
  <2> DEFINE l == request[r].level
  <2>1. l \in Level
    BY <1>4, ReadRecords DEF EnsureCommit
  <2>2. Len(bundle[l]) = 0
    <3>1. Inserts(l, 0 + 1)
      BY <1>4 DEF EnsureCommit
    <3>2. Len(bundle[l]) \in Nat
      BY <2>1 DEF Versioned, PolicyTypeOK
    <3> QED
      BY <2>1, <3>1, <3>2, InsertsNext
  <2>3. bundle' = [bundle EXCEPT ![l] =
                     Append(@, [version |-> 1, isCurrent |-> TRUE, body |-> Default[l]])]
    BY <1>4 DEF EnsureCommit
  <2>4. Grows(l, Default[l])
    BY <1>1, <2>1, <2>2, <2>3, DefaultIsBody, FirstGrows
  <2> QED
    BY <1>1, <1>4, <2>3, <2>4 DEF EnsureCommit
<1>5. CASE Finish(r)
  BY <1>1, <1>5 DEF Finish
<1> QED
  BY <1>2, <1>3, <1>4, <1>5 DEF Write

\* A request that has read.
Waiting(record) ==
  /\ record \in Publishing \cup Restoring \cup Seeding \cup Creating
  /\ record.at = "publish" => record.level \in Level /\ record.seen <= Len(bundle[record.level])
  /\ record.at = "restore" => \A l \in Level : record.seen[l] <= Len(bundle[l])
  /\ record.at = "create" => record.level \in Level /\ record.row \in Current(record.level)

\* What a read finds: no version beyond the ones that are there, and a current row.
LEMMA ReadWaits ==
  ASSUME Versioned, NEW r \in Request, Read(r)
  PROVE  /\ UNCHANGED bundle
         /\ \E record : Waiting(record) /\ request' = [request EXCEPT ![r] = record]
<1>1. \A l \in Level : Len(bundle[l]) \in Nat
  BY DEF Versioned, PolicyTypeOK
<1>2. ASSUME NEW l \in Level, NEW d \in Draft, PublishRead(r, l, d)
      PROVE  /\ UNCHANGED bundle
             /\ \E record : Waiting(record) /\ request' = [request EXCEPT ![r] = record]
  <2>1. PICK i : /\ IsCurrentBundle(l, i)
                 /\ Await(r, [at |-> "publish", level |-> l, body |-> d,
                                     seen |-> bundle[l][i].version])
    BY <1>2 DEF PublishRead
  <2>2. bundle[l][i].version = Len(bundle[l])
    BY <2>1, CurrentIsLast
  <2>3. Waiting([at |-> "publish", level |-> l, body |-> d, seen |-> bundle[l][i].version])
    BY <1>1, <2>2 DEF Waiting, Publishing
  <2> QED
    BY <2>1, <2>3 DEF Await
<1>3. ASSUME RestoreRead(r)
      PROVE  /\ UNCHANGED bundle
             /\ \E record : Waiting(record) /\ request' = [request EXCEPT ![r] = record]
  <2>1. PICK n \in [Level -> 0..MaxVersion] :
          /\ \A l \in Level :
               \/ n[l] = 0
               \/ \E i : IsCurrentBundle(l, i) /\ n[l] = bundle[l][i].version
          /\ Await(r, [at |-> "restore", seen |-> n])
    BY <1>3 DEF RestoreRead
  <2>2. \A l \in Level : n[l] <= Len(bundle[l]) /\ n[l] \in Nat
    BY <1>1, <2>1, CurrentIsLast
  <2>3. Waiting([at |-> "restore", seen |-> n])
    BY <2>1, <2>2 DEF Waiting, Restoring
  <2> QED
    BY <2>1, <2>3 DEF Await
<1>4. ASSUME NEW l \in Level, EnsureRead(r, l)
      PROVE  /\ UNCHANGED bundle
             /\ \E record : Waiting(record) /\ request' = [request EXCEPT ![r] = record]
  <2>1. Waiting([at |-> "seed", level |-> l])
    BY DEF Waiting, Seeding
  <2> QED
    BY <1>4, <2>1 DEF EnsureRead, Await
<1>5. ASSUME NEW l \in Level, NEW kind \in Kinds, CreateRead(r, kind, l)
      PROVE  /\ UNCHANGED bundle
             /\ \E record : Waiting(record) /\ request' = [request EXCEPT ![r] = record]
  <2>1. PICK i \in Current(l) :
          /\ IsCurrentBundle(l, i)
          /\ Await(r, [at |-> "create", kind |-> kind, level |-> l, row |-> i])
    BY <1>5 DEF CreateRead
  <2>2. i \in Nat
    BY <1>1, <2>1, CurrentIsLast
  <2>3. Waiting([at |-> "create", kind |-> kind, level |-> l, row |-> i])
    BY <2>1, <2>2 DEF Waiting, Creating
  <2> QED
    BY <2>1, <2>3 DEF Await
<1> QED
  BY <1>2, <1>3, <1>4, <1>5 DEF Read

LEMMA InitVersioned == PolicyInit => Versioned
<1> SUFFICES ASSUME PolicyInit PROVE Versioned
  OBVIOUS
<1>1. \A r \in Request : request[r] = AtRest
  BY DEF PolicyInit
<1>2. \A l \in Level : bundle[l] = << >> /\ Len(bundle[l]) = 0
  BY DEF PolicyInit
<1>3. PolicyTypeOK
  BY <1>1, <1>2 DEF PolicyInit, PolicyTypeOK, AtRest
<1> QED
  BY <1>1, <1>2, <1>3 DEF Versioned, Numbered, ReadEarlier, AtRest

LEMMA NextVersioned == Versioned /\ [PolicyNext]_policyVars => Versioned'
<1> SUFFICES ASSUME Versioned, [PolicyNext]_policyVars PROVE Versioned'
  OBVIOUS
<1>1. \A l \in Level : /\ Len(bundle[l]) \in Nat
                       /\ bundle[l] \in Seq(Row)
                       /\ DOMAIN bundle[l] = 1..Len(bundle[l])
  <2>1. \A l \in Level : bundle[l] \in Seq(Row)
    BY DEF Versioned, PolicyTypeOK, Row
  <2> QED
    BY <2>1, LenProperties
<1>2. CASE UNCHANGED policyVars
  BY <1>2 DEF policyVars, Versioned, Numbered, ReadEarlier, PolicyTypeOK, Body
<1>3. ASSUME NEW r \in Request, Read(r)
      PROVE  Versioned'
  <2>1. UNCHANGED bundle
    BY <1>3, ReadWaits
  <2>2. PICK record : Waiting(record) /\ request' = [request EXCEPT ![r] = record]
    BY <1>3, ReadWaits
  <2>3. request'[r] = record /\ \A q \in Request \ {r} : request'[q] = request[q]
    BY <2>2 DEF Versioned, PolicyTypeOK
  <2>4. PolicyTypeOK'
    BY <2>1, <2>2, <2>3 DEF Versioned, PolicyTypeOK, Waiting, Current, Body
  <2>5. Numbered'
    BY <2>1 DEF Versioned, Numbered
  <2>6. ReadEarlier'
    BY <2>1, <2>2, <2>3 DEF Versioned, ReadEarlier, Waiting
  <2> QED
    BY <2>4, <2>5, <2>6 DEF Versioned
<1>4. ASSUME NEW r \in Request, Write(r)
      PROVE  Versioned'
  <2>1. /\ request' = [request EXCEPT ![r] = AtRest]
        /\ DOMAIN bundle' = Level
        /\ \A l \in Level : bundle'[l] = bundle[l] \/ Grown(l)
    BY <1>4, WriteGrows DEF Grown
  <2>2. request'[r] = AtRest /\ \A q \in Request \ {r} : request'[q] = request[q]
    BY <2>1 DEF Versioned, PolicyTypeOK
  <2>3. \A l \in Level : /\ bundle'[l] \in Seq(Row)
                         /\ Len(bundle'[l]) \in Nat
                         /\ DOMAIN bundle'[l] = 1..Len(bundle'[l])
                         /\ Len(bundle[l]) <= Len(bundle'[l])
    <3> SUFFICES ASSUME NEW l \in Level
                 PROVE  /\ bundle'[l] \in Seq(Row)
                        /\ Len(bundle'[l]) \in Nat
                        /\ DOMAIN bundle'[l] = 1..Len(bundle'[l])
                        /\ Len(bundle[l]) <= Len(bundle'[l])
      OBVIOUS
    <3>1. bundle'[l] \in Seq(Row) /\ Len(bundle[l]) <= Len(bundle'[l])
      BY <1>1, <2>1 DEF Grown, Grows
    <3> QED
      BY <3>1, LenProperties
  <2>4. bundle' \in [Level -> Seq(Row)]
    <3>1. bundle' = [l \in Level |-> bundle'[l]]
      BY <1>4, <2>1 DEF Write, PublishCommit, RestoreCommit,
         EnsureCommit, Finish, Versioned, PolicyTypeOK
    <3> QED
      BY <2>3, <3>1
  <2>5. PolicyTypeOK'
    <3>1. request' \in [Request -> {AtRest} \cup Publishing \cup Restoring
                                 \cup Seeding \cup Creating]
      BY <2>1 DEF Versioned, PolicyTypeOK
    <3>2. ASSUME NEW q \in Request, request'[q].at = "create"
          PROVE  request'[q].row \in DOMAIN bundle'[request'[q].level]
      <4>1. request'[q] = request[q]
        BY <2>2, <3>2 DEF AtRest
      <4>2. request[q].level \in Level /\ request[q].row \in DOMAIN bundle[request[q].level]
        BY <3>2, <4>1, ReadRecords
      <4> QED
        BY <1>1, <2>3, <4>1, <4>2
    <3> QED
      BY <2>4, <3>1, <3>2 DEF PolicyTypeOK, Row, Body
  <2>6. Numbered'
    <3> SUFFICES ASSUME NEW l \in Level, NEW i \in 1..Len(bundle'[l])
                 PROVE  /\ bundle'[l][i].version = i
                        /\ bundle'[l][i].isCurrent <=> i = Len(bundle'[l])
      BY DEF Numbered
    <3>1. CASE bundle'[l] = bundle[l]
      BY <3>1 DEF Versioned, Numbered
    <3>2. CASE Grown(l) /\ i = Len(bundle'[l])
      BY <3>2 DEF Grown, Grows
    <3>3. CASE Grown(l) /\ i # Len(bundle'[l])
      <4>1. i \in 1..Len(bundle[l])
        BY <1>1, <3>3 DEF Grown, Grows
      <4>2. bundle[l][i] \in Row
        BY <1>1, <4>1, ElementOfSeq
      <4>3. bundle'[l][i].version = bundle[l][i].version /\ ~bundle'[l][i].isCurrent
        BY <3>3, <4>1, <4>2 DEF Grown, Grows, Row
      <4> QED
        BY <3>3, <4>1, <4>3 DEF Versioned, Numbered
    <3> QED
      BY <2>1, <3>1, <3>2, <3>3
  <2>7. ReadEarlier'
    <3>1. ASSUME NEW q \in Request, request'[q].at = "publish"
          PROVE  request'[q].seen <= Len(bundle'[request'[q].level])
      <4>1. request'[q] = request[q]
        BY <2>2, <3>1 DEF AtRest
      <4>2. request[q].level \in Level /\ request[q].seen \in Nat
        BY <3>1, <4>1, ReadRecords
      <4>3. request[q].seen <= Len(bundle[request[q].level])
        BY <3>1, <4>1 DEF Versioned, ReadEarlier
      <4> QED
        BY <1>1, <2>3, <4>1, <4>2, <4>3
    <3>2. ASSUME NEW q \in Request, request'[q].at = "restore", NEW l \in Level
          PROVE  request'[q].seen[l] <= Len(bundle'[l])
      <4>1. request'[q] = request[q]
        BY <2>2, <3>2 DEF AtRest
      <4>2. request[q].seen \in [Level -> Nat]
        BY <3>2, <4>1, ReadRecords
      <4>3. request[q].seen[l] <= Len(bundle[l])
        BY <3>2, <4>1 DEF Versioned, ReadEarlier
      <4> QED
        BY <1>1, <2>3, <4>1, <4>2, <4>3
    <3> QED
      BY <3>1, <3>2 DEF ReadEarlier
  <2> QED
    BY <2>5, <2>6, <2>7 DEF Versioned
<1> QED
  BY <1>2, <1>3, <1>4 DEF PolicyNext

LEMMA VersionedHolds == PolicySpec => []Versioned
  BY InitVersioned, NextVersioned, PTL DEF PolicySpec

\* The rows of a level that are current, with their versions: the last one.
CurrentRows(l) == {<<i, bundle[l][i].version>> : i \in Current(l)}

LastIsCurrent ==
  \A l \in Level :
    /\ Len(bundle[l]) \in Nat
    /\ CurrentRows(l) = IF Len(bundle[l]) = 0 THEN {} ELSE {<<Len(bundle[l]), Len(bundle[l])>>}

LEMMA VersionedByLast == Versioned => LastIsCurrent
<1> SUFFICES ASSUME Versioned, NEW l \in Level
             PROVE  /\ Len(bundle[l]) \in Nat
                    /\ CurrentRows(l) = IF Len(bundle[l]) = 0 THEN {}
                                        ELSE {<<Len(bundle[l]), Len(bundle[l])>>}
  BY DEF LastIsCurrent
<1>1. Len(bundle[l]) \in Nat /\ DOMAIN bundle[l] = 1..Len(bundle[l])
  BY DEF Versioned, PolicyTypeOK
<1>2. Current(l) = IF Len(bundle[l]) = 0 THEN {} ELSE {Len(bundle[l])}
  BY <1>1 DEF Versioned, Numbered, Current
<1>3. Len(bundle[l]) # 0 => bundle[l][Len(bundle[l])].version = Len(bundle[l])
  BY <1>1 DEF Versioned, Numbered
<1> QED
  BY <1>1, <1>2, <1>3 DEF CurrentRows

\* However publications, restorations and starting processes overlap, a level has
\* one current bundle or none yet, and it is replaced by the next version alone.
THEOREM OneVersionIsCurrent == PolicySpec => OneCurrentVersion
<1> DEFINE current == [l \in Level |-> CurrentRows(l)]
<1>1. PolicyInit => Versions!Init
  <2> SUFFICES ASSUME PolicyInit PROVE Versions!Init
    OBVIOUS
  <2>1. \A l \in Level : Current(l) = {}
    BY DEF PolicyInit, Current
  <2> QED
    BY <2>1 DEF Versions!Init
<1>2. Versioned /\ LastIsCurrent /\ LastIsCurrent' /\ [PolicyNext]_policyVars
        => [Versions!Next]_current
  <2> SUFFICES ASSUME Versioned, LastIsCurrent, LastIsCurrent', [PolicyNext]_policyVars
               PROVE  Versions!Next \/ UNCHANGED current
    OBVIOUS
  <2>1. CASE UNCHANGED bundle
    BY <2>1 DEF CurrentRows, Current
  <2>2. ASSUME NEW r \in Request, Write(r) PROVE Versions!Next
    <3>1. ASSUME NEW l \in Level
          PROVE  CurrentRows(l)' \in {CurrentRows(l)} \cup Versions!Advance(CurrentRows(l))
      <4>1. CASE bundle'[l] = bundle[l]
        BY <4>1 DEF CurrentRows, Current
      <4>2. CASE Grown(l)
        <5> DEFINE n == Len(bundle[l])
        <5>1. n \in Nat /\ Len(bundle'[l]) = n + 1 /\ n + 1 # 0
          BY <4>2 DEF LastIsCurrent, Grown, Grows
        <5>2. CurrentRows(l)' = {<<n + 1, n + 1>>}
          BY <5>1 DEF LastIsCurrent
        <5>3. CurrentRows(l) = IF n = 0 THEN {} ELSE {<<n, n>>}
          BY DEF LastIsCurrent
        <5> HIDE DEF n
        <5>4. CASE n = 0
          BY <5>2, <5>3, <5>4 DEF Versions!Advance
        <5>5. CASE n # 0
          <6>1. CurrentRows(l) # {} /\ <<n, n>> \in CurrentRows(l)
            BY <5>3, <5>5
          <6>2. <<n, n>>[1] = n /\ <<n, n>>[2] = n
            OBVIOUS
          <6> QED
            BY <5>2, <6>1, <6>2 DEF Versions!Advance
        <5> QED
          BY <5>4, <5>5
      <4> QED
        BY <2>2, <4>1, <4>2, WriteGrows DEF Grown
    <3> QED
      BY <3>1 DEF Versions!Next, CurrentRows
  <2> QED
    BY <2>1, <2>2, ReadWaits DEF PolicyNext, policyVars
<1> QED
  BY <1>1, <1>2, VersionedHolds, VersionedByLast, PTL
     DEF PolicySpec, OneCurrentVersion, Versions!Spec, CurrentRows

-----------------------------------------------------------------------------
(* The fallback: the bodies of the rows, and those about to be published.   *)

Sane(b) == b.fallback = "true" => b.relay = "true"

SaneBundles ==
  /\ \A l \in Level : \A i \in 1..Len(bundle[l]) : Sane(bundle[l][i].body)
  /\ \A r \in Request : request[r].at = "publish" => Sane(request[r].body)

LEMMA ReadIsSane ==
  ASSUME NEW r \in Request, NEW record, Read(r),
         request' = [request EXCEPT ![r] = record], DOMAIN request = Request,
         record.at = "publish"
  PROVE  Sane(record.body)
<1>1. request'[r] = record
  OBVIOUS
<1>2. ASSUME NEW l \in Level, NEW d \in Draft, PublishRead(r, l, d)
      PROVE  Sane(record.body)
  <2>1. PICK n : request' = [request EXCEPT ![r] = [at |-> "publish", level |-> l,
                                                    body |-> d, seen |-> n]]
    BY <1>2 DEF PublishRead, Await
  <2>2. record.body = d
    BY <1>1, <2>1
  <2> QED
    BY <1>2, <2>2 DEF PublishRead, ValidSections, Sane
<1>3. CASE RestoreRead(r)
  <2>1. PICK n : request' = [request EXCEPT ![r] = [at |-> "restore", seen |-> n]]
    BY <1>3 DEF RestoreRead, Await
  <2> QED
    BY <1>1, <2>1
<1>4. ASSUME NEW l \in Level, EnsureRead(r, l) PROVE FALSE
  BY <1>1, <1>4 DEF EnsureRead, Await
<1>5. ASSUME NEW l \in Level, NEW kind, CreateRead(r, kind, l) PROVE FALSE
  BY <1>1, <1>5 DEF CreateRead, Await
<1> QED
  BY <1>2, <1>3, <1>4, <1>5 DEF Read

LEMMA NextSane == Versioned /\ SaneBundles /\ [PolicyNext]_policyVars => SaneBundles'
<1> SUFFICES ASSUME Versioned, SaneBundles, [PolicyNext]_policyVars PROVE SaneBundles'
  OBVIOUS
<1>1. DOMAIN request = Request /\ \A l \in Level : Len(bundle[l]) \in Nat
  BY DEF Versioned, PolicyTypeOK
<1>2. CASE UNCHANGED policyVars
  BY <1>2 DEF policyVars, SaneBundles
<1>3. ASSUME NEW r \in Request, Read(r) PROVE SaneBundles'
  <2>1. UNCHANGED bundle
    BY <1>3, ReadWaits
  <2>2. PICK record : request' = [request EXCEPT ![r] = record]
    BY <1>3, ReadWaits
  <2>3. record.at = "publish" => Sane(record.body)
    BY <1>1, <1>3, <2>2, ReadIsSane
  <2> QED
    BY <1>1, <2>1, <2>2, <2>3 DEF SaneBundles
<1>4. ASSUME NEW r \in Request, Write(r) PROVE SaneBundles'
  <2>1. /\ request' = [request EXCEPT ![r] = AtRest]
        /\ \A l \in Level :
             bundle'[l] = bundle[l] \/ \E body : Grows(l, body) /\ Written(r, l, body)
    BY <1>4, WriteGrows
  <2>2. ASSUME NEW q \in Request, request'[q].at = "publish" PROVE Sane(request'[q].body)
    BY <1>1, <2>1, <2>2 DEF SaneBundles, AtRest
  <2>3. ASSUME NEW l \in Level, NEW i \in 1..Len(bundle'[l]) PROVE Sane(bundle'[l][i].body)
    <3>1. CASE bundle'[l] = bundle[l]
      BY <3>1 DEF SaneBundles
    <3>2. ASSUME NEW body, Grows(l, body), Written(r, l, body), i = Len(bundle'[l])
          PROVE  Sane(bundle'[l][i].body)
      BY <3>2, DefaultsAssumption DEF Grows, Written, SaneBundles, Sane
    <3>3. ASSUME NEW body, Grows(l, body), i # Len(bundle'[l])
          PROVE  Sane(bundle'[l][i].body)
      <4>1. i \in 1..Len(bundle[l])
        BY <1>1, <3>3 DEF Grows
      <4>2. bundle[l] \in Seq(Row)
        BY DEF Versioned, PolicyTypeOK, Row
      <4>3. bundle[l][i] \in Row
        BY <4>1, <4>2, ElementOfSeq
      <4>4. bundle'[l][i].body = bundle[l][i].body
        BY <3>3, <4>1, <4>3 DEF Grows, Row
      <4> QED
        BY <4>1, <4>4 DEF SaneBundles
    <3> QED
      BY <2>1, <3>1, <3>2, <3>3
  <2> QED
    BY <2>2, <2>3 DEF SaneBundles
<1> QED
  BY <1>2, <1>3, <1>4 DEF PolicyNext

\* Under whatever version it was read, a fallback that is the boolean true comes
\* with relay: publication validates the two together, and the defaults, which
\* nothing validates, agree.
THEOREM BooleanFallbackHasRelay == PolicySpec => []FallbackHasRelay
<1>1. PolicyInit => SaneBundles
  BY DEF PolicyInit, SaneBundles, AtRest
<1>2. Versioned /\ SaneBundles => FallbackHasRelay
  <2> SUFFICES ASSUME Versioned, SaneBundles, NEW r \in Request, request[r].at = "create"
               PROVE  Sane(bundle[request[r].level][request[r].row].body)
    BY DEF FallbackHasRelay, Sane, Truthy
  <2>1. request[r].level \in Level /\ request[r].row \in DOMAIN bundle[request[r].level]
    BY ReadRecords
  <2>2. DOMAIN bundle[request[r].level] = 1..Len(bundle[request[r].level])
    BY <2>1 DEF Versioned, PolicyTypeOK
  <2> QED
    BY <2>1, <2>2 DEF SaneBundles
<1> QED
  BY <1>1, <1>2, VersionedHolds, NextSane, PTL DEF PolicySpec
=============================================================================

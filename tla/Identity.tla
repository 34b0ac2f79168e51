------------------------------- MODULE Identity -------------------------------
(***************************************************************************)
(* Accounts, invites, sessions and guards (IdentityService,                *)
(* SessionsService, SessionGuard, TrustedDeviceGuard, AdminGuard), and the *)
(* removal of a user with the rows and files of uploads, which stand for   *)
(* all that an account owns.                                               *)
(*                                                                         *)
(* A request passes the guards on what one read has told of its account,   *)
(* and acts later; a removal collects what it will delete in a series of   *)
(* reads, deletes it in one transaction, and removes the files after that. *)
(***************************************************************************)
EXTENDS FiniteSets

CONSTANTS
  User,      \* ids of accounts that register; each has a name of its own
  Admin,     \* the administrator the deployment has created
  Invite,
  Token,     \* sessions
  Upload,    \* upload sessions, each with at most one part
  Req,       \* concurrent requests
  None

ASSUME IdentityAssumption ==
  /\ Admin \notin User
  /\ None \notin User \cup {Admin}
  /\ "deleted" \notin User \cup {Admin, None}

VARIABLES
  user,      \* the User rows
  invite,    \* the InviteCode rows
  session,   \* whose session each token is
  upload,    \* UploadSession rows: their uploader
  part,      \* the uploads with an UploadPart row
  file,      \* the uploads with a part in the storage
  req,       \* where each request stands
  stray      \* history: the files left behind by a failure, or stored while
             \* their owner was being removed

vars == <<user, invite, session, upload, part, file, req, stray>>

-----------------------------------------------------------------------------
Account == User \cup {Admin}

\* Of a row that is not there yet, or no longer, the other fields say nothing.
Presence == {"none", "here", "removed"}

UserRow == [is : Presence, approved : BOOLEAN, enabled : BOOLEAN]

Exists(a) == user[a].is = "here"

Usable(a) == Exists(a) /\ user[a].approved /\ user[a].enabled

Closings == {"expired", "invalidated", "consumed"}

\* expiresAt has passed, invalidatedAt and consumedAt are set.
InviteRow == [is : Presence, closed : SUBSET Closings, by : User \cup {None}]

(***************************************************************************)
(* Where a request stands:                                                 *)
(*   registering, crediting   register and login, after their checks       *)
(*   guarded     SessionGuard has read the session with its account        *)
(*   acting      the guards have let it through                            *)
(*   storing     the part's file is written, its row is not                *)
(*   collecting, deleting, cleaning   removeUser                           *)
(***************************************************************************)
Idle == [at |-> "idle"]

Requests ==
  [at : {"registering"}, user : User, invite : Invite]
    \cup [at : {"crediting", "acting"}, user : Account]
    \cup [at : {"guarded"}, user : Account, token : Token, usable : BOOLEAN]
    \cup [at : {"invalidating"}, user : Account, invite : Invite]
    \cup [at : {"storing"}, user : Account, upload : Upload]
    \cup [at : {"collecting"}, user : Account, of : User, uploads : SUBSET Upload]
    \cup [at : {"deleting"}, user : Account, of : User, uploads : SUBSET Upload,
          keys : SUBSET Upload]
    \cup [at : {"cleaning"}, user : Account, keys : SUBSET Upload]

TypeOK ==
  /\ user \in [Account -> UserRow]
  /\ invite \in [Invite -> InviteRow]
  /\ session \in [Token -> Account \cup {None}]
  /\ upload \in [Upload -> Account \cup {None, "deleted"}]
  /\ part \in SUBSET Upload
  /\ file \in SUBSET Upload
  /\ req \in [Req -> {Idle} \cup Requests]
  /\ stray \in SUBSET Upload

Init ==
  /\ user = [a \in Account |->
       [is |-> IF a = Admin THEN "here" ELSE "none",
        approved |-> a = Admin, enabled |-> a = Admin]]
  /\ invite = [i \in Invite |-> [is |-> "none", closed |-> {}, by |-> None]]
  /\ session = [t \in Token |-> None]
  /\ upload = [x \in Upload |-> None]
  /\ part = {}
  /\ file = {}
  /\ req = [r \in Req |-> Idle]
  /\ stray = {}

-----------------------------------------------------------------------------
Enter(r, record) == req[r] = Idle /\ req' = [req EXCEPT ![r] = record]

Leave(r) == req' = [req EXCEPT ![r] = Idle]

rows == <<user, invite, session, upload, part, file, stray>>

(* Registration and invites. *)

Open(i) == invite[i].is = "here" /\ invite[i].closed = {}

\* Mutant: only a registration has used an invite up.
RegisterWithExpired(r, u, i) ==
  /\ invite[i].is = "here" /\ "consumed" \notin invite[i].closed
  /\ user[u].is = "none"
  /\ Enter(r, [at |-> "registering", user |-> u, invite |-> i])
  /\ UNCHANGED rows

RegisterRead(r, u, i) ==
  /\ Open(i)
  /\ user[u].is = "none"
  /\ Enter(r, [at |-> "registering", user |-> u, invite |-> i])
  /\ UNCHANGED rows

\* The hash of the password is computed in between.  The name is unique; the
\* invite is consumed whatever has become of it, as long as it is there.
RegisterCommit(r) ==
  /\ req[r].at = "registering"
  /\ LET u == req[r].user
         i == req[r].invite
     IN  /\ user[u].is = "none"
         /\ invite[i].is = "here"
         /\ user' = [user EXCEPT ![u] = [is |-> "here", approved |-> FALSE, enabled |-> TRUE]]
         /\ invite' = [invite EXCEPT ![i].closed = @ \cup {"consumed"}, ![i].by = u]
  /\ Leave(r)
  /\ UNCHANGED <<session, upload, part, file, stray>>

InviteExpires(i) ==
  /\ Open(i)
  /\ invite' = [invite EXCEPT ![i].closed = {"expired"}]
  /\ UNCHANGED <<user, session, upload, part, file, req, stray>>

-----------------------------------------------------------------------------
(* Sessions. *)

\* validateCredentials asks for the password, not for the account's state.
LoginRead(r, a) ==
  /\ Exists(a)
  /\ Enter(r, [at |-> "crediting", user |-> a])
  /\ UNCHANGED rows

\* Mutant: the session does not refer to the account.
CreateSessionOfRead(r, t) ==
  /\ req[r].at = "crediting"
  /\ session[t] = None
  /\ session' = [session EXCEPT ![t] = req[r].user]
  /\ Leave(r)
  /\ UNCHANGED <<user, invite, upload, part, file, stray>>

CreateSession(r, t) ==
  /\ req[r].at = "crediting"
  /\ Exists(req[r].user)
  /\ session[t] = None
  /\ session' = [session EXCEPT ![t] = req[r].user]
  /\ Leave(r)
  /\ UNCHANGED <<user, invite, upload, part, file, stray>>

\* Logout, or validateToken meets one of the two ends of the session.
DestroySession(t) ==
  /\ session[t] # None
  /\ session' = [session EXCEPT ![t] = None]
  /\ UNCHANGED <<user, invite, upload, part, file, req, stray>>

\* SessionGuard lets in whoever has a session; it takes the account's state from
\* the read of the session, for the guards that judge it.
ValidateToken(r, t) ==
  /\ session[t] # None
  /\ Exists(session[t])
  /\ Enter(r, [at |-> "guarded", user |-> session[t], token |-> t,
               usable |-> Usable(session[t])])
  /\ UNCHANGED rows

\* The session's idle end is moved: the update fails when the row is gone.  Then
\* TrustedDeviceGuard or AdminGuard judges what was read; a trusted device is
\* presumed.  The routes with SessionGuard alone, those of trust, are DeviceTrust's.
PassGuards(r) ==
  /\ req[r].at = "guarded"
  /\ session[req[r].token] # None
  /\ req[r].usable
  /\ req' = [req EXCEPT ![r] = [at |-> "acting", user |-> req[r].user]]
  /\ UNCHANGED rows

-----------------------------------------------------------------------------
(* What an account does: uploads. *)

Acting(r, a) == req[r].at = "acting" /\ req[r].user = a

\* prepareUploadSession; the row refers to the account.
StartUpload(r, x) ==
  /\ \E a \in User : Acting(r, a) /\ Exists(a) /\ upload' = [upload EXCEPT ![x] = a]
  /\ upload[x] = None
  /\ Leave(r)
  /\ UNCHANGED <<user, invite, session, part, file, stray>>

\* storeUploadPartBody, once: UploadSession has it with replacements and quotas.
StoreFile(r, x) ==
  /\ \E a \in User : Acting(r, a) /\ upload[x] = a
  /\ x \notin file
  /\ file' = file \cup {x}
  /\ req' = [req EXCEPT ![r] = [at |-> "storing", user |-> req[r].user, upload |-> x]]
  /\ UNCHANGED <<user, invite, session, upload, part, stray>>

\* A removal has read the keys of this upload's parts already.
KeysRead(x) == \E r \in Req : req[r].at = "deleting" /\ x \in req[r].uploads

\* The row refers to the upload.
StoreRow(r) ==
  /\ req[r].at = "storing"
  /\ LET x == req[r].upload
     IN  /\ upload[x] \in Account
         /\ part' = part \cup {x}
         /\ stray' = IF KeysRead(x) THEN stray \cup {x} ELSE stray
  /\ Leave(r)
  /\ UNCHANGED <<user, invite, session, upload, file>>

-----------------------------------------------------------------------------
(* What the administrator does. *)

CreateInvite(r, i) ==
  /\ Acting(r, Admin)
  /\ invite[i].is = "none"
  /\ invite' = [invite EXCEPT ![i].is = "here"]
  /\ Leave(r)
  /\ UNCHANGED <<user, session, upload, part, file, stray>>

InvalidateInviteRead(r, i) ==
  /\ Acting(r, Admin)
  /\ invite[i].is = "here"
  /\ invite[i].closed \cap {"consumed", "invalidated"} = {}
  /\ req' = [req EXCEPT ![r] = [at |-> "invalidating", user |-> Admin, invite |-> i]]
  /\ UNCHANGED rows

InvalidateInviteCommit(r) ==
  /\ req[r].at = "invalidating"
  /\ invite[req[r].invite].is = "here"
  /\ invite' = [invite EXCEPT ![req[r].invite].closed = @ \cup {"invalidated"}]
  /\ Leave(r)
  /\ UNCHANGED <<user, session, upload, part, file, stray>>

\* approveUser, disableUser and enableUser update whatever row there is; the
\* administrator's own, too.
UpdateUser(r, a, row) ==
  /\ Acting(r, Admin)
  /\ Exists(a)
  /\ row \in {[user[a] EXCEPT !.approved = TRUE], [user[a] EXCEPT !.enabled = FALSE],
              [user[a] EXCEPT !.enabled = TRUE]}
  /\ user' = [user EXCEPT ![a] = row]
  /\ Leave(r)
  /\ UNCHANGED <<invite, session, upload, part, file, stray>>

\* removeUser: first what the account owns, then the storage keys of that.
RemoveRead(r, u) ==
  /\ Acting(r, Admin)
  /\ Exists(u)
  /\ req' = [req EXCEPT ![r] =
       [at |-> "collecting", user |-> Admin, of |-> u,
        uploads |-> {x \in Upload : upload[x] = u}]]
  /\ UNCHANGED rows

\* Mutant: the keys of the uploads to be kept are taken for those to be removed.
RemoveReadNoKeys(r) ==
  /\ req[r].at = "collecting"
  /\ req' = [req EXCEPT ![r] =
       [at |-> "deleting", user |-> Admin, of |-> @.of, uploads |-> @.uploads,
        keys |-> part \ @.uploads]]
  /\ UNCHANGED rows

RemoveReadKeys(r) ==
  /\ req[r].at = "collecting"
  /\ req' = [req EXCEPT ![r] =
       [at |-> "deleting", user |-> Admin, of |-> @.of, uploads |-> @.uploads,
        keys |-> @.uploads \cap part]]
  /\ UNCHANGED rows

\* One transaction.  It fails on an upload that refers to the account and was not
\* collected.  Rows go by upload, so that a part stored since the keys were read
\* loses its row and keeps its file.
RemoveDelete(r) ==
  /\ req[r].at = "deleting"
  /\ LET u == req[r].of
         uploads == req[r].uploads
     IN  /\ Exists(u)
         /\ \A x \in Upload : upload[x] = u => x \in uploads
         /\ user' = [user EXCEPT ![u].is = "removed"]
         /\ session' = [t \in Token |-> IF session[t] = u THEN None ELSE session[t]]
         /\ upload' = [x \in Upload |-> IF x \in uploads THEN "deleted" ELSE upload[x]]
         /\ part' = part \ uploads
         /\ invite' = [i \in Invite |->
              IF invite[i].by = u THEN [invite[i] EXCEPT !.is = "removed"] ELSE invite[i]]
  /\ req' = [req EXCEPT ![r] = [at |-> "cleaning", user |-> Admin, keys |-> @.keys]]
  /\ UNCHANGED <<file, stray>>

\* One file after another; what cannot be removed is reported to the caller.
RemoveFile(r, x, removed) ==
  /\ req[r].at = "cleaning"
  /\ x \in req[r].keys
  /\ req' = [req EXCEPT ![r].keys = @ \ {x}]
  /\ file' = IF removed THEN file \ {x} ELSE file
  /\ stray' = IF removed THEN stray ELSE stray \cup {x}
  /\ UNCHANGED <<user, invite, session, upload, part>>

\* A refusal, a failing statement, the end of a removal, or the process stops.
EndRequest(r) ==
  /\ req[r] # Idle
  /\ stray' = CASE req[r].at = "storing"  -> stray \cup {req[r].upload}
                [] req[r].at = "cleaning" -> stray \cup req[r].keys
                [] OTHER                  -> stray
  /\ Leave(r)
  /\ UNCHANGED <<user, invite, session, upload, part, file>>

-----------------------------------------------------------------------------
Arrive(r) ==
  \/ \E u \in User, i \in Invite : RegisterRead(r, u, i)
  \/ \E a \in Account : LoginRead(r, a)
  \/ \E t \in Token : ValidateToken(r, t)

Proceed(r) ==
  \/ RegisterCommit(r)
  \/ \E t \in Token : CreateSession(r, t)
  \/ PassGuards(r)
  \/ \E x \in Upload : StartUpload(r, x) \/ StoreFile(r, x)
  \/ StoreRow(r)
  \/ EndRequest(r)

Administer(r) ==
  \/ \E i \in Invite : CreateInvite(r, i) \/ InvalidateInviteRead(r, i)
  \/ InvalidateInviteCommit(r)
  \/ \E a \in Account : \E row \in UserRow : UpdateUser(r, a, row)
  \/ \E u \in User : RemoveRead(r, u)
  \/ RemoveReadKeys(r)
  \/ RemoveDelete(r)
  \/ \E x \in Upload, removed \in BOOLEAN : RemoveFile(r, x, removed)

Next ==
  \/ \E i \in Invite : InviteExpires(i)
  \/ \E t \in Token : DestroySession(t)
  \/ \E r \in Req : Arrive(r) \/ Proceed(r) \/ Administer(r)

Spec == Init /\ [][Next]_vars

-----------------------------------------------------------------------------
(* Properties *)

\* A removal deletes by what it has collected in reads before, while the account
\* may still log in, prepare an upload or store a part.  Whatever overlaps it, a
\* removed account has no session, no upload and no invite left, and no part is
\* left without its upload.
RemovedOwnsNothing ==
  /\ \A a \in Account : user[a].is = "removed" =>
       /\ \A t \in Token : session[t] # a
       /\ \A x \in Upload : upload[x] # a
       /\ \A i \in Invite : invite[i].is = "here" => invite[i].by # a
  /\ \A x \in part : upload[x] \in Account

Registers(i) == \E r \in Req : req[r].at = "registering" /\ req[r].invite = i

\* Registration does not look at the invite again after the password's hash: two
\* may use one invite, or an invalidated one.  But once it is closed and those that
\* read it open are through, it lets nobody in any more.
InvitesDrain ==
  [][\A i \in Invite : invite[i].is # "none" /\ ~Open(i) /\ ~Registers(i)
       => ~Open(i)' /\ ~Registers(i)']_vars

\* The removal of a user takes the files with it: one whose rows are gone is about
\* to be removed or has its row refused, unless a failure has left it behind, or
\* it was stored while the removal was under way.
RemovalTakesFiles ==
  \A x \in file \ stray :
    upload[x] = "deleted" =>
      \E r \in Req : \/ req[r].at = "cleaning" /\ x \in req[r].keys
                     \/ req[r].at = "storing" /\ x = req[r].upload
=============================================================================

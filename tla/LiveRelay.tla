------------------------------ MODULE LiveRelay ------------------------------
(***************************************************************************)
(* The relay of a live transfer: the signals and relay chunks that         *)
(* LiveTransferService keeps, and the two pages at its ends                *)
(* (LiveSessionPage), one of which sends a payload chunk by chunk while    *)
(* the other receives, acknowledges and saves it.  LiveSession has the     *)
(* session up to here: both sides have confirmed, the relay is active.     *)
(*                                                                         *)
(* Chunks are encrypted with a key that the pages derive from their own    *)
(* key pair and from the other's public key, which goes by signals.  A     *)
(* second payload takes the sequences of the first, and an upload the      *)
(* place of an earlier one.                                                *)
(***************************************************************************)
EXTENDS Naturals, FiniteSets

CONSTANTS
  Sends,     \* number of payloads the sender may send (bound)
  Size,      \* Size[n]: relay chunks of payload n, the manifest first
  MaxPairs   \* key pairs that a side may generate (bound)

ASSUME RelayAssumption ==
  /\ Sends \in Nat /\ MaxPairs \in Nat
  /\ Size \in [1..Sends -> Nat \ {0}]

VARIABLES
  state,     \* of the session
  inbox,     \* public keys in the unread signals to each side
  row,       \* LiveTransferRelayChunk of each sequence
  file,      \* chunks in the storage: <<payload, sequence>>
  upload     \* uploadRelayChunk: where the handler of each payload's upload is

VARIABLES
  pair,      \* liveKeyPairRef of each page
  made,      \* key pairs each side has generated
  published, \* the pages whose effect has sent their public key, or tried to
  key,       \* liveKeyRef of each page: the two pairs it comes from
  sent,      \* payloads begun
  sending,   \* the sequence sendRelay is at, 0 when it is not under way
  sealed,    \* the key each payload is encrypted with
  listing,   \* sequences in the receiver's last list of pending chunks
  received,  \* receivedRelayChunks: the payload each chunk was of
  receiving, \* the sequence receiveRelayChunk is at, and what it has got
  saved,     \* what saveRelayPayload has written last
  listedAll, \* history: the last list was taken after the sending ended
  mishaps    \* history: the kinds there have been

serverVars == <<state, inbox, row, file, upload>>
keyVars == <<pair, made, published, key>>
sendVars == <<sent, sending, sealed>>
receiveVars == <<listing, received, receiving, saved, listedAll>>
relayVars == <<serverVars, keyVars, sendVars, receiveVars, mishaps>>

-----------------------------------------------------------------------------
Side == {"sender", "receiver"}

Other(s) == IF s = "sender" THEN "receiver" ELSE "sender"

Payload == 1..Sends
Sequence == UNION {1..Size[n] : n \in Payload}
Chunk == Payload \X Sequence

\* No payload, no pair, nowhere, nothing received of a sequence.
None == 0

\* A key comes from a pair of either side.
NoKey == <<None, None>>
Keys == (0..MaxPairs) \X (0..MaxPairs)

ExchangeStates == {"ACTIVE", "COMPLETED", "FAILED"}

\* payload 0: no row; otherwise the storage key it names is that of the chunk.
ChunkRow == [payload : 0..Sends, receivedAt : BOOLEAN]

UploadSteps == {"done", "read", "written", "upserted"}

NotUploading == [at |-> "done", sequence |-> None, previous |-> None]

\* exchange: a page was opened anew or failed to send its key, an answer with
\*   signals was lost, or came before the page had its pair;
\* payload: a page was opened anew, a payload was sent again or broken off, or
\*   saved after a list from before the end of the sending.
Mishap == {"exchange", "payload"}

RelayTypeOK ==
  /\ state \in ExchangeStates
  /\ inbox \in [Side -> SUBSET (1..MaxPairs)]
  /\ row \in [Sequence -> ChunkRow]
  /\ file \subseteq Chunk
  /\ upload \in [Payload -> [at : UploadSteps, sequence : Sequence \cup {None}, previous : 0..Sends]]
  /\ pair \in [Side -> 0..MaxPairs]
  /\ made \in [Side -> 0..MaxPairs]
  /\ published \subseteq Side
  /\ key \in [Side -> Keys]
  /\ sent \in 0..Sends
  /\ sending \in Sequence \cup {None}
  /\ sealed \in [Payload -> Keys]
  /\ listing \subseteq Sequence
  /\ received \in [Sequence -> 0..Sends]
  /\ receiving \in Sequence \cup {None}
  /\ saved \in [Sequence -> 0..Sends]
  /\ listedAll \in BOOLEAN
  /\ mishaps \subseteq Mishap

NothingReceived == [q \in Sequence |-> None]

RelayInit ==
  /\ state = "ACTIVE"
  /\ inbox = [s \in Side |-> {}]
  /\ row = [q \in Sequence |-> [payload |-> None, receivedAt |-> FALSE]]
  /\ file = {}
  /\ upload = [n \in Payload |-> NotUploading]
  /\ pair = [s \in Side |-> None]
  /\ made = [s \in Side |-> 0]
  /\ published = {}
  /\ key = [s \in Side |-> NoKey]
  /\ sent = 0
  /\ sending = None
  /\ sealed = [n \in Payload |-> NoKey]
  /\ listing = {}
  /\ received = NothingReceived
  /\ receiving = None
  /\ saved = NothingReceived
  /\ listedAll = FALSE
  /\ mishaps = {}

-----------------------------------------------------------------------------
(* assertCanExchangeTransportData and assertRelayActive; the transport       *)
(* stays RELAY_ACTIVE.                                                       *)

MayExchange == state = "ACTIVE"
MayReceive == state \in {"ACTIVE", "COMPLETED"}

(* The key exchange. *)

KeyOf(s, own, public) == IF s = "sender" THEN <<own, public>> ELSE <<public, own>>

\* sendLivePublicKeySignal, as the page opens.  The page has begun to generate a
\* pair before any signal arrived, and keeps it over one that a signal made it
\* generate.
Announce(s) ==
  /\ MayExchange
  /\ s \notin published
  /\ made[s] < MaxPairs
  /\ made' = [made EXCEPT ![s] = @ + 1]
  /\ pair' = [pair EXCEPT ![s] = made'[s]]
  /\ published' = published \cup {s}
  /\ UNCHANGED <<state, row, file, upload, key, sendVars, receiveVars>>

Announced(s) == [inbox EXCEPT ![Other(s)] = @ \cup {made'[s]}]

Publish(s) ==
  /\ Announce(s)
  /\ inbox' = Announced(s)
  /\ UNCHANGED mishaps

\* The signal or its answer is lost.  The failure resets livePublicKeySentRef, which
\* does not run the effect again while the session stays as it is.
PublishFails(s) ==
  /\ Announce(s)
  /\ inbox' \in {inbox, Announced(s)}
  /\ mishaps' = mishaps \cup {"exchange"}

\* Mutant: what is unread is looked up after it was marked.
PollAfterMark(s) ==
  /\ MayExchange
  /\ inbox[s] # {}
  /\ inbox' = [inbox EXCEPT ![s] = {}]
  /\ UNCHANGED <<state, row, file, upload, keyVars, sendVars, receiveVars, mishaps>>

\* listSignals marks what it returns as read, and handleSignal derives a key from
\* each public key, in no certain order.
PollSignals(s) ==
  /\ MayExchange
  /\ IF pair[s] # None
       THEN /\ UNCHANGED <<made, pair, mishaps>>
       ELSE /\ made[s] < MaxPairs
            /\ made' = [made EXCEPT ![s] = @ + 1]
            /\ pair' = [pair EXCEPT ![s] = made'[s]]
            /\ mishaps' = mishaps \cup {"exchange"}
  /\ \E public \in inbox[s] : key' = [key EXCEPT ![s] = KeyOf(s, pair'[s], public)]
  /\ inbox' = [inbox EXCEPT ![s] = {}]
  /\ UNCHANGED <<state, row, file, upload, published, sendVars, receiveVars>>

\* The answer does not reach the page.
LosePoll(s) ==
  /\ MayExchange
  /\ inbox[s] # {}
  /\ inbox' = [inbox EXCEPT ![s] = {}]
  /\ mishaps' = mishaps \cup {"exchange"}
  /\ UNCHANGED <<state, row, file, upload, keyVars, sendVars, receiveVars>>

-----------------------------------------------------------------------------
(* sendRelay: the manifest and then the data, one upload after another.      *)

SendRelay ==
  /\ MayExchange
  /\ sending = None
  /\ sent < Sends
  /\ key["sender"] # NoKey
  /\ sent' = sent + 1
  /\ sending' = 1
  /\ sealed' = [sealed EXCEPT ![sent + 1] = key["sender"]]
  /\ inbox' = [inbox EXCEPT !["receiver"] = @ \cup {pair["sender"]}]
  /\ mishaps' = IF sent = 0 THEN mishaps ELSE mishaps \cup {"payload"}
  /\ UNCHANGED <<state, row, file, upload, keyVars, receiveVars>>

Uploading(n) == upload[n].at # "done"

\* uploadRelayChunk reads the session and the row that it will replace,
UploadRead ==
  /\ sending # None
  /\ ~Uploading(sent)
  /\ MayExchange
  /\ upload' = [upload EXCEPT ![sent] =
       [at |-> "read", sequence |-> sending, previous |-> row[sending].payload]]
  /\ UNCHANGED <<state, inbox, row, file, keyVars, sendVars, receiveVars, mishaps>>

\* writes a file of a new name,
UploadWrite(n) ==
  /\ upload[n].at = "read"
  /\ file' = file \cup {<<n, upload[n].sequence>>}
  /\ upload' = [upload EXCEPT ![n].at = "written"]
  /\ UNCHANGED <<state, inbox, row, keyVars, sendVars, receiveVars, mishaps>>

\* names it in the row, which is pending again,
UploadUpsert(n) ==
  /\ upload[n].at = "written"
  /\ row' = [row EXCEPT ![upload[n].sequence] = [payload |-> n, receivedAt |-> FALSE]]
  /\ upload' = [upload EXCEPT ![n].at = "upserted"]
  /\ UNCHANGED <<state, inbox, file, keyVars, sendVars, receiveVars, mishaps>>

\* Mutant: what the row names now is removed, if it is another chunk.
RemoveCurrent(n) == {<<row[upload[n].sequence].payload, upload[n].sequence>>} \ {<<n, upload[n].sequence>>}

\* The file that the row named when it was read.
RemovePrevious(n) == {<<upload[n].previous, upload[n].sequence>>}

NextSequence(n) == IF sending = Size[n] THEN None ELSE sending + 1

\* removes the file it replaced, and answers the page, if it is still there.
UploadRemove(n) ==
  /\ upload[n].at = "upserted"
  /\ file' = file \ RemovePrevious(n)
  /\ upload' = [upload EXCEPT ![n] = NotUploading]
  /\ sending' = IF n = sent /\ sending = upload[n].sequence THEN NextSequence(n) ELSE sending
  /\ UNCHANGED <<state, inbox, row, keyVars, sent, sealed, receiveVars, mishaps>>

\* A refusal, a failing statement, or the process stops; sendRelay ends with it.
UploadFails(n) ==
  /\ Uploading(n)
  /\ upload' = [upload EXCEPT ![n] = NotUploading]
  /\ sending' = IF n = sent THEN None ELSE sending
  /\ mishaps' = IF n = sent THEN mishaps \cup {"payload"} ELSE mishaps
  /\ UNCHANGED <<state, inbox, row, file, keyVars, sent, sealed, receiveVars>>

\* The page sees the failure of a request that goes on in the server.
SendBreaksOff ==
  /\ sending # None
  /\ sending' = None
  /\ mishaps' = mishaps \cup {"payload"}
  /\ UNCHANGED <<serverVars, keyVars, sent, sealed, receiveVars>>

-----------------------------------------------------------------------------
(* receiveRelayChunk, receiveAllRelayChunks, saveRelayPayload.               *)

Pending == {q \in Sequence : row[q].payload # None /\ ~row[q].receivedAt}

ListRelayChunks ==
  /\ MayReceive
  /\ listing' = Pending
  /\ listedAll' = (sent > 0 /\ sending = None)
  /\ UNCHANGED <<serverVars, keyVars, sendVars, received, receiving, saved, mishaps>>

Downloadable(q) == row[q].payload # None /\ <<row[q].payload, q>> \in file

\* A chunk in the list that the page does not have: downloaded, decrypted, kept.
ReceiveChunk(q) ==
  /\ receiving = None
  /\ q \in listing
  /\ received[q] = None
  /\ MayReceive
  /\ Downloadable(q)
  /\ key["receiver"] # NoKey /\ key["receiver"] = sealed[row[q].payload]
  /\ received' = [received EXCEPT ![q] = row[q].payload]
  /\ receiving' = q
  /\ UNCHANGED <<serverVars, keyVars, sendVars, listing, saved, listedAll, mishaps>>

\* acknowledgeRelayChunk marks the row whichever upload it names by now.
Acknowledge ==
  /\ receiving # None
  /\ MayReceive
  /\ row' = [row EXCEPT ![receiving].receivedAt = TRUE]
  /\ receiving' = None
  /\ UNCHANGED <<state, inbox, file, upload, keyVars, sendVars, listing, received, saved,
                  listedAll, mishaps>>

\* Refused, or lost; the page keeps the chunk.
AcknowledgeFails ==
  /\ receiving # None
  /\ receiving' = None
  /\ UNCHANGED <<serverVars, keyVars, sendVars, listing, received, saved, listedAll, mishaps>>

\* Mutant: what was not received yet does not count.
CanSaveSome == received # NothingReceived /\ receiving = None

CanSave ==
  /\ received # NothingReceived
  /\ \A q \in listing : received[q] # None
  /\ receiving = None

\* The chunks in the order of their sequences, and the session is completed.
SaveRelayPayload ==
  /\ CanSave
  /\ saved' = received
  /\ state' = "COMPLETED"
  /\ mishaps' = IF listedAll THEN mishaps ELSE mishaps \cup {"payload"}
  /\ UNCHANGED <<inbox, row, file, upload, keyVars, sendVars, listing, received, receiving,
                  listedAll>>

-----------------------------------------------------------------------------
\* A page is opened anew: its references and what it has received are gone.
Reload(s) ==
  /\ pair' = [pair EXCEPT ![s] = None]
  /\ key' = [key EXCEPT ![s] = NoKey]
  /\ published' = published \ {s}
  /\ mishaps' = Mishap
  /\ \/ /\ s = "sender"
        /\ sending' = None
        /\ UNCHANGED receiveVars
     \/ /\ s = "receiver"
        /\ listing' = {} /\ received' = NothingReceived /\ receiving' = None
        /\ listedAll' = FALSE
        /\ UNCHANGED <<sending, saved>>
  /\ UNCHANGED <<serverVars, made, sent, sealed>>

\* Either side completes or fails the session (LiveSession).
EndSession(outcome) ==
  /\ state' = outcome
  /\ UNCHANGED <<inbox, row, file, upload, keyVars, sendVars, receiveVars, mishaps>>

-----------------------------------------------------------------------------
Exchange ==
  \E s \in Side : Publish(s) \/ PublishFails(s) \/ PollSignals(s) \/ LosePoll(s) \/ Reload(s)

Send ==
  \/ SendRelay \/ UploadRead \/ SendBreaksOff
  \/ \E n \in Payload : UploadWrite(n) \/ UploadUpsert(n) \/ UploadRemove(n) \/ UploadFails(n)

Receive ==
  \/ ListRelayChunks
  \/ \E q \in Sequence : ReceiveChunk(q)
  \/ Acknowledge \/ AcknowledgeFails
  \/ SaveRelayPayload

RelayNext ==
  \/ Exchange \/ Send \/ Receive
  \/ \E outcome \in {"COMPLETED", "FAILED"} : EndSession(outcome)

\* An open page tries to publish its key, once, and goes on polling.
Fairness ==
  \A s \in Side :
    WF_relayVars(Publish(s) \/ PublishFails(s)) /\ WF_relayVars(PollSignals(s))

RelaySpec == RelayInit /\ [][RelayNext]_relayVars /\ Fairness

-----------------------------------------------------------------------------
(* Properties *)

\* However the uploads of one sequence overlap, each removing the file that it has
\* seen before it, a chunk that is on offer can be downloaded.
OfferedIsThere ==
  \A q \in Sequence : row[q].payload # None => Downloadable(q)

Whole(n) == [q \in Sequence |-> IF q \in 1..Size[n] THEN n ELSE None]

\* The receiving page counts what it has not received by its last list, and a
\* sender may be behind that; but one payload, sent once to a page that stays
\* open, and saved after a list that the end of the sending precedes, is saved
\* whole.
SavedWhole ==
  saved # NothingReceived /\ "payload" \notin mishaps
    => saved = Whole(1)

KeysAgree == key["sender"] # NoKey /\ key["sender"] = key["receiver"]

\* Unless a page is opened anew or fails to send its key, an answer is lost, a
\* signal comes before the page has its pair, or the session ends, the two sides
\* come to the same key, whatever else is sent, received or fails.
KeysMeet == <>(KeysAgree \/ ~MayExchange \/ "exchange" \in mishaps)
=============================================================================

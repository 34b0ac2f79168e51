# Liminalis: TLA+ models, model checking and proofs

This directory holds the formal models of the Liminalis server: TLA+ modules
translated from the TypeScript sources, TLC configurations that check them on
small instances, and theorems that TLAPS proves for every instance.

## 1. Inventory of the system

Liminalis is a NestJS API over PostgreSQL (Prisma, READ COMMITTED), a React web
client, a React admin site and deployment scripts. All shared state is in the
database and on the local disk; the API processes keep none, except the
rate-limit windows. Every `await` is a point where another request may run.
Most handlers read, check and write in separate statements, so the
behaviours that are hard to test are the ones where two handlers interleave.

| Component | State | Operations | Interacts with | Hard behaviour |
| --- | --- | --- | --- | --- |
| Source items | `SourceItem` rows: state, level, validUntil | create (finalize), revoke, change level, change validity, expire | cascades to links, extractions, shares, attempts; projections | check outside the transaction of the write; expiry without cascade |
| Public links | `PublicLink`, `PublicLinkDeliveryTicket` | create, download (reserve, finish, release), issue and redeem tickets, refresh | source items; HTTP response events | two-phase use of a slot, stale writes of the state |
| Extractions | `ExtractionAccess`, attempts | create, submit password, complete, download, refresh | source items | counts and states written from earlier reads |
| Shares | `ShareObject`, attempts | create, issue, complete, expire | source items, access grants | completion races the cascade |
| Owner retrieval | `RetrievalAttempt` | issue, complete, download | source items | burn after read without cascade |
| Uploads | `UploadSession`, `UploadPart`, files, quota | prepare, store a part, finalize, expire | storage, source items, projections | replacement of a part races finalization; quota checked before it is used |
| Storage | files under a root | write, read, remove | uploads, live fallback | crash between file and row |
| Live transfer | session, signals, relay chunks | create, join, confirm, transport, relay, complete, fail, cancel, stored fallback | source items, projections | handshake of two peers; terminal states that are overwritten |
| Device trust | devices, pairing sessions, recovery sets, resume challenges | bootstrap, pair, recover, resume | sessions, access grants | one-time credentials under concurrency |
| Identity | users, invites, sessions | register, approve, enable, remove, log in | everything | one-time invites, removal of a user with live data |
| Policy | bundles per level | publish, evaluate | all creations | version race on publish |
| Maintenance | access-grant sets | re-grant | trust | version race |
| Projections | timeline, history, search rows | project, read | all writers | out-of-order projection |
| Rate limiting | in-memory windows | assertAllowed | controllers | window boundary |
| Web client | browser state | upload, download, live session | API | retry, abort, peers |

What makes each correct: a public link never gives more downloads than it was
configured for and never loses one; an inactive item hands nothing out; an
upload's item refers to files that exist and is created once; quota is not
exceeded; a live session needs both confirmations and its terminal state is
final; a pairing or recovery credential works once; a projection shows the
latest state. `PROJECT.json` lists the hazards line by line.

## 2. Plan

Modules in the order of the importance of what they say. Done:

1. `SourceItem`, `DownloadBudget`, `PublicLink`: the item, its revocation and
   the counted downloads of a link, which implement an abstract budget.
2. `Extraction` on `SourceItem`: attempts, stale counts, states written late.
3. `Retrieval` on `SourceItem`: the owner's and a recipient's attempts, the
   share, what may be read once.
4. `UploadSession`: parts, files on disk, quota and finalization.
5. `Identity`: invites, sessions and guards, removal of a user with its files.
6. `DeviceTrust`: bootstrap, pairing, recovery, resume and removal of trust.
7. `LiveSession`: join, confirmation, transport, end, fallback, record.
8. `LiveRelay`: signals and relay chunks, with the two pages at the ends.
9. `PolicyBundles`, `VersionedRows`: publication of bundles and the decisions
   taken from them; the levels' versions implement abstract versioned rows.
10. `Projection` on `SourceItem`: views written from earlier reads.

11. Proofs of every safety property of 1 to 10, in modules of their own
    (`...Proofs`), the two refinements among them.

Left:

12. Re-granting an item or a share after a change of trust (maintenance), a
    second client of `VersionedRows`.

Three proof modules are about two components each. They extend both, so
`PolicyBundles`, `LiveRelay` and `Projection` name what every specification has
for what it belongs to (`PolicyInit`, `relayVars`, `ProjectionSpec`), as
`SourceItem` does.

One passing run per component is the rule, with all its properties; a second
only where the bounds must differ (`public_link_budget` needs two tickets,
`public_link` a clock).

## 3. What is modelled

A handler is cut at every `await` that matters: the part up to a statement of
the database, together with that statement, is one action, and what the handler
has read and will use later is kept in its request's record. A transaction is
one action, since its reads that matter happen before it. A query that includes
a relation reads the row by one statement and the relation by another. In
`Extraction` these are two actions. Elsewhere one action stands for both, where
the later read cannot let in what the earlier one would refuse: mostly it is the
item, which never becomes ACTIVE again, otherwise a column that does not change
or a row whose write is guarded again. Where the later read decides something
that is written (`ReleaseRead` of `PublicLink`) the action chooses either
outcome. Requests are slots (`Req`, `Caller`); `LoseRequest` ends one at any
point, as a stopped process or a failed statement does.

### SourceItem

One item and the owner's concurrent requests (`Caller`). Every handler of
`SourceItemsService` checks the item, awaits and writes without looking again,
so it is two actions: `...Read` (the check) and `...Commit` (the write). The
writes other services make to the same row are here too: an overdue item is
marked EXPIRED without a cascade by retrieval, extraction, share and link
requests (`NoticeExpiryRead`, `MarkExpired`), and the completion of a
burn-after-read retrieval purges it (`IssueBurnAttempt`, `BurnCommit`). A
missing `validUntil` is `Forever`, an instant after the clock's last. The
module has no Next of its own: the modules of derived access extend it and
attach `invalidateDerivedAccess` to `CascadingSourceStep`.

### PublicLink, DownloadBudget

`link` and `ticket` are the rows; `req` says where each anonymous request
stands and what it has read; `maker` holds the owner's creations between check
and insert. `reservePublicDownload` is one action: its first statement takes
the row lock. `releasePublicDownload` and `redeemIssuedTicket` read without a
lock and are two actions each. A response is `preparing` until the controller
has attached its two handlers, then `streaming`, then `ended` when its last byte
is written. `Finish` is the handler of `finish`, `CloseEarly` that of `close`,
which acts only on a response that has not been ended. `CloseUnseen` is a
connection that closes before the handlers are attached, or between the end and
`finish`: neither acts, and the request stays `unseen` with its ticket.
`LoseRequest` is a server that stops, or a statement that fails.

`DownloadBudget` is what a link promises: a unit of the budget is held, then
spent or handed back, and held plus spent never exceed the budget.
`PublicLink!BudgetSpec` instantiates it with the reserved and the redeemed
tickets of each link.

### Extraction

`access` is the one `ExtractionAccess` row, `attempt` the status of the
retrieval attempt of each scope key, `req` the recipient's requests, `maker` the
owner's creation. `submitPassword` reads, verifies and ends by writing ACTIVE or
CHALLENGE_REQUIRED. Each `findUnique` with `include` is two steps, a read of the
row and a read of the relation: the refresh reads the entry (`Refresh`) and its
item (`Refreshed`), a download the attempt (`FetchRead`) and its item
(`FetchItem`), a completion the attempt (`CompleteRead`) and its entry
(`CompleteCount`). `completeExtractionRetrieval` computes the new count from the
entry it read before its transaction, so the record of a request carries
`remaining`. Two histories: `retrievals` is how often an attempt has gone from
open to COMPLETED, `repeats` how often a completion was written by a request
whose attempt another had completed since it was read (`overtaken`). The
captcha, the number of failed passwords and the wrapped keys decide nothing
about these rows' states and are chosen freely.

### UploadSession

`session` is the row (phase and kind), `part` the `UploadPart` rows, `disk` the
size of the object under each key, `used` the keys handed out so far (each
write takes a `randomUUID`), `items` the storage bindings of the source items
made of the session. A store is six steps (check, write of the file, lookup of
the earlier row, measuring of the quota, upsert or refusal, removal of the
replaced file); a registration and a finalization are cut in the same way.

`seen` records what has been irregular so far: `overlap` (a request began while
another was under way), `registered` (a part was registered by its storage key
instead of stored), `lost` (a request stopped half way). A property that
needs some regularity names exactly that: `PartRowsHaveFiles` holds under any
overlap and any loss, `BoundFilesStay` under losses. What overlap breaks is
listed in section 7.

### LiveSession

`session` is the row, `policy` the decision copied into it at creation (any
combination of its flags, as `PolicyBundles` says), `uploads` counts the upload
sessions prepared for the fallback, `record` is the outcome in the retained
record, `req` the participants' requests. A handler is three or four steps:
read and check (`Join`, `Confirm`, `Connect`, `End`, `Fallback`), write by id
(`...Commit`), read again (`ProjectRead`) and write the record (`Record`).
`consent` is a history of the devices that have confirmed and `seen` is as
above. The initiator may join its own session, as in the code. Declining,
completing and failing differ only in the state they write and are one action,
`End`. The two owners' record rows take the same values and stand as one;
signals and relay chunks are in `LiveRelay`.

### DeviceTrust

One user. `trust` is the state of each device row (a row is inserted at most
once), `pairing` the session that a device has requested, `overdue` the devices
whose session is past its `expiresAt`, `recovered` those with
`recoveryRequestedAt`, `codes` which set of recovery codes is stored,
`challenge` one resume challenge. `getPairingSession` begins every pairing
handler: a late session is marked EXPIRED by a second statement
(`NoticeOverdue`, `ExpireCommit`) and the handler refuses. `approvePairing`,
`rejectPairing` and `finalizePairing` check and then write by id, in two
actions. The bootstrap's transaction is taken back when the user already has a
recovery set (`NoRecoverySet`, a unique column), and the resume's update is
guarded (`StillOpen`). What happened is kept in histories: `warrant`, `boots`,
`spent`, `twice`, `resumes`.

### Retrieval

`share` is the one `ShareObject` row (its `inactiveReason` stands for the state
INACTIVE), `attempt` the status of the attempt of each reader and scope, `maker`
a creation of the share between its read and its insert. Issue, completion and
refusal are two actions each; a download passes its checks in one and streams
until the request ends. The owner's attempts and the recipient's run through
the same `createDownloadStreamForAttempt`. `SourceCascade` is
`invalidateDerivedAccess` for shares and attempts. `finished` is a history of who
has completed. What the item and the share write by id, whatever they have
become, is kept: `RefuseCommit` and `CompleteCommit` look at nothing.

### PolicyBundles, VersionedRows

`bundle` holds the rows of each level in the order of insertion. Publication,
restoration of all levels and the seeding of a starting process read the current
version and insert the next; the unique `(levelName, bundleVersion)` is the
guard `Inserts`. `ValidSections` and the five evaluators are operators on a
bundle, with JavaScript's `Number(null) = 0` and `??`. A flag of a submitted
section may be a boolean, a number, a string or null: it is `"true"`, `"false"`,
`"truthy"` or `"falsy"`. The validation compares it with `true` and `false`, the
evaluators take its `Boolean()` (`Truthy`). Limits are integers or null; strings
in their place, which `Number()` converts, are left out. A creation reads a
bundle and holds it until its object is inserted.

`VersionedRows` is what a versioned setting promises: one current row or none,
and each replaced only by its successor. `PolicyBundles!OneCurrentVersion`
instantiates it with the current rows of each level.

### Projection

`view` is the status of the item and of its share in the timeline, the history
and the search; `proj` is where each request's projection stands: it reads
once, then writes three rows in turn, the share's after the item's when both
are projected. Writes that the code does not follow by a projection
(`UnprojectedWrite`), lost projections and ones overtaken by an earlier read go
into the history `missed`. A share that is ACTIVE may be shown as overdue or not
(its time is not modelled here).

### Identity

`user`, `invite` and `session` are the rows; an account may own `upload` rows
with a `part` row and a `file`, and these stand for everything an account owns
(relay chunks have the same life). A request's `req` says how far it has come:
through the guards' read (`guarded`), let through (`acting`), or inside one of
the handlers that are cut (`registering`, `storing`, `collecting` and so on).
`removeUser` is a read of the rows, a read of the keys, one transaction and one
removal per file. A session's two deadlines are `DestroySession`, at any time.
`SessionGuard` lets in whoever has a session (`ValidateToken`); the account's
state is kept as it was read (`usable`) and judged by the guard after it
(`PassGuards`), which every modelled route has. `stray` is a history: files left
by a failure, or stored while their owner was being removed.

### LiveRelay

`inbox` holds the public keys in unread signals, `row` and `file` the relay
chunks, `upload` where the handler of each payload's upload is; `pair`, `key`,
`published`, `sending`, `listing`, `received` and `saved` are the state of the
two pages (React refs and state). `PollSignals` and `LosePoll` are one poll
whose answer arrives or does not: the server has marked the signals in both.
`PublishFails` is a key signal that fails to be sent, or whose answer is lost:
the page resets a ref, which does not run its effect again. An upload reads,
writes its file, upserts its row and removes the file it had seen replaced; a
page may break off while the handler goes on. Chunks and keys are numbers; a key
is the two pairs it comes from. `mishaps` records a page opened anew, a failed
publication, a lost answer, a second payload and the like, and a property that
needs their absence says so.

## 4. Runs

| Run | Shows | Bounds |
| --- | --- | --- |
| `public_link` | `EverySlotSettles` under fairness: a slot is settled or its connection closed unseen; `RevocationDrains`: after the item is inactive and in-flight requests have run out, nothing is handed out | 1 link, 1 ticket row, 2 requests, 1 owner request and 1 creation, 2 downloads, clock 0..1 |
| `public_link_budget` | types, `SlotConservation`, `ActiveHasSlots`, and the refinement `BudgetSpec` | 2 tickets, 2 requests, clock fixed, requests may be lost |
| `extraction` | types, `ChargedOnce`, `RevocationDrains` | 1 scope key, 2 requests, 2 retrievals, 2 completions, clock 0..1 |
| `retrieval` | types, `ReadOnceCloses`, `RetrievalDrains` | 1 scope key per reader, 2 requests, 1 owner request, clock 0..1 |
| `upload` | types and five properties of parts, files, quota and finalization | 2 parts, 4 files, 2 requests, sizes 0..1, quota 1, 2 items |
| `live_session` | types, `BothSidesConfirmed`, `TransportAllowed`, `EndedStaysEnded` | 2 devices, 2 requests, 5 policies, 2 fallbacks |
| `live_join` | expected violation: a late join replaces the device that has confirmed | 3 devices, 2 requests |
| `live_relay` | `OfferedIsThere`, `SavedWhole`, and `KeysMeet` under fairness | payloads of 2 and of 1 chunk, 2 key pairs a side |
| `device_trust` | types and six properties of trust, bootstrap, resume, codes and pairing | 3 devices, 2 requests, recoveries from 1 set of codes on |
| `policy` | `FallbackHasRelay`, and the refinement `OneCurrentVersion` | 2 levels, 3 drafts, versions to 3, minutes 0..2, 2 requests |
| `projection` | `ViewsFollow`, `BurnedStaysGone` | 2 requests, 1 item, 1 share, clock 0..1 |
| `identity` | `RemovedOwnsNothing`, `RemovalTakesFiles`, `InvitesDrain` | 2 users and the administrator, 1 invite, 2 sessions, 1 upload, 2 requests |

Why the bounds are enough to be interesting. Two requests are what every race in
this code needs: one that has read, one that writes in between; each may be a
repetition of the other. Links do not interact except through their item, so one
is enough; two downloads let a link be neither full nor empty, and one instant
of the clock lets every `validUntil` pass. In `extraction` and `retrieval` two
requests work on one attempt, and may repeat, reopen or overtake each other; two
completions are a call and its repetition. Attempts of different keys meet only
in the entry's count, and the theorems have any number of keys. Four files for
two parts let both parts be written and both be replaced; quota 1 makes one of
two parts fit; two items make a double finalization visible. Two devices are the
two ends of a session, and the third in `live_join` is the one that joins late;
three devices are one that is bootstrapped and two that are paired or recovered,
in any mixture; the five policies cover each branch of the choice of a
transport, both values of each of the other decisions, and a fallback without
relay. The third draft of `policy` has a fallback that is truthy but not `true`,
without relay, which passes the validation. In `live_relay` the second payload
is shorter than the first, so that it replaces one chunk and leaves the other,
and the second key pair is that of a page opened anew. Three versions are two
replacements on top of a seeded level. In `identity` one invite is what two
users compete for, and one upload is enough since removals treat uploads one by
one.

`MaxDownloads`, `MaxRetrievals` and the like are values a request chooses from;
`MaxCompletions`, `MaxItems`, `MaxUploads`, `MaxCodes`, `MaxVersion`, `MaxPairs`
and `Sends` bound how often the model begins an operation, not what the code may
do in it. `projection` has the constraint `ShareNotMissed`: once a projection of
the share has been lost nothing is claimed of the share, and the item's
projections go on without it in the states that are kept. The theorems remove
the bounds. Deadlock is not checked: with the bounds reached and every request
answered, the modelled systems rest.

Fairness. `PublicLink!KeptSpec`: a server that stays up carries each handler it
has started as far as the client lets it (weak fairness of `ServerStep`).
Nothing is assumed of clients: a connection may close at any time, seen or
unseen. That no client keeps a response open for ever is the antecedent of
`EverySlotSettles`, and a ticket whose connection closed unseen is its
exception, since nothing settles it. `LoseRequest` is left out of `NextKept`;
with it, a slot can be lost at any place, which the hazard list records.
`LiveRelay!Fairness`: a page that stays open tries once to publish its key, and
succeeds or fails (weak fairness of `Publish` or `PublishFails`), and polls for
signals at an interval (weak fairness of `PollSignals`); nothing is assumed of
the sending, and the session may end at any time. No other run assumes fairness.

Every property has a mutant in `PROJECT.json`: an operator of the module that
changes one definition as a plausible bug would (an unguarded decrement, a
reused storage key, a forgotten check), under which TLC finds the property
violated. Their comments begin with `Mutant:`.

## 5. Proofs

All theorems are about `Spec`, or the `PolicySpec`, `RelaySpec` or
`ProjectionSpec` of their component, and hold for every value of the constants
allowed by the named assumptions (`HorizonAssumption`, `LinkAssumption`,
`ExtractionAssumption`, `RetrievalAssumption`, `UploadAssumption`,
`LiveAssumption`, `RelayAssumption`, `TrustAssumption`, `IdentityAssumption`,
`PolicyAssumption`: null values are not rows, bounds are naturals, tickets and
part numbers are finitely many, the administrator is nobody else).
`DefaultsAssumption` says of the seeded bundles what is true of the code's: none
allows the fallback from peer to peer to relay without the relay.

`PublicLinkProofs`: `TypeCorrect`, `ActiveAlwaysHasSlots`,
`SlotsAreConserved`, `ImplementsBudget`, `RevocationIsFinal`. `Footing` is the
inductive invariant. It says that a request holds what its place implies --
one with a response, or one that releases, holds a reserved ticket of its link that
no other request holds -- and that a state about to be written by a release is
never ACTIVE on a link without slots. Without it, `ReleaseCommit` could hand the
same slot back twice. `SlotEffect` classifies what a step does to the count and
the tickets of a link; counting (`FiniteSetTheorems`) turns that into the
balance, and the same classification gives the refinement step by step.

`ExtractionProofs`: `ExtractionTypeCorrect`, `RetrievalsAreChargedOnce`,
`ExtractionRevocationIsFinal`. The count is written from stale reads, so
`ChargedOnce` is not inductive: `Ledger` adds what a completion in flight
carries. The count it has read was accounted for when it was read. When it is
written the attempt is either still open, and the completion is one retrieval
more, or it has been completed by another since it was read, and this is one
repetition more (`overtaken`). The drain theorems of both modules
share `SourceItemProofs`: an item that is not ACTIVE stays so.

`UploadSessionProofs`: `UploadTypeCorrect`, `OverdueSessionsDrain`,
`StoredPartsKeepTheirFiles`, `FinalizedAtMostOnce`, `FinalizedFilesStay`,
`PartsStayWithinQuota`. `Custody` is the invariant: a file belongs to the request
that wrote it, then to the row that names it, then to the requests that have
replaced it, and only the last remove it; no file has two owners that may keep
it. This is why a cleanup that runs late, or twice, never takes a file a row
names, and it is also where a registration (which names a file by a key from
outside) would break the chain: `Kept` claims `Custody` only until then. For the
two about finalization `Lone` says that without overlap at most one request is
under way, and none once there is an item; `Bound`, that what a row names, a
finalization has read or an item is made of is a file on disk. `Budgeted` says
that a request let in by the quota still fits when it writes its row, since it
is the only one under way. The sum itself needs an induction over the parts:
`MinimalSubset` gives a least counterexample among the subsets of a finite set,
with which `TotalCounts` shows that the fold of `Usage` counts the bytes of the
rows one by one, and `TotalOfChange` that a row written anew changes it by the
difference of the two sizes.

`LiveTransferProofs`: `LiveTypeCorrect`, `ConnectedMeansConfirmed`,
`TransportObeysPolicy`, `EndedSessionsStayEnded` of `LiveSession`, and
`RelayTypeCorrect`, `OfferedChunksAreThere`, `RegularPayloadsAreSavedWhole` of
`LiveRelay`. `Handshake` adds what a request promises when it will write
CONNECTING: the other side's confirmation, once recorded, is never taken back
(`Onward`), so the decision is still right when it is written, although the row
was not looked at again. For the end of a session `InTurn` says that without
overlap one request at a time is under way, and the state it has read is still
there when it writes. `Offered` is the invariant of the relay: payloads are sent
one after the other and reach each sequence at most once, and until one does
nothing there refers to it (`Fresh`), so that an upload may remove the file it
has replaced at any later time (`Held`): no row will name it again. While
nothing has gone wrong (`Regular`) the rows are what has been sent, and the
receiver has each of them, has it in its list or will list it again.

`DeviceTrustProofs`: `TrustTypeCorrect`, `TrustIsEarned`, `OneBootstrap`,
`OneResume`, `LatePairingIsClosed`, `OneRecoveryPerSet`,
`ClosedPairingsLeadNowhere`. `Sound` is the invariant: what stands behind
a device is recorded before anything can make it trusted, so the requests that
have read it may write late (`Grounds`, `Promise`); what a unique column or a
guarded update allows once is used up (`UsedUp`). `Enrolled` adds that a
pairing session is never inserted again, without which a late session could
become a new one. The last two hold without overlap: `InTurn` says that the codes
or the pairing a request has read are still those of the rows, and that the sets
spent are older than the one that stands.

`RetrievalProofs`: `RetrievalTypeCorrect`, `ReadOnceIsFinal`,
`ClosedObjectsDrain`. What could open a closed share is its insertion, which is
a blind write too: `SharedOnce` says that while there is no share, nothing of a
recipient's has happened, and that a creation past its read stands before any
share (the model has one). `Refuses` says that what a late refusal writes is a
reason. The drain follows as for links, with `SourceItemProofs`. The same module
has `ProjectionTypeCorrect`, `ListsFollowTheirObjects` and
`BurnedItemsStayGone` of `Projection`. Nothing orders two projections of one
object, so `Covered` counts by row: each row of an object with nothing missed
shows what the object is, or some projection has that row still to write and has
read no earlier than the last change. That the lists of a burned item stay empty
needs no more than the types: whoever could bring a row back has read, or
decided, before.

`AdministrationProofs`: `IdentityTypeCorrect`, `RemovalIsThorough`,
`RemovalIsComplete`, `ClosedInvitesDrain` of `Identity`, and
`OneVersionIsCurrent`, `BooleanFallbackHasRelay` of `PolicyBundles`. `Followed`
is the invariant: a file is in the hands of the handler that wrote it, then of
the row that names it (`RowOrHandler`), then of a removal that has read its key;
`KnowsKeys` says that a removal past that read knows every part there is, except
those stored since, which are what `stray` collects. At the transaction the row
is lost, and the key is in the removal's hands. `RemovalIsComplete` is inductive
with the types and `FreshInvites` (nobody has used an invite that is not there):
every insertion that refers to an account looks for it in the same statement,
and an account removed is never inserted again. For the bundles `Versioned` says
that the rows of a level are numbered by their order and that only the last is
current, and that a request has read no more versions than there are: the
version it inserts is then either taken, and the unique index refuses it, or the
next. `OneVersionIsCurrent` is the refinement of `VersionedRows`, step by step.
`SaneBundles` carries the check of a publication, for a fallback that is `true`,
to whoever decides by its bundle.

Only model-checked: `EverySlotSettles` and `KeysMeet`, which are liveness under
fairness and beyond the prover, and the expected violation. Every other property
of a passing run is a theorem.

## 6. Not modelled

Browser cryptography, the pages of the web client and of the admin site, and
the deployment scripts: rendering, WebCrypto calls and I/O without state that
interleaves. Rate limits: counters in the memory of one process, changed in
synchronous calls. Re-granting of an item or a share to a user's devices: access
grants are versioned as `VersionedRows` says, and no reader depends on the
version. The upload and download loops of the web client: their retries are the
repeated requests of `UploadSession` and `Retrieval`. The peer-to-peer data
channel of a live transfer.

Abstractions to keep in mind: the database runs one statement at a time
(READ COMMITTED with row locks; a transaction that writes one object's rows is
one step); a clock is an instant or a flag; file contents are their sizes, or
nothing; packages, keys and metadata are opaque. `Identity` presumes a trusted
device in its guards (`DeviceTrust` has it), and its removal stands on uploads
alone. `Projection` keeps the status of a row. In `PolicyBundles` minutes and
counts are small numbers, compared and never added.

## 7. Findings

`live_join`: a second join that has read the session before the first one
wrote replaces the joiner, even one that has confirmed, and the confirmation
stays: the session connects to a device that has not confirmed.

Seen in the models and left without a run of their own.

Links, extractions, items and shares:

- `releasePublicDownload` writes back a state it read before its write; an
  upgrade of the item to TOP_SECRET in between is undone for the link, and since
  the item is still ACTIVE no refresh closes it again. A completion or a grant
  does the same to an extraction.
- `completeExtractionRetrieval` writes a count computed from an earlier read;
  two completions that overlap lower it once. Status and count are read by two
  statements: of two overlapping completions of one attempt, the second may read
  the status before the first one's write and the count after it, and then the
  attempt is charged twice.
- A download's connection that closes before the controller has attached its
  handlers, or after `end` and before `finish`, leaves its ticket reserved for
  good: the link has lost a download.
- A purged item still has its text body and its package references, and
  `GET /api/source-items/:id` (`source-items.service.ts:29-55`) returns them to
  the owner. `RetrievalDrains` and `ClosedObjectsDrain` are about retrieval
  attempts.
- `createDownloadStreamForAttempt` asks whether a share is ACTIVE, not whether it
  is overdue: until another request has marked it, an open attempt on it can be
  downloaded. The `expiresAt` of a package reference is not asked for either.
- The owner's retrieval, the extractions and the public links mark an overdue
  item EXPIRED and do not project it, so that the lists show it as they did.
- A projection that has read an item before its burn and lands after it brings
  the item's rows back, and nothing removes them again.

Uploads:

- A store checks the session once, at its beginning; when it ends after a
  finalization it removes the file that the new item's storage binding names
  and sets the phase back to UPLOADING. The web client's retry of a part
  produces such an overlap.
- Two finalizations that overlap make two items; parts stored at once exceed the
  quota together. An interrupted store leaves its file without a row, and
  nothing collects it.

Live transfer:

- Two confirmations at once leave the session waiting with both recorded until
  one side confirms again. A transport update that overlaps the end of a session
  reopens it. A relay attempt is accepted from P2P_ACTIVE whatever the fallback
  rule says. A session joined in time has no deadline.
- A page whose key signal fails to be sent resets `livePublicKeySentRef`, which
  does not run the effect again (`routes.tsx:670-680`): while the session stays
  as it is the other side gets no key.
- An answer to a poll that is lost takes its signals with it. A page that meets
  a signal before its own pair is ready may generate two pairs, and the two sides
  then hold different keys.
- The receiving page judges by its last list whether all is there: a list from
  the middle of the sending lets it save a part of the payload and complete the
  session. A second payload takes the chunks' ids of the first, so that a page
  which has received a chunk keeps the old one.

Devices and accounts:

- The start page sends a user without a trusted device to the first-device
  bootstrap, which inserts a recovery set; a user who has removed the only
  trusted device still has one, and the insert fails every time.
- An approval that overlaps a rejection opens a rejected pairing again. A device
  that has recovered once can be acknowledged, and trusted, again after its trust
  was removed.
- Two registrations that overlap use one invite, and so does one that overlaps
  its invalidation. Login opens sessions for disabled and pending accounts.
  `TrustedDeviceGuard` and `AdminGuard` refuse them, but the trust routes have
  `SessionGuard` alone, which does not judge them, and approving, rejecting and
  finalizing a pairing (`trust.service.ts:299-394`) do not either: a disabled
  account can still make a device trusted. An administrator may disable the last
  administrator.
- The removal of a user fails when the user has begun an upload meanwhile, and
  leaves the file of a part that was stored after the keys were read.

Policy:

- The publication check compares the two relay flags with `true`, and the live
  transfer takes their `Boolean()`: a fallback submitted as `1` or `"true"`,
  which the DTO admits, passes without relay and is handed out.
- A public link without a requested validity is created without the level's
  maximum when its item never expires. A level whose default share validity is
  null refuses every share that does not ask for one, since `Number(null)` is 0.

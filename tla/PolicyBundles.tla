---------------------------- MODULE PolicyBundles ----------------------------
(***************************************************************************)
(* Policy bundles (PolicyService): the versions of each confidentiality    *)
(* level, who replaces them, and the decisions that creations take from    *)
(* the current one.                                                        *)
(*                                                                         *)
(* Every replacement reads the current version, awaits, and inserts the    *)
(* next one; the unique (levelName, bundleVersion) is all that two of them *)
(* at once meet.  A creation reads one bundle and inserts, later, a row    *)
(* that names it and carries its decision.                                 *)
(***************************************************************************)
EXTENDS Integers, Sequences

CONSTANTS
  Level,        \* confidentiality levels
  Default,      \* POLICY_BUNDLE_DEFAULTS, for each level
  Draft,        \* section contents that administrators submit
  Minutes,      \* validities and counts that are asked for
  Request,      \* concurrent requests, and starting processes
  Null,
  MaxVersion    \* bound on the versions of a level

ASSUME PolicyAssumption ==
  /\ Minutes \subseteq Int
  /\ Null \notin Int

VARIABLES
  bundle,    \* PolicyBundle rows of each level, in the order of insertion
  request    \* where each request stands

policyVars == <<bundle, request>>

-----------------------------------------------------------------------------
Kinds == {"source", "share", "extraction", "link", "live"}

Asked == Minutes \cup {Null}

Current(l) == {i \in DOMAIN bundle[l] : bundle[l][i].isCurrent}

\* getCurrentBundle: of the current rows the one with the largest version.
IsCurrentBundle(l, i) ==
  /\ i \in Current(l)
  /\ \A j \in Current(l) : bundle[l][j].version <= bundle[l][i].version

(***************************************************************************)
(* A request is about to publish or restore (seen: the versions it has     *)
(* read), to seed a level at the start of a process, or to create an       *)
(* object under the bundle it has read.                                    *)
(***************************************************************************)
AtRest == [at |-> "idle"]

Publishing == [at : {"publish"}, level : Level, body : Draft, seen : Nat]
Restoring  == [at : {"restore"}, seen : [Level -> Nat]]
Seeding    == [at : {"seed"}, level : Level]
Creating   == [at : {"create"}, kind : Kinds, level : Level, row : Nat]

Body == Draft \cup {Default[l] : l \in Level}

(***************************************************************************)
(* A flag of a published section is whatever JSON has in its place: true,  *)
(* false, or another value, which is truthy or falsy.  The evaluators take *)
(* its Boolean(); the validation compares it with true and with false.  So *)
(* a flag is "true", "false", "truthy" or "falsy".                         *)
(***************************************************************************)
Truthy(flag) == flag \in {"true", "truthy"}

PolicyTypeOK ==
  /\ bundle \in [Level -> Seq([version : Nat, isCurrent : BOOLEAN, body : Body])]
  /\ request \in [Request -> {AtRest} \cup Publishing \cup Restoring \cup Seeding \cup Creating]
  /\ \A r \in Request :
       request[r].at = "create" => request[r].row \in DOMAIN bundle[request[r].level]

PolicyInit ==
  /\ bundle = [l \in Level |-> <<>>]
  /\ request = [r \in Request |-> AtRest]

-----------------------------------------------------------------------------
(* validateBundleSections *)

Within(n, maximum) == n # Null /\ maximum # Null => n <= maximum

\* Mutant: the fallback rule is left to the live transfer.
ValidSectionsButFallback(d) ==
  /\ Within(d.default, d.maximum)
  /\ Within(d.shareDefault, d.shareMaximum)
  /\ d.shares = "false" => d.shareDefault = Null
  /\ d.extraction = "false" => d.retrievals = Null
  /\ d.links = "false" => d.linkMinutes = Null /\ d.downloads = Null

ValidSections(d) ==
  /\ Within(d.default, d.maximum)
  /\ Within(d.shareDefault, d.shareMaximum)
  /\ d.shares = "false" => d.shareDefault = Null
  /\ d.extraction = "false" => d.retrievals = Null
  /\ d.links = "false" => d.linkMinutes = Null /\ d.downloads = Null
  /\ d.fallback = "true" => d.relay = "true"

\* POLICY_BUNDLE_DEFAULTS goes past the validation; of what it checks, this much.
ASSUME DefaultsAssumption ==
  \A l \in Level : Default[l].fallback = "true" => Default[l].relay = "true"

-----------------------------------------------------------------------------
(* The evaluators.  Number(null) is 0; ?? takes null to its default.        *)

Number(n) == IF n = Null THEN 0 ELSE n
OrElse(n, default) == IF n = Null THEN default ELSE n

Positive(n) == n # Null => n > 0

\* 0 is "never expires" for an item and nothing else.
EvaluateSourceCreation(b, asked) ==
  LET minutes == OrElse(asked, Number(b.default))
  IN  \/ minutes = 0 /\ Truthy(b.never)
      \/ minutes > 0 /\ Within(minutes, b.maximum)

EvaluateShareCreation(b, asked) ==
  LET minutes == OrElse(asked, Number(b.shareDefault))
  IN  Truthy(b.outward) /\ Truthy(b.shares) /\ minutes > 0 /\ Within(minutes, b.shareMaximum)

EvaluateExtractionCreation(b, asked, count) ==
  /\ Truthy(b.outward) /\ Truthy(b.extraction)
  /\ Positive(asked)
  /\ Positive(count) /\ Within(OrElse(count, 1), b.retrievals)

EvaluatePublicLinkCreation(b, asked, count) ==
  /\ Truthy(b.outward) /\ Truthy(b.links)
  /\ Positive(asked) /\ Within(asked, b.linkMinutes)
  /\ Positive(count) /\ Within(OrElse(count, 1), b.downloads)

EvaluateLiveTransferCreation(b, grouped) ==
  Truthy(b.live) /\ (grouped => Truthy(b.grouped))

-----------------------------------------------------------------------------
(* First halves: the reads and what they refuse.                            *)

Await(r, record) ==
  /\ request[r] = AtRest
  /\ request' = [request EXCEPT ![r] = record]
  /\ UNCHANGED bundle

PublishRead(r, l, d) ==
  /\ ValidSections(d)
  /\ \E i \in Current(l) :
       /\ IsCurrentBundle(l, i)
       /\ Await(r, [at |-> "publish", level |-> l, body |-> d,
                    seen |-> bundle[l][i].version])

\* current?.bundleVersion ?? 0, level by level.  The levels are read in turn, here
\* at once: a restoration only succeeds when none of them has got a further
\* version since it was read, so that its reads hold together.
RestoreRead(r) ==
  \E seen \in [Level -> 0..MaxVersion] :
    /\ \A l \in Level :
         \/ seen[l] = 0 /\ Current(l) = {}
         \/ \E i \in Current(l) : IsCurrentBundle(l, i) /\ seen[l] = bundle[l][i].version
    /\ Await(r, [at |-> "restore", seen |-> seen])

\* ensureCurrentBundle, as a process starts.
EnsureRead(r, l) ==
  /\ Current(l) = {}
  /\ Await(r, [at |-> "seed", level |-> l])

\* The evaluator of each kind of object, asked with what the request brings.
Allows(kind, b) ==
  CASE kind = "source"     -> \E asked \in Asked : EvaluateSourceCreation(b, asked)
    [] kind = "share"      -> \E asked \in Asked : EvaluateShareCreation(b, asked)
    [] kind = "extraction" -> \E asked, count \in Asked : EvaluateExtractionCreation(b, asked, count)
    [] kind = "link"       -> \E asked, count \in Asked : EvaluatePublicLinkCreation(b, asked, count)
    [] kind = "live"       -> \E grouped \in BOOLEAN : EvaluateLiveTransferCreation(b, grouped)

CreateRead(r, kind, l) ==
  \E i \in Current(l) :
    /\ IsCurrentBundle(l, i)
    /\ Allows(kind, bundle[l][i].body)
    /\ Await(r, [at |-> "create", kind |-> kind, level |-> l, row |-> i])

-----------------------------------------------------------------------------
(* Second halves: the writes, each a transaction.                           *)

Answer(r) == request' = [request EXCEPT ![r] = AtRest]

\* Mutant: no unique (levelName, bundleVersion).
InsertsTwice(l, version) == version <= MaxVersion

\* The insert is let in by the unique index; MaxVersion bounds the model.
Inserts(l, version) ==
  /\ \A i \in DOMAIN bundle[l] : bundle[l][i].version # version
  /\ version <= MaxVersion

\* updateMany { isCurrent: false } and create.
Superseding(l, version, body) ==
  Append([i \in DOMAIN bundle[l] |-> [bundle[l][i] EXCEPT !.isCurrent = FALSE]],
         [version |-> version, isCurrent |-> TRUE, body |-> body])

PublishCommit(r) ==
  /\ request[r].at = "publish"
  /\ LET l == request[r].level
     IN  /\ Inserts(l, request[r].seen + 1)
         /\ bundle' = [bundle EXCEPT ![l] = Superseding(l, request[r].seen + 1, request[r].body)]
  /\ Answer(r)

RestoreCommit(r) ==
  /\ request[r].at = "restore"
  /\ \A l \in Level : Inserts(l, request[r].seen[l] + 1)
  /\ bundle' = [l \in Level |-> Superseding(l, request[r].seen[l] + 1, Default[l])]
  /\ Answer(r)

EnsureCommit(r) ==
  /\ request[r].at = "seed"
  /\ Inserts(request[r].level, 1)
  /\ LET first == [version |-> 1, isCurrent |-> TRUE, body |-> Default[request[r].level]]
     IN  bundle' = [bundle EXCEPT ![request[r].level] = Append(@, first)]
  /\ Answer(r)

\* The object is inserted with its bundle and decision (the modules of the
\* objects); or a statement fails, on the unique index among others; or the
\* process stops.
Finish(r) ==
  /\ request[r] # AtRest
  /\ Answer(r)
  /\ UNCHANGED bundle

Read(r) ==
  \/ RestoreRead(r)
  \/ \E l \in Level :
       \/ EnsureRead(r, l)
       \/ \E d \in Draft : PublishRead(r, l, d)
       \/ \E kind \in Kinds : CreateRead(r, kind, l)

Write(r) == PublishCommit(r) \/ RestoreCommit(r) \/ EnsureCommit(r) \/ Finish(r)

PolicyNext == \E r \in Request : Read(r) \/ Write(r)

PolicySpec == PolicyInit /\ [][PolicyNext]_policyVars

-----------------------------------------------------------------------------
(* Properties *)

\* Two administrators who publish at once, a restoration of all levels among
\* them, and processes that start at the same time: a level has one current
\* bundle or none yet, versions follow each other without a gap or a repetition,
\* and nobody's publication disappears under another's.
Versions ==
  INSTANCE VersionedRows WITH
    Key <- Level,
    current <- [l \in Level |-> {<<i, bundle[l][i].version>> : i \in Current(l)}]

OneCurrentVersion == Versions!Spec

\* The live transfer takes the fallback from peer to peer to relay as given, and
\* only publication looks at the two together.  Under whatever bundle it was read,
\* published, restored or seeded, a fallback that is the boolean true comes with
\* relay.  Another truthy one need not: it passes the validation.
FallbackHasRelay ==
  \A r \in Request : request[r].at = "create" /\ request[r].kind = "live" =>
    LET b == bundle[request[r].level][request[r].row].body
    IN  b.fallback = "true" => Truthy(b.relay)
=============================================================================

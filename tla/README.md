# OpenTapeout: verification project

OpenTapeout is a release gate for chip tape-outs. A workspace holds design files; the program
registers them as resources of a dependency graph, runs checks (DRC, LVS, ...) on snapshots of
them, collects signed waivers and approvals, and seals an archive, and then delivery capsules,
only while the evidence is complete and current. Its promise is about *order* and *agreement*:
whoever edits, re-runs, revokes, expires, crashes or races in between, what is signed must be
what was checked. This directory states that promise in TLA+, checks it with TLC on small
instances and proves most of it with TLAPS for all instances.

Source paths are relative to the repository root; the code is `src/opentapeout/`.

## 1. The system

| component | state it keeps | operations | talks to |
|---|---|---|---|
| resource graph (`graph.py`) | none: computed from the registered resources | order, fingerprints, closure, staleness, drift, impact | workspace files |
| captures (`tree_capture.py`, `git_capture.py`) | none | list and hash a directory; ask Git for HEAD and cleanliness | graph, register |
| policy and evaluation (`policy.py`) | none: a pure function of a candidate, a policy, a trust store, approvals and a time | `evaluate`, `valid_waivers`, role assignment | graph, signatures |
| managed runs (`Engine.run`) | a process group, the report path, a log | hash the launcher, start, wait with a timeout, kill, capture | begin, finish, adapters |
| engine (`engine.py`) | none of its own: every operation replays the events (`state_from`) | register, begin/finish (and run), waive, revoke_waiver, candidate, approve, receipt, gate | ledger, objects, workspace, policy and trust files |
| lifecycle (`lifecycle.py`) | its events | revoke_approval, withdraw_release, status statements | ledger, trust |
| release archives (`bundle.py`) | archive, temporary file, `release.sealed` event | seal, verify_bundle | gate, objects, ledger, file system |
| delivery capsules (`delivery.py`) | capsule, `delivery.*` events | seal_delivery, verify_delivery, record_receipt | releases, gate, objects |
| ledger and objects (`store.py`) | SQLite events (hash chain), content-addressed files | transaction, append, put, verify, checkpoints | SQLite, file system |
| signatures, trust (`signing.py`) | trust file | sign, verify, roles, revocation | every signed operation |
| report adapters (`parsers.py`, `physical.py`, `native.py`) | none | parse a tool's report into a result | finish |
| team gateway (`team.py`, `team_auth.py`) | command records in the ledger; policy, trust and access files | execute a command once, checkpoints, governance | engine, ledger |
| team HTTP API and client (`team_web.py`, `team_cli.py`), web view (`web.py`) | none; clients hold cursors | requests, audit pages, listings, retries | gateway, ledger |
| command line (`cli.py`), utilities (`util.py`) | the trust file | trust-key, atomic_write; one call of the API for each other command | everything |
| planning and pinning (`planning.py`, `pinning.py`) | none | rebuild plan, pinned policy | graph, gate |

Every write operation runs inside `BEGIN IMMEDIATE` (`store.py:87`): it replays the events,
decides, appends one event and commits. Outside that lock are the workspace files, the object
files, the policy and trust files each call is given, the clock, and the tools that run between
begin and finish. They may change between any two operations, and, for the long operation (seal),
during it.

What makes each part correct:

* **graph**: a fingerprint changes whenever anything below it changes; a run never binds a
  derivative built from something obsolete; cycles are refused.
* **evaluation**: each required scope is decided by the run that *started* last, on the current
  inputs; a violation passes only under a live waiver for that very run; roles are filled by
  distinct people.
* **engine**: completed runs, candidates and signatures are history; decisions bind exactly what
  was evaluated.
* **lifecycle**: revocation counts at once, withdrawal for good.
* **archives and deliveries**: at most one per record, recorded before it is visible, recoverable
  after a crash, verifiable from its own contents.
* **managed runs and captures**: what passes was written by the run's own tool, which ended by
  itself; what is registered was there at one instant.
* **adapters**: a report gets a verdict only if its tool finished, and passes only if nothing was found.
* **ledger**: one history that grows by whole operations; changes behind the API are noticed by
  whoever kept a checkpoint.
* **status statements**: a revocation counts for whoever retained its sequence, and for everybody
  after the longest validity of a statement and the time its export took.
* **readers and advisers**: an answer taken from several transactions is of one history; a plan
  agrees with the gate and can be followed; a pinned policy admits what it was pinned from.
* **gateway**: a command takes effect at most once, in the state and under the governance it was
  reviewed against, and its member is told the truth about it.

Hard to test, and therefore what the properties are aimed at: overlapping runs that finish out of
order; files edited and put back around a run; evidence, policy, keys and approvals changing
between candidate, approval, sealing and delivery; expiry between two steps; a crash between
commit and publication; two invocations for one release or one output file; a lost response and
a retry; late children of a tool, captures of a directory people work in, half-written and doubled
reports, restored backups, power losses. `PROJECT.json` lists each at its line.

## 2. Modules

| module | what it is | code |
|---|---|---|
| `ResourceGraph` | closure, fingerprint, staleness, drift as operators | `graph.py` |
| `RoleAssignment` | what the augmenting-path search decides | `policy.py:_assign_roles` |
| `Policy` | the evaluator | `policy.py`, `signing.py:Trust.verify` |
| `Engine` | the application API as a state machine over the replayed ledger, plus the environment | `engine.py`, `lifecycle.py`, ledger side of `bundle.py`, `delivery.py` |
| `EngineSafety` | type invariant, safety invariants, action properties | |
| `ReleaseLifecycle` | the abstract promise: draft, endorse, retract, seal, ship, withdraw | |
| `EngineLifecycle` | the refinement mapping from `Engine` to `ReleaseLifecycle` | |
| `MCEngine` | instances of the engine for TLC | |
| `SealPublication` | `seal` and `seal_delivery` step by step, with crashes and races | `bundle.py:seal`, `delivery.py:seal_delivery`, `store.py:transaction` |
| `MCSealPublication` | instances for TLC | |
| `TeamGateway` | context and command requests step by step, against moving governance, tokens and ledger | `team.py`, `team_auth.py`, command route of `team_web.py` |
| `MCTeamGateway` | instances for TLC | |
| `EvidencePlan`, `MCEvidencePlan` | advice from the evidence: plan rows, what-if, impact, pinning; extends `Engine` | `planning.py:plan` (checks), `Engine.impact`, `pinning.py` |
| `ManagedRun` | `Engine.run` with its tool, timeout, report path and executable | `engine.py:run`, finish command |
| `TreeCapture` | captures and drift checks of directories and Git worktrees while people work | `tree_capture.py`, `git_capture.py`, `register_tree`, `Graph.drift` |
| `Transcripts` | reports line by line, and the adapters that judge them | `physical.py`, `native.py`, XML part of `parsers.py` |
| `AppendOnlyLog` | the abstract promise of the ledger | |
| `Ledger` | transactions, rollback, objects, checkpoints, and an owner who alters the file; refines `AppendOnlyLog` | `store.py` |
| `StatusFeed` | status statements from export to a recipient's verification | `lifecycle.py`, `bundle.py:verify_bundle` |
| `TrustFile` | `trust-key` and the atomic writer across power losses | `cli.py`, `util.py:atomic_write` |
| `RoleMatching` | the augmenting-path search step by step, against `RoleAssignment` | `policy.py:_assign_roles` |
| `GraphAlgorithms` | Kahn's loop, digests, closure and change paths step by step, against `ResourceGraph` | `graph.py`, `planning.py:affected_paths` |
| `RebuildPlan` | a plan's resources and waves, and teams that follow it | `planning.py:plan` |
| `LedgerReaders` | audit export, candidate listing, summary page | `team_web.py`, `web.py` |
| `MCIntake`, `MCRecords`, `MCAnswers` | instances of the modules from `ManagedRun` on for TLC | |
| `EngineProofs`, `EngineEvidenceProofs` | theorems about `Engine`, alone and extended by `EvidencePlan`: types, history, decisions; evidence, archives, deliveries, the refinement of `ReleaseLifecycle`, plans, impact and pinning | |
| `SealPublicationProofs`, `TeamGatewayProofs` | theorems about the module of that name | |
| `IntakeProofs`, `RecordsProofs`, `AnswersProofs` | theorems about `ManagedRun`, `TreeCapture` and `Transcripts`; `Ledger`, `StatusFeed` and `TrustFile`; `RoleMatching`, `LedgerReaders`, `RebuildPlan` and `GraphAlgorithms` | |
| `InductionLemmas` | induction over numbers and graphs in a form the provers can use | |

### Engine

The variables `resources` ... `deliveryReceipts` are the sections `state_from` (`engine.py:23`)
rebuilds from the events. A write operation holds the write lock from replay to commit, so each is
one action; its guards are the `ensure`s and early returns in their order, its effect the event it
appends together with the objects it stores. `Operation` has one disjunct per write operation.
`Engine.run` is its `Begin` and its `Finish`, with everything else free to happen in between, as in
the code, which holds no lock while the tool runs.

`workspace`, `objects`, `policy`, `trust` and `clock` are the world outside the lock; `Environment`
changes them at any time. `seen` is a history variable: the tracked bytes the workspace held when a
run began and when it ended.

`GateOpen` and `GateReady` are `Engine._gate` without and with approvals: the evaluator has no
blocker, the candidate is not withdrawn, it equals its own scope taken now (`scope_view`), nothing
has drifted and every object it refers to is intact.

`EvidencePlan` adds one variable, what a policy was pinned from, and one action, `PinPolicy`: an
operator computes a pinned policy and passes it to every later call. A plan, a what-if and an impact
report are operators; their properties compare them with the gate in the same state and in the next.

Operators commented `Fault:` are defects of the kind a change could introduce. No specification
uses them; each property is shown to fail when the definition next to it is replaced by one.

### SealPublication

One record per invocation: its program counter, its temporary file, `created_at` and the local
`recorded`; shared are the write lock, the ledger, the output paths, the workspace and the clock.
Every point at which another process, the environment or a crash can act is a step of its own. The
module covers both `seal` and `seal_delivery`, which follow one protocol; a delivery additionally
needs its release to be sealed, and its archive is verified without the gate at the manifest's own time that
`verify_bundle` adds. Any statement inside the transaction, the commit included, may raise
(`TransactionError`): it is rolled back and the temporary file removed.

### TeamGateway

A worker is a server thread with one request: its program counter, its token, its command, and the
governance files it has read so far. `Read` takes one file at a time, because
`Project.governance` does; `Edit` may replace any file between two reads. `Begin` is
`BEGIN IMMEDIATE` with the second token check, `Busy` the timeout that becomes a 503, `Decide` the
checks up to the governance comparison in their order (`Verdict`), `Apply` the decision `_apply`
stages, `VerifyAgain` and a second round of `Read` the recheck, `Commit` the receipt and the commit.
What a transaction has staged is visible to nobody, so it appears in `ledger` only at `Commit`;
`Crash` and every refusal drop it.

Members fetch a context, sign commands on it with any key of theirs and any fairly recent
statement, and submit each command as often as they like. `LocalWrite` is the command line at work
on the same ledger (`engine.py`, `lifecycle.py`). The module takes the decision rules of the gateway
(roles, authorship, duplicates, revocation, withdrawal) from the ledger it keeps; the evidence gate
behind a candidate or an approval is `Engine`'s subject and may here say yes or no at any time.
`replies`, `held` and `local` are history variables: the answers a member relies on, what was in force
since the open transaction applied its command, and which events the gateway did not write. With the last
one `AppliedAsReviewed` says that a decision of the gateway and its receipt are never without each other.

### Bytes and reports coming in

`ManagedRun` has a program counter for each runner (`Engine.run`) and a state for each tool; between
any two steps of a runner its tool, tools of other runners, children they left behind, somebody who
finishes the run by hand, people who remove old reports and an administrator who upgrades the tool
may act. Begin and finish are `Engine`'s operations; here they open and complete the run.

`TreeCapture` hashes a listed directory file by file, twice to register it and once in a drift
check; a worktree is asked for HEAD and then for its cleanliness. `window` and `repos` record what was there in
between.

`Transcripts` takes tools as they are: they print the lines of their script, stop with or without a
diagnostic, are started again, and may write side by side. The adapters are operators on the lines.

### Records

`Ledger` has processes that read, write and die at every statement, two events in one transaction,
objects that are put before their event, and an owner who changes a row, deletes one, restores an
older file or rewrites the history with fresh hashes. Until then it implements `AppendOnlyLog`.
`StatusFeed` has a publisher whose export is two steps (read, sign), statements that stay in the
world, and recipients who may retain the sequence they verified. `TrustFile` has `trust-key`
commands with every step of `atomic_write`, an operator who revokes keys, and power losses that tear
bytes nobody synced and may take back the last rename.

### Answers

`RoleMatching` keeps the stack of `augment` calls and the one set of tried people they share.
`GraphAlgorithms` has one action per turn of each loop. `RebuildPlan` makes a plan after any edits and
registrations and lets teams follow it wave by wave, side by side within a wave. `LedgerReaders` takes one
transaction
per page while the ledger grows or is replaced by a backup.

### One component per behaviour

`MCIntake`, `MCRecords` and `MCAnswers` put several of these into one run: they extend the modules that
are proved about, whose initial states, steps and variables bear a prefix for that reason, so a run checks
the very definitions the theorems are about. The components share no variable and no step, so their
interleavings would show nothing: `part`, chosen in the initial state, says which one the behaviour is of;
the others stay where they start.

### Abstractions

* `ManagedRun`: a report is named by the run whose tool wrote it; an older version of an executable
  does not come back. Of `PassIsGenuine` the part about the report is stated for those that can be told
  from other runs' (`Attributable`: the format names the run, or the runner opened the log itself). The others (JUnit, KLayout RDB, CSV, Yosys) cannot tell: a file that appears between
  the path check (`engine.py:236`) and the start of the tool passes as the tool's own if the tool writes none,
  although
  `docs/QUICKSTART.md:56` says pre-existing report paths are rejected.
* `TreeCapture`: reading one file is one step (a change during it raises in the code); submodules are
  left out; new bytes differ from all old ones. A commit between rev-parse and status
  (`git_capture.py:24-25`) makes dirty work look like the clean parent; `GitFreshAtOnce` excludes it by name.
* `Transcripts`: lines are written whole; slacks are negative or zero; OpenSTA processes run one after
  the other, the others may overlap; CSV is left out (its header alone is a valid empty report).
* `Ledger`: digests are ideal; a put is one step. The new name of an object is not synced to its
  directory, so a power loss may leave a committed event without its object; every use verifies it,
  which is `Engine`'s `DamageObject`.
* `StatusFeed`: a statement is dated when its export ends, which may be any time after it read the
  ledger; `RevocationReaches` therefore counts from the validity *and* that latency, kept as history.
* `LedgerReaders`: an event is a number that is never reused, its hash the ledger up to it. The summary page
  reads in one transaction for the state, one for each candidate's gate and one for the checkpoint. That its
  parts lie in order is stated while the ledger grows; a restore between two of them is excluded.
* `RebuildPlan`: nothing else is edited while a plan is followed, as it speaks of the state it was made
  in. `GraphAlgorithms`: a digest is the term it is computed from. `EvidencePlan`: corners and tools are
  metadata-only, as `pin_policy` demands.
* `TrustFile`: an update lost between two unlocked commands (`cli.py:163`) is possible, in the code and in the
  model; no
  property excludes it.

* In `TeamGateway` a checkpoint is the length of the ledger (its hash names the same prefix, and
  the ledger only grows); a request has one project; a local approval, being timestamped when it is
  signed, is never a copy of an earlier one; the token checks before the command is queued are one
  step.
* Digests are ideal: the digest of a value is the value, so a fingerprint is the subgraph below a
  resource. Signatures are genuine; `Trust.verify` is decided by role and revocation. A principal
  has one key.
* A resource's kind and whether the workspace holds its bytes are fixed by its ID. A file, a
  captured tree and a Git worktree are all one *tracked* resource with one content; that of a tree lists
  further contents (`FilesOf`), the objects of its files, which are stored, damaged and verified one by one.
* A report is the result it parses to. `OutcomeAssumption` states what `validate_result` and the
  default result of `finish` guarantee. stdout and stderr logs count as part of the report.
* A waiver names one of the sets of objects in `Attachments`; `Attach` stores them, `Waive` and every gate on
  a candidate with that waiver verify them. They hold no result, so only their being intact matters.
* An object that an operation stores before it is rolled back is not kept (the code may leave it
  unreferenced); nothing reads it.
* `waive` compares the expiry with the clock just before it takes the lock; the model compares it
  in the same step.
* `Receipt` is the operator's own note of an upload, taken also after a withdrawal, as in the code;
  `RecordReceipt` is the recipient's signed receipt of a delivery.
* An interrupt between the commit and the assignment `recorded = True` is not modelled; a crash is
  possible before and after the pair.

## 3. What TLC checks

Every run passes unless said otherwise, and exhausts its state space.

| run | question | instance |
|---|---|---|
| `evidence` | do decisions rest on the last started run, completed once, on bytes that were there at both ends? does a pinned policy admit what was pinned? | two runs (the least for overlap and fallback), the source file with two contents and its derivative, one reviewer, a policy pinned at any time |
| `waivers` | are violations covered by live, independent waivers, and do sealed archives verify from their own contents? | a failing report, two waivers with an attachment and with an author who may review waivers, three instants with ages of one, a damaged attachment |
| `approvals` | are releases and deliveries authorised by live approvals of independent people, is withdrawal final, is `ReleaseLifecycle` implemented? | two roles, three people whose roles overlap, three approvals, two policies, one key revocation, a delivery |
| `pins` | under policy v2, did the runs use the pinned inputs? do plan, what-if and impact agree with the gate? | one run, two tools, a redefined tool, a changed executable, managed and imported runs, an edited source that is a directory with one file, a missing layout, a damaged report or file |
| `seal_publication` | what may go wrong between temporary file, ledger and output path? | two invocations of one release and a delivery of it sharing an output path, one crash, one foreign file, two instants |
| `team_retries` | is a member told the truth, on the reviewed ledger, and does every request end? | two workers, two request IDs, two commands sent at will, a token that ends, two instants, any number of crashes |
| `team_governance` | does a command commit only under the governance it was reviewed against? | two contents for each of the three files, replaced any number of times in any order, one worker |
| `team_decisions` | is anything decided or executed twice? | all four commands, two candidates, an existing approval and release, a local revocation or withdrawal, one worker |
| `intake` | is what comes in what it claims to be? | two runs on one report path with one removal by people; two runs of which one reads standard output and has a pinned executable, upgraded once; three files and a worktree under four changes; two processes of each of five formats |
| `records` | does what is kept stay true? | two processes with operations of one and two events, a table of three, one change behind the API; two ticks of validity within three, a ledger of three, two statements, one recipient; three trust-key commands on two keys, two edits, two power losses |
| `answers` | is what is computed and read right, and does every computation end? | every set of approvals of three roles by four people; every graph of three resources and two contents in four registrations; four resources and eight changes before a plan; pages of one and two events over seven, two restored backups, two exports |
| `seal_recovery` | is the archive of a recorded release always somewhere? **violated** | two releases sealed to one output path |

The bounds (`MaxRuns`, `MaxClock`, `MaxWaivers`, `MaxApprovals`, `MaxRevokedKeys`, `MaxCrashes`,
`MaxForeign`, `MaxCommands`, `MaxEvents`, `MaxTampers`, `MaxVersions`, `MaxTidies`, `MaxEdits`, `MaxHours`,
`MaxSeq`, `MaxStatements`, `MaxRestores`, `MaxExports`, `MaxChanges`, `MaxRegistrations`) only limit
how often an action of its kind happens; `MaxFile` is the number of files, `PageSize` the limits a
client asks for. Two runs, two waivers, two invocations, two processes are enough for each hazard
because every property relates at most two of them; four registrations are the least to build a
chain of three and register its source again; two status statements are the least for
an order of arrival that differs from their order. The theorems below hold for any bounds. Deadlock is not checked: behind their bounds all these systems may stop, and an
invocation, a search or a run that has ended takes no step.

The properties:

* `DecidedBytesWereChecked`, `DecidedEvidenceFinal`, `RunsBindFreshDerivatives`,
  `DecidedViolationsWaived`, `DecidedRunsPinned` (evidence behind approvals, releases, deliveries)
* `NoFallback`, `WaiversLive`, `Authorised` (what must hold at the very step that decides)
* `HistoryImmutable`, `WithdrawnStaysDown` (what no step may do)
* `ArchiveVerifies`, `DeliveryMatchesRelease` (what leaves the project)
* `ImplementsLifecycle` (refinement of `ReleaseLifecycle`)
* `PublishedIsRecorded`, `CrashKeepsArchive`, `OutcomeIsTrue`, `SealHonoursRevocation`, `EveryoneEnds`
  (publication)
* `PinningExact`, `PlanAgreesWithGate`, `ChangesForeseen` (advice against the gate)
* `PassIsGenuine`, `ManagedRunsEnd`, `ObservedAtOnce`, `VerdictIsComplete` (what comes in)
* `IsAppendOnlyLog` (refinement of `AppendOnlyLog`), `CheckpointDecides`, `RevocationsCount`, `FileWhole`
  (records)
* `SearchDecides`, `ComputesTheGraph`, `PlanSucceeds`, `ReadsOneHistory`, `AnswersEnd` (answers)
* `NothingTwice`, `AppliedAsReviewed`, `RepliesTrue`, `AuthorisedAtCommit`, `EveryRequestEnds` (team
  commands)

Several of these are conjunctions of named parts with a comment each in their module, for example
`PassIsGenuine` of `PassingReportIsOwn`, `KilledNeverPasses` and `PinnedExecutableRan`.

**Fairness.** `SealPublication` and `TeamGateway` assume weak fairness of the steps of each
invocation and of each worker that has a request, which is what the operating system gives a live
process; a dead one takes none. An invocation waiting for the lock either gets it or reaches SQLite's busy
timeout (`BusyTimeout`), so no
fairness between lock requests is assumed; for a worker the same timeout is `Busy`. `EveryoneEnds`
and `EveryRequestEnds` say that every invocation and every request then ends. Members, operators and
local programs may act or not.
In `ManagedRun` only the steps of a runner are fair: a tool owes nothing to anybody, and `RunnerEnds`
holds because of the timeout alone (the run `intake` checks it as `ManagedRunsEnd`). `AnswersEnd` assumes that a loop that was begun goes on, which is
what a running function does, and that a member who began an export keeps asking for its next page.
The engine's operations are calls somebody may or may not make: no fairness, no liveness.

**Finding.** `seal_recovery` shows `RecordedArchiveKept` violated. `bundle.py:96-97` says a
completed archive is preserved when the release was committed but could not be published, and
the error at `bundle.py:93` tells the caller to recover it. But when publishing fails *because the
output exists* the condition at `bundle.py:98` deletes it: two releases sealed to one output file
leave the second in the ledger, unable to be sealed again, and its archive nowhere.
`delivery.py:118` has the same condition.

Gaps the models leave open by an explicit condition, rather than by a run: a stale report of a format
that does not name its run (`engine.py:236`), a commit between the two questions of `inspect_git`
(`git_capture.py:24`), and a lost update of `trust.json` (`cli.py:163`); see Abstractions.

## 4. What is proved

For every value of the constants, under the modules' named assumptions (`OutcomeAssumption`, `PolicyAssumption`,
`ResourceAssumption`, `ObjectAssumption`, `InitialAssumption`, `BoundAssumption` of the engine, `UnfrozenAssumption` of `EvidencePlan`, and
`SealAssumption`, `GatewayAssumption`, `LedgerAssumption`, `FeedAssumption`, `TrustFileAssumption`, `RunAssumption`,
`CaptureAssumption`, `TranscriptAssumption`, `MatchingAssumption`, `ReadersAssumption`, `RebuildAssumption`), which TLC
evaluates on every run. They say which constants are numbers, which sets are disjoint and which functions have which
domain, that a report parses to what `validate_result` lets through, that the policies and the resources to start with
were accepted, and that no candidate has the name a plan gives to what is not frozen yet. A project's ledger, trust file
and status sequence start as the code makes them; the gateway may start on any ledger on which nothing has been done
twice.

**Engine** (`EngineProofs`, `EngineEvidenceProofs`; theorems of `Engine`'s `Spec` and of `EvidencePlan`'s `PlanSpec`, in
which `PinPolicy` may put a policy nobody wrote in force between any two operations)

* `TypeInv` strengthens `TypeOK` by what the types leave out: `runs` and `seen` are sequences, a run
  and a candidate have exactly the fields their events give (without that an `EXCEPT` might update
  nothing). One lemma per operation that writes a section; `Frame` carries the rest. The policy in force is
  constrained by its fields only (`PolicyType`): it may be a pinned one.
* `Writers` says which operations write which section. With it `StepHistory` gives
  `HistoryKept`, and `GateBehindDecision` the key fact: whatever is newly approved, sealed or
  delivered in a step is a candidate of the ledger that passes the gate in that step. `WithdrawalFinal`
  and `DecisionsAuthorised` follow without an invariant beyond the types.
* `GateView` and `GateRuns` unfold the gate: the candidate *is* the current view, so its runs are the
  ledger's latest; each scope has one latest run (`LatestUnique`), so the run that satisfies the
  requirement is the one the candidate holds; therefore *every* run of the candidate is completed, has
  no drift, is on the current inputs and has its violations waived. `DecisionsCurrent` and
  `WaiversLiveAtDecision` are immediate.
* `EvidenceFinal`, `ViolationsWaived`, `RunsPinned`: what was decided stays true because completed
  runs are not touched (`RunsKept`) and decisions only grow (`DecidedGrows`).
* `BytesChecked` needs the invariant `AllWitnessed`: the history of a run agrees with its snapshot
  at the start, and at the end unless the run is marked as drifted. `begin` and `finish` each
  compare the workspace under the lock; the gate refuses drifted runs and snapshots that are not the
  current closure. So the bytes decided on were in the workspace at both ends of every run, although
  nobody locks the workspace.
* `FreshDerivatives`: `register` keeps the graph valid (`StepGraph`), the closure of a valid graph is
  the least set that holds the roots and every dependency (`ClosureIsLeast`), so a snapshot taken of
  fresh resources holds each derivative with the very fingerprints it was built from
  (`FreshSnapshot`), and no step changes a snapshot.
* `ArchivesVerify`: the approvals put into an archive are all that count for its candidate
  (`OptionsOfCandidate`). `DeliveriesMatch`: layouts are frozen with the candidate
  (`LayoutsFrozen`), releases keep their candidate (`ReleasesNamed`).
* `EngineImplementsLifecycle`: under `LifecycleInv` each operation maps to one step of `ReleaseLifecycle`
  or to a stutter (`*Simulated`, `StepSimulated`). The invariant adds that approvals are numbered in the order
  they were given (`ApprovalsNumbered`): two approvals that differ only in what the abstraction forgets
  would otherwise be one endorsement, and revoking one would retract both.
* `PlanAndGateAgree`: what a plan starts from when nothing is frozen has the fields of the current scope
  (`CurrentFields`), nothing is affected exactly if nothing is stale or has drifted (`NothingAffected`), and the run a
  row offers for reuse is the one the gate judges, for the same reasons (`Reusable`). So a plan without a task is a gate
  that opens, but for what no plan looks at: provenance and objects that are damaged.
* `ConsequencesForeseen`: a step that changes one resource leaves the closure of what does not reach it as it was
  (`ClosureSame`, `SnapshotSame`), so the runs that cease to be current are exactly those `impact` lists (`StepImpact`),
  and a what-if that offers a run for reuse keeps its word when just that resource changes (`StepWhatIf`).
* `PinnedPolicyExact`: `PinInv` ties the policy in force to what it was pinned from. Under a pinned policy the gate
  opens only on the pinned inputs (`GateBindsPins`), and a requirement that was met when it was pinned is met still
  (`PinningKeepsEvidence`).

**Publication** (`SealPublicationProofs`): one inductive invariant `IInv`. Its core is the lock
discipline (`LockHeld`): whoever is between `BEGIN IMMEDIATE` and the commit holds the lock, so what
its gates read of the ledger is still so at the commit (`GatePassed`), although the commit does
not read it again; `Archived` says where the archive is at each point. All six safety properties
follow for any number of invocations, releases, crashes and foreign files.

**Team gateway** (`TeamGatewayProofs`), for any number of workers, tokens, keys, requests and governance
contents. `TypeInv` includes the lock discipline: exactly the worker inside its transaction holds the lock.
Three facts per worker make the properties inductive: the ledger is the one its command was signed on
from the comparison of checkpoints to the commit, and its request is not in it yet (`Pinned`); neither is
the matter it decides (`Unsettled`); the history variable `held` covers the files it has compared (`InForce`).
`DecidedOnce`, `ExecutedOnReviewedLedger` and `CommitsAuthorised` follow at the commit, which alone writes for
the gateway and writes both halves (`ReviewedStays` carries what was written). `RepliesAreTrue` needs one
more: who was told "stale" holds a command on a shorter ledger (`StaleStays`), which can therefore never be
executed. `Verdict` chains IFs where a CASE would read better: for TLAPS a CASE whose guards overlap may
take any of them, and the code takes the first.

**Records** (`RecordsProofs`)

* `LedgerIsAppendOnly`, `CheckpointsDecide`: the reader's test compares neighbouring rows only (`Chained`);
  `TableInv` says that this, or an owner who kept his hands off, makes every row carry the digest of all
  rows before it (`IsHistory`), so two histories with an equal digest are equal. What a process read, or a
  retained checkpoint, is a prefix of the table for as long as nobody went behind the programs
  (`ProcessInv`, `AnchorInv`), and the writer's view is the table (`WriterInv`): a commit appends one whole
  operation.
* `RevocationsReach`: a statement lists exactly the revocations up to its sequence and misses only later ones
  (`Snapshot`, `MissesOnly`), wherever it travels, so what it misses was revoked after its export began; a recipient's sequence never falls.
* `TrustFileWhole`: every version a rename publishes, and the one a power loss may bring back, is synced.

**Intake** (`IntakeProofs`)

* `PassesAreGenuine`: what a runner's log holds is its own tool's output, an exit code of its own means the
  tool came to its end, and only the runner completes its run as managed (`LogInv`, `ToolInv`, `CompletionInv`).
* `CapturesAreInstants`: two passes that read the same content of every file enclose an instant at which all
  of it was there. The tree the second pass lists is it: each of its files is no older than what was seen before
  that pass and no newer than what the pass will see (`Separates`, `PassesInv`), so if the two are equal, both
  are that tree.
* `VerdictsAreComplete`: the lines of each process can be numbered as its script is (`Numbers`): in order, none missing,
  none twice. A frame with one beginning then belongs to one process, and its last line is the last of the script
  (`FrameOfOne`); a violated path stands between the marks of its section, so the summary must admit it
  (`OpenstaClean`); each outcome follows a solve of its own process, and an injection between equally many is onto,
  so no process has a proof without an outcome, however the lines interleave (`YosysClean`).

**Answers** (`AnswersProofs`)

* `SearchIsExact`: the principals' roles are a matching (`IsMatching`), the calls in progress are a path of
  displacements from the root (`StackInv`), and the role of every tried principal has a call in
  progress or has tried all it has (`VisitedInv`). When the outermost call fails, the roles of the tried
  principals and the root are one more than those principals, who are all that they may have: Hall's
  condition fails, and a counting argument (cardinality of an injection) rules out any assignment.
* `AnswersAreOneHistory`: an export's cursor stands at the end of what it has, and its end names the ledger of
  its first page by hash (`AuditInv`), so a page is refused on any other history; candidates are only ever
  added behind those of the first page (`ListingInv`); the parts of a summary page are a chain of
  prefixes however many candidates it lists (`ShownInv`).
* `PlansSucceed`: whatever depends on a task is a task, in a higher wave (`WavesInv`), and whatever is no task, or has
  been rebuilt, has the bytes it was registered with and pins what there is now (`SettledFresh`). So what a task is
  built from is fresh when its turn comes, and stays so while the others of its wave are rebuilt.
* `GraphsComputed`: the loop of `Graph._build` keeps each in-degree equal to the dependencies not yet taken and the queue
  equal to what has none left (`BuildingInv`); if it ends with something left, every remaining resource has a
  remaining dependency, which an acyclic graph excludes. Equal digests mean equal subgraphs, and a stale resource has a
  reason somewhere below, by induction over the graph. `ClosingInv` and `WalkingInv` do the same for the closure and
  the change paths; the queue is ordered by the length of its paths, which is why they are shortest.

**Induction over data.** The library's induction theorems take a predicate as an operator, which the provers
cannot instantiate. `InductionLemmas` states what is needed with a *set* in the predicate's place: over
numbers up to k (`SegmentInduction`), the existence and uniqueness of a function defined by recursion over
them, a smallest set in any family of subsets of a finite set (`SmallestExists`), and the recursion over an acyclic graph
(`BelowExists`, `BelowIsLeast`), from the well-foundedness of the proper subsets of a finite set and from `Acyclic`
itself. `Candidates`, `Closure` and the waves of a plan are recursive functions that are proved about this way.

**Only model-checked**: liveness (`EveryoneEnds`, `EveryRequestEnds`, `ManagedRunsEnd`, `AnswersEnd`), which is out of
the prover's reach. Every invariant, every action property and both refinements a run checks are proved, each of the
specification of its own module; that the runs of `MCIntake`, `MCRecords` and `MCAnswers` only put these side by side is
by their construction and has no theorem.

The type invariants (proved) and the property `RecordsStand` (proved) are not repeated as properties of
a run.

## 5. Not modelled, and the plan

Not modelled: cryptography, ZIP member rules, JSON strictness, number and field syntax of reports, CSV
reports, argument parsing, HTML and HTTP transport (text processing and I/O without protocol);
`diff` and `compare`, which compare two frozen candidates and change nothing; recursion into
submodules; power losses at the object store; the demo and the qualification scripts.

Next, in this order:

1. An abstract "each command once" register that `TeamGateway` implements, and an abstract publication that
   `SealPublication` implements.
2. CSV reports and the field checks of `validate_result` in `Transcripts`; submodules in `TreeCapture`.
3. Power losses at the object store, whose new names are not synced to their directory.

To run: `tlc -config Engine_evidence.cfg MCEvidencePlan` (also `Engine_pins.cfg`), `Engine_waivers.cfg` and
`Engine_approvals.cfg` with `MCEngine`, `SealPublication.cfg` and `SealRecovery.cfg` with
`MCSealPublication`, the `Team_*.cfg` with `MCTeamGateway`, `Intake.cfg`, `Records.cfg` and
`Answers.cfg` with the MC module of their name; `tlapm` on each module whose name ends in `Proofs` and on
`InductionLemmas.tla`.

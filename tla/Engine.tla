------------------------------- MODULE Engine -------------------------------
(***************************************************************************)
(* The application API of src/opentapeout: engine.py, lifecycle.py and the *)
(* ledger side of bundle.py:seal and delivery.py.  A write operation holds *)
(* SQLite's write lock from the replay of the events to its commit (module *)
(* SealPublication opens up the one that is long), so each is one action   *)
(* over the replayed state of state_from.                                  *)
(*                                                                         *)
(* Around the ledger, and outside its lock, live the workspace files, the  *)
(* content-addressed objects, the policy and trust files an operator       *)
(* passes to each call, and the clock: the Environment actions change      *)
(* them between any two operations.                                        *)
(*                                                                         *)
(* Digests are ideal (the digest of a value is the value) and signatures   *)
(* genuine.  A run's ID is its position in `runs', which is also the order *)
(* of the run.started events.                                              *)
(***************************************************************************)
EXTENDS Policy, Sequences

CONSTANTS
    Resource,     \* resource IDs; Tracked, KindOf come from below
    Tool, Corner, \* the IDs of kind "tool" and "corner"
    Layout,       \* the IDs of kind "layout"
    Content,      \* digests of resource contents
    FilesOf,      \* content -> the files it lists, if it is a directory tree's
    Absent,       \* the workspace file does not exist or cannot be read
    Definition,   \* metadata-only resource -> the digests it is registered with
    DepChoice,    \* resource -> the dependency sets it is registered with
    CheckInput,   \* check kind -> the input lists its runs are begun with
    Report,       \* digests of report files
    NoReport,     \* the run produced no report
    Outcome,      \* what the tool leaves: exit code, report and what it parses to
    Violation, Principal, Role, Policies,
    Attachments,  \* the sets of objects a waiver is signed with
    CandidateName, DeliveryId,
    Recipient,    \* principals that deliveries are sealed for
    InitResources,              \* what is registered when the behaviour starts
    InitPolicy,
    EditContent,                \* tracked resource -> contents written to its file
    Capture,                    \* how runs are finished: TRUE for managed
    Damageable,                 \* objects the environment may remove or corrupt
    MaxRuns, MaxClock, MaxWaivers, MaxApprovals, MaxRevokedKeys  \* bounds

VARIABLES
    \* the replayed ledger (state_from)
    resources, runs, waivers, revokedWaivers, candidates, approvals,
    revokedApprovals, releases, withdrawals, receipts, deliveries,
    deliveryReceipts,
    \* the environment
    workspace, objects, policy, trust, clock,
    \* history: the tracked bytes of each run's inputs at its start and its end
    seen

evidence  == <<resources, runs, waivers, revokedWaivers>>
decisions == <<candidates, approvals, revokedApprovals>>
outbound  == <<releases, withdrawals, receipts, deliveries, deliveryReceipts>>
ledger    == <<evidence, decisions, outbound>>
environment == <<workspace, policy, trust, clock>>
vars == <<ledger, environment, objects, seen>>

Object == Content \cup Report

(* A result as the parser leaves it (parsers.py:validate_result, and the    *)
(* default result of Engine.finish when there is no usable report).        *)
WellFormed(o) ==
    /\ o.status \in {"pass", "fail", "unknown"}
    /\ o.complete \in BOOLEAN
    /\ o.violations \subseteq Violation
    /\ o.metric \in Int
    /\ o.status = "pass" => o.complete /\ o.violations = {}

ASSUME OutcomeAssumption ==
    \A o \in Outcome :
        /\ o.report \in Report \cup {NoReport}
        /\ o.exitOk \in BOOLEAN /\ o.exeIntact \in BOOLEAN
        /\ WellFormed(o)
        /\ o.report = NoReport => o.status = "unknown"

ASSUME PolicyAssumption == \A p \in Policies : ValidPolicy(p)

ASSUME ResourceAssumption ==
    /\ Tracked \subseteq Resource /\ Tool \subseteq Resource
    /\ Corner \subseteq Resource /\ Layout \subseteq Tracked
    /\ Absent \notin Content
    /\ \A r \in Resource : DepChoice[r] \subseteq SUBSET Resource
    /\ \A r \in Resource \ Tracked : Definition[r] \subseteq Content

ASSUME ObjectAssumption ==
    /\ FilesOf \in [Content -> SUBSET Content]
    /\ Attachments \subseteq SUBSET Object

ASSUME InitialAssumption ==
    /\ DOMAIN InitResources \subseteq Resource
    /\ Valid(InitResources)
    /\ \A r \in DOMAIN InitResources : InitResources[r].sha \in Content
    /\ InitPolicy \in Policies
    /\ \A r \in Tracked : EditContent[r] \subseteq Content \cup {Absent}
    /\ Capture \subseteq BOOLEAN

ASSUME BoundAssumption ==
    /\ MaxRuns \in Nat /\ MaxClock \in Nat /\ MaxWaivers \in Nat
    /\ MaxApprovals \in Nat /\ MaxRevokedKeys \in Nat

-----------------------------------------------------------------------------

(* Store.put_file, of each of them: link a copy under its digest unless it *)
(* is there, and refuse when what is there no longer has that digest.      *)
Put(refs) ==
    /\ \A o \in refs : objects[o] # "corrupt"
    /\ objects' = [o \in Object |-> IF o \in refs THEN "intact" ELSE objects[o]]

(* The objects of a resource: its content and, for a directory tree, the   *)
(* files that this lists.                                                  *)
Refs(sha) == {sha} \cup FilesOf[sha]

(* Store.verify_object. *)
Intact(o) == objects[o] = "intact"

(* Fault: a run that is still open is passed over. *)
LatestCompletedRuns(pol) ==
    {i \in DOMAIN runs :
        /\ runs[i].done
        /\ \E req \in pol.checks : Scope(req) = Scope(runs[i])
        /\ \A j \in DOMAIN runs : runs[j].done /\ Scope(runs[j]) = Scope(runs[i]) => j <= i}

(* The run IDs policy checks look at: the latest started run of each scope. *)
LatestRuns(pol) ==
    {i \in DOMAIN runs :
        /\ \E req \in pol.checks : Scope(req) = Scope(runs[i])
        /\ \A j \in DOMAIN runs : Scope(runs[j]) = Scope(runs[i]) => j <= i}

(* scope_view: the candidate as it would be if it were created now. *)
ScopeView(cand, pol, tr) ==
    [cand EXCEPT
        !.resources  = resources,
        !.runs       = [i \in LatestRuns(pol) |-> runs[i]],
        !.waivers    = {w \in waivers \ revokedWaivers : w.run \in LatestRuns(pol)},
        !.deliveries = [l \in DOMAIN cand.deliveries |-> resources[l].sha],
        !.policy     = pol,
        !.trust      = tr]

(* object_refs: the objects a candidate's evidence consists of. *)
ObjectRefs(cand) ==
    (UNION {Refs(cand.resources[r].sha) : r \in DOMAIN cand.resources})
        \cup ({cand.runs[i].report : i \in DOMAIN cand.runs} \ {NoReport})
        \cup (UNION {w.attachments : w \in cand.waivers})

(* Fault: revocations are recorded and not looked at. *)
AllApprovals == approvals

(* active_approvals. *)
ActiveApprovals == approvals \ revokedApprovals

(* Fault: a withdrawn release passes its gate. *)
GateOpenToWithdrawn(cand) ==
    /\ EvidenceReady(cand, policy, trust, clock)
    /\ ScopeView(cand, policy, trust) = cand
    /\ Drift(resources, workspace, DOMAIN resources) = {}
    /\ \A o \in ObjectRefs(cand) : Intact(o)

(* Engine._gate(...)["ready"], without and with the approvals. *)
GateOpen(cand) ==
    /\ EvidenceReady(cand, policy, trust, clock)
    /\ cand \notin withdrawals
    /\ ScopeView(cand, policy, trust) = cand
    /\ Drift(resources, workspace, DOMAIN resources) = {}
    /\ \A o \in ObjectRefs(cand) : Intact(o)

(* Fault: include_approvals=False where a release is sealed. *)
GateReadyUnapproved(cand) == GateOpen(cand)

GateReady(cand) ==
    /\ GateOpen(cand)
    /\ Ready(cand, policy, trust, ActiveApprovals, clock)

-----------------------------------------------------------------------------

Init ==
    /\ resources = InitResources
    /\ runs = <<>>
    /\ waivers = {} /\ revokedWaivers = {}
    /\ candidates = <<>>
    /\ approvals = {} /\ revokedApprovals = {}
    /\ releases = <<>> /\ withdrawals = {} /\ receipts = {}
    /\ deliveries = <<>> /\ deliveryReceipts = {}
    /\ workspace = [r \in Tracked |-> IF r \in DOMAIN InitResources
                                        THEN InitResources[r].sha ELSE Absent]
    /\ objects = [o \in Object |->
                    IF \E r \in DOMAIN InitResources : o \in Refs(InitResources[r].sha)
                      THEN "intact" ELSE "absent"]
    /\ policy = InitPolicy
    /\ trust = {}
    /\ clock = 0
    /\ seen = <<>>

-----------------------------------------------------------------------------
(* Resources. *)

(* Engine.register and register_tree: the dependencies must be fresh, their *)
(* current fingerprints become the pins, and the bytes are what the        *)
(* workspace (or the metadata given) holds now.  A tree's files are stored *)
(* with it (module TreeCapture shows how they are read one by one).        *)
Register(r, deps, sha) ==
    LET record  == [sha  |-> sha,
                    deps |-> deps,
                    pins |-> [d \in deps |-> Fingerprint(resources, d)]]
        updated == [k \in DOMAIN resources \cup {r} |->
                        IF k = r THEN record ELSE resources[k]]
    IN  /\ r \notin deps
        /\ deps \subseteq DOMAIN resources
        /\ Fresh(resources, workspace, Closure(resources, deps))
        /\ sha \in (IF r \in Tracked THEN {workspace[r]} \ {Absent} ELSE Definition[r])
        /\ Put(Refs(sha))
        /\ Valid(updated)
        /\ resources' = updated
        /\ UNCHANGED <<runs, waivers, revokedWaivers, decisions, outbound, environment, seen>>

-----------------------------------------------------------------------------
(* Runs. *)

(* The bytes the workspace holds for the tracked keys among `keys'. *)
Bytes(keys) == [k \in keys \cap Tracked |-> workspace[k]]

(* Engine.begin. *)
Begin(kind, inputs, tool, corner) ==
    LET roots    == inputs \cup {tool, corner}
        snapshot == Snapshot(resources, roots)
    IN  /\ Len(runs) < MaxRuns
        /\ roots \subseteq DOMAIN resources
        /\ Fresh(resources, workspace, DOMAIN snapshot)
        /\ \A k \in DOMAIN snapshot : Intact(resources[k].sha)
        /\ runs' = Append(runs,
              [kind |-> kind, corner |-> corner, tool |-> tool,
               roots |-> roots, snapshot |-> snapshot,
               done |-> FALSE, doneAt |-> 0, exitOk |-> FALSE, managed |-> FALSE,
               exeIntact |-> FALSE, report |-> NoReport, format |-> "none",
               status |-> "unknown", complete |-> FALSE, violations |-> {},
               metric |-> NoMetric, drift |-> {}])
        /\ seen' = Append(seen, [atStart |-> Bytes(DOMAIN snapshot), atEnd |-> <<>>])
        /\ UNCHANGED <<resources, waivers, revokedWaivers, decisions, outbound,
                       environment, objects>>

(* Fault: only the graph is compared, not the bytes on disk. *)
ChangedFingerprints(run) ==
    LET current == Snapshot(resources, run.roots)
        both    == DOMAIN current \cup DOMAIN run.snapshot
        Same(k) == /\ k \in DOMAIN current \cap DOMAIN run.snapshot
                   /\ current[k] = run.snapshot[k]
    IN  {k \in both : ~Same(k)}

(* The inputs Engine.finish finds changed: keys whose fingerprint is not   *)
(* the snapshot's, and keys whose bytes have drifted.                      *)
ChangedInputs(run) ==
    LET current == Snapshot(resources, run.roots)
        both    == DOMAIN current \cup DOMAIN run.snapshot
        Same(k) == /\ k \in DOMAIN current \cap DOMAIN run.snapshot
                   /\ current[k] = run.snapshot[k]
    IN  {k \in both : ~Same(k)} \cup Drift(resources, workspace, DOMAIN current)

(* Fault: a report may be imported again. *)
MayFinishAgain(i) == i \in DOMAIN runs

(* "Run is already completed; start a new run". *)
MayFinish(i) == i \in DOMAIN runs /\ ~runs[i].done

(* Engine.finish, of a run that Engine.run manages or that was begun by    *)
(* hand and imports its report.                                            *)
Finish(i, o, managed) ==
    /\ MayFinish(i)
    /\ Put({o.report} \ {NoReport})
    /\ runs' = [runs EXCEPT ![i] =
          [@ EXCEPT !.done = TRUE, !.doneAt = clock, !.exitOk = o.exitOk,
                    !.managed = managed, !.exeIntact = o.exeIntact /\ managed,
                    !.report = o.report, !.format = o.format, !.status = o.status,
                    !.complete = o.complete, !.violations = o.violations,
                    !.metric = o.metric, !.drift = ChangedInputs(runs[i])]]
    /\ seen' = [seen EXCEPT ![i].atEnd = Bytes(DOMAIN runs[i].snapshot)]
    /\ UNCHANGED <<resources, waivers, revokedWaivers, decisions, outbound, environment>>

-----------------------------------------------------------------------------
(* Waivers. *)

(* Engine.attach: a file of the workspace is stored, for waivers to name. *)
Attach(o) ==
    /\ Put({o})
    /\ UNCHANGED <<ledger, environment, seen>>

(* Engine.waive. *)
Waive(i, v, owner, by, expires, attachments) ==
    /\ Cardinality(waivers) < MaxWaivers
    /\ expires > clock
    /\ runs[i].done
    /\ v \in runs[i].violations
    /\ \A o \in attachments : Intact(o)
    /\ Authorized(trust, by, "waiver")
    /\ by # owner
    /\ waivers' = waivers \cup
          {[run |-> i, evidence |-> runs[i], violation |-> v, owner |-> owner,
            by |-> by, at |-> clock, expires |-> expires,
            attachments |-> attachments, id |-> Cardinality(waivers)]}
    /\ UNCHANGED <<resources, runs, revokedWaivers, decisions, outbound,
                   environment, objects, seen>>

(* Engine.revoke_waiver. *)
RevokeWaiver(w, by) ==
    /\ Authorized(trust, by, "waiver")
    /\ revokedWaivers' = revokedWaivers \cup {w}
    /\ UNCHANGED <<resources, runs, waivers, decisions, outbound, environment,
                   objects, seen>>

-----------------------------------------------------------------------------
(* Candidates and approvals. *)

(* Fault: a candidate may be revised under its name. *)
MayReuse(n) == n \in CandidateName

(* "Candidate name already exists; use a new revision". *)
MayName(n) == n \in CandidateName /\ n \notin DOMAIN candidates

(* Engine.candidate. *)
CreateCandidate(n, by, layouts) ==
    LET blank == [name |-> n, by |-> by, resources |-> <<>>, runs |-> <<>>,
                  waivers |-> {}, deliveries |-> [l \in layouts |-> Absent],
                  policy |-> policy, trust |-> trust]
    IN  /\ MayName(n)
        /\ layouts \subseteq DOMAIN resources
        /\ candidates' = [m \in DOMAIN candidates \cup {n} |->
                             IF m = n THEN ScopeView(blank, policy, trust)
                                      ELSE candidates[m]]
        /\ UNCHANGED <<evidence, approvals, revokedApprovals, outbound,
                       environment, objects, seen>>

(* Engine.approve. *)
Approve(n, role, by) ==
    LET cand == candidates[n]
    IN  /\ Cardinality(approvals) < MaxApprovals
        /\ GateOpen(cand)
        /\ role \in policy.roles
        /\ Authorized(trust, by, role)
        /\ policy.forbidSelf => by # cand.by
        /\ approvals' = approvals \cup
              {[candidate |-> cand, role |-> role, by |-> by, at |-> clock,
                id |-> Cardinality(approvals)]}
        /\ UNCHANGED <<evidence, candidates, revokedApprovals, outbound,
                       environment, objects, seen>>

(* Fault: the revoked approval is taken out of the list of approvals. *)
RevokeApprovalByRemoval(a, by) ==
    /\ a \notin revokedApprovals
    /\ approvals' = approvals \ {a}
    /\ revokedApprovals' = revokedApprovals \cup {a}
    /\ UNCHANGED <<evidence, candidates, outbound, environment, objects, seen>>

(* lifecycle.py:revoke_approval, by the original reviewer or a release-admin. *)
RevokeApproval(a, by) ==
    LET admin == "release-admin" \in RolesOf[by]
    IN  /\ a \notin revokedApprovals
        /\ Authorized(trust, by, IF admin THEN "release-admin" ELSE a.role)
        /\ admin \/ by = a.by
        /\ revokedApprovals' = revokedApprovals \cup {a}
        /\ UNCHANGED <<evidence, candidates, approvals, outbound, environment,
                       objects, seen>>

-----------------------------------------------------------------------------
(* Releases and deliveries. *)

(* What bundle.py:seal commits: the record of an archive that holds the    *)
(* candidate, its policy and the approvals it relies on.                   *)
Seal(n, by) ==
    LET cand == candidates[n]
    IN  /\ n \notin DOMAIN releases
        /\ GateReady(cand)
        /\ Authorized(trust, by, "release")
        /\ releases' = [m \in DOMAIN releases \cup {n} |->
              IF m # n THEN releases[m]
              ELSE [candidate |-> cand,
                    approvals |-> {a \in ActiveApprovals : a.candidate = cand},
                    policy    |-> policy,
                    sealedAt  |-> clock,
                    signer    |-> by]]
        /\ UNCHANGED <<evidence, decisions, withdrawals, receipts, deliveries,
                       deliveryReceipts, environment, objects, seen>>

(* lifecycle.py:withdraw_release. *)
Withdraw(n, by) ==
    /\ releases[n].candidate \notin withdrawals
    /\ Authorized(trust, by, "release")
    /\ withdrawals' = withdrawals \cup {releases[n].candidate}
    /\ UNCHANGED <<evidence, decisions, releases, receipts, deliveries,
                   deliveryReceipts, environment, objects, seen>>

(* Engine.receipt, the operator's note of a foundry upload. *)
Receipt(n) ==
    /\ receipts' = receipts \cup {n}
    /\ UNCHANGED <<evidence, decisions, releases, withdrawals, deliveries,
                   deliveryReceipts, environment, objects, seen>>

(* Fault: an approved candidate is as good as a sealed release. *)
IsCandidate(n) == n \in DOMAIN candidates

(* "Seal a full evidence release before creating a delivery capsule". *)
IsSealed(n) == n \in DOMAIN releases

(* What delivery.py:seal_delivery commits: a capsule with some of the      *)
(* declared layouts of a sealed release.                                   *)
SealDelivery(d, n, layouts, recipient, by) ==
    LET cand == candidates[n]
    IN  /\ d \notin DOMAIN deliveries
        /\ IsSealed(n)
        /\ GateReady(cand)
        /\ layouts \subseteq DOMAIN cand.deliveries
        /\ Authorized(trust, by, "release")
        /\ deliveries' = [e \in DOMAIN deliveries \cup {d} |->
              IF e # d THEN deliveries[e]
              ELSE [release   |-> n,
                    candidate |-> cand,
                    files     |-> [l \in layouts |-> cand.deliveries[l]],
                    recipient |-> recipient,
                    sealedAt  |-> clock]]
        /\ UNCHANGED <<evidence, decisions, releases, withdrawals, receipts,
                       deliveryReceipts, environment, objects, seen>>

(* delivery.py:record_receipt: the designated recipient's signed receipt;  *)
(* recording it again changes nothing.                                     *)
RecordReceipt(d) ==
    /\ Authorized(trust, deliveries[d].recipient, "delivery-receiver")
    /\ deliveries[d].candidate \notin withdrawals
    /\ deliveryReceipts' = deliveryReceipts \cup {d}
    /\ UNCHANGED <<evidence, decisions, releases, withdrawals, receipts,
                   deliveries, environment, objects, seen>>

-----------------------------------------------------------------------------
(* The environment: what changes outside the ledger's lock. *)

EditWorkspace(r, c) ==
    /\ workspace' = [workspace EXCEPT ![r] = c]
    /\ UNCHANGED <<ledger, policy, trust, clock, objects, seen>>

DamageObject(o, how) ==
    /\ Intact(o)
    /\ objects' = [objects EXCEPT ![o] = how]
    /\ UNCHANGED <<ledger, environment, seen>>

EditPolicy(p) ==
    /\ policy' = p
    /\ UNCHANGED <<ledger, workspace, trust, clock, objects, seen>>

RevokeKey(p) ==
    /\ Cardinality(trust) < MaxRevokedKeys
    /\ trust' = trust \cup {p}
    /\ UNCHANGED <<ledger, workspace, policy, clock, objects, seen>>

Tick ==
    /\ clock < MaxClock
    /\ clock' = clock + 1
    /\ UNCHANGED <<ledger, workspace, policy, trust, objects, seen>>

-----------------------------------------------------------------------------

Operation ==
    \/ \E r \in Resource, sha \in Content : \E deps \in DepChoice[r] :
          Register(r, deps, sha)
    \/ \E kind \in DOMAIN CheckInput, tool \in Tool, corner \in Corner :
          \E inputs \in CheckInput[kind] : Begin(kind, inputs, tool, corner)
    \/ \E i \in DOMAIN runs, o \in Outcome, managed \in Capture : Finish(i, o, managed)
    \/ \E i \in DOMAIN runs, v \in Violation, owner, by \in Principal :
          \E expires \in 1..(MaxClock + 1), attachments \in Attachments :
              Waive(i, v, owner, by, expires, attachments)
    \/ \E o \in UNION Attachments : Attach(o)
    \/ \E w \in waivers, by \in Principal : RevokeWaiver(w, by)
    \/ \E n \in CandidateName, by \in Principal, layouts \in SUBSET Layout :
          CreateCandidate(n, by, layouts)
    \/ \E n \in DOMAIN candidates, role \in Role, by \in Principal : Approve(n, role, by)
    \/ \E a \in approvals, by \in Principal : RevokeApproval(a, by)
    \/ \E n \in DOMAIN candidates, by \in Principal : Seal(n, by)
    \/ \E n \in DOMAIN releases, by \in Principal : Withdraw(n, by)
    \/ \E n \in DOMAIN releases : Receipt(n)
    \/ \E d \in DeliveryId, n \in DOMAIN candidates, layouts \in SUBSET Layout \ {{}} :
          \E recipient \in Recipient, by \in Principal :
              SealDelivery(d, n, layouts, recipient, by)
    \/ \E d \in DOMAIN deliveries : RecordReceipt(d)

Environment ==
    \/ \E r \in Tracked : \E c \in EditContent[r] : EditWorkspace(r, c)
    \/ \E o \in Damageable, how \in {"absent", "corrupt"} : DamageObject(o, how)
    \/ \E p \in Policies : EditPolicy(p)
    \/ \E p \in Principal : RevokeKey(p)
    \/ Tick

Next == Operation \/ Environment

Spec == Init /\ [][Next]_vars
=============================================================================

---------------------------- MODULE EngineSafety ----------------------------
(***************************************************************************)
(* What the engine's operations must guarantee together, whatever happens  *)
(* to the workspace, the objects, the policy, the keys and the clock       *)
(* between them.                                                           *)
(***************************************************************************)
EXTENDS Engine

-----------------------------------------------------------------------------
(* Types. *)

ResourceType(res) ==
    /\ DOMAIN res \subseteq Resource
    /\ \A r \in DOMAIN res : /\ res[r].sha \in Content
                             /\ res[r].deps \subseteq DOMAIN res

RunType(run) ==
    /\ run.corner \in Corner /\ run.tool \in Tool
    /\ DOMAIN run.snapshot \subseteq Resource
    /\ run.done \in BOOLEAN /\ run.doneAt \in Nat
    /\ run.report \in Report \cup {NoReport}
    /\ run.violations \subseteq Violation
    /\ run.drift \subseteq Resource
    /\ run.done /\ run.status = "pass" => run.complete /\ run.violations = {}

RunsType ==
    /\ \A i \in DOMAIN runs : RunType(runs[i])
    /\ Len(runs) <= MaxRuns
    /\ DOMAIN seen = DOMAIN runs

WaiverType ==
    /\ \A w \in waivers : w.run \in DOMAIN runs /\ w.violation \in Violation
    /\ revokedWaivers \subseteq waivers

DecisionType ==
    /\ DOMAIN candidates \subseteq CandidateName
    /\ \A n \in DOMAIN candidates : candidates[n].name = n
    /\ \A a \in approvals : /\ a.candidate.name \in DOMAIN candidates
                            /\ a.role \in Role /\ a.by \in Principal
    /\ revokedApprovals \subseteq approvals

OutboundType ==
    /\ DOMAIN releases \subseteq DOMAIN candidates
    /\ withdrawals \subseteq {releases[n].candidate : n \in DOMAIN releases}
    /\ receipts \subseteq DOMAIN releases
    /\ DOMAIN deliveries \subseteq DeliveryId
    /\ deliveryReceipts \subseteq DOMAIN deliveries

(* The policy of the call is one an operator wrote, in all but its checks,  *)
(* which may have been pinned since.                                       *)
PolicyType ==
    /\ ValidPolicy(policy)
    /\ \E p \in Policies : \A f \in PolicyField \ {"checks"} : policy[f] = p[f]

EnvironmentType ==
    /\ workspace \in [Tracked -> Content \cup {Absent}]
    /\ objects \in [Object -> {"absent", "intact", "corrupt"}]
    /\ PolicyType /\ trust \subseteq Principal
    /\ clock \in 0..MaxClock

(* The ledger sections, the environment and the history variable have the  *)
(* shapes state_from gives them: waivers refer to runs, approvals to       *)
(* candidates of the ledger, releases and deliveries to their candidates.  *)
TypeOK ==
    /\ ResourceType(resources)
    /\ RunsType
    /\ WaiverType
    /\ DecisionType
    /\ OutboundType
    /\ EnvironmentType

-----------------------------------------------------------------------------
(* Evidence. *)

(* The candidates somebody has put their name to. *)
Decided ==
    {a.candidate : a \in approvals}
        \cup {releases[n].candidate : n \in DOMAIN releases}
        \cup {deliveries[d].candidate : d \in DOMAIN deliveries}

(* The evidence behind a decision is final: every run of an approved,      *)
(* sealed or delivered candidate is completed, and the copy frozen in the  *)
(* candidate is the run the ledger holds, then and ever after.  A run that *)
(* completes late, or twice, must not slip under a signature.              *)
DecidedEvidenceFinal ==
    \A c \in Decided : \A i \in DOMAIN c.runs :
        i \in DOMAIN runs /\ c.runs[i] = runs[i] /\ runs[i].done

(* The bytes that were decided on are the bytes that were checked: for     *)
(* every tracked input of every run of a decided candidate the workspace   *)
(* held the candidate's content when the run began and when it ended.      *)
(* Files changed and restored, or registered anew, in between, and files   *)
(* edited before the run must not lend their result to other bytes.        *)
DecidedBytesWereChecked ==
    \A c \in Decided : \A i \in DOMAIN c.runs :
        \A k \in DOMAIN c.runs[i].snapshot \cap Tracked :
            /\ k \in DOMAIN c.resources
            /\ seen[i].atStart[k] = c.resources[k].sha
            /\ seen[i].atEnd[k] = c.resources[k].sha

(* No run binds an obsolete derivative: whatever a run's snapshot holds was *)
(* built from the very fingerprints that are in the same snapshot, all the *)
(* way down (assert_fresh over the closure, in begin).                     *)
RunsBindFreshDerivatives ==
    \A i \in DOMAIN runs :
        LET snap == runs[i].snapshot
        IN  \A k \in DOMAIN snap : \A d \in snap[k][k].deps :
                d \in DOMAIN snap /\ snap[k][k].pins[d] = snap[d]

(* Every violation left in the evidence of a decided candidate is covered  *)
(* by a waiver for the completed run as the ledger has it, reviewed by     *)
(* somebody other than its owner.                                          *)
DecidedViolationsWaived ==
    \A c \in Decided : \A i \in DOMAIN c.runs : \A v \in c.runs[i].violations :
        \E w \in waivers : /\ w.run = i /\ w.violation = v
                           /\ w.evidence = runs[i]
                           /\ w.by # w.owner

(* Policy v2: the inputs the policy pins by digest are the ones the run of *)
(* a decided candidate was started with, by an allowed tool and, where the *)
(* policy asks for it, as a managed run of an intact executable.  The gate *)
(* compares pins with the current graph, so this also rests on the run's   *)
(* inputs being current.                                                   *)
DecidedRunsPinned ==
    \A c \in Decided : \A req \in c.policy.checks :
        \E i \in DOMAIN c.runs :
            /\ Scope(runs[i]) = Scope(req)
            /\ runs[i].tool \in req.tools
            /\ req.pinnedExe => runs[i].managed /\ runs[i].exeIntact
            /\ \A k \in DOMAIN req.pins \ (req.tools \ {runs[i].tool}) :
                  /\ k \in DOMAIN runs[i].snapshot
                  /\ runs[i].snapshot[k][k].sha = req.pins[k]

(* The candidates a step approves, seals or delivers. *)
NewRelease  == {releases'[n].candidate : n \in DOMAIN releases' \ DOMAIN releases}
NewDelivery == {deliveries'[d].candidate : d \in DOMAIN deliveries' \ DOMAIN deliveries}
NewDecision == {a.candidate : a \in approvals' \ approvals} \cup NewRelease \cup NewDelivery

(* A new approval, release or delivery rests, for every check its policy   *)
(* requires, on the run of that scope that STARTED last: an older pass     *)
(* never stands in for a newer run, finished or not.                       *)
NoFallbackStep ==
    \A c \in NewDecision : \A req \in c.policy.checks :
        \E i \in DOMAIN c.runs :
            /\ Scope(runs[i]) = Scope(req)
            /\ \A j \in DOMAIN runs : Scope(runs[j]) = Scope(req) => j <= i

NoFallback == [][NoFallbackStep]_vars

(* No approval, release or delivery is made while a waiver its evidence    *)
(* needs is revoked or has expired.                                        *)
WaiversLiveStep ==
    \A c \in NewDecision : \A i \in DOMAIN c.runs : \A v \in runs[i].violations :
        \E w \in waivers \ revokedWaivers :
            w.run = i /\ w.violation = v /\ clock < w.expires

WaiversLive == [][WaiversLiveStep]_vars

-----------------------------------------------------------------------------
(* Decisions. *)

(* The approvals of a candidate as role options, among a set of approvals. *)
Endorsements(c, signed) ==
    {<<a.role, a.by>> : a \in {b \in signed : b.candidate = c}}

(* A release or delivery is authorised, when it is made, by approvals of   *)
(* exactly its candidate that nobody has revoked, given by distinct people *)
(* (if the policy says so) none of whom wrote the candidate.  A reviewer's *)
(* revocation between sealing and delivery stops the delivery.             *)
AuthorisedStep ==
    \A c \in NewRelease \cup NewDelivery :
        \E f \in Assignments(c.policy.roles, Endorsements(c, approvals \ revokedApprovals),
                             c.policy.distinct) :
            c.policy.forbidSelf => \A r \in c.policy.roles : f[r] # c.by

Authorised == [][AuthorisedStep]_vars

(* Withdrawal is irreversible and effective: once a candidate is withdrawn *)
(* it stays so, and it gains no approval, release, delivery or recipient's *)
(* receipt.  (An operator's receipt of an earlier upload is still taken.)  *)
WithdrawnStep ==
    \A c \in withdrawals :
        /\ c \in withdrawals'
        /\ c \notin NewDecision
        /\ \A d \in deliveryReceipts' \ deliveryReceipts : deliveries[d].candidate # c

WithdrawnStaysDown == [][WithdrawnStep]_vars

(* The ledger is history: a completed run, a candidate, a release and a    *)
(* delivery are never changed, and no signature or revocation disappears.  *)
HistoryStep ==
    /\ \A i \in DOMAIN runs : /\ i \in DOMAIN runs'
                              /\ runs[i].done => runs'[i] = runs[i]
                              /\ runs'[i].snapshot = runs[i].snapshot
    /\ \A n \in DOMAIN candidates : n \in DOMAIN candidates' /\ candidates'[n] = candidates[n]
    /\ \A n \in DOMAIN releases : n \in DOMAIN releases' /\ releases'[n] = releases[n]
    /\ \A d \in DOMAIN deliveries : d \in DOMAIN deliveries' /\ deliveries'[d] = deliveries[d]
    /\ waivers \subseteq waivers' /\ revokedWaivers \subseteq revokedWaivers'
    /\ approvals \subseteq approvals' /\ revokedApprovals \subseteq revokedApprovals'
    /\ withdrawals \subseteq withdrawals'

HistoryImmutable == [][HistoryStep]_vars

(* An archive verifies from what it carries: at its own creation time the  *)
(* sealed candidate passes the gate with just the approvals in the archive *)
(* (bundle.py:verify_bundle, under the trust store it was sealed with).    *)
ArchiveVerifies ==
    \A n \in DOMAIN releases :
        LET r == releases[n]
        IN  Ready(r.candidate, r.policy, r.candidate.trust, r.approvals, r.sealedAt)

(* A delivery carries bytes of a sealed release and nothing else: the      *)
(* candidate its release sealed, and layout files that were inputs of that *)
(* candidate with the digests it froze.                                    *)
DeliveryMatchesRelease ==
    \A d \in DOMAIN deliveries :
        LET x == deliveries[d]
        IN  /\ x.release \in DOMAIN releases
            /\ releases[x.release].candidate = x.candidate
            /\ \A l \in DOMAIN x.files :
                  l \in DOMAIN x.candidate.resources
                  /\ x.files[l] = x.candidate.resources[l].sha
            /\ releases[x.release].sealedAt <= x.sealedAt
=============================================================================

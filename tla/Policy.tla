------------------------------- MODULE Policy -------------------------------
(***************************************************************************)
(* The release policy and its evaluator, src/opentapeout/policy.py.        *)
(*                                                                         *)
(* A policy is a record                                                    *)
(*   [checks   |-> set of requirements, one for each scope (kind:corner),  *)
(*    roles, distinct, forbidSelf, approvalAge,                            *)
(*    managed, delivery, git, hashedPdk |-> the require_* switches]        *)
(* and a requirement a record                                              *)
(*   [kind, corner, needs |-> resource kinds the run must bind,            *)
(*    maxAge, least |-> the lower metric bound (NoMetric: none),           *)
(*    pins  |-> exact digests by resource ID (<<>> under policy v1),       *)
(*    tools |-> allowed tools, formats |-> allowed report adapters,        *)
(*    pinnedExe |-> require_pinned_executable].                            *)
(* The trust store is the set of principals whose key is revoked: every    *)
(* principal holds one key and RolesOf gives its roles.                    *)
(***************************************************************************)
EXTENDS ResourceGraph, RoleAssignment, Integers

CONSTANTS KindOf,     \* resource ID -> resource kind
          RolesOf     \* principal -> roles of its key in the trust store

NoMetric == -1        \* the report has no such metric; below every bound

-----------------------------------------------------------------------------

(* check_key: the scope a run or a requirement belongs to. *)
Scope(x) == <<x.kind, x.corner>>

RequirementField == {"kind", "corner", "needs", "maxAge", "least", "pins", "tools", "formats",
                     "pinnedExe"}

PolicyField == {"checks", "roles", "distinct", "forbidSelf", "approvalAge", "managed",
                "delivery", "git", "hashedPdk"}

(* What validate_policy accepts.  A policy v2 requirement pins the corner   *)
(* and every allowed tool; v1 pins nothing.                                *)
ValidRequirement(req) ==
    /\ DOMAIN req = RequirementField
    /\ req.needs # {} /\ req.tools # {} /\ req.formats # {}
    /\ req.maxAge > 0
    /\ DOMAIN req.pins # {} => req.tools \cup {req.corner} \subseteq DOMAIN req.pins
    /\ req.pinnedExe => DOMAIN req.pins # {}

ValidPolicy(pol) ==
    /\ DOMAIN pol = PolicyField
    /\ pol.checks # {} /\ \A req \in pol.checks : ValidRequirement(req)
    /\ \A a, b \in pol.checks : Scope(a) = Scope(b) => a = b
    /\ pol.roles # {} /\ pol.approvalAge > 0
    /\ {pol.distinct, pol.forbidSelf, pol.managed, pol.delivery, pol.git, pol.hashedPdk}
          \subseteq BOOLEAN

(* Trust.verify, for an envelope whose signature is genuine. *)
Authorized(trust, p, role) == p \notin trust /\ role \in RolesOf[p]

(* Fault: the expiry of a waiver is not looked at. *)
WaivedForever(cand, trust, at) ==
    LET Holds(w) ==
            /\ Authorized(trust, w.by, "waiver")
            /\ w.by # w.owner
            /\ w.run \in DOMAIN cand.runs
            /\ w.evidence = cand.runs[w.run]
            /\ w.violation \in w.evidence.violations
    IN  {<<w.run, w.violation>> : w \in {v \in cand.waivers : Holds(v)}}

(* valid_waivers: the <<run, violation>> pairs a waiver of the candidate   *)
(* covers at time `at'.                                                    *)
Waived(cand, trust, at) ==
    LET Holds(w) ==
            /\ Authorized(trust, w.by, "waiver")
            /\ w.by # w.owner
            /\ w.at <= at /\ at < w.expires
            /\ w.run \in DOMAIN cand.runs
            /\ w.evidence = cand.runs[w.run]
            /\ w.violation \in w.evidence.violations
    IN  {<<w.run, w.violation>> : w \in {v \in cand.waivers : Holds(v)}}

-----------------------------------------------------------------------------

(* RESULT_STALE does not block: the closure of the run's roots has the     *)
(* fingerprints it had when the run began.                                 *)
InputsCurrent(res, run) == run.snapshot = Snapshot(res, run.roots)

(* Fault: a pinned input that the run did not bind is passed over. *)
PinsMetIfBound(res, req, run) ==
    /\ \A k \in DOMAIN req.pins \cap DOMAIN run.snapshot :
         (k \in req.tools /\ k # run.tool) \/ res[k].sha = req.pins[k]
    /\ run.tool \in req.tools

(* EXACT_INPUT_MISSING, INPUT_PIN_MISMATCH, DEFINITION_PIN_INVALID,         *)
(* TOOL_NOT_ALLOWED and EXECUTABLE_IDENTITY do not block; a pin of another *)
(* allowed tool than the one the run used does not count.                  *)
(* TOOL_SPEC_MISMATCH is part of InputsCurrent: the tool is a root.        *)
PinsMet(res, req, run) ==
    /\ \A k \in DOMAIN req.pins :
         \/ k \in req.tools /\ k # run.tool
         \/ /\ k \in DOMAIN run.snapshot
            /\ res[k].sha = req.pins[k]
            /\ k \in {run.tool, run.corner} => k \notin Tracked
    /\ run.tool \in req.tools
    /\ req.pinnedExe => run.exeIntact /\ run.managed

(* INPUT_KIND_MISSING does not block, nor PDK_CHECKSUM_MISSING for the run. *)
KindsBound(pol, req, run) ==
    /\ req.needs \subseteq {KindOf[k] : k \in DOMAIN run.snapshot}
    /\ pol.hashedPdk =>
         {k \in DOMAIN run.snapshot : KindOf[k] = "pdk"} \subseteq Tracked

(* Fault: a complete failing report passes for a reviewed one. *)
ConclusiveUnreviewed(pol, req, i, run, waived, at) ==
    /\ run.done
    /\ run.doneAt <= at /\ at <= run.doneAt + req.maxAge
    /\ run.drift = {}
    /\ run.exitOk
    /\ run.complete /\ run.status # "unknown"

(* The completed run establishes success: in time, without observed input  *)
(* drift, exit code 0, a complete report of the allowed format whose every *)
(* violation is waived and whose metric is within its bound.               *)
Conclusive(pol, req, i, run, waived, at) ==
    /\ run.done
    /\ run.doneAt <= at /\ at <= run.doneAt + req.maxAge
    /\ run.drift = {}
    /\ run.exitOk
    /\ run.format \in req.formats
    /\ pol.managed => run.managed
    /\ run.complete /\ run.status # "unknown"
    /\ ~(run.status = "fail" /\ run.violations = {})
    /\ \A v \in run.violations : <<i, v>> \in waived
    /\ run.metric >= req.least

(* Some run of the candidate (it holds at most one of each scope) meets    *)
(* the requirement.                                                        *)
Satisfied(cand, pol, trust, at, req) ==
    \E i \in DOMAIN cand.runs :
        LET run == cand.runs[i]
        IN  /\ Scope(run) = Scope(req)
            /\ InputsCurrent(cand.resources, run)
            /\ PinsMet(cand.resources, req, run)
            /\ KindsBound(pol, req, run)
            /\ Conclusive(pol, req, i, run, Waived(cand, trust, at), at)

(* GIT_PROVENANCE_MISSING, PDK_CHECKSUM_MISSING and DELIVERY_MISSING do    *)
(* not block.                                                              *)
Provenance(cand, pol) ==
    LET Anchored(kind) ==
            \E r \in DOMAIN cand.resources \cap Tracked : KindOf[r] = kind
    IN  /\ pol.git => Anchored("git")
        /\ pol.hashedPdk => Anchored("pdk")
        /\ pol.delivery => cand.deliveries # <<>>

(* evaluate(..., include_approvals=False) has no blocker. *)
EvidenceReady(cand, pol, trust, at) ==
    /\ pol = cand.policy
    /\ trust = cand.trust
    /\ \A r \in DOMAIN cand.resources : ~Stale(cand.resources, r)
    /\ Provenance(cand, pol)
    /\ \A req \in pol.checks : Satisfied(cand, pol, trust, at, req)

-----------------------------------------------------------------------------

(* The valid approvals of the candidate at time `at', as role options. *)
Options(cand, pol, trust, approvals, at) ==
    LET Counts(a) ==
            /\ a.role \in pol.roles
            /\ Authorized(trust, a.by, a.role)
            /\ a.candidate = cand
            /\ pol.forbidSelf => a.by # cand.by
            /\ a.at <= at /\ at <= a.at + pol.approvalAge
    IN  {<<a.role, a.by>> : a \in {b \in approvals : Counts(b)}}

(* evaluate has no blocker. *)
Ready(cand, pol, trust, approvals, at) ==
    /\ EvidenceReady(cand, pol, trust, at)
    /\ Assignable(pol.roles, Options(cand, pol, trust, approvals, at), pol.distinct)
=============================================================================

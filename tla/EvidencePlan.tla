---------------------------- MODULE EvidencePlan ----------------------------
(***************************************************************************)
(* What reads the engine's evidence to advise: the checks of planning.py's *)
(* rebuild plan, Engine.impact, and pinning.py, which turns the evidence    *)
(* of a policy's checks into a policy v2.  An operator may adopt the        *)
(* pinned policy while everything else goes on.                            *)
(***************************************************************************)
EXTENDS Engine

VARIABLE pinned   \* history: resource -> digest of the evidence pinned, by
                  \* scope; <<>> before a policy is pinned

planVars == <<vars, pinned>>

(* The name a plan gives the candidate it looks at when none is frozen: no  *)
(* candidate of the ledger, so nothing that could have been withdrawn.     *)
ASSUME UnfrozenAssumption == "unfrozen" \notin CandidateName

-----------------------------------------------------------------------------
(* Plans. *)

(* The frozen candidate a plan starts from when there is none. *)
Unfrozen(layouts) ==
    [name |-> "unfrozen", by |-> "unfrozen", resources |-> <<>>, runs |-> <<>>,
     waivers |-> {}, deliveries |-> [l \in layouts |-> Absent],
     policy |-> policy, trust |-> trust]

LatestRun(req) == {i \in LatestRuns(policy) : Scope(runs[i]) = Scope(req)}

(* The objects a run's evidence consists of. *)
RunRefs(run) ==
    (UNION {Refs(resources[k].sha) : k \in DOMAIN run.snapshot}) \cup ({run.report} \ {NoReport})

(* Fault: a what-if only lists the resources. *)
CheckActionAsIs(req, frozen, changed) ==
    LET latest   == LatestRun(req)
        run      == runs[CHOOSE i \in latest : TRUE]
        affected == DOMAIN run.snapshot \cap Affected(resources, workspace, {})
    IN  IF latest = {} THEN "configure_and_run"
        ELSE IF ~run.done /\ affected = {} THEN "wait_for_latest_run"
        ELSE IF affected # {}
                  \/ ~Satisfied(ScopeView(frozen, policy, trust), policy, trust, clock, req)
               THEN "rerun_or_resolve"
        ELSE IF \A o \in RunRefs(run) : Intact(o) THEN "reuse_evidence"
        ELSE "repair_evidence"

(* Fault: current inputs are taken for good evidence. *)
CheckActionFresh(req, frozen, changed) ==
    LET latest   == LatestRun(req)
        run      == runs[CHOOSE i \in latest : TRUE]
        affected == DOMAIN run.snapshot \cap Affected(resources, workspace, changed)
    IN  IF latest = {} THEN "configure_and_run"
        ELSE IF ~run.done /\ affected = {} THEN "wait_for_latest_run"
        ELSE IF affected # {} THEN "rerun_or_resolve"
        ELSE IF \A o \in RunRefs(run) : Intact(o) THEN "reuse_evidence"
        ELSE "repair_evidence"

(* The action of the plan's row for a required check, when the resources   *)
(* `changed' are assumed to change.                                        *)
CheckAction(req, frozen, changed) ==
    LET latest   == LatestRun(req)
        run      == runs[CHOOSE i \in latest : TRUE]
        affected == DOMAIN run.snapshot \cap Affected(resources, workspace, changed)
        current  == ScopeView(frozen, policy, trust)
    IN  IF latest = {} THEN "configure_and_run"
        ELSE IF ~run.done /\ affected = {} THEN "wait_for_latest_run"
        ELSE IF affected # {} \/ ~Satisfied(current, policy, trust, clock, req)
               THEN "rerun_or_resolve"
        ELSE IF \A o \in RunRefs(run) : Intact(o) THEN "reuse_evidence"
        ELSE "repair_evidence"

(* Nothing in the plan asks for work. *)
NothingToDo(frozen) ==
    /\ Affected(resources, workspace, {}) = {}
    /\ \A req \in policy.checks : CheckAction(req, frozen, {}) = "reuse_evidence"

(* Engine.impact: the runs that bound the resource or what is built from it. *)
AffectedRuns(r) ==
    {i \in DOMAIN runs : DOMAIN runs[i].snapshot \cap (Impact(resources, r) \cup {r}) # {}}

-----------------------------------------------------------------------------
(* Pinning. *)

(* Fault: evidence is pinned without looking whether its inputs are still   *)
(* the current ones.                                                       *)
MayPinUnchecked(req) ==
    /\ LatestRun(req) # {}
    /\ \A i \in LatestRun(req) :
          /\ runs[i].done /\ runs[i].managed
          /\ {runs[i].tool, runs[i].corner} \cap Tracked = {}
          /\ runs[i].exeIntact
          /\ runs[i].report # NoReport /\ Intact(runs[i].report)

(* pin_policy accepts the evidence of this check. *)
MayPin(req) ==
    /\ LatestRun(req) # {}
    /\ \A i \in LatestRun(req) :
          /\ runs[i].done /\ runs[i].managed
          /\ Fresh(resources, workspace, Closure(resources, runs[i].roots))
          /\ InputsCurrent(resources, runs[i]) /\ runs[i].drift = {}
          /\ {runs[i].tool, runs[i].corner} \cap Tracked = {}
          /\ runs[i].exeIntact
          /\ runs[i].report # NoReport /\ Intact(runs[i].report)

(* The requirement with everything its latest run bound pinned. *)
Pin(req) ==
    LET run == runs[CHOOSE i \in LatestRun(req) : TRUE]
    IN  [req EXCEPT
           !.pins      = [k \in Closure(resources, run.roots) |-> resources[k].sha],
           !.tools     = {run.tool},
           !.formats   = {run.format},
           !.pinnedExe = TRUE]

(* pin_policy, and the operator passes its result from then on. *)
PinPolicy ==
    /\ pinned = <<>>
    /\ \A req \in policy.checks : MayPin(req)
    /\ policy' = [policy EXCEPT !.checks = {Pin(req) : req \in policy.checks}]
    /\ pinned' = [s \in {Scope(req) : req \in policy.checks} |->
                    LET run == runs[CHOOSE i \in LatestRuns(policy) : Scope(runs[i]) = s]
                    IN  [k \in DOMAIN run.snapshot |-> run.snapshot[k][k].sha]]
    /\ UNCHANGED <<ledger, workspace, trust, clock, objects, seen>>

PlanInit == Init /\ pinned = <<>>
PlanNext == (Next /\ UNCHANGED pinned) \/ PinPolicy
PlanSpec == PlanInit /\ [][PlanNext]_planVars

-----------------------------------------------------------------------------

(* A plan and the gate agree.  When a plan has nothing left to do, a        *)
(* candidate created now passes its gate, up to what a plan does not look   *)
(* at (release-wide provenance and objects no check has bound); and where   *)
(* a candidate passes, a plan asks for no work (planning.py:33-123 against  *)
(* engine.py:353-383).                                                     *)
PlanAgreesWithGate ==
    \A layouts \in SUBSET (Layout \cap DOMAIN resources) :
        LET now == ScopeView(Unfrozen(layouts), policy, trust)
        IN  GateOpen(now) <=> /\ NothingToDo(Unfrozen(layouts))
                              /\ Provenance(now, policy)
                              /\ \A o \in ObjectRefs(now) : Intact(o)

(* A what-if comes true: a check whose evidence a plan would reuse although *)
(* r is assumed to change can still reuse it once r, and nothing else, was  *)
(* registered again (planning.py:19-34, 84-98).                            *)
WhatIfStep ==
    \A r \in DOMAIN resources :
        /\ resources' # resources
        /\ \A k \in DOMAIN resources \ {r} : resources'[k] = resources[k]
        /\ DOMAIN resources' = DOMAIN resources
        => \A req \in policy.checks :
              CheckAction(req, Unfrozen({}), {r}) = "reuse_evidence"
                => CheckAction(req, Unfrozen({}), {})' = "reuse_evidence"

(* Engine.impact misses nothing and adds nothing: registering r with other  *)
(* content spoils exactly the current runs it listed (engine.py:417-425).   *)
ImpactStep ==
    \A r \in DOMAIN resources :
        resources'[r] # resources[r]
          => {i \in DOMAIN runs : InputsCurrent(resources, runs[i])
                                    /\ ~InputsCurrent(resources', runs[i])}
               = {i \in AffectedRuns(r) : InputsCurrent(resources, runs[i])}

(* What a pinned policy admits is what was pinned: under it, that is, until *)
(* the operator passes one of its own again, a candidate passes its gate   *)
(* only on runs that bound the very bytes of the evidence the policy was   *)
(* pinned from, and the pinned policy is a valid one (pinning.py:16-48     *)
(* with policy.py:175-199).                                                *)
PinnedGateBindsPinnedBytes ==
    pinned # <<>> /\ policy \notin Policies =>
        /\ ValidPolicy(policy)
        /\ \A n \in DOMAIN candidates : GateOpen(candidates[n]) =>
              \A s \in DOMAIN pinned : \E i \in DOMAIN candidates[n].runs :
                  LET run == candidates[n].runs[i]
                  IN  /\ Scope(run) = s
                      /\ \A k \in DOMAIN pinned[s] :
                            /\ k \in DOMAIN run.snapshot
                            /\ run.snapshot[k][k].sha = pinned[s][k]

(* Pinning takes nothing away: the evidence a policy was satisfied by when  *)
(* it could be pinned satisfies the pinned policy too.                      *)
PinnedPolicyKeepsEvidence ==
    LET current == ScopeView(Unfrozen({}), policy, trust)
    IN  \A req \in policy.checks :
            MayPin(req) /\ Satisfied(current, policy, trust, clock, req)
                => Satisfied(current, policy, trust, clock, Pin(req))

(* The consequences of a change are foreseen: nothing it spoils is called   *)
(* reusable, and exactly the runs it spoils are listed.                    *)
ChangesForeseen == [][WhatIfStep /\ ImpactStep]_planVars

(* A pinned policy admits what was pinned and what could be pinned.         *)
PinningExact == PinnedGateBindsPinnedBytes /\ PinnedPolicyKeepsEvidence
=============================================================================

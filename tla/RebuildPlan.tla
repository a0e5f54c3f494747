---------------------------- MODULE RebuildPlan ----------------------------
(***************************************************************************)
(* planning.py:plan, the resources: which of them a change affects and in   *)
(* which waves they are to be rebuilt, and teams that follow the plan, the  *)
(* resources of a wave side by side.                                       *)
(*                                                                         *)
(* Nothing else is edited or registered while the plan is followed: it is   *)
(* advisory and speaks of the state it was made in.                        *)
(***************************************************************************)
EXTENDS ResourceGraph, Naturals, FiniteSetsExt

CONSTANTS Bytes,         \* contents of the files
          Absent,        \* the file does not exist
          DepChoice,     \* resource -> the dependency sets it is registered with
          MaxChanges     \* bound: edits and registrations before the plan

RebuildAssumption ==
    /\ Absent \notin Bytes
    /\ DepChoice \in [Tracked -> SUBSET SUBSET Tracked]
    /\ MaxChanges \in Nat

VARIABLES resources, workspace,
          wave,      \* the tasks of the plan -> their wave; <<>> before there is one
          following, \* whether the plan is being followed
          produced,  \* the tasks whose bytes have been produced again
          rebuilt,   \* the tasks registered again
          changes

rebuildVars == <<resources, workspace, wave, following, produced, rebuilt, changes>>

RebuildInit ==
    /\ resources = <<>>
    /\ workspace = [r \in Tracked |-> CHOOSE c \in Bytes : TRUE]
    /\ wave = <<>> /\ following = FALSE
    /\ produced = {} /\ rebuilt = {}
    /\ changes = 0

-----------------------------------------------------------------------------

(* Engine.register accepts these dependencies for r now. *)
MayRegister(r, deps) ==
    /\ deps \subseteq DOMAIN resources \ {r}
    /\ Fresh(resources, workspace, Closure(resources, deps))
    /\ workspace[r] # Absent

(* The resources once r has been registered with the bytes it has. *)
Registered(r, deps) ==
    LET record == [sha |-> workspace[r], deps |-> deps,
                   pins |-> [d \in deps |-> Fingerprint(resources, d)]]
    IN  [k \in DOMAIN resources \cup {r} |-> IF k = r THEN record ELSE resources[k]]

(* Before the plan: anything is registered, again or anew, and edited. *)
RegisterFirst(r) ==
    /\ ~following /\ changes < MaxChanges
    /\ \E deps \in DepChoice[r] :
          /\ MayRegister(r, deps)
          /\ Valid(Registered(r, deps))
          /\ resources' = Registered(r, deps)
    /\ changes' = changes + 1
    /\ UNCHANGED <<workspace, wave, following, produced, rebuilt>>

Edit(r) ==
    /\ ~following /\ changes < MaxChanges
    /\ \E c \in Bytes \cup {Absent} : workspace' = [workspace EXCEPT ![r] = c]
    /\ changes' = changes + 1
    /\ UNCHANGED <<resources, wave, following, produced, rebuilt>>

-----------------------------------------------------------------------------

(* Fault: a wave higher than one affected dependency, not than all. *)
WavesAboveOne(affected) ==
    LET level[r \in affected] ==
            LET deps == resources[r].deps \cap affected
            IN  IF deps = {} THEN 0 ELSE 1 + Min({level[d] : d \in deps})
    IN  level

(* plan's `levels': one more than the highest affected dependency. *)
Waves(affected) ==
    LET level[r \in affected] ==
            LET deps == resources[r].deps \cap affected
            IN  IF deps = {} THEN 0 ELSE 1 + Max({level[d] : d \in deps})
    IN  level

MakePlan(changed) ==
    /\ ~following
    /\ wave' = Waves(Affected(resources, workspace, changed))
    /\ following' = TRUE
    /\ UNCHANGED <<resources, workspace, produced, rebuilt, changes>>

(* The task's turn: the waves before its own are rebuilt. *)
Due(r) ==
    /\ following /\ r \in DOMAIN wave \ rebuilt
    /\ \A t \in DOMAIN wave : wave[t] < wave[r] => t \in rebuilt

(* A team refreshes the input, or builds it again from its dependencies. *)
Produce(r) ==
    /\ Due(r) /\ r \notin produced
    /\ \E c \in Bytes : workspace' = [workspace EXCEPT ![r] = c]
    /\ produced' = produced \cup {r}
    /\ UNCHANGED <<resources, wave, following, rebuilt, changes>>

(* ... and registers it, built from the same dependencies. *)
Rebuild(r) ==
    /\ Due(r) /\ r \in produced
    /\ MayRegister(r, resources[r].deps)
    /\ resources' = Registered(r, resources[r].deps)
    /\ rebuilt' = rebuilt \cup {r}
    /\ UNCHANGED <<workspace, wave, following, produced, changes>>

RebuildNext ==
    \/ \E r \in Tracked : RegisterFirst(r) \/ Edit(r) \/ Produce(r) \/ Rebuild(r)
    \/ \E changed \in SUBSET DOMAIN resources : MakePlan(changed)

RebuildSpec == RebuildInit /\ [][RebuildNext]_rebuildVars

-----------------------------------------------------------------------------

(* Nobody who follows the plan is turned away: whatever was produced in its *)
(* turn can be registered, whatever the teams of the same wave are doing    *)
(* (planning.py:71-81 against engine.py:134-146).                          *)
PlannedRebuildAccepted ==
    \A r \in produced \ rebuilt :
        Due(r) => /\ MayRegister(r, resources[r].deps)
                  /\ Valid(Registered(r, resources[r].deps))

(* The plan is sufficient: when its last wave is rebuilt nothing registered *)
(* is stale and nothing has drifted (planning.py:45-81).                   *)
FollowedPlanFreshens ==
    following /\ rebuilt = DOMAIN wave => Fresh(resources, workspace, DOMAIN resources)

(* A plan that is followed succeeds: step by step, and at the end.          *)
PlanSucceeds == PlannedRebuildAccepted /\ FollowedPlanFreshens
=============================================================================

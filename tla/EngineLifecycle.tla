-------------------------- MODULE EngineLifecycle ---------------------------
(***************************************************************************)
(* The engine implements ReleaseLifecycle: the mapping from the replayed   *)
(* ledger to the abstract state.                                           *)
(***************************************************************************)
EXTENDS EngineSafety

StageOf(n) ==
    IF n \notin DOMAIN candidates THEN "none"
    ELSE IF n \notin DOMAIN releases THEN "drafted"
    ELSE IF candidates[n] \in withdrawals THEN "withdrawn"
    ELSE "sealed"

CharterOf(c) == [author     |-> c.by,
                 roles      |-> c.policy.roles,
                 distinct   |-> c.policy.distinct,
                 forbidSelf |-> c.policy.forbidSelf]

AsEndorsement(a) == [name |-> a.candidate.name, role |-> a.role, by |-> a.by, id |-> a.id]

Lifecycle == INSTANCE ReleaseLifecycle WITH
    Name         <- CandidateName,
    Reviewer     <- Principal,
    Charter      <- [author: Principal, roles: {p.roles : p \in Policies},
                     distinct: BOOLEAN, forbidSelf: BOOLEAN],
    stage        <- [n \in CandidateName |-> StageOf(n)],
    charter      <- [n \in DOMAIN candidates |-> CharterOf(candidates[n])],
    endorsed     <- {AsEndorsement(a) : a \in approvals},
    retracted    <- {AsEndorsement(a) : a \in revokedApprovals},
    shipped      <- [d \in DOMAIN deliveries |-> deliveries[d].release],
    acknowledged <- deliveryReceipts

(* Every behaviour of the engine is, seen through this mapping, one of the *)
(* abstract lifecycle: a release is sealed only when covered by live       *)
(* independent endorsements, once, ships only while it is covered, and     *)
(* nothing follows a withdrawal.                                           *)
ImplementsLifecycle == Lifecycle!Spec
=============================================================================

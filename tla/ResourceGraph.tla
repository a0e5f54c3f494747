---------------------------- MODULE ResourceGraph ----------------------------
(***************************************************************************)
(* The resource graph of src/opentapeout/graph.py as pure operators.        *)
(*                                                                         *)
(* `res' is the "resources" section of the replayed state: a function from *)
(* the registered resource IDs to records                                  *)
(*   [sha  |-> content digest,                                             *)
(*    deps |-> set of resource IDs it declares (depends_on),               *)
(*    pins |-> the fingerprint each of them had at registration            *)
(*             (built_from)].                                              *)
(* A resource's kind and whether the workspace holds its bytes (a path, a  *)
(* captured tree or a Git worktree, as opposed to metadata only) are fixed *)
(* by its ID: they are inputs of the model, `Tracked' and the kind sets of *)
(* the modules that use this one.                                          *)
(*                                                                         *)
(* Digests are ideal: the digest of a value is the value.  The effective   *)
(* fingerprint, a Merkle digest of the record and of its dependencies'     *)
(* fingerprints, therefore is the subgraph below the resource; module      *)
(* GraphAlgorithms checks that reading against the recursive definition.   *)
(***************************************************************************)
EXTENDS FiniteSets

CONSTANTS Tracked   \* resource IDs whose bytes are in the workspace

-----------------------------------------------------------------------------

(* Every dependency is registered (ensure "Missing dependency"). *)
Grounded(res) == \A r \in DOMAIN res : res[r].deps \subseteq DOMAIN res

(* Every nonempty set of resources has a member that depends on none of    *)
(* them: what Kahn's ordering needs to take every resource.                *)
Acyclic(res) ==
    \A S \in SUBSET DOMAIN res : S # {} => {r \in S : res[r].deps \cap S = {}} # {}

(* Graph._build accepts the resources. *)
Valid(res) == Grounded(res) /\ Acyclic(res)

(* Graph.closure: the roots and everything they depend on. *)
Closure(res, roots) ==
    LET below[r \in DOMAIN res] == {r} \cup UNION {below[d] : d \in res[r].deps}
    IN  {k \in DOMAIN res : k \in roots \/ \E r \in roots : k \in below[r]}

(* Graph.fingerprints[r]. *)
Fingerprint(res, r) == [k \in Closure(res, {r}) |-> res[k]]

(* The map Graph.closure returns: the fingerprint of each selected key. *)
Snapshot(res, roots) == [k \in Closure(res, roots) |-> Fingerprint(res, k)]

(* Graph.stale[r] is nonempty: r, or something below it, was built against *)
(* another version of a dependency than the current one.                   *)
Stale(res, r) ==
    \E k \in Closure(res, {r}) :
        \E d \in res[k].deps : res[k].pins[d] # Fingerprint(res, d)

(* Graph.drift: the tracked keys whose workspace bytes are not the recorded *)
(* ones; a missing or unreadable file is a content no resource has.        *)
Drift(res, workspace, keys) ==
    {k \in keys \cap DOMAIN res \cap Tracked : workspace[k] # res[k].sha}

(* Fault: bytes are compared, derivations are not. *)
FreshBytes(res, workspace, keys) == Drift(res, workspace, keys) = {}

(* Graph.assert_fresh: nothing selected is stale, nothing has drifted. *)
Fresh(res, workspace, keys) ==
    /\ \A k \in keys : ~Stale(res, k)
    /\ Drift(res, workspace, keys) = {}

(* Graph.impact: what lies downstream of a resource. *)
Impact(res, key) == {k \in DOMAIN res \ {key} : key \in Closure(res, {k})}

(* The keys of planning.py:plan's `paths': what lies downstream of a        *)
(* change, assumed or seen on disk, and what is stale already.             *)
Affected(res, workspace, changed) ==
    LET roots == changed \cup Drift(res, workspace, DOMAIN res)
    IN  roots \cup {k \in DOMAIN res : Stale(res, k)}
              \cup UNION {Impact(res, r) : r \in roots}
=============================================================================

-------------------------- MODULE GraphAlgorithms --------------------------
(***************************************************************************)
(* The algorithms of graph.py and planning.py:affected_paths step by step, *)
(* on the resource graphs Engine.register can lead to: Kahn's ordering with *)
(* its digests and staleness reasons, the closure, and the search for the   *)
(* paths a change takes.  The other modules use the definitions of          *)
(* ResourceGraph; this one checks that the algorithms compute them.        *)
(*                                                                         *)
(* A digest is the term it was computed from: the record, with the digests *)
(* it pins, and the digests of its dependencies.                           *)
(***************************************************************************)
EXTENDS ResourceGraph, SequencesExt

CONSTANTS Resource, Content,
          MaxRegistrations   \* bound

GraphAssumption == IsFiniteSet(Resource) /\ MaxRegistrations \in Nat

VARIABLES
    built,     \* the accepted graph: [res, digests, stale]
    before,    \* history: the one accepted before it
    doing,     \* idle; building, closing, walking
    res,       \* Graph.resources of the graph being built
    order, indegree, digests, stale,   \* Graph.order, ...
    queue,     \* of each of the three algorithms
    start,     \* the roots of the closure or the walk
    selected,  \* Graph.closure's set
    paths,     \* key -> the path affected_paths explains it with
    registrations

building == <<res, order, indegree, digests, stale>>
graphsVars == <<built, before, doing, building, queue, start, selected, paths, registrations>>

Empty == [res |-> <<>>, digests |-> <<>>, stale |-> <<>>]

GraphsInit ==
    /\ built = Empty /\ before = Empty
    /\ doing = "idle"
    /\ res = <<>> /\ order = <<>> /\ indegree = <<>> /\ digests = <<>> /\ stale = <<>>
    /\ queue = <<>> /\ start = {} /\ selected = {} /\ paths = <<>>
    /\ registrations = 0

Children(graph, k) == {c \in DOMAIN graph : k \in graph[c].deps}

-----------------------------------------------------------------------------
(* Graph._build. *)

(* Engine.register: the pins are the digests of the graph there is, and the *)
(* graph with the new record is built.                                     *)
Register(r, sha, deps) ==
    LET record  == [sha |-> sha, deps |-> deps, pins |-> [d \in deps |-> built.digests[d]]]
        updated == [k \in DOMAIN built.res \cup {r} |-> IF k = r THEN record ELSE built.res[k]]
    IN  /\ doing = "idle" /\ registrations < MaxRegistrations
        /\ deps \subseteq DOMAIN built.res \ {r}
        /\ \A k \in Closure(built.res, deps) : ~built.stale[k]
        /\ doing' = "building"
        /\ res' = updated
        /\ order' = <<>> /\ digests' = <<>> /\ stale' = <<>>
        /\ indegree' = [k \in DOMAIN updated |-> Cardinality(updated[k].deps)]
        /\ queue' = SetToSeq({k \in DOMAIN updated : updated[k].deps = {}})
        /\ registrations' = registrations + 1
        /\ UNCHANGED <<built, before, start, selected, paths>>

(* The children whose last dependency was the key. *)
ReadyAfter(key) == {c \in Children(res, key) : indegree[c] = 1}

(* Fault: only the records of the dependencies are compared. *)
OutOfDateRecord(key, fresh) ==
    \E d \in res[key].deps : res[key].pins[d].record # fresh[d].record

(* The key has a reason to be stale: another version of a dependency, or a *)
(* stale dependency.                                                       *)
OutOfDate(key, fresh) ==
    \E d \in res[key].deps : res[key].pins[d] # fresh[d] \/ stale[d]

(* digest({"resource": ..., "dependency_fingerprints": ...}). *)
Digest(key, fresh) == [record |-> res[key], below |-> fresh]

(* One turn of the while loop. *)
TakeNext ==
    LET key   == Head(queue)
        fresh == [d \in res[key].deps |-> digests[d]]
        known == DOMAIN digests \cup {key}
    IN  /\ doing = "building" /\ queue # <<>>
        /\ order' = Append(order, key)
        /\ digests' = [k \in known |-> IF k = key THEN Digest(key, fresh) ELSE digests[k]]
        /\ stale' = [k \in known |-> IF k = key THEN OutOfDate(key, fresh) ELSE stale[k]]
        /\ indegree' = [k \in DOMAIN res |->
                          IF k \in Children(res, key) THEN indegree[k] - 1 ELSE indegree[k]]
        /\ queue' = Tail(queue) \o SetToSeq(ReadyAfter(key))
        /\ UNCHANGED <<built, before, doing, res, start, selected, paths, registrations>>

(* Every resource was taken, or "Dependency cycle detected". *)
AllTaken == Len(order) = Cardinality(DOMAIN res)

EndBuild ==
    /\ doing = "building" /\ queue = <<>>
    /\ IF AllTaken
         THEN /\ built' = [res |-> res, digests |-> digests, stale |-> stale]
              /\ before' = built
         ELSE UNCHANGED <<built, before>>
    /\ doing' = "idle"
    /\ UNCHANGED <<building, queue, start, selected, paths, registrations>>

-----------------------------------------------------------------------------
(* Graph.closure. *)

Close(roots) ==
    /\ doing = "idle" /\ doing' = "closing"
    /\ start' = roots /\ selected' = {} /\ queue' = SetToSeq(roots)
    /\ UNCHANGED <<built, before, building, paths, registrations>>

Select ==
    LET key == Last(queue)
    IN  /\ doing = "closing" /\ queue # <<>>
        /\ selected' = selected \cup {key}
        /\ queue' = Front(queue) \o
              (IF key \in selected THEN <<>> ELSE SetToSeq(built.res[key].deps))
        /\ UNCHANGED <<built, before, doing, building, start, paths, registrations>>

-----------------------------------------------------------------------------
(* affected_paths; Graph.impact is the walk from one root. *)

Walk(roots) ==
    /\ doing = "idle" /\ doing' = "walking"
    /\ start' = roots /\ paths' = [k \in roots |-> <<k>>] /\ queue' = SetToSeq(roots)
    /\ UNCHANGED <<built, before, building, selected, registrations>>

NewlyReached(parent) == Children(built.res, parent) \ DOMAIN paths

Explain ==
    LET parent == Head(queue)
        new    == NewlyReached(parent)
    IN  /\ doing = "walking" /\ queue # <<>>
        /\ paths' = [k \in DOMAIN paths \cup new |->
                        IF k \in new THEN Append(paths[parent], k) ELSE paths[k]]
        /\ queue' = Tail(queue) \o SetToSeq(new)
        /\ UNCHANGED <<built, before, doing, building, start, selected, registrations>>

EndRead ==
    /\ doing \in {"closing", "walking"} /\ queue = <<>>
    /\ doing' = "idle" /\ start' = {} /\ selected' = {} /\ paths' = <<>>
    /\ UNCHANGED <<built, before, building, queue, registrations>>

-----------------------------------------------------------------------------

GraphsNext ==
    \/ \E r \in Resource, sha \in Content, deps \in SUBSET Resource : Register(r, sha, deps)
    \/ TakeNext \/ EndBuild
    \/ \E roots \in SUBSET DOMAIN built.res : Close(roots) \/ Walk(roots)
    \/ Select \/ Explain \/ EndRead

(* Each algorithm runs to its end. *)
GraphsSpec ==
    /\ GraphsInit /\ [][GraphsNext]_graphsVars
    /\ WF_graphsVars(TakeNext) /\ WF_graphsVars(EndBuild)
    /\ WF_graphsVars(Select) /\ WF_graphsVars(Explain) /\ WF_graphsVars(EndRead)

-----------------------------------------------------------------------------

(* The ordering takes a resource after everything it depends on, so that    *)
(* its digests are there, and takes all of them exactly when the graph has  *)
(* no cycle: registering a resource again with other dependencies cannot    *)
(* close one (graph.py:33-51, engine.py:147).                              *)
OrderingDecides ==
    doing = "building" =>
        /\ \A i \in DOMAIN order : res[order[i]].deps \subseteq {order[j] : j \in 1..(i - 1)}
        /\ queue = <<>> => (AllTaken <=> Valid(res))

(* Two versions of a resource have the same digest exactly when everything  *)
(* below them is the same: what ResourceGraph takes a fingerprint for      *)
(* (graph.py:36-39).                                                       *)
DigestIsSubgraph ==
    \A k \in DOMAIN before.res \cap DOMAIN built.res :
        built.digests[k] = before.digests[k]
            <=> Fingerprint(built.res, k) = Fingerprint(before.res, k)

(* A resource is reported stale exactly when it, or something below it, was *)
(* built against another version than the current one (graph.py:40-46).    *)
StaleIsTransitive ==
    \A k \in DOMAIN built.res :
        built.stale[k] <=> \E j \in Closure(built.res, {k}) : \E d \in built.res[j].deps :
                              built.res[j].pins[d] # built.digests[d]

(* The closure is what lies below the roots, and the paths lead, by a       *)
(* shortest chain of dependencies from a root, to exactly what lies         *)
(* downstream of them (graph.py:54-76, planning.py:19-34).                 *)
SearchesExact ==
    queue = <<>> =>
        /\ doing = "closing" => selected = Closure(built.res, start)
        /\ doing = "walking" =>
              /\ DOMAIN paths = start \cup UNION {Impact(built.res, r) : r \in start}
              /\ \A k \in DOMAIN paths :
                    /\ paths[k][1] \in start /\ paths[k][Len(paths[k])] = k
                    /\ \A i \in 1..(Len(paths[k]) - 1) :
                          paths[k][i] \in built.res[paths[k][i + 1]].deps
                    /\ \A p \in built.res[k].deps \cap DOMAIN paths :
                          Len(paths[k]) <= Len(paths[p]) + 1

(* The loops compute what ResourceGraph defines, on every graph.           *)
ComputesTheGraph == OrderingDecides /\ DigestIsSubgraph /\ StaleIsTransitive /\ SearchesExact

(* Every build and every search ends, on a graph with a cycle too. *)
AlgorithmsEnd == []<>(doing = "idle")
=============================================================================

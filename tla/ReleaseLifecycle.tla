-------------------------- MODULE ReleaseLifecycle --------------------------
(***************************************************************************)
(* What OpenTapeout promises about a release, without evidence, files,     *)
(* keys or clocks: a candidate is drafted under a charter, reviewers       *)
(* endorse it and may retract, enough independent live endorsements let it *)
(* be sealed once and its layouts be shipped, and a withdrawal ends all    *)
(* that for good.  Module EngineLifecycle shows that the engine implements *)
(* it.                                                                     *)
(***************************************************************************)
EXTENDS RoleAssignment

CONSTANTS Name, Reviewer, DeliveryId,
          Charter   \* records [author, roles, distinct, forbidSelf]

VARIABLES stage,        \* name -> "none", "drafted", "sealed", "withdrawn"
          charter,      \* drafted name -> its charter
          endorsed,     \* endorsements given: records [name, role, by, id]
          retracted,    \* those of them taken back
          shipped,      \* delivery -> the name whose layouts it carries
          acknowledged  \* deliveries whose recipient has signed for them

lifecycle == <<stage, charter, endorsed, retracted, shipped, acknowledged>>

(* The live endorsements of a name fill every role of its charter, each by *)
(* a reviewer of its own if the charter says so, and none by its author    *)
(* if it forbids that.                                                     *)
Covered(n) ==
    LET live == {<<e.role, e.by>> : e \in {x \in endorsed \ retracted : x.name = n}}
        fit  == {o \in live : charter[n].forbidSelf => o[2] # charter[n].author}
    IN  Assignable(charter[n].roles, fit, charter[n].distinct)

Init ==
    /\ stage = [n \in Name |-> "none"]
    /\ charter = <<>>
    /\ endorsed = {} /\ retracted = {}
    /\ shipped = <<>> /\ acknowledged = {}

Draft(n) ==
    /\ stage[n] = "none"
    /\ stage' = [stage EXCEPT ![n] = "drafted"]
    /\ \E c \in Charter : charter' = [m \in DOMAIN charter \cup {n} |->
                                          IF m = n THEN c ELSE charter[m]]
    /\ UNCHANGED <<endorsed, retracted, shipped, acknowledged>>

(* Endorsing is open from the draft to the withdrawal, to the roles of the *)
(* charter.                                                                *)
Endorse(n) ==
    /\ stage[n] \in {"drafted", "sealed"}
    /\ \E e \in endorsed' \ endorsed :
          /\ endorsed' = endorsed \cup {e}
          /\ e.name = n
          /\ e.role \in charter[n].roles
          /\ e.by \in Reviewer
          /\ charter[n].forbidSelf => e.by # charter[n].author
    /\ UNCHANGED <<stage, charter, retracted, shipped, acknowledged>>

(* A retracted endorsement never counts again. *)
Retract ==
    /\ \E e \in endorsed \ retracted : retracted' = retracted \cup {e}
    /\ UNCHANGED <<stage, charter, endorsed, shipped, acknowledged>>

Seal(n) ==
    /\ stage[n] = "drafted"
    /\ Covered(n)
    /\ stage' = [stage EXCEPT ![n] = "sealed"]
    /\ UNCHANGED <<charter, endorsed, retracted, shipped, acknowledged>>

Withdraw(n) ==
    /\ stage[n] = "sealed"
    /\ stage' = [stage EXCEPT ![n] = "withdrawn"]
    /\ UNCHANGED <<charter, endorsed, retracted, shipped, acknowledged>>

(* Shipping needs the endorsements to be live still, not only at sealing. *)
Ship(n, d) ==
    /\ d \notin DOMAIN shipped
    /\ stage[n] = "sealed"
    /\ Covered(n)
    /\ shipped' = [e \in DOMAIN shipped \cup {d} |-> IF e = d THEN n ELSE shipped[e]]
    /\ UNCHANGED <<stage, charter, endorsed, retracted, acknowledged>>

Acknowledge(d) ==
    /\ stage[shipped[d]] = "sealed"
    /\ acknowledged' = acknowledged \cup {d}
    /\ UNCHANGED <<stage, charter, endorsed, retracted, shipped>>

Next ==
    \/ \E n \in Name : Draft(n) \/ Endorse(n) \/ Seal(n) \/ Withdraw(n)
    \/ Retract
    \/ \E n \in Name, d \in DeliveryId : Ship(n, d)
    \/ \E d \in DOMAIN shipped : Acknowledge(d)

Spec == Init /\ [][Next]_lifecycle
=============================================================================

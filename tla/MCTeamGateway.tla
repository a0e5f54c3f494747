--------------------------- MODULE MCTeamGateway ----------------------------
(***************************************************************************)
(* Instances of the gateway for TLC: ann writes candidates, bob and cay     *)
(* review.  Bob reviews and also administers releases.                     *)
(***************************************************************************)
EXTENDS TeamGateway, TLC

MCOwner  == ("ka" :> "ann") @@ ("kb" :> "bob")
MCHolder == [t \in Token |-> IF t = "ta" THEN "ann" ELSE "bob"]

MCPolicy == [roles |-> {"physical"}, forbidSelf |-> TRUE]
Active(roles) == [roles |-> roles, revoked |-> FALSE]
MCTrust  == ("ka" :> Active({"team", "physical"}))
              @@ ("kb" :> Active({"team", "physical", "release", "release-admin"}))
MCAccess == [m \in {"ann", "bob"} |-> {"read"} \cup Decision]

Event(type, about, k) == [type |-> type, about |-> about, key |-> k, at |-> 0]
Created  == Event("candidate.created", <<"rc1">>, "ka")
Approved == Event("approval.signed", <<"rc1", "physical">>, "kb")
Sealed   == Event("release.sealed", <<"rc1">>, "kb")

(* Retries: members race, repeat and lose their commands; the governance   *)
(* stands.                                                                 *)
ReGenesis == <<Created>>
ReFiles   == <<{MCPolicy}, {MCTrust}, {MCAccess}>>

(* Governance: the three files are replaced while a command is served.     *)
GoGenesis == <<Created>>
GoFiles   ==
    <<{MCPolicy, [MCPolicy EXCEPT !.forbidSelf = FALSE]},
      {MCTrust, [MCTrust EXCEPT !["kb"].revoked = TRUE]},
      {MCAccess, [MCAccess EXCEPT !["bob"] = {"read"}]}>>

(* Decisions: one worker, all four commands and local programs.            *)
DeGenesis == <<Created, Approved, Sealed>>
DeFiles   == <<{MCPolicy}, {MCTrust}, {MCAccess}>>
=============================================================================

------------------------------ MODULE MCEngine ------------------------------
(***************************************************************************)
(* Instances of the engine for TLC: a layout built from an RTL source, a   *)
(* tool and a corner that are metadata only, and three teams around them.  *)
(***************************************************************************)
EXTENDS EngineLifecycle, TLC

MCResource == {"rtl", "gds", "tool", "nominal"}
MCTracked  == {"rtl", "gds"}
MCKindOf   == ("rtl" :> "rtl") @@ ("gds" :> "layout")
                @@ ("tool" :> "tool") @@ ("nominal" :> "corner")
MCContent    == {"a", "b", "spec"}
MCFilesOf    == [c \in MCContent |-> {}]
MCDefinition == [r \in {"tool", "nominal"} |-> {"spec"}]
MCDepChoice  == [r \in MCResource |-> IF r = "gds" THEN {{"rtl"}} ELSE {{}}]
MCCheckInput == "LVS" :> {{"gds"}}

(* The workspace once its four resources have been registered. *)
Plain(sha) == [sha |-> sha, deps |-> {}, pins |-> <<>>]
MCInitResources ==
    LET sources == ("rtl" :> Plain("a")) @@ ("tool" :> Plain("spec"))
                      @@ ("nominal" :> Plain("spec"))
    IN  sources @@ ("gds" :> [sha |-> "a", deps |-> {"rtl"},
                              pins |-> [d \in {"rtl"} |-> Fingerprint(sources, d)]])

Pass    == [report |-> "clean", format |-> "json", exitOk |-> TRUE, exeIntact |-> TRUE,
            status |-> "pass", complete |-> TRUE, violations |-> {}, metric |-> 0]
Crashed == [report |-> NoReport, format |-> "json", exitOk |-> FALSE, exeIntact |-> TRUE,
            status |-> "unknown", complete |-> FALSE, violations |-> {}, metric |-> NoMetric]
Dirty   == [Pass EXCEPT !.report = "dirty", !.status = "fail", !.violations = {"short"}]

Requirement == [kind |-> "LVS", corner |-> "nominal", needs |-> {"layout"},
                maxAge |-> MaxClock + 1, least |-> NoMetric, pins |-> <<>>,
                tools |-> {"tool"}, formats |-> {"json"}, pinnedExe |-> FALSE]
BasePolicy  == [checks |-> {Requirement}, roles |-> {"physical"}, distinct |-> TRUE,
                forbidSelf |-> TRUE, approvalAge |-> MaxClock + 1, managed |-> TRUE,
                delivery |-> TRUE, git |-> FALSE, hashedPdk |-> FALSE]

(* Evidence: the workspace moves under two runs; one author, one reviewer. *)
EvOutcome  == {Pass, Crashed}
EvEdits    == ("rtl" :> {"a", "b"}) @@ ("gds" :> {})
EvPolicies == {BasePolicy}
EvRolesOf  == ("ann" :> {"author"}) @@ ("bob" :> {"physical", "release"})

(* Waivers: violations, expiring waivers and aging evidence.  The author   *)
(* owns one of the waivers and may review waivers too.  A waiver may have  *)
(* an attachment.                                                          *)
WvContent  == MCContent \cup {"note"}
WvFilesOf  == [c \in WvContent |-> {}]
WvAttachments == {{"note"}}
WvOutcome  == {Dirty}
WvPolicies == {[BasePolicy EXCEPT !.approvalAge = 1,
                                  !.checks = {[Requirement EXCEPT !.maxAge = 1]}]}
WvPolicy   == CHOOSE p \in WvPolicies : TRUE
WvRolesOf  == ("ann" :> {"waiver"}) @@ ("bob" :> {"physical", "waiver", "release"})

(* Policy v2: pinned digests, a second tool, imported runs, changed        *)
(* executables; the content "a" is that of a directory with one file.  One *)
(* engineer, who signs for what he made.                                   *)
PnResource == MCResource \cup {"tool2"}
PnKindOf   == MCKindOf @@ ("tool2" :> "tool")
PnContent  == MCContent \cup {"other", "leaf"}
PnFilesOf  == [c \in PnContent |-> IF c = "a" THEN {"leaf"} ELSE {}]
PnDefinition == ("tool" :> {"spec", "other"}) @@ ("tool2" :> {"other"})
                  @@ ("nominal" :> {"spec"})
PnDepChoice == [r \in PnResource |-> IF r = "gds" THEN {{"rtl"}} ELSE {{}}]
PnRolesOf   == "bob" :> {"physical"}
PnEdits     == ("rtl" :> {"b"}) @@ ("gds" :> {Absent})
PnOutcome   == {Pass, [Pass EXCEPT !.exeIntact = FALSE]}
PnPolicy    == [BasePolicy EXCEPT !.managed = FALSE, !.forbidSelf = FALSE, !.checks = {[Requirement EXCEPT
                  !.pins  = ("tool" :> "spec") @@ ("tool2" :> "other")
                              @@ ("nominal" :> "spec") @@ ("gds" :> "a") @@ ("rtl" :> "a"),
                  !.tools = {"tool", "tool2"}, !.pinnedExe = TRUE]}]
PnPolicies  == {PnPolicy}

(* Approvals: two roles, a reviewer who could fill both, an author who     *)
(* could fill one, a release signer who may revoke any approval.           *)
StillEdits == [r \in MCTracked |-> {}]
ApOutcome  == {Pass}
TwoRoles   == [BasePolicy EXCEPT !.roles = {"physical", "verification"}]
Lenient    == [TwoRoles EXCEPT !.distinct = FALSE, !.forbidSelf = FALSE]
ApPolicies == {TwoRoles, Lenient}
ApRolesOf  == ("ann" :> {"verification", "delivery-receiver"})
                @@ ("bob" :> {"physical", "verification"})
                @@ ("cat" :> {"verification", "release", "release-admin"})
=============================================================================

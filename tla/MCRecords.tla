----------------------------- MODULE MCRecords -----------------------------
(***************************************************************************)
(* The records of a project and those who rely on them, one at a time: the *)
(* ledger under its writers and its owner, status statements on their way, *)
(* and the trust file.  They share no variable, so a behaviour is of one   *)
(* of them, `part', and leaves the others where they start.                *)
(***************************************************************************)
EXTENDS Ledger, StatusFeed, TrustFile, TLC

VARIABLE part

vars == <<part, ledgerVars, statusVars, trustVars>>

(* A team command of two events and a run that names an object. *)
MCEventsOf == ("command" :> <<"approval", "command">>) @@ ("finish" :> <<"run">>)
MCRefsOf   == ("approval" :> {}) @@ ("command" :> {}) @@ ("run" :> {"report"})

(* A release with a spare approval for its one role, and one waiver. *)
MCRoleOf == ("a1" :> "physical") @@ ("a2" :> "physical")

(* Three commands, two of them for one key. *)
MCCommands == 1..3
MCKeyOf == [c \in MCCommands |-> IF c = 2 THEN "k2" ELSE "k1"]

Init ==
    /\ part \in {"ledger", "status", "trust"}
    /\ LedgerInit /\ StatusInit /\ TrustInit

LedgerStep == part = "ledger" /\ LedgerNext
                /\ UNCHANGED <<part, statusVars, trustVars>>
StatusStep == part = "status" /\ StatusNext
                /\ UNCHANGED <<part, ledgerVars, trustVars>>
TrustStep  == part = "trust" /\ TrustNext
                /\ UNCHANGED <<part, ledgerVars, statusVars>>

Next == LedgerStep \/ StatusStep \/ TrustStep

Spec == Init /\ [][Next]_vars
=============================================================================

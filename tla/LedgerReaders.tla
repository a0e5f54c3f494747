---------------------------- MODULE LedgerReaders ----------------------------
(***************************************************************************)
(* Readers that need several transactions for one answer, while the ledger *)
(* grows or is replaced by an older backup: the audit export and the       *)
(* candidate listing of the team API, page by page (team_web.py:101-140),  *)
(* and the summary page of the read-only view (web.py:17-37).              *)
(*                                                                         *)
(* Events are numbered as they are made and never made twice; the hash of  *)
(* an event in the ledger is the ledger up to it.                          *)
(***************************************************************************)
EXTENDS Naturals, Sequences, SequencesExt

CONSTANTS
    IsCandidate,  \* which events create a candidate
    PageSize,     \* the limits clients ask for
    MaxEvents, MaxRestores, MaxExports \* bounds

ASSUME ReadersAssumption ==
    /\ IsCandidate \subseteq Nat /\ PageSize \subseteq Nat \ {0} /\ PageSize # {}
    /\ {MaxEvents, MaxRestores, MaxExports} \subseteq Nat /\ MaxEvents > 0

VARIABLES
    ledger, made, restores,
    phase,    \* idle; auditing, audited; listing, listed; paging, shown; refused
    got,      \* the events of the export so far, those of earlier exports included
    after,    \* the cursor: [seq, hash] of the last event of the last page
    until,    \* [seq, hash] of the end the first page fixed; seq 0: none yet
    target,   \* history: the ledger when the export's, or the listing's, first page was made
    offset, names, \* the listing
    shown,    \* the ledger each part of the summary page is taken from
    exports

readersVars ==
    <<ledger, made, restores, phase, got, after, until, target, offset, names, shown, exports>>
world  == <<ledger, made, restores>>
export == <<got, after, until>>
list   == <<offset, names>>

Hash(n) == SubSeq(ledger, 1, n)
Start == [seq |-> 0, hash |-> <<>>]

ReadersInit ==
    /\ ledger = <<1>> /\ made = 1 /\ restores = 0
    /\ phase = "idle"
    /\ got = <<>> /\ after = Start /\ until = Start /\ target = <<>>
    /\ offset = 0 /\ names = <<>>
    /\ shown = <<>>
    /\ exports = 0

-----------------------------------------------------------------------------

(* The audit of a member begins where the last one ended, or at genesis.   *)
BeginAudit ==
    /\ phase \in {"idle", "audited"} /\ exports < MaxExports
    /\ phase' = "auditing"
    /\ exports' = exports + 1
    /\ until' = Start /\ target' = <<>>
    /\ UNCHANGED <<world, got, after, list, shown>>

(* The end of the export: fixed by its first page. *)
End == IF until.seq = 0 THEN Len(ledger) ELSE until.seq

(* Fault: the cursor is an offset. *)
CursorInRange == after.seq <= End /\ End <= Len(ledger)

(* "Audit cursor out of range", "Audit cursor hash mismatch", "Audit end   *)
(* hash mismatch".                                                         *)
CursorValid ==
    /\ after.seq <= End /\ End <= Len(ledger)
    /\ after.seq # 0 => Hash(after.seq) = after.hash
    /\ until.seq # 0 => Hash(until.seq) = until.hash

AtMost(m, n) == IF m < n THEN m ELSE n

(* Fault: the last page stops short of the end. *)
PageEndShort(limit) == AtMost(End - 1, after.seq + limit)

PageEnd(limit) == AtMost(End, after.seq + limit)

AuditPage(limit) ==
    /\ phase = "auditing"
    /\ IF ~CursorValid
         THEN phase' = "refused" /\ UNCHANGED <<export, target>>
         ELSE /\ got' = got \o SubSeq(ledger, after.seq + 1, PageEnd(limit))
              /\ after' = [seq |-> PageEnd(limit), hash |-> Hash(PageEnd(limit))]
              /\ until' = [seq |-> End, hash |-> Hash(End)]
              /\ target' = IF until.seq = 0 THEN ledger ELSE target
              /\ phase' = IF PageEnd(limit) = End THEN "audited" ELSE phase
    /\ UNCHANGED <<world, list, shown, exports>>

(* The listing pages through the candidates in the order of their creation, *)
(* as state_from adds them.                                                *)
Candidates(log) ==
    LET upTo[n \in 0..Len(log)] ==
            IF n = 0 THEN <<>>
            ELSE IF log[n] \in IsCandidate THEN Append(upTo[n - 1], log[n]) ELSE upTo[n - 1]
    IN  upTo[Len(log)]

BeginListing ==
    /\ phase = "idle"
    /\ phase' = "listing"
    /\ target' = ledger
    /\ UNCHANGED <<world, export, list, shown, exports>>

NextOffset(limit) == offset + limit

ListingPage(limit) ==
    LET entries == Candidates(ledger)
    IN  /\ phase = "listing"
        /\ names' = names \o SubSeq(entries, offset + 1, AtMost(Len(entries), offset + limit))
        /\ IF offset + limit < Len(entries)
             THEN offset' = NextOffset(limit) /\ UNCHANGED phase
             ELSE phase' = "listed" /\ UNCHANGED offset
        /\ UNCHANGED <<world, export, target, shown, exports>>

(* summary: the state, then the gate of each candidate it lists, then the  *)
(* checkpoint, each in a transaction of its own; a candidate that is gone  *)
(* raises.                                                                 *)
PageState ==
    /\ phase = "idle"
    /\ phase' = "paging"
    /\ shown' = <<ledger>>
    /\ UNCHANGED <<world, export, target, list, exports>>

PageGate ==
    /\ phase = "paging" /\ Len(shown) <= Len(Candidates(shown[1]))
    /\ IF Candidates(shown[1])[Len(shown)] \in Range(ledger)
         THEN shown' = Append(shown, ledger) /\ UNCHANGED phase
         ELSE phase' = "refused" /\ UNCHANGED shown
    /\ UNCHANGED <<world, export, target, list, exports>>

PageCheckpoint ==
    /\ phase = "paging" /\ Len(shown) > Len(Candidates(shown[1]))
    /\ phase' = "shown"
    /\ shown' = Append(shown, ledger)
    /\ UNCHANGED <<world, export, target, list, exports>>

Again ==
    /\ phase \in {"listed", "shown", "refused"}
    /\ phase' = "idle"
    /\ got' = <<>> /\ after' = Start /\ until' = Start /\ target' = <<>>
    /\ offset' = 0 /\ names' = <<>> /\ shown' = <<>>
    /\ UNCHANGED <<world, exports>>

-----------------------------------------------------------------------------

Grow ==
    /\ made < MaxEvents
    /\ made' = made + 1
    /\ ledger' = Append(ledger, made + 1)
    /\ UNCHANGED <<restores, phase, export, target, list, shown, exports>>

(* The ledger file is replaced by an older copy of itself. *)
Restore ==
    /\ restores < MaxRestores
    /\ restores' = restores + 1
    /\ \E n \in 1..(Len(ledger) - 1) : ledger' = SubSeq(ledger, 1, n)
    /\ UNCHANGED <<made, phase, export, target, list, shown, exports>>

ReadersNext ==
    \/ BeginAudit \/ BeginListing \/ PageState \/ PageGate \/ PageCheckpoint \/ Again
    \/ \E n \in PageSize : AuditPage(n) \/ ListingPage(n)
    \/ Grow \/ Restore

ReadersSpec ==
    ReadersInit /\ [][ReadersNext]_readersVars /\ WF_readersVars(\E n \in PageSize : AuditPage(n))

-----------------------------------------------------------------------------

(* A completed audit export is the ledger as it was when its first page    *)
(* was served, without gap or overlap at the joints, also when it resumes  *)
(* an earlier export and when a backup was restored between two pages: two *)
(* histories are never spliced (team_web.py:128-140).                      *)
AuditIsOneHistory == phase = "audited" => got = target

(* A member's export ends although events keep coming: the first page      *)
(* fixed its end.                                                          *)
AuditEnds == phase = "auditing" ~> phase # "auditing"

(* A finished listing names every candidate of its first page's ledger     *)
(* once, though candidates are created between its pages.                  *)
ListingComplete ==
    phase = "listed" /\ restores = 0 =>
        /\ IsInjective(names)
        /\ Range(Candidates(target)) \subseteq Range(names)

(* The parts of a summary page are one history, read in order, however the *)
(* ledger grows between them: a candidate is judged by a gate no older     *)
(* than the page that lists it, and all that the page shows lies below the *)
(* checkpoint it shows (web.py:18-33).                                     *)
PageBelowCheckpoint ==
    phase = "shown" /\ restores = 0 =>
        \A i \in 1..(Len(shown) - 1) : IsPrefix(shown[i], shown[i + 1])

(* Every answer put together from several transactions is of one history.  *)
ReadsOneHistory == AuditIsOneHistory /\ ListingComplete /\ PageBelowCheckpoint
=============================================================================

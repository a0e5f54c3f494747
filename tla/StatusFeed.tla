----------------------------- MODULE StatusFeed -----------------------------
(***************************************************************************)
(* Signed status statements: a publisher exports what its ledger revoked   *)
(* and withdrew (lifecycle.py:63-77), the statements travel any way people *)
(* carry files, and recipients check a sealed release against one of them  *)
(* (lifecycle.py:80-112, bundle.py:103-140) at a time and in an order of   *)
(* their own.  A recipient may retain the highest sequence it verified.    *)
(*                                                                         *)
(* The release rests on Item: its candidate (withdrawn or not), its        *)
(* waivers and its approvals; an approval that is revoked is dropped, and  *)
(* the release stands while every role keeps one.                          *)
(***************************************************************************)
EXTENDS Naturals, FiniteSets

CONSTANTS
    Recipient,
    Candidate, Waiver, Approval, \* what the release rests on, in disjoint sets
    RoleOf,                      \* approval -> its role
    MaxHours,                    \* MAX_STATUS_HOURS, in ticks of the clock
    NoStatement,
    MaxClock, MaxSeq, MaxStatements \* bounds

Item == Candidate \cup Waiver \cup Approval
Role == {RoleOf[a] : a \in Approval}

ASSUME FeedAssumption ==
    /\ Candidate \cap Waiver = {} /\ Candidate \cap Approval = {} /\ Waiver \cap Approval = {}
    /\ RoleOf \in [Approval -> Role]
    /\ MaxHours \in Nat \ {0} /\ {MaxClock, MaxSeq, MaxStatements} \subseteq Nat

VARIABLES
    clock,
    seq,       \* the length of the publisher's ledger
    revoked,   \* item -> the sequence of its revocation; 0: it stands
    since,     \* item -> the time of its revocation
    export,    \* the snapshot an export has read and not signed, or NoStatement
    sent,      \* the statements that exist; copies are read any number of times
    minimum,   \* recipient -> the sequence it retains
    accepted   \* recipient -> what it accepted last

statusVars == <<clock, seq, revoked, since, export, sent, minimum, accepted>>

(* Everything revoked by now, as the ledger's replay gives it. *)
RevokedNow == {i \in Item : revoked[i] # 0}

StatusInit ==
    /\ clock = 0 /\ seq = 1
    /\ revoked = [i \in Item |-> 0] /\ since = [i \in Item |-> 0]
    /\ export = NoStatement /\ sent = {}
    /\ minimum = [r \in Recipient |-> 0]
    /\ accepted = [r \in Recipient |-> NoStatement]

(* revoke_approval, revoke_waiver, withdraw_release. *)
Revoke(i) ==
    /\ revoked[i] = 0 /\ seq < MaxSeq
    /\ seq' = seq + 1
    /\ revoked' = [revoked EXCEPT ![i] = seq + 1]
    /\ since' = [since EXCEPT ![i] = clock]
    /\ UNCHANGED <<clock, export, sent, minimum, accepted>>

(* Any other event of the ledger. *)
OtherEvent ==
    /\ seq < MaxSeq
    /\ seq' = seq + 1
    /\ UNCHANGED <<clock, revoked, since, export, sent, minimum, accepted>>

(* export_status reads the ledger; `read' is history ... *)
ReadState ==
    /\ export = NoStatement
    /\ export' = [seq |-> seq, revoked |-> RevokedNow, read |-> clock]
    /\ UNCHANGED <<clock, seq, revoked, since, sent, minimum, accepted>>

(* ... and signs it with the time it has then; others may have written,    *)
(* however long the replay of the ledger took.                             *)
SignStatus(hours) ==
    /\ export # NoStatement /\ Cardinality(sent) < MaxStatements
    /\ sent' = sent \cup {[seq |-> export.seq, revoked |-> export.revoked, read |-> export.read,
                           created |-> clock, expires |-> clock + hours]}
    /\ export' = NoStatement
    /\ UNCHANGED <<clock, seq, revoked, since, minimum, accepted>>

(* verify_status: in time, of a validity the format allows, not older than *)
(* the retained sequence.                                                  *)
Timely(s) == s.created <= clock /\ clock < s.expires /\ s.expires - s.created <= MaxHours

(* Fault: the retained sequence is not compared. *)
VerifyStatusAnySequence(s, least) == Timely(s) /\ s.seq >= 1

VerifyStatus(s, least) == Timely(s) /\ s.seq >= (IF least = 0 THEN 1 ELSE least)

(* check_candidate_status, and the historical gate over what is left. *)
Stands(s) ==
    /\ Candidate \cap s.revoked = {} /\ Waiver \cap s.revoked = {}
    /\ Role \subseteq {RoleOf[a] : a \in Approval \ s.revoked}

(* verify_bundle with a status statement; whoever wants protection against *)
(* replay retains the sequence of what was verified.                       *)
VerifyBundle(r, s) ==
    /\ VerifyStatus(s, minimum[r])
    /\ minimum' \in {minimum, [minimum EXCEPT ![r] = s.seq]}
    /\ accepted' = [accepted EXCEPT ![r] =
          IF Stands(s) THEN [seq |-> s.seq, least |-> minimum[r], at |-> clock,
                             lag |-> s.created - s.read]
                       ELSE NoStatement]
    /\ UNCHANGED <<clock, seq, revoked, since, export, sent>>

(* verify_bundle without one: only with no retained sequence. *)
VerifyAlone(r) ==
    /\ minimum[r] = 0
    /\ accepted' = [accepted EXCEPT ![r] =
          [seq |-> 0, least |-> 0, at |-> clock, lag |-> 0]]
    /\ UNCHANGED <<clock, seq, revoked, since, export, sent, minimum>>

Tick ==
    /\ clock < MaxClock
    /\ clock' = clock + 1
    /\ UNCHANGED <<seq, revoked, since, export, sent, minimum, accepted>>

StatusNext ==
    \/ \E i \in Item : Revoke(i)
    \/ OtherEvent \/ ReadState \/ Tick
    \/ \E hours \in 1..MaxHours : SignStatus(hours)
    \/ \E r \in Recipient : VerifyAlone(r) \/ \E s \in sent : VerifyBundle(r, s)

StatusSpec == StatusInit /\ [][StatusNext]_statusVars

-----------------------------------------------------------------------------

(* The release as the ledger now has it would not stand without the items  *)
(* that meet the condition.                                                *)
FallsBy(items) ==
    \/ (Candidate \cup Waiver) \cap items # {}
    \/ ~(Role \subseteq {RoleOf[a] : a \in Approval \ items})

(* A recipient that retains the sequence it verified never accepts the     *)
(* release again on an older statement, or on none: whatever the ledger    *)
(* had revoked up to the retained sequence counts, in whichever order the  *)
(* statements arrive (lifecycle.py:91-95, bundle.py:106).                  *)
RetainedSequenceBinds ==
    \A r \in Recipient :
        accepted[r] # NoStatement =>
            ~FallsBy({i \in Item : revoked[i] # 0 /\ revoked[i] <= accepted[r].least})

(* A revocation reaches everyone who asks for a status, within the longest *)
(* validity of a statement and the time its export took: what is accepted  *)
(* later does not rest on it.  The time an export takes is not bounded, and *)
(* the statement is dated when it ends (lifecycle.py:64-69,88-89).         *)
RevocationReaches ==
    \A r \in Recipient :
        accepted[r] # NoStatement /\ accepted[r].seq # 0 =>
            ~FallsBy({i \in Item : revoked[i] # 0
                          /\ since[i] + MaxHours + accepted[r].lag <= accepted[r].at})

(* Every revocation counts: at once for whoever retained its sequence, and  *)
(* for everybody once the statements made before it are over.              *)
RevocationsCount == RetainedSequenceBinds /\ RevocationReaches
=============================================================================

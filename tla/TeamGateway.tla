---------------------------- MODULE TeamGateway -----------------------------
(***************************************************************************)
(* The team gateway: signed commands that members send over HTTP and the   *)
(* server executes on the ledger (team.py).                                *)
(*                                                                         *)
(* A worker is a thread that serves one request at a time.  The tokens,    *)
(* the three governance files and the clock change between any two of its  *)
(* steps; the ledger changes only in the hands of whoever holds the write  *)
(* lock.  The gateway's part of a decision is modelled in full; the        *)
(* evidence behind it is module Engine's subject, and here the gate on it  *)
(* gives any verdict.                                                      *)
(*                                                                         *)
(* An event of a decision is a record [type, about, key, at], and so is    *)
(* the signed statement that asks for it; about is                         *)
(*   <<candidate>>               candidate.created, release.withdrawn and  *)
(*                               release.sealed                            *)
(*   <<candidate, role>>         approval.signed                           *)
(*   the digest of the approval  approval.revoked                          *)
(* The event of an executed command is [type, command].                    *)
(*                                                                         *)
(* The governance files are <<policy, trust, access>>:                     *)
(*   policy  [roles, forbidSelf]                                           *)
(*   trust   enrolled key -> [roles, revoked]                              *)
(*   access  member -> permissions, the decisions it may command           *)
(* A checkpoint is the length of the ledger: the hash that goes with it    *)
(* names the events up to there, and the ledger only grows.                *)
(***************************************************************************)
EXTENDS Naturals, Sequences, FiniteSets

CONSTANTS
    Worker,     \* the threads of the server
    Key,        \* signing keys
    Owner,      \* key -> the principal it is enrolled for
    Token,      \* access tokens
    Holder,     \* token -> the principal of its subject
    WriteScope, \* the tokens with scope opentapeout:write
    Request,    \* request IDs
    Candidate, Role,
    Genesis,    \* the ledger when the gateway starts
    Files,      \* <<policies, trust stores, access files>> the operator may install
    Validity,   \* MAX_VALIDITY, in ticks of the clock
    Commanded,  \* the decisions members ask for in this instance
    Local,      \* the events local programs write in this instance
    NoOne,      \* the write lock is free
    None,       \* no context, no command
    MaxClock, MaxCommands, MaxEvents \* bounds

Decision == {"candidate.created", "approval.signed", "approval.revoked", "release.withdrawn"}

Policy(governance) == governance[1]
Trust(governance)  == governance[2]
Access(governance) == governance[3]

(* digest of a signed approval. *)
Digest(e) == e.about \o <<e.key, e.at>>

(* What an event settles: approvals differ by their digest, commands by    *)
(* their request ID.                                                       *)
Matter(e) ==
    CASE e.type = "team.command"    -> <<e.type, e.command.request>>
      [] e.type = "approval.signed" -> <<e.type, Digest(e)>>
      [] OTHER                      -> <<e.type, e.about>>

NothingTwiceIn(log) == \A i, j \in DOMAIN log : Matter(log[i]) = Matter(log[j]) => i = j

ASSUME GatewayAssumption ==
    /\ Owner \in [Key -> {Owner[k] : k \in Key}] /\ WriteScope \subseteq Token
    /\ NoOne \notin Worker
    /\ Commanded \subseteq Decision
    /\ Local \subseteq Decision \cup {"release.sealed"}
    /\ Validity \in Nat \ {0}
    /\ MaxClock \in Nat /\ MaxCommands \in Nat /\ MaxEvents \in Nat
    /\ Genesis \in Seq({Genesis[i] : i \in DOMAIN Genesis})
    /\ \A i \in DOMAIN Genesis : /\ Genesis[i].type \in Decision \cup {"release.sealed"}
                               /\ Genesis[i].key \in Key /\ Genesis[i].at = 0
    /\ NothingTwiceIn(Genesis)

VARIABLES
    ledger,   \* the committed events
    local,    \* history: the positions in it that the gateway did not write
    lock,     \* the holder of SQLite's write lock
    files,    \* the governance files
    live,     \* the tokens that are not expired and whose key is in the JWKS
    clock,
    context,  \* token -> the context its member fetched last
    commands, \* the commands that have been signed
    replies,  \* history: <<command, answer>> for the answers a member relies on
    pc,       \* worker -> where its request is
    token,    \* worker -> the token of its request
    command,  \* worker -> the command of its request
    reads,    \* worker -> the governance files it has read so far
    held      \* history: what was in force at some time since the open
              \*   transaction applied its command: the contents of each file,
              \*   and whether the caller's token was live

vars == <<ledger, local, lock, files, live, clock, context, commands, replies,
          pc, token, command, reads, held>>

Unheld == [files |-> <<{}, {}, {}>>, live |-> FALSE]

Init ==
    /\ ledger = Genesis /\ lock = NoOne /\ clock = 0
    /\ local = DOMAIN Genesis
    /\ files \in Files[1] \X Files[2] \X Files[3]
    /\ live = Token
    /\ context = [t \in Token |-> None]
    /\ commands = {} /\ replies = {}
    /\ pc = [w \in Worker |-> "idle"]
    /\ token = [w \in Worker |-> None]
    /\ command = [w \in Worker |-> None]
    /\ reads = [w \in Worker |-> <<>>]
    /\ held = Unheld

-----------------------------------------------------------------------------
(* state_from, as far as the gateway looks at it. *)

EventsOf(type)  == {ledger[i] : i \in {j \in DOMAIN ledger : ledger[j].type = type}}
Settled(type)   == {e.about : e \in EventsOf(type)}
Approvals       == EventsOf("approval.signed")
ApprovalWith(d) == CHOOSE a \in Approvals : Digest(a) = d
AuthorOf(c)     == Owner[(CHOOSE e \in EventsOf("candidate.created") : e.about = <<c>>).key]

(* team_commands, by request ID. *)
Executed(r) == {e.command : e \in {x \in EventsOf("team.command") : x.command.request = r}}

(* Trust.verify, for a genuine signature. *)
Enrolled(trust, k, role) ==
    k \in DOMAIN trust /\ ~trust[k].revoked /\ role \in trust[k].roles

MayRead(t, access) == Holder[t] \in DOMAIN access /\ "read" \in access[Holder[t]]

(* Project.member, for a command. *)
MayCommand(t, access, decision) ==
    MayRead(t, access) /\ decision \in access[Holder[t]] /\ t \in WriteScope

Within(c) == c.created <= clock /\ clock < c.created + Validity

(* The statement was signed for this command, or shortly before. *)
Recent(c) == c.statement.at <= c.created /\ c.created <= c.statement.at + Validity

(* Fault: an approval counts as submitted only until it is revoked. *)
NewApprovalAmongActive(s) ==
    Digest(s) \notin {Digest(a) : a \in Approvals} \ Settled("approval.revoked")

NewApproval(s) == Digest(s) \notin {Digest(a) : a \in Approvals}

(* What _apply asks of each kind of statement, the evidence gate excepted. *)
CreateAllowed(s) == s.about \notin Settled("candidate.created")

ApproveAllowed(s, governance) ==
    LET candidate == s.about[1]
        role      == s.about[2]
    IN  /\ role \in Policy(governance).roles
        /\ Enrolled(Trust(governance), s.key, role)
        /\ <<candidate>> \in Settled("candidate.created") \ Settled("release.withdrawn")
        /\ Policy(governance).forbidSelf => Owner[s.key] # AuthorOf(candidate)
        /\ NewApproval(s)

RevokeAllowed(s, governance) ==
    LET trust    == Trust(governance)
        approval == ApprovalWith(s.about)
        admin    == s.key \in DOMAIN trust /\ "release-admin" \in trust[s.key].roles
    IN  /\ s.about \in {Digest(a) : a \in Approvals} \ Settled("approval.revoked")
        /\ approval.key \in DOMAIN trust
        /\ IF admin THEN Enrolled(trust, s.key, "release-admin")
                    ELSE /\ Enrolled(trust, s.key, approval.about[2])
                         /\ Owner[s.key] = Owner[approval.key]

WithdrawAllowed(s, governance) ==
    /\ s.about \in Settled("release.sealed") \ Settled("release.withdrawn")
    /\ Enrolled(Trust(governance), s.key, "release")

Allowed(s, governance) ==
    CASE s.type = "candidate.created" -> CreateAllowed(s)
      [] s.type = "approval.signed"   -> ApproveAllowed(s, governance)
      [] s.type = "approval.revoked"  -> RevokeAllowed(s, governance)
      [] s.type = "release.withdrawn" -> WithdrawAllowed(s, governance)

-----------------------------------------------------------------------------
(* The members. *)

(* GET /context: the token, then the files, and the ledger at the end. *)
AskContext(w, t) ==
    /\ pc[w] = "idle" /\ t \in live
    /\ pc' = [pc EXCEPT ![w] = "context"]
    /\ token' = [token EXCEPT ![w] = t]
    /\ UNCHANGED <<ledger, local, lock, files, live, clock, context, commands, replies, command, reads, held>>

(* The request is over: the worker is free and the transaction closed. *)
End(w) ==
    /\ lock' = IF lock = w THEN NoOne ELSE lock
    /\ pc' = [pc EXCEPT ![w] = "idle"]
    /\ token' = [token EXCEPT ![w] = None]
    /\ command' = [command EXCEPT ![w] = None]
    /\ reads' = [reads EXCEPT ![w] = <<>>]
    /\ held' = IF lock = w THEN Unheld ELSE held

GiveContext(w) ==
    /\ pc[w] = "context" /\ Len(reads[w]) = 3
    /\ context' = IF MayRead(token[w], Access(reads[w]))
                    THEN [context EXCEPT ![token[w]] =
                            [checkpoint |-> Len(ledger), governance |-> reads[w]]]
                    ELSE context
    /\ End(w)
    /\ UNCHANGED <<ledger, local, files, live, clock, commands, replies>>

(* What a member can ask for about the events it has seen. *)
Abouts(type) ==
    CASE type = "approval.signed"  -> {<<c, role>> : c \in Candidate, role \in Role}
      [] type = "approval.revoked" -> {Digest(a) : a \in Approvals}
      [] OTHER                     -> {<<c>> : c \in Candidate}

(* make_command: a member signs, with any key it holds, a command on the   *)
(* context it holds.  The statement may be older, and another's.           *)
Sign(t) ==
    \E r \in Request, k \in Key, type \in Commanded :
      \E about \in Abouts(type), signer \in Key, at \in 0 .. clock :
        /\ Cardinality(commands) < MaxCommands
        /\ context[t] # None /\ Owner[k] = Holder[t]
        /\ type = "candidate.created" => signer = k /\ at = clock
        /\ commands' = commands \cup
             {[request |-> r, key |-> k, created |-> clock,
               statement |-> [type |-> type, about |-> about, key |-> signer, at |-> at],
               checkpoint |-> context[t].checkpoint, governance |-> context[t].governance]}
        /\ UNCHANGED <<ledger, local, lock, files, live, clock, context, replies,
                       pc, token, command, reads, held>>

(* POST /commands, the first time or again, by whoever has the command: the *)
(* token is verified and the project visible before the body is read.      *)
Submit(w, t, c) ==
    /\ pc[w] = "idle" /\ t \in live /\ MayRead(t, Access(files))
    /\ pc' = [pc EXCEPT ![w] = "queued"]
    /\ token' = [token EXCEPT ![w] = t]
    /\ command' = [command EXCEPT ![w] = c]
    /\ UNCHANGED <<ledger, local, lock, files, live, clock, context, commands, replies, reads, held>>

-----------------------------------------------------------------------------
(* Gateway.execute *)

Goto(w, step) == pc' = [pc EXCEPT ![w] = step]

(* An exception: the transaction is rolled back and nothing remembered. *)
Refuse(w) ==
    /\ End(w)
    /\ UNCHANGED <<ledger, local, files, live, clock, context, commands, replies>>

(* The busy timeout passes while somebody else holds the lock: 503. *)
Busy(w) == pc[w] = "queued" /\ lock # NoOne /\ Refuse(w)

(* BEGIN IMMEDIATE, and the token once more. *)
Begin(w) ==
    /\ pc[w] = "queued" /\ lock = NoOne
    /\ IF token[w] \in live
         THEN /\ lock' = w /\ Goto(w, "authorise")
              /\ UNCHANGED <<ledger, local, files, live, clock, context, commands, replies,
                             token, command, reads, held>>
         ELSE Refuse(w)

(* Project.governance reads the policy, the trust store and the access     *)
(* file one after the other.                                               *)
Read(w) ==
    /\ pc[w] \in {"context", "authorise", "recheck"} /\ Len(reads[w]) < 3
    /\ reads' = [reads EXCEPT ![w] = Append(@, files[Len(@) + 1])]
    /\ UNCHANGED <<ledger, local, lock, files, live, clock, context, commands, replies,
                   pc, token, command, held>>

(* The command is the caller's, permitted, and in its validity window. *)
Authorised(w) ==
    LET c == command[w]
    IN  /\ Enrolled(Trust(reads[w]), c.key, "team")
        /\ MayCommand(token[w], Access(reads[w]), c.statement.type)
        /\ Owner[c.key] = Holder[token[w]]
        /\ Within(c)

(* Fault: the checkpoint is compared before the request ID is looked up. *)
VerdictStaleFirst(w) ==
    LET c == command[w]
    IN  IF ~Authorised(w)                     THEN "refuse"
        ELSE IF c.checkpoint # Len(ledger)    THEN "stale"
        ELSE IF Executed(c.request) = {c}     THEN "done"
        ELSE IF Executed(c.request) # {}
                  \/ c.governance # reads[w]  THEN "refuse"
        ELSE "apply"

(* Fault: the checkpoint is not compared. *)
VerdictUnpinned(w) ==
    LET c == command[w]
    IN  IF ~Authorised(w)                     THEN "refuse"
        ELSE IF Executed(c.request) = {c}     THEN "done"
        ELSE IF Executed(c.request) # {}
                  \/ c.governance # reads[w]  THEN "refuse"
        ELSE "apply"

(* The request ID is known with this very command, or with another one;    *)
(* the ledger has moved on; the governance has changed; or none of these.  *)
Verdict(w) ==
    LET c == command[w]
    IN  IF ~Authorised(w)                     THEN "refuse"
        ELSE IF Executed(c.request) = {c}     THEN "done"
        ELSE IF Executed(c.request) # {}      THEN "refuse"
        ELSE IF c.checkpoint # Len(ledger)    THEN "stale"
        ELSE IF c.governance # reads[w]       THEN "refuse"
        ELSE "apply"

Answer(w, answer) ==
    /\ End(w)
    /\ replies' = replies \cup {<<command[w], answer>>}
    /\ UNCHANGED <<ledger, local, files, live, clock, context, commands>>

Decide(w) ==
    /\ pc[w] = "authorise" /\ Len(reads[w]) = 3
    /\ \/ Verdict(w) = "refuse" /\ Refuse(w)
       \/ Verdict(w) \in {"done", "stale"} /\ Answer(w, Verdict(w))
       \/ /\ Verdict(w) = "apply"
          /\ Goto(w, "apply")
          /\ UNCHANGED <<ledger, local, lock, files, live, clock, context, commands, replies,
                         token, command, reads, held>>

Applicable(w) ==
    LET c == command[w]
    IN  /\ c.statement.key = c.key /\ Recent(c)
        /\ Allowed(c.statement, reads[w])

(* _apply: the decision is written, uncommitted.                           *)
Apply(w) ==
    /\ pc[w] = "apply" /\ Applicable(w)
    /\ Goto(w, "verify")
    /\ held' = [files |-> <<{files[1]}, {files[2]}, {files[3]}>>, live |-> token[w] \in live]
    /\ UNCHANGED <<ledger, local, lock, files, live, clock, context, commands, replies,
                   token, command, reads>>

(* Fault: a statement that is not allowed is waited for, under the lock. *)
ApplyWaits(w) ==
    /\ pc[w] = "apply" /\ Applicable(w)
    /\ command[w].statement.type \in {"candidate.created", "approval.signed"}
    /\ Refuse(w)

(* Not allowed; or the evidence behind a candidate or an approval, judged   *)
(* afresh and at length, is not good enough.                               *)
ApplyFails(w) ==
    /\ pc[w] = "apply"
    /\ ~Applicable(w) \/ command[w].statement.type \in {"candidate.created", "approval.signed"}
    /\ Refuse(w)

(* Fault: the token is verified again, but the files are not read again. *)
VerifyTokenOnly(w) ==
    /\ pc[w] = "verify"
    /\ IF token[w] \in live
         THEN /\ Goto(w, "recheck")
              /\ UNCHANGED <<ledger, local, lock, files, live, clock, context, commands, replies,
                             token, command, reads, held>>
         ELSE Refuse(w)

(* The caller's token, after the evidence gate; the files are read again. *)
VerifyAgain(w) ==
    /\ pc[w] = "verify"
    /\ IF token[w] \in live
         THEN /\ Goto(w, "recheck")
              /\ reads' = [reads EXCEPT ![w] = <<>>]
              /\ UNCHANGED <<ledger, local, lock, files, live, clock, context, commands, replies,
                             token, command, held>>
         ELSE Refuse(w)

Receipt(c) == [type |-> "team.command", command |-> c]

(* The governance and the membership once more, the receipt, the commit. *)
Commit(w) ==
    LET c == command[w]
    IN  /\ pc[w] = "recheck" /\ Len(reads[w]) = 3
        /\ IF reads[w] = c.governance
                /\ MayCommand(token[w], Access(reads[w]), c.statement.type)
             THEN /\ ledger' = ledger \o <<c.statement, Receipt(c)>>
                  /\ replies' = replies \cup {<<c, "done">>}
                  /\ End(w)
                  /\ UNCHANGED <<local, files, live, clock, context, commands>>
             ELSE Refuse(w)

-----------------------------------------------------------------------------
(* The environment. *)

(* The server dies and is started again; SQLite rolls its transaction back. *)
Crash ==
    /\ pc' = [w \in Worker |-> "idle"]
    /\ token' = [w \in Worker |-> None] /\ command' = [w \in Worker |-> None]
    /\ reads' = [w \in Worker |-> <<>>] /\ held' = Unheld
    /\ lock' = NoOne
    /\ UNCHANGED <<ledger, local, files, live, clock, context, commands, replies>>

(* A local program writes to the same ledger: the decisions of engine.py    *)
(* and lifecycle.py, whose statements are signed on the spot, and seal.    *)
LocalWrite ==
    /\ lock = NoOne /\ Len(ledger) < MaxEvents
    /\ \E type \in Local, k \in Key :
         \E about \in Abouts(type) :
           LET e == [type |-> type, about |-> about, key |-> k, at |-> clock]
           IN  /\ IF type = "release.sealed"
                    THEN about \in Settled("candidate.created") \
                                     (Settled("release.sealed") \cup Settled("release.withdrawn"))
                    ELSE Allowed(e, files)
               /\ ledger' = Append(ledger, e)
    /\ local' = local \cup {Len(ledger) + 1}
    /\ UNCHANGED <<lock, files, live, clock, context, commands, replies,
                   pc, token, command, reads, held>>

(* The operator replaces one of the governance files. *)
Edit(i) ==
    /\ \E content \in Files[i] \ {files[i]} :
         /\ files' = [files EXCEPT ![i] = content]
         /\ held' = IF held = Unheld THEN held ELSE [held EXCEPT !.files[i] = @ \cup {content}]
    /\ UNCHANGED <<ledger, local, lock, live, clock, context, commands, replies, pc, token, command, reads>>

(* The token expires, or the operator rotates its key out of the JWKS. *)
TokenEnds(t) ==
    /\ t \in live
    /\ live' = live \ {t}
    /\ UNCHANGED <<ledger, local, lock, files, clock, context, commands, replies,
                   pc, token, command, reads, held>>

Tick ==
    /\ clock < MaxClock
    /\ clock' = clock + 1
    /\ UNCHANGED <<ledger, local, lock, files, live, context, commands, replies,
                   pc, token, command, reads, held>>

-----------------------------------------------------------------------------

(* What a worker does about the request it has. *)
Serve(w) ==
    \/ Read(w) \/ GiveContext(w)
    \/ Busy(w) \/ Begin(w) \/ Decide(w)
    \/ Apply(w) \/ ApplyFails(w) \/ VerifyAgain(w) \/ Commit(w)

Next ==
    \/ \E w \in Worker : Serve(w)
    \/ \E w \in Worker, t \in Token : AskContext(w, t)
    \/ \E w \in Worker, t \in Token, c \in commands : Submit(w, t, c)
    \/ \E t \in Token : Sign(t)
    \/ LocalWrite \/ Crash \/ Tick
    \/ \E i \in 1 .. 3 : Edit(i)
    \/ \E t \in Token : TokenEnds(t)

Spec == Init /\ [][Next]_vars /\ \A w \in Worker : WF_vars(Serve(w))

-----------------------------------------------------------------------------
(* Properties. *)

Locked   == {"authorise", "apply", "verify", "recheck"}
Contents == Files[1] \X Files[2] \X Files[3]

LedgerType ==
    /\ local \subseteq DOMAIN ledger
    /\ \A i \in DOMAIN ledger :
         LET e == ledger[i]
         IN  IF e.type = "team.command"
               THEN e = Receipt(e.command) /\ e.command \in commands
               ELSE /\ e.type \in Decision \cup {"release.sealed"}
                    /\ e.key \in Key /\ e.at \in 0 .. clock

CommandType(c) ==
    /\ c.request \in Request /\ c.key \in Key /\ c.created \in 0 .. clock
    /\ c.checkpoint \in 0 .. Len(ledger) /\ c.governance \in Contents
    /\ c.statement.type \in Decision /\ c.statement.key \in Key /\ c.statement.at \in 0 .. clock

MemberType ==
    /\ \A t \in {u \in Token : context[u] # None} :
         context[t].checkpoint \in 0 .. Len(ledger) /\ context[t].governance \in Contents
    /\ \A c \in commands : CommandType(c)
    /\ replies \subseteq commands \X {"done", "stale"}

WorldType == files \in Contents /\ live \subseteq Token /\ clock \in 0 .. MaxClock

(* The lock is held by exactly the worker that is inside its transaction,  *)
(* and a worker that has a command keeps it.                               *)
WorkerType(w) ==
    /\ pc[w] \in {"idle", "context", "queued"} \cup Locked
    /\ pc[w] \in Locked <=> lock = w
    /\ IF pc[w] = "idle" THEN token[w] = None ELSE token[w] \in Token
    /\ IF pc[w] \in {"idle", "context"} THEN command[w] = None ELSE command[w] \in commands
    /\ \A i \in DOMAIN reads[w] : i <= 3 /\ reads[w][i] \in Files[i]

(* Every variable has its type. *)
TypeOK ==
    /\ LedgerType /\ MemberType /\ WorldType
    /\ lock \in Worker \cup {NoOne} /\ \A w \in Worker : WorkerType(w)

(* No request ID is executed twice, whatever is sent again by whom and      *)
(* answered or not; no candidate is created, no approval given or revoked,  *)
(* no release sealed or withdrawn twice, by gateway and local programs     *)
(* together (replay lookup and _apply, team.py:171-256).                   *)
NothingTwice == NothingTwiceIn(ledger)

(* A command is executed on exactly the ledger its member reviewed: nothing *)
(* lies between the reviewed events and the decision.  The receipt is       *)
(* committed with the decision: there is none without the other, whenever  *)
(* the server dies or a check fails (team.py:176-191).                     *)
AppliedAsReviewed ==
    \A i \in DOMAIN ledger :
        IF ledger[i].type = "team.command"
          THEN /\ ledger[i].command.checkpoint = i - 2
               /\ ledger[i - 1] = ledger[i].command.statement
          ELSE i \in local \/ (i + 1 \in DOMAIN ledger /\ ledger[i + 1].type = "team.command")

(* A member told that its command was executed finds exactly that command   *)
(* in the ledger; one told that it is stale may sign it anew, because the  *)
(* first one will never be executed (team.py:171-178).                     *)
RepliesTrue ==
    \A r \in replies :
        r[2] = "done" <=> \E i \in DOMAIN ledger : ledger[i] = Receipt(r[1])

(* When a command is committed, the caller's token was live and every       *)
(* governance file had the reviewed content at some time after the decision *)
(* had been evaluated, although files are replaced one by one while they    *)
(* are read (team.py:181-187).                                             *)
AuthorisedAtCommit ==
    [][\A w \in Worker :
         lock = w /\ ledger' # ledger =>
            /\ held.live
            /\ \A i \in 1 .. 3 : command[w].governance[i] \in held.files[i]]_vars

(* Every request ends: the lock is always given back, and who waits for it  *)
(* gets it or the busy timeout (store.py:88-96).                           *)
EveryRequestEnds == \A w \in Worker : pc[w] # "idle" ~> pc[w] = "idle"
=============================================================================

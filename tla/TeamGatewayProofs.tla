-------------------------- MODULE TeamGatewayProofs --------------------------
(***************************************************************************)
(* The safety properties of TeamGateway for any number of workers, keys,   *)
(* tokens, requests and governance files, any ledger to start with and any *)
(* bounds.                                                                 *)
(***************************************************************************)
EXTENDS TeamGateway, SequenceTheorems, TLAPS

(* Whatever a governance file may hold. *)
Content == Files[1] \cup Files[2] \cup Files[3]

(* What the types leave out: the functions have their domains, and the     *)
(* ledger and what a worker has read are sequences.                        *)
Shape ==
    /\ \E S : ledger \in Seq(S)
    /\ DOMAIN context = Token
    /\ DOMAIN pc = Worker /\ DOMAIN token = Worker /\ DOMAIN command = Worker
    /\ reads \in [Worker -> Seq(Content)]
    /\ held \in [files : [1..3 -> SUBSET Content], live : BOOLEAN]

TypeInv == TypeOK /\ Shape

-----------------------------------------------------------------------------
(* Sequences and triples. *)

(* A sequence that grows by one element. *)
LEMMA Grown ==
    ASSUME NEW S, NEW s \in Seq(S), NEW e
    PROVE  /\ Append(s, e) \in Seq(S \cup {e})
           /\ Len(Append(s, e)) = Len(s) + 1
           /\ DOMAIN Append(s, e) = DOMAIN s \cup {Len(s) + 1}
           /\ \A i \in DOMAIN s : Append(s, e)[i] = s[i]
           /\ Append(s, e)[Len(s) + 1] = e
<1>1. s \in Seq(S \cup {e}) OBVIOUS
<1> QED BY <1>1

(* A sequence that grows by two. *)
LEMMA GrownByTwo ==
    ASSUME NEW S, NEW s \in Seq(S), NEW a, NEW b
    PROVE  /\ s \o <<a, b>> \in Seq(S \cup {a, b})
           /\ Len(s) \in Nat /\ DOMAIN s = 1..Len(s)
           /\ Len(s \o <<a, b>>) = Len(s) + 2
           /\ DOMAIN (s \o <<a, b>>) = DOMAIN s \cup {Len(s) + 1, Len(s) + 2}
           /\ \A i \in DOMAIN s : (s \o <<a, b>>)[i] = s[i]
           /\ (s \o <<a, b>>)[Len(s) + 1] = a
           /\ (s \o <<a, b>>)[Len(s) + 2] = b
<1> DEFINE T == S \cup {a, b}
<1>1. s \in Seq(T) /\ <<a, b>> \in Seq(T) OBVIOUS
<1>2. Len(<<a, b>>) = 2 /\ <<a, b>>[1] = a /\ <<a, b>>[2] = b OBVIOUS
<1>3. /\ s \o <<a, b>> \in Seq(T)
      /\ Len(s \o <<a, b>>) = Len(s) + Len(<<a, b>>)
      /\ \A i \in 1..(Len(s) + Len(<<a, b>>)) :
            (s \o <<a, b>>)[i] = IF i <= Len(s) THEN s[i] ELSE <<a, b>>[i - Len(s)]
  BY <1>1, ConcatProperties
<1>4. Len(s) \in Nat /\ DOMAIN s = 1..Len(s) BY <1>1
<1>5. DOMAIN (s \o <<a, b>>) = 1..(Len(s) + 2) BY <1>2, <1>3, <1>4
<1> QED BY <1>2, <1>3, <1>4, <1>5

(* Three values read one by one are a triple. *)
LEMMA Triple ==
    ASSUME NEW S, NEW s \in Seq(S), Len(s) = 3, NEW A, NEW B, NEW C,
           s[1] \in A, s[2] \in B, s[3] \in C
    PROVE  s \in A \X B \X C
<1>1. s = <<s[1], s[2], s[3]>> OBVIOUS
<1> QED BY <1>1

-----------------------------------------------------------------------------
(* Types. *)

(* The gateway starts on a ledger of decisions, with nobody at work. *)
LEMMA InitTypeInv == Init => TypeInv
<1> SUFFICES ASSUME Init PROVE TypeInv OBVIOUS
<1> USE GatewayAssumption DEF Init
<1>1. LedgerType BY DEF LedgerType, Decision
<1>2. MemberType /\ WorldType BY DEF MemberType, WorldType, Contents
<1>3. lock \in Worker \cup {NoOne} OBVIOUS
<1>4. \A w \in Worker : WorkerType(w)
  <2> SUFFICES ASSUME NEW w \in Worker PROVE WorkerType(w) OBVIOUS
  <2>1. DOMAIN reads[w] = {} OBVIOUS
  <2> QED BY <2>1 DEF WorkerType, Locked
<1>5. Shape
  <2>1. held \in [files : [1..3 -> SUBSET Content], live : BOOLEAN]
    <3>1. <<{}, {}, {}>> \in [1..3 -> SUBSET Content] OBVIOUS
    <3> QED BY <3>1 DEF Unheld
  <2>2. reads \in [Worker -> Seq(Content)] OBVIOUS
  <2> QED BY <2>1, <2>2 DEF Shape
<1> QED BY <1>1, <1>2, <1>3, <1>4, <1>5 DEF TypeInv, TypeOK

(* Types hold on while the ledger, the commands and the clock grow. *)
LEMMA GrowingTypes ==
    ASSUME TypeInv, commands \subseteq commands', clock' \in Nat, clock <= clock',
           Len(ledger') \in Nat, Len(ledger) <= Len(ledger')
    PROVE  /\ UNCHANGED <<ledger, local>> => LedgerType'
           /\ \A c \in commands : CommandType(c)'
           /\ \A t \in Token : context[t] # None =>
                 context[t].checkpoint \in 0..Len(ledger') /\ context[t].governance \in Contents
           /\ UNCHANGED <<context, commands, replies>> => MemberType'
<1> USE DEF TypeInv, TypeOK
<1>0. clock \in Nat /\ Len(ledger) \in Nat
  <2>1. PICK S : ledger \in Seq(S) BY DEF Shape
  <2> QED BY <2>1, GatewayAssumption DEF WorldType
<1>1. 0..clock \subseteq 0..clock' /\ 0..Len(ledger) \subseteq 0..Len(ledger') BY <1>0
<1>2. UNCHANGED <<ledger, local>> => LedgerType' BY <1>1 DEF LedgerType, Receipt
<1>3. \A c \in commands : CommandType(c)'
  BY <1>1 DEF MemberType, CommandType, Contents
<1>4. \A t \in Token : context[t] # None =>
         context[t].checkpoint \in 0..Len(ledger') /\ context[t].governance \in Contents
  BY <1>1 DEF MemberType
<1>5. UNCHANGED <<context, commands, replies>> => MemberType'
  BY <1>3, <1>4 DEF MemberType, Contents
<1> QED BY <1>2, <1>3, <1>4, <1>5

(* The requests of other workers do not notice a step of one. *)
LEMMA OtherWorkers ==
    ASSUME NEW w \in Worker, NEW v \in Worker, v # w, WorkerType(v), commands \subseteq commands',
           pc'[v] = pc[v], token'[v] = token[v], command'[v] = command[v], reads'[v] = reads[v],
           lock' = v <=> lock = v
    PROVE  WorkerType(v)'
BY DEF WorkerType

(* The end of a request leaves its worker idle and the lock free. *)
LEMMA EndTypes ==
    ASSUME TypeInv, NEW w \in Worker, End(w), commands' = commands
    PROVE  /\ lock' \in Worker \cup {NoOne}
           /\ \A v \in Worker : WorkerType(v)'
           /\ DOMAIN pc' = Worker /\ DOMAIN token' = Worker /\ DOMAIN command' = Worker
           /\ reads' \in [Worker -> Seq(Content)]
           /\ held' \in [files : [1..3 -> SUBSET Content], live : BOOLEAN]
<1> USE GatewayAssumption DEF TypeInv, TypeOK, Shape
<1>1. lock' \in Worker \cup {NoOne} BY DEF End
<1>2. /\ DOMAIN pc' = Worker /\ DOMAIN token' = Worker /\ DOMAIN command' = Worker
      /\ reads' \in [Worker -> Seq(Content)]
  BY DEF End
<1>3. held' \in [files : [1..3 -> SUBSET Content], live : BOOLEAN]
  <2>1. <<{}, {}, {}>> \in [1..3 -> SUBSET Content] OBVIOUS
  <2> QED BY <2>1 DEF End, Unheld
<1>4. ASSUME NEW v \in Worker PROVE WorkerType(v)'
  <2>1. CASE v = w
    <3>1. /\ pc'[w] = "idle" /\ token'[w] = None /\ command'[w] = None /\ lock' # w
          /\ DOMAIN reads'[w] = {}
      BY DEF End
    <3> QED BY <2>1, <3>1 DEF WorkerType, Locked
  <2>2. CASE v # w
    <3>1. lock' = v <=> lock = v BY <2>2 DEF End
    <3> QED BY <2>2, <3>1, OtherWorkers DEF End
  <2> QED BY <2>1, <2>2
<1> QED BY <1>1, <1>2, <1>3, <1>4

(* A step that leaves ledger, commands, replies, contexts, files, tokens   *)
(* and clock alone keeps their types.                                      *)
LEMMA QuietTypes ==
    ASSUME TypeInv, UNCHANGED <<ledger, local, commands, replies, context, files, live, clock>>
    PROVE  LedgerType' /\ MemberType' /\ WorldType' /\ (\E S : ledger' \in Seq(S))
           /\ DOMAIN context' = Token
<1>1. Len(ledger) \in Nat /\ clock \in Nat
  <2>1. PICK S : ledger \in Seq(S) BY DEF TypeInv, Shape
  <2> QED BY <2>1, GatewayAssumption DEF TypeInv, TypeOK, WorldType
<1>2. LedgerType' /\ MemberType' BY <1>1, GrowingTypes
<1>3. WorldType' BY DEF TypeInv, TypeOK, WorldType, Contents
<1> QED BY <1>2, <1>3 DEF TypeInv, Shape

(* A refused request changes its worker and the lock alone. *)
LEMMA RefuseTypes ==
    ASSUME TypeInv, NEW w \in Worker, Refuse(w)
    PROVE  TypeInv'
<1>1. LedgerType' /\ MemberType' /\ WorldType' /\ (\E S : ledger' \in Seq(S)) /\ DOMAIN context' = Token
  BY QuietTypes DEF Refuse
<1> QED BY <1>1, EndTypes DEF Refuse, TypeInv, TypeOK, Shape

(* The types of a worker that moves on with its request. *)
LEMMA MovingTypes ==
    ASSUME TypeInv, NEW w \in Worker, NEW step \in Locked,
           lock' = w, pc[w] \in Locked \cup {"queued"}, lock \in {w, NoOne},
           Goto(w, step), UNCHANGED <<token, command, commands>>,
           reads' \in {reads, [reads EXCEPT ![w] = <<>>]}
    PROVE  /\ lock' \in Worker \cup {NoOne} /\ \A v \in Worker : WorkerType(v)'
           /\ DOMAIN pc' = Worker /\ DOMAIN token' = Worker /\ DOMAIN command' = Worker
           /\ reads' \in [Worker -> Seq(Content)]
<1> USE DEF TypeInv, TypeOK, Shape, Goto
<1>1. WorkerType(w)'
  <2>1. pc'[w] = step OBVIOUS
  <2>2. \A i \in DOMAIN reads'[w] : i <= 3 /\ reads'[w][i] \in Files[i]
    BY DEF WorkerType
  <2> QED BY <2>1, <2>2 DEF WorkerType, Locked
<1>2. ASSUME NEW v \in Worker, v # w PROVE WorkerType(v)'
  <2>1. lock' = v <=> lock = v BY <1>2, GatewayAssumption
  <2> QED BY <1>2, <2>1, OtherWorkers
<1>3. reads' \in [Worker -> Seq(Content)]
  <2>1. <<>> \in Seq(Content) OBVIOUS
  <2> QED BY <2>1
<1> QED BY <1>1, <1>2, <1>3

(* Members and their requests. *)
LEMMA MemberStepTypes ==
    ASSUME TypeInv, NEW w \in Worker, NEW t \in Token,
           \/ AskContext(w, t) \/ \E c \in commands : Submit(w, t, c)
    PROVE  TypeInv'
<1> USE DEF AskContext, Submit
<1>1. LedgerType' /\ MemberType' /\ WorldType' /\ (\E S : ledger' \in Seq(S)) /\ DOMAIN context' = Token
  BY QuietTypes
<1> USE DEF TypeInv, TypeOK, Shape
<1>2. WorkerType(w)'
  <2>1. lock # w BY DEF WorkerType, Locked
  <2>2. token'[w] = t /\ lock' = lock /\ reads' = reads OBVIOUS
  <2>3. CASE AskContext(w, t)
    <3>1. pc'[w] = "context" /\ command'[w] = None BY <2>3 DEF WorkerType
    <3> QED BY <2>1, <2>2, <3>1 DEF WorkerType, Locked
  <2>4. CASE \E c \in commands : Submit(w, t, c)
    <3>1. pc'[w] = "queued" /\ command'[w] \in commands' BY <2>4
    <3> QED BY <2>1, <2>2, <3>1 DEF WorkerType, Locked
  <2> QED BY <2>3, <2>4
<1>3. ASSUME NEW v \in Worker, v # w PROVE WorkerType(v)'
  BY <1>3, OtherWorkers
<1> QED BY <1>1, <1>2, <1>3

(* make_command. *)
LEMMA SignTypes ==
    ASSUME TypeInv, NEW t \in Token, Sign(t)
    PROVE  TypeInv'
<1> USE DEF TypeInv, TypeOK
<1>1. PICK r \in Request, k \in Key, type \in Commanded :
        \E about \in Abouts(type), signer \in Key, at \in 0 .. clock :
            /\ context[t] # None
            /\ commands' = commands \cup
                 {[request |-> r, key |-> k, created |-> clock,
                   statement |-> [type |-> type, about |-> about, key |-> signer, at |-> at],
                   checkpoint |-> context[t].checkpoint,
                   governance |-> context[t].governance]}
  BY DEF Sign
<1>2. PICK about \in Abouts(type), signer \in Key, at \in 0 .. clock :
        /\ context[t] # None
        /\ commands' = commands \cup
             {[request |-> r, key |-> k, created |-> clock,
               statement |-> [type |-> type, about |-> about, key |-> signer, at |-> at],
               checkpoint |-> context[t].checkpoint,
               governance |-> context[t].governance]}
  BY <1>1
<1> DEFINE c == [request |-> r, key |-> k, created |-> clock,
                 statement |-> [type |-> type, about |-> about, key |-> signer, at |-> at],
                 checkpoint |-> context[t].checkpoint,
                 governance |-> context[t].governance]
<1>3. /\ UNCHANGED <<ledger, local, lock, files, live, clock, context, replies>>
      /\ UNCHANGED <<pc, token, command, reads, held>>
  BY DEF Sign
<1>4. Len(ledger) \in Nat /\ clock \in Nat
  <2>1. PICK S : ledger \in Seq(S) BY DEF Shape
  <2> QED BY <2>1, GatewayAssumption DEF WorldType
<1>5. LedgerType' BY <1>2, <1>3, <1>4, GrowingTypes
<1>6. MemberType'
  <2>1. CommandType(c)'
    <3>1. c.statement.type \in Decision BY GatewayAssumption
    <3>2. c.checkpoint \in 0..Len(ledger') /\ c.governance \in Contents
      BY <1>2, <1>3, <1>4 DEF MemberType
    <3> QED BY <1>3, <1>4, <3>1, <3>2 DEF CommandType, Contents
  <2>2. \A d \in commands : CommandType(d)' BY <1>2, <1>3, <1>4, GrowingTypes
  <2> QED BY <1>2, <1>3, <1>4, <2>1, <2>2 DEF MemberType, Contents
<1>7. WorldType' /\ (\A v \in Worker : WorkerType(v)') /\ lock' \in Worker \cup {NoOne}
  BY <1>2, <1>3 DEF WorldType, Contents, WorkerType
<1> QED BY <1>3, <1>5, <1>6, <1>7 DEF Shape

(* GET /context answers with what was read. *)
LEMMA GiveContextTypes ==
    ASSUME TypeInv, NEW w \in Worker, GiveContext(w)
    PROVE  TypeInv'
<1> USE DEF TypeInv, TypeOK
<1>1. Len(ledger) \in Nat /\ clock \in Nat /\ UNCHANGED <<ledger, local, commands, replies, clock>>
  <2>1. PICK S : ledger \in Seq(S) BY DEF Shape
  <2> QED BY <2>1, GatewayAssumption DEF WorldType, GiveContext
<1>2. LedgerType' /\ (\A c \in commands : CommandType(c)') BY <1>1, GrowingTypes
<1>3. reads[w] \in Contents
  <2>1. reads[w] \in Seq(Content) /\ Len(reads[w]) = 3 BY DEF GiveContext, Shape
  <2>2. reads[w][1] \in Files[1] /\ reads[w][2] \in Files[2] /\ reads[w][3] \in Files[3]
    BY <2>1 DEF WorkerType
  <2> QED BY <2>1, <2>2, Triple DEF Contents
<1>4. MemberType'
  <2>1. ASSUME NEW t \in Token, context'[t] # None
        PROVE  context'[t].checkpoint \in 0..Len(ledger') /\ context'[t].governance \in Contents
    <3>1. context'[t] = context[t] \/ context'[t] = [checkpoint |-> Len(ledger), governance |-> reads[w]]
      BY DEF GiveContext, Shape
    <3> QED BY <1>1, <1>3, <2>1, <3>1 DEF MemberType
  <2> QED BY <1>1, <1>2, <2>1 DEF MemberType, Contents
<1>5. WorldType' /\ (\E S : ledger' \in Seq(S)) /\ DOMAIN context' = Token
  BY DEF WorldType, Contents, GiveContext, Shape
<1>6. End(w) /\ commands' = commands BY DEF GiveContext
<1> HIDE DEF TypeInv, TypeOK
<1>7. /\ lock' \in Worker \cup {NoOne} /\ \A v \in Worker : WorkerType(v)'
      /\ DOMAIN pc' = Worker /\ DOMAIN token' = Worker /\ DOMAIN command' = Worker
      /\ reads' \in [Worker -> Seq(Content)]
      /\ held' \in [files : [1..3 -> SUBSET Content], live : BOOLEAN]
  BY <1>6, EndTypes
<1> QED BY <1>2, <1>4, <1>5, <1>7 DEF TypeInv, TypeOK, Shape

(* One governance file is read. *)
LEMMA ReadTypes ==
    ASSUME TypeInv, NEW w \in Worker, Read(w)
    PROVE  TypeInv'
<1>1. LedgerType' /\ MemberType' /\ WorldType' /\ (\E S : ledger' \in Seq(S)) /\ DOMAIN context' = Token
  BY QuietTypes DEF Read
<1> USE DEF TypeInv, TypeOK, Shape, Read
<1>2. reads[w] \in Seq(Content) /\ Len(reads[w]) + 1 \in 1..3 OBVIOUS
<1>3. files[Len(reads[w]) + 1] \in Files[Len(reads[w]) + 1] BY <1>2 DEF WorldType, Contents
<1>4. files[Len(reads[w]) + 1] \in Content BY <1>2, <1>3 DEF Content
<1>5. /\ reads'[w] = Append(reads[w], files[Len(reads[w]) + 1])
      /\ reads' \in [Worker -> Seq(Content)]
  BY <1>2, <1>4
<1>6. WorkerType(w)'
  <2>1. \A i \in DOMAIN reads'[w] : i <= 3 /\ reads'[w][i] \in Files[i]
    BY <1>2, <1>3, <1>5 DEF WorkerType
  <2> QED BY <2>1 DEF WorkerType
<1>7. ASSUME NEW v \in Worker, v # w PROVE WorkerType(v)'
  BY <1>7, OtherWorkers
<1> QED BY <1>1, <1>5, <1>6, <1>7

(* The steps of a request up to its commit. *)
LEMMA RequestTypes ==
    ASSUME TypeInv, NEW w \in Worker,
           Busy(w) \/ Begin(w) \/ Decide(w) \/ Apply(w) \/ ApplyFails(w) \/ VerifyAgain(w)
    PROVE  TypeInv'
<1>1. CASE Refuse(w) BY <1>1, RefuseTypes
<1>2. CASE \E answer \in {"done", "stale"} : Answer(w, answer)
  <2>1. PICK answer \in {"done", "stale"} : Answer(w, answer) BY <1>2
  <2>2. command[w] \in commands
    <3>1. pc[w] # "idle" /\ pc[w] # "context"
      BY <2>1 DEF Busy, Begin, Decide, Apply, ApplyFails, VerifyAgain
    <3> QED BY <3>1 DEF TypeInv, TypeOK, WorkerType
  <2>3. Len(ledger) \in Nat /\ clock \in Nat
    <3>1. PICK S : ledger \in Seq(S) BY DEF TypeInv, Shape
    <3> QED BY <3>1, GatewayAssumption DEF TypeInv, TypeOK, WorldType
  <2>4. LedgerType' /\ (\A c \in commands : CommandType(c)')
    BY <2>1, <2>3, GrowingTypes DEF Answer
  <2>5. MemberType' BY <2>1, <2>2, <2>4 DEF Answer, TypeInv, TypeOK, MemberType, Contents
  <2>6. WorldType' /\ (\E S : ledger' \in Seq(S)) /\ DOMAIN context' = Token
    BY <2>1 DEF WorldType, Contents, Answer, TypeInv, TypeOK, Shape
  <2> QED BY <2>1, <2>4, <2>5, <2>6, EndTypes DEF Answer, TypeInv, TypeOK, Shape
<1>3. ASSUME NEW step \in Locked, lock' = w, pc[w] \in Locked \cup {"queued"},
             lock \in {w, NoOne}, Goto(w, step),
             UNCHANGED <<ledger, local, files, live, clock, context, commands, replies, token, command>>,
             reads' \in {reads, [reads EXCEPT ![w] = <<>>]},
             held' \in [files : [1..3 -> SUBSET Content], live : BOOLEAN]
      PROVE  TypeInv'
  <2>1. LedgerType' /\ MemberType' /\ WorldType' /\ (\E S : ledger' \in Seq(S)) /\ DOMAIN context' = Token
    BY <1>3, QuietTypes
  <2> QED BY <1>3, <2>1, MovingTypes DEF TypeInv, TypeOK, Shape
<1>4. pc[w] \in Locked => lock = w BY DEF TypeInv, TypeOK, WorkerType
<1>5. held \in [files : [1..3 -> SUBSET Content], live : BOOLEAN] BY DEF TypeInv, Shape
<1>6. CASE Begin(w) /\ ~Refuse(w) BY <1>3, <1>5, <1>6 DEF Begin, Locked
<1>7. CASE Decide(w) /\ Verdict(w) = "apply"
  BY <1>3, <1>4, <1>5, <1>7 DEF Decide, Locked
<1>8. CASE Apply(w)
  <2>1. files[1] \in Content /\ files[2] \in Content /\ files[3] \in Content
    BY DEF TypeInv, TypeOK, WorldType, Contents, Content
  <2>2. <<{files[1]}, {files[2]}, {files[3]}>> \in [1..3 -> SUBSET Content] BY <2>1
  <2>3. held' \in [files : [1..3 -> SUBSET Content], live : BOOLEAN] BY <1>8, <2>2 DEF Apply
  <2> QED BY <1>3, <1>4, <1>8, <2>3 DEF Apply, Locked
<1>9. CASE VerifyAgain(w) /\ ~Refuse(w)
  BY <1>3, <1>4, <1>5, <1>9 DEF VerifyAgain, Locked
<1> QED BY <1>1, <1>2, <1>6, <1>7, <1>8, <1>9
        DEF Busy, Begin, Decide, ApplyFails, VerifyAgain

(* The commit writes the decision and the receipt at the end of the ledger. *)
LEMMA Committed ==
    ASSUME TypeInv, NEW w \in Worker, Commit(w), ledger' # ledger
    PROVE  /\ pc[w] = "recheck" /\ lock = w /\ command[w] \in commands
           /\ Len(reads[w]) = 3 /\ reads[w] = command[w].governance
           /\ End(w) /\ UNCHANGED <<local, files, live, clock, context, commands>>
           /\ replies' = replies \cup {<<command[w], "done">>}
           /\ \E S : ledger' \in Seq(S)
           /\ Len(ledger) \in Nat /\ DOMAIN ledger = 1..Len(ledger)
           /\ Len(ledger') = Len(ledger) + 2
           /\ DOMAIN ledger' = DOMAIN ledger \cup {Len(ledger) + 1, Len(ledger) + 2}
           /\ \A i \in DOMAIN ledger : ledger'[i] = ledger[i]
           /\ ledger'[Len(ledger) + 1] = command[w].statement
           /\ ledger'[Len(ledger) + 2] = Receipt(command[w])
<1>1. pc[w] = "recheck" /\ lock = w /\ command[w] \in commands
  BY DEF Commit, TypeInv, TypeOK, WorkerType, Locked
<1>2. PICK S : ledger \in Seq(S) BY DEF TypeInv, Shape
<1>3. /\ ledger' = ledger \o <<command[w].statement, Receipt(command[w])>>
      /\ Len(reads[w]) = 3 /\ reads[w] = command[w].governance
      /\ End(w) /\ UNCHANGED <<local, files, live, clock, context, commands>>
      /\ replies' = replies \cup {<<command[w], "done">>}
  BY DEF Commit, Refuse
<1> DEFINE a == command[w].statement
           b == Receipt(command[w])
<1>4. /\ ledger \o <<a, b>> \in Seq(S \cup {a, b})
      /\ Len(ledger) \in Nat /\ DOMAIN ledger = 1..Len(ledger)
      /\ Len(ledger \o <<a, b>>) = Len(ledger) + 2
      /\ DOMAIN (ledger \o <<a, b>>) = DOMAIN ledger \cup {Len(ledger) + 1, Len(ledger) + 2}
      /\ \A i \in DOMAIN ledger : (ledger \o <<a, b>>)[i] = ledger[i]
      /\ (ledger \o <<a, b>>)[Len(ledger) + 1] = a
      /\ (ledger \o <<a, b>>)[Len(ledger) + 2] = b
  BY <1>2, GrownByTwo
<1>5. ledger' = ledger \o <<a, b>> BY <1>3
<1> HIDE DEF a, b
<1>6. \E T : ledger' \in Seq(T) BY <1>4, <1>5
<1> QED BY <1>1, <1>3, <1>4, <1>5, <1>6 DEF a, b

(* A local program appends one allowed decision. *)
LEMMA Written ==
    ASSUME TypeInv, LocalWrite
    PROVE  \E e :
           /\ e.type \in Local /\ e.key \in Key /\ e.at = clock
           /\ IF e.type = "release.sealed"
                THEN e.about \in Settled("candidate.created") \
                                   (Settled("release.sealed") \cup Settled("release.withdrawn"))
                ELSE Allowed(e, files)
           /\ \E S : ledger' \in Seq(S)
           /\ Len(ledger) \in Nat /\ DOMAIN ledger = 1..Len(ledger)
           /\ Len(ledger') = Len(ledger) + 1
           /\ DOMAIN ledger' = DOMAIN ledger \cup {Len(ledger) + 1}
           /\ \A i \in DOMAIN ledger : ledger'[i] = ledger[i]
           /\ ledger'[Len(ledger) + 1] = e
<1>1. PICK type \in Local, k \in Key :
        \E about \in Abouts(type) :
          LET e == [type |-> type, about |-> about, key |-> k, at |-> clock]
          IN  /\ IF type = "release.sealed"
                   THEN about \in Settled("candidate.created") \
                                    (Settled("release.sealed") \cup Settled("release.withdrawn"))
                   ELSE Allowed(e, files)
              /\ ledger' = Append(ledger, e)
  BY DEF LocalWrite
<1>2. PICK about \in Abouts(type) :
          LET e == [type |-> type, about |-> about, key |-> k, at |-> clock]
          IN  /\ IF type = "release.sealed"
                   THEN about \in Settled("candidate.created") \
                                    (Settled("release.sealed") \cup Settled("release.withdrawn"))
                   ELSE Allowed(e, files)
              /\ ledger' = Append(ledger, e)
  BY <1>1
<1> DEFINE e == [type |-> type, about |-> about, key |-> k, at |-> clock]
<1>3. PICK S : ledger \in Seq(S) BY DEF TypeInv, Shape
<1>4. Len(ledger) \in Nat /\ DOMAIN ledger = 1..Len(ledger) BY <1>3
<1>5. /\ e.type = type /\ e.about = about /\ e.key = k /\ e.at = clock
      /\ IF e.type = "release.sealed"
           THEN e.about \in Settled("candidate.created") \
                              (Settled("release.sealed") \cup Settled("release.withdrawn"))
           ELSE Allowed(e, files)
      /\ ledger' = Append(ledger, e)
  BY <1>2
<1> HIDE DEF e
<1>6. /\ Append(ledger, e) \in Seq(S \cup {e})
      /\ Len(Append(ledger, e)) = Len(ledger) + 1
      /\ DOMAIN Append(ledger, e) = DOMAIN ledger \cup {Len(ledger) + 1}
      /\ \A i \in DOMAIN ledger : Append(ledger, e)[i] = ledger[i]
      /\ Append(ledger, e)[Len(ledger) + 1] = e
  BY <1>3, Grown
<1>7. ledger' = Append(ledger, e) /\ \E T : ledger' \in Seq(T) BY <1>5, <1>6
<1> QED BY <1>1, <1>4, <1>5, <1>6, <1>7

(* A commit appends the staged decision and its receipt, and frees the      *)
(* worker.                                                                  *)
LEMMA CommitTypes ==
    ASSUME TypeInv, NEW w \in Worker, Commit(w)
    PROVE  TypeInv'
<1>1. CASE ledger' = ledger
  <2>1. CASE Refuse(w) BY <2>1, RefuseTypes
  <2>2. CASE ~Refuse(w)
    <3>1. ledger' = ledger \o <<command[w].statement, Receipt(command[w])>> BY <2>2 DEF Commit
    <3>2. PICK S : ledger \in Seq(S) BY DEF TypeInv, Shape
    <3>3. Len(ledger') = Len(ledger) + 2 /\ Len(ledger) \in Nat BY <3>1, <3>2, GrownByTwo
    <3> QED BY <1>1, <3>3
  <2> QED BY <2>1, <2>2
<1>2. CASE ledger' # ledger
  <2>0. PICK c : c = command[w] OBVIOUS
  <2>1. /\ c \in commands /\ End(w) /\ UNCHANGED <<local, files, live, clock, context, commands>>
        /\ replies' = replies \cup {<<c, "done">>}
        /\ \E S : ledger' \in Seq(S)
        /\ Len(ledger) \in Nat /\ Len(ledger') = Len(ledger) + 2
        /\ DOMAIN ledger' = DOMAIN ledger \cup {Len(ledger) + 1, Len(ledger) + 2}
        /\ \A i \in DOMAIN ledger : ledger'[i] = ledger[i]
        /\ ledger'[Len(ledger) + 1] = c.statement
        /\ ledger'[Len(ledger) + 2] = Receipt(c)
    BY <1>2, <2>0, Committed
  <2>2. clock \in Nat BY GatewayAssumption DEF TypeInv, TypeOK, WorldType
  <2>3. CommandType(c) /\ CommandType(c)'
    BY <2>1, <2>2, GrowingTypes DEF TypeInv, TypeOK, MemberType
  <2>4. LedgerType'
    <3> SUFFICES ASSUME NEW i \in DOMAIN ledger'
                 PROVE  LET e == ledger'[i]
                        IN  IF e.type = "team.command"
                              THEN e = Receipt(e.command) /\ e.command \in commands
                              ELSE e.type \in Decision \cup {"release.sealed"} /\ e.key \in Key
                                     /\ e.at \in 0 .. clock
      <4>1. local' \subseteq DOMAIN ledger' BY <2>1 DEF TypeInv, TypeOK, LedgerType
      <4> QED BY <2>1, <4>1 DEF LedgerType, Receipt
    <3>1. CASE i \in DOMAIN ledger BY <2>1, <3>1 DEF TypeInv, TypeOK, LedgerType
    <3>2. CASE i = Len(ledger) + 1 BY <2>1, <2>3, <3>2 DEF CommandType, Decision
    <3>3. CASE i = Len(ledger) + 2 BY <2>1, <3>3 DEF Receipt
    <3> QED BY <2>1, <3>1, <3>2, <3>3
  <2>5. MemberType'
    <3>1. /\ \A d \in commands : CommandType(d)'
          /\ \A t \in Token : context[t] # None =>
                context[t].checkpoint \in 0..Len(ledger') /\ context[t].governance \in Contents
      BY <2>1, <2>2, GrowingTypes
    <3> QED BY <2>1, <3>1 DEF TypeInv, TypeOK, MemberType, Contents
  <2>6. WorldType' /\ DOMAIN context' = Token
    BY <2>1 DEF WorldType, Contents, TypeInv, TypeOK, Shape
  <2> QED BY <2>1, <2>4, <2>5, <2>6, EndTypes DEF TypeInv, TypeOK, Shape
<1> QED BY <1>1, <1>2

(* A local program appends one event. *)
LEMMA LocalWriteTypes ==
    ASSUME TypeInv, LocalWrite
    PROVE  TypeInv'
<1>1. /\ UNCHANGED <<lock, files, live, clock, context, commands, replies>>
      /\ UNCHANGED <<pc, token, command, reads, held>>
      /\ local' = local \cup {Len(ledger) + 1}
  BY DEF LocalWrite
<1>2. PICK e :
        /\ e.type \in Local /\ e.key \in Key /\ e.at = clock
        /\ \E S : ledger' \in Seq(S)
        /\ Len(ledger) \in Nat /\ Len(ledger') = Len(ledger) + 1
        /\ DOMAIN ledger' = DOMAIN ledger \cup {Len(ledger) + 1}
        /\ \A i \in DOMAIN ledger : ledger'[i] = ledger[i]
        /\ ledger'[Len(ledger) + 1] = e
  BY Written
<1>3. clock \in Nat BY GatewayAssumption DEF TypeInv, TypeOK, WorldType
<1>4. MemberType' BY <1>1, <1>2, <1>3, GrowingTypes
<1>5. LedgerType'
  <2>1. e.type \in Decision \cup {"release.sealed"} /\ e.type # "team.command"
    BY <1>2, GatewayAssumption DEF Decision
  <2>2. \A i \in DOMAIN ledger' : i \in DOMAIN ledger \/ ledger'[i] = e BY <1>2
  <2> QED BY <1>1, <1>2, <1>3, <2>1, <2>2 DEF TypeInv, TypeOK, LedgerType, Receipt
<1>6. WorldType' /\ (\A v \in Worker : WorkerType(v)')
  BY <1>1 DEF TypeInv, TypeOK, WorldType, Contents, WorkerType
<1> QED BY <1>1, <1>2, <1>4, <1>5, <1>6 DEF TypeInv, TypeOK, Shape

(* The server's crash, the operator, the tokens and the clock. *)
LEMMA WorldTypes ==
    ASSUME TypeInv, Crash \/ Tick \/ (\E i \in 1..3 : Edit(i)) \/ (\E t \in Token : TokenEnds(t))
    PROVE  TypeInv'
<1>1. CASE Crash
  <2>1. LedgerType' /\ MemberType' /\ WorldType' /\ (\E S : ledger' \in Seq(S)) /\ DOMAIN context' = Token
    BY <1>1, QuietTypes DEF Crash
  <2>2. ASSUME NEW v \in Worker PROVE WorkerType(v)'
    <3>1. pc'[v] = "idle" /\ token'[v] = None /\ command'[v] = None /\ reads'[v] = <<>>
          /\ lock' = NoOne
      BY <1>1 DEF Crash
    <3> QED BY <3>1, GatewayAssumption DEF WorkerType, Locked
  <2>3. Shape'
    <3>1. <<{}, {}, {}>> \in [1..3 -> SUBSET Content] OBVIOUS
    <3>2. <<>> \in Seq(Content) OBVIOUS
    <3> QED BY <1>1, <2>1, <3>1, <3>2 DEF Crash, Unheld, Shape
  <2> QED BY <1>1, <2>1, <2>2, <2>3 DEF Crash, TypeInv, TypeOK
<1>2. CASE Tick
  <2>1. clock \in Nat /\ clock' \in 0..MaxClock /\ clock <= clock' /\ Len(ledger) \in Nat
    <3>1. PICK S : ledger \in Seq(S) BY DEF TypeInv, Shape
    <3> QED BY <1>2, <3>1, GatewayAssumption DEF Tick, TypeInv, TypeOK, WorldType
  <2>2. LedgerType' /\ MemberType' BY <1>2, <2>1, GrowingTypes DEF Tick
  <2>3. WorldType' /\ (\A v \in Worker : WorkerType(v)')
    BY <1>2, <2>1 DEF Tick, TypeInv, TypeOK, WorldType, Contents, WorkerType
  <2> QED BY <1>2, <2>2, <2>3 DEF Tick, TypeInv, TypeOK, Shape
<1>3. ASSUME NEW i \in 1..3, Edit(i)
      PROVE  TypeInv'
  <2>1. PICK content \in Files[i] \ {files[i]} :
          /\ files' = [files EXCEPT ![i] = content]
          /\ held' = IF held = Unheld THEN held ELSE [held EXCEPT !.files[i] = @ \cup {content}]
    BY <1>3 DEF Edit
  <2>2. Len(ledger) \in Nat /\ clock \in Nat
    <3>1. PICK S : ledger \in Seq(S) BY DEF TypeInv, Shape
    <3> QED BY <3>1, GatewayAssumption DEF TypeInv, TypeOK, WorldType
  <2>3. LedgerType' /\ MemberType' BY <1>3, <2>2, GrowingTypes DEF Edit
  <2>4. files' \in Contents
    <3>1. files \in Files[1] \X Files[2] \X Files[3] BY DEF TypeInv, TypeOK, WorldType, Contents
    <3>2. CASE i = 1 BY <2>1, <3>1, <3>2 DEF Contents
    <3>3. CASE i = 2 BY <2>1, <3>1, <3>3 DEF Contents
    <3>4. CASE i = 3 BY <2>1, <3>1, <3>4 DEF Contents
    <3> QED BY <3>2, <3>3, <3>4
  <2>5. WorldType' /\ (\A v \in Worker : WorkerType(v)')
    BY <1>3, <2>4 DEF Edit, TypeInv, TypeOK, WorldType, Contents, WorkerType
  <2>6. held' \in [files : [1..3 -> SUBSET Content], live : BOOLEAN]
    <3>1. content \in Content BY <2>1 DEF Content
    <3> QED BY <2>1, <3>1 DEF TypeInv, Shape
  <2> QED BY <1>3, <2>3, <2>5, <2>6 DEF Edit, TypeInv, TypeOK, Shape
<1>4. ASSUME NEW t \in Token, TokenEnds(t)
      PROVE  TypeInv'
  <2>1. Len(ledger) \in Nat /\ clock \in Nat
    <3>1. PICK S : ledger \in Seq(S) BY DEF TypeInv, Shape
    <3> QED BY <3>1, GatewayAssumption DEF TypeInv, TypeOK, WorldType
  <2>2. LedgerType' /\ MemberType' BY <1>4, <2>1, GrowingTypes DEF TokenEnds
  <2> QED BY <1>4, <2>2 DEF TokenEnds, TypeInv, TypeOK, WorldType, Contents, WorkerType, Shape
<1> QED BY <1>1, <1>2, <1>3, <1>4

(* Every step keeps the types, the shape and the lock discipline. *)
LEMMA StepTypeInv ==
    ASSUME TypeInv, [Next]_vars
    PROVE  TypeInv'
<1>1. CASE \E w \in Worker : Serve(w)
  BY <1>1, GiveContextTypes, ReadTypes, RequestTypes, CommitTypes DEF Serve
<1>2. CASE (\E w \in Worker, t \in Token : AskContext(w, t))
              \/ (\E w \in Worker, t \in Token, c \in commands : Submit(w, t, c))
  BY <1>2, MemberStepTypes
<1>3. CASE \E t \in Token : Sign(t) BY <1>3, SignTypes
<1>4. CASE LocalWrite BY <1>4, LocalWriteTypes
<1>5. CASE Crash \/ Tick \/ (\E i \in 1..3 : Edit(i)) \/ (\E t \in Token : TokenEnds(t))
  BY <1>5, WorldTypes
<1>6. CASE UNCHANGED vars
  <2>1. LedgerType' /\ MemberType' /\ WorldType' BY <1>6, QuietTypes DEF vars
  <2> QED BY <1>6, <2>1 DEF vars, TypeInv, TypeOK, Shape, WorkerType
<1> QED BY <1>1, <1>2, <1>3, <1>4, <1>5, <1>6 DEF Next

(* Every variable of the gateway keeps its type, and the write lock is held *)
(* by exactly the worker inside its transaction.                           *)
THEOREM TypeCorrect == Spec => []TypeOK
<1>1. TypeInv /\ [Next]_vars => TypeInv' BY StepTypeInv
<1>2. TypeInv => TypeOK BY DEF TypeInv
<1> QED BY <1>1, <1>2, InitTypeInv, PTL DEF Spec

-----------------------------------------------------------------------------
(* The inductive invariant. *)

(* Between the verdict and the commit the command still names the end of   *)
(* the ledger, and its request ID is still unused.                         *)
Pinned(w) ==
    pc[w] \in {"apply", "verify", "recheck"} =>
        /\ command[w].checkpoint = Len(ledger)
        /\ Executed(command[w].request) = {}

(* What _apply found to be allowed is still new to the ledger. *)
Unsettled(w) ==
    pc[w] \in {"verify", "recheck"} =>
        \A i \in DOMAIN ledger : Matter(ledger[i]) # Matter(command[w].statement)

(* held has seen the files of now and everything read again, and the token *)
(* if it was alive when it was last verified.                              *)
InForce(w) ==
    /\ pc[w] \in {"verify", "recheck"} => \A i \in 1..3 : files[i] \in held.files[i]
    /\ pc[w] = "verify" /\ token[w] \in live => held.live
    /\ pc[w] = "recheck" =>
          held.live /\ \A i \in DOMAIN reads[w] : reads[w][i] \in held.files[i]

WorkerInv(w) == Pinned(w) /\ Unsettled(w) /\ InForce(w)

(* Who was told that a command is stale holds one behind the ledger. *)
StaleStays == \A r \in replies : r[2] = "stale" => r[1].checkpoint < Len(ledger)

GatewayInv ==
    /\ TypeInv /\ \A w \in Worker : WorkerInv(w)
    /\ NothingTwice /\ AppliedAsReviewed /\ StaleStays /\ RepliesTrue

(* Different kinds of events settle different matters. *)
LEMMA MatterKind ==
    ASSUME NEW e, NEW f, Matter(e) = Matter(f)
    PROVE  e.type = f.type
BY DEF Matter

(* What is allowed is new. *)
LEMMA AllowedIsNew ==
    ASSUME NEW s, NEW governance, s.type \in Decision, Allowed(s, governance)
    PROVE  \A i \in DOMAIN ledger : Matter(ledger[i]) # Matter(s)
<1> SUFFICES ASSUME NEW i \in DOMAIN ledger, Matter(ledger[i]) = Matter(s)
             PROVE  FALSE
  OBVIOUS
<1>1. ledger[i].type = s.type /\ ledger[i] \in EventsOf(s.type)
  BY MatterKind DEF EventsOf
<1>2. CASE s.type = "candidate.created"
  <2>1. ledger[i].about = s.about BY <1>1, <1>2 DEF Matter
  <2>2. s.about \in Settled("candidate.created") BY <1>1, <1>2, <2>1 DEF Settled
  <2> QED BY <1>2, <2>2 DEF Allowed, CreateAllowed
<1>3. CASE s.type = "approval.signed"
  <2>1. Digest(ledger[i]) = Digest(s) BY <1>1, <1>3 DEF Matter
  <2>2. NewApproval(s) BY <1>3 DEF Allowed, ApproveAllowed
  <2>3. Digest(s) \in {Digest(a) : a \in Approvals} BY <1>1, <1>3, <2>1 DEF Approvals
  <2> QED BY <2>2, <2>3 DEF NewApproval
<1>4. CASE s.type = "approval.revoked"
  <2>1. ledger[i].about = s.about BY <1>1, <1>4 DEF Matter
  <2>2. s.about \in Settled("approval.revoked") BY <1>1, <1>4, <2>1 DEF Settled
  <2> QED BY <1>4, <2>2 DEF Allowed, RevokeAllowed
<1>5. CASE s.type = "release.withdrawn"
  <2>1. ledger[i].about = s.about BY <1>1, <1>5 DEF Matter
  <2>2. s.about \in Settled("release.withdrawn") BY <1>1, <1>5, <2>1 DEF Settled
  <2> QED BY <1>5, <2>2 DEF Allowed, WithdrawAllowed
<1> QED BY <1>2, <1>3, <1>4, <1>5 DEF Decision

-----------------------------------------------------------------------------
(* The workers. *)

(* A command stays pinned and new while the ledger stands still. *)
LEMMA SameLedger ==
    ASSUME NEW v, ledger' = ledger, command'[v] = command[v]
    PROVE  /\ /\ Pinned(v)
              /\ pc'[v] \in {"apply", "verify", "recheck"} => pc[v] \in {"apply", "verify", "recheck"}
              => Pinned(v)'
           /\ /\ Unsettled(v)
              /\ pc'[v] \in {"verify", "recheck"} => pc[v] \in {"verify", "recheck"}
              => Unsettled(v)'
<1>1. Executed(command[v].request)' = Executed(command[v].request) BY DEF Executed, EventsOf
<1>2. \A i : Matter(ledger[i])' = Matter(ledger[i]) BY DEF Matter, Digest
<1>3. Matter(command[v].statement)' = Matter(command[v].statement) BY DEF Matter, Digest
<1> QED BY <1>1, <1>2, <1>3 DEF Pinned, Unsettled

(* A worker that does not hold the lock, or whose surroundings stand still, *)
(* keeps its invariant while others act.                                   *)
LEMMA WorkerFrame ==
    ASSUME NEW v \in Worker, WorkerType(v), WorkerInv(v),
           pc'[v] = pc[v], token'[v] = token[v], command'[v] = command[v], reads'[v] = reads[v],
           lock # v \/ UNCHANGED <<ledger, held, files, live>>
    PROVE  WorkerInv(v)'
<1>1. CASE lock # v
  <2>1. pc'[v] \notin {"apply", "verify", "recheck"} BY <1>1 DEF WorkerType, Locked
  <2> QED BY <2>1 DEF WorkerInv, Pinned, Unsettled, InForce
<1>2. CASE UNCHANGED <<ledger, held, files, live>>
  <2>1. Pinned(v)' BY <1>2, SameLedger DEF WorkerInv
  <2>2. Unsettled(v)' BY <1>2, SameLedger DEF WorkerInv
  <2>3. InForce(v)' BY <1>2 DEF WorkerInv, InForce
  <2> QED BY <2>1, <2>2, <2>3 DEF WorkerInv
<1> QED BY <1>1, <1>2

(* A worker outside its critical steps has nothing to keep. *)
LEMMA WorkerOutside ==
    ASSUME NEW w, pc'[w] \notin {"apply", "verify", "recheck"}
    PROVE  WorkerInv(w)'
BY DEF WorkerInv, Pinned, Unsettled, InForce

(* While one worker ends its request, no other holds the lock. *)
LEMMA EndInv ==
    ASSUME TypeInv, \A v \in Worker : WorkerInv(v), NEW w \in Worker, End(w),
           lock = w \/ UNCHANGED <<ledger, files, live>>
    PROVE  \A v \in Worker : WorkerInv(v)'
<1> SUFFICES ASSUME NEW v \in Worker PROVE WorkerInv(v)' OBVIOUS
<1>1. CASE v = w
  <2>1. pc'[w] = "idle" BY DEF End, TypeInv, Shape
  <2> QED BY <1>1, <2>1, WorkerOutside
<1>2. CASE v # w
  <2>1. lock = w \/ held' = held BY DEF End
  <2> QED BY <1>2, <2>1, WorkerFrame DEF End, TypeInv, TypeOK
<1> QED BY <1>1, <1>2

(* A worker's own steps. *)
LEMMA ServeInv ==
    ASSUME TypeInv, \A v \in Worker : WorkerInv(v), NEW w \in Worker, Serve(w)
    PROVE  \A v \in Worker : WorkerInv(v)'
<1>1. WorkerType(w) BY DEF TypeInv, TypeOK
<1>2. CASE Refuse(w) BY <1>2, EndInv DEF Refuse
<1>3. CASE \E answer \in {"done", "stale"} : Answer(w, answer) BY <1>3, EndInv DEF Answer
<1>4. CASE GiveContext(w) BY <1>4, EndInv DEF GiveContext
<1>5. CASE Commit(w)
  <2>1. lock = w BY <1>1, <1>5 DEF Commit, WorkerType, Locked
  <2> QED BY <1>2, <1>5, <2>1, EndInv DEF Commit
<1>6. ASSUME UNCHANGED <<ledger, files, live, token, command>>,
             \A v \in Worker \ {w} : pc'[v] = pc[v] /\ reads'[v] = reads[v],
             held' = held \/ lock = w, WorkerInv(w)'
      PROVE  \A v \in Worker : WorkerInv(v)'
  BY <1>6, WorkerFrame DEF TypeInv, TypeOK
<1>7. CASE Begin(w) /\ ~Refuse(w)
  <2>1. pc'[w] = "authorise" BY <1>7 DEF Begin, Goto, TypeInv, Shape
  <2>2. /\ UNCHANGED <<ledger, files, live, token, command, reads, held>>
        /\ \A v \in Worker \ {w} : pc'[v] = pc[v]
    BY <1>7 DEF Begin, Goto, TypeInv, Shape
  <2> QED BY <1>6, <2>1, <2>2, WorkerOutside
<1>8. CASE Read(w)
  <2>1. reads'[w] = Append(reads[w], files[Len(reads[w]) + 1])
    BY <1>8 DEF Read, TypeInv, Shape
  <2>2. CASE pc[w] = "recheck"
    <3>1. reads[w] \in Seq(Content) /\ Len(reads[w]) < 3 BY <1>8 DEF Read, TypeInv, Shape
    <3>2. \A i \in DOMAIN reads'[w] :
             \/ i \in DOMAIN reads[w] /\ reads'[w][i] = reads[w][i]
             \/ i \in 1..3 /\ reads'[w][i] = files[i]
      <4>1. Len(reads[w]) + 1 \in 1..3 /\ DOMAIN reads[w] = 1..Len(reads[w]) BY <3>1
      <4>2. /\ DOMAIN reads'[w] = DOMAIN reads[w] \cup {Len(reads[w]) + 1}
            /\ \A i \in DOMAIN reads[w] : reads'[w][i] = reads[w][i]
            /\ reads'[w][Len(reads[w]) + 1] = files[Len(reads[w]) + 1]
        BY <2>1, <3>1, Grown
      <4> QED BY <4>1, <4>2
    <3>3. UNCHANGED <<pc, ledger, files, live, held, command, token>> BY <1>8 DEF Read
    <3>4. InForce(w)' BY <2>2, <3>2, <3>3 DEF WorkerInv, InForce
    <3>5. Pinned(w)' /\ Unsettled(w)' BY <3>3, SameLedger DEF WorkerInv
    <3>6. WorkerInv(w)' BY <3>4, <3>5 DEF WorkerInv
    <3> QED BY <1>6, <1>8, <3>6 DEF Read
  <2>3. CASE pc[w] # "recheck"
    <3>1. WorkerInv(w)' BY <1>8, <2>3, WorkerOutside DEF Read
    <3> QED BY <1>6, <1>8, <3>1 DEF Read
  <2> QED BY <2>2, <2>3
<1>9. CASE Decide(w) /\ Verdict(w) = "apply"
  <2>1. /\ pc'[w] = "apply" /\ UNCHANGED <<ledger, files, live, held, token, command, reads>>
        /\ \A v \in Worker \ {w} : pc'[v] = pc[v]
    BY <1>9 DEF Decide, Goto, TypeInv, Shape
  <2>2. command[w].checkpoint = Len(ledger) /\ Executed(command[w].request) = {}
    BY <1>9 DEF Verdict
  <2>3. WorkerInv(w)'
    BY <2>1, <2>2 DEF WorkerInv, Pinned, Unsettled, InForce, Executed, EventsOf
  <2> QED BY <1>6, <2>1, <2>3
<1>10. CASE Apply(w)
  <2>1. /\ pc'[w] = "verify" /\ UNCHANGED <<ledger, files, live, token, command, reads>>
        /\ \A v \in Worker \ {w} : pc'[v] = pc[v]
        /\ held' = [files |-> <<{files[1]}, {files[2]}, {files[3]}>>, live |-> token[w] \in live]
    BY <1>10 DEF Apply, Goto, TypeInv, Shape
  <2>2. lock = w BY <1>1, <1>10 DEF Apply, WorkerType, Locked
  <2>3. Pinned(w)' BY <1>10, <2>1 DEF Apply, WorkerInv, Pinned, Executed, EventsOf
  <2>4. Unsettled(w)'
    <3>1. command[w].statement.type \in Decision
      BY <1>1, <1>10 DEF Apply, WorkerType, TypeInv, TypeOK, MemberType, CommandType
    <3>2. \A i \in DOMAIN ledger : Matter(ledger[i]) # Matter(command[w].statement)
      BY <1>10, <3>1, AllowedIsNew DEF Apply, Applicable
    <3> QED BY <2>1, <3>2 DEF Unsettled, Matter, Digest
  <2>5. InForce(w)'
    <3>1. \A i \in 1..3 : files'[i] \in held'.files[i] BY <2>1
    <3> QED BY <2>1, <3>1 DEF InForce
  <2> QED BY <1>6, <2>1, <2>2, <2>3, <2>4, <2>5 DEF WorkerInv
<1>11. CASE VerifyAgain(w) /\ ~Refuse(w)
  <2>1. /\ pc[w] = "verify" /\ pc'[w] = "recheck" /\ token[w] \in live
        /\ UNCHANGED <<ledger, files, live, held, token, command>> /\ reads'[w] = <<>>
        /\ \A v \in Worker \ {w} : pc'[v] = pc[v] /\ reads'[v] = reads[v]
    BY <1>11 DEF VerifyAgain, Goto, TypeInv, Shape
  <2>2. Pinned(w)' /\ Unsettled(w)' BY <2>1, SameLedger DEF WorkerInv
  <2>3. InForce(w)'
    <3>1. DOMAIN reads'[w] = {} BY <2>1
    <3> QED BY <2>1, <3>1 DEF WorkerInv, InForce
  <2> QED BY <1>6, <2>1, <2>2, <2>3 DEF WorkerInv
<1> QED BY <1>2, <1>3, <1>4, <1>5, <1>7, <1>8, <1>9, <1>10, <1>11
        DEF Serve, Busy, Begin, Decide, ApplyFails, VerifyAgain

(* Everybody else's steps. *)
LEMMA WorldInv ==
    ASSUME TypeInv, \A v \in Worker : WorkerInv(v), [Next]_vars, ~(\E w \in Worker : Serve(w)),
           NEW v \in Worker
    PROVE  WorkerInv(v)'
<1>0. WorkerType(v) /\ WorkerInv(v) BY DEF TypeInv, TypeOK
<1>1. ASSUME NEW w \in Worker, NEW t \in Token,
             AskContext(w, t) \/ \E c \in commands : Submit(w, t, c)
      PROVE  WorkerInv(v)'
  <2>1. CASE v = w
    <3>1. pc'[v] \in {"context", "queued"} BY <1>1, <2>1 DEF AskContext, Submit, TypeInv, Shape
    <3> QED BY <3>1, WorkerOutside
  <2>2. CASE v # w
    <3>1. /\ pc'[v] = pc[v] /\ token'[v] = token[v] /\ command'[v] = command[v]
          /\ UNCHANGED <<reads, ledger, held, files, live>>
      BY <1>1, <2>2 DEF AskContext, Submit, TypeInv, Shape
    <3> QED BY <1>0, <3>1, WorkerFrame
  <2> QED BY <2>1, <2>2
<1>2. CASE \E t \in Token : Sign(t) BY <1>0, <1>2, WorkerFrame DEF Sign
<1>3. CASE LocalWrite
  <2>1. lock # v BY <1>3, GatewayAssumption DEF LocalWrite
  <2> QED BY <1>0, <1>3, <2>1, WorkerFrame DEF LocalWrite
<1>4. CASE Crash
  <2>1. pc'[v] = "idle" BY <1>4 DEF Crash
  <2> QED BY <2>1, WorkerOutside
<1>5. CASE Tick BY <1>0, <1>5, WorkerFrame DEF Tick
<1>6. ASSUME NEW i \in 1..3, Edit(i) PROVE WorkerInv(v)'
  <2>1. PICK content :
          /\ files' = [files EXCEPT ![i] = content]
          /\ held' = IF held = Unheld THEN held ELSE [held EXCEPT !.files[i] = @ \cup {content}]
    BY <1>6 DEF Edit
  <2>2. UNCHANGED <<ledger, live, pc, token, command, reads>> BY <1>6 DEF Edit
  <2>3. Pinned(v)' /\ Unsettled(v)' BY <1>0, <2>2, SameLedger DEF WorkerInv
  <2>4. InForce(v)'
    <3>1. CASE pc[v] \in {"verify", "recheck"}
      <4>1. \A j \in 1..3 : files[j] \in held.files[j] BY <1>0, <3>1 DEF WorkerInv, InForce
      <4>2. held # Unheld BY <4>1 DEF Unheld
      <4>3. held \in [files : [1..3 -> SUBSET Content], live : BOOLEAN] BY DEF TypeInv, Shape
      <4>4. held' = [held EXCEPT !.files[i] = @ \cup {content}] BY <2>1, <4>2
      <4>5. /\ held'.live = held.live
            /\ \A j \in 1..3 : held.files[j] \subseteq held'.files[j]
            /\ content \in held'.files[i]
        BY <4>3, <4>4
      <4>6. \A j \in 1..3 : files'[j] = files[j] \/ (j = i /\ files'[j] = content)
        <5>1. PICK a \in Files[1], b \in Files[2], c \in Files[3] : files = <<a, b, c>>
          BY DEF TypeInv, TypeOK, WorldType, Contents
        <5>2. DOMAIN files = 1..3 BY <5>1
        <5> QED BY <2>1, <5>2
      <4>7. \A j \in 1..3 : files'[j] \in held'.files[j] BY <4>1, <4>5, <4>6
      <4>8. \A j \in DOMAIN reads[v] : j \in 1..3
        <5>1. reads[v] \in Seq(Content) BY DEF TypeInv, Shape
        <5> QED BY <1>0, <5>1 DEF WorkerType
      <4> QED BY <1>0, <2>2, <4>5, <4>7, <4>8 DEF WorkerInv, InForce
    <3>2. CASE pc[v] \notin {"verify", "recheck"} BY <2>2, <3>2 DEF InForce
    <3> QED BY <3>1, <3>2
  <2> QED BY <2>3, <2>4 DEF WorkerInv
<1>7. ASSUME NEW t \in Token, TokenEnds(t) PROVE WorkerInv(v)'
  <2>1. UNCHANGED <<ledger, files, pc, token, command, reads, held>> /\ live' \subseteq live
    BY <1>7 DEF TokenEnds
  <2>2. Pinned(v)' /\ Unsettled(v)' BY <1>0, <2>1, SameLedger DEF WorkerInv
  <2>3. InForce(v)' BY <1>0, <2>1 DEF WorkerInv, InForce
  <2> QED BY <2>2, <2>3 DEF WorkerInv
<1>8. CASE UNCHANGED vars BY <1>0, <1>8, WorkerFrame DEF vars
<1> QED BY <1>1, <1>2, <1>3, <1>4, <1>5, <1>6, <1>7, <1>8 DEF Next

-----------------------------------------------------------------------------
(* The ledger and the replies. *)

(* Who changes them: local programs, commits, and answers without a commit. *)
LEMMA Writers ==
    ASSUME TypeInv, [Next]_vars
    PROVE  \/ UNCHANGED <<ledger, local, replies>>
           \/ LocalWrite
           \/ \E w \in Worker : Commit(w) /\ ledger' # ledger
           \/ \E w \in Worker : /\ Decide(w) /\ Verdict(w) \in {"done", "stale"}
                                /\ Answer(w, Verdict(w))
<1> DEFINE Quiet == UNCHANGED <<ledger, local, replies>>
<1>1. ASSUME NEW w \in Worker, Refuse(w) PROVE Quiet BY <1>1 DEF Refuse
<1>2. ASSUME NEW w \in Worker, Commit(w), ledger' = ledger PROVE Quiet
  <2>1. CASE Refuse(w) BY <1>1, <2>1
  <2>2. CASE ~Refuse(w)
    <3>1. ledger' = ledger \o <<command[w].statement, Receipt(command[w])>>
      BY <1>2, <2>2 DEF Commit
    <3>2. PICK S : ledger \in Seq(S) BY DEF TypeInv, Shape
    <3>3. Len(ledger') = Len(ledger) + 2 /\ Len(ledger) \in Nat BY <3>1, <3>2, GrownByTwo
    <3> QED BY <1>2, <3>3
  <2> QED BY <2>1, <2>2
<1>3. ASSUME NEW w \in Worker, Serve(w), ~Commit(w), ~Quiet
      PROVE  Decide(w) /\ Verdict(w) \in {"done", "stale"} /\ Answer(w, Verdict(w))
  <2>1. ~Refuse(w) BY <1>1, <1>3
  <2>2. CASE Read(w) BY <1>3, <2>2 DEF Read
  <2>3. CASE GiveContext(w) BY <1>3, <2>3 DEF GiveContext
  <2>4. CASE Busy(w) \/ ApplyFails(w) BY <2>1, <2>4 DEF Busy, ApplyFails
  <2>5. CASE Begin(w) BY <1>3, <2>1, <2>5 DEF Begin
  <2>6. CASE Apply(w) BY <1>3, <2>6 DEF Apply
  <2>7. CASE VerifyAgain(w) BY <1>3, <2>1, <2>7 DEF VerifyAgain
  <2>8. CASE Decide(w) BY <1>3, <2>1, <2>8 DEF Decide
  <2> QED BY <1>3, <2>2, <2>3, <2>4, <2>5, <2>6, <2>7, <2>8 DEF Serve
<1>4. ASSUME Next, ~(\E w \in Worker : Serve(w)) PROVE Quiet \/ LocalWrite
  BY <1>4 DEF Next, AskContext, Submit, Sign, Crash, Tick, Edit, TokenEnds
<1>5. CASE UNCHANGED vars BY <1>5 DEF vars
<1> QED BY <1>2, <1>3, <1>4, <1>5

(* Receipts tell commands apart, and are no decisions. *)
LEMMA ReceiptIs ==
    ASSUME NEW c, NEW d
    PROVE  /\ Receipt(c).type = "team.command" /\ Receipt(c).command = c
           /\ Receipt(c) = Receipt(d) => c = d
BY DEF Receipt

(* What AppliedAsReviewed says of one position of the ledger. *)
ReviewedAt(i) ==
    IF ledger[i].type = "team.command"
      THEN /\ ledger[i].command.checkpoint = i - 2
           /\ ledger[i - 1] = ledger[i].command.statement
      ELSE i \in local \/ (i + 1 \in DOMAIN ledger /\ ledger[i + 1].type = "team.command")

(* It goes on to hold of what is written, while the ledger grows.          *)
LEMMA ReviewedStays ==
    ASSUME GatewayInv, NEW i \in DOMAIN ledger,
           Len(ledger) \in Nat, DOMAIN ledger = 1..Len(ledger), DOMAIN ledger \subseteq DOMAIN ledger',
           \A j \in DOMAIN ledger : ledger'[j] = ledger[j], local \subseteq local'
    PROVE  ReviewedAt(i)'
<1>1. ReviewedAt(i) BY DEF GatewayInv, AppliedAsReviewed, ReviewedAt
<1>2. CASE ledger[i].type = "team.command"
  <2>1. ledger[i].command.checkpoint = i - 2 /\ ledger[i - 1] = ledger[i].command.statement
    BY <1>1, <1>2 DEF ReviewedAt
  <2>2. ledger[i].command.checkpoint \in Nat
    <3>1. ledger[i].command \in commands
      BY <1>2 DEF GatewayInv, TypeInv, TypeOK, LedgerType
    <3> QED BY <3>1 DEF GatewayInv, TypeInv, TypeOK, MemberType, CommandType
  <2>3. i - 1 \in DOMAIN ledger BY <2>1, <2>2
  <2> QED BY <1>2, <2>1, <2>3 DEF ReviewedAt
<1>3. CASE ledger[i].type # "team.command"
  <2>1. i \in local \/ (i + 1 \in DOMAIN ledger /\ ledger[i + 1].type = "team.command")
    BY <1>1, <1>3 DEF ReviewedAt
  <2> QED BY <1>3, <2>1 DEF ReviewedAt
<1> QED BY <1>2, <1>3

(* A local program's event is new and no command's. *)
LEMMA LocalWriteLog ==
    ASSUME GatewayInv, LocalWrite
    PROVE  NothingTwice' /\ AppliedAsReviewed' /\ StaleStays' /\ RepliesTrue'
<1>1. PICK e :
        /\ e.type \in Local
        /\ IF e.type = "release.sealed"
             THEN e.about \in Settled("candidate.created") \
                                (Settled("release.sealed") \cup Settled("release.withdrawn"))
             ELSE Allowed(e, files)
        /\ Len(ledger) \in Nat /\ DOMAIN ledger = 1..Len(ledger)
        /\ Len(ledger') = Len(ledger) + 1
        /\ DOMAIN ledger' = DOMAIN ledger \cup {Len(ledger) + 1}
        /\ \A i \in DOMAIN ledger : ledger'[i] = ledger[i]
        /\ ledger'[Len(ledger) + 1] = e
  BY Written DEF GatewayInv
<1>2. replies' = replies BY DEF LocalWrite
<1>3. e.type # "team.command" BY <1>1, GatewayAssumption DEF Decision
<1>4. \A i \in DOMAIN ledger : Matter(ledger[i]) # Matter(e)
  <2>1. CASE e.type = "release.sealed"
    <3> SUFFICES ASSUME NEW i \in DOMAIN ledger, Matter(ledger[i]) = Matter(e) PROVE FALSE
      OBVIOUS
    <3>1. ledger[i].type = e.type BY MatterKind
    <3>2. ledger[i].about = e.about BY <2>1, <3>1 DEF Matter
    <3>3. e.about \in Settled("release.sealed") BY <2>1, <3>1, <3>2 DEF Settled, EventsOf
    <3> QED BY <1>1, <2>1, <3>3
  <2>2. CASE e.type # "release.sealed"
    <3>1. e.type \in Decision BY <1>1, <2>2, GatewayAssumption
    <3> QED BY <1>1, <2>2, <3>1, AllowedIsNew
  <2> QED BY <2>1, <2>2
<1>5. NothingTwice'
  <2> SUFFICES ASSUME NEW i \in DOMAIN ledger', NEW j \in DOMAIN ledger',
                      Matter(ledger'[i]) = Matter(ledger'[j])
               PROVE  i = j
    BY DEF NothingTwice, NothingTwiceIn, Matter, Digest
  <2>1. CASE i \in DOMAIN ledger /\ j \in DOMAIN ledger
    BY <1>1, <2>1 DEF GatewayInv, NothingTwice, NothingTwiceIn
  <2>2. CASE ~(i \in DOMAIN ledger /\ j \in DOMAIN ledger) BY <1>1, <1>4, <2>2
  <2> QED BY <2>1, <2>2
<1>6. AppliedAsReviewed'
  <2> SUFFICES ASSUME NEW i \in DOMAIN ledger' PROVE ReviewedAt(i)'
    BY DEF AppliedAsReviewed, ReviewedAt
  <2>1. local \subseteq local' /\ Len(ledger) + 1 \in local' BY DEF LocalWrite
  <2>2. CASE i \in DOMAIN ledger BY <1>1, <2>1, <2>2, ReviewedStays
  <2>3. CASE i = Len(ledger) + 1 BY <1>1, <1>3, <2>1, <2>3 DEF ReviewedAt
  <2> QED BY <1>1, <2>2, <2>3
<1>7. StaleStays'
  <2> SUFFICES ASSUME NEW r \in replies, r[2] = "stale" PROVE r[1].checkpoint < Len(ledger')
    BY <1>2 DEF StaleStays
  <2>1. r[1].checkpoint < Len(ledger) BY DEF GatewayInv, StaleStays
  <2>2. r[1].checkpoint \in Nat
    BY DEF GatewayInv, TypeInv, TypeOK, MemberType, CommandType
  <2> QED BY <1>1, <2>1, <2>2
<1>8. RepliesTrue'
  <2>1. ASSUME NEW c
        PROVE  (\E i \in DOMAIN ledger' : ledger'[i] = Receipt(c))
                  <=> (\E i \in DOMAIN ledger : ledger[i] = Receipt(c))
    BY <1>1, <1>3, ReceiptIs
  <2> QED BY <1>2, <2>1 DEF GatewayInv, RepliesTrue, Receipt
<1> QED BY <1>5, <1>6, <1>7, <1>8

(* An answer without a commit says what the ledger says. *)
LEMMA AnswerLog ==
    ASSUME GatewayInv, NEW w \in Worker, Decide(w), Verdict(w) \in {"done", "stale"},
           Answer(w, Verdict(w))
    PROVE  NothingTwice' /\ AppliedAsReviewed' /\ StaleStays' /\ RepliesTrue'
<1>1. PICK c : c = command[w] OBVIOUS
<1>2. UNCHANGED <<ledger, local>> /\ replies' = replies \cup {<<c, Verdict(w)>>}
  BY <1>1 DEF Answer
<1>3. NothingTwice' /\ AppliedAsReviewed'
  BY <1>2 DEF GatewayInv, NothingTwice, NothingTwiceIn, AppliedAsReviewed, Matter, Digest
<1>4. c \in commands
  BY <1>1 DEF Decide, GatewayInv, TypeInv, TypeOK, WorkerType
<1>5. c.checkpoint \in 0..Len(ledger) /\ Len(ledger) \in Nat
  <2>1. PICK S : ledger \in Seq(S) BY DEF GatewayInv, TypeInv, Shape
  <2> QED BY <1>4, <2>1 DEF GatewayInv, TypeInv, TypeOK, MemberType, CommandType
<1>6. CASE Verdict(w) = "done"
  <2>1. Executed(c.request) = {c} BY <1>1, <1>6 DEF Verdict
  <2>2. PICK i \in DOMAIN ledger : ledger[i].type = "team.command" /\ ledger[i].command = c
    BY <2>1 DEF Executed, EventsOf
  <2>3. ledger[i] = Receipt(c) BY <2>2 DEF GatewayInv, TypeInv, TypeOK, LedgerType
  <2>4. RepliesTrue' BY <1>2, <1>6, <2>3 DEF GatewayInv, RepliesTrue, Receipt
  <2>5. StaleStays' BY <1>2, <1>6 DEF GatewayInv, StaleStays
  <2> QED BY <1>3, <2>4, <2>5
<1>7. CASE Verdict(w) = "stale"
  <2>1. Executed(c.request) # {c} /\ Executed(c.request) = {} /\ c.checkpoint # Len(ledger)
    BY <1>1, <1>7 DEF Verdict
  <2>2. ~(\E i \in DOMAIN ledger : ledger[i] = Receipt(c))
    BY <2>1, ReceiptIs DEF Executed, EventsOf
  <2>3. RepliesTrue' BY <1>2, <1>7, <2>2 DEF GatewayInv, RepliesTrue, Receipt
  <2>4. StaleStays' BY <1>2, <1>5, <1>7, <2>1 DEF GatewayInv, StaleStays
  <2> QED BY <1>3, <2>3, <2>4
<1> QED BY <1>6, <1>7

(* A commit adds a decision that is new and a receipt whose request ID is   *)
(* new, at the end that the command names.                                 *)
LEMMA CommitLog ==
    ASSUME GatewayInv, NEW w \in Worker, Commit(w), ledger' # ledger
    PROVE  NothingTwice' /\ AppliedAsReviewed' /\ StaleStays' /\ RepliesTrue'
<1>0. PICK c : c = command[w] OBVIOUS
<1>1. /\ pc[w] = "recheck" /\ c \in commands
      /\ replies' = replies \cup {<<c, "done">>} /\ local' = local
      /\ Len(ledger) \in Nat /\ DOMAIN ledger = 1..Len(ledger)
      /\ Len(ledger') = Len(ledger) + 2
      /\ DOMAIN ledger' = DOMAIN ledger \cup {Len(ledger) + 1, Len(ledger) + 2}
      /\ \A i \in DOMAIN ledger : ledger'[i] = ledger[i]
      /\ ledger'[Len(ledger) + 1] = c.statement
      /\ ledger'[Len(ledger) + 2] = Receipt(c)
  BY <1>0, Committed DEF GatewayInv
<1>2. c.checkpoint = Len(ledger) /\ Executed(c.request) = {}
  BY <1>0, <1>1 DEF GatewayInv, WorkerInv, Pinned
<1>3. \A i \in DOMAIN ledger : Matter(ledger[i]) # Matter(c.statement)
  BY <1>0, <1>1 DEF GatewayInv, WorkerInv, Unsettled
<1>4. c.statement.type # "team.command"
  BY <1>1 DEF GatewayInv, TypeInv, TypeOK, MemberType, CommandType, Decision
<1>5. Matter(Receipt(c)) = <<"team.command", c.request>> BY ReceiptIs DEF Matter
<1>6. \A i \in DOMAIN ledger : Matter(ledger[i]) # Matter(Receipt(c))
  <2> SUFFICES ASSUME NEW i \in DOMAIN ledger, Matter(ledger[i]) = Matter(Receipt(c))
               PROVE  FALSE
    OBVIOUS
  <2>1. ledger[i].type = "team.command" BY MatterKind, ReceiptIs
  <2>2. ledger[i].command.request = c.request BY <1>5, <2>1 DEF Matter
  <2>3. ledger[i].command \in Executed(c.request) BY <2>1, <2>2 DEF Executed, EventsOf
  <2> QED BY <1>2, <2>3
<1>7. Matter(c.statement) # Matter(Receipt(c)) BY <1>4, MatterKind, ReceiptIs
<1>8. NothingTwice'
  <2> SUFFICES ASSUME NEW i \in DOMAIN ledger', NEW j \in DOMAIN ledger',
                      Matter(ledger'[i]) = Matter(ledger'[j])
               PROVE  i = j
    BY DEF NothingTwice, NothingTwiceIn, Matter, Digest
  <2>1. CASE i \in DOMAIN ledger /\ j \in DOMAIN ledger
    BY <1>1, <2>1 DEF GatewayInv, NothingTwice, NothingTwiceIn
  <2>2. CASE ~(i \in DOMAIN ledger /\ j \in DOMAIN ledger)
    BY <1>1, <1>3, <1>6, <1>7, <2>2
  <2> QED BY <2>1, <2>2
<1>9. AppliedAsReviewed'
  <2> SUFFICES ASSUME NEW i \in DOMAIN ledger' PROVE ReviewedAt(i)'
    BY DEF AppliedAsReviewed, ReviewedAt
  <2>1. CASE i \in DOMAIN ledger BY <1>1, <2>1, ReviewedStays
  <2>2. CASE i = Len(ledger) + 1
    <3>1. i + 1 \in DOMAIN ledger' /\ i + 1 = Len(ledger) + 2 BY <1>1, <2>2
    <3>2. ledger'[i + 1].type = "team.command" BY <1>1, <3>1, ReceiptIs
    <3> QED BY <1>1, <1>4, <2>2, <3>1, <3>2 DEF ReviewedAt
  <2>3. CASE i = Len(ledger) + 2
    <3>1. ledger'[i].type = "team.command" /\ ledger'[i].command = c BY <1>1, <2>3, ReceiptIs
    <3>2. i - 2 = Len(ledger) /\ i - 1 = Len(ledger) + 1 BY <1>1, <2>3
    <3> QED BY <1>1, <1>2, <3>1, <3>2 DEF ReviewedAt
  <2> QED BY <1>1, <2>1, <2>2, <2>3
<1>10. StaleStays'
  <2> SUFFICES ASSUME NEW r \in replies', r[2] = "stale" PROVE r[1].checkpoint < Len(ledger')
    BY DEF StaleStays
  <2>1. r \in replies BY <1>1
  <2>2. r[1].checkpoint < Len(ledger) BY <2>1 DEF GatewayInv, StaleStays
  <2>3. r[1].checkpoint \in Nat
    BY <2>1 DEF GatewayInv, TypeInv, TypeOK, MemberType, CommandType
  <2> QED BY <1>1, <2>2, <2>3
<1>11. RepliesTrue'
  <2>1. ASSUME NEW d
        PROVE  (\E i \in DOMAIN ledger' : ledger'[i] = Receipt(d))
                  <=> (d = c \/ \E i \in DOMAIN ledger : ledger[i] = Receipt(d))
    BY <1>1, <1>4, ReceiptIs
  <2> SUFFICES ASSUME NEW r \in replies'
               PROVE  r[2] = "done" <=> \E i \in DOMAIN ledger' : ledger'[i] = Receipt(r[1])
    BY DEF RepliesTrue, Receipt
  <2>2. CASE r \in replies
    <3>1. r[2] = "done" <=> \E i \in DOMAIN ledger : ledger[i] = Receipt(r[1])
      BY <2>2 DEF GatewayInv, RepliesTrue
    <3>2. r[2] \in {"done", "stale"}
      BY <2>2 DEF GatewayInv, TypeInv, TypeOK, MemberType
    <3>3. r[1] = c => r[2] # "stale"
      BY <1>1, <1>2, <2>2 DEF GatewayInv, StaleStays
    <3> QED BY <2>1, <3>1, <3>2, <3>3
  <2>3. CASE r = <<c, "done">> BY <2>1, <2>3
  <2> QED BY <1>1, <2>2, <2>3
<1> QED BY <1>8, <1>9, <1>10, <1>11

-----------------------------------------------------------------------------
(* The theorems. *)

(* The invariant holds of the ledger to start with. *)
LEMMA InitGatewayInv == Init => GatewayInv
<1> SUFFICES ASSUME Init PROVE GatewayInv OBVIOUS
<1>1. \A w \in Worker : WorkerInv(w) BY DEF Init, WorkerInv, Pinned, Unsettled, InForce
<1>2. NothingTwice BY GatewayAssumption DEF Init, NothingTwice
<1>3. \A i \in DOMAIN ledger : ledger[i].type # "team.command" /\ i \in local
  BY GatewayAssumption DEF Init, Decision
<1>4. AppliedAsReviewed BY <1>3 DEF AppliedAsReviewed
<1>5. StaleStays /\ RepliesTrue BY DEF Init, StaleStays, RepliesTrue
<1> QED BY <1>1, <1>2, <1>4, <1>5, InitTypeInv DEF GatewayInv

(* Every step of workers, members, operators and local programs keeps the   *)
(* invariant.                                                               *)
LEMMA StepGatewayInv ==
    ASSUME GatewayInv, [Next]_vars
    PROVE  GatewayInv'
<1>1. TypeInv' BY StepTypeInv DEF GatewayInv
<1>2. (\A w \in Worker : WorkerInv(w))'
  <2>1. CASE \E w \in Worker : Serve(w) BY <2>1, ServeInv DEF GatewayInv
  <2>2. CASE ~(\E w \in Worker : Serve(w)) BY <2>2, WorldInv DEF GatewayInv
  <2> QED BY <2>1, <2>2
<1>3. NothingTwice' /\ AppliedAsReviewed' /\ StaleStays' /\ RepliesTrue'
  <2>1. CASE UNCHANGED <<ledger, local, replies>>
    BY <2>1 DEF GatewayInv, NothingTwice, NothingTwiceIn, Matter, Digest, AppliedAsReviewed,
                StaleStays, RepliesTrue, Receipt
  <2>2. CASE LocalWrite BY <2>2, LocalWriteLog
  <2>3. CASE \E w \in Worker : Commit(w) /\ ledger' # ledger BY <2>3, CommitLog
  <2>4. CASE \E w \in Worker : /\ Decide(w) /\ Verdict(w) \in {"done", "stale"}
                               /\ Answer(w, Verdict(w))
    BY <2>4, AnswerLog
  <2> QED BY <2>1, <2>2, <2>3, <2>4, Writers DEF GatewayInv
<1> QED BY <1>1, <1>2, <1>3 DEF GatewayInv

(* No request ID is executed twice and no decision is taken twice, whoever  *)
(* sends a command again and whatever local programs write (team.py).      *)
THEOREM DecidedOnce == Spec => []NothingTwice
<1>1. GatewayInv /\ [Next]_vars => GatewayInv' BY StepGatewayInv
<1>2. GatewayInv => NothingTwice BY DEF GatewayInv
<1> QED BY <1>1, <1>2, InitGatewayInv, PTL DEF Spec

(* An executed command follows the very event its member reviewed last, and *)
(* no decision of the gateway is without the receipt of its command.       *)
THEOREM ExecutedOnReviewedLedger == Spec => []AppliedAsReviewed
<1>1. GatewayInv /\ [Next]_vars => GatewayInv' BY StepGatewayInv
<1>2. GatewayInv => AppliedAsReviewed BY DEF GatewayInv
<1> QED BY <1>1, <1>2, InitGatewayInv, PTL DEF Spec

(* "Done" is said of executed commands only, "stale" of commands that never *)
(* will be executed.                                                       *)
THEOREM RepliesAreTrue == Spec => []RepliesTrue
<1>1. GatewayInv /\ [Next]_vars => GatewayInv' BY StepGatewayInv
<1>2. GatewayInv => RepliesTrue BY DEF GatewayInv
<1> QED BY <1>1, <1>2, InitGatewayInv, PTL DEF Spec

(* What a commit relies on was in force after the decision was evaluated.  *)
LEMMA CommitAuthorised ==
    ASSUME GatewayInv, [Next]_vars, NEW w \in Worker, lock = w, ledger' # ledger
    PROVE  held.live /\ \A i \in 1..3 : command[w].governance[i] \in held.files[i]
<1>1. ~LocalWrite BY GatewayAssumption DEF LocalWrite
<1>2. ~(\E v \in Worker : Answer(v, Verdict(v))) BY DEF Answer
<1>3. PICK v \in Worker : Commit(v) /\ ledger' # ledger BY <1>1, <1>2, Writers DEF GatewayInv
<1>4. v = w
  BY <1>3 DEF Commit, GatewayInv, TypeInv, TypeOK, WorkerType, Locked
<1>5. pc[w] = "recheck" /\ Len(reads[w]) = 3 BY <1>3, <1>4 DEF Commit
<1>6. reads[w] = command[w].governance
  BY <1>3, <1>4 DEF Commit, Refuse
<1>7. DOMAIN reads[w] = 1..3
  <2>1. reads[w] \in Seq(Content) BY DEF GatewayInv, TypeInv, Shape
  <2> QED BY <1>5, <2>1
<1> QED BY <1>5, <1>6, <1>7 DEF GatewayInv, WorkerInv, InForce

(* Every commit of a command happens under the reviewed policy, trust store *)
(* and access file, and for a live token.                                  *)
THEOREM CommitsAuthorised == Spec => AuthorisedAtCommit
<1>1. GatewayInv /\ [Next]_vars => GatewayInv' BY StepGatewayInv
<1>2. GatewayInv /\ [Next]_vars =>
        [\A w \in Worker :
           lock = w /\ ledger' # ledger =>
              /\ held.live
              /\ \A i \in 1 .. 3 : command[w].governance[i] \in held.files[i]]_vars
  BY CommitAuthorised
<1> QED BY <1>1, <1>2, InitGatewayInv, PTL DEF Spec, AuthorisedAtCommit
=============================================================================

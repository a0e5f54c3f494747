------------------------------- MODULE Ledger -------------------------------
(***************************************************************************)
(* The ledger and the object store of src/opentapeout/store.py: several    *)
(* processes read and extend one hash-chained table of events under        *)
(* SQLite's transactions, and an administrator with access to the file     *)
(* may change it behind their back.                                        *)
(*                                                                         *)
(* A row is [body, previous, hash].  Digests are ideal: the digest of a    *)
(* body that names the previous hash is the sequence of bodies up to it.   *)
(* A table maps sequence numbers to rows; only a deletion leaves a gap.    *)
(***************************************************************************)
EXTENDS Naturals, Sequences, FiniteSets, SequencesExt

CONSTANTS
    Process, Op,
    EventsOf,   \* operation -> the events it appends, in order
    RefsOf,     \* event -> the digests of the objects it names
    Free,       \* nobody holds the write lock
    MaxEvents, MaxTampers \* bounds: length of the table, changes behind the API

Event  == UNION {Range(EventsOf[o]) : o \in Op}
Digest == UNION {RefsOf[e] : e \in Event}

ASSUME LedgerAssumption ==
    /\ Free \notin Process /\ Op # {}
    /\ EventsOf \in [Op -> Seq(Event)] /\ \A o \in Op : EventsOf[o] # <<>>
    /\ MaxEvents \in Nat /\ MaxTampers \in Nat

VARIABLES
    table,    \* the committed rows
    objects,  \* digest -> whether the linked object still has these bytes
    lock,     \* who is inside BEGIN IMMEDIATE
    phase,    \* idle; working: an operation outside a transaction; read, write
    op,       \* the operation a process performs
    view,     \* the rows its transaction read
    pending,  \* the rows it inserted and has not committed
    stored,   \* the objects its operation has put
    anchor,   \* the history whose checkpoint is retained outside the workspace
    verdict,  \* what verify_checkpoint answered to a process
    tampers

ledgerVars == <<table, objects, lock, phase, op, view, pending, stored, anchor, verdict, tampers>>

-----------------------------------------------------------------------------

ZERO == <<>>
HashOf(previous, body) == Append(previous, body)

LastHash(rows) == IF rows = <<>> THEN ZERO ELSE rows[Len(rows)].hash

(* The row Transaction.append inserts after the rows the transaction has. *)
NextRow(rows, body) ==
    [body |-> body, previous |-> LastHash(rows), hash |-> HashOf(LastHash(rows), body)]

(* Fault: gaps and broken links are found, digests are not recomputed. *)
Linked(t) ==
    /\ DOMAIN t = 1..Cardinality(DOMAIN t)
    /\ \A i \in DOMAIN t : t[i].previous = (IF i = 1 THEN ZERO ELSE t[i - 1].hash)

(* read_events: no gap, every row names its predecessor, every hash is the *)
(* digest of its body.                                                     *)
Chained(t) ==
    /\ DOMAIN t = 1..Cardinality(DOMAIN t)
    /\ \A i \in DOMAIN t :
          /\ t[i].previous = (IF i = 1 THEN ZERO ELSE t[i - 1].hash)
          /\ t[i].hash = HashOf(t[i].previous, t[i].body)

Bodies(rows) == [i \in DOMAIN rows |-> rows[i].body]

Checkpoint(rows) == [seq |-> Len(rows), hash |-> LastHash(rows)]

(* verify_checkpoint: the ledger reaches the expected checkpoint and has   *)
(* its hash there.                                                         *)
Agrees(rows, expected) ==
    /\ expected.seq <= Len(rows)
    /\ expected.hash = (IF expected.seq = 0 THEN ZERO ELSE rows[expected.seq].hash)

-----------------------------------------------------------------------------

LedgerInit ==
    /\ table = <<>> /\ objects = <<>> /\ lock = Free
    /\ phase = [p \in Process |-> "idle"]
    /\ op = [p \in Process |-> CHOOSE o \in Op : TRUE]
    /\ view = [p \in Process |-> <<>>]
    /\ pending = [p \in Process |-> <<>>]
    /\ stored = [p \in Process |-> {}]
    /\ anchor = <<>>
    /\ verdict = [p \in Process |-> "none"]
    /\ tampers = 0

(* The operation raises, or its process dies: SQLite rolls back; objects   *)
(* it linked stay.                                                         *)
Abort(p) ==
    /\ phase[p] # "idle"
    /\ phase' = [phase EXCEPT ![p] = "idle"]
    /\ pending' = [pending EXCEPT ![p] = <<>>]
    /\ stored' = [stored EXCEPT ![p] = {}]
    /\ lock' = IF lock = p THEN Free ELSE lock
    /\ UNCHANGED <<table, objects, op, view, anchor, verdict, tampers>>

(* Store.put_file: link the hashed copy; an object that exists already is   *)
(* verified, never trusted.  An operation puts objects before its write    *)
(* transaction (tree capture) or inside it (finish, register).             *)
Put(p, d) ==
    /\ phase[p] \in {"working", "write"}
    /\ d \in DOMAIN objects => objects[d]
    /\ objects' = [x \in DOMAIN objects \cup {d} |-> IF x = d THEN TRUE ELSE objects[x]]
    /\ stored' = [stored EXCEPT ![p] = @ \cup {d}]
    /\ UNCHANGED <<table, lock, phase, op, view, pending, anchor, verdict, tampers>>

Start(p, o) ==
    /\ phase[p] = "idle"
    /\ phase' = [phase EXCEPT ![p] = "working"]
    /\ op' = [op EXCEPT ![p] = o]
    /\ UNCHANGED <<table, objects, lock, view, pending, stored, anchor, verdict, tampers>>

(* Fault: a deferred BEGIN reads before it has the lock. *)
BeginDeferred(p) ==
    /\ phase[p] = "working" /\ Chained(table)
    /\ lock' = p
    /\ phase' = [phase EXCEPT ![p] = "write"]
    /\ view' = [view EXCEPT ![p] = table]
    /\ UNCHANGED <<table, objects, op, pending, stored, anchor, verdict, tampers>>

(* transaction(write=True): BEGIN IMMEDIATE waits for the lock, then the    *)
(* whole table is read; a broken chain raises.                             *)
BeginWrite(p) ==
    /\ phase[p] = "working" /\ lock = Free /\ Chained(table)
    /\ lock' = p
    /\ phase' = [phase EXCEPT ![p] = "write"]
    /\ view' = [view EXCEPT ![p] = table]
    /\ UNCHANGED <<table, objects, op, pending, stored, anchor, verdict, tampers>>

(* Transaction.append of the operation's next event, its objects put. *)
AppendEvent(p) ==
    LET events == EventsOf[op[p]]
        next   == Len(pending[p]) + 1
    IN  /\ phase[p] = "write" /\ next <= Len(events)
        /\ RefsOf[events[next]] \subseteq stored[p]
        /\ Len(view[p]) + Len(events) <= MaxEvents
        /\ pending' = [pending EXCEPT ![p] =
                          Append(@, NextRow(view[p] \o @, events[next]))]
        /\ UNCHANGED <<table, objects, lock, phase, op, view, stored, anchor, verdict, tampers>>

(* The transaction's rows become visible together. *)
Commit(p) ==
    /\ phase[p] = "write" /\ Len(pending[p]) = Len(EventsOf[op[p]])
    /\ table' = view[p] \o pending[p]
    /\ lock' = Free
    /\ phase' = [phase EXCEPT ![p] = "idle"]
    /\ pending' = [pending EXCEPT ![p] = <<>>]
    /\ stored' = [stored EXCEPT ![p] = {}]
    /\ UNCHANGED <<objects, op, view, anchor, verdict, tampers>>

(* transaction(): a reader's snapshot is the table at its first SELECT;    *)
(* it needs no lock.  A writer may have any number of rows in flight.      *)
Read(p) ==
    /\ phase[p] = "idle" /\ Chained(table)
    /\ phase' = [phase EXCEPT ![p] = "read"]
    /\ view' = [view EXCEPT ![p] = table]
    /\ UNCHANGED <<table, objects, lock, op, pending, stored, anchor, verdict, tampers>>

(* A reader ends; the checkpoint command lets the owner keep what it read. *)
EndRead(p) ==
    /\ phase[p] = "read"
    /\ phase' = [phase EXCEPT ![p] = "idle"]
    /\ anchor' \in {anchor, view[p]}
    /\ UNCHANGED <<table, objects, lock, op, view, pending, stored, verdict, tampers>>

(* The audit command: verify_checkpoint against the retained checkpoint; a  *)
(* broken chain is refused as well.                                        *)
Verify(p) ==
    /\ phase[p] = "idle"
    /\ IF Chained(table)
         THEN /\ view' = [view EXCEPT ![p] = table]
              /\ verdict' = [verdict EXCEPT ![p] =
                    IF Agrees(table, Checkpoint(anchor)) THEN "agrees" ELSE "refused"]
         ELSE /\ verdict' = [verdict EXCEPT ![p] = "refused"]
              /\ UNCHANGED view
    /\ UNCHANGED <<table, objects, lock, phase, op, pending, stored, anchor, tampers>>

-----------------------------------------------------------------------------
(* The owner of the file.  SQL triggers stop an UPDATE or DELETE by        *)
(* accident; whoever drops them can do all of this while nobody writes.    *)

(* A table whose rows from k on are chained again over the bodies given. *)
Rechained(k, bodies) ==
    [i \in 1..Len(bodies) |->
        IF i < k THEN table[i]
                 ELSE [body |-> bodies[i],
                       previous |-> SubSeq(bodies, 1, i - 1), hash |-> SubSeq(bodies, 1, i)]]

Tampered(k, e) ==
    {[table EXCEPT ![k].body = e],                          \* one body changed
     [i \in DOMAIN table \ {k} |-> table[i]],               \* one row deleted
     SubSeq(table, 1, k - 1),                               \* an older copy restored
     Rechained(k, [Bodies(table) EXCEPT ![k] = e])}         \* the history rewritten

Tamper ==
    /\ tampers < MaxTampers /\ lock = Free /\ Chained(table)
    /\ \E k \in DOMAIN table, e \in Event : table' \in Tampered(k, e)
    /\ tampers' = tampers + 1
    /\ UNCHANGED <<objects, lock, phase, op, view, pending, stored, anchor, verdict>>

Damage(d) ==
    /\ tampers < MaxTampers
    /\ objects' = [objects EXCEPT ![d] = FALSE]
    /\ tampers' = tampers + 1
    /\ UNCHANGED <<table, lock, phase, op, view, pending, stored, anchor, verdict>>

LedgerNext ==
    \/ \E p \in Process :
          \/ \E o \in Op : Start(p, o)
          \/ \E d \in Digest : Put(p, d)
          \/ BeginWrite(p) \/ AppendEvent(p) \/ Commit(p) \/ Abort(p)
          \/ Read(p) \/ EndRead(p) \/ Verify(p)
    \/ Tamper
    \/ \E d \in DOMAIN objects : Damage(d)

LedgerSpec == LedgerInit /\ [][LedgerNext]_ledgerVars

-----------------------------------------------------------------------------

(* Until somebody goes behind the API the ledger is an append-only log: no *)
(* committed event is lost or overwritten by a concurrent writer, an       *)
(* operation of several events is seen whole or not at all whatever        *)
(* crashes, every transaction starts from a history the ledger had, and    *)
(* the objects an event names were linked before it (store.py:84-96,131).  *)
Log == INSTANCE AppendOnlyLog WITH
          history <- Bodies(table), kept <- DOMAIN objects,
          view <- [p \in Process |-> Bodies(view[p])]
IsAppendOnlyLog == Log!LogInit /\ [][tampers' = 0 => [Log!LogNext]_Log!logVars]_ledgerVars

(* verify_checkpoint agrees only if the history read still starts with the *)
(* one whose checkpoint was retained, whatever the owner of the file did   *)
(* since: altered, deleted, restored or rewrote and re-hashed rows.  And   *)
(* nobody is alarmed without reason: a ledger that only its programs wrote *)
(* is never refused, also while others write (store.py:70-82,158-166).     *)
CheckpointDecides ==
    [][\A p \in Process : Verify(p) =>
          IF verdict'[p] = "agrees" THEN IsPrefix(Bodies(anchor), Bodies(table))
                                    ELSE tampers > 0]_ledgerVars
=============================================================================

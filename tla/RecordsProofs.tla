---------------------------- MODULE RecordsProofs ----------------------------
(***************************************************************************)
(* The ledger, the status statements and the trust file for any number of  *)
(* processes, recipients, commands and items and any bounds: each is safe  *)
(* by itself, and they share no variable.                                  *)
(***************************************************************************)
EXTENDS Ledger, StatusFeed, TrustFile, FiniteSetTheorems, SequenceTheorems, TLAPS

-----------------------------------------------------------------------------
(* Ledger: histories. *)

Row == [body : Event, previous : Seq(Event), hash : Seq(Event)]

BodiesTo(t, i) == [j \in 1..i |-> t[j].body]

(* A table nobody went behind: every row carries the digests of the bodies  *)
(* up to it.  Chained says so of neighbours only.                          *)
IsHistory(t) ==
    /\ t \in Seq(Row)
    /\ \A i \in 1..Len(t) : t[i].previous = BodiesTo(t, i - 1) /\ t[i].hash = BodiesTo(t, i)

StartsWith(t, s) == Len(s) <= Len(t) /\ \A i \in 1..Len(s) : t[i] = s[i]

(* The table is a history whenever read_events lets it pass, and as long   *)
(* as nobody went behind the API.                                          *)
TableInv == (Chained(table) \/ tampers = 0) => IsHistory(table)

(* Whoever holds the lock has read the table there is, and has inserted    *)
(* the first events of its operation, with their objects linked.           *)
WriterInv(p) ==
    /\ view[p] = table
    /\ IsHistory(view[p] \o pending[p])
    /\ Len(pending[p]) <= Len(EventsOf[op[p]])
    /\ \A i \in 1..Len(pending[p]) :
          /\ pending[p][i].body = EventsOf[op[p]][i]
          /\ RefsOf[EventsOf[op[p]][i]] \subseteq stored[p]

ProcessInv(p) ==
    /\ IsHistory(view[p]) /\ (tampers = 0 => StartsWith(table, view[p]))
    /\ stored[p] \subseteq DOMAIN objects
    /\ phase[p] = "write" <=> lock = p
    /\ phase[p] = "write" => WriterInv(p)
    /\ phase[p] # "write" => pending[p] = <<>>

AnchorInv == IsHistory(anchor) /\ (tampers = 0 => StartsWith(table, anchor))

LedgerShape ==
    /\ phase \in [Process -> {"idle", "working", "read", "write"}]
    /\ op \in [Process -> Op]
    /\ DOMAIN view = Process /\ pending \in [Process -> Seq(Row)]
    /\ DOMAIN stored = Process
    /\ verdict \in [Process -> {"none", "agrees", "refused"}]
    /\ tampers \in Nat

LedgerInv == LedgerShape /\ TableInv /\ AnchorInv /\ \A p \in Process : ProcessInv(p)

(* A new ledger is a history. *)
LEMMA EmptyHistory == IsHistory(<<>>)
BY DEF IsHistory

(* The bodies and the digests of a history are sequences of events. *)
LEMMA HistoryTypes ==
    ASSUME NEW t, IsHistory(t)
    PROVE  /\ Len(t) \in Nat /\ DOMAIN t = 1..Len(t)
           /\ \A i \in 1..Len(t) : t[i] \in Row /\ t[i].body \in Event
           /\ \A i \in 0..Len(t) : BodiesTo(t, i) \in Seq(Event) /\ Len(BodiesTo(t, i)) = i
           /\ Bodies(t) = BodiesTo(t, Len(t)) /\ Bodies(t) \in Seq(Event)
           /\ Len(Bodies(t)) = Len(t)
<1>1. t \in Seq(Row) /\ Len(t) \in Nat /\ DOMAIN t = 1..Len(t) BY DEF IsHistory
<1>2. \A i \in 1..Len(t) : t[i] \in Row /\ t[i].body \in Event
  <2>1. \A i \in 1..Len(t) : t[i] \in Row BY <1>1
  <2> QED BY <2>1 DEF Row
<1>3. ASSUME NEW i \in 0..Len(t)
      PROVE  BodiesTo(t, i) \in Seq(Event) /\ Len(BodiesTo(t, i)) = i
  <2>1. i \in Nat /\ \A j \in 1..i : t[j].body \in Event BY <1>1, <1>2
  <2> QED BY <2>1 DEF BodiesTo
<1>4. Bodies(t) = BodiesTo(t, Len(t)) BY <1>1 DEF Bodies, BodiesTo
<1>5. Bodies(t) \in Seq(Event) /\ Len(Bodies(t)) = Len(t) BY <1>1, <1>3, <1>4
<1> QED BY <1>1, <1>2, <1>3, <1>4, <1>5

(* One body more. *)
LEMMA BodiesGrow ==
    ASSUME NEW t, NEW n \in Nat, \A i \in 1..(n + 1) : t[i].body \in Event
    PROVE  BodiesTo(t, n + 1) = Append(BodiesTo(t, n), t[n + 1].body)
<1> DEFINE a == BodiesTo(t, n + 1)
           b == Append(BodiesTo(t, n), t[n + 1].body)
<1>1. /\ BodiesTo(t, n) \in Seq(Event) /\ Len(BodiesTo(t, n)) = n
      /\ \A i \in 1..n : BodiesTo(t, n)[i] = t[i].body
  BY DEF BodiesTo
<1>2. a \in Seq(Event) /\ Len(a) = n + 1 /\ \A i \in 1..(n + 1) : a[i] = t[i].body
  <2>1. n + 1 \in Nat OBVIOUS
  <2> QED BY <2>1 DEF BodiesTo
<1>3. /\ b \in Seq(Event) /\ Len(b) = n + 1 /\ b[n + 1] = t[n + 1].body
      /\ \A i \in 1..n : b[i] = t[i].body
  <2>1. t[n + 1].body \in Event OBVIOUS
  <2> QED BY <1>1, <2>1
<1>4. \A i \in 1..(n + 1) : a[i] = b[i] BY <1>2, <1>3
<1> HIDE DEF a, b
<1>5. a = b BY <1>2, <1>3, <1>4, SeqEqual
<1> QED BY <1>5 DEF a, b

(* The digest of the last row names all bodies. *)
LEMMA LastHashIs ==
    ASSUME NEW t, IsHistory(t)
    PROVE  LastHash(t) = BodiesTo(t, Len(t))
<1>1. Len(t) \in Nat /\ DOMAIN t = 1..Len(t) BY HistoryTypes
<1>2. CASE t = <<>>
  <2>1. BodiesTo(t, Len(t)) = <<>> BY <1>2 DEF BodiesTo
  <2> QED BY <1>2, <2>1 DEF LastHash, ZERO
<1>3. CASE t # <<>>
  <2>1. t \in Seq(Row) BY DEF IsHistory
  <2>2. Len(t) # 0 BY <1>3, <2>1
  <2>3. Len(t) \in 1..Len(t) BY <1>1, <2>2
  <2> QED BY <1>3, <2>3 DEF IsHistory, LastHash
<1> QED BY <1>2, <1>3

(* Transaction.append makes a longer history of a history. *)
LEMMA NextRowExtends ==
    ASSUME NEW t, IsHistory(t), NEW e \in Event
    PROVE  IsHistory(Append(t, NextRow(t, e)))
<1> DEFINE n == Len(t)
           u == Append(t, NextRow(t, e))
<1>1. /\ t \in Seq(Row) /\ n \in Nat
      /\ \A i \in 0..n : BodiesTo(t, i) \in Seq(Event) /\ Len(BodiesTo(t, i)) = i
  BY HistoryTypes DEF IsHistory
<1>2. NextRow(t, e).body = e /\ NextRow(t, e).previous = BodiesTo(t, n)
        /\ NextRow(t, e).hash = Append(BodiesTo(t, n), e)
  BY LastHashIs DEF NextRow, HashOf
<1>3. NextRow(t, e) \in Row
  <2>1. BodiesTo(t, n) \in Seq(Event) BY <1>1
  <2> QED BY <2>1, LastHashIs DEF NextRow, HashOf, Row
<1>4. /\ u \in Seq(Row) /\ Len(u) = n + 1
      /\ \A i \in 1..n : u[i] = t[i]
      /\ u[n + 1] = NextRow(t, e)
  BY <1>1, <1>3
<1>5. \A i \in 0..n : BodiesTo(u, i) = BodiesTo(t, i) BY <1>1, <1>4 DEF BodiesTo
<1>6. BodiesTo(u, n + 1) = Append(BodiesTo(t, n), e)
  <2>1. \A j \in 1..(n + 1) : u[j].body \in Event BY <1>1, <1>2, <1>4, HistoryTypes
  <2> HIDE DEF u
  <2>2. BodiesTo(u, n + 1) = Append(BodiesTo(u, n), u[n + 1].body) BY <1>1, <2>1, BodiesGrow
  <2>3. BodiesTo(u, n) = BodiesTo(t, n)
    <3>1. n \in 0..n BY <1>1
    <3> QED BY <1>5, <3>1
  <2>4. u[n + 1].body = e BY <1>2, <1>4
  <2> QED BY <2>2, <2>3, <2>4
<1>7. \A i \in 1..(n + 1) : u[i].previous = BodiesTo(u, i - 1) /\ u[i].hash = BodiesTo(u, i)
  <2> SUFFICES ASSUME NEW i \in 1..(n + 1)
               PROVE  u[i].previous = BodiesTo(u, i - 1) /\ u[i].hash = BodiesTo(u, i)
    OBVIOUS
  <2>1. CASE i \in 1..n
    <3>1. i \in 0..n /\ i - 1 \in 0..n BY <1>1, <2>1
    <3>2. u[i].previous = BodiesTo(t, i - 1) /\ u[i].hash = BodiesTo(t, i)
      BY <1>4, <2>1 DEF IsHistory
    <3> QED BY <1>5, <3>1, <3>2
  <2>2. CASE i = n + 1
    <3>1. n \in 0..n /\ i - 1 = n BY <1>1, <2>2
    <3>2. u[i].previous = BodiesTo(t, n) /\ u[i].hash = Append(BodiesTo(t, n), e)
      BY <1>2, <1>4, <2>2
    <3> QED BY <1>5, <1>6, <2>2, <3>1, <3>2
  <2> QED BY <1>1, <2>1, <2>2
<1> HIDE DEF u
<1>8. IsHistory(u) BY <1>4, <1>7 DEF IsHistory
<1> QED BY <1>8 DEF u

(* What verify_checkpoint asks of a retained history and the table. *)
LEMMA AgreesMeansPrefix ==
    ASSUME NEW t, IsHistory(t), NEW a, IsHistory(a), Agrees(t, Checkpoint(a))
    PROVE  IsPrefix(Bodies(a), Bodies(t))
<1> DEFINE n == Len(a)
<1>1. /\ n \in Nat /\ Len(t) \in Nat /\ n <= Len(t)
      /\ LastHash(a) = (IF n = 0 THEN ZERO ELSE t[n].hash)
  BY HistoryTypes DEF Agrees, Checkpoint
<1>2. /\ Bodies(a) = BodiesTo(a, n) /\ Bodies(a) \in Seq(Event) /\ Len(Bodies(a)) = n
      /\ Bodies(t) \in Seq(Event) /\ Len(Bodies(t)) = Len(t)
  BY HistoryTypes
<1>3. \A i \in 1..n : Bodies(a)[i] = Bodies(t)[i]
  <2>1. CASE n = 0 BY <2>1
  <2>2. CASE n # 0
    <3>1. n \in 1..Len(t) BY <1>1, <2>2
    <3>2. BodiesTo(a, n) = BodiesTo(t, n) BY <1>1, <2>2, <3>1, LastHashIs DEF IsHistory
    <3>3. \A i \in 1..n : BodiesTo(t, n)[i] = t[i].body BY DEF BodiesTo
    <3>4. \A i \in 1..n : Bodies(t)[i] = t[i].body BY <1>1, HistoryTypes DEF Bodies
    <3> QED BY <1>2, <3>2, <3>3, <3>4
  <2> QED BY <2>1, <2>2
<1>4. SubSeq(Bodies(a), 1, n) = SubSeq(Bodies(t), 1, n)
  <2> DEFINE x == SubSeq(Bodies(a), 1, n)
             y == SubSeq(Bodies(t), 1, n)
  <2>1. \A i \in 1..n : Bodies(a)[i] \in Event BY <1>2
  <2>2. \A i \in 1..n : Bodies(t)[i] \in Event BY <1>3, <2>1
  <2>3. /\ x \in Seq(Event) /\ Len(x) = (IF 1 <= n THEN n - 1 + 1 ELSE 0)
        /\ \A i \in 1..n - 1 + 1 : x[i] = Bodies(a)[1 + i - 1]
    BY <1>1, <2>1, SubSeqProperties
  <2>4. /\ y \in Seq(Event) /\ Len(y) = (IF 1 <= n THEN n - 1 + 1 ELSE 0)
        /\ \A i \in 1..n - 1 + 1 : y[i] = Bodies(t)[1 + i - 1]
    BY <1>1, <2>2, SubSeqProperties
  <2> HIDE DEF x, y
  <2>5. Len(x) = n /\ Len(y) = n BY <1>1, <2>3, <2>4
  <2>6. \A i \in 1..n : x[i] = y[i] BY <1>1, <1>3, <2>3, <2>4
  <2>7. x = y BY <2>3, <2>4, <2>5, <2>6, SeqEqual
  <2> QED BY <2>7 DEF x, y
<1> QED BY <1>1, <1>2, <1>4 DEF IsPrefix

(* A history that starts with the retained one agrees, and is chained.     *)
LEMMA HistoryAgrees ==
    ASSUME NEW t, IsHistory(t), NEW a, IsHistory(a), StartsWith(t, a)
    PROVE  Agrees(t, Checkpoint(a))
<1>1. Len(a) \in Nat /\ Len(t) \in Nat /\ Len(a) <= Len(t) BY HistoryTypes DEF StartsWith
<1>2. CASE Len(a) = 0
  <2>1. BodiesTo(a, 0) = <<>> BY DEF BodiesTo
  <2> QED BY <1>1, <1>2, <2>1, LastHashIs DEF Agrees, Checkpoint, ZERO
<1>3. CASE Len(a) # 0
  <2>1. Len(a) \in 1..Len(a) BY <1>1, <1>3
  <2>2. LastHash(a) = t[Len(a)].hash
    BY <2>1, LastHashIs DEF StartsWith, IsHistory
  <2> QED BY <1>1, <1>3, <2>2 DEF Agrees, Checkpoint
<1> QED BY <1>2, <1>3

(* Rows that carry their histories are chained. *)
LEMMA HistoryChained ==
    ASSUME NEW t, IsHistory(t)
    PROVE  Chained(t)
<1>1. Len(t) \in Nat /\ DOMAIN t = 1..Len(t) BY HistoryTypes
<1>2. DOMAIN t = 1..Cardinality(DOMAIN t)
  <2>1. Cardinality(1..Len(t)) = IF 1 > Len(t) THEN 0 ELSE Len(t) - 1 + 1
    BY <1>1, FS_Interval
  <2> QED BY <1>1, <2>1
<1>3. ASSUME NEW i \in DOMAIN t
      PROVE  /\ t[i].previous = (IF i = 1 THEN ZERO ELSE t[i - 1].hash)
             /\ t[i].hash = HashOf(t[i].previous, t[i].body)
  <2>1. t[i].previous = BodiesTo(t, i - 1) /\ t[i].hash = BodiesTo(t, i)
    BY <1>1, <1>3 DEF IsHistory
  <2>2. t[i].hash = HashOf(t[i].previous, t[i].body)
    <3>1. PICK n \in Nat : n = i - 1 /\ i = n + 1 BY <1>1
    <3>2. \A j \in 1..(n + 1) : t[j].body \in Event BY <1>1, <3>1, HistoryTypes
    <3>3. BodiesTo(t, n + 1) = Append(BodiesTo(t, n), t[n + 1].body) BY <3>2, BodiesGrow
    <3> QED BY <2>1, <3>1, <3>3 DEF HashOf
  <2>3. CASE i = 1
    <3>1. BodiesTo(t, 0) = <<>> BY DEF BodiesTo
    <3>2. t[i].previous = (IF i = 1 THEN ZERO ELSE t[i - 1].hash)
      BY <2>1, <2>3, <3>1 DEF ZERO
    <3> QED BY <2>2, <3>2
  <2>4. CASE i # 1
    <3>1. i - 1 \in 1..Len(t) BY <1>1, <2>4
    <3> QED BY <2>1, <2>2, <2>4, <3>1 DEF IsHistory
  <2> QED BY <2>3, <2>4
<1> QED BY <1>2, <1>3 DEF Chained

(* A prefix of a history is a history. *)
LEMMA PrefixHistory ==
    ASSUME NEW t, IsHistory(t), NEW n \in 0..Len(t), NEW u,
           u \in Seq(Row), Len(u) = n, \A i \in 1..n : u[i] = t[i]
    PROVE  IsHistory(u)
<1>1. Len(t) \in Nat BY HistoryTypes
<1>2. ASSUME NEW i \in 0..n PROVE BodiesTo(u, i) = BodiesTo(t, i) BY <1>1 DEF BodiesTo
<1>3. \A i \in 1..n : i \in 0..n /\ i - 1 \in 0..n /\ i \in 1..Len(t) BY <1>1
<1> QED BY <1>2, <1>3 DEF IsHistory

(* An interval without one number is an interval only if that was the last. *)
LEMMA IntervalWithout ==
    ASSUME NEW n \in Nat, NEW m \in Nat, NEW k \in 1..n, 1..m = (1..n) \ {k}
    PROVE  k = n /\ m = n - 1
<1>1. \A i : (i \in 1..m) <=> (i \in 1..n /\ i # k) OBVIOUS
<1>2. k = n
  <2>1. SUFFICES ASSUME k < n PROVE FALSE OBVIOUS
  <2>2. n \in 1..m BY <1>1, <2>1
  <2>3. k \in 1..m BY <2>1, <2>2
  <2> QED BY <1>1, <2>3
<1>3. m <= n - 1
  <2>1. m # 0 => m \in 1..m OBVIOUS
  <2> QED BY <1>1, <1>2, <2>1
<1>4. n - 1 <= m
  <2>1. n - 1 # 0 => n - 1 \in 1..n OBVIOUS
  <2> QED BY <1>1, <1>2, <2>1
<1> QED BY <1>2, <1>3, <1>4

(* Whatever is done to a history behind the API, the chain is broken or    *)
(* the result is a history again.                                          *)
LEMMA TamperedHistory ==
    ASSUME IsHistory(table), NEW k \in DOMAIN table, NEW e \in Event,
           NEW t \in Tampered(k, e), Chained(t)
    PROVE  IsHistory(t)
<1> DEFINE n == Len(table)
<1>1. /\ table \in Seq(Row) /\ n \in Nat /\ DOMAIN table = 1..n /\ k \in 1..n
      /\ \A i \in 1..n : table[i] \in Row /\ table[i].body \in Event
  BY HistoryTypes DEF IsHistory
<1>2. CASE t = [table EXCEPT ![k].body = e]
  <2>1. /\ t[k].body = e /\ t[k].previous = table[k].previous /\ t[k].hash = table[k].hash
    BY <1>1, <1>2 DEF Row
  <2>2. t[k].hash = HashOf(t[k].previous, e) BY <1>1, <1>2, <2>1 DEF Chained
  <2>3. table[k].hash = HashOf(table[k].previous, table[k].body)
    BY <1>1, HistoryChained DEF Chained
  <2>4. e = table[k].body
    <3>1. table[k].previous \in Seq(Event) BY <1>1 DEF Row
    <3>2. Append(table[k].previous, e) = Append(table[k].previous, table[k].body)
      BY <2>1, <2>2, <2>3 DEF HashOf
    <3>3. /\ Len(table[k].previous) \in Nat
          /\ Append(table[k].previous, e)[Len(table[k].previous) + 1] = e
          /\ Append(table[k].previous, table[k].body)[Len(table[k].previous) + 1] = table[k].body
      BY <1>1, <3>1
    <3> QED BY <3>2, <3>3
  <2>5. t = table
    <3>1. [table[k] EXCEPT !.body = e] = table[k] BY <1>1, <2>4 DEF Row
    <3>2. t = [table EXCEPT ![k] = [table[k] EXCEPT !.body = e]] BY <1>2
    <3> QED BY <1>1, <3>1, <3>2
  <2> QED BY <2>5
<1>3. CASE t = [i \in DOMAIN table \ {k} |-> table[i]]
  <2>1. PICK m : m \in Nat /\ DOMAIN t = 1..m
    <3>1. IsFiniteSet(1..n) BY <1>1, FS_Interval
    <3>2. IsFiniteSet(DOMAIN t) BY <1>1, <1>3, <3>1, FS_Subset
    <3> QED BY <3>2, FS_CardinalityType DEF Chained
  <2>2. DOMAIN t = (1..n) \ {k} BY <1>1, <1>3
  <2>3. k = n /\ m = n - 1
    <3>1. 1..m = (1..n) \ {k} BY <2>1, <2>2
    <3> HIDE DEF n
    <3> QED BY <1>1, <2>1, <3>1, IntervalWithout
  <2>5. t \in Seq(Row) /\ Len(t) = m
    <3>1. \A i \in 1..m : t[i] \in Row BY <1>1, <1>3, <2>1, <2>2
    <3>2. t = [i \in 1..m |-> t[i]] BY <1>3, <2>1
    <3> QED BY <2>1, <3>1, <3>2
  <2>6. m \in 0..n /\ \A i \in 1..m : t[i] = table[i]
    <3> HIDE DEF n
    <3> QED BY <1>1, <1>3, <2>1, <2>2, <2>3
  <2> QED BY <2>5, <2>6, PrefixHistory
<1>4. CASE t = SubSeq(table, 1, k - 1)
  <2>1. k - 1 \in 0..n /\ k - 1 \in Int /\ 1 \in Int BY <1>1
  <2>2. /\ t \in Seq(Row) /\ Len(t) = (IF 1 <= k - 1 THEN k - 1 - 1 + 1 ELSE 0)
        /\ \A i \in 1..k - 1 - 1 + 1 : t[i] = table[1 + i - 1]
    <3>1. \A i \in 1..k - 1 : table[i] \in Row BY <1>1
    <3> QED BY <1>4, <2>1, <3>1, SubSeqProperties
  <2>3. Len(t) = k - 1 /\ \A i \in 1..k - 1 : t[i] = table[i] BY <2>1, <2>2
  <2> QED BY <2>1, <2>2, <2>3, PrefixHistory
<1>5. CASE t = Rechained(k, [Bodies(table) EXCEPT ![k] = e])
  <2> DEFINE b == [Bodies(table) EXCEPT ![k] = e]
  <2>1. /\ Bodies(table) \in Seq(Event) /\ Len(Bodies(table)) = n
        /\ \A i \in 1..n : Bodies(table)[i] = table[i].body
    BY <1>1, HistoryTypes DEF Bodies
  <2>2. b \in Seq(Event) /\ Len(b) = n
    BY <1>1, <2>1, ExceptSeq
  <2>3. \A i \in 1..n : b[i] \in Event /\ (i # k => b[i] = table[i].body)
    BY <1>1, <2>1, <2>2
  <2> HIDE DEF b
  <2>4. t = [i \in 1..n |->
               IF i < k THEN table[i]
                 ELSE [body |-> b[i], previous |-> SubSeq(b, 1, i - 1), hash |-> SubSeq(b, 1, i)]]
    BY <1>5, <2>2 DEF Rechained, b
  <2>5. \A i \in 0..n : SubSeq(b, 1, i) = [j \in 1..i |-> b[j]]
    BY <1>1, <2>2, <2>3
  <2>6. \A i \in 1..n : t[i].body = b[i] BY <1>1, <2>3, <2>4
  <2>7. \A i \in 0..n : BodiesTo(t, i) = SubSeq(b, 1, i)
    BY <1>1, <2>5, <2>6 DEF BodiesTo
  <2>8. \A i \in 0..n : SubSeq(b, 1, i) \in Seq(Event)
    BY <1>1, <2>2, <2>3, SubSeqProperties
  <2>9. ASSUME NEW i \in 1..n
        PROVE  t[i] \in Row /\ t[i].previous = BodiesTo(t, i - 1) /\ t[i].hash = BodiesTo(t, i)
    <3>1. i - 1 \in 0..n /\ i \in 0..n BY <1>1
    <3>2. CASE i < k
      <4>1. /\ t[i] = table[i] /\ table[i].previous = BodiesTo(table, i - 1)
            /\ table[i].hash = BodiesTo(table, i)
        BY <1>1, <2>4, <3>2 DEF IsHistory
      <4>2. \A j \in 1..i : t[j].body = table[j].body BY <1>1, <2>3, <2>6, <3>2
      <4>3. BodiesTo(t, i - 1) = BodiesTo(table, i - 1) /\ BodiesTo(t, i) = BodiesTo(table, i)
        BY <1>1, <4>2 DEF BodiesTo
      <4> QED BY <1>1, <4>1, <4>3
    <3>3. CASE ~(i < k)
      <4>1. t[i] = [body |-> b[i], previous |-> SubSeq(b, 1, i - 1), hash |-> SubSeq(b, 1, i)]
        BY <2>4, <3>3
      <4> QED BY <2>3, <2>7, <2>8, <3>1, <4>1 DEF Row
    <3> QED BY <3>2, <3>3
  <2>10. t \in Seq(Row) /\ Len(t) = n
    <3>1. t = [i \in 1..n |-> t[i]] BY <2>4
    <3>2. \A i \in 1..n : t[i] \in Row BY <2>9
    <3> QED BY <1>1, <3>1, <3>2
  <2> QED BY <2>9, <2>10 DEF IsHistory
<1> QED BY <1>2, <1>3, <1>4, <1>5 DEF Tampered
(* StartsWith is a partial order with the empty history below all. *)
LEMMA Starts ==
    ASSUME NEW s, IsHistory(s), NEW t, IsHistory(t), NEW u, IsHistory(u)
    PROVE  /\ StartsWith(t, t)
           /\ StartsWith(t, <<>>)
           /\ StartsWith(t, s) /\ StartsWith(u, t) => StartsWith(u, s)
<1>1. Len(s) \in Nat /\ Len(t) \in Nat /\ Len(u) \in Nat BY HistoryTypes
<1>2. StartsWith(t, t) BY <1>1 DEF StartsWith
<1>3. StartsWith(t, <<>>) BY <1>1 DEF StartsWith
<1>4. StartsWith(t, s) /\ StartsWith(u, t) => StartsWith(u, s) BY <1>1 DEF StartsWith
<1> QED BY <1>2, <1>3, <1>4

(* Rows added at the end. *)
LEMMA Joined ==
    ASSUME NEW t, IsHistory(t), NEW rows \in Seq(Row)
    PROVE  /\ t \o rows \in Seq(Row)
           /\ Len(t \o rows) = Len(t) + Len(rows)
           /\ StartsWith(t \o rows, t)
           /\ \A row \in Row : t \o Append(rows, row) = Append(t \o rows, row)
           /\ \A events \in Seq(Event) :
                 Len(events) = Len(rows) /\ (\A i \in 1..Len(rows) : rows[i].body = events[i])
                    => Bodies(t \o rows) = Bodies(t) \o events
<1>1. t \in Seq(Row) /\ Len(t) \in Nat /\ Len(rows) \in Nat /\ DOMAIN t = 1..Len(t)
  BY HistoryTypes DEF IsHistory
<1>2. /\ t \o rows \in Seq(Row)
      /\ Len(t \o rows) = Len(t) + Len(rows)
      /\ \A i \in 1..(Len(t) + Len(rows)) :
            (t \o rows)[i] = IF i <= Len(t) THEN t[i] ELSE rows[i - Len(t)]
  BY <1>1, ConcatProperties
<1>3. StartsWith(t \o rows, t) BY <1>1, <1>2 DEF StartsWith
<1>4. ASSUME NEW row \in Row
      PROVE  t \o Append(rows, row) = Append(t \o rows, row)
  <2> DEFINE a == t \o Append(rows, row)
             b == Append(t \o rows, row)
  <2>1. /\ Append(rows, row) \in Seq(Row) /\ Len(Append(rows, row)) = Len(rows) + 1
        /\ Append(rows, row)[Len(rows) + 1] = row
        /\ \A i \in 1..Len(rows) : Append(rows, row)[i] = rows[i]
    BY <1>1
  <2>2. /\ a \in Seq(Row) /\ Len(a) = Len(t) + Len(Append(rows, row))
        /\ \A i \in 1..(Len(t) + Len(Append(rows, row))) :
              a[i] = IF i <= Len(t) THEN t[i] ELSE Append(rows, row)[i - Len(t)]
    BY <1>1, <2>1, ConcatProperties
  <2>3. /\ b \in Seq(Row) /\ Len(b) = Len(t) + Len(rows) + 1
        /\ b[Len(t) + Len(rows) + 1] = row
        /\ \A i \in 1..(Len(t) + Len(rows)) : b[i] = (t \o rows)[i]
    BY <1>1, <1>2
  <2> HIDE DEF a, b
  <2>4. \A i \in 1..Len(a) : a[i] = b[i]
    <3> SUFFICES ASSUME NEW i \in 1..Len(a) PROVE a[i] = b[i] OBVIOUS
    <3>1. CASE i <= Len(t) BY <1>1, <1>2, <2>1, <2>2, <2>3, <3>1
    <3>2. CASE i > Len(t) /\ i <= Len(t) + Len(rows)
      <4>1. i - Len(t) \in 1..Len(rows) BY <1>1, <2>1, <2>2, <3>2
      <4> QED BY <1>1, <1>2, <2>1, <2>2, <2>3, <3>2, <4>1
    <3>3. CASE i = Len(t) + Len(rows) + 1
      <4>1. i - Len(t) = Len(rows) + 1 BY <1>1, <3>3
      <4> QED BY <1>1, <2>1, <2>2, <2>3, <3>3, <4>1
    <3> QED BY <1>1, <2>1, <2>2, <3>1, <3>2, <3>3
  <2>5. Len(a) = Len(b) BY <1>1, <2>1, <2>2, <2>3
  <2>6. a = b BY <2>2, <2>3, <2>4, <2>5, SeqEqual
  <2> QED BY <2>6 DEF a, b
<1>5. ASSUME NEW events \in Seq(Event), Len(events) = Len(rows),
             \A i \in 1..Len(rows) : rows[i].body = events[i]
      PROVE  Bodies(t \o rows) = Bodies(t) \o events
  <2> DEFINE a == Bodies(t \o rows)
             b == Bodies(t) \o events
             n == Len(t) + Len(rows)
  <2>0. n \in Nat /\ DOMAIN (t \o rows) = 1..n BY <1>1, <1>2
  <2>1. /\ Bodies(t) \in Seq(Event) /\ Len(Bodies(t)) = Len(t)
        /\ \A i \in 1..Len(t) : Bodies(t)[i] = t[i].body
    BY <1>1, HistoryTypes DEF Bodies
  <2>2. /\ b \in Seq(Event) /\ Len(b) = n
        /\ \A i \in 1..n : b[i] = IF i <= Len(t) THEN Bodies(t)[i] ELSE events[i - Len(t)]
    <3>1. /\ b \in Seq(Event) /\ Len(b) = Len(Bodies(t)) + Len(events)
          /\ \A i \in 1..(Len(Bodies(t)) + Len(events)) :
                b[i] = IF i <= Len(Bodies(t)) THEN Bodies(t)[i] ELSE events[i - Len(Bodies(t))]
      <4>1. PICK x : x = Bodies(t) OBVIOUS
      <4>2. x \in Seq(Event) BY <2>1, <4>1
      <4> HIDE <2>1
      <4>3. /\ x \o events \in Seq(Event) /\ Len(x \o events) = Len(x) + Len(events)
            /\ \A i \in 1..(Len(x) + Len(events)) :
                  (x \o events)[i] = IF i <= Len(x) THEN x[i] ELSE events[i - Len(x)]
        BY <1>5, <4>2, ConcatProperties
      <4> QED BY <4>1, <4>3
    <3>2. Len(Bodies(t)) = Len(t) /\ Len(Bodies(t)) + Len(events) = n BY <1>5, <2>1
    <3> HIDE DEF b, n
    <3> QED BY <3>1, <3>2
  <2>3. a = [i \in 1..n |-> (t \o rows)[i].body] BY <2>0 DEF Bodies
  <2>4. \A i \in 1..n : (t \o rows)[i].body = b[i]
    <3> SUFFICES ASSUME NEW i \in 1..n PROVE (t \o rows)[i].body = b[i] OBVIOUS
    <3>1. CASE i <= Len(t)
      <4>1. i \in 1..Len(t) BY <1>1, <3>1
      <4> QED BY <1>2, <2>1, <2>2, <3>1, <4>1
    <3>2. CASE ~(i <= Len(t))
      <4>1. i - Len(t) \in 1..Len(rows) BY <1>1, <3>2
      <4> QED BY <1>2, <1>5, <2>2, <3>2, <4>1
    <3> QED BY <3>1, <3>2
  <2> HIDE DEF b
  <2>5. \A i \in 1..n : b[i] \in Event BY <2>2
  <2>6. a \in Seq(Event) /\ Len(a) = n BY <2>0, <2>3, <2>4, <2>5
  <2>7. \A i \in 1..n : a[i] = b[i] BY <2>3, <2>4
  <2> HIDE DEF a, n
  <2>8. a = b BY <2>2, <2>6, <2>7, SeqEqual
  <2> QED BY <2>8 DEF a, b
<1> QED BY <1>2, <1>3, <1>4, <1>5

-----------------------------------------------------------------------------
(* Ledger: the inductive invariant. *)

(* The invariant holds of a new ledger. *)
LEMMA InitLedgerInv == LedgerInit => LedgerInv
<1> SUFFICES ASSUME LedgerInit PROVE LedgerInv OBVIOUS
<1>1. LedgerShape BY LedgerAssumption DEF LedgerInit, LedgerShape
<1>2. TableInv BY EmptyHistory DEF LedgerInit, TableInv
<1>3. AnchorInv BY EmptyHistory, Starts DEF LedgerInit, AnchorInv
<1>4. ASSUME NEW p \in Process PROVE ProcessInv(p)
  BY EmptyHistory, Starts, LedgerAssumption DEF LedgerInit, ProcessInv
<1> QED BY <1>1, <1>2, <1>3, <1>4 DEF LedgerInv

(* A process that another one's step leaves alone. *)
LEMMA ProcessFrame ==
    ASSUME NEW q \in Process, ProcessInv(q), TableInv,
           phase'[q] = phase[q], op'[q] = op[q], view'[q] = view[q],
           pending'[q] = pending[q], stored'[q] = stored[q],
           lock'  = q <=> lock = q, DOMAIN objects \subseteq DOMAIN objects',
           \/ UNCHANGED <<table, tampers>>
           \/ phase[q] # "write" /\ tampers' # 0
           \/ /\ phase[q] # "write" /\ tampers' = tampers
              /\ tampers = 0 => IsHistory(table') /\ StartsWith(table', table)
    PROVE  ProcessInv(q)'
<1>1. IsHistory(view[q])' BY DEF ProcessInv, IsHistory, BodiesTo
<1>2. (tampers = 0 => StartsWith(table, view[q]))'
  <2>1. SUFFICES ASSUME tampers' = 0 PROVE StartsWith(table, view[q])' OBVIOUS
  <2>2. CASE UNCHANGED <<table, tampers>> BY <2>1, <2>2 DEF ProcessInv, StartsWith
  <2>3. CASE /\ tampers' = tampers
             /\ tampers = 0 => IsHistory(table') /\ StartsWith(table', table)
    <3>1. IsHistory(table) /\ StartsWith(table, view[q]) /\ IsHistory(view[q])
      BY <2>1, <2>3 DEF ProcessInv, TableInv
    <3> QED BY <2>1, <2>3, <3>1, Starts DEF StartsWith
  <2> QED BY <2>1, <2>2, <2>3
<1>3. (phase[q] = "write" => WriterInv(q))'
  <2>1. SUFFICES ASSUME phase[q] = "write" PROVE WriterInv(q)' OBVIOUS
  <2>2. table' = table /\ WriterInv(q) BY <2>1 DEF ProcessInv
  <2>3. IsHistory(view[q] \o pending[q])'
    <3>1. IsHistory(view'[q] \o pending'[q]) BY <2>2 DEF WriterInv
    <3> QED BY <3>1 DEF IsHistory, BodiesTo
  <2> QED BY <2>2, <2>3 DEF WriterInv
<1> QED BY <1>1, <1>2, <1>3 DEF ProcessInv

(* Who changes neither the table nor what others see keeps everything but   *)
(* its own part.                                                           *)
LEMMA LocalStep ==
    ASSUME LedgerInv, NEW p \in Process, UNCHANGED <<table, tampers, anchor>>,
           LedgerShape', ProcessInv(p)',
           \A q \in Process \ {p} :
              /\ phase'[q] = phase[q] /\ op'[q] = op[q] /\ view'[q] = view[q]
              /\ pending'[q] = pending[q] /\ stored'[q] = stored[q]
              /\ lock' = q <=> lock = q,
           DOMAIN objects \subseteq DOMAIN objects'
    PROVE  LedgerInv'
<1>1. TableInv' /\ AnchorInv'
  <2>1. Chained(table)' = Chained(table) BY DEF Chained
  <2>2. IsHistory(table) => IsHistory(table)' BY DEF IsHistory, BodiesTo
  <2>3. IsHistory(anchor) => IsHistory(anchor)' BY DEF IsHistory, BodiesTo
  <2>4. StartsWith(table, anchor)' = StartsWith(table, anchor) BY DEF StartsWith
  <2> QED BY <2>1, <2>2, <2>3, <2>4 DEF LedgerInv, TableInv, AnchorInv
<1>2. ASSUME NEW q \in Process PROVE ProcessInv(q)'
  <2>1. CASE q = p BY <2>1
  <2>2. CASE q # p
    <3>1. ProcessInv(q) /\ TableInv BY DEF LedgerInv
    <3> QED BY <2>2, <3>1, ProcessFrame
  <2> QED BY <2>1, <2>2
<1> QED BY <1>1, <1>2 DEF LedgerInv

(* Read, BeginWrite and Verify read the whole table, which is a history.   *)
LEMMA ReadSteps ==
    ASSUME LedgerInv, NEW p \in Process, Read(p) \/ BeginWrite(p) \/ Verify(p)
    PROVE  LedgerInv'
<1> USE DEF LedgerInv
<1>1. UNCHANGED <<table, tampers, anchor, objects>> BY DEF Read, BeginWrite, Verify
<1>2. LedgerShape' BY DEF Read, BeginWrite, Verify, LedgerShape
<1>3. ProcessInv(p) /\ phase[p] # "write" BY DEF Read, BeginWrite, Verify
<1>4. UNCHANGED <<op, pending, stored>> BY DEF Read, BeginWrite, Verify
<1>5. \A q \in Process \ {p} :
        phase'[q] = phase[q] /\ view'[q] = view[q] /\ (lock' = q <=> lock = q)
  BY LedgerAssumption DEF Read, BeginWrite, Verify, LedgerShape
<1>6. lock' = p <=> phase'[p] = "write"
  BY <1>3, LedgerAssumption DEF Read, BeginWrite, Verify, LedgerShape, ProcessInv
<1>7. pending[p] = <<>> BY <1>3 DEF ProcessInv
<1>8. CASE view'[p] = table /\ Chained(table)
  <2>1. IsHistory(table) BY <1>8 DEF TableInv
  <2>2. IsHistory(view[p])' BY <1>8, <2>1 DEF IsHistory, BodiesTo
  <2>3. StartsWith(table, view[p])' BY <1>1, <1>8, <2>1, Starts DEF StartsWith
  <2>4. (phase[p] = "write" => WriterInv(p))'
    <3>1. table \in Seq(Row) BY <2>1 DEF IsHistory
    <3>2. view'[p] \o pending'[p] = table BY <1>4, <1>7, <1>8, <3>1
    <3>3. IsHistory(view'[p] \o pending'[p]) BY <2>1, <3>2
    <3>4. IsHistory(view[p] \o pending[p])' BY <3>3 DEF IsHistory, BodiesTo
    <3>5. Len(EventsOf[op[p]]) \in Nat BY LedgerAssumption DEF LedgerShape
    <3>6. pending'[p] = <<>> /\ op' = op BY <1>4, <1>7
    <3> QED BY <1>1, <1>8, <3>4, <3>5, <3>6 DEF WriterInv
  <2>5. ProcessInv(p)'
    BY <1>1, <1>3, <1>4, <1>6, <1>7, <2>2, <2>3, <2>4 DEF ProcessInv
  <2> QED BY <1>1, <1>2, <1>4, <1>5, <2>5, LocalStep
<1>9. CASE view' = view /\ phase'[p] # "write"
  <2>1. IsHistory(view[p])' BY <1>3, <1>9 DEF ProcessInv, IsHistory, BodiesTo
  <2>2. (tampers = 0 => StartsWith(table, view[p]))'
    BY <1>1, <1>3, <1>9 DEF ProcessInv, StartsWith
  <2>3. ProcessInv(p)' BY <1>1, <1>3, <1>4, <1>6, <1>7, <1>9, <2>1, <2>2 DEF ProcessInv
  <2> QED BY <1>1, <1>2, <1>4, <1>5, <2>3, LocalStep
<1> QED BY <1>8, <1>9 DEF Read, BeginWrite, Verify, LedgerShape

(* Start, Put and AppendEvent. *)
LEMMA WorkSteps ==
    ASSUME LedgerInv, NEW p \in Process,
           (\E o \in Op : Start(p, o)) \/ (\E d \in Digest : Put(p, d)) \/ AppendEvent(p)
    PROVE  LedgerInv'
<1> USE DEF LedgerInv
<1>1. UNCHANGED <<table, tampers, anchor, lock, view>> BY DEF Start, Put, AppendEvent
<1>2. ProcessInv(p) OBVIOUS
<1>3. IsHistory(view[p])' BY <1>1, <1>2 DEF ProcessInv, IsHistory, BodiesTo
<1>4. (tampers = 0 => StartsWith(table, view[p]))'
  BY <1>1, <1>2 DEF ProcessInv, StartsWith
<1>5. ASSUME NEW o \in Op, Start(p, o) PROVE LedgerInv'
  <2>1. /\ phase[p] = "idle" /\ phase' = [phase EXCEPT ![p] = "working"]
        /\ op' = [op EXCEPT ![p] = o] /\ UNCHANGED <<objects, pending, stored, verdict>>
    BY <1>5 DEF Start
  <2>2. LedgerShape' BY <1>1, <2>1 DEF LedgerShape
  <2>3. phase'[p] = "working" BY <2>1 DEF LedgerShape
  <2>4. ProcessInv(p)' BY <1>1, <1>2, <1>3, <1>4, <2>1, <2>3 DEF ProcessInv
  <2>5. \A q \in Process \ {p} : phase'[q] = phase[q] /\ op'[q] = op[q]
    BY <2>1 DEF LedgerShape
  <2> QED BY <1>1, <2>1, <2>2, <2>4, <2>5, LocalStep
<1>6. ASSUME NEW d \in Digest, Put(p, d) PROVE LedgerInv'
  <2>1. /\ stored' = [stored EXCEPT ![p] = @ \cup {d}] /\ DOMAIN objects' = DOMAIN objects \cup {d}
        /\ UNCHANGED <<phase, op, pending, verdict>>
    BY <1>6 DEF Put
  <2>2. LedgerShape' BY <1>1, <2>1 DEF LedgerShape
  <2>3. stored'[p] = stored[p] \cup {d} BY <2>1 DEF LedgerShape
  <2>4. (phase[p] = "write" => WriterInv(p))'
    <3>1. SUFFICES ASSUME phase[p] = "write" PROVE WriterInv(p)' BY <2>1
    <3>2. WriterInv(p) BY <1>2, <3>1 DEF ProcessInv
    <3>3. IsHistory(view'[p] \o pending'[p]) BY <1>1, <2>1, <3>2 DEF WriterInv
    <3>4. IsHistory(view[p] \o pending[p])' BY <3>3 DEF IsHistory, BodiesTo
    <3> QED BY <1>1, <2>1, <2>3, <3>2, <3>4 DEF WriterInv
  <2>5. ProcessInv(p)' BY <1>1, <1>2, <1>3, <1>4, <2>1, <2>3, <2>4 DEF ProcessInv
  <2>6. \A q \in Process \ {p} : stored'[q] = stored[q] BY <2>1 DEF LedgerShape
  <2> QED BY <1>1, <2>1, <2>2, <2>5, <2>6, LocalStep
<1>7. CASE AppendEvent(p)
  <2> DEFINE events == EventsOf[op[p]]
             rows   == view[p] \o pending[p]
             next   == Len(pending[p]) + 1
  <2>1. /\ phase[p] = "write" /\ next <= Len(events) /\ RefsOf[events[next]] \subseteq stored[p]
        /\ pending' = [pending EXCEPT ![p] = Append(@, NextRow(view[p] \o @, events[next]))]
        /\ UNCHANGED <<objects, phase, op, stored, verdict>>
    BY <1>7 DEF AppendEvent
  <2>2. /\ WriterInv(p) /\ IsHistory(view[p]) /\ IsHistory(rows)
        /\ pending[p] \in Seq(Row) /\ Len(pending[p]) \in Nat
    <3>1. WriterInv(p) /\ IsHistory(view[p]) BY <1>2, <2>1 DEF ProcessInv
    <3>2. pending[p] \in Seq(Row) BY DEF LedgerShape
    <3> QED BY <3>1, <3>2 DEF WriterInv
  <2>3. events \in Seq(Event) /\ events[next] \in Event
    <3>1. events \in Seq(Event) BY LedgerAssumption DEF LedgerShape
    <3>2. next \in 1..Len(events) BY <2>1, <2>2, <3>1
    <3> QED BY <3>1, <3>2
  <2>4. pending'[p] = Append(pending[p], NextRow(rows, events[next]))
    BY <2>1 DEF LedgerShape
  <2>5. NextRow(rows, events[next]) \in Row /\ NextRow(rows, events[next]).body = events[next]
    <3>1. Append(rows, NextRow(rows, events[next])) \in Seq(Row)
      BY <2>2, <2>3, NextRowExtends DEF IsHistory
    <3>2. LastHash(rows) \in Seq(Event) BY <2>2, HistoryTypes, LastHashIs
    <3>3. HashOf(LastHash(rows), events[next]) \in Seq(Event) BY <2>3, <3>2 DEF HashOf
    <3> QED BY <2>3, <3>2, <3>3 DEF NextRow, Row
  <2> HIDE DEF events, rows, next
  <2>6. /\ pending'[p] \in Seq(Row) /\ Len(pending'[p]) = Len(pending[p]) + 1
        /\ pending'[p][Len(pending[p]) + 1] = NextRow(rows, events[next])
        /\ \A i \in 1..Len(pending[p]) : pending'[p][i] = pending[p][i]
    BY <2>2, <2>4, <2>5
  <2>7. LedgerShape'
    <3>1. pending' \in [Process -> Seq(Row)] BY <2>1, <2>6 DEF LedgerShape
    <3> QED BY <1>1, <2>1, <3>1 DEF LedgerShape
  <2>8. WriterInv(p)'
    <3>1. view'[p] \o pending'[p] = Append(rows, NextRow(rows, events[next]))
      <4>1. view[p] \o Append(pending[p], NextRow(rows, events[next]))
              = Append(view[p] \o pending[p], NextRow(rows, events[next]))
        <5> DEFINE row == NextRow(rows, events[next])
        <5>1. row \in Row BY <2>5
        <5> HIDE DEF row
        <5>2. view[p] \o Append(pending[p], row) = Append(view[p] \o pending[p], row)
          BY <2>2, <5>1, Joined
        <5> QED BY <5>2 DEF row
      <4> QED BY <1>1, <2>4, <4>1 DEF rows
    <3>2. IsHistory(view'[p] \o pending'[p]) BY <2>2, <2>3, <3>1, NextRowExtends
    <3>3. IsHistory(view[p] \o pending[p])' BY <3>2 DEF IsHistory, BodiesTo
    <3>4. ASSUME NEW i \in 1..Len(pending'[p])
          PROVE  /\ pending'[p][i].body = EventsOf[op[p]][i]
                 /\ RefsOf[EventsOf[op[p]][i]] \subseteq stored[p]
      <4>1. CASE i \in 1..Len(pending[p]) BY <2>2, <2>6, <4>1 DEF WriterInv
      <4>2. CASE i = Len(pending[p]) + 1
        BY <2>1, <2>5, <2>6, <4>2 DEF events, next
      <4> QED BY <2>2, <2>6, <4>1, <4>2
    <3>5. view'[p] = table' BY <1>1, <2>2 DEF WriterInv
    <3>6. Len(pending'[p]) <= Len(EventsOf[op[p]]) BY <2>1, <2>6 DEF events, next
    <3> QED BY <2>1, <3>3, <3>4, <3>5, <3>6 DEF WriterInv
  <2>9. ProcessInv(p)' BY <1>1, <1>2, <1>3, <1>4, <2>1, <2>8 DEF ProcessInv
  <2>10. \A q \in Process \ {p} : pending'[q] = pending[q] BY <2>1 DEF LedgerShape
  <2> QED BY <1>1, <2>1, <2>7, <2>9, <2>10, LocalStep
<1> QED BY <1>5, <1>6, <1>7

(* Abort and EndRead. *)
LEMMA EndSteps ==
    ASSUME LedgerInv, NEW p \in Process, Abort(p) \/ EndRead(p)
    PROVE  LedgerInv'
<1> USE DEF LedgerInv
<1>1. UNCHANGED <<table, tampers, objects, view, op>> BY DEF Abort, EndRead
<1>2. ProcessInv(p) OBVIOUS
<1>3. LedgerShape'
  <2>1. <<>> \in Seq(Row) OBVIOUS
  <2>2. phase' = [phase EXCEPT ![p] = "idle"] BY DEF Abort, EndRead
  <2>3. pending' = pending \/ pending' = [pending EXCEPT ![p] = <<>>] BY DEF Abort, EndRead
  <2>4. stored' = stored \/ stored' = [stored EXCEPT ![p] = {}] BY DEF Abort, EndRead
  <2>5. verdict' \in [Process -> {"none", "agrees", "refused"}]
    BY DEF Abort, EndRead, LedgerShape
  <2>6. phase' \in [Process -> {"idle", "working", "read", "write"}] BY <2>2 DEF LedgerShape
  <2>7. pending' \in [Process -> Seq(Row)] BY <2>1, <2>3 DEF LedgerShape
  <2>8. DOMAIN stored' = Process BY <2>4 DEF LedgerShape
  <2> QED BY <1>1, <2>5, <2>6, <2>7, <2>8 DEF LedgerShape
<1>4. phase'[p] = "idle" /\ pending'[p] = <<>> /\ stored'[p] \subseteq stored[p]
  BY <1>2 DEF Abort, EndRead, LedgerShape, ProcessInv
<1>5. lock' # p
  BY <1>2, LedgerAssumption DEF Abort, EndRead, ProcessInv
<1>6. ProcessInv(p)'
  <2>1. IsHistory(view[p])' BY <1>1, <1>2 DEF ProcessInv, IsHistory, BodiesTo
  <2>2. (tampers = 0 => StartsWith(table, view[p]))'
    BY <1>1, <1>2 DEF ProcessInv, StartsWith
  <2> QED BY <1>1, <1>2, <1>4, <1>5, <2>1, <2>2 DEF ProcessInv
<1>7. ASSUME NEW q \in Process \ {p} PROVE ProcessInv(q)'
  <2>1. phase'[q] = phase[q] /\ pending'[q] = pending[q] /\ stored'[q] = stored[q]
    BY DEF Abort, EndRead, LedgerShape
  <2>2. lock' = q <=> lock = q BY LedgerAssumption DEF Abort, EndRead
  <2> QED BY <1>1, <2>1, <2>2, ProcessFrame
<1>8. TableInv'
  <2>1. Chained(table)' = Chained(table) BY <1>1 DEF Chained
  <2>2. IsHistory(table) => IsHistory(table)' BY <1>1 DEF IsHistory, BodiesTo
  <2> QED BY <1>1, <2>1, <2>2 DEF TableInv
<1>9. AnchorInv'
  <2>1. anchor' = anchor \/ anchor' = view[p] BY DEF Abort, EndRead
  <2>2. IsHistory(anchor') /\ (tampers = 0 => StartsWith(table, anchor'))
    BY <1>2, <2>1 DEF AnchorInv, ProcessInv
  <2>3. IsHistory(anchor)' BY <2>2 DEF IsHistory, BodiesTo
  <2>4. (tampers = 0 => StartsWith(table, anchor))' BY <1>1, <2>2 DEF StartsWith
  <2> QED BY <2>3, <2>4 DEF AnchorInv
<1> QED BY <1>3, <1>6, <1>7, <1>8, <1>9

(* A commit appends the whole operation to the table there is. *)
LEMMA Committed ==
    ASSUME LedgerInv, NEW p \in Process, Commit(p)
    PROVE  /\ IsHistory(table) /\ IsHistory(table') /\ StartsWith(table', table)
           /\ Bodies(table') = Bodies(table) \o EventsOf[op[p]]
           /\ \A i \in DOMAIN EventsOf[op[p]] :
                 RefsOf[EventsOf[op[p]][i]] \subseteq DOMAIN objects
<1>1. /\ phase[p] = "write" /\ Len(pending[p]) = Len(EventsOf[op[p]])
      /\ table' = view[p] \o pending[p]
  BY DEF Commit
<1>2. ProcessInv(p) /\ WriterInv(p) BY <1>1 DEF LedgerInv, ProcessInv
<1>3. /\ IsHistory(table) /\ IsHistory(table') /\ table' = table \o pending[p]
      /\ pending[p] \in Seq(Row) /\ EventsOf[op[p]] \in Seq(Event)
  BY <1>1, <1>2, LedgerAssumption DEF LedgerInv, LedgerShape, ProcessInv, WriterInv
<1>4. StartsWith(table', table) BY <1>3, Joined
<1>5. \A i \in 1..Len(pending[p]) : pending[p][i].body = EventsOf[op[p]][i]
  BY <1>2 DEF WriterInv
<1>6. Bodies(table \o pending[p]) = Bodies(table) \o EventsOf[op[p]]
  BY <1>1, <1>3, <1>5, Joined
<1>7. DOMAIN EventsOf[op[p]] = 1..Len(pending[p]) BY <1>1, <1>3
<1>8. \A i \in DOMAIN EventsOf[op[p]] : RefsOf[EventsOf[op[p]][i]] \subseteq DOMAIN objects
  BY <1>2, <1>7 DEF WriterInv, ProcessInv
<1> QED BY <1>3, <1>4, <1>6, <1>8

(* A commit puts the writer's whole operation into the table. *)
LEMMA CommitSteps ==
    ASSUME LedgerInv, NEW p \in Process, Commit(p)
    PROVE  LedgerInv'
<1> USE DEF LedgerInv
<1>1. /\ phase[p] = "write" /\ phase' = [phase EXCEPT ![p] = "idle"] /\ lock' = Free
      /\ pending' = [pending EXCEPT ![p] = <<>>] /\ stored' = [stored EXCEPT ![p] = {}]
      /\ UNCHANGED <<objects, op, view, anchor, verdict, tampers>>
  BY DEF Commit
<1>2. ProcessInv(p) /\ lock = p BY <1>1 DEF ProcessInv
<1>3. IsHistory(table) /\ IsHistory(table') /\ StartsWith(table', table) BY Committed
<1>4. LedgerShape'
  <2>1. <<>> \in Seq(Row) OBVIOUS
  <2> QED BY <1>1, <2>1 DEF LedgerShape
<1>5. ASSUME NEW t, IsHistory(t), tampers = 0 => StartsWith(table, t)
      PROVE  tampers = 0 => StartsWith(table', t)
  BY <1>3, <1>5, Starts
<1>6. ProcessInv(p)'
  <2>1. phase'[p] = "idle" /\ pending'[p] = <<>> /\ stored'[p] = {} BY <1>1 DEF LedgerShape
  <2>2. IsHistory(view[p])' BY <1>1, <1>2 DEF ProcessInv, IsHistory, BodiesTo
  <2>3. tampers' = 0 => StartsWith(table', view'[p]) BY <1>1, <1>2, <1>5 DEF ProcessInv
  <2>4. (tampers = 0 => StartsWith(table, view[p]))' BY <2>3 DEF StartsWith
  <2> QED BY <1>1, <2>1, <2>2, <2>4, LedgerAssumption DEF ProcessInv
<1>7. ASSUME NEW q \in Process \ {p} PROVE ProcessInv(q)'
  <2>1. phase'[q] = phase[q] /\ pending'[q] = pending[q] /\ stored'[q] = stored[q]
    BY <1>1 DEF LedgerShape
  <2>2. ProcessInv(q) /\ lock # q /\ lock' # q BY <1>1, <1>2, LedgerAssumption
  <2>3. phase[q] # "write" BY <2>2 DEF ProcessInv
  <2> QED BY <1>1, <1>3, <2>1, <2>2, <2>3, ProcessFrame
<1>8. TableInv' BY <1>3 DEF TableInv, IsHistory, BodiesTo
<1>9. AnchorInv'
  <2>1. IsHistory(anchor)' BY <1>1 DEF AnchorInv, IsHistory, BodiesTo
  <2>2. tampers' = 0 => StartsWith(table', anchor') BY <1>1, <1>5 DEF AnchorInv
  <2>3. (tampers = 0 => StartsWith(table, anchor))' BY <2>2 DEF StartsWith
  <2> QED BY <2>1, <2>3 DEF AnchorInv
<1> QED BY <1>4, <1>6, <1>7, <1>8, <1>9

(* The owner of the file breaks the chain or leaves a history. *)
LEMMA OwnerSteps ==
    ASSUME LedgerInv, Tamper \/ \E d \in DOMAIN objects : Damage(d)
    PROVE  LedgerInv'
<1> USE DEF LedgerInv
<1>1. /\ UNCHANGED <<lock, phase, op, view, pending, stored, anchor, verdict>>
      /\ tampers' = tampers + 1 /\ DOMAIN objects' = DOMAIN objects
  BY DEF Tamper, Damage
<1>2. tampers' # 0 /\ tampers' \in Nat BY <1>1 DEF LedgerShape
<1>3. LedgerShape' BY <1>1, <1>2 DEF LedgerShape
<1>4. TableInv'
  <2>1. SUFFICES ASSUME Chained(table)' PROVE IsHistory(table)' BY <1>2 DEF TableInv
  <2>2. Chained(table') BY <2>1 DEF Chained
  <2>3. CASE Tamper
    <3>1. PICK k \in DOMAIN table, e \in Event : table' \in Tampered(k, e) BY <2>3 DEF Tamper
    <3>2. IsHistory(table) BY <2>3 DEF Tamper, TableInv
    <3>3. IsHistory(table') BY <2>2, <3>1, <3>2, TamperedHistory
    <3> QED BY <3>3 DEF IsHistory, BodiesTo
  <2>4. CASE table' = table
    <3>1. IsHistory(table') BY <2>2, <2>4 DEF TableInv
    <3> QED BY <3>1 DEF IsHistory, BodiesTo
  <2> QED BY <2>3, <2>4 DEF Damage
<1>5. AnchorInv'
  <2>1. IsHistory(anchor)' BY <1>1 DEF AnchorInv, IsHistory, BodiesTo
  <2> QED BY <1>2, <2>1 DEF AnchorInv
<1>6. ASSUME NEW q \in Process PROVE ProcessInv(q)'
  <2>1. CASE phase[q] = "write"
    <3>1. lock = q BY <2>1 DEF ProcessInv
    <3>2. table' = table BY <3>1, LedgerAssumption DEF Tamper, Damage
    <3>3. WriterInv(q) /\ IsHistory(view[q]) BY <2>1 DEF ProcessInv
    <3>4. IsHistory(view'[q] \o pending'[q]) BY <1>1, <3>3 DEF WriterInv
    <3>5. IsHistory(view[q] \o pending[q])' BY <3>4 DEF IsHistory, BodiesTo
    <3>6. WriterInv(q)' BY <1>1, <3>2, <3>3, <3>5 DEF WriterInv
    <3>7. IsHistory(view[q])' BY <1>1, <3>3 DEF IsHistory, BodiesTo
    <3> QED BY <1>1, <1>2, <2>1, <3>6, <3>7 DEF ProcessInv
  <2>2. CASE phase[q] # "write"
    <3>1. ProcessInv(q) /\ TableInv OBVIOUS
    <3> QED BY <1>1, <1>2, <2>2, <3>1, ProcessFrame
  <2> QED BY <2>1, <2>2
<1> QED BY <1>3, <1>4, <1>5, <1>6

(* Every step of processes and owner keeps the invariant. *)
LEMMA StepLedgerInv ==
    ASSUME LedgerInv, [LedgerNext]_ledgerVars
    PROVE  LedgerInv'
<1>1. CASE UNCHANGED ledgerVars
  <2>1. TableInv' /\ AnchorInv'
    <3>1. Chained(table)' = Chained(table) BY <1>1 DEF Chained, ledgerVars
    <3>2. IsHistory(table) => IsHistory(table)' BY <1>1 DEF IsHistory, BodiesTo, ledgerVars
    <3>3. IsHistory(anchor) => IsHistory(anchor)' BY <1>1 DEF IsHistory, BodiesTo, ledgerVars
    <3>4. StartsWith(table, anchor)' = StartsWith(table, anchor)
      BY <1>1 DEF StartsWith, ledgerVars
    <3> QED BY <1>1, <3>1, <3>2, <3>3, <3>4 DEF LedgerInv, TableInv, AnchorInv, ledgerVars
  <2>2. LedgerShape' BY <1>1 DEF LedgerInv, LedgerShape, ledgerVars
  <2>3. ASSUME NEW q \in Process PROVE ProcessInv(q)'
    BY <1>1, ProcessFrame DEF LedgerInv, ledgerVars
  <2> QED BY <2>1, <2>2, <2>3 DEF LedgerInv
<1>2. CASE LedgerNext
  BY <1>2, ReadSteps, WorkSteps, EndSteps, CommitSteps, OwnerSteps DEF LedgerNext
<1> QED BY <1>1, <1>2
-----------------------------------------------------------------------------
(* Ledger: the theorems. *)

(* What the steps of the ledger mean to the log it implements. *)
LEMMA InitLog == LedgerInit => Log!LogInit
<1> SUFFICES ASSUME LedgerInit PROVE Log!LogInit OBVIOUS
<1>1. Bodies(<<>>) = <<>> BY DEF Bodies
<1>2. DOMAIN objects = {} BY DEF LedgerInit
<1> QED BY <1>1, <1>2 DEF LedgerInit, Log!LogInit

(* A step of a ledger nobody went behind is one of the append-only log or a *)
(* stutter.                                                                 *)
LEMMA StepLog ==
    ASSUME LedgerInv, [LedgerNext]_ledgerVars, tampers' = 0
    PROVE  [Log!LogNext]_Log!logVars
<1> DEFINE V == [p \in Process |-> Bodies(view[p])]
<1>1. tampers' = tampers
  <2>1. tampers \in Nat BY DEF LedgerInv, LedgerShape
  <2>2. CASE Tamper \/ \E d \in DOMAIN objects : Damage(d) BY <2>1, <2>2 DEF Tamper, Damage
  <2>3. CASE UNCHANGED ledgerVars BY <2>3 DEF ledgerVars
  <2>4. ASSUME NEW p \in Process,
               \/ \E o \in Op : Start(p, o)
               \/ \E d \in Digest : Put(p, d)
               \/ BeginWrite(p) \/ AppendEvent(p) \/ Commit(p) \/ Abort(p)
               \/ Read(p) \/ EndRead(p) \/ Verify(p)
        PROVE  tampers' = tampers
    BY <2>4 DEF Start, Put, BeginWrite, AppendEvent, Commit, Abort, Read, EndRead, Verify
  <2> QED BY <2>2, <2>3, <2>4 DEF LedgerNext
<1>2. ASSUME UNCHANGED <<table, view>>, DOMAIN objects' = DOMAIN objects
      PROVE  UNCHANGED Log!logVars
  <2>1. Bodies(table)' = Bodies(table) BY <1>2 DEF Bodies
  <2>2. V' = V BY <1>2 DEF Bodies
  <2> QED BY <1>2, <2>1, <2>2 DEF Log!logVars
<1>3. ASSUME NEW p \in Process, view' = [view EXCEPT ![p] = table],
             UNCHANGED <<table, objects>>
      PROVE  Log!LogNext
  <2>1. Bodies(table)' = Bodies(table) BY <1>3 DEF Bodies
  <2>2. V' = [V EXCEPT ![p] = Bodies(table)]
    BY <1>3 DEF Bodies, LedgerInv, LedgerShape
  <2> QED BY <1>3, <2>1, <2>2 DEF Log!LogNext, Log!Look
<1>4. ASSUME NEW p \in Process, NEW d \in Digest, Put(p, d) PROVE Log!LogNext
  <2>1. UNCHANGED <<table, view>> /\ DOMAIN objects' = DOMAIN objects \cup {d}
    BY <1>4 DEF Put
  <2>2. Bodies(table)' = Bodies(table) /\ V' = V BY <2>1 DEF Bodies
  <2> QED BY <2>1, <2>2 DEF Log!LogNext, Log!Keep
<1>5. ASSUME NEW p \in Process, Commit(p) PROVE Log!LogNext
  <2>1. UNCHANGED <<objects, view>> BY <1>5 DEF Commit
  <2>2. Bodies(table') = Bodies(table) \o EventsOf[op[p]] BY <1>5, Committed
  <2>3. Bodies(table)' = Bodies(table') BY DEF Bodies
  <2>4. V' = V BY <2>1 DEF Bodies
  <2>5. op[p] \in Op BY DEF LedgerInv, LedgerShape
  <2>6. \A i \in DOMAIN EventsOf[op[p]] : RefsOf[EventsOf[op[p]][i]] \subseteq DOMAIN objects
    BY <1>5, Committed
  <2> QED BY <2>1, <2>2, <2>3, <2>4, <2>5, <2>6 DEF Log!LogNext, Log!Extend
<1>6. ASSUME NEW p \in Process, BeginWrite(p) \/ Read(p) \/ Verify(p)
      PROVE  [Log!LogNext]_Log!logVars
  BY <1>2, <1>3, <1>6 DEF BeginWrite, Read, Verify
<1>7. ASSUME NEW p \in Process,
             (\E o \in Op : Start(p, o)) \/ AppendEvent(p) \/ Abort(p) \/ EndRead(p)
      PROVE  UNCHANGED Log!logVars
  BY <1>2, <1>7 DEF Start, AppendEvent, Abort, EndRead
<1>8. ~Tamper /\ \A d : ~Damage(d) BY <1>1 DEF Tamper, Damage, LedgerInv, LedgerShape
<1>9. CASE UNCHANGED ledgerVars BY <1>2, <1>9 DEF ledgerVars
<1> QED BY <1>4, <1>5, <1>6, <1>7, <1>8, <1>9 DEF LedgerNext

(* As long as nobody goes behind its programs the ledger implements the     *)
(* append-only log: commits extend one history by whole operations whose   *)
(* objects are linked, and everybody reads a history it had.               *)
THEOREM LedgerIsAppendOnly == LedgerSpec => IsAppendOnlyLog
<1>1. LedgerInv /\ [LedgerNext]_ledgerVars => LedgerInv' BY StepLedgerInv
<1>2. LedgerInv /\ [LedgerNext]_ledgerVars =>
        [tampers' = 0 => [Log!LogNext]_Log!logVars]_ledgerVars
  BY StepLog
<1> QED BY <1>1, <1>2, InitLedgerInv, InitLog, PTL DEF LedgerSpec, IsAppendOnlyLog

(* The audit of a retained checkpoint finds every history that does not    *)
(* start with the retained one, and alarms nobody without reason.          *)
LEMMA AuditDecides ==
    ASSUME LedgerInv, NEW p \in Process, Verify(p)
    PROVE  IF verdict'[p] = "agrees" THEN IsPrefix(Bodies(anchor), Bodies(table))
                                     ELSE tampers > 0
<1>1. IsHistory(anchor) BY DEF LedgerInv, AnchorInv
<1>2. CASE Chained(table)
  <2>1. IsHistory(table) BY <1>2 DEF LedgerInv, TableInv
  <2>2. CASE Agrees(table, Checkpoint(anchor))
    <3>1. verdict'[p] = "agrees" BY <1>2, <2>2 DEF Verify, LedgerInv, LedgerShape
    <3> QED BY <1>1, <2>1, <2>2, <3>1, AgreesMeansPrefix
  <2>3. CASE ~Agrees(table, Checkpoint(anchor))
    <3>1. verdict'[p] # "agrees" BY <1>2, <2>3 DEF Verify, LedgerInv, LedgerShape
    <3>2. ~StartsWith(table, anchor) BY <1>1, <2>1, <2>3, HistoryAgrees
    <3> QED BY <3>1, <3>2 DEF LedgerInv, AnchorInv, LedgerShape
  <2> QED BY <2>2, <2>3
<1>3. CASE ~Chained(table)
  <2>1. verdict'[p] # "agrees" BY <1>3 DEF Verify, LedgerInv, LedgerShape
  <2>2. ~IsHistory(table) BY <1>3, HistoryChained
  <2> QED BY <2>1, <2>2 DEF LedgerInv, TableInv, LedgerShape
<1> QED BY <1>2, <1>3

(* A retained checkpoint is confirmed only of the history it was taken of,  *)
(* and refused only if somebody went behind the programs                    *)
(* (store.py:70-82,158-166).                                                *)
THEOREM CheckpointsDecide == LedgerSpec => CheckpointDecides
<1>1. LedgerInv /\ [LedgerNext]_ledgerVars => LedgerInv' BY StepLedgerInv
<1>2. LedgerInv /\ [LedgerNext]_ledgerVars =>
        [\A p \in Process : Verify(p) =>
            IF verdict'[p] = "agrees" THEN IsPrefix(Bodies(anchor), Bodies(table))
                                      ELSE tampers > 0]_ledgerVars
  BY AuditDecides
<1> QED BY <1>1, <1>2, InitLedgerInv, PTL DEF LedgerSpec, CheckpointDecides
-----------------------------------------------------------------------------
(* StatusFeed. *)

(* What the ledger had revoked when it had s.seq events. *)
Snapshot(s) ==
    /\ s.seq \in 1..seq
    /\ s.revoked = {i \in Item : revoked[i] # 0 /\ revoked[i] <= s.seq}

(* What a statement leaves out was revoked after it was made. *)
MissesOnly(s, from) == \A i \in Item : revoked[i] # 0 /\ i \notin s.revoked => from <= since[i]

FeedShape ==
    /\ clock \in Nat /\ seq \in Nat \ {0}
    /\ revoked \in [Item -> Nat] /\ since \in [Item -> Nat]
    /\ minimum \in [Recipient -> Nat] /\ DOMAIN accepted = Recipient

StatementInv(s) ==
    /\ Snapshot(s) /\ MissesOnly(s, s.read)
    /\ s.created \in 0..clock /\ s.read \in 0..s.created /\ s.expires \in Nat

ExportInv(s) == Snapshot(s) /\ MissesOnly(s, s.read) /\ s.read \in 0..clock

AcceptedInv(r) ==
    accepted[r] # NoStatement =>
        accepted[r].least \in 0..seq /\ accepted[r].at \in 0..clock /\ accepted[r].lag \in Nat

StatusInv ==
    /\ FeedShape
    /\ \A i \in Item : revoked[i] <= seq /\ since[i] <= clock
    /\ export # NoStatement => ExportInv(export)
    /\ \A s \in sent : StatementInv(s)
    /\ \A r \in Recipient : minimum[r] <= seq /\ AcceptedInv(r)
    /\ RetainedSequenceBinds /\ RevocationReaches

(* Fewer revocations do less harm. *)
LEMMA FallsMonotone ==
    ASSUME NEW items, NEW more, items \subseteq more, FallsBy(items)
    PROVE  FallsBy(more)
BY DEF FallsBy

(* A statement that lets a release stand does not make it fall. *)
LEMMA StandsMeans ==
    ASSUME NEW s, Stands(s)
    PROVE  ~FallsBy(s.revoked)
BY DEF Stands, FallsBy

(* The invariant holds before anything is revoked or stated. *)
LEMMA InitStatusInv == StatusInit => StatusInv
<1> SUFFICES ASSUME StatusInit PROVE StatusInv OBVIOUS
<1>1. FeedShape BY DEF StatusInit, FeedShape
<1>2. RetainedSequenceBinds /\ RevocationReaches
  BY DEF StatusInit, RetainedSequenceBinds, RevocationReaches
<1> QED BY <1>1, <1>2 DEF StatusInit, StatusInv, AcceptedInv

(* What a recipient accepted stays acceptable while the ledger grows: new   *)
(* revocations are later than everything it relied on.                     *)
LEMMA GrowingFeed ==
    ASSUME StatusInv, FeedShape', seq <= seq', clock <= clock', UNCHANGED accepted,
           \A i \in Item : \/ revoked'[i] = revoked[i] /\ since'[i] = since[i]
                           \/ revoked[i] = 0 /\ revoked'[i] = seq' /\ since'[i] = clock
                                /\ seq' = seq + 1
    PROVE  /\ \A i \in Item : revoked'[i] <= seq' /\ since'[i] <= clock'
           /\ \A s : Snapshot(s) => Snapshot(s)'
           /\ \A s : ExportInv(s) => ExportInv(s)'
           /\ \A s \in sent : StatementInv(s)'
           /\ \A r \in Recipient : AcceptedInv(r)'
           /\ RetainedSequenceBinds' /\ RevocationReaches'
<1> USE DEF StatusInv
<1>0. /\ clock \in Nat /\ seq \in Nat \ {0} /\ clock' \in Nat /\ seq' \in Nat
      /\ \A i \in Item : /\ revoked[i] \in Nat /\ since[i] \in Nat
                         /\ revoked'[i] \in Nat /\ since'[i] \in Nat
  BY DEF FeedShape
<1>1. \A i \in Item : revoked'[i] <= seq' /\ since'[i] <= clock' BY <1>0
<1>2. ASSUME NEW s, Snapshot(s) PROVE Snapshot(s)'
  <2>1. s.seq \in 1..seq' BY <1>0, <1>2 DEF Snapshot
  <2>2. \A i \in Item : (revoked'[i] # 0 /\ revoked'[i] <= s.seq)
                          <=> (revoked[i] # 0 /\ revoked[i] <= s.seq)
    BY <1>0, <1>2 DEF Snapshot
  <2> QED BY <1>2, <2>1, <2>2 DEF Snapshot
<1>3. ASSUME NEW s \in sent PROVE StatementInv(s)'
  <2>1. StatementInv(s) OBVIOUS
  <2>2. MissesOnly(s, s.read)' BY <1>0, <2>1 DEF StatementInv, MissesOnly
  <2>3. s.created \in 0..clock' BY <1>0, <2>1 DEF StatementInv
  <2> QED BY <1>2, <2>1, <2>2, <2>3 DEF StatementInv
<1>7. ASSUME NEW s, ExportInv(s) PROVE ExportInv(s)'
  <2>1. MissesOnly(s, s.read)' BY <1>0, <1>7 DEF ExportInv, MissesOnly
  <2>2. s.read \in 0..clock' BY <1>0, <1>7 DEF ExportInv
  <2> QED BY <1>2, <1>7, <2>1, <2>2 DEF ExportInv
<1>4. ASSUME NEW r \in Recipient PROVE AcceptedInv(r)'
  <2>1. AcceptedInv(r) OBVIOUS
  <2> QED BY <1>0, <2>1 DEF AcceptedInv
<1>5. RetainedSequenceBinds'
  <2> SUFFICES ASSUME NEW r \in Recipient, accepted[r] # NoStatement
               PROVE  ~FallsBy({i \in Item : revoked'[i] # 0 /\ revoked'[i] <= accepted[r].least})
    BY DEF RetainedSequenceBinds, FallsBy
  <2>1. accepted[r].least \in 0..seq BY DEF AcceptedInv
  <2>2. {i \in Item : revoked'[i] # 0 /\ revoked'[i] <= accepted[r].least}
          \subseteq {i \in Item : revoked[i] # 0 /\ revoked[i] <= accepted[r].least}
    BY <1>0, <2>1
  <2>3. ~FallsBy({i \in Item : revoked[i] # 0 /\ revoked[i] <= accepted[r].least})
    BY DEF RetainedSequenceBinds
  <2> QED BY <2>2, <2>3, FallsMonotone
<1>6. RevocationReaches'
  <2> SUFFICES ASSUME NEW r \in Recipient, accepted[r] # NoStatement, accepted[r].seq # 0
               PROVE  ~FallsBy({i \in Item : revoked'[i] # 0
                                 /\ since'[i] + MaxHours + accepted[r].lag <= accepted[r].at})
    BY DEF RevocationReaches, FallsBy
  <2>1. accepted[r].at \in 0..clock /\ accepted[r].lag \in Nat BY DEF AcceptedInv
  <2>2. {i \in Item : revoked'[i] # 0 /\ since'[i] + MaxHours + accepted[r].lag <= accepted[r].at}
          \subseteq
        {i \in Item : revoked[i] # 0 /\ since[i] + MaxHours + accepted[r].lag <= accepted[r].at}
    BY <1>0, <2>1, FeedAssumption
  <2>3. ~FallsBy({i \in Item : revoked[i] # 0
                       /\ since[i] + MaxHours + accepted[r].lag <= accepted[r].at})
    BY DEF RevocationReaches
  <2> QED BY <2>2, <2>3, FallsMonotone
<1> QED BY <1>1, <1>2, <1>3, <1>4, <1>5, <1>6, <1>7

(* What a recipient accepts on a statement: its retained sequence makes it  *)
(* recent enough, its times make it young enough.                          *)
LEMMA AcceptedStands ==
    ASSUME StatusInv, NEW r \in Recipient, NEW s \in sent, VerifyStatus(s, minimum[r]), Stands(s)
    PROVE  /\ ~FallsBy({i \in Item : revoked[i] # 0 /\ revoked[i] <= minimum[r]})
           /\ s.created - s.read \in Nat
           /\ ~FallsBy({i \in Item : revoked[i] # 0
                                       /\ since[i] + MaxHours + (s.created - s.read) <= clock})
<1> USE DEF StatusInv
<1>0. /\ clock \in Nat /\ seq \in Nat /\ minimum[r] \in Nat /\ MaxHours \in Nat
      /\ \A i \in Item : revoked[i] \in Nat /\ since[i] \in Nat
  BY FeedAssumption DEF FeedShape
<1>1. StatementInv(s) OBVIOUS
<1>2. /\ s.seq \in 1..seq /\ s.created \in 0..clock /\ s.expires \in Nat
      /\ s.read \in 0..s.created
      /\ s.revoked = {i \in Item : revoked[i] # 0 /\ revoked[i] <= s.seq}
      /\ \A i \in Item : revoked[i] # 0 /\ i \notin s.revoked => s.read <= since[i]
  BY <1>1 DEF StatementInv, Snapshot, MissesOnly
<1>3. /\ minimum[r] <= s.seq /\ clock < s.expires /\ s.expires - s.created <= MaxHours
  BY <1>0, <1>2 DEF VerifyStatus, Timely
<1>4. {i \in Item : revoked[i] # 0 /\ revoked[i] <= minimum[r]} \subseteq s.revoked
  BY <1>0, <1>2, <1>3
<1>5. {i \in Item : revoked[i] # 0 /\ since[i] + MaxHours + (s.created - s.read) <= clock}
        \subseteq s.revoked
  BY <1>0, <1>2, <1>3
<1>6. s.created - s.read \in Nat BY <1>0, <1>2
<1> QED BY <1>4, <1>5, <1>6, StandsMeans, FallsMonotone

(* With nothing revoked the release stands. *)
LEMMA NothingRevoked == ~FallsBy({})
BY DEF FallsBy, Role

(* Every step of publisher, statements and recipients keeps the invariant. *)
LEMMA StepStatusInv ==
    ASSUME StatusInv, [StatusNext]_statusVars
    PROVE  StatusInv'
<1> USE DEF StatusInv
<1>0. /\ clock \in Nat /\ seq \in Nat \ {0}
      /\ \A i \in Item : revoked[i] \in Nat /\ since[i] \in Nat
  BY DEF FeedShape
<1>1. ASSUME NEW i \in Item, Revoke(i) PROVE StatusInv'
  <2>1. FeedShape' BY <1>1, <1>0 DEF Revoke, FeedShape
  <2>2. /\ seq' = seq + 1 /\ UNCHANGED <<clock, export, sent, minimum, accepted>>
        /\ revoked[i] = 0 /\ revoked'[i] = seq + 1 /\ since'[i] = clock
        /\ \A j \in Item \ {i} : revoked'[j] = revoked[j] /\ since'[j] = since[j]
    BY <1>1 DEF Revoke, FeedShape
  <2>3. \A s : ExportInv(s) => ExportInv(s)' BY <1>0, <2>1, <2>2, GrowingFeed
  <2>4. \A r \in Recipient : minimum'[r] <= seq' BY <1>0, <2>1, <2>2 DEF FeedShape
  <2>5. export' # NoStatement => ExportInv(export)'
    BY <2>2, <2>3 DEF ExportInv, Snapshot, MissesOnly
  <2> QED BY <1>0, <2>1, <2>2, <2>3, <2>4, <2>5, GrowingFeed
<1>2. CASE OtherEvent \/ Tick
  <2>1. FeedShape' BY <1>0, <1>2 DEF OtherEvent, Tick, FeedShape
  <2>2. /\ UNCHANGED <<revoked, since, export, sent, minimum, accepted>>
        /\ seq <= seq' /\ clock <= clock'
    BY <1>0, <1>2 DEF OtherEvent, Tick
  <2>3. \A s : ExportInv(s) => ExportInv(s)' BY <1>0, <2>1, <2>2, GrowingFeed
  <2>4. \A r \in Recipient : minimum'[r] <= seq' BY <1>0, <2>1, <2>2 DEF FeedShape
  <2>5. export' # NoStatement => ExportInv(export)'
    BY <2>2, <2>3 DEF ExportInv, Snapshot, MissesOnly
  <2> QED BY <1>0, <2>1, <2>2, <2>3, <2>4, <2>5, GrowingFeed
<1>3. CASE ReadState
  <2>1. /\ export' = [seq |-> seq, revoked |-> RevokedNow, read |-> clock]
        /\ UNCHANGED <<clock, seq, revoked, since, sent, minimum, accepted>>
    BY <1>3 DEF ReadState
  <2>2. FeedShape' BY <2>1 DEF FeedShape
  <2>3. Snapshot(export)'
    <3>1. RevokedNow = {i \in Item : revoked[i] # 0 /\ revoked[i] <= seq} BY DEF RevokedNow
    <3> QED BY <1>0, <2>1, <3>1 DEF Snapshot
  <2>4. ExportInv(export)'
    BY <1>0, <2>1, <2>3 DEF ExportInv, MissesOnly, RevokedNow
  <2>5. \A r \in Recipient : minimum'[r] <= seq' BY <2>1
  <2> QED BY <1>0, <2>1, <2>2, <2>3, <2>4, <2>5, GrowingFeed
<1>4. ASSUME NEW hours \in 1..MaxHours, SignStatus(hours) PROVE StatusInv'
  <2>1. PICK s : s = [seq |-> export.seq, revoked |-> export.revoked, read |-> export.read,
                      created |-> clock, expires |-> clock + hours]
    OBVIOUS
  <2>2. /\ export # NoStatement /\ sent' = sent \cup {s} /\ export' = NoStatement
        /\ UNCHANGED <<clock, seq, revoked, since, minimum, accepted>>
    BY <1>4, <2>1 DEF SignStatus
  <2>3. FeedShape' BY <2>2 DEF FeedShape
  <2>4. StatementInv(s)
    BY <1>0, <2>1, <2>2, FeedAssumption DEF StatementInv, ExportInv, Snapshot, MissesOnly
  <2>5. \A t \in sent' : StatementInv(t)'
    BY <2>2, <2>4 DEF StatementInv, Snapshot, MissesOnly
  <2>6. \A r \in Recipient : minimum'[r] <= seq' BY <2>2
  <2> QED BY <1>0, <2>2, <2>3, <2>5, <2>6, GrowingFeed
<1>5. ASSUME NEW r \in Recipient, VerifyAlone(r) \/ \E s \in sent : VerifyBundle(r, s)
      PROVE  StatusInv'
  <2>1. UNCHANGED <<clock, seq, revoked, since, export, sent>>
    BY <1>5 DEF VerifyAlone, VerifyBundle
  <2>2. \A q \in Recipient \ {r} : accepted'[q] = accepted[q]
    BY <1>5 DEF VerifyAlone, VerifyBundle, FeedShape
  <2>3. \A s \in sent : s.seq \in 1..seq BY DEF StatementInv, Snapshot
  <2>4. minimum' \in [Recipient -> Nat] /\ \A q \in Recipient : minimum'[q] <= seq
    BY <1>0, <1>5, <2>3 DEF VerifyAlone, VerifyBundle, FeedShape
  <2>5. FeedShape' BY <1>5, <2>1, <2>4 DEF VerifyAlone, VerifyBundle, FeedShape
  <2>6. \/ accepted'[r] = NoStatement
        \/ /\ accepted'[r].least = minimum[r] /\ accepted'[r].at = clock
           /\ accepted'[r].lag \in Nat
           /\ ~FallsBy({i \in Item : revoked[i] # 0 /\ revoked[i] <= minimum[r]})
           /\ accepted'[r].seq # 0 =>
                 ~FallsBy({i \in Item : revoked[i] # 0
                              /\ since[i] + MaxHours + accepted'[r].lag <= clock})
    <3>1. CASE VerifyAlone(r)
      <4>1. accepted'[r] = [seq |-> 0, least |-> 0, at |-> clock, lag |-> 0] /\ minimum[r] = 0
        BY <3>1 DEF VerifyAlone, FeedShape
      <4>2. {i \in Item : revoked[i] # 0 /\ revoked[i] <= 0} = {} BY <1>0
      <4> QED BY <4>1, <4>2, NothingRevoked
    <3>2. ASSUME NEW s \in sent, VerifyBundle(r, s), Stands(s), VerifyStatus(s, minimum[r])
          PROVE  /\ accepted'[r].least = minimum[r] /\ accepted'[r].at = clock
                 /\ accepted'[r].lag \in Nat
                 /\ ~FallsBy({i \in Item : revoked[i] # 0 /\ revoked[i] <= minimum[r]})
                 /\ ~FallsBy({i \in Item : revoked[i] # 0
                                 /\ since[i] + MaxHours + accepted'[r].lag <= clock})
      BY <3>2, AcceptedStands DEF VerifyBundle, FeedShape
    <3>3. ASSUME NEW s \in sent, VerifyBundle(r, s), ~Stands(s)
          PROVE  accepted'[r] = NoStatement
      BY <3>3 DEF VerifyBundle, FeedShape
    <3> QED BY <1>5, <3>1, <3>2, <3>3 DEF VerifyBundle
  <2>7. \A q \in Recipient : AcceptedInv(q)'
    BY <1>0, <2>1, <2>2, <2>6 DEF AcceptedInv, FeedShape
  <2>8. RetainedSequenceBinds'
    BY <2>1, <2>2, <2>6 DEF RetainedSequenceBinds, FallsBy
  <2>9. RevocationReaches'
    BY <2>1, <2>2, <2>6 DEF RevocationReaches, FallsBy
  <2>10. /\ \A s \in sent' : StatementInv(s)'
         /\ export' # NoStatement => ExportInv(export)'
    BY <2>1 DEF StatementInv, ExportInv, Snapshot, MissesOnly
  <2> QED BY <1>0, <2>1, <2>4, <2>5, <2>7, <2>8, <2>9, <2>10
<1>6. CASE UNCHANGED statusVars
  <2>1. UNCHANGED <<clock, seq, revoked, since, export, sent, minimum, accepted>>
    BY <1>6 DEF statusVars
  <2>2. FeedShape' BY <2>1 DEF FeedShape
  <2>3. export' # NoStatement => ExportInv(export)'
    BY <2>1 DEF ExportInv, Snapshot, MissesOnly
  <2> QED BY <1>0, <2>1, <2>2, <2>3, GrowingFeed
<1> QED BY <1>1, <1>2, <1>3, <1>4, <1>5, <1>6 DEF StatusNext

(* No recipient rests a release on what was revoked before the sequence it  *)
(* retains, nor on what was revoked a validity ago.                        *)
THEOREM RevocationsReach == StatusSpec => []RevocationsCount
<1>1. StatusInv /\ [StatusNext]_statusVars => StatusInv' BY StepStatusInv
<1>2. StatusInv => RevocationsCount BY DEF StatusInv, RevocationsCount
<1> QED BY <1>1, <1>2, InitStatusInv, PTL DEF StatusSpec

-----------------------------------------------------------------------------
(* TrustFile. *)

Clean == [Key -> {"unknown", "active", "revoked"}]

(* The file and the version before it are whole and on the disk, and so is *)
(* the temporary file of a command that has synced it.                     *)
TrustInv ==
    /\ file \in [keys : Clean, synced : {TRUE}] /\ before \in [keys : Clean, synced : {TRUE}]
    /\ data \in [Commands -> Clean] /\ temporary \in [Commands -> [keys : Clean, synced : BOOLEAN]]
    /\ DOMAIN pc = Commands
    /\ \A c \in Commands : pc[c] = "synced" => temporary[c].synced

(* The trust store is absent or some command's or edit's whole version,    *)
(* wherever the power fails.                                               *)
THEOREM TrustFileWhole == TrustSpec => []FileWhole
<1>1. TrustInit => TrustInv
  BY DEF TrustInit, TrustInv, Clean, Absent, Empty, Version
<1>2. TrustInv /\ [TrustNext]_trustVars => TrustInv'
  <2> SUFFICES ASSUME TrustInv, [TrustNext]_trustVars PROVE TrustInv' OBVIOUS
  <2> USE DEF TrustInv
  <2>1. ASSUME NEW c \in Commands, ReadStore(c) PROVE TrustInv'
    <3>1. KeyOf[c] \in Key BY TrustFileAssumption
    <3>2. [file.keys EXCEPT ![KeyOf[c]] = "active"] \in Clean BY <3>1 DEF Clean
    <3>3. data' \in [Commands -> Clean] BY <2>1, <3>2 DEF ReadStore
    <3> QED BY <2>1, <3>3 DEF ReadStore, At, counts
  <2>2. ASSUME NEW c \in Commands, Decide(c) PROVE TrustInv'
    BY <2>2 DEF Decide, At, counts
  <2>3. ASSUME NEW c \in Commands, Write(c) PROVE TrustInv'
    BY <2>3 DEF Write, At, counts, Version
  <2>4. ASSUME NEW c \in Commands, Sync(c) PROVE TrustInv'
    BY <2>4 DEF Sync, At, counts
  <2>5. ASSUME NEW c \in Commands, Publish(c) PROVE TrustInv'
    BY <2>5 DEF Publish, At, counts
  <2>6. ASSUME NEW k \in Key, Edit(k) PROVE TrustInv'
    <3>1. [file.keys EXCEPT ![k] = "revoked"] \in Clean BY DEF Clean
    <3> QED BY <2>6, <3>1 DEF Edit, Version, command
  <2>7. CASE Crash BY <2>7 DEF Crash
  <2>8. CASE UNCHANGED trustVars BY <2>8 DEF trustVars
  <2> QED BY <2>1, <2>2, <2>3, <2>4, <2>5, <2>6, <2>7, <2>8 DEF TrustNext
<1>3. TrustInv => FileWhole
  BY TrustFileAssumption DEF TrustInv, FileWhole, Torn, Version, Clean
<1> QED BY <1>1, <1>2, <1>3, PTL DEF TrustSpec
=============================================================================

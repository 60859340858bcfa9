------------------------- MODULE EstimateCacheProofs --------------------------
(***************************************************************************)
(* What the transactions of the estimate cache leave behind, for any       *)
(* processes, keys, networks, quotas and sizes of rows: a clear that ends  *)
(* has taken what was saved before it began, and an eviction never empties *)
(* the cache nor takes a save for an older estimate. Every round of an     *)
(* eviction takes a row, so that the loop ends.                            *)
(***************************************************************************)
EXTENDS EstimateCache, OrderedProofs

Labels == {"idle", "clear", "clear history", "count", "delete", "newer", "lookup", "touch",
           "check", "served", "simulate", "begin", "evict"}

Rows == [network : Networks, timestamp : Nat, accessed : Nat, id : Nat, newer : BOOLEAN]
Tables == [Keys -> Rows \union {NoRow}]
Logs == SUBSET [key : Keys, network : Networks, id : Nat]

TypeOK ==
    /\ clock \in Nat
    /\ estimates \in Tables
    /\ log \in Logs
    /\ tx \in [owner : Procs \union {None}, estimates : Tables, log : Logs]
    /\ IsFiniteSet(log) /\ IsFiniteSet(tx.log)
    /\ pc \in [Procs -> Labels]
    /\ DOMAIN request = Procs /\ DOMAIN row = Procs
    /\ now \in [Procs -> Nat]
    /\ nextId \in Nat
    /\ since \in [Procs -> Nat]

\* What a command was asked for, where its steps look at it
Asked(p) ==
    /\ pc[p] \in {"lookup", "touch", "check", "served", "simulate"} => request[p] \in EstimateRequests
    /\ pc[p] \in {"clear", "clear history"} =>
           \/ request[p].command = "clear" /\ request[p].network \in Networks
           \/ request[p] \in EstimateRequests
    /\ pc[p] = "newer" => request[p].key \in Keys /\ request[p].network \in Networks
    /\ pc[p] \in {"begin", "evict"} =>
           /\ request[p].quota \in Quotas
           /\ Saves(p) => request[p] \in EstimateRequests

\* The one writer is the process that evicts.
OneWriter == \A p \in Procs : pc[p] = "evict" <=> tx.owner = p

\* Between the statements of a clear, what is left of its network was saved after it began.
Gone(table, network, id) ==
    \A k \in Cached(table) : table[k].network = network => table[k].id >= id
ClearsHold ==
    \A p \in Procs : pc[p] = "clear history" =>
        /\ since[p] <= nextId
        /\ Gone(estimates, request[p].network, since[p])
        /\ ~Unlocked => Gone(tx.estimates, request[p].network, since[p])

\* The writer empties no cache, and keeps an estimate that is as recent as its own.
Recent(table, t) == \E k \in Cached(table) : table[k].accessed >= t
WriterKeeps ==
    \A p \in Procs : pc[p] = "evict" =>
        /\ Cached(estimates) # {} => Cached(tx.estimates) # {}
        /\ Saves(p) => Recent(tx.estimates, now[p])

\* AUTOINCREMENT: no two history rows have one id.
Numbered(entries, next) ==
    \A a \in entries : a.id < next /\ \A b \in entries : a.id = b.id => a = b
IdsDiffer ==
    /\ Numbered(log, nextId)
    /\ \A p \in Procs : pc[p] = "evict" => Numbered(tx.log, IF Saves(p) THEN nextId + 1 ELSE nextId)

Inv ==
    /\ TypeOK
    /\ \A p \in Procs : Asked(p)
    /\ OneWriter
    /\ ClearsHold
    /\ WriterKeeps
    /\ IdsDiffer

-----------------------------------------------------------------------------
LEMMA NoRowType == NoRow \notin Rows /\ NoRow.network \notin Networks
BY CacheQueryAssumption DEF NoRow, Rows

LEMMA InitInv == Init => Inv
<1> SUFFICES ASSUME Init PROVE Inv
  OBVIOUS
<1>1. TypeOK
  BY FS_EmptySet DEF Init, TypeOK, Labels, Tables, Logs, NoTx
<1>2. \A p \in Procs : Asked(p)
  BY DEF Init, Asked
<1>3. OneWriter
  BY EstimateCacheAssumption DEF Init, OneWriter, NoTx
<1>4. ClearsHold /\ WriterKeeps /\ IdsDiffer
  BY DEF Init, ClearsHold, WriterKeeps, IdsDiffer, Numbered
<1> QED
  BY <1>1, <1>2, <1>3, <1>4 DEF Inv

-----------------------------------------------------------------------------
\* Sizes
LEMMA Counts ==
    ASSUME NEW rows
    PROVE  IsFiniteSet(Cached(rows)) /\ Count(rows) \in Nat
<1>1. Cached(rows) \subseteq Keys
  BY DEF Cached
<1> QED
  BY <1>1, CacheQueryAssumption, FS_Subset, FS_CardinalityType DEF Count

LEMMA ByteType ==
    ASSUME NEW rows, NEW rest, IsFiniteSet(rest)
    PROVE  Bytes(rows, rest) \in Nat \ {0}
<1>1. Count(rows) \in Nat /\ Cardinality(rest) \in Nat
  BY Counts, FS_CardinalityType
<1>2. \A a, b \in Nat : a * b \in Nat
  OBVIOUS
<1>3. EstimateBytes * Count(rows) \in Nat /\ HistoryBytes * Cardinality(rest) \in Nat
  BY <1>1, <1>2, EstimateCacheAssumption
<1>4. \A a, b, c \in Nat : a > 0 => a + b + c \in Nat \ {0}
  OBVIOUS
<1> HIDE DEF Count
<1> QED
  BY <1>3, <1>4, EstimateCacheAssumption DEF Bytes

LEMMA ClampBounds ==
    ASSUME NEW n \in Int, NEW low \in Int, NEW high \in Int, low <= high
    PROVE  Clamp(n, low, high) \in low..high
BY DEF Clamp

LEMMA ExcessType ==
    ASSUME NEW n \in Nat \ {0}, NEW bytes \in Nat \ {0}, NEW quota \in Quotas
    PROVE  Excess(n, bytes, quota) \in Int
<1>1. quota.bytes \in Nat
  BY EstimateCacheAssumption
<1>2. bytes \div n \in Int
  OBVIOUS
<1>3. Clamp(bytes \div n, 1, bytes) \in 1..bytes
  BY <1>2, ClampBounds
<1>4. \A a \in Int, b \in 1..bytes : a \div b \in Int
  OBVIOUS
<1> QED
  BY <1>1, <1>3, <1>4 DEF Excess

\* eviction_batch never takes them all.
LEMMA BatchLeavesOne ==
    ASSUME NEW n \in Nat, n > 1, NEW bytes \in Nat \ {0}, NEW quota \in Quotas
    PROVE  EvictionBatch(n, bytes, quota) \in 1..(n - 1)
<1> DEFINE target == (quota.entries * 9) \div 10
<1>1. quota.entries \in Nat
  BY EstimateCacheAssumption
<1>2. target \in Nat
  BY <1>1
<1>3. Clamp(Excess(n, bytes, quota), 1, n - 1) \in 1..(n - 1)
  <2>1. Excess(n, bytes, quota) \in Int
    BY ExcessType
  <2>2. n - 1 \in Int /\ 1 <= n - 1
    OBVIOUS
  <2>3. \A e, high \in Int : 1 <= high => Clamp(e, 1, high) \in 1..high
    BY ClampBounds
  <2> QED
    BY <2>1, <2>2, <2>3
<1> DEFINE above == target > 0 /\ n > target
<1>4. CASE above
  <2>1. EvictionBatch(n, bytes, quota) = n - target
    BY <1>4 DEF EvictionBatch
  <2> HIDE DEF target
  <2> QED
    BY <2>1, <1>2, <1>4
<1>5. CASE ~above
  <2>1. EvictionBatch(n, bytes, quota) \in {Clamp(Excess(n, bytes, quota), 1, n - 1), 1}
    BY <1>5 DEF EvictionBatch
  <2> QED
    BY <2>1, <1>3
<1> QED
  BY <1>4, <1>5

\* A round leaves an estimate, and one that was used no earlier than those it takes.
LEMMA RoundKeeps ==
    ASSUME NEW rows \in Tables, NEW rest, IsFiniteSet(rest), NEW quota \in Quotas, Count(rows) > 1,
           NEW v \in Victims(rows, EvictionBatch(Count(rows), Bytes(rows, rest), quota))
    PROVE  \E kept \in Cached(rows) \ v : \A k \in v : rows[kept].accessed >= rows[k].accessed
<1> DEFINE n == Count(rows)
<1>1. n \in Nat /\ Bytes(rows, rest) \in Nat \ {0}
  BY Counts, ByteType
<1>2. EvictionBatch(n, Bytes(rows, rest), quota) \in 1..(n - 1)
  BY <1>1, BatchLeavesOne
<1>3. v \subseteq Cached(rows) /\ Cardinality(v) < n
  BY <1>1, <1>2 DEF Victims
<1>4. v # Cached(rows)
  BY <1>1, <1>3 DEF Count
<1>5. PICK kept \in Cached(rows) \ v : TRUE
  BY <1>3, <1>4
<1>6. ASSUME NEW k \in v PROVE rows[kept].accessed >= rows[k].accessed
  <2>1. ~Before(rows[kept], rows[k])
    BY <1>5 DEF Victims
  <2>2. rows[kept] \in Rows /\ rows[k] \in Rows
    BY <1>3, <1>5 DEF Cached, Tables
  <2> QED
    BY <2>1, <2>2 DEF Before, Rows
<1> QED
  BY <1>5, <1>6

-----------------------------------------------------------------------------
\* Types
LEMMA GotoType ==
    ASSUME TypeOK, NEW p \in Procs, NEW label \in Labels, Goto(p, label)
    PROVE  pc' \in [Procs -> Labels] /\ pc'[p] = label
BY DEF TypeOK, Goto

LEMMA EndType ==
    ASSUME TypeOK, NEW p \in Procs, End(p)
    PROVE  /\ pc' \in [Procs -> Labels] /\ pc'[p] = "idle"
           /\ DOMAIN request' = Procs /\ DOMAIN row' = Procs
           /\ now' \in [Procs -> Nat]
<1>1. "idle" \in Labels
  BY DEF Labels
<1> QED
  BY <1>1 DEF TypeOK, End, Goto

LEMMA FirstLabel == ASSUME NEW r \in Requests PROVE First(r) \in Labels
BY EstimateCacheAssumption DEF Requests, EstimateRequests, First, AfterClear, Labels

\* Rows may go, and be touched.
LEMMA Emptied ==
    ASSUME NEW rows \in Tables, NEW u, NEW gone, u = [k \in Keys |-> IF k \in gone THEN NoRow ELSE rows[k]]
    PROVE  u \in Tables
BY DEF Tables

LEMMA Touched ==
    ASSUME NEW rows \in Tables, NEW k \in Keys, rows[k] # NoRow, NEW t \in Nat
    PROVE  [rows EXCEPT ![k].accessed = t] \in Tables
<1>1. rows[k] \in Rows
  BY DEF Tables
<1>2. [rows[k] EXCEPT !.accessed = t] \in Rows
  BY <1>1 DEF Rows
<1> QED
  BY <1>2 DEF Tables

LEMMA StartType == ASSUME TypeOK, NEW p \in Procs, Start(p) PROVE TypeOK'
<1>1. PICK r \in Requests : Goto(p, First(r))
  BY DEF Start
<1>2. pc' \in [Procs -> Labels]
  BY <1>1, FirstLabel, GotoType
<1>3. DOMAIN request' = Procs
  BY DEF Start, TypeOK
<1> QED
  BY <1>2, <1>3 DEF TypeOK, Start, tables

\* The statements that are a transaction of their own
LEMMA StatementType ==
    ASSUME TypeOK, NEW p \in Procs, Asked(p),
           ClearEstimates(p) \/ ClearHistory(p) \/ Delete(p) \/ NewerRelease(p) \/ Touch(p)
    PROVE  TypeOK'
<1>1. CASE ClearEstimates(p)
  <2>1. pc' \in [Procs -> Labels]
    BY <1>1, GotoType DEF ClearEstimates, Labels
  <2>2. estimates' \in Tables
    BY <1>1 DEF TypeOK, ClearEstimates, Tables
  <2>3. since' \in [Procs -> Nat]
    BY <1>1 DEF TypeOK, ClearEstimates
  <2> QED
    BY <1>1, <2>1, <2>2, <2>3 DEF TypeOK, ClearEstimates
<1>2. CASE ClearHistory(p)
  <2>1. log' \in Logs /\ IsFiniteSet(log')
    BY <1>2, FS_Subset DEF TypeOK, ClearHistory, Logs
  <2>2. /\ pc' \in [Procs -> Labels] /\ DOMAIN request' = Procs /\ DOMAIN row' = Procs
        /\ now' \in [Procs -> Nat]
    <3>1. AfterClear(request[p]) \in Labels
      BY DEF AfterClear, Labels
    <3>2. CASE End(p)
      BY <3>2, EndType
    <3>3. CASE Goto(p, AfterClear(request[p])) /\ UNCHANGED <<request, row, now>>
      BY <3>1, <3>3, GotoType DEF TypeOK
    <3> QED
      BY <1>2, <3>2, <3>3 DEF ClearHistory
  <2> QED
    BY <1>2, <2>1, <2>2 DEF TypeOK, ClearHistory, history
<1>3. CASE Delete(p)
  <2>1. estimates' \in Tables
    BY <1>3, Emptied DEF TypeOK, Delete
  <2>2. End(p)
    BY <1>3 DEF Delete
  <2> QED
    BY <1>3, <2>1, <2>2, EndType DEF TypeOK, Delete, history
<1>4. CASE NewerRelease(p)
  <2>1. request[p].key \in Keys /\ request[p].network \in Networks /\ nextId \in Nat /\ clock \in Nat
    BY <1>4 DEF Asked, NewerRelease, TypeOK
  <2>2. estimates' \in Tables
    BY <1>4, <2>1 DEF TypeOK, NewerRelease, Tables, Rows
  <2>3. log' \in Logs
    BY <1>4, <2>1 DEF TypeOK, NewerRelease, Logs
  <2>4. IsFiniteSet(log')
    BY <1>4, FS_AddElement DEF TypeOK, NewerRelease
  <2>5. End(p)
    BY <1>4 DEF NewerRelease
  <2> QED
    BY <1>4, <2>1, <2>2, <2>3, <2>4, <2>5, EndType DEF TypeOK, NewerRelease
<1>5. CASE Touch(p)
  <2>1. request[p].key \in Keys /\ now[p] \in Nat
    BY <1>5 DEF Asked, Touch, EstimateRequests, TypeOK
  <2>2. estimates' \in Tables
    BY <1>5, <2>1, Touched DEF TypeOK, Touch
  <2>3. pc' \in [Procs -> Labels]
    BY <1>5, GotoType DEF Touch, Labels
  <2> QED
    BY <1>5, <2>2, <2>3 DEF TypeOK, Touch, history
<1> QED
  BY <1>1, <1>2, <1>3, <1>4, <1>5

\* The steps that change no table
LEMMA ReadType ==
    ASSUME TypeOK, NEW p \in Procs,
           \/ CountMatches(p) \/ Lookup(p) \/ Check(p) \/ Serve(p) \/ Simulate(p)
           \/ Busy(p) \/ Die(p)
    PROVE  TypeOK'
<1>1. CASE End(p)
  <2>1. tx' \in {tx, NoTx} /\ UNCHANGED <<clock, tables, history>>
    BY DEF CountMatches, Lookup, Check, Serve, Simulate, Busy, Die
  <2>2. NoTx \in [owner : Procs \union {None}, estimates : Tables, log : Logs] /\ IsFiniteSet(NoTx.log)
    BY FS_EmptySet DEF NoTx, Tables, Logs
  <2> QED
    BY <1>1, <2>1, <2>2, EndType DEF TypeOK, tables, history
<1>2. CASE ~End(p)
  <2>1. UNCHANGED <<clock, tables, tx, history, request>>
    BY <1>2 DEF CountMatches, Lookup, Check, Serve, Simulate, Busy, Die
  <2>2. \E label \in Labels : Goto(p, label)
    BY <1>2 DEF CountMatches, Lookup, Check, Serve, Simulate, Busy, Die, Labels
  <2>3. pc' \in [Procs -> Labels]
    BY <2>2, GotoType
  <2>4. DOMAIN row' = Procs /\ now' \in [Procs -> Nat]
    <3>1. row' = row \/ \E r : row' = [row EXCEPT ![p] = r]
      BY <1>2 DEF CountMatches, Lookup, Check, Serve, Simulate, Busy, Die
    <3>2. now' = now \/ now' = [now EXCEPT ![p] = clock] \/ now' = [now EXCEPT ![p] = 0]
      BY <1>2 DEF CountMatches, Lookup, Check, Serve, Simulate, Busy, Die
    <3>3. DOMAIN row' = Procs
      BY <3>1 DEF TypeOK
    <3>4. now' \in [Procs -> Nat]
      BY <3>2 DEF TypeOK
    <3> QED
      BY <3>3, <3>4
  <2> QED
    BY <2>1, <2>3, <2>4 DEF TypeOK, tables, history
<1> QED
  BY <1>1, <1>2

\* What a round may leave
LEMMA RoundChanges ==
    ASSUME TypeOK, NEW quota, NEW after \in AfterRound(quota)
    PROVE  /\ after \in [owner : Procs \union {None}, estimates : Tables, log : Logs]
           /\ IsFiniteSet(after.log) /\ after.owner = tx.owner
           /\ after.log = WithoutOldest(tx.log, HistoryTaken(quota)) /\ after.log \subseteq tx.log
           /\ \E v \in Victims(tx.estimates, EstimatesTaken(quota)) :
                  after.estimates = [k \in Keys |-> IF k \in v THEN NoRow ELSE tx.estimates[k]]
<1>1. PICK v \in Victims(tx.estimates, EstimatesTaken(quota)) :
          after = [tx EXCEPT !.estimates = [k \in Keys |-> IF k \in v THEN NoRow ELSE @[k]],
                             !.log = WithoutOldest(@, HistoryTaken(quota))]
  BY DEF AfterRound
<1> DEFINE table == [k \in Keys |-> IF k \in v THEN NoRow ELSE tx.estimates[k]]
           kept == WithoutOldest(tx.log, HistoryTaken(quota))
<1>2. table \in Tables
  BY Emptied DEF TypeOK
<1>3. kept \in Logs /\ kept \subseteq tx.log /\ IsFiniteSet(kept)
  BY FS_Subset DEF TypeOK, WithoutOldest, Logs
<1>4. after = [tx EXCEPT !.estimates = table, !.log = kept]
  BY <1>1
<1> HIDE DEF table, kept
<1>5. after.owner = tx.owner /\ after.log = kept /\ after.estimates = table
  BY <1>4 DEF TypeOK
<1>6. after \in [owner : Procs \union {None}, estimates : Tables, log : Logs]
  BY <1>2, <1>3, <1>4 DEF TypeOK
<1> QED
  BY <1>3, <1>5, <1>6 DEF table, kept

LEMMA WriteType ==
    ASSUME TypeOK, NEW p \in Procs, Asked(p), Begin(p) \/ Round(p) \/ Commit(p)
    PROVE  TypeOK'
<1> DEFINE Transactions == [owner : Procs \union {None}, estimates : Tables, log : Logs]
<1>1. CASE Begin(p)
  <2>1. pc' \in [Procs -> Labels]
    BY <1>1, GotoType DEF Begin, Labels
  <2>2. tx' \in Transactions /\ IsFiniteSet(tx'.log)
    <3>1. CASE Saves(p)
      <4> DEFINE r == request[p]
                 new == [network |-> r.network, timestamp |-> now[p], accessed |-> now[p],
                         id |-> nextId, newer |-> FALSE]
                 entry == [key |-> r.key, network |-> r.network, id |-> nextId]
      <4>1. r.key \in Keys /\ r.network \in Networks
        BY <1>1, <3>1 DEF Begin, Asked, EstimateRequests
      <4>2. new \in Rows /\ entry \in [key : Keys, network : Networks, id : Nat]
        BY <4>1 DEF TypeOK, Rows
      <4>3. tx' = [owner |-> p, estimates |-> [estimates EXCEPT ![r.key] = new],
                   log |-> log \union {entry}]
        BY <1>1, <3>1 DEF Begin
      <4> HIDE DEF new, entry
      <4>4. [estimates EXCEPT ![r.key] = new] \in Tables
        BY <4>2 DEF TypeOK, Tables
      <4>5. log \union {entry} \in Logs /\ IsFiniteSet(log \union {entry})
        BY <4>2, FS_AddElement DEF TypeOK, Logs
      <4> QED
        BY <4>3, <4>4, <4>5
    <3>2. CASE ~Saves(p)
      BY <1>1, <3>2 DEF Begin, TypeOK
    <3> QED
      BY <3>1, <3>2
  <2> QED
    BY <1>1, <2>1, <2>2 DEF TypeOK, Begin, tables, history
<1>2. CASE Round(p)
  <2>1. tx' \in Transactions /\ IsFiniteSet(tx'.log)
    BY <1>2, RoundChanges DEF Round
  <2> QED
    BY <1>2, <2>1 DEF TypeOK, Round, tables, history, local
<1>3. CASE Commit(p)
  <2>1. NoTx \in Transactions /\ IsFiniteSet(NoTx.log)
    BY FS_EmptySet DEF NoTx, Tables, Logs
  <2>2. End(p)
    BY <1>3 DEF Commit
  <2>3. estimates' \in Tables /\ log' \in Logs /\ IsFiniteSet(log') /\ nextId' \in Nat
    BY <1>3 DEF TypeOK, Commit
  <2> QED
    BY <1>3, <2>1, <2>2, <2>3, EndType DEF TypeOK, Commit
<1> QED
  BY <1>1, <1>2, <1>3

LEMMA StepType ==
    ASSUME TypeOK, NEW p \in Procs, Asked(p), Start(p) \/ Step(p) \/ Die(p)
    PROVE  TypeOK'
BY StartType, StatementType, ReadType, WriteType DEF Step

-----------------------------------------------------------------------------
\* What a step leaves alone

\* A process has its own program counter, request and clock readings.
LEMMA Others ==
    ASSUME TypeOK, NEW p \in Procs, Start(p) \/ Step(p) \/ Die(p), NEW q \in Procs, q # p
    PROVE  /\ pc'[q] = pc[q] /\ request'[q] = request[q]
           /\ now'[q] = now[q] /\ since'[q] = since[q]
<1> USE DEF TypeOK
<1>1. ASSUME End(p) PROVE pc'[q] = pc[q] /\ request'[q] = request[q] /\ now'[q] = now[q]
  BY <1>1 DEF End, Goto
<1>2. ASSUME NEW label, Goto(p, label) PROVE pc'[q] = pc[q]
  BY <1>2 DEF Goto
<1>3. CASE Start(p)
  BY <1>2, <1>3 DEF Start
<1>4. CASE ClearEstimates(p)
  BY <1>2, <1>4 DEF ClearEstimates
<1>5. CASE ClearHistory(p)
  BY <1>1, <1>2, <1>5 DEF ClearHistory, history
<1>6. CASE CountMatches(p) \/ Delete(p) \/ Lookup(p) \/ Check(p) \/ Serve(p) \/ Simulate(p)
  <2>1. since' = since
    BY <1>6 DEF CountMatches, Delete, Lookup, Check, Serve, Simulate, history
  <2>2. CASE End(p)
    BY <1>1, <2>1, <2>2
  <2>3. CASE ~End(p)
    <3>1. \E label : Goto(p, label)
      BY <1>6, <2>3 DEF CountMatches, Delete, Lookup, Check, Serve, Simulate
    <3>2. request' = request
      BY <1>6, <2>3 DEF CountMatches, Delete, Lookup, Check, Serve, Simulate
    <3>3. \/ now' = now \/ now' = [now EXCEPT ![p] = clock] \/ now' = [now EXCEPT ![p] = 0]
      BY <1>6, <2>3 DEF CountMatches, Delete, Lookup, Check, Serve, Simulate
    <3> QED
      BY <1>2, <2>1, <3>1, <3>2, <3>3
  <2> QED
    BY <2>2, <2>3
<1>7. CASE NewerRelease(p) \/ Commit(p)
  BY <1>1, <1>7 DEF NewerRelease, Commit
<1>8. CASE Touch(p) \/ Begin(p) \/ Round(p)
  BY <1>2, <1>8 DEF Touch, Begin, Round, local, history
<1>9. CASE Busy(p) \/ Die(p)
  BY <1>1, <1>2, <1>9 DEF Busy, Die, history
<1> QED
  BY <1>3, <1>4, <1>5, <1>6, <1>7, <1>8, <1>9 DEF Step

\* A command keeps its request until it ends.
LEMMA RequestKept ==
    ASSUME TypeOK, NEW p \in Procs, Step(p) \/ Die(p)
    PROVE  pc'[p] = "idle" \/ request' = request
<1>1. ASSUME End(p) PROVE pc'[p] = "idle"
  BY <1>1, EndType
<1>2. CASE ClearEstimates(p) \/ ClearHistory(p) \/ CountMatches(p) \/ Delete(p) \/ NewerRelease(p)
  BY <1>1, <1>2 DEF ClearEstimates, ClearHistory, CountMatches, Delete, NewerRelease
<1>3. CASE Lookup(p) \/ Touch(p) \/ Check(p) \/ Serve(p) \/ Simulate(p)
  BY <1>1, <1>3 DEF Lookup, Touch, Check, Serve, Simulate
<1>4. CASE Begin(p) \/ Round(p) \/ Commit(p) \/ Busy(p) \/ Die(p)
  BY <1>1, <1>4 DEF Begin, Round, Commit, Busy, Die, local
<1> QED
  BY <1>2, <1>3, <1>4 DEF Step

\* Where a step goes
LEMMA Moves ==
    ASSUME TypeOK, NEW p \in Procs, Step(p) \/ Die(p)
    PROVE  \/ pc'[p] = "idle"
           \/ ClearEstimates(p) /\ pc[p] = "clear" /\ pc'[p] = "clear history"
           \/ ClearHistory(p) /\ request[p].command = "estimate" /\ pc'[p] = AfterClear(request[p])
           \/ CountMatches(p) /\ pc'[p] = "delete"
           \/ pc[p] \in {"lookup", "touch", "check"} /\ pc'[p] \in {"touch", "check", "served", "simulate"}
           \/ Simulate(p) /\ ~request[p].noCache /\ pc'[p] = "begin"
           \/ Begin(p) /\ pc'[p] = "evict"
           \/ Round(p) /\ pc'[p] = "evict"
<1>1. ASSUME End(p) PROVE pc'[p] = "idle"
  BY <1>1, EndType
<1>2. ASSUME NEW label, Goto(p, label) PROVE pc'[p] = label
  BY <1>2 DEF TypeOK, Goto
<1>3. CASE ClearEstimates(p) \/ ClearHistory(p) \/ CountMatches(p)
  BY <1>1, <1>2, <1>3 DEF ClearEstimates, ClearHistory, CountMatches
<1>4. CASE Delete(p) \/ NewerRelease(p) \/ Serve(p) \/ Commit(p) \/ Die(p)
  BY <1>1, <1>4 DEF Delete, NewerRelease, Serve, Commit, Die
<1>5. CASE Lookup(p) \/ Touch(p) \/ Check(p)
  BY <1>1, <1>2, <1>5 DEF Lookup, Touch, Check
<1>6. CASE Simulate(p) \/ Busy(p) \/ Begin(p)
  BY <1>1, <1>2, <1>6 DEF Simulate, Busy, Begin
<1>7. CASE Round(p)
  BY <1>7 DEF Round, local
<1> QED
  BY <1>3, <1>4, <1>5, <1>6, <1>7 DEF Step

LEMMA AskedStart == ASSUME TypeOK, NEW p \in Procs, Start(p) PROVE Asked(p)'
<1>1. PICK r \in Requests :
          /\ request' = [request EXCEPT ![p] =
                  IF r.command = "delete" THEN [r EXCEPT !.filter = BuildFilter(r.args, clock)]
                  ELSE r]
          /\ Goto(p, First(r))
  BY DEF Start
<1>2. pc'[p] = First(r)
  BY <1>1 DEF TypeOK, Goto
<1>3. CASE r \in EstimateRequests
  <2>1. r.command = "estimate"
    BY <1>3 DEF EstimateRequests
  <2>2. First(r) \in {"clear", "lookup", "simulate"}
    BY <2>1 DEF First, AfterClear
  <2>3. request'[p] = r
    BY <1>1, <2>1 DEF TypeOK
  <2> QED
    BY <1>2, <1>3, <2>2, <2>3 DEF Asked
<1>4. CASE r \in Deletions
  <2>1. First(r) = "count"
    BY <1>4, EstimateCacheAssumption DEF First
  <2> QED
    BY <1>2, <2>1 DEF Asked
<1>5. CASE r \in Requests \ (EstimateRequests \union Deletions)
  <2>1. r.command \in {"clear", "newer release", "prune"}
    BY <1>5 DEF Requests
  <2>2. request'[p] = r
    BY <1>1, <2>1 DEF TypeOK
  <2>3. CASE r.command = "clear"
    <3>1. First(r) = "clear"
      BY <2>3 DEF First
    <3>2. r.network \in Networks
      BY <1>5, <2>3 DEF Requests
    <3> QED
      BY <1>2, <2>2, <2>3, <3>1, <3>2 DEF Asked
  <2>4. CASE r.command = "newer release"
    <3>1. First(r) = "newer"
      BY <2>4 DEF First
    <3>2. r.network \in Networks /\ r.key \in Keys
      BY <1>5, <2>4 DEF Requests
    <3> QED
      BY <1>2, <2>2, <3>1, <3>2 DEF Asked
  <2>5. CASE r.command = "prune"
    <3>1. First(r) = "begin"
      BY <2>5 DEF First
    <3>2. r.quota \in Quotas
      BY <1>5, <2>5 DEF Requests
    <3> QED
      BY <1>2, <2>2, <2>5, <3>1, <3>2 DEF Asked, Saves
  <2> QED
    BY <2>1, <2>3, <2>4, <2>5
<1> QED
  BY <1>3, <1>4, <1>5

LEMMA AskedStep ==
    ASSUME TypeOK, NEW p \in Procs, Asked(p), Step(p) \/ Die(p)
    PROVE  Asked(p)'
<1>1. CASE pc'[p] = "idle"
  BY <1>1 DEF Asked
<1>2. CASE pc'[p] # "idle"
  <2>1. request' = request
    BY <1>2, RequestKept
  <2>2. CASE ClearEstimates(p) /\ pc[p] = "clear" /\ pc'[p] = "clear history"
    BY <2>1, <2>2 DEF Asked
  <2>3. CASE ClearHistory(p) /\ request[p].command = "estimate" /\ pc'[p] = AfterClear(request[p])
    BY <2>1, <2>3 DEF Asked, AfterClear, ClearHistory
  <2>4. CASE CountMatches(p) /\ pc'[p] = "delete"
    BY <2>4 DEF Asked
  <2>5. CASE pc[p] \in {"lookup", "touch", "check"} /\ pc'[p] \in {"touch", "check", "served", "simulate"}
    BY <2>1, <2>5 DEF Asked
  <2>6. CASE Simulate(p) /\ ~request[p].noCache /\ pc'[p] = "begin"
    <3>1. request[p] \in EstimateRequests
      BY <2>6 DEF Asked, Simulate
    <3>2. request[p].quota \in Quotas
      BY <2>6, <3>1 DEF EstimateRequests
    <3> QED
      BY <2>1, <2>6, <3>1, <3>2 DEF Asked
  <2>7. CASE Begin(p) /\ pc'[p] = "evict"
    BY <2>1, <2>7 DEF Asked, Begin, Saves
  <2>8. CASE Round(p) /\ pc'[p] = "evict"
    BY <2>1, <2>8 DEF Asked, Round, Saves
  <2> QED
    BY <1>2, Moves, <2>2, <2>3, <2>4, <2>5, <2>6, <2>7, <2>8
<1> QED
  BY <1>1, <1>2

\* Only the writer changes the transaction, and nothing else is written while it is open.
LEMMA Locked ==
    ASSUME TypeOK, OneWriter, NEW p \in Procs, Start(p) \/ Step(p) \/ Die(p)
    PROVE  /\ ~Unlocked /\ tx.owner # p => UNCHANGED <<tables, tx, nextId>>
           /\ ~Unlocked => UNCHANGED <<tables, nextId>> \/ Commit(p)
           /\ tx' # tx => Begin(p) \/ Round(p) \/ Commit(p) \/ Die(p)
<1> USE DEF OneWriter, tables, history
<1>1. CASE Start(p) \/ Busy(p)
  BY <1>1 DEF Start, Busy
<1>2. CASE Die(p)
  BY <1>2 DEF Die
<1>3. CASE ClearEstimates(p) \/ ClearHistory(p) \/ NewerRelease(p) \/ Touch(p)
  BY <1>3 DEF ClearEstimates, ClearHistory, NewerRelease, Touch
<1>4. CASE Delete(p)
  BY <1>4 DEF Delete
<1>5. CASE CountMatches(p) \/ Lookup(p) \/ Check(p) \/ Serve(p) \/ Simulate(p)
  BY <1>5 DEF CountMatches, Lookup, Check, Serve, Simulate
<1>6. CASE Begin(p) \/ Round(p) \/ Commit(p)
  BY <1>6 DEF Begin, Round, Commit
<1> QED
  BY <1>1, <1>2, <1>3, <1>4, <1>5, <1>6 DEF Step

LEMMA OneWriterStep ==
    ASSUME TypeOK, OneWriter, NEW p \in Procs, Start(p) \/ Step(p) \/ Die(p)
    PROVE  OneWriter'
<1>1. ASSUME NEW q \in Procs, q # p PROVE pc'[q] = "evict" <=> tx'.owner = q
  <2>1. pc'[q] = pc[q]
    BY <1>1, Others
  <2>2. tx' = tx \/ Begin(p) \/ Round(p) \/ Commit(p) \/ Die(p)
    BY Locked
  <2>3. tx'.owner = tx.owner \/ (tx.owner \in {None, p} /\ tx'.owner \in {None, p})
    <3>1. CASE Begin(p)
      BY <3>1 DEF Begin, Unlocked
    <3>2. CASE Round(p)
      BY <3>2, RoundChanges DEF Round
    <3>3. CASE Commit(p) \/ Die(p)
      BY <3>3 DEF Commit, Die, NoTx, OneWriter
    <3> QED
      BY <2>2, <3>1, <3>2, <3>3
  <2> QED
    BY <1>1, <2>1, <2>3, EstimateCacheAssumption DEF OneWriter
<1>2. pc'[p] = "evict" <=> tx'.owner = p
  <2>1. CASE Start(p)
    <3>1. PICK r \in Requests : Goto(p, First(r))
      BY <2>1 DEF Start
    <3>2. First(r) # "evict"
      BY EstimateCacheAssumption DEF Requests, EstimateRequests, First, AfterClear
    <3>3. pc'[p] # "evict"
      BY <3>1, <3>2 DEF Goto, TypeOK
    <3> QED
      BY <2>1, <3>3 DEF Start, OneWriter
  <2>2. CASE Begin(p)
    <3>1. pc'[p] = "evict"
      BY <2>2, GotoType DEF Begin, Labels
    <3> QED
      BY <2>2, <3>1 DEF Begin
  <2>3. CASE Round(p)
    BY <2>3, RoundChanges DEF Round, OneWriter, local
  <2>4. CASE Commit(p) \/ Die(p)
    <3>1. pc'[p] = "idle"
      BY <2>4, EndType DEF Commit, Die
    <3>2. tx'.owner # p
      BY <2>4, EstimateCacheAssumption DEF Commit, Die, NoTx
    <3> QED
      BY <3>1, <3>2
  <2>5. CASE ~Start(p) /\ ~Begin(p) /\ ~Round(p) /\ ~Commit(p) /\ ~Die(p)
    <3>1. tx' = tx
      BY <2>5, Locked
    <3>2. pc[p] # "evict"
      BY <2>5 DEF Step, ClearEstimates, ClearHistory, CountMatches, Delete, NewerRelease, Lookup,
                  Touch, Check, Serve, Simulate, Busy
    <3>3. pc'[p] # "evict"
      BY <2>5, Moves DEF AfterClear
    <3> QED
      BY <3>1, <3>2, <3>3 DEF OneWriter
  <2> QED
    BY <2>1, <2>2, <2>3, <2>4, <2>5
<1> QED
  BY <1>1, <1>2 DEF OneWriter

-----------------------------------------------------------------------------
\* Each row of a later table is one of the earlier, as far as a clear can tell, or a new one.
Follows(rows, later, id) ==
    \A k \in Cached(later) :
        \/ k \in Cached(rows) /\ later[k].network = rows[k].network /\ later[k].id = rows[k].id
        \/ later[k].id = id

LEMMA GoneStays ==
    ASSUME NEW rows, NEW later, NEW network, NEW id \in Nat, NEW next \in Nat, id <= next,
           Gone(rows, network, id), Follows(rows, later, next)
    PROVE  Gone(later, network, id)
BY DEF Gone, Follows

LEMMA EmptiedFollows ==
    ASSUME NEW rows, NEW later, NEW gone, NEW next,
           later = [k \in Keys |-> IF k \in gone THEN NoRow ELSE rows[k]]
    PROVE  Follows(rows, later, next)
BY DEF Follows, Cached

LEMMA SavedFollows ==
    ASSUME NEW rows \in Tables, NEW key \in Keys, NEW r, NEW next, r.id = next
    PROVE  Follows(rows, [rows EXCEPT ![key] = r], next)
BY DEF Follows, Cached, Tables

\* A step other than a commit changes the committed tables row by row.
LEMMA TableFollows ==
    ASSUME TypeOK, NEW p \in Procs, Asked(p), Start(p) \/ Step(p) \/ Die(p), ~Commit(p)
    PROVE  Follows(estimates, estimates', nextId)
<1>1. CASE estimates' = estimates
  BY <1>1 DEF Follows
<1>2. CASE ClearEstimates(p)
  <2> DEFINE gone == {k \in Keys : estimates[k].network = request[p].network}
  <2>1. estimates' = [k \in Keys |-> IF k \in gone THEN NoRow ELSE estimates[k]]
    BY <1>2 DEF ClearEstimates
  <2> HIDE DEF gone
  <2> QED
    BY <2>1, EmptiedFollows
<1>3. CASE Delete(p) /\ estimates' # estimates
  BY <1>3, EmptiedFollows DEF Delete
<1>4. CASE NewerRelease(p)
  <2>1. request[p].key \in Keys
    BY <1>4 DEF Asked, NewerRelease
  <2> QED
    BY <1>4, <2>1, SavedFollows DEF NewerRelease, TypeOK
<1>5. CASE Touch(p) /\ estimates' # estimates
  <2> DEFINE key == request[p].key
  <2>1. estimates' = [estimates EXCEPT ![key].accessed = now[p]] /\ estimates[key] # NoRow
    BY <1>5 DEF Touch
  <2>2. key \in Keys
    BY <1>5 DEF Asked, Touch, EstimateRequests
  <2> HIDE DEF key
  <2>3. estimates[key] \in Rows
    BY <2>1, <2>2 DEF TypeOK, Tables
  <2>4. ASSUME NEW k \in Cached(estimates')
        PROVE  /\ k \in Cached(estimates)
               /\ estimates'[k].network = estimates[k].network /\ estimates'[k].id = estimates[k].id
    <3>1. CASE k = key
      <4>1. estimates'[key] = [estimates[key] EXCEPT !.accessed = now[p]]
        BY <2>1, <2>2 DEF TypeOK, Tables
      <4> QED
        BY <2>1, <2>2, <2>3, <3>1, <4>1 DEF Rows, Cached
    <3>2. CASE k # key
      BY <2>1, <2>2, <3>2 DEF TypeOK, Tables, Cached
    <3> QED
      BY <3>1, <3>2
  <2> QED
    BY <2>4 DEF Follows
<1>6. \/ estimates' = estimates
      \/ ClearEstimates(p) \/ Delete(p) \/ NewerRelease(p) \/ Touch(p)
  BY DEF Start, Die, Step, ClearHistory, CountMatches, Lookup, Check, Serve, Simulate, Begin, Round,
         Busy, tables
<1> QED
  BY <1>1, <1>2, <1>3, <1>4, <1>5, <1>6

\* And so does a transaction, from the committed tables on.
LEMMA TransactionFollows ==
    ASSUME TypeOK, OneWriter, NEW p \in Procs, Asked(p), Start(p) \/ Step(p) \/ Die(p),
           tx'.owner # None
    PROVE  \/ Follows(tx.estimates, tx'.estimates, nextId) /\ ~Unlocked
           \/ Follows(estimates, tx'.estimates, nextId) /\ Unlocked
<1>1. CASE tx' = tx
  BY <1>1 DEF Follows, Unlocked
<1>2. CASE Begin(p)
  <2>1. CASE Saves(p)
    <3> DEFINE r == request[p]
               new == [network |-> r.network, timestamp |-> now[p], accessed |-> now[p],
                       id |-> nextId, newer |-> FALSE]
    <3>1. tx'.estimates = [estimates EXCEPT ![r.key] = new]
      BY <1>2, <2>1 DEF Begin
    <3>2. r.key \in Keys /\ new.id = nextId
      BY <1>2, <2>1 DEF Begin, Asked, EstimateRequests
    <3> HIDE DEF new
    <3>3. Follows(estimates, tx'.estimates, nextId)
      BY <3>1, <3>2, SavedFollows DEF TypeOK
    <3> QED
      BY <1>2, <3>3 DEF Begin
  <2>2. CASE ~Saves(p)
    BY <1>2, <2>2 DEF Begin, Follows
  <2> QED
    BY <2>1, <2>2
<1>3. CASE Round(p)
  <2>1. PICK evicted :
            tx'.estimates = [k \in Keys |-> IF k \in evicted THEN NoRow ELSE tx.estimates[k]]
    BY <1>3, RoundChanges DEF Round
  <2>2. Follows(tx.estimates, tx'.estimates, nextId)
    BY <2>1, EmptiedFollows
  <2>3. ~Unlocked
    BY <1>3, EstimateCacheAssumption DEF Round, OneWriter, Unlocked
  <2> QED
    BY <2>2, <2>3
<1>4. CASE tx' # tx /\ (Commit(p) \/ Die(p))
  BY <1>4 DEF Commit, Die, NoTx
<1> QED
  BY Locked, <1>1, <1>2, <1>3, <1>4

LEMMA NatOrder ==
    /\ \A a \in Nat : a <= a /\ a <= a + 1
    /\ \A a, b, c \in Nat : a <= b /\ b <= c => a <= c
OBVIOUS

LEMMA IdGrows ==
    ASSUME TypeOK, NEW p \in Procs, Start(p) \/ Step(p) \/ Die(p)
    PROVE  nextId' \in {nextId, nextId + 1}
<1>1. CASE Start(p) \/ Die(p) \/ ClearEstimates(p) \/ ClearHistory(p) \/ CountMatches(p) \/ Delete(p)
  BY <1>1 DEF TypeOK, Start, Die, ClearEstimates, ClearHistory, CountMatches, Delete, history
<1>2. CASE Lookup(p) \/ Touch(p) \/ Check(p) \/ Serve(p) \/ Simulate(p)
  BY <1>2 DEF TypeOK, Lookup, Touch, Check, Serve, Simulate, history
<1>3. CASE Begin(p) \/ Round(p) \/ Busy(p)
  BY <1>3 DEF TypeOK, Begin, Round, Busy, history
<1>4. CASE NewerRelease(p) \/ Commit(p)
  BY <1>4 DEF TypeOK, NewerRelease, Commit
<1> QED
  BY <1>1, <1>2, <1>3, <1>4 DEF Step

LEMMA ClearsHoldStep ==
    ASSUME TypeOK, OneWriter, ClearsHold, NEW p \in Procs, Asked(p), Start(p) \/ Step(p) \/ Die(p)
    PROVE  ClearsHold'
<1> SUFFICES ASSUME NEW q \in Procs, pc'[q] = "clear history"
             PROVE  /\ since'[q] <= nextId'
                    /\ Gone(estimates', request'[q].network, since'[q])
                    /\ tx'.owner # None => Gone(tx'.estimates, request'[q].network, since'[q])
  BY DEF ClearsHold, Unlocked
<1>1. CASE pc[q] = "clear history" /\ since'[q] = since[q] /\ request'[q] = request[q]
  <2> DEFINE network == request[q].network
             id == since[q]
  <2>1. id \in Nat /\ nextId \in Nat /\ nextId' \in Nat
    BY StepType DEF TypeOK
  <2>2. nextId <= nextId'
    BY <2>1, IdGrows, NatOrder, Zenon
  <2>3. id <= nextId /\ Gone(estimates, network, id)
    BY <1>1 DEF ClearsHold
  <2>4. ~Unlocked => Gone(tx.estimates, network, id)
    BY <1>1 DEF ClearsHold
  <2>5. id <= nextId'
    BY <2>2, <2>1, <2>3, NatOrder, Zenon
  <2> HIDE DEF network, id
  <2>6. Gone(estimates', network, id)
    <3>1. CASE Commit(p)
      <4>1. estimates' = tx.estimates /\ ~Unlocked
        BY <3>1, EstimateCacheAssumption DEF Commit, OneWriter, Unlocked
      <4> QED
        BY <2>4, <4>1
    <3>2. CASE ~Commit(p)
      BY <2>1, <2>3, <3>2, TableFollows, GoneStays
    <3> QED
      BY <3>1, <3>2
  <2>7. ASSUME tx'.owner # None PROVE Gone(tx'.estimates, network, id)
    BY <2>1, <2>3, <2>4, <2>7, TransactionFollows, GoneStays
  <2> QED
    BY <1>1, <2>6, <2>7, <2>5 DEF network, id
<1>2. CASE ClearEstimates(p) /\ q = p
  <2>1. since'[p] = nextId /\ nextId' = nextId /\ nextId \in Nat
    BY <1>2 DEF ClearEstimates, TypeOK
  <2>2. request[p].network \in Networks /\ request'[p] = request[p]
    BY <1>2 DEF ClearEstimates, Asked, EstimateRequests
  <2>3. tx'.owner = None
    BY <1>2 DEF ClearEstimates, Unlocked
  <2>4. Gone(estimates', request[p].network, nextId)
    BY <1>2, <2>2 DEF ClearEstimates, Gone, Cached
  <2>5. nextId <= nextId
    BY <2>1, NatOrder, Zenon
  <2> QED
    BY <1>2, <2>1, <2>2, <2>3, <2>4, <2>5
<1>3. CASE q # p
  BY <1>1, <1>3, Others
<1>4. CASE Start(p) /\ q = p
  <2>1. PICK r \in Requests : Goto(p, First(r))
    BY <1>4 DEF Start
  <2>2. First(r) # "clear history"
    BY EstimateCacheAssumption DEF Requests, EstimateRequests, First, AfterClear
  <2> QED
    BY <1>4, <2>1, <2>2 DEF Goto, TypeOK
<1>5. CASE ~Start(p) /\ ~ClearEstimates(p) /\ q = p
  BY <1>5, Moves DEF AfterClear
<1> QED
  BY <1>2, <1>3, <1>4, <1>5

-----------------------------------------------------------------------------
\* A round leaves a cache that is not empty, and as recent as it was.
LEMMA RoundIsCareful ==
    ASSUME TypeOK, NEW p \in Procs, Asked(p), Round(p)
    PROVE  /\ Cached(tx.estimates) # {} => Cached(tx'.estimates) # {}
           /\ \A t \in Nat : Recent(tx.estimates, t) => Recent(tx'.estimates, t)
<1> DEFINE rows == tx.estimates
           quota == request[p].quota
<1>1. PICK v \in Victims(rows, EstimatesTaken(quota)) :
          tx'.estimates = [k \in Keys |-> IF k \in v THEN NoRow ELSE rows[k]]
  BY RoundChanges DEF Round
<1>2. rows \in Tables /\ IsFiniteSet(tx.log) /\ quota \in Quotas
  BY DEF TypeOK, Asked, Round
<1>3. \A k \in Cached(rows) \ v : k \in Cached(tx'.estimates) /\ tx'.estimates[k] = rows[k]
  BY <1>1 DEF Cached
<1>4. CASE Count(rows) > 1
  <2>1. v \in Victims(rows, EvictionBatch(Count(rows), Bytes(rows, tx.log), quota))
    BY <1>4 DEF EstimatesTaken
  <2>2. PICK kept \in Cached(rows) \ v : \A k \in v : rows[kept].accessed >= rows[k].accessed
    BY <1>2, <1>4, <2>1, RoundKeeps
  <2>3. Cached(tx'.estimates) # {}
    BY <1>3, <2>2
  <2>4. ASSUME NEW t \in Nat, NEW k \in Cached(rows), rows[k].accessed >= t
        PROVE  Recent(tx'.estimates, t)
    <3>1. CASE k \in v
      <4>1. rows[k] \in Rows /\ rows[kept] \in Rows
        BY <1>2, <2>2 DEF Cached, Tables
      <4>2. rows[kept].accessed >= t
        BY <2>2, <2>4, <3>1, <4>1 DEF Rows
      <4> QED
        BY <1>3, <2>2, <4>2 DEF Recent
    <3>2. CASE k \notin v
      BY <1>3, <2>4, <3>2 DEF Recent
    <3> QED
      BY <3>1, <3>2
  <2> QED
    BY <2>3, <2>4 DEF Recent
<1>5. CASE ~(Count(rows) > 1)
  <2>1. v \subseteq Cached(rows) /\ Cardinality(v) = 0
    BY <1>5 DEF EstimatesTaken, Victims
  <2>2. v = {}
    BY <2>1, Counts, FS_Subset, FS_EmptySet
  <2> QED
    BY <1>3, <2>2 DEF Recent
<1> QED
  BY <1>4, <1>5

LEMMA WriterKeepsStep ==
    ASSUME TypeOK, OneWriter, WriterKeeps, NEW p \in Procs, Asked(p), Start(p) \/ Step(p) \/ Die(p)
    PROVE  WriterKeeps'
<1> SUFFICES ASSUME NEW q \in Procs, pc'[q] = "evict"
             PROVE  /\ Cached(estimates') # {} => Cached(tx'.estimates) # {}
                    /\ request'[q].command = "estimate" => Recent(tx'.estimates, now'[q])
  BY DEF WriterKeeps, Saves
<1>1. CASE q # p
  <2>1. pc[q] = "evict" /\ request'[q] = request[q] /\ now'[q] = now[q]
    BY <1>1, Others
  <2>2. tx.owner = q
    BY <2>1 DEF OneWriter
  <2>3. estimates' = estimates /\ tx' = tx
    BY <1>1, <2>2, Locked, EstimateCacheAssumption DEF Unlocked, tables
  <2> QED
    BY <2>1, <2>3 DEF WriterKeeps, Saves
<1>2. CASE Begin(p) /\ q = p
  <2>1. estimates' = estimates /\ request' = request /\ now' = now
    BY <1>2 DEF Begin, tables
  <2>2. CASE Saves(p)
    <3> DEFINE r == request[p]
               new == [network |-> r.network, timestamp |-> now[p], accessed |-> now[p],
                       id |-> nextId, newer |-> FALSE]
    <3>1. tx'.estimates = [estimates EXCEPT ![r.key] = new]
      BY <1>2, <2>2 DEF Begin
    <3>2. r.key \in Keys /\ new \in Rows /\ new.accessed = now[p] /\ now[p] \in Nat
      BY <1>2, <2>2 DEF Begin, Asked, EstimateRequests, TypeOK, Rows
    <3> HIDE DEF new
    <3>3. r.key \in Cached(tx'.estimates) /\ tx'.estimates[r.key] = new
      <4>1. estimates \in Tables
        BY DEF TypeOK
      <4>2. tx'.estimates[r.key] = new
        BY <3>1, <3>2, <4>1 DEF Tables
      <4> QED
        BY <3>2, <4>2, NoRowType DEF Cached
    <3>4. tx'.estimates[r.key].accessed >= now[p]
      BY <3>2, <3>3
    <3> QED
      BY <1>2, <2>1, <3>3, <3>4 DEF Recent
  <2>3. CASE ~Saves(p)
    BY <1>2, <2>1, <2>3 DEF Begin, Saves
  <2> QED
    BY <2>2, <2>3
<1>3. CASE Round(p) /\ q = p
  <2>1. estimates' = estimates /\ request' = request /\ now' = now /\ pc[p] = "evict"
    BY <1>3 DEF Round, tables, local
  <2>2. now[p] \in Nat
    BY DEF TypeOK
  <2>3. /\ Cached(estimates) # {} => Cached(tx.estimates) # {}
        /\ request[p].command = "estimate" => Recent(tx.estimates, now[p])
    BY <2>1 DEF WriterKeeps, Saves
  <2> QED
    BY <1>3, <2>1, <2>2, <2>3, RoundIsCareful
<1>4. CASE Start(p) /\ q = p
  <2>1. PICK r \in Requests : Goto(p, First(r))
    BY <1>4 DEF Start
  <2>2. First(r) # "evict"
    BY EstimateCacheAssumption DEF Requests, EstimateRequests, First, AfterClear
  <2> QED
    BY <1>4, <2>1, <2>2 DEF Goto, TypeOK
<1>5. CASE ~Start(p) /\ ~Begin(p) /\ ~Round(p) /\ q = p
  BY <1>5, Moves DEF AfterClear
<1> QED
  BY <1>1, <1>2, <1>3, <1>4, <1>5

-----------------------------------------------------------------------------
\* The history log
LEMMA FewerNumbered ==
    ASSUME NEW entries, NEW fewer, fewer \subseteq entries, NEW next, Numbered(entries, next)
    PROVE  Numbered(fewer, next)
BY DEF Numbered

LEMMA LaterNumbered ==
    ASSUME NEW entries \in Logs, NEW next \in Nat, Numbered(entries, next)
    PROVE  Numbered(entries, next + 1)
BY DEF Numbered, Logs

LEMMA OneMoreNumbered ==
    ASSUME NEW entries \in Logs, NEW next \in Nat, Numbered(entries, next), NEW entry, entry.id = next
    PROVE  Numbered(entries \union {entry}, next + 1)
BY DEF Numbered, Logs

LEMMA IdsDifferStep ==
    ASSUME TypeOK, OneWriter, IdsDiffer, NEW p \in Procs, Start(p) \/ Step(p) \/ Die(p)
    PROVE  IdsDiffer'
<1>0. log \in Logs /\ tx.log \in Logs /\ nextId \in Nat
  BY DEF TypeOK
<1>1. Numbered(log', nextId')
  <2>1. CASE NewerRelease(p)
    BY <1>0, <2>1, OneMoreNumbered DEF NewerRelease, IdsDiffer
  <2>2. CASE Commit(p)
    BY <2>2 DEF Commit, IdsDiffer
  <2>3. CASE ~NewerRelease(p) /\ ~Commit(p)
    <3>1. nextId' = nextId /\ log' \subseteq log
      BY <2>3 DEF Start, Die, Step, ClearEstimates, ClearHistory, CountMatches, Delete, Lookup, Touch,
                  Check, Serve, Simulate, Begin, Round, Busy, history, tables
    <3> QED
      BY <3>1, FewerNumbered DEF IdsDiffer
  <2> QED
    BY <2>1, <2>2, <2>3
<1>2. ASSUME NEW q \in Procs, pc'[q] = "evict"
      PROVE  Numbered(tx'.log, IF request'[q].command = "estimate" THEN nextId' + 1 ELSE nextId')
  <2>1. CASE q # p
    <3>1. pc[q] = "evict" /\ request'[q] = request[q]
      BY <1>2, <2>1, Others
    <3>2. tx.owner = q
      BY <3>1 DEF OneWriter
    <3>3. nextId' = nextId /\ tx' = tx
      BY <2>1, <3>2, Locked, EstimateCacheAssumption DEF Unlocked
    <3> QED
      BY <3>1, <3>3 DEF IdsDiffer, Saves
  <2>2. CASE Begin(p) /\ q = p
    <3>1. request' = request /\ nextId' = nextId
      BY <2>2 DEF Begin, history
    <3>2. CASE Saves(p)
      <4> DEFINE entry == [key |-> request[p].key, network |-> request[p].network, id |-> nextId]
      <4>1. tx'.log = log \union {entry} /\ entry.id = nextId
        BY <2>2, <3>2 DEF Begin
      <4> HIDE DEF entry
      <4>2. Numbered(tx'.log, nextId + 1)
        BY <1>0, <4>1, OneMoreNumbered DEF IdsDiffer
      <4> QED
        BY <2>2, <3>1, <3>2, <4>2 DEF Saves
    <3>3. CASE ~Saves(p)
      BY <2>2, <3>1, <3>3 DEF Begin, IdsDiffer, Saves
    <3> QED
      BY <3>2, <3>3
  <2>3. CASE Round(p) /\ q = p
    <3>1. tx'.log \subseteq tx.log
      BY <2>3, RoundChanges DEF Round
    <3>2. request' = request /\ nextId' = nextId /\ pc[p] = "evict"
      BY <2>3 DEF Round, local, history
    <3>3. Numbered(tx.log, IF Saves(p) THEN nextId + 1 ELSE nextId)
      BY <3>2 DEF IdsDiffer
    <3>4. Numbered(tx'.log, IF Saves(p) THEN nextId + 1 ELSE nextId)
      BY <3>1, <3>3, FewerNumbered
    <3> QED
      BY <2>3, <3>2, <3>4 DEF Saves
  <2>4. CASE Start(p) /\ q = p
    <3>1. PICK r \in Requests : Goto(p, First(r))
      BY <2>4 DEF Start
    <3>2. First(r) # "evict"
      BY EstimateCacheAssumption DEF Requests, EstimateRequests, First, AfterClear
    <3> QED
      BY <1>2, <2>4, <3>1, <3>2 DEF Goto, TypeOK
  <2>5. CASE ~Start(p) /\ ~Begin(p) /\ ~Round(p) /\ q = p
    BY <1>2, <2>5, Moves DEF AfterClear
  <2> QED
    BY <2>1, <2>2, <2>3, <2>4, <2>5
<1> QED
  BY <1>1, <1>2 DEF IdsDiffer, Saves

\* There is an oldest row.
LEMMA OldestExists ==
    ASSUME NEW entries \in Logs, entries # {}
    PROVE  \E oldest \in entries : \A e \in entries : oldest.id <= e.id
<1> DEFINE ids == {e.id : e \in entries}
<1>1. ids \subseteq Nat /\ ids # {}
  BY DEF Logs
<1>2. Min(ids) \in ids /\ \A id \in ids : Min(ids) <= id
  <2> HIDE DEF ids
  <2> QED
    BY <1>1, NatMinimum
<1> QED
  BY <1>2

\* A limit of one or more takes the oldest row.
LEMMA OldestGoes ==
    ASSUME NEW entries \in Logs, IsFiniteSet(entries), entries # {}, NEW next, Numbered(entries, next),
           NEW n \in Nat, n >= 1
    PROVE  Cardinality(WithoutOldest(entries, n)) < Cardinality(entries)
<1>1. PICK oldest \in entries : \A e \in entries : oldest.id <= e.id
  BY OldestExists
<1>2. ASSUME NEW e \in entries, e.id <= oldest.id PROVE e = oldest
  <2>1. e.id \in Nat /\ oldest.id \in Nat
    BY DEF Logs
  <2>2. e.id = oldest.id
    BY <1>1, <1>2, <2>1
  <2> QED
    BY <2>2 DEF Numbered
<1>3. oldest.id <= oldest.id
  BY <1>1
<1>4. {e \in entries : e.id <= oldest.id} = {oldest}
  BY <1>2, <1>3
<1>5. Cardinality({e \in entries : e.id <= oldest.id}) = 1
  BY <1>4, FS_Singleton
<1>6. oldest \notin WithoutOldest(entries, n)
  BY <1>5 DEF WithoutOldest
<1>7. WithoutOldest(entries, n) \subseteq entries
  BY DEF WithoutOldest
<1>8. Cardinality(WithoutOldest(entries, n)) # Cardinality(entries)
  BY <1>6, <1>7, FS_Subset
<1>9. /\ Cardinality(WithoutOldest(entries, n)) <= Cardinality(entries)
      /\ Cardinality(WithoutOldest(entries, n)) \in Nat /\ Cardinality(entries) \in Nat
  BY <1>7, FS_Subset, FS_CardinalityType
<1> QED
  BY <1>8, <1>9

\* history_eviction_batch takes a row at least.
LEMMA HistoryBatchTakesOne ==
    ASSUME NEW n \in Nat \ {0}, NEW bytes \in Nat \ {0}, NEW quota \in Quotas
    PROVE  HistoryBatch(n, bytes, quota) \in 1..n
<1>1. \A e \in Int, high \in Int : 1 <= high => Clamp(e, 1, high) \in 1..high
  BY ClampBounds
<1>2. Excess(n, bytes, quota) \in Int /\ n \in Int /\ 1 <= n
  BY ExcessType
<1> QED
  BY <1>1, <1>2 DEF HistoryBatch

\* A round takes rows, and adds none.
LEMMA RoundTakes ==
    ASSUME Inv, NEW p \in Procs, pc[p] = "evict", Removable(request[p].quota),
           NEW after \in AfterRound(request[p].quota)
    PROVE  Count(after.estimates) + Cardinality(after.log) < Count(tx.estimates) + Cardinality(tx.log)
<1> DEFINE rows == tx.estimates
           quota == request[p].quota
           bytes == Bytes(rows, tx.log)
<1>1. PICK v \in Victims(rows, EstimatesTaken(quota)) :
          /\ after.estimates = [k \in Keys |-> IF k \in v THEN NoRow ELSE rows[k]]
          /\ after.log = WithoutOldest(tx.log, HistoryTaken(quota))
  BY RoundChanges DEF Inv
<1>2. tx.log \in Logs /\ IsFiniteSet(tx.log) /\ quota \in Quotas
  BY DEF Inv, TypeOK, Asked
<1>3. after.log \subseteq tx.log /\ Cached(after.estimates) = Cached(rows) \ v /\ v \subseteq Cached(rows)
  BY <1>1 DEF WithoutOldest, Cached, Victims
<1>4. /\ Count(rows) \in Nat /\ Count(after.estimates) \in Nat /\ bytes \in Nat \ {0}
      /\ Cardinality(tx.log) \in Nat /\ Cardinality(after.log) \in Nat
  BY <1>2, <1>3, Counts, ByteType, FS_Subset, FS_CardinalityType
<1>5. Count(after.estimates) <= Count(rows) /\ Cardinality(after.log) <= Cardinality(tx.log)
  <2>1. Cached(after.estimates) \subseteq Cached(rows)
    BY <1>3
  <2> QED
    BY <1>2, <1>3, <2>1, Counts, FS_Subset DEF Count
<1>6. CASE Count(rows) > 1
  <2>1. EvictionBatch(Count(rows), bytes, quota) \in 1..(Count(rows) - 1)
    BY <1>2, <1>4, <1>6, BatchLeavesOne
  <2>2. Cardinality(v) >= 1
    BY <1>4, <1>6, <2>1 DEF Victims, EstimatesTaken
  <2>3. v # {}
    BY <2>2, FS_EmptySet
  <2>4. Cached(after.estimates) \subseteq Cached(rows) /\ Cached(after.estimates) # Cached(rows)
    BY <1>3, <2>3
  <2>5. Count(after.estimates) # Count(rows)
    BY <2>4, Counts, FS_Subset DEF Count
  <2> HIDE DEF rows
  <2> QED
    BY <1>4, <1>5, <2>5 DEF rows
<1>7. CASE ~(Count(rows) > 1)
  <2>1. OverBytes(quota) /\ tx.log # {}
    BY <1>7 DEF Removable
  <2>2. Cardinality(tx.log) \in Nat \ {0}
    BY <1>2, <1>4, <2>1, FS_EmptySet
  <2>3. HistoryTaken(quota) \in 1..Cardinality(tx.log)
    BY <1>2, <1>4, <2>1, <2>2, HistoryBatchTakesOne DEF HistoryTaken
  <2>4. \E next : Numbered(tx.log, next)
    BY <1>2 DEF Inv, IdsDiffer
  <2>5. HistoryTaken(quota) \in Nat /\ HistoryTaken(quota) >= 1
    BY <2>2, <2>3
  <2>6. Cardinality(after.log) < Cardinality(tx.log)
    BY <1>1, <1>2, <2>1, <2>4, <2>5, OldestGoes
  <2> QED
    BY <1>4, <1>5, <2>6
<1> QED
  BY <1>6, <1>7

-----------------------------------------------------------------------------
LEMMA StepKeeps == ASSUME Inv, [Next]_vars PROVE Inv'
<1>1. CASE UNCHANGED vars
  BY <1>1 DEF Inv, vars, tables, local, history, TypeOK, Asked, Saves, OneWriter, ClearsHold, Unlocked,
              WriterKeeps, IdsDiffer
<1>2. CASE Tick
  <2>1. TypeOK'
    BY <1>2 DEF Inv, Tick, TypeOK, tables, local, history
  <2>2. UNCHANGED <<tables, tx, pc, request, now, nextId, since>>
    BY <1>2 DEF Tick, tables, local, history
  <2>3. (\A p \in Procs : Asked(p))' /\ OneWriter' /\ ClearsHold' /\ WriterKeeps' /\ IdsDiffer'
    BY <2>2 DEF Inv, Asked, Saves, OneWriter, ClearsHold, Unlocked, WriterKeeps, IdsDiffer, tables
  <2> QED
    BY <2>1, <2>3 DEF Inv
<1>3. ASSUME NEW p \in Procs, Start(p) \/ Step(p) \/ Die(p) PROVE Inv'
  <2> USE <1>3
  <2>1. TypeOK' /\ OneWriter' /\ ClearsHold' /\ WriterKeeps' /\ IdsDiffer'
    BY StepType, OneWriterStep, ClearsHoldStep, WriterKeepsStep, IdsDifferStep DEF Inv
  <2>2. ASSUME NEW q \in Procs PROVE Asked(q)'
    <3>1. CASE q = p
      <4>1. Asked(p)'
        BY AskedStart, AskedStep DEF Inv
      <4> QED
        BY <3>1, <4>1
    <3>2. CASE q # p
      BY <3>2, Others DEF Inv, Asked, Saves
    <3> QED
      BY <3>1, <3>2
  <2> QED
    BY <2>1, <2>2 DEF Inv
<1> QED
  BY <1>1, <1>2, <1>3 DEF Next

\* The tables are well formed; one process writes at a time; and what a clear and an eviction
\* still have to do, they can (ClearsHold, WriterKeeps).
THEOREM Invariant == Spec => []Inv
BY InitInv, StepKeeps, PTL DEF Spec

-----------------------------------------------------------------------------
LEMMA ClearEnds ==
    ASSUME Inv, NEW p \in Procs, ClearHistory(p)
    PROVE  /\ \A k \in Cached(estimates') :
                  estimates'[k].network = request[p].network => estimates'[k].id >= since[p]
           /\ \A entry \in log' : entry.network = request[p].network => entry.id >= since[p]
<1>1. Gone(estimates, request[p].network, since[p]) /\ estimates' = estimates
  BY DEF Inv, ClearsHold, ClearHistory
<1> QED
  BY <1>1 DEF Gone, ClearHistory

LEMMA CommitSpares ==
    ASSUME Inv, NEW p \in Procs, Commit(p)
    PROVE  /\ Cached(estimates) # {} => Cached(estimates') # {}
           /\ Saves(p) => \/ estimates'[request[p].key].id = nextId
                          \/ \E k \in Cached(estimates') : estimates'[k].accessed >= now[p]
<1>1. estimates' = tx.estimates /\ pc[p] = "evict"
  BY DEF Commit
<1> QED
  BY <1>1 DEF Inv, WriterKeeps, Recent

\* clear_cache: a clear that ends has taken whatever was saved for its network before it began.
THEOREM ClearTakesAll == Spec => ClearedIsGone
<1>1. ASSUME Inv, [Next]_vars
      PROVE  [\A p \in Procs : ClearHistory(p) =>
                  /\ \A k \in Cached(estimates') :
                        estimates'[k].network = request[p].network => estimates'[k].id >= since[p]
                  /\ \A entry \in log' : entry.network = request[p].network => entry.id >= since[p]]_vars
  BY <1>1, ClearEnds
<1> QED
  BY <1>1, Invariant, PTL DEF Spec, ClearedIsGone

\* The eviction leaves an estimate where there was one, and takes a save only for one that was
\* used no earlier.
THEOREM EvictionSparesTheSave == Spec => SavedUnlessOvertaken
<1>1. ASSUME Inv, [Next]_vars
      PROVE  [\A p \in Procs : Commit(p) =>
                  /\ Cached(estimates) # {} => Cached(estimates') # {}
                  /\ Saves(p) => \/ estimates'[request[p].key].id = nextId
                                 \/ \E k \in Cached(estimates') : estimates'[k].accessed >= now[p]]_vars
  BY <1>1, CommitSpares
<1> QED
  BY <1>1, Invariant, PTL DEF Spec, SavedUnlessOvertaken

\* Every round of the eviction removes a row, so that the loop ends whatever the quotas are.
THEOREM EvictionEnds == Spec => []RoundsShrink
<1>1. Inv => RoundsShrink
  BY RoundTakes DEF RoundsShrink
<1> QED
  BY <1>1, Invariant, PTL

-----------------------------------------------------------------------------
(* What the readers make of any rows.                                      *)

LEMMA RowsFinite ==
    ASSUME NEW rows \in Tables, NEW K, K \subseteq Cached(rows)
    PROVE  /\ IsFiniteSet(K) /\ Cardinality(K) \in Nat
           /\ \A k \in K : rows[k] \in Rows
<1>1. K \in SUBSET Keys /\ IsFiniteSet(Keys)
  BY CacheQueryAssumption DEF Cached
<1>2. IsFiniteSet(K)
  BY <1>1, FS_Subset
<1> QED
  BY <1>2, FS_CardinalityType DEF Tables, Cached

Shown(rows, network) == {k \in Cached(rows) : network \in {None, rows[k].network} /\ Readable(rows[k])}

\* A listing has each row it shows once, none before a newer one.
LEMMA Listed ==
    ASSUME NEW rows \in Tables, NEW network
    PROVE  LET list == List(rows, network)
               shown == Shown(rows, network)
           IN  /\ list \in Seq(shown) /\ Len(list) = Cardinality(shown) /\ DOMAIN list = 1..Len(list)
               /\ IsFiniteSet(shown) /\ Len(list) \in Nat
               /\ \A k \in shown : \E i \in 1..Len(list) : list[i] = k
               /\ \A i, j \in 1..Len(list) : i < j => rows[list[i]].timestamp >= rows[list[j]].timestamp
<1> DEFINE shown == Shown(rows, network)
           list == List(rows, network)
           age == [k \in shown |-> rows[k].timestamp]
           n == Cardinality(shown)
<1> SUFFICES /\ list \in Seq(shown) /\ Len(list) = n /\ DOMAIN list = 1..Len(list)
             /\ IsFiniteSet(shown) /\ Len(list) \in Nat
             /\ \A k \in shown : \E i \in 1..Len(list) : list[i] = k
             /\ \A i, j \in 1..Len(list) : i < j => rows[list[i]].timestamp >= rows[list[j]].timestamp
  OBVIOUS
<1>1. list = Descending(age)
  BY DEF List, Shown
<1>2. shown \subseteq Cached(rows)
  BY DEF Shown
<1>3. IsFiniteSet(shown) /\ n \in Nat /\ \A k \in shown : rows[k] \in Rows
  BY <1>2, RowsFinite
<1> HIDE DEF shown, list
<1>4. DOMAIN age = shown /\ \A k \in shown : age[k] = rows[k].timestamp /\ age[k] \in Nat
  BY <1>3 DEF Rows
<1> HIDE DEF age
<1>5. /\ list \in [1..n -> shown]
      /\ \A k \in shown : \E i \in 1..n : list[i] = k
      /\ \A i, j \in 1..n : i < j => age[list[i]] >= age[list[j]]
  BY <1>1, <1>3, <1>4, DescendingMembers
<1>6. \A i, j \in 1..n : i < j => rows[list[i]].timestamp >= rows[list[j]].timestamp
  BY <1>4, <1>5
<1> HIDE DEF n
<1>7. list \in Seq(shown)
  BY <1>3, <1>5 
<1>8. DOMAIN list = 1..n /\ Len(list) = n
  BY <1>3, <1>5, <1>7, LenProperties
<1> QED
  BY <1>3, <1>5, <1>6, <1>7, <1>8

\* cache query shows what cache delete would delete.
LEMMA QueryIsDoomed ==
    ASSUME NEW rows \in Tables, NEW filter
    PROVE  ToSet(Query(rows, filter)) = Doomed(rows, filter)
<1> DEFINE list == List(rows, filter.network)
           shown == Shown(rows, filter.network)
           kept == {i \in DOMAIN list : Matches(list[i], rows[list[i]], filter)}
<1>1. Query(rows, filter) = At(list, kept)
  BY DEF Query
<1>2. /\ DOMAIN list = 1..Len(list) /\ Len(list) \in Nat
      /\ \A i \in 1..Len(list) : list[i] \in shown
      /\ \A k \in shown : \E i \in 1..Len(list) : list[i] = k
  BY Listed
<1>3. kept \subseteq Nat /\ IsFiniteSet(kept) /\ kept = {i \in 1..Len(list) : Matches(list[i], rows[list[i]], filter)}
  <2>1. kept \in SUBSET (1..Len(list)) /\ IsFiniteSet(1..Len(list))
    BY <1>2, FS_Interval
  <2> QED
    BY <1>2, <2>1, FS_Subset
<1>4. ToSet(At(list, kept)) = {list[i] : i \in kept}
  <2> HIDE DEF list, kept
  <2>1. \A k \in 1..Cardinality(kept) : Nth(kept, k) \in kept /\ At(list, kept)[k] = list[Nth(kept, k)]
    BY <1>3, AtElement
  <2>2. \A i \in kept : \E k \in 1..Cardinality(kept) : Nth(kept, k) = i
    BY <1>3, NthOfRank
  <2>3. DOMAIN At(list, kept) = 1..Cardinality(kept)
    BY DEF At
  <2> QED
    BY <2>1, <2>2, <2>3 DEF ToSet
<1>5. {list[i] : i \in kept} = {k \in shown : Matches(k, rows[k], filter)}
  <2> HIDE DEF list, shown
  <2> QED
    BY <1>2, <1>3
<1>6. {k \in shown : Matches(k, rows[k], filter)} = Doomed(rows, filter)
  BY DEF Doomed, Shown, Matches
<1> QED
  BY <1>1, <1>4, <1>5, <1>6

LEMMA Quotient ==
    ASSUME NEW limit \in Nat \ {0}, NEW m \in Nat
    PROVE  \E n \in 0..m : n * limit <= m /\ m < n * limit + limit
<1> DEFINE beyond == {n \in Nat : m < n * limit + limit}
<1>1. m \in beyond
  <2>1. m * limit >= m
    BY SMTT(30)
  <2> QED
    BY <2>1
<1>2. Min(beyond) \in beyond /\ \A n \in beyond : Min(beyond) <= n
  <2>1. beyond \subseteq Nat
    OBVIOUS
  <2> HIDE DEF beyond
  <2> QED
    BY <1>1, <2>1, NatMinimum
<1>3. PICK n \in beyond : \A k \in beyond : n <= k
  BY <1>2
<1>4. n \in 0..m
  BY <1>1, <1>3
<1>5. n * limit <= m
  <2>1. CASE n = 0
    BY <2>1
  <2>2. CASE n # 0
    <3>1. n - 1 \in Nat /\ n - 1 \notin beyond
      BY <1>3, <2>2
    <3>2. (n - 1) * limit + limit <= m /\ (n - 1) * limit + limit = n * limit
      BY <3>1
    <3> QED
      BY <3>2
  <2> QED
    BY <2>1, <2>2
<1> QED
  BY <1>3, <1>4, <1>5

\* The pages of a sequence, one after the other, are all of it.
LEMMA PagesCover ==
    ASSUME NEW S, NEW seq \in Seq(S), NEW limit \in 1..MaxListLimit
    PROVE  ToSet(seq) = UNION {ToSet(Page(seq, limit, n * limit)) : n \in 0..Len(seq)}
<1> DEFINE len == Len(seq)
<1>1. len \in Nat /\ DOMAIN seq = 1..len /\ (\A i \in 1..len : seq[i] \in S) /\ limit \in Nat \ {0}
      /\ MaxListLimit \in Nat
  BY LenProperties, CacheQueryAssumption
<1> HIDE DEF len
<1>2. ASSUME NEW n \in 0..len
      PROVE  ToSet(Page(seq, limit, n * limit))
                 = {seq[i] : i \in {j \in 1..len : n * limit < j /\ j <= n * limit + limit}}
  <2> DEFINE skipped == n * limit
             end == Min({skipped + limit, len})
  <2>1. skipped \in Nat
    BY <1>1
  <2> HIDE DEF skipped
  <2>2. Min({limit, MaxListLimit}) = limit
    BY <1>1 DEF Min
  <2>3. end \in Nat /\ end <= skipped + limit /\ end <= len /\ end \in {skipped + limit, len}
    <3>1. {skipped + limit, len} \subseteq Nat /\ {skipped + limit, len} # {}
      BY <1>1, <2>1
    <3>2. end \in {skipped + limit, len} /\ \A x \in {skipped + limit, len} : end <= x
      BY <3>1, NatMinimum
    <3> QED
      BY <3>1, <3>2
  <2>4. Page(seq, limit, skipped) = SubSeq(seq, skipped + 1, end)
    BY <2>2 DEF Page, len
  <2> HIDE DEF end
  <2> DEFINE page == SubSeq(seq, skipped + 1, end)
  <2>5. /\ page \in Seq(S)
        /\ Len(page) = IF skipped + 1 <= end THEN end - (skipped + 1) + 1 ELSE 0
        /\ \A i \in 1..(end - (skipped + 1) + 1) : page[i] = seq[skipped + 1 + i - 1]
    <3>1. skipped + 1 \in Int /\ end \in Int
      BY <2>1, <2>3
    <3>2. ASSUME NEW i \in (skipped + 1)..end PROVE seq[i] \in S
      <4>1. i \in Nat /\ 1 <= i /\ i <= len
        BY <1>1, <2>1, <2>3
      <4> QED
        BY <1>1, <4>1
    <3> QED
      BY <3>1, <3>2, SubSeqProperties
  <2> HIDE DEF page
  <2>6. DOMAIN page = 1..Len(page) /\ Len(page) \in Nat
    BY <2>5, LenProperties
  <2>7. ASSUME NEW i \in DOMAIN page PROVE page[i] = seq[skipped + i] /\ skipped + i \in (skipped + 1)..end
    <3>1. i \in Nat /\ 1 <= i /\ i <= Len(page)
      BY <2>6
    <3>2. skipped + 1 <= end
      BY <2>1, <2>3, <2>5, <3>1
    <3>3. i \in 1..(end - (skipped + 1) + 1) /\ skipped + i <= end /\ skipped + 1 + i - 1 = skipped + i
      BY <2>1, <2>3, <2>5, <3>1, <3>2
    <3>4. page[i] = seq[skipped + 1 + i - 1]
      BY <2>5, <3>3
    <3>5. skipped + i \in (skipped + 1)..end
      BY <2>1, <2>3, <3>1, <3>3
    <3> QED
      BY <3>3, <3>4, <3>5
  <2>8. ASSUME NEW j \in (skipped + 1)..end PROVE j - skipped \in DOMAIN page
    <3>1. skipped + 1 <= end
      BY <2>1, <2>3
    <3>2. Len(page) = end - (skipped + 1) + 1
      BY <2>5, <3>1
    <3>3. j - skipped \in 1..(end - (skipped + 1) + 1)
      BY <2>1, <2>3
    <3> QED
      BY <2>6, <3>2, <3>3
  <2>9. ToSet(page) = {seq[i] : i \in (skipped + 1)..end}
    <3>1. ASSUME NEW j \in (skipped + 1)..end PROVE seq[j] \in ToSet(page)
      <4>1. j - skipped \in DOMAIN page /\ skipped + (j - skipped) = j
        BY <2>1, <2>3, <2>8
      <4>2. page[j - skipped] = seq[j]
        BY <2>7, <4>1
      <4> QED
        BY <4>1, <4>2 DEF ToSet
    <3> QED
      BY <2>7, <3>1 DEF ToSet
  <2>10. (skipped + 1)..end = {j \in 1..len : skipped < j /\ j <= skipped + limit}
    <3>1. ASSUME NEW j \in (skipped + 1)..end PROVE j \in 1..len /\ skipped < j /\ j <= skipped + limit
      BY <1>1, <2>1, <2>3
    <3>2. ASSUME NEW j \in 1..len, skipped < j, j <= skipped + limit PROVE j \in (skipped + 1)..end
      <4>1. j \in Nat /\ j <= len /\ skipped + 1 <= j
        BY <1>1, <2>1, <3>2
      <4>2. j <= end
        BY <1>1, <2>1, <2>3, <3>2, <4>1
      <4> QED
        BY <2>1, <2>3, <4>1, <4>2
    <3> QED
      BY <3>1, <3>2
  <2> QED
    BY <2>4, <2>9, <2>10 DEF page, skipped
<1>3. ASSUME NEW i \in 1..len
      PROVE  \E n \in 0..len : n * limit < i /\ i <= n * limit + limit
  <2>1. PICK n \in 0..i - 1 : n * limit <= i - 1 /\ i - 1 < n * limit + limit
    <3>1. i - 1 \in Nat
      OBVIOUS
    <3> QED
      BY <1>1, <3>1, Quotient
  <2>2. n \in 0..len
    BY <1>1, <2>1
  <2> DEFINE skipped == n * limit
  <2>3. skipped \in Nat /\ skipped <= i - 1 /\ i - 1 < skipped + limit
    BY <1>1, <2>1
  <2> HIDE DEF skipped
  <2>4. skipped < i /\ i <= skipped + limit
    BY <1>1, <2>3
  <2> QED
    BY <2>2, <2>4 DEF skipped
<1> DEFINE window(n) == {j \in 1..len : n * limit < j /\ j <= n * limit + limit}
<1>4. UNION {ToSet(Page(seq, limit, n * limit)) : n \in 0..len}
        = UNION {{seq[i] : i \in window(n)} : n \in 0..len}
  BY <1>2
<1>5. \A i \in 1..len : \E n \in 0..len : i \in window(n)
  BY <1>3
<1>6. \A n : window(n) \subseteq 1..len
  OBVIOUS
<1>7. ToSet(seq) = {seq[i] : i \in 1..len}
  BY <1>1 DEF ToSet
<1> HIDE DEF window
<1>8. {seq[i] : i \in 1..len} = UNION {{seq[i] : i \in window(n)} : n \in 0..len}
  BY <1>5, <1>6
<1> QED
  BY <1>4, <1>7, <1>8 DEF len
-----------------------------------------------------------------------------
\* The counts of a partition's blocks add up: one of the rows of a network for each number up to
\* how many it has.
LEMMA BlocksAddUp ==
    ASSUME NEW C, IsFiniteSet(C), NEW label, NEW size, DOMAIN size = {label[k] : k \in C},
           \A n \in DOMAIN size : size[n] = Cardinality({k \in C : label[k] = n})
    PROVE  Cardinality(UNION {{n} \X (1..size[n]) : n \in DOMAIN size}) = Cardinality(C)
<1> DEFINE block(n) == {k \in C : label[k] = n}
           labels == DOMAIN size
           cells == UNION {{n} \X (1..size[n]) : n \in labels}
           numbering == [n \in labels |-> CHOOSE f : f \in Bijection(1..size[n], block(n))]
           member == [c \in cells |-> numbering[c[1]][c[2]]]
<1> SUFFICES Cardinality(cells) = Cardinality(C)
  OBVIOUS
<1>1. ASSUME NEW n \in labels
      PROVE  numbering[n] \in Bijection(1..size[n], block(n))
  <2>1. block(n) \in SUBSET C
    OBVIOUS
  <2>2. IsFiniteSet(block(n))
    BY <2>1, FS_Subset
  <2>3. ExistsBijection(1..size[n], block(n))
    <3>1. size[n] = Cardinality(block(n))
      OBVIOUS
    <3>2. ExistsBijection(1..Cardinality(block(n)), block(n))
      BY <2>2, FS_CardinalityType
    <3> QED
      BY <3>1, <3>2
  <2> QED
    BY <2>3 DEF ExistsBijection
<1> HIDE DEF numbering
<1>2. \A c \in cells : c[1] \in labels /\ c[2] \in 1..size[c[1]] /\ c = <<c[1], c[2]>>
  OBVIOUS
<1>3. \A n \in labels : \A i \in 1..size[n] : <<n, i>> \in cells
  <2> TAKE n \in labels
  <2> TAKE i \in 1..size[n]
  <2>1. <<n, i>> \in {n} \X (1..size[n])
    OBVIOUS
  <2> QED
    BY <2>1
<1>4. ASSUME NEW c \in cells
      PROVE  member[c] \in C /\ label[member[c]] = c[1] /\ member[c] = numbering[c[1]][c[2]]
  <2>1. member[c] = numbering[c[1]][c[2]]
    OBVIOUS
  <2>2. numbering[c[1]][c[2]] \in block(c[1])
    BY <1>1, <1>2 DEF Bijection, Injection
  <2> QED
    BY <2>1, <2>2
<1>5. DOMAIN member = cells /\ member = [c \in cells |-> member[c]]
  OBVIOUS
<1> HIDE DEF cells, member
<1>6. member \in Injection(cells, C)
  <2>1. ASSUME NEW c \in cells, NEW d \in cells, member[c] = member[d] PROVE c = d
    <3>1. c[1] = d[1]
      BY <1>4, <2>1
    <3>2. numbering[c[1]][c[2]] = numbering[c[1]][d[2]]
      BY <1>4, <2>1, <3>1
    <3>3. c[2] = d[2]
      <4>1. c[2] \in 1..size[c[1]] /\ d[2] \in 1..size[c[1]] /\ c[1] \in labels
        BY <1>2, <3>1
      <4> DEFINE f == numbering[c[1]]
      <4>2. f \in [1..size[c[1]] -> block(c[1])] /\ IsInjective(f)
        BY <1>1, <4>1 DEF Bijection, Injection
      <4> HIDE DEF f, block
      <4>3. \A a, b \in 1..size[c[1]] : f[a] = f[b] => a = b
        BY <4>2 DEF IsInjective
      <4> QED
        BY <3>2, <4>1, <4>3 DEF f
    <3> QED
      BY <1>2, <3>1, <3>3
  <2>2. member \in [cells -> C]
    BY <1>4, <1>5
  <2> QED
    BY <2>1, <2>2 DEF Injection, IsInjective
<1>7. member \in Surjection(cells, C)
  <2>1. ASSUME NEW k \in C PROVE \E c \in cells : member[c] = k
    <3>1. label[k] \in labels /\ k \in block(label[k])
      OBVIOUS
    <3>2. PICK i \in 1..size[label[k]] : numbering[label[k]][i] = k
      BY <1>1, <3>1 DEF Bijection, Surjection
    <3>3. <<label[k], i>> \in cells
      BY <1>3, <3>1
    <3>4. member[<<label[k], i>>] = k
      BY <1>4, <3>2, <3>3
    <3> QED
      BY <3>3, <3>4
  <2> QED
    BY <1>4, <1>5, <2>1 DEF Surjection
<1>8. ExistsBijection(cells, C)
  BY <1>6, <1>7 DEF ExistsBijection, Bijection
<1>9. IsFiniteSet(cells)
  BY <1>6, FS_Injection
<1> QED
  BY <1>8, <1>9, FS_Bijection

\* cache stats counts what is listed and what cannot be read, and network by network as many.
LEMMA StatsAddUp ==
    ASSUME NEW rows \in Tables
    PROVE  LET stats == Stats(rows)
               networks == DOMAIN stats.per_network
           IN  /\ stats.total = Len(List(rows, None))
                                    + Cardinality({k \in Cached(rows) : ~Verification(rows)[k]})
               /\ stats.total = Cardinality(UNION {{n} \X (1..stats.per_network[n]) : n \in networks})
<1> DEFINE C == Cached(rows)
           stats == Stats(rows)
           networks == DOMAIN stats.per_network
           unread == {k \in C : ~Verification(rows)[k]}
           shown == Shown(rows, None)
<1> SUFFICES /\ stats.total = Len(List(rows, None)) + Cardinality(unread)
             /\ stats.total = Cardinality(UNION {{n} \X (1..stats.per_network[n]) : n \in networks})
  OBVIOUS
<1>1. stats.total = Cardinality(C)
  BY DEF Stats
<1>2. IsFiniteSet(C)
  BY RowsFinite
<1>3. shown = C \ unread
  BY DEF Shown, Verification
<1>4. Cardinality(C \ unread) = Cardinality(C) - Cardinality(unread)
  <2>1. C \cap unread = unread
    OBVIOUS
  <2>2. Cardinality(C \ unread) = Cardinality(C) - Cardinality(C \cap unread)
    BY <1>2, FS_Difference
  <2> QED
    BY <2>1, <2>2
<1>5. Cardinality(C) \in Nat /\ Cardinality(unread) \in Nat
  BY RowsFinite
<1>6. Len(List(rows, None)) = Cardinality(shown)
  BY Listed
<1>7. stats.total = Len(List(rows, None)) + Cardinality(unread)
  <2> HIDE DEF C, unread, shown, stats
  <2>1. PICK all, some \in Nat : all = Cardinality(C) /\ some = Cardinality(unread)
    BY <1>5
  <2>2. Len(List(rows, None)) = all - some /\ stats.total = all
    BY <1>1, <1>3, <1>4, <1>6, <2>1
  <2> QED
    BY <2>1, <2>2
<1>8. stats.total = Cardinality(UNION {{n} \X (1..stats.per_network[n]) : n \in networks})
  <2> DEFINE label == [k \in C |-> rows[k].network]
             size == stats.per_network
  <2>1. DOMAIN size = {label[k] : k \in C}
    BY DEF Stats
  <2>2. \A n \in DOMAIN size : size[n] = Cardinality({k \in C : label[k] = n})
    <3>1. \A n : {k \in C : label[k] = n} = {k \in C : rows[k].network = n}
      OBVIOUS
    <3>2. \A n \in DOMAIN size : size[n] = Cardinality({k \in C : rows[k].network = n})
      BY DEF Stats
    <3> HIDE DEF label, C, stats
    <3> QED
      BY <3>1, <3>2
  <2> HIDE DEF C, label, stats, size
  <2>3. Cardinality(UNION {{n} \X (1..size[n]) : n \in DOMAIN size}) = Cardinality(C)
    BY <1>2, <2>1, <2>2, BlocksAddUp
  <2> QED
    BY <1>1, <2>3 DEF size
<1> QED
  BY <1>7, <1>8

LEMMA TypedReadersAgree == TypeOK => ReadersAgree
<1> SUFFICES ASSUME TypeOK PROVE ReadersAgree
  OBVIOUS
<1> DEFINE stats == Stats(estimates)
           all == List(estimates, None)
           networks == DOMAIN stats.per_network
           shown == Shown(estimates, None)
           C == Cached(estimates)
<1>1. estimates \in Tables
  BY DEF TypeOK
<1>2. /\ all \in Seq(shown) /\ DOMAIN all = 1..Len(all) /\ Len(all) \in Nat
      /\ \A k \in shown : \E i \in 1..Len(all) : all[i] = k
      /\ \A i, j \in 1..Len(all) : i < j => estimates[all[i]].timestamp >= estimates[all[j]].timestamp
  BY <1>1, Listed
<1>3. shown = {k \in C : Readable(estimates[k])}
  BY DEF Shown
<1>4. Verified(estimates) <=> Exportable(estimates)
  BY DEF Verified, Verification, Exportable
<1>5. ToSet(all) = shown
  <2> HIDE DEF all, shown
  <2>1. \A i \in 1..Len(all) : all[i] \in shown
    BY <1>2
  <2> QED
    BY <1>2, <2>1 DEF ToSet
<1>6. Exportable(estimates) => Export(estimates, None) = ToSet(all)
  <2> SUFFICES ASSUME Exportable(estimates) PROVE Export(estimates, None) = shown
    BY <1>5
  <2>1. Export(estimates, None) = C
    BY DEF Export
  <2> QED
    BY <1>3, <2>1 DEF Exportable
<1>7. /\ stats.total = Len(all) + Cardinality({k \in C : ~Verification(estimates)[k]})
      /\ stats.total = Cardinality(UNION {{n} \X (1..stats.per_network[n]) : n \in networks})
  BY <1>1, StatsAddUp
<1>8. ASSUME NEW k \in C
      PROVE  estimates[k].timestamp <= stats.newest /\ estimates[k].timestamp >= stats.oldest
  <2> DEFINE times == {estimates[j].timestamp : j \in C}
  <2>1. stats.newest = Max(times) /\ stats.oldest = Min(times)
    BY <1>8 DEF Stats
  <2>2. IsFiniteSet(C) /\ \A j \in C : estimates[j] \in Rows
    BY <1>1, RowsFinite
  <2>3. times \subseteq Nat /\ times # {}
    BY <2>2, <1>8 DEF Rows
  <2>4. IsFiniteSet(times)
    <3> DEFINE time == [j \in C |-> estimates[j].timestamp]
    <3>1. time \in Surjection(C, times)
      BY DEF Surjection
    <3> HIDE DEF C, time, times
    <3> QED
      BY <2>2, <3>1, FS_Surjection
  <2>5. /\ Max(times) \in Nat /\ \A t \in times : t <= Max(times)
        /\ Min(times) \in Nat /\ \A t \in times : Min(times) <= t
    <3> HIDE DEF times
    <3>1. Max(times) \in times /\ \A t \in times : t <= Max(times)
      BY <2>3, <2>4, FiniteMaximum
    <3>2. Min(times) \in times /\ \A t \in times : Min(times) <= t
      BY <2>3, NatMinimum
    <3> QED
      BY <2>3, <3>1, <3>2
  <2>6. estimates[k].timestamp \in times /\ estimates[k].timestamp \in Nat
    BY <2>3
  <2> HIDE DEF stats, times
  <2> QED
    BY <2>1, <2>5, <2>6
<1>9. all # <<>> => /\ estimates[Head(all)].timestamp <= stats.newest
                    /\ estimates[Last(all)].timestamp >= stats.oldest
  <2> SUFFICES ASSUME all # <<>> PROVE Head(all) \in C /\ Last(all) \in C
    BY <1>8
  <2>1. Len(all) > 0
    BY <1>2, EmptySeq
  <2>2. all[1] \in shown /\ all[Len(all)] \in shown
    <3> HIDE DEF all, shown
    <3> QED
      BY <1>2, <2>1
  <2>3. Head(all) = all[1] /\ Last(all) = all[Len(all)]
    <3> HIDE DEF all, shown
    <3> QED
      BY <1>2, HeadTailProperties DEF Last
  <2> QED
    BY <1>3, <2>2, <2>3
<1>10. \A i, j \in DOMAIN all : i < j => estimates[all[i]].timestamp >= estimates[all[j]].timestamp
  BY <1>2
<1>11. \A limit \in 1..MaxListLimit :
           ToSet(all) = UNION {ToSet(Page(all, limit, n * limit)) : n \in 0..Len(all)}
  BY <1>2, PagesCover
<1>12. ASSUME NEW r \in Deletions
       PROVE  LET listing == Query(estimates, BuildFilter(r.args, clock))
              IN  /\ ToSet(listing) = Doomed(estimates, BuildFilter(r.args, clock))
                  /\ r.args.older_than = None => listing = Query(estimates, QueryFilter(r.args))
  <2>1. r.args.older_than = None => BuildFilter(r.args, clock) = QueryFilter(r.args)
    BY DEF BuildFilter, QueryFilter, Earlier
  <2>2. ToSet(Query(estimates, BuildFilter(r.args, clock))) = Doomed(estimates, BuildFilter(r.args, clock))
    BY <1>1, QueryIsDoomed
  <2> QED
    BY <2>1, <2>2
<1> HIDE DEF stats, all, networks, C
<1>13. (\A p \in Procs : pc[p] = "idle") =>
           /\ Verified(estimates) <=> Exportable(estimates)
           /\ Exportable(estimates) => Export(estimates, None) = ToSet(all)
           /\ stats.total = Len(all) + Cardinality({k \in C : ~Verification(estimates)[k]})
           /\ stats.total = Cardinality(UNION {{n} \X (1..stats.per_network[n]) : n \in networks})
           /\ all # <<>> => /\ estimates[Head(all)].timestamp <= stats.newest
                            /\ estimates[Last(all)].timestamp >= stats.oldest
           /\ \A i, j \in DOMAIN all : i < j => estimates[all[i]].timestamp >= estimates[all[j]].timestamp
           /\ \A limit \in 1..MaxListLimit :
                 ToSet(all) = UNION {ToSet(Page(all, limit, n * limit)) : n \in 0..Len(all)}
           /\ \A r \in Deletions :
                 LET listing == Query(estimates, BuildFilter(r.args, clock))
                 IN  /\ ToSet(listing) = Doomed(estimates, BuildFilter(r.args, clock))
                     /\ r.args.older_than = None => listing = Query(estimates, QueryFilter(r.args))
  BY <1>4, <1>6, <1>7, <1>9, <1>10, <1>11, <1>12
<1> QED
  BY <1>13 DEF ReadersAgree, stats, all, networks, C

\* cache list, query, export, verify, stats and delete agree on what is in the cache, whatever
\* the commands have left there (list_cached_estimates, query_cache, cache_stats).
THEOREM ReadersAlwaysAgree == Spec => []ReadersAgree
<1>1. Inv => ReadersAgree
  BY TypedReadersAgree DEF Inv
<1> QED
  BY <1>1, Invariant, PTL
=============================================================================

------------------------- MODULE SnapshotStoreProofs --------------------------
(***************************************************************************)
(* What retention may and may not take from the snapshot directory, for    *)
(* any processes, captures, hand-written names and retention rules, with a *)
(* kill or a copied file at any point.                                     *)
(***************************************************************************)
EXTENDS SnapshotStore, OrderedProofs

-----------------------------------------------------------------------------
States == {"idle", "compare", "create", "write", "list", "remove"}

Locals == [pc : States, snapshot : Snapshots \union {Torn}, retain : Nat \union {None},
           days : Nat \union {None}, doomed : SUBSET Nat]

\* A process that has a capture to store is a collector and has one
Holds(p, local) == local.pc \in {"compare", "create", "write"} =>
                       p \in Collectors /\ local.snapshot \in Snapshots
Chosen(local) == local.pc = "remove" => local.doomed # {}

TypeOK ==
    /\ Present \subseteq Names /\ IsFiniteSet(Present)
    /\ \E bound \in Nat : \A n \in Present : n <= bound
    /\ live \in Configs
    /\ now \in 0..MaxTime
    /\ proc \in [Processes -> Locals]
    /\ \A p \in Processes : Holds(p, proc[p]) /\ Chosen(proc[p])

\* Whatever a retention run is still to remove has a successor in the directory: what another
\* run removes meanwhile had one, too.
DoomedIsFollowed ==
    \A p \in Processes : \A n \in proc[p].doomed : \E m \in Present : m > n

Inv == TypeOK /\ DoomedIsFollowed

-----------------------------------------------------------------------------
LEMMA NamesAreNat == Names \subseteq Nat
BY SnapshotAssumption DEF Names, Stamps

LEMMA TornIsNoSnapshot == Torn \notin Snapshots
BY SnapshotAssumption DEF Torn, Snapshots, Stamps

LEMMA IdleType ==
    /\ Idle \in Locals /\ Idle.doomed = {}
    /\ \A p : Holds(p, Idle) /\ Chosen(Idle)
BY DEF Idle, Locals, States, Holds, Chosen

LEMMA InitInv == Init => Inv
<1> SUFFICES ASSUME Init PROVE Inv
  OBVIOUS
<1>1. Present = {} /\ IsFiniteSet(Present)
  BY FS_EmptySet DEF Init, Present
<1>2. \A p \in Processes : proc[p] = Idle
  BY DEF Init
<1>3. now \in 0..MaxTime
  BY SnapshotAssumption DEF Init
<1> QED
  BY <1>1, <1>2, <1>3, IdleType DEF Init, Inv, TypeOK, DoomedIsFollowed

\* The last name there is, and the last capture
LEMMA LastOfPresent ==
    ASSUME Inv, Present # {}
    PROVE  Max(Present) \in Present /\ \A n \in Present : n <= Max(Present)
BY NatMaximum, NamesAreNat DEF Inv, TypeOK

LEMMA LastOfStamped ==
    ASSUME Inv, Stamped # {}
    PROVE  Max(Stamped) \in Stamped /\ \A n \in Stamped : n <= Max(Stamped)
<1>1. Stamped \subseteq Nat /\ MaxTime \in Nat /\ \A n \in Stamped : n <= MaxTime
  BY SnapshotAssumption DEF Stamped, Stamps
<1> QED
  BY <1>1, NatMaximum

-----------------------------------------------------------------------------
\* A file more
LEMMA PutType ==
    ASSUME Inv, NEW n \in Names, NEW content, files' = Put(n, content)
    PROVE  /\ Present' = Present \union {n} /\ Present' \subseteq Names /\ IsFiniteSet(Present')
           /\ \E bound \in Nat : \A m \in Present' : m <= bound
<1>1. Present' = Present \union {n}
  BY DEF Put, Present
<1>2. IsFiniteSet(Present')
  BY <1>1, FS_AddElement DEF Inv, TypeOK
<1>3. PICK bound \in Nat : \A m \in Present : m <= bound
  BY DEF Inv, TypeOK
<1>4. bound + n \in Nat /\ \A m \in Present' : m <= bound + n
  BY <1>1, <1>3, NamesAreNat DEF Inv, TypeOK
<1> QED
  BY <1>1, <1>2, <1>4 DEF Inv, TypeOK

\* A step of p that removes no file and leaves every later one a retention run counts on
LEMMA LocalKeeps ==
    ASSUME Inv, NEW p \in Processes, NEW local \in Locals, proc' = [proc EXCEPT ![p] = local],
           Holds(p, local), Chosen(local),
           \/ local.doomed \subseteq proc[p].doomed
           \/ \A n \in local.doomed : \E m \in Present' : m > n,
           Present \subseteq Present', Present' \subseteq Names, IsFiniteSet(Present'),
           \E bound \in Nat : \A n \in Present' : n <= bound,
           live' \in Configs, now' \in 0..MaxTime
    PROVE  Inv'
<1>1. ASSUME NEW q \in Processes PROVE proc'[q] = IF q = p THEN local ELSE proc[q]
  BY DEF Inv, TypeOK
<1>2. TypeOK'
  BY <1>1 DEF Inv, TypeOK
<1>3. DoomedIsFollowed'
  BY <1>1 DEF Inv, DoomedIsFollowed
<1> QED
  BY <1>2, <1>3 DEF Inv

-----------------------------------------------------------------------------
\* The steps that touch no file and no retention run
LEMMA FilesKept ==
    ASSUME Inv, UNCHANGED files
    PROVE  /\ Present' = Present /\ Present' \subseteq Names /\ IsFiniteSet(Present')
           /\ \E bound \in Nat : \A n \in Present' : n <= bound
BY DEF Inv, TypeOK, Present

LEMMA ReconfigureKeeps == ASSUME Inv, Reconfigure PROVE Inv'
<1>1. Present' = Present
  BY FilesKept DEF Reconfigure
<1> QED
  BY <1>1 DEF Inv, TypeOK, DoomedIsFollowed, Reconfigure

LEMMA CopyKeeps == ASSUME Inv, NEW n \in Manual, Copy(n) PROVE Inv'
<1>1. PICK source \in Intact : files' = Put(n, files[source])
  BY DEF Copy
<1>2. n \in Names
  BY DEF Names
<1> HIDE DEF Put
<1>3. /\ Present' = Present \union {n} /\ Present' \subseteq Names /\ IsFiniteSet(Present')
      /\ \E bound \in Nat : \A m \in Present' : m <= bound
  BY <1>1, <1>2, PutType
<1>4. TypeOK'
  BY <1>3 DEF Inv, TypeOK, Copy
<1>5. DoomedIsFollowed'
  BY <1>3 DEF Inv, DoomedIsFollowed, Copy
<1> QED
  BY <1>4, <1>5 DEF Inv

LEMMA DieKeeps == ASSUME Inv, NEW p \in Processes, Die(p) PROVE Inv'
<1>1. proc' = [proc EXCEPT ![p] = Idle] /\ UNCHANGED <<files, live, now>>
  BY DEF Die
<1>2. live' \in Configs /\ now' \in 0..MaxTime
  BY <1>1 DEF Inv, TypeOK
<1> QED
  BY <1>1, <1>2, FilesKept, IdleType, LocalKeeps

LEMMA FetchKeeps == ASSUME Inv, NEW p \in Collectors, Fetch(p) PROVE Inv'
<1>1. PICK skip \in Skips, retain \in Retains, protocol \in BOOLEAN :
          proc' = [proc EXCEPT ![p].pc = IF skip THEN "compare" ELSE "create",
                               ![p].snapshot = [at |-> now + 1, config |-> live,
                                                protocol |-> protocol],
                               ![p].retain = retain]
  BY DEF Fetch
<1>2. p \in Processes /\ proc[p] \in Locals /\ retain \in Nat \union {None}
  BY SnapshotAssumption DEF Processes, Inv, TypeOK
<1>3. now' = now + 1 /\ now + 1 \in 1..MaxTime /\ live' \in Configs /\ UNCHANGED files
  BY SnapshotAssumption DEF Fetch, Inv, TypeOK
<1> DEFINE taken == [at |-> now + 1, config |-> live, protocol |-> protocol]
           local == [proc[p] EXCEPT !.pc = IF skip THEN "compare" ELSE "create",
                                    !.snapshot = taken, !.retain = retain]
<1>4. taken \in Snapshots
  BY <1>3 DEF Snapshots, Stamps, Fetch, Inv, TypeOK
<1>5. proc' = [proc EXCEPT ![p] = local]
  BY <1>1, <1>2 DEF Inv, TypeOK
<1> HIDE DEF taken
<1>6. /\ local \in Locals /\ local.pc \in {"compare", "create"} /\ local.snapshot = taken
      /\ local.doomed = proc[p].doomed
  BY <1>2, <1>4 DEF Locals, States
<1>7. Holds(p, local) /\ Chosen(local)
  BY <1>4, <1>6 DEF Holds, Chosen
<1>8. now' \in 0..MaxTime
  BY <1>3 DEF Inv, TypeOK
<1> HIDE DEF local
<1> QED
  BY <1>2, <1>3, <1>5, <1>6, <1>7, <1>8, FilesKept, LocalKeeps

\* A collector goes on to the next step of its command, or ends it
LEMMA MovedType ==
    ASSUME NEW p \in Processes, proc[p] \in Locals, Holds(p, proc[p]), NEW to \in States \ {"remove"},
           to \in {"compare", "create", "write"} => proc[p].pc \in {"compare", "create", "write"}
    PROVE  LET local == [proc[p] EXCEPT !.pc = to]
           IN  local \in Locals /\ Holds(p, local) /\ Chosen(local) /\ local.doomed = proc[p].doomed
<1> DEFINE local == [proc[p] EXCEPT !.pc = to]
<1>1. local \in Locals /\ local.pc = to /\ local.snapshot = proc[p].snapshot /\ local.doomed = proc[p].doomed
  BY DEF Locals
<1>2. Holds(p, local)
  BY <1>1 DEF Holds
<1>3. Chosen(local)
  BY <1>1 DEF Chosen
<1> QED
  BY <1>1, <1>2, <1>3

LEMMA AfterSaveType ==
    ASSUME NEW p \in Processes, proc[p] \in Locals, Holds(p, proc[p])
    PROVE  /\ AfterSave(p) \in Locals /\ Holds(p, AfterSave(p)) /\ Chosen(AfterSave(p))
           /\ AfterSave(p).doomed \subseteq proc[p].doomed
<1>1. CASE proc[p].retain = None
  BY <1>1, IdleType DEF AfterSave
<1>2. CASE proc[p].retain # None
  <2>1. "list" \in States \ {"remove"} /\ "list" \notin {"compare", "create", "write"}
    BY DEF States
  <2> QED
    BY <1>2, <2>1, MovedType DEF AfterSave
<1> QED
  BY <1>1, <1>2

LEMMA CompareKeeps == ASSUME Inv, NEW p \in Collectors, Compare(p) PROVE Inv'
<1>1. p \in Processes
  BY DEF Processes
<1>2. proc[p] \in Locals /\ Holds(p, proc[p]) /\ proc[p].pc = "compare"
  BY <1>1 DEF Inv, TypeOK, Compare
<1> DEFINE further == [proc[p] EXCEPT !.pc = "create"]
<1>3. further \in Locals /\ Holds(p, further) /\ Chosen(further) /\ further.doomed = proc[p].doomed
  <2>1. "create" \in States \ {"remove"}
    BY DEF States
  <2> QED
    BY <1>1, <1>2, <2>1, MovedType
<1>4. PICK local \in {further, Idle, AfterSave(p)} : proc' = [proc EXCEPT ![p] = local]
  <2>1. CASE Latest = 0
    BY <1>1, <2>1 DEF Compare, Inv, TypeOK
  <2>2. CASE Latest # 0 /\ files[Latest] = Torn
    BY <1>1, <2>2 DEF Compare, Inv, TypeOK
  <2>3. CASE Latest # 0 /\ files[Latest] # Torn /\ SameConfiguration(files[Latest], proc[p].snapshot)
    BY <1>1, <2>3 DEF Compare, Inv, TypeOK
  <2>4. CASE Latest # 0 /\ files[Latest] # Torn /\ ~SameConfiguration(files[Latest], proc[p].snapshot)
    BY <1>1, <2>4 DEF Compare, Inv, TypeOK
  <2> QED
    BY <2>1, <2>2, <2>3, <2>4
<1> HIDE DEF further
<1>5. local \in Locals /\ Holds(p, local) /\ Chosen(local) /\ local.doomed \subseteq proc[p].doomed
  BY <1>1, <1>2, <1>3, IdleType, AfterSaveType
<1>6. UNCHANGED files /\ live' \in Configs /\ now' \in 0..MaxTime
  BY DEF Compare, Inv, TypeOK
<1> QED
  BY <1>1, <1>4, <1>5, <1>6, FilesKept, LocalKeeps

LEMMA CreateKeeps == ASSUME Inv, NEW p \in Collectors, Create(p) PROVE Inv'
<1>1. p \in Processes
  BY DEF Processes
<1>2. proc[p] \in Locals /\ Holds(p, proc[p]) /\ proc[p].pc = "create"
  BY <1>1 DEF Inv, TypeOK, Create
<1> DEFINE local == [proc[p] EXCEPT !.pc = "write"]
<1>3. local \in Locals /\ Holds(p, local) /\ Chosen(local) /\ local.doomed = proc[p].doomed
  <2>1. "write" \in States \ {"remove"}
    BY DEF States
  <2> QED
    BY <1>1, <1>2, <2>1, MovedType
<1>4. proc' = [proc EXCEPT ![p] = local]
  BY <1>1 DEF Create, Inv, TypeOK
<1>5. proc[p].snapshot.at \in Names
  BY <1>2 DEF Holds, Snapshots, Names
<1>6. /\ Present \subseteq Present' /\ Present' \subseteq Names /\ IsFiniteSet(Present')
      /\ \E bound \in Nat : \A m \in Present' : m <= bound
  BY <1>5, PutType DEF Create
<1>7. live' \in Configs /\ now' \in 0..MaxTime
  BY DEF Create, Inv, TypeOK
<1> HIDE DEF local
<1> QED
  BY <1>1, <1>3, <1>4, <1>6, <1>7, LocalKeeps

LEMMA WriteKeeps == ASSUME Inv, NEW p \in Collectors, Write(p) PROVE Inv'
<1>1. p \in Processes
  BY DEF Processes
<1>2. proc[p] \in Locals /\ Holds(p, proc[p])
  BY <1>1 DEF Inv, TypeOK
<1>3. proc' = [proc EXCEPT ![p] = AfterSave(p)]
  BY DEF Write
<1>4. Present' = Present
  BY DEF Write, Present
<1>5. /\ Present' \subseteq Names /\ IsFiniteSet(Present')
      /\ \E bound \in Nat : \A m \in Present' : m <= bound
  BY <1>4 DEF Inv, TypeOK
<1>6. live' \in Configs /\ now' \in 0..MaxTime
  BY DEF Write, Inv, TypeOK
<1> QED
  BY <1>1, <1>2, <1>3, <1>4, <1>5, <1>6, AfterSaveType, LocalKeeps

-----------------------------------------------------------------------------
\* The retention runs
LEMMA PruneKeeps == ASSUME Inv, NEW p \in Pruners, Prune(p) PROVE Inv'
<1>1. PICK days \in Ages : proc' = [proc EXCEPT ![p].pc = "list", ![p].days = days]
  BY DEF Prune
<1>2. p \in Processes /\ proc[p] \in Locals /\ days \in Nat
  BY SnapshotAssumption DEF Processes, Inv, TypeOK
<1> DEFINE local == [proc[p] EXCEPT !.pc = "list", !.days = days]
<1>3. local \in Locals /\ local.pc = "list" /\ local.doomed = proc[p].doomed
  BY <1>2 DEF Locals, States
<1>4. Holds(p, local) /\ Chosen(local)
  BY <1>3 DEF Holds, Chosen
<1>5. proc' = [proc EXCEPT ![p] = local]
  BY <1>1, <1>2 DEF Inv, TypeOK
<1>6. UNCHANGED files /\ live' \in Configs /\ now' \in 0..MaxTime
  BY DEF Prune, Inv, TypeOK
<1> HIDE DEF local
<1> QED
  BY <1>2, <1>3, <1>4, <1>5, <1>6, FilesKept, LocalKeeps

LEMMA ListKeeps == ASSUME Inv, NEW p \in Processes, List(p) PROVE Inv'
<1>1. proc[p] \in Locals /\ UNCHANGED files /\ live' \in Configs /\ now' \in 0..MaxTime
  BY DEF List, Inv, TypeOK
<1>2. CASE Unreadable(p) \/ Doomed(p) = {}
  <2>1. proc' = [proc EXCEPT ![p] = Idle]
    BY <1>2 DEF List
  <2> QED
    BY <1>1, <2>1, FilesKept, IdleType, LocalKeeps
<1>3. CASE ~(Unreadable(p) \/ Doomed(p) = {})
  <2> DEFINE local == [proc[p] EXCEPT !.pc = "remove", !.doomed = Doomed(p)]
  <2>1. proc' = [proc EXCEPT ![p] = local]
    BY <1>3 DEF List, Inv, TypeOK
  <2>2. Doomed(p) \subseteq Nat /\ \A n \in Doomed(p) : \E m \in Present : m > n
    BY NamesAreNat DEF Doomed, Inv, TypeOK
  <2>3. local \in Locals /\ local.pc = "remove" /\ local.doomed = Doomed(p)
    BY <1>1, <2>2 DEF Locals, States
  <2>4. Holds(p, local) /\ Chosen(local)
    BY <1>3, <2>3 DEF Holds, Chosen
  <2>5. \A n \in local.doomed : \E m \in Present' : m > n
    BY <1>1, <2>2, <2>3, FilesKept
  <2> HIDE DEF local
  <2> QED
    BY <1>1, <2>1, <2>3, <2>4, <2>5, FilesKept, LocalKeeps
<1> QED
  BY <1>2, <1>3

\* What Remove removes has a successor in the directory
LEMMA RemovedIsFollowed ==
    ASSUME Inv, NEW p \in Processes, Remove(p)
    PROVE  LET n == Min(proc[p].doomed)
           IN  /\ n \in proc[p].doomed /\ n \in Nat
               /\ \E m \in Present : m > n
               /\ Present' = Present \ {n}
<1>1. proc[p].doomed \subseteq Nat /\ proc[p].doomed # {}
  BY DEF Remove, Inv, TypeOK, Locals, Chosen
<1>2. Min(proc[p].doomed) \in proc[p].doomed
  BY <1>1, NatMinimum
<1>3. Present' = Present \ {Min(proc[p].doomed)}
  BY DEF Remove, Present
<1> QED
  BY <1>1, <1>2, <1>3 DEF Inv, DoomedIsFollowed

LEMMA RemoveKeeps == ASSUME Inv, NEW p \in Processes, Remove(p) PROVE Inv'
<1> DEFINE n == Min(proc[p].doomed)
<1>1. n \in proc[p].doomed /\ n \in Nat /\ Present' = Present \ {n}
  BY RemovedIsFollowed
<1>2. PICK next \in Present : next > n
  BY RemovedIsFollowed
<1>3. proc[p] \in Locals
  BY DEF Inv, TypeOK
<1> DEFINE rest == [proc[p] EXCEPT !.doomed = @ \ {n}]
<1>4. PICK local \in Locals :
         /\ proc' = [proc EXCEPT ![p] = local] /\ Holds(p, local) /\ Chosen(local)
         /\ local.doomed \subseteq proc[p].doomed
  <2>1. CASE n \notin Present \/ proc[p].doomed = {n}
    <3>1. proc' = [proc EXCEPT ![p] = Idle]
      BY <2>1 DEF Remove
    <3> QED
      BY <3>1, IdleType
  <2>2. CASE ~(n \notin Present \/ proc[p].doomed = {n})
    <3>1. proc' = [proc EXCEPT ![p] = rest]
      <4>1. p \in DOMAIN proc
        BY DEF Inv, TypeOK
      <4> QED
        BY <2>2, <4>1 DEF Remove
    <3>2. /\ rest \in Locals /\ rest.pc = "remove" /\ rest.doomed = proc[p].doomed \ {n}
      BY <1>3 DEF Remove, Locals
    <3>3. rest.doomed # {}
      BY <1>1, <2>2, <3>2
    <3>4. Holds(p, rest) /\ Chosen(rest)
      BY <3>2, <3>3 DEF Holds, Chosen
    <3> HIDE DEF rest
    <3> QED
      BY <3>1, <3>2, <3>4
  <2> QED
    BY <2>1, <2>2
<1> HIDE DEF n
<1>5. ASSUME NEW q \in Processes
      PROVE  proc'[q] \in Locals /\ Holds(q, proc'[q]) /\ Chosen(proc'[q])
             /\ proc'[q].doomed \subseteq proc[q].doomed
  BY <1>4 DEF Inv, TypeOK
<1>6. IsFiniteSet(Present')
  BY <1>1, FS_Subset DEF Inv, TypeOK
<1>7. TypeOK'
  <2>1. /\ Present' \subseteq Names /\ \E bound \in Nat : \A m \in Present' : m <= bound
    BY <1>1 DEF Inv, TypeOK
  <2>2. live' \in Configs /\ now' \in 0..MaxTime
    BY DEF Remove, Inv, TypeOK
  <2>3. proc' \in [Processes -> Locals]
    BY <1>4 DEF Inv, TypeOK
  <2> QED
    BY <1>5, <1>6, <2>1, <2>2, <2>3 DEF TypeOK
<1>8. DoomedIsFollowed'
  <2> SUFFICES ASSUME NEW q \in Processes, NEW k \in proc'[q].doomed
               PROVE  \E m \in Present' : m > k
    BY DEF DoomedIsFollowed
  <2>1. PICK m \in Present : m > k
    BY <1>5 DEF Inv, DoomedIsFollowed
  <2>2. CASE m # n
    BY <1>1, <2>1, <2>2
  <2>3. CASE m = n
    <3>1. k \in Nat /\ next \in Nat
      BY <1>5, NamesAreNat DEF Locals, Inv, TypeOK
    <3>2. next > k /\ next # n
      BY <1>1, <1>2, <2>1, <2>3, <3>1
    <3> QED
      BY <1>1, <3>2
  <2> QED
    BY <2>2, <2>3
<1> QED
  BY <1>7, <1>8 DEF Inv

-----------------------------------------------------------------------------
LEMMA StepKeeps == ASSUME Inv, [Next]_vars PROVE Inv'
<1>1. CASE Reconfigure
  BY <1>1, ReconfigureKeeps
<1>2. CASE \E n \in Manual : Copy(n)
  BY <1>2, CopyKeeps
<1>3. CASE \E p \in Collectors : Fetch(p) \/ Compare(p) \/ Create(p) \/ Write(p)
  BY <1>3, FetchKeeps, CompareKeeps, CreateKeeps, WriteKeeps
<1>4. CASE \E p \in Pruners : Prune(p)
  BY <1>4, PruneKeeps
<1>5. CASE \E p \in Processes : List(p) \/ Remove(p) \/ Die(p)
  BY <1>5, ListKeeps, RemoveKeeps, DieKeeps
<1>6. CASE UNCHANGED vars
  <2>1. Present' = Present
    BY <1>6 DEF vars, Present
  <2> QED
    BY <1>6, <2>1 DEF vars, Inv, TypeOK, DoomedIsFollowed
<1> QED
  BY <1>1, <1>2, <1>3, <1>4, <1>5, <1>6 DEF Next

\* The directory is a finite set of names, only collectors hold captures, and whatever a
\* retention run is still to remove has a later file in the directory, however many runs
\* remove at a time.
THEOREM Invariant == Spec => []Inv
<1>1. Init => Inv
  BY InitInv
<1>2. Inv /\ [Next]_vars => Inv'
  BY StepKeeps
<1> QED
  BY <1>1, <1>2, PTL DEF Spec

-----------------------------------------------------------------------------
\* Only Remove takes a file away
LEMMA OnlyRemoveRemoves ==
    ASSUME Inv, [Next]_vars, ~(Present \subseteq Present')
    PROVE  \E p \in Processes : Remove(p)
<1>1. ~Reconfigure /\ ~UNCHANGED vars
  BY DEF Reconfigure, vars, Present
<1>2. \A n \in Manual : ~Copy(n)
  BY DEF Copy, Put, Present
<1>3. \A p \in Collectors : ~(Fetch(p) \/ Compare(p) \/ Create(p) \/ Write(p))
  BY DEF Fetch, Compare, Create, Write, Put, Present
<1>4. \A p \in Pruners : ~Prune(p)
  BY DEF Prune, Present
<1>5. \A p \in Processes : ~List(p) /\ ~Die(p)
  BY DEF List, Die, Present
<1> QED
  BY <1>1, <1>2, <1>3, <1>4, <1>5 DEF Next

\* Retention removes the newest capture only where a hand-written file is listed, for any
\* number of commands that prune at a time.
THEOREM NewestKept == Spec => NewestKeptUnlessManual
<1>1. ASSUME Inv, [Next]_vars
      PROVE  [Stamped # {} /\ Max(Stamped) \notin Present' => Present \intersect Manual # {}]_vars
  <2> SUFFICES ASSUME Stamped # {}, Max(Stamped) \notin Present'
               PROVE  Present \intersect Manual # {}
    OBVIOUS
  <2>1. Max(Stamped) \in Stamped /\ \A n \in Stamped : n <= Max(Stamped)
    BY <1>1, LastOfStamped
  <2>2. Max(Stamped) \in Present /\ Max(Stamped) \in Nat
    BY <2>1, SnapshotAssumption DEF Stamped, Stamps
  <2>3. PICK p \in Processes : Remove(p)
    BY <1>1, <2>2, OnlyRemoveRemoves
  <2>4. Max(Stamped) = Min(proc[p].doomed) /\ \E m \in Present : m > Min(proc[p].doomed)
    BY <1>1, <2>2, <2>3, RemovedIsFollowed
  <2>5. PICK m \in Present : m > Max(Stamped)
    BY <2>4
  <2>6. m \in Nat /\ m \notin Stamped
    BY <1>1, <2>1, <2>2, <2>5, NamesAreNat DEF Inv, TypeOK
  <2> QED
    BY <1>1, <2>6 DEF Stamped, Names, Inv, TypeOK
<1> QED
  BY <1>1, Invariant, PTL DEF Spec, NewestKeptUnlessManual

\* The last readable snapshot is removed only when the file listed last is torn, for any
\* number of commands and any crashes.
THEOREM ReadableKept == Spec => ReadableLostOnlyBehindTorn
<1>1. ASSUME Inv, [Next]_vars
      PROVE  [Intact # {} /\ Present' \subseteq Present /\ Intact \intersect Present' = {}
                  => files[Max(Present)] = Torn]_vars
  <2> SUFFICES ASSUME Intact # {}, Intact \intersect Present' = {},
                      files[Max(Present)] # Torn
               PROVE  FALSE
    OBVIOUS
  <2>1. Max(Present) \in Present /\ \A n \in Present : n <= Max(Present)
    BY <1>1, LastOfPresent DEF Intact
  <2>2. Max(Present) \in Intact /\ Max(Present) \notin Present' /\ Max(Present) \in Nat
    BY <1>1, <2>1, NamesAreNat DEF Intact, Inv, TypeOK
  <2>3. PICK p \in Processes : Remove(p)
    BY <1>1, <2>1, <2>2, OnlyRemoveRemoves
  <2>4. Max(Present) = Min(proc[p].doomed) /\ \E m \in Present : m > Min(proc[p].doomed)
    BY <1>1, <2>1, <2>2, <2>3, RemovedIsFollowed
  <2>5. PICK m \in Present : m > Max(Present)
    BY <2>4
  <2>6. m \in Nat
    BY <1>1, <2>5, NamesAreNat DEF Inv, TypeOK
  <2> QED
    BY <2>1, <2>2, <2>5, <2>6
<1> QED
  BY <1>1, Invariant, PTL DEF Spec, ReadableLostOnlyBehindTorn

-----------------------------------------------------------------------------
(***************************************************************************)
(* A scheduled collector: one, that skips unchanged configurations.  What  *)
(* keeps neighbours different is that retention takes the oldest captures  *)
(* first, also while it deletes, so that no capture between two others is  *)
(* ever taken, and that a capture about to be written is the newest.       *)
(***************************************************************************)
OneCollector == \A c, d \in Collectors : c = d

\* A capture has its instant for a name.
Dated == \A n \in Stamped : n <= now /\ (files[n] = Torn \/ files[n].at = n)

Pending(c) == proc[c].pc \in {"compare", "create", "write"}
Uncreated(c) == proc[c].pc \in {"compare", "create"}

PendingIsNewest ==
    \A c \in Collectors :
        /\ Pending(c) => proc[c].snapshot.at = now
        /\ Uncreated(c) => \A n \in Stamped : n < now

\* What a retention run is still to remove comes before what it leaves.
OldestFirst ==
    \A p \in Processes : \A n \in proc[p].doomed \intersect Stamps :
        /\ n <= now
        /\ \A m \in Stamped : m < n => m \in proc[p].doomed
        /\ \A c \in Collectors : Uncreated(c) => n < now

\* A capture that is to be written differs from the readable one before it.
Differs(s) ==
    \A m \in Stamped \intersect Intact :
        Neighbours(m, s.at) => ~SameConfiguration(files[m], s)

PendingDiffers ==
    \A c \in Collectors : proc[c].pc \in {"create", "write"} => Differs(proc[c].snapshot)

Tidy == Dated /\ PendingIsNewest /\ OldestFirst /\ PendingDiffers /\ NoIdenticalNeighbours

LEMMA StampedAreNat == Stamped \subseteq Nat /\ Stamps \subseteq Nat
BY SnapshotAssumption DEF Stamped, Stamps

LEMMA InitTidy == Init => Tidy
<1> SUFFICES ASSUME Init PROVE Tidy
  OBVIOUS
<1>1. Stamped = {} /\ \A p \in Processes : proc[p] = Idle
  BY DEF Init, Stamped, Present
<1>2. Collectors \subseteq Processes
  BY DEF Processes
<1> QED
  BY <1>1, <1>2
  DEF Idle, Tidy, Dated, PendingIsNewest, Pending, Uncreated, OldestFirst, PendingDiffers, NoIdenticalNeighbours

\* Where captures are only taken, the oldest first, neighbours were neighbours.
LEMMA NeighboursStay ==
    ASSUME Inv, Stamped' \subseteq Stamped, \A n \in Stamped' : files'[n] = files[n],
           \A n \in Stamped \ Stamped' : \A m \in Stamped' : n < m
    PROVE  /\ \A m \in (Stamped \intersect Intact)' : m \in Stamped \intersect Intact
           /\ \A m \in Stamped', n \in Nat : Neighbours(m, n)' => Neighbours(m, n)
<1>1. \A m \in (Stamped \intersect Intact)' : m \in Stamped \intersect Intact
  BY DEF Stamped, Intact
<1>2. ASSUME NEW m \in Stamped', NEW n \in Nat, Neighbours(m, n)' PROVE Neighbours(m, n)
  <2> SUFFICES ASSUME NEW k \in Stamped, m < k, k < n PROVE FALSE
    BY <1>2 DEF Neighbours
  <2>1. k \in Stamped'
    BY StampedAreNat
  <2> QED
    BY <1>2, <2>1 DEF Neighbours
<1> QED
  BY <1>1, <1>2

LEMMA DiffersStays ==
    ASSUME Inv, Stamped' \subseteq Stamped, \A n \in Stamped' : files'[n] = files[n],
           \A n \in Stamped \ Stamped' : \A m \in Stamped' : n < m,
           NEW s, s.at \in Nat, Differs(s)
    PROVE  Differs(s)'
<1> SUFFICES ASSUME NEW m \in (Stamped \intersect Intact)', Neighbours(m, s.at)'
             PROVE  ~SameConfiguration(files'[m], s)
  BY DEF Differs, SameConfiguration
<1>1. m \in Stamped \intersect Intact /\ m \in Stamped' /\ Neighbours(m, s.at)
  BY NeighboursStay
<1> QED
  BY <1>1 DEF Differs

LEMMA CapturesStay ==
    ASSUME Inv, Tidy, Stamped' \subseteq Stamped, \A n \in Stamped' : files'[n] = files[n],
           \A n \in Stamped \ Stamped' : \A m \in Stamped' : n < m,
           now' = now \/ now' = now + 1
    PROVE  Dated' /\ NoIdenticalNeighbours'
<1>1. Dated'
  <2> SUFFICES ASSUME NEW n \in Stamped' PROVE n <= now' /\ (files[n] = Torn \/ files[n].at = n)
    BY DEF Dated
  <2>1. n \in Nat /\ now \in Nat /\ n <= now /\ (files[n] = Torn \/ files[n].at = n)
    BY StampedAreNat, SnapshotAssumption DEF Inv, TypeOK, Tidy, Dated
  <2> QED
    BY <2>1
<1>2. NoIdenticalNeighbours'
  <2> SUFFICES ASSUME NEW m \in (Stamped \intersect Intact)', NEW n \in (Stamped \intersect Intact)',
                      Neighbours(m, n)'
               PROVE  ~SameConfiguration(files'[m], files'[n])
    BY DEF NoIdenticalNeighbours, SameConfiguration
  <2>1. m \in Stamped \intersect Intact /\ n \in Stamped \intersect Intact /\ m \in Stamped' /\ n \in Stamped'
    BY NeighboursStay
  <2>2. Neighbours(m, n)
    BY <2>1, NeighboursStay, StampedAreNat
  <2> QED
    BY <2>1, <2>2 DEF Tidy, NoIdenticalNeighbours
<1> QED
  BY <1>1, <1>2

\* A step that writes nothing, begins no capture and dooms no file
LEMMA TidyStays ==
    ASSUME Inv, Tidy, Stamped' \subseteq Stamped, \A n \in Stamped' : files'[n] = files[n],
           \A n \in Stamped \ Stamped' : \A m \in Stamped' : n < m,
           now' = now,
           \A p \in Processes :
               /\ proc'[p].doomed \subseteq proc[p].doomed
               /\ \A n \in proc[p].doomed \ proc'[p].doomed : n \notin Stamped'
                                                             \/ proc'[p].doomed = {}
               /\ Pending(p)' => proc'[p].pc = proc[p].pc /\ proc'[p].snapshot = proc[p].snapshot
    PROVE  Tidy'
<1>0. Collectors \subseteq Processes
  BY DEF Processes
<1>1. Dated' /\ NoIdenticalNeighbours'
  BY CapturesStay
<1>2. PendingIsNewest'
  BY <1>0 DEF Tidy, PendingIsNewest, Pending, Uncreated
<1>3. OldestFirst'
  <2> SUFFICES ASSUME NEW p \in Processes, NEW n \in proc'[p].doomed \intersect Stamps
               PROVE  /\ n <= now
                      /\ \A m \in Stamped' : m < n => m \in proc'[p].doomed
                      /\ \A c \in Collectors : Uncreated(c)' => n < now
    BY DEF OldestFirst
  <2>1. n \in proc[p].doomed \intersect Stamps
    OBVIOUS
  <2>2. \A m \in Stamped' : m < n => m \in proc'[p].doomed
    BY <2>1 DEF Tidy, OldestFirst
  <2>3. \A c \in Collectors : Uncreated(c)' => Uncreated(c)
    BY <1>0 DEF Pending, Uncreated
  <2> QED
    BY <2>1, <2>2, <2>3 DEF Tidy, OldestFirst
<1>4. PendingDiffers'
  <2> SUFFICES ASSUME NEW c \in Collectors, proc'[c].pc \in {"create", "write"}
               PROVE  Differs(proc[c].snapshot)'
    BY DEF PendingDiffers
  <2>1. proc'[c].pc = proc[c].pc /\ proc'[c].snapshot = proc[c].snapshot
    BY <1>0 DEF Pending
  <2>2. PICK s : s = proc[c].snapshot
    OBVIOUS
  <2>3. Differs(s) /\ s.at \in Nat
    BY <1>0, <2>1, <2>2, StampedAreNat DEF Tidy, PendingDiffers, Inv, TypeOK, Holds, Snapshots
  <2>4. Differs(s)'
    BY <2>3, DiffersStays
  <2> QED
    BY <2>1, <2>2, <2>4
<1> QED
  BY <1>1, <1>2, <1>3, <1>4 DEF Tidy

-----------------------------------------------------------------------------
LEMMA FilesStay ==
    ASSUME UNCHANGED files
    PROVE  /\ Stamped' = Stamped /\ Intact' = Intact
           /\ Stamped' \subseteq Stamped /\ \A n \in Stamped' : files'[n] = files[n]
           /\ \A n \in Stamped \ Stamped' : \A m \in Stamped' : n < m
BY DEF Stamped, Intact, Present

LEMMA ReconfigureTidies == ASSUME Inv, Tidy, Reconfigure PROVE Tidy'
BY FilesStay, TidyStays DEF Reconfigure, Pending

LEMMA CopyTidies == ASSUME Inv, Tidy, NEW n \in Manual, Copy(n) PROVE Tidy'
<1>1. PICK source \in Intact : files' = Put(n, files[source])
  BY DEF Copy
<1>2. n \notin Stamps
  BY SnapshotAssumption DEF Stamps
<1>3. Stamped' = Stamped /\ \A m \in Stamped' : files'[m] = files[m]
  BY <1>1, <1>2 DEF Put, Stamped, Present
<1> QED
  BY <1>3, TidyStays DEF Copy, Pending

LEMMA DieTidies == ASSUME Inv, Tidy, NEW p \in Processes, Die(p) PROVE Tidy'
<1>1. proc' = [proc EXCEPT ![p] = Idle]
  BY DEF Die
<1>2. \A q \in Processes : proc'[q] = IF q = p THEN Idle ELSE proc[q]
  BY <1>1 DEF Inv, TypeOK
<1> QED
  BY <1>2, FilesStay, TidyStays DEF Die, Idle, Pending

LEMMA PruneTidies == ASSUME Inv, Tidy, NEW p \in Pruners, Prune(p) PROVE Tidy'
<1>1. PICK days \in Ages : proc' = [proc EXCEPT ![p].pc = "list", ![p].days = days]
  BY DEF Prune
<1>2. ASSUME NEW q \in Processes
      PROVE  /\ proc'[q].doomed = proc[q].doomed
             /\ Pending(q)' => proc'[q].pc = proc[q].pc /\ proc'[q].snapshot = proc[q].snapshot
  BY <1>1 DEF Inv, TypeOK, Locals, Pending
<1> QED
  BY <1>2, FilesStay, TidyStays DEF Prune

LEMMA FetchTidies ==
    ASSUME Inv, Tidy, OneCollector, Skips \subseteq {TRUE}, NEW p \in Collectors, Fetch(p)
    PROVE  Tidy'
<1>1. PICK retain \in Retains, protocol \in BOOLEAN :
          proc' = [proc EXCEPT ![p].pc = "compare",
                               ![p].snapshot = [at |-> now + 1, config |-> live,
                                                protocol |-> protocol],
                               ![p].retain = retain]
  BY DEF Fetch
<1>2. p \in Processes /\ \A c \in Collectors : c = p
  BY DEF Processes, OneCollector
<1>3. now \in Nat /\ now' = now + 1 /\ UNCHANGED files
  BY SnapshotAssumption DEF Fetch, Inv, TypeOK
<1>4. /\ proc'[p].pc = "compare" /\ proc'[p].snapshot.at = now'
      /\ \A q \in Processes : proc'[q].doomed = proc[q].doomed
  BY <1>1, <1>2, <1>3 DEF Inv, TypeOK, Locals
<1>5. Dated' /\ NoIdenticalNeighbours'
  BY <1>3, FilesStay, CapturesStay
<1>6. PendingIsNewest'
  <2>1. ASSUME NEW n \in Stamped' PROVE n < now'
    <3>1. n \in Nat /\ n <= now
      BY <1>3, FilesStay, StampedAreNat DEF Tidy, Dated
    <3> QED
      BY <1>3, <3>1
  <2> QED
    BY <1>2, <1>4, <2>1 DEF PendingIsNewest, Pending, Uncreated
<1>7. OldestFirst'
  <2> SUFFICES ASSUME NEW q \in Processes, NEW n \in proc'[q].doomed \intersect Stamps
               PROVE  n < now' /\ n <= now' /\ \A m \in Stamped' : m < n => m \in proc'[q].doomed
    BY DEF OldestFirst
  <2>1. n \in proc[q].doomed \intersect Stamps /\ n \in Nat
    BY <1>4, StampedAreNat
  <2>2. n <= now /\ \A m \in Stamped' : m < n => m \in proc'[q].doomed
    BY <1>3, <1>4, <2>1, FilesStay DEF Tidy, OldestFirst
  <2> QED
    BY <1>3, <2>1, <2>2
<1>8. PendingDiffers'
  BY <1>2, <1>4 DEF PendingDiffers
<1> QED
  BY <1>5, <1>6, <1>7, <1>8 DEF Tidy

LEMMA AfterSaveIdle ==
    ASSUME NEW p \in Processes, proc[p] \in Locals
    PROVE  /\ AfterSave(p).pc \in {"idle", "list"}
           /\ AfterSave(p).doomed = {} \/ AfterSave(p).doomed = proc[p].doomed
BY DEF AfterSave, Idle, Locals

\* The collector goes on to write only what differs from the latest capture.
LEMMA CompareTidies ==
    ASSUME Inv, Tidy, OneCollector, NEW p \in Collectors, Compare(p)
    PROVE  Tidy'
<1>0. p \in Processes /\ \A c \in Collectors : c = p
  BY DEF Processes, OneCollector
<1>1. proc[p] \in Locals /\ proc[p].pc = "compare" /\ UNCHANGED <<files, live, now>>
  BY <1>0 DEF Compare, Inv, TypeOK
<1> DEFINE further == [proc[p] EXCEPT !.pc = "create"]
<1>2. /\ further.pc = "create" /\ further.snapshot = proc[p].snapshot /\ further.doomed = proc[p].doomed
  BY <1>1 DEF Locals
<1>3. CASE proc' = [proc EXCEPT ![p] = Idle] \/ proc' = [proc EXCEPT ![p] = AfterSave(p)]
  <2>1. ASSUME NEW q \in Processes, q # p PROVE proc'[q] = proc[q]
    BY <1>0, <1>3, <2>1 DEF Inv, TypeOK
  <2>2. /\ proc'[p].pc \in {"idle", "list"}
        /\ proc'[p].doomed = {} \/ proc'[p].doomed = proc[p].doomed
    BY <1>0, <1>1, <1>3, AfterSaveIdle DEF Inv, TypeOK, Idle
  <2> QED
    BY <1>0, <1>1, <2>1, <2>2, FilesStay, TidyStays DEF Pending
<1>4. CASE /\ proc' = [proc EXCEPT ![p] = further]
           /\ Latest # 0 => files[Latest] # Torn /\ ~SameConfiguration(files[Latest], proc[p].snapshot)
  <2>1. /\ proc'[p].pc = "create" /\ proc'[p].snapshot = proc[p].snapshot
        /\ \A q \in Processes : proc'[q].doomed = proc[q].doomed
    BY <1>0, <1>2, <1>4 DEF Inv, TypeOK
  <2>2. Dated' /\ NoIdenticalNeighbours'
    BY <1>1, FilesStay, CapturesStay
  <2>3. PendingIsNewest'
    BY <1>0, <1>1, <2>1, FilesStay DEF PendingIsNewest, Pending, Uncreated, Tidy
  <2>4. OldestFirst'
    BY <1>0, <1>1, <2>1, FilesStay DEF OldestFirst, Uncreated, Tidy
  <2>5. PendingDiffers'
    <3> SUFFICES ASSUME NEW m \in Stamped \intersect Intact, Neighbours(m, now)
                 PROVE  ~SameConfiguration(files[m], proc[p].snapshot)
      <4>1. proc'[p].snapshot.at = now
        BY <1>0, <1>1, <2>1 DEF Tidy, PendingIsNewest, Pending
      <4>2. Stamped' = Stamped /\ Intact' = Intact
        BY <1>1, FilesStay
      <4>3. \A m \in Stamped : Neighbours(m, proc[p].snapshot.at)' => Neighbours(m, now)
        BY <4>1, <4>2 DEF Neighbours
      <4> QED
        BY <1>0, <1>1, <2>1, <4>2, <4>3 DEF PendingDiffers, Differs, SameConfiguration
    <3>1. \A n \in Stamped : n < now
      BY <1>0, <1>1 DEF Tidy, PendingIsNewest, Uncreated
    <3>2. Max(Stamped) \in Stamped /\ m <= Max(Stamped)
      BY LastOfStamped
    <3>3. m = Max(Stamped)
      <4>1. ~(m < Max(Stamped))
        BY <3>1, <3>2 DEF Neighbours
      <4>2. m \in Nat /\ Max(Stamped) \in Nat
        BY <3>2, StampedAreNat
      <4> QED
        BY <3>2, <4>1, <4>2
    <3>4. Latest = m /\ m # 0
      BY <3>3 DEF Latest, Stamped, Stamps
    <3> QED
      BY <1>4, <3>4
  <2> QED
    BY <2>2, <2>3, <2>4, <2>5 DEF Tidy
<1>5. \/ proc' = [proc EXCEPT ![p] = Idle] \/ proc' = [proc EXCEPT ![p] = AfterSave(p)]
      \/ /\ proc' = [proc EXCEPT ![p] = further]
         /\ Latest # 0 => files[Latest] # Torn /\ ~SameConfiguration(files[Latest], proc[p].snapshot)
  <2>1. CASE Latest = 0
    BY <1>0, <2>1 DEF Compare, Inv, TypeOK
  <2>2. CASE Latest # 0 /\ files[Latest] = Torn
    BY <1>0, <2>2 DEF Compare, Inv, TypeOK
  <2>3. CASE Latest # 0 /\ files[Latest] # Torn /\ SameConfiguration(files[Latest], proc[p].snapshot)
    BY <1>0, <2>3 DEF Compare, Inv, TypeOK
  <2>4. CASE Latest # 0 /\ files[Latest] # Torn /\ ~SameConfiguration(files[Latest], proc[p].snapshot)
    BY <1>0, <2>4 DEF Compare, Inv, TypeOK
  <2> QED
    BY <2>1, <2>2, <2>3, <2>4
<1> HIDE DEF further
<1> QED
  BY <1>3, <1>4, <1>5

\* A file that is created is the newest capture, and not readable yet.
LEMMA CreateTidies ==
    ASSUME Inv, Tidy, OneCollector, NEW p \in Collectors, Create(p)
    PROVE  Tidy'
<1>0. p \in Processes /\ \A c \in Collectors : c = p
  BY DEF Processes, OneCollector
<1>1. /\ proc[p] \in Locals /\ proc[p].pc = "create" /\ now' = now
      /\ proc[p].snapshot \in Snapshots /\ proc[p].snapshot.at = now
      /\ \A n \in Stamped : n < now
  BY <1>0 DEF Create, Inv, TypeOK, Holds, Tidy, PendingIsNewest, Pending, Uncreated
<1>2. now \in Stamps /\ now \in Nat /\ files' = Put(now, Torn)
  BY <1>1, StampedAreNat DEF Create, Snapshots
<1>3. /\ Stamped' = Stamped \union {now} /\ files'[now] = Torn
      /\ \A n \in Stamped : files'[n] = files[n]
  BY <1>1, <1>2, StampedAreNat DEF Put, Stamped, Present
<1>4. (Stamped \intersect Intact)' \subseteq Stamped \intersect Intact
  BY <1>3 DEF Stamped, Intact
<1>5. \A m, n \in Nat : Neighbours(m, n)' => Neighbours(m, n)
  BY <1>3 DEF Neighbours
<1>6. /\ proc'[p].pc = "write" /\ proc'[p].snapshot = proc[p].snapshot
      /\ \A q \in Processes : proc'[q].doomed = proc[q].doomed
  BY <1>0, <1>1 DEF Create, Inv, TypeOK, Locals
<1>7. Dated'
  BY <1>1, <1>2, <1>3 DEF Tidy, Dated
<1>8. NoIdenticalNeighbours'
  <2> SUFFICES ASSUME NEW m \in (Stamped \intersect Intact)', NEW n \in (Stamped \intersect Intact)',
                      Neighbours(m, n)'
               PROVE  ~SameConfiguration(files'[m], files'[n])
    BY DEF NoIdenticalNeighbours, SameConfiguration
  <2>1. m \in Stamped \intersect Intact /\ n \in Stamped \intersect Intact /\ Neighbours(m, n)
    BY <1>4, <1>5, StampedAreNat
  <2> QED
    BY <1>3, <2>1 DEF Tidy, NoIdenticalNeighbours
<1>9. PendingIsNewest'
  BY <1>0, <1>1, <1>6 DEF PendingIsNewest, Pending, Uncreated
<1>10. OldestFirst'
  <2> SUFFICES ASSUME NEW q \in Processes, NEW n \in proc'[q].doomed \intersect Stamps
               PROVE  n <= now' /\ \A m \in Stamped' : m < n => m \in proc'[q].doomed
    BY <1>0, <1>6 DEF OldestFirst, Uncreated
  <2>1. n \in proc[q].doomed \intersect Stamps /\ n < now /\ n \in Nat
    BY <1>1, <1>6, StampedAreNat DEF Tidy, OldestFirst, Uncreated
  <2> QED
    BY <1>1, <1>2, <1>3, <1>6, <2>1 DEF Tidy, OldestFirst
<1>11. PendingDiffers'
  <2>1. PICK s : s = proc[p].snapshot
    OBVIOUS
  <2>2. Differs(s) /\ s.at \in Nat
    BY <1>1, <1>2, <2>1 DEF Tidy, PendingDiffers
  <2>3. Differs(s)'
    BY <1>3, <1>4, <1>5, <2>2, StampedAreNat DEF Differs, SameConfiguration
  <2> QED
    BY <1>0, <1>6, <2>1, <2>3 DEF PendingDiffers
<1> QED
  BY <1>7, <1>8, <1>9, <1>10, <1>11 DEF Tidy

\* What is written differs from the capture before it, and is the newest.
LEMMA WriteTidies ==
    ASSUME Inv, Tidy, OneCollector, NEW p \in Collectors, Write(p)
    PROVE  Tidy'
<1>0. p \in Processes /\ \A c \in Collectors : c = p
  BY DEF Processes, OneCollector
<1>1. /\ proc[p] \in Locals /\ proc[p].pc = "write" /\ now' = now /\ now \in Nat
      /\ proc[p].snapshot \in Snapshots /\ proc[p].snapshot.at = now
  BY <1>0, SnapshotAssumption DEF Write, Inv, TypeOK, Holds, Tidy, PendingIsNewest, Pending
<1>2. /\ Stamped' = Stamped /\ \A n \in Stamped : n # now => files'[n] = files[n]
      /\ now \in Stamped => files'[now] = proc[p].snapshot
  BY <1>1 DEF Write, Stamped, Present
<1>3. \A n \in Stamped : n # now => (n \in Intact' <=> n \in Intact)
  BY <1>2 DEF Stamped, Intact
<1>4. /\ proc'[p].pc \in {"idle", "list"}
      /\ proc'[p].doomed = {} \/ proc'[p].doomed = proc[p].doomed
      /\ \A q \in Processes : q # p => proc'[q] = proc[q]
  BY <1>0, <1>1, AfterSaveIdle DEF Write, Inv, TypeOK
<1>5. Dated'
  BY <1>1, <1>2 DEF Tidy, Dated
<1>6. NoIdenticalNeighbours'
  <2> SUFFICES ASSUME NEW m \in (Stamped \intersect Intact)', NEW n \in (Stamped \intersect Intact)',
                      Neighbours(m, n)'
               PROVE  ~SameConfiguration(files'[m], files'[n])
    BY DEF NoIdenticalNeighbours, SameConfiguration
  <2>1. /\ m \in Stamped /\ n \in Stamped /\ Neighbours(m, n)
    BY <1>2 DEF Neighbours
  <2>2. m < n /\ n <= now /\ m \in Nat /\ n \in Nat
    BY <2>1, StampedAreNat DEF Neighbours, Tidy, Dated
  <2>3. m # now /\ files'[m] = files[m] /\ m \in Intact
    BY <1>1, <1>2, <1>3, <2>1, <2>2
  <2>4. CASE n = now
    BY <1>0, <1>1, <1>2, <2>1, <2>3, <2>4 DEF Tidy, PendingDiffers, Differs
  <2>5. CASE n # now
    BY <1>2, <1>3, <2>1, <2>3, <2>5 DEF Tidy, NoIdenticalNeighbours
  <2> QED
    BY <2>4, <2>5
<1>7. PendingIsNewest' /\ PendingDiffers'
  BY <1>0, <1>4 DEF PendingIsNewest, PendingDiffers, Pending, Uncreated
<1>8. OldestFirst'
  <2> SUFFICES ASSUME NEW q \in Processes, NEW n \in proc'[q].doomed \intersect Stamps
               PROVE  n <= now' /\ \A m \in Stamped' : m < n => m \in proc'[q].doomed
    BY <1>0, <1>4 DEF OldestFirst, Uncreated
  <2>1. proc'[q].doomed = proc[q].doomed
    BY <1>4
  <2> QED
    BY <1>1, <1>2, <2>1 DEF Tidy, OldestFirst
<1> QED
  BY <1>5, <1>6, <1>7, <1>8 DEF Tidy

-----------------------------------------------------------------------------
\* Both rules doom a capture only with every older one.
LEMMA DoomedWithOlder ==
    ASSUME Inv, Tidy, NEW p \in Processes, ~Unreadable(p),
           NEW n \in Doomed(p) \intersect Stamps, NEW m \in Stamped, m < n
    PROVE  m \in Doomed(p)
<1>1. n \in Present /\ n \in Stamped /\ m \in Present /\ n \in Nat /\ m \in Nat
  BY StampedAreNat DEF Doomed, Stamped
<1>2. \E k \in Present : k > m
  BY <1>1
<1>3. CASE OverCount(n, proc[p].retain)
  <2> DEFINE after(i) == {k \in Present : k >= i}
  <2>1. IsFiniteSet(after(m)) /\ IsFiniteSet(after(n))
    BY FS_Subset DEF Inv, TypeOK
  <2>2. after(n) \subseteq after(m)
    <3> SUFFICES ASSUME NEW k \in Present, k >= n PROVE k >= m
      OBVIOUS
    <3>1. k \in Nat
      BY NamesAreNat DEF Inv, TypeOK
    <3> QED
      BY <1>1, <3>1
  <2>3. Cardinality(after(n)) <= Cardinality(after(m)) /\ Cardinality(after(n)) \in Nat /\ Cardinality(after(m)) \in Nat
    BY <2>1, <2>2, FS_Subset, FS_CardinalityType
  <2>4. (IF proc[p].retain = 0 THEN 1 ELSE proc[p].retain) \in Nat /\ proc[p].retain # None
    BY <1>3 DEF OverCount, Inv, TypeOK, Locals
  <2>5. OverCount(m, proc[p].retain)
    BY <1>3, <2>3, <2>4 DEF OverCount
  <2> QED
    BY <1>1, <1>2, <2>5 DEF Doomed
<1>4. CASE TooOld(n, proc[p].days)
  <2>1. proc[p].days # None /\ proc[p].days \in Nat /\ now \in Nat
    BY <1>4, SnapshotAssumption DEF TooOld, Inv, TypeOK, Locals
  <2>2. files[m] # Torn /\ files[n] # Torn
    BY <1>1, <1>2, <2>1 DEF Unreadable, Doomed
  <2>3. files[m].at = m /\ files[n].at = n
    BY <1>1, <2>2 DEF Tidy, Dated
  <2>4. TooOld(m, proc[p].days)
    BY <1>1, <1>4, <2>1, <2>3 DEF TooOld
  <2> QED
    BY <1>1, <1>2, <2>4 DEF Doomed
<1> QED
  BY <1>3, <1>4 DEF Doomed

LEMMA ListTidies == ASSUME Inv, Tidy, NEW p \in Processes, List(p) PROVE Tidy'
<1>1. proc[p] \in Locals /\ UNCHANGED <<files, live, now>>
  BY DEF List, Inv, TypeOK
<1>2. ASSUME NEW q \in Processes, q # p PROVE proc'[q] = proc[q]
  BY <1>2 DEF List, Inv, TypeOK
<1>3. CASE Unreadable(p) \/ Doomed(p) = {}
  <2>1. proc'[p] = Idle
    BY <1>3 DEF List, Inv, TypeOK
  <2> QED
    BY <1>1, <1>2, <2>1, FilesStay, TidyStays DEF Idle, Pending
<1>4. CASE ~(Unreadable(p) \/ Doomed(p) = {})
  <2>1. proc'[p].pc = "remove" /\ proc'[p].doomed = Doomed(p)
    BY <1>1, <1>4 DEF List, Inv, TypeOK, Locals
  <2>2. \A c \in Collectors : /\ Pending(c)' => Pending(c) /\ proc'[c] = proc[c]
                              /\ Uncreated(c)' => Uncreated(c)
    BY <1>2, <2>1 DEF Pending, Uncreated, Processes
  <2>3. Dated' /\ NoIdenticalNeighbours'
    BY <1>1, FilesStay, CapturesStay
  <2>4. PendingIsNewest'
    BY <1>1, <2>2, FilesStay DEF PendingIsNewest, Tidy
  <2>5. OldestFirst'
    <3> SUFFICES ASSUME NEW q \in Processes, NEW n \in proc'[q].doomed \intersect Stamps
                 PROVE  /\ n <= now
                        /\ \A m \in Stamped : m < n => m \in proc'[q].doomed
                        /\ \A c \in Collectors : Uncreated(c)' => n < now
      BY <1>1, FilesStay DEF OldestFirst
    <3>1. CASE q = p
      <4>1. n \in Doomed(p) \intersect Stamps /\ n \in Stamped
        BY <2>1, <3>1 DEF Doomed, Stamped
      <4>2. \A m \in Stamped : m < n => m \in proc'[q].doomed
        BY <1>4, <2>1, <3>1, <4>1, DoomedWithOlder
      <4> QED
        BY <2>2, <4>1, <4>2 DEF Tidy, Dated, PendingIsNewest
    <3>2. CASE q # p
      BY <1>2, <2>2, <3>2 DEF Tidy, OldestFirst
    <3> QED
      BY <3>1, <3>2
  <2>6. PendingDiffers'
    <3> SUFFICES ASSUME NEW c \in Collectors, proc'[c].pc \in {"create", "write"}
                 PROVE  Differs(proc[c].snapshot)'
      BY DEF PendingDiffers
    <3>1. proc'[c] = proc[c]
      BY <2>2 DEF Pending
    <3>2. PICK s : s = proc[c].snapshot
      OBVIOUS
    <3>3. Differs(s)
      BY <3>1, <3>2 DEF Tidy, PendingDiffers
    <3>4. Differs(s)'
      BY <1>1, <3>3, FilesStay DEF Differs, Neighbours, SameConfiguration
    <3> QED
      BY <3>1, <3>2, <3>4
  <2> QED
    BY <2>3, <2>4, <2>5, <2>6 DEF Tidy
<1> QED
  BY <1>3, <1>4

\* A capture that is removed is the oldest.
LEMMA RemoveTidies == ASSUME Inv, Tidy, NEW p \in Processes, Remove(p) PROVE Tidy'
<1> DEFINE n == Min(proc[p].doomed)
<1>1. n \in proc[p].doomed /\ n \in Nat /\ Present' = Present \ {n}
  BY RemovedIsFollowed
<1>2. proc[p] \in Locals /\ proc[p].pc = "remove" /\ now' = now /\ proc[p].doomed \subseteq Nat
  BY DEF Remove, Inv, TypeOK, Locals
<1>3. \A k \in proc[p].doomed : n <= k
  BY <1>1, <1>2, NatMinimum
<1>4. Stamped' = Stamped \ {n} /\ \A m \in Stamped' : files'[m] = files[m]
  BY <1>1 DEF Remove, Stamped
<1>5. n \in Stamped => \A m \in Stamped : n <= m
  <2> SUFFICES ASSUME n \in Stamped, NEW m \in Stamped, m < n PROVE FALSE
    BY <1>1, StampedAreNat
  <2>1. n \in Stamps
    BY DEF Stamped
  <2>2. m \in proc[p].doomed
    BY <1>1, <2>1 DEF Tidy, OldestFirst
  <2> QED
    BY <1>3, <1>1, <2>2, StampedAreNat
<1>6. ASSUME NEW q \in Processes, q # p PROVE proc'[q] = proc[q]
  BY <1>6 DEF Remove, Inv, TypeOK
<1>7. /\ proc'[p].pc \in {"idle", "remove"}
      /\ proc'[p].doomed = {} \/ proc'[p].doomed = proc[p].doomed \ {n}
  BY <1>2 DEF Remove, Inv, TypeOK, Locals, Idle
<1> HIDE DEF n
<1>8. /\ Stamped' \subseteq Stamped
      /\ \A k \in Stamped \ Stamped' : \A m \in Stamped' : k < m
  BY <1>1, <1>4, <1>5, StampedAreNat
<1> QED
  BY <1>1, <1>2, <1>4, <1>6, <1>7, <1>8, TidyStays DEF Pending

LEMMA TidyKept ==
    ASSUME Inv, Tidy, OneCollector, Skips \subseteq {TRUE}, [Next]_vars
    PROVE  Tidy'
<1>1. CASE Reconfigure \/ \E n \in Manual : Copy(n)
  BY <1>1, ReconfigureTidies, CopyTidies
<1>2. CASE \E p \in Collectors : Fetch(p) \/ Compare(p) \/ Create(p) \/ Write(p)
  BY <1>2, FetchTidies, CompareTidies, CreateTidies, WriteTidies
<1>3. CASE \E p \in Pruners : Prune(p)
  BY <1>3, PruneTidies
<1>4. CASE \E p \in Processes : List(p) \/ Remove(p) \/ Die(p)
  BY <1>4, ListTidies, RemoveTidies, DieTidies
<1>5. CASE UNCHANGED vars
  BY <1>5, FilesStay, TidyStays DEF vars, Pending
<1> QED
  BY <1>1, <1>2, <1>3, <1>4, <1>5 DEF Next

\* The captures of one collector that skips unchanged configurations differ from their
\* neighbours, whatever is pruned, killed, copied or reconfigured meanwhile
\* (save_snapshot_if_changed, prune_snapshots_in).
THEOREM NeighboursDiffer ==
    ASSUME OneCollector, Skips \subseteq {TRUE}
    PROVE  Spec => []NoIdenticalNeighbours
<1>1. Init => Inv /\ Tidy
  BY InitInv, InitTidy
<1>2. Inv /\ Tidy /\ [Next]_vars => (Inv /\ Tidy)'
  BY StepKeeps, TidyKept
<1>3. Tidy => NoIdenticalNeighbours
  BY DEF Tidy
<1> QED
  BY <1>1, <1>2, <1>3, PTL DEF Spec
=============================================================================

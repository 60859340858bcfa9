--------------------------- MODULE CacheFileProofs ----------------------------
(***************************************************************************)
(* No estimate is lost on its way from the JSON files of an older release  *)
(* into the database, a database that is quarantined keeps its log, and    *)
(* one that is being made gets its tables, for any number of processes,    *)
(* estimates, files and commands, with a kill at any point; but for the    *)
(* databases whose quarantine or log was disturbed.                        *)
(***************************************************************************)
EXTENDS CacheFile, TLAPS

Labels == {"idle", "exists", "check", "header", "probe", "verify", "rename", "sidecars", "create",
           "inspect", "open", "schema", "list", "import", "insert", "remove", "close"}

TypeOK ==
    /\ path \in Files \union {None}
    /\ wal \in Files \union {None}
    /\ kept \subseteq Files
    /\ kind \in [Files -> Kinds]
    /\ rows \in [Files -> SUBSET Keys]
    /\ base \in [Files -> SUBSET Keys]
    /\ legacy \in [Keys -> {"entry", "bad", "rejected", "gone"}]
    /\ pc \in [Procs -> Labels]
    /\ request \in [Procs -> Requests \union {NoRequest}]
    /\ conn \in [Procs -> Files \union {None}]
    /\ todo \in [Procs -> SUBSET Keys]
    /\ item \in [Procs -> Keys \union {None}]
    /\ started \in Nat
    /\ cleared \subseteq Keys
    /\ stranded \subseteq Files
    /\ disturbed \subseteq Files

\* A process works on a file from the connection, or the rename, on, and imports the entry it
\* has read.
Connected(p) ==
    /\ pc[p] \in {"verify", "schema", "sidecars"} \union Attached => conn[p] \in Files
    /\ pc[p] \in {"insert", "remove"} => item[p] \in Keys

\* Who names a file while another is being quarantined disturbs both, also by renaming it.
QuarantinesApart ==
    \A p \in Procs : pc[p] = "sidecars" =>
        /\ path # None => path \in disturbed /\ conn[p] \in disturbed
        /\ \A q \in Procs \ {p} : pc[q] = "sidecars" => conn[p] \in disturbed

\* cache.db-wal lies beside its database, or is about to follow it.
LogBeside == wal # None /\ wal \notin disturbed => path = wal \/ (path = None /\ wal \in Window)

\* Who has a database open writes into a log that will be found again.
LogsHeld == \A p \in Procs : pc[p] \in Attached /\ conn[p] \notin disturbed => Logged(conn[p])

LogsKept == \A f \in Files \ disturbed : Logged(f) \/ rows[f] = base[f]

LogInv == QuarantinesApart /\ LogBeside /\ LogsHeld /\ LogsKept

\* What an import may forget: its row is in some file, or a clear has taken it.
Stored(k) == k \in cleared \/ \E f \in Files : k \in rows[f]

ImportedIsStored ==
    /\ \A p \in Procs : pc[p] = "remove" => Stored(item[p])
    /\ \A k \in Keys : legacy[k] = "gone" => Stored(k)

Inv ==
    /\ TypeOK
    /\ \A p \in Procs : Connected(p)
    /\ LogInv
    /\ ImportedIsStored
    /\ EmptyHasMaker

-----------------------------------------------------------------------------
LEMMA InitInv == Init => Inv
<1> SUFFICES ASSUME Init PROVE Inv
  OBVIOUS
<1>1. TypeOK
  BY CacheFileAssumption DEF Init, TypeOK, Labels, Kinds, Files
<1>2. \A p \in Procs : Connected(p)
  BY DEF Init, Connected, Attached
<1>3. LogInv
  <2>1. \A f \in Files : rows[f] = base[f]
    BY DEF Init
  <2> QED
    BY <2>1 DEF Init, LogInv, QuarantinesApart, LogBeside, LogsHeld, LogsKept, Attached
<1>4. ImportedIsStored
  BY DEF Init, ImportedIsStored
<1>5. EmptyHasMaker
  <2>1. 1 \in Files
    BY CacheFileAssumption DEF Files
  <2> QED
    BY <2>1 DEF Init, EmptyHasMaker
<1> QED
  BY <1>1, <1>2, <1>3, <1>4, <1>5 DEF Inv

-----------------------------------------------------------------------------
\* Types

NoneIsNoFile == None \notin Files

LEMMA NoneIsOther == NoneIsNoFile
BY CacheFileAssumption DEF NoneIsNoFile

LEMMA WindowType == ASSUME Inv PROVE Window \subseteq Files
BY DEF Inv, Connected, Window

LEMMA DisturbType ==
    ASSUME TypeOK, NEW fs \in SUBSET (Files \union {None}), Disturb(fs)
    PROVE  disturbed' \subseteq Files
BY DEF TypeOK, Disturb

LEMMA StrandType ==
    ASSUME TypeOK, NEW fs \in SUBSET (Files \union {None}), Strand(fs)
    PROVE  stranded' \subseteq Files
BY DEF TypeOK, Strand

\* Without --recover-cache, a save is a save still.
LEMMA HealedType ==
    ASSUME TypeOK, NEW p \in Procs, Saving(p)
    PROVE  [request EXCEPT ![p].heal = FALSE] \in [Procs -> Requests \union {NoRequest}]
<1>1. request[p] \in [command : {"save"}, key : Keys, heal : BOOLEAN]
  BY DEF TypeOK, Saving, Requests, NoRequest
<1>2. [request[p] EXCEPT !.heal = FALSE] \in Requests
  BY <1>1 DEF Requests
<1> QED
  BY <1>2 DEF TypeOK

LEMMA NewFileType ==
    ASSUME Inv, NEW f \in Files, NewFile(f)
    PROVE  path' = f /\ kind' = [kind EXCEPT ![f] = "empty"] /\ kind' \in [Files -> Kinds]
           /\ disturbed' \subseteq Files
<1>1. (IF Window = {} THEN {} ELSE Window \union {f}) \in SUBSET (Files \union {None})
  BY WindowType
<1>2. disturbed' \subseteq Files
  BY <1>1, DisturbType DEF NewFile, Inv
<1> QED
  BY <1>2 DEF Inv, TypeOK, NewFile, Kinds

LocalType ==
    /\ pc \in [Procs -> Labels]
    /\ request \in [Procs -> Requests \union {NoRequest}]
    /\ conn \in [Procs -> Files \union {None}]
    /\ todo \in [Procs -> SUBSET Keys]
    /\ item \in [Procs -> Keys \union {None}]

LEMMA EndType == ASSUME TypeOK, NEW p \in Procs, End(p) PROVE LocalType'
BY DEF TypeOK, LocalType, End, Goto, Labels

LEMMA HealthyType == ASSUME TypeOK, NEW p \in Procs, Healthy(p) PROVE LocalType'
<1>1. CASE End(p)
  BY <1>1, EndType
<1>2. CASE /\ Saving(p) /\ request' = [request EXCEPT ![p].heal = FALSE]
           /\ conn' = [conn EXCEPT ![p] = None] /\ Goto(p, "create") /\ UNCHANGED <<todo, item>>
  BY <1>2, HealedType DEF TypeOK, LocalType, Goto, Labels
<1> QED
  BY <1>1, <1>2 DEF Healthy

LEMMA CorruptType == ASSUME TypeOK, NEW p \in Procs, Corrupt(p) PROVE LocalType'
BY DEF TypeOK, LocalType, Corrupt, Goto, Labels

LEMMA AttachType ==
    ASSUME Inv, NEW f \in Files, NEW log \in Files \union {None}, Attach(f, log)
    PROVE  /\ wal' \in Files \union {None} /\ kind' \in [Files -> Kinds]
           /\ disturbed' \subseteq Files /\ disturbed \subseteq disturbed'
<1>0. TypeOK
  BY DEF Inv
<1>1. wal' \in Files \union {None}
  BY <1>0 DEF TypeOK, Attach
<1>2. kind' \in [Files -> Kinds]
  BY <1>0 DEF TypeOK, Attach, Kinds
<1>3. CASE UNCHANGED disturbed
  BY <1>0, <1>1, <1>2, <1>3 DEF TypeOK
<1>4. CASE Disturb({f})
  <2>1. {f} \in SUBSET (Files \union {None})
    OBVIOUS
  <2>2. disturbed' \subseteq Files
    BY <1>0, <1>4, <2>1, DisturbType
  <2> QED
    BY <1>1, <1>2, <1>4, <2>2 DEF Disturb
<1>5. CASE Disturb({f, path} \union Window)
  <2>1. ({f, path} \union Window) \in SUBSET (Files \union {None})
    BY <1>0, WindowType DEF TypeOK
  <2>2. disturbed' \subseteq Files
    BY <1>0, <1>5, <2>1, DisturbType
  <2> QED
    BY <1>1, <1>2, <1>5, <2>2 DEF Disturb
<1> QED
  BY <1>3, <1>4, <1>5 DEF Attach

LEMMA CopyType ==
    ASSUME TypeOK, NEW f \in Files, NEW last, CopyLog(f, last)
    PROVE  base' \in [Files -> SUBSET Keys]
BY DEF TypeOK, CopyLog

LEMMA GlanceType ==
    ASSUME Inv, NEW f \in Files, Glance(f)
    PROVE  /\ wal' \in Files \union {None} /\ kind' \in [Files -> Kinds]
           /\ disturbed' \subseteq Files /\ disturbed \subseteq disturbed'
           /\ base' \in [Files -> SUBSET Keys]
<1> DEFINE last == Users(f) = {}
           log == IF last THEN None ELSE f
<1>1. Attach(f, log) /\ CopyLog(f, last) /\ log \in Files \union {None}
  BY DEF Glance
<1> HIDE DEF last, log
<1>2. base' \in [Files -> SUBSET Keys]
  BY <1>1, CopyType DEF Inv
<1> QED
  BY <1>1, <1>2, AttachType

LEMMA CommitType ==
    ASSUME TypeOK, NEW f \in Files, NEW content \in SUBSET Keys, Commit(f, content)
    PROVE  rows' \in [Files -> SUBSET Keys] /\ base' \in [Files -> SUBSET Keys]
BY DEF TypeOK, Commit

-----------------------------------------------------------------------------
LEMMA TypeKeeps ==
    ASSUME Inv, NEW p \in Procs, Start(p) \/ Step(p) \/ Die(p)
    PROVE  TypeOK'
<1>0. TypeOK /\ Connected(p) /\ LocalType
  BY DEF Inv, TypeOK, LocalType
<1>1. CASE Start(p)
  BY <1>0, <1>1 DEF TypeOK, Start, Goto, Labels, disk, names
<1>2. CASE Exists(p)
  BY <1>0, <1>2 DEF TypeOK, Exists, Goto, Labels, disk, names, history
<1>3. CASE Check(p)
  <2>1. LocalType'
    BY <1>0, <1>3, HealthyType DEF Check, Goto, Labels, LocalType
  <2> QED
    BY <1>0, <1>3, <2>1 DEF TypeOK, LocalType, Check, disk, names, history
<1>4. CASE Header(p)
  <2>1. LocalType'
    BY <1>0, <1>4, CorruptType DEF Header, Goto, Labels, LocalType
  <2> QED
    BY <1>0, <1>4, <2>1 DEF TypeOK, LocalType, Header, disk, names, history
<1>5. CASE Probe(p)
  <2>1. CASE path = None /\ (\E f \in Files : NewFile(f)) /\ stranded' = stranded \union {path'}
    <3>1. PICK f \in Files : NewFile(f)
      BY <2>1
    <3>2. path' \in Files /\ kind' \in [Files -> Kinds] /\ disturbed' \subseteq Files
      BY <3>1, NewFileType
    <3> QED
      BY <1>0, <1>5, <2>1, <3>2 DEF TypeOK, Probe, Goto, Labels
  <2>2. CASE UNCHANGED <<path, kind, disturbed, stranded>>
    BY <1>0, <1>5, <2>2 DEF TypeOK, Probe, Goto, Labels
  <2> QED
    BY <1>5, <2>1, <2>2 DEF Probe
<1>6. CASE Verify(p)
  <2>1. conn[p] \in Files /\ Glance(conn[p])
    BY <1>0, <1>6 DEF Verify, Connected
  <2>2. LocalType'
    BY <1>0, <1>6, HealthyType, CorruptType DEF Verify
  <2> QED
    BY <1>0, <1>6, <2>1, <2>2, GlanceType DEF TypeOK, LocalType, Verify
<1>7. CASE Rename(p)
  <2>1. LocalType' /\ path' \in Files \union {None}
    BY <1>0, <1>7, EndType DEF Rename, Goto, Labels, LocalType, TypeOK
  <2> QED
    BY <1>0, <1>7, <2>1 DEF TypeOK, LocalType, Rename, history
<1>8. CASE Sidecars(p)
  <2>1. disturbed' \subseteq Files
    BY <1>0, <1>8, DisturbType DEF TypeOK, Sidecars, Connected
  <2>2. wal' \in Files \union {None} /\ kept' \subseteq Files
    BY <1>0, <1>8, NoneIsOther DEF TypeOK, Sidecars, Connected, NoneIsNoFile
  <2> QED
    BY <1>0, <1>8, <2>1, <2>2 DEF TypeOK, Sidecars, Goto, Labels
<1>9. CASE Create(p)
  <2>1. CASE \E f \in Files : NewFile(f)
    <3>1. path' \in Files /\ kind' \in [Files -> Kinds] /\ disturbed' \subseteq Files
      BY <2>1, NewFileType
    <3> QED
      BY <1>0, <1>9, <3>1 DEF TypeOK, Create, Goto, Labels
  <2>2. CASE UNCHANGED <<path, kind, disturbed>>
    BY <1>0, <1>9, <2>2 DEF TypeOK, Create, Goto, Labels
  <2> QED
    BY <1>9, <2>1, <2>2 DEF Create
<1>10. CASE Inspect(p)
  <2>1. LocalType'
    BY <1>0, <1>10, EndType DEF Inspect, Goto, Labels, LocalType
  <2> QED
    BY <1>0, <1>10, <2>1 DEF TypeOK, LocalType, Inspect, disk, names, history
<1>11. CASE Open(p)
  <2>1. path' \in Files \union {None} /\ kind' \in [Files -> Kinds] /\ disturbed' \subseteq Files
    <3>1. CASE \E f \in Files : NewFile(f)
      BY <3>1, NewFileType
    <3>2. CASE UNCHANGED <<path, kind, disturbed>>
      BY <1>0, <3>2 DEF TypeOK
    <3> QED
      BY <1>11, <3>1, <3>2 DEF Open
  <2>2. CASE End(p) /\ Strand({path})
    BY <1>0, <1>11, <2>1, <2>2, EndType, StrandType DEF TypeOK, LocalType, Open
  <2>3. CASE conn' = [conn EXCEPT ![p] = path'] /\ Goto(p, "schema") /\ UNCHANGED <<request, todo, item, stranded>>
    BY <1>0, <1>11, <2>1, <2>3 DEF TypeOK, Open, Goto, Labels
  <2> QED
    BY <1>11, <2>2, <2>3 DEF Open
<1>12. CASE Schema(p)
  <2>0. conn[p] \in Files
    BY <1>0, <1>12 DEF Schema, Connected
  <2>1. CASE Attach(conn[p], conn[p]) /\ Goto(p, "list") /\ UNCHANGED <<base, request, conn, todo, item, stranded>>
    BY <1>0, <1>12, <2>0, <2>1, AttachType DEF TypeOK, Schema, Goto, Labels
  <2>2. CASE Glance(conn[p]) /\ End(p) /\ Strand({conn[p]})
    <3>1. stranded' \subseteq Files
      BY <1>0, <2>0, <2>2, StrandType
    <3> QED
      BY <1>0, <1>12, <2>0, <2>2, <3>1, GlanceType, EndType DEF TypeOK, LocalType, Schema
  <2> QED
    BY <1>12, <2>1, <2>2 DEF Schema
<1>13. CASE List(p)
  BY <1>0, <1>13 DEF TypeOK, List, Goto, Labels, disk, names, history
<1>14. CASE Read(p)
  <2>1. legacy' \in [Keys -> {"entry", "bad", "rejected", "gone"}]
    BY <1>0, <1>14 DEF TypeOK, Read
  <2>2. /\ pc' \in [Procs -> Labels]
        /\ todo' \in [Procs -> SUBSET Keys] /\ item' \in [Procs -> Keys \union {None}]
    <3>1. PICK k \in todo[p] :
              \/ item' = [item EXCEPT ![p] = k] /\ Goto(p, "insert") /\ UNCHANGED todo
              \/ Done(p, k) /\ UNCHANGED <<pc, item>>
      BY <1>14 DEF Read
    <3>2. CASE item' = [item EXCEPT ![p] = k] /\ Goto(p, "insert") /\ UNCHANGED todo
      BY <1>0, <3>2 DEF TypeOK, Goto, Labels
    <3>3. CASE Done(p, k) /\ UNCHANGED <<pc, item>>
      BY <1>0, <3>3 DEF TypeOK, Done
    <3> QED
      BY <3>1, <3>2, <3>3
  <2> QED
    BY <1>0, <1>14, <2>1, <2>2 DEF TypeOK, Read, names, history
<1>15. CASE Insert(p)
  <2>1. rows' \in [Files -> SUBSET Keys] /\ base' \in [Files -> SUBSET Keys]
    <3>1. conn[p] \in Files /\ rows[conn[p]] \union {item[p]} \in SUBSET Keys
      BY <1>0, <1>15 DEF Insert, Connected, Attached, TypeOK
    <3> QED
      BY <1>0, <1>15, <3>1, CommitType DEF Insert, TypeOK
  <2>2. /\ pc' \in [Procs -> Labels]
        /\ todo' \in [Procs -> SUBSET Keys] /\ item' \in [Procs -> Keys \union {None}]
    BY <1>0, <1>15 DEF TypeOK, Insert, Done, Goto, Labels
  <2> QED
    BY <1>0, <1>15, <2>1, <2>2 DEF TypeOK, Insert, names, history
<1>16. CASE Remove(p)
  BY <1>0, <1>16 DEF TypeOK, Connected, Remove, Done, Goto, Labels, names, history
<1>17. CASE Work(p)
  <2>1. rows' \in [Files -> SUBSET Keys] /\ base' \in [Files -> SUBSET Keys] /\ cleared' \subseteq Keys
    <3>0. conn[p] \in Files /\ rows[conn[p]] \subseteq Keys
      BY <1>0, <1>17 DEF Work, Connected, Attached, TypeOK
    <3>1. CASE UNCHANGED <<rows, base, cleared>>
      BY <1>0, <3>1 DEF TypeOK
    <3>2. CASE Saving(p) /\ Commit(conn[p], rows[conn[p]] \union {request[p].key}) /\ UNCHANGED cleared
      <4>1. request[p].key \in Keys
        BY <1>0, <3>2 DEF TypeOK, Saving, Requests, NoRequest
      <4> QED
        BY <1>0, <3>0, <3>2, <4>1, CommitType DEF TypeOK
    <3>3. CASE Commit(conn[p], {}) /\ cleared' = cleared \union rows[conn[p]]
      BY <1>0, <3>0, <3>3, CommitType DEF TypeOK
    <3> QED
      BY <1>17, <3>1, <3>2, <3>3 DEF Work
  <2> QED
    BY <1>0, <1>17, <2>1 DEF TypeOK, Work, Goto, Labels, names
<1>18. CASE Close(p)
  <2>1. LocalType'
    BY <1>0, <1>18, HealthyType, EndType DEF Close
  <2>2. base' \in [Files -> SUBSET Keys]
    BY <1>0, <1>18, CopyType DEF Close, Connected, Attached
  <2> QED
    BY <1>0, <1>18, <2>1, <2>2 DEF TypeOK, LocalType, Close, history
<1>19. CASE Die(p)
  <2>1. stranded' \subseteq Files
    BY <1>0, <1>19, StrandType DEF Die, TypeOK
  <2>2. disturbed' \subseteq Files
    BY <1>0, <1>19, DisturbType DEF Die, TypeOK, Connected
  <2> QED
    BY <1>0, <1>19, <2>1, <2>2, EndType DEF TypeOK, LocalType, Die, disk, names
<1> QED
  BY <1>1, <1>2, <1>3, <1>4, <1>5, <1>6, <1>7, <1>8, <1>9, <1>10, <1>11, <1>12, <1>13, <1>14, <1>15,
     <1>16, <1>17, <1>18, <1>19
  DEF Step

\* A step leaves the other processes where they are.
LEMMA OthersStay ==
    ASSUME TypeOK, NEW p \in Procs, Start(p) \/ Step(p) \/ Die(p), NEW q \in Procs, q # p
    PROVE  pc'[q] = pc[q] /\ conn'[q] = conn[q] /\ item'[q] = item[q]
<1>1. CASE Start(p) \/ Exists(p) \/ Check(p) \/ Header(p) \/ Probe(p) \/ Verify(p)
  BY <1>1 DEF TypeOK, Start, Exists, Check, Header, Probe, Verify, Healthy, Corrupt, Goto, End
<1>2. CASE Rename(p) \/ Sidecars(p) \/ Create(p) \/ Inspect(p) \/ Open(p)
  BY <1>2 DEF TypeOK, Rename, Sidecars, Create, Inspect, Open, Goto, End
<1>3. CASE Schema(p) \/ List(p) \/ Read(p) \/ Insert(p) \/ Remove(p) \/ Work(p) \/ Close(p) \/ Die(p)
  BY <1>3 DEF TypeOK, Schema, List, Read, Insert, Remove, Work, Close, Healthy, Die, Goto, End
<1> QED
  BY <1>1, <1>2, <1>3 DEF Step

LEMMA ConnectedKeeps ==
    ASSUME Inv, NEW p \in Procs, Start(p) \/ Step(p) \/ Die(p)
    PROVE  \A q \in Procs : Connected(q)'
<1>0. TypeOK /\ Connected(p)
  BY DEF Inv
<1>1. ASSUME NEW q \in Procs, q # p PROVE Connected(q)'
  BY <1>0, <1>1, OthersStay DEF Inv, Connected
<1>2. Connected(p)'
  <2>1. CASE Start(p) \/ Exists(p) \/ Check(p) \/ Header(p) \/ Verify(p)
    BY <1>0, <2>1
    DEF TypeOK, Connected, Attached, Start, Exists, Check, Header, Verify, Healthy, Corrupt, Goto, End
  <2>2. CASE Probe(p)
    <3>1. path' \in Files
      BY <1>0, <2>2, NewFileType DEF Probe, TypeOK
    <3> QED
      BY <1>0, <2>2, <3>1 DEF Connected, Attached, Probe, Goto, TypeOK
  <2>3. CASE Rename(p)
    BY <1>0, <2>3 DEF TypeOK, Connected, Attached, Rename, Goto, End
  <2>4. CASE Sidecars(p) \/ Create(p) \/ Inspect(p)
    BY <1>0, <2>4 DEF TypeOK, Connected, Attached, Sidecars, Create, Inspect, Goto, End
  <2>5. CASE Open(p)
    <3>1. CASE End(p)
      BY <1>0, <3>1 DEF Connected, Attached, End, Goto, TypeOK
    <3>2. CASE ~End(p)
      <4>1. path' \in Files
        BY <1>0, <2>5, <3>2, NewFileType DEF Open, TypeOK
      <4> QED
        BY <1>0, <2>5, <3>2, <4>1 DEF Connected, Attached, Open, Goto, TypeOK
    <3> QED
      BY <3>1, <3>2
  <2>6. CASE Schema(p) \/ List(p) \/ Remove(p) \/ Work(p)
    BY <1>0, <2>6 DEF TypeOK, Connected, Attached, Schema, List, Remove, Work, Goto, End
  <2>7. CASE Read(p)
    BY <1>0, <2>7 DEF TypeOK, Connected, Attached, Read, Goto
  <2>8. CASE Insert(p) \/ Close(p) \/ Die(p)
    BY <1>0, <2>8 DEF TypeOK, Connected, Attached, Insert, Close, Healthy, Die, Goto, End
  <2> QED
    BY <2>1, <2>2, <2>3, <2>4, <2>5, <2>6, <2>7, <2>8 DEF Step
<1> QED
  BY <1>1, <1>2

-----------------------------------------------------------------------------
\* Logs

SameWindows ==
    \A q \in Procs : /\ pc'[q] = "sidecars" <=> pc[q] = "sidecars"
                     /\ pc[q] = "sidecars" => conn'[q] = conn[q]

NoneAttaches == \A q \in Procs : pc'[q] \in Attached => pc[q] \in Attached /\ conn'[q] = conn[q]

LEMMA WindowsSame ==
    ASSUME TypeOK, NEW p \in Procs, Start(p) \/ Step(p) \/ Die(p),
           pc[p] # "sidecars", pc'[p] # "sidecars"
    PROVE  SameWindows
BY OthersStay DEF SameWindows

LEMMA NoneAttached ==
    ASSUME TypeOK, NEW p \in Procs, Start(p) \/ Step(p) \/ Die(p),
           pc'[p] \in Attached => pc[p] \in Attached /\ conn'[p] = conn[p]
    PROVE  NoneAttaches
BY OthersStay DEF NoneAttaches

LEMMA WindowSame == ASSUME SameWindows PROVE Window' = Window
BY DEF SameWindows, Window

\* Steps that rename nothing and open nothing
LEMMA QuietKeeps ==
    ASSUME Inv, SameWindows, NoneAttaches, UNCHANGED <<names, disturbed>>,
           \A f \in Files \ disturbed : Logged(f) \/ rows'[f] = base'[f]
    PROVE  LogInv'
<1>1. \A f \in Files : Logged(f)' = Logged(f)
  BY WindowSame DEF Logged, names
<1>2. QuarantinesApart'
  BY DEF Inv, LogInv, QuarantinesApart, SameWindows, names
<1>3. LogBeside'
  BY WindowSame DEF Inv, LogInv, LogBeside, names
<1>4. LogsHeld'
  BY <1>1 DEF Inv, Connected, LogInv, LogsHeld, NoneAttaches
<1>5. LogsKept'
  BY <1>1 DEF LogsKept
<1> QED
  BY <1>2, <1>3, <1>4, <1>5 DEF LogInv

\* A new file disturbs whatever is being quarantined.
LEMMA NewKeeps ==
    ASSUME Inv, NEW f \in Files, path = None, NewFile(f), SameWindows, NoneAttaches,
           UNCHANGED <<wal, kept, rows, base>>
    PROVE  LogInv'
<1>0. TypeOK /\ Window' = Window /\ path' = f /\ Window \subseteq Files /\ None \notin Files
  BY WindowSame, WindowType, NoneIsOther DEF Inv, NewFile, NoneIsNoFile
<1>1. \A g \in Files : Logged(g) => g \in kept \/ g \in Window
  BY <1>0 DEF Logged
<1>2. disturbed \subseteq disturbed' /\ Window \subseteq disturbed' /\ (Window # {} => f \in disturbed')
  BY <1>0 DEF NewFile, Disturb
<1>3. QuarantinesApart'
  <2> SUFFICES ASSUME NEW q \in Procs, pc'[q] = "sidecars" PROVE f \in disturbed' /\ conn'[q] \in disturbed'
    BY <1>0 DEF QuarantinesApart
  <2>1. conn'[q] = conn[q] /\ conn[q] \in Window
    BY DEF SameWindows, Window
  <2> QED
    BY <1>2, <2>1
<1>4. LogBeside'
  BY <1>0, <1>2 DEF Inv, LogInv, LogBeside
<1>5. LogsHeld'
  <2> SUFFICES ASSUME NEW q \in Procs, pc'[q] \in Attached, conn'[q] \notin disturbed'
               PROVE  conn'[q] \in kept'
    BY DEF LogsHeld, Logged
  <2>1. pc[q] \in Attached /\ conn'[q] = conn[q] /\ conn[q] \in Files /\ conn[q] \notin disturbed
    BY <1>2 DEF NoneAttaches, Inv, Connected
  <2>2. Logged(conn[q])
    BY <2>1 DEF Inv, LogInv, LogsHeld
  <2> QED
    BY <1>1, <1>2, <2>1, <2>2
<1>6. LogsKept'
  <2> SUFFICES ASSUME NEW g \in Files, g \notin disturbed' PROVE g \in kept' \/ rows'[g] = base'[g]
    BY DEF LogsKept, Logged
  <2> QED
    BY <1>1, <1>2 DEF Inv, LogInv, LogsKept
<1> QED
  BY <1>3, <1>4, <1>5, <1>6 DEF LogInv

\* A file that holds no name but cache.db's has no other log beside it.
LEMMA LogIsOwn ==
    ASSUME Inv, NEW g \in Files, g \notin disturbed, Logged(g), path # None, path # g
    PROVE  g \in kept
BY DEF Logged

\* A connection that reads or writes takes the log that lies beside its database.
LEMMA AttachKeeps ==
    ASSUME Inv, NEW f \in Files, Attach(f, f), SameWindows,
           \A q \in Procs : pc'[q] \in Attached =>
               conn'[q] = f \/ (pc[q] \in Attached /\ conn'[q] = conn[q]),
           UNCHANGED <<path, kept, rows, base>>
    PROVE  LogInv'
<1>0. TypeOK /\ Window' = Window /\ Window \subseteq Files /\ None \notin Files
  BY WindowSame, WindowType, NoneIsOther DEF Inv, NoneIsNoFile
<1>1. disturbed \subseteq disturbed'
  BY AttachType
<1>2. QuarantinesApart'
  <2> SUFFICES ASSUME NEW q \in Procs, pc[q] = "sidecars"
               PROVE  /\ path # None => path \in disturbed' /\ conn[q] \in disturbed'
                      /\ \A r \in Procs \ {q} : pc[r] = "sidecars" => conn[q] \in disturbed'
    BY DEF QuarantinesApart, SameWindows
  <2> QED
    BY <1>1 DEF Inv, LogInv, QuarantinesApart
<1>3. CASE path = f
  <2>0. wal' = f
    BY <1>0, <1>3 DEF Attach
  <2>1. \A g \in Files : g \notin disturbed /\ Logged(g) => Logged(g)'
    BY <1>0, <1>3, <2>0 DEF Logged
  <2>2. Logged(f)'
    BY <1>0, <1>3, <2>0 DEF Logged
  <2>3. LogBeside'
    BY <1>3, <2>0 DEF LogBeside
  <2>4. LogsHeld'
    <3>1. ASSUME NEW q \in Procs, pc'[q] \in Attached, conn'[q] \notin disturbed'
          PROVE  \E g \in Files : g = conn'[q] /\ Logged(g)'
      <4>1. CASE conn'[q] = f
        BY <2>2, <4>1
      <4>2. CASE conn'[q] # f
        <5>1. pc[q] \in Attached /\ conn'[q] = conn[q] /\ conn[q] \in Files /\ conn[q] \notin disturbed
          BY <1>1, <3>1, <4>2 DEF Inv, Connected
        <5>2. PICK g \in Files : g = conn[q]
          BY <5>1
        <5>3. Logged(g)'
          BY <2>1, <5>1, <5>2 DEF Inv, LogInv, LogsHeld
        <5> QED
          BY <5>1, <5>2, <5>3
      <4> QED
        BY <4>1, <4>2
    <3> QED
      BY <3>1 DEF LogsHeld, Logged
  <2>5. LogsKept'
    BY <1>1, <2>1 DEF Inv, LogInv, LogsKept
  <2> QED
    BY <1>2, <2>3, <2>4, <2>5 DEF LogInv
<1>4. CASE path # f
  <2>0. /\ wal' \in {None, f, wal}
        /\ f \in disturbed' /\ (path # None => path \in disturbed') /\ Window \subseteq disturbed'
    BY <1>0, <1>4 DEF Attach, Disturb
  <2>1. \A g \in Files : g \notin disturbed' /\ Logged(g) => g \in kept
    BY <1>0, <2>0 DEF Logged
  <2>2. LogBeside'
    BY <1>0, <1>1, <2>0 DEF Inv, LogInv, LogBeside
  <2>3. LogsHeld'
    <3> SUFFICES ASSUME NEW q \in Procs, pc'[q] \in Attached, conn'[q] \notin disturbed'
                 PROVE  conn'[q] \in kept'
      BY DEF LogsHeld, Logged
    <3>1. pc[q] \in Attached /\ conn'[q] = conn[q] /\ conn[q] \in Files /\ conn[q] \notin disturbed
      BY <1>1, <2>0 DEF Inv, Connected
    <3>2. Logged(conn[q])
      BY <3>1 DEF Inv, LogInv, LogsHeld
    <3> QED
      BY <2>1, <3>1, <3>2
  <2>4. LogsKept'
    <3> SUFFICES ASSUME NEW g \in Files, g \notin disturbed' PROVE g \in kept' \/ rows'[g] = base'[g]
      BY DEF LogsKept, Logged
    <3> QED
      BY <1>1, <2>1 DEF Inv, LogInv, LogsKept
  <2> QED
    BY <1>2, <2>2, <2>3, <2>4 DEF LogInv
<1> QED
  BY <1>3, <1>4

\* The last connection leaves no log behind.
LEMMA ReleaseKeeps ==
    ASSUME Inv, NEW f \in Files, path = f, wal' = None, SameWindows, NoneAttaches,
           base' = [base EXCEPT ![f] = rows[f]],
           \A q \in Procs : pc'[q] \in Attached => conn'[q] # f,
           disturbed \subseteq disturbed', UNCHANGED <<path, kept, rows>>
    PROVE  LogInv'
<1>0. TypeOK /\ Window' = Window /\ None \notin Files
  BY WindowSame, NoneIsOther DEF Inv, NoneIsNoFile
<1>1. \A g \in Files \ {f} : Logged(g) => g \in kept
  BY <1>0 DEF Logged
<1>2. QuarantinesApart'
  <2> SUFFICES ASSUME NEW q \in Procs, pc[q] = "sidecars"
               PROVE  /\ path # None => path \in disturbed' /\ conn[q] \in disturbed'
                      /\ \A r \in Procs \ {q} : pc[r] = "sidecars" => conn[q] \in disturbed'
    BY DEF QuarantinesApart, SameWindows
  <2> QED
    BY DEF Inv, LogInv, QuarantinesApart
<1>3. LogBeside'
  BY DEF LogBeside
<1>4. LogsHeld'
  <2> SUFFICES ASSUME NEW q \in Procs, pc'[q] \in Attached, conn'[q] \notin disturbed'
               PROVE  conn'[q] \in kept'
    BY DEF LogsHeld, Logged
  <2>1. pc[q] \in Attached /\ conn'[q] = conn[q] /\ conn[q] \in Files \ {f} /\ conn[q] \notin disturbed
    BY DEF Inv, Connected, NoneAttaches
  <2>2. Logged(conn[q])
    BY <2>1 DEF Inv, LogInv, LogsHeld
  <2> QED
    BY <1>1, <2>1, <2>2
<1>5. LogsKept'
  <2> SUFFICES ASSUME NEW g \in Files, g \notin disturbed' PROVE g \in kept' \/ rows'[g] = base'[g]
    BY DEF LogsKept, Logged
  <2>1. CASE g = f
    BY <1>0, <2>1 DEF TypeOK
  <2>2. CASE g # f
    BY <1>0, <1>1, <2>2 DEF Inv, LogInv, LogsKept, TypeOK
  <2> QED
    BY <2>1, <2>2
<1> QED
  BY <1>2, <1>3, <1>4, <1>5 DEF LogInv

\* Who has a database open commits into its log.
LEMMA CommitKeeps ==
    ASSUME Inv, NEW p \in Procs, pc[p] \in Attached, NEW content, Commit(conn[p], content)
    PROVE  \A f \in Files \ disturbed : Logged(f) \/ rows'[f] = base'[f]
<1> SUFFICES ASSUME NEW f \in Files \ disturbed, ~Logged(f) PROVE rows'[f] = base'[f]
  OBVIOUS
<1>1. f # conn[p]
  BY DEF Inv, LogInv, LogsHeld
<1>2. rows'[f] = rows[f] /\ base'[f] = base[f]
  BY <1>1 DEF Commit, Inv, TypeOK
<1> QED
  BY <1>2 DEF Inv, LogInv, LogsKept

\* A database that is renamed takes its log into the window.
LEMMA RenameKeeps ==
    ASSUME Inv, NEW p \in Procs, path # None, path' = None, conn' = [conn EXCEPT ![p] = path],
           pc' = [pc EXCEPT ![p] = "sidecars"], pc[p] = "rename",
           UNCHANGED <<wal, kept, rows, base, disturbed>>
    PROVE  LogInv'
<1>0. TypeOK /\ QuarantinesApart /\ path \in Files
  BY DEF Inv, LogInv, TypeOK
<1>1. \A q \in Procs \ {p} : pc'[q] = pc[q] /\ conn'[q] = conn[q]
  BY <1>0 DEF TypeOK
<1>2. pc'[p] = "sidecars" /\ conn'[p] = path
  BY <1>0 DEF TypeOK
<1>3. path \in Window' /\ Window \subseteq Window'
  BY <1>1, <1>2 DEF Window
<1>4. \A g \in Files : Logged(g) => Logged(g)'
  BY <1>3 DEF Logged
<1>5. QuarantinesApart'
  BY <1>0, <1>1, <1>2 DEF QuarantinesApart
<1>6. LogBeside'
  BY <1>3 DEF Inv, LogInv, LogBeside
<1>7. LogsHeld'
  <2> SUFFICES ASSUME NEW q \in Procs, pc'[q] \in Attached, conn'[q] \notin disturbed
               PROVE  \E g \in Files : g = conn'[q] /\ Logged(g)'
    BY DEF LogsHeld, Logged
  <2>1. q # p
    BY <1>2 DEF Attached
  <2>2. PICK g \in Files : g = conn[q]
    BY <1>1, <2>1 DEF Inv, Connected
  <2>3. Logged(g)'
    BY <1>1, <1>4, <2>1, <2>2 DEF Inv, LogInv, LogsHeld
  <2> QED
    BY <1>1, <2>1, <2>2, <2>3
<1>8. LogsKept'
  BY <1>4 DEF Inv, LogInv, LogsKept
<1> QED
  BY <1>5, <1>6, <1>7, <1>8 DEF LogInv

\* The window closes when the log has been moved beside its database; when that fails, or a kill
\* comes first, the database counts as disturbed.
LEMMA WindowCloses ==
    ASSUME Inv, NEW p \in Procs, pc[p] = "sidecars", pc'[p] \notin Attached \union {"sidecars"},
           \A q \in Procs \ {p} : pc'[q] = pc[q] /\ conn'[q] = conn[q],
           UNCHANGED <<path, rows, base>>, kept \subseteq kept', disturbed \subseteq disturbed',
           \/ wal' = None /\ (wal = conn[p] => wal \in kept')
           \/ wal' = wal /\ conn[p] \in disturbed'
    PROVE  LogInv'
<1>0. TypeOK /\ QuarantinesApart /\ conn[p] \in Files /\ None \notin Files
  BY NoneIsOther DEF Inv, LogInv, Connected, NoneIsNoFile
<1>1. \A g \in Files : g \notin disturbed' /\ wal = g /\ path \in {g, None}
          /\ (path = None => g \in Window) => g = conn[p]
  <2> SUFFICES ASSUME NEW g \in Files, g \notin disturbed', path \in {g, None},
                      path = None => g \in Window, g # conn[p]
               PROVE  FALSE
    OBVIOUS
  <2>1. path = None
    BY <1>0 DEF QuarantinesApart
  <2>2. PICK q \in Procs : pc[q] = "sidecars" /\ conn[q] = g
    BY <2>1 DEF Window
  <2> QED
    BY <1>0, <2>2 DEF QuarantinesApart
<1>2. \A g \in Files : g \notin disturbed' /\ Logged(g) => g \in kept'
  BY <1>1 DEF Logged
<1>3. QuarantinesApart'
  <2> SUFFICES ASSUME NEW q \in Procs, pc'[q] = "sidecars"
               PROVE  /\ path # None => path \in disturbed' /\ conn'[q] \in disturbed'
                      /\ \A r \in Procs \ {q} : pc'[r] = "sidecars" => conn'[q] \in disturbed'
    BY DEF QuarantinesApart
  <2>1. q # p /\ pc[q] = "sidecars" /\ conn'[q] = conn[q]
    OBVIOUS
  <2> QED
    BY <1>0, <2>1 DEF QuarantinesApart
<1>4. LogBeside'
  BY <1>0, <1>1 DEF Inv, LogInv, LogBeside, TypeOK
<1>5. LogsHeld'
  <2> SUFFICES ASSUME NEW q \in Procs, pc'[q] \in Attached, conn'[q] \notin disturbed'
               PROVE  conn'[q] \in kept'
    BY DEF LogsHeld, Logged
  <2>1. pc[q] \in Attached /\ conn'[q] = conn[q] /\ conn[q] \in Files /\ conn[q] \notin disturbed
    BY DEF Inv, Connected
  <2>2. Logged(conn[q])
    BY <2>1 DEF Inv, LogInv, LogsHeld
  <2> QED
    BY <1>2, <2>1, <2>2
<1>6. LogsKept'
  <2> SUFFICES ASSUME NEW g \in Files, g \notin disturbed' PROVE g \in kept' \/ rows'[g] = base'[g]
    BY DEF LogsKept, Logged
  <2> QED
    BY <1>2 DEF Inv, LogInv, LogsKept
<1> QED
  BY <1>3, <1>4, <1>5, <1>6 DEF LogInv

LEMMA UsersStay ==
    ASSUME TypeOK, NEW p \in Procs, Start(p) \/ Step(p) \/ Die(p), NEW f, Users(f) \subseteq {p},
           pc'[p] \notin Attached
    PROVE  \A q \in Procs : pc'[q] \in Attached => conn'[q] # f
BY OthersStay DEF Users

LEMMA GlanceKeeps ==
    ASSUME Inv, NEW p \in Procs, Verify(p) \/ Schema(p), Glance(conn[p]), pc'[p] \notin Attached \union {"sidecars"},
           UNCHANGED <<path, kept, rows>>
    PROVE  LogInv'
<1>0. TypeOK /\ Connected(p) /\ Step(p)
  BY DEF Inv, Step
<1>1. PICK f \in Files : f = conn[p]
  BY <1>0 DEF Verify, Schema, Connected
<1>2. pc[p] # "sidecars" /\ pc'[p] # "sidecars"
  BY DEF Verify, Schema
<1>3. SameWindows /\ NoneAttaches
  BY <1>0, <1>2, WindowsSame, NoneAttached
<1>4. CASE path = f /\ Users(f) = {}
  <2>1. wal' = None /\ base' = [base EXCEPT ![f] = rows[f]] /\ disturbed \subseteq disturbed'
    BY <1>1, <1>4 DEF Glance, Attach, CopyLog, Disturb
  <2>2. \A q \in Procs : pc'[q] \in Attached => conn'[q] # f
    BY <1>0, <1>4, UsersStay
  <2> QED
    BY <1>3, <1>4, <2>1, <2>2, ReleaseKeeps
<1>5. CASE ~(path = f /\ Users(f) = {})
  <2>1. Attach(f, f) /\ UNCHANGED base
    BY <1>1, <1>5 DEF Glance, Attach, CopyLog
  <2> QED
    BY <1>3, <2>1, AttachKeeps DEF NoneAttaches
<1> QED
  BY <1>4, <1>5

LEMMA CloseKeeps == ASSUME Inv, NEW p \in Procs, Close(p) PROVE LogInv'
<1>0. TypeOK /\ Connected(p) /\ Step(p)
  BY DEF Inv, Step
<1>1. PICK f \in Files : f = conn[p]
  BY <1>0 DEF Close, Connected, Attached
<1>2. pc[p] # "sidecars" /\ pc'[p] \notin Attached \union {"sidecars"}
  BY <1>0 DEF Close, Healthy, End, Goto, TypeOK, Attached
<1>3. SameWindows /\ NoneAttaches
  BY <1>0, <1>2, WindowsSame, NoneAttached
<1>4. CASE path = f /\ Users(f) = {p}
  <2>1. wal' = None /\ base' = [base EXCEPT ![f] = rows[f]]
    BY <1>1, <1>4 DEF Close, CopyLog
  <2>2. \A q \in Procs : pc'[q] \in Attached => conn'[q] # f
    BY <1>0, <1>2, <1>4, UsersStay
  <2> QED
    BY <1>3, <1>4, <2>1, <2>2, ReleaseKeeps DEF Close, history
<1>5. CASE ~(path = f /\ Users(f) = {p})
  <2>1. UNCHANGED <<names, disturbed, rows, base>>
    BY <1>1, <1>5 DEF Close, CopyLog, names, history
  <2> QED
    BY <1>3, <2>1, QuietKeeps DEF Inv, LogInv, LogsKept
<1> QED
  BY <1>4, <1>5

\* The steps that rename, create, open or close nothing
Quiet(p) ==
    \/ Start(p) \/ Exists(p) \/ Check(p) \/ Header(p) \/ Inspect(p)
    \/ List(p) \/ Read(p) \/ Insert(p) \/ Remove(p) \/ Work(p)

LEMMA QuietStays == ASSUME Inv, NEW p \in Procs, Quiet(p) PROVE LogInv'
<1>0. TypeOK /\ (Start(p) \/ Step(p) \/ Die(p))
  BY DEF Inv, Step, Quiet
<1>1. UNCHANGED <<names, disturbed>>
  BY DEF Quiet, Start, Exists, Check, Header, Inspect, List, Read, Insert, Remove, Work, disk, history
<1>2. pc[p] # "sidecars" /\ pc'[p] # "sidecars"
  BY <1>0 DEF Quiet, Start, Exists, Check, Header, Inspect, List, Read, Insert, Remove, Work, Healthy,
              Corrupt, End, Goto, TypeOK
<1>3. pc'[p] \in Attached => pc[p] \in Attached /\ conn'[p] = conn[p]
  BY <1>0 DEF Quiet, Start, Exists, Check, Header, Inspect, List, Read, Insert, Remove, Work, Healthy,
              Corrupt, End, Goto, TypeOK, Attached
<1>4. \A f \in Files \ disturbed : Logged(f) \/ rows'[f] = base'[f]
  <2>1. CASE UNCHANGED <<rows, base>>
    BY <2>1 DEF Inv, LogInv, LogsKept
  <2>2. CASE ~UNCHANGED <<rows, base>>
    <3>1. pc[p] \in Attached /\ \E content : Commit(conn[p], content)
      BY <2>2 DEF Quiet, Start, Exists, Check, Header, Inspect, List, Read, Insert, Remove, Work, disk, Attached
    <3> QED
      BY <3>1, CommitKeeps
  <2> QED
    BY <2>1, <2>2
<1>5. SameWindows /\ NoneAttaches
  BY <1>0, <1>2, <1>3, WindowsSame, NoneAttached
<1> QED
  BY <1>1, <1>4, <1>5, QuietKeeps

\* Probe, Create and Open: the file is there, or a new one is made.
LEMMA NamesKeep ==
    ASSUME Inv, NEW p \in Procs, Probe(p) \/ Create(p) \/ Open(p)
    PROVE  LogInv'
<1>0. TypeOK /\ Step(p)
  BY DEF Inv, Step
<1>1. pc[p] # "sidecars" /\ pc'[p] \notin Attached \union {"sidecars"}
  BY <1>0 DEF Probe, Create, Open, End, Goto, TypeOK, Attached
<1>2. SameWindows /\ NoneAttaches /\ UNCHANGED <<wal, kept, rows, base>>
  BY <1>0, <1>1, WindowsSame, NoneAttached DEF Probe, Create, Open
<1>3. CASE path = None /\ \E f \in Files : NewFile(f)
  BY <1>2, <1>3, NewKeeps
<1>4. CASE UNCHANGED <<path, disturbed>>
  BY <1>2, <1>4, QuietKeeps DEF names, Inv, LogInv, LogsKept
<1> QED
  BY <1>3, <1>4 DEF Probe, Create, Open

LEMMA LogInvKeeps ==
    ASSUME Inv, NEW p \in Procs, Start(p) \/ Step(p) \/ Die(p)
    PROVE  LogInv'
<1>0. TypeOK /\ Connected(p)
  BY DEF Inv
<1>1. CASE Quiet(p)
  BY <1>1, QuietStays
<1>2. CASE Probe(p) \/ Create(p) \/ Open(p)
  BY <1>2, NamesKeep
<1>3. CASE Verify(p)
  <2>1. pc'[p] \notin Attached \union {"sidecars"}
    BY <1>0, <1>3 DEF Verify, Healthy, Corrupt, End, Goto, TypeOK, Attached
  <2> QED
    BY <1>3, <2>1, GlanceKeeps DEF Verify
<1>4. CASE Schema(p)
  <2>1. CASE Glance(conn[p]) /\ End(p)
    <3>1. pc'[p] \notin Attached \union {"sidecars"}
      BY <1>0, <2>1 DEF End, Goto, TypeOK, Attached
    <3> QED
      BY <1>4, <2>1, <3>1, GlanceKeeps DEF Schema
  <2>2. CASE Attach(conn[p], conn[p]) /\ Goto(p, "list") /\ UNCHANGED <<base, request, conn, todo, item, stranded>>
    <3>1. PICK f \in Files : f = conn[p]
      BY <1>0, <1>4 DEF Schema, Connected
    <3>2. pc[p] # "sidecars" /\ pc'[p] # "sidecars" /\ conn'[p] = f
      BY <1>0, <1>4, <2>2, <3>1 DEF Schema, Goto, TypeOK
    <3>3. SameWindows
      BY <1>0, <1>4, <3>2, WindowsSame DEF Step
    <3>4. \A q \in Procs : pc'[q] \in Attached => conn'[q] = f \/ (pc[q] \in Attached /\ conn'[q] = conn[q])
      BY <1>0, <1>4, <3>2, OthersStay DEF Step
    <3> QED
      BY <1>4, <2>2, <3>1, <3>3, <3>4, AttachKeeps DEF Schema
  <2> QED
    BY <1>4, <2>1, <2>2 DEF Schema
<1>5. CASE Rename(p)
  <2>1. CASE path' = None /\ path # None
    <3>1. CASE UNCHANGED path
      BY <2>1, <3>1
    <3>2. CASE ~UNCHANGED path
      BY <1>0, <1>5, <2>1, <3>2, RenameKeeps DEF Rename, Goto, history
    <3> QED
      BY <3>1, <3>2
  <2>2. CASE ~(path' = None /\ path # None)
    <3>1. UNCHANGED <<names, disturbed, rows, base>> /\ End(p) /\ pc[p] = "rename"
      BY <1>5, <2>2 DEF Rename, names, history
    <3>2. pc'[p] \notin Attached \union {"sidecars"}
      BY <1>0, <3>1 DEF End, Goto, TypeOK, Attached
    <3>3. SameWindows /\ NoneAttaches
      BY <1>0, <1>5, <3>1, <3>2, WindowsSame, NoneAttached DEF Step
    <3> QED
      BY <3>1, <3>3, QuietKeeps DEF Inv, LogInv, LogsKept
  <2> QED
    BY <2>1, <2>2
<1>6. CASE Sidecars(p)
  <2>1. pc[p] = "sidecars" /\ pc'[p] \notin Attached \union {"sidecars"}
    BY <1>0, <1>6 DEF Sidecars, Goto, TypeOK, Attached
  <2>2. \A q \in Procs \ {p} : pc'[q] = pc[q] /\ conn'[q] = conn[q]
    BY <1>0, <1>6, OthersStay DEF Step
  <2>3. CASE wal' = None /\ kept' = (IF wal = conn[p] THEN kept \union {wal} ELSE kept) /\ UNCHANGED disturbed
    BY <1>6, <2>1, <2>2, <2>3, WindowCloses DEF Sidecars
  <2>4. CASE UNCHANGED <<wal, kept>> /\ Disturb({conn[p]})
    <3>1. conn[p] \in disturbed' /\ disturbed \subseteq disturbed'
      BY <1>0, <2>1, <2>4, NoneIsOther DEF Disturb, Connected, NoneIsNoFile
    <3> QED
      BY <1>6, <2>1, <2>2, <2>4, <3>1, WindowCloses DEF Sidecars
  <2> QED
    BY <1>6, <2>3, <2>4 DEF Sidecars
<1>7. CASE Close(p)
  BY <1>7, CloseKeeps
<1>8. CASE Die(p)
  <2>1. pc'[p] \notin Attached \union {"sidecars"}
    BY <1>0, <1>8 DEF Die, End, Goto, TypeOK, Attached
  <2>2. UNCHANGED <<names, rows, base>>
    BY <1>8 DEF Die, disk
  <2>3. CASE pc[p] = "sidecars"
    <3>1. conn[p] \in disturbed' /\ disturbed \subseteq disturbed'
      BY <1>0, <1>8, <2>3, NoneIsOther DEF Die, Disturb, Connected, NoneIsNoFile
    <3>2. \A q \in Procs \ {p} : pc'[q] = pc[q] /\ conn'[q] = conn[q]
      BY <1>0, <1>8, OthersStay
    <3> QED
      BY <2>1, <2>2, <2>3, <3>1, <3>2, WindowCloses DEF names
  <2>4. CASE pc[p] # "sidecars"
    <3>1. SameWindows /\ NoneAttaches
      BY <1>0, <1>8, <2>1, <2>4, WindowsSame, NoneAttached
    <3> QED
      BY <1>8, <2>2, <2>4, <3>1, QuietKeeps DEF Die, Inv, LogInv, LogsKept
  <2> QED
    BY <2>3, <2>4
<1> QED
  BY <1>1, <1>2, <1>3, <1>4, <1>5, <1>6, <1>7, <1>8 DEF Step, Quiet

-----------------------------------------------------------------------------
\* Rows

LEMMA RowsChange ==
    ASSUME NEW p \in Procs, Start(p) \/ Step(p) \/ Die(p), rows' # rows
    PROVE  Insert(p) \/ Work(p)
BY DEF Start, Step, Die, Exists, Check, Header, Probe, Verify, Rename, Sidecars, Create, Inspect, Open,
       Schema, List, Read, Remove, Close, disk, names

\* Only a clear takes a row, and it says so.
LEMMA StoredStays ==
    ASSUME Inv, NEW p \in Procs, Start(p) \/ Step(p) \/ Die(p), NEW k \in Keys, Stored(k)
    PROVE  Stored(k)'
<1>0. TypeOK
  BY DEF Inv
<1>1. cleared \subseteq cleared'
  BY DEF Start, Step, Die, Exists, Check, Header, Probe, Verify, Rename, Sidecars, Create, Inspect, Open,
         Schema, List, Read, Insert, Remove, Work, Close, history
<1>2. CASE UNCHANGED rows
  BY <1>1, <1>2 DEF Stored
<1>3. CASE Insert(p) \/ Work(p)
  <2> SUFFICES ASSUME NEW f \in Files, k \in rows[f] PROVE k \in cleared' \/ k \in rows'[f]
    BY <1>1 DEF Stored
  <2>1. CASE Insert(p)
    BY <1>0, <2>1 DEF TypeOK, Insert, Commit
  <2>2. CASE Work(p)
    <3>1. CASE f = conn[p]
      BY <1>0, <2>2, <3>1 DEF TypeOK, Work, Commit
    <3>2. CASE f # conn[p]
      BY <1>0, <2>2, <3>2 DEF TypeOK, Work, Commit
    <3> QED
      BY <3>1, <3>2
  <2> QED
    BY <1>3, <2>1, <2>2
<1> QED
  BY <1>2, <1>3, RowsChange

\* What has been inserted is there.
LEMMA InsertStores ==
    ASSUME Inv, NEW p \in Procs, Insert(p), pc'[p] = "remove"
    PROVE  Stored(item[p])' /\ UNCHANGED item
<1>1. TypeOK /\ conn[p] \in Files /\ item[p] \in Keys
  BY DEF Inv, Connected, Insert, Attached
<1>2. rows' = [rows EXCEPT ![conn[p]] = rows[conn[p]] \union {item[p]}] /\ UNCHANGED <<item, conn>>
  BY <1>1 DEF TypeOK, Insert, Commit, Goto
<1>3. item[p] \in rows'[conn[p]]
  BY <1>1, <1>2 DEF TypeOK
<1> QED
  BY <1>1, <1>2, <1>3 DEF Stored

LEMMA ImportedKeeps ==
    ASSUME Inv, NEW p \in Procs, Start(p) \/ Step(p) \/ Die(p)
    PROVE  ImportedIsStored'
<1>0. TypeOK /\ Connected(p)
  BY DEF Inv
<1>1. ASSUME NEW q \in Procs, pc'[q] = "remove" PROVE Stored(item[q])'
  <2>1. CASE q # p
    <3>1. pc[q] = "remove" /\ item'[q] = item[q] /\ item[q] \in Keys /\ Stored(item[q])
      BY <1>0, <1>1, <2>1, OthersStay DEF Inv, ImportedIsStored, Connected
    <3>2. PICK k \in Keys : k = item[q]
      BY <3>1
    <3>3. Stored(k)'
      BY <3>1, <3>2, StoredStays
    <3> QED
      BY <3>1, <3>2, <3>3 DEF Stored
  <2>2. CASE q = p
    <3>1. Insert(p)
      <4>1. ~(Start(p) \/ Exists(p) \/ Check(p) \/ Header(p) \/ Probe(p) \/ Verify(p) \/ Rename(p) \/ Sidecars(p))
        BY <1>0, <1>1, <2>2
        DEF TypeOK, Start, Exists, Check, Header, Probe, Verify, Rename, Sidecars, Healthy, Corrupt, Goto, End
      <4>2. ~(Create(p) \/ Inspect(p) \/ Open(p) \/ Schema(p) \/ List(p) \/ Read(p) \/ Remove(p) \/ Work(p)
              \/ Close(p) \/ Die(p))
        BY <1>0, <1>1, <2>2
        DEF TypeOK, Create, Inspect, Open, Schema, List, Read, Remove, Work, Close, Die, Healthy, Goto, End
      <4> QED
        BY <4>1, <4>2 DEF Step
    <3> QED
      BY <1>1, <2>2, <3>1, InsertStores DEF Stored
  <2> QED
    BY <2>1, <2>2
<1>2. ASSUME NEW k \in Keys, legacy'[k] = "gone" PROVE Stored(k)'
  <2>1. CASE legacy[k] = "gone"
    BY <2>1, StoredStays DEF Inv, ImportedIsStored
  <2>2. CASE legacy[k] # "gone"
    <3>1. Remove(p)
      BY <1>0, <1>2, <2>2
      DEF TypeOK, Start, Step, Die, Exists, Check, Header, Probe, Verify, Rename, Sidecars, Create, Inspect,
          Open, Schema, List, Read, Insert, Work, Close, disk
    <3>2. item[p] = k
      BY <1>0, <1>2, <2>2, <3>1 DEF TypeOK, Connected, Remove
    <3> QED
      BY <3>1, <3>2, StoredStays DEF Inv, ImportedIsStored, Remove
  <2> QED
    BY <2>1, <2>2
<1> QED
  BY <1>1, <1>2 DEF ImportedIsStored

-----------------------------------------------------------------------------
\* Empty files

Makes(p) == pc[p] = "open" \/ (pc[p] = "schema" /\ conn[p] = path)

\* A statement empties no file.
LEMMA AttachMakes ==
    ASSUME TypeOK, NEW f \in Files, NEW log, Attach(f, log)
    PROVE  \A g \in Files : /\ kind'[g] = "empty" => kind[g] = "empty"
                            /\ kind[g] = "empty" /\ kind'[g] # "empty" => g = f /\ kind'[f] = "database"
BY DEF TypeOK, Attach, Kinds

\* But for a process that makes a file, and one that only looks at it, no step names another or
\* empties it.
LEMMA EmptyWasEmpty ==
    ASSUME Inv, NEW p \in Procs, Start(p) \/ Step(p) \/ Die(p), ~Makes(p)',
           path' # None, kind'[path'] = "empty", path' \notin stranded'
    PROVE  path' = path /\ kind[path] = "empty"
<1>0. TypeOK /\ Connected(p)
  BY DEF Inv
<1>1. CASE \/ Start(p) \/ Exists(p) \/ Check(p) \/ Header(p) \/ Sidecars(p) \/ Inspect(p) \/ List(p) \/ Read(p)
           \/ Insert(p) \/ Remove(p) \/ Work(p) \/ Close(p) \/ Die(p)
  BY <1>1 DEF Start, Exists, Check, Header, Sidecars, Inspect, List, Read, Insert, Remove, Work, Close, Die,
              disk, names
<1>2. CASE Rename(p)
  BY <1>2 DEF Rename
<1>3. CASE Probe(p)
  BY <1>0, <1>3 DEF Probe, TypeOK
<1>4. CASE Create(p)
  BY <1>0, <1>4 DEF Create, Makes, Goto, TypeOK
<1>5. CASE Open(p)
  BY <1>0, <1>5 DEF Open, Makes, Goto, TypeOK
<1>6. CASE Verify(p) \/ Schema(p)
  <2>1. conn[p] \in Files /\ path' = path /\ path \in Files
    BY <1>0, <1>6 DEF Verify, Schema, Connected, TypeOK
  <2>2. \E log : Attach(conn[p], log)
    BY <1>6 DEF Verify, Schema, Glance
  <2> QED
    BY <1>0, <2>1, <2>2, AttachMakes
<1> QED
  BY <1>1, <1>2, <1>3, <1>4, <1>5, <1>6 DEF Step

\* A process that stops making the file has given it its tables, fails, or is killed over it.
LEMMA MakerEnds ==
    ASSUME Inv, NEW p \in Procs, Start(p) \/ Step(p) \/ Die(p), Makes(p), ~Makes(p)',
           path # None, kind[path] = "empty", path' = path
    PROVE  kind'[path] # "empty" \/ path \in stranded'
<1>0. TypeOK /\ Connected(p) /\ path \in Files
  BY DEF Inv, TypeOK
<1>1. CASE Die(p)
  BY <1>0, <1>1 DEF Die, Makes, Strand
<1>2. CASE Open(p)
  BY <1>0, <1>2 DEF Open, Makes, Goto, TypeOK, Strand
<1>3. CASE Schema(p)
  BY <1>0, <1>3 DEF Schema, Makes, Strand
<1>4. CASE ~Die(p) /\ ~Open(p) /\ ~Schema(p)
  BY <1>4 DEF Start, Step, Exists, Check, Header, Probe, Verify, Rename, Sidecars, Create, Inspect, List,
              Read, Insert, Remove, Work, Close, Makes
<1> QED
  BY <1>1, <1>2, <1>3, <1>4

LEMMA EmptyHasMakerKeeps ==
    ASSUME Inv, NEW p \in Procs, Start(p) \/ Step(p) \/ Die(p)
    PROVE  EmptyHasMaker'
<1> SUFFICES ASSUME path' # None, kind'[path'] = "empty", path' \notin stranded'
             PROVE  \E q \in Procs : Makes(q)'
  BY DEF EmptyHasMaker, Makes
<1>1. stranded \subseteq stranded'
  BY DEF Start, Step, Die, Exists, Check, Header, Probe, Verify, Rename, Sidecars, Create, Inspect, Open,
         Schema, List, Read, Insert, Remove, Work, Close, history, Strand
<1>2. CASE Makes(p)'
  BY <1>2
<1>3. CASE ~Makes(p)'
  <2>1. path' = path /\ kind[path] = "empty"
    BY <1>3, EmptyWasEmpty
  <2>2. PICK q \in Procs : Makes(q)
    BY <1>1, <2>1 DEF Inv, EmptyHasMaker, Makes
  <2>3. q # p
    BY <1>3, <2>1, <2>2, MakerEnds
  <2>4. Makes(q)'
    BY <2>1, <2>2, <2>3, OthersStay DEF Inv, Makes
  <2> QED
    BY <2>4
<1> QED
  BY <1>2, <1>3

LEMMA UnchangedKeeps == ASSUME Inv, UNCHANGED vars PROVE Inv'
<1>1. TypeOK' /\ (\A p \in Procs : Connected(p)') /\ ImportedIsStored' /\ EmptyHasMaker'
  BY DEF vars, disk, names, local, history, Inv, TypeOK, Connected, ImportedIsStored, Stored, EmptyHasMaker
<1>2. LogInv'
  BY DEF vars, disk, names, local, history, Inv, LogInv, QuarantinesApart, LogBeside, LogsHeld, LogsKept,
         Logged, Window
<1> QED
  BY <1>1, <1>2 DEF Inv

LEMMA StepKeeps == ASSUME Inv, [Next]_vars PROVE Inv'
<1>1. ASSUME NEW p \in Procs, Start(p) \/ Step(p) \/ Die(p) PROVE Inv'
  BY <1>1, TypeKeeps, ConnectedKeeps, LogInvKeeps, ImportedKeeps, EmptyHasMakerKeeps DEF Inv
<1> QED
  BY <1>1, UnchangedKeeps DEF Next

\* A quarantine is disturbed by whoever makes a file in the midst of it; otherwise cache.db-wal
\* lies beside its database or follows it, who has a database open writes into a log that will
\* be found again, and an entry whose JSON file may be deleted has been stored (open_db,
\* check_cache_health, recover_cache, import_legacy_json_file).
THEOREM Invariant == Spec => []Inv
BY InitInv, StepKeeps, PTL DEF Spec

LEMMA WholeFollows == Inv => BackupsAreWhole
BY DEF Inv, LogInv, LogsKept, BackupsAreWhole, OnDisk

LEMMA NothingLostFollows == Inv => NothingLost
<1> SUFFICES ASSUME Inv, NEW k \in Keys, NEW f \in Files, k \in rows[f]
             PROVE  k \in OnDisk(f) \/ f \in disturbed
  BY DEF Inv, ImportedIsStored, Stored, NothingLost
<1> QED
  BY WholeFollows DEF BackupsAreWhole

\* What was committed to a database is in the file or in a log beside it, through kills, closes
\* and quarantines, unless another process came between the two renames of its quarantine, the
\* second failed, or it was first used after it had been renamed (recover_cache).
THEOREM QuarantineKeeps == Spec => []BackupsAreWhole
BY Invariant, WholeFollows, PTL

\* An entry of an older release stays on disk, as its file or as a row, until a clear deletes it,
\* whatever processes are killed or find the file corrupt meanwhile; with the same exceptions
\* (migrate_legacy_json_cache, recover_cache).
THEOREM ImportLosesNothing == Spec => []NothingLost
BY Invariant, NothingLostFollows, PTL

\* An empty database is about to get its tables from some process, unless one was killed or failed
\* over it or a health check made it (open_db, ensure_cache_schema, check_cache_health).
THEOREM EmptyIsMade == Spec => []EmptyHasMaker
BY Invariant, PTL DEF Inv
=============================================================================

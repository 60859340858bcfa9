------------------------------ MODULE CacheFile ------------------------------
(***************************************************************************)
(* The file of the estimate cache (src/src/cache.rs): several processes    *)
(* open it (open_db), which creates it, gives it its schema and imports    *)
(* the JSON files of older releases, and quarantine it when it is corrupt  *)
(* (recover_cache).  What is stored once it is open is EstimateCache's     *)
(* matter; here a command saves one estimate or clears them all.           *)
(*                                                                         *)
(* SQLite (external) keeps what is committed in cache.db-wal until it is   *)
(* copied into the database, at a commit or when the last connection       *)
(* closes; a killed process leaves it there.  A connection keeps the files *)
(* it has open whatever becomes of their names, but it looks for the log   *)
(* by name, at its first statement.                                        *)
(***************************************************************************)
EXTENDS Integers, FiniteSets

CONSTANTS Procs,
          Keys,                   \* estimates, and the JSON files of those an older release left
          MaxFiles, MaxCommands,  \* bounds
          None

Files == 1..MaxFiles

ASSUME CacheFileAssumption ==
    /\ MaxFiles \in Nat \ {0} /\ MaxCommands \in Nat
    /\ None \notin Files \union Keys

\* "empty" is shorter than a header; "damaged" may have another header, or fail its checks
Kinds == {"unused", "empty", "damaged", "database"}

Requests == [command : {"save"}, key : Keys, heal : BOOLEAN]  \* heal: --recover-cache
            \union [command : {"clear"}]
            \union [command : {"recover"}, force : BOOLEAN]
NoRequest == [command |-> "none"]

VARIABLES
    path,      \* the file cache.db names, or None
    kind,
    rows,      \* rows[f]: the estimates f's connections see in it
    base,      \* the same without f's log
    wal,       \* the file whose log cache.db-wal is, or None
    kept,      \* quarantined files whose log has been moved beside them
    legacy,    \* legacy[k]: "entry", "bad" (it does not parse), "rejected" or "gone"
    pc, request,
    conn,      \* the file a process has open, or has just quarantined
    todo,      \* the JSON files it has listed and not yet dealt with
    item,      \* the one it has read
    \* History
    started,   \* commands so far
    cleared,   \* keys whose imported rows a clear has deleted
    stranded,  \* files left empty: by a kill, an error of SQLite or a health check
    disturbed  \* files whose quarantine or whose log was disturbed, as Disturb says

names == <<path, wal, kept>>
disk == <<names, kind, rows, base, legacy>>
local == <<pc, request, conn, todo, item>>
history == <<started, cleared, stranded, disturbed>>
vars == <<disk, local, history>>

Init ==
    /\ path \in {None, 1}
    /\ kind \in [Files -> Kinds]
    /\ \A f \in Files : IF f = path THEN kind[f] \in {"damaged", "database"} ELSE kind[f] = "unused"
    /\ rows = [f \in Files |-> {}] /\ base = rows
    /\ wal = None /\ kept = {}
    /\ legacy \in [Keys -> {"entry", "bad"}]
    /\ pc = [p \in Procs |-> "idle"]
    /\ request = [p \in Procs |-> NoRequest]
    /\ conn = [p \in Procs |-> None]
    /\ todo = [p \in Procs |-> {}]
    /\ item = [p \in Procs |-> None]
    /\ started = 0 /\ cleared = {} /\ stranded = {} /\ disturbed = {}

Goto(p, label) == pc' = [pc EXCEPT ![p] = label]

End(p) ==
    /\ Goto(p, "idle")
    /\ request' = [request EXCEPT ![p] = NoRequest]
    /\ conn' = [conn EXCEPT ![p] = None]
    /\ todo' = [todo EXCEPT ![p] = {}]
    /\ item' = [item EXCEPT ![p] = None]

\* The files that are between the renames of their quarantine
Window == {conn[p] : p \in {q \in Procs : pc[q] = "sidecars"}}

Disturb(fs) == disturbed' = disturbed \union (fs \ {None})
Strand(fs) == stranded' = stranded \union {f \in fs \ {None} : kind[f] = "empty"}

\* What shows in the size and the header of cache.db
Empty == path # None /\ kind[path] = "empty"
Unreadable == path # None /\ kind[path] \in {"empty", "damaged"}

\* A file of size 0 that cache.db now names
NewFile(f) ==
    /\ f = Cardinality({g \in Files : kind[g] # "unused"}) + 1
    /\ path' = f
    /\ kind' = [kind EXCEPT ![f] = "empty"]
    /\ Disturb(IF Window = {} THEN {} ELSE Window \union {f})

\* Processes with a statement behind them hold the log of their file
Attached == {"list", "import", "insert", "remove", "close"}
Users(f) == {p \in Procs : pc[p] \in Attached /\ conn[p] = f}

\* A connection's first statement, which may write the tables of an empty database and leaves log
\* as the one of cache.db-wal.  A database that was renamed since it was opened may take or
\* delete a log that is not its own, and so harm the one that has the name now.
Attach(f, log) ==
    \/ /\ path = f /\ wal' = log
       /\ \/ kind[f] = "empty" /\ kind' \in {kind, [kind EXCEPT ![f] = "database"]}
             /\ UNCHANGED disturbed
          \/ kind[f] # "empty" /\ wal \in {None, f} /\ UNCHANGED <<kind, disturbed>>
          \/ kind[f] # "empty" /\ wal \notin {None, f} /\ Disturb({f})
             /\ kind' \in {kind, [kind EXCEPT ![f] = "damaged"]}
    \/ /\ path # f
       /\ wal' = IF kind[f] = "empty" THEN None ELSE IF wal = None THEN f ELSE wal
       /\ Disturb({f, path} \union Window)
       /\ \/ UNCHANGED kind
          \/ path # None /\ kind[path] = "database" /\ kind' = [kind EXCEPT ![path] = "damaged"]

\* The last connection copies the log into its database, if that still has its name.
CopyLog(f, last) == base' = IF path = f /\ last THEN [base EXCEPT ![f] = rows[f]] ELSE base

\* A connection that only reads, and is closed.
Glance(f) ==
    LET last == Users(f) = {} IN
    /\ Attach(f, IF last THEN None ELSE f)
    /\ kind'[f] \in {kind[f], "damaged"}
    /\ CopyLog(f, last)

\* What is committed goes into the log, and now and then the log into the database.
Commit(f, content) ==
    /\ rows' = [rows EXCEPT ![f] = content]
    /\ \/ UNCHANGED base
       \/ base' = [base EXCEPT ![f] = content]

-----------------------------------------------------------------------------
Saving(p) == request[p].command = "save"

\* run and cmd_cache_recover: --recover-cache checks first, and then forces
Start(p) ==
    /\ pc[p] = "idle" /\ started < MaxCommands
    /\ started' = started + 1
    /\ \E r \in Requests :
           /\ request' = [request EXCEPT ![p] = r]
           /\ Goto(p, CASE r.command = "recover" -> "exists"
                        [] r.command = "save" /\ r.heal -> "check"
                        [] OTHER -> "create")
    /\ UNCHANGED <<disk, conn, todo, item, cleared, stranded, disturbed>>

Forced(p) == Saving(p) \/ request[p].force

\* recover_cache only opens a database that is not there, and checks it unless forced.
Exists(p) ==
    /\ pc[p] = "exists"
    /\ Goto(p, IF path = None THEN "create" ELSE IF Forced(p) THEN "rename" ELSE "check")
    /\ UNCHANGED <<disk, request, conn, todo, item, history>>

\* What follows a verdict: a database that is healthy, or cannot be checked, is left alone.
Corrupt(p) ==
    /\ Goto(p, IF Saving(p) THEN "exists" ELSE "rename")
    /\ conn' = [conn EXCEPT ![p] = None]
    /\ UNCHANGED <<request, todo, item>>
Healthy(p) ==
    \/ /\ Saving(p)
       /\ request' = [request EXCEPT ![p].heal = FALSE]
       /\ conn' = [conn EXCEPT ![p] = None]
       /\ Goto(p, "create")
       /\ UNCHANGED <<todo, item>>
    \/ ~Saving(p) /\ End(p)

\* check_cache_health looks whether there is a database, ...
Check(p) ==
    /\ pc[p] = "check"
    /\ IF path = None THEN Healthy(p) ELSE Goto(p, "header") /\ UNCHANGED <<request, conn, todo, item>>
    /\ UNCHANGED <<disk, history>>

\* ... then at its size and header, if it is still there, ...
Header(p) ==
    /\ pc[p] = "header"
    /\ \/ Unreadable /\ Corrupt(p)
       \/ ~Empty /\ Goto(p, "probe") /\ UNCHANGED <<request, conn, todo, item>>
    /\ UNCHANGED <<disk, history>>

\* ... then Connection::open creates one that is gone and nobody will give tables, ...
Probe(p) ==
    /\ pc[p] = "probe"
    /\ \/ path = None /\ (\E f \in Files : NewFile(f)) /\ stranded' = stranded \union {path'}
       \/ path # None /\ UNCHANGED <<path, kind, disturbed, stranded>>
    /\ conn' = [conn EXCEPT ![p] = path']
    /\ Goto(p, "verify")
    /\ UNCHANGED <<wal, kept, rows, base, legacy, request, todo, item, started, cleared>>

\* ... and quick_check finds an empty one healthy.
Verify(p) ==
    /\ pc[p] = "verify"
    /\ Glance(conn[p])
    /\ \/ kind'[conn[p]] # "damaged" /\ Healthy(p)
       \/ kind'[conn[p]] = "damaged" /\ Corrupt(p)
    /\ UNCHANGED <<path, kept, rows, legacy, started, cleared, stranded>>

\* recover_cache: cache.db is renamed to its backup, whichever file it is by now; that it cannot
\* be is an error.
Rename(p) ==
    /\ pc[p] = "rename"
    /\ \/ /\ path # None /\ path' = None
          /\ conn' = [conn EXCEPT ![p] = path]
          /\ Goto(p, "sidecars")
          /\ UNCHANGED <<request, todo, item>>
       \/ UNCHANGED path /\ End(p)
    /\ UNCHANGED <<wal, kept, kind, rows, base, legacy, history>>

\* Mutant: the sidecars are looked for beside the backup, where they are not.
SidecarsOfBackup(p) ==
    /\ pc[p] = "sidecars"
    /\ conn' = [conn EXCEPT ![p] = None]
    /\ Goto(p, "create")
    /\ UNCHANGED <<disk, request, todo, item, history>>

\* Then cache.db-wal, whose ever it is by now; an error is ignored.
Sidecars(p) ==
    /\ pc[p] = "sidecars"
    /\ \/ /\ wal' = None
          /\ kept' = IF wal = conn[p] THEN kept \union {wal} ELSE kept
          /\ UNCHANGED disturbed
       \/ /\ wal # None /\ UNCHANGED <<wal, kept>>
          /\ Disturb({conn[p]})
    /\ conn' = [conn EXCEPT ![p] = None]
    /\ Goto(p, "create")
    /\ UNCHANGED <<path, kind, rows, base, legacy, request, todo, item, started, cleared, stranded>>

-----------------------------------------------------------------------------
\* create_user_only_db_file
Create(p) ==
    /\ pc[p] = "create"
    /\ \/ path = None /\ (\E f \in Files : NewFile(f)) /\ Goto(p, "open")
       \/ path # None /\ Goto(p, "inspect") /\ UNCHANGED <<path, kind, disturbed>>
    /\ UNCHANGED <<wal, kept, rows, base, legacy, request, conn, todo, item, started, cleared, stranded>>

\* open_db: a file that was there must have a header
Inspect(p) ==
    /\ pc[p] = "inspect"
    /\ \/ Unreadable /\ End(p)
       \/ ~Empty /\ Goto(p, "open") /\ UNCHANGED <<request, conn, todo, item>>
    /\ UNCHANGED <<disk, history>>

\* Connection::open creates a file that is gone again.  It may fail.
Open(p) ==
    /\ pc[p] = "open"
    /\ \/ /\ \/ path = None /\ \E f \in Files : NewFile(f)
             \/ path # None /\ UNCHANGED <<path, kind, disturbed>>
          /\ conn' = [conn EXCEPT ![p] = path']
          /\ Goto(p, "schema")
          /\ UNCHANGED <<request, todo, item, stranded>>
       \/ End(p) /\ Strand({path}) /\ UNCHANGED <<path, kind, disturbed>>
    /\ UNCHANGED <<wal, kept, rows, base, legacy, started, cleared>>

\* Mutant: the tables are not created in a file that was there.
SchemaOnlyIfNew(p) ==
    /\ pc[p] = "schema"
    /\ \/ /\ kind[conn[p]] = "database"
          /\ Attach(conn[p], conn[p])
          /\ Goto(p, "list")
          /\ UNCHANGED <<base, request, conn, todo, item>>
       \/ kind[conn[p]] # "database" /\ End(p) /\ UNCHANGED <<wal, base, kind, disturbed>>
    /\ UNCHANGED <<path, kept, rows, legacy, started, cleared, stranded>>

\* ensure_cache_schema.  It may fail: the file is corrupt or has been renamed, the disk is full,
\* another process is busy with it; an empty file then stays empty.
Schema(p) ==
    /\ pc[p] = "schema"
    /\ \/ /\ Attach(conn[p], conn[p])
          /\ kind'[conn[p]] \in {"database", "damaged"}
          /\ Goto(p, "list")
          /\ UNCHANGED <<base, request, conn, todo, item, stranded>>
       \/ Glance(conn[p]) /\ End(p) /\ Strand({conn[p]})
    /\ UNCHANGED <<path, kept, rows, legacy, started, cleared>>

-----------------------------------------------------------------------------
\* migrate_legacy_json_cache: the *.json files of the directory
List(p) ==
    /\ pc[p] = "list"
    /\ todo' = [todo EXCEPT ![p] = {k \in Keys : legacy[k] \in {"entry", "bad"}}]
    /\ Goto(p, "import")
    /\ UNCHANGED <<disk, request, conn, item, history>>

Done(p, k) == todo' = [todo EXCEPT ![p] = @ \ {k}]

\* Mutant: the file is removed before its row is inserted.
ReadRemoves(p) ==
    /\ pc[p] = "import"
    /\ \E k \in todo[p] :
          \/ /\ legacy[k] = "entry"
             /\ item' = [item EXCEPT ![p] = k]
             /\ legacy' = [legacy EXCEPT ![k] = "gone"]
             /\ Goto(p, "insert")
             /\ UNCHANGED todo
          \/ /\ legacy' = [legacy EXCEPT ![k] = IF @ = "bad" THEN "rejected" ELSE @]
             /\ Done(p, k)
             /\ UNCHANGED <<pc, item>>
    /\ UNCHANGED <<names, kind, rows, base, request, conn, history>>

\* import_legacy_json_file: a file is read, and renamed if it does not parse; one that is gone,
\* or that cannot be read, is left
Read(p) ==
    /\ pc[p] = "import"
    /\ \E k \in todo[p] :
          \/ /\ legacy[k] = "entry"
             /\ item' = [item EXCEPT ![p] = k]
             /\ Goto(p, "insert")
             /\ UNCHANGED <<legacy, todo>>
          \/ /\ legacy' = [legacy EXCEPT ![k] = IF @ = "bad" THEN "rejected" ELSE @]
             /\ Done(p, k)
             /\ UNCHANGED <<pc, item>>
    /\ UNCHANGED <<names, kind, rows, base, request, conn, history>>

\* INSERT OR IGNORE leaves a row that is there; an error keeps the file
Insert(p) ==
    /\ pc[p] = "insert"
    /\ \/ /\ Commit(conn[p], rows[conn[p]] \union {item[p]})
          /\ Goto(p, "remove")
          /\ UNCHANGED <<todo, item>>
       \/ /\ Done(p, item[p])
          /\ item' = [item EXCEPT ![p] = None]
          /\ Goto(p, "import")
          /\ UNCHANGED <<rows, base>>
    /\ UNCHANGED <<names, kind, legacy, request, conn, history>>

\* The file is removed, if it can be.
Remove(p) ==
    /\ pc[p] = "remove"
    /\ legacy' \in {legacy, [legacy EXCEPT ![item[p]] = "gone"]}
    /\ Done(p, item[p])
    /\ item' = [item EXCEPT ![p] = None]
    /\ Goto(p, "import")
    /\ UNCHANGED <<names, kind, rows, base, request, conn, history>>

-----------------------------------------------------------------------------
\* The database is open: the command saves or clears, which may fail.
Work(p) ==
    /\ pc[p] = "import" /\ todo[p] = {}
    /\ \/ /\ Saving(p) /\ ~request[p].heal
          /\ Commit(conn[p], rows[conn[p]] \union {request[p].key})
          /\ UNCHANGED cleared
       \/ /\ request[p].command = "clear"
          /\ Commit(conn[p], {})
          /\ cleared' = cleared \union rows[conn[p]]
       \/ UNCHANGED <<rows, base, cleared>>
    /\ Goto(p, "close")
    /\ UNCHANGED <<names, kind, legacy, request, conn, todo, item, started, stranded, disturbed>>

\* A save that has only recovered the database opens it again.
Close(p) ==
    LET f == conn[p] last == Users(f) = {p} IN
    /\ pc[p] = "close"
    /\ CopyLog(f, last)
    /\ wal' = IF path = f /\ last THEN None ELSE wal
    /\ IF Saving(p) /\ request[p].heal THEN Healthy(p) ELSE End(p)
    /\ UNCHANGED <<path, kept, kind, rows, legacy, history>>

\* The process is killed; a log stays where it is.
Die(p) ==
    /\ pc[p] # "idle"
    /\ IF pc[p] \in {"open", "schema"} THEN Strand({path, conn[p]}) ELSE UNCHANGED stranded
    /\ IF pc[p] = "sidecars" THEN Disturb({conn[p]}) ELSE UNCHANGED disturbed
    /\ End(p)
    /\ UNCHANGED <<disk, started, cleared>>

-----------------------------------------------------------------------------
Step(p) ==
    \/ Exists(p) \/ Check(p) \/ Header(p) \/ Probe(p) \/ Verify(p) \/ Rename(p) \/ Sidecars(p)
    \/ Create(p) \/ Inspect(p) \/ Open(p) \/ Schema(p)
    \/ List(p) \/ Read(p) \/ Insert(p) \/ Remove(p) \/ Work(p) \/ Close(p)

Next == \E p \in Procs : Start(p) \/ Step(p) \/ Die(p)

Spec == Init /\ [][Next]_vars

-----------------------------------------------------------------------------
\* The log of f lies where SQLite looks for it, or is about to be moved there.
Logged(f) == f \in kept \/ (wal = f /\ path \in {f, None} /\ (path = None => f \in Window))

OnDisk(f) == IF Logged(f) THEN rows[f] ELSE base[f]

\* "... imports every file into `cache.db` (existing rows win), deletes the imported files"
\* (docs/concepts/caching.md): an entry of an older release stays on disk, as its file or as a
\* row of the database or of a backup, until a clear deletes it; but for databases whose
\* quarantine or log was disturbed between two of its steps, or that were opened before they
\* were renamed and used after.
NothingLost ==
    \A k \in Keys : legacy[k] = "gone" =>
        \/ k \in cleared
        \/ \E f \in Files : k \in OnDisk(f) \/ (f \in disturbed /\ k \in rows[f])

\* "... so the corrupt file is preserved for operator inspection" (recover_cache): whatever is
\* killed, closed or renamed, all that was committed to a database is on disk, in the file or in
\* a log beside it, again but for disturbed ones.
BackupsAreWhole == \A f \in Files \ disturbed : OnDisk(f) = rows[f]

\* A database that is not there yet will be: while its file is empty some process is about to
\* give it its tables, whoever renamed or created files meanwhile, unless one was killed or
\* failed over it, or a health check made it.
EmptyHasMaker ==
    path # None /\ kind[path] = "empty" /\ path \notin stranded
        => \E p \in Procs : pc[p] = "open" \/ (pc[p] = "schema" /\ conn[p] = path)
=============================================================================

---------------------------- MODULE SnapshotStore ----------------------------
(***************************************************************************)
(* The snapshot directory of one network                                   *)
(* (src/src/config_snapshot/store.rs) under the commands that change it:   *)
(* config snapshot, with --skip-unchanged and --retain, and config         *)
(* snapshot prune.  Commands are processes of their own: they interleave   *)
(* at every file operation, and any of them may die between two.           *)
(*                                                                         *)
(* A file name is a number: the instant it encodes, or, for a name that    *)
(* encodes none, a number beyond every instant.  Numeric order is then the *)
(* order of list_snapshots_in.                                             *)
(***************************************************************************)
EXTENDS Integers, FiniteSets, FiniteSetsExt

CONSTANTS Collectors,  \* processes that run config snapshot
          Pruners,     \* processes that run config snapshot prune
          Configs,     \* the network's config settings, as same_configuration tells them apart
          MaxTime,     \* bound: captures in one behaviour
          Manual,      \* names without a timestamp, for hand-written files
          Skips,       \* values of --skip-unchanged
          Retains,     \* values of --retain, None when absent
          Ages,        \* values of --older-than-days
          None

Stamps == 1..MaxTime
Names == Stamps \union Manual
Processes == Collectors \union Pruners

ASSUME SnapshotAssumption ==
    /\ MaxTime \in Nat
    /\ Manual \subseteq Nat /\ \A n \in Manual : n > MaxTime
    /\ Skips \subseteq BOOLEAN
    /\ Retains \subseteq Nat \union {None} /\ Ages \subseteq Nat
    /\ Collectors \intersect Pruners = {}

\* What a file holds: a snapshot, or what was written of one before its writer died.  The
\* protocol version is FALSE when getLatestLedger failed.
Snapshots == [at : Stamps, config : Configs, protocol : BOOLEAN]
Torn == [at |-> 0, config |-> None, protocol |-> FALSE]

\* same_configuration: the capture time does not count, the protocol version does
SameConfiguration(s, t) == s.config = t.config /\ s.protocol = t.protocol

VARIABLES files,  \* files[n], for each file n of the directory
          live,   \* the configuration the network has now
          now,    \* captures so far; also the clock, in days
          proc    \* proc[p]: the locals of the command p runs

vars == <<files, live, now, proc>>

Present == DOMAIN files
Stamped == Present \intersect Stamps
Intact == {n \in Present : files[n] # Torn}

Idle == [pc |-> "idle", snapshot |-> Torn, retain |-> None, days |-> None, doomed |-> {}]

Init ==
    /\ files = [n \in {} |-> Torn]
    /\ live \in Configs
    /\ now = 0
    /\ proc = [p \in Processes |-> Idle]

Put(n, content) == [m \in Present \union {n} |-> IF m = n THEN content ELSE files[m]]

-----------------------------------------------------------------------------
\* The world outside: the network changes its configuration, the user copies a snapshot
\* under a name of its own, a command dies or fails to write.
Reconfigure ==
    /\ live' \in Configs \ {live}
    /\ UNCHANGED <<files, now, proc>>

Copy(n) ==
    /\ n \notin Present
    /\ \E source \in Intact : files' = Put(n, files[source])
    /\ UNCHANGED <<live, now, proc>>

Die(p) ==
    /\ proc[p].pc # "idle"
    /\ proc' = [proc EXCEPT ![p] = Idle]
    /\ UNCHANGED <<files, live, now>>

-----------------------------------------------------------------------------
\* cmd_config_snapshot: fetch first; a failure to learn the protocol version is only logged
Fetch(p) ==
    /\ proc[p].pc = "idle"
    /\ now < MaxTime
    /\ now' = now + 1
    /\ \E skip \in Skips, retain \in Retains, protocol \in BOOLEAN :
          proc' = [proc EXCEPT ![p].pc = IF skip THEN "compare" ELSE "create",
                               ![p].snapshot = [at |-> now + 1, config |-> live,
                                                protocol |-> protocol],
                               ![p].retain = retain]
    /\ UNCHANGED <<files, live>>

\* Mutant: the last listed file is taken for the latest.
LatestListed == IF Present = {} THEN 0 ELSE Max(Present)

\* select_latest_snapshot, 0 for none: the newest name with a timestamp if there is one
Latest == CASE Stamped # {} -> Max(Stamped)
            [] Stamped = {} /\ Present # {} -> Max(Present)
            [] OTHER -> 0

AfterSave(p) == IF proc[p].retain = None THEN Idle ELSE [proc[p] EXCEPT !.pc = "list"]

\* save_snapshot_if_changed: an unreadable latest ends the command, an equal one skips
\* the save but not the retention
Compare(p) ==
    /\ proc[p].pc = "compare"
    /\ proc' = [proc EXCEPT ![p] =
          CASE Latest = 0 -> [@ EXCEPT !.pc = "create"]
            [] Latest # 0 /\ files[Latest] = Torn -> Idle
            [] /\ Latest # 0 /\ files[Latest] # Torn
               /\ SameConfiguration(files[Latest], proc[p].snapshot) -> AfterSave(p)
            [] OTHER -> [@ EXCEPT !.pc = "create"]]
    /\ UNCHANGED <<files, live, now>>

\* write_snapshot_file, the open: the file is created, or emptied
Create(p) ==
    /\ proc[p].pc = "create"
    /\ files' = Put(proc[p].snapshot.at, Torn)
    /\ proc' = [proc EXCEPT ![p].pc = "write"]
    /\ UNCHANGED <<live, now>>

\* write_snapshot_file, the write, through the handle: a file removed meanwhile stays
\* removed.  The retention policy runs after the save.
Write(p) ==
    /\ proc[p].pc = "write"
    /\ files' = [n \in Present |->
                    IF n = proc[p].snapshot.at THEN proc[p].snapshot ELSE files[n]]
    /\ proc' = [proc EXCEPT ![p] = AfterSave(p)]
    /\ UNCHANGED <<live, now>>

-----------------------------------------------------------------------------
\* cmd_config_snapshot_prune
Prune(p) ==
    /\ proc[p].pc = "idle"
    /\ \E days \in Ages : proc' = [proc EXCEPT ![p].pc = "list", ![p].days = days]
    /\ UNCHANGED <<files, live, now>>

\* The count rule: all but the last max(retain, 1) names
OverCount(n, retain) ==
    /\ retain # None
    /\ Cardinality({m \in Present : m >= n}) > (IF retain = 0 THEN 1 ELSE retain)

\* The age rule, by the timestamp in the file
TooOld(n, days) == days # None /\ now - files[n].at > days

\* Mutant: the newest name is as good as any other to the age rule.
DoomedWithNewest(p) ==
    {n \in Present : OverCount(n, proc[p].retain) \/ TooOld(n, proc[p].days)}

\* prune_snapshots_in, pass 1: every name but the last is put to both rules
Doomed(p) ==
    {n \in Present : /\ \E m \in Present : m > n
                     /\ OverCount(n, proc[p].retain) \/ TooOld(n, proc[p].days)}

\* The age rule reads every file but the last, and one it cannot read ends the run
Unreadable(p) ==
    proc[p].days # None /\ \E n, m \in Present : m > n /\ files[n] = Torn

List(p) ==
    /\ proc[p].pc = "list"
    /\ proc' = [proc EXCEPT ![p] = IF Unreadable(p) \/ Doomed(p) = {} THEN Idle
                                   ELSE [@ EXCEPT !.pc = "remove", !.doomed = Doomed(p)]]
    /\ UNCHANGED <<files, live, now>>

\* Pass 2, one file, oldest first; a file already gone ends the run
Remove(p) ==
    /\ proc[p].pc = "remove"
    /\ LET n == Min(proc[p].doomed)
       IN /\ files' = [m \in Present \ {n} |-> files[m]]
          /\ proc' = [proc EXCEPT ![p] = IF n \notin Present \/ proc[p].doomed = {n} THEN Idle
                                         ELSE [@ EXCEPT !.doomed = proc[p].doomed \ {n}]]
    /\ UNCHANGED <<live, now>>

-----------------------------------------------------------------------------
Next ==
    \/ Reconfigure
    \/ \E n \in Manual : Copy(n)
    \/ \E p \in Collectors : Fetch(p) \/ Compare(p) \/ Create(p) \/ Write(p)
    \/ \E p \in Pruners : Prune(p)
    \/ \E p \in Processes : List(p) \/ Remove(p) \/ Die(p)

Spec == Init /\ [][Next]_vars

-----------------------------------------------------------------------------
\* Two neighbouring captures of one collector that skips unchanged configurations differ
\* ("a scheduled collector can run as often as it likes without filling the snapshots
\* directory with identical files"): retention never removes the file between two equal
\* ones, a crash never leaves one to be repeated, and hand-written files never hide the
\* newest capture.
Neighbours(m, n) == m < n /\ ~\E k \in Stamped : m < k /\ k < n

NoIdenticalNeighbours ==
    \A m, n \in Stamped \intersect Intact :
        Neighbours(m, n) => ~SameConfiguration(files[m], files[n])

\* "The newest snapshot is never deleted: not by --retain 0, and not by an age rule however
\* stale the file is" (prune_snapshots): only a hand-written file makes retention remove it.
NewestKeptUnlessManual ==
    [][Stamped # {} /\ Max(Stamped) \notin Present' => Present \intersect Manual # {}]_vars

\* Retention takes the last readable snapshot only when a torn file is listed last: the
\* age rule never reads that one, and the count rule reads none.
ReadableLostOnlyBehindTorn ==
    [][Intact # {} /\ Present' \subseteq Present /\ Intact \intersect Present' = {}
           => files[Max(Present)] = Torn]_vars
=============================================================================

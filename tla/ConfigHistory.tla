----------------------------- MODULE ConfigHistory ----------------------------
(***************************************************************************)
(* The commands that read the stored snapshots of a network, or exchange   *)
(* them: config diff, live and against the previous, config snapshot       *)
(* diff, history and last-changed, validate, list, delete, export and      *)
(* import (src/src/main.rs, src/src/config_snapshot/{store,history}.rs).   *)
(* Each is one step; SnapshotStore has the steps of the commands that      *)
(* save, one file operation at a time.                                     *)
(*                                                                         *)
(* A file name is a number, as in SnapshotStore: the instant it encodes,   *)
(* or one beyond every instant for a name that encodes none.               *)
(***************************************************************************)
EXTENDS ConfigDiff, Ordered, Sequences, SequencesExt, FiniteSetsExt

CONSTANTS Values,       \* Values[f]: what field f may be
          MaxTime,      \* bound: instants at which something is saved
          MaxChanges,   \* bound: changes of the network's configuration
          MaxForeign,   \* bound: files and bundle entries of other origin
          Manual,       \* names without an instant
          DiffFlags,    \* flags of config diff
          Ages,         \* ages that --older-than asks for, on the scale of the clock
          Offsets,      \* UTC offsets that other releases write, on that scale
          LedgerLimit   \* the largest ledger a snapshot can hold

Stamps == 0..MaxTime
Names == Stamps \union Manual

SectionFields(s) == {f \in Fields : SectionOf[f] = s}
AnyValue == UNION {Values[f] : f \in Fields}

\* A field's path is that of its section with its own name, and None is the value of no section.
ASSUME ConfigHistoryAssumption ==
    /\ IsFiniteSet(Sections) /\ Fields \intersect Sections = {}
    /\ \A s \in Sections : None \notin [SectionFields(s) -> AnyValue]
    /\ MaxTime \in Nat /\ MaxChanges \in Nat /\ MaxForeign \in Nat
    /\ Manual \subseteq Nat /\ \A n \in Manual : n > MaxTime
    /\ DOMAIN Values = Fields
    /\ Ages \subseteq Nat /\ Offsets \subseteq Int
    /\ LedgerLimit \in Nat

Rpc == INSTANCE ConfigFetch WITH Settings <- SetToSeq(Sections), MaxLedger <- LedgerLimit

VARIABLES
    net,       \* the network's configuration: its values, and when it was last modified
    files,     \* the snapshots on disk, by name
    now,       \* the clock
    foreign,   \* files, entries and odd replies so far
    bundle,    \* a bundle that is exported and not yet imported
    out        \* what the last command said, where a property needs it

history_vars == <<net, files, now, foreign, bundle, out>>

\* What a snapshot file holds: kind "bad" is a newer schema version or no snapshot at all,
\* "unreadable" not even text, "zero" a ledger of zero.  A capture is stamped in UTC.
Snapshot(at, config, extra, kind) ==
    [at |-> at, offset |-> 0, present |-> config.present, value |-> config.value, modified |-> config.modified,
     extra |-> extra, kind |-> kind]

Silent == [cmd |-> "none", failed |-> FALSE, base |-> None, flags |-> None, changes |-> {}, exit |-> 0,
           saved |-> FALSE, last |-> <<>>]
Failure(cmd) == [Silent EXCEPT !.cmd = cmd, !.failed = TRUE, !.exit = 1]

HistoryInit ==
    /\ \E v \in [Fields -> AnyValue] :
          /\ \A f \in Fields : v[f] = Min(Values[f])
          /\ net = [value |-> v, modified |-> 1]
    /\ files = <<>> /\ now = 1 /\ foreign = 0 /\ bundle = <<>>
    /\ out = Silent

-----------------------------------------------------------------------------
Put(name, snapshot) == [m \in DOMAIN files \union {name} |-> IF m = name THEN snapshot ELSE files[m]]

\* ensure_supported_snapshot_schema
Supported(snapshot) == snapshot.kind \notin {"bad", "unreadable"}

\* parse_snapshot_at and parse_snapshot_payload_at
Loads(name) == Supported(files[name])

\* list_snapshots_in: oldest first, and what has no instant at the end
Listed == InOrder(DOMAIN files)

\* Mutant: a name without an instant counts as newer than any with one.
LatestListed == Max(DOMAIN files)

\* select_latest_snapshot
Latest == LET stamped == DOMAIN files \intersect Stamps
          IN IF stamped # {} THEN Max(stamped) ELSE Max(DOMAIN files)

\* What the node may reply to a fetch, with the count of what is foreign: that no ledger at all
\* is named is legal, but odd.
Replies ==
    LET values == [s \in Sections |-> [f \in SectionFields(s) |-> net.value[f]]]
        asked == SetToSeq(Sections)
    IN ((Rpc!Sound(values, asked, net.modified, now) \union Rpc!Sound(values, asked, net.modified, None)
         \union Rpc!Faulty(values, asked, net.modified, now)) \X {foreign})
       \union IF foreign < MaxForeign THEN Rpc!Sound(values, asked, None, None) \X {foreign + 1} ELSE {}

\* fetch_config_snapshot: what a reply amounts to, or None
Captured(reply) ==
    LET fetched == Rpc!FetchAll(reply)
        built == Rpc!SnapshotOf(fetched)
    IN IF built = None THEN None
       ELSE [present |-> {s \in Sections : built[s] # None},
             value |-> [f \in Fields |-> built[SectionOf[f]][f]],
             modified |-> Rpc!NewestModified(fetched),
             kind |-> IF Rpc!Ledger(reply, fetched) = 0 THEN "zero" ELSE "good"]

Captures == {<<Captured(r[1]), r[2]>> : r \in Replies}

\* The instant at which a command saves is a new one.
Save(saved, config) ==
    IF saved
    THEN /\ now < MaxTime /\ now' = now + 1
         /\ files' = Put(now, Snapshot(now, config, None, config.kind))
    ELSE UNCHANGED <<now, files>>

-----------------------------------------------------------------------------
\* A vote changes the configuration, or writes it again as it was.
Reconfigure ==
    /\ net.modified <= MaxChanges
    /\ \/ \E f \in Fields, v \in AnyValue :
             v \in Values[f] /\ net' = [net EXCEPT !.value[f] = v, !.modified = @ + 1]
       \/ net' = [net EXCEPT !.modified = @ + 1]
    /\ out' = Silent
    /\ UNCHANGED <<files, now, foreign, bundle>>

\* What may be odd about a file of another origin
Ordinary == [kind |-> "good", extra |-> None, present |-> Sections, offset |-> 0]
Oddities ==
    {[Ordinary EXCEPT !.kind = k] : k \in {"good", "bad", "unreadable"}}
    \union {[Ordinary EXCEPT !.extra = "extra"]}
    \union {[Ordinary EXCEPT !.present = sent] : sent \in SUBSET Sections}
    \union {[Ordinary EXCEPT !.offset = o] : o \in Offsets}

\* Bound: an instant is written in one way, so that a name stands for it.
WrittenOneWay(at, offset) ==
    \A s \in ToSet(bundle) \union {files[n] : n \in DOMAIN files} : s.at = at => s.offset = offset

\* Another release, or the user, puts a file among the snapshots; the last instant stands for the
\* future.
Foreign ==
    /\ foreign < MaxForeign
    /\ \E name \in (1..now-1 \union Manual \union {MaxTime}) \ DOMAIN files, odd \in Oddities :
          LET at == IF name \in Manual THEN now - 1 ELSE name
              config == [present |-> odd.present, value |-> net.value, modified |-> net.modified]
          IN /\ WrittenOneWay(at, odd.offset)
             /\ files' = Put(name, [Snapshot(at, config, odd.extra, odd.kind) EXCEPT !.offset = odd.offset])
    /\ foreign' = foreign + 1
    /\ out' = Silent
    /\ UNCHANGED <<net, now, bundle>>

\* config snapshot
Take ==
    /\ \E capture \in Captures : Save(capture[1] # None, capture[1]) /\ foreign' = capture[2]
    /\ out' = Silent
    /\ UNCHANGED <<net, bundle>>

-----------------------------------------------------------------------------
Shown(changes, flags) == IF flags.pricing_only THEN PricingOnly(changes) ELSE changes

\* load_baseline_payload: --against, or the latest
LiveBase(flags) ==
    IF flags.against # None THEN flags.against ELSE IF files = <<>> THEN None ELSE Latest

\* cmd_config_diff: an upgrade is a difference in pricing, and its snapshot is saved if it can be
LiveDiff ==
    /\ \E flags \in DiffFlags, capture \in Captures :
          LET base == LiveBase(flags)
              config == capture[1] IN
          /\ foreign' = capture[2]
          /\ IF config = None \/ base \notin DOMAIN files \/ (base \in DOMAIN files /\ ~Loads(base))
             THEN out' = Failure("diff") /\ UNCHANGED <<now, files>>
             ELSE LET changes == Shown(DiffPayloads(files[base], UnknownFields(files[base]), config, NoUnknownFields), flags)
               IN \E saved \in {HasPricing(changes), FALSE} :
                     /\ Save(saved, config)
                     /\ out' = [Silent EXCEPT !.cmd = "diff", !.base = base, !.flags = flags, !.changes = changes,
                                              !.exit = ExitCode(changes, flags), !.saved = saved]
    /\ UNCHANGED <<net, bundle>>

\* Mutant: the first two are taken.
FirstTwo == SubSeq(Listed, 1, Min({2, Len(Listed)}))

\* load_last_two_snapshot_payloads
LastTwo == LET n == Len(Listed) IN SubSeq(Listed, Max({1, n - 1}), n)

\* cmd_config_diff_against_previous
PreviousDiff ==
    /\ \E flags \in DiffFlags :
          IF Len(LastTwo) < 2 \/ \E i \in DOMAIN LastTwo : ~Loads(LastTwo[i])
          THEN out' = Failure("previous")
          ELSE LET old == files[LastTwo[1]]
                   new == files[LastTwo[2]]
                   changes == Shown(DiffPayloads(old, UnknownFields(old), new, UnknownFields(new)), flags)
               IN out' = [Silent EXCEPT !.cmd = "previous", !.base = LastTwo[1], !.flags = flags,
                                        !.changes = changes, !.exit = ExitCode(changes, flags)]
    /\ UNCHANGED <<net, files, now, foreign, bundle>>

\* cmd_config_snapshot_diff: two files, without what the build does not know
CompareFiles ==
    /\ \E a, b \in DOMAIN files :
          IF ~(Loads(a) /\ Loads(b)) THEN out' = Failure("none")
          ELSE out' = [Silent EXCEPT !.exit = IF HasPricing(DiffSnapshots(files[a], files[b])) THEN 1 ELSE 0]
    /\ UNCHANGED <<net, files, now, foreign, bundle>>

-----------------------------------------------------------------------------
\* The text of a timestamp: the time at the offset, then the offset, where + comes before -
TextBefore(a, b) ==
    LET local(s) == s.at + s.offset IN
    \/ local(a) < local(b)
    \/ /\ local(a) = local(b)
       /\ \/ a.offset >= 0 /\ (b.offset < 0 \/ a.offset < b.offset)
          \/ a.offset < 0 /\ b.offset < a.offset

SameText(a, b) == a.at = b.at /\ a.offset = b.offset

\* The history's order: by the timestamp's text, and as listed where two have the same
Before(m, n) ==
    TextBefore(files[m], files[n]) \/ (SameText(files[m], files[n]) /\ m < n)

Successive(m, n) == Before(m, n) /\ ~\E k \in DOMAIN files : Before(m, k) /\ Before(k, n)

\* build_change_log_from_snapshots: what changed from one snapshot to the next, with the instant
\* of the latter
Changed(m, n) ==
    {[change |-> c, at |-> files[n].at, offset |-> files[n].offset, name |-> n] : c \in DiffSnapshots(files[m], files[n])}

ChangeLog == UNION {IF Successive(m, n) THEN Changed(m, n) ELSE {} : m, n \in DOMAIN files}

ChangesOf(log, path) == {entry \in log : entry.change.path = path}

\* Mutant: the first change of each path is kept.
LastChangedFirst(log) ==
    [p \in {entry.change.path : entry \in log} |->
        CHOOSE entry \in ChangesOf(log, p) : \A other \in ChangesOf(log, p) : entry.at <= other.at]

\* last_changed_from_log: the greatest timestamp, as text; of several that are alike, the first
LastChanged(log) ==
    [p \in {entry.change.path : entry \in log} |->
        CHOOSE entry \in ChangesOf(log, p) :
            \A other \in ChangesOf(log, p) :
                TextBefore(other, entry) \/ (SameText(other, entry) /\ entry.name <= other.name)]

\* load_change_log: one file that does not load fails them all
History ==
    /\ out' = IF \E n \in DOMAIN files : ~Loads(n) THEN Failure("history")
              ELSE [Silent EXCEPT !.cmd = "history", !.last = LastChanged(ChangeLog)]
    /\ UNCHANGED <<net, files, now, foreign, bundle>>

\* validate_single_snapshot
Valid(name) == files[name].kind = "good"

\* cmd_config_validate
Validate ==
    /\ out' = [Silent EXCEPT !.exit = IF \E n \in DOMAIN files : ~Valid(n) THEN 1 ELSE 0]
    /\ UNCHANGED <<net, files, now, foreign, bundle>>

\* list_snapshots_metadata and cmd_config_snapshot_list
List ==
    /\ out' = IF \E n \in DOMAIN files : ~Loads(n) THEN Failure("none") ELSE Silent
    /\ UNCHANGED <<net, files, now, foreign, bundle>>

-----------------------------------------------------------------------------
Without(names) == [n \in DOMAIN files \ names |-> files[n]]

\* delete_one_snapshot.  --dry-run, and an answer other than yes, delete nothing here and below.
Delete ==
    /\ \E n \in DOMAIN files : files' = Without({n})
    /\ out' = Silent
    /\ UNCHANGED <<net, now, foreign, bundle>>

\* is_older_than, by the instant in the file
IsOlderThan(name, days) == files[name].at < now - days

\* delete_snapshots_older_than: what does not load is passed over
DeleteOlder ==
    /\ \E days \in Ages :
          files' = Without({n \in DOMAIN files : Loads(n) /\ IsOlderThan(n, days)})
    /\ out' = Silent
    /\ UNCHANGED <<net, now, foreign, bundle>>

-----------------------------------------------------------------------------
\* export_snapshots, in no order: what does not load is left out, and so are unknown fields; what
\* cannot be read fails it
Export ==
    /\ DOMAIN files # {} /\ bundle = <<>>
    /\ IF \E n \in DOMAIN files : files[n].kind = "unreadable"
       THEN bundle' = bundle /\ out' = Failure("none")
       ELSE /\ bundle' = LET names == InOrder({n \in DOMAIN files : Loads(n)})
                         IN [i \in DOMAIN names |-> [files[names[i]] EXCEPT !.extra = None]]
            /\ out' = Silent
    /\ UNCHANGED <<net, files, now, foreign>>

\* A bundle of a newer release has an entry this one does not load.
ForeignEntry ==
    /\ foreign < MaxForeign /\ bundle # <<>>
    /\ foreign' = foreign + 1
    /\ \E i \in 1..Len(bundle) : bundle' = [bundle EXCEPT ![i].kind = "bad"]
    /\ out' = Silent
    /\ UNCHANGED <<net, files, now>>

\* Mutant: the import ends at the first entry that is on disk.
ImportableUntilExisting ==
    LET ends == {i \in DOMAIN bundle : ~Supported(bundle[i]) \/ bundle[i].at \in DOMAIN files}
    IN IF ends = {} THEN bundle ELSE SubSeq(bundle, 1, Min(ends) - 1)

\* The entries before the first that is of a newer schema
Importable ==
    LET newer == {i \in DOMAIN bundle : ~Supported(bundle[i])}
    IN IF newer = {} THEN bundle ELSE SubSeq(bundle, 1, Min(newer) - 1)

\* import_snapshots: an entry of a newer schema ends it; a file that is there stays.  The
\* bundle is put away.
Import ==
    /\ bundle # <<>>
    /\ files' = LET entries == Importable
                    first(at) == CHOOSE i \in DOMAIN entries :
                                    entries[i].at = at /\ \A j \in 1..i-1 : entries[j].at # at
                IN [n \in DOMAIN files \union {entries[i].at : i \in DOMAIN entries} |->
                      IF n \in DOMAIN files THEN files[n] ELSE entries[first(n)]]
    /\ out' = [Silent EXCEPT !.cmd = "import", !.failed = \E i \in DOMAIN bundle : ~Supported(bundle[i])]
    /\ bundle' = <<>>
    /\ UNCHANGED <<net, now, foreign>>

-----------------------------------------------------------------------------
HistoryNext ==
    \/ Reconfigure \/ Foreign \/ Take
    \/ LiveDiff \/ PreviousDiff \/ CompareFiles
    \/ History \/ Validate \/ List
    \/ Delete \/ DeleteOlder
    \/ Export \/ ForeignEntry \/ Import

HistorySpec == HistoryInit /\ [][HistoryNext]_history_vars

-----------------------------------------------------------------------------
Same(a, b, f) ==
    LET s == SectionOf[f] IN
    (s \in a.present) = (s \in b.present) /\ (s \in a.present => a.value[f] = b.value[f])

\* No two snapshots are of one instant, and the texts of their timestamps are in its order: so
\* it is unless a release has written another UTC offset.
Chronological ==
    \A m, n \in DOMAIN files :
        m # n => files[m].at # files[n].at /\ (Before(m, n) <=> files[m].at < files[n].at)

\* Since the change that last-changed shows for a setting, or for its section, no snapshot has
\* had another value for it, and a setting that it does not show never had two, as long as the
\* timestamps read as text are in the order of the instants; and a history that fails is
\* explained by config validate (load_change_log, last_changed_from_log).
LastChangedIsRight ==
    /\ out.cmd = "history" /\ ~out.failed /\ Chronological =>
         \A f \in Fields :
            LET since == Max({0} \union {out.last[p].at : p \in {f, SectionOf[f]} \intersect DOMAIN out.last})
                later == {n \in DOMAIN files : files[n].at >= since}
            IN /\ \A m, n \in later : Same(files[m], files[n], f)
               /\ f \in DOMAIN out.last /\ out.last[f].at = since =>
                     \A n \in later : files[n].value[f] = out.last[f].change.new
    /\ out.cmd = "history" /\ out.failed => \E n \in DOMAIN files : ~Valid(n)

\* A difference in pricing is reported once: its snapshot is saved, and the next config diff finds
\* nothing but fields it does not know.  Of these there is always settings_last_modified, so that
\* it exits with 1 and saves one more (cmd_config_diff, upgrade_detected); and a file stamped in
\* the future stays the baseline.
AlarmClears ==
    [][out.cmd = "diff" /\ out.saved /\ out'.cmd = "diff" /\ ~out'.failed
         /\ out'.flags.against = None /\ net' = net
       => \/ \A c \in out'.changes : c.kind = "unknown"
          \/ \E n \in DOMAIN files \intersect Stamps : n >= now]_history_vars

\* After config diff has saved the snapshot it reported, --against-previous reports the same
\* ("Output and exit-code behavior deliberately match the live mode"), but for
\* settings_last_modified, and unless a file whose name has no instant is listed as the newest.
PreviousAgreesWithLive ==
    [][out.cmd = "diff" /\ out.saved /\ out.flags.against = None /\ out'.cmd = "previous" /\ out'.flags = out.flags
       => \/ /\ ~out'.failed
             /\ LET known(changes) == {c \in changes : c.path # "settings_last_modified"}
                IN known(out'.changes) = known(out.changes)
          \/ \E n \in DOMAIN files : n >= now]_history_vars

\* After an import that has not failed every entry of the bundle is on disk under its own instant,
\* and what was on disk is as it was; of two entries of one instant one is lost, and a file of that
\* name which does not load stays in an entry's way (export_snapshots, import_snapshots).
BundleRestores ==
    [][out'.cmd = "import" /\ ~out'.failed =>
         /\ \A n \in DOMAIN files : n \in DOMAIN files' /\ files'[n] = files[n]
         /\ \A i \in DOMAIN bundle :
               LET at == bundle[i].at IN
               /\ at \in DOMAIN files'
               /\ at \notin DOMAIN files /\ (\A j \in DOMAIN bundle : bundle[j].at = at => j = i) =>
                     \A f \in Fields : Same(files'[at], bundle[i], f)]_history_vars
=============================================================================

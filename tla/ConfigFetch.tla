------------------------------ MODULE ConfigFetch -----------------------------
(***************************************************************************)
(* How the network's configuration is read (src/src/rpc/config.rs): the    *)
(* settings in one getLedgerEntries call, or one setting in a call of its  *)
(* own, and what a snapshot, the fee rates and the limits make of the      *)
(* entries.                                                                *)
(*                                                                         *)
(* An entry has the key it answers, the data its XDR decodes to, None if   *)
(* it does not, and the ledger it was last modified in, None if the node   *)
(* does not say; data knows which setting it is of.  A reply is None when  *)
(* the call fails.                                                         *)
(***************************************************************************)
EXTENDS Integers, Sequences, FiniteSetsExt, SequencesExt

CONSTANTS Settings,    \* ALL_CONFIG_SETTING_IDS, in their order
          MaxLedger,   \* the largest ledger a snapshot can hold, of 32 bits in the code
          None

ASSUME ConfigFetchAssumption ==
    /\ IsInjective(Settings) /\ Settings \in Seq(ToSet(Settings))
    /\ MaxLedger \in Nat

Ids == ToSet(Settings)

-----------------------------------------------------------------------------
Modified(entry) == IF entry.modified = None THEN 0 ELSE entry.modified

\* Mutant: the entries are taken in the order the settings were asked in.
FetchByPosition(reply) ==
    IF reply = None THEN None
    ELSE IF Len(reply.entries) < Len(Settings) THEN None
    ELSE [s \in Ids |->
            LET entry == reply.entries[Min({i \in DOMAIN Settings : Settings[i] = s})]
            IN [data |-> entry.data, modified |-> Modified(entry)]]

\* NetworkConfig::fetch and fetch_all_config_settings: entries are found by their keys, of two
\* with one key the last; a setting without an entry fails the fetch
FetchAll(reply) ==
    IF reply = None THEN None
    ELSE LET of(s) == {i \in DOMAIN reply.entries : reply.entries[i].key = s}
         IN IF \E s \in Ids : of(s) = {} THEN None
            ELSE [s \in Ids |-> [data |-> reply.entries[Max(of(s))].data,
                                 modified |-> Modified(reply.entries[Max(of(s))])]]

\* fetch_config_setting takes the first entry, whatever its key
FetchOne(reply) ==
    IF reply = None THEN None ELSE IF reply.entries = <<>> THEN None ELSE Head(reply.entries).data

\* NetworkConfig::get and decode_config_entry_xdr: what was fetched of a setting, or None
ValueOf(fetched, s) ==
    IF fetched = None THEN None
    ELSE IF fetched[s].data = None THEN None
    ELSE IF fetched[s].data.of # s THEN None ELSE fetched[s].data.value

-----------------------------------------------------------------------------
\* begin_snapshot
EmptySnapshot == [s \in Ids |-> None]

\* apply_config_entry goes by what the data is of
Apply(snapshot, data) == [snapshot EXCEPT ![data.of] = data.value]

\* fetch_config_snapshot applies the entries in turn, so that of two of one setting the last
\* stays; one that does not decode fails it
SnapshotOf(fetched) ==
    IF fetched = None THEN None
    ELSE IF \E s \in Ids : fetched[s].data = None THEN None
    ELSE [t \in Ids |-> LET of == {i \in DOMAIN Settings : fetched[Settings[i]].data.of = t}
                        IN IF of = {} THEN None ELSE fetched[Settings[Max(of)]].data.value]

\* newest_last_modified
NewestModified(fetched) == Max({fetched[s].modified : s \in Ids})

\* snapshot_ledger, of a fetch that succeeded
Ledger(reply, fetched) ==
    IF reply.latest = None THEN NewestModified(fetched)
    ELSE IF reply.latest > MaxLedger THEN NewestModified(fetched) ELSE reply.latest

-----------------------------------------------------------------------------
\* What a node answers that has the values of `config`: the entries in the order they were asked
\* for or in another.  It may leave one out or garble one, or the call may fail.
Entry(config, s, modified) == [key |-> s, data |-> [of |-> s, value |-> config[s]], modified |-> modified]

Sound(config, asked, modified, latest) ==
    LET entries == [i \in DOMAIN asked |-> Entry(config, asked[i], modified)]
    IN {[entries |-> entries, latest |-> latest], [entries |-> Reverse(entries), latest |-> latest]}

Faulty(config, asked, modified, latest) ==
    {None}
    \union {[r EXCEPT !.entries = RemoveAt(@, i)] :
              r \in Sound(config, asked, modified, latest), i \in DOMAIN asked}
    \union {[r EXCEPT !.entries[i].data = None] :
              r \in Sound(config, asked, modified, latest), i \in DOMAIN asked}
=============================================================================

----------------------------- MODULE ConfigWatch -----------------------------
(***************************************************************************)
(* The watch command (src/src/main.rs, cmd_watch and what it calls) with   *)
(* its WebSocket client (src/src/rpc/ws.rs), against a network that closes *)
(* ledgers and changes its configuration, a node that drops connections,   *)
(* fails requests and replays notifications, a disk that fails, and a user *)
(* who sends a stop signal at any moment.                                  *)
(*                                                                         *)
(* The command runs without --threshold-percent and alone on its snapshot  *)
(* directory, so the newest file is the last one it wrote.                 *)
(***************************************************************************)
EXTENDS Integers, Sequences, SequencesExt

CONSTANTS Configs,
          MaxLedger,    \* bound: the ledger number stays there, ledgers keep closing
          MaxInbox,     \* bound: notifications on their way
          MaxAttempts,  \* WS_MAX_ATTEMPTS
          DiskFails,    \* whether a save may fail
          NoConfig

Ledgers == 0..MaxLedger

ASSUME ConfigWatchAssumption ==
    /\ MaxLedger \in Nat \ {0} /\ MaxInbox \in Nat \ {0} /\ MaxAttempts \in Nat \ {0}
    /\ DiskFails \in BOOLEAN
    /\ NoConfig \notin Configs

\* The newest snapshot file: none, torn, or a configuration and the ledger it records.
NoFile == [config |-> NoConfig, ledger |-> 0]
Torn == [config |-> NoConfig, ledger |-> 1]
Snapshots == [config : Configs, ledger : Ledgers]

VARIABLES
    \* The network and the node
    live, ledger,
    link,         \* the connection: "none", "up", "subscribed" or "broken"
    inbox,        \* ledger numbers of the notifications on their way; 0 when unreadable
    \* The command
    pc,
    attempt,      \* connect_ws_endpoint's attempt
    first,        \* no poll of this loop has stored a snapshot yet
    startLedger,
    fetched,      \* the snapshot a poll holds between its fetch and its save
    latest,       \* what load_latest_snapshot finds
    handler,      \* tokio's signal handlers have replaced the default ones
    \* History
    shown,        \* the configuration the user was last told of
    lastSeen,     \* the highest ledger a notification has named
    mishap,       \* a save has failed, or the WebSocket was given up after a baseline
    signalled     \* a stop signal has been sent

node == <<live, ledger>>
wire == <<link, inbox>>
history == <<shown, lastSeen, mishap, signalled>>
vars == <<node, wire, pc, attempt, first, startLedger, fetched, latest, handler, history>>

Init ==
    /\ live \in Configs
    /\ ledger = 1
    /\ link = "none" /\ inbox = <<>>
    /\ pc = "connect"
    /\ attempt = 1
    /\ first = TRUE
    /\ startLedger = 0
    /\ fetched = NoFile
    /\ latest \in {NoFile} \union [config : Configs, ledger : {0}]
    /\ handler = FALSE
    /\ shown = NoConfig
    /\ lastSeen = 0
    /\ mishap = FALSE
    /\ signalled = FALSE

Ended == pc \in {"exited", "killed"}
\* Where a poll is in flight, and for which loop
Fetching == {"baseline", "recheck", "poll"}
Saving == {"save baseline", "save recheck", "save poll"}
Polling == {"poll", "save poll", "sleep"}

-----------------------------------------------------------------------------
\* The network and the node
CloseLedger ==
    /\ ledger' = IF ledger < MaxLedger THEN ledger + 1 ELSE ledger
    /\ live' \in Configs
    /\ IF link = "subscribed" /\ Len(inbox) < MaxInbox
       THEN \E number \in {0, ledger'} : inbox' = Append(inbox, number)
       ELSE UNCHANGED inbox
    /\ UNCHANGED <<link, pc, attempt, first, startLedger, fetched, latest, handler,
                   history>>

\* A close frame, an error or a malformed message: it is read after what came before it
Drop ==
    /\ link \in {"up", "subscribed"}
    /\ link' = "broken"
    /\ UNCHANGED <<node, inbox, pc, attempt, first, startLedger, fetched, latest,
                   handler, history>>

-----------------------------------------------------------------------------
\* poll_watch begins: a loop of its own, with a baseline of its own
FallBack ==
    /\ pc' = "poll"
    /\ first' = TRUE
    /\ link' = "none" /\ inbox' = <<>>
    /\ handler' = TRUE
    /\ mishap' = (mishap \/ shown # NoConfig)

\* resolve_ws_endpoint finds no endpoint to connect to
NoEndpoint ==
    /\ pc = "connect" /\ attempt = 1
    /\ FallBack
    /\ UNCHANGED <<node, attempt, startLedger, fetched, latest, shown, lastSeen, signalled>>

\* connect_ws_endpoint: the first connection is followed by the baseline, others resubscribe
Connect ==
    /\ pc \in {"connect", "reconnect"}
    /\ link' = "up" /\ inbox' = <<>>
    /\ attempt' = 1
    /\ pc' = IF pc = "connect" THEN "baseline" ELSE "subscribe"
    /\ UNCHANGED <<node, first, startLedger, fetched, latest, handler, history>>

\* One attempt fails; the last one gives the WebSocket up
ConnectFails ==
    /\ pc \in {"connect", "reconnect"}
    /\ \/ /\ attempt >= MaxAttempts
          /\ FallBack
          /\ UNCHANGED attempt
       \/ /\ attempt < MaxAttempts
          /\ attempt' = attempt + 1
          /\ UNCHANGED <<pc, first, wire, handler, mishap>>
    /\ UNCHANGED <<node, startLedger, fetched, latest, shown, lastSeen, signalled>>

\* subscribe_ledger_closes: the node acknowledges, and may replay what closed since
Subscribe ==
    /\ pc = "subscribe" /\ link = "up"
    /\ link' = "subscribed"
    /\ \E replay \in {<<>>} \union {<<n>> : n \in startLedger..ledger} : inbox' = replay
    /\ pc' = "listen"
    /\ handler' = TRUE
    /\ UNCHANGED <<node, attempt, first, startLedger, fetched, latest, history>>

\* Mutant: a failed subscription is ignored.
SubscribeIgnoresError ==
    /\ pc = "subscribe"
    /\ pc' = "listen"
    /\ handler' = TRUE
    /\ UNCHANGED <<node, wire, attempt, first, startLedger, fetched, latest, history>>

\* The node refuses the subscription, or is gone before it answers
SubscribeFails ==
    /\ pc = "subscribe"
    /\ FallBack
    /\ UNCHANGED <<node, attempt, startLedger, fetched, latest, shown, lastSeen, signalled>>

\* Mutant: a notification resumes the subscription at whatever ledger it names.
ReceiveTakesLedger ==
    /\ pc = "listen" /\ inbox # <<>>
    /\ inbox' = Tail(inbox)
    /\ startLedger' = Head(inbox)
    /\ lastSeen' = IF Head(inbox) > lastSeen THEN Head(inbox) ELSE lastSeen
    /\ pc' = "recheck"
    /\ UNCHANGED <<node, link, attempt, first, fetched, latest, handler, shown, mishap,
                   signalled>>

\* next_ledger_close returns a notification
Receive ==
    /\ pc = "listen" /\ inbox # <<>>
    /\ inbox' = Tail(inbox)
    /\ startLedger' = IF Head(inbox) > startLedger THEN Head(inbox) ELSE startLedger
    /\ lastSeen' = IF Head(inbox) > lastSeen THEN Head(inbox) ELSE lastSeen
    /\ pc' = "recheck"
    /\ UNCHANGED <<node, link, attempt, first, fetched, latest, handler, shown, mishap,
                   signalled>>

\* next_ledger_close returns the end of the connection
Disconnected ==
    /\ pc = "listen" /\ inbox = <<>> /\ link = "broken"
    /\ link' = "none"
    /\ attempt' = 1
    /\ pc' = "reconnect"
    /\ UNCHANGED <<node, inbox, first, startLedger, fetched, latest, handler, history>>

-----------------------------------------------------------------------------
\* watch_poll_once, in each of its loops
Loop == CASE pc \in {"baseline", "save baseline"} -> "baseline"
          [] pc \in {"recheck", "save recheck"} -> "recheck"
          [] OTHER -> "poll"

\* Where a loop goes after its poll; the baseline sets the ledger to subscribe from
AfterPoll ==
    /\ pc' = CASE Loop = "baseline" -> "subscribe"
               [] Loop = "recheck" -> "listen"
               [] OTHER -> "sleep"
    /\ startLedger' = CASE Loop # "baseline" -> startLedger
                        [] Loop = "baseline" /\ latest'.config = NoConfig -> 0
                        [] OTHER -> latest'.ledger

\* fetch_config_snapshot is answered; the rest of the poll awaits nothing
Fetch ==
    /\ pc \in Fetching
    /\ fetched' = [config |-> live, ledger |-> ledger]
    /\ pc' = CASE Loop = "baseline" -> "save baseline"
               [] Loop = "recheck" -> "save recheck"
               [] OTHER -> "save poll"
    /\ UNCHANGED <<node, wire, attempt, first, startLedger, latest, handler, history>>

FetchFails ==
    /\ pc \in Fetching
    /\ UNCHANGED latest
    /\ AfterPoll
    /\ UNCHANGED <<node, wire, attempt, first, fetched, handler, history>>

\* The diff is printed: not by a loop's first poll, nor without a readable snapshot
Reports == ~first /\ latest.config # NoConfig /\ latest.config # fetched.config

\* save_snapshot, whose error is dropped: a file that cannot be opened stays as it was,
\* one that cannot be written is torn
SaveSnapshot ==
    \/ latest' = fetched /\ UNCHANGED mishap
    \/ DiskFails /\ latest' \in {latest, Torn} /\ mishap' = TRUE

\* Mutant: the snapshot is stored before the newest one is read, and never differs.
CompareAfterSave ==
    /\ pc \in Saving
    /\ SaveSnapshot
    /\ shown' = IF shown = NoConfig THEN fetched.config ELSE shown
    /\ first' = FALSE
    /\ fetched' = NoFile
    /\ AfterPoll
    /\ UNCHANGED <<node, wire, attempt, handler, lastSeen, signalled>>

\* Diff with the newest snapshot, print, save.  The command's first poll is the baseline
\* its user knows of.
Compare ==
    /\ pc \in Saving
    /\ SaveSnapshot
    /\ shown' = IF shown = NoConfig \/ Reports THEN fetched.config ELSE shown
    /\ first' = FALSE
    /\ fetched' = NoFile
    /\ AfterPoll
    /\ UNCHANGED <<node, wire, attempt, handler, lastSeen, signalled>>

\* poll_watch's interval is over
Wake ==
    /\ pc = "sleep"
    /\ pc' = "poll"
    /\ UNCHANGED <<node, wire, attempt, first, startLedger, fetched, latest, handler,
                   history>>

\* A stop signal: it is heeded where shutdown_signal is awaited; elsewhere it kills the
\* command before the handlers are there, even while it writes a file, and is lost after.
\* One that arrives while poll_watch saves is heeded when that is done, in its sleep.
Signal ==
    /\ ~Ended /\ pc # "save poll"
    /\ signalled' = TRUE
    /\ pc' = CASE pc \in Polling \union {"listen"} -> "exited"
               [] pc \notin Polling \union {"listen"} /\ ~handler -> "killed"
               [] OTHER -> pc
    /\ latest' \in {latest} \union IF pc = "save baseline" THEN {Torn} ELSE {}
    /\ UNCHANGED <<node, wire, attempt, first, startLedger, fetched, handler, shown,
                   lastSeen, mishap>>

-----------------------------------------------------------------------------
Proceed ==
    \/ NoEndpoint \/ Connect \/ ConnectFails
    \/ Subscribe \/ SubscribeFails \/ Receive \/ Disconnected
    \/ Fetch \/ FetchFails \/ Compare \/ Wake

Next == CloseLedger \/ Drop \/ Proceed \/ Signal

Spec == Init /\ [][Next]_vars

\* The command takes its next step; a request or a save that is tried again and again
\* succeeds at last; a connection lasts, at last, until a ledger closes on it.
FairSpec ==
    /\ Spec
    /\ WF_vars(Proceed)
    /\ SF_vars(Fetch)
    /\ SF_vars(Compare /\ latest' = fetched)
    /\ SF_vars(CloseLedger /\ inbox' # inbox)

-----------------------------------------------------------------------------
\* "... prints the diff (only when something changed)" (docs/commands/watch.md): the newest
\* snapshot on disk is the configuration the user was last told of, so that no change
\* disappears between two polls.  It is not so always; the next property says when.
ToldOfEveryChange == shown # NoConfig /\ latest.config # NoConfig => latest.config = shown

\* Only a failed save, or giving up the WebSocket, can hide a change from the user:
\* reconnections, failed fetches, replayed notifications and stop signals cannot.
HiddenOnlyByMishap == ~mishap => ToldOfEveryChange

\* "resubscribes from the last ledger seen": every subscription starts at or after every
\* ledger a notification has named, unreadable and replayed ones included.
ResumesFromLastSeen == pc \in {"reconnect", "subscribe", "listen"} => startLedger >= lastSeen

\* A configuration that lasts is stored at last, over either transport.
LastingChangeStored ==
    \A c \in Configs : <>[](live = c) => []<>(Ended \/ latest.config = c)
=============================================================================

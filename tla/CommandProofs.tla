---------------------------- MODULE CommandProofs ----------------------------
(***************************************************************************)
(* The commands that run on their own or on many things at once: config    *)
(* watch, estimate --watch, estimate --all with batch and manifest, and    *)
(* the config commands on the stored snapshots. Each has its inductive     *)
(* invariant here, and the properties that follow from it. They share what *)
(* is proved of ordered sets of numbers and of sequences.                  *)
(***************************************************************************)
EXTENDS ConfigWatch, EstimateWatch, EstimateBatch, ConfigHistory, OrderedProofs

-----------------------------------------------------------------------------
(***************************************************************************)
(* What config watch promises, for any configurations, any number of       *)
(* ledgers, notifications and attempts, with a disk that fails or not.     *)
(* Both properties rest on where the command is: nothing has been          *)
(* announced, and nothing shown, before the baseline; and a loop that      *)
(* takes over after it counts as a mishap.                                 *)
(***************************************************************************)

\* Until the baseline is stored
Beginning == {"connect", "baseline", "save baseline"}

\* The WebSocket loop
OverWebSocket == {"reconnect", "subscribe", "listen", "recheck", "save recheck"}

TypeOK ==
    /\ live \in Configs /\ ledger \in Ledgers
    /\ inbox \in Seq(Ledgers)
    /\ pc \in Beginning \union OverWebSocket \union Polling \union {"exited", "killed"}
    /\ first \in BOOLEAN /\ mishap \in BOOLEAN
    /\ startLedger \in Nat /\ lastSeen \in Nat
    /\ latest.ledger \in Nat /\ fetched.ledger \in Nat
    /\ pc \in Saving => fetched.config \in Configs

\* No notification comes before the baseline, and none is forgotten after it.
SeenIsResumed ==
    /\ pc \in Beginning => lastSeen = 0
    /\ pc \in OverWebSocket => startLedger >= lastSeen

\* Without a mishap the newest snapshot is what the user was last told of, from the first on.
ShownIsStored ==
    /\ pc \in Beginning => shown = NoConfig
    /\ ~mishap /\ shown # NoConfig => ~first /\ latest.config = shown

Inv == TypeOK /\ SeenIsResumed /\ ShownIsStored

-----------------------------------------------------------------------------
LEMMA FileLedgers == NoFile.ledger \in Nat /\ Torn.ledger \in Nat
BY DEF NoFile, Torn

LEMMA EmptyInbox == <<>> \in Seq(Ledgers)
OBVIOUS

LEMMA InitInv == Init => Inv
<1> SUFFICES ASSUME Init PROVE Inv
  OBVIOUS
<1>1. latest.ledger \in Nat /\ fetched.ledger \in Nat
  BY FileLedgers DEF Init
<1>2. ledger \in Ledgers
  BY ConfigWatchAssumption DEF Init, Ledgers
<1>3. TypeOK
  BY <1>1, <1>2, EmptyInbox DEF Init, TypeOK, Beginning, Saving
<1> QED
  BY <1>3 DEF Init, Inv, SeenIsResumed, ShownIsStored, OverWebSocket

\* Only the node moves.
LEMMA CloseLedgerKeeps == Inv /\ CloseLedger => Inv'
<1> SUFFICES ASSUME Inv, CloseLedger PROVE Inv'
  OBVIOUS
<1>1. ledger' \in Ledgers
  BY ConfigWatchAssumption DEF CloseLedger, Inv, TypeOK, Ledgers
<1>2. 0 \in Ledgers
  BY ConfigWatchAssumption DEF Ledgers
<1>3. inbox \in Seq(Ledgers)
  BY DEF Inv, TypeOK
<1>4. inbox' \in Seq(Ledgers)
  <2>1. \/ \E number \in {0, ledger'} : inbox' = Append(inbox, number)
        \/ inbox' = inbox
    BY DEF CloseLedger
  <2>2. \A number \in Ledgers : Append(inbox, number) \in Seq(Ledgers)
    BY <1>3
  <2> QED
    BY <1>1, <1>2, <1>3, <2>1, <2>2
<1> QED
  BY <1>1, <1>4 DEF CloseLedger, history, Inv, TypeOK, SeenIsResumed, ShownIsStored

LEMMA DropKeeps == Inv /\ Drop => Inv'
BY DEF Drop, node, history, Inv, TypeOK, SeenIsResumed, ShownIsStored

\* Giving the WebSocket up
LEMMA FallBackKeeps ==
    ASSUME Inv, FallBack,
           UNCHANGED <<node, startLedger, fetched, latest, shown, lastSeen>>
    PROVE  Inv'
<1>1. pc' = "poll" /\ inbox' = <<>> /\ first' = TRUE
  BY DEF FallBack
<1>2. mishap' \in BOOLEAN /\ (~mishap' => ~mishap /\ shown = NoConfig)
  BY DEF FallBack, Inv, TypeOK
<1>3. TypeOK'
  BY <1>1, <1>2, EmptyInbox DEF node, Inv, TypeOK, Polling, Saving
<1>4. SeenIsResumed' /\ ShownIsStored'
  BY <1>1, <1>2 DEF SeenIsResumed, ShownIsStored, Beginning, OverWebSocket
<1> QED
  BY <1>3, <1>4 DEF Inv

LEMMA ConnectKeeps == Inv /\ (Connect \/ NoEndpoint \/ ConnectFails) => Inv'
<1> SUFFICES ASSUME Inv, Connect \/ NoEndpoint \/ ConnectFails PROVE Inv'
  OBVIOUS
<1>1. CASE Connect
  <2>1. /\ \/ pc = "connect" /\ pc' = "baseline"
           \/ pc = "reconnect" /\ pc' = "subscribe"
        /\ inbox' = <<>> /\ UNCHANGED <<node, first, startLedger, fetched, latest, history>>
    BY <1>1 DEF Connect
  <2>2. TypeOK'
    BY <2>1, EmptyInbox DEF node, history, Inv, TypeOK, Beginning, OverWebSocket, Saving
  <2>3. SeenIsResumed' /\ ShownIsStored'
    BY <2>1 DEF history, Inv, SeenIsResumed, ShownIsStored, Beginning, OverWebSocket
  <2> QED
    BY <2>2, <2>3 DEF Inv
<1>2. CASE NoEndpoint
  BY <1>2, FallBackKeeps DEF NoEndpoint
<1>3. CASE ConnectFails
  <2>1. CASE attempt >= MaxAttempts /\ FallBack
    BY <1>3, <2>1, FallBackKeeps DEF ConnectFails
  <2>2. CASE UNCHANGED <<pc, first, wire, handler, mishap>>
    BY <1>3, <2>2 DEF ConnectFails, node, wire, Inv, TypeOK, SeenIsResumed, ShownIsStored
  <2> QED
    BY <1>3, <2>1, <2>2 DEF ConnectFails
<1> QED
  BY <1>1, <1>2, <1>3

LEMMA SubscribeKeeps == Inv /\ (Subscribe \/ SubscribeFails) => Inv'
<1> SUFFICES ASSUME Inv, Subscribe \/ SubscribeFails PROVE Inv'
  OBVIOUS
<1>1. CASE Subscribe
  <2>1. inbox' \in Seq(Ledgers)
    <3>1. PICK replay \in {<<>>} \union {<<n>> : n \in startLedger..ledger} : inbox' = replay
      BY <1>1 DEF Subscribe
    <3>2. CASE replay = <<>>
      BY <3>1, <3>2
    <3>3. ASSUME NEW n \in startLedger..ledger, replay = <<n>> PROVE inbox' \in Seq(Ledgers)
      <4>1. n \in Ledgers
        BY ConfigWatchAssumption DEF Inv, TypeOK, Ledgers
      <4> QED
        BY <3>1, <3>3, <4>1
    <3> QED
      BY <3>1, <3>2, <3>3
  <2> QED
    BY <1>1, <2>1 DEF Subscribe, node, history, Inv, TypeOK, SeenIsResumed, ShownIsStored,
                      Beginning, OverWebSocket, Saving
<1>2. CASE SubscribeFails
  BY <1>2, FallBackKeeps DEF SubscribeFails
<1> QED
  BY <1>1, <1>2

\* A notification raises both the ledger to resume from and the last one seen.
LEMMA ReceiveKeeps == Inv /\ Receive => Inv'
<1> SUFFICES ASSUME Inv, Receive PROVE Inv'
  OBVIOUS
<1>1. Head(inbox) \in Nat /\ inbox' \in Seq(Ledgers)
  BY ConfigWatchAssumption DEF Receive, Inv, TypeOK, Ledgers
<1> QED
  BY <1>1 DEF Receive, node, Inv, TypeOK, SeenIsResumed, ShownIsStored, Beginning, OverWebSocket,
              Saving

LEMMA DisconnectedKeeps == Inv /\ Disconnected => Inv'
BY DEF Disconnected, node, history, Inv, TypeOK, SeenIsResumed, ShownIsStored, Beginning,
       OverWebSocket, Saving

-----------------------------------------------------------------------------
\* Where a poll may lead, the ledger to resume from is not forgotten.
PollMoves ==
    \/ pc \in Beginning /\ pc' = "subscribe" /\ startLedger' \in Nat
    \/ pc \in OverWebSocket /\ pc' = "listen" /\ startLedger' = startLedger
    \/ pc' = "sleep" /\ startLedger' = startLedger

LEMMA PollResumes == ASSUME Inv, PollMoves, lastSeen' = lastSeen PROVE SeenIsResumed'
<1>1. CASE pc \in Beginning /\ pc' = "subscribe" /\ startLedger' \in Nat
  <2>1. lastSeen' = 0 /\ pc' \notin Beginning
    BY <1>1 DEF Inv, SeenIsResumed, Beginning
  <2> QED
    BY <1>1, <2>1 DEF SeenIsResumed
<1>2. CASE pc \in OverWebSocket /\ pc' = "listen" /\ startLedger' = startLedger
  BY <1>2 DEF Inv, SeenIsResumed, Beginning
<1>3. CASE pc' = "sleep"
  BY <1>3 DEF SeenIsResumed, Beginning, OverWebSocket
<1> QED
  BY <1>1, <1>2, <1>3 DEF PollMoves

LEMMA FetchKeeps == Inv /\ Fetch => Inv'
<1> SUFFICES ASSUME Inv, Fetch PROVE Inv'
  OBVIOUS
<1>1. fetched'.config \in Configs /\ fetched'.ledger \in Nat
  <2>1. fetched' = [config |-> live, ledger |-> ledger]
    BY DEF Fetch
  <2> QED
    BY <2>1, ConfigWatchAssumption DEF Inv, TypeOK, Ledgers
<1>2. \/ pc = "baseline" /\ pc' = "save baseline"
      \/ pc = "recheck" /\ pc' = "save recheck"
      \/ pc = "poll" /\ pc' = "save poll"
  BY DEF Fetch, Fetching, Loop
<1> QED
  BY <1>1, <1>2 DEF Fetch, node, wire, history, Inv, TypeOK, SeenIsResumed, ShownIsStored, Beginning,
                    OverWebSocket, Polling

LEMMA AfterPollMoves ==
    ASSUME Inv, pc \in Fetching \union Saving, AfterPoll, latest'.ledger \in Nat
    PROVE  PollMoves
BY DEF PollMoves, AfterPoll, Loop, Fetching, Saving, Beginning, OverWebSocket

LEMMA FetchFailsKeeps == Inv /\ FetchFails => Inv'
<1> SUFFICES ASSUME Inv, FetchFails PROVE Inv'
  OBVIOUS
<1>1. PollMoves
  BY AfterPollMoves DEF FetchFails, Inv, TypeOK
<1>2. UNCHANGED <<node, inbox, first, fetched, latest, shown, lastSeen, mishap>>
  BY DEF FetchFails, wire, history
<1>3. TypeOK'
  BY <1>1, <1>2 DEF PollMoves, node, Inv, TypeOK, OverWebSocket, Polling, Saving
<1>4. SeenIsResumed'
  BY <1>1, <1>2, PollResumes
<1>5. ShownIsStored'
  BY <1>1, <1>2 DEF PollMoves, Inv, ShownIsStored, Beginning
<1> QED
  BY <1>3, <1>4, <1>5 DEF Inv

\* A save that succeeds stores what the user was told, or what they knew already.
LEMMA CompareKeeps == Inv /\ Compare => Inv'
<1> SUFFICES ASSUME Inv, Compare PROVE Inv'
  OBVIOUS
<1>1. fetched.config \in Configs /\ fetched.config # NoConfig
  BY ConfigWatchAssumption DEF Compare, Inv, TypeOK
<1>2. latest'.ledger \in Nat /\ mishap' \in BOOLEAN
  BY FileLedgers DEF Compare, SaveSnapshot, Inv, TypeOK
<1>3. PollMoves
  BY <1>2, AfterPollMoves DEF Compare
<1>4. TypeOK'
  BY <1>2, <1>3, FileLedgers
  DEF PollMoves, Compare, node, wire, Inv, TypeOK, OverWebSocket, Polling, Saving
<1>5. SeenIsResumed'
  BY <1>3, PollResumes DEF Compare
<1>6. ShownIsStored'
  <2>1. pc' \notin Beginning
    BY <1>3 DEF PollMoves, Beginning
  <2>2. ASSUME ~mishap' PROVE shown' = fetched.config /\ latest'.config = fetched.config /\ first' = FALSE
    <3>1. ~mishap /\ latest' = fetched
      BY <2>2 DEF Compare, SaveSnapshot, Inv, TypeOK
    <3>2. shown = NoConfig \/ Reports \/ shown = fetched.config
      BY <1>1, <3>1 DEF Reports, Inv, ShownIsStored
    <3> QED
      BY <3>1, <3>2 DEF Compare
  <2> QED
    BY <2>1, <2>2 DEF ShownIsStored
<1> QED
  BY <1>4, <1>5, <1>6 DEF Inv

LEMMA WakeKeeps == Inv /\ Wake => Inv'
BY DEF Wake, node, wire, history, Inv, TypeOK, SeenIsResumed, ShownIsStored, Beginning, OverWebSocket,
       Polling, Saving

\* A signal that tears the baseline's file kills the command, or finds nothing shown yet.
LEMMA SignalKeeps == Inv /\ Signal => Inv'
<1> SUFFICES ASSUME Inv, Signal PROVE Inv'
  OBVIOUS
<1>1. pc' \in {pc, "exited", "killed"}
  BY DEF Signal
<1>2. latest'.ledger \in Nat /\ (pc # "save baseline" => latest' = latest)
  BY FileLedgers DEF Signal, Inv, TypeOK
<1> QED
  BY <1>1, <1>2 DEF Signal, node, wire, Inv, TypeOK, SeenIsResumed, ShownIsStored, Beginning,
                    OverWebSocket, Saving

LEMMA StepKeeps == Inv /\ [Next]_vars => Inv'
<1> SUFFICES ASSUME Inv, [Next]_vars PROVE Inv'
  OBVIOUS
<1>1. CASE UNCHANGED vars
  BY <1>1 DEF vars, node, wire, history, Inv, TypeOK, SeenIsResumed, ShownIsStored
<1> QED
  BY <1>1, CloseLedgerKeeps, DropKeeps, ConnectKeeps, SubscribeKeeps, ReceiveKeeps, DisconnectedKeeps,
     FetchKeeps, FetchFailsKeeps, CompareKeeps, WakeKeeps, SignalKeeps
  DEF Next, Proceed

\* Where the command is says what it has announced and shown (cmd_watch).
THEOREM Invariant == Spec => []Inv
BY InitInv, StepKeeps, PTL DEF Spec

-----------------------------------------------------------------------------
\* A subscription never starts before a ledger a notification has named (watch_over_websocket).
THEOREM NothingSkipped == Spec => []ResumesFromLastSeen
<1>1. Inv => ResumesFromLastSeen
  BY DEF Inv, SeenIsResumed, ResumesFromLastSeen, OverWebSocket
<1> QED
  BY <1>1, Invariant, PTL

\* Without a failed save, and while the WebSocket is not given up, the newest snapshot is the
\* configuration the user was last told of (watch_poll_once).
THEOREM NothingHidden == Spec => []HiddenOnlyByMishap
<1>1. Inv => HiddenOnlyByMishap
  BY DEF Inv, ShownIsStored, HiddenOnlyByMishap, ToldOfEveryChange
<1> QED
  BY <1>1, Invariant, PTL

-----------------------------------------------------------------------------
(***************************************************************************)
(* estimate --watch reports only what two polls have agreed on, for any    *)
(* set of builds and any number of steps of the compiler.  The property is *)
(* one of the step that reports; the invariant carries what a poll has     *)
(* seen through the acceptance and the reading of the file to that step.   *)
(***************************************************************************)
Agreements == [content : Contents \union {NoHash}, polls : 0..2]

BuildTypeOK ==
    /\ file \in Contents \union {Missing, Locked}
    /\ loop \in {"start", "poll", "load", "simulate", "stopped"}
    /\ last_hash \in Contents \union {NoHash}
    /\ pending_hash \in Contents \union {NoHash}
    /\ agreed \in Agreements
    /\ overtaken \in BOOLEAN
    /\ build \in Nat

\* Nothing is polled before the baseline.
BaselineFirst == loop = "start" => agreed.polls = 0

\* What is pending was there at the last poll that could read the file.
PendingWasSeen ==
    pending_hash # NoHash => agreed.content = pending_hash /\ agreed.polls # 0

\* What is accepted is what the polls have agreed on, or the baseline.
AcceptedIsSettled ==
    agreed = [content |-> last_hash, polls |-> 2] \/ agreed.polls = 0

\* The file that is read, and then simulated, is the accepted one, or was overtaken.
WorkIsSettled ==
    /\ loop = "load" /\ ~overtaken => file = last_hash /\ AcceptedIsSettled
    /\ loop = "simulate" /\ ~overtaken => loaded = last_hash /\ AcceptedIsSettled

BuildInv == BuildTypeOK /\ BaselineFirst /\ PendingWasSeen /\ WorkIsSettled

-----------------------------------------------------------------------------
LEMMA BuildInitInv == BuildInit => BuildInv
<1> SUFFICES ASSUME BuildInit PROVE BuildInv
  OBVIOUS
<1>1. agreed = [content |-> NoHash, polls |-> 0]
  BY DEF BuildInit, NoneAgreed
<1>2. BuildTypeOK
  <2>1. agreed \in Agreements
    BY <1>1 DEF Agreements
  <2> QED
    BY <2>1 DEF BuildInit, BuildTypeOK
<1>3. BaselineFirst /\ PendingWasSeen /\ WorkIsSettled
  BY <1>1 DEF BuildInit, BaselineFirst, PendingWasSeen, WorkIsSettled
<1> QED
  BY <1>2, <1>3 DEF BuildInv

\* A build written between the hash and the reading is overtaken; elsewhere the file is free.
LEMMA WriteKeeps == BuildInv /\ Write => BuildInv'
BY DEF BuildInv, Write, BuildTypeOK, BaselineFirst, PendingWasSeen, WorkIsSettled, AcceptedIsSettled, state

LEMMA BaselineKeeps == BuildInv /\ Baseline => BuildInv'
BY DEF BuildInv, Baseline, Accept, BuildTypeOK, BaselineFirst, PendingWasSeen, WorkIsSettled, AcceptedIsSettled

\* A poll that settles the build has seen it for the second time.
LEMMA PollKeeps == BuildInv /\ Poll => BuildInv'
<1> SUFFICES ASSUME BuildInv, Poll PROVE BuildInv'
  OBVIOUS
<1>1. CASE file = Missing
  <2>1. agreed' = [content |-> NoHash, polls |-> 0] /\ pending_hash' = NoHash
    BY <1>1, EstimateWatchAssumption DEF Poll, NoneAgreed
  <2>2. agreed' \in Agreements
    BY <2>1 DEF Agreements
  <2>3. loop' = "poll" /\ UNCHANGED <<file, last_hash, overtaken, build>>
    BY <1>1, EstimateWatchAssumption DEF Poll
  <2> QED
    BY <2>1, <2>2, <2>3 DEF BuildInv, BuildTypeOK, BaselineFirst, PendingWasSeen, WorkIsSettled
<1>2. CASE file = Locked
  BY <1>2, EstimateWatchAssumption
  DEF Poll, seen, BuildInv, BuildTypeOK, BaselineFirst, PendingWasSeen, WorkIsSettled, AcceptedIsSettled
<1>3. CASE file \in Contents
  <2>1. /\ Agree(file) /\ pending_hash' = Pending(file) /\ UNCHANGED <<file, build>>
        /\ IF Settled(file) THEN Accept(file) ELSE UNCHANGED <<loop, last_hash, outcome, overtaken>>
    BY <1>3, EstimateWatchAssumption DEF Poll
  <2>2. file # NoHash
    BY <1>3, EstimateWatchAssumption
  <2>3. /\ agreed' \in Agreements /\ agreed'.content = file /\ agreed'.polls # 0
        /\ agreed.content = file /\ agreed.polls # 0 => agreed' = [content |-> file, polls |-> 2]
    BY <1>3, <2>1 DEF Agree, Agreements, BuildInv, BuildTypeOK
  <2>4. PendingWasSeen' /\ pending_hash' \in Contents \union {NoHash}
    BY <1>3, <2>1, <2>3 DEF Pending, PendingWasSeen
  <2>5. CASE Settled(file)
    <3>1. agreed' = [content |-> last_hash', polls |-> 2] /\ last_hash' = file /\ file' = file
      BY <2>1, <2>2, <2>3, <2>5 DEF Settled, Accept, BuildInv, PendingWasSeen
    <3>2. loop' = "load" /\ overtaken' = FALSE
      BY <2>1, <2>5 DEF Accept
    <3> QED
      BY <1>3, <2>1, <2>3, <2>4, <3>1, <3>2
      DEF BuildInv, BuildTypeOK, BaselineFirst, WorkIsSettled, AcceptedIsSettled
  <2>6. CASE ~Settled(file)
    <3>1. loop' = "poll" /\ UNCHANGED <<file, last_hash, overtaken>>
      BY <2>1, <2>6 DEF Poll
    <3> QED
      BY <2>1, <2>3, <2>4, <3>1 DEF BuildInv, BuildTypeOK, BaselineFirst, WorkIsSettled
  <2> QED
    BY <2>5, <2>6
<1> QED
  BY <1>1, <1>2, <1>3 DEF Poll

LEMMA LoadKeeps == BuildInv /\ Load => BuildInv'
BY DEF BuildInv, Load, Fail, BuildTypeOK, BaselineFirst, PendingWasSeen, WorkIsSettled, AcceptedIsSettled

LEMMA ReportKeeps == BuildInv /\ Report => BuildInv'
BY DEF BuildInv, Report, Fail, BuildTypeOK, BaselineFirst, PendingWasSeen, WorkIsSettled, AcceptedIsSettled

LEMMA StopKeeps == BuildInv /\ Stop => BuildInv'
BY DEF BuildInv, Stop, state, seen, BuildTypeOK, BaselineFirst, PendingWasSeen, WorkIsSettled, AcceptedIsSettled

LEMMA BuildStepKeeps == BuildInv /\ [BuildNext]_build_vars => BuildInv'
<1> SUFFICES ASSUME BuildInv, [BuildNext]_build_vars PROVE BuildInv'
  OBVIOUS
<1>1. CASE UNCHANGED build_vars
  BY <1>1
  DEF build_vars, state, seen, BuildInv, BuildTypeOK, BaselineFirst, PendingWasSeen, WorkIsSettled, AcceptedIsSettled
<1> QED
  BY <1>1, WriteKeeps, BaselineKeeps, PollKeeps, LoadKeeps, ReportKeeps, StopKeeps DEF BuildNext, Work

\* What a poll has seen accompanies the build that is accepted, read and simulated, at every
\* step of cmd_estimate_watch.
THEOREM BuildInvariant == BuildSpec => []BuildInv
BY BuildInitInv, BuildStepKeeps, PTL DEF BuildSpec

-----------------------------------------------------------------------------
\* Only Report counts a build.
LEMMA OnlyReportCounts == ASSUME [BuildNext]_build_vars, build' # build PROVE Report
<1>1. ~UNCHANGED build_vars
  BY DEF build_vars, state
<1>2. ~Write /\ ~Baseline /\ ~Poll /\ ~Load /\ ~Stop
  BY DEF Write, Baseline, Poll, Load, Fail, Stop, state
<1> QED
  BY <1>1, <1>2 DEF BuildNext, Work

LEMMA ReportedIsSettled ==
    ASSUME BuildInv, [BuildNext]_build_vars
    PROVE  [build' > build => \/ agreed = [content |-> last_total', polls |-> 2]
                              \/ agreed.polls = 0
                              \/ overtaken]_build_vars
<1> SUFFICES ASSUME build' > build
             PROVE  agreed = [content |-> last_total', polls |-> 2] \/ agreed.polls = 0 \/ overtaken
  OBVIOUS
<1>1. CASE build' = build
  BY <1>1 DEF BuildInv, BuildTypeOK
<1>2. CASE build' # build
  <2>1. Report
    BY <1>2, OnlyReportCounts
  <2>2. loop = "simulate" /\ last_total' = loaded
    BY <1>2, <2>1 DEF Report, Fail
  <2> QED
    BY <2>2 DEF BuildInv, WorkIsSettled, AcceptedIsSettled
<1> QED
  BY <1>1, <1>2

\* Past the baseline, estimate --watch reports only what two polls agreed on, unless the file is
\* written between its hash and its reading (cmd_estimate_watch).
THEOREM NothingTransient == BuildSpec => TransientOnlyByRace
BY BuildInvariant, ReportedIsSettled, PTL DEF BuildSpec, TransientOnlyByRace

-----------------------------------------------------------------------------
(***************************************************************************)
(* estimate --all, batch and manifest: every entry gets exactly one row,   *)
(* in its order, whatever happens to the files, the network or the entry   *)
(* before it. The invariant relates the rows so far to the entries they    *)
(* were made of, and what is printed to the rows; of a file that was       *)
(* replaced in between, nothing is said.                                   *)
(***************************************************************************)

Stages == {"start", "health", "function", "contract", "invocations"} \union Over

BatchTypeOK ==
    /\ cmd \in Commands
    /\ disk \in [DOMAIN cmd.files -> Files]
    /\ stage \in Stages
    /\ at \in Nat /\ at <= Len(entries) + 1
    /\ IsSequence(rows) /\ Len(rows) = at - 1
    /\ IsSequence(cache)
    /\ stage = "start" => at = 1 /\ ~contacted

\* Which command is where, with the entry at hand before the last
StagesOfCommands ==
    /\ stage = "health" => ~Manifest
    /\ stage = "function" => One
    /\ stage \in {"contract", "invocations"} => ~One
    /\ stage = "invocations" => at <= Len(entries)
    /\ ~One => \A i \in 1..Len(entries) : entries[i].path \in DOMAIN disk

\* What a manifest's validation has established when the network is first used
ManifestValid ==
    Manifest /\ (contacted \/ at > 1 \/ stage \in {"contract", "invocations"}) =>
        ~cmd.dry_run /\ \A i \in 1..Len(entries) : Untouched(i) => EntryValid(entries[i])

\* A row of a batch agrees with the contract it was made of, the functions that are left included.
SummaryFits(summary, e, contract, left) ==
    IF summary.loaded
    THEN /\ contract # Unloadable
         /\ summary.errors \subseteq {"upload", "arguments", "function"}
         /\ "upload" \in summary.errors <=> summary.upload = Absent
         /\ "arguments" \in summary.errors <=> ~ArgsFit(contract, e.fn, e.args)
         /\ Len(summary.fees) + left <= Len(Candidates(contract, e.fn))
         /\ "function" \in summary.errors <=> Len(summary.fees) + left # Len(Candidates(contract, e.fn))
    ELSE contract = Unloadable /\ summary.errors = {"file"}

IsSummary(summary) == DOMAIN summary = {"path", "loaded", "upload", "fees", "errors"}

ContractsInOrder ==
    ~One =>
        /\ \A i \in 1..Len(rows) :
              /\ rows[i].path = entries[i].path
              /\ Untouched(i) => SummaryFits(rows[i], entries[i], disk[entries[i].path], 0)
        /\ stage = "invocations" =>
              /\ IsSequence(wasm) /\ IsSequence(row.fees)
              /\ IsSummary(row) /\ row.loaded /\ row.path = Entry.path
              /\ Untouched(at) => SummaryFits(row, Entry, disk[Entry.path], Len(wasm))

FunctionsInOrder ==
    One =>
        /\ \A i \in 1..Len(rows) :
              /\ rows[i].fn = entries[i].name
              /\ rows[i].status = "ok" <=> rows[i].fee # Absent
        /\ cmd.no_cache => cache = <<>>
        /\ \A k \in 1..Len(cache) : \E i \in Statuses("ok") : rows[i].fn = cache[k].fn /\ rows[i].fee = cache[k].fee
        /\ Warm => Cardinality(Statuses("ok")) = Len(cache)

\* What is printed is what the rows come to.
OutputOfRows ==
    /\ stage \notin Over => output = NoOutput
    /\ One /\ stage = "ok" => at > Len(entries)
    /\ output.warmed # Absent => Warm /\ output.warmed = Cardinality(Statuses("ok"))
    /\ output.distribution # Absent => output.distribution = Kept
    /\ output.failed # Absent =>
          /\ ~One /\ at > Len(entries)
          /\ output = BatchReport
          /\ stage = "ok" <=> ~(output.failed > 0)

BatchInv ==
    /\ BatchTypeOK /\ StagesOfCommands /\ ManifestValid
    /\ ContractsInOrder /\ FunctionsInOrder /\ OutputOfRows

-----------------------------------------------------------------------------
LEMMA CommandShape ==
    ASSUME NEW line \in Commands
    PROVE  IsCommand(line)
BY BatchAssumption

LEMMA ContractShape ==
    ASSUME NEW contract \in Files, contract # Unloadable
    PROVE  IsContract(contract)
BY BatchAssumption

LEMMA BatchInitInv == BatchInit => BatchInv
<1> SUFFICES ASSUME BatchInit PROVE BatchInv
  OBVIOUS
<1>1. rows = <<>> /\ cache = <<>> /\ at = 1 /\ stage = "start" /\ output = NoOutput /\ ~contacted
      /\ cmd \in Commands /\ disk = cmd.files /\ entries = <<>>
  BY DEF BatchInit
<1>2. IsSequence(rows) /\ Len(rows) = 0 /\ IsSequence(cache) /\ Len(cache) = 0 /\ Len(entries) = 0
  BY <1>1, EmptySequence
<1>3. disk \in [DOMAIN cmd.files -> Files]
  BY <1>1, CommandShape DEF IsCommand
<1>4. BatchTypeOK
  BY <1>1, <1>2, <1>3 DEF BatchTypeOK, Stages
<1>5. StagesOfCommands /\ ManifestValid
  BY <1>1, <1>2 DEF StagesOfCommands, ManifestValid
<1>6. ContractsInOrder
  BY <1>1, <1>2 DEF ContractsInOrder
<1>7. FunctionsInOrder
  <2>1. Statuses("ok") = {}
    BY <1>2 DEF Statuses
  <2>2. Cardinality(Statuses("ok")) = 0
    BY <2>1, FS_EmptySet
  <2> QED
    BY <1>1, <1>2, <2>2 DEF FunctionsInOrder
<1>8. OutputOfRows
  BY <1>1 DEF OutputOfRows, NoOutput, Over
<1> QED
  BY <1>4, <1>5, <1>6, <1>7, <1>8 DEF BatchInv

-----------------------------------------------------------------------------
\* A file is replaced: rows of untouched files still fit them.
LEMMA ReplaceKeeps == BatchInv /\ Replace => BatchInv'
<1> SUFFICES ASSUME BatchInv, Replace PROVE BatchInv'
  OBVIOUS
<1>1. PICK p \in DOMAIN disk, f \in Files :
         disk' = [disk EXCEPT ![p] = f] /\ replaced' = replaced \union {p}
  BY DEF Replace
<1>2. UNCHANGED <<cmd, stage, running, output, contacted>> /\ stage \notin Over
  BY DEF Replace
<1>3. UNCHANGED <<cmd, stage, entries, at, wasm, row, rows, cache, output, contacted>>
  BY <1>2 DEF running
<1>4. DOMAIN disk' = DOMAIN disk /\ disk' \in [DOMAIN cmd.files -> Files]
  BY <1>1, <1>3 DEF BatchInv, BatchTypeOK
<1>5. ASSUME NEW i, Untouched(i)', entries[i].path \in DOMAIN disk
      PROVE  Untouched(i) /\ disk'[entries[i].path] = disk[entries[i].path]
  BY <1>1, <1>3, <1>5 DEF Untouched
<1>6. BatchTypeOK'
  BY <1>3, <1>4 DEF BatchInv, BatchTypeOK, IsSequence
<1>7. StagesOfCommands'
  BY <1>3, <1>4 DEF BatchInv, StagesOfCommands, One, Manifest
<1>8. ManifestValid'
  <2> SUFFICES ASSUME Manifest', contacted' \/ at' > 1 \/ stage' \in {"contract", "invocations"}
               PROVE  ~cmd'.dry_run /\ \A i \in 1..Len(entries') : Untouched(i)' => EntryValid(entries[i])'
    BY DEF ManifestValid
  <2>1. Manifest /\ ~One /\ ~cmd.dry_run /\ \A i \in 1..Len(entries) : Untouched(i) => EntryValid(entries[i])
    BY <1>3 DEF BatchInv, ManifestValid, Manifest, One
  <2>2. ASSUME NEW i \in 1..Len(entries), Untouched(i)' PROVE EntryValid(entries[i])'
    <3>1. entries[i].path \in DOMAIN disk
      BY <2>1 DEF BatchInv, StagesOfCommands
    <3>2. EntryValid(entries[i]) /\ disk'[entries[i].path] = disk[entries[i].path]
      BY <1>5, <2>1, <2>2, <3>1
    <3> QED
      BY <1>3, <3>2 DEF EntryValid, Function, EnvelopeBuilds
  <2> QED
    BY <1>3, <2>1, <2>2
<1>9. ContractsInOrder'
  <2> SUFFICES ASSUME ~One' PROVE ContractsInOrder'
    BY DEF ContractsInOrder
  <2>1. ~One /\ ContractsInOrder /\ StagesOfCommands /\ BatchTypeOK
    BY <1>3 DEF BatchInv, One
  <2>2. Len(entries) \in Nat /\ at \in Nat /\ Len(rows) = at - 1 /\ at <= Len(entries) + 1
    BY <2>1 DEF BatchTypeOK
  <2>3. ASSUME NEW i \in 1..Len(rows)
        PROVE  /\ rows[i].path = entries[i].path
               /\ Untouched(i)' => SummaryFits(rows[i], entries[i], disk'[entries[i].path], 0)
    <3>1. i \in 1..Len(entries)
      BY <2>2
    <3>2. entries[i].path \in DOMAIN disk
      BY <2>1, <3>1 DEF StagesOfCommands
    <3> QED
      BY <1>5, <2>1, <2>3, <3>2 DEF ContractsInOrder
  <2>4. ASSUME stage = "invocations"
        PROVE  /\ IsSequence(wasm) /\ IsSequence(row.fees)
               /\ IsSummary(row) /\ row.loaded /\ row.path = Entry.path
               /\ Untouched(at)' => SummaryFits(row, Entry, disk'[Entry.path], Len(wasm))
    <3>1. at \in 1..Len(entries) /\ entries[at] = Entry
      BY <2>1, <2>2, <2>4 DEF StagesOfCommands, Entry
    <3>2. entries[at].path \in DOMAIN disk
      BY <2>1, <3>1 DEF StagesOfCommands
    <3>3. Untouched(at)' <=> entries[at].path \notin replaced'
      BY <1>3 DEF Untouched
    <3>4. Untouched(at)' => Untouched(at) /\ disk'[Entry.path] = disk[Entry.path]
      BY <1>1, <3>1, <3>2, <3>3 DEF Untouched
    <3> QED
      BY <2>1, <2>4, <3>4 DEF ContractsInOrder
  <2> QED
    BY <1>3, <2>3, <2>4 DEF ContractsInOrder, Entry, IsSequence
<1>10. FunctionsInOrder'
  BY <1>3 DEF BatchInv, FunctionsInOrder, One, Warm, Statuses
<1>11. OutputOfRows'
  BY <1>2, <1>3 DEF BatchInv, OutputOfRows, NoOutput, One, Warm, Kept, Statuses, BatchReport, IsOk
<1> QED
  BY <1>6, <1>7, <1>8, <1>9, <1>10, <1>11 DEF BatchInv

-----------------------------------------------------------------------------
\* Each path once: the entries of a batch are some of its paths.
LEMMA DistinctPaths ==
    ASSUME cmd \in Commands
    PROVE  \A i \in 1..Len(Distinct(Paths)) : Distinct(Paths)[i].path \in DOMAIN cmd.files
<1> DEFINE initial == {i \in 1..Len(Paths) : \A j \in 1..i-1 : Paths[j] # Paths[i]}
<1>1. cmd.paths \in Seq(DOMAIN cmd.files)
  BY CommandShape DEF IsCommand
<1>2. Len(cmd.paths) \in Nat /\ \A i \in 1..Len(cmd.paths) : cmd.paths[i] \in DOMAIN cmd.files
  BY <1>1, LenProperties, ElementOfSeq
<1>3. Len(Paths) = Len(cmd.paths) /\ \A i \in 1..Len(Paths) : Paths[i].path = cmd.paths[i]
  BY <1>2 DEF Paths
<1>4. initial \subseteq Nat /\ initial \in SUBSET (1..Len(Paths)) /\ IsFiniteSet(1..Len(Paths))
  <2>1. Len(Paths) \in Int
    BY <1>2, <1>3
  <2>2. IsFiniteSet(1..Len(Paths))
    BY <2>1, FS_Interval
  <2> QED
    BY <2>1, <2>2
<1>5. IsFiniteSet(initial)
  BY <1>4, FS_Subset
<1>6. Distinct(Paths) = At(Paths, initial)
  BY DEF Distinct
<1> HIDE DEF initial
<1>7. \A k \in 1..Len(At(Paths, initial)) :
        Nth(initial, k) \in initial /\ At(Paths, initial)[k] = Paths[Nth(initial, k)]
  <2>1. Len(At(Paths, initial)) = Cardinality(initial)
    BY <1>4, <1>5, AtSequence
  <2>2. \A k \in 1..Cardinality(initial) :
          Nth(initial, k) \in initial /\ At(Paths, initial)[k] = Paths[Nth(initial, k)]
    BY <1>4, <1>5, AtElement
  <2> QED
    BY <2>1, <2>2
<1> QED
  BY <1>2, <1>3, <1>4, <1>6, <1>7

\* Whatever the entries are, there is no row yet.
LEMMA ResolveKeeps == BatchInv /\ Resolve => BatchInv'
<1> SUFFICES ASSUME BatchInv, Resolve PROVE BatchInv'
  OBVIOUS
<1>1. stage = "start" /\ UNCHANGED <<cmd, disk, replaced, at, row, rows, cache, output, contacted>>
  BY DEF Resolve
<1>2. BatchTypeOK /\ at = 1 /\ ~contacted /\ Len(rows) = 0 /\ output = NoOutput
  BY <1>1 DEF BatchInv, BatchTypeOK, OutputOfRows, Over
<1>3. /\ stage' \in {"health", "failed", "contract", "ok"}
      /\ stage' = "health" => ~Manifest
      /\ stage' = "ok" => Manifest
      /\ stage' = "contract" => Manifest /\ ~cmd.dry_run
                                /\ \A i \in 1..Len(entries') : EntryValid(entries'[i])
  BY DEF Resolve, WithClient, Exit, One, Manifest
<1>4. ~One => \A i \in 1..Len(entries') : entries'[i].path \in DOMAIN disk
  <2>1. cmd \in Commands /\ DOMAIN disk = DOMAIN cmd.files
    BY <1>2 DEF BatchTypeOK
  <2>2. \A i \in 1..Len(cmd.entries) : cmd.entries[i].path \in DOMAIN disk
    BY <2>1, CommandShape DEF IsCommand
  <2>3. \A i \in 1..Len(Distinct(Paths)) : Distinct(Paths)[i].path \in DOMAIN disk
    BY <2>1, DistinctPaths
  <2>4. \/ One \/ entries' = cmd.entries \/ entries' = Distinct(Paths)
    BY DEF Resolve
  <2> QED
    BY <2>2, <2>3, <2>4
<1>5. Len(entries') \in Nat
  OBVIOUS
<1>6. BatchTypeOK'
  BY <1>1, <1>2, <1>3, <1>5 DEF BatchTypeOK, IsSequence, Stages, Over
<1>7. StagesOfCommands'
  BY <1>1, <1>3, <1>4 DEF StagesOfCommands, One, Manifest
<1>8. ManifestValid'
  <2> SUFFICES ASSUME stage' = "contract", NEW i \in 1..Len(entries')
               PROVE  ~cmd'.dry_run /\ EntryValid(entries[i])'
    BY <1>1, <1>2, <1>3 DEF ManifestValid
  <2>1. EntryValid(entries'[i]) /\ ~cmd.dry_run
    BY <1>3
  <2> QED
    BY <1>1, <2>1 DEF EntryValid, Function, EnvelopeBuilds
<1>9. ContractsInOrder'
  BY <1>1, <1>2, <1>3 DEF ContractsInOrder
<1>10. FunctionsInOrder'
  <2>1. Statuses("ok")' = Statuses("ok") /\ One' = One /\ Warm' = Warm
    BY <1>1 DEF Statuses, One, Warm
  <2>2. \A i \in 1..Len(rows) : FALSE
    BY <1>2
  <2> QED
    BY <1>1, <2>1, <2>2 DEF BatchInv, FunctionsInOrder
<1>11. OutputOfRows'
  <2>1. stage' = "ok" => ~One'
    BY <1>1, <1>3 DEF One, Manifest
  <2>2. output'.warmed = Absent /\ output'.distribution = Absent /\ output'.failed = Absent /\ output' = NoOutput'
    BY <1>1, <1>2 DEF NoOutput
  <2> QED
    BY <2>1, <2>2 DEF OutputOfRows
<1> QED
  BY <1>6, <1>7, <1>8, <1>9, <1>10, <1>11 DEF BatchInv

\* A step that leaves files, entries, rows and cache alone, and prints nothing
LEMMA MoveKeeps ==
    ASSUME BatchInv, stage \notin Over, stage' \in Stages, stage' # "ok", stage' # "start",
           UNCHANGED <<cmd, disk, replaced, entries, at, rows, cache, output>>,
           contacted' = contacted \/ contacted' = TRUE,
           stage' = "health" => ~Manifest, stage' = "function" => One,
           stage' \in {"contract", "invocations"} => ~One,
           stage' = "invocations" => at <= Len(entries),
           Manifest => stage \in {"contract", "invocations"} \/ stage' = stage,
           contacted' # contacted /\ Manifest => stage \in {"contract", "invocations"},
           stage' # "invocations" \/ UNCHANGED <<stage, wasm, row>>
    PROVE  BatchInv'
<1>1. BatchTypeOK'
  BY DEF BatchInv, BatchTypeOK, IsSequence
<1>2. StagesOfCommands'
  BY DEF BatchInv, StagesOfCommands, One, Manifest
<1>3. ManifestValid'
  <2> SUFFICES ASSUME Manifest', contacted' \/ at' > 1 \/ stage' \in {"contract", "invocations"}
               PROVE  ~cmd'.dry_run /\ \A i \in 1..Len(entries') : Untouched(i)' => EntryValid(entries[i])'
    BY DEF ManifestValid
  <2>1. ~cmd.dry_run /\ \A i \in 1..Len(entries) : Untouched(i) => EntryValid(entries[i])
    BY DEF BatchInv, ManifestValid, Manifest
  <2> QED
    BY <2>1 DEF Untouched, EntryValid, Function, EnvelopeBuilds
<1>4. ContractsInOrder'
  BY DEF BatchInv, ContractsInOrder, One, Untouched, Entry, IsSequence
<1>5. FunctionsInOrder'
  BY DEF BatchInv, FunctionsInOrder, One, Warm, Statuses
<1>6. OutputOfRows'
  <2>1. output'.warmed = Absent /\ output'.distribution = Absent /\ output'.failed = Absent /\ output' = NoOutput'
    BY DEF BatchInv, OutputOfRows, NoOutput
  <2> QED
    BY <2>1 DEF OutputOfRows
<1> QED
  BY <1>1, <1>2, <1>3, <1>4, <1>5, <1>6 DEF BatchInv

LEMMA HealthKeeps == BatchInv /\ Health => BatchInv'
<1> SUFFICES ASSUME BatchInv, Health PROVE BatchInv'
  OBVIOUS
<1>1. /\ stage = "health" /\ contacted' = TRUE
      /\ stage' = (IF One THEN "function" ELSE "contract") \/ stage' = "failed"
      /\ UNCHANGED <<cmd, disk, replaced, entries, at, rows, cache, output>>
  BY DEF Health, Exit, running
<1>2. ~Manifest
  BY <1>1 DEF BatchInv, StagesOfCommands
<1> QED
  BY <1>1, <1>2, MoveKeeps DEF Over, Stages

-----------------------------------------------------------------------------
LEMMA StatusesFinite ==
    ASSUME BatchTypeOK
    PROVE  Statuses("ok") \subseteq 1..Len(rows) /\ IsFiniteSet(Statuses("ok")) /\ Len(rows) \in Nat
<1>1. Len(rows) \in Nat
  BY DEF BatchTypeOK
<1>2. Statuses("ok") \in SUBSET (1..Len(rows))
  BY DEF Statuses
<1>3. IsFiniteSet(1..Len(rows))
  BY <1>1, FS_Interval
<1> QED
  BY <1>1, <1>2, <1>3, FS_Subset

\* A function has its result, and its estimate may be saved.
LEMMA ResultKeeps ==
    ASSUME BatchInv, stage = "function", at <= Len(entries),
           NEW result, result.fn = entries[at].name, result.status = "ok" <=> result.fee # Absent,
           rows' = Append(rows, result), at' = at + 1,
           UNCHANGED <<cmd, disk, replaced, stage, entries, wasm, row, output, contacted>>,
           NEW saved, saved.fn = result.fn, saved.fee = result.fee,
           \/ cache' = cache /\ (Warm => result.status # "ok")
           \/ cache' = Append(cache, saved) /\ ~cmd.no_cache /\ result.status = "ok"
    PROVE  BatchInv'
<1>1. BatchTypeOK /\ One /\ ~Manifest /\ at \in Nat /\ Len(rows) = at - 1 /\ IsSequence(rows) /\ IsSequence(cache)
  BY DEF BatchInv, BatchTypeOK, StagesOfCommands, One, Manifest
<1>2. /\ IsSequence(rows') /\ Len(rows) \in Nat /\ Len(rows') = at /\ rows'[at] = result
      /\ \A i \in 1..Len(rows) : rows'[i] = rows[i]
  BY <1>1, Appended
<1>3. /\ IsSequence(cache') /\ Len(cache) \in Nat
      /\ \A k \in 1..Len(cache) : cache'[k] = cache[k]
      /\ \/ cache' = cache
         \/ /\ Len(cache') = Len(cache) + 1 /\ cache'[Len(cache) + 1] = saved
            /\ ~cmd.no_cache /\ result.status = "ok"
  <2>1. Len(cache) \in Nat
    BY <1>1, Appended
  <2>2. CASE cache' = cache
    BY <1>1, <2>1, <2>2
  <2>3. CASE cache' = Append(cache, saved)
    <3>1. /\ IsSequence(cache') /\ Len(cache') = Len(cache) + 1 /\ cache'[Len(cache) + 1] = saved
          /\ \A k \in 1..Len(cache) : cache'[k] = cache[k]
      BY <1>1, <2>3, Appended
    <3> QED
      BY <2>1, <3>1
  <2> QED
    BY <2>2, <2>3
<1>4. Statuses("ok")' = IF result.status = "ok" THEN Statuses("ok") \union {at} ELSE Statuses("ok")
  <2>1. 1..Len(rows') = 1..Len(rows) \union {at} /\ at \notin 1..Len(rows)
    BY <1>1, <1>2
  <2> QED
    BY <1>2, <2>1 DEF Statuses
<1>5. BatchTypeOK'
  BY <1>1, <1>2, <1>3 DEF BatchTypeOK, Stages
<1>6. StagesOfCommands' /\ ManifestValid' /\ ContractsInOrder'
  BY <1>1 DEF BatchInv, StagesOfCommands, ManifestValid, ContractsInOrder, One, Manifest
<1>7. FunctionsInOrder'
  <2>1. FunctionsInOrder /\ One' = One /\ Warm' = Warm
    BY DEF BatchInv, One, Warm
  <2>2. ASSUME NEW i \in 1..Len(rows')
        PROVE  rows'[i].fn = entries[i].name /\ (rows'[i].status = "ok" <=> rows'[i].fee # Absent)
    <3>1. i \in 1..Len(rows) \/ i = at
      BY <1>1, <1>2
    <3> QED
      BY <1>1, <1>2, <2>1, <3>1 DEF FunctionsInOrder
  <2>3. cmd.no_cache => cache' = <<>>
    BY <1>1, <1>3, <2>1 DEF FunctionsInOrder
  <2>4. ASSUME NEW k \in 1..Len(cache')
        PROVE  \E i \in Statuses("ok")' : rows'[i].fn = cache'[k].fn /\ rows'[i].fee = cache'[k].fee
    <3>1. CASE k \in 1..Len(cache)
      <4>1. PICK i \in Statuses("ok") : rows[i].fn = cache[k].fn /\ rows[i].fee = cache[k].fee
        BY <1>1, <2>1, <3>1 DEF FunctionsInOrder
      <4>2. i \in 1..Len(rows) /\ i \in Statuses("ok")'
        BY <1>4, <4>1 DEF Statuses
      <4> QED
        BY <1>2, <1>3, <3>1, <4>1, <4>2
    <3>2. CASE k \notin 1..Len(cache)
      <4>1. cache' # cache
        BY <3>2
      <4>2. k = Len(cache) + 1 /\ cache'[k] = saved /\ result.status = "ok"
        BY <1>3, <3>2, <4>1
      <4> QED
        BY <1>2, <1>4, <4>2
    <3> QED
      BY <3>1, <3>2
  <2>5. Warm => Cardinality(Statuses("ok")') = Len(cache')
    <3> SUFFICES ASSUME Warm PROVE Cardinality(Statuses("ok")') = Len(cache')
      OBVIOUS
    <3>1. Cardinality(Statuses("ok")) = Len(cache) /\ IsFiniteSet(Statuses("ok")) /\ at \notin Statuses("ok")
      <4>1. at \notin 1..Len(rows)
        BY <1>1, <1>2
      <4> QED
        BY <1>1, <2>1, <4>1, StatusesFinite DEF FunctionsInOrder
    <3>2. CASE result.status = "ok"
      <4>1. Cardinality(Statuses("ok") \union {at}) = Len(cache) + 1
        BY <3>1, FS_AddElement
      <4>2. Len(cache') = Len(cache) + 1
        BY <1>3, <3>2
      <4> QED
        BY <1>4, <3>2, <4>1, <4>2
    <3>3. CASE result.status # "ok"
      BY <1>3, <1>4, <3>1, <3>3
    <3> QED
      BY <3>2, <3>3
  <2> QED
    BY <2>1, <2>2, <2>3, <2>4, <2>5 DEF FunctionsInOrder
<1>8. OutputOfRows'
  <2>1. output' = NoOutput /\ NoOutput' = NoOutput /\ stage \notin Over
    BY DEF BatchInv, OutputOfRows, NoOutput, Over
  <2>2. output'.warmed = Absent /\ output'.distribution = Absent /\ output'.failed = Absent
    BY <2>1 DEF NoOutput
  <2> QED
    BY <2>1, <2>2 DEF OutputOfRows, Over
<1> QED
  BY <1>5, <1>6, <1>7, <1>8 DEF BatchInv

\* An answer that is used has a fee: no call without an answer is.
LEMMA UsedFee ==
    ASSUME NEW answer \in Calls, ~MissingData(answer)
    PROVE  TotalFee(answer) # Absent
<1>1. MissingData(NoAnswer)
  BY DEF MissingData, NoAnswer, Answer
<1>2. answer \in Answers
  BY <1>1 DEF Calls
<1> QED
  BY <1>2, BatchAssumption

LEMMA EstimateFunctionKeeps == BatchInv /\ EstimateFunction => BatchInv'
<1> SUFFICES ASSUME BatchInv, EstimateFunction PROVE BatchInv'
  OBVIOUS
<1>1. /\ stage = "function" /\ at <= Len(entries)
      /\ UNCHANGED <<cmd, disk, replaced, entries, wasm, row, output, contacted>>
  BY DEF EstimateFunction
<1>2. CASE /\ Results(Result("skipped", Absent)) /\ at' = at + 1 /\ UNCHANGED <<stage, cache>>
  <2> DEFINE result == Result("skipped", Absent)
  <2>1. result.fn = entries[at].name /\ result.status = "skipped" /\ result.fee = Absent
    BY DEF Result
  <2>2. rows' = Append(rows, result)
    BY <1>2 DEF Results
  <2> HIDE DEF result
  <2> QED
    BY <1>1, <1>2, <2>1, <2>2, ResultKeeps
<1>3. ASSUME NEW answer \in Calls, FunctionAborts(answer), UNCHANGED <<at, rows, cache>> PROVE BatchInv'
  <2>1. stage' \in {"panicked", "failed"}
    BY <1>3 DEF FunctionAborts, Exit
  <2>2. ~Manifest
    BY <1>1 DEF BatchInv, StagesOfCommands, One, Manifest
  <2> QED
    BY <1>1, <1>3, <2>1, <2>2, MoveKeeps DEF Stages, Over
<1>4. ASSUME NEW answer \in Calls, Errored(answer) \/ Usable(answer), FunctionResult(answer),
             at' = at + 1, UNCHANGED stage
      PROVE  BatchInv'
  <2>1. CASE Errored(answer)
    <3> DEFINE result == Result("error", Absent)
    <3>1. result.fn = entries[at].name /\ result.status = "error" /\ result.fee = Absent
      BY DEF Result
    <3>2. rows' = Append(rows, result) /\ cache' = cache
      BY <1>4, <2>1 DEF FunctionResult, Results
    <3> HIDE DEF result
    <3> QED
      BY <1>1, <1>4, <3>1, <3>2, ResultKeeps
  <2>2. CASE ~Errored(answer)
    <3> DEFINE result == Result("ok", TotalFee(answer))
               saved == [path |-> cmd.paths[1], fn |-> entries[at].name, fee |-> TotalFee(answer)]
    <3>1. TotalFee(answer) # Absent
      BY <2>2, UsedFee DEF Errored
    <3>2. /\ result.fn = entries[at].name /\ result.status = "ok" /\ result.fee = TotalFee(answer)
          /\ saved.fn = entries[at].name /\ saved.fee = TotalFee(answer)
      BY DEF Result
    <3>3. /\ rows' = Append(rows, result)
          /\ \/ ~cmd.no_cache /\ cache' = Append(cache, saved)
             \/ ~Warm /\ cache' = cache
      BY <1>4, <2>2 DEF FunctionResult, Results, Saved
    <3> HIDE DEF result, saved
    <3>4. saved.fn = result.fn /\ saved.fee = result.fee /\ (result.status = "ok" <=> result.fee # Absent)
      BY <3>1, <3>2
    <3> QED
      BY <1>1, <1>4, <3>2, <3>3, <3>4, ResultKeeps
  <2> QED
    BY <2>1, <2>2
<1> QED
  BY <1>2, <1>3, <1>4 DEF EstimateFunction

-----------------------------------------------------------------------------
LEMMA CandidatesSequence ==
    ASSUME NEW contract \in Files, contract # Unloadable, NEW name
    PROVE  IsSequence(Candidates(contract, name))
<1> DEFINE positions == {k \in DOMAIN contract :
                           IF name = Absent THEN contract[k].params = 0 ELSE contract[k].name = name}
<1>1. contract \in Seq(ToSet(contract))
  BY ContractShape DEF IsContract
<1>2. Len(contract) \in Nat /\ DOMAIN contract = 1..Len(contract)
  BY <1>1, LenProperties
<1>3. positions \subseteq Nat /\ positions \in SUBSET (1..Len(contract)) /\ IsFiniteSet(1..Len(contract))
  BY <1>2, FS_Interval
<1>4. IsFiniteSet(positions)
  BY <1>3, FS_Subset
<1>5. Candidates(contract, name) = At(contract, positions)
  BY DEF Candidates
<1> HIDE DEF positions
<1>6. At(contract, positions) \in Seq({contract[i] : i \in positions})
  BY <1>3, <1>4, AtSequence
<1> QED
  BY <1>5, <1>6, IsSequenceOf

\* The entry at hand names a file.
LEMMA EntryAtHand ==
    ASSUME BatchInv, ~One, at <= Len(entries)
    PROVE  /\ at \in 1..Len(entries) /\ Entry = entries[at]
           /\ Entry.path \in DOMAIN disk /\ disk[Entry.path] \in Files
<1>1. BatchTypeOK /\ StagesOfCommands
  BY DEF BatchInv
<1>2. at \in Nat /\ Len(rows) = at - 1 /\ IsSequence(rows) /\ Len(entries) \in Nat
  BY <1>1 DEF BatchTypeOK
<1>3. at \in 1..Len(entries)
  BY <1>2, Appended
<1> QED
  BY <1>1, <1>3 DEF BatchTypeOK, StagesOfCommands, Entry

\* A contract has its row.
LEMMA SummaryKeeps ==
    ASSUME BatchInv, ~One, stage \in {"contract", "invocations"}, at <= Len(entries),
           NEW summary, rows' = Append(rows, summary), at' = at + 1, stage' = "contract",
           UNCHANGED <<cmd, disk, replaced, entries, cache, output, contacted>>,
           summary.path = Entry.path,
           Untouched(at) => SummaryFits(summary, Entry, disk[Entry.path], 0)
    PROVE  BatchInv'
<1>1. BatchTypeOK /\ at \in Nat /\ Len(rows) = at - 1 /\ IsSequence(rows) /\ Len(entries) \in Nat
  BY DEF BatchInv, BatchTypeOK
<1>2. /\ IsSequence(rows') /\ Len(rows) \in Nat /\ Len(rows') = at /\ rows'[at] = summary
      /\ \A i \in 1..Len(rows) : rows'[i] = rows[i]
  BY <1>1, Appended
<1>3. at \in 1..Len(entries) /\ Entry = entries[at]
  BY EntryAtHand
<1>4. BatchTypeOK'
  BY <1>1, <1>2 DEF BatchTypeOK, Stages
<1>5. StagesOfCommands'
  BY DEF BatchInv, StagesOfCommands, One, Manifest
<1>6. ManifestValid'
  BY DEF BatchInv, ManifestValid, Manifest, Untouched, EntryValid, Function, EnvelopeBuilds
<1>7. ContractsInOrder'
  <2>1. ASSUME NEW i \in 1..Len(rows')
        PROVE  /\ rows'[i].path = entries[i].path
               /\ Untouched(i) => SummaryFits(rows'[i], entries[i], disk[entries[i].path], 0)
    <3>1. CASE i = at
      BY <1>2, <1>3, <3>1
    <3>2. CASE i # at
      <4>1. i \in 1..Len(rows)
        BY <1>1, <1>2, <3>2
      <4> QED
        BY <1>2, <4>1 DEF BatchInv, ContractsInOrder
    <3> QED
      BY <3>1, <3>2
  <2> QED
    BY <2>1 DEF ContractsInOrder, Untouched
<1>8. FunctionsInOrder'
  BY DEF FunctionsInOrder, One
<1>9. OutputOfRows'
  <2>1. output' = NoOutput /\ NoOutput' = NoOutput
    BY DEF BatchInv, OutputOfRows, NoOutput, Over
  <2>2. output'.warmed = Absent /\ output'.distribution = Absent /\ output'.failed = Absent
    BY <2>1 DEF NoOutput
  <2> QED
    BY <2>1, <2>2 DEF OutputOfRows, Over
<1> QED
  BY <1>4, <1>5, <1>6, <1>7, <1>8, <1>9 DEF BatchInv

\* A step inside a contract: its row so far fits it.
LEMMA InsideKeeps ==
    ASSUME BatchInv, ~One, stage \in {"contract", "invocations"}, at <= Len(entries),
           stage' = "invocations",
           UNCHANGED <<cmd, disk, replaced, entries, at, rows, output>>,
           IsSequence(cache'),
           IsSequence(wasm'), IsSequence(row'.fees),
           IsSummary(row'), row'.loaded, row'.path = Entry.path,
           Untouched(at) => SummaryFits(row', Entry, disk[Entry.path], Len(wasm'))
    PROVE  BatchInv'
<1>1. BatchTypeOK'
  BY DEF BatchInv, BatchTypeOK, Stages
<1>2. StagesOfCommands'
  BY DEF BatchInv, StagesOfCommands, One, Manifest
<1>3. ManifestValid'
  BY DEF BatchInv, ManifestValid, Manifest, Untouched, EntryValid, Function, EnvelopeBuilds
<1>4. ContractsInOrder'
  <2>1. \A i \in 1..Len(rows) :
           /\ rows[i].path = entries[i].path
           /\ Untouched(i) => SummaryFits(rows[i], entries[i], disk[entries[i].path], 0)
    BY DEF BatchInv, ContractsInOrder
  <2> QED
    BY <2>1 DEF ContractsInOrder, Untouched, Entry
<1>5. FunctionsInOrder'
  BY DEF FunctionsInOrder, One
<1>6. OutputOfRows'
  <2>1. output' = NoOutput /\ NoOutput' = NoOutput
    BY DEF BatchInv, OutputOfRows, NoOutput, Over
  <2>2. output'.warmed = Absent /\ output'.distribution = Absent /\ output'.failed = Absent
    BY <2>1 DEF NoOutput
  <2> QED
    BY <2>1, <2>2 DEF OutputOfRows, Over
<1> QED
  BY <1>1, <1>2, <1>3, <1>4, <1>5, <1>6 DEF BatchInv

LEMMA UsableFee ==
    ASSUME NEW answer \in Calls, Usable(answer)
    PROVE  TotalFee(answer) # Absent
BY UsedFee DEF Usable, Accepted

LEMMA ContractKeeps == BatchInv /\ Contract => BatchInv'
<1> SUFFICES ASSUME BatchInv, Contract PROVE BatchInv'
  OBVIOUS
<1>1. /\ stage = "contract" /\ at <= Len(entries)
      /\ UNCHANGED <<cmd, disk, replaced, entries, cache, output>>
  BY DEF Contract
<1>2. ~One /\ ~(stage \in Over) /\ IsSequence(cache)
  BY <1>1 DEF BatchInv, StagesOfCommands, Over, BatchTypeOK
<1>3. disk[Entry.path] \in Files
  BY <1>1, <1>2, EntryAtHand
<1>4. CASE disk[Entry.path] = Unloadable
  <2> DEFINE summary == Unread(Entry.path)
  <2>1. summary.path = Entry.path /\ ~summary.loaded /\ summary.errors = {"file"}
    BY DEF Unread
  <2>2. rows' = Append(rows, summary) /\ at' = at + 1 /\ UNCHANGED <<stage, wasm, row, contacted>>
    BY <1>4 DEF Contract, Results
  <2> HIDE DEF summary
  <2>3. SummaryFits(summary, Entry, disk[Entry.path], 0)
    BY <1>4, <2>1 DEF SummaryFits
  <2> QED
    BY <1>1, <1>2, <2>1, <2>2, <2>3, SummaryKeeps
<1>5. CASE disk[Entry.path] # Unloadable
  <2>1. UNCHANGED <<rows, at>> /\ contacted' = TRUE
    BY <1>5 DEF Contract
  <2>2. PICK answer \in Calls :
           IF Panics(answer)
           THEN stage' = "panicked" /\ UNCHANGED <<wasm, row>>
           ELSE /\ stage' = "invocations"
                /\ wasm' = Candidates(disk[Entry.path], Entry.fn)
                /\ row' = [Unread(Entry.path) EXCEPT
                             !.loaded = TRUE,
                             !.upload = IF Usable(answer) THEN TotalFee(answer) ELSE Absent,
                             !.errors = {e \in {"upload", "arguments"} :
                                IF e = "upload" THEN ~Usable(answer)
                                ELSE ~ArgsFit(disk[Entry.path], Entry.fn, Entry.args)}]
    BY <1>5 DEF Contract, Exit
  <2>3. CASE Panics(answer)
    BY <1>1, <1>2, <2>1, <2>2, <2>3, MoveKeeps DEF Stages, Over
  <2>4. CASE ~Panics(answer)
    <3>1. stage' = "invocations" /\ wasm' = Candidates(disk[Entry.path], Entry.fn)
      BY <2>2, <2>4
    <3>2. /\ IsSummary(row') /\ row'.path = Entry.path /\ row'.loaded /\ row'.fees = <<>>
          /\ row'.upload = IF Usable(answer) THEN TotalFee(answer) ELSE Absent
          /\ row'.errors \subseteq {"upload", "arguments"}
          /\ "upload" \in row'.errors <=> ~Usable(answer)
          /\ "arguments" \in row'.errors <=> ~ArgsFit(disk[Entry.path], Entry.fn, Entry.args)
      BY <2>2, <2>4 DEF Unread, IsSummary
    <3>3. IsSequence(wasm') /\ IsSequence(row'.fees) /\ Len(row'.fees) = 0 /\ Len(wasm') \in Nat
      BY <1>3, <1>5, <3>1, <3>2, CandidatesSequence, EmptySequence
    <3>4. "upload" \in row'.errors <=> row'.upload = Absent
      BY <3>2, UsableFee
    <3>5. SummaryFits(row', Entry, disk[Entry.path], Len(wasm'))
      BY <1>5, <3>1, <3>2, <3>3, <3>4 DEF SummaryFits
    <3> QED
      BY <1>1, <1>2, <2>1, <3>1, <3>2, <3>3, <3>5, InsideKeeps
  <2> QED
    BY <2>3, <2>4
<1> QED
  BY <1>4, <1>5

LEMMA SummarizeKeeps == BatchInv /\ Summarize => BatchInv'
<1> SUFFICES ASSUME BatchInv, Summarize PROVE BatchInv'
  OBVIOUS
<1>1. /\ stage = "invocations" /\ wasm = <<>> /\ rows' = Append(rows, row) /\ at' = at + 1 /\ stage' = "contract"
      /\ UNCHANGED <<cmd, disk, replaced, entries, cache, output, contacted>>
  BY DEF Summarize, Results
<1>2. ~One /\ at <= Len(entries)
  BY <1>1 DEF BatchInv, StagesOfCommands
<1>3. Len(wasm) = 0
  BY <1>1, EmptySequence
<1>4. row.path = Entry.path /\ (Untouched(at) => SummaryFits(row, Entry, disk[Entry.path], 0))
  BY <1>1, <1>2, <1>3 DEF BatchInv, ContractsInOrder
<1> QED
  BY <1>1, <1>2, <1>4, SummaryKeeps

LEMMA InvocationKeeps == BatchInv /\ Invocation => BatchInv'
<1> SUFFICES ASSUME BatchInv, Invocation PROVE BatchInv'
  OBVIOUS
<1>1. /\ stage = "invocations" /\ wasm # <<>>
      /\ UNCHANGED <<cmd, disk, replaced, entries, at, rows, output, contacted>>
  BY DEF Invocation
<1>2. ~One /\ at <= Len(entries) /\ stage \notin Over /\ IsSequence(cache)
  BY <1>1 DEF BatchInv, StagesOfCommands, BatchTypeOK, Over
<1>3. /\ IsSequence(wasm) /\ IsSequence(row.fees) /\ IsSummary(row) /\ row.loaded /\ row.path = Entry.path
      /\ Untouched(at) => SummaryFits(row, Entry, disk[Entry.path], Len(wasm))
  BY <1>1, <1>2 DEF BatchInv, ContractsInOrder
<1>4. IsSequence(Tail(wasm)) /\ Len(wasm) \in Nat /\ Len(wasm) > 0 /\ Len(Tail(wasm)) = Len(wasm) - 1
  BY <1>1, <1>3, Shortened
<1>5. PICK answer \in Calls :
         IF Panics(answer) THEN stage' = "panicked" /\ UNCHANGED <<wasm, row, cache>>
         ELSE /\ wasm' = Tail(wasm) /\ UNCHANGED stage
              /\ IF Usable(answer)
                 THEN /\ row' = [row EXCEPT !.fees = Append(@, TotalFee(answer))]
                      /\ cache' = Saved(Entry.path, Head(wasm).name, answer) \/ UNCHANGED cache
                 ELSE row' = [row EXCEPT !.errors = @ \union {"function"}] /\ UNCHANGED cache
  BY DEF Invocation, Exit, Calls
<1>6. CASE Panics(answer)
  BY <1>1, <1>2, <1>5, <1>6, MoveKeeps DEF Stages, Over
<1>7. CASE ~Panics(answer) /\ Usable(answer)
  <2> DEFINE fee == TotalFee(answer)
             saved == [path |-> Entry.path, fn |-> Head(wasm).name, fee |-> fee]
  <2>1. wasm' = Tail(wasm) /\ stage' = "invocations" /\ row' = [row EXCEPT !.fees = Append(@, fee)]
    BY <1>1, <1>5, <1>7
  <2>2. cache' = Append(cache, saved) \/ cache' = cache
    BY <1>5, <1>7 DEF Saved
  <2> HIDE DEF fee, saved
  <2>3. IsSequence(cache')
    BY <1>2, <2>2, Appended
  <2>4. /\ IsSummary(row') /\ row'.loaded /\ row'.path = Entry.path
        /\ row'.fees = Append(row.fees, fee) /\ row'.errors = row.errors /\ row'.upload = row.upload
    BY <1>3, <2>1 DEF IsSummary
  <2>5. /\ IsSequence(row'.fees) /\ Len(row.fees) \in Nat /\ Len(row'.fees) = Len(row.fees) + 1
    BY <1>3, <2>4, Appended
  <2>6. Len(row'.fees) + Len(wasm') = Len(row.fees) + Len(wasm)
    <3>1. Len(wasm') = Len(wasm) - 1
      BY <1>4, <2>1
    <3> HIDE DEF IsSequence
    <3> QED
      BY <1>4, <2>5, <3>1
  <2>7. Untouched(at) => SummaryFits(row', Entry, disk[Entry.path], Len(wasm'))
    BY <1>3, <2>4, <2>6 DEF SummaryFits
  <2> QED
    BY <1>1, <1>2, <1>4, <2>1, <2>3, <2>4, <2>5, <2>7, InsideKeeps
<1>8. CASE ~Panics(answer) /\ ~Usable(answer)
  <2>1. wasm' = Tail(wasm) /\ stage' = "invocations" /\ cache' = cache
        /\ row' = [row EXCEPT !.errors = @ \union {"function"}]
    BY <1>1, <1>5, <1>8
  <2>2. /\ IsSummary(row') /\ row'.loaded /\ row'.path = Entry.path
        /\ row'.fees = row.fees /\ row'.errors = row.errors \union {"function"} /\ row'.upload = row.upload
    BY <1>3, <2>1 DEF IsSummary
  <2>3. Len(row'.fees) + Len(wasm') = Len(row.fees) + Len(wasm) - 1 /\ Len(row.fees) \in Nat
    <3>1. Len(wasm') = Len(wasm) - 1 /\ Len(row'.fees) = Len(row.fees)
      BY <1>4, <2>1, <2>2
    <3>2. Len(row.fees) \in Nat
      BY <1>3, Appended
    <3> QED
      BY <1>4, <3>1, <3>2
  <2>4. Untouched(at) => SummaryFits(row', Entry, disk[Entry.path], Len(wasm'))
    <3> SUFFICES ASSUME Untouched(at) PROVE SummaryFits(row', Entry, disk[Entry.path], Len(wasm'))
      OBVIOUS
    <3> DEFINE candidates == Len(Candidates(disk[Entry.path], Entry.fn))
    <3>1. /\ disk[Entry.path] # Unloadable
          /\ row.errors \subseteq {"upload", "arguments", "function"}
          /\ "upload" \in row.errors <=> row.upload = Absent
          /\ "arguments" \in row.errors <=> ~ArgsFit(disk[Entry.path], Entry.fn, Entry.args)
          /\ Len(row.fees) + Len(wasm) <= candidates
      BY <1>3 DEF SummaryFits
    <3>2. candidates \in Nat
      OBVIOUS
    <3>3. Len(row'.fees) + Len(wasm') <= candidates /\ Len(row'.fees) + Len(wasm') # candidates
      <4> HIDE DEF candidates
      <4> QED
        BY <1>4, <2>3, <3>1, <3>2
    <3> QED
      BY <2>2, <3>1, <3>3 DEF SummaryFits
  <2> QED
    BY <1>1, <1>2, <1>3, <1>4, <2>1, <2>2, <2>4, InsideKeeps
<1> QED
  BY <1>6, <1>7, <1>8

-----------------------------------------------------------------------------
\* The end of a command leaves its rows, which the output is made of.
LEMMA EndKeeps ==
    ASSUME BatchInv, stage \notin Over, stage' \in {"ok", "failed"},
           UNCHANGED <<cmd, disk, replaced, entries, at, wasm, row, rows, cache, contacted>>,
           stage \in {"function", "contract"}, OutputOfRows'
    PROVE  BatchInv'
<1>1. BatchTypeOK'
  BY DEF BatchInv, BatchTypeOK, Stages, Over
<1>2. StagesOfCommands'
  BY DEF BatchInv, StagesOfCommands, One, Manifest
<1>3. ManifestValid'
  <2>1. ManifestValid /\ Manifest' = Manifest
    BY DEF BatchInv, Manifest
  <2> QED
    BY <2>1 DEF ManifestValid, Untouched, EntryValid, Function, EnvelopeBuilds
<1>4. ContractsInOrder'
  BY DEF BatchInv, ContractsInOrder, One, Untouched
<1>5. FunctionsInOrder'
  BY DEF BatchInv, FunctionsInOrder, One, Warm, Statuses
<1> QED
  BY <1>1, <1>2, <1>3, <1>4, <1>5 DEF BatchInv

LEMMA FinishAllKeeps == BatchInv /\ FinishAll => BatchInv'
<1> SUFFICES ASSUME BatchInv, FinishAll PROVE BatchInv'
  OBVIOUS
<1>1. /\ stage = "function" /\ at > Len(entries) /\ stage' = "ok"
      /\ UNCHANGED <<cmd, disk, replaced, entries, at, wasm, row, rows, cache, contacted>>
      /\ output' = IF Warm THEN [NoOutput EXCEPT !.warmed = Cardinality(Statuses("ok"))]
                   ELSE [NoOutput EXCEPT !.distribution = Kept]
  BY DEF FinishAll, Exit, running
<1>2. One
  BY <1>1 DEF BatchInv, StagesOfCommands
<1>3. Statuses("ok")' = Statuses("ok") /\ Kept' = Kept /\ Warm' = Warm
  BY <1>1 DEF Statuses, Kept, Warm
<1>4. /\ output'.failed = Absent
      /\ IF Warm THEN output'.warmed = Cardinality(Statuses("ok")) /\ output'.distribution = Absent
         ELSE output'.warmed = Absent /\ output'.distribution = Kept
  BY <1>1 DEF NoOutput
<1>5. OutputOfRows'
  BY <1>1, <1>3, <1>4 DEF OutputOfRows, Over
<1> QED
  BY <1>1, <1>5, EndKeeps DEF Over

LEMMA FinishBatchKeeps == BatchInv /\ FinishBatch => BatchInv'
<1> SUFFICES ASSUME BatchInv, FinishBatch PROVE BatchInv'
  OBVIOUS
<1>1. /\ stage = "contract" /\ at > Len(entries)
      /\ UNCHANGED <<cmd, disk, replaced, entries, at, wasm, row, rows, cache, contacted>>
      /\ output' = BatchReport
      /\ stage' = IF output'.failed > 0 THEN "failed" ELSE "ok"
  BY DEF FinishBatch, Exit, running
<1>2. ~One
  BY <1>1 DEF BatchInv, StagesOfCommands
<1>3. output'.warmed = Absent /\ output'.distribution = Absent
  BY <1>1 DEF BatchReport, NoOutput
<1>4. BatchReport' = BatchReport /\ One' = One
  BY <1>1 DEF BatchReport, IsOk, NoOutput, One
<1>5. OutputOfRows'
  BY <1>1, <1>2, <1>3, <1>4 DEF OutputOfRows, Over
<1> QED
  BY <1>1, <1>5, EndKeeps DEF Over

LEMMA BatchStep == BatchInv /\ [BatchNext]_batch_vars => BatchInv'
<1> SUFFICES ASSUME BatchInv, [BatchNext]_batch_vars PROVE BatchInv'
  OBVIOUS
<1>1. CASE UNCHANGED batch_vars
  <2>1. UNCHANGED <<cmd, disk, replaced, stage, entries, at, wasm, row, rows, cache, output, contacted>>
    BY <1>1 DEF batch_vars
  <2>2. BatchTypeOK' /\ StagesOfCommands' /\ ManifestValid'
    BY <2>1 DEF BatchInv, BatchTypeOK, StagesOfCommands, ManifestValid, One, Manifest,
                Untouched, EntryValid, Function, EnvelopeBuilds
  <2>3. ContractsInOrder' /\ FunctionsInOrder'
    BY <2>1 DEF BatchInv, ContractsInOrder, FunctionsInOrder, One, Warm, Statuses, Untouched, Entry
  <2>4. OutputOfRows'
    BY <2>1 DEF BatchInv, OutputOfRows, One, Warm, Statuses, Kept, NoOutput, BatchReport, IsOk
  <2> QED
    BY <2>2, <2>3, <2>4 DEF BatchInv
<1>2. CASE BatchNext
  BY <1>2, ResolveKeeps, HealthKeeps, EstimateFunctionKeeps, FinishAllKeeps, ContractKeeps,
     InvocationKeeps, SummarizeKeeps, FinishBatchKeeps, ReplaceKeeps DEF BatchNext, Step
<1> QED
  BY <1>1, <1>2

\* The summary of an untouched contract has no error exactly when everything was estimated.
LEMMA SummaryIsOk ==
    ASSUME NEW summary, NEW e, NEW contract, SummaryFits(summary, e, contract, 0), Len(summary.fees) \in Nat
    PROVE  /\ summary.errors \subseteq {"file", "upload", "arguments", "function"}
           /\ contract # Unloadable => summary.loaded
           /\ IsOk(summary) <=> /\ summary.loaded /\ summary.upload # Absent
                                /\ ArgsFit(contract, e.fn, e.args)
                                /\ Len(summary.fees) = Len(Candidates(contract, e.fn))
<1>1. CASE summary.loaded
  <2>1. /\ summary.errors \subseteq {"upload", "arguments", "function"}
        /\ "upload" \in summary.errors <=> summary.upload = Absent
        /\ "arguments" \in summary.errors <=> ~ArgsFit(contract, e.fn, e.args)
        /\ "function" \in summary.errors <=> Len(summary.fees) # Len(Candidates(contract, e.fn))
    BY <1>1 DEF SummaryFits
  <2>2. IsOk(summary) <=> summary.errors = {}
    BY DEF IsOk
  <2> QED
    BY <1>1, <2>1, <2>2
<1>2. CASE ~summary.loaded
  BY <1>2 DEF SummaryFits, IsOk
<1> QED
  BY <1>1, <1>2

LEMMA BatchInvAccounts == BatchInv => BatchIsAccounted
<1> SUFFICES ASSUME BatchInv, output.failed # Absent PROVE BatchIsAccounted
  BY DEF BatchIsAccounted
<1> DEFINE faulty == {i \in 1..Len(rows) : ~IsOk(rows[i])}
           failed == Cardinality(faulty)
<1>1. /\ ~One /\ at > Len(entries) /\ output = BatchReport
      /\ stage = "ok" <=> ~(output.failed > 0)
  BY DEF BatchInv, OutputOfRows
<1>2. at \in Nat /\ at <= Len(entries) + 1 /\ Len(rows) = at - 1 /\ Len(entries) \in Nat
  BY DEF BatchInv, BatchTypeOK
<1>3. Len(rows) = Len(entries)
  BY <1>1, <1>2
<1>4. IsFiniteSet(faulty) /\ failed \in Nat /\ (failed = 0 <=> faulty = {})
  <2>1. IsFiniteSet(1..Len(rows))
    BY <1>2, <1>3, FS_Interval
  <2>2. IsFiniteSet(faulty)
    <3>1. faulty \in SUBSET (1..Len(rows))
      OBVIOUS
    <3> QED
      BY <2>1, <3>1, FS_Subset
  <2> HIDE DEF faulty
  <2> QED
    BY <2>2, FS_CardinalityType, FS_EmptySet
<1>5. output.failed = failed /\ output.succeeded = Len(rows) - failed
  BY <1>1 DEF BatchReport, NoOutput
<1>6. stage = "ok" <=> \A i \in 1..Len(rows) : IsOk(rows[i])
  <2>1. stage = "ok" <=> failed = 0
    <3> HIDE DEF failed
    <3> QED
      BY <1>1, <1>4, <1>5
  <2>2. faulty = {} <=> \A i \in 1..Len(rows) : IsOk(rows[i])
    OBVIOUS
  <2> QED
    BY <1>4, <2>1, <2>2
<1>7. output.succeeded + output.failed = Len(entries)
  <2> HIDE DEF failed
  <2> QED
    BY <1>2, <1>3, <1>4, <1>5
<1>8. \A i \in 1..Len(rows) :
         /\ rows[i].path = entries[i].path
         /\ Untouched(i) => SummaryFits(rows[i], entries[i], disk[entries[i].path], 0)
  BY <1>1 DEF BatchInv, ContractsInOrder
<1>9. [i \in 1..Len(rows) |-> rows[i].path] = [i \in 1..Len(entries) |-> entries[i].path]
  BY <1>3, <1>8
<1>10. ASSUME \A i \in 1..Len(rows) : Untouched(i)
       PROVE  stage = "ok" <=> \A i \in 1..Len(rows) :
                 LET e == entries[i] IN
                 /\ rows[i].loaded /\ rows[i].upload # Absent
                 /\ ArgsFit(disk[e.path], e.fn, e.args)
                 /\ Len(rows[i].fees) = Len(Candidates(disk[e.path], e.fn))
  <2>1. ASSUME NEW i \in 1..Len(rows)
        PROVE  IsOk(rows[i]) <=>
                 /\ rows[i].loaded /\ rows[i].upload # Absent
                 /\ ArgsFit(disk[entries[i].path], entries[i].fn, entries[i].args)
                 /\ Len(rows[i].fees) = Len(Candidates(disk[entries[i].path], entries[i].fn))
    <3>1. SummaryFits(rows[i], entries[i], disk[entries[i].path], 0)
      BY <1>8, <1>10
    <3>2. Len(rows[i].fees) \in Nat
      OBVIOUS
    <3> QED
      BY <3>1, <3>2, SummaryIsOk
  <2> QED
    BY <1>6, <2>1
<1> QED
  BY <1>7, <1>9, <1>10 DEF BatchIsAccounted

\* What validates an entry names one function of its contract.
LEMMA ValidEntry ==
    ASSUME BatchTypeOK, NEW e, e.path \in DOMAIN disk, EntryValid(e)
    PROVE  /\ disk[e.path] # Unloadable
           /\ \E f \in ToSet(disk[e.path]) : f.name = e.fn /\ f.params = e.args
           /\ ArgsFit(disk[e.path], e.fn, e.args)
           /\ Len(Candidates(disk[e.path], e.fn)) = 1
<1> DEFINE contract == disk[e.path]
<1>1. contract # Unloadable /\ contract \in Files
  BY DEF EntryValid, BatchTypeOK
<1>2. PICK f \in Function(contract, e.fn) : e.args = f.params
  BY DEF EntryValid
<1>3. /\ contract \in Seq(ToSet(contract))
      /\ \A i, j \in DOMAIN contract : contract[i].name = contract[j].name => i = j
      /\ \A i \in DOMAIN contract : contract[i].name # Absent
  BY <1>1, ContractShape DEF IsContract
<1> HIDE DEF contract
<1>4. Len(contract) \in Nat /\ DOMAIN contract = 1..Len(contract)
  BY <1>3, LenProperties
<1>5. PICK k \in DOMAIN contract : contract[k] = f
  BY <1>2 DEF Function, ToSet
<1>6. f \in ToSet(contract) /\ f.name = e.fn
  BY <1>2 DEF Function
<1>7. ASSUME NEW g \in Function(contract, e.fn) PROVE g = f
  <2>1. PICK j \in DOMAIN contract : contract[j] = g
    BY DEF Function, ToSet
  <2>2. contract[j].name = contract[k].name
    BY <1>5, <1>6, <2>1 DEF Function
  <2> QED
    BY <1>3, <1>5, <2>1, <2>2
<1>8. ArgsFit(contract, e.fn, e.args)
  BY <1>2, <1>7 DEF ArgsFit
<1>9. Len(Candidates(contract, e.fn)) = 1
  <2> DEFINE positions == {i \in DOMAIN contract :
                             IF e.fn = Absent THEN contract[i].params = 0 ELSE contract[i].name = e.fn}
  <2>1. e.fn # Absent
    BY <1>3, <1>5, <1>6
  <2>2. positions = {k}
    BY <1>3, <1>5, <1>6, <2>1
  <2>3. k \in Nat /\ k \in 1..Len(contract)
    BY <1>4
  <2>4. Candidates(contract, e.fn) = At(contract, {k})
    BY <2>2 DEF Candidates
  <2>5. IsFiniteSet({k}) /\ Cardinality({k}) = 1
    BY FS_Singleton
  <2>6. Len(At(contract, {k})) = Cardinality({k})
    BY <2>3, <2>5, AtSequence
  <2> QED
    BY <2>4, <2>5, <2>6
<1> QED
  BY <1>1, <1>2, <1>6, <1>8, <1>9 DEF contract

LEMMA BatchInvChecksFirst == BatchInv => ManifestCheckedFirst
<1> SUFFICES ASSUME BatchInv, Manifest PROVE ManifestCheckedFirst
  BY DEF ManifestCheckedFirst
<1>1. BatchTypeOK /\ ~One /\ StagesOfCommands
  BY DEF BatchInv, Manifest, One
<1>2. \A i \in 1..Len(entries) : entries[i].path \in DOMAIN disk
  BY <1>1 DEF StagesOfCommands
<1>3. at \in Nat /\ Len(rows) = at - 1 /\ at <= Len(entries) + 1 /\ Len(entries) \in Nat
  BY <1>1 DEF BatchTypeOK
<1>4. ASSUME contacted
      PROVE  /\ ~cmd.dry_run
             /\ \A i \in 1..Len(entries) : Untouched(i) =>
                   /\ disk[entries[i].path] # Unloadable
                   /\ \E f \in ToSet(disk[entries[i].path]) : f.name = entries[i].fn /\ f.params = entries[i].args
  <2>1. ~cmd.dry_run /\ \A i \in 1..Len(entries) : Untouched(i) => EntryValid(entries[i])
    BY <1>4 DEF BatchInv, ManifestValid
  <2> QED
    BY <1>1, <1>2, <2>1, ValidEntry
<1>5. ASSUME NEW i \in 1..Len(rows), Untouched(i)
      PROVE  /\ rows[i].errors \subseteq {"upload", "function"}
             /\ IsOk(rows[i]) => Len(rows[i].fees) = 1
  <2>1. at > 1 /\ i \in 1..Len(entries)
    BY <1>3
  <2>2. EntryValid(entries[i])
    BY <1>5, <2>1 DEF BatchInv, ManifestValid
  <2>3. SummaryFits(rows[i], entries[i], disk[entries[i].path], 0)
    BY <1>1, <1>5 DEF BatchInv, ContractsInOrder
  <2>4. /\ disk[entries[i].path] # Unloadable
        /\ ArgsFit(disk[entries[i].path], entries[i].fn, entries[i].args)
        /\ Len(Candidates(disk[entries[i].path], entries[i].fn)) = 1
    BY <1>1, <1>2, <2>1, <2>2, ValidEntry
  <2>5. rows[i].loaded /\ rows[i].errors \subseteq {"upload", "arguments", "function"} /\ "arguments" \notin rows[i].errors
    BY <2>3, <2>4 DEF SummaryFits
  <2>6. IsOk(rows[i]) => Len(rows[i].fees) = 1
    <3>1. Len(rows[i].fees) \in Nat
      OBVIOUS
    <3> QED
      BY <2>3, <2>4, <3>1, SummaryIsOk
  <2> QED
    BY <2>5, <2>6
<1> QED
  BY <1>4, <1>5 DEF ManifestCheckedFirst

LEMMA BatchInvAccountsFunctions == BatchInv => FunctionsAreAccounted
<1> SUFFICES ASSUME BatchInv, One PROVE FunctionsAreAccounted
  BY DEF FunctionsAreAccounted
<1>1. /\ \A i \in 1..Len(rows) :
            rows[i].fn = entries[i].name /\ (rows[i].status = "ok" <=> rows[i].fee # Absent)
      /\ cmd.no_cache => cache = <<>>
      /\ \A k \in 1..Len(cache) : \E i \in Statuses("ok") : rows[i].fn = cache[k].fn /\ rows[i].fee = cache[k].fee
      /\ Warm => Cardinality(Statuses("ok")) = Len(cache)
  BY DEF BatchInv, FunctionsInOrder
<1>2. /\ stage = "ok" => at > Len(entries)
      /\ output.warmed # Absent => Warm /\ output.warmed = Cardinality(Statuses("ok"))
      /\ output.distribution # Absent => output.distribution = Kept
  BY DEF BatchInv, OutputOfRows
<1>3. at \in Nat /\ Len(rows) = at - 1 /\ at <= Len(entries) + 1 /\ Len(entries) \in Nat
  BY DEF BatchInv, BatchTypeOK
<1>4. stage = "ok" => Len(rows) = Len(entries)
  BY <1>2, <1>3
<1>5. output.warmed # Absent => output.warmed = Len(cache)
  BY <1>1, <1>2
<1>6. cmd.format \in {"table", "json", "csv", "markdown"}
  BY CommandShape DEF BatchInv, BatchTypeOK, IsCommand
<1>7. Statuses("ok") = {i \in 1..Len(rows) : rows[i].fee # Absent}
  BY <1>1 DEF Statuses
<1>8. Kept = IF cmd.format \in {"json", "table"} \/ (cmd.format = "markdown" /\ cmd.quiet)
             THEN {i \in 1..Len(rows) : rows[i].fee # Absent} ELSE {}
  BY <1>6, <1>7 DEF Kept
<1> QED
  BY <1>1, <1>2, <1>4, <1>5, <1>8 DEF FunctionsAreAccounted

-----------------------------------------------------------------------------
\* The inductive invariant of the commands of many estimates: which command is at which stage,
\* what a manifest's validation left true, and what each row, result and output is made of.
THEOREM BatchInvariant == BatchSpec => []BatchInv
<1>1. BatchInit => BatchInv
  BY BatchInitInv
<1>2. BatchInv /\ [BatchNext]_batch_vars => BatchInv'
  BY BatchStep
<1> QED
  BY <1>1, <1>2, PTL DEF BatchSpec

\* A bad contract or a bad function costs no other its estimate, and the exit status is a success
\* exactly when everything was estimated (cmd_batch), for every list of contracts and answers.
THEOREM BatchAccounted == BatchSpec => []BatchIsAccounted
<1>1. BatchInv => BatchIsAccounted
  BY BatchInvAccounts
<1> QED
  BY <1>1, BatchInvariant, PTL

\* A manifest is validated as a whole before the network is used, and past it only the network or
\* a file that was replaced fails an entry (manifest::load, batch_contract_summary).
THEOREM ManifestsAreCheckedFirst == BatchSpec => []ManifestCheckedFirst
<1>1. BatchInv => ManifestCheckedFirst
  BY BatchInvChecksFirst
<1> QED
  BY <1>1, BatchInvariant, PTL

\* Each selected function has its result in order, what is cached was estimated, and what is
\* counted and distributed agrees with the results (cmd_estimate_all, cmd_cache_warm).
THEOREM FunctionsAccounted == BatchSpec => []FunctionsAreAccounted
<1>1. BatchInv => FunctionsAreAccounted
  BY BatchInvAccountsFunctions
<1> QED
  BY <1>1, BatchInvariant, PTL

-----------------------------------------------------------------------------
(***************************************************************************)
(* The stored snapshots of a network: what config diff has saved is the    *)
(* network's configuration, so that the alarm it raised is cleared and     *)
(* --against-previous agrees with it; and what last-changed shows follows  *)
(* from the change log. Every snapshot is of an instant that the clock has *)
(* passed, or of the last one, which stands for the future.                *)
(***************************************************************************)

\* An instant at which something may have been saved: one before the clock's, or the last, which
\* stands for the future
Taken(t, clock) == t \in Nat /\ (t < clock \/ t = MaxTime)

IsSnapshot(s) == DOMAIN s = {"at", "offset", "present", "value", "modified", "extra", "kind"} /\ s.offset \in Int

HistoryTypeOK ==
    /\ net.value \in [Fields -> AnyValue]
    /\ DOMAIN net = {"value", "modified"}
    /\ now \in Nat /\ now >= 1 /\ (now = 1 \/ now <= MaxTime)
    /\ IsFiniteSet(DOMAIN files)
    /\ \A n \in DOMAIN files : /\ Taken(n, now) \/ n \in Manual
                               /\ IsSnapshot(files[n]) /\ Taken(files[n].at, now)
    /\ IsSequence(bundle)
    /\ \A i \in 1..Len(bundle) : IsSnapshot(bundle[i]) /\ Taken(bundle[i].at, now)

\* The snapshot config diff has just saved is the network's configuration, and the newest; what
\* it was compared with, if with the latest, is the newest of the others.
ButModified(changes) == {c \in changes : c.path # "settings_last_modified"}
Difference(old, new) == DiffPayloads(old, UnknownFields(old), new, UnknownFields(new))

SavedDiff ==
    out.cmd = "diff" /\ out.saved =>
        /\ now > 1 /\ now - 1 \in DOMAIN files
        /\ Loads(now - 1)
        /\ files[now - 1].present = Sections
        /\ \A f \in Fields : files[now - 1].value[f] = net.value[f]
        /\ out.flags.against = None =>
              /\ out.base \in DOMAIN files \ {now - 1} /\ Loads(out.base)
              /\ (\A n \in DOMAIN files : n < now) => \A n \in DOMAIN files \ {now - 1} : n <= out.base
              /\ ButModified(out.changes) = ButModified(Shown(Difference(files[out.base], files[now - 1]), out.flags))

HistoryShown ==
    out.cmd = "history" =>
        IF out.failed THEN \E n \in DOMAIN files : ~Loads(n) ELSE out.last = LastChanged(ChangeLog)

HistoryInv == HistoryTypeOK /\ SavedDiff /\ HistoryShown

-----------------------------------------------------------------------------

-----------------------------------------------------------------------------
Asked == SetToSeq(Sections)
NetValues == [s \in Sections |-> [f \in SectionFields(s) |-> net.value[f]]]

\* Each section is asked for once.
LEMMA AskedOnce ==
    /\ IsSequence(Asked) /\ ToSet(Asked) = Sections /\ DOMAIN Asked = 1..Len(Asked)
    /\ \A i, j \in 1..Len(Asked) : Asked[i] = Asked[j] => i = j
<1> DEFINE n == Cardinality(Sections)
<1>1. IsFiniteSet(Sections) /\ n \in Nat /\ ExistsBijection(1..n, Sections)
  BY ConfigHistoryAssumption, FS_CardinalityType
<1>2. \E f \in [1..n -> Sections] : IsInjective(f)
  BY <1>1 DEF ExistsBijection, Bijection, Injection, IsInjective
<1>3. Asked \in [1..n -> Sections] /\ IsInjective(Asked)
  BY <1>2 DEF Asked, SetToSeq
<1>4. IsFiniteSet(1..n) /\ Cardinality(1..n) = n
  BY <1>1, FS_Interval
<1>5. Asked \in Injection(1..n, Sections)
  BY <1>3 DEF Injection, IsInjective
<1>6. Asked \in Surjection(1..n, Sections)
  BY <1>1, <1>4, <1>5, FS_Injection
<1>7. IsSequence(Asked) /\ Len(Asked) = n
  BY <1>1, <1>3, IsSequenceOn
<1>8. ToSet(Asked) = Sections
  BY <1>3, <1>6 DEF Surjection, ToSet
<1>9. DOMAIN Asked = 1..n
  BY <1>3
<1> QED
  BY <1>3, <1>7, <1>8, <1>9 DEF IsInjective

\* What a sequence is without one of its elements
LEMMA RemovedAt ==
    ASSUME NEW s, IsSequence(s), NEW i \in 1..Len(s)
    PROVE  /\ IsSequence(RemoveAt(s, i))
           /\ \A j \in 1..Len(RemoveAt(s, i)) : \E m \in 1..Len(s) : RemoveAt(s, i)[j] = s[m]
<1> DEFINE elements == {s[m] : m \in 1..Len(s)}
           left == SubSeq(s, 1, i - 1)
           right == SubSeq(s, i + 1, Len(s))
<1>1. s \in Seq(elements) /\ Len(s) \in Nat /\ \A m \in 1..Len(s) : s[m] \in elements
  BY DEF IsSequence
<1> HIDE DEF elements
<1>2. left \in Seq(elements)
  <2>1. \A m \in 1..i - 1 : s[m] \in elements
    BY <1>1
  <2> QED
    BY <1>1, <2>1, SubSeqProperties
<1>3. right \in Seq(elements)
  <2>1. \A m \in i + 1..Len(s) : s[m] \in elements
    BY <1>1
  <2> QED
    BY <1>1, <2>1, SubSeqProperties
<1> HIDE DEF left, right
<1>4. left \o right \in Seq(elements)
  BY <1>2, <1>3, ConcatProperties
<1>5. RemoveAt(s, i) = left \o right
  BY DEF RemoveAt, left, right
<1>6. IsSequence(left \o right)
  BY <1>4, IsSequenceOf
<1>7. \A j \in 1..Len(left \o right) : (left \o right)[j] \in elements
  BY <1>4, ElementOfSeq
<1> QED
  BY <1>5, <1>6, <1>7 DEF elements

\* Entries of the network's configuration, in some order
AreSent(sent, modified) ==
    /\ IsSequence(sent)
    /\ \A i \in 1..Len(sent) : \E s \in Sections : sent[i] = Rpc!Entry(NetValues, s, modified)

LEMMA SoundSends ==
    ASSUME NEW modified, NEW newest, NEW reply \in Rpc!Sound(NetValues, Asked, modified, newest)
    PROVE  /\ AreSent(reply.entries, modified)
           /\ \E e : reply = [entries |-> e, latest |-> newest]
           /\ Len(reply.entries) = Len(Asked)
<1> DEFINE sent == [i \in DOMAIN Asked |-> Rpc!Entry(NetValues, Asked[i], modified)]
           k == Len(Asked)
           IsSent(entry) == \E s \in Sections : entry = Rpc!Entry(NetValues, s, modified)
<1>1. k \in Nat /\ DOMAIN Asked = 1..k /\ \A i \in 1..k : Asked[i] \in Sections
  BY AskedOnce, SequenceDomain DEF ToSet
<1>2. DOMAIN sent = 1..k /\ sent = [i \in 1..k |-> sent[i]]
  BY <1>1
<1>3. \A i \in 1..k : IsSent(sent[i])
  BY <1>1
<1> HIDE DEF sent
<1>4. IsSequence(sent) /\ Len(sent) = k
  BY <1>1, <1>2, IsSequenceOn
<1>5. Reverse(sent) = [i \in 1..k |-> sent[k - i + 1]]
  BY <1>4 DEF Reverse
<1>6. DOMAIN Reverse(sent) = 1..k /\ Reverse(sent) = [i \in 1..k |-> Reverse(sent)[i]]
  BY <1>5
<1>7. IsSequence(Reverse(sent)) /\ Len(Reverse(sent)) = k
  BY <1>1, <1>6, IsSequenceOn
<1>8. \A i \in 1..k : k - i + 1 \in 1..k
  BY <1>1
<1>9. \A i \in 1..k : IsSent(Reverse(sent)[i])
  BY <1>3, <1>5, <1>8
<1>10. reply \in {[entries |-> sent, latest |-> newest], [entries |-> Reverse(sent), latest |-> newest]}
  BY DEF Rpc!Sound, Rpc!Reverse, Reverse, sent
<1> HIDE DEF IsSent
<1>11. PICK e \in {sent, Reverse(sent)} : reply = [entries |-> e, latest |-> newest]
  BY <1>10
<1>12. reply.entries = e /\ IsSequence(e) /\ Len(e) = k /\ \A i \in 1..k : IsSent(e[i])
  BY <1>3, <1>4, <1>7, <1>9, <1>11
<1> QED
  BY <1>11, <1>12 DEF AreSent, IsSent

\* Each entry of a reply is of the network's configuration, or garbled.
AreHonest(sent) ==
    /\ IsSequence(sent)
    /\ \A i \in 1..Len(sent) :
          sent[i].data \in {None, [of |-> sent[i].key, value |-> NetValues[sent[i].key]]}

LEMMA SentAreHonest ==
    ASSUME NEW sent, NEW modified, AreSent(sent, modified)
    PROVE  AreHonest(sent)
<1>1. \A s : /\ Rpc!Entry(NetValues, s, modified).key = s
             /\ Rpc!Entry(NetValues, s, modified).data = [of |-> s, value |-> NetValues[s]]
  BY DEF Rpc!Entry
<1>2. IsSequence(sent) /\ \A i \in 1..Len(sent) : \E s \in Sections : sent[i] = Rpc!Entry(NetValues, s, modified)
  BY DEF AreSent
<1>3. \A i \in 1..Len(sent) : sent[i].data = [of |-> sent[i].key, value |-> NetValues[sent[i].key]]
  BY <1>1, <1>2
<1> QED
  BY <1>2, <1>3 DEF AreHonest

LEMMA RepliesAreHonest ==
    ASSUME NEW r \in Replies
    PROVE  r[1] = None \/ AreHonest(r[1].entries)
<1> DEFINE Sent == UNION {Rpc!Sound(NetValues, Asked, m, l) : m \in {net.modified, None}, l \in {now, None}}
<1>1. \/ r[1] \in Rpc!Sound(NetValues, Asked, net.modified, now)
      \/ r[1] \in Rpc!Sound(NetValues, Asked, net.modified, None)
      \/ r[1] \in Rpc!Sound(NetValues, Asked, None, None)
      \/ r[1] \in Rpc!Faulty(NetValues, Asked, net.modified, now)
  BY DEF Replies, NetValues, Asked
<1>2. ASSUME NEW m, NEW l, r[1] \in Rpc!Sound(NetValues, Asked, m, l) PROVE AreHonest(r[1].entries)
  BY <1>2, SoundSends, SentAreHonest
<1>3. CASE r[1] \in Rpc!Faulty(NetValues, Asked, net.modified, now)
  <2> DEFINE m == net.modified
             Sound == Rpc!Sound(NetValues, Asked, m, now)
  <2>1. \/ r[1] = None
        \/ \E q \in Sound, i \in DOMAIN Asked : r[1] = [q EXCEPT !.entries = RemoveAt(@, i)]
        \/ \E q \in Sound, i \in DOMAIN Asked : r[1] = [q EXCEPT !.entries[i].data = None]
    <3>1. \/ r[1] = None
          \/ \E q \in Sound, i \in DOMAIN Asked : r[1] = [q EXCEPT !.entries = Rpc!RemoveAt(q.entries, i)]
          \/ \E q \in Sound, i \in DOMAIN Asked : r[1] = [q EXCEPT !.entries[i].data = None]
      <4> DEFINE without(q, i) == [q EXCEPT !.entries = Rpc!RemoveAt(q.entries, i)]
                 garbled(q, i) == [q EXCEPT !.entries[i].data = None]
      <4> HIDE DEF Sound
      <4>1. Rpc!Faulty(NetValues, Asked, m, now) =
              {None}
              \union {without(q, i) : q \in Sound, i \in DOMAIN Asked}
              \union {garbled(q, i) : q \in Sound, i \in DOMAIN Asked}
        BY DEF Rpc!Faulty, Sound
      <4> HIDE DEF without, garbled
      <4>2. \/ r[1] = None
            \/ \E q \in Sound, i \in DOMAIN Asked : r[1] = without(q, i)
            \/ \E q \in Sound, i \in DOMAIN Asked : r[1] = garbled(q, i)
        BY <1>3, <4>1
      <4> QED
        BY <4>2 DEF without, garbled
    <3>2. \A e, i : Rpc!RemoveAt(e, i) = RemoveAt(e, i)
      BY DEF Rpc!RemoveAt, RemoveAt
    <3> HIDE DEF Sound
    <3> QED
      BY <3>1, <3>2
  <2>2. ASSUME NEW q \in Sound, NEW i \in DOMAIN Asked
        PROVE  /\ AreSent(q.entries, m) /\ i \in 1..Len(q.entries)
               /\ DOMAIN q = {"entries", "latest"}
    BY SoundSends, AskedOnce
  <2>3. ASSUME NEW q \in Sound, NEW i \in DOMAIN Asked, r[1] = [q EXCEPT !.entries = RemoveAt(@, i)]
        PROVE  AreHonest(r[1].entries)
    <3>1. r[1].entries = RemoveAt(q.entries, i) /\ AreSent(q.entries, m) /\ i \in 1..Len(q.entries)
      BY <2>2, <2>3
    <3>2. AreSent(RemoveAt(q.entries, i), m)
      <4> DEFINE left == RemoveAt(q.entries, i)
      <4>1. IsSequence(left) /\ \A j \in 1..Len(left) : \E k \in 1..Len(q.entries) : left[j] = q.entries[k]
        BY <3>1, RemovedAt DEF AreSent
      <4> HIDE DEF left
      <4>2. AreSent(left, m)
        BY <3>1, <4>1 DEF AreSent
      <4> QED
        BY <4>2 DEF left
    <3> QED
      BY <3>1, <3>2, SentAreHonest
  <2>4. ASSUME NEW q \in Sound, NEW i \in DOMAIN Asked, r[1] = [q EXCEPT !.entries[i].data = None]
        PROVE  AreHonest(r[1].entries)
    <3> DEFINE e == q.entries
               garbled == [e[i] EXCEPT !.data = None]
    <3>1. AreSent(e, m) /\ i \in 1..Len(e) /\ r[1].entries = [e EXCEPT ![i] = garbled]
      BY <2>2, <2>4
    <3>2. garbled.data = None
      BY <3>1 DEF AreSent, Rpc!Entry
    <3>3. AreHonest(e) /\ Len(e) \in Nat /\ DOMAIN e = 1..Len(e)
      BY <3>1, SentAreHonest, SequenceDomain DEF AreSent
    <3> HIDE DEF e, garbled
    <3>4. /\ DOMAIN r[1].entries = 1..Len(e)
          /\ r[1].entries = [j \in 1..Len(e) |-> r[1].entries[j]]
          /\ \A j \in 1..Len(e) : r[1].entries[j] = IF j = i THEN garbled ELSE e[j]
      BY <3>1, <3>3
    <3>5. IsSequence(r[1].entries) /\ Len(r[1].entries) = Len(e)
      BY <3>3, <3>4, IsSequenceOn
    <3> QED
      BY <3>2, <3>3, <3>4, <3>5 DEF AreHonest
  <2> QED
    BY <2>1, <2>3, <2>4
<1> QED
  BY <1>1, <1>2, <1>3

\* A capture is of the network's configuration.
IsCurrent(config) ==
    /\ config.present = Sections
    /\ \A f \in Fields : config.value[f] = net.value[f]
    /\ config.kind \in {"good", "zero"}

LEMMA NumberedMax ==
    ASSUME NEW n \in Nat, NEW S, S \subseteq 1..n, S # {}
    PROVE  Rpc!Max(S) \in S
<1>1. IsFiniteSet(S)
  <2>1. IsFiniteSet(1..n) /\ S \in SUBSET (1..n)
    BY FS_Interval
  <2> QED
    BY <2>1, FS_Subset
<1>2. PICK greatest \in S : \A m \in S : m <= greatest
  <2>1. S \subseteq Nat
    OBVIOUS
  <2> QED
    BY <1>1, <2>1, FiniteMaximum
<1>3. \A m \in S : greatest >= m
  BY <1>2
<1> QED
  BY <1>3 DEF Rpc!Max

LEMMA CapturesCurrent ==
    ASSUME net.value \in [Fields -> AnyValue], NEW reply, reply = None \/ AreHonest(reply.entries)
    PROVE  Captured(reply) = None \/ IsCurrent(Captured(reply))
<1> DEFINE answer == Rpc!FetchAll(reply)
           built == Rpc!SnapshotOf(answer)
<1>1. built = None => Captured(reply) = None
  BY DEF Captured
<1>2. Rpc!Ids = Sections /\ \A s : Rpc!ToSet(s) = ToSet(s)
  BY AskedOnce DEF Rpc!Ids, Rpc!ToSet, ToSet, Asked
<1>3. IsSequence(Asked) /\ DOMAIN Asked = 1..Len(Asked) /\ Len(Asked) \in Nat
  BY AskedOnce, SequenceDomain
<1> SUFFICES ASSUME built # None PROVE IsCurrent(Captured(reply))
  BY <1>1
<1>4. answer # None /\ \A s \in Sections : answer[s].data # None
  BY <1>2 DEF Rpc!SnapshotOf
<1>5. reply # None /\ AreHonest(reply.entries)
  BY <1>4 DEF Rpc!FetchAll
<1> DEFINE e == reply.entries
           of(s) == {i \in DOMAIN e : e[i].key = s}
<1>6. Len(e) \in Nat /\ DOMAIN e = 1..Len(e)
  BY <1>5, SequenceDomain DEF AreHonest
<1>7. /\ \A s \in Sections : of(s) # {}
      /\ \A s \in Sections : answer[s].data = e[Rpc!Max(of(s))].data
  BY <1>2, <1>4, <1>5 DEF Rpc!FetchAll
<1>8. ASSUME NEW s \in Sections PROVE answer[s].data = [of |-> s, value |-> NetValues[s]]
  <2> DEFINE S == of(s)
  <2>1. S \subseteq 1..Len(e) /\ S # {}
    BY <1>6, <1>7
  <2>2. Rpc!Max(S) \in S
    <3> HIDE DEF S
    <3> QED
      BY <1>6, <2>1, NumberedMax
  <2>3. Rpc!Max(of(s)) \in 1..Len(e) /\ e[Rpc!Max(of(s))].key = s
    BY <1>6, <2>2
  <2>4. e[Rpc!Max(of(s))].data \in {None, [of |-> s, value |-> NetValues[s]]}
    <3> DEFINE k == Rpc!Max(of(s))
    <3> HIDE DEF k
    <3>1. k \in 1..Len(e) /\ e[k].key = s
      BY <2>3 DEF k
    <3>2. e[k].data \in {None, [of |-> s, value |-> NetValues[s]]}
      BY <1>5, <3>1 DEF AreHonest
    <3> QED
      BY <3>2 DEF k
  <2> QED
    BY <1>4, <1>7, <2>4
<1>8a. \A s \in Sections : answer[s].data.of = s /\ answer[s].data.value = NetValues[s]
  <2>1. ASSUME NEW s \in Sections PROVE answer[s].data.of = s /\ answer[s].data.value = NetValues[s]
    <3> HIDE DEF answer
    <3>1. answer[s].data = [of |-> s, value |-> NetValues[s]]
      BY <1>8
    <3> QED
      BY <3>1
  <2> QED
    BY <2>1
<1> HIDE DEF answer
<1> DEFINE place(t) == {i \in DOMAIN Asked : answer[Asked[i]].data.of = t}
<1>9. built = [t \in Sections |-> IF place(t) = {} THEN None ELSE answer[Asked[Rpc!Max(place(t))]].data.value]
  BY <1>2, <1>4 DEF Rpc!SnapshotOf, Asked
<1>10. ASSUME NEW t \in Sections PROVE built[t] = NetValues[t]
  <2> DEFINE P == place(t)
  <2>1. \A i \in DOMAIN Asked : Asked[i] \in Sections /\ answer[Asked[i]].data.of = Asked[i]
    <3>1. \A i \in DOMAIN Asked : Asked[i] \in Sections
      BY AskedOnce DEF ToSet
    <3> QED
      BY <1>8a, <3>1
  <2>2. P = {i \in DOMAIN Asked : Asked[i] = t}
    BY <2>1
  <2>3. P # {} /\ P \subseteq 1..Len(Asked)
    BY <1>3, <2>2, AskedOnce DEF ToSet
  <2>4. Rpc!Max(P) \in P
    <3> HIDE DEF P
    <3> QED
      BY <1>3, <2>3, NumberedMax
  <2>5. Asked[Rpc!Max(P)] = t
    BY <2>2, <2>4
  <2>6. built[t] = answer[Asked[Rpc!Max(P)]].data.value
    BY <1>9, <2>3
  <2> QED
    <3>1. answer[t].data.value = NetValues[t]
      BY <1>8a
    <3> QED
      BY <2>5, <2>6, <3>1
<1> HIDE DEF built
<1>11. \A t \in Sections : built[t] # None
  <2>1. ASSUME NEW t \in Sections PROVE NetValues[t] # None
    <3>1. NetValues[t] \in [SectionFields(t) -> AnyValue]
      BY DEF NetValues, SectionFields
    <3> QED
      BY <3>1, ConfigHistoryAssumption
  <2> QED
    BY <1>10, <2>1
<1>12. ASSUME NEW f \in Fields PROVE built[SectionOf[f]][f] = net.value[f]
  BY <1>10, ConfigDiffAssumption DEF NetValues, SectionFields
<1>13. /\ Captured(reply).present = {s \in Sections : built[s] # None}
       /\ \A f \in Fields : Captured(reply).value[f] = built[SectionOf[f]][f]
       /\ Captured(reply).kind \in {"good", "zero"}
  BY DEF Captured, built, answer
<1> QED
  BY <1>11, <1>12, <1>13 DEF IsCurrent

LEMMA CapturesAreCurrent ==
    ASSUME net.value \in [Fields -> AnyValue], NEW capture \in Captures
    PROVE  capture[1] = None \/ IsCurrent(capture[1])
BY RepliesAreHonest, CapturesCurrent DEF Captures

-----------------------------------------------------------------------------
LEMMA HistoryInitInv == HistoryInit => HistoryInv
<1> SUFFICES ASSUME HistoryInit PROVE HistoryInv
  OBVIOUS
<1>1. /\ net.value \in [Fields -> AnyValue] /\ DOMAIN net = {"value", "modified"}
      /\ files = <<>> /\ now = 1 /\ bundle = <<>> /\ out = Silent
  BY DEF HistoryInit
<1>2. DOMAIN files = {} /\ IsFiniteSet(DOMAIN files)
  <2>1. DOMAIN files = {}
    BY <1>1
  <2> QED
    BY <2>1, FS_EmptySet
<1>3. IsSequence(bundle) /\ Len(bundle) = 0
  BY <1>1, EmptySequence
<1>4. HistoryTypeOK
  BY <1>1, <1>2, <1>3 DEF HistoryTypeOK
<1>5. SavedDiff /\ HistoryShown
  BY <1>1 DEF SavedDiff, HistoryShown, Silent
<1> QED
  BY <1>4, <1>5 DEF HistoryInv

\* What no command asks for is not shown.
LEMMA NotShown ==
    ASSUME out'.cmd \notin {"diff", "history"}, HistoryTypeOK'
    PROVE  HistoryInv'
BY DEF HistoryInv, SavedDiff, HistoryShown

LEMMA TakenLater ==
    ASSUME NEW t, NEW clock \in Nat, NEW later \in Nat, clock <= later, Taken(t, clock)
    PROVE  Taken(t, later)
BY DEF Taken

\* A command that reads
LEMMA ReadKeeps ==
    ASSUME HistoryTypeOK, UNCHANGED <<net, files, now, bundle>>
    PROVE  HistoryTypeOK'
BY DEF HistoryTypeOK

LEMMA PutKeeps ==
    ASSUME HistoryTypeOK, NEW name, NEW snapshot, files' = Put(name, snapshot), UNCHANGED <<net, bundle>>,
           now' \in Nat, now <= now', now' = 1 \/ now' <= MaxTime,
           Taken(name, now') \/ name \in Manual, IsSnapshot(snapshot), Taken(snapshot.at, now')
    PROVE  HistoryTypeOK'
<1>1. now \in Nat /\ now' >= 1
  BY DEF HistoryTypeOK
<1>2. DOMAIN files' = DOMAIN files \union {name} /\ IsFiniteSet(DOMAIN files')
  <2>1. DOMAIN files' = DOMAIN files \union {name}
    BY DEF Put
  <2> QED
    BY <2>1, FS_AddElement DEF HistoryTypeOK
<1>3. ASSUME NEW n \in DOMAIN files'
      PROVE  /\ Taken(n, now') \/ n \in Manual
             /\ IsSnapshot(files'[n]) /\ Taken(files'[n].at, now')
  <2>1. CASE n = name
    <3>1. files'[n] = snapshot
      BY <1>2, <2>1 DEF Put
    <3> QED
      BY <2>1, <3>1
  <2>2. CASE n # name
    <3>1. n \in DOMAIN files /\ files'[n] = files[n]
      BY <1>2, <2>2 DEF Put
    <3>2. (Taken(n, now) \/ n \in Manual) /\ IsSnapshot(files[n]) /\ Taken(files[n].at, now)
      BY <3>1 DEF HistoryTypeOK
    <3> QED
      BY <1>1, <3>1, <3>2, TakenLater
  <2> QED
    BY <2>1, <2>2
<1>4. \A i \in 1..Len(bundle) : IsSnapshot(bundle[i]) /\ Taken(bundle[i].at, now')
  BY <1>1, TakenLater DEF HistoryTypeOK
<1> QED
  BY <1>1, <1>2, <1>3, <1>4 DEF HistoryTypeOK

LEMMA ReconfigureKeeps == HistoryInv /\ Reconfigure => HistoryInv'
<1> SUFFICES ASSUME HistoryInv, Reconfigure PROVE HistoryInv'
  OBVIOUS
<1>1. out' = Silent /\ UNCHANGED <<files, now, bundle>> /\ HistoryTypeOK
  BY DEF Reconfigure, HistoryInv
<1>2. net'.value \in [Fields -> AnyValue] /\ DOMAIN net' = {"value", "modified"}
  <2>1. CASE net' = [net EXCEPT !.modified = @ + 1]
    BY <1>1, <2>1 DEF HistoryTypeOK
  <2>2. CASE \E f \in Fields, v \in AnyValue :
                v \in Values[f] /\ net' = [net EXCEPT !.value[f] = v, !.modified = @ + 1]
    <3>1. PICK f \in Fields, v \in AnyValue : net' = [net EXCEPT !.value[f] = v, !.modified = @ + 1]
      BY <2>2
    <3>2. net'.value = [net.value EXCEPT ![f] = v] /\ DOMAIN net' = DOMAIN net
      BY <1>1, <3>1 DEF HistoryTypeOK
    <3> QED
      BY <1>1, <3>2 DEF HistoryTypeOK
  <2> QED
    BY <2>1, <2>2 DEF Reconfigure
<1>3. HistoryTypeOK'
  BY <1>1, <1>2 DEF HistoryTypeOK
<1> QED
  BY <1>1, <1>3, NotShown DEF Silent

LEMMA ForeignKeeps == HistoryInv /\ Foreign => HistoryInv'
<1> SUFFICES ASSUME HistoryInv, Foreign PROVE HistoryInv'
  OBVIOUS
<1>1. out' = Silent /\ UNCHANGED <<net, now, bundle>> /\ HistoryTypeOK
  BY DEF Foreign, HistoryInv
<1>2. PICK name \in 1..now-1 \union Manual \union {MaxTime}, odd \in Oddities :
         LET moment == IF name \in Manual THEN now - 1 ELSE name
             config == [present |-> odd.present, value |-> net.value, modified |-> net.modified]
         IN files' = Put(name, [Snapshot(moment, config, odd.extra, odd.kind) EXCEPT !.offset = odd.offset])
  BY DEF Foreign
<1> DEFINE instant == IF name \in Manual THEN now - 1 ELSE name
           config == [present |-> odd.present, value |-> net.value, modified |-> net.modified]
           snapshot == [Snapshot(instant, config, odd.extra, odd.kind) EXCEPT !.offset = odd.offset]
<1>a. odd.offset \in Int
  BY ConfigHistoryAssumption DEF Oddities, Ordinary
<1>3. now \in Nat /\ now >= 1 /\ (now = 1 \/ now <= MaxTime) /\ MaxTime \in Nat
  BY <1>1, ConfigHistoryAssumption DEF HistoryTypeOK
<1>4. Taken(name, now) \/ name \in Manual
  BY <1>3 DEF Taken
<1>5. Taken(instant, now)
  BY <1>3, <1>4 DEF Taken
<1>6. IsSnapshot(snapshot) /\ snapshot.at = instant
  BY <1>a DEF Snapshot, IsSnapshot
<1> HIDE DEF instant
<1>7. PICK stored : stored = snapshot
  OBVIOUS
<1>8. IsSnapshot(stored) /\ Taken(stored.at, now) /\ files' = Put(name, stored)
  BY <1>2, <1>5, <1>6, <1>7 DEF instant
<1>9. HistoryTypeOK'
  <2> HIDE DEF snapshot
  <2> QED
    BY <1>1, <1>3, <1>4, <1>8, PutKeeps
<1> QED
  BY <1>1, <1>9, NotShown DEF Silent

\* The instant of a save is that of no file.
LEMMA SaveKeeps ==
    ASSUME HistoryTypeOK, NEW saved, NEW config, Save(saved, config), UNCHANGED <<net, bundle>>
    PROVE  /\ HistoryTypeOK'
           /\ saved => /\ now' = now + 1 /\ now < MaxTime /\ now \notin DOMAIN files
                       /\ DOMAIN files' = DOMAIN files \union {now}
                       /\ files'[now] = Snapshot(now, config, None, config.kind)
                       /\ \A n \in DOMAIN files : files'[n] = files[n]
<1>1. CASE ~saved
  BY <1>1, ReadKeeps DEF Save
<1>2. CASE saved
  <2>1. PICK t, stored : t = now /\ stored = Snapshot(t, config, None, config.kind)
    OBVIOUS
  <2>2. now < MaxTime /\ now' = now + 1 /\ files' = Put(t, stored)
    BY <1>2, <2>1 DEF Save
  <2>3. now \in Nat /\ now >= 1 /\ MaxTime \in Nat /\ Manual \subseteq Nat /\ \A n \in Manual : n > MaxTime
    BY ConfigHistoryAssumption DEF HistoryTypeOK
  <2>4. IsSnapshot(stored) /\ stored.at = t
    BY <2>1 DEF Snapshot, IsSnapshot
  <2>5. Taken(t, now')
    BY <2>1, <2>2, <2>3 DEF Taken
  <2>6. HistoryTypeOK'
    BY <2>2, <2>3, <2>4, <2>5, PutKeeps
  <2>7. t \notin DOMAIN files
    BY <2>1, <2>2, <2>3 DEF HistoryTypeOK, Taken
  <2>8. /\ DOMAIN files' = DOMAIN files \union {t} /\ files'[t] = stored
        /\ \A n \in DOMAIN files : files'[n] = files[n]
    BY <2>2, <2>7 DEF Put
  <2> QED
    BY <2>1, <2>2, <2>6, <2>7, <2>8
<1> QED
  BY <1>1, <1>2

LEMMA TakeKeeps == HistoryInv /\ Take => HistoryInv'
<1> SUFFICES ASSUME HistoryInv, Take PROVE HistoryInv'
  OBVIOUS
<1>1. PICK capture \in Captures : Save(capture[1] # None, capture[1])
  BY DEF Take
<1>2. out' = Silent /\ UNCHANGED <<net, bundle>> /\ HistoryTypeOK
  BY DEF Take, HistoryInv
<1>3. HistoryTypeOK'
  BY <1>1, <1>2, SaveKeeps
<1> QED
  BY <1>2, <1>3, NotShown DEF Silent

\* What a saved snapshot differs in from another is what the configuration did, but for
\* settings_last_modified.
LEMMA SavedDifference ==
    ASSUME NEW old, NEW config, NEW new, NEW flags,
           new.present = config.present, new.value = config.value, new.extra = None
    PROVE  ButModified(Shown(DiffPayloads(old, UnknownFields(old), config, NoUnknownFields), flags))
             = ButModified(Shown(Difference(old, new), flags))
<1> DEFINE unknown(fields) == {Change(n, "unknown", 0, 0, TRUE) :
                                 n \in {m \in DOMAIN UnknownFields(old) : UnknownFields(old)[m] # fields[m]}}
<1>1. DiffSnapshots(old, config) = DiffSnapshots(old, new)
  BY DEF DiffSnapshots, SectionChanges, ValueChanges
<1>2. ButModified(unknown(NoUnknownFields)) = ButModified(unknown(UnknownFields(new)))
  <2>1. \A n : Change(n, "unknown", 0, 0, TRUE).path = n
    BY DEF Change
  <2>2. \A m \in DOMAIN UnknownFields(old) :
           m # "settings_last_modified" => NoUnknownFields[m] = UnknownFields(new)[m]
    BY DEF UnknownFields, NoUnknownFields
  <2> QED
    BY <2>1, <2>2 DEF ButModified
<1>3. /\ DiffPayloads(old, UnknownFields(old), config, NoUnknownFields)
           = DiffSnapshots(old, new) \union unknown(NoUnknownFields)
      /\ Difference(old, new) = DiffSnapshots(old, new) \union unknown(UnknownFields(new))
  BY <1>1 DEF DiffPayloads, Difference
<1> HIDE DEF unknown
<1> QED
  BY <1>2, <1>3 DEF ButModified, Shown, PricingOnly

\* config diff that saves: the snapshot is the newest, and the baseline was before it.
LEMMA SavedDiffHolds ==
    ASSUME HistoryTypeOK, NEW flags, NEW config, NEW base, NEW changes,
           IsCurrent(config), base = LiveBase(flags), base \in DOMAIN files, Loads(base),
           changes = Shown(DiffPayloads(files[base], UnknownFields(files[base]), config, NoUnknownFields), flags),
           Save(TRUE, config), UNCHANGED <<net, bundle>>,
           out'.base = base, out'.flags = flags, out'.changes = changes
    PROVE  SavedDiff'
<1>1. PICK t : t = now
  OBVIOUS
<1>2. /\ now' = t + 1 /\ t < MaxTime /\ t \notin DOMAIN files /\ DOMAIN files' = DOMAIN files \union {t}
      /\ files'[t] = Snapshot(t, config, None, config.kind)
      /\ \A n \in DOMAIN files : files'[n] = files[n]
  BY <1>1, SaveKeeps
<1>3. t \in Nat /\ t >= 1 /\ MaxTime \in Nat /\ Manual \subseteq Nat /\ \A n \in Manual : n > MaxTime
  BY <1>1, ConfigHistoryAssumption DEF HistoryTypeOK
<1>4. now' - 1 = t /\ now' > 1
  BY <1>2, <1>3
<1> DEFINE new == files'[t]
<1>5. /\ new.present = config.present /\ new.value = config.value /\ new.extra = None /\ new.kind = config.kind
      /\ new.kind \notin {"bad", "unreadable"} /\ new.present = Sections /\ \A f \in Fields : new.value[f] = net.value[f]
  BY <1>2 DEF Snapshot, IsCurrent
<1>6. base # t /\ files'[base] = files[base] /\ files'[base].kind \notin {"bad", "unreadable"}
  BY <1>2 DEF Loads, Supported
<1>7. ButModified(changes) = ButModified(Shown(Difference(files'[base], files'[t]), flags))
  <2>1. PICK old, saved : old = files[base] /\ saved = files'[t]
    OBVIOUS
  <2>2. ButModified(Shown(DiffPayloads(old, UnknownFields(old), config, NoUnknownFields), flags))
          = ButModified(Shown(Difference(old, saved), flags))
    <3>1. saved.present = config.present /\ saved.value = config.value /\ saved.extra = None
      BY <1>5, <2>1
    <3> HIDE DEF new
    <3> QED
      BY <3>1, SavedDifference
  <2> QED
    BY <1>6, <2>1, <2>2
<1>8. ASSUME flags.against = None, \A n \in DOMAIN files' : n < t + 1
      PROVE  \A n \in DOMAIN files' \ {t} : n <= base
  <2>1. ASSUME NEW n \in DOMAIN files PROVE n \in Nat /\ n \in Stamps
    <3>1. n \in Nat /\ n < t + 1
      BY <1>1, <1>2, <1>3, <1>8 DEF HistoryTypeOK, Taken
    <3> QED
      BY <1>2, <1>3, <3>1 DEF Stamps
  <2>2. DOMAIN files \intersect Stamps = DOMAIN files
    BY <2>1
  <2>3. IsFiniteSet(DOMAIN files) /\ DOMAIN files \subseteq Nat /\ DOMAIN files # {}
    BY <2>1 DEF HistoryTypeOK
  <2>4. base = Max(DOMAIN files)
    <3>1. files # <<>>
      BY <2>3
    <3>2. base = Latest
      BY <1>8, <3>1 DEF LiveBase
    <3> QED
      BY <2>2, <2>3, <3>2 DEF Latest
  <2>5. \A n \in DOMAIN files : n <= base
    BY <2>3, <2>4, FiniteMaximum
  <2> QED
    BY <1>2, <2>5
<1> HIDE DEF new
<1> QED
  BY <1>2, <1>4, <1>5, <1>6, <1>7, <1>8 DEF SavedDiff, Loads, Supported, new

LEMMA LiveDiffKeeps == HistoryInv /\ LiveDiff => HistoryInv'
<1> SUFFICES ASSUME HistoryInv, LiveDiff PROVE HistoryInv'
  OBVIOUS
<1>1. UNCHANGED <<net, bundle>> /\ HistoryTypeOK
  BY DEF LiveDiff, HistoryInv
<1>2. PICK flags \in DiffFlags, capture \in Captures :
          LET base == LiveBase(flags)
              config == capture[1] IN
             IF config = None \/ base \notin DOMAIN files \/ (base \in DOMAIN files /\ ~Loads(base))
             THEN out' = Failure("diff") /\ UNCHANGED <<now, files>>
             ELSE LET changes == Shown(DiffPayloads(files[base], UnknownFields(files[base]), config, NoUnknownFields), flags)
               IN \E saved \in {HasPricing(changes), FALSE} :
                     /\ Save(saved, config)
                     /\ out' = [Silent EXCEPT !.cmd = "diff", !.base = base, !.flags = flags, !.changes = changes,
                                              !.exit = ExitCode(changes, flags), !.saved = saved]
  BY DEF LiveDiff
<1>3. PICK base, config : base = LiveBase(flags) /\ config = capture[1]
  OBVIOUS
<1>4. CASE config = None \/ base \notin DOMAIN files \/ (base \in DOMAIN files /\ ~Loads(base))
  <2>1. out' = Failure("diff") /\ UNCHANGED <<now, files>>
    BY <1>2, <1>3, <1>4
  <2>2. out'.cmd = "diff" /\ ~out'.saved
    BY <2>1 DEF Failure, Silent
  <2>3. HistoryTypeOK'
    BY <1>1, <2>1, ReadKeeps
  <2> QED
    BY <2>2, <2>3 DEF HistoryInv, SavedDiff, HistoryShown
<1>5. CASE ~(config = None \/ base \notin DOMAIN files \/ (base \in DOMAIN files /\ ~Loads(base)))
  <2>1. PICK changes : changes = Shown(DiffPayloads(files[base], UnknownFields(files[base]), config, NoUnknownFields), flags)
    OBVIOUS
  <2>2. PICK saved \in {HasPricing(changes), FALSE} :
           /\ Save(saved, config)
           /\ out' = [Silent EXCEPT !.cmd = "diff", !.base = base, !.flags = flags, !.changes = changes,
                                    !.exit = ExitCode(changes, flags), !.saved = saved]
    BY <1>2, <1>3, <1>5, <2>1
  <2>3. /\ out'.cmd = "diff" /\ out'.saved = saved
        /\ out'.base = base /\ out'.flags = flags /\ out'.changes = changes
    BY <2>2 DEF Silent
  <2>4. HistoryTypeOK'
    BY <1>1, <2>2, SaveKeeps
  <2>5. saved \in BOOLEAN
    BY <2>2 DEF HasPricing
  <2>6. CASE saved
    <3>1. IsCurrent(config)
      BY <1>1, <1>3, <1>5, CapturesAreCurrent DEF HistoryTypeOK
    <3>2. Save(TRUE, config)
      BY <2>2, <2>5, <2>6
    <3>3. SavedDiff'
      BY <1>1, <1>3, <1>5, <2>1, <2>3, <3>1, <3>2, SavedDiffHolds
    <3> QED
      BY <2>3, <2>4, <3>3 DEF HistoryInv, HistoryShown
  <2>7. CASE ~saved
    BY <2>3, <2>4, <2>7 DEF HistoryInv, SavedDiff, HistoryShown
  <2> QED
    BY <2>6, <2>7
<1> QED
  BY <1>4, <1>5

-----------------------------------------------------------------------------
LEMMA WithoutKeeps ==
    ASSUME HistoryTypeOK, NEW names, files' = Without(names), UNCHANGED <<net, now, bundle>>
    PROVE  HistoryTypeOK'
<1>1. DOMAIN files' = DOMAIN files \ names /\ \A n \in DOMAIN files' : files'[n] = files[n]
  BY DEF Without
<1>2. IsFiniteSet(DOMAIN files')
  <2>1. IsFiniteSet(DOMAIN files)
    BY DEF HistoryTypeOK
  <2>2. IsFiniteSet(DOMAIN files \ names)
    BY <2>1, FS_Difference
  <2> QED
    BY <1>1, <2>2
<1>3. \A n \in DOMAIN files' : /\ Taken(n, now) \/ n \in Manual
                               /\ IsSnapshot(files'[n]) /\ Taken(files'[n].at, now)
  BY <1>1 DEF HistoryTypeOK
<1> QED
  BY <1>2, <1>3 DEF HistoryTypeOK

LEMMA DeletesKeep == HistoryInv /\ (Delete \/ DeleteOlder) => HistoryInv'
<1> SUFFICES ASSUME HistoryInv, Delete \/ DeleteOlder PROVE HistoryInv'
  OBVIOUS
<1>1. PICK names : files' = Without(names)
  BY DEF Delete, DeleteOlder
<1>2. HistoryTypeOK /\ out' = Silent /\ UNCHANGED <<net, now, bundle>>
  BY DEF HistoryInv, Delete, DeleteOlder
<1>3. HistoryTypeOK'
  BY <1>1, <1>2, WithoutKeeps
<1> QED
  BY <1>2, <1>3, NotShown DEF Silent

\* A command that reads, and shows nothing to be remembered
LEMMA ReadersKeep == HistoryInv /\ (PreviousDiff \/ CompareFiles \/ Validate \/ List) => HistoryInv'
<1> SUFFICES ASSUME HistoryInv, PreviousDiff \/ CompareFiles \/ Validate \/ List PROVE HistoryInv'
  OBVIOUS
<1>1. UNCHANGED <<net, files, now, bundle>> /\ HistoryTypeOK
  BY DEF PreviousDiff, CompareFiles, Validate, List, HistoryInv
<1>2. out'.cmd \in {"previous", "none"}
  <2>1. CASE PreviousDiff
    BY <2>1 DEF PreviousDiff, Failure, Silent
  <2>2. CASE CompareFiles
    BY <2>2 DEF CompareFiles, Failure, Silent
  <2>3. CASE Validate
    BY <2>3 DEF Validate, Silent
  <2>4. CASE List
    BY <2>4 DEF List, Failure, Silent
  <2> QED
    BY <2>1, <2>2, <2>3, <2>4
<1>3. HistoryTypeOK'
  BY <1>1, ReadKeeps
<1> QED
  BY <1>2, <1>3, NotShown

LEMMA HistoryKeeps == HistoryInv /\ History => HistoryInv'
<1> SUFFICES ASSUME HistoryInv, History PROVE HistoryInv'
  OBVIOUS
<1>1. UNCHANGED <<net, files, now, bundle>> /\ HistoryTypeOK
  BY DEF History, HistoryInv
<1>2. HistoryTypeOK'
  BY <1>1, ReadKeeps
<1>3. /\ out'.cmd = "history"
      /\ IF out'.failed THEN \E n \in DOMAIN files : ~Loads(n) ELSE out'.last = LastChanged(ChangeLog)
  BY DEF History, Failure, Silent
<1>4. ChangeLog' = ChangeLog
  BY <1>1 DEF ChangeLog, Successive, Before, TextBefore, SameText, Changed
<1>5. HistoryShown'
  BY <1>1, <1>3, <1>4 DEF HistoryShown, Loads
<1>6. SavedDiff'
  BY <1>3 DEF SavedDiff
<1> QED
  BY <1>2, <1>5, <1>6 DEF HistoryInv

-----------------------------------------------------------------------------
LEMMA NamesAreNumbers ==
    ASSUME HistoryTypeOK
    PROVE  DOMAIN files \subseteq Nat /\ \A n \in DOMAIN files : files[n].at \in Nat /\ files[n].at <= MaxTime
<1>1. ASSUME NEW n \in DOMAIN files
      PROVE  n \in Nat /\ files[n].at \in Nat /\ files[n].at <= MaxTime
  <2>1. MaxTime \in Nat /\ Manual \subseteq Nat /\ now \in Nat /\ (now = 1 \/ now <= MaxTime)
    BY ConfigHistoryAssumption DEF HistoryTypeOK
  <2>2. (Taken(n, now) \/ n \in Manual) /\ Taken(files[n].at, now)
    BY DEF HistoryTypeOK
  <2>3. n \in Nat
    BY <2>1, <2>2 DEF Taken
  <2>4. PICK t : t = files[n].at
    OBVIOUS
  <2>5. t \in Nat /\ t <= MaxTime
    BY <2>1, <2>2, <2>4 DEF Taken
  <2> QED
    BY <2>3, <2>4, <2>5
<1> QED
  BY <1>1

LEMMA ExportKeeps == HistoryInv /\ Export => HistoryInv'
<1> SUFFICES ASSUME HistoryInv, Export PROVE HistoryInv'
  OBVIOUS
<1>1. out' \in {Silent, Failure("none")} /\ UNCHANGED <<net, files, now>> /\ HistoryTypeOK
  BY DEF Export, HistoryInv
<1>a. out'.cmd = "none"
  <2>1. Silent.cmd = "none" /\ Failure("none").cmd = "none"
    BY DEF Silent, Failure
  <2> QED
    BY <1>1, <2>1
<1>b. CASE bundle' = bundle
  <2>1. HistoryTypeOK'
    BY <1>1, <1>b, ReadKeeps
  <2> QED
    BY <1>1, <1>a, <2>1, NotShown
<1> SUFFICES ASSUME bundle' # bundle PROVE HistoryInv'
  BY <1>b
<1> DEFINE S == {n \in DOMAIN files : Loads(n)}
           names == InOrder(S)
           n == Cardinality(S)
<1>2. S \subseteq Nat /\ IsFiniteSet(S) /\ S \subseteq DOMAIN files
  <2>1. S \in SUBSET (DOMAIN files) /\ IsFiniteSet(DOMAIN files)
    BY <1>1 DEF HistoryTypeOK
  <2>2. IsFiniteSet(S)
    BY <2>1, FS_Subset
  <2> QED
    BY <1>1, <2>1, <2>2, NamesAreNumbers
<1>3. bundle' = [i \in DOMAIN names |-> [files[names[i]] EXCEPT !.extra = None]]
  BY DEF Export
<1> HIDE DEF S
<1>4. DOMAIN names = 1..n /\ n \in Nat /\ \A i \in 1..n : names[i] \in S
  BY <1>2, InOrderMembers
<1> HIDE DEF names, n
<1>5. DOMAIN bundle' = 1..n /\ bundle' = [i \in 1..n |-> bundle'[i]]
  BY <1>3, <1>4
<1>6. IsSequence(bundle') /\ Len(bundle') = n
  BY <1>4, <1>5, IsSequenceOn
<1>7. ASSUME NEW i \in 1..n PROVE IsSnapshot(bundle'[i]) /\ Taken(bundle'[i].at, now)
  <2>1. names[i] \in DOMAIN files /\ bundle'[i] = [files[names[i]] EXCEPT !.extra = None]
    BY <1>2, <1>3, <1>4
  <2>2. IsSnapshot(files[names[i]]) /\ Taken(files[names[i]].at, now)
    BY <1>1, <2>1 DEF HistoryTypeOK
  <2>3. IsSnapshot(bundle'[i]) /\ bundle'[i].at = files[names[i]].at
    BY <2>1, <2>2 DEF IsSnapshot
  <2> QED
    BY <2>2, <2>3
<1>8. HistoryTypeOK'
  BY <1>1, <1>6, <1>7 DEF HistoryTypeOK
<1> QED
  BY <1>1, <1>a, <1>8, NotShown

LEMMA ForeignEntryKeeps == HistoryInv /\ ForeignEntry => HistoryInv'
<1> SUFFICES ASSUME HistoryInv, ForeignEntry PROVE HistoryInv'
  OBVIOUS
<1>1. out' = Silent /\ UNCHANGED <<net, files, now>> /\ HistoryTypeOK
  BY DEF ForeignEntry, HistoryInv
<1>2. PICK i \in 1..Len(bundle) : bundle' = [bundle EXCEPT ![i].kind = "bad"]
  BY DEF ForeignEntry
<1>3. Len(bundle) \in Nat /\ DOMAIN bundle = 1..Len(bundle)
  BY <1>1, SequenceDomain DEF HistoryTypeOK
<1>4. DOMAIN bundle' = 1..Len(bundle) /\ bundle' = [j \in 1..Len(bundle) |-> bundle'[j]]
  BY <1>2, <1>3
<1>5. IsSequence(bundle') /\ Len(bundle') = Len(bundle)
  BY <1>3, <1>4, IsSequenceOn
<1>6. ASSUME NEW j \in 1..Len(bundle) PROVE IsSnapshot(bundle'[j]) /\ Taken(bundle'[j].at, now)
  <2>1. IsSnapshot(bundle[j]) /\ Taken(bundle[j].at, now)
    BY <1>1 DEF HistoryTypeOK
  <2>2. bundle'[j] = bundle[j] \/ bundle'[j] = [bundle[j] EXCEPT !.kind = "bad"]
    BY <1>2, <1>3
  <2>3. IsSnapshot(bundle'[j]) /\ bundle'[j].at = bundle[j].at
    BY <2>1, <2>2 DEF IsSnapshot
  <2> QED
    BY <2>1, <2>3
<1>7. HistoryTypeOK'
  BY <1>1, <1>5, <1>6 DEF HistoryTypeOK
<1> QED
  BY <1>1, <1>7, NotShown DEF Silent

\* What an import takes of a bundle: its first entries, all of them if it supports them.
LEMMA ImportableIs ==
    ASSUME HistoryTypeOK
    PROVE  \E k \in Nat : /\ k <= Len(bundle) /\ DOMAIN Importable = 1..k
                          /\ \A i \in 1..k : Importable[i] = bundle[i]
<1> DEFINE newer == {i \in DOMAIN bundle : ~Supported(bundle[i])}
           n == Len(bundle)
<1>1. n \in Nat /\ DOMAIN bundle = 1..n
  BY SequenceDomain DEF HistoryTypeOK
<1>2. CASE newer = {}
  <2>1. Importable = bundle
    BY <1>2 DEF Importable
  <2>2. n <= Len(bundle) /\ DOMAIN Importable = 1..n /\ \A i \in 1..n : Importable[i] = bundle[i]
    BY <1>1, <2>1
  <2> QED
    BY <1>1, <2>2
<1>3. CASE newer # {}
  <2> DEFINE cut == Min(newer)
  <2>1. newer \subseteq Nat
    BY <1>1
  <2>2. cut \in newer
    <3> HIDE DEF newer
    <3> QED
      BY <1>3, <2>1, NatMinimum
  <2>3. cut \in 1..n
    BY <1>1, <2>2
  <2>4. Importable = SubSeq(bundle, 1, cut - 1)
    BY <1>3 DEF Importable
  <2> HIDE DEF cut
  <2>5. /\ Len(SubSeq(bundle, 1, cut - 1)) = cut - 1
        /\ DOMAIN SubSeq(bundle, 1, cut - 1) = 1..cut - 1
        /\ \A i \in 1..cut - 1 : SubSeq(bundle, 1, cut - 1)[i] = bundle[i]
    <3> DEFINE elements == {bundle[i] : i \in 1..Len(bundle)}
               part == SubSeq(bundle, 1, cut - 1)
    <3>1. bundle \in Seq(elements) /\ \A i \in 1..Len(bundle) : bundle[i] \in elements
      BY DEF HistoryTypeOK, IsSequence
    <3> HIDE DEF elements
    <3>2. \A i \in 1..cut - 1 : bundle[i] \in elements
      BY <1>1, <2>3, <3>1
    <3>3. /\ part \in Seq(elements) /\ Len(part) = IF 1 <= cut - 1 THEN cut - 1 - 1 + 1 ELSE 0
          /\ \A i \in 1..cut - 1 - 1 + 1 : part[i] = bundle[1 + i - 1]
      BY <2>3, <3>1, <3>2, SubSeqProperties
    <3> HIDE DEF part
    <3>4. Len(part) = cut - 1 /\ \A i \in 1..cut - 1 : part[i] = bundle[i]
      BY <2>3, <3>3
    <3>5. DOMAIN part = 1..cut - 1
      BY <3>3, <3>4, LenProperties
    <3> QED
      BY <3>4, <3>5 DEF part
  <2>6. cut - 1 \in Nat /\ cut - 1 <= n
    BY <1>1, <2>3
  <2> QED
    BY <2>4, <2>5, <2>6
<1> QED
  BY <1>2, <1>3

\* What an import makes of the files: those that were there, and the first entry of each instant.
LEMMA Imported ==
    ASSUME HistoryTypeOK, Import
    PROVE  \E k \in Nat :
             /\ k <= Len(bundle)
             /\ DOMAIN Importable = 1..k /\ \A i \in 1..k : Importable[i] = bundle[i]
             /\ DOMAIN files' = DOMAIN files \union {bundle[i].at : i \in 1..k}
             /\ \A n \in DOMAIN files : files'[n] = files[n]
             /\ \A n \in DOMAIN files' \ DOMAIN files :
                   \E i \in 1..k : bundle[i].at = n /\ files'[n] = bundle[i]
<1> DEFINE e == Importable
           FirstOf(t) == CHOOSE i \in DOMAIN e : e[i].at = t /\ \A j \in 1..i-1 : e[j].at # t
<1>1. PICK k \in Nat : k <= Len(bundle) /\ DOMAIN e = 1..k /\ \A i \in 1..k : e[i] = bundle[i]
  BY ImportableIs
<1>2. files' = [n \in DOMAIN files \union {e[i].at : i \in DOMAIN e} |->
                  IF n \in DOMAIN files THEN files[n] ELSE e[FirstOf(n)]]
  BY DEF Import
<1> HIDE DEF e
<1>3. {e[i].at : i \in DOMAIN e} = {bundle[i].at : i \in 1..k}
  BY <1>1
<1>4. DOMAIN files' = DOMAIN files \union {bundle[i].at : i \in 1..k}
  BY <1>2, <1>3
<1>5. \A n \in DOMAIN files : files'[n] = files[n]
  BY <1>2
<1>6. ASSUME NEW n \in DOMAIN files' \ DOMAIN files
      PROVE  \E i \in 1..k : bundle[i].at = n /\ files'[n] = bundle[i]
  <2> DEFINE places == {i \in 1..k : e[i].at = n}
  <2>1. places \subseteq Nat /\ places # {}
    BY <1>1, <1>4, <1>6
  <2>2. PICK least \in places : \A i \in places : least <= i
    <3> HIDE DEF places
    <3> QED
      BY <2>1, NatMinimum
  <2>3. least \in 1..k /\ e[least].at = n /\ \A j \in 1..least-1 : e[j].at # n
    BY <1>1, <2>2
  <2>4. FirstOf(n) \in DOMAIN e /\ e[FirstOf(n)].at = n
    BY <1>1, <2>3
  <2>5. files'[n] = e[FirstOf(n)]
    BY <1>2, <1>6
  <2> HIDE DEF FirstOf
  <2> QED
    BY <1>1, <2>4, <2>5
<1> QED
  BY <1>1, <1>4, <1>5, <1>6 DEF e

LEMMA ImportKeeps == HistoryInv /\ Import => HistoryInv'
<1> SUFFICES ASSUME HistoryInv, Import PROVE HistoryInv'
  OBVIOUS
<1>1. out'.cmd = "import" /\ bundle' = <<>> /\ UNCHANGED <<net, now>> /\ HistoryTypeOK
  BY DEF Import, Silent, HistoryInv
<1>2. PICK k \in Nat :
        /\ k <= Len(bundle)
        /\ DOMAIN files' = DOMAIN files \union {bundle[i].at : i \in 1..k}
        /\ \A n \in DOMAIN files : files'[n] = files[n]
        /\ \A n \in DOMAIN files' \ DOMAIN files :
              \E i \in 1..k : bundle[i].at = n /\ files'[n] = bundle[i]
  BY <1>1, Imported
<1>3. IsFiniteSet(DOMAIN files')
  <2> DEFINE ats == {bundle[i].at : i \in 1..k}
             f == [i \in 1..k |-> bundle[i].at]
  <2>1. f \in Surjection(1..k, ats)
    BY DEF Surjection
  <2>2. IsFiniteSet(1..k)
    BY FS_Interval
  <2>3. IsFiniteSet(ats)
    <3> HIDE DEF f, ats
    <3> QED
      BY <2>1, <2>2, FS_Surjection
  <2>4. IsFiniteSet(DOMAIN files)
    BY <1>1 DEF HistoryTypeOK
  <2> HIDE DEF ats
  <2>5. IsFiniteSet(DOMAIN files \union ats)
    BY <2>3, <2>4, FS_Union
  <2> QED
    BY <1>2, <2>5 DEF ats
<1>4. ASSUME NEW n \in DOMAIN files'
      PROVE  /\ Taken(n, now) \/ n \in Manual
             /\ IsSnapshot(files'[n]) /\ Taken(files'[n].at, now)
  <2>1. CASE n \in DOMAIN files
    BY <1>1, <1>2, <2>1 DEF HistoryTypeOK
  <2>2. CASE n \notin DOMAIN files
    <3>1. PICK i \in 1..k : bundle[i].at = n /\ files'[n] = bundle[i]
      BY <1>2, <1>4, <2>2
    <3>2. i \in 1..Len(bundle)
      BY <1>2
    <3> QED
      BY <1>1, <3>1, <3>2 DEF HistoryTypeOK
  <2> QED
    BY <2>1, <2>2
<1>5. IsSequence(bundle') /\ Len(bundle') = 0
  BY <1>1, EmptySequence
<1>6. HistoryTypeOK'
  BY <1>1, <1>3, <1>4, <1>5 DEF HistoryTypeOK
<1> QED
  BY <1>1, <1>6, NotShown

-----------------------------------------------------------------------------
LEMMA HistoryStep == HistoryInv /\ [HistoryNext]_history_vars => HistoryInv'
<1> SUFFICES ASSUME HistoryInv, [HistoryNext]_history_vars PROVE HistoryInv'
  OBVIOUS
<1>1. CASE UNCHANGED history_vars
  <2>1. UNCHANGED <<net, files, now, foreign, bundle, out>>
    BY <1>1 DEF history_vars
  <2>2. HistoryTypeOK'
    BY <2>1, ReadKeeps DEF HistoryInv
  <2>3. ChangeLog' = ChangeLog
    BY <2>1 DEF ChangeLog, Successive, Before, TextBefore, SameText, Changed
  <2> QED
    BY <2>1, <2>2, <2>3 DEF HistoryInv, SavedDiff, HistoryShown, Loads
<1>2. CASE HistoryNext
  BY <1>2, ReconfigureKeeps, ForeignKeeps, TakeKeeps, LiveDiffKeeps, ReadersKeep, HistoryKeeps,
     DeletesKeep, ExportKeeps, ForeignEntryKeeps, ImportKeeps DEF HistoryNext
<1> QED
  BY <1>1, <1>2

-----------------------------------------------------------------------------
\* The inductive invariant of the commands on stored snapshots: the instants of files and of the
\* bundle, what a saving config diff leaves, and what last-changed shows.
THEOREM HistoryInvariant == HistorySpec => []HistoryInv
<1>1. HistoryInit => HistoryInv
  BY HistoryInitInv
<1>2. HistoryInv /\ [HistoryNext]_history_vars => HistoryInv'
  BY HistoryStep
<1> QED
  BY <1>1, <1>2, PTL DEF HistorySpec

\* Which command it was that showed something
LEMMA ShownBy ==
    ASSUME HistoryNext
    PROVE  /\ out'.cmd = "import" => Import
           /\ out'.cmd = "diff" => LiveDiff
           /\ out'.cmd = "previous" => PreviousDiff
<1>1. PreviousDiff => out'.cmd = "previous"
  BY DEF PreviousDiff, Failure, Silent
<1>2. CompareFiles => out'.cmd = "none"
  BY DEF CompareFiles, Failure, Silent
<1>3. Validate => out'.cmd = "none"
  BY DEF Validate, Silent
<1>4. List => out'.cmd = "none"
  BY DEF List, Failure, Silent
<1>5. History => out'.cmd = "history"
  BY DEF History, Failure, Silent
<1>6. LiveDiff => out'.cmd = "diff"
  BY DEF LiveDiff, Failure, Silent
<1>7. Import => out'.cmd = "import"
  BY DEF Import, Silent
<1>8. Reconfigure \/ Foreign \/ Take \/ Delete \/ DeleteOlder \/ Export \/ ForeignEntry => out'.cmd = "none"
  <2>1. Silent.cmd = "none" /\ Failure("none").cmd = "none"
    BY DEF Silent, Failure
  <2>2. Reconfigure \/ Foreign \/ Take => out' = Silent
    BY DEF Reconfigure, Foreign, Take
  <2>3. Delete \/ DeleteOlder \/ Export \/ ForeignEntry => out' \in {Silent, Failure("none")}
    BY DEF Delete, DeleteOlder, Export, ForeignEntry
  <2> QED
    BY <2>1, <2>2, <2>3
<1> QED
  BY <1>1, <1>2, <1>3, <1>4, <1>5, <1>6, <1>7, <1>8 DEF HistoryNext

LEMMA ImportRestores ==
    ASSUME HistoryTypeOK, Import, ~out'.failed
    PROVE  /\ \A n \in DOMAIN files : n \in DOMAIN files' /\ files'[n] = files[n]
           /\ \A i \in DOMAIN bundle :
                 LET t == bundle[i].at IN
                 /\ t \in DOMAIN files'
                 /\ t \notin DOMAIN files /\ (\A j \in DOMAIN bundle : bundle[j].at = t => j = i) =>
                       \A f \in Fields : Same(files'[t], bundle[i], f)
<1>1. PICK k \in Nat :
        /\ k <= Len(bundle)
        /\ DOMAIN Importable = 1..k /\ \A i \in 1..k : Importable[i] = bundle[i]
        /\ DOMAIN files' = DOMAIN files \union {bundle[i].at : i \in 1..k}
        /\ \A n \in DOMAIN files : files'[n] = files[n]
        /\ \A n \in DOMAIN files' \ DOMAIN files :
              \E i \in 1..k : bundle[i].at = n /\ files'[n] = bundle[i]
  BY Imported
<1>2. \A i \in DOMAIN bundle : Supported(bundle[i])
  BY DEF Import, Silent
<1>3. Importable = bundle
  BY <1>2 DEF Importable
<1>4. DOMAIN bundle = 1..k
  BY <1>1, <1>3
<1>5. ASSUME NEW i \in DOMAIN bundle
      PROVE  /\ bundle[i].at \in DOMAIN files'
             /\ bundle[i].at \notin DOMAIN files /\ (\A j \in DOMAIN bundle : bundle[j].at = bundle[i].at => j = i) =>
                   \A f \in Fields : Same(files'[bundle[i].at], bundle[i], f)
  <2>1. bundle[i].at \in DOMAIN files'
    BY <1>1, <1>4
  <2>2. ASSUME bundle[i].at \notin DOMAIN files, \A j \in DOMAIN bundle : bundle[j].at = bundle[i].at => j = i
        PROVE  files'[bundle[i].at] = bundle[i]
    <3>1. PICK j \in 1..k : bundle[j].at = bundle[i].at /\ files'[bundle[i].at] = bundle[j]
      BY <1>1, <2>1, <2>2
    <3> QED
      BY <1>4, <2>2, <3>1
  <2> QED
    BY <2>1, <2>2 DEF Same
<1> QED
  BY <1>1, <1>5

\* An import that does not fail puts every entry of its bundle on disk, and changes nothing that
\* was there (export_snapshots, import_snapshots), for any bundle and any files.
THEOREM ImportsRestore == HistorySpec => BundleRestores
<1>1. HistoryInv /\ [HistoryNext]_history_vars =>
        [out'.cmd = "import" /\ ~out'.failed =>
           /\ \A n \in DOMAIN files : n \in DOMAIN files' /\ files'[n] = files[n]
           /\ \A i \in DOMAIN bundle :
                 LET t == bundle[i].at IN
                 /\ t \in DOMAIN files'
                 /\ t \notin DOMAIN files /\ (\A j \in DOMAIN bundle : bundle[j].at = t => j = i) =>
                       \A f \in Fields : Same(files'[t], bundle[i], f)]_history_vars
  <2> QED
    BY ShownBy, ImportRestores DEF HistoryInv
<1> QED
  BY <1>1, HistoryInvariant, PTL DEF HistorySpec, BundleRestores

-----------------------------------------------------------------------------
\* What a config diff that has not failed reports
LEMMA LiveDiffReports ==
    ASSUME HistoryTypeOK, LiveDiff, ~out'.failed
    PROVE  \E config, base :
             /\ IsCurrent(config)
             /\ base = LiveBase(out'.flags) /\ base \in DOMAIN files
             /\ out'.changes = Shown(DiffPayloads(files[base], UnknownFields(files[base]), config, NoUnknownFields),
                                     out'.flags)
<1>1. PICK flags \in DiffFlags, capture \in Captures :
          LET base == LiveBase(flags)
              config == capture[1] IN
             IF config = None \/ base \notin DOMAIN files \/ (base \in DOMAIN files /\ ~Loads(base))
             THEN out' = Failure("diff") /\ UNCHANGED <<now, files>>
             ELSE LET changes == Shown(DiffPayloads(files[base], UnknownFields(files[base]), config, NoUnknownFields), flags)
               IN \E saved \in {HasPricing(changes), FALSE} :
                     /\ Save(saved, config)
                     /\ out' = [Silent EXCEPT !.cmd = "diff", !.base = base, !.flags = flags, !.changes = changes,
                                              !.exit = ExitCode(changes, flags), !.saved = saved]
  BY DEF LiveDiff
<1>2. PICK base, config : base = LiveBase(flags) /\ config = capture[1]
  OBVIOUS
<1>3. ~(config = None \/ base \notin DOMAIN files \/ (base \in DOMAIN files /\ ~Loads(base)))
  <2>1. Failure("diff").failed
    BY DEF Failure, Silent
  <2> QED
    BY <1>1, <1>2, <2>1
<1>4. PICK changes : changes = Shown(DiffPayloads(files[base], UnknownFields(files[base]), config, NoUnknownFields), flags)
  OBVIOUS
<1>5. \E saved \in {HasPricing(changes), FALSE} :
         out' = [Silent EXCEPT !.cmd = "diff", !.base = base, !.flags = flags, !.changes = changes,
                               !.exit = ExitCode(changes, flags), !.saved = saved]
  BY <1>1, <1>2, <1>3, <1>4
<1>6. out'.flags = flags /\ out'.changes = changes
  BY <1>5 DEF Silent
<1>7. IsCurrent(config)
  BY <1>2, <1>3, CapturesAreCurrent DEF HistoryTypeOK
<1> QED
  BY <1>2, <1>3, <1>4, <1>6, <1>7

\* Two snapshots of one configuration differ in nothing but what is not known of them.
LEMMA NothingButUnknown ==
    ASSUME NEW old, NEW new, NEW oldUnknown, NEW newUnknown, NEW flags,
           old.present = new.present, \A f \in Fields : old.value[f] = new.value[f],
           NEW c \in Shown(DiffPayloads(old, oldUnknown, new, newUnknown), flags)
    PROVE  c.kind = "unknown"
<1>1. \A s \in Sections : SectionChanges(old, new, s) = {}
  BY DEF SectionChanges, ValueChanges
<1>2. DiffSnapshots(old, new) = {}
  BY <1>1 DEF DiffSnapshots
<1>3. c \in DiffPayloads(old, oldUnknown, new, newUnknown)
  BY DEF Shown, PricingOnly
<1>4. PICK n : c = Change(n, "unknown", 0, 0, TRUE)
  BY <1>2, <1>3 DEF DiffPayloads
<1> QED
  BY <1>4 DEF Change

LEMMA AlarmIsCleared ==
    ASSUME HistoryInv, LiveDiff, out.cmd = "diff", out.saved, ~out'.failed, out'.flags.against = None
    PROVE  \/ \A c \in out'.changes : c.kind = "unknown"
           \/ \E n \in DOMAIN files \intersect Stamps : n >= now
<1> SUFFICES ASSUME ~\E n \in DOMAIN files \intersect Stamps : n >= now
             PROVE  \A c \in out'.changes : c.kind = "unknown"
  OBVIOUS
<1>1. HistoryTypeOK /\ now \in Nat /\ (now = 1 \/ now <= MaxTime) /\ MaxTime \in Nat
  BY ConfigHistoryAssumption DEF HistoryInv, HistoryTypeOK
<1>2. PICK t : t = now - 1
  OBVIOUS
<1>3. /\ now > 1 /\ t \in DOMAIN files
      /\ files[t].present = Sections /\ \A f \in Fields : files[t].value[f] = net.value[f]
  BY <1>2 DEF HistoryInv, SavedDiff
<1>4. t \in Nat /\ t \in Stamps
  BY <1>1, <1>2, <1>3 DEF Stamps
<1>5. PICK config, base :
         /\ IsCurrent(config) /\ base = LiveBase(out'.flags)
         /\ out'.changes = Shown(DiffPayloads(files[base], UnknownFields(files[base]), config, NoUnknownFields),
                                 out'.flags)
  BY <1>1, LiveDiffReports
<1> DEFINE stamped == DOMAIN files \intersect Stamps
<1>6. stamped \subseteq Nat /\ IsFiniteSet(stamped) /\ stamped # {}
  <2>1. IsFiniteSet(DOMAIN files)
    BY <1>1 DEF HistoryTypeOK
  <2>2. IsFiniteSet(stamped)
    BY <2>1, FS_Intersection
  <2> QED
    BY <1>3, <1>4, <2>2 DEF Stamps
<1>7. Max(stamped) \in stamped /\ \A n \in stamped : n <= Max(stamped)
  <2> HIDE DEF stamped
  <2> QED
    BY <1>6, FiniteMaximum
<1>8. base = t
  <2>1. base = Max(stamped)
    <3>1. files # <<>>
      BY <1>3
    <3> QED
      BY <1>5, <1>6, <3>1 DEF LiveBase, Latest
  <2>2. Max(stamped) \in Nat /\ ~(Max(stamped) >= now) /\ t <= Max(stamped)
    BY <1>3, <1>4, <1>6, <1>7
  <2> QED
    BY <1>1, <1>2, <2>1, <2>2
<1>9. PICK old : old = files[t]
  OBVIOUS
<1>10. old.present = config.present /\ \A f \in Fields : old.value[f] = config.value[f]
  BY <1>3, <1>5, <1>9 DEF IsCurrent
<1>11. PICK flags : flags = out'.flags
  OBVIOUS
<1>12. out'.changes = Shown(DiffPayloads(old, UnknownFields(old), config, NoUnknownFields), flags)
  BY <1>5, <1>8, <1>9, <1>11
<1> QED
  BY <1>10, <1>12, NothingButUnknown

\* A difference in pricing is reported once: after config diff has saved its snapshot, the next
\* one finds nothing but fields it does not know (cmd_config_diff, upgrade_detected), for every
\* configuration, file and reply.
THEOREM AlarmsClear == HistorySpec => AlarmClears
<1>1. HistoryInv /\ [HistoryNext]_history_vars =>
        [out.cmd = "diff" /\ out.saved /\ out'.cmd = "diff" /\ ~out'.failed
           /\ out'.flags.against = None /\ net' = net
         => \/ \A c \in out'.changes : c.kind = "unknown"
            \/ \E n \in DOMAIN files \intersect Stamps : n >= now]_history_vars
  BY ShownBy, AlarmIsCleared
<1> QED
  BY <1>1, HistoryInvariant, PTL DEF HistorySpec, AlarmClears

-----------------------------------------------------------------------------
\* The last two of a set of numbers
LEMMA LastTwoOf ==
    ASSUME NEW S, S \subseteq Nat, IsFiniteSet(S), NEW last \in S, NEW previous \in S, previous # last,
           \A n \in S : n <= last, \A n \in S \ {last} : n <= previous
    PROVE  LET n == Cardinality(S) IN
           /\ n \in Nat /\ n >= 2
           /\ Nth(S, n) = last /\ Nth(S, n - 1) = previous
<1> DEFINE n == Cardinality(S)
<1>1. previous \in Nat /\ last \in Nat /\ previous < last
  <2>1. previous \in Nat /\ last \in Nat /\ previous <= last
    OBVIOUS
  <2> QED
    BY <2>1
<1>2. {m \in S : m <= last} = S
  OBVIOUS
<1>3. {m \in S : m <= previous} = S \ {last}
  <2>1. ~(last <= previous)
    BY <1>1
  <2>2. \A m \in S : m <= previous => m # last
    BY <2>1
  <2> QED
    BY <2>2
<1>4. n \in Nat /\ Cardinality(S \ {last}) = n - 1
  BY FS_CardinalityType, FS_RemoveElement
<1>5. Rank(S, last) = n /\ Rank(S, previous) = n - 1
  BY <1>2, <1>3, <1>4 DEF Rank
<1>6. Nth(S, n) = last /\ Nth(S, n - 1) = previous /\ n - 1 \in 1..n
  <2>1. /\ Rank(S, last) \in 1..Cardinality(S) /\ Nth(S, Rank(S, last)) = last
        /\ Rank(S, previous) \in 1..Cardinality(S) /\ Nth(S, Rank(S, previous)) = previous
    BY NthOfRank
  <2> QED
    BY <1>5, <2>1
<1> QED
  BY <1>4, <1>6

LEMMA LastTwoAre ==
    ASSUME HistoryTypeOK, NEW last \in DOMAIN files, NEW previous \in DOMAIN files, previous # last,
           \A n \in DOMAIN files : n <= last, \A n \in DOMAIN files \ {last} : n <= previous
    PROVE  Len(LastTwo) = 2 /\ DOMAIN LastTwo = 1..2 /\ LastTwo[1] = previous /\ LastTwo[2] = last
<1> DEFINE S == DOMAIN files
           n == Cardinality(S)
<1>1. S \subseteq Nat /\ IsFiniteSet(S)
  BY NamesAreNumbers DEF HistoryTypeOK
<1> HIDE DEF S
<1>2. n \in Nat /\ n >= 2 /\ Nth(S, n) = last /\ Nth(S, n - 1) = previous
  BY <1>1, LastTwoOf DEF S
<1>3. Listed \in Seq(S) /\ Len(Listed) = n /\ \A k \in 1..n : Listed[k] = Nth(S, k) /\ Listed[k] \in S
  BY <1>1, InOrderMembers DEF Listed, S
<1>4. Max({1, n - 1}) = n - 1
  <2> DEFINE pair == {1, n - 1}
  <2>1. pair \subseteq Nat /\ pair # {} /\ IsFiniteSet(pair)
    <3>1. IsFiniteSet({1} \union {n - 1})
      BY FS_Singleton, FS_Union
    <3>2. pair = {1} \union {n - 1}
      OBVIOUS
    <3> QED
      BY <1>2, <3>1, <3>2
  <2>2. Max(pair) \in pair /\ \A m \in pair : m <= Max(pair)
    <3> HIDE DEF pair
    <3> QED
      BY <2>1, FiniteMaximum
  <2> HIDE DEF n
  <2>3. n - 1 <= Max(pair) /\ (Max(pair) = 1 \/ Max(pair) = n - 1) /\ n - 1 >= 1
    BY <1>2, <2>2
  <2> QED
    BY <1>2, <2>3
<1>5. LastTwo = SubSeq(Listed, n - 1, n)
  BY <1>3, <1>4 DEF LastTwo
<1> HIDE DEF n
<1> DEFINE part == SubSeq(Listed, n - 1, n)
<1>6. /\ part \in Seq(S) /\ Len(part) = 2
      /\ part[1] = Listed[n - 1] /\ part[2] = Listed[n]
  <2>1. \A k \in n - 1..n : Listed[k] \in S
    BY <1>2, <1>3
  <2>2. /\ part \in Seq(S) /\ Len(part) = IF n - 1 <= n THEN n - (n - 1) + 1 ELSE 0
        /\ \A k \in 1..n - (n - 1) + 1 : part[k] = Listed[n - 1 + k - 1]
    BY <1>2, <1>3, <2>1, SubSeqProperties
  <2> HIDE DEF part
  <2>3. n - (n - 1) + 1 = 2 /\ n - 1 <= n /\ n - 1 + 1 - 1 = n - 1 /\ n - 1 + 2 - 1 = n
    BY <1>2
  <2>4. part[1] = Listed[n - 1 + 1 - 1] /\ part[2] = Listed[n - 1 + 2 - 1]
    BY <2>2, <2>3
  <2> QED
    BY <2>2, <2>3, <2>4
<1> HIDE DEF part
<1>7. DOMAIN part = 1..2
  BY <1>6, LenProperties
<1>8. n - 1 \in 1..n /\ n \in 1..n
  BY <1>2
<1>9. part[1] = previous /\ part[2] = last
  BY <1>2, <1>3, <1>6, <1>8
<1> QED
  BY <1>5, <1>6, <1>7, <1>9 DEF part

LEMMA PreviousAgrees ==
    ASSUME HistoryInv, PreviousDiff, out.cmd = "diff", out.saved, out.flags.against = None, out'.flags = out.flags
    PROVE  \/ ~out'.failed /\ ButModified(out'.changes) = ButModified(out.changes)
           \/ \E n \in DOMAIN files : n >= now
<1> SUFFICES ASSUME ~\E n \in DOMAIN files : n >= now
             PROVE  ~out'.failed /\ ButModified(out'.changes) = ButModified(out.changes)
  OBVIOUS
<1>1. HistoryTypeOK /\ now \in Nat /\ DOMAIN files \subseteq Nat
  BY NamesAreNumbers DEF HistoryInv, HistoryTypeOK
<1>2. PICK last, previous : last = now - 1 /\ previous = out.base
  OBVIOUS
<1>3. \A n \in DOMAIN files : n < now
  BY <1>1
<1>4. /\ now > 1 /\ last \in DOMAIN files /\ Loads(last)
      /\ previous \in DOMAIN files \ {last} /\ Loads(previous)
      /\ \A n \in DOMAIN files \ {last} : n <= previous
      /\ ButModified(out.changes) = ButModified(Shown(Difference(files[previous], files[last]), out.flags))
  BY <1>2, <1>3 DEF HistoryInv, SavedDiff
<1>5. \A n \in DOMAIN files : n <= last
  BY <1>1, <1>2, <1>3
<1>6. Len(LastTwo) = 2 /\ DOMAIN LastTwo = 1..2 /\ LastTwo[1] = previous /\ LastTwo[2] = last
  BY <1>1, <1>4, <1>5, LastTwoAre
<1>7. PICK flags \in DiffFlags :
          IF Len(LastTwo) < 2 \/ \E i \in DOMAIN LastTwo : ~Loads(LastTwo[i])
          THEN out' = Failure("previous")
          ELSE LET old == files[LastTwo[1]]
                   new == files[LastTwo[2]]
                   changes == Shown(DiffPayloads(old, UnknownFields(old), new, UnknownFields(new)), flags)
               IN out' = [Silent EXCEPT !.cmd = "previous", !.base = LastTwo[1], !.flags = flags,
                                        !.changes = changes, !.exit = ExitCode(changes, flags)]
  BY DEF PreviousDiff
<1>8. ~(Len(LastTwo) < 2 \/ \E i \in DOMAIN LastTwo : ~Loads(LastTwo[i]))
  BY <1>4, <1>6
<1>9. PICK changes : changes = Shown(Difference(files[previous], files[last]), flags)
  OBVIOUS
<1>10. out' = [Silent EXCEPT !.cmd = "previous", !.base = previous, !.flags = flags,
                             !.changes = changes, !.exit = ExitCode(changes, flags)]
  BY <1>6, <1>7, <1>8, <1>9 DEF Difference
<1>11. ~out'.failed /\ out'.flags = flags /\ out'.changes = changes
  BY <1>10 DEF Silent
<1> QED
  BY <1>4, <1>9, <1>11

\* Right after config diff has saved, --against-previous reports what it did, but for
\* settings_last_modified (cmd_config_diff_against_previous), unless a file without an instant, or
\* one of the future, is listed as the newest.
THEOREM PreviousAgreesLive == HistorySpec => PreviousAgreesWithLive
<1>1. HistoryInv /\ [HistoryNext]_history_vars =>
        [out.cmd = "diff" /\ out.saved /\ out.flags.against = None /\ out'.cmd = "previous" /\ out'.flags = out.flags
         => \/ /\ ~out'.failed
               /\ LET known(changes) == {c \in changes : c.path # "settings_last_modified"}
                  IN known(out'.changes) = known(out.changes)
            \/ \E n \in DOMAIN files : n >= now]_history_vars
  BY ShownBy, PreviousAgrees DEF ButModified
<1> QED
  BY <1>1, HistoryInvariant, PTL DEF HistorySpec, PreviousAgreesWithLive

-----------------------------------------------------------------------------
\* Of some files one is the newest, and one the oldest.
LEMMA NewestOf ==
    ASSUME HistoryTypeOK, NEW S, S \subseteq DOMAIN files, S # {}
    PROVE  /\ \E z \in S : \A n \in S : files[n].at <= files[z].at
           /\ \E z \in S : \A n \in S : files[z].at <= files[n].at
<1> DEFINE instants == {files[n].at : n \in S}
<1>1. \A n \in S : files[n].at \in Nat /\ files[n].at <= MaxTime
  BY NamesAreNumbers
<1>2. instants \in SUBSET Nat /\ instants # {} /\ \A t \in instants : t <= MaxTime
  BY <1>1
<1> HIDE DEF instants
<1>3. MaxTime \in Nat
  BY ConfigHistoryAssumption
<1>4. IsFiniteSet(instants)
  BY <1>2, <1>3, FS_BoundedSetOfNaturals
<1>5. PICK newest \in instants : \A t \in instants : t <= newest
  BY <1>2, <1>4, FiniteMaximum
<1>6. PICK oldest \in instants : \A t \in instants : oldest <= t
  BY <1>2, NatMinimum
<1> QED
  BY <1>5, <1>6 DEF instants

LEMMA LogEntries ==
    ASSUME NEW entry
    PROVE  entry \in ChangeLog <=>
             \E m, n \in DOMAIN files : \E c \in DiffSnapshots(files[m], files[n]) :
                /\ Successive(m, n)
                /\ entry = [change |-> c, at |-> files[n].at, offset |-> files[n].offset, name |-> n]
<1>1. \A m, n \in DOMAIN files :
         entry \in (IF Successive(m, n) THEN Changed(m, n) ELSE {}) <=>
           \E c \in DiffSnapshots(files[m], files[n]) :
              /\ Successive(m, n)
              /\ entry = [change |-> c, at |-> files[n].at, offset |-> files[n].offset, name |-> n]
  BY DEF Changed
<1> QED
  BY <1>1 DEF ChangeLog

\* What last-changed shows of a path is its newest change, when text and instants have one order.
LEMMA LastIsNewest ==
    ASSUME HistoryTypeOK, Chronological, NEW p \in DOMAIN LastChanged(ChangeLog)
    PROVE  /\ LastChanged(ChangeLog)[p] \in ChangesOf(ChangeLog, p)
           /\ \A entry \in ChangesOf(ChangeLog, p) : entry.at <= LastChanged(ChangeLog)[p].at
<1> DEFINE changes == ChangesOf(ChangeLog, p)
           Precedes(other, entry) ==
              TextBefore(other, entry) \/ (SameText(other, entry) /\ entry.name <= other.name)
           IsLast(entry) == \A other \in changes : Precedes(other, entry)
<1>1. LastChanged(ChangeLog)[p] = CHOOSE entry \in changes : IsLast(entry)
  BY DEF LastChanged
<1>2. changes # {}
  BY DEF LastChanged, ChangesOf
<1>3. \A entry \in changes : /\ entry.name \in DOMAIN files
                              /\ entry.at = files[entry.name].at /\ entry.offset = files[entry.name].offset
  <2>1. ASSUME NEW entry \in ChangeLog
        PROVE  /\ entry.name \in DOMAIN files
               /\ entry.at = files[entry.name].at /\ entry.offset = files[entry.name].offset
    <3>1. PICK m, n \in DOMAIN files : \E c \in DiffSnapshots(files[m], files[n]) :
             entry = [change |-> c, at |-> files[n].at, offset |-> files[n].offset, name |-> n]
      BY LogEntries
    <3> QED
      BY <3>1
  <2> QED
    BY <2>1 DEF ChangesOf
<1> HIDE DEF changes
<1>4. \A n \in DOMAIN files : n \in Nat /\ files[n].at \in Nat
  BY NamesAreNumbers
\* Between entries of two files the order of the texts is that of the instants.
<1>5. ASSUME NEW other \in changes, NEW entry \in changes, other.name # entry.name
      PROVE  other.at # entry.at /\ (Precedes(other, entry) <=> other.at < entry.at)
  <2>1. PICK m, n \in DOMAIN files : /\ m = other.name /\ n = entry.name /\ m # n
                                     /\ other.at = files[m].at /\ other.offset = files[m].offset
                                     /\ entry.at = files[n].at /\ entry.offset = files[n].offset
    BY <1>3, <1>5
  <2>2. files[m].at # files[n].at /\ (Before(m, n) <=> files[m].at < files[n].at)
    BY <2>1 DEF Chronological
  <2>3. TextBefore(other, entry) <=> TextBefore(files[m], files[n])
    BY <2>1 DEF TextBefore
  <2>4. ~SameText(other, entry) /\ ~SameText(files[m], files[n])
    BY <2>1, <2>2 DEF SameText
  <2> QED
    BY <2>1, <2>2, <2>3, <2>4 DEF Before
<1>6. ASSUME NEW other \in changes, NEW entry \in changes, other.name = entry.name
      PROVE  other.at = entry.at /\ Precedes(other, entry)
  <2>1. other.at = entry.at /\ other.offset = entry.offset /\ entry.name \in Nat
    BY <1>3, <1>4, <1>6
  <2> QED
    BY <1>6, <2>1 DEF SameText
<1> HIDE DEF Precedes
<1>7. \A entry \in changes : entry.at \in Nat
  BY <1>3, <1>4
<1> DEFINE names == {entry.name : entry \in changes}
<1>8. names \subseteq DOMAIN files /\ names # {}
  BY <1>2, <1>3
<1>9. PICK z \in names : \A n \in names : files[n].at <= files[z].at
  <2> HIDE DEF names
  <2> QED
    BY <1>8, NewestOf
<1>10. PICK newest \in changes : newest.name = z
  BY <1>9
<1>11. IsLast(newest)
  <2> SUFFICES ASSUME NEW other \in changes PROVE Precedes(other, newest)
    OBVIOUS
  <2>1. other.at <= newest.at
    <3>1. other.name \in names /\ other.at = files[other.name].at /\ newest.at = files[z].at
      BY <1>3, <1>10
    <3> HIDE DEF names
    <3> QED
      BY <1>9, <3>1
  <2>2. CASE other.name = newest.name
    BY <1>6, <1>10, <2>2
  <2>3. CASE other.name # newest.name
    <3>1. other.at # newest.at /\ (Precedes(other, newest) <=> other.at < newest.at)
      BY <1>5, <1>10, <2>3
    <3>2. other.at \in Nat /\ newest.at \in Nat
      BY <1>7, <1>10
    <3> QED
      BY <2>1, <3>1, <3>2
  <2> QED
    BY <2>2, <2>3
<1> DEFINE last == CHOOSE e \in changes : IsLast(e)
<1> HIDE DEF IsLast
<1>12. last \in changes /\ IsLast(last)
  BY <1>10, <1>11
<1> HIDE DEF last
<1>13. ASSUME NEW other \in changes PROVE other.at <= last.at
  <2>1. other.at \in Nat /\ last.at \in Nat
    BY <1>7, <1>12
  <2>2. Precedes(other, last)
    BY <1>12 DEF IsLast
  <2>3. other.at < last.at \/ other.at = last.at
    BY <1>5, <1>6, <1>12, <2>2
  <2> QED
    BY <2>1, <2>3
<1> QED
  BY <1>1, <1>12, <1>13 DEF last, changes

LEMMA SameIs ==
    ASSUME NEW f
    PROVE  /\ \A a : Same(a, a, f)
           /\ \A a, b : Same(a, b, f) => Same(b, a, f)
           /\ \A a, b, c : Same(a, b, f) /\ Same(b, c, f) => Same(a, c, f)
BY DEF Same

\* A difference in a field is one of the field or of its section.
LEMMA DifferenceShows ==
    ASSUME NEW f \in Fields, NEW a, NEW b, ~Same(a, b, f)
    PROVE  \E c \in DiffSnapshots(a, b) : c.path \in {f, SectionOf[f]}
<1> DEFINE s == SectionOf[f]
<1>1. s \in Sections
  BY ConfigDiffAssumption
<1>2. SectionChanges(a, b, s) \subseteq DiffSnapshots(a, b)
  BY <1>1 DEF DiffSnapshots
<1>3. CASE s \in a.present /\ s \in b.present
  <2>1. a.value[f] # b.value[f]
    BY <1>3 DEF Same
  <2>2. Change(f, "value", a.value[f], b.value[f], f \in Priced) \in SectionChanges(a, b, s)
    BY <1>3, <2>1 DEF SectionChanges, ValueChanges
  <2> QED
    BY <1>2, <2>2 DEF Change
<1>4. CASE s \in a.present /\ s \notin b.present
  BY <1>2, <1>4 DEF SectionChanges, PresenceChange, Change
<1>5. CASE s \notin a.present /\ s \in b.present
  BY <1>2, <1>5 DEF SectionChanges, PresenceChange, Change
<1>6. CASE s \notin a.present /\ s \notin b.present
  BY <1>6 DEF Same
<1> QED
  BY <1>3, <1>4, <1>5, <1>6

\* A change of a field is one of its value, from a section that is there to one that is there.
LEMMA ChangeOfField ==
    ASSUME NEW f \in Fields, NEW a, NEW b, NEW c \in DiffSnapshots(a, b), c.path = f
    PROVE  SectionOf[f] \in b.present /\ c.new = b.value[f]
<1>1. PICK s \in Sections : c \in SectionChanges(a, b, s)
  BY DEF DiffSnapshots
<1>2. Fields \intersect Sections = {}
  BY ConfigHistoryAssumption
<1>3. c.path # s
  BY <1>2
<1>4. s \in a.present /\ s \in b.present
  <2>1. PresenceChange(s, "removed").path = s /\ PresenceChange(s, "added").path = s
    BY DEF PresenceChange, Change
  <2> QED
    BY <1>1, <1>3, <2>1 DEF SectionChanges
<1>5. c \in ValueChanges(a, b, s)
  BY <1>1, <1>4 DEF SectionChanges
<1>6. PICK g \in Fields : SectionOf[g] = s /\ c = Change(g, "value", a.value[g], b.value[g], g \in Priced)
  BY <1>5 DEF ValueChanges
<1>7. g = f /\ c.new = b.value[g]
  BY <1>6 DEF Change
<1> QED
  BY <1>4, <1>6, <1>7

LEMMA NotBeforeItself == ASSUME HistoryTypeOK, NEW n \in DOMAIN files PROVE ~Before(n, n)
<1>1. PICK moment, offset \in Int : moment = files[n].at /\ offset = files[n].offset
  <2>1. files[n].at \in Nat
    BY NamesAreNumbers
  <2>2. files[n].offset \in Int
    BY DEF HistoryTypeOK, IsSnapshot
  <2> QED
    BY <2>1, <2>2
<1>2. n \in Nat
  BY NamesAreNumbers
<1> QED
  BY <1>1, <1>2 DEF Before, TextBefore, SameText

\* From an instant on without a change of a field or of its section, the snapshots agree on it:
\* the newest that does not agree with the last would have its successor differ from it.
LEMMA NoChangeSince ==
    ASSUME HistoryTypeOK, Chronological,
           NEW f \in Fields, NEW since \in Nat,
           \A entry \in ChangeLog : entry.change.path \in {f, SectionOf[f]} => entry.at <= since,
           NEW x \in DOMAIN files, NEW y \in DOMAIN files, files[x].at >= since, files[y].at >= since
    PROVE  Same(files[x], files[y], f)
<1> DEFINE later == {n \in DOMAIN files : files[n].at >= since}
<1>1. \A n \in DOMAIN files : n \in Nat /\ files[n].at \in Nat
  BY NamesAreNumbers
<1>2. PICK z \in later : \A n \in later : files[n].at <= files[z].at
  <2>1. later \subseteq DOMAIN files /\ later # {}
    OBVIOUS
  <2> HIDE DEF later
  <2> QED
    BY <2>1, NewestOf
<1> DEFINE unlike == {n \in later : ~Same(files[n], files[z], f)}
<1>3. unlike = {}
  <2> SUFFICES ASSUME unlike # {} PROVE FALSE
    OBVIOUS
  <2>1. PICK b \in unlike : \A n \in unlike : files[n].at <= files[b].at
    <3>1. unlike \subseteq DOMAIN files
      OBVIOUS
    <3> HIDE DEF unlike
    <3> QED
      BY <3>1, NewestOf
  <2>2. b \in DOMAIN files /\ z \in DOMAIN files /\ files[b].at >= since /\ ~Same(files[b], files[z], f)
    BY <2>1
  <2>3. b # z
    BY <2>2, SameIs
  <2> DEFINE after == {n \in DOMAIN files : files[b].at < files[n].at}
  <2>4. z \in after
    <3>1. files[b].at <= files[z].at /\ files[b].at # files[z].at
      BY <1>2, <2>1, <2>2, <2>3 DEF Chronological
    <3> QED
      BY <1>1, <2>2, <3>1
  <2>5. PICK c \in after : \A n \in after : files[c].at <= files[n].at
    <3>1. after \subseteq DOMAIN files /\ after # {}
      BY <2>4
    <3> HIDE DEF after
    <3> QED
      BY <3>1, NewestOf
  <2>6. c \in DOMAIN files /\ files[b].at < files[c].at
    BY <2>5
  <2>7. Successive(b, c)
    <3>1. Before(b, c)
      <4>1. b # c
        BY <1>1, <2>2, <2>6
      <4> QED
        BY <2>2, <2>6, <4>1 DEF Chronological
    <3>2. ASSUME NEW k \in DOMAIN files, Before(b, k), Before(k, c) PROVE FALSE
      <4>1. k # b /\ k # c
        BY <2>2, <2>6, <3>2, NotBeforeItself
      <4>3. files[b].at < files[k].at /\ files[k].at < files[c].at
        BY <2>2, <2>6, <3>2, <4>1 DEF Chronological
      <4>4. files[c].at <= files[k].at
        BY <2>5, <4>3
      <4> QED
        BY <1>1, <2>6, <4>3, <4>4
    <3> QED
      BY <3>1, <3>2 DEF Successive
  <2>8. files[c].at > since /\ c \in later
    BY <1>1, <2>2, <2>6
  <2>9. c \notin unlike
    BY <1>1, <2>1, <2>2, <2>6
  <2>10. ~Same(files[b], files[c], f)
    <3>1. Same(files[c], files[z], f)
      BY <2>8, <2>9
    <3> QED
      BY <2>2, <3>1, SameIs
  <2>11. PICK d \in DiffSnapshots(files[b], files[c]) : d.path \in {f, SectionOf[f]}
    BY <2>10, DifferenceShows
  <2> DEFINE entry == [change |-> d, at |-> files[c].at, offset |-> files[c].offset, name |-> c]
  <2>12. entry \in ChangeLog
    BY <2>2, <2>6, <2>7, <2>11, LogEntries
  <2>13. entry.change.path \in {f, SectionOf[f]} /\ entry.at = files[c].at
    BY <2>11
  <2>14. files[c].at <= since
    <3> HIDE DEF entry
    <3> QED
      BY <2>12, <2>13
  <2> QED
    BY <1>1, <2>6, <2>8, <2>14
<1>4. Same(files[x], files[z], f) /\ Same(files[y], files[z], f)
  BY <1>3
<1> QED
  BY <1>4, SameIs

\* When a field or its section last changed, as last-changed shows it
LEMMA SinceIs ==
    ASSUME HistoryTypeOK, Chronological, NEW f \in Fields, NEW last, last = LastChanged(ChangeLog), NEW since,
           since = Max({0} \union {last[p].at : p \in {f, SectionOf[f]} \intersect DOMAIN last})
    PROVE  /\ since \in Nat
           /\ \A entry \in ChangeLog : entry.change.path \in {f, SectionOf[f]} => entry.at <= since
<1> DEFINE instants == {0} \union {last[p].at : p \in {f, SectionOf[f]} \intersect DOMAIN last}
<1>1. ASSUME NEW p \in DOMAIN last PROVE last[p].at \in Nat /\ last[p].at <= MaxTime
  <2>1. last[p] \in ChangeLog
    BY <1>1, LastIsNewest DEF ChangesOf
  <2>2. PICK entry : entry = last[p]
    OBVIOUS
  <2>3. PICK n \in DOMAIN files : entry.at = files[n].at
    BY <2>1, <2>2, LogEntries
  <2> QED
    BY <2>2, <2>3, NamesAreNumbers
<1>2. MaxTime \in Nat
  BY ConfigHistoryAssumption
<1>3. instants \in SUBSET Nat /\ instants # {} /\ \A t \in instants : t <= MaxTime
  BY <1>1, <1>2
<1>4. since \in instants /\ \A t \in instants : t <= since
  <2> HIDE DEF instants
  <2>1. IsFiniteSet(instants)
    BY <1>2, <1>3, FS_BoundedSetOfNaturals
  <2>2. Max(instants) \in instants /\ \A t \in instants : t <= Max(instants)
    BY <1>3, <2>1, FiniteMaximum
  <2> QED
    BY <2>2 DEF instants
<1>5. ASSUME NEW entry \in ChangeLog, entry.change.path \in {f, SectionOf[f]} PROVE entry.at <= since
  <2>1. PICK p : p = entry.change.path
    OBVIOUS
  <2>2. p \in DOMAIN last /\ entry \in ChangesOf(ChangeLog, p)
    BY <2>1 DEF LastChanged, ChangesOf
  <2>3. entry.at <= last[p].at
    BY <2>2, LastIsNewest
  <2>4. last[p].at \in instants
    BY <1>5, <2>1, <2>2
  <2>5. last[p].at <= since
    BY <1>4, <2>4
  <2>6. entry.at \in Nat
    <3>1. PICK n \in DOMAIN files : entry.at = files[n].at
      BY LogEntries
    <3> QED
      BY <3>1, NamesAreNumbers
  <2>7. last[p].at \in Nat /\ since \in Nat
    BY <1>3, <1>4, <2>4
  <2> QED
    BY <2>3, <2>5, <2>6, <2>7
<1> QED
  BY <1>3, <1>4, <1>5

LEMMA LastChangedHolds == HistoryInv => LastChangedIsRight
<1> SUFFICES ASSUME HistoryInv PROVE LastChangedIsRight
  OBVIOUS
<1>1. HistoryTypeOK /\ HistoryShown
  BY DEF HistoryInv
<1>2. ASSUME out.cmd = "history", out.failed PROVE \E n \in DOMAIN files : ~Valid(n)
  BY <1>1, <1>2 DEF HistoryShown, Loads, Supported, Valid
<1>3. ASSUME out.cmd = "history", ~out.failed, Chronological, NEW f \in Fields
      PROVE LET since == Max({0} \union {out.last[p].at : p \in {f, SectionOf[f]} \intersect DOMAIN out.last})
                later == {n \in DOMAIN files : files[n].at >= since}
            IN /\ \A m, n \in later : Same(files[m], files[n], f)
               /\ f \in DOMAIN out.last /\ out.last[f].at = since =>
                     \A n \in later : files[n].value[f] = out.last[f].change.new
  <2> DEFINE last == out.last
             since == Max({0} \union {last[p].at : p \in {f, SectionOf[f]} \intersect DOMAIN last})
             later == {n \in DOMAIN files : files[n].at >= since}
  <2> SUFFICES /\ \A m, n \in later : Same(files[m], files[n], f)
               /\ f \in DOMAIN last /\ last[f].at = since =>
                     \A n \in later : files[n].value[f] = last[f].change.new
    OBVIOUS
  <2>1. since = Max({0} \union {last[p].at : p \in {f, SectionOf[f]} \intersect DOMAIN last})
    OBVIOUS
  <2>2. last = LastChanged(ChangeLog)
    BY <1>1, <1>3 DEF HistoryShown
  <2> HIDE DEF last, since
  <2>3. /\ since \in Nat
        /\ \A entry \in ChangeLog : entry.change.path \in {f, SectionOf[f]} => entry.at <= since
    BY <1>1, <1>3, <2>1, <2>2, SinceIs
  <2>4. later = {n \in DOMAIN files : files[n].at >= since}
    OBVIOUS
  <2> HIDE DEF later
  <2>5. \A m, n \in later : Same(files[m], files[n], f)
    BY <1>1, <1>3, <2>3, <2>4, NoChangeSince
  <2>6. ASSUME f \in DOMAIN last, last[f].at = since, NEW n \in later
        PROVE  files[n].value[f] = last[f].change.new
    <3>1. PICK entry : entry = last[f]
      OBVIOUS
    <3>2. entry \in ChangeLog /\ entry.change.path = f /\ entry.at = since
      BY <1>1, <1>3, <2>2, <2>6, <3>1, LastIsNewest DEF ChangesOf
    <3>3. PICK a, b \in DOMAIN files : \E c \in DiffSnapshots(files[a], files[b]) :
             entry = [change |-> c, at |-> files[b].at, offset |-> files[b].offset, name |-> b]
      BY <3>2, LogEntries
    <3>4. PICK c \in DiffSnapshots(files[a], files[b]) : entry.change = c /\ entry.at = files[b].at
      BY <3>3
    <3>5. SectionOf[f] \in files[b].present /\ c.new = files[b].value[f]
      BY <3>2, <3>4, ChangeOfField
    <3>6. b \in later
      BY <1>3, <2>3, <2>4, <3>2, <3>4
    <3>7. Same(files[b], files[n], f)
      BY <2>5, <2>6, <3>6
    <3> QED
      BY <3>1, <3>4, <3>5, <3>7 DEF Same
  <2> QED
    BY <2>5, <2>6
<1>4. out.cmd = "history" /\ ~out.failed /\ Chronological =>
         \A f \in Fields :
            LET since == Max({0} \union {out.last[p].at : p \in {f, SectionOf[f]} \intersect DOMAIN out.last})
                later == {n \in DOMAIN files : files[n].at >= since}
            IN /\ \A m, n \in later : Same(files[m], files[n], f)
               /\ f \in DOMAIN out.last /\ out.last[f].at = since =>
                     \A n \in later : files[n].value[f] = out.last[f].change.new
  BY <1>3
<1> QED
  BY <1>2, <1>4 DEF LastChangedIsRight

\* What last-changed shows is right: since the change it shows for a setting no snapshot had
\* another value, and one it does not show never had two (load_change_log,
\* last_changed_from_log), for any snapshots of which no two have the same instant and whose
\* timestamps, read as text, are in the order of their instants.
THEOREM LastChangedRight == HistorySpec => []LastChangedIsRight
<1>1. HistoryInv => LastChangedIsRight
  BY LastChangedHolds
<1> QED
  BY <1>1, HistoryInvariant, PTL
=============================================================================

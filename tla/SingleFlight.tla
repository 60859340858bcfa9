---------------------------- MODULE SingleFlight ----------------------------
(***************************************************************************)
(* Request deduplication in RpcClient::call (src/src/rpc/client.rs).       *)
(*                                                                         *)
(* Concurrent calls for one key share one POST: the first becomes leader   *)
(* and owns a SharedFuture, the others wait on it.  Finished answers stay  *)
(* in a cache of bounded size, evicted least recently used first.  Each    *)
(* action is one critical section of the dedup lock, one operation on a    *)
(* SharedFuture, or the network's answer; other callers run in between.    *)
(*                                                                         *)
(* An answer is the number of answers the endpoint had given for that key, *)
(* so a larger number is a later answer.  0 stands for no answer.          *)
(***************************************************************************)
EXTENDS Integers, Sequences, FiniteSets

CONSTANTS Callers, Keys,
          Capacity,   \* completed answers kept; 0 keeps none
          MaxCalls,   \* bound: calls made in one behaviour
          None

\* A caller holds at most one SharedFuture, so as many as there are callers suffice.
Handles == 1..Cardinality(Callers)

ASSUME SingleFlightAssumption == /\ IsFiniteSet(Callers)
                                 /\ Capacity \in Nat
                                 /\ MaxCalls \in Nat
                                 /\ None \notin Handles \union Keys

VARIABLES
    \* DedupState, behind one lock
    completed,   \* completed[k]: the cached answer, or 0
    order,       \* cached keys, least recently used first
    inFlight,    \* inFlight[k]: the handle of the request in flight, or None
    \* The SharedFutures
    outcome,     \* outcome[h]: the answer published, or 0
    finished,    \* the handles whose finished flag is set
    registered,  \* callers whose Notified future is enabled and not yet woken
    \* The callers
    pc, key, shared, result,
    \* The network, and history
    served,      \* served[k]: answers the endpoint has given for k
    calls,       \* calls made so far
    floor        \* floor[c]: the answer cached for its key when c's call began

dedup == <<completed, order, inFlight>>
futures == <<outcome, finished, registered>>
vars == <<dedup, futures, pc, key, shared, result, served, calls, floor>>

Init ==
    /\ completed = [k \in Keys |-> 0]
    /\ order = <<>>
    /\ inFlight = [k \in Keys |-> None]
    /\ outcome = [h \in Handles |-> 0]
    /\ finished = {}
    /\ registered = {}
    /\ pc = [c \in Callers |-> "idle"]
    /\ key = [c \in Callers |-> None]
    /\ shared = [c \in Callers |-> None]
    /\ result = [c \in Callers |-> 0]
    /\ served = [k \in Keys |-> 0]
    /\ calls = 0
    /\ floor = [c \in Callers |-> 0]

Goto(c, label) == pc' = [pc EXCEPT ![c] = label]

\* order.iter().position(k) and order.remove(pos), if the key is there
Without(seq, k) ==
    IF \E i \in 1..Len(seq) : seq[i] = k
    THEN LET pos == CHOOSE i \in 1..Len(seq) : seq[i] = k
         IN SubSeq(seq, 1, pos - 1) \o SubSeq(seq, pos + 1, Len(seq))
    ELSE seq

FreshHandle == CHOOSE h \in Handles : \A c \in Callers : shared[c] # h

\* The call returns what result holds by then, and its locals go.
Return(c) ==
    /\ pc' = [pc EXCEPT ![c] = "idle"]
    /\ key' = [key EXCEPT ![c] = None]
    /\ shared' = [shared EXCEPT ![c] = None]
    /\ floor' = [floor EXCEPT ![c] = 0]

-----------------------------------------------------------------------------
Start(c, k) ==
    /\ pc[c] = "idle"
    /\ calls < MaxCalls
    /\ calls' = calls + 1
    /\ key' = [key EXCEPT ![c] = k]
    /\ result' = [result EXCEPT ![c] = 0]
    /\ floor' = [floor EXCEPT ![c] = completed[k]]
    /\ Goto(c, "lookup")
    /\ UNCHANGED <<dedup, futures, shared, served>>

\* cached_result: a hit is returned and becomes the most recently used
Lookup(c) ==
    /\ pc[c] = "lookup"
    /\ IF completed[key[c]] # 0
       THEN /\ result' = [result EXCEPT ![c] = completed[key[c]]]
            /\ order' = Append(Without(order, key[c]), key[c])
            /\ Return(c)
       ELSE /\ Goto(c, "attach")
            /\ UNCHANGED <<order, result, key, shared, floor>>
    /\ UNCHANGED <<completed, inFlight, futures, served, calls>>

\* The leader installs a fresh SharedFuture
Lead(c) ==
    /\ inFlight' = [inFlight EXCEPT ![key[c]] = FreshHandle]
    /\ outcome' = [outcome EXCEPT ![FreshHandle] = 0]
    /\ finished' = finished \ {FreshHandle}
    /\ shared' = [shared EXCEPT ![c] = FreshHandle]
    /\ Goto(c, "leading")

Follow(c) ==
    /\ shared' = [shared EXCEPT ![c] = inFlight[key[c]]]
    /\ Goto(c, "register")
    /\ UNCHANGED <<inFlight, outcome, finished>>

\* Mutant: the caller does not look for a request already in flight.
AttachAlwaysLeads(c) ==
    /\ pc[c] = "attach"
    /\ Lead(c)
    /\ UNCHANGED <<completed, order, registered, key, result, served, calls, floor>>

\* Leader or follower, decided in one critical section
Attach(c) ==
    /\ pc[c] = "attach"
    /\ \/ inFlight[key[c]] = None /\ Lead(c)
       \/ inFlight[key[c]] # None /\ Follow(c)
    /\ UNCHANGED <<completed, order, registered, key, result, served, calls, floor>>

-----------------------------------------------------------------------------
\* SharedFuture::wait, first half: enable the Notified future
Register(c) ==
    /\ pc[c] = "register"
    /\ registered' = registered \union {c}
    /\ Goto(c, "check")
    /\ UNCHANGED <<dedup, outcome, finished, key, shared, result, served, calls, floor>>

\* Mutant: the follower sleeps without looking at the finished flag.
CheckIgnoresFinished(c) ==
    /\ pc[c] = "check"
    /\ Goto(c, "waiting")
    /\ UNCHANGED <<dedup, futures, key, shared, result, served, calls, floor>>

\* SharedFuture::wait, second half: only then look at the flag
Check(c) ==
    /\ pc[c] = "check"
    /\ IF shared[c] \in finished
       THEN registered' = registered \ {c} /\ Goto(c, "read")
       ELSE UNCHANGED registered /\ Goto(c, "waiting")
    /\ UNCHANGED <<dedup, outcome, finished, key, shared, result, served, calls, floor>>

Wake(c) ==
    /\ pc[c] = "waiting"
    /\ c \notin registered
    /\ Goto(c, "read")
    /\ UNCHANGED <<dedup, futures, key, shared, result, served, calls, floor>>

\* The follower returns the leader's answer, or starts over
Read(c) ==
    /\ pc[c] = "read"
    /\ result' = [result EXCEPT ![c] = outcome[shared[c]]]
    /\ IF outcome[shared[c]] # 0
       THEN Return(c)
       ELSE /\ shared' = [shared EXCEPT ![c] = None]
            /\ Goto(c, "lookup")
            /\ UNCHANGED <<key, floor>>
    /\ UNCHANGED <<dedup, futures, served, calls>>

-----------------------------------------------------------------------------
Answered(c) ==
    /\ served' = [served EXCEPT ![key[c]] = @ + 1]
    /\ result' = [result EXCEPT ![c] = served[key[c]] + 1]
    /\ Goto(c, "publish")

Failed(c) ==
    /\ Goto(c, "settle")
    /\ UNCHANGED <<served, result>>

\* Mutant: the key is released as soon as the network answers.
RespondReleasesKey(c) ==
    /\ pc[c] = "leading"
    /\ Answered(c) \/ Failed(c)
    /\ inFlight' = [inFlight EXCEPT ![key[c]] = None]
    /\ UNCHANGED <<completed, order, futures, key, shared, calls, floor>>

\* perform_call returns
Respond(c) ==
    /\ pc[c] = "leading"
    /\ Answered(c) \/ Failed(c)
    /\ UNCHANGED <<dedup, futures, key, shared, calls, floor>>

Publish(c) ==
    /\ pc[c] = "publish"
    /\ outcome' = [outcome EXCEPT ![shared[c]] = result[c]]
    /\ Goto(c, "settle")
    /\ UNCHANGED <<dedup, finished, registered, key, shared, result, served, calls, floor>>

\* insert_completed: replace, or evict from the front until there is room.  Len(order)
\* stands for completed.len(): they describe the same keys.
InsertCompleted(k, answer) ==
    LET excess == IF completed[k] # 0 \/ Len(order) < Capacity
                  THEN 0 ELSE Len(order) - Capacity + 1
        evicted == {order[i] : i \in 1..excess}
    IN IF Capacity = 0
       THEN UNCHANGED <<completed, order>>
       ELSE /\ completed' = [x \in Keys |-> IF x = k THEN answer
                                            ELSE IF x \in evicted THEN 0 ELSE completed[x]]
            /\ order' = Append(Without(SubSeq(order, excess + 1, Len(order)), k), k)

\* The leader's last critical section
Settle(c) ==
    /\ pc[c] = "settle"
    /\ IF result[c] # 0 THEN InsertCompleted(key[c], result[c])
                        ELSE UNCHANGED <<completed, order>>
    /\ inFlight' = [inFlight EXCEPT ![key[c]] = None]
    /\ Goto(c, "finish")
    /\ UNCHANGED <<futures, key, shared, result, served, calls, floor>>

\* SharedFuture::finish, the store
Finish(c) ==
    /\ pc[c] = "finish"
    /\ finished' = finished \union {shared[c]}
    /\ Goto(c, "notify")
    /\ UNCHANGED <<dedup, outcome, registered, key, shared, result, served, calls, floor>>

\* SharedFuture::finish, notify_waiters; the leader's call returns
NotifyWaiters(c) ==
    /\ pc[c] = "notify"
    /\ registered' = {d \in registered : shared[d] # shared[c]}
    /\ Return(c)
    /\ UNCHANGED <<dedup, outcome, finished, result, served, calls>>

-----------------------------------------------------------------------------
\* A call in progress takes its next step.
Proceed(c) ==
    \/ Lookup(c) \/ Attach(c)
    \/ Register(c) \/ Check(c) \/ Wake(c) \/ Read(c)
    \/ Respond(c) \/ Publish(c) \/ Settle(c) \/ Finish(c) \/ NotifyWaiters(c)

Next == \E c \in Callers : Proceed(c) \/ \E k \in Keys : Start(c, k)

Spec == Init /\ [][Next]_vars

\* The runtime polls every task that is ready and every POST has a timeout; nobody is
\* obliged to make a call.
FairSpec == Spec /\ \A c \in Callers : WF_vars(Proceed(c))

-----------------------------------------------------------------------------
Labels == {"idle", "lookup", "attach", "register", "check", "waiting", "read",
           "leading", "publish", "settle", "finish", "notify"}

TypeOK ==
    /\ completed \in [Keys -> Nat]
    /\ order \in Seq(Keys)
    /\ inFlight \in [Keys -> Handles \union {None}]
    /\ outcome \in [Handles -> Nat]
    /\ finished \subseteq Handles
    /\ registered \subseteq Callers
    /\ pc \in [Callers -> Labels]
    /\ key \in [Callers -> Keys \union {None}]
    /\ shared \in [Callers -> Handles \union {None}]
    /\ \A c \in Callers : /\ key[c] = None <=> pc[c] = "idle"
                          /\ shared[c] = None <=> pc[c] \in {"idle", "lookup", "attach"}
    /\ result \in [Callers -> Nat]
    /\ served \in [Keys -> Nat]
    /\ calls \in 0..MaxCalls
    /\ floor \in [Callers -> Nat]

Leading(c) == pc[c] \in {"leading", "publish", "settle"}

\* "At most one HTTP POST for any distinct (method, params) pair while it is in flight"
\* (call, lines 967-968), although looking up, attaching and settling are three
\* separate critical sections.
OnePostPerKey ==
    \A c, d \in Callers : Leading(c) /\ Leading(d) /\ key[c] = key[d] => c = d

\* A call never returns an answer older than the one cached when it began, whichever of
\* the cache, its leader or its own request it got it from: settling publishes,
\* caches and releases the key in an order no slower request can undo.
AnswerNeverOlder ==
    [][\A c \in Callers : pc[c] # "idle" /\ pc'[c] = "idle" /\ result'[c] # 0
                              => result'[c] >= floor[c]]_vars

\* Every call returns: no follower misses its leader's wake-up, and none is left behind
\* by a leader that failed (wait, finish; lines 317-325 and 346-359).
EveryCallReturns == \A c \in Callers : pc[c] # "idle" ~> pc[c] = "idle"
=============================================================================

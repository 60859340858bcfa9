------------------------- MODULE SingleFlightProofs -------------------------
(***************************************************************************)
(* Single flight and the freshness of its answers, proved for every finite *)
(* set of callers, every set of keys and every cache capacity.             *)
(***************************************************************************)
EXTENDS SingleFlight, FiniteSetTheorems, SequenceTheorems, TLAPS

USE SingleFlightAssumption DEF SingleFlightAssumption

\* The caller created its SharedFuture, and has not dropped it.
Owns(c) == pc[c] \in {"leading", "publish", "settle", "finish", "notify"}

\* A leader's handle is the one in flight for its key.
LeaderInFlight == \A c \in Callers : Leading(c) => inFlight[key[c]] = shared[c]

\* A SharedFuture has one owner.
OneOwner == \A c, d \in Callers : Owns(c) /\ Owns(d) /\ shared[c] = shared[d] => c = d

\* The callers of one SharedFuture want the same key.
SameKey == \A c, d \in Callers : Owns(c) /\ shared[d] = shared[c] => key[d] = key[c]

\* Nothing is in flight without its leader.
InFlightHasLeader ==
    \A k \in Keys : inFlight[k] # None
        => \E c \in Callers : Leading(c) /\ key[c] = k /\ shared[c] = inFlight[k]

\* What a caller knows of the answer it has, or waits for: while it leads, the latest
\* answer is its own, and its SharedFuture holds it from the publication on.
Known(c) ==
    /\ pc[c] = "leading" => outcome[shared[c]] = 0
    /\ pc[c] = "publish" => result[c] = served[key[c]] /\ outcome[shared[c]] = 0
    /\ pc[c] = "settle"  => /\ outcome[shared[c]] = result[c]
                            /\ result[c] # 0 => result[c] = served[key[c]]
    /\ pc[c] \in {"lookup", "attach", "register", "check", "waiting", "leading"}
          => result[c] = 0

\* No answer within a caller's reach is older than the one cached when its call began.
Fresh(c) ==
    pc[c] # "idle" =>
        /\ floor[c] <= served[key[c]]
        /\ completed[key[c]] # 0 => completed[key[c]] >= floor[c]
        /\ shared[c] # None /\ outcome[shared[c]] # 0 => outcome[shared[c]] >= floor[c]
        /\ result[c] # 0 => result[c] >= floor[c]

Answers == /\ \A k \in Keys : completed[k] <= served[k]
           /\ \A c \in Callers : Known(c) /\ Fresh(c)

Ownership == LeaderInFlight /\ OneOwner
Sharing == InFlightHasLeader /\ SameKey
Structure == TypeOK /\ Ownership /\ Sharing

\* The inductive invariant.
IInv == Structure /\ Answers

-----------------------------------------------------------------------------
(* Sequences without a key, and fresh handles.                             *)

LEMMA WithoutType ==
    ASSUME NEW S, NEW seq \in Seq(S), NEW k
    PROVE  Without(seq, k) \in Seq(S)
<1>1. CASE \E i \in 1..Len(seq) : seq[i] = k
  <2> DEFINE pos == CHOOSE i \in 1..Len(seq) : seq[i] = k
  <2>1. pos \in 1..Len(seq)
    BY <1>1
  <2> HIDE DEF pos
  <2>2. /\ SubSeq(seq, 1, pos - 1) \in Seq(S)
        /\ SubSeq(seq, pos + 1, Len(seq)) \in Seq(S)
    <3>1. /\ \A i \in 1..(pos - 1) : seq[i] \in S
          /\ \A i \in (pos + 1)..Len(seq) : seq[i] \in S
          /\ pos \in Int /\ Len(seq) \in Int
      BY <2>1
    <3>2. SubSeq(seq, 1, pos - 1) \in Seq(S)
      BY <3>1, SubSeqProperties
    <3>3. SubSeq(seq, pos + 1, Len(seq)) \in Seq(S)
      BY <3>1, SubSeqProperties
    <3>4. QED
      BY <3>2, <3>3
  <2>3. SubSeq(seq, 1, pos - 1) \o SubSeq(seq, pos + 1, Len(seq)) \in Seq(S)
    BY <2>2, ConcatProperties
  <2>4. QED
    BY <1>1, <2>3 DEF Without, pos
<1>2. CASE ~ \E i \in 1..Len(seq) : seq[i] = k
  BY <1>2 DEF Without
<1>3. QED
  BY <1>1, <1>2

\* While some caller holds no handle, a handle is held by no caller: there are as many
\* handles as callers.
LEMMA FreshHandleIsFree ==
    ASSUME TypeOK, NEW c \in Callers, shared[c] = None
    PROVE  FreshHandle \in Handles /\ \A d \in Callers : shared[d] # FreshHandle
<1>1. \E h \in Handles : \A d \in Callers : shared[d] # h
  <2> SUFFICES ASSUME \A h \in Handles : \E d \in Callers : shared[d] = h
               PROVE  FALSE
    OBVIOUS
  <2> DEFINE f == [h \in Handles |-> CHOOSE d \in Callers : shared[d] = h]
  <2>1. \A h \in Handles : f[h] \in Callers \ {c} /\ shared[f[h]] = h
    OBVIOUS
  <2>2. f \in [Handles -> Callers \ {c}]
    BY <2>1
  <2> HIDE DEF f
  <2>3. Cardinality(Callers) \in Nat
    BY FS_CardinalityType
  <2>4. IsFiniteSet(Handles) /\ Cardinality(Handles) = Cardinality(Callers)
    BY <2>3, FS_Interval DEF Handles
  <2>5. /\ IsFiniteSet(Callers \ {c})
        /\ Cardinality(Callers \ {c}) = Cardinality(Callers) - 1
    BY FS_RemoveElement
  <2>6. \E h, g \in Handles : h # g /\ f[h] = f[g]
    <3>1. Cardinality(Callers \ {c}) < Cardinality(Handles)
      BY <2>3, <2>4, <2>5
    <3>2. QED
      BY <2>2, <2>4, <2>5, <3>1, FS_PigeonHole
  <2>7. QED
    BY <2>1, <2>6
<1>2. QED
  BY <1>1 DEF FreshHandle

-----------------------------------------------------------------------------
(* Type correctness.                                                       *)

LEMMA InitTypeOK == Init => TypeOK
BY DEF Init, TypeOK, Labels

LEMMA InsertCompletedType ==
    ASSUME TypeOK, NEW k \in Keys, NEW answer \in Nat, InsertCompleted(k, answer)
    PROVE  completed' \in [Keys -> Nat] /\ order' \in Seq(Keys)
<1> DEFINE excess == IF completed[k] # 0 \/ Len(order) < Capacity
                     THEN 0 ELSE Len(order) - Capacity + 1
<1>1. CASE Capacity = 0
  BY <1>1 DEF InsertCompleted, TypeOK
<1>2. CASE Capacity # 0
  <2>1. order \in Seq(Keys) /\ excess \in Nat
    BY <1>2 DEF TypeOK
  <2>2. SubSeq(order, excess + 1, Len(order)) \in Seq(Keys)
    BY <2>1, SubSeqProperties
  <2>3. Without(SubSeq(order, excess + 1, Len(order)), k) \in Seq(Keys)
    BY <2>2, WithoutType
  <2>4. order' = Append(Without(SubSeq(order, excess + 1, Len(order)), k), k)
    BY <1>2 DEF InsertCompleted
  <2>5. order' \in Seq(Keys)
    BY <2>3, <2>4
  <2> DEFINE evicted == {order[i] : i \in 1..excess}
  <2>6. completed' = [x \in Keys |-> IF x = k THEN answer
                                     ELSE IF x \in evicted THEN 0 ELSE completed[x]]
    BY <1>2 DEF InsertCompleted
  <2> HIDE DEF evicted
  <2>7. completed' \in [Keys -> Nat]
    BY <2>6 DEF TypeOK
  <2>8. QED
    BY <2>5, <2>7
<1>3. QED
  BY <1>1, <1>2

LEMMA ReturnType ==
    ASSUME TypeOK, NEW c \in Callers, Return(c)
    PROVE  /\ pc' \in [Callers -> Labels]
           /\ key' \in [Callers -> Keys \union {None}]
           /\ shared' \in [Callers -> Handles \union {None}]
           /\ floor' \in [Callers -> Nat]
           /\ \A d \in Callers :
                /\ key'[d] = None <=> pc'[d] = "idle"
                /\ shared'[d] = None <=> pc'[d] \in {"idle", "lookup", "attach"}
<1>1. pc' \in [Callers -> Labels]
  BY DEF Return, TypeOK, Labels
<1>2. /\ key' \in [Callers -> Keys \union {None}]
      /\ shared' \in [Callers -> Handles \union {None}]
      /\ floor' \in [Callers -> Nat]
  BY DEF Return, TypeOK
<1>3. \A d \in Callers : key'[d] = None <=> pc'[d] = "idle"
  BY DEF Return, TypeOK
<1>4. \A d \in Callers : shared'[d] = None <=> pc'[d] \in {"idle", "lookup", "attach"}
  BY DEF Return, TypeOK
<1>5. QED
  BY <1>1, <1>2, <1>3, <1>4

LEMMA ProceedTypeOK ==
    ASSUME TypeOK, NEW c \in Callers, Proceed(c)
    PROVE  TypeOK'
<1> USE DEF TypeOK, Labels, dedup, futures, Goto, Return
<1>1. CASE Lookup(c)
  <2>1. key[c] \in Keys
    BY <1>1 DEF Lookup
  <2>2. Append(Without(order, key[c]), key[c]) \in Seq(Keys)
    BY <2>1, WithoutType
  <2>3. CASE completed[key[c]] # 0
    <3>1. Return(c)
      BY <1>1, <2>3 DEF Lookup
    <3>2. order' \in Seq(Keys)
      BY <1>1, <2>2, <2>3 DEF Lookup
    <3>3. result' \in [Callers -> Nat]
      <4>1. completed[key[c]] \in Nat
        BY <2>1
      <4>2. result' = [result EXCEPT ![c] = completed[key[c]]]
        BY <1>1, <2>3 DEF Lookup
      <4>3. QED
        BY <4>1, <4>2
    <3>4. UNCHANGED <<completed, inFlight, outcome, finished, registered, served, calls>>
      BY <1>1 DEF Lookup
    <3> HIDE DEF Return, Labels
    <3>5. QED
      BY <3>1, <3>2, <3>3, <3>4, ReturnType
  <2>4. CASE completed[key[c]] = 0
    BY <1>1, <2>4 DEF Lookup
  <2>5. QED
    BY <2>3, <2>4
<1>2. CASE Attach(c)
  <2>1. CASE Lead(c)
    <3>1. shared[c] = None /\ key[c] \in Keys /\ FreshHandle \in Handles
      BY <1>2, FreshHandleIsFree DEF Attach
    <3>2. QED
      BY <1>2, <2>1, <3>1 DEF Attach, Lead
  <2>2. CASE Follow(c) /\ inFlight[key[c]] # None
    <3>1. key[c] \in Keys /\ inFlight[key[c]] \in Handles
      BY <1>2, <2>2 DEF Attach
    <3>2. QED
      BY <1>2, <2>2, <3>1 DEF Attach, Follow
  <2>3. QED
    BY <1>2, <2>1, <2>2 DEF Attach
<1>3. CASE Register(c)
  BY <1>3 DEF Register
<1>4. CASE Check(c)
  BY <1>4 DEF Check
<1>5. CASE Wake(c)
  BY <1>5 DEF Wake
<1>6. CASE Read(c)
  <2>1. shared[c] \in Handles /\ outcome[shared[c]] \in Nat
    BY <1>6 DEF Read
  <2>2. CASE outcome[shared[c]] # 0
    <3>1. Return(c) /\ result' \in [Callers -> Nat]
      BY <1>6, <2>1, <2>2 DEF Read
    <3>2. UNCHANGED <<completed, order, inFlight, outcome, finished, registered, served, calls>>
      BY <1>6 DEF Read
    <3> HIDE DEF Return, Labels
    <3>3. QED
      BY <3>1, <3>2, ReturnType
  <2>3. CASE outcome[shared[c]] = 0
    BY <1>6, <2>1, <2>3 DEF Read
  <2>4. QED
    BY <2>2, <2>3
<1>7. CASE Respond(c)
  <2>1. key[c] \in Keys /\ served[key[c]] + 1 \in Nat
    BY <1>7 DEF Respond
  <2>2. CASE Answered(c)
    BY <1>7, <2>1, <2>2 DEF Respond, Answered
  <2>3. CASE Failed(c)
    BY <1>7, <2>3 DEF Respond, Failed
  <2>4. QED
    BY <1>7, <2>2, <2>3 DEF Respond
<1>8. CASE Publish(c)
  BY <1>8 DEF Publish
<1>9. CASE Settle(c)
  <2>1. completed' \in [Keys -> Nat] /\ order' \in Seq(Keys)
    BY <1>9, InsertCompletedType DEF Settle
  <2>2. QED
    BY <1>9, <2>1 DEF Settle
<1>10. CASE Finish(c)
  <2>1. shared[c] \in Handles
    BY <1>10 DEF Finish
  <2>2. finished' \subseteq Handles
    BY <1>10, <2>1 DEF Finish
  <2>3. pc' \in [Callers -> Labels]
    BY <1>10 DEF Finish
  <2>4. \A d \in Callers : key'[d] = None <=> pc'[d] = "idle"
    BY <1>10 DEF Finish
  <2>5. \A d \in Callers : shared'[d] = None <=> pc'[d] \in {"idle", "lookup", "attach"}
    BY <1>10 DEF Finish
  <2>6. UNCHANGED <<completed, order, inFlight, outcome, registered, key, shared, result,
                    served, calls, floor>>
    BY <1>10 DEF Finish
  <2>7. QED
    BY <2>2, <2>3, <2>4, <2>5, <2>6
<1>11. CASE NotifyWaiters(c)
  BY <1>11 DEF NotifyWaiters
<1>12. QED
  BY <1>1, <1>2, <1>3, <1>4, <1>5, <1>6, <1>7, <1>8, <1>9, <1>10, <1>11 DEF Proceed

LEMMA StartTypeOK ==
    ASSUME TypeOK, NEW c \in Callers, NEW k \in Keys, Start(c, k)
    PROVE  TypeOK'
BY DEF TypeOK, Labels, dedup, futures, Goto, Start

LEMMA NextTypeOK == TypeOK /\ [Next]_vars => TypeOK'
<1> SUFFICES ASSUME TypeOK, [Next]_vars PROVE TypeOK'
  OBVIOUS
<1>1. CASE Next
  BY <1>1, ProceedTypeOK, StartTypeOK DEF Next
<1>2. CASE UNCHANGED vars
  BY <1>2 DEF vars, dedup, futures, TypeOK
<1>3. QED
  BY <1>1, <1>2

\* Every variable keeps its type; a caller has a key exactly while its call lasts, and a
\* SharedFuture exactly from its attachment on.
THEOREM TypeCorrect == Spec => []TypeOK
BY InitTypeOK, NextTypeOK, PTL DEF Spec

-----------------------------------------------------------------------------
(* Ownership: who leads, and with which handle.                            *)

LEMMA InitOwnership == Init => Ownership
BY DEF Init, Ownership, LeaderInFlight, OneOwner, Leading, Owns

LEMMA OnePostLemma == Ownership => OnePostPerKey
BY DEF Ownership, LeaderInFlight, OneOwner, OnePostPerKey, Leading, Owns

\* A step of caller c that takes up neither a key nor a SharedFuture, and neither begins
\* nor ends leading.
Quiet(c) ==
    /\ inFlight' = inFlight
    /\ \A d \in Callers : d # c => pc'[d] = pc[d] /\ key'[d] = key[d] /\ shared'[d] = shared[d]
    /\ Leading(c)' <=> Leading(c)
    /\ Owns(c)' => Owns(c)
    /\ shared'[c] = None \/ (shared'[c] = shared[c] /\ key'[c] = key[c])

LEMMA QuietOwnership ==
    ASSUME TypeOK, TypeOK', Ownership, NEW c \in Callers, Quiet(c)
    PROVE  Ownership'
<1>1. \A d \in Callers : Owns(d)' => Owns(d) /\ shared'[d] = shared[d] /\ key'[d] = key[d]
  BY DEF Quiet, Owns, TypeOK
<1>2. \A d \in Callers : Leading(d)' => Leading(d) /\ Owns(d)'
  BY DEF Quiet, Leading, Owns
<1>3. LeaderInFlight'
  BY <1>1, <1>2 DEF Quiet, Ownership, LeaderInFlight
<1>4. OneOwner'
  BY <1>1 DEF Ownership, OneOwner
<1>5. QED
  BY <1>3, <1>4 DEF Ownership

LEMMA AttachOwnership ==
    ASSUME TypeOK, Ownership, NEW c \in Callers, Attach(c)
    PROVE  Ownership'
<1>0. /\ pc[c] = "attach" /\ key[c] \in Keys /\ shared[c] = None
      /\ ~Leading(c) /\ ~Owns(c)
  BY DEF Attach, TypeOK, Leading, Owns
<1>1. CASE inFlight[key[c]] = None /\ Lead(c)
  <2>1. FreshHandle \in Handles /\ \A d \in Callers : shared[d] # FreshHandle
    BY <1>0, FreshHandleIsFree
  <2>2. /\ pc' = [pc EXCEPT ![c] = "leading"]
        /\ shared' = [shared EXCEPT ![c] = FreshHandle]
        /\ inFlight' = [inFlight EXCEPT ![key[c]] = FreshHandle]
        /\ key' = key
    BY <1>1 DEF Attach, Lead, Goto
  <2>3. \A d \in Callers \ {c} :
           /\ Leading(d)' <=> Leading(d)
           /\ Owns(d)' <=> Owns(d)
           /\ shared'[d] = shared[d]
    BY <2>2 DEF TypeOK, Leading, Owns
  <2>4. shared'[c] = FreshHandle /\ inFlight'[key[c]] = FreshHandle
    BY <1>0, <2>2 DEF TypeOK
  <2>5. \A d \in Callers \ {c} : Leading(d) => key[d] # key[c] /\ key[d] \in Keys
    <3>1. \A d \in Callers : Leading(d) => key[d] \in Keys /\ shared[d] # None
      BY DEF TypeOK, Leading
    <3>2. QED
      BY <1>1, <3>1 DEF Ownership, LeaderInFlight
  <2>6. \A d \in Callers \ {c} : Leading(d) => inFlight'[key[d]] = inFlight[key[d]]
    BY <2>2, <2>5 DEF TypeOK
  <2>7. LeaderInFlight'
    <3> SUFFICES ASSUME NEW d \in Callers, Leading(d)'
                 PROVE  inFlight'[key'[d]] = shared'[d]
      BY DEF LeaderInFlight
    <3>1. CASE d = c
      BY <2>2, <2>4, <3>1
    <3>2. CASE d # c
      BY <2>2, <2>3, <2>6, <3>2 DEF Ownership, LeaderInFlight
    <3>3. QED
      BY <3>1, <3>2
  <2>8. OneOwner'
    <3>1. \A d \in Callers \ {c} : shared'[d] # shared'[c]
      BY <2>1, <2>3, <2>4
    <3>2. \A d, e \in Callers \ {c} : Owns(d)' /\ Owns(e)' /\ shared'[d] = shared'[e] => d = e
      BY <2>3 DEF Ownership, OneOwner
    <3>3. QED
      BY <3>1, <3>2 DEF OneOwner
  <2>9. QED
    BY <2>7, <2>8 DEF Ownership
<1>2. CASE inFlight[key[c]] # None /\ Follow(c)
  <2>1. pc' = [pc EXCEPT ![c] = "register"] /\ key' = key /\ inFlight' = inFlight
    BY <1>2 DEF Attach, Follow, Goto
  <2>2. \A d \in Callers : d # c => shared'[d] = shared[d]
    BY <1>2 DEF Follow, TypeOK
  <2>3. ~Leading(c)' /\ ~Owns(c)'
    BY <2>1 DEF TypeOK, Leading, Owns
  <2>4. \A d \in Callers : d # c => pc'[d] = pc[d] /\ key'[d] = key[d]
    BY <2>1 DEF TypeOK
  <2>5. \A d \in Callers : Owns(d)' => Owns(d) /\ shared'[d] = shared[d]
    BY <2>2, <2>3, <2>4 DEF Owns
  <2>6. \A d \in Callers : Leading(d)' => Leading(d) /\ shared'[d] = shared[d]
    BY <2>2, <2>3, <2>4 DEF Leading
  <2>7. LeaderInFlight'
    BY <2>1, <2>6 DEF Ownership, LeaderInFlight
  <2>8. OneOwner'
    BY <2>5 DEF Ownership, OneOwner
  <2>9. QED
    BY <2>7, <2>8 DEF Ownership
<1>3. QED
  BY <1>1, <1>2 DEF Attach

LEMMA SettleOwnership ==
    ASSUME TypeOK, Ownership, NEW c \in Callers, Settle(c)
    PROVE  Ownership'
<1>1. /\ pc[c] = "settle" /\ pc' = [pc EXCEPT ![c] = "finish"]
      /\ inFlight' = [inFlight EXCEPT ![key[c]] = None]
      /\ key' = key /\ shared' = shared
  BY DEF Settle, Goto
<1>2. Leading(c) /\ ~Leading(c)'
  BY <1>1 DEF Leading, TypeOK
<1>3. \A d \in Callers : Owns(d)' <=> Owns(d)
  BY <1>1 DEF Owns, TypeOK
<1>4. \A d \in Callers \ {c} : Leading(d)' <=> Leading(d)
  BY <1>1 DEF Leading, TypeOK
<1>5. \A d \in Callers \ {c} : Leading(d) => key[d] # key[c]
  BY <1>2, OnePostLemma DEF OnePostPerKey
<1>6. \A d \in Callers \ {c} : Leading(d) => inFlight'[key[d]] = inFlight[key[d]]
  <2>1. \A d \in Callers : Leading(d) => key[d] \in Keys
    BY DEF TypeOK, Leading
  <2>2. QED
    BY <1>1, <1>5, <2>1 DEF TypeOK
<1>7. LeaderInFlight'
  BY <1>1, <1>2, <1>4, <1>6 DEF Ownership, LeaderInFlight
<1>8. OneOwner'
  BY <1>1, <1>3 DEF Ownership, OneOwner
<1>9. QED
  BY <1>7, <1>8 DEF Ownership

-----------------------------------------------------------------------------
(* Sharing: a request in flight has its leader, and one key.               *)

LEMMA InitSharing == Init => Sharing
BY DEF Init, Sharing, InFlightHasLeader, SameKey, Owns

LEMMA QuietSharing ==
    ASSUME TypeOK, TypeOK', Sharing, NEW c \in Callers, Quiet(c)
    PROVE  Sharing'
<1>1. \A d \in Callers : Leading(d) => Leading(d)' /\ key'[d] = key[d] /\ shared'[d] = shared[d]
  BY DEF Quiet, Leading, TypeOK
<1>2. InFlightHasLeader'
  BY <1>1 DEF Quiet, Sharing, InFlightHasLeader
<1>3. \A d \in Callers : Owns(d)' => Owns(d) /\ shared'[d] # None
  BY DEF Quiet, Owns, TypeOK
<1>4. \A d \in Callers : shared'[d] # None => shared'[d] = shared[d] /\ key'[d] = key[d]
  BY DEF Quiet
<1>5. SameKey'
  BY <1>3, <1>4 DEF Sharing, SameKey
<1>6. QED
  BY <1>2, <1>5 DEF Sharing

LEMMA AttachSharing ==
    ASSUME TypeOK, Ownership, Sharing, NEW c \in Callers, Attach(c)
    PROVE  Sharing'
<1>0. /\ pc[c] = "attach" /\ key[c] \in Keys /\ shared[c] = None
      /\ ~Leading(c) /\ ~Owns(c) /\ key' = key
  BY DEF Attach, TypeOK, Leading, Owns
<1>1. ASSUME NEW label, pc' = [pc EXCEPT ![c] = label]
      PROVE  \A d \in Callers \ {c} : /\ Leading(d)' <=> Leading(d)
                                      /\ Owns(d)' <=> Owns(d)
  BY <1>1 DEF TypeOK, Leading, Owns
<1>2. CASE inFlight[key[c]] = None /\ Lead(c)
  <2>1. FreshHandle \in Handles /\ \A d \in Callers : shared[d] # FreshHandle
    BY <1>0, FreshHandleIsFree
  <2>2. /\ pc' = [pc EXCEPT ![c] = "leading"]
        /\ shared' = [shared EXCEPT ![c] = FreshHandle]
        /\ inFlight' = [inFlight EXCEPT ![key[c]] = FreshHandle]
    BY <1>2 DEF Lead, Goto
  <2>3. Leading(c)' /\ shared'[c] = FreshHandle /\ inFlight'[key[c]] = FreshHandle
    BY <1>0, <2>2 DEF TypeOK, Leading
  <2>4. \A d \in Callers \ {c} : shared'[d] = shared[d]
    BY <2>2 DEF TypeOK
  <2>5. \A k \in Keys : k # key[c] => inFlight'[k] = inFlight[k]
    BY <2>2 DEF TypeOK
  <2>6. InFlightHasLeader'
    <3> SUFFICES ASSUME NEW k \in Keys, inFlight'[k] # None
                 PROVE  \E d \in Callers : Leading(d)' /\ key'[d] = k /\ shared'[d] = inFlight'[k]
      BY DEF InFlightHasLeader
    <3>1. CASE k = key[c]
      BY <1>0, <2>3, <3>1
    <3>2. CASE k # key[c]
      <4>1. PICK d \in Callers : Leading(d) /\ key[d] = k /\ shared[d] = inFlight[k]
        BY <2>5, <3>2 DEF Sharing, InFlightHasLeader
      <4>2. Leading(d)' /\ shared'[d] = shared[d]
        BY <1>0, <1>1, <2>2, <2>4, <4>1
      <4>3. QED
        BY <1>0, <2>5, <3>2, <4>1, <4>2
    <3>3. QED
      BY <3>1, <3>2
  <2>7. SameKey'
    <3> SUFFICES ASSUME NEW d \in Callers, NEW e \in Callers, Owns(d)', shared'[e] = shared'[d]
                 PROVE  key'[e] = key'[d]
      BY DEF SameKey
    <3>1. CASE d = c \/ e = c
      BY <2>1, <2>3, <2>4, <3>1
    <3>2. CASE d # c /\ e # c
      <4>1. Owns(d) /\ shared[e] = shared[d]
        BY <1>1, <2>2, <2>4, <3>2
      <4>2. QED
        BY <1>0, <4>1 DEF Sharing, SameKey
    <3>3. QED
      BY <3>1, <3>2
  <2>8. QED
    BY <2>6, <2>7 DEF Sharing
<1>3. CASE inFlight[key[c]] # None /\ Follow(c)
  <2>1. /\ pc' = [pc EXCEPT ![c] = "register"]
        /\ shared' = [shared EXCEPT ![c] = inFlight[key[c]]]
        /\ inFlight' = inFlight
    BY <1>3 DEF Follow, Goto
  <2>2. \A d \in Callers \ {c} : shared'[d] = shared[d]
    BY <2>1 DEF TypeOK
  <2>3. PICK l \in Callers : Leading(l) /\ key[l] = key[c] /\ shared[l] = inFlight[key[c]]
    BY <1>0, <1>3 DEF Sharing, InFlightHasLeader
  <2>4. shared'[c] = shared[l] /\ Owns(l) /\ ~Owns(c)'
    BY <2>1, <2>3 DEF TypeOK, Leading, Owns
  <2>5. InFlightHasLeader'
    <3> SUFFICES ASSUME NEW k \in Keys, inFlight[k] # None
                 PROVE  \E d \in Callers : Leading(d)' /\ key'[d] = k /\ shared'[d] = inFlight[k]
      BY <2>1 DEF InFlightHasLeader
    <3>1. PICK d \in Callers : Leading(d) /\ key[d] = k /\ shared[d] = inFlight[k]
      BY DEF Sharing, InFlightHasLeader
    <3>2. QED
      BY <1>0, <1>1, <2>1, <2>2, <3>1
  <2>6. SameKey'
    <3> SUFFICES ASSUME NEW d \in Callers, NEW e \in Callers, Owns(d)', shared'[e] = shared'[d]
                 PROVE  key'[e] = key'[d]
      BY DEF SameKey
    <3>1. d # c /\ Owns(d) /\ shared'[d] = shared[d]
      BY <1>1, <2>1, <2>2, <2>4
    <3>2. CASE e = c
      <4>1. shared[l] = shared[d]
        BY <2>4, <3>1, <3>2
      <4>2. key[l] = key[d]
        BY <3>1, <4>1 DEF Sharing, SameKey
      <4>3. QED
        BY <1>0, <2>3, <3>2, <4>2
    <3>3. CASE e # c
      <4>1. shared[e] = shared[d]
        BY <2>2, <3>1, <3>3
      <4>2. QED
        BY <1>0, <3>1, <4>1 DEF Sharing, SameKey
    <3>4. QED
      BY <3>2, <3>3
  <2>7. QED
    BY <2>5, <2>6 DEF Sharing
<1>4. QED
  BY <1>2, <1>3 DEF Attach

LEMMA SettleSharing ==
    ASSUME TypeOK, Ownership, Sharing, NEW c \in Callers, Settle(c)
    PROVE  Sharing'
<1>1. /\ pc[c] = "settle" /\ pc' = [pc EXCEPT ![c] = "finish"]
      /\ inFlight' = [inFlight EXCEPT ![key[c]] = None]
      /\ key' = key /\ shared' = shared
  BY DEF Settle, Goto
<1>2. \A d \in Callers : Owns(d)' <=> Owns(d)
  BY <1>1 DEF Owns, TypeOK
<1>3. \A d \in Callers \ {c} : Leading(d)' <=> Leading(d)
  BY <1>1 DEF Leading, TypeOK
<1>4. \A k \in Keys : inFlight'[k] = IF k = key[c] THEN None ELSE inFlight[k]
  BY <1>1 DEF TypeOK
<1>5. InFlightHasLeader'
  <2> SUFFICES ASSUME NEW k \in Keys, inFlight'[k] # None
               PROVE  \E d \in Callers : Leading(d)' /\ key'[d] = k /\ shared'[d] = inFlight'[k]
    BY DEF InFlightHasLeader
  <2>1. k # key[c] /\ inFlight'[k] = inFlight[k]
    BY <1>4
  <2>2. PICK d \in Callers : Leading(d) /\ key[d] = k /\ shared[d] = inFlight[k]
    BY <2>1 DEF Sharing, InFlightHasLeader
  <2>3. QED
    BY <1>1, <1>3, <2>1, <2>2
<1>6. SameKey'
  BY <1>1, <1>2 DEF Sharing, SameKey
<1>7. QED
  BY <1>5, <1>6 DEF Sharing

-----------------------------------------------------------------------------
(* Every step attaches, settles, or is quiet.                              *)

LEMMA ReturnQuiet ==
    ASSUME TypeOK, NEW c \in Callers, ~Leading(c), Return(c), inFlight' = inFlight
    PROVE  Quiet(c)
<1>1. pc'[c] = "idle" /\ shared'[c] = None
  BY DEF Return, TypeOK
<1>2. \A d \in Callers : d # c => pc'[d] = pc[d] /\ key'[d] = key[d] /\ shared'[d] = shared[d]
  BY DEF Return, TypeOK
<1>3. QED
  BY <1>1, <1>2 DEF Quiet, Leading, Owns

LEMMA GotoQuiet ==
    ASSUME TypeOK, NEW c \in Callers, NEW label, Goto(c, label),
           UNCHANGED <<inFlight, key, shared>>,
           label \in {"leading", "publish", "settle"} <=> Leading(c),
           label \in {"finish", "notify"} => Owns(c)
    PROVE  Quiet(c)
<1>1. /\ pc'[c] = label
      /\ \A d \in Callers : d # c => pc'[d] = pc[d]
  BY DEF Goto, TypeOK
<1>2. Leading(c)' <=> Leading(c)
  BY <1>1 DEF Leading
<1>3. Owns(c)' => Owns(c)
  BY <1>1, <1>2 DEF Owns, Leading
<1>4. QED
  BY <1>1, <1>2, <1>3 DEF Quiet

LEMMA NextShape ==
    ASSUME TypeOK, [Next]_vars
    PROVE  \/ \E c \in Callers : Attach(c) \/ Settle(c) \/ Quiet(c)
           \/ UNCHANGED <<inFlight, pc, key, shared>>
<1>1. ASSUME NEW c \in Callers, NEW k \in Keys, Start(c, k) PROVE Quiet(c)
  <2>1. /\ inFlight' = inFlight /\ pc[c] = "idle" /\ pc'[c] = "lookup"
        /\ shared' = shared /\ shared[c] = None
        /\ \A d \in Callers : d # c => pc'[d] = pc[d] /\ key'[d] = key[d]
    BY <1>1 DEF Start, Goto, dedup, TypeOK
  <2>2. QED
    BY <2>1 DEF Quiet, Leading, Owns
<1>2. ASSUME NEW c \in Callers, Proceed(c) PROVE Attach(c) \/ Settle(c) \/ Quiet(c)
  <2>1. CASE Lookup(c)
    <3>1. pc[c] = "lookup" /\ inFlight' = inFlight
          /\ (Return(c) \/ (Goto(c, "attach") /\ UNCHANGED <<key, shared>>))
      BY <2>1 DEF Lookup
    <3>2. QED
      BY <3>1, ReturnQuiet, GotoQuiet DEF Leading
  <2>2. CASE Register(c)
    <3>1. pc[c] = "register" /\ Goto(c, "check") /\ UNCHANGED <<inFlight, key, shared>>
      BY <2>2 DEF Register, dedup
    <3>2. QED
      BY <3>1, GotoQuiet DEF Leading
  <2>3. CASE Check(c)
    <3>1. /\ pc[c] = "check" /\ UNCHANGED <<inFlight, key, shared>>
          /\ Goto(c, "read") \/ Goto(c, "waiting")
      BY <2>3 DEF Check, dedup
    <3>2. QED
      BY <3>1, GotoQuiet DEF Leading
  <2>4. CASE Wake(c)
    <3>1. pc[c] = "waiting" /\ Goto(c, "read") /\ UNCHANGED <<inFlight, key, shared>>
      BY <2>4 DEF Wake, dedup
    <3>2. QED
      BY <3>1, GotoQuiet DEF Leading
  <2>5. CASE Read(c)
    <3>1. pc[c] = "read" /\ inFlight' = inFlight
      BY <2>5 DEF Read, dedup
    <3>2. CASE Return(c)
      BY <3>1, <3>2, ReturnQuiet DEF Leading
    <3>3. CASE ~Return(c)
      <4>1. /\ Goto(c, "lookup") /\ key' = key
            /\ shared' = [shared EXCEPT ![c] = None]
        BY <2>5, <3>3 DEF Read
      <4>2. /\ pc'[c] = "lookup" /\ shared'[c] = None
            /\ \A d \in Callers : d # c => pc'[d] = pc[d] /\ shared'[d] = shared[d]
        BY <4>1 DEF Goto, TypeOK
      <4>3. QED
        BY <3>1, <4>1, <4>2 DEF Quiet, Leading, Owns
    <3>4. QED
      BY <3>2, <3>3
  <2>6. CASE Respond(c)
    <3>1. /\ pc[c] = "leading" /\ UNCHANGED <<inFlight, key, shared>>
          /\ Goto(c, "publish") \/ Goto(c, "settle")
      BY <2>6 DEF Respond, Answered, Failed, dedup
    <3>2. QED
      BY <3>1, GotoQuiet DEF Leading
  <2>7. CASE Publish(c)
    <3>1. pc[c] = "publish" /\ Goto(c, "settle") /\ UNCHANGED <<inFlight, key, shared>>
      BY <2>7 DEF Publish, dedup
    <3>2. QED
      BY <3>1, GotoQuiet DEF Leading
  <2>8. CASE Finish(c)
    <3>1. pc[c] = "finish" /\ Goto(c, "notify") /\ UNCHANGED <<inFlight, key, shared>>
      BY <2>8 DEF Finish, dedup
    <3>2. QED
      BY <3>1, GotoQuiet DEF Leading, Owns
  <2>9. CASE NotifyWaiters(c)
    <3>1. pc[c] = "notify" /\ Return(c) /\ inFlight' = inFlight
      BY <2>9 DEF NotifyWaiters, dedup
    <3>2. QED
      BY <3>1, ReturnQuiet DEF Leading
  <2>10. QED
    BY <1>2, <2>1, <2>2, <2>3, <2>4, <2>5, <2>6, <2>7, <2>8, <2>9 DEF Proceed
<1>3. CASE UNCHANGED vars
  BY <1>3 DEF vars, dedup
<1>4. QED
  BY <1>1, <1>2, <1>3 DEF Next

LEMMA NextStructure == Structure /\ [Next]_vars => Structure'
<1> SUFFICES ASSUME Structure, [Next]_vars PROVE Structure'
  OBVIOUS
<1> USE DEF Structure
<1>1. TypeOK'
  BY NextTypeOK
<1>2. ASSUME NEW c \in Callers, Attach(c) \/ Settle(c) \/ Quiet(c)
      PROVE  Ownership' /\ Sharing'
  BY <1>1, <1>2, AttachOwnership, SettleOwnership, QuietOwnership,
     AttachSharing, SettleSharing, QuietSharing
<1>3. ASSUME UNCHANGED <<inFlight, pc, key, shared>> PROVE Ownership' /\ Sharing'
  BY <1>3 DEF Ownership, LeaderInFlight, OneOwner, Sharing, InFlightHasLeader, SameKey,
              Leading, Owns
<1>4. QED
  BY <1>1, <1>2, <1>3, NextShape

THEOREM StructureHolds == Spec => []Structure
<1>1. Init => Structure
  BY InitTypeOK, InitOwnership, InitSharing DEF Structure
<1>2. QED
  BY <1>1, NextStructure, PTL DEF Spec

\* At most one POST is in flight for a key, whatever the interleaving of lookups,
\* attachments and settlements of any number of callers.
THEOREM SingleFlightHolds == Spec => []OnePostPerKey
<1>1. Structure => OnePostPerKey
  BY OnePostLemma DEF Structure
<1>2. QED
  BY <1>1, StructureHolds, PTL

-----------------------------------------------------------------------------
(* Answers only get later.                                                 *)

Others(c) ==
    \A d \in Callers : d # c => /\ pc'[d] = pc[d] /\ key'[d] = key[d] /\ shared'[d] = shared[d]
                               /\ result'[d] = result[d] /\ floor'[d] = floor[d]

LEMMA ProceedOthers == ASSUME TypeOK, NEW c \in Callers, Proceed(c) PROVE Others(c)
<1> USE DEF Others, Goto, dedup, futures, TypeOK
<1>1. CASE Lookup(c)
  BY <1>1 DEF Lookup, Return
<1>2. CASE Attach(c)
  <2>1. CASE Lead(c)
    BY <1>2, <2>1 DEF Attach, Lead
  <2>2. CASE Follow(c)
    BY <1>2, <2>2 DEF Attach, Follow
  <2>3. QED
    BY <1>2, <2>1, <2>2 DEF Attach
<1>3. CASE Register(c) \/ Check(c) \/ Wake(c)
  BY <1>3 DEF Register, Check, Wake
<1>4. CASE Read(c)
  BY <1>4 DEF Read, Return
<1>5. CASE Respond(c) \/ Publish(c)
  BY <1>5 DEF Respond, Answered, Failed, Publish
<1>6. CASE Settle(c) \/ Finish(c)
  BY <1>6 DEF Settle, Finish
<1>7. CASE NotifyWaiters(c)
  BY <1>7 DEF NotifyWaiters, Return
<1>8. QED
  BY <1>1, <1>2, <1>3, <1>4, <1>5, <1>6, <1>7 DEF Proceed

\* What a step of c can change of the answers another caller relies on.
Growth(c) ==
    /\ \A k \in Keys : /\ served'[k] >= served[k]
                       /\ completed'[k] \in {completed[k], 0, served[k]}
    /\ \A d \in Callers \ {c} : shared[d] # None =>
          outcome'[shared[d]] \in {outcome[shared[d]], served[key[d]]}
    /\ \A d \in Callers \ {c} : Leading(d) =>
          /\ served'[key[d]] = served[key[d]]
          /\ outcome'[shared[d]] = outcome[shared[d]]

LEMMA SameAnswersGrowth ==
    ASSUME TypeOK, NEW c \in Callers, UNCHANGED <<completed, outcome, served>>
    PROVE  Growth(c)
BY DEF Growth, TypeOK, Leading

LEMMA ProceedGrowth ==
    ASSUME IInv, NEW c \in Callers, Proceed(c)
    PROVE  Growth(c)
<1> USE DEF IInv, Structure
<1>1. \A d \in Callers \ {c} : Leading(c) /\ Leading(d) => key[d] # key[c]
  BY OnePostLemma DEF OnePostPerKey
<1>2. \A d \in Callers : Leading(d) => key[d] \in Keys /\ Owns(d)
  BY DEF TypeOK, Leading, Owns
<1>3. CASE Attach(c)
  <2>1. CASE Lead(c)
    <3>1. shared[c] = None
      BY <1>3 DEF Attach, TypeOK
    <3>2. \A d \in Callers : shared[d] # FreshHandle
      BY <3>1, FreshHandleIsFree
    <3>3. outcome' = [outcome EXCEPT ![FreshHandle] = 0] /\ UNCHANGED <<completed, served>>
      BY <1>3, <2>1 DEF Attach, Lead
    <3>4. \A d \in Callers : shared[d] # None => outcome'[shared[d]] = outcome[shared[d]]
      BY <3>2, <3>3 DEF TypeOK
    <3>5. QED
      BY <3>3, <3>4 DEF Growth, TypeOK, Leading
  <2>2. CASE Follow(c)
    BY <1>3, <2>2, SameAnswersGrowth DEF Attach, Follow
  <2>3. QED
    BY <1>3, <2>1, <2>2 DEF Attach
<1>4. CASE Respond(c)
  <2>1. Leading(c) /\ UNCHANGED <<completed, outcome>>
    BY <1>4 DEF Respond, Leading, dedup, futures
  <2>2. CASE Failed(c)
    BY <2>1, <2>2, SameAnswersGrowth DEF Failed
  <2>3. CASE Answered(c)
    <3>1. served' = [served EXCEPT ![key[c]] = @ + 1]
      BY <2>3 DEF Answered
    <3>2. \A k \in Keys : served'[k] = IF k = key[c] THEN served[k] + 1 ELSE served[k]
      BY <3>1 DEF TypeOK
    <3>3. \A k \in Keys : served[k] \in Nat
      BY DEF TypeOK
    <3>4. QED
      BY <1>1, <1>2, <2>1, <3>2, <3>3 DEF Growth
  <2>4. QED
    BY <1>4, <2>2, <2>3 DEF Respond
<1>5. CASE Publish(c)
  <2>1. /\ pc[c] = "publish" /\ UNCHANGED <<completed, served>>
        /\ outcome' = [outcome EXCEPT ![shared[c]] = result[c]]
    BY <1>5 DEF Publish, dedup
  <2>2. Owns(c) /\ shared[c] \in Handles /\ result[c] = served[key[c]]
    BY <2>1 DEF Owns, TypeOK, Answers, Known
  <2>3. \A h \in Handles : outcome'[h] = IF h = shared[c] THEN result[c] ELSE outcome[h]
    BY <2>1 DEF TypeOK
  <2>4. \A d \in Callers : shared[d] = shared[c] => key[d] = key[c]
    BY <2>2 DEF Sharing, SameKey
  <2>5. \A d \in Callers \ {c} : Leading(d) => shared[d] # shared[c]
    BY <1>2, <2>2 DEF Ownership, OneOwner
  <2>6. \A d \in Callers : shared[d] # None => shared[d] \in Handles
    BY DEF TypeOK
  <2>7. \A d \in Callers \ {c} : shared[d] # None =>
            outcome'[shared[d]] \in {outcome[shared[d]], served[key[d]]}
    BY <2>2, <2>3, <2>4, <2>6
  <2>8. \A d \in Callers \ {c} : Leading(d) => outcome'[shared[d]] = outcome[shared[d]]
    <3>1. \A d \in Callers : Leading(d) => shared[d] # None
      BY DEF Leading, TypeOK
    <3>2. QED
      BY <2>3, <2>5, <2>6, <3>1
  <2>9. \A k \in Keys : served'[k] >= served[k] /\ completed'[k] = completed[k]
    BY <2>1 DEF TypeOK
  <2>10. QED
    BY <2>1, <2>7, <2>8, <2>9 DEF Growth
<1>6. CASE Settle(c)
  <2>1. pc[c] = "settle" /\ UNCHANGED <<outcome, served>>
    BY <1>6 DEF Settle, futures
  <2>2. \A k \in Keys : completed'[k] \in {completed[k], 0, served[k]}
    <3>1. CASE result[c] = 0
      BY <1>6, <3>1 DEF Settle
    <3>2. CASE result[c] # 0
      <4>1. InsertCompleted(key[c], result[c]) /\ result[c] = served[key[c]]
        BY <1>6, <2>1, <3>2 DEF Settle, Answers, Known
      <4>2. QED
        BY <4>1 DEF InsertCompleted
    <3>3. QED
      BY <3>1, <3>2
  <2>3. \A k \in Keys : served'[k] >= served[k]
    BY <2>1 DEF TypeOK
  <2>4. QED
    BY <2>1, <2>2, <2>3 DEF Growth
<1>7. CASE ~(Attach(c) \/ Respond(c) \/ Publish(c) \/ Settle(c))
  <2>1. UNCHANGED <<completed, outcome, served>>
    BY <1>7 DEF Proceed, Lookup, Register, Check, Wake, Read, Finish, NotifyWaiters, dedup, futures
  <2>2. QED
    BY <2>1, SameAnswersGrowth
<1>8. QED
  BY <1>3, <1>4, <1>5, <1>6, <1>7

\* A step of c leaves what the other callers know, and its freshness, as it was.
LEMMA OthersAnswers ==
    ASSUME IInv, TypeOK', NEW c \in Callers, Others(c), Growth(c)
    PROVE  \A d \in Callers \ {c} : Known(d)' /\ Fresh(d)'
<1> SUFFICES ASSUME NEW d \in Callers \ {c} PROVE Known(d)' /\ Fresh(d)'
  OBVIOUS
<1>1. /\ pc'[d] = pc[d] /\ key'[d] = key[d] /\ shared'[d] = shared[d]
      /\ result'[d] = result[d] /\ floor'[d] = floor[d]
  BY DEF Others
<1>2. Known(d) /\ Fresh(d)
  BY DEF IInv, Answers
<1>3. Leading(d) => /\ served'[key[d]] = served[key[d]]
                    /\ outcome'[shared[d]] = outcome[shared[d]]
  BY DEF Growth
<1>4. Known(d)'
  BY <1>1, <1>2, <1>3 DEF Known, Leading
<1>5. CASE pc[d] = "idle"
  BY <1>1, <1>4, <1>5 DEF Fresh
<1>6. CASE pc[d] # "idle"
  <2>1. key[d] \in Keys /\ floor[d] \in Nat /\ served[key[d]] \in Nat
    BY <1>6 DEF IInv, Structure, TypeOK
  <2>2. /\ served'[key[d]] >= served[key[d]]
        /\ completed'[key[d]] \in {completed[key[d]], 0, served[key[d]]}
    BY <2>1 DEF Growth
  <2>3. served'[key[d]] \in Nat
    BY <2>1 DEF TypeOK
  <2>4. floor'[d] <= served'[key'[d]]
    BY <1>1, <1>2, <1>6, <2>1, <2>2, <2>3 DEF Fresh
  <2>5. completed'[key'[d]] # 0 => completed'[key'[d]] >= floor'[d]
    BY <1>1, <1>2, <1>6, <2>1, <2>2 DEF Fresh
  <2>6. shared'[d] # None /\ outcome'[shared'[d]] # 0 => outcome'[shared'[d]] >= floor'[d]
    <3>1. shared[d] # None => outcome'[shared[d]] \in {outcome[shared[d]], served[key[d]]}
      BY DEF Growth
    <3>2. QED
      BY <1>1, <1>2, <1>6, <2>1, <3>1 DEF Fresh
  <2>7. result'[d] # 0 => result'[d] >= floor'[d]
    BY <1>1, <1>2, <1>6 DEF Fresh
  <2>8. QED
    BY <1>4, <2>4, <2>5, <2>6, <2>7 DEF Fresh
<1>7. QED
  BY <1>5, <1>6

\* A step that moves c without touching its answer, its key or its handle.
LEMMA GotoAnswers ==
    ASSUME IInv, TypeOK', NEW c \in Callers, NEW label, Goto(c, label), pc[c] # "idle",
           UNCHANGED <<completed, outcome, served, key, shared, result, floor>>,
           label \notin {"leading", "publish", "settle"},
           label \in {"lookup", "attach", "register", "check", "waiting"} => result[c] = 0
    PROVE  Known(c)' /\ Fresh(c)'
<1>1. pc'[c] = label
  BY DEF Goto, IInv, Structure, TypeOK
<1>2. Fresh(c)
  BY DEF IInv, Answers
<1>3. QED
  BY <1>1, <1>2 DEF Known, Fresh

LEMMA AttachAnswers ==
    ASSUME IInv, TypeOK', NEW c \in Callers, Attach(c)
    PROVE  Known(c)' /\ Fresh(c)'
<1>1. /\ pc[c] = "attach" /\ key[c] \in Keys /\ shared[c] = None
      /\ UNCHANGED <<completed, key, result, served, floor>>
  BY DEF Attach, IInv, Structure, TypeOK
<1>2. Known(c) /\ Fresh(c)
  BY DEF IInv, Answers
<1>3. CASE Lead(c)
  <2>1. FreshHandle \in Handles
    BY <1>1, FreshHandleIsFree DEF IInv, Structure
  <2>2. pc'[c] = "leading" /\ shared'[c] = FreshHandle /\ outcome'[FreshHandle] = 0
    BY <1>3, <2>1 DEF Lead, Goto, IInv, Structure, TypeOK
  <2>3. QED
    BY <1>1, <1>2, <2>2 DEF Known, Fresh
<1>4. CASE inFlight[key[c]] # None /\ Follow(c)
  <2>1. pc'[c] = "register" /\ shared'[c] = inFlight[key[c]] /\ outcome' = outcome
    BY <1>4 DEF Follow, Goto, IInv, Structure, TypeOK
  <2>2. PICK l \in Callers : Leading(l) /\ key[l] = key[c] /\ shared[l] = inFlight[key[c]]
    BY <1>1, <1>4 DEF IInv, Structure, Sharing, InFlightHasLeader
  <2>3. Known(l)
    BY DEF IInv, Answers
  <2>4. outcome[shared[l]] # 0 => outcome[shared[l]] = served[key[c]]
    BY <2>2, <2>3 DEF Known, Leading
  <2>5. Known(c)'
    BY <1>1, <1>2, <2>1 DEF Known
  <2>6. Fresh(c)'
    BY <1>1, <1>2, <2>1, <2>2, <2>4 DEF Fresh
  <2>7. QED
    BY <2>5, <2>6
<1>5. QED
  BY <1>3, <1>4 DEF Attach

LEMMA RespondAnswers ==
    ASSUME IInv, TypeOK', NEW c \in Callers, Respond(c)
    PROVE  Known(c)' /\ Fresh(c)'
<1>1. /\ pc[c] = "leading" /\ key[c] \in Keys
      /\ UNCHANGED <<completed, outcome, key, shared, floor>>
  BY DEF Respond, dedup, futures, IInv, Structure, TypeOK
<1>2. Known(c) /\ Fresh(c)
  BY DEF IInv, Answers
<1>3. CASE Answered(c)
  <2>1. /\ pc'[c] = "publish" /\ served'[key[c]] = served[key[c]] + 1
        /\ result'[c] = served[key[c]] + 1
    BY <1>1, <1>3 DEF Answered, Goto, IInv, Structure, TypeOK
  <2>2. served[key[c]] \in Nat /\ floor[c] \in Nat
    BY <1>1 DEF IInv, Structure, TypeOK
  <2>3. Known(c)'
    BY <1>1, <1>2, <2>1 DEF Known
  <2>4. Fresh(c)'
    BY <1>1, <1>2, <2>1, <2>2 DEF Fresh
  <2>5. QED
    BY <2>3, <2>4
<1>4. CASE Failed(c)
  <2>1. pc'[c] = "settle" /\ UNCHANGED <<served, result>>
    BY <1>4 DEF Failed, Goto, IInv, Structure, TypeOK
  <2>2. QED
    BY <1>1, <1>2, <2>1 DEF Known, Fresh
<1>5. QED
  BY <1>3, <1>4 DEF Respond

LEMMA PublishAnswers ==
    ASSUME IInv, TypeOK', NEW c \in Callers, Publish(c)
    PROVE  Known(c)' /\ Fresh(c)'
<1>1. /\ pc[c] = "publish" /\ pc'[c] = "settle" /\ shared[c] \in Handles
      /\ outcome'[shared[c]] = result[c]
      /\ UNCHANGED <<completed, key, shared, result, served, floor>>
  BY DEF Publish, Goto, dedup, IInv, Structure, TypeOK
<1>2. Known(c) /\ Fresh(c)
  BY DEF IInv, Answers
<1>3. QED
  BY <1>1, <1>2 DEF Known, Fresh

LEMMA SettleAnswers ==
    ASSUME IInv, TypeOK', NEW c \in Callers, Settle(c), Growth(c)
    PROVE  Known(c)' /\ Fresh(c)'
<1>1. /\ pc[c] = "settle" /\ pc'[c] = "finish" /\ key[c] \in Keys
      /\ UNCHANGED <<outcome, key, shared, result, served, floor>>
  BY DEF Settle, Goto, futures, IInv, Structure, TypeOK
<1>2. Fresh(c)
  BY DEF IInv, Answers
<1>3. completed'[key[c]] \in {completed[key[c]], 0, served[key[c]]}
  BY <1>1 DEF Growth
<1>4. QED
  BY <1>1, <1>2, <1>3 DEF Known, Fresh

LEMMA ProceedAnswers ==
    ASSUME IInv, TypeOK', NEW c \in Callers, Proceed(c), Growth(c)
    PROVE  Known(c)' /\ Fresh(c)'
<1>1. ASSUME Return(c) PROVE Known(c)' /\ Fresh(c)'
  <2>1. pc'[c] = "idle"
    BY <1>1 DEF Return, IInv, Structure, TypeOK
  <2>2. QED
    BY <2>1 DEF Known, Fresh
<1>2. Known(c)
  BY DEF IInv, Answers
<1>3. CASE Lookup(c)
  <2>1. /\ pc[c] = "lookup" /\ UNCHANGED <<completed, outcome, served>>
        /\ Return(c) \/ (Goto(c, "attach") /\ UNCHANGED <<key, shared, result, floor>>)
    BY <1>3 DEF Lookup, futures
  <2>2. QED
    BY <1>1, <1>2, <2>1, GotoAnswers DEF Known
<1>4. CASE Register(c) \/ Check(c) \/ Wake(c)
  <2>1. /\ pc[c] \in {"register", "check", "waiting"}
        /\ UNCHANGED <<completed, outcome, served, key, shared, result, floor>>
        /\ Goto(c, "check") \/ Goto(c, "waiting") \/ Goto(c, "read")
    BY <1>4 DEF Register, Check, Wake, dedup, futures
  <2>2. QED
    BY <1>2, <2>1, GotoAnswers DEF Known
<1>5. CASE Read(c)
  <2>1. CASE outcome[shared[c]] # 0
    BY <1>1, <1>5, <2>1 DEF Read
  <2>2. CASE outcome[shared[c]] = 0
    <3>1. /\ pc[c] = "read" /\ UNCHANGED <<completed, outcome, served, key, floor>>
          /\ pc'[c] = "lookup" /\ result'[c] = 0 /\ shared'[c] = None
      BY <1>5, <2>2 DEF Read, Goto, dedup, futures, IInv, Structure, TypeOK
    <3>2. Fresh(c)
      BY DEF IInv, Answers
    <3>3. QED
      BY <3>1, <3>2 DEF Known, Fresh
  <2>3. QED
    BY <2>1, <2>2
<1>6. CASE Finish(c)
  <2>1. /\ pc[c] = "finish" /\ Goto(c, "notify")
        /\ UNCHANGED <<completed, outcome, served, key, shared, result, floor>>
    BY <1>6 DEF Finish, dedup
  <2>2. QED
    BY <2>1, GotoAnswers
<1>7. CASE NotifyWaiters(c)
  BY <1>1, <1>7 DEF NotifyWaiters
<1>8. QED
  BY <1>3, <1>4, <1>5, <1>6, <1>7, AttachAnswers, RespondAnswers, PublishAnswers,
     SettleAnswers DEF Proceed

LEMMA CompletedServed ==
    ASSUME IInv, TypeOK', NEW c \in Callers, Growth(c)
    PROVE  \A k \in Keys : completed'[k] <= served'[k]
<1> SUFFICES ASSUME NEW k \in Keys PROVE completed'[k] <= served'[k]
  OBVIOUS
<1>1. completed[k] <= served[k] /\ completed[k] \in Nat /\ served[k] \in Nat
  BY DEF IInv, Structure, TypeOK, Answers
<1>2. served'[k] \in Nat
  BY DEF TypeOK
<1>3. QED
  BY <1>1, <1>2 DEF Growth

LEMMA StartAnswers ==
    ASSUME IInv, TypeOK', NEW c \in Callers, NEW k \in Keys, Start(c, k)
    PROVE  Others(c) /\ Growth(c) /\ Known(c)' /\ Fresh(c)'
<1>1. /\ pc'[c] = "lookup" /\ key'[c] = k /\ shared'[c] = None
      /\ result'[c] = 0 /\ floor'[c] = completed[k]
      /\ UNCHANGED <<completed, outcome, served>>
  BY DEF Start, Goto, dedup, futures, IInv, Structure, TypeOK
<1>2. Others(c)
  BY DEF Start, Goto, Others, IInv, Structure, TypeOK
<1>3. Growth(c)
  BY <1>1, SameAnswersGrowth DEF IInv, Structure
<1>4. completed[k] <= served[k] /\ completed[k] \in Nat
  BY DEF IInv, Structure, TypeOK, Answers
<1>5. QED
  BY <1>1, <1>2, <1>3, <1>4 DEF Known, Fresh

LEMMA InitInvariant == Init => IInv
<1> SUFFICES ASSUME Init PROVE IInv
  OBVIOUS
<1>1. Structure
  BY InitTypeOK, InitOwnership, InitSharing DEF Structure
<1>2. Answers
  BY DEF Init, Answers, Known, Fresh
<1>3. QED
  BY <1>1, <1>2 DEF IInv

LEMMA NextInvariant == IInv /\ [Next]_vars => IInv'
<1> SUFFICES ASSUME IInv, [Next]_vars PROVE IInv'
  OBVIOUS
<1>1. Structure'
  BY NextStructure DEF IInv
<1>2. TypeOK'
  BY <1>1 DEF Structure
<1>3. ASSUME NEW c \in Callers, Others(c), Growth(c), Known(c)', Fresh(c)'
      PROVE  Answers'
  <2>1. \A d \in Callers : Known(d)' /\ Fresh(d)'
    BY <1>2, <1>3, OthersAnswers
  <2>2. \A k \in Keys : completed'[k] <= served'[k]
    BY <1>2, <1>3, CompletedServed
  <2>3. QED
    BY <2>1, <2>2 DEF Answers
<1>4. ASSUME NEW c \in Callers, Proceed(c) PROVE Answers'
  <2>1. Others(c) /\ Growth(c)
    BY <1>4, ProceedOthers, ProceedGrowth DEF IInv, Structure
  <2>2. QED
    BY <1>2, <1>3, <1>4, <2>1, ProceedAnswers
<1>5. ASSUME NEW c \in Callers, NEW k \in Keys, Start(c, k) PROVE Answers'
  BY <1>2, <1>3, <1>5, StartAnswers
<1>6. ASSUME UNCHANGED vars PROVE Answers'
  BY <1>6 DEF vars, dedup, futures, IInv, Answers, Known, Fresh
<1>7. Answers'
  BY <1>4, <1>5, <1>6 DEF Next
<1>8. QED
  BY <1>1, <1>7 DEF IInv

THEOREM Invariant == Spec => []IInv
BY InitInvariant, NextInvariant, PTL DEF Spec

\* The answer a call returns is never older than the one cached when it began.
THEOREM NoStaleAnswer == Spec => AnswerNeverOlder
<1> DEFINE NotOlder ==
      \A c \in Callers : pc[c] # "idle" /\ pc'[c] = "idle" /\ result'[c] # 0
                           => result'[c] >= floor[c]
<1>1. IInv /\ [Next]_vars => NotOlder
  <2> SUFFICES ASSUME IInv, [Next]_vars, NEW c \in Callers,
                      pc[c] # "idle", pc'[c] = "idle", result'[c] # 0
               PROVE  result'[c] >= floor[c]
    OBVIOUS
  <2>1. Fresh(c) /\ Known(c) /\ TypeOK
    BY DEF IInv, Structure, Answers
  <2>2. ASSUME NEW d \in Callers, Proceed(d), d # c PROVE FALSE
    <3>1. Others(d)
      BY <2>1, <2>2, ProceedOthers
    <3>2. QED
      BY <2>2, <3>1 DEF Others
  <2>3. ASSUME NEW d \in Callers, NEW k \in Keys, Start(d, k) PROVE FALSE
    BY <2>1, <2>3 DEF Start, Goto, TypeOK
  <2>4. CASE Proceed(c)
    <3>1. CASE Lookup(c)
      BY <2>1, <3>1 DEF Lookup, Goto, Fresh, TypeOK
    <3>2. CASE Read(c)
      BY <2>1, <3>2 DEF Read, Goto, Fresh, TypeOK
    <3>3. CASE NotifyWaiters(c)
      BY <2>1, <3>3 DEF NotifyWaiters, Fresh, TypeOK
    <3>4. CASE ~(Lookup(c) \/ Read(c) \/ NotifyWaiters(c))
      <4>1. \E label \in Labels \ {"idle"} : Goto(c, label)
        BY <2>4, <3>4 DEF Proceed, Attach, Lead, Follow, Register, Check, Wake, Respond,
                          Answered, Failed, Publish, Settle, Finish, Labels
      <4>2. QED
        BY <2>1, <4>1 DEF Goto, TypeOK
    <3>5. QED
      BY <3>1, <3>2, <3>3, <3>4
  <2>5. CASE UNCHANGED vars
    BY <2>5 DEF vars
  <2>6. QED
    BY <2>2, <2>3, <2>4, <2>5 DEF Next
<1>2. QED
  BY <1>1, Invariant, PTL DEF Spec, AnswerNeverOlder
=============================================================================

----------------------- MODULE SchemaReplicationProofs -----------------------
(***************************************************************************)
(* Proofs about SchemaReplication, for any keys, entries, settings, writers*)
(* and bounds: the replicator implements the one-way mirror, never stores  *)
(* poison, and its pinned updates lose no foreign write.                   *)
(*                                                                         *)
(* Why no key ever goes back to an older operation: an operation waits in  *)
(* one of three places, the snapshot, the queue and the write in progress, *)
(* and none of them is behind what was copied last of its key (SnapAhead,  *)
(* QueueAhead, WorkAhead).  That survives the copying of any one of them   *)
(* because the queue ascends, the write in progress is ahead of the queue, *)
(* and the snapshot and the queue are never full together (PhaseShape).    *)
(***************************************************************************)
EXTENDS SchemaReplication, ListLemmas

-----------------------------------------------------------------------------
(* The operations of the source.                                           *)

Operation == [key : Keys, val : Value \cup {None}]

(* The last operation on k of the first n is one of them, or 0, and no     *)
(* other comes after it.                                                   *)
LEMMA LastByIsLast ==
  ASSUME NEW n \in Nat, NEW k
  PROVE  /\ LastBy(k, n) \in 0..n
         /\ LastBy(k, n) # 0 => log[LastBy(k, n)].key = k
         /\ \A i \in 1..n : log[i].key = k => i <= LastBy(k, n)
<1> DEFINE S == {0} \cup {i \in 1..n : log[i].key = k}
<1>1. S \subseteq 0..n /\ S # {} /\ n \in Nat
  OBVIOUS
<1>2. Max(S) \in S /\ \A i \in S : i <= Max(S)
  <2> HIDE DEF S
  <2> QED BY <1>1, BoundedHasMax
<1>3. LastBy(k, n) = Max(S)
  BY DEF LastBy
<1> QED BY <1>1, <1>2, <1>3
-----------------------------------------------------------------------------
(* The invariant.                                                          *)

(* What was last copied of a key is an operation on that key, and with no  *)
(* other writer the target still holds it.                                 *)
PositionsAreOnKey == \A k \in Keys : position[k] # 0 => log[position[k]].key = k

MirrorsPosition == ~shared => \A k \in Keys : target[k].val = ValueAt(position[k])

(* The three places where an operation waits.                              *)
SnapAhead ==
  \A k \in Keys : snap[k] # 0 => log[snap[k]].key = k /\ position[k] <= snap[k]

QueueAhead ==
  /\ \A i \in 1..Len(queue) : position[log[queue[i]].key] <= queue[i]
  /\ \A i, j \in 1..Len(queue) : i < j => queue[i] < queue[j]

WorkAhead ==
  work # NoWork =>
    /\ position[log[work.event].key] <= work.event
    /\ \A i \in 1..Len(queue) : work.event < queue[i]
    /\ snap[log[work.event].key] = 0
    /\ todo = {} /\ phase \in {"listed", "tail"}

PhaseShape ==
  /\ phase # "tail" => queue = <<>>
  /\ phase = "tail" => snap = Nothing /\ todo = {}

(* Revisions of the target count up, and a pin is the revision of nothing  *)
(* but the entry that was read.                                            *)
RevisionsAreUsed ==
  \A k \in Keys : target[k].rev <= targetSeq /\ (Live(target, k) => target[k].rev # 0)

PinMeansSeen ==
  work.step = "update" =>
    LET k == log[work.event].key IN
      /\ work.seen.rev # 0 /\ work.seen.rev <= targetSeq
      /\ target[k].rev = work.seen.rev => target[k] = work.seen

IInv ==
  /\ TypeOK
  /\ PositionsAreOnKey /\ MirrorsPosition
  /\ SnapAhead /\ QueueAhead /\ WorkAhead /\ PhaseShape
  /\ RevisionsAreUsed /\ PinMeansSeen

Decoded == {i \in DOMAIN log : log[i].val \in Entries}

(* The types, one by one.                                                  *)
LEMMA Types ==
  ASSUME TypeOK
  PROVE  /\ settings \in Settings /\ shared \in BOOLEAN
         /\ log \in Seq(Operation) /\ Len(log) \in Nat /\ DOMAIN log = 1..Len(log)
         /\ \A i \in 1..Len(log) : log[i].key \in Keys /\ log[i].val \in Value \cup {None}
         /\ target \in [Keys -> Entry(Value)] /\ targetSeq \in Nat
         /\ \A k \in Keys : target[k].rev \in Nat /\ target[k].val \in Value \cup {None}
         /\ position \in [Keys -> 0..Len(log)]
         /\ snap \in [Keys -> 0..Len(log)] /\ snap \in [Keys -> Decoded \cup {0}]
         /\ queue \in Seq(1..Len(log)) /\ Len(queue) \in Nat /\ DOMAIN queue = 1..Len(queue)
         /\ \A i \in 1..Len(queue) : queue[i] \in 1..Len(log)
         /\ work # NoWork => /\ work \in Work /\ work.event \in Decoded
                             /\ work.event \in 1..Len(log)
                             /\ log[work.event].val \in Entries
                             /\ work.seen \in Entry(Value) /\ work.seen.rev \in Nat
                             /\ work.step \in {"put", "update"}
         /\ metrics \in [Counters -> Nat]
<1>1. settings \in Settings /\ shared \in BOOLEAN
  BY SettingsAreTyped DEF TypeOK
<1>2. log \in Seq(Operation) /\ Len(log) \in Nat /\ DOMAIN log = 1..Len(log)
  BY DEF TypeOK, Operation
<1>3. \A i \in 1..Len(log) : log[i].key \in Keys /\ log[i].val \in Value \cup {None}
  <2>1. \A i \in 1..Len(log) : log[i] \in Operation
    BY <1>2
  <2> QED BY <2>1 DEF Operation
<1>4. target \in [Keys -> Entry(Value)] /\ targetSeq \in Nat
  BY DEF TypeOK
<1>5. \A k \in Keys : target[k].rev \in Nat /\ target[k].val \in Value \cup {None}
  BY <1>4 DEF Entry
<1>6. snap \in [Keys -> Decoded \cup {0}]
  BY DEF TypeOK, Decoded
<1>7. Decoded \cup {0} \subseteq 0..Len(log)
  BY <1>2 DEF Decoded
<1>8. snap \in [Keys -> 0..Len(log)]
  BY <1>6, <1>7
<1>9. queue \in Seq(1..Len(log))
  BY <1>2 DEF TypeOK
<1>10. ASSUME work # NoWork
       PROVE  /\ work \in Work /\ work.event \in Decoded
              /\ work.event \in 1..Len(log)
              /\ log[work.event].val \in Entries
              /\ work.seen \in Entry(Value) /\ work.seen.rev \in Nat
              /\ work.step \in {"put", "update"}
  <2>1. work \in Work /\ work.event \in Decoded
    BY <1>10 DEF TypeOK, Decoded
  <2> QED BY <2>1, <1>2 DEF Decoded, Work, Entry
<1>11. position \in [Keys -> 0..Len(log)] /\ metrics \in [Counters -> Nat]
  BY DEF TypeOK
<1> QED BY <1>1, <1>2, <1>3, <1>4, <1>5, <1>6, <1>8, <1>9, <1>10, <1>11

LEMMA InitHolds == Init => IInv
<1> SUFFICES ASSUME Init PROVE IInv
  OBVIOUS
<1>1. /\ log = <<>> /\ queue = <<>> /\ Len(log) = 0 /\ Len(queue) = 0
      /\ log \in Seq(Operation) /\ queue \in Seq(DOMAIN log)
      /\ target = [k \in Keys |-> NeverWritten] /\ targetSeq = 0
      /\ position = Nothing /\ snap = Nothing /\ work = NoWork /\ phase = "down" /\ todo = {}
      /\ settings \in Settings /\ shared \in Sharing
      /\ metrics = [m \in Counters |-> 0] /\ restarts = 0
  BY DEF Init
<1>2. TypeOK
  BY <1>1, Bounds DEF TypeOK, Operation, Entry, NeverWritten, Nothing
<1>3. MirrorsPosition /\ RevisionsAreUsed
  BY <1>1 DEF MirrorsPosition, RevisionsAreUsed, NeverWritten, Nothing, ValueAt, Live
<1>4. PositionsAreOnKey /\ SnapAhead /\ QueueAhead /\ WorkAhead /\ PhaseShape /\ PinMeansSeen
  BY <1>1 DEF PositionsAreOnKey, SnapAhead, QueueAhead, WorkAhead, PhaseShape, PinMeansSeen,
     NoWork, Nothing
<1> QED BY <1>2, <1>3, <1>4 DEF IInv
-----------------------------------------------------------------------------
(* Steps that copy nothing.                                                *)

(* One that touches neither bucket and nothing that was copied.            *)
LEMMA NothingCopied ==
  ASSUME IInv, UNCHANGED <<setup, log, targetVars, position>>,
         TypeOK', SnapAhead', QueueAhead', WorkAhead', PhaseShape', PinMeansSeen'
  PROVE  IInv'
<1>1. PositionsAreOnKey' /\ MirrorsPosition' /\ RevisionsAreUsed'
  BY DEF IInv, PositionsAreOnKey, MirrorsPosition, RevisionsAreUsed, setup, targetVars, ValueAt, Live
<1> QED BY <1>1 DEF IInv

LEMMA NoWorkIsNoUpdate == NoWork.step # "update" /\ NoWork.step # "put"
  BY DEF NoWork

LEMMA ListingPreserves ==
  ASSUME IInv, UNCHANGED setup, ListSource \/ SkipBootstrap
  PROVE  IInv'
<1>1. /\ UNCHANGED <<log, targetVars, snap, queue, work, metrics, position, restarts>>
      /\ phase = "down" /\ phase' = "listed" /\ (todo' = todo \/ todo' \subseteq Keys)
  BY DEF ListSource, SkipBootstrap
<1>2. work = NoWork /\ queue = <<>> /\ TypeOK
  BY <1>1 DEF IInv, WorkAhead, PhaseShape
<1>3. TypeOK'
  BY <1>1, <1>2 DEF TypeOK, setup, targetVars, LastOn, Held
<1>4. SnapAhead' /\ QueueAhead' /\ WorkAhead' /\ PhaseShape' /\ PinMeansSeen'
  BY <1>1, <1>2, NoWorkIsNoUpdate
     DEF IInv, SnapAhead, QueueAhead, WorkAhead, PhaseShape, PinMeansSeen, targetVars
<1> QED BY <1>1, <1>3, <1>4, NothingCopied

(* The entry fetched is the last on its key, and so not behind.            *)
LEMMA FetchPreserves ==
  ASSUME IInv, UNCHANGED setup, NEW k \in Keys, FetchEntry(k)
  PROVE  IInv'
<1>1. /\ UNCHANGED <<log, targetVars, queue, work, metrics, position, restarts>>
      /\ phase = "listed" /\ k \in todo
      /\ \/ phase' = "halted" /\ todo' = {} /\ snap' = Nothing
         \/ /\ Held(k) # Poison /\ phase' = phase /\ todo' = todo \ {k}
            /\ snap' = [snap EXCEPT ![k] = IF Held(k) = None THEN 0 ELSE LastOn(k)]
  BY DEF FetchEntry
<1>2. work = NoWork /\ queue = <<>> /\ TypeOK /\ Len(queue) = 0
  BY <1>1 DEF IInv, WorkAhead, PhaseShape
<1>3. /\ LastOn(k) \in 0..Len(log) /\ (LastOn(k) # 0 => log[LastOn(k)].key = k)
      /\ \A i \in 1..Len(log) : log[i].key = k => i <= LastOn(k)
  BY <1>2, Types, LastByIsLast DEF LastOn
<1>4. position[k] <= LastOn(k)
  <2>1. position[k] \in 0..Len(log) /\ Len(log) \in Nat /\ (position[k] # 0 => log[position[k]].key = k)
    BY <1>2, Types DEF IInv, PositionsAreOnKey
  <2> QED BY <1>3, <2>1
<1>5. snap' \in [Keys -> Decoded \cup {0}] /\ SnapAhead'
  <2>1. CASE snap' = Nothing
    BY <1>1, <2>1 DEF Nothing, SnapAhead
  <2>2. CASE /\ Held(k) # Poison
             /\ snap' = [snap EXCEPT ![k] = IF Held(k) = None THEN 0 ELSE LastOn(k)]
    <3> DEFINE i == IF Held(k) = None THEN 0 ELSE LastOn(k)
    <3>1. i # 0 => i \in 1..Len(log) /\ log[i].key = k /\ position[k] <= i /\ log[i].val \in Entries
      <4>1. ASSUME i # 0 PROVE i = LastOn(k) /\ Held(k) = log[i].val /\ Held(k) # None
        BY <4>1 DEF Held, ValueAt
      <4> QED BY <1>2, <1>3, <1>4, <2>2, <4>1, Types DEF Value
    <3> HIDE DEF i
    <3>2. i \in Decoded \cup {0}
      BY <1>2, <3>1, Types DEF Decoded
    <3>3. snap' = [snap EXCEPT ![k] = i] /\ snap \in [Keys -> Decoded \cup {0}]
      BY <1>2, <2>2, Types DEF i
    <3>4. snap' \in [Keys -> Decoded \cup {0}]
      BY <3>2, <3>3
    <3>5. SnapAhead'
      BY <1>1, <3>1, <3>3 DEF SnapAhead, IInv
    <3> QED BY <3>4, <3>5
  <2> QED BY <1>1, <2>1, <2>2
<1>6. TypeOK'
  BY <1>1, <1>2, <1>5 DEF TypeOK, setup, targetVars, Decoded
<1>7. QueueAhead' /\ WorkAhead' /\ PhaseShape' /\ PinMeansSeen'
  BY <1>1, <1>2, NoWorkIsNoUpdate DEF QueueAhead, WorkAhead, PhaseShape, PinMeansSeen
<1> QED BY <1>1, <1>5, <1>6, <1>7, NothingCopied

LEMMA FetchedIsPending ==
  ASSUME TypeOK, Fetched # {}
  PROVE  Min(Fetched) \in Keys /\ snap[Min(Fetched)] # 0
<1>1. Fetched \subseteq Nat
  BY KeysAreOrdered DEF Fetched
<1>2. Min(Fetched) \in Fetched
  BY <1>1, MinIsLeast
<1> QED BY <1>2 DEF Fetched

LEMMA SeedPreserves ==
  ASSUME IInv, UNCHANGED setup, SeedNext
  PROVE  IInv'
<1> DEFINE k == Min(Fetched)
           w == [step |-> "put", boot |-> TRUE, event |-> snap[k], seen |-> target[k]]
<1>1. /\ UNCHANGED <<log, targetVars, todo, queue, position, restarts>>
      /\ phase = "listed" /\ todo = {} /\ work = NoWork /\ Fetched # {}
      /\ snap' = [snap EXCEPT ![k] = 0]
      /\ work' \in {NoWork, w} /\ phase' \in {"listed", "halted"}
      /\ (work' # NoWork => phase' = "listed")
      /\ \/ metrics' = metrics
         \/ \E m \in Counters : metrics' = [metrics EXCEPT ![m] = @ + 1]
  BY DEF SeedNext, Count, Counters
<1>2. TypeOK /\ queue = <<>> /\ Len(queue) = 0
  BY <1>1 DEF IInv, PhaseShape
<1>3. k \in Keys /\ snap[k] # 0
  BY <1>1, <1>2, FetchedIsPending
<1> HIDE DEF k
<1>4. snap \in [Keys -> Decoded \cup {0}] /\ snap[k] \in Decoded /\ log[snap[k]].key = k
      /\ position[k] <= snap[k] /\ snap[k] \in 1..Len(log)
  BY <1>2, <1>3, Types DEF IInv, SnapAhead
<1>5. snap' \in [Keys -> Decoded \cup {0}] /\ snap'[k] = 0
      /\ \A l \in Keys : snap'[l] = snap[l] \/ snap'[l] = 0
  BY <1>1, <1>3, <1>4
<1>6. w \in Work /\ w.event = snap[k] /\ w.step = "put"
  <2>1. target[k] \in Entry(Value) /\ snap[k] \in Nat \ {0}
    BY <1>2, <1>3, <1>4, Types
  <2> QED BY <2>1 DEF Work
<1>7. metrics' \in [Counters -> Nat]
  BY <1>1, <1>2, Types
<1> HIDE DEF w
<1>8. TypeOK'
  <2>1. work' # NoWork => work' \in Work /\ work'.event \in Decoded
    BY <1>1, <1>4, <1>6
  <2>2. Decoded' = Decoded
    BY <1>1 DEF Decoded
  <2> QED BY <1>1, <1>2, <1>5, <1>7, <2>1, <2>2 DEF TypeOK, setup, targetVars, Decoded
<1>9. SnapAhead' /\ QueueAhead' /\ PhaseShape'
  BY <1>1, <1>2, <1>5 DEF SnapAhead, QueueAhead, PhaseShape, IInv
<1>10. WorkAhead' /\ PinMeansSeen'
  BY <1>1, <1>2, <1>4, <1>5, <1>6, NoWorkIsNoUpdate DEF WorkAhead, PinMeansSeen
<1> QED BY <1>1, <1>8, <1>9, <1>10, NothingCopied

(* What the watch replays is the last of every key, in order.              *)
LEMMA OpenWatchPreserves ==
  ASSUME IInv, UNCHANGED setup, OpenWatch
  PROVE  IInv'
<1> DEFINE S == {LastOn(k) : k \in Keys} \ {0}
<1>1. /\ UNCHANGED <<log, targetVars, todo, snap, work, metrics, position, restarts>>
      /\ phase = "listed" /\ todo = {} /\ Fetched = {} /\ work = NoWork /\ phase' = "tail"
      /\ queue' = Ascending(S, Len(log))
  BY DEF OpenWatch
<1>2. TypeOK
  BY DEF IInv
<1>3. ASSUME NEW k \in Keys
      PROVE  /\ LastOn(k) \in 0..Len(log) /\ (LastOn(k) # 0 => log[LastOn(k)].key = k)
             /\ position[k] <= LastOn(k)
  <2>1. /\ LastOn(k) \in 0..Len(log) /\ (LastOn(k) # 0 => log[LastOn(k)].key = k)
        /\ \A i \in 1..Len(log) : log[i].key = k => i <= LastOn(k)
    BY <1>2, Types, LastByIsLast DEF LastOn
  <2>2. position[k] \in 0..Len(log) /\ Len(log) \in Nat /\ (position[k] # 0 => log[position[k]].key = k)
    BY <1>2, Types DEF IInv, PositionsAreOnKey
  <2> QED BY <2>1, <2>2
<1>4. S \in SUBSET (1..Len(log)) /\ Len(log) \in Nat
      /\ \A i \in S : position[log[i].key] <= i
  BY <1>2, <1>3, Types
<1> HIDE DEF S
<1>5. /\ queue' \in Seq(S)
      /\ \A i, j \in 1..Len(queue') : i < j => queue'[i] < queue'[j]
  BY <1>1, <1>4, AscendingIsSorted
<1>6. /\ queue' \in Seq(1..Len(log)) /\ \A i \in 1..Len(queue') : queue'[i] \in S
  <2>1. \A i \in 1..Len(queue') : queue'[i] \in S
    BY <1>5
  <2>2. \A i \in 1..Len(queue') : queue'[i] \in 1..Len(log)
    BY <1>4, <2>1
  <2> QED BY <1>5, <2>1, <2>2
<1>7. TypeOK'
  BY <1>1, <1>2, <1>6, Types DEF TypeOK, setup, targetVars
<1>8. snap = Nothing
  BY <1>1, <1>2, Types DEF Fetched, Nothing
<1>9. SnapAhead' /\ WorkAhead' /\ PhaseShape' /\ PinMeansSeen'
  BY <1>1, <1>8, NoWorkIsNoUpdate DEF SnapAhead, WorkAhead, PhaseShape, PinMeansSeen, IInv
<1>10. QueueAhead'
  BY <1>1, <1>4, <1>5, <1>6 DEF QueueAhead
<1> QED BY <1>1, <1>7, <1>9, <1>10, NothingCopied

(* Events taken without a write.                                           *)
LEMMA TailShortens ==
  ASSUME TypeOK, queue # <<>>
  PROVE  /\ Len(queue) # 0 /\ Head(queue) = queue[1] /\ queue[1] \in 1..Len(log)
         /\ Tail(queue) \in Seq(1..Len(log)) /\ Len(Tail(queue)) = Len(queue) - 1
         /\ \A i \in 1..Len(Tail(queue)) : i + 1 \in 1..Len(queue) /\ Tail(queue)[i] = queue[i + 1]
<1>1. queue \in Seq(1..Len(log)) /\ Len(queue) \in Nat
  BY Types
<1> QED BY <1>1

LEMMA TailAhead ==
  ASSUME TypeOK, QueueAhead, queue # <<>>, queue' = Tail(queue), UNCHANGED <<log, position>>
  PROVE  /\ QueueAhead'
         /\ \A i \in 1..Len(queue') : Head(queue) < queue'[i]
<1>1. /\ Len(queue) # 0 /\ Len(queue) \in Nat /\ Head(queue) = queue[1]
      /\ Len(queue') = Len(queue) - 1
      /\ \A i \in 1..Len(queue') : i + 1 \in 1..Len(queue) /\ queue'[i] = queue[i + 1]
  BY Types, TailShortens
<1>2. ASSUME NEW i \in 1..Len(queue') PROVE Head(queue) < queue'[i] /\ position[log[queue'[i]].key] <= queue'[i]
  <2>1. 1 \in 1..Len(queue) /\ i + 1 \in 1..Len(queue) /\ 1 < i + 1
    BY <1>1
  <2> QED BY <1>1, <2>1 DEF QueueAhead
<1>3. ASSUME NEW i \in 1..Len(queue'), NEW j \in 1..Len(queue'), i < j PROVE queue'[i] < queue'[j]
  <2>1. i + 1 \in 1..Len(queue) /\ j + 1 \in 1..Len(queue) /\ i + 1 < j + 1
    BY <1>1, <1>3
  <2> QED BY <1>1, <2>1 DEF QueueAhead
<1> QED BY <1>2, <1>3 DEF QueueAhead

LEMMA TakeWithoutWritePreserves ==
  ASSUME IInv, UNCHANGED setup, TakePoison \/ TakeFiltered
  PROVE  IInv'
<1>1. /\ UNCHANGED <<log, targetVars, todo, snap, work, position, restarts>>
      /\ phase = "tail" /\ work = NoWork /\ queue # <<>>
      /\ \/ phase' \in {"halted", "ended"} /\ queue' = <<>>
         \/ phase' = phase /\ queue' = Tail(queue)
      /\ \E m \in Counters : metrics' = [metrics EXCEPT ![m] = @ + 1]
  BY DEF TakePoison, TakeFiltered, NextEvent, Count, Counters
<1>2. TypeOK /\ QueueAhead
  BY DEF IInv
<1>3. metrics' \in [Counters -> Nat]
  BY <1>1, <1>2, Types
<1>4. queue' \in Seq(1..Len(log)) /\ QueueAhead'
  <2>1. CASE queue' = <<>>
    <3>1. Len(queue') = 0 /\ queue' \in Seq(1..Len(log))
      BY <2>1
    <3> QED BY <3>1 DEF QueueAhead
  <2>2. CASE queue' = Tail(queue)
    BY <1>1, <1>2, <2>2, TailShortens, TailAhead
  <2> QED BY <1>1, <2>1, <2>2
<1>5. TypeOK'
  BY <1>1, <1>2, <1>3, <1>4, Types DEF TypeOK, setup, targetVars
<1>6. SnapAhead' /\ WorkAhead' /\ PhaseShape' /\ PinMeansSeen'
  BY <1>1, NoWorkIsNoUpdate DEF SnapAhead, WorkAhead, PhaseShape, PinMeansSeen, IInv
<1> QED BY <1>1, <1>4, <1>5, <1>6, NothingCopied

(* A put is decided: the event becomes the write in progress, with the     *)
(* target's entry as read.                                                 *)
LEMMA TakePutPreserves ==
  ASSUME IInv, UNCHANGED setup, TakePut
  PROVE  IInv'
<1> DEFINE i == Head(queue)
           k == log[i].key
           w(step) == [step |-> step, boot |-> FALSE, event |-> i, seen |-> target[k]]
<1>1. /\ UNCHANGED <<log, targetVars, todo, snap, position, restarts>>
      /\ phase = "tail" /\ work = NoWork /\ queue # <<>> /\ ValueAt(i) \in Entries
      /\ \/ work' = w("put") /\ queue' = Tail(queue) /\ phase' = phase
         \/ work' = w("update") /\ Live(target, k) /\ queue' = Tail(queue) /\ phase' = phase
         \/ work' = NoWork /\ phase' = "halted" /\ queue' = <<>>
         \/ work' = NoWork /\ phase' = phase /\ queue' = Tail(queue)
      /\ \/ metrics' = metrics
         \/ metrics' = [metrics EXCEPT !["envelope_errors"] = @ + 1]
         \/ metrics' = [metrics EXCEPT !["envelope_errors"] = @ + 2]
  BY DEF TakePut, NextEvent, Count
<1>2. TypeOK /\ QueueAhead /\ PhaseShape /\ RevisionsAreUsed
  BY DEF IInv
<1>3. /\ i \in 1..Len(log) /\ Head(queue) = queue[1] /\ 1 \in 1..Len(queue)
      /\ position[k] <= i
  BY <1>1, <1>2, Types, TailShortens DEF QueueAhead
<1>4. i \in Decoded /\ k \in Keys /\ snap = Nothing /\ todo = {}
      /\ target[k] \in Entry(Value)
  BY <1>1, <1>2, <1>3, Types DEF Decoded, ValueAt, PhaseShape
<1>5. metrics' \in [Counters -> Nat]
  <2>1. "envelope_errors" \in Counters /\ metrics \in [Counters -> Nat]
    BY <1>2, Types DEF Counters
  <2> QED BY <1>1, <2>1
<1>6. queue' \in Seq(1..Len(log)) /\ QueueAhead'
      /\ (queue' = Tail(queue) => \A j \in 1..Len(queue') : i < queue'[j])
  <2>1. CASE queue' = <<>>
    <3>1. Len(queue') = 0 /\ queue' \in Seq(1..Len(log))
      BY <2>1
    <3> QED BY <3>1 DEF QueueAhead
  <2>2. CASE queue' = Tail(queue)
    BY <1>1, <1>2, <2>2, TailShortens, TailAhead
  <2> QED BY <1>1, <2>1, <2>2
<1>7. ASSUME work' # NoWork
      PROVE  /\ work' \in Work /\ work'.event = i /\ work'.seen = target[k]
             /\ work'.step = "update" => Live(target, k)
             /\ phase' = "tail" /\ queue' = Tail(queue)
  <2>1. i \in Nat \ {0}
    BY <1>2, <1>3, Types
  <2>2. w("put") \in Work /\ w("update") \in Work
    BY <1>4, <2>1 DEF Work
  <2>3. /\ w("put").step = "put" /\ w("put").event = i /\ w("put").seen = target[k]
        /\ w("update").step = "update" /\ w("update").event = i /\ w("update").seen = target[k]
    OBVIOUS
  <2> HIDE DEF w, i, k
  <2>4. CASE work' = w("put")
    BY <1>1, <1>7, <2>2, <2>3, <2>4
  <2>5. CASE work' = w("update")
    BY <1>1, <1>7, <2>2, <2>3, <2>5
  <2> QED BY <1>1, <1>7, <2>4, <2>5
<1> HIDE DEF i, k
<1>8. TypeOK'
  <2>1. Decoded' = Decoded
    BY <1>1 DEF Decoded
  <2> QED BY <1>1, <1>2, <1>4, <1>5, <1>6, <1>7, <2>1, Types DEF TypeOK, setup, targetVars, Decoded
<1>9. SnapAhead' /\ PhaseShape'
  BY <1>1, <1>2, <1>4 DEF SnapAhead, PhaseShape, IInv
<1>10. WorkAhead'
  <2>1. log[i].key = k
    BY DEF k
  <2> QED BY <1>1, <1>3, <1>4, <1>6, <1>7, <2>1 DEF WorkAhead, Nothing
<1>11. PinMeansSeen'
  <2>1. log[i].key = k
    BY DEF k
  <2>2. ASSUME work'.step = "update" PROVE work' # NoWork
    BY <2>2, NoWorkIsNoUpdate
  <2>3. ASSUME work'.step = "update"
        PROVE  /\ log'[work'.event].key = k /\ target' = target /\ targetSeq' = targetSeq
               /\ work'.seen = target[k] /\ target[k].rev # 0 /\ target[k].rev <= targetSeq
    BY <1>1, <1>2, <1>4, <1>7, <2>1, <2>2, <2>3 DEF targetVars, RevisionsAreUsed
  <2> QED BY <2>3 DEF PinMeansSeen
<1> QED BY <1>1, <1>6, <1>8, <1>9, <1>10, <1>11, NothingCopied

LEMMA ConflictPreserves ==
  ASSUME IInv, UNCHANGED setup, Conflict
  PROVE  IInv'
<1>1. /\ UNCHANGED <<log, targetVars, todo, snap, position, restarts>>
      /\ work.step = "update" /\ work' = NoWork
      /\ \/ phase' = "halted" /\ queue' = <<>>
         \/ phase' = phase /\ queue' = queue
      /\ metrics' = [metrics EXCEPT !["cas_conflicts"] = @ + 1]
  BY DEF Conflict, Count
<1>2. TypeOK /\ metrics' \in [Counters -> Nat]
  <2>1. "cas_conflicts" \in Counters
    BY DEF Counters
  <2> QED BY <1>1, <2>1, Types DEF IInv
<1>3. queue' \in Seq(1..Len(log)) /\ QueueAhead'
  <2>1. CASE queue' = <<>>
    <3>1. Len(queue') = 0 /\ queue' \in Seq(1..Len(log))
      BY <2>1
    <3> QED BY <3>1 DEF QueueAhead
  <2>2. CASE queue' = queue
    BY <1>1, <1>2, <2>2, Types DEF IInv, QueueAhead
  <2> QED BY <1>1, <2>1, <2>2
<1>4. TypeOK'
  BY <1>1, <1>2, <1>3, Types DEF TypeOK, setup, targetVars
<1>5. SnapAhead' /\ WorkAhead' /\ PhaseShape' /\ PinMeansSeen'
  BY <1>1, NoWorkIsNoUpdate DEF SnapAhead, WorkAhead, PhaseShape, PinMeansSeen, IInv
<1> QED BY <1>1, <1>3, <1>4, <1>5, NothingCopied

LEMMA RestartPreserves ==
  ASSUME IInv, UNCHANGED setup, Restart
  PROVE  IInv'
<1>1. /\ UNCHANGED <<log, targetVars, position>> /\ restarts < MaxRestarts /\ restarts' = restarts + 1
      /\ phase' = "down" /\ todo' = {} /\ snap' = Nothing /\ queue' = <<>> /\ work' = NoWork
      /\ metrics' = [m \in Counters |-> 0]
  BY DEF Restart
<1>2. queue' \in Seq(1..Len(log)) /\ Len(queue') = 0
  BY <1>1
<1>3. restarts' \in 0..MaxRestarts
  BY <1>1, Bounds DEF IInv, TypeOK
<1>4. TypeOK'
  BY <1>1, <1>2, <1>3, Types DEF IInv, TypeOK, setup, targetVars, Nothing
<1>5. SnapAhead' /\ QueueAhead' /\ WorkAhead' /\ PhaseShape' /\ PinMeansSeen'
  BY <1>1, <1>2, NoWorkIsNoUpdate
     DEF SnapAhead, QueueAhead, WorkAhead, PhaseShape, PinMeansSeen, Nothing
<1> QED BY <1>1, <1>4, <1>5, NothingCopied
-----------------------------------------------------------------------------
(* Steps that copy an operation to the target.                             *)

(* The target's entry becomes the outcome of operation i, or was so.       *)
CopiesInto(i) ==
  LET k == log[i].key IN
  /\ UNCHANGED <<setup, log>>
  /\ position' = [position EXCEPT ![k] = i]
  /\ \/ target' = Stored(target, k, log[i].val, targetSeq') /\ targetSeq' = targetSeq + 1
     \/ target[k].val = log[i].val /\ UNCHANGED targetVars

LEMMA CopyMirrors ==
  ASSUME IInv, NEW i \in 1..Len(log), CopiesInto(i)
  PROVE  /\ target' \in [Keys -> Entry(Value)] /\ targetSeq' \in Nat
         /\ position' \in [Keys -> 0..Len(log)]
         /\ PositionsAreOnKey' /\ MirrorsPosition' /\ RevisionsAreUsed'
<1> DEFINE k == log[i].key
<1>1. TypeOK /\ k \in Keys /\ log[i].val \in Value \cup {None} /\ Len(log) \in Nat /\ i # 0
  BY Types DEF IInv
<1>2. /\ log' = log /\ shared' = shared /\ position' = [position EXCEPT ![k] = i]
      /\ \/ target' = Stored(target, k, log[i].val, targetSeq') /\ targetSeq' = targetSeq + 1
         \/ target[k].val = log[i].val /\ target' = target /\ targetSeq' = targetSeq
  BY DEF CopiesInto, setup, targetVars
<1> HIDE DEF k
<1>3. position' \in [Keys -> 0..Len(log)] /\ position'[k] = i
      /\ \A l \in Keys : l # k => position'[l] = position[l]
  BY <1>1, <1>2, Types
<1>4. /\ target' \in [Keys -> Entry(Value)] /\ targetSeq' \in Nat
      /\ target'[k].val = log[i].val
      /\ \A l \in Keys : l # k => target'[l] = target[l]
      /\ targetSeq <= targetSeq'
      /\ target'[k].rev <= targetSeq' /\ (target'[k].val # None => target'[k].rev # 0)
  <2>0. target \in [Keys -> Entry(Value)] /\ targetSeq \in Nat /\ target[k].rev \in Nat
        /\ target[k].rev <= targetSeq /\ (target[k].val # None => target[k].rev # 0)
    BY <1>1, Types DEF IInv, RevisionsAreUsed, Live
  <2>1. CASE target' = Stored(target, k, log[i].val, targetSeq') /\ targetSeq' = targetSeq + 1
    <3>1. [val |-> log[i].val, rev |-> targetSeq'] \in Entry(Value)
      BY <1>1, <2>0, <2>1 DEF Entry
    <3>2. target' = [target EXCEPT ![k] = [val |-> log[i].val, rev |-> targetSeq']]
      BY <2>1 DEF Stored
    <3> QED BY <1>1, <2>0, <2>1, <3>1, <3>2
  <2>2. CASE target[k].val = log[i].val /\ target' = target /\ targetSeq' = targetSeq
    BY <2>0, <2>2
  <2> QED BY <1>2, <2>1, <2>2
<1>5. PositionsAreOnKey'
  <2>1. log[i].key = k
    BY DEF k
  <2> QED BY <1>2, <1>3, <2>1 DEF PositionsAreOnKey, IInv
<1>6. MirrorsPosition'
  <2> SUFFICES ASSUME ~shared, NEW l \in Keys PROVE target'[l].val = ValueAt(position[l])'
    BY <1>2 DEF MirrorsPosition
  <2>1. CASE l = k
    BY <1>1, <1>2, <1>3, <1>4, <2>1 DEF ValueAt
  <2>2. CASE l # k
    BY <1>2, <1>3, <1>4, <2>2 DEF ValueAt, MirrorsPosition, IInv
  <2> QED BY <2>1, <2>2
<1>7. RevisionsAreUsed'
  <2> SUFFICES ASSUME NEW l \in Keys
               PROVE  target'[l].rev <= targetSeq' /\ (target'[l].val # None => target'[l].rev # 0)
    BY DEF RevisionsAreUsed, Live
  <2>1. CASE l = k
    BY <1>4, <2>1
  <2>2. CASE l # k
    <3>1. target[l].rev \in Nat /\ targetSeq \in Nat
      BY <1>1, Types
    <3> QED BY <1>4, <2>2, <3>1 DEF RevisionsAreUsed, Live, IInv
  <2> QED BY <2>1, <2>2
<1> QED BY <1>3, <1>4, <1>5, <1>6, <1>7

(* The write in progress is carried out.                                   *)
WritesWork ==
  LET i == work.event IN
  /\ work # NoWork /\ CopiesInto(i)
  /\ target' = Stored(target, log[i].key, log[i].val, targetSeq') /\ targetSeq' = targetSeq + 1
  /\ work' = NoWork
  /\ \E m \in Counters : metrics' = [metrics EXCEPT ![m] = @ + 1]
  /\ UNCHANGED <<phase, todo, snap, queue, restarts>>

LEMMA PutAndUpdateWriteWork ==
  ASSUME UNCHANGED setup, Put \/ Update
  PROVE  WritesWork
<1>1. work # NoWork
  BY NoWorkIsNoUpdate DEF Put, Update
<1> QED BY <1>1 DEF Put, Update, WritesWork, CopiesInto, TargetWrites, Copied, Count, Counters

LEMMA WritePreserves ==
  ASSUME IInv, WritesWork
  PROVE  IInv'
<1> DEFINE i == work.event
           k == log[i].key
<1>1. /\ work # NoWork /\ CopiesInto(i) /\ work' = NoWork
      /\ \E m \in Counters : metrics' = [metrics EXCEPT ![m] = @ + 1]
      /\ UNCHANGED <<setup, log, phase, todo, snap, queue, restarts>>
      /\ position' = [position EXCEPT ![k] = i]
  BY DEF WritesWork, CopiesInto
<1>2. TypeOK /\ i \in 1..Len(log) /\ k \in Keys
  BY <1>1, Types DEF IInv
<1>3. /\ snap[k] = 0 /\ todo = {} /\ \A n \in 1..Len(queue) : i < queue[n]
  BY <1>1 DEF IInv, WorkAhead
<1> HIDE DEF i, k
<1>4. /\ target' \in [Keys -> Entry(Value)] /\ targetSeq' \in Nat
      /\ position' \in [Keys -> 0..Len(log)]
      /\ PositionsAreOnKey' /\ MirrorsPosition' /\ RevisionsAreUsed'
  BY <1>1, <1>2, CopyMirrors
<1>5. position \in [Keys -> 0..Len(log)] /\ position'[k] = i
      /\ \A l \in Keys : l # k => position'[l] = position[l]
  BY <1>1, <1>2, Types
<1>6. TypeOK'
  <2>1. metrics' \in [Counters -> Nat]
    BY <1>1, <1>2, Types
  <2> QED BY <1>1, <1>2, <1>4, <2>1 DEF TypeOK, setup
<1>7. SnapAhead'
  BY <1>1, <1>3, <1>5 DEF SnapAhead, IInv
<1>8. QueueAhead'
  <2>1. ASSUME NEW n \in 1..Len(queue) PROVE position'[log[queue[n]].key] <= queue[n]
    <3>1. queue[n] \in 1..Len(log) /\ log[queue[n]].key \in Keys /\ i < queue[n] /\ i \in Nat
      BY <1>2, <1>3, Types
    <3>2. position[log[queue[n]].key] <= queue[n]
      BY DEF IInv, QueueAhead
    <3> QED BY <1>5, <3>1, <3>2
  <2> QED BY <1>1, <2>1 DEF QueueAhead, IInv
<1>9. WorkAhead' /\ PhaseShape' /\ PinMeansSeen'
  BY <1>1, NoWorkIsNoUpdate DEF WorkAhead, PhaseShape, PinMeansSeen, IInv
<1> QED BY <1>4, <1>6, <1>7, <1>8, <1>9 DEF IInv

LEMMA DeleteCopies ==
  ASSUME IInv, UNCHANGED setup, TakeDelete
  PROVE  CopiesInto(Head(queue)) /\ Head(queue) \in 1..Len(log)
<1> DEFINE i == Head(queue)
           k == log[i].key
<1>1. /\ log' = log /\ ValueAt(i) = None /\ queue # <<>>
      /\ IF Live(target, k) THEN TargetWrites(k, None) ELSE UNCHANGED targetVars
      /\ position' = [position EXCEPT ![k] = i]
  BY DEF TakeDelete, Copied, NextEvent
<1>2. i \in 1..Len(log) /\ Len(log) \in Nat
  BY <1>1, TailShortens, Types DEF IInv
<1>3. log[i].val = None
  BY <1>1, <1>2 DEF ValueAt
<1> QED BY <1>1, <1>2, <1>3 DEF CopiesInto, TargetWrites, Live

LEMMA TakeDeletePreserves ==
  ASSUME IInv, UNCHANGED setup, TakeDelete
  PROVE  IInv'
<1> DEFINE i == Head(queue)
           k == log[i].key
<1>1. /\ CopiesInto(i) /\ i \in 1..Len(log)
      /\ phase = "tail" /\ work = NoWork /\ queue # <<>> /\ queue' = Tail(queue)
      /\ metrics' = [metrics EXCEPT !["events_applied_delete"] = @ + 1]
      /\ UNCHANGED <<log, phase, todo, snap, work, restarts>>
      /\ position' = [position EXCEPT ![k] = i]
  BY DeleteCopies DEF TakeDelete, NextEvent, Count, Copied
<1>2. TypeOK /\ QueueAhead /\ PhaseShape
  BY DEF IInv
<1>3. /\ target' \in [Keys -> Entry(Value)] /\ targetSeq' \in Nat
      /\ position' \in [Keys -> 0..Len(log)]
      /\ PositionsAreOnKey' /\ MirrorsPosition' /\ RevisionsAreUsed'
  BY <1>1, CopyMirrors
<1>4. /\ queue' \in Seq(1..Len(log)) /\ Len(queue') = Len(queue) - 1 /\ Len(queue) \in Nat
      /\ \A n \in 1..Len(queue') : n + 1 \in 1..Len(queue) /\ queue'[n] = queue[n + 1]
      /\ i = queue[1] /\ Len(queue) # 0
  BY <1>1, <1>2, TailShortens, Types
<1>5. k \in Keys /\ position \in [Keys -> 0..Len(log)] /\ Len(log) \in Nat
  BY <1>1, <1>2, Types
<1> HIDE DEF i, k
<1>6. position'[k] = i /\ \A l \in Keys : l # k => position'[l] = position[l]
  BY <1>1, <1>5
<1>7. TypeOK'
  <2>1. "events_applied_delete" \in Counters
    BY DEF Counters
  <2>2. metrics' \in [Counters -> Nat]
    BY <1>1, <1>2, <2>1, Types
  <2> QED BY <1>1, <1>2, <1>3, <1>4, <2>2, Types DEF TypeOK, setup, CopiesInto
<1>8. QueueAhead'
  <2>1. ASSUME NEW n \in 1..Len(queue') PROVE position'[log[queue'[n]].key] <= queue'[n]
    <3>1. 1 \in 1..Len(queue) /\ n + 1 \in 1..Len(queue) /\ 1 < n + 1 /\ queue'[n] = queue[n + 1]
      BY <1>4
    <3>2. i < queue[n + 1] /\ position[log[queue[n + 1]].key] <= queue[n + 1]
      BY <1>2, <1>4, <3>1 DEF QueueAhead
    <3>3. queue[n + 1] \in 1..Len(log) /\ log[queue[n + 1]].key \in Keys /\ i \in Nat
      BY <1>1, <1>2, <3>1, Types
    <3> QED BY <1>5, <1>6, <3>1, <3>2, <3>3
  <2>2. ASSUME NEW m \in 1..Len(queue'), NEW n \in 1..Len(queue'), m < n PROVE queue'[m] < queue'[n]
    <3>1. m + 1 \in 1..Len(queue) /\ n + 1 \in 1..Len(queue) /\ m + 1 < n + 1
      BY <1>4, <2>2
    <3> QED BY <1>2, <1>4, <3>1 DEF QueueAhead
  <2> QED BY <1>1, <2>1, <2>2 DEF QueueAhead
<1>9. SnapAhead' /\ PhaseShape'
  BY <1>1, <1>2 DEF SnapAhead, PhaseShape, Nothing
<1>10. WorkAhead' /\ PinMeansSeen'
  BY <1>1, NoWorkIsNoUpdate DEF WorkAhead, PinMeansSeen
<1> QED BY <1>3, <1>7, <1>8, <1>9, <1>10 DEF IInv
-----------------------------------------------------------------------------
(* The others' steps.                                                      *)

(* A publisher of the source: the new operation is the last of all.        *)
LEMMA SourceWritesPreserves ==
  ASSUME IInv, UNCHANGED setup, NEW k \in Keys, NEW v \in Value \cup {None}, SourceWrites(k, v)
  PROVE  IInv'
<1> DEFINE o == [key |-> k, val |-> v]
           n == Len(log) + 1
<1>1. /\ log' = Append(log, o)
      /\ queue' = IF phase = "tail" THEN Append(queue, Len(log')) ELSE queue
      /\ UNCHANGED <<targetVars, phase, todo, snap, work, metrics, position, restarts>>
  BY DEF SourceWrites
<1>2. TypeOK
  BY DEF IInv
<1>3. /\ o \in Operation /\ log \in Seq(Operation) /\ Len(log) \in Nat
      /\ log' \in Seq(Operation) /\ Len(log') = n /\ \A i \in 1..Len(log) : log'[i] = log[i]
      /\ DOMAIN log' = 1..n
  BY <1>1, <1>2, Types DEF Operation
<1> HIDE DEF o
<1>4. /\ queue' \in Seq(1..n) /\ (queue' = queue \/ queue' = Append(queue, n))
      /\ (queue' = queue \/ phase = "tail")
  <2>1. queue \in Seq(1..Len(log)) /\ \A i \in 1..Len(queue) : queue[i] \in 1..n
    BY <1>2, <1>3, Types
  <2>2. queue \in Seq(1..n) /\ n \in 1..n
    BY <1>3, <2>1
  <2>3. Append(queue, n) \in Seq(1..n)
    BY <2>2
  <2>4. queue' = queue \/ (queue' = Append(queue, n) /\ phase = "tail")
    BY <1>1, <1>3
  <2> HIDE DEF n
  <2> QED BY <2>2, <2>3, <2>4
<1>5. ASSUME NEW i \in 1..Len(queue')
      PROVE  \/ i \in 1..Len(queue) /\ queue'[i] = queue[i] /\ queue[i] \in 1..Len(log)
             \/ i = Len(queue) + 1 /\ queue'[i] = n
  <2>1. queue \in Seq(1..Len(log)) /\ Len(queue) \in Nat
    BY <1>2, Types
  <2>2. CASE queue' = queue
    BY <2>1, <2>2
  <2>3. CASE queue' = Append(queue, n)
    BY <2>1, <2>3
  <2> QED BY <1>4, <2>2, <2>3
<1>6. /\ position \in [Keys -> 0..Len(log)] /\ position' = position
      /\ \A l \in Keys : position[l] \in 0..Len(log) /\ position[l] \in 0..n /\ position[l] < n
  BY <1>1, <1>2, <1>3, Types
<1>7. TypeOK'
  <2>1. Decoded \subseteq Decoded'
    BY <1>2, <1>3, Types DEF Decoded
  <2>2. snap' \in [Keys -> Decoded' \cup {0}]
    BY <1>1, <1>2, <2>1, Types
  <2>3. work' # NoWork => work' \in Work /\ work'.event \in Decoded'
    BY <1>1, <1>2, <2>1, Types
  <2>4. position' \in [Keys -> 0..Len(log')]
    BY <1>3, <1>6
  <2>5. queue' \in Seq(DOMAIN log')
    BY <1>3, <1>4
  <2> QED BY <1>1, <1>2, <1>3, <2>2, <2>3, <2>4, <2>5
          DEF TypeOK, setup, targetVars, Decoded, Operation
<1>8. PositionsAreOnKey' /\ MirrorsPosition'
  <2>1. ASSUME NEW l \in Keys, position[l] # 0 PROVE log'[position[l]] = log[position[l]]
    BY <1>3, <1>6, <2>1
  <2> QED BY <1>1, <2>1 DEF PositionsAreOnKey, MirrorsPosition, ValueAt, setup, targetVars, IInv
<1>9. SnapAhead'
  <2>1. ASSUME NEW l \in Keys, snap[l] # 0 PROVE log'[snap[l]] = log[snap[l]]
    BY <1>2, <1>3, <2>1, Types
  <2> QED BY <1>1, <2>1 DEF SnapAhead, IInv
<1>10. QueueAhead'
  <2>1. ASSUME NEW i \in 1..Len(queue') PROVE position'[log'[queue'[i]].key] <= queue'[i]
    <3>1. CASE i \in 1..Len(queue) /\ queue'[i] = queue[i] /\ queue[i] \in 1..Len(log)
      <4>1. log'[queue'[i]] = log[queue[i]]
        BY <1>3, <3>1
      <4> QED BY <1>6, <3>1, <4>1 DEF IInv, QueueAhead
    <3>2. CASE queue'[i] = n
      <4>1. log'[n].key \in Keys
        <5>1. log'[n] \in Operation
          BY <1>3
        <5> QED BY <5>1 DEF Operation
      <4> QED BY <1>3, <1>6, <3>2, <4>1
    <3> QED BY <1>5, <3>1, <3>2
  <2>2. ASSUME NEW i \in 1..Len(queue'), NEW j \in 1..Len(queue'), i < j PROVE queue'[i] < queue'[j]
    <3>1. Len(queue) \in Nat /\ Len(queue') \in Nat
      BY <1>2, <1>4, Types
    <3>2. Len(queue') = Len(queue) \/ Len(queue') = Len(queue) + 1
      BY <1>2, <1>4, Types
    <3>3. i \in 1..Len(queue) /\ queue'[i] = queue[i] /\ queue[i] \in 1..Len(log)
      BY <1>5, <2>2, <3>1, <3>2
    <3>4. CASE j \in 1..Len(queue) /\ queue'[j] = queue[j]
      BY <2>2, <3>3, <3>4 DEF IInv, QueueAhead
    <3>5. CASE queue'[j] = n
      BY <1>3, <3>3, <3>5
    <3> QED BY <1>5, <3>4, <3>5
  <2> QED BY <2>1, <2>2 DEF QueueAhead
<1>11. ASSUME work # NoWork
       PROVE  work.event \in 1..Len(log) /\ log'[work.event] = log[work.event]
  BY <1>2, <1>3, <1>11, Types
<1>12. WorkAhead'
  <2> SUFFICES ASSUME work # NoWork
      PROVE  /\ position[log'[work.event].key] <= work.event
             /\ \A i \in 1..Len(queue') : work.event < queue'[i]
             /\ snap[log'[work.event].key] = 0
             /\ todo = {} /\ phase \in {"listed", "tail"}
    BY <1>1 DEF WorkAhead
  <2>1. ASSUME NEW i \in 1..Len(queue') PROVE work.event < queue'[i]
    BY <1>3, <1>5, <1>11 DEF WorkAhead, IInv
  <2> QED BY <1>11, <2>1 DEF WorkAhead, IInv
<1>13. PhaseShape' /\ RevisionsAreUsed'
  BY <1>1, <1>4 DEF PhaseShape, RevisionsAreUsed, targetVars, IInv, Live
<1>14. PinMeansSeen'
  BY <1>1, <1>11, NoWorkIsNoUpdate DEF PinMeansSeen, targetVars, IInv
<1> QED BY <1>7, <1>8, <1>9, <1>10, <1>12, <1>13, <1>14 DEF IInv

(* Another writer of the target: no revision it takes is a pin.            *)
LEMMA TargetPutPreserves ==
  ASSUME IInv, UNCHANGED setup, NEW k \in Keys, NEW v \in Value \cup {None}, TargetPut(k, v)
  PROVE  IInv'
<1>1. /\ shared /\ targetSeq' = targetSeq + 1
      /\ target' = [target EXCEPT ![k] = [val |-> v, rev |-> targetSeq']]
      /\ UNCHANGED <<log, phase, todo, snap, queue, work, metrics, position, restarts>>
  BY DEF TargetPut, TargetWrites, Stored
<1>2. TypeOK
  BY DEF IInv
<1>3. target \in [Keys -> Entry(Value)] /\ targetSeq \in Nat
      /\ \A l \in Keys : target[l].rev \in Nat /\ target[l].rev <= targetSeq
  BY <1>2, Types DEF IInv, RevisionsAreUsed
<1>4. [val |-> v, rev |-> targetSeq'] \in Entry(Value)
  BY <1>1, <1>3 DEF Entry
<1>5. /\ target' \in [Keys -> Entry(Value)] /\ targetSeq' \in Nat
      /\ target'[k] = [val |-> v, rev |-> targetSeq'] /\ \A l \in Keys : l # k => target'[l] = target[l]
  BY <1>1, <1>3, <1>4
<1>6. TypeOK'
  BY <1>1, <1>2, <1>5 DEF TypeOK, setup
<1>7. RevisionsAreUsed'
  <2> SUFFICES ASSUME NEW l \in Keys
               PROVE  target'[l].rev <= targetSeq' /\ (target'[l].val # None => target'[l].rev # 0)
    BY DEF RevisionsAreUsed, Live
  <2>1. CASE l = k
    BY <1>1, <1>3, <1>5, <2>1
  <2>2. CASE l # k
    BY <1>1, <1>3, <1>5, <2>2 DEF IInv, RevisionsAreUsed, Live
  <2> QED BY <2>1, <2>2
<1>8. PinMeansSeen'
  <2> DEFINE l == log[work.event].key
  <2> SUFFICES ASSUME work.step = "update"
      PROVE  /\ work.seen.rev # 0 /\ work.seen.rev <= targetSeq'
             /\ target'[l].rev = work.seen.rev => target'[l] = work.seen
    BY <1>1 DEF PinMeansSeen
  <2>1. work # NoWork
    BY NoWorkIsNoUpdate
  <2>2. l \in Keys /\ work.seen.rev \in Nat
    BY <1>2, <2>1, Types
  <2>3. /\ work.seen.rev # 0 /\ work.seen.rev <= targetSeq
        /\ target[l].rev = work.seen.rev => target[l] = work.seen
    BY DEF IInv, PinMeansSeen
  <2> HIDE DEF l
  <2>4. CASE l = k
    BY <1>1, <1>3, <1>5, <2>2, <2>3, <2>4
  <2>5. CASE l # k
    BY <1>1, <1>3, <1>5, <2>2, <2>3, <2>5
  <2> QED BY <2>4, <2>5
<1>9. PositionsAreOnKey' /\ MirrorsPosition' /\ SnapAhead' /\ QueueAhead' /\ WorkAhead' /\ PhaseShape'
  BY <1>1 DEF PositionsAreOnKey, MirrorsPosition, SnapAhead, QueueAhead, WorkAhead, PhaseShape,
     IInv, setup
<1> QED BY <1>6, <1>7, <1>8, <1>9 DEF IInv
-----------------------------------------------------------------------------
(* The invariant holds.                                                    *)
LEMMA NextPreserves ==
  ASSUME IInv, [Next]_vars
  PROVE  IInv'
<1>1. CASE UNCHANGED vars
  BY <1>1 DEF vars, setup, targetVars, IInv, TypeOK, PositionsAreOnKey, MirrorsPosition, SnapAhead,
     QueueAhead, WorkAhead, PhaseShape, RevisionsAreUsed, PinMeansSeen, ValueAt, Live
<1>2. CASE Replicator
  <2>1. UNCHANGED setup
    BY <1>2 DEF Replicator
  <2>2. CASE \E k \in Keys : FetchEntry(k)
    BY <2>1, <2>2, FetchPreserves
  <2>3. CASE Put \/ Update
    BY <2>1, <2>3, PutAndUpdateWriteWork, WritePreserves
  <2> QED BY <1>2, <2>1, <2>2, <2>3, ListingPreserves, SeedPreserves, OpenWatchPreserves,
             TakeWithoutWritePreserves, TakeDeletePreserves, TakePutPreserves, ConflictPreserves
          DEF Replicator
<1>3. CASE Others
  <2>1. UNCHANGED setup
    BY <1>3 DEF Others
  <2>2. CASE \E k \in Keys, v \in Value \cup {None} : SourceWrites(k, v)
    BY <2>1, <2>2, SourceWritesPreserves
  <2>3. CASE \E k \in Keys, v \in Value \cup {None} : TargetPut(k, v)
    BY <2>1, <2>3, TargetPutPreserves
  <2> QED BY <1>3, <2>1, <2>2, <2>3, RestartPreserves DEF Others
<1> QED BY <1>1, <1>2, <1>3 DEF Next

THEOREM Inductive == Spec => []IInv
<1>1. Init => IInv
  BY InitHolds
<1>2. IInv /\ [Next]_vars => IInv'
  BY NextPreserves
<1> QED BY <1>1, <1>2, PTL DEF Spec

(* Every variable of the replicator keeps its type.                        *)
THEOREM TypeCorrect == Spec => []TypeOK
<1>1. IInv => TypeOK
  BY DEF IInv
<1> QED BY <1>1, Inductive, PTL
-----------------------------------------------------------------------------
(* What the replicator promises.                                           *)

(* The write in progress passed put's gates when it was begun.             *)
WorkIsStorable == work # NoWork => log[work.event].val \notin Unstorable

LEMMA WorkStaysStorable ==
  ASSUME IInv, WorkIsStorable, [Next]_vars
  PROVE  WorkIsStorable'
<1>1. TypeOK
  BY DEF IInv
<1>2. CASE UNCHANGED log /\ (work' = work \/ work' = NoWork)
  BY <1>2 DEF WorkIsStorable
<1>3. CASE SeedNext
  <2> DEFINE k == Min(Fetched)
  <2>1. k \in Keys /\ snap[k] # 0
    BY <1>1, <1>3, FetchedIsPending DEF SeedNext
  <2>2. UNCHANGED log
    BY <1>3 DEF SeedNext
  <2>3. \/ work' = work
        \/ work'.event = snap[k] /\ ValueAt(snap[k]) \notin Unstorable
    BY <1>3 DEF SeedNext
  <2> HIDE DEF k
  <2> QED BY <2>1, <2>2, <2>3 DEF WorkIsStorable, ValueAt
<1>4. CASE TakePut
  <2>1. /\ UNCHANGED log
        /\ \/ work' = work
           \/ work'.event = Head(queue) /\ ValueAt(Head(queue)) \notin Unstorable
    BY <1>4 DEF TakePut
  <2>2. ValueAt(Head(queue)) = log[Head(queue)].val
    <3>1. Head(queue) \in 1..Len(log)
      BY <1>1, <1>4, Types DEF TakePut, NextEvent
    <3> QED BY <3>1 DEF ValueAt
  <2> QED BY <2>1, <2>2 DEF WorkIsStorable
<1>5. CASE \E k \in Keys, v \in Value \cup {None} : SourceWrites(k, v)
  <2>1. UNCHANGED work /\ \E o : log' = Append(log, o)
    BY <1>5 DEF SourceWrites
  <2>2. work # NoWork => log'[work.event] = log[work.event]
    BY <1>1, <2>1, Types
  <2> QED BY <2>1, <2>2 DEF WorkIsStorable
<1>6. ASSUME Next
      PROVE  \/ SeedNext \/ TakePut
             \/ \E k \in Keys, v \in Value \cup {None} : SourceWrites(k, v)
             \/ UNCHANGED log /\ (work' = work \/ work' = NoWork)
  BY <1>6 DEF Next, Replicator, Others, ListSource, SkipBootstrap, FetchEntry, OpenWatch,
     TakePoison, TakeFiltered, TakeDelete, Put, Update, Conflict, TargetPut, Restart
<1>7. CASE UNCHANGED vars
  BY <1>7, <1>2 DEF vars
<1> QED BY <1>2, <1>3, <1>4, <1>5, <1>6, <1>7

(* SchemaReplicator.run stores only what decoded and what put's gates let  *)
(* pass: poison and refused entries lying in either bucket, or written     *)
(* there at any time, are never passed on.                                 *)
THEOREM StoresOnlyEntries == Spec => PoisonIsNeverCopied
<1>1. IInv /\ WorkIsStorable /\ [Next]_vars =>
        [Put \/ Update => target'[log[work.event].key].val \notin Unstorable \cup {Poison}]_vars
  <2> SUFFICES ASSUME IInv, WorkIsStorable, Put \/ Update
               PROVE  target'[log[work.event].key].val \notin Unstorable \cup {Poison}
    OBVIOUS
  <2> DEFINE i == work.event
             k == log[i].key
  <2>1. work # NoWork
    BY NoWorkIsNoUpdate DEF Put, Update
  <2>2. /\ i \in 1..Len(log) /\ k \in Keys /\ log[i].val \in Entries \ Unstorable
        /\ target \in [Keys -> Entry(Value)]
    BY <2>1, Types DEF IInv, WorkIsStorable
  <2>3. target' = [target EXCEPT ![k] = [val |-> log[i].val, rev |-> targetSeq']]
    BY DEF Put, Update, TargetWrites, Stored
  <2> QED BY <2>2, <2>3, BytesDecodeOneWay
<1>2. Init => WorkIsStorable
  BY DEF Init, WorkIsStorable
<1>3. IInv /\ WorkIsStorable /\ [Next]_vars => WorkIsStorable'
  BY WorkStaysStorable
<1> QED BY <1>1, <1>2, <1>3, Inductive, PTL DEF Spec, PoisonIsNeverCopied

(* _apply_put under CAS_PIN: the update that succeeds replaces the very    *)
(* entry the replicator read, whatever others wrote, deleted and wrote     *)
(* again in between.                                                       *)
THEOREM PinnedUpdateIsSafe == Spec => UpdateLosesNoForeignWrite
<1>1. IInv /\ [Next]_vars => [Update => target[log[work.event].key] = work.seen]_vars
  <2> SUFFICES ASSUME IInv, Update
               PROVE  target[log[work.event].key] = work.seen
    OBVIOUS
  <2> DEFINE k == log[work.event].key
  <2>1. LiveRevision(target, k) = work.seen.rev
    BY DEF Update
  <2>2. /\ work.seen.rev # 0
        /\ target[k].rev = work.seen.rev => target[k] = work.seen
    BY DEF IInv, PinMeansSeen, Update
  <2> QED BY <2>1, <2>2 DEF LiveRevision
<1> QED BY <1>1, Inductive, PTL DEF Spec, UpdateLosesNoForeignWrite
-----------------------------------------------------------------------------
(* The one-way mirror.                                                     *)

ShownNow == [k \in Keys |-> Shown(k)]

(* The invariant makes what is shown a function of the position, in this   *)
(* state and in the next.                                                  *)
LEMMA ShownIsPosition ==
  /\ IInv  => ShownNow  = [k \in Keys |-> ValueAt(position[k])]
  /\ IInv' => ShownNow' = [k \in Keys |-> ValueAt(position[k])']
<1>1. ASSUME IInv, NEW k \in Keys PROVE Shown(k) = ValueAt(position[k])
  BY <1>1 DEF IInv, MirrorsPosition, Shown
<1>2. ASSUME IInv', NEW k \in Keys PROVE Shown(k)' = ValueAt(position[k])'
  BY <1>2 DEF IInv, MirrorsPosition, Shown
<1> QED BY <1>1, <1>2 DEF ShownNow

LEMMA InitMirrors == Init => Mirror!Init
<1> SUFFICES ASSUME Init PROVE Mirror!Init
  OBVIOUS
<1>1. ASSUME NEW k \in Keys PROVE Shown(k) = None
  BY DEF Init, Shown, ValueAt, Nothing, NeverWritten
<1>2. [k \in Keys |-> Shown(k)] = [k \in Keys |-> None]
  BY <1>1
<1> QED BY <1>2 DEF Init, Mirror!Init, Nothing

(* Copying an operation that is not behind advances the mirror, or shows   *)
(* again what it shows.                                                    *)
LEMMA CopyAdvances ==
  ASSUME IInv, IInv', NEW i \in 1..Len(log), CopiesInto(i), position[log[i].key] <= i
  PROVE  (\E k \in Keys : Mirror!Advance(k)) \/ UNCHANGED <<log, position, ShownNow>>
<1> DEFINE k == log[i].key
<1>1. /\ k \in Keys /\ i \in DOMAIN log /\ position \in [Keys -> 0..Len(log)] /\ i # 0
      /\ Len(log) \in Nat /\ i \in Nat
  BY Types DEF IInv
<1>2. log' = log /\ position' = [position EXCEPT ![k] = i]
  BY DEF CopiesInto
<1>3. /\ ShownNow = [l \in Keys |-> ValueAt(position[l])]
      /\ ShownNow' = [l \in Keys |-> ValueAt(position[l])']
  BY ShownIsPosition
<1>k. log[i].key = k
  OBVIOUS
<1> HIDE DEF k
<1>4. position[k] \in Nat /\ position'[k] = i /\ \A l \in Keys : l # k => position'[l] = position[l]
  BY <1>1, <1>2
<1>5. ShownNow' = [ShownNow EXCEPT ![k] = log[i].val]
  <2>1. ASSUME NEW l \in Keys
        PROVE  ValueAt(position[l])' = IF l = k THEN log[i].val ELSE ValueAt(position[l])
    BY <1>1, <1>2, <1>4 DEF ValueAt
  <2> QED BY <1>1, <1>3, <2>1
<1>6. CASE position[k] < i
  <2>1. Mirror!Advance(k)
    BY <1>1, <1>2, <1>k, <1>5, <1>6 DEF Mirror!Advance, ShownNow
  <2> QED BY <1>1, <2>1
<1>7. CASE position[k] = i
  <2>1. position' = position
    BY <1>1, <1>2, <1>7
  <2>2. ShownNow[k] = log[i].val
    BY <1>1, <1>3, <1>7 DEF ValueAt
  <2>3. ShownNow' = ShownNow
    BY <1>1, <1>3, <1>5, <2>2
  <2> QED BY <1>2, <2>1, <2>3
<1> QED BY <1>1, <1>4, <1>6, <1>7, <1>k

LEMMA NoCopyShowsTheSame ==
  ASSUME IInv, IInv', UNCHANGED <<log, position>>
  PROVE  UNCHANGED <<log, position, ShownNow>>
<1>1. \A k \in Keys : ValueAt(position[k])' = ValueAt(position[k])
  BY DEF ValueAt
<1> QED BY <1>1, ShownIsPosition

LEMMA PublicationShowsTheSame ==
  ASSUME IInv, IInv', NEW k \in Keys, NEW v \in Value \cup {None}, SourceWrites(k, v)
  PROVE  Mirror!Publish(k, v)
<1>1. log' = Append(log, [key |-> k, val |-> v]) /\ position' = position
  BY DEF SourceWrites
<1>2. /\ log \in Seq(Operation) /\ position \in [Keys -> 0..Len(log)]
      /\ [key |-> k, val |-> v] \in Operation /\ Len(log) \in Nat
  BY Types DEF IInv, Operation
<1>3. \A i \in 1..Len(log) : log'[i] = log[i]
  BY <1>1, <1>2
<1>4. \A l \in Keys : ValueAt(position[l])' = ValueAt(position[l])
  BY <1>1, <1>2, <1>3 DEF ValueAt
<1>5. ShownNow' = ShownNow
  BY <1>4, ShownIsPosition
<1> QED BY <1>1, <1>5 DEF Mirror!Publish, ShownNow

LEMMA StepMirrors ==
  ASSUME IInv, IInv', [Next]_vars
  PROVE  [Mirror!Next]_(Mirror!vars)
<1>1. SUFFICES Mirror!Next \/ UNCHANGED <<log, position, ShownNow>>
  BY DEF Mirror!vars, ShownNow
<1>2. CASE UNCHANGED <<log, position>>
  BY <1>2, NoCopyShowsTheSame
<1>3. ASSUME NEW k \in Keys, NEW v \in Value \cup {None}, SourceWrites(k, v) PROVE Mirror!Next
  BY <1>3, PublicationShowsTheSame DEF Mirror!Next
<1>4. CASE (Put \/ Update) /\ UNCHANGED setup
  <2>1. WritesWork
    BY <1>4, PutAndUpdateWriteWork
  <2>2. work # NoWork /\ CopiesInto(work.event)
    BY <2>1 DEF WritesWork
  <2>3. work.event \in 1..Len(log) /\ position[log[work.event].key] <= work.event
    BY <2>2, Types DEF IInv, WorkAhead
  <2> QED BY <2>2, <2>3, CopyAdvances DEF Mirror!Next
<1>5. CASE TakeDelete /\ UNCHANGED setup
  <2>1. CopiesInto(Head(queue)) /\ Head(queue) \in 1..Len(log)
    BY <1>5, DeleteCopies
  <2>2. position[log[Head(queue)].key] <= Head(queue)
    <3>1. queue # <<>>
      BY <1>5 DEF TakeDelete, NextEvent
    <3>2. Head(queue) = queue[1] /\ 1 \in 1..Len(queue)
      BY <3>1, TailShortens, Types DEF IInv
    <3> QED BY <3>2 DEF IInv, QueueAhead
  <2> QED BY <2>1, <2>2, CopyAdvances DEF Mirror!Next
<1>6. CASE Replicator
  <2>1. UNCHANGED setup
    BY <1>6 DEF Replicator
  <2>2. ASSUME ListSource \/ SkipBootstrap \/ (\E k \in Keys : FetchEntry(k)) \/ SeedNext \/ OpenWatch
               \/ TakePoison \/ TakeFiltered \/ TakePut \/ Conflict
        PROVE  UNCHANGED <<log, position>>
    BY <2>2 DEF ListSource, SkipBootstrap, FetchEntry, SeedNext, OpenWatch, TakePoison, TakeFiltered,
                TakePut, Conflict
  <2> QED BY <1>2, <1>4, <1>5, <1>6, <2>1, <2>2 DEF Replicator
<1>7. CASE Others
  <2>1. ASSUME Restart \/ (\E k \in Keys, v \in Value \cup {None} : TargetPut(k, v))
        PROVE  UNCHANGED <<log, position>>
    BY <2>1 DEF Restart, TargetPut
  <2> QED BY <1>2, <1>3, <1>7, <2>1 DEF Others
<1>8. CASE UNCHANGED vars
  BY <1>2, <1>8 DEF vars
<1> QED BY <1>6, <1>7, <1>8 DEF Next

(* SchemaReplicator is a one-way mirror, crash and restart at any point,   *)
(* torn snapshot, replay and tail included: what the target shows of a key *)
(* is the outcome of an operation published on it, never an older one than *)
(* before.                                                                 *)
THEOREM Refinement == Spec => ImplementsMirror
<1>1. Init => Mirror!Init
  BY InitMirrors
<1>2. IInv /\ IInv' /\ [Next]_vars => [Mirror!Next]_(Mirror!vars)
  BY StepMirrors
<1> QED BY <1>1, <1>2, Inductive, PTL DEF Spec, ImplementsMirror, Mirror!Spec
=============================================================================

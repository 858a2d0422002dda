------------------ MODULE CapabilityPolicyReplicationProofs ------------------
(***************************************************************************)
(* Proofs about CapabilityPolicyReplication, for any keys, records,        *)
(* settings, writers and bounds: every event is counted once, no write of  *)
(* the replicator that its checks can still vouch for undoes a revocation, *)
(* and without other writers the target ends up as the source or a counted *)
(* refusal says why not.                                                   *)
(*                                                                         *)
(* Why nothing diverges in silence: of each key, the last event not yet    *)
(* applied carries what the source holds, be it in the queue or the write  *)
(* in progress, and when none is left the target holds it (Converging).    *)
(* The replay starts that off because it brings every key the source has   *)
(* ever had, and the target has no others (OnlyWrittenKeys).               *)
(***************************************************************************)
EXTENDS CapabilityPolicyReplication, ListLemmas

-----------------------------------------------------------------------------
(* The invariant.                                                          *)

Written(k) == source[k].rev # 0

SourceHistory ==
  /\ \A k \in Keys : source[k].rev <= sourceSeq /\ (Live(source, k) => Written(k))
  /\ \A k, l \in Keys : source[k].rev = source[l].rev /\ Written(k) => k = l

OnlyWrittenKeys ==
  /\ \A k \in todo : Written(k)
  /\ \A i \in 1..Len(snap) : Written(snap[i].key)
  /\ \A i \in 1..Len(queue) : Written(queue[i].key)
  /\ work # NoWork => Written(work.key)
  /\ ~shared => \A k \in Keys : Live(target, k) => Written(k)

(* What the replicator has the target to itself for.                       *)
TargetIsOwn == ~shared => \A k \in Keys : target[k].val # Poison

RevisionsAreUsed ==
  \A k \in Keys : target[k].rev <= targetSeq /\ (Live(target, k) => target[k].rev # 0)

(* The pin of an update is a revision in use, and an entry that still has  *)
(* it has passed the gate; without other writers no check goes stale.      *)
PinsAreChecked ==
  work # NoWork =>
    LET held == target[work.key] IN
      /\ work.step \in {"gate", "update"} =>
           ~work.boot /\ work.pin # 0 /\ work.pin <= targetSeq
      /\ work.step = "update" /\ held.rev = work.pin => ~Breaches(held.val, work.rec)
      /\ ~shared /\ work.step = "put" => ~Breaches(held.val, work.rec)
      /\ ~shared /\ work.step # "put" => held.val # None /\ held.rev = work.pin

InQueue(k) == \E i \in 1..Len(queue) : queue[i].key = k

(* An event of k in the queue that is not what the source holds has another *)
(* of its key behind it; and so on.                                        *)
QueueEndsInSource(k) ==
  \A i \in 1..Len(queue) : queue[i].key = k =>
    \/ queue[i].val = source[k].val
    \/ \E j \in 1..Len(queue) : j > i /\ queue[j].key = k

Converging ==
  ~shared /\ phase = "tail" /\ Refusals = 0 =>
    \A k \in settings.accepted :
      /\ QueueEndsInSource(k)
      /\ work # NoWork /\ work.key = k => work.rec = source[k].val \/ InQueue(k)
      /\ \/ target[k].val = source[k].val
         \/ InQueue(k)
         \/ work # NoWork /\ work.key = k

IInv ==
  /\ TypeOK
  /\ SourceHistory /\ OnlyWrittenKeys
  /\ TargetIsOwn /\ RevisionsAreUsed /\ PinsAreChecked
  /\ EveryEventCounted /\ Converging
-----------------------------------------------------------------------------
(* The types, one by one.                                                  *)

Snapshot == [key : Keys, rec : Record]
Event    == [key : Keys, val : Value \cup {None}]

LEMMA Types ==
  ASSUME TypeOK
  PROVE  /\ settings \in Settings /\ shared \in BOOLEAN
         /\ settings.casPin \in BOOLEAN /\ settings.haltOnEnvelopeError \in BOOLEAN
         /\ settings.accepted \subseteq Keys
         /\ source \in [Keys -> Entry(Value)] /\ sourceSeq \in Nat
         /\ \A k \in Keys : source[k].rev \in Nat /\ source[k].val \in Value \cup {None}
         /\ target \in [Keys -> Entry(Value)] /\ targetSeq \in Nat
         /\ \A k \in Keys : target[k].rev \in Nat /\ target[k].val \in Value \cup {None}
         /\ todo \subseteq Keys
         /\ snap \in Seq(Snapshot) /\ Len(snap) \in Nat
         /\ \A i \in 1..Len(snap) : snap[i].key \in Keys /\ snap[i].rec \in Record
         /\ queue \in Seq(Event) /\ Len(queue) \in Nat
         /\ \A i \in 1..Len(queue) : queue[i].key \in Keys /\ queue[i].val \in Value \cup {None}
         /\ work # NoWork => /\ work \in Work /\ work.key \in Keys /\ work.rec \in Record
                             /\ work.pin \in Nat /\ work.boot \in BOOLEAN
                             /\ work.step \in {"put", "gate", "update"}
         /\ metrics \in [Counters -> Nat] /\ taken \in Nat
<1>1. shared \in BOOLEAN /\ settings \in Settings
  BY SettingsAreTyped DEF TypeOK
<1>2. /\ settings.casPin \in BOOLEAN /\ settings.haltOnEnvelopeError \in BOOLEAN
      /\ settings.accepted \subseteq Keys
  BY <1>1, SettingsAreTyped
<1>3. source \in [Keys -> Entry(Value)] /\ sourceSeq \in Nat
  BY Bounds DEF TypeOK
<1>4. target \in [Keys -> Entry(Value)] /\ targetSeq \in Nat
  BY DEF TypeOK
<1>5. \A k \in Keys : source[k].rev \in Nat /\ source[k].val \in Value \cup {None}
  BY <1>3 DEF Entry
<1>6. \A k \in Keys : target[k].rev \in Nat /\ target[k].val \in Value \cup {None}
  BY <1>4 DEF Entry
<1>7. snap \in Seq(Snapshot) /\ queue \in Seq(Event)
  BY DEF TypeOK, Snapshot, Event
<1>8. \A i \in 1..Len(snap) : snap[i].key \in Keys /\ snap[i].rec \in Record
  <2>1. \A i \in 1..Len(snap) : snap[i] \in Snapshot
    BY <1>7
  <2>2. QED
    BY <2>1 DEF Snapshot
<1>9. \A i \in 1..Len(queue) : queue[i].key \in Keys /\ queue[i].val \in Value \cup {None}
  <2>1. \A i \in 1..Len(queue) : queue[i] \in Event
    BY <1>7
  <2>2. QED
    BY <2>1 DEF Event
<1>10. ASSUME work # NoWork
       PROVE  /\ work \in Work /\ work.key \in Keys /\ work.rec \in Record
              /\ work.pin \in Nat /\ work.boot \in BOOLEAN
              /\ work.step \in {"put", "gate", "update"}
  BY <1>10 DEF TypeOK, Work
<1>11. todo \subseteq Keys /\ metrics \in [Counters -> Nat] /\ taken \in Nat
  BY DEF TypeOK
<1>12. Len(snap) \in Nat /\ Len(queue) \in Nat
  BY <1>7
<1>13. QED
  BY <1>1, <1>2, <1>3, <1>4, <1>5, <1>6, <1>7, <1>8, <1>9, <1>10, <1>11, <1>12

LEMMA NoWorkHasNoStep == NoWork.step \notin {"put", "gate", "update"}
BY DEF NoWork

LEMMA WorkIsThere == work.step \in {"put", "gate", "update"} => work # NoWork
BY NoWorkHasNoStep

(* The first of a queue and the rest of it.                                *)
LEMMA HeadAndTail ==
  ASSUME NEW S, NEW q \in Seq(S), q # <<>>
  PROVE  /\ Len(q) \in Nat /\ 1 \in 1..Len(q) /\ Head(q) = q[1] /\ Head(q) \in S
         /\ Tail(q) \in Seq(S) /\ Len(Tail(q)) = Len(q) - 1
         /\ \A i \in 1..Len(Tail(q)) : i + 1 \in 1..Len(q) /\ Tail(q)[i] = q[i + 1]
OBVIOUS

(* Counting.                                                               *)
EventCounters == {"events_applied_put", "events_applied_delete", "events_skipped_by_filter",
                  "cas_conflicts", "revocation_breaches", "envelope_errors"}

RefusalCounters == {"revocation_breaches", "bootstrap_revocation_breaches"}

LEMMA CountersAdd ==
  ASSUME metrics \in [Counters -> Nat], NEW m \in Counters, NEW n \in Nat,
         metrics' = [metrics EXCEPT ![m] = @ + n]
  PROVE  /\ metrics' \in [Counters -> Nat]
         /\ Outcomes \in Nat /\ Refusals \in Nat
         /\ Outcomes' = Outcomes + (IF m \in EventCounters THEN n ELSE 0)
         /\ Refusals' = Refusals + (IF m \in RefusalCounters THEN n ELSE 0)
<1>1. metrics' \in [Counters -> Nat]
  OBVIOUS
<1>2. \A c \in Counters : metrics[c] \in Nat /\ metrics'[c] = IF c = m THEN metrics[m] + n ELSE metrics[c]
  OBVIOUS
<1>3. EventCounters \subseteq Counters /\ RefusalCounters \subseteq Counters
  BY DEF EventCounters, RefusalCounters, Counters
<1>4. Outcomes \in Nat /\ Refusals \in Nat
  BY <1>2 DEF Outcomes, Refusals, Counters
<1>5. Outcomes' = Outcomes + (IF m \in EventCounters THEN n ELSE 0)
  BY <1>2 DEF Outcomes, EventCounters, Counters
<1>6. Refusals' = Refusals + (IF m \in RefusalCounters THEN n ELSE 0)
  BY <1>2 DEF Refusals, RefusalCounters, Counters
<1>7. QED
  BY <1>1, <1>4, <1>5, <1>6
-----------------------------------------------------------------------------
LEMMA InitHolds == Init => IInv
<1> SUFFICES ASSUME Init PROVE IInv
  OBVIOUS
<1>1. /\ settings \in Settings /\ shared \in Sharing
      /\ source = [k \in Keys |-> NeverWritten] /\ sourceSeq = 0
      /\ target = [k \in Keys |-> NeverWritten] /\ targetSeq = 0
      /\ phase = "down" /\ todo = {} /\ snap = <<>> /\ queue = <<>>
      /\ Len(snap) = 0 /\ Len(queue) = 0 /\ work = NoWork /\ metrics = Zero
      /\ taken = 0 /\ quietSince = 0 /\ restarts = 0
  BY DEF Init
<1>2. TypeOK
  <2>1. [k \in Keys |-> NeverWritten] \in [Keys -> Entry(Value)]
    BY DEF NeverWritten, Entry
  <2>2. snap \in Seq([key : Keys, rec : Record]) /\ queue \in Seq([key : Keys, val : Value \cup {None}])
    BY <1>1
  <2>3. metrics \in [Counters -> Nat]
    BY <1>1 DEF Zero
  <2>4. QED
    BY <1>1, <2>1, <2>2, <2>3, Bounds DEF TypeOK
<1>3. SourceHistory /\ OnlyWrittenKeys /\ TargetIsOwn /\ RevisionsAreUsed
  BY <1>1, BytesDecodeOneWay
     DEF SourceHistory, OnlyWrittenKeys, TargetIsOwn, RevisionsAreUsed, NeverWritten, Written, Live, Value
<1>4. PinsAreChecked /\ Converging
  BY <1>1 DEF PinsAreChecked, Converging
<1>5. EveryEventCounted
  <2>1. Outcomes = 0
    BY <1>1 DEF Outcomes, Zero, Counters
  <2>2. QED
    BY <1>1, <2>1 DEF EveryEventCounted
<1>6. QED
  BY <1>2, <1>3, <1>4, <1>5 DEF IInv
-----------------------------------------------------------------------------
(* Frames: what survives the steps that leave its variables alone.         *)

LEMMA SourceStands ==
  ASSUME IInv, UNCHANGED sourceVars
  PROVE  /\ SourceHistory' /\ source' = source /\ sourceSeq' = sourceSeq
         /\ \A k : Written(k)' <=> Written(k)
BY DEF IInv, SourceHistory, sourceVars, Written, Live

LEMMA TargetStands ==
  ASSUME IInv, UNCHANGED <<targetVars, shared>>
  PROVE  /\ TargetIsOwn' /\ RevisionsAreUsed' /\ target' = target /\ targetSeq' = targetSeq
BY DEF IInv, TargetIsOwn, RevisionsAreUsed, targetVars, Live

LEMMA NothingInProgress ==
  ASSUME work' = NoWork
  PROVE  PinsAreChecked'
BY DEF PinsAreChecked

(* A step outside the tail.                                                *)
LEMMA NotInTail ==
  ASSUME phase' # "tail"
  PROVE  Converging'
BY DEF Converging

(* A step that counts no event.                                            *)
LEMMA NothingCounted ==
  ASSUME IInv, UNCHANGED <<setup, metrics, taken>>,
         (work' # NoWork /\ ~work'.boot) <=> (work # NoWork /\ ~work.boot)
  PROVE  EveryEventCounted'
<1>1. Outcomes' = Outcomes
  BY DEF Outcomes
<1>2. QED
  BY <1>1 DEF IInv, EveryEventCounted, setup
-----------------------------------------------------------------------------
(* The bootstrap.                                                          *)

LEMMA ListingPreserves ==
  ASSUME IInv, UNCHANGED setup, ListSource \/ SkipBootstrap
  PROVE  IInv'
<1>1. /\ UNCHANGED <<sourceVars, targetVars, queue, work, metrics, taken, restarts>>
      /\ phase' = "listed" /\ quietSince' \in {sourceSeq, None}
      /\ (snap' = <<>> \/ snap' = snap)
      /\ (todo' = todo \/ todo' = {k \in Keys : Live(source, k)})
  BY DEF ListSource, SkipBootstrap
<1>2. TypeOK /\ SourceHistory
  BY DEF IInv
<1>3. TypeOK'
  <2>1. snap' \in Seq([key : Keys, rec : Record])
    <3>1. <<>> \in Seq([key : Keys, rec : Record])
      OBVIOUS
    <3>2. snap \in Seq([key : Keys, rec : Record])
      BY <1>2 DEF TypeOK
    <3>3. QED
      BY <1>1, <3>1, <3>2
  <2>2. QED
    BY <1>1, <1>2, <2>1 DEF TypeOK, setup, sourceVars, targetVars
<1>4. OnlyWrittenKeys'
  <2>1. \A k \in todo' : Written(k)
    BY <1>1, <1>2 DEF IInv, OnlyWrittenKeys, SourceHistory
  <2>2. \A i \in 1..Len(snap') : Written(snap'[i].key)
    <3>1. Len(<<>>) = 0
      OBVIOUS
    <3>2. QED
      BY <1>1, <3>1 DEF IInv, OnlyWrittenKeys
  <2>3. QED
    BY <1>1, <2>1, <2>2 DEF IInv, OnlyWrittenKeys, Written, sourceVars, targetVars, setup, Live
<1>5. SourceHistory' /\ TargetIsOwn' /\ RevisionsAreUsed' /\ Converging' /\ EveryEventCounted'
  BY <1>1, SourceStands, TargetStands, NotInTail, NothingCounted DEF setup
<1>6. PinsAreChecked'
  BY <1>1 DEF IInv, PinsAreChecked, targetVars, setup
<1>7. QED
  BY <1>3, <1>4, <1>5, <1>6 DEF IInv

LEMMA FetchPreserves ==
  ASSUME IInv, UNCHANGED setup, FetchRecord
  PROVE  IInv'
<1> DEFINE k == Min(todo)
           copy == [key |-> k, rec |-> source[k].val]
<1>1. /\ UNCHANGED <<sourceVars, targetVars, queue, work, metrics, history>>
      /\ phase = "listed" /\ todo # {}
      /\ \/ phase' = "halted" /\ todo' = {} /\ snap' = <<>>
         \/ /\ source[k].val # Poison /\ todo' = todo \ {k} /\ phase' = phase
            /\ \/ Live(source, k) /\ snap' = Append(snap, copy)
               \/ snap' = snap
  BY DEF FetchRecord
<1>2. TypeOK /\ OnlyWrittenKeys
  BY DEF IInv
<1>3. k \in todo /\ k \in Keys
  <2>1. todo \subseteq Nat /\ todo \subseteq Keys
    BY <1>2, KeysAreOrdered DEF TypeOK
  <2>2. QED
    BY <1>1, <2>1, MinIsLeast
<1>4. ASSUME source[k].val # Poison, Live(source, k) PROVE copy \in Snapshot
  BY <1>2, <1>3, <1>4, Types DEF Live, Value, Snapshot
<1>5. Written(k)
  BY <1>2, <1>3 DEF OnlyWrittenKeys
<1>6. copy.key = k
  OBVIOUS
<1> HIDE DEF k, copy
<1>7. snap' \in Seq(Snapshot) /\ \A i \in 1..Len(snap') : Written(snap'[i].key)
  <2>1. CASE snap' = <<>>
    <3>1. Len(snap') = 0 /\ snap' \in Seq(Snapshot)
      BY <2>1
    <3>2. QED
      BY <3>1
  <2>2. CASE snap' = snap
    BY <1>2, <2>2, Types DEF OnlyWrittenKeys
  <2>3. CASE source[k].val # Poison /\ Live(source, k) /\ snap' = Append(snap, copy)
    <3>1. copy \in Snapshot /\ snap \in Seq(Snapshot) /\ Len(snap) \in Nat
      BY <1>2, <1>4, <2>3, Types
    <3>2. /\ snap' \in Seq(Snapshot) /\ Len(snap') = Len(snap) + 1
          /\ snap'[Len(snap) + 1] = copy /\ \A i \in 1..Len(snap) : snap'[i] = snap[i]
      BY <2>3, <3>1
    <3>3. 1..Len(snap') = (1..Len(snap)) \cup {Len(snap) + 1}
      BY <3>1, <3>2
    <3>4. QED
      BY <1>2, <1>5, <1>6, <3>2, <3>3 DEF OnlyWrittenKeys
  <2>4. QED
    BY <1>1, <2>1, <2>2, <2>3
<1>8. TypeOK'
  BY <1>1, <1>2, <1>7 DEF TypeOK, setup, sourceVars, targetVars, history, Snapshot
<1>9. OnlyWrittenKeys'
  BY <1>1, <1>2, <1>7 DEF OnlyWrittenKeys, Written, sourceVars, targetVars, setup, Live
<1>10. SourceHistory' /\ TargetIsOwn' /\ RevisionsAreUsed' /\ Converging' /\ EveryEventCounted'
  BY <1>1, SourceStands, TargetStands, NotInTail, NothingCounted DEF setup, history
<1>11. PinsAreChecked'
  BY <1>1 DEF IInv, PinsAreChecked, targetVars, setup
<1>12. QED
  BY <1>8, <1>9, <1>10, <1>11 DEF IInv

(* A copy begins where the target holds no other revocation of the key.    *)
LEMMA SeedPreserves ==
  ASSUME IInv, UNCHANGED setup, SeedNext
  PROVE  IInv'
<1> DEFINE k == Head(snap).key
           r == Head(snap).rec
           w == [step |-> "put", boot |-> TRUE, key |-> k, rec |-> r, pin |-> 0]
<1>1. /\ UNCHANGED <<sourceVars, targetVars, todo, history>>
      /\ phase = "listed" /\ todo = {} /\ work = NoWork /\ snap # <<>> /\ snap' = Tail(snap)
      /\ phase' \in {"listed", "halted"} /\ (queue' = queue \/ queue' = <<>>)
      /\ \/ work' = NoWork
         \/ work' = w /\ ~Breaches(target[k].val, r)
      /\ \/ metrics' = metrics
         \/ \E m \in Counters \ EventCounters : metrics' = [metrics EXCEPT ![m] = @ + 1]
  <2>1. Head(snap).key = k /\ Head(snap).rec = r
    OBVIOUS
  <2>2. {"bootstrap_skipped_by_filter", "bootstrap_skipped_idempotent",
         "bootstrap_revocation_breaches"} \subseteq Counters \ EventCounters
    BY DEF Counters, EventCounters
  <2>3. QED
    BY <2>2 DEF SeedNext, Count, Leave
<1>2. TypeOK /\ OnlyWrittenKeys
  BY DEF IInv
<1>3. k \in Keys /\ r \in Record /\ Written(k) /\ snap' \in Seq(Snapshot)
      /\ \A i \in 1..Len(snap') : Written(snap'[i].key)
  <2>1. /\ 1 \in 1..Len(snap) /\ Head(snap) = snap[1] /\ Tail(snap) \in Seq(Snapshot)
        /\ \A i \in 1..Len(Tail(snap)) : i + 1 \in 1..Len(snap) /\ Tail(snap)[i] = snap[i + 1]
    BY <1>1, <1>2, Types, HeadAndTail
  <2>2. snap[1].key \in Keys /\ snap[1].rec \in Record
    BY <1>2, <2>1, Types
  <2>3. QED
    BY <1>1, <1>2, <2>1, <2>2 DEF OnlyWrittenKeys
<1> HIDE DEF k, r
<1>4. w \in Work /\ w.key = k /\ w.rec = r /\ w.step = "put" /\ w.boot = TRUE
  BY <1>3 DEF Work
<1> HIDE DEF w
<1>5. metrics' \in [Counters -> Nat] /\ Outcomes' = Outcomes
  <2>1. CASE metrics' = metrics
    BY <1>2, <2>1, Types DEF Outcomes
  <2>2. CASE \E m \in Counters \ EventCounters : metrics' = [metrics EXCEPT ![m] = @ + 1]
    <3>1. PICK m \in Counters \ EventCounters : metrics' = [metrics EXCEPT ![m] = @ + 1]
      BY <2>2
    <3>2. metrics' \in [Counters -> Nat] /\ Outcomes \in Nat /\ Outcomes' = Outcomes + 0
      BY <1>2, <3>1, Types, CountersAdd
    <3>3. QED
      BY <3>2
  <2>3. QED
    BY <1>1, <2>1, <2>2
<1>6. queue' \in Seq(Event) /\ (\A i \in 1..Len(queue') : Written(queue'[i].key))
  <2>1. <<>> \in Seq(Event) /\ Len(<<>>) = 0 /\ queue \in Seq(Event)
    BY <1>2, Types
  <2>2. CASE queue' = queue
    BY <1>2, <2>1, <2>2 DEF OnlyWrittenKeys
  <2>3. CASE queue' = <<>>
    <3>1. Len(queue') = 0 /\ queue' \in Seq(Event)
      BY <2>1, <2>3
    <3>2. QED
      BY <3>1
  <2>4. QED
    BY <1>1, <2>2, <2>3
<1>7. TypeOK'
  BY <1>1, <1>2, <1>3, <1>4, <1>5, <1>6
     DEF TypeOK, setup, sourceVars, targetVars, history, Snapshot, Event
<1>8. OnlyWrittenKeys'
  BY <1>1, <1>2, <1>3, <1>4, <1>6
     DEF OnlyWrittenKeys, Written, sourceVars, targetVars, setup, Live
<1>9. SourceHistory' /\ TargetIsOwn' /\ RevisionsAreUsed' /\ Converging'
  BY <1>1, SourceStands, TargetStands, NotInTail DEF setup
<1>10. PinsAreChecked'
  <2>1. CASE work' = NoWork
    BY <2>1, NothingInProgress
  <2>2. CASE work' = w /\ ~Breaches(target[k].val, r)
    BY <1>1, <1>4, <2>2 DEF PinsAreChecked, targetVars, Breaches, Revoked
  <2>3. QED
    BY <1>1, <2>1, <2>2
<1>11. EveryEventCounted'
  <2>1. work' = NoWork \/ work'.boot
    BY <1>1, <1>4
  <2>2. QED
    BY <1>1, <1>5, <2>1 DEF IInv, EveryEventCounted, setup, history
<1>12. QED
  BY <1>7, <1>8, <1>9, <1>10, <1>11 DEF IInv
-----------------------------------------------------------------------------
(* The replay.                                                             *)

(* The watch replays the keys ever written, each of them and no other.     *)
LEMMA ReplayIsComplete ==
  ASSUME TypeOK, SourceHistory
  PROVE  LET order == ReplayOrder(source, sourceSeq) IN
           /\ order \in Seq(Keys)
           /\ \A i \in 1..Len(order) : Written(order[i])
           /\ \A k \in Keys : Written(k) => \E i \in 1..Len(order) : order[i] = k
<1> DEFINE D     == Replayed(source)
           order == ReplayOrder(source, sourceSeq)
<1>1. \A k : k \in D <=> k \in Keys /\ Written(k)
  BY Types DEF Replayed, Written
<1>2. /\ sourceSeq \in Nat
      /\ \A k \in D : source[k].rev \in 1..sourceSeq
      /\ \A k, l \in D : source[k].rev = source[l].rev => k = l
  BY <1>1, Types DEF SourceHistory, Written
<1>3. order = InOrder(D, source, sourceSeq)
  BY Zenon DEF ReplayOrder, InOrder
<1> HIDE DEF D, order
<1>4. order \in Seq(D) /\ \A k \in D : \E i \in 1..Len(order) : order[i] = k
  BY <1>2, <1>3, OldestFirst
<1>5. order \in Seq(Keys) /\ \A i \in 1..Len(order) : order[i] \in D
  BY <1>1, <1>4
<1>6. QED
  BY <1>1, <1>4, <1>5 DEF order

LEMMA OpenWatchPreserves ==
  ASSUME IInv, UNCHANGED setup, OpenWatch
  PROVE  IInv'
<1> DEFINE order == ReplayOrder(source, sourceSeq)
<1>1. /\ UNCHANGED <<sourceVars, targetVars, todo, snap, work, metrics, history>>
      /\ todo = {} /\ snap = <<>> /\ work = NoWork /\ phase' = "tail"
      /\ queue' = [i \in DOMAIN order |-> [key |-> order[i], val |-> source[order[i]].val]]
  BY DEF OpenWatch
<1>2. TypeOK /\ SourceHistory /\ OnlyWrittenKeys
  BY DEF IInv
<1>3. /\ order \in Seq(Keys)
      /\ \A i \in 1..Len(order) : Written(order[i])
      /\ \A k \in Keys : Written(k) => \E i \in 1..Len(order) : order[i] = k
  BY <1>2, ReplayIsComplete
<1> HIDE DEF order
<1>4. /\ Len(order) \in Nat /\ DOMAIN order = 1..Len(order)
      /\ \A i \in 1..Len(order) : order[i] \in Keys
  BY <1>3
<1>5. /\ queue' \in Seq(Event) /\ Len(queue') = Len(order)
      /\ \A i \in 1..Len(order) : queue'[i].key = order[i] /\ queue'[i].val = source[order[i]].val
  <2>1. \A k \in Keys : [key |-> k, val |-> source[k].val] \in Event
    BY <1>2, Types DEF Event
  <2>2. QED
    BY <1>1, <1>4, <2>1
<1>6. TypeOK'
  BY <1>1, <1>2, <1>5 DEF TypeOK, setup, sourceVars, targetVars, history, Event
<1>7. OnlyWrittenKeys'
  BY <1>1, <1>2, <1>3, <1>5 DEF OnlyWrittenKeys, Written, sourceVars, targetVars, setup, Live
<1>8. SourceHistory' /\ TargetIsOwn' /\ RevisionsAreUsed' /\ PinsAreChecked' /\ EveryEventCounted'
  BY <1>1, SourceStands, TargetStands, NothingInProgress, NothingCounted DEF setup, history
<1>9. Converging'
  <2> SUFFICES ASSUME ~shared, NEW k \in settings.accepted
               PROVE  /\ QueueEndsInSource(k)'
                      /\ target'[k].val = source'[k].val \/ InQueue(k)'
    BY <1>1 DEF Converging, setup
  <2>1. source' = source /\ target' = target
    BY <1>1 DEF sourceVars, targetVars
  <2>2. k \in Keys
    BY <1>2, Types
  <2>3. QueueEndsInSource(k)'
    BY <1>5, <2>1 DEF QueueEndsInSource
  <2>4. CASE Written(k)
    <3>1. PICK i \in 1..Len(order) : order[i] = k
      BY <1>3, <2>2, <2>4
    <3>2. i \in 1..Len(queue') /\ queue'[i].key = k
      BY <1>5, <3>1
    <3>3. QED
      BY <2>3, <3>2 DEF InQueue
  <2>5. CASE ~Written(k)
    <3>1. source[k].val = None /\ target[k].val = None
      BY <1>2, <2>2, <2>5 DEF SourceHistory, OnlyWrittenKeys, Live
    <3>2. QED
      BY <2>1, <2>3, <3>1
  <2>6. QED
    BY <2>4, <2>5
<1>10. QED
  BY <1>6, <1>7, <1>8, <1>9 DEF IInv
-----------------------------------------------------------------------------
(* The tail.                                                               *)

(* What taking the first event leaves of the queue.                        *)
LEMMA EventTaken ==
  ASSUME IInv, queue # <<>>, queue' = Tail(queue), UNCHANGED sourceVars
  PROVE  /\ queue' \in Seq(Event)
         /\ \A i \in 1..Len(queue') : Written(queue'[i].key)
         /\ Head(queue).key \in Keys /\ Head(queue).val \in Value \cup {None}
         /\ Written(Head(queue).key)
         /\ \A k : QueueEndsInSource(k) =>
              /\ QueueEndsInSource(k)'
              /\ Head(queue).key = k => Head(queue).val = source[k].val \/ InQueue(k)'
              /\ Head(queue).key # k /\ InQueue(k) => InQueue(k)'
<1>1. TypeOK /\ OnlyWrittenKeys /\ source' = source
  BY DEF IInv, sourceVars
<1>2. /\ Len(queue) \in Nat /\ 1 \in 1..Len(queue) /\ Head(queue) = queue[1]
      /\ queue' \in Seq(Event) /\ Len(queue') = Len(queue) - 1
      /\ \A i \in 1..Len(queue') : i + 1 \in 1..Len(queue) /\ queue'[i] = queue[i + 1]
  BY <1>1, Types, HeadAndTail
<1>3. /\ \A i \in 1..Len(queue') : Written(queue'[i].key)
      /\ Head(queue).key \in Keys /\ Head(queue).val \in Value \cup {None}
      /\ Written(Head(queue).key)
  BY <1>1, <1>2, Types DEF OnlyWrittenKeys
<1>4. \A j \in 1..Len(queue) : j # 1 => j - 1 \in 1..Len(queue') /\ queue'[j - 1] = queue[j]
  <2> SUFFICES ASSUME NEW j \in 1..Len(queue), j # 1
               PROVE  j - 1 \in 1..Len(queue') /\ queue'[j - 1] = queue[j]
    OBVIOUS
  <2>1. j - 1 \in 1..Len(queue') /\ (j - 1) + 1 = j
    BY <1>2
  <2>2. QED
    BY <1>2, <2>1
<1>5. ASSUME NEW k, QueueEndsInSource(k) PROVE QueueEndsInSource(k)'
  <2> SUFFICES ASSUME NEW i \in 1..Len(queue'), queue'[i].key = k, queue'[i].val # source[k].val
               PROVE  \E j \in 1..Len(queue') : j > i /\ queue'[j].key = k
    BY <1>1 DEF QueueEndsInSource
  <2>1. i \in Nat /\ i # 0 /\ i + 1 \in 1..Len(queue) /\ queue[i + 1].key = k /\ queue[i + 1].val # source[k].val
    BY <1>2
  <2>2. PICK j \in 1..Len(queue) : j > i + 1 /\ queue[j].key = k
    BY <1>5, <2>1 DEF QueueEndsInSource
  <2>3. j # 1 /\ j - 1 > i
    BY <2>1, <2>2
  <2>4. QED
    BY <1>4, <2>2, <2>3
<1>6. ASSUME NEW k, QueueEndsInSource(k), Head(queue).key = k, Head(queue).val # source[k].val
      PROVE  InQueue(k)'
  <2>1. PICK j \in 1..Len(queue) : j > 1 /\ queue[j].key = k
    BY <1>2, <1>6 DEF QueueEndsInSource
  <2>2. j # 1
    BY <2>1
  <2>3. QED
    BY <1>4, <2>1, <2>2 DEF InQueue
<1>7. ASSUME NEW k, Head(queue).key # k, InQueue(k) PROVE InQueue(k)'
  <2>1. PICK j \in 1..Len(queue) : queue[j].key = k
    BY <1>7 DEF InQueue
  <2>2. j # 1
    BY <1>2, <1>7, <2>1
  <2>3. QED
    BY <1>4, <2>1, <2>2 DEF InQueue
<1>8. QED
  BY <1>2, <1>3, <1>5, <1>6, <1>7

LEMMA QueueDropped ==
  ASSUME queue' = <<>>
  PROVE  queue' \in Seq(Event) /\ \A i \in 1..Len(queue') : Written(queue'[i].key)
<1>1. Len(queue') = 0 /\ queue' \in Seq(Event)
  OBVIOUS
<1>2. QED
  BY <1>1

(* An event comes to its end, the step that takes it or a later one, and   *)
(* is counted once.                                                        *)
LEMMA EventSettled ==
  ASSUME IInv, UNCHANGED setup, NEW m \in EventCounters,
         metrics' = [metrics EXCEPT ![m] = @ + 1], work' = NoWork,
         \/ work = NoWork /\ taken' = taken + 1
         \/ work # NoWork /\ ~work.boot /\ taken' = taken
  PROVE  /\ EveryEventCounted' /\ metrics' \in [Counters -> Nat] /\ taken' \in Nat
         /\ Refusals' = 0 => Refusals = 0 /\ m \notin RefusalCounters
<1>1. TypeOK /\ m \in Counters
  BY DEF IInv, EventCounters, Counters
<1>2. /\ metrics' \in [Counters -> Nat] /\ Outcomes \in Nat /\ Refusals \in Nat
      /\ Outcomes' = Outcomes + (IF m \in EventCounters THEN 1 ELSE 0)
      /\ Refusals' = Refusals + (IF m \in RefusalCounters THEN 1 ELSE 0)
  <2>1. metrics \in [Counters -> Nat] /\ 1 \in Nat
    BY <1>1, Types
  <2>2. QED
    BY <1>1, <2>1, CountersAdd
<1>3. Outcomes' = Outcomes + 1 /\ taken \in Nat
  BY <1>1, <1>2, Types
<1>4. EveryEventCounted'
  <2>1. SUFFICES ASSUME ~(shared /\ settings.haltOnEnvelopeError) PROVE taken' = Outcomes' + 0
    BY DEF EveryEventCounted, setup
  <2>2. taken = Outcomes + (IF work # NoWork /\ ~work.boot THEN 1 ELSE 0)
    BY <2>1 DEF IInv, EveryEventCounted
  <2>3. CASE work = NoWork /\ taken' = taken + 1
    BY <1>2, <1>3, <2>2, <2>3
  <2>4. CASE work # NoWork /\ ~work.boot /\ taken' = taken
    BY <1>2, <1>3, <2>2, <2>4
  <2>5. QED
    BY <2>3, <2>4
<1>5. Refusals' = 0 => Refusals = 0 /\ m \notin RefusalCounters
  BY <1>2
<1>6. taken' \in Nat
  BY <1>3
<1>7. QED
  BY <1>2, <1>4, <1>5, <1>6

LEMMA PoisonPreserves ==
  ASSUME IInv, UNCHANGED setup, TakePoison
  PROVE  IInv'
<1>1. /\ UNCHANGED <<sourceVars, targetVars, todo, snap, quietSince, restarts>>
      /\ work = NoWork /\ work' = NoWork /\ taken' = taken + 1
      /\ phase' \in {"halted", "ended"} /\ queue' = <<>>
      /\ metrics' = [metrics EXCEPT !["envelope_errors"] = @ + 1]
  BY DEF TakePoison, NextEvent, Take, Count, Leave
<1>2. TypeOK /\ OnlyWrittenKeys
  BY DEF IInv
<1>3. EveryEventCounted' /\ metrics' \in [Counters -> Nat] /\ taken' \in Nat
  <2>1. "envelope_errors" \in EventCounters
    BY DEF EventCounters
  <2>2. QED
    BY <1>1, <2>1, EventSettled
<1>4. queue' \in Seq(Event) /\ \A i \in 1..Len(queue') : Written(queue'[i].key)
  BY <1>1, QueueDropped
<1>5. TypeOK'
  BY <1>1, <1>2, <1>3, <1>4 DEF TypeOK, setup, sourceVars, targetVars, Event
<1>6. OnlyWrittenKeys'
  BY <1>1, <1>2, <1>4 DEF OnlyWrittenKeys, Written, sourceVars, targetVars, setup, Live
<1>7. /\ SourceHistory' /\ TargetIsOwn' /\ RevisionsAreUsed' /\ PinsAreChecked' /\ Converging'
  BY <1>1, SourceStands, TargetStands, NothingInProgress, NotInTail DEF setup
<1>8. QED
  BY <1>3, <1>5, <1>6, <1>7 DEF IInv

LEMMA FilteredPreserves ==
  ASSUME IInv, UNCHANGED setup, TakeFiltered
  PROVE  IInv'
<1>1. /\ UNCHANGED <<sourceVars, targetVars, phase, todo, snap, work, quietSince, restarts>>
      /\ work = NoWork /\ phase = "tail" /\ taken' = taken + 1
      /\ queue # <<>> /\ queue' = Tail(queue) /\ Head(queue).key \notin settings.accepted
      /\ metrics' = [metrics EXCEPT !["events_skipped_by_filter"] = @ + 1]
  BY DEF TakeFiltered, NextEvent, Take, Count
<1>2. TypeOK /\ OnlyWrittenKeys
  BY DEF IInv
<1>3. /\ EveryEventCounted' /\ metrics' \in [Counters -> Nat] /\ taken' \in Nat
      /\ Refusals' = 0 => Refusals = 0
  <2>1. "events_skipped_by_filter" \in EventCounters
    BY DEF EventCounters
  <2>2. QED
    BY <1>1, <2>1, EventSettled
<1>4. /\ queue' \in Seq(Event) /\ \A i \in 1..Len(queue') : Written(queue'[i].key)
      /\ \A k : QueueEndsInSource(k) =>
           /\ QueueEndsInSource(k)'
           /\ Head(queue).key # k /\ InQueue(k) => InQueue(k)'
  BY <1>1, EventTaken
<1>5. TypeOK'
  BY <1>1, <1>2, <1>3, <1>4 DEF TypeOK, setup, sourceVars, targetVars, Event
<1>6. OnlyWrittenKeys'
  BY <1>1, <1>2, <1>4 DEF OnlyWrittenKeys, Written, sourceVars, targetVars, setup, Live
<1>7. SourceHistory' /\ TargetIsOwn' /\ RevisionsAreUsed' /\ PinsAreChecked'
  BY <1>1, SourceStands, TargetStands, NothingInProgress DEF setup
<1>8. Converging'
  <2> SUFFICES ASSUME ~shared, Refusals = 0, NEW k \in settings.accepted
               PROVE  /\ QueueEndsInSource(k)'
                      /\ target[k].val = source[k].val \/ InQueue(k)'
    BY <1>1, <1>3 DEF Converging, setup, sourceVars, targetVars
  <2>1. QueueEndsInSource(k) /\ (target[k].val = source[k].val \/ InQueue(k))
    BY <1>1 DEF IInv, Converging
  <2>2. QED
    BY <1>1, <1>4, <2>1
<1>9. QED
  BY <1>3, <1>5, <1>6, <1>7, <1>8 DEF IInv

LEMMA TargetWritten ==
  ASSUME IInv, NEW k \in Keys, NEW v \in Value \cup {None}, TargetWrites(k, v)
  PROVE  /\ target' \in [Keys -> Entry(Value)] /\ targetSeq' \in Nat
         /\ targetSeq' = targetSeq + 1
         /\ target'[k].val = v /\ target'[k].rev = targetSeq + 1
         /\ \A l \in Keys : l # k => target'[l] = target[l]
         /\ RevisionsAreUsed'
<1> DEFINE e == [val |-> v, rev |-> targetSeq']
<1>1. TypeOK /\ RevisionsAreUsed
  BY DEF IInv
<1>2. target \in [Keys -> Entry(Value)] /\ targetSeq \in Nat
      /\ \A l \in Keys : target[l].rev \in Nat
  BY <1>1, Types
<1>3. targetSeq' = targetSeq + 1 /\ target' = [target EXCEPT ![k] = e]
  BY DEF TargetWrites, Stored
<1>4. e \in Entry(Value) /\ e.val = v /\ e.rev = targetSeq + 1
  BY <1>2, <1>3 DEF Entry
<1> HIDE DEF e
<1>5. /\ target' \in [Keys -> Entry(Value)] /\ target'[k] = e
      /\ \A l \in Keys : l # k => target'[l] = target[l]
  BY <1>2, <1>3, <1>4
<1>6. RevisionsAreUsed'
  <2> SUFFICES ASSUME NEW l \in Keys
               PROVE  target'[l].rev <= targetSeq' /\ (target'[l].val # None => target'[l].rev # 0)
    BY DEF RevisionsAreUsed, Live
  <2>1. CASE l = k
    BY <1>2, <1>3, <1>4, <1>5, <2>1
  <2>2. CASE l # k
    <3>1. target[l].rev <= targetSeq /\ (target[l].val # None => target[l].rev # 0)
      BY <1>1 DEF RevisionsAreUsed, Live
    <3>2. QED
      BY <1>2, <1>3, <1>5, <2>2, <3>1
  <2>3. QED
    BY <2>1, <2>2
<1>7. QED
  BY <1>2, <1>3, <1>4, <1>5, <1>6

LEMMA DeletePreserves ==
  ASSUME IInv, UNCHANGED setup, TakeDelete
  PROVE  IInv'
<1> DEFINE k == Head(queue).key
<1>1. /\ UNCHANGED <<sourceVars, phase, todo, snap, work, quietSince, restarts>>
      /\ work = NoWork /\ phase = "tail" /\ taken' = taken + 1
      /\ queue # <<>> /\ queue' = Tail(queue) /\ Head(queue).val = None
      /\ metrics' = [metrics EXCEPT !["events_applied_delete"] = @ + 1]
      /\ \/ TargetWrites(k, None)
         \/ target[k].val = None /\ UNCHANGED targetVars
  BY DEF TakeDelete, NextEvent, Take, Count, Live
<1>2. TypeOK /\ OnlyWrittenKeys
  BY DEF IInv
<1>3. /\ EveryEventCounted' /\ metrics' \in [Counters -> Nat] /\ taken' \in Nat
      /\ Refusals' = 0 => Refusals = 0
  <2>1. "events_applied_delete" \in EventCounters
    BY DEF EventCounters
  <2>2. QED
    BY <1>1, <2>1, EventSettled
<1>4. /\ queue' \in Seq(Event) /\ \A i \in 1..Len(queue') : Written(queue'[i].key)
      /\ k \in Keys
      /\ \A l : QueueEndsInSource(l) =>
           /\ QueueEndsInSource(l)'
           /\ k = l => None = source[l].val \/ InQueue(l)'
           /\ k # l /\ InQueue(l) => InQueue(l)'
  BY <1>1, EventTaken
<1> HIDE DEF k
<1>5. /\ target' \in [Keys -> Entry(Value)] /\ targetSeq' \in Nat /\ RevisionsAreUsed'
      /\ target'[k].val = None
      /\ \A l \in Keys : l # k => target'[l] = target[l]
  <2>1. CASE TargetWrites(k, None)
    BY <1>4, <2>1, TargetWritten
  <2>2. CASE target[k].val = None /\ UNCHANGED targetVars
    BY <1>2, <2>2, Types DEF IInv, RevisionsAreUsed, targetVars, Live
  <2>3. QED
    BY <1>1, <2>1, <2>2
<1>6. TypeOK'
  BY <1>1, <1>2, <1>3, <1>4, <1>5 DEF TypeOK, setup, sourceVars, Event
<1>7. OnlyWrittenKeys'
  <2>1. \A l \in Keys : Live(target, l)' => Live(target, l)
    BY <1>5 DEF Live
  <2>2. QED
    BY <1>1, <1>2, <1>4, <2>1 DEF OnlyWrittenKeys, Written, sourceVars, setup
<1>8. TargetIsOwn'
  <2>1. \A l \in Keys : target'[l].val \in {None, target[l].val}
    BY <1>5
  <2>2. QED
    BY <1>1, <2>1, BytesDecodeOneWay DEF IInv, TargetIsOwn, setup, Value
<1>9. SourceHistory' /\ PinsAreChecked'
  BY <1>1, SourceStands, NothingInProgress
<1>10. Converging'
  <2> SUFFICES ASSUME ~shared, Refusals = 0, NEW l \in settings.accepted
               PROVE  /\ QueueEndsInSource(l)'
                      /\ target'[l].val = source[l].val \/ InQueue(l)'
    BY <1>1, <1>3 DEF Converging, setup, sourceVars
  <2>1. QueueEndsInSource(l) /\ (target[l].val = source[l].val \/ InQueue(l)) /\ l \in Keys
    BY <1>1, <1>2, Types DEF IInv, Converging
  <2>2. QED
    BY <1>4, <1>5, <2>1
<1>11. QED
  BY <1>3, <1>5, <1>6, <1>7, <1>8, <1>9, <1>10 DEF IInv

(* A copy begins with the pin of the entry it read, or where no other      *)
(* revocation stood.                                                       *)
LEMMA TakePutPreserves ==
  ASSUME IInv, UNCHANGED setup, TakePut
  PROVE  IInv'
<1> DEFINE k == Head(queue).key
           r == Head(queue).val
           v == target[k].val
           w(step, pin) == [step |-> step, boot |-> FALSE, key |-> k, rec |-> r, pin |-> pin]
<1>1. /\ UNCHANGED <<sourceVars, targetVars, todo, snap, quietSince, restarts>>
      /\ work = NoWork /\ phase = "tail" /\ taken' = taken + 1
      /\ queue # <<>> /\ r \in Record
  BY DEF TakePut, NextEvent, Take
<1>2. \/ /\ v = Poison /\ settings.haltOnEnvelopeError
         /\ metrics' = [metrics EXCEPT !["envelope_errors"] = @ + 2]
         /\ phase' = "halted" /\ queue' = <<>> /\ work' = NoWork
      \/ /\ v = Poison
         /\ metrics' = [metrics EXCEPT !["envelope_errors"] = @ + 1]
         /\ phase' = phase /\ queue' = Tail(queue) /\ work' = NoWork
      \/ /\ metrics' = [metrics EXCEPT !["revocation_breaches"] = @ + 1]
         /\ phase' \in {"halted", phase} /\ queue' = Tail(queue) /\ work' = NoWork
      \/ /\ \/ work' = w("put", target[k].rev) /\ v = None
            \/ work' = w("gate", target[k].rev) /\ v # None
            \/ work' = w("put", 0) /\ ~Breaches(v, r)
         /\ metrics' = metrics /\ phase' = phase /\ queue' = Tail(queue)
  <2>1. v = Poison \/ (v # Poison /\ settings.casPin)
        \/ (v # Poison /\ ~settings.casPin /\ Breaches(v, r))
        \/ (v # Poison /\ ~settings.casPin /\ ~Breaches(v, r))
    OBVIOUS
  <2>2. CASE v = Poison
    BY <2>2 DEF TakePut, TargetPoisoned, Count, Leave
  <2>3. CASE v # Poison /\ settings.casPin
    BY <2>3 DEF TakePut
  <2>4. CASE v # Poison /\ ~settings.casPin /\ Breaches(v, r)
    BY <2>4 DEF TakePut, Refused, Count
  <2>5. CASE v # Poison /\ ~settings.casPin /\ ~Breaches(v, r)
    BY <2>5 DEF TakePut
  <2>6. QED
    BY <2>1, <2>2, <2>3, <2>4, <2>5
<1>3. TypeOK /\ OnlyWrittenKeys /\ RevisionsAreUsed
  BY DEF IInv
<1>4. /\ k \in Keys /\ Written(k)
      /\ queue' = Tail(queue) =>
           /\ queue' \in Seq(Event) /\ \A i \in 1..Len(queue') : Written(queue'[i].key)
           /\ \A l : QueueEndsInSource(l) =>
                /\ QueueEndsInSource(l)'
                /\ k = l => r = source[l].val \/ InQueue(l)'
                /\ k # l /\ InQueue(l) => InQueue(l)'
  <2>1. /\ 1 \in 1..Len(queue) /\ Head(queue) = queue[1]
    BY <1>1, <1>3, Types, HeadAndTail
  <2>2. k \in Keys /\ Written(k)
    BY <1>3, <2>1, Types DEF OnlyWrittenKeys
  <2>3. QED
    BY <1>1, <2>2, EventTaken
<1>5. /\ queue' \in Seq(Event) /\ \A i \in 1..Len(queue') : Written(queue'[i].key)
  <2>1. CASE queue' = <<>>
    BY <2>1, QueueDropped
  <2>2. QED
    BY <1>2, <1>4, <2>1
<1>6. v = Poison => shared
  BY <1>4 DEF IInv, TargetIsOwn
<1>7. target[k].rev \in Nat /\ targetSeq \in Nat /\ target[k].rev <= targetSeq
      /\ (v # None => target[k].rev # 0)
  BY <1>3, <1>4, Types DEF RevisionsAreUsed, Live
<1>8. ASSUME work' # NoWork
      PROVE  /\ work' \in Work /\ ~work'.boot /\ work'.key = k /\ work'.rec = r
             /\ \/ work'.step = "put" /\ ~Breaches(v, r)
                \/ work'.step = "gate" /\ v # None /\ work'.pin = target[k].rev
  <2>1. \A pin \in Nat, step \in {"put", "gate"} :
          /\ w(step, pin) \in Work /\ w(step, pin).boot = FALSE /\ w(step, pin).key = k
          /\ w(step, pin).rec = r /\ w(step, pin).pin = pin /\ w(step, pin).step = step
    BY <1>1, <1>4 DEF Work
  <2>2. v = None => ~Breaches(v, r)
    BY BytesDecodeOneWay DEF Breaches, Revoked, Value
  <2> HIDE DEF w, k, r, v
  <2>3. QED
    BY <1>2, <1>7, <1>8, <2>1, <2>2
<1>9. metrics' = metrics <=> work' # NoWork
  <2>1. metrics \in [Counters -> Nat] /\ "envelope_errors" \in Counters
        /\ "revocation_breaches" \in Counters
    BY <1>3, Types DEF Counters
  <2>2. ASSUME NEW n \in {1, 2}, NEW m \in Counters, metrics' = [metrics EXCEPT ![m] = @ + n]
        PROVE  metrics' # metrics
    <3>1. metrics'[m] = metrics[m] + n /\ metrics[m] \in Nat
      BY <2>1, <2>2
    <3>2. QED
      BY <3>1
  <2>3. \A pin : w("put", pin) # NoWork /\ w("gate", pin) # NoWork
    BY NoWorkHasNoStep
  <2> HIDE DEF w
  <2>4. QED
    BY <1>2, <2>1, <2>2, <2>3
<1>10. /\ EveryEventCounted' /\ metrics' \in [Counters -> Nat] /\ taken' \in Nat
       /\ Refusals' = 0 => Refusals = 0
       /\ work' # NoWork \/ Refusals' # 0 \/ shared
  <2>1. CASE v = Poison /\ settings.haltOnEnvelopeError /\ metrics' = [metrics EXCEPT !["envelope_errors"] = @ + 2]
    <3>1. "envelope_errors" \in Counters /\ 2 \in Nat /\ metrics \in [Counters -> Nat] /\ taken' \in Nat
      <4>1. "envelope_errors" \in Counters
        BY DEF Counters
      <4>2. metrics \in [Counters -> Nat] /\ taken \in Nat
        BY <1>3, Types
      <4>3. QED
        BY <1>1, <4>1, <4>2
    <3>2. /\ metrics' \in [Counters -> Nat] /\ Refusals \in Nat
          /\ Refusals' = Refusals + (IF "envelope_errors" \in RefusalCounters THEN 2 ELSE 0)
      BY <2>1, <3>1, CountersAdd
    <3>3. QED
      BY <1>6, <2>1, <3>1, <3>2 DEF EveryEventCounted, setup
  <2>2. CASE v = Poison /\ work' = NoWork /\ metrics' = [metrics EXCEPT !["envelope_errors"] = @ + 1]
    <3>1. "envelope_errors" \in EventCounters
      BY DEF EventCounters
    <3>2. QED
      BY <1>1, <1>6, <2>2, <3>1, EventSettled
  <2>3. CASE work' = NoWork /\ metrics' = [metrics EXCEPT !["revocation_breaches"] = @ + 1]
    <3>1. "revocation_breaches" \in EventCounters /\ "revocation_breaches" \in RefusalCounters
      BY DEF EventCounters, RefusalCounters
    <3>2. QED
      BY <1>1, <2>3, <3>1, EventSettled
  <2>4. CASE metrics' = metrics
    <3>1. Outcomes' = Outcomes /\ Refusals' = Refusals /\ work' # NoWork /\ ~work'.boot
      BY <1>8, <1>9, <2>4 DEF Outcomes, Refusals
    <3>2. Outcomes \in Nat /\ taken \in Nat
      <4>1. metrics \in [Counters -> Nat] /\ taken \in Nat
        BY <1>3, Types
      <4>2. \A c \in Counters : metrics[c] \in Nat
        BY <4>1
      <4>3. QED
        BY <4>1, <4>2 DEF Outcomes, Counters
    <3>3. EveryEventCounted'
      <4>1. SUFFICES ASSUME ~(shared /\ settings.haltOnEnvelopeError) PROVE taken' = Outcomes' + 1
        BY <3>1 DEF EveryEventCounted, setup
      <4>2. taken = Outcomes + 0
        BY <1>1, <4>1 DEF IInv, EveryEventCounted
      <4>3. QED
        BY <1>1, <3>1, <3>2, <4>2
    <3>4. QED
      BY <1>1, <1>3, <2>4, <3>1, <3>2, <3>3, Types
  <2>5. QED
    BY <1>2, <2>1, <2>2, <2>3, <2>4
<1>11. phase' \in {phase, "halted"} /\ (work' # NoWork => phase' = "tail" /\ queue' = Tail(queue))
  BY <1>1, <1>2, <1>9
<1> HIDE DEF k, r, v, w
<1>12. TypeOK'
  <2>1. phase' \in {"down", "listed", "tail", "halted", "ended"}
    BY <1>1, <1>11
  <2>2. metrics' \in [Counters -> Nat] /\ taken' \in Nat
    BY <1>10
  <2>3. work' \in Work \cup {NoWork}
    BY <1>8
  <2>4. QED
    BY <1>1, <1>3, <1>5, <2>1, <2>2, <2>3 DEF TypeOK, setup, sourceVars, targetVars, Event
<1>13. OnlyWrittenKeys'
  BY <1>1, <1>3, <1>4, <1>5, <1>8 DEF OnlyWrittenKeys, Written, sourceVars, targetVars, setup, Live
<1>14. SourceHistory' /\ TargetIsOwn' /\ RevisionsAreUsed'
  BY <1>1, SourceStands, TargetStands DEF setup
<1>15. PinsAreChecked'
  <2>1. target' = target /\ targetSeq' = targetSeq /\ v = target[k].val
    BY <1>1 DEF targetVars, v
  <2>2. CASE work' = NoWork
    BY <2>2, NothingInProgress
  <2>3. CASE work'.step = "put" /\ work' # NoWork
    BY <1>8, <2>1, <2>3 DEF PinsAreChecked, Breaches, Revoked
  <2>4. CASE work'.step = "gate" /\ work' # NoWork
    BY <1>7, <1>8, <2>1, <2>4 DEF PinsAreChecked
  <2>5. QED
    BY <1>8, <2>2, <2>3, <2>4
<1>16. Converging'
  <2> SUFFICES ASSUME ~shared, phase' = "tail", Refusals' = 0, NEW l \in settings.accepted
               PROVE  /\ QueueEndsInSource(l)'
                      /\ work' # NoWork /\ work'.key = l => work'.rec = source[l].val \/ InQueue(l)'
                      /\ \/ target[l].val = source[l].val
                         \/ InQueue(l)'
                         \/ work' # NoWork /\ work'.key = l
    BY <1>1 DEF Converging, setup, sourceVars, targetVars
  <2>1. QueueEndsInSource(l) /\ (target[l].val = source[l].val \/ InQueue(l))
    BY <1>1, <1>10 DEF IInv, Converging
  <2>2. work' # NoWork /\ work'.key = k /\ work'.rec = r /\ queue' = Tail(queue)
    BY <1>8, <1>10, <1>11
  <2>3. QED
    BY <1>4, <2>1, <2>2
<1>17. EveryEventCounted'
  BY <1>10
<1>18. QED
  BY <1>12, <1>13, <1>14, <1>15, <1>16, <1>17 DEF IInv
-----------------------------------------------------------------------------
(* The write in progress.                                                  *)

(* The gate lets it through: the entry it read, if it still stands, holds  *)
(* no other revocation.                                                    *)
LEMMA GatePreserves ==
  ASSUME IInv, UNCHANGED setup, Gate
  PROVE  IInv'
<1> DEFINE k == work.key
           v == target[k].val
           w == [work EXCEPT !.step = "update"]
<1>1. /\ UNCHANGED <<sourceVars, targetVars, todo, snap, history>> /\ work.step = "gate"
      /\ phase' \in {phase, "halted"}
      /\ \/ /\ v = Poison /\ settings.haltOnEnvelopeError
            /\ metrics' = [metrics EXCEPT !["envelope_errors"] = @ + 2]
            /\ queue' = <<>> /\ work' = NoWork
         \/ /\ v = Poison /\ metrics' = [metrics EXCEPT !["envelope_errors"] = @ + 1]
            /\ queue' = queue /\ work' = NoWork
         \/ /\ metrics' = [metrics EXCEPT !["revocation_breaches"] = @ + 1]
            /\ queue' = queue /\ work' = NoWork
         \/ /\ work' = w /\ ~Breaches(v, work.rec)
            /\ metrics' = metrics /\ phase' = phase /\ queue' = queue
  BY DEF Gate, TargetPoisoned, Refused, Count, Leave
<1>2. TypeOK /\ OnlyWrittenKeys /\ PinsAreChecked /\ work # NoWork
  BY <1>1, WorkIsThere DEF IInv
<1>3. /\ k \in Keys /\ Written(k) /\ work \in Work /\ ~work.boot
      /\ work.pin # 0 /\ work.pin <= targetSeq
      /\ ~shared => v # None /\ target[k].rev = work.pin
  BY <1>1, <1>2, Types DEF OnlyWrittenKeys, PinsAreChecked
<1>4. /\ w \in Work /\ w.step = "update" /\ w.boot = work.boot /\ w.key = k
      /\ w.rec = work.rec /\ w.pin = work.pin
  BY <1>3 DEF Work
<1>5. v = Poison => shared
  BY <1>3 DEF IInv, TargetIsOwn
<1>6. /\ queue' \in Seq(Event) /\ \A i \in 1..Len(queue') : Written(queue'[i].key)
  <2>1. CASE queue' = <<>>
    BY <2>1, QueueDropped
  <2>2. CASE queue' = queue
    BY <1>2, <2>2, Types DEF OnlyWrittenKeys
  <2>3. QED
    BY <1>1, <2>1, <2>2
<1> HIDE DEF v, w
<1>7. /\ EveryEventCounted' /\ metrics' \in [Counters -> Nat]
      /\ shared \/ Refusals' # 0 \/ (work' = w /\ Refusals' = Refusals /\ queue' = queue /\ phase' = phase)
      /\ work' \in {NoWork, w} /\ (work' = w => ~Breaches(v, work.rec))
  <2>0. taken' = taken
    BY <1>1 DEF history
  <2>1. CASE v = Poison /\ settings.haltOnEnvelopeError /\ work' = NoWork
             /\ metrics' = [metrics EXCEPT !["envelope_errors"] = @ + 2]
    <3>1. "envelope_errors" \in Counters /\ 2 \in Nat /\ metrics \in [Counters -> Nat]
      BY <1>2, Types DEF Counters
    <3>2. metrics' \in [Counters -> Nat]
      BY <2>1, <3>1, CountersAdd
    <3>3. w # NoWork
      BY <1>4, NoWorkHasNoStep
    <3>4. QED
      BY <1>5, <2>1, <3>2, <3>3 DEF EveryEventCounted, setup
  <2>2. CASE v = Poison /\ work' = NoWork /\ metrics' = [metrics EXCEPT !["envelope_errors"] = @ + 1]
    <3>1. "envelope_errors" \in EventCounters
      BY DEF EventCounters
    <3>2. EveryEventCounted' /\ metrics' \in [Counters -> Nat]
      BY <1>2, <1>3, <2>0, <2>2, <3>1, EventSettled
    <3>3. w # NoWork
      BY <1>4, NoWorkHasNoStep
    <3>4. QED
      BY <1>5, <2>2, <3>2, <3>3
  <2>3. CASE work' = NoWork /\ metrics' = [metrics EXCEPT !["revocation_breaches"] = @ + 1]
    <3>1. "revocation_breaches" \in EventCounters /\ "revocation_breaches" \in RefusalCounters
      BY DEF EventCounters, RefusalCounters
    <3>2. EveryEventCounted' /\ metrics' \in [Counters -> Nat] /\ Refusals' # 0
      BY <1>2, <1>3, <2>0, <2>3, <3>1, EventSettled
    <3>3. w # NoWork
      BY <1>4, NoWorkHasNoStep
    <3>4. QED
      BY <2>3, <3>2, <3>3
  <2>4. CASE /\ work' = w /\ ~Breaches(v, work.rec)
             /\ metrics' = metrics /\ phase' = phase /\ queue' = queue
    <3>1. work' # NoWork /\ (work'.boot <=> work.boot)
      BY <1>4, <2>4, NoWorkHasNoStep
    <3>2. EveryEventCounted'
      BY <1>2, <2>0, <2>4, <3>1, NothingCounted
    <3>3. QED
      BY <1>2, <2>4, <3>2, Types DEF Refusals
  <2>5. QED
    BY <1>1, <2>1, <2>2, <2>3, <2>4 DEF v, w
<1>8. TypeOK'
  <2>1. phase' \in {"down", "listed", "tail", "halted", "ended"}
    BY <1>1, <1>2 DEF TypeOK
  <2>2. work' \in Work \cup {NoWork} /\ metrics' \in [Counters -> Nat]
    BY <1>4, <1>7
  <2>3. QED
    BY <1>1, <1>2, <1>6, <2>1, <2>2 DEF TypeOK, setup, sourceVars, targetVars, history, Event
<1>9. OnlyWrittenKeys'
  BY <1>1, <1>2, <1>3, <1>4, <1>6, <1>7 DEF OnlyWrittenKeys, Written, sourceVars, targetVars, setup, Live
<1>10. SourceHistory' /\ TargetIsOwn' /\ RevisionsAreUsed'
  BY <1>1, SourceStands, TargetStands DEF setup
<1>11. PinsAreChecked'
  <2>1. target' = target /\ targetSeq' = targetSeq /\ shared' = shared /\ v = target[k].val
    BY <1>1 DEF targetVars, setup, v
  <2>2. CASE work' = NoWork
    BY <2>2, NothingInProgress
  <2>3. CASE work' = w
    BY <1>3, <1>4, <1>7, <2>1, <2>3 DEF PinsAreChecked, Breaches, Revoked
  <2>4. QED
    BY <1>7, <2>2, <2>3
<1>12. Converging'
  <2>1. ASSUME ~shared, phase' = "tail", Refusals' = 0
        PROVE  /\ work' # NoWork /\ work'.key = work.key /\ work'.rec = work.rec
               /\ queue' = queue /\ phase = "tail" /\ Refusals = 0
    BY <1>4, <1>7, <2>1, NoWorkHasNoStep
  <2>2. QED
    BY <1>1, <1>2, <2>1 DEF IInv, Converging, QueueEndsInSource, InQueue, setup, sourceVars, targetVars
<1>13. EveryEventCounted'
  BY <1>7
<1>14. QED
  BY <1>8, <1>9, <1>10, <1>11, <1>12, <1>13 DEF IInv

(* What it writes is what the source holds, or the queue still has more.   *)
LEMMA WritePreserves ==
  ASSUME IInv, UNCHANGED setup, CasUpdate \/ LwwPut
  PROVE  IInv'
<1> DEFINE k == work.key
           r == work.rec
           m == IF work.boot THEN "bootstrap_applied" ELSE "events_applied_put"
<1>1. /\ UNCHANGED <<sourceVars, phase, todo, snap, queue, history>>
      /\ work.step \in {"put", "update"} /\ TargetWrites(k, r) /\ work' = NoWork
      /\ metrics' = [metrics EXCEPT ![m] = @ + 1]
  <2>1. CASE LwwPut
    BY <2>1 DEF LwwPut, Count
  <2>2. CASE CasUpdate
    <3>1. work.step = "update" /\ work # NoWork
      BY <2>2, WorkIsThere DEF CasUpdate
    <3>2. ~work.boot
      BY <3>1 DEF IInv, PinsAreChecked
    <3>3. QED
      BY <2>2, <3>1, <3>2 DEF CasUpdate, Count
  <2>3. QED
    BY <2>1, <2>2
<1>2. TypeOK /\ OnlyWrittenKeys /\ work # NoWork
  BY <1>1, WorkIsThere DEF IInv
<1>3. k \in Keys /\ Written(k) /\ r \in Record /\ r \in Value \cup {None} /\ r # Poison
  BY <1>2, Types, BytesDecodeOneWay DEF OnlyWrittenKeys, Value
<1> HIDE DEF k, r
<1>4. /\ target' \in [Keys -> Entry(Value)] /\ targetSeq' \in Nat /\ RevisionsAreUsed'
      /\ target'[k].val = r /\ \A l \in Keys : l # k => target'[l] = target[l]
  BY <1>1, <1>3, TargetWritten
<1>5. metrics' \in [Counters -> Nat] /\ EveryEventCounted' /\ Refusals' = Refusals
  <2>0. m \in Counters /\ metrics \in [Counters -> Nat] /\ m \notin RefusalCounters
    BY <1>2, Types DEF Counters, RefusalCounters
  <2>1. taken' = taken
    BY <1>1 DEF history
  <2>2. /\ metrics' \in [Counters -> Nat] /\ Outcomes \in Nat /\ Refusals \in Nat
        /\ Outcomes' = Outcomes + (IF m \in EventCounters THEN 1 ELSE 0)
        /\ Refusals' = Refusals + (IF m \in RefusalCounters THEN 1 ELSE 0)
    <3> HIDE DEF m
    <3>1. 1 \in Nat
      OBVIOUS
    <3>2. QED
      BY <1>1, <2>0, <3>1, CountersAdd
  <2>3. EveryEventCounted'
    <3>1. CASE work.boot
      <4>1. m \notin EventCounters
        BY <3>1 DEF EventCounters
      <4>2. Outcomes' = Outcomes
        BY <2>2, <4>1
      <4>3. QED
        BY <1>1, <2>1, <3>1, <4>2 DEF IInv, EveryEventCounted, setup
    <3>2. CASE ~work.boot
      <4>1. "events_applied_put" \in EventCounters /\ m = "events_applied_put"
        BY <3>2 DEF EventCounters
      <4>2. QED
        BY <1>1, <1>2, <2>1, <3>2, <4>1, EventSettled
    <3>3. QED
      BY <3>1, <3>2
  <2>4. QED
    BY <2>0, <2>2, <2>3
<1>6. TypeOK'
  BY <1>1, <1>2, <1>4, <1>5 DEF TypeOK, setup, sourceVars, history
<1>7. OnlyWrittenKeys'
  <2>1. \A l \in Keys : Live(target, l)' => Live(target, l) \/ l = k
    BY <1>4 DEF Live
  <2>2. QED
    BY <1>1, <1>2, <1>3, <2>1 DEF OnlyWrittenKeys, Written, sourceVars, setup
<1>8. TargetIsOwn'
  BY <1>3, <1>4 DEF IInv, TargetIsOwn, setup
<1>9. SourceHistory' /\ PinsAreChecked'
  BY <1>1, SourceStands, NothingInProgress
<1>10. Converging'
  <2> SUFFICES ASSUME ~shared, phase = "tail", Refusals = 0, NEW l \in settings.accepted
               PROVE  /\ QueueEndsInSource(l)'
                      /\ target'[l].val = source[l].val \/ InQueue(l)'
    BY <1>1, <1>5 DEF Converging, setup, sourceVars
  <2>1. /\ QueueEndsInSource(l) /\ l \in Keys
        /\ k = l => r = source[l].val \/ InQueue(l)
        /\ target[l].val = source[l].val \/ InQueue(l) \/ k = l
    BY <1>2, Types DEF IInv, Converging, k, r
  <2>2. QueueEndsInSource(l)' /\ (InQueue(l)' <=> InQueue(l))
    BY <1>1, <2>1 DEF QueueEndsInSource, InQueue, sourceVars
  <2>3. QED
    BY <1>4, <2>1, <2>2
<1>11. EveryEventCounted'
  BY <1>5
<1>12. QED
  BY <1>4, <1>6, <1>7, <1>8, <1>9, <1>10, <1>11 DEF IInv

(* Only another writer can have moved the entry off the pin.               *)
LEMMA ConflictPreserves ==
  ASSUME IInv, UNCHANGED setup, CasConflict
  PROVE  IInv'
<1>1. /\ UNCHANGED <<sourceVars, targetVars, todo, snap, queue, history>> /\ work.step = "update"
      /\ LiveRevision(target, work.key) # work.pin /\ phase' \in {phase, "halted"} /\ work' = NoWork
      /\ metrics' = [metrics EXCEPT !["cas_conflicts"] = @ + 1]
  BY DEF CasConflict, Count
<1>2. TypeOK /\ OnlyWrittenKeys /\ work # NoWork
  BY <1>1, WorkIsThere DEF IInv
<1>3. ~work.boot /\ shared
  BY <1>1, <1>2 DEF IInv, PinsAreChecked, LiveRevision, Live
<1>4. EveryEventCounted' /\ metrics' \in [Counters -> Nat]
  <2>1. "cas_conflicts" \in EventCounters /\ taken' = taken
    BY <1>1 DEF EventCounters, history
  <2>2. QED
    BY <1>1, <1>2, <1>3, <2>1, EventSettled
<1>5. TypeOK'
  <2>1. phase' \in {"down", "listed", "tail", "halted", "ended"}
    BY <1>1, <1>2 DEF TypeOK
  <2>2. QED
    BY <1>1, <1>2, <1>4, <2>1 DEF TypeOK, setup, sourceVars, targetVars, history
<1>6. OnlyWrittenKeys'
  BY <1>1, <1>2 DEF OnlyWrittenKeys, Written, sourceVars, targetVars, setup, Live
<1>7. SourceHistory' /\ TargetIsOwn' /\ RevisionsAreUsed' /\ PinsAreChecked'
  BY <1>1, SourceStands, TargetStands, NothingInProgress DEF setup
<1>8. Converging'
  BY <1>3 DEF Converging, setup
<1>9. QED
  BY <1>4, <1>5, <1>6, <1>7, <1>8 DEF IInv
-----------------------------------------------------------------------------
(* The process and the other writers.                                      *)

LEMMA RestartPreserves ==
  ASSUME IInv, UNCHANGED setup, Restart
  PROVE  IInv'
<1>1. /\ UNCHANGED <<sourceVars, targetVars, quietSince>>
      /\ restarts < MaxRestarts /\ restarts' = restarts + 1
      /\ phase' = "down" /\ todo' = {} /\ snap' = <<>> /\ queue' = <<>>
      /\ work' = NoWork /\ metrics' = Zero /\ taken' = 0
  BY DEF Restart
<1>2. TypeOK /\ OnlyWrittenKeys
  BY DEF IInv
<1>3. /\ Len(snap') = 0 /\ Len(queue') = 0
      /\ snap' \in Seq(Snapshot) /\ queue' \in Seq(Event)
  BY <1>1
<1>4. metrics' \in [Counters -> Nat] /\ Outcomes' = 0
  BY <1>1 DEF Zero, Outcomes, Counters
<1>5. restarts' \in 0..MaxRestarts
  BY <1>1, <1>2, Bounds DEF TypeOK
<1>6. TypeOK'
  BY <1>1, <1>2, <1>3, <1>4, <1>5 DEF TypeOK, setup, sourceVars, targetVars, Snapshot, Event
<1>7. OnlyWrittenKeys'
  BY <1>1, <1>2, <1>3 DEF OnlyWrittenKeys, Written, sourceVars, targetVars, setup, Live
<1>8. SourceHistory' /\ TargetIsOwn' /\ RevisionsAreUsed' /\ PinsAreChecked' /\ Converging'
  BY <1>1, SourceStands, TargetStands, NothingInProgress, NotInTail DEF setup
<1>9. EveryEventCounted'
  BY <1>1, <1>4 DEF EveryEventCounted
<1>10. QED
  BY <1>6, <1>7, <1>8, <1>9 DEF IInv

(* An operation on the source joins the queue behind all others.           *)
LEMMA SourceWritesPreserves ==
  ASSUME IInv, UNCHANGED setup, NEW k \in Keys, NEW v \in Value \cup {None}, SourceWrites(k, v)
  PROVE  IInv'
<1> DEFINE e == [val |-> v, rev |-> sourceSeq + 1]
           new == [key |-> k, val |-> v]
<1>1. /\ UNCHANGED <<targetVars, phase, todo, snap, work, metrics, history>>
      /\ sourceSeq < MaxSource /\ sourceSeq' = sourceSeq + 1
      /\ source' = [source EXCEPT ![k] = e]
      /\ queue' = IF phase = "tail" THEN Append(queue, new) ELSE queue
  BY DEF SourceWrites, Stored
<1>2. TypeOK /\ OnlyWrittenKeys /\ SourceHistory
  BY DEF IInv
<1>3. /\ source \in [Keys -> Entry(Value)] /\ sourceSeq \in Nat
      /\ \A l \in Keys : source[l].rev \in Nat
      /\ sourceSeq' \in 0..MaxSource
  BY <1>1, <1>2, Types, Bounds
<1>4. e \in Entry(Value) /\ e.val = v /\ e.rev = sourceSeq + 1
  BY <1>3 DEF Entry
<1>5. new \in Event /\ new.key = k /\ new.val = v
  BY DEF Event
<1> HIDE DEF e, new
<1>6. /\ source' \in [Keys -> Entry(Value)] /\ source'[k] = e
      /\ \A l \in Keys : l # k => source'[l] = source[l]
  BY <1>1, <1>3, <1>4
<1>7. /\ \A l \in Keys : source[l].rev # 0 => source'[l].rev # 0
      /\ source'[k].rev # 0
  BY <1>3, <1>4, <1>6
<1>8. /\ queue' \in Seq(Event) /\ \A i \in 1..Len(queue) : queue'[i] = queue[i]
      /\ phase = "tail" => Len(queue') = Len(queue) + 1 /\ queue'[Len(queue) + 1] = new
      /\ phase # "tail" => Len(queue') = Len(queue)
      /\ Len(queue) \in Nat
  <2>1. queue \in Seq(Event) /\ Len(queue) \in Nat
    BY <1>2, Types
  <2>2. QED
    BY <1>1, <1>5, <2>1
<1>9. 1..Len(queue') = (1..Len(queue)) \cup (IF phase = "tail" THEN {Len(queue) + 1} ELSE {})
  BY <1>8
<1>10. TypeOK'
  BY <1>1, <1>2, <1>3, <1>6, <1>8 DEF TypeOK, setup, targetVars, history, Event
<1>11. SourceHistory'
  <2>1. ASSUME NEW l \in Keys
        PROVE  source'[l].rev <= sourceSeq' /\ (source'[l].val # None => source'[l].rev # 0)
    <3>1. source[l].rev <= sourceSeq /\ (source[l].val # None => source[l].rev # 0)
      BY <1>2 DEF SourceHistory, Live, Written
    <3>2. QED
      BY <1>1, <1>3, <1>4, <1>6, <3>1
  <2>2. ASSUME NEW l \in Keys, NEW o \in Keys, source'[l].rev = source'[o].rev, source'[l].rev # 0
        PROVE  l = o
    <3>1. source[l].rev <= sourceSeq /\ source[o].rev <= sourceSeq
          /\ (source[l].rev = source[o].rev /\ source[l].rev # 0 => l = o)
      BY <1>2 DEF SourceHistory, Written
    <3>2. source[l].rev # sourceSeq + 1 /\ source[o].rev # sourceSeq + 1
      BY <1>3, <3>1
    <3>3. QED
      BY <1>4, <1>6, <2>2, <3>1, <3>2
  <2>3. QED
    BY <2>1, <2>2 DEF SourceHistory, Live, Written
<1>12. OnlyWrittenKeys'
  <2>1. \A l \in todo : source'[l].rev # 0
    BY <1>2, <1>7, Types DEF OnlyWrittenKeys, Written
  <2>2. \A i \in 1..Len(snap) : source'[snap[i].key].rev # 0
    BY <1>2, <1>7, Types DEF OnlyWrittenKeys, Written
  <2>3. ASSUME NEW i \in 1..Len(queue') PROVE source'[queue'[i].key].rev # 0
    <3>1. CASE i \in 1..Len(queue)
      <4>1. queue'[i] = queue[i] /\ queue[i].key \in Keys /\ source[queue[i].key].rev # 0
        BY <1>2, <1>8, <3>1, Types DEF OnlyWrittenKeys, Written
      <4>2. QED
        BY <1>7, <4>1
    <3>2. CASE phase = "tail" /\ i = Len(queue) + 1
      BY <1>5, <1>7, <1>8, <3>2
    <3>3. QED
      BY <1>9, <3>1, <3>2
  <2>4. work # NoWork => source'[work.key].rev # 0
    BY <1>2, <1>7, Types DEF OnlyWrittenKeys, Written
  <2>5. ~shared => \A l \in Keys : Live(target, l) => source'[l].rev # 0
    BY <1>2, <1>7 DEF OnlyWrittenKeys, Written
  <2>6. QED
    BY <1>1, <2>1, <2>2, <2>3, <2>4, <2>5 DEF OnlyWrittenKeys, Written, Live, setup, targetVars
<1>13. TargetIsOwn' /\ RevisionsAreUsed' /\ EveryEventCounted'
  BY <1>1, TargetStands, NothingCounted DEF setup, history
<1>14. PinsAreChecked'
  BY <1>1 DEF IInv, PinsAreChecked, targetVars, setup
<1>15. Converging'
  <2> SUFFICES ASSUME ~shared, phase = "tail", Refusals = 0, NEW l \in settings.accepted
               PROVE  /\ QueueEndsInSource(l)'
                      /\ work # NoWork /\ work.key = l => work.rec = source'[l].val \/ InQueue(l)'
                      /\ \/ target[l].val = source'[l].val
                         \/ InQueue(l)'
                         \/ work # NoWork /\ work.key = l
    BY <1>1 DEF Converging, setup, targetVars, Refusals
  <2>1. /\ QueueEndsInSource(l) /\ l \in Keys
        /\ work # NoWork /\ work.key = l => work.rec = source[l].val \/ InQueue(l)
        /\ \/ target[l].val = source[l].val
           \/ InQueue(l)
           \/ work # NoWork /\ work.key = l
    BY <1>2, Types DEF IInv, Converging
  <2>2. \A i \in 1..Len(queue) : i \in 1..Len(queue') /\ i < Len(queue) + 1
    BY <1>8, <1>9
  <2>3. Len(queue) + 1 \in 1..Len(queue') /\ queue'[Len(queue) + 1].key = k
    BY <1>5, <1>8, <1>9
  <2>4. InQueue(l) => InQueue(l)'
    BY <1>8, <2>2 DEF InQueue
  <2>5. CASE l = k
    <3>1. InQueue(l)'
      BY <2>3, <2>5 DEF InQueue
    <3>2. ASSUME NEW i \in 1..Len(queue'), queue'[i].key = l
          PROVE  \/ queue'[i].val = source'[l].val
                 \/ \E j \in 1..Len(queue') : j > i /\ queue'[j].key = l
      <4>1. CASE i \in 1..Len(queue)
        <5>1. Len(queue) + 1 > i
          BY <1>8, <4>1
        <5>2. QED
          BY <2>3, <2>5, <5>1
      <4>2. CASE i = Len(queue) + 1
        BY <1>4, <1>5, <1>6, <1>8, <2>5, <4>2
      <4>3. QED
        BY <1>9, <4>1, <4>2
    <3>3. QED
      BY <3>1, <3>2 DEF QueueEndsInSource
  <2>6. CASE l # k
    <3>1. source'[l] = source[l]
      BY <1>6, <2>1, <2>6
    <3>2. ASSUME NEW i \in 1..Len(queue'), queue'[i].key = l
          PROVE  \/ queue'[i].val = source[l].val
                 \/ \E j \in 1..Len(queue') : j > i /\ queue'[j].key = l
      <4>1. i \in 1..Len(queue)
        BY <1>9, <2>3, <2>6, <3>2
      <4>2. \/ queue[i].val = source[l].val
            \/ \E j \in 1..Len(queue) : j > i /\ queue[j].key = l
        BY <1>8, <2>1, <3>2, <4>1 DEF QueueEndsInSource
      <4>3. QED
        BY <1>8, <2>2, <4>1, <4>2
    <3>3. QED
      BY <2>1, <2>4, <3>1, <3>2 DEF QueueEndsInSource
  <2>7. QED
    BY <2>5, <2>6
<1>16. QED
  BY <1>10, <1>11, <1>12, <1>13, <1>14, <1>15 DEF IInv

(* Another writer's entry has a revision that no pin has.                  *)
LEMMA OthersPreserve ==
  ASSUME IInv, UNCHANGED setup, NEW k \in Keys, NEW v \in Value \cup {None},
         shared, TargetWrites(k, v),
         UNCHANGED <<sourceVars, phase, todo, snap, queue, work, metrics, history>>
  PROVE  IInv'
<1>1. TypeOK /\ OnlyWrittenKeys /\ shared' = shared
  BY DEF IInv, setup
<1>2. /\ target' \in [Keys -> Entry(Value)] /\ targetSeq' \in Nat /\ RevisionsAreUsed'
      /\ targetSeq' = targetSeq + 1 /\ target'[k].rev = targetSeq + 1
      /\ \A l \in Keys : l # k => target'[l] = target[l]
  BY TargetWritten
<1>3. TypeOK'
  BY <1>1, <1>2 DEF TypeOK, setup, sourceVars, history
<1>4. OnlyWrittenKeys'
  BY <1>1 DEF OnlyWrittenKeys, Written, sourceVars
<1>5. SourceHistory' /\ TargetIsOwn' /\ Converging' /\ EveryEventCounted'
  BY <1>1, SourceStands, NothingCounted DEF history, TargetIsOwn, Converging
<1>6. PinsAreChecked'
  <2> SUFFICES ASSUME work # NoWork, work.step \in {"gate", "update"}
               PROVE  /\ ~work.boot /\ work.pin # 0 /\ work.pin <= targetSeq'
                      /\ work.step = "update" /\ target'[work.key].rev = work.pin
                           => ~Breaches(target'[work.key].val, work.rec)
    BY <1>1 DEF PinsAreChecked, Breaches, Revoked
  <2>1. /\ ~work.boot /\ work.pin # 0 /\ work.pin <= targetSeq
        /\ work.step = "update" /\ target[work.key].rev = work.pin
             => ~Breaches(target[work.key].val, work.rec)
    BY DEF IInv, PinsAreChecked
  <2>2. work.pin \in Nat /\ targetSeq \in Nat /\ work.key \in Keys
    BY <1>1, Types
  <2>3. work.pin <= targetSeq' /\ work.pin # targetSeq + 1
    BY <1>2, <2>1, <2>2
  <2>4. work.key # k => target'[work.key] = target[work.key]
    BY <1>2, <2>2
  <2>5. work.key = k => target'[work.key].rev # work.pin
    BY <1>2, <2>3
  <2>6. QED
    BY <2>1, <2>3, <2>4, <2>5
<1>7. QED
  BY <1>2, <1>3, <1>4, <1>5, <1>6 DEF IInv
-----------------------------------------------------------------------------
(* The theorems.                                                           *)

(* IInv holds of every state that is reached.                              *)
THEOREM Inductive == Spec => []IInv
<1>1. Init => IInv
  BY InitHolds
<1>2. IInv /\ [Next]_vars => IInv'
  <2> SUFFICES ASSUME IInv, [Next]_vars PROVE IInv'
    OBVIOUS
  <2>1. CASE Replicator
    <3>1. UNCHANGED setup
      BY <2>1 DEF Replicator
    <3>2. CASE ListSource \/ SkipBootstrap
      BY <3>1, <3>2, ListingPreserves
    <3>3. CASE FetchRecord
      BY <3>1, <3>3, FetchPreserves
    <3>4. CASE SeedNext
      BY <3>1, <3>4, SeedPreserves
    <3>5. CASE OpenWatch
      BY <3>1, <3>5, OpenWatchPreserves
    <3>6. CASE TakePoison
      BY <3>1, <3>6, PoisonPreserves
    <3>7. CASE TakeFiltered
      BY <3>1, <3>7, FilteredPreserves
    <3>8. CASE TakeDelete
      BY <3>1, <3>8, DeletePreserves
    <3>9. CASE TakePut
      BY <3>1, <3>9, TakePutPreserves
    <3>10. CASE Gate
      BY <3>1, <3>10, GatePreserves
    <3>11. CASE CasUpdate \/ LwwPut
      BY <3>1, <3>11, WritePreserves
    <3>12. CASE CasConflict
      BY <3>1, <3>12, ConflictPreserves
    <3>13. QED
      BY <2>1, <3>2, <3>3, <3>4, <3>5, <3>6, <3>7, <3>8, <3>9, <3>10, <3>11, <3>12 DEF Replicator
  <2>2. CASE Others
    <3>1. UNCHANGED setup /\ settings.accepted \subseteq Keys
      BY <2>2, Types DEF Others, IInv
    <3>2. CASE \E k \in Keys, v \in Value \cup {None} : SourceWrites(k, v)
      BY <3>1, <3>2, SourceWritesPreserves
    <3>3. CASE Restart
      BY <3>1, <3>3, RestartPreserves
    <3>4. ASSUME NEW k \in settings.accepted, NEW t \in Instants, TargetRevoke(k, t) PROVE IInv'
      <4> DEFINE v == [target[k].val EXCEPT !.revoked = t]
      <4>1. target[k].val \in Record
        BY <3>4 DEF TargetRevoke
      <4>2. v \in Value \cup {None}
        BY <4>1 DEF Value, Record
      <4>3. /\ shared /\ TargetWrites(k, v)
            /\ UNCHANGED <<sourceVars, phase, todo, snap, queue, work, metrics, history>>
        BY <3>4 DEF TargetRevoke
      <4> HIDE DEF v
      <4>4. QED
        BY <3>1, <4>2, <4>3, OthersPreserve
    <3>5. ASSUME NEW k \in settings.accepted, NEW v \in Value, TargetPut(k, v) PROVE IInv'
      BY <3>1, <3>5, OthersPreserve DEF TargetPut
    <3>6. QED
      BY <2>2, <3>2, <3>3, <3>4, <3>5 DEF Others
  <2>3. CASE UNCHANGED vars
    <3>1. /\ UNCHANGED <<setup, sourceVars, targetVars, phase, todo, snap, queue, work, metrics, history>>
      BY <2>3 DEF vars
    <3>2. SourceHistory' /\ TargetIsOwn' /\ RevisionsAreUsed' /\ EveryEventCounted'
      BY <3>1, SourceStands, TargetStands, NothingCounted DEF setup, history
    <3>3. TypeOK'
      BY <3>1 DEF IInv, TypeOK, setup, sourceVars, targetVars, history
    <3>4. OnlyWrittenKeys' /\ PinsAreChecked'
      BY <3>1 DEF IInv, OnlyWrittenKeys, PinsAreChecked, Written, Live, setup, sourceVars, targetVars
    <3>5. Converging'
      BY <3>1 DEF IInv, Converging, QueueEndsInSource, InQueue, Refusals, setup, sourceVars, targetVars
    <3>6. QED
      BY <3>2, <3>3, <3>4, <3>5 DEF IInv
  <2>4. QED
    BY <2>1, <2>2, <2>3 DEF Next
<1>3. QED
  BY <1>1, <1>2, PTL DEF Spec

(* Every variable of the replicator, the buckets and the stream keeps its  *)
(* type.                                                                   *)
THEOREM TypeCorrect == Spec => []TypeOK
<1>1. IInv => TypeOK
  BY DEF IInv
<1>2. QED
  BY <1>1, Inductive, PTL

(* Every event _consume_event takes is counted once, whatever the policy,  *)
(* the filter and a poisoned target did with it, but for a shared target   *)
(* with haltOnEnvelopeError, where an error may be counted twice.          *)
THEOREM EventsAreCounted == Spec => []EveryEventCounted
<1>1. IInv => EveryEventCounted
  BY DEF IInv
<1>2. QED
  BY <1>1, Inductive, PTL

(* Caught up and without a counted refusal, a target no one else writes    *)
(* holds what the source holds: bootstrap, replay and tail drop nothing,   *)
(* over crashes and restarts at any point.                                 *)
THEOREM DivergenceIsCounted == Spec => []NoSilentDivergence
<1>1. IInv => NoSilentDivergence
  <2> SUFFICES ASSUME IInv, ~shared, phase = "tail", queue = <<>>, work = NoWork, Refusals = 0,
                      NEW k \in settings.accepted
               PROVE  target[k].val = source[k].val
    BY DEF NoSilentDivergence
  <2>1. Len(queue) = 0
    OBVIOUS
  <2>2. ~InQueue(k)
    BY <2>1 DEF InQueue
  <2>3. QED
    BY <2>2 DEF IInv, Converging
<1>2. QED
  BY <1>1, Inductive, PTL

(* No write of the replicator takes a revocation off the target or moves   *)
(* it: none at all on a target of its own, and on a shared one no update   *)
(* with a pin, whatever operators did between the check and the write.     *)
THEOREM RevocationsStay == Spec => RevocationNeverOverwritten
<1> DEFINE Keeps == (LwwPut /\ ~shared) \/ CasUpdate =>
              LET k == work.key IN
                Revoked(target[k].val) => target'[k].val.revoked = target[k].val.revoked
<1>1. IInv /\ [Next]_vars => [Keeps]_vars
  <2> SUFFICES ASSUME IInv, (LwwPut /\ ~shared) \/ CasUpdate, Revoked(target[work.key].val)
               PROVE  target'[work.key].val.revoked = target[work.key].val.revoked
    OBVIOUS
  <2>1. TypeOK /\ work.step \in {"put", "update"} /\ TargetWrites(work.key, work.rec)
    BY DEF IInv, LwwPut, CasUpdate
  <2>2. work # NoWork
    BY <2>1, WorkIsThere
  <2>3. work.key \in Keys /\ work.rec \in Value \cup {None}
    BY <2>1, <2>2, Types DEF Value
  <2>4. target'[work.key].val = work.rec
    BY <2>1, <2>3, TargetWritten
  <2>5. ~Breaches(target[work.key].val, work.rec)
    <3>1. CASE LwwPut /\ ~shared
      BY <2>2, <3>1 DEF IInv, PinsAreChecked, LwwPut
    <3>2. CASE CasUpdate
      <4>1. work.step = "update" /\ work.pin # 0 /\ LiveRevision(target, work.key) = work.pin
        BY <2>2, <3>2 DEF IInv, PinsAreChecked, CasUpdate
      <4>2. target[work.key].rev = work.pin
        BY <4>1 DEF LiveRevision
      <4>3. QED
        BY <2>2, <4>1, <4>2 DEF IInv, PinsAreChecked
    <3>3. QED
      BY <3>1, <3>2
  <2>6. QED
    BY <2>4, <2>5 DEF Breaches
<1>2. QED
  BY <1>1, Inductive, PTL DEF Spec, RevocationNeverOverwritten
=============================================================================

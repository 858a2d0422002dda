-------------------------- MODULE SchemaReplication --------------------------
(***************************************************************************)
(* SchemaReplicator: one run copies a snapshot of the source bucket to the *)
(* target and then applies the source's watch stream, under SOURCE_WINS (a *)
(* put without a look at the target) or CAS_PIN (a read, then an update    *)
(* pinned to the revision read).  Unlike the capability-policy replicator  *)
(* it knows nothing of revocations, its snapshot fetches keys in the order *)
(* the server lists them, and its tail does not read before a put.         *)
(*                                                                         *)
(* The source is the stream behind its bucket: the sequence of operations  *)
(* on it.  The last operation on a key is its entry; a position in the     *)
(* sequence is the entry's revision, and stands for the entry.             *)
(***************************************************************************)
EXTENDS KvBucket, SequencesExt

CONSTANTS
  Keys,
  Entries,              \* registry entries that decode
  Unstorable,           \* those that put's gates refuse
  Poison,               \* bytes that do not decode
  Settings,             \* the constructor's arguments
  Sharing,              \* whether others write the target: a set of BOOLEANs
  MaxSource,            \* bound: operations on the source
  MaxTarget,            \* bound: others write a target of fewer writes only
  MaxRestarts           \* bound: runs of the replicator after the first

ASSUME KeysAreOrdered == Keys \subseteq Nat     \* bootstrap sorts them

ASSUME BytesDecodeOneWay ==
  Poison \notin Entries /\ None \notin Entries \cup {Poison} /\ Unstorable \subseteq Entries

ASSUME Bounds == MaxSource \in Nat /\ MaxTarget \in Nat /\ MaxRestarts \in Nat

(* conflict_policy (CAS_PIN or SOURCE_WINS), the halt flags, and the keys   *)
(* that filter_fn lets through.                                            *)
ASSUME SettingsAreTyped ==
  /\ Settings \subseteq [casPin : BOOLEAN, haltOnEnvelopeError : BOOLEAN,
                         haltOnConflict : BOOLEAN, accepted : SUBSET Keys]
  /\ Sharing \subseteq BOOLEAN

Value == Entries \cup {Poison}

VARIABLES
  settings, shared,     \* chosen once
  log,                  \* operations on the source
  target, targetSeq,
  phase,                \* of the replicator's run
  todo,                 \* keys listed and not yet fetched
  snap,                 \* of each key, the entry fetched and not yet copied, or 0
  queue,                \* events delivered and not yet taken
  work,                 \* the write in progress
  metrics,              \* ReplicationMetrics
  position,             \* of each key, the operation last copied (history)
  restarts

setup      == <<settings, shared>>
targetVars == <<target, targetSeq>>
vars == <<setup, log, targetVars, phase, todo, snap, queue, work, metrics, position, restarts>>

NoWork == [step |-> "none"]
Work == [step : {"put", "update"}, boot : BOOLEAN, event : Nat \ {0},
         seen : Entry(Value)]      \* the target's entry the write was decided on

Counters == {"bootstrap_applied", "bootstrap_skipped_by_filter",
             "bootstrap_skipped_idempotent", "events_applied_put",
             "events_applied_delete", "events_skipped_by_filter",
             "cas_conflicts", "envelope_errors"}

Nothing == [k \in Keys |-> 0]

Init ==
  /\ settings \in Settings /\ shared \in Sharing
  /\ log = <<>>
  /\ target = [k \in Keys |-> NeverWritten] /\ targetSeq = 0
  /\ phase = "down" /\ todo = {} /\ snap = Nothing /\ queue = <<>>
  /\ work = NoWork /\ metrics = [m \in Counters |-> 0]
  /\ position = Nothing /\ restarts = 0
-----------------------------------------------------------------------------
(* The last operation on k among the first n, 0 if there is none.          *)
LastBy(k, n) == Max({0} \cup {i \in 1..n : log[i].key = k})
LastOn(k) == LastBy(k, Len(log))

ValueAt(i) == IF i = 0 THEN None ELSE log[i].val
Held(k) == ValueAt(LastOn(k))

SourceWrites(k, v) ==
  /\ Len(log) < MaxSource
  /\ v = None => Held(k) # None
  /\ log' = Append(log, [key |-> k, val |-> v])
  /\ queue' = IF phase = "tail" THEN Append(queue, Len(log')) ELSE queue
  /\ UNCHANGED <<targetVars, phase, todo, snap, work, metrics, position, restarts>>

TargetWrites(k, v) ==
  /\ targetSeq' = targetSeq + 1
  /\ target' = Stored(target, k, v, targetSeq')

Copied(i) == position' = [position EXCEPT ![log[i].key] = i]

Count(m) == metrics' = [metrics EXCEPT ![m] = @ + 1]
-----------------------------------------------------------------------------
ListSource ==
  /\ phase = "down"
  /\ phase' = "listed"
  /\ todo' = {k \in Keys : Held(k) # None}
  /\ UNCHANGED <<log, targetVars, snap, queue, work, metrics, position, restarts>>

(* run(bootstrap=False).                                                   *)
SkipBootstrap ==
  /\ phase = "down"
  /\ phase' = "listed"
  /\ UNCHANGED <<log, targetVars, todo, snap, queue, work, metrics, position, restarts>>

(* Faulty variant: poison is taken for an entry.                           *)
FetchUndecoded(k) ==
  /\ phase = "listed"
  /\ k \in todo
  /\ todo' = todo \ {k}
  /\ snap' = [snap EXCEPT ![k] = IF Held(k) = None THEN 0 ELSE LastOn(k)]
  /\ UNCHANGED <<log, targetVars, phase, queue, work, metrics, position, restarts>>

(* snapshot(): keys in any order; one deleted since the listing is         *)
(* skipped, a poisoned one aborts the run.                                 *)
FetchEntry(k) ==
  /\ phase = "listed"
  /\ k \in todo
  /\ IF Held(k) = Poison
     THEN phase' = "halted" /\ todo' = {} /\ snap' = Nothing
     ELSE /\ todo' = todo \ {k}
          /\ snap' = [snap EXCEPT ![k] = IF Held(k) = None THEN 0 ELSE LastOn(k)]
          /\ UNCHANGED phase
  /\ UNCHANGED <<log, targetVars, queue, work, metrics, position, restarts>>

Fetched == {k \in Keys : snap[k] # 0}

(* The bootstrap's loop body up to its write, keys in order; a poisoned    *)
(* target entry raises out of run(), and so does an entry that put refuses.*)
SeedNext ==
  LET k == Min(Fetched)
      v == target[k].val
      e == ValueAt(snap[k])
  IN
  /\ phase = "listed" /\ todo = {} /\ work = NoWork
  /\ Fetched # {}
  /\ snap' = [snap EXCEPT ![k] = 0]
  /\ CASE k \notin settings.accepted ->
            Count("bootstrap_skipped_by_filter") /\ UNCHANGED <<phase, work>>
       [] k \in settings.accepted /\ v = Poison ->
            phase' = "halted" /\ UNCHANGED <<metrics, work>>
       [] k \in settings.accepted /\ v = e ->
            Count("bootstrap_skipped_idempotent") /\ UNCHANGED <<phase, work>>
       [] k \in settings.accepted /\ v \notin {e, Poison} /\ e \in Unstorable ->
            phase' = "halted" /\ UNCHANGED <<metrics, work>>
       [] OTHER ->
            /\ work' = [step |-> "put", boot |-> TRUE, event |-> snap[k],
                        seen |-> target[k]]
            /\ UNCHANGED <<phase, metrics>>
  /\ UNCHANGED <<log, targetVars, todo, queue, position, restarts>>

(* Faulty variants of the watch: updates only, and every operation the     *)
(* stream still holds in place of the last of each key.                    *)
OpenWatchUpdatesOnly ==
  /\ phase = "listed" /\ todo = {} /\ Fetched = {} /\ work = NoWork
  /\ phase' = "tail"
  /\ UNCHANGED <<log, targetVars, todo, snap, queue, work, metrics, position, restarts>>

OpenWatchWithHistory ==
  /\ phase = "listed" /\ todo = {} /\ Fetched = {} /\ work = NoWork
  /\ phase' = "tail"
  /\ queue' = [i \in DOMAIN log |-> i]
  /\ UNCHANGED <<log, targetVars, todo, snap, work, metrics, position, restarts>>

(* The watch replays the last operation of every key, then follows.        *)
OpenWatch ==
  /\ phase = "listed" /\ todo = {} /\ Fetched = {} /\ work = NoWork
  /\ phase' = "tail"
  /\ queue' = Ascending({LastOn(k) : k \in Keys} \ {0}, Len(log))
  /\ UNCHANGED <<log, targetVars, todo, snap, work, metrics, position, restarts>>
-----------------------------------------------------------------------------
NextEvent == phase = "tail" /\ work = NoWork /\ queue # <<>>

(* The decoder of the stream raises; with or without an exception the run  *)
(* is over.                                                                *)
TakePoison ==
  /\ NextEvent
  /\ ValueAt(Head(queue)) = Poison
  /\ Count("envelope_errors")
  /\ phase' = IF settings.haltOnEnvelopeError THEN "halted" ELSE "ended"
  /\ queue' = <<>>
  /\ UNCHANGED <<log, targetVars, todo, snap, work, position, restarts>>

TakeFiltered ==
  /\ NextEvent
  /\ ValueAt(Head(queue)) # Poison
  /\ log[Head(queue)].key \notin settings.accepted
  /\ Count("events_skipped_by_filter")
  /\ queue' = Tail(queue)
  /\ UNCHANGED <<log, targetVars, phase, todo, snap, work, position, restarts>>

TakeDelete ==
  LET k == log[Head(queue)].key IN
  /\ NextEvent
  /\ ValueAt(Head(queue)) = None
  /\ k \in settings.accepted
  /\ IF Live(target, k) THEN TargetWrites(k, None) ELSE UNCHANGED targetVars
  /\ Copied(Head(queue))
  /\ Count("events_applied_delete")
  /\ queue' = Tail(queue)
  /\ UNCHANGED <<log, phase, todo, snap, work, restarts>>

(* Under CAS_PIN a poisoned target entry raises in the read.  The error is *)
(* counted where the event was consumed and again where it leaves the      *)
(* stream's loop.  What put and put_with_revision refuse ends the run with *)
(* an error of another class, uncounted.                                   *)
TakePut ==
  LET k == log[Head(queue)].key
      unread == settings.casPin /\ target[k].val = Poison
      begin(step) ==
        /\ work' = [step |-> step, boot |-> FALSE, event |-> Head(queue),
                    seen |-> target[k]]
        /\ queue' = Tail(queue)
        /\ UNCHANGED <<phase, metrics>>
  IN
  /\ NextEvent
  /\ ValueAt(Head(queue)) \in Entries
  /\ k \in settings.accepted
  /\ CASE unread /\ settings.haltOnEnvelopeError ->
            /\ metrics' = [metrics EXCEPT !["envelope_errors"] = @ + 2]
            /\ phase' = "halted" /\ queue' = <<>> /\ UNCHANGED work
       [] unread /\ ~settings.haltOnEnvelopeError ->
            Count("envelope_errors") /\ queue' = Tail(queue) /\ UNCHANGED <<phase, work>>
       [] ~unread /\ ValueAt(Head(queue)) \in Unstorable ->
            phase' = "halted" /\ queue' = <<>> /\ UNCHANGED <<metrics, work>>
       [] OTHER ->
            begin(IF settings.casPin /\ Live(target, k) THEN "update" ELSE "put")
  /\ UNCHANGED <<log, targetVars, todo, snap, position, restarts>>

Put ==
  /\ work.step = "put"
  /\ TargetWrites(log[work.event].key, log[work.event].val)
  /\ Copied(work.event)
  /\ Count(IF work.boot THEN "bootstrap_applied" ELSE "events_applied_put")
  /\ work' = NoWork
  /\ UNCHANGED <<log, phase, todo, snap, queue, restarts>>

(* Faulty variant: the update is not conditional on the pin.               *)
UpdateUnpinned ==
  /\ work.step = "update"
  /\ TargetWrites(log[work.event].key, log[work.event].val)
  /\ Copied(work.event)
  /\ Count("events_applied_put")
  /\ work' = NoWork
  /\ UNCHANGED <<log, phase, todo, snap, queue, restarts>>

Update ==
  /\ work.step = "update"
  /\ LiveRevision(target, log[work.event].key) = work.seen.rev
  /\ TargetWrites(log[work.event].key, log[work.event].val)
  /\ Copied(work.event)
  /\ Count("events_applied_put")
  /\ work' = NoWork
  /\ UNCHANGED <<log, phase, todo, snap, queue, restarts>>

Conflict ==
  /\ work.step = "update"
  /\ LiveRevision(target, log[work.event].key) # work.seen.rev
  /\ Count("cas_conflicts")
  /\ IF settings.haltOnConflict
     THEN phase' = "halted" /\ queue' = <<>>
     ELSE UNCHANGED <<phase, queue>>
  /\ work' = NoWork
  /\ UNCHANGED <<log, targetVars, todo, snap, position, restarts>>

(* The process dies anywhere, or a new run follows one that ended.         *)
Restart ==
  /\ restarts < MaxRestarts
  /\ restarts' = restarts + 1
  /\ phase' = "down" /\ todo' = {} /\ snap' = Nothing /\ queue' = <<>>
  /\ work' = NoWork /\ metrics' = [m \in Counters |-> 0]
  /\ UNCHANGED <<log, targetVars, position>>
-----------------------------------------------------------------------------
Replicator ==
  /\ \/ ListSource
     \/ SkipBootstrap
     \/ \E k \in Keys : FetchEntry(k)
     \/ SeedNext
     \/ OpenWatch
     \/ TakePoison
     \/ TakeFiltered
     \/ TakeDelete
     \/ TakePut
     \/ Put
     \/ Update
     \/ Conflict
  /\ UNCHANGED setup

(* A publisher writes the target too, and deletes there.                   *)
TargetPut(k, v) ==
  /\ shared /\ targetSeq < MaxTarget
  /\ v = None => Live(target, k)
  /\ TargetWrites(k, v)
  /\ UNCHANGED <<log, phase, todo, snap, queue, work, metrics, position, restarts>>

Others ==
  /\ \/ \E k \in Keys, v \in Value \cup {None} : SourceWrites(k, v)
     \/ \E k \in Keys, v \in Value \cup {None} : TargetPut(k, v)
     \/ Restart
  /\ UNCHANGED setup

Next == Replicator \/ Others

(* The event loop keeps running; the writers need not.                     *)
Spec == Init /\ [][Next]_vars /\ WF_vars(Replicator)
-----------------------------------------------------------------------------
(* Every variable has its type.                                            *)
TypeOK ==
  /\ settings \in Settings /\ shared \in Sharing
  /\ log \in Seq([key : Keys, val : Value \cup {None}])
  /\ target \in [Keys -> Entry(Value)] /\ targetSeq \in Nat
  /\ phase \in {"down", "listed", "tail", "halted", "ended"}
  /\ todo \subseteq Keys
  /\ position \in [Keys -> 0..Len(log)]
  /\ LET decoded == {i \in DOMAIN log : log[i].val \in Entries} IN
       /\ snap \in [Keys -> decoded \cup {0}]
       /\ work # NoWork => work \in Work /\ work.event \in decoded
  /\ queue \in Seq(DOMAIN log)
  /\ metrics \in [Counters -> Nat]
  /\ restarts \in 0..MaxRestarts

(* What the replicator shows under k: the target's value, or, when others  *)
(* write the target too, what it last wrote there itself.                  *)
Shown(k) == IF shared THEN ValueAt(position[k]) ELSE target[k].val

Mirror ==
  INSTANCE OneWayMirror WITH
    Values <- Value \cup {None},
    Absent <- None,
    shown  <- [k \in Keys |-> Shown(k)]

(* The replicator implements the one-way mirror: torn snapshot, replay,    *)
(* tail and crashes at any point, yet a key of the target never shows what *)
(* the source did not hold, and never goes back from a newer operation to  *)
(* an older one.                                                           *)
ImplementsMirror == Mirror!Spec

(* Once the writers rest and the process stops dying, the keys the filter  *)
(* accepts end up equal, deletions made while nothing ran included, unless *)
(* others write the target.                                                *)
EventuallyMirrors ==
  \/ <>[](\A k \in settings.accepted : target[k].val = Held(k))
  \/ <>[](shared \/ phase \in {"halted", "ended"})

(* A CAS-pinned update overwrites the very entry the replicator read: no   *)
(* write of a publisher that came in between is lost to it, also when that *)
(* one deleted the key and created it again.                               *)
UpdateLosesNoForeignWrite ==
  [][Update => target[log[work.event].key] = work.seen]_vars

(* Whoever writes the target, and whatever lies in either bucket, the      *)
(* replicator itself stores no poison and no entry that put refuses.       *)
PoisonIsNeverCopied ==
  [][Put \/ Update => target'[log[work.event].key].val \notin Unstorable \cup {Poison}]_vars

(* What the doc of CAS_PIN says: a concurrent write on the target surfaces *)
(* as a conflict.  The write of a key read as absent is a plain put.       *)
CasPinSurfacesConcurrentWrites ==
  [][settings.casPin /\ Put /\ ~work.boot => ~Live(target, log[work.event].key)]_vars

(* What the doc of snapshot() says: a complete, self-consistent view, that *)
(* is, the entries of the bucket at some moment.                           *)
SnapshotIsAView ==
  [][\A k \in todo : FetchEntry(k) /\ todo' = {} /\ phase' = "listed" =>
       \E n \in 0..Len(log) : \A l \in Keys :
         snap'[l] = IF ValueAt(LastBy(l, n)) = None THEN 0 ELSE LastBy(l, n)]_vars
=============================================================================

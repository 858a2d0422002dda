--------------------- MODULE CapabilityPolicyReplication ---------------------
(***************************************************************************)
(* CapabilityPolicyReplicator: one run bootstraps the target bucket from a *)
(* snapshot of the source, then opens the source's watch stream and        *)
(* applies every event to the target, under SOURCE_WINS (a check, then a   *)
(* put) or CAS_PIN (a read, then put_with_revision).  Between any two      *)
(* awaits the source's writers run, and on a shared target also operators. *)
(*                                                                         *)
(* The stream is read in the shape that skips the replay's None update     *)
(* (RevocationWatch treats the other one).  An event is the value of a     *)
(* key: a record, poison, or None for DELETE and PURGE.                    *)
(***************************************************************************)
EXTENDS KvBucket, SequencesExt

CONSTANTS
  Keys, Instants, Bundles, Poison,
  Settings,             \* the constructor's arguments
  Sharing,              \* whether others write the target: a set of BOOLEANs
  MaxSource,            \* bound: writes on the source
  MaxTarget,            \* bound: others write a target of fewer writes only
  MaxRestarts           \* bound: runs of the replicator after the first

ASSUME KeysAreOrdered == Keys \subseteq Nat     \* bootstrap sorts them

(* conflict_policy (CAS_PIN or SOURCE_WINS), the halt flags, and the keys   *)
(* that filter_fn lets through.                                            *)
ASSUME SettingsAreTyped ==
  /\ Settings \subseteq [casPin : BOOLEAN, haltOnEnvelopeError : BOOLEAN,
                         haltOnConflict : BOOLEAN, haltOnBreach : BOOLEAN, accepted : SUBSET Keys]
  /\ Sharing \subseteq BOOLEAN

(* "bundle" stands for all a record holds beside revoked_at.               *)
Record == [bundle : Bundles, revoked : Instants \cup {None}]
Value  == Record \cup {Poison}

ASSUME BytesDecodeOneWay == Poison \notin Record /\ None \notin Value

ASSUME Bounds == MaxSource \in Nat /\ MaxTarget \in Nat /\ MaxRestarts \in Nat

VARIABLES
  settings, shared,     \* chosen once
  source, sourceSeq,
  target, targetSeq,
  phase,        \* of the replicator's run
  todo,         \* keys listed and not yet fetched
  snap,         \* the snapshot: keys fetched, not yet copied, to their records
  queue,        \* events delivered and not yet taken
  work,         \* the write in progress
  metrics,      \* CapabilityPolicyReplicationMetrics
  taken,        \* events the loop has taken this run (history)
  quietSince,   \* sourceSeq when the bootstrap listed the source (history)
  restarts

setup      == <<settings, shared>>
sourceVars == <<source, sourceSeq>>
targetVars == <<target, targetSeq>>
history    == <<taken, quietSince, restarts>>
vars == <<setup, sourceVars, targetVars, phase, todo, snap, queue, work, metrics, history>>

NoWork == [step |-> "none"]
Work == [step : {"put", "gate", "update"}, boot : BOOLEAN,
         key : Keys, rec : Record, pin : Nat]

Counters == {"bootstrap_applied", "bootstrap_skipped_by_filter",
             "bootstrap_skipped_idempotent", "bootstrap_revocation_breaches",
             "events_applied_put", "events_applied_delete",
             "events_skipped_by_filter", "cas_conflicts",
             "revocation_breaches", "envelope_errors"}

Zero == [m \in Counters |-> 0]

Init ==
  /\ settings \in Settings /\ shared \in Sharing
  /\ source = [k \in Keys |-> NeverWritten] /\ sourceSeq = 0
  /\ target = [k \in Keys |-> NeverWritten] /\ targetSeq = 0
  /\ phase = "down" /\ todo = {} /\ snap = <<>> /\ queue = <<>>
  /\ work = NoWork /\ metrics = Zero
  /\ taken = 0 /\ quietSince = 0 /\ restarts = 0
-----------------------------------------------------------------------------
Count(m) == metrics' = [metrics EXCEPT ![m] = @ + 1]

(* The source's writers, and the event an open watcher is handed.          *)
SourceWrites(k, v) ==
  /\ sourceSeq < MaxSource
  /\ v = None => Live(source, k)
  /\ sourceSeq' = sourceSeq + 1
  /\ source' = Stored(source, k, v, sourceSeq')
  /\ queue' = IF phase = "tail" THEN Append(queue, [key |-> k, val |-> v]) ELSE queue
  /\ UNCHANGED <<targetVars, phase, todo, snap, work, metrics, history>>

TargetWrites(k, v) ==
  /\ targetSeq' = targetSeq + 1
  /\ target' = Stored(target, k, v, targetSeq')

Revoked(v) == v \in Record /\ v.revoked # None

(* Faulty variant: only an unrevoke counts as a breach, a moved instant    *)
(* does not.                                                               *)
BreachesByUnrevoking(v, r) == Revoked(v) /\ r.revoked = None

(* _is_revocation_breach, and the gate of put_with_revision.               *)
Breaches(v, r) == Revoked(v) /\ r.revoked # v.revoked

(* run() raises, or returns.                                               *)
Leave(how) == phase' = how /\ queue' = <<>> /\ work' = NoWork
-----------------------------------------------------------------------------
(* Bootstrap: source.snapshot(), poison aborts the run, ...                *)
ListSource ==
  /\ phase = "down"
  /\ phase' = "listed"
  /\ todo' = {k \in Keys : Live(source, k)}
  /\ snap' = <<>>
  /\ quietSince' = sourceSeq
  /\ UNCHANGED <<sourceVars, targetVars, queue, work, metrics, taken, restarts>>

(* run(bootstrap=False): the operator copied the target some other way.    *)
SkipBootstrap ==
  /\ phase = "down"
  /\ phase' = "listed"
  /\ quietSince' = None
  /\ UNCHANGED <<sourceVars, targetVars, todo, snap, queue, work, metrics, taken, restarts>>

FetchRecord ==
  LET k == Min(todo) IN
  /\ phase = "listed"
  /\ todo # {}
  /\ IF source[k].val = Poison
     THEN phase' = "halted" /\ todo' = {} /\ snap' = <<>>
     ELSE /\ todo' = todo \ {k}
          /\ snap' = IF Live(source, k)
                     THEN Append(snap, [key |-> k, rec |-> source[k].val])
                     ELSE snap
          /\ UNCHANGED phase
  /\ UNCHANGED <<sourceVars, targetVars, queue, work, metrics, history>>

(* ... then, record by record in key order, filter, target.get, the        *)
(* idempotency and revocation checks, and (in a later await) target.put.   *)
(* A poisoned target value raises out of run().                            *)
SeedNext ==
  LET k == Head(snap).key
      r == Head(snap).rec
      v == target[k].val
  IN
  /\ phase = "listed"
  /\ todo = {}
  /\ work = NoWork
  /\ snap # <<>>
  /\ snap' = Tail(snap)
  /\ CASE k \notin settings.accepted ->
            Count("bootstrap_skipped_by_filter") /\ UNCHANGED <<phase, queue, work>>
       [] k \in settings.accepted /\ v = Poison ->
            Leave("halted") /\ UNCHANGED metrics
       [] k \in settings.accepted /\ v = r ->
            Count("bootstrap_skipped_idempotent") /\ UNCHANGED <<phase, queue, work>>
       [] k \in settings.accepted /\ Breaches(v, r) ->
            Count("bootstrap_revocation_breaches") /\ UNCHANGED <<phase, queue, work>>
       [] OTHER ->
            /\ work' = [step |-> "put", boot |-> TRUE, key |-> k, rec |-> r, pin |-> 0]
            /\ UNCHANGED <<phase, queue, metrics>>
  /\ UNCHANGED <<sourceVars, targetVars, todo, history>>

(* Faulty variant: the watch delivers updates only, no replay.             *)
OpenWatchUpdatesOnly ==
  /\ phase = "listed"
  /\ todo = {}
  /\ snap = <<>>
  /\ work = NoWork
  /\ phase' = "tail"
  /\ queue' = <<>>
  /\ UNCHANGED <<sourceVars, targetVars, todo, snap, work, metrics, history>>

(* The watch replays the source's last operations, then follows it.        *)
OpenWatch ==
  /\ phase = "listed"
  /\ todo = {}
  /\ snap = <<>>
  /\ work = NoWork
  /\ phase' = "tail"
  /\ queue' = LET order == ReplayOrder(source, sourceSeq)
              IN [i \in DOMAIN order |-> [key |-> order[i], val |-> source[order[i]].val]]
  /\ UNCHANGED <<sourceVars, targetVars, todo, snap, work, metrics, history>>
-----------------------------------------------------------------------------
(* An envelope error of the target inside _consume_event is counted by the *)
(* inner handler and, when that re-raises, by the outer one as well.       *)
TargetPoisoned(rest) ==
  IF settings.haltOnEnvelopeError
  THEN /\ metrics' = [metrics EXCEPT !["envelope_errors"] = @ + 2]
       /\ Leave("halted")
  ELSE /\ Count("envelope_errors")
       /\ queue' = rest /\ work' = NoWork
       /\ UNCHANGED phase

Refused ==
  /\ Count("revocation_breaches")
  /\ IF settings.haltOnBreach THEN phase' = "halted" ELSE UNCHANGED phase
  /\ work' = NoWork

NextEvent ==
  /\ phase = "tail"
  /\ work = NoWork
  /\ queue # <<>>

Take == taken' = taken + 1 /\ UNCHANGED <<quietSince, restarts>>

(* The stream's decoder raises on a poisoned source value and the run is   *)
(* over, with an exception or (no halt) without.                           *)
TakePoison ==
  /\ NextEvent
  /\ Head(queue).val = Poison
  /\ Take
  /\ Count("envelope_errors")
  /\ Leave(IF settings.haltOnEnvelopeError THEN "halted" ELSE "ended")
  /\ UNCHANGED <<sourceVars, targetVars, todo, snap>>

TakeFiltered ==
  /\ NextEvent
  /\ Head(queue).val # Poison
  /\ Head(queue).key \notin settings.accepted
  /\ Take
  /\ Count("events_skipped_by_filter")
  /\ queue' = Tail(queue)
  /\ UNCHANGED <<sourceVars, targetVars, phase, todo, snap, work>>

(* Faulty variant: a delete that finds no key is not counted.              *)
TakeDeleteUncounted ==
  LET k == Head(queue).key IN
  /\ NextEvent
  /\ Head(queue).val = None
  /\ k \in settings.accepted
  /\ Take
  /\ IF Live(target, k)
     THEN Count("events_applied_delete") /\ TargetWrites(k, None)
     ELSE UNCHANGED <<metrics, targetVars>>
  /\ queue' = Tail(queue)
  /\ UNCHANGED <<sourceVars, phase, todo, snap, work>>

(* _apply_delete: unconditional, a no-op on an absent key.                 *)
TakeDelete ==
  LET k == Head(queue).key IN
  /\ NextEvent
  /\ Head(queue).val = None
  /\ k \in settings.accepted
  /\ Take
  /\ Count("events_applied_delete")
  /\ IF Live(target, k) THEN TargetWrites(k, None) ELSE UNCHANGED targetVars
  /\ queue' = Tail(queue)
  /\ UNCHANGED <<sourceVars, phase, todo, snap, work>>

(* The first await of _apply_put: read the target and decide.              *)
TakePut ==
  LET k == Head(queue).key
      r == Head(queue).val
      v == target[k].val
      begin(step, pin) == /\ work' = [step |-> step, boot |-> FALSE, key |-> k,
                                      rec |-> r, pin |-> pin]
                          /\ queue' = Tail(queue)
                          /\ UNCHANGED <<phase, metrics>>
  IN
  /\ NextEvent
  /\ r \in Record
  /\ k \in settings.accepted
  /\ Take
  /\ CASE v = Poison ->
            TargetPoisoned(Tail(queue))
       [] v # Poison /\ settings.casPin ->
            begin(IF v = None THEN "put" ELSE "gate", target[k].rev)
       [] v # Poison /\ ~settings.casPin /\ Breaches(v, r) ->
            Refused /\ queue' = Tail(queue)
       [] OTHER ->
            begin("put", 0)
  /\ UNCHANGED <<sourceVars, targetVars, todo, snap>>

(* The gate inside put_with_revision.                                      *)
Gate ==
  LET v == target[work.key].val IN
  /\ work.step = "gate"
  /\ CASE v = Poison -> TargetPoisoned(queue)
       [] v # Poison /\ Breaches(v, work.rec) -> Refused /\ UNCHANGED queue
       [] OTHER -> /\ work' = [work EXCEPT !.step = "update"]
                   /\ UNCHANGED <<phase, queue, metrics>>
  /\ UNCHANGED <<sourceVars, targetVars, todo, snap, history>>

CasUpdate ==
  /\ work.step = "update"
  /\ LiveRevision(target, work.key) = work.pin
  /\ TargetWrites(work.key, work.rec)
  /\ Count("events_applied_put")
  /\ work' = NoWork
  /\ UNCHANGED <<sourceVars, phase, todo, snap, queue, history>>

CasConflict ==
  /\ work.step = "update"
  /\ LiveRevision(target, work.key) # work.pin
  /\ Count("cas_conflicts")
  /\ IF settings.haltOnConflict THEN phase' = "halted" ELSE UNCHANGED phase
  /\ work' = NoWork
  /\ UNCHANGED <<sourceVars, targetVars, todo, snap, queue, history>>

(* target.put: SOURCE_WINS, a key CAS_PIN saw absent, or the bootstrap.    *)
LwwPut ==
  /\ work.step = "put"
  /\ TargetWrites(work.key, work.rec)
  /\ Count(IF work.boot THEN "bootstrap_applied" ELSE "events_applied_put")
  /\ work' = NoWork
  /\ UNCHANGED <<sourceVars, phase, todo, snap, queue, history>>
-----------------------------------------------------------------------------
(* The process dies, or the operator starts a new one after run() ended.   *)
Restart ==
  /\ restarts < MaxRestarts
  /\ restarts' = restarts + 1
  /\ phase' = "down" /\ todo' = {} /\ snap' = <<>> /\ queue' = <<>>
  /\ work' = NoWork /\ metrics' = Zero /\ taken' = 0
  /\ UNCHANGED <<sourceVars, targetVars, quietSince>>

Replicator ==
  /\ \/ ListSource
     \/ SkipBootstrap
     \/ FetchRecord
     \/ SeedNext
     \/ OpenWatch
     \/ TakePoison
     \/ TakeFiltered
     \/ TakeDelete
     \/ TakePut
     \/ Gate
     \/ CasUpdate
     \/ CasConflict
     \/ LwwPut
  /\ UNCHANGED setup

(* An operator revokes a record of the target with the publisher CLI, and  *)
(* somebody puts a record or a poisoned envelope there.  (Target keys that *)
(* the filter rejects the replicator neither reads nor writes.)            *)
TargetRevoke(k, t) ==
  /\ shared /\ targetSeq < MaxTarget
  /\ target[k].val \in Record
  /\ ~Revoked(target[k].val)
  /\ TargetWrites(k, [target[k].val EXCEPT !.revoked = t])
  /\ UNCHANGED <<sourceVars, phase, todo, snap, queue, work, metrics, history>>

TargetPut(k, v) ==
  /\ shared /\ targetSeq < MaxTarget
  /\ TargetWrites(k, v)
  /\ UNCHANGED <<sourceVars, phase, todo, snap, queue, work, metrics, history>>

Others ==
  /\ \/ \E k \in Keys, v \in Value \cup {None} : SourceWrites(k, v)
     \/ Restart
     \/ \E k \in settings.accepted, t \in Instants : TargetRevoke(k, t)
     \/ \E k \in settings.accepted, v \in Value : TargetPut(k, v)
  /\ UNCHANGED setup

Next == Replicator \/ Others

(* The event loop keeps running; the writers need not.                     *)
Spec == Init /\ [][Next]_vars /\ WF_vars(Replicator)
-----------------------------------------------------------------------------
(* Every variable has its type.                                            *)
TypeOK ==
  /\ settings \in Settings /\ shared \in Sharing
  /\ source \in [Keys -> Entry(Value)] /\ sourceSeq \in 0..MaxSource
  /\ target \in [Keys -> Entry(Value)] /\ targetSeq \in Nat
  /\ phase \in {"down", "listed", "tail", "halted", "ended"}
  /\ todo \subseteq Keys
  /\ snap \in Seq([key : Keys, rec : Record])
  /\ queue \in Seq([key : Keys, val : Value \cup {None}])
  /\ work \in Work \cup {NoWork}
  /\ metrics \in [Counters -> Nat]
  /\ taken \in Nat /\ quietSince \in 0..MaxSource \cup {None} /\ restarts \in 0..MaxRestarts

Outcomes == metrics["events_applied_put"] + metrics["events_applied_delete"]
            + metrics["events_skipped_by_filter"] + metrics["cas_conflicts"]
            + metrics["revocation_breaches"] + metrics["envelope_errors"]

(* Every event the loop takes ends in exactly one counter, whatever the    *)
(* policy, the filter and the halts did with it.  (Not on a shared target  *)
(* with haltOnEnvelopeError: see EnvelopeErrorsAtMostOne.)                 *)
EveryEventCounted ==
  ~(shared /\ settings.haltOnEnvelopeError) =>
    taken = Outcomes + (IF work # NoWork /\ ~work.boot THEN 1 ELSE 0)

Refusals == metrics["revocation_breaches"] + metrics["bootstrap_revocation_breaches"]

(* With the replicator as the target's only writer: when it has applied    *)
(* all it was given, a key the filter accepts is what the source holds, or *)
(* the difference shows as a counted refusal of this run, also after       *)
(* crashes and restarts at any point.                                      *)
NoSilentDivergence ==
  ~shared /\ phase = "tail" /\ queue = <<>> /\ work = NoWork /\ Refusals = 0 =>
    \A k \in settings.accepted : target[k].val = source[k].val

(* The replicator eventually mirrors the source's last state, unless a     *)
(* revocation it may not undo or a poisoned source stands in the way, or   *)
(* others write the target.                                                *)
EventuallyMirrors ==
  <>[](\A k \in settings.accepted : \/ target[k].val = source[k].val
                           \/ Revoked(target[k].val))
    \/ <>[](shared \/ phase \in {"halted", "ended"})
    \/ []<>(\E k \in Keys : source[k].val = Poison)

(* Once a key carries a revocation on the target, no write of the          *)
(* replicator removes or moves it: with no other writer on the target none *)
(* at all, bootstrap and plain puts included, as no check goes stale       *)
(* before its write; on a shared target no CAS-pinned update.              *)
RevocationNeverOverwritten ==
  [][(LwwPut /\ ~shared) \/ CasUpdate =>
       LET k == work.key IN
         Revoked(target[k].val) => target'[k].val.revoked = target[k].val.revoked]_vars

(* The module doc of the replicator: once a key carries a revocation on    *)
(* the target, no replication path overwrites it.  Here the tail's writes  *)
(* alone, with operators on the target.                                    *)
TailKeepsRevocation ==
  [][(LwwPut /\ ~work.boot) \/ CasUpdate =>
       LET k == work.key IN
         Revoked(target[k].val) => target'[k].val.revoked = target[k].val.revoked]_vars

(* "Replication halts on first envelope error; this counter is 0 or 1."    *)
EnvelopeErrorsAtMostOne == metrics["envelope_errors"] <= 1

(* What the module doc promises of a bootstrap whose source stood still.   *)
(* Here of a target that no one else writes.                               *)
BootstrapEqualisesKeysets ==
  [][OpenWatch /\ ~shared /\ quietSince = sourceSeq =>
       \A k \in settings.accepted : Live(target, k) <=> Live(source, k)]_vars
=============================================================================

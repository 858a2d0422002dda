--------------------------- MODULE RevocationWatch ---------------------------
(***************************************************************************)
(* A consumer of the capability-policy watch stream: it takes a snapshot   *)
(* (one list, then one get per key), seeds a LiveCapabilityPolicySnapshot  *)
(* and a RevocationEventClassifier with it, opens the watch and feeds both *)
(* from every event.  The writers of CapabilityPolicyStore run all the     *)
(* time, between any two of those steps.                                   *)
(*                                                                         *)
(* The classifier keeps one instant per key, the abstract state of         *)
(* _revoked_at_by_key; that map tells "never seen" from "seen unrevoked",  *)
(* a difference no verdict depends on.                                     *)
(***************************************************************************)
EXTENDS CapabilityPolicyStore, SequencesExt

CONSTANTS
  SentinelEndsStream,   \* TRUE: watcher read through updates(); FALSE: iterated
  MaxRestarts           \* bound: the consumer dies this often

ASSUME KeysAreOrdered == Keys \subseteq Nat /\ None \notin Keys  \* snapshot sorts them

ASSUME MaxRestartsIsNat == MaxRestarts \in Nat

VARIABLES
  phase,                \* of the consumer
  todo,                 \* keys listed and not yet fetched
  queue,                \* delivered by the watcher, not yet consumed
  live,                 \* LiveCapabilityPolicySnapshot._live
  lastRevision,         \* LiveCapabilityPolicySnapshot.last_revision
  revokedAt,            \* RevocationEventClassifier._revoked_at_by_key
  restarts

viewVars  == <<live, lastRevision, revokedAt>>
watchVars == <<vars, phase, todo, queue, viewVars, restarts>>

Phases == {"down", "listed", "open", "ended"}

Sentinel == [tail |-> FALSE, key |-> None]      \* nats-py's None update

(* "was" is a history field: what the operation overwrote.                 *)
Event == [tail : BOOLEAN, key : Keys, val : Value \cup {None}, rev : Nat,
          was  : Value \cup {None}]

WatchInit ==
  /\ Init
  /\ phase = "down"
  /\ todo = {}
  /\ queue = <<>>
  /\ live = [k \in Keys |-> None]
  /\ lastRevision = 0
  /\ revokedAt = [k \in Keys |-> None]
  /\ restarts = 0
-----------------------------------------------------------------------------
(* A durable operation reaches an open watcher as one event, in order.     *)
Delivered ==
  LET changed == {k \in Keys : bucket'[k] # bucket[k]}
      event(k) == [tail |-> TRUE, key |-> k, val |-> bucket'[k].val,
                   rev |-> bucket'[k].rev, was |-> bucket[k].val]
  IN IF phase = "open" /\ changed # {}
     THEN Append(queue, event(CHOOSE k \in changed : TRUE))
     ELSE queue

Writers(step) ==
  /\ step
  /\ queue' = Delivered
  /\ UNCHANGED <<phase, todo, viewVars, restarts>>
-----------------------------------------------------------------------------
ListKeys ==
  /\ phase = "down"
  /\ phase' = "listed"
  /\ todo' = {k \in Keys : Live(bucket, k)}
  /\ live' = [k \in Keys |-> None]
  /\ lastRevision' = 0
  /\ revokedAt' = [k \in Keys |-> None]
  /\ UNCHANGED <<vars, queue, restarts>>

(* One get of snapshot(), in sorted order.  A key deleted since the        *)
(* listing is skipped.                                                     *)
FetchKey ==
  LET k == Min(todo) IN
  /\ phase = "listed"
  /\ todo # {}
  /\ bucket[k].val # Poison
  /\ todo' = todo \ {k}
  /\ live' = [live EXCEPT ![k] = bucket[k].val]
  /\ revokedAt' = [revokedAt EXCEPT ![k] =
                     IF Live(bucket, k) THEN bucket[k].val.revoked ELSE None]
  /\ UNCHANGED <<vars, phase, queue, lastRevision, restarts>>

(* ... and a poisoned one aborts the whole snapshot.                       *)
FetchPoison ==
  /\ phase = "listed"
  /\ todo # {}
  /\ bucket[Min(todo)].val = Poison
  /\ phase' = "down"
  /\ todo' = {}
  /\ UNCHANGED <<vars, queue, viewVars, restarts>>

(* Faulty variant: the watch delivers updates only, no replay.             *)
OpenWatchUpdatesOnly ==
  /\ phase = "listed"
  /\ todo = {}
  /\ phase' = "open"
  /\ queue' = <<Sentinel>>
  /\ UNCHANGED <<vars, todo, viewVars, restarts>>

(* watchall() replays the last operation of every key, then the sentinel,  *)
(* then the live tail.                                                     *)
OpenWatch ==
  /\ phase = "listed"
  /\ todo = {}
  /\ phase' = "open"
  /\ LET order == ReplayOrder(bucket, seq)
         event(k) == [tail |-> FALSE, key |-> k, val |-> bucket[k].val,
                      rev |-> bucket[k].rev, was |-> None]
     IN queue' = Append([i \in DOMAIN order |-> event(order[i])], Sentinel)
  /\ UNCHANGED <<vars, todo, viewVars, restarts>>
-----------------------------------------------------------------------------
(* RevocationEventClassifier.classify: prior is the instant it remembers.  *)
Classify(prior, v) ==
  CASE v = None                          -> "KEY_REMOVED"
    [] v # None /\ prior = None          ->
         IF v.revoked = None THEN "NOT_REVOCATION_RELATED" ELSE "REVOCATION_TRANSITION"
    [] v # None /\ prior # None          ->
         IF v.revoked = prior THEN "REVOCATION_REFRESH"
         ELSE IF v.revoked = None /\ v.marker = prior THEN "EXPLICIT_UNREVOKE"
         ELSE "REVOCATION_MONOTONIC_BREACH"

(* Faulty variant: a deletion leaves the classifier's instant behind.      *)
ConsumeRememberingDeleted ==
  /\ phase = "open"
  /\ queue # <<>>
  /\ LET e == Head(queue) IN
       /\ e # Sentinel
       /\ e.val # Poison
       /\ live' = [live EXCEPT ![e.key] = e.val]
       /\ revokedAt' = IF e.val = None THEN revokedAt
                       ELSE [revokedAt EXCEPT ![e.key] = e.val.revoked]
       /\ lastRevision' = IF e.rev > lastRevision THEN e.rev ELSE lastRevision
  /\ queue' = Tail(queue)
  /\ UNCHANGED <<vars, phase, todo, restarts>>

(* One turn of the consumer's loop: LiveCapabilityPolicySnapshot.apply and *)
(* the classifier's update.                                                *)
Consume ==
  /\ phase = "open"
  /\ queue # <<>>
  /\ LET e == Head(queue) IN
       /\ e # Sentinel
       /\ e.val # Poison
       /\ live' = [live EXCEPT ![e.key] = e.val]
       /\ revokedAt' = [revokedAt EXCEPT ![e.key] =
                          IF e.val = None THEN None ELSE e.val.revoked]
       /\ lastRevision' = IF e.rev > lastRevision THEN e.rev ELSE lastRevision
  /\ queue' = Tail(queue)
  /\ UNCHANGED <<vars, phase, todo, restarts>>

(* The decoder raises: the iterator ends, the view is dropped and the      *)
(* operator bootstraps again.                                              *)
ConsumePoison ==
  /\ phase = "open"
  /\ queue # <<>>
  /\ Head(queue) # Sentinel
  /\ Head(queue).val = Poison
  /\ phase' = "down"
  /\ queue' = <<>>
  /\ UNCHANGED <<vars, todo, viewVars, restarts>>

(* The None update is skipped by the iterating shape and ends the stream   *)
(* in the updates() shape.                                                 *)
ConsumeSentinel ==
  /\ phase = "open"
  /\ queue # <<>>
  /\ Head(queue) = Sentinel
  /\ IF SentinelEndsStream
     THEN phase' = "ended" /\ queue' = <<>>
     ELSE phase' = phase /\ queue' = Tail(queue)
  /\ UNCHANGED <<vars, todo, viewVars, restarts>>

Restart ==
  /\ restarts < MaxRestarts
  /\ phase # "down"
  /\ phase' = "down"
  /\ todo' = {}
  /\ queue' = <<>>
  /\ restarts' = restarts + 1
  /\ UNCHANGED <<vars, viewVars>>

ConsumerStep ==
  \/ ListKeys
  \/ FetchKey
  \/ FetchPoison
  \/ OpenWatch
  \/ Consume
  \/ ConsumePoison
  \/ ConsumeSentinel

WatchNext ==
  \/ Writers(Next)
  \/ ConsumerStep
  \/ Restart

(* The consumer's loop goes on; nobody has to write.                       *)
WatchSpec == WatchInit /\ [][WatchNext]_watchVars /\ WF_watchVars(ConsumerStep)
-----------------------------------------------------------------------------
(* The publisher CLI alone: first registrations, CAS revokes and unrevokes.*)
OperatorStep ==
  \/ \E k \in Keys, r \in Record :
       /\ bucket[k] = NeverWritten
       /\ r.revoked = None /\ r.marker = None
       /\ Put(k, r)
  \/ \E c \in Clients, k \in Keys :
       \/ \E t \in Instants : ReadToRevoke(c, k, t, FALSE)
       \/ ReadToUnrevoke(c, k)
  \/ \E c \in Clients :
       \/ GateRefuses(c)
       \/ GateAdmits(c)
       \/ UpdateCommits(c)
       \/ UpdateConflicts(c)
       \/ PutCommits(c)

OperatorNext ==
  \/ Writers(OperatorStep)
  \/ ConsumerStep

OperatorSpec == WatchInit /\ [][OperatorNext]_watchVars
-----------------------------------------------------------------------------
(* Every variable has its type.                                            *)
WatchTypeOK ==
  /\ TypeOK
  /\ phase \in Phases
  /\ todo \subseteq Keys
  /\ queue \in Seq(Event \cup {Sentinel})
  /\ live \in [Keys -> Record \cup {None}]
  /\ lastRevision \in 0..MaxRevision
  /\ revokedAt \in [Keys -> Instants \cup {None}]
  /\ restarts \in 0..MaxRestarts

PendingFor(k) == {i \in DOMAIN queue : queue[i].key = k}

(* What the view holds of k once everything delivered is consumed.         *)
Foreseen(k) == IF PendingFor(k) = {} THEN live[k] ELSE queue[Max(PendingFor(k))].val

(* The snapshot is torn and older than the watch, and the bucket has moved *)
(* on between them and since.  Still, while the stream is open, the view   *)
(* plus what the stream still holds is the bucket: no write and no         *)
(* deletion is lost in the gap between snapshot() and watch().             *)
LiveCatchesUp ==
  phase = "open" =>
    /\ \A k \in Keys : Foreseen(k) = bucket[k].val
    /\ (\A k \in Keys : PendingFor(k) = {}) => lastRevision = seq

(* The transition the bucket really made, by the decision table in         *)
(* classify's own documentation.                                           *)
Happened(was, v) ==
  LET X == IF Revoked(was) THEN was.revoked ELSE None IN
  CASE v = None                                -> "KEY_REMOVED"
    [] v # None /\ X = None /\ v.revoked = None -> "NOT_REVOCATION_RELATED"
    [] v # None /\ X = None /\ v.revoked # None -> "REVOCATION_TRANSITION"
    [] v # None /\ X # None /\ v.revoked = X    -> "REVOCATION_REFRESH"
    [] v # None /\ X # None /\ v.revoked = None /\ v.marker = X -> "EXPLICIT_UNREVOKE"
    [] OTHER                                   -> "REVOCATION_MONOTONIC_BREACH"

(* Every event of the live tail is classified as the transition the bucket *)
(* made, although the classifier was seeded from a torn snapshot, fed a    *)
(* replay and may have been restarted: no breach passes as a refresh, and  *)
(* none is reported that did not happen.                                   *)
TailVerdictsAreTrue ==
  [][Consume => LET e == Head(queue) IN
       e.tail => Classify(revokedAt[e.key], e.val) = Happened(e.was, e.val)]_watchVars

(* Writers fall silent (MaxRevision) and the consumer stops dying: it ends *)
(* with the bucket's records in its view, unless a poisoned key is left,   *)
(* which aborts every snapshot.                                            *)
Converges ==
  <>[](\A k \in Keys : live[k] = bucket[k].val)
    \/ []<>(\E k \in Keys : bucket[k].val = Poison)

(* What the audit marker is for: an unrevoke by an authorised operator is  *)
(* told from a breach on the watch stream alone.  When only operators      *)
(* write, the live tail shows no breach.                                   *)
OperatorsNeverBreach ==
  [][Consume => LET e == Head(queue) IN
       e.tail => Classify(revokedAt[e.key], e.val) # "REVOCATION_MONOTONIC_BREACH"]_watchVars

=============================================================================

------------------------ MODULE CapabilityPolicyStore ------------------------
(***************************************************************************)
(* The capability-policy bucket and everyone who writes it.                *)
(*                                                                         *)
(* NatsKvCapabilityPolicyBackend offers a last-write-wins put, a CAS-pin   *)
(* (put_with_revision, which first re-reads the key for its                *)
(* revocation-monotonic gate and then updates at the revision the caller   *)
(* once read) and delete.  The publisher CLI builds its revoke and         *)
(* unrevoke commands on them.  Every await on the bucket is a point where  *)
(* another client may run, so each command is a read, then a gate, then a  *)
(* write, and anything may happen in between.                              *)
(*                                                                         *)
(* A record keeps what the revocation axis tells apart: the instant        *)
(* revoked_at, the instant the unrevoke audit marker names, and "bundle",  *)
(* which stands for every other field of the policy.                       *)
(***************************************************************************)
EXTENDS KvBucket

CONSTANTS
  Clients,      \* publisher-CLI invocations and API callers
  Keys,         \* capability-policies/<registered_by>/<policy_id>
  Instants,     \* revocation instants
  Bundles,      \* contents of the fields that are not about revocation
  Poison,       \* bytes that do not decode to a record
  MaxRevision   \* bound: the bucket takes this many writes

ASSUME NoneIsNoValue ==
  /\ None \notin Instants \cup Bundles
  /\ Poison # None

ASSUME MaxRevisionIsNat == MaxRevision \in Nat

(* The constructor refuses a marker on a record that is revoked.           *)
Record ==
  {r \in [bundle  : Bundles,
          revoked : Instants \cup {None},
          marker  : Instants \cup {None}] :
     r.marker # None => r.revoked = None}

Value == Record \cup {Poison}

ASSUME ValuesAreDistinct == None \notin Record /\ Poison \notin Record

VARIABLES
  bucket,     \* the KV bucket
  seq,        \* the last revision the bucket handed out
  call        \* what each client is in the middle of

vars == <<bucket, seq, call>>

Idle == [stage |-> "idle"]

Call == [stage : {"gate", "update", "put"},
         op    : {"edit", "revoke", "unrevoke"},
         key   : Keys,
         rec   : Record,              \* the record about to be written
         seen  : Entry(Value)]      \* the entry it was derived from

Init ==
  /\ bucket = [k \in Keys |-> NeverWritten]
  /\ seq = 0
  /\ call = [c \in Clients |-> Idle]
-----------------------------------------------------------------------------
Revoked(v) == v \in Record /\ v.revoked # None

Commit(k, v) ==
  /\ seq < MaxRevision
  /\ seq' = seq + 1
  /\ bucket' = Stored(bucket, k, v, seq + 1)

Begin(c, stage, op, k, r) ==
  /\ call[c] = Idle
  /\ call' = [call EXCEPT ![c] = [stage |-> stage, op |-> op, key |-> k,
                                  rec |-> r, seen |-> bucket[k]]]
  /\ UNCHANGED <<bucket, seq>>

Finish(c) == call' = [call EXCEPT ![c] = Idle]
-----------------------------------------------------------------------------
(* revoke: read the live record (a missing or poisoned one ends the        *)
(* command), overlay the instant and drop any marker.  --lww goes straight *)
(* to put, the default pins the CAS to the revision just read;             *)
(* --expected-revision only adds an early exit when it differs from it.    *)
ReadToRevoke(c, k, t, lww) ==
  /\ bucket[k].val \in Record
  /\ Begin(c, IF lww THEN "put" ELSE "gate", "revoke", k,
           [bucket[k].val EXCEPT !.revoked = t, !.marker = None])

(* Faulty variant: the instant stays beside the marker.                    *)
ReadToUnrevokeKeepingInstant(c, k) ==
  /\ Revoked(bucket[k].val)
  /\ Begin(c, "put", "unrevoke", k,
           [bucket[k].val EXCEPT !.marker = bucket[k].val.revoked])

(* unrevoke: refused unless the record just read is revoked; clears the    *)
(* instant and names it in the audit marker.  Always a put.                *)
ReadToUnrevoke(c, k) ==
  /\ Revoked(bucket[k].val)
  /\ Begin(c, "put", "unrevoke", k,
           [bucket[k].val EXCEPT !.revoked = None,
                                 !.marker = bucket[k].val.revoked])

(* An API caller: get_with_revision (poison raises), then any record.  An  *)
(* absent key pins revision 0, the create-if-absent case.                  *)
ReadToEdit(c, k, r) ==
  /\ bucket[k].val # Poison
  /\ Begin(c, "gate", "edit", k, r)

(* The revocation-monotonic gate over the value the key holds now.         *)
Admits(v, r) ==
  /\ v # Poison
  /\ Revoked(v) => r.revoked = v.revoked

GateRefuses(c) ==
  /\ call[c].stage = "gate"
  /\ ~Admits(bucket[call[c].key].val, call[c].rec)
  /\ Finish(c)
  /\ UNCHANGED <<bucket, seq>>

(* Faulty variants: the gate forgets its condition; the gate pins the      *)
(* revision it reads instead of the caller's.                              *)
GateAdmitsAnything(c) ==
  /\ call[c].stage = "gate"
  /\ call' = [call EXCEPT ![c].stage = "update"]
  /\ UNCHANGED <<bucket, seq>>

GateAdmitsAndRepins(c) ==
  /\ call[c].stage = "gate"
  /\ Admits(bucket[call[c].key].val, call[c].rec)
  /\ call' = [call EXCEPT ![c].stage = "update", ![c].seen = bucket[call[c].key]]
  /\ UNCHANGED <<bucket, seq>>

GateAdmits(c) ==
  /\ call[c].stage = "gate"
  /\ Admits(bucket[call[c].key].val, call[c].rec)
  /\ call' = [call EXCEPT ![c].stage = "update"]
  /\ UNCHANGED <<bucket, seq>>

SeenRevision(s) == IF s.val # None THEN s.rev ELSE 0

PinHolds(c) ==
  LiveRevision(bucket, call[c].key) = SeenRevision(call[c].seen)

(* Faulty variant: the update is not conditional on the pin.               *)
UpdateCommitsUnpinned(c) ==
  /\ call[c].stage = "update"
  /\ Commit(call[c].key, call[c].rec)
  /\ Finish(c)

UpdateCommits(c) ==
  /\ call[c].stage = "update"
  /\ PinHolds(c)
  /\ Commit(call[c].key, call[c].rec)
  /\ Finish(c)

UpdateConflicts(c) ==
  /\ call[c].stage = "update"
  /\ ~PinHolds(c)
  /\ Finish(c)
  /\ UNCHANGED <<bucket, seq>>

(* The put that ends revoke --lww and unrevoke.                            *)
PutCommits(c) ==
  /\ call[c].stage = "put"
  /\ Commit(call[c].key, call[c].rec)
  /\ Finish(c)

(* The command dies, or the transport fails, before its write.             *)
Abort(c) ==
  /\ call[c] # Idle
  /\ Finish(c)
  /\ UNCHANGED <<bucket, seq>>
-----------------------------------------------------------------------------
(* put and delete called outright; delete of an absent key does nothing.   *)
Put(k, r) == Commit(k, r) /\ UNCHANGED call

Delete(k) ==
  /\ Live(bucket, k)
  /\ seq < MaxRevision
  /\ seq' = seq + 1
  /\ bucket' = Tombstoned(bucket, k, seq + 1)
  /\ UNCHANGED call

(* Somebody outside the backend stores bytes that do not decode.           *)
Corrupt(k) == Commit(k, Poison) /\ UNCHANGED call

ClientStep(c) ==
  \/ \E k \in Keys, t \in Instants, lww \in BOOLEAN : ReadToRevoke(c, k, t, lww)
  \/ \E k \in Keys : ReadToUnrevoke(c, k)
  \/ \E k \in Keys, r \in Record : ReadToEdit(c, k, r)
  \/ GateRefuses(c)
  \/ GateAdmits(c)
  \/ UpdateCommits(c)
  \/ UpdateConflicts(c)
  \/ PutCommits(c)
  \/ Abort(c)

Next ==
  \/ \E c \in Clients : ClientStep(c)
  \/ \E k \in Keys, r \in Record : Put(k, r)
  \/ \E k \in Keys : Delete(k)
  \/ \E k \in Keys : Corrupt(k)

Spec == Init /\ [][Next]_vars
-----------------------------------------------------------------------------
(* Every variable has its type.                                            *)
TypeOK ==
  /\ bucket \in [Keys -> Entry(Value)]
  /\ seq \in 0..MaxRevision
  /\ call \in [Clients -> {Idle} \cup Call]

(* Between its read and its write a call may sleep for as long as it        *)
(* likes.  If its pin still holds then nothing happened to the key: the    *)
(* value is the one it was derived from, and a gate it has passed would    *)
(* still let it pass.  Deleting and re-creating the key breaks the pin.    *)
PinMeansUnchanged ==
  \A c \in Clients : call[c] # Idle /\ PinHolds(c) =>
    /\ bucket[call[c].key].val = call[c].seen.val
    /\ call[c].stage = "update" => Admits(bucket[call[c].key].val, call[c].rec)

(* put_with_revision reads the key for its gate and updates it in a later  *)
(* await.  Still no CAS-pinned write ever lifts a revocation or moves its  *)
(* instant, whoever revoked the key in between.                            *)
CasPreservesRevocation ==
  [][\A c \in Clients : UpdateCommits(c) =>
       LET k == call[c].key IN
         Revoked(bucket[k].val) => bucket'[k].val.revoked = bucket[k].val.revoked]_vars

(* A CAS-pinned revoke rewrites the record it overwrites, and only its     *)
(* revocation: no concurrent edit of the bundle is lost.                   *)
CasRevokeKeepsBundle ==
  [][\A c \in Clients : UpdateCommits(c) /\ call[c].op = "revoke" =>
       LET k == call[c].key IN bucket'[k].val.bundle = bucket[k].val.bundle]_vars

(* put_with_revision never overwrites a poisoned envelope, also when the   *)
(* poison arrived after the gate had read a good one.                      *)
CasNeverBuriesPoison ==
  [][\A c \in Clients : UpdateCommits(c) => bucket[call[c].key].val # Poison]_vars

(* What the doc of unrevoke says of its rewrite: every other field of the  *)
(* bundle is preserved.  The write is a put, so an edit between its read   *)
(* and its write is lost.                                                  *)
UnrevokeKeepsBundle ==
  [][\A c \in Clients : PutCommits(c) /\ call[c].op = "unrevoke" =>
       LET k == call[c].key IN
         bucket[k].val \in Record => bucket'[k].val.bundle = bucket[k].val.bundle]_vars
=============================================================================

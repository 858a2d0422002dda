------------------------ MODULE RevocationWatchProofs ------------------------
(***************************************************************************)
(* Proofs about CapabilityPolicyStore and the consumer that watches it,    *)
(* for any clients, keys, instants and bundles and any number of writes    *)
(* and restarts.                                                           *)
(*                                                                         *)
(* The store: a revision is handed out once.  What a call has read carries *)
(* a revision the bucket has already reached, so every later write to the  *)
(* key moves the key past it, and the update at the end of                 *)
(* put_with_revision can only succeed on the entry the caller read.  The   *)
(* gate read that entry too, since it sits between the two.                *)
(*                                                                         *)
(* The watch: the replay brings the last operation of every key ever       *)
(* written, so from there on the last event pending of a key carries what  *)
(* the bucket holds, and the view holds it when none is pending            *)
(* (StreamEndsInBucket).  An event therefore overwrites what the one       *)
(* before it of its key wrote, or the view (EventsAreChained), and that is *)
(* what the classifier remembers.                                          *)
(***************************************************************************)
EXTENDS RevocationWatch, ListLemmas

-----------------------------------------------------------------------------
(* The store.                                                              *)

(* Revisions in the bucket, and those remembered by calls, are in the      *)
(* past; an entry with a value has a revision of its own.                  *)
RevisionsInThePast ==
  /\ \A k \in Keys : bucket[k].rev <= seq /\ (Live(bucket, k) => bucket[k].rev > 0)
  /\ \A c \in Clients : call[c] # Idle =>
       /\ call[c].seen.rev <= seq
       /\ call[c].seen.val # None => call[c].seen.rev > 0

(* A revoke is about to write the bundle it read.                          *)
RevokesKeepBundle ==
  \A c \in Clients : call[c] # Idle /\ call[c].op = "revoke" =>
    call[c].rec.bundle = call[c].seen.val.bundle

IInv == TypeOK /\ RevisionsInThePast /\ RevokesKeepBundle /\ PinMeansUnchanged

(* A write gives the key a value and the next revision, and leaves the     *)
(* other keys alone.                                                       *)
LEMMA CommitEffect ==
  ASSUME TypeOK, NEW k \in Keys, NEW v \in Value, Commit(k, v)
  PROVE  /\ seq' \in 0..MaxRevision
         /\ seq' = seq + 1
         /\ bucket' \in [Keys -> Entry(Value)]
         /\ bucket'[k] = [val |-> v, rev |-> seq + 1]
         /\ \A j \in Keys : j # k => bucket'[j] = bucket[j]
  BY MaxRevisionIsNat DEF TypeOK, Commit, Stored, Entry

(* Starting a call only fills the caller's slot, with a copy of the entry. *)
LEMMA BeginEffect ==
  ASSUME TypeOK, NEW c \in Clients, NEW k \in Keys, NEW r \in Record,
         NEW stage \in {"gate", "put"}, NEW op \in {"edit", "revoke", "unrevoke"},
         Begin(c, stage, op, k, r)
  PROVE  /\ call' \in [Clients -> {Idle} \cup Call]
         /\ call'[c] = [stage |-> stage, op |-> op, key |-> k, rec |-> r,
                        seen |-> bucket[k]]
         /\ \A d \in Clients : d # c => call'[d] = call[d]
         /\ UNCHANGED <<bucket, seq>>
<1>1. [stage |-> stage, op |-> op, key |-> k, rec |-> r, seen |-> bucket[k]] \in Call
  BY DEF TypeOK, Call
<1> QED BY <1>1 DEF TypeOK, Begin

LEMMA FinishEffect ==
  ASSUME TypeOK, NEW c \in Clients, Finish(c)
  PROVE  /\ call' \in [Clients -> {Idle} \cup Call]
         /\ call'[c] = Idle
         /\ \A d \in Clients : d # c => call'[d] = call[d]
  BY DEF TypeOK, Finish

(* Every step of a client, and every write from outside, is one of these.  *)
LEMMA ActiveCall ==
  ASSUME TypeOK, NEW c \in Clients, call[c].stage \in {"gate", "update", "put"}
  PROVE  call[c] \in Call /\ call[c] # Idle
  BY DEF TypeOK, Idle

(* What revoke and unrevoke build from a record is a record.               *)
LEMMA OverlaysAreRecords ==
  ASSUME NEW r \in Record
  PROVE  /\ \A t \in Instants :
              /\ [r EXCEPT !.revoked = t, !.marker = None] \in Record
              /\ [r EXCEPT !.revoked = t, !.marker = None].bundle = r.bundle
         /\ [r EXCEPT !.revoked = None, !.marker = r.revoked] \in Record
<1>1. r \in [bundle : Bundles, revoked : Instants \cup {None}, marker : Instants \cup {None}]
  BY DEF Record
<1>2. ASSUME NEW t \in Instants
      PROVE  /\ [r EXCEPT !.revoked = t, !.marker = None] \in Record
             /\ [r EXCEPT !.revoked = t, !.marker = None].bundle = r.bundle
  <2> DEFINE q == [r EXCEPT !.revoked = t, !.marker = None]
  <2>1. q \in [bundle : Bundles, revoked : Instants \cup {None}, marker : Instants \cup {None}]
    BY <1>1
  <2>2. q.marker = None /\ q.bundle = r.bundle
    BY <1>1
  <2> QED BY <2>1, <2>2 DEF Record
<1>3. [r EXCEPT !.revoked = None, !.marker = r.revoked] \in Record
  <2> DEFINE q == [r EXCEPT !.revoked = None, !.marker = r.revoked]
  <2>1. q \in [bundle : Bundles, revoked : Instants \cup {None}, marker : Instants \cup {None}]
    BY <1>1
  <2>2. q.revoked = None
    BY <1>1
  <2> QED BY <2>1, <2>2 DEF Record
<1> QED BY <1>2, <1>3

LEMMA InitEstablishes == Init => IInv
<1> SUFFICES ASSUME Init PROVE IInv
  OBVIOUS
<1>1. TypeOK
  BY MaxRevisionIsNat DEF Init, TypeOK, NeverWritten, Entry
<1>2. RevisionsInThePast
  BY DEF Init, RevisionsInThePast, NeverWritten, Live
<1>3. PinMeansUnchanged
  BY DEF Init, PinMeansUnchanged
<1>4. RevokesKeepBundle
  BY DEF Init, RevokesKeepBundle
<1> QED BY <1>1, <1>2, <1>3, <1>4 DEF IInv

(* A client that starts a call: what it has just read is what is there.    *)
LEMMA BeginPreserves ==
  ASSUME IInv, NEW c \in Clients, NEW k \in Keys, NEW r \in Record,
         NEW stage \in {"gate", "put"}, NEW op \in {"edit", "revoke", "unrevoke"},
         op = "revoke" => r.bundle = bucket[k].val.bundle,
         Begin(c, stage, op, k, r)
  PROVE  IInv'
<1>1. TypeOK
  BY DEF IInv
<1>2. /\ call' \in [Clients -> {Idle} \cup Call]
      /\ call'[c] = [stage |-> stage, op |-> op, key |-> k, rec |-> r, seen |-> bucket[k]]
      /\ \A d \in Clients : d # c => call'[d] = call[d]
      /\ bucket' = bucket /\ seq' = seq
  BY <1>1, BeginEffect
<1>3. TypeOK'
  BY <1>1, <1>2 DEF TypeOK
<1>4. RevisionsInThePast'
  BY <1>2 DEF IInv, RevisionsInThePast, Live
<1>5. PinMeansUnchanged'
  <2> SUFFICES ASSUME NEW d \in Clients, call'[d] # Idle, PinHolds(d)'
               PROVE  /\ bucket'[call'[d].key].val = call'[d].seen.val
                      /\ call'[d].stage = "update" => Admits(bucket'[call'[d].key].val, call'[d].rec)
    BY DEF PinMeansUnchanged
  <2>1. CASE d = c
    BY <1>2, <2>1
  <2>2. CASE d # c
    BY <1>2, <2>2 DEF IInv, PinMeansUnchanged, PinHolds, LiveRevision, Live, SeenRevision
  <2> QED BY <2>1, <2>2
<1>6. RevokesKeepBundle'
  BY <1>2 DEF IInv, RevokesKeepBundle
<1> QED BY <1>3, <1>4, <1>5, <1>6 DEF IInv

(* A call that ends without a write.                                       *)
LEMMA FinishPreserves ==
  ASSUME IInv, NEW c \in Clients, Finish(c), UNCHANGED <<bucket, seq>>
  PROVE  IInv'
<1>1. TypeOK
  BY DEF IInv
<1>2. /\ call' \in [Clients -> {Idle} \cup Call]
      /\ call'[c] = Idle
      /\ \A d \in Clients : d # c => call'[d] = call[d]
  BY <1>1, FinishEffect
<1>3. TypeOK'
  BY <1>1, <1>2 DEF TypeOK
<1>4. RevisionsInThePast'
  BY <1>2 DEF IInv, RevisionsInThePast, Live
<1>5. PinMeansUnchanged'
  BY <1>2 DEF IInv, PinMeansUnchanged, PinHolds, LiveRevision, Live, SeenRevision
<1>6. RevokesKeepBundle'
  BY <1>2 DEF IInv, RevokesKeepBundle
<1> QED BY <1>3, <1>4, <1>5, <1>6 DEF IInv

(* The key was written, or deleted, at a fresh revision; calls that stay   *)
(* in progress keep what they had.  Those on that key lose their pin,      *)
(* unless both sides are "no value".                                       *)
LEMMA WritePreserves ==
  ASSUME IInv, NEW k \in Keys, NEW v \in Value \cup {None},
         seq' \in 0..MaxRevision, seq' = seq + 1,
         bucket' \in [Keys -> Entry(Value)],
         bucket'[k] = [val |-> v, rev |-> seq + 1],
         \A j \in Keys : j # k => bucket'[j] = bucket[j],
         call' \in [Clients -> {Idle} \cup Call],
         \A d \in Clients : call'[d] = Idle \/ call'[d] = call[d]
  PROVE  IInv'
<1>1. TypeOK /\ RevisionsInThePast /\ PinMeansUnchanged
  BY DEF IInv
<1>2. seq \in Nat
  BY <1>1, MaxRevisionIsNat DEF TypeOK
<1>3. TypeOK'
  BY DEF TypeOK
<1>4. RevisionsInThePast'
  <2>1. ASSUME NEW j \in Keys
        PROVE  bucket'[j].rev <= seq' /\ (bucket'[j].val # None => bucket'[j].rev > 0)
    <3>1. bucket[j].rev \in Nat
      BY <1>1 DEF TypeOK, Entry
    <3> QED BY <1>1, <1>2, <3>1 DEF RevisionsInThePast, Live
  <2>2. ASSUME NEW d \in Clients, call'[d] # Idle
        PROVE  /\ call'[d].seen.rev <= seq'
               /\ call'[d].seen.val # None => call'[d].seen.rev > 0
    <3>1. call[d] \in Call /\ call'[d] = call[d]
      BY <1>1, <2>2 DEF TypeOK
    <3>2. call[d].seen.rev \in Nat
      BY <3>1 DEF Call, Entry
    <3> QED BY <1>1, <1>2, <2>2, <3>1, <3>2 DEF RevisionsInThePast
  <2> QED BY <2>1, <2>2 DEF RevisionsInThePast, Live
<1>5. PinMeansUnchanged'
  <2> SUFFICES ASSUME NEW d \in Clients, call'[d] # Idle, PinHolds(d)'
               PROVE  /\ bucket'[call'[d].key].val = call'[d].seen.val
                      /\ call'[d].stage = "update" => Admits(bucket'[call'[d].key].val, call'[d].rec)
    BY DEF PinMeansUnchanged
  <2>1. call[d] \in Call /\ call'[d] = call[d] /\ call[d] # Idle
    BY <1>1 DEF TypeOK
  <2>2. call[d].key \in Keys /\ call[d].seen.rev \in Nat /\ call[d].seen.rev <= seq
    BY <1>1, <2>1 DEF Call, Entry, RevisionsInThePast
  <2>3. CASE call[d].key # k
    BY <1>1, <2>1, <2>2, <2>3
       DEF PinMeansUnchanged, PinHolds, LiveRevision, Live, SeenRevision
  <2>4. CASE call[d].key = k
    <3>1. (IF v # None THEN seq + 1 ELSE 0) = SeenRevision(call[d].seen)
      BY <2>1, <2>4 DEF PinHolds, LiveRevision, Live, SeenRevision
    <3>2. v = None /\ call[d].seen.val = None
      BY <1>1, <1>2, <2>1, <2>2, <3>1 DEF SeenRevision, RevisionsInThePast
    <3>3. Admits(None, call[d].rec)
      BY NoneIsNoValue, ValuesAreDistinct DEF Admits, Revoked
    <3> QED BY <2>1, <2>4, <3>2, <3>3
  <2> QED BY <2>3, <2>4
<1>6. RevokesKeepBundle'
  BY DEF IInv, RevokesKeepBundle
<1> QED BY <1>3, <1>4, <1>5, <1>6 DEF IInv

(* The update of put_with_revision, and the put of revoke --lww and        *)
(* unrevoke: a write of the call's own record.                             *)
LEMMA CallWritePreserves ==
  ASSUME IInv, NEW c \in Clients, call[c].stage \in {"update", "put"},
         Commit(call[c].key, call[c].rec), Finish(c)
  PROVE  IInv'
<1>1. TypeOK
  BY DEF IInv
<1>2. call[c] \in Call
  BY <1>1, ActiveCall
<1>3. call[c].key \in Keys /\ call[c].rec \in Value
  BY <1>2 DEF Call, Value
<1> QED
  BY <1>1, <1>3, CommitEffect, FinishEffect, WritePreserves

LEMMA ClientStepPreserves ==
  ASSUME IInv, NEW c \in Clients, ClientStep(c)
  PROVE  IInv'
<1>1. TypeOK
  BY DEF IInv
<1>2. ASSUME NEW k \in Keys, NEW t \in Instants, NEW lww \in BOOLEAN,
             ReadToRevoke(c, k, t, lww)
      PROVE  IInv'
  <2> DEFINE r == [bucket[k].val EXCEPT !.revoked = t, !.marker = None]
             stage == IF lww THEN "put" ELSE "gate"
  <2>1. r \in Record /\ r.bundle = bucket[k].val.bundle /\ Begin(c, stage, "revoke", k, r)
    BY <1>2, OverlaysAreRecords DEF ReadToRevoke
  <2>2. stage \in {"gate", "put"}
    OBVIOUS
  <2> HIDE DEF r, stage
  <2> QED BY <2>1, <2>2, BeginPreserves
<1>3. ASSUME NEW k \in Keys, ReadToUnrevoke(c, k)
      PROVE  IInv'
  <2> DEFINE r == [bucket[k].val EXCEPT !.revoked = None, !.marker = bucket[k].val.revoked]
  <2>1. r \in Record /\ Begin(c, "put", "unrevoke", k, r)
    BY <1>3, OverlaysAreRecords DEF ReadToUnrevoke, Revoked
  <2> HIDE DEF r
  <2> QED BY <2>1, BeginPreserves
<1>4. ASSUME NEW k \in Keys, NEW r \in Record, ReadToEdit(c, k, r)
      PROVE  IInv'
  BY <1>4, BeginPreserves DEF ReadToEdit
<1>5. CASE GateRefuses(c)
  BY <1>5, FinishPreserves DEF GateRefuses
<1>6. CASE GateAdmits(c)
  <2>1. call[c] \in Call /\ call[c] # Idle
    BY <1>1, <1>6, ActiveCall DEF GateAdmits
  <2>2. /\ call'[c] = [call[c] EXCEPT !.stage = "update"]
        /\ \A d \in Clients : d # c => call'[d] = call[d]
        /\ call' \in [Clients -> {Idle} \cup Call]
        /\ bucket' = bucket /\ seq' = seq
    BY <1>1, <1>6, <2>1 DEF GateAdmits, TypeOK, Call
  <2>3. /\ call'[c].key = call[c].key /\ call'[c].rec = call[c].rec
        /\ call'[c].seen = call[c].seen
    BY <2>1, <2>2 DEF Call
  <2>4. TypeOK'
    BY <1>1, <2>2 DEF TypeOK
  <2>5. RevisionsInThePast'
    BY <2>1, <2>2, <2>3 DEF IInv, RevisionsInThePast, Live
  <2>6. PinMeansUnchanged'
    BY <1>6, <2>1, <2>2, <2>3
       DEF IInv, PinMeansUnchanged, PinHolds, LiveRevision, Live, SeenRevision, GateAdmits
  <2>7. RevokesKeepBundle'
    BY <2>1, <2>2, <2>3 DEF IInv, RevokesKeepBundle, Call
  <2> QED BY <2>4, <2>5, <2>6, <2>7 DEF IInv
<1>7. CASE UpdateCommits(c)
  BY <1>7, CallWritePreserves DEF UpdateCommits
<1>8. CASE UpdateConflicts(c)
  BY <1>8, FinishPreserves DEF UpdateConflicts
<1>9. CASE PutCommits(c)
  BY <1>9, CallWritePreserves DEF PutCommits
<1>10. CASE Abort(c)
  BY <1>10, FinishPreserves DEF Abort
<1> QED
  BY <1>2, <1>3, <1>4, <1>5, <1>6, <1>7, <1>8, <1>9, <1>10 DEF ClientStep

LEMMA NextPreserves == IInv /\ [Next]_vars => IInv'
<1> SUFFICES ASSUME IInv, [Next]_vars PROVE IInv'
  OBVIOUS
<1>1. TypeOK /\ call \in [Clients -> {Idle} \cup Call]
  BY DEF IInv, TypeOK
<1>2. CASE UNCHANGED vars
  BY <1>2 DEF vars, IInv, TypeOK, RevisionsInThePast, RevokesKeepBundle,
              PinMeansUnchanged, PinHolds, LiveRevision, Live, SeenRevision
<1>3. ASSUME NEW c \in Clients, ClientStep(c) PROVE IInv'
  BY <1>3, ClientStepPreserves
<1>4. ASSUME NEW k \in Keys, NEW v \in Value, Commit(k, v), UNCHANGED call PROVE IInv'
  BY <1>1, <1>4, CommitEffect, WritePreserves
<1>5. ASSUME NEW k \in Keys, Delete(k) PROVE IInv'
  <2>1. /\ seq' \in 0..MaxRevision /\ seq' = seq + 1
        /\ bucket' \in [Keys -> Entry(Value)]
        /\ bucket'[k] = [val |-> None, rev |-> seq + 1]
        /\ \A j \in Keys : j # k => bucket'[j] = bucket[j]
    BY <1>1, <1>5, MaxRevisionIsNat DEF TypeOK, Delete, Tombstoned, Stored, Entry
  <2> QED BY <1>1, <1>5, <2>1, WritePreserves DEF Delete
<1> QED
  BY <1>2, <1>3, <1>4, <1>5 DEF Next, Put, Corrupt, Value

THEOREM Invariance == Spec => []IInv
  BY InitEstablishes, NextPreserves, PTL DEF Spec

(* The types of the bucket, its counter and the calls in progress.         *)
THEOREM TypeCorrect == Spec => []TypeOK
<1>1. IInv => TypeOK
  BY DEF IInv
<1> QED BY <1>1, Invariance, PTL

(* A pin that still holds means the key was not touched since the read.    *)
THEOREM PinCorrect == Spec => []PinMeansUnchanged
<1>1. IInv => PinMeansUnchanged
  BY DEF IInv
<1> QED BY <1>1, Invariance, PTL

(* What a successful update overwrites is what the call read, and the gate *)
(* would admit the new record over it.                                     *)
LEMMA UpdateOverwritesWhatItRead ==
  ASSUME IInv, NEW c \in Clients, UpdateCommits(c)
  PROVE  /\ call[c] \in Call
         /\ bucket[call[c].key].val = call[c].seen.val
         /\ Admits(bucket[call[c].key].val, call[c].rec)
         /\ bucket'[call[c].key].val = call[c].rec
<1>1. TypeOK /\ call[c].stage = "update" /\ PinHolds(c)
  BY DEF IInv, UpdateCommits
<1>2. call[c] \in Call /\ call[c] # Idle
  BY <1>1, ActiveCall
<1>3. call[c].key \in Keys /\ call[c].rec \in Value
  BY <1>2 DEF Call, Value
<1>4. bucket'[call[c].key].val = call[c].rec
  <2>1. Commit(call[c].key, call[c].rec)
    BY DEF UpdateCommits
  <2>2. bucket'[call[c].key] = [val |-> call[c].rec, rev |-> seq + 1]
    BY <1>1, <1>3, <2>1, CommitEffect
  <2> QED BY <2>2
<1> QED BY <1>1, <1>2, <1>4 DEF IInv, PinMeansUnchanged

(* No CAS-pinned write lifts a revocation or moves its instant.            *)
THEOREM RevocationSafety == Spec => CasPreservesRevocation
<1>1. IInv /\ [Next]_vars =>
        [\A c \in Clients : UpdateCommits(c) =>
           LET k == call[c].key IN
             Revoked(bucket[k].val) => bucket'[k].val.revoked = bucket[k].val.revoked]_vars
  BY UpdateOverwritesWhatItRead DEF Admits
<1> QED BY <1>1, Invariance, PTL DEF Spec, CasPreservesRevocation

(* A CAS-pinned revoke loses no concurrent edit of the bundle.             *)
THEOREM RevokeLosesNoEdit == Spec => CasRevokeKeepsBundle
<1>1. IInv /\ [Next]_vars =>
        [\A c \in Clients : UpdateCommits(c) /\ call[c].op = "revoke" =>
           LET k == call[c].key IN bucket'[k].val.bundle = bucket[k].val.bundle]_vars
  <2> SUFFICES ASSUME IInv, NEW c \in Clients, UpdateCommits(c), call[c].op = "revoke"
               PROVE  bucket'[call[c].key].val.bundle = bucket[call[c].key].val.bundle
    OBVIOUS
  <2>1. call[c] # Idle
    BY ActiveCall DEF IInv, UpdateCommits
  <2> QED BY <2>1, UpdateOverwritesWhatItRead DEF IInv, RevokesKeepBundle
<1> QED BY <1>1, Invariance, PTL DEF Spec, CasRevokeKeepsBundle

(* put_with_revision never overwrites a poisoned envelope.                 *)
THEOREM PoisonSafety == Spec => CasNeverBuriesPoison
<1>1. IInv /\ [Next]_vars =>
        [\A c \in Clients : UpdateCommits(c) => bucket[call[c].key].val # Poison]_vars
  BY UpdateOverwritesWhatItRead DEF Admits
<1> QED BY <1>1, Invariance, PTL DEF Spec, CasNeverBuriesPoison
-----------------------------------------------------------------------------
(* The consumer of the watch stream.                                       *)

(* Operation i of the stream q is the last one on k.                       *)
LastOf(i, k, q) == q[i].key = k /\ \A j \in 1..Len(q) : j > i => q[j].key # k

(* Operation j of the stream q is the one on the same key before i.        *)
Before(j, i, q) ==
  /\ j < i /\ q[j].key = q[i].key
  /\ \A m \in 1..Len(q) : j < m /\ m < i => q[m].key # q[i].key

(* Every operation has a revision of its own, and the bucket's counter is  *)
(* that of the last.                                                       *)
RevisionsAreUnique ==
  /\ \A k \in Keys : bucket[k].rev = 0 => bucket[k].val = None
  /\ \A k, l \in Keys : bucket[k].rev = bucket[l].rev /\ bucket[k].rev # 0 => k = l
  /\ seq # 0 => \E k \in Keys : bucket[k].rev = seq

(* The snapshot holds no key that was never written.                       *)
SnapshotOfWritten ==
  phase = "listed" =>
    lastRevision = 0 /\ \A k \in Keys : live[k] # None => bucket[k].rev # 0

ClassifierKnowsView ==
  \A k \in Keys : revokedAt[k] = IF live[k] = None THEN None ELSE live[k].revoked

StreamEndsInBucket ==
  phase = "open" => \A k \in Keys :
    /\ \A i \in 1..Len(queue) : LastOf(i, k, queue) => queue[i].val = bucket[k].val
    /\ (\A i \in 1..Len(queue) : queue[i].key # k) => live[k] = bucket[k].val

(* The same of the revisions: the last event has the bucket's last one.    *)
StreamReachesRevision ==
  phase = "open" =>
    /\ \A i \in 1..Len(queue) : queue[i].key \in Keys =>
         /\ queue[i].rev <= seq
         /\ (\A j \in 1..Len(queue) : j > i => queue[j].key \notin Keys) => queue[i].rev = seq
    /\ (\A i \in 1..Len(queue) : queue[i].key \notin Keys) => lastRevision = seq

EventsAreChained ==
  \A i \in 1..Len(queue) : queue[i].tail =>
    /\ \A j \in 1..Len(queue) : Before(j, i, queue) => queue[i].was = queue[j].val
    /\ (\A j \in 1..Len(queue) : j < i => queue[j].key # queue[i].key)
         => queue[i].was = live[queue[i].key]

WatchInv ==
  /\ IInv
  /\ WatchTypeOK
  /\ lastRevision <= seq
  /\ phase # "open" => queue = <<>>
  /\ RevisionsAreUnique
  /\ SnapshotOfWritten
  /\ ClassifierKnowsView
  /\ StreamEndsInBucket
  /\ StreamReachesRevision
  /\ EventsAreChained

(* What WatchTypeOK says, one variable after the other.                    *)
LEMMA WatchTypes ==
  ASSUME WatchTypeOK
  PROVE  /\ MaxRevision \in Nat /\ MaxRestarts \in Nat /\ Keys \subseteq Nat /\ None \notin Keys
         /\ bucket \in [Keys -> Entry(Value)] /\ seq \in Nat /\ seq <= MaxRevision
         /\ \A k \in Keys : bucket[k].val \in Value \cup {None} /\ bucket[k].rev \in Nat
         /\ phase \in Phases /\ todo \in SUBSET Keys
         /\ queue \in Seq(Event \cup {Sentinel}) /\ Len(queue) \in Nat
         /\ \A i \in 1..Len(queue) : queue[i] \in Event \cup {Sentinel}
         /\ live \in [Keys -> Record \cup {None}]
         /\ lastRevision \in Nat
         /\ revokedAt \in [Keys -> Instants \cup {None}]
         /\ restarts \in Nat
<1>1. /\ TypeOK /\ phase \in Phases /\ todo \in SUBSET Keys
      /\ queue \in Seq(Event \cup {Sentinel})
      /\ live \in [Keys -> Record \cup {None}] /\ lastRevision \in 0..MaxRevision
      /\ revokedAt \in [Keys -> Instants \cup {None}] /\ restarts \in 0..MaxRestarts
  BY DEF WatchTypeOK
<1>2. MaxRevision \in Nat /\ MaxRestarts \in Nat /\ Keys \subseteq Nat /\ None \notin Keys
  BY MaxRevisionIsNat, MaxRestartsIsNat, KeysAreOrdered
<1>3. bucket \in [Keys -> Entry(Value)] /\ seq \in 0..MaxRevision
  BY <1>1 DEF TypeOK
<1>4. \A k \in Keys : bucket[k].val \in Value \cup {None} /\ bucket[k].rev \in Nat
  BY <1>3 DEF Entry
<1>5. Len(queue) \in Nat /\ \A i \in 1..Len(queue) : queue[i] \in Event \cup {Sentinel}
  BY <1>1
<1>6. seq \in Nat /\ seq <= MaxRevision /\ lastRevision \in Nat /\ restarts \in Nat
  BY <1>1, <1>2, <1>3
<1> QED BY <1>1, <1>2, <1>3, <1>4, <1>5, <1>6

(* An event names a key, the sentinel does not.                            *)
LEMMA EventsHaveKeys ==
  ASSUME NEW e \in Event \cup {Sentinel}
  PROVE  /\ e \in Event <=> e.key \in Keys
         /\ e # Sentinel <=> e.key \in Keys
         /\ e.tail => e.key \in Keys
<1>1. None \notin Keys
  BY KeysAreOrdered
<1>2. Sentinel.key = None /\ Sentinel.tail = FALSE
  BY DEF Sentinel
<1>3. e \in Event => e.key \in Keys
  BY DEF Event
<1> QED BY <1>1, <1>2, <1>3

(* What a step of a writer does to the bucket.                             *)
Writes(k, v) ==
  /\ seq' = seq + 1
  /\ bucket' = [bucket EXCEPT ![k] = [val |-> v, rev |-> seq + 1]]

LEMMA CommitWrites ==
  ASSUME NEW k, NEW v, Commit(k, v)
  PROVE  Writes(k, v)
  BY DEF Commit, Stored, Writes

LEMMA WriterEffect ==
  ASSUME TypeOK, Next
  PROVE  \/ UNCHANGED <<bucket, seq>>
         \/ \E k \in Keys, v \in Value \cup {None} : Writes(k, v)
<1>1. ASSUME NEW c \in Clients, ClientStep(c)
      PROVE  \/ UNCHANGED <<bucket, seq>>
             \/ \E k \in Keys, v \in Value \cup {None} : Writes(k, v)
  <2>1. CASE UpdateCommits(c) \/ PutCommits(c)
    <3>1. call[c].stage \in {"update", "put"} /\ Commit(call[c].key, call[c].rec)
      BY <2>1 DEF UpdateCommits, PutCommits
    <3>2. call[c] \in Call
      BY <3>1, ActiveCall
    <3>3. call[c].key \in Keys /\ call[c].rec \in Value
      BY <3>2 DEF Call, Value
    <3> QED BY <3>1, <3>3, CommitWrites
  <2>2. CASE ~(UpdateCommits(c) \/ PutCommits(c))
    BY <1>1, <2>2 DEF ClientStep, ReadToRevoke, ReadToUnrevoke, ReadToEdit, Begin, GateRefuses,
                      GateAdmits, UpdateConflicts, Abort
  <2> QED BY <2>1, <2>2
<1>2. ASSUME NEW k \in Keys, NEW v \in Value, Commit(k, v)
      PROVE  \E l \in Keys, w \in Value \cup {None} : Writes(l, w)
  BY <1>2, CommitWrites
<1>3. ASSUME NEW k \in Keys, Delete(k)
      PROVE  \E l \in Keys, w \in Value \cup {None} : Writes(l, w)
  BY <1>3 DEF Delete, Tombstoned, Stored, Writes
<1> QED BY <1>1, <1>2, <1>3 DEF Next, Put, Corrupt, Value

(* What taking the head of the stream leaves in it.                        *)
LEMMA HeadTaken ==
  ASSUME WatchTypeOK, queue # <<>>, queue' = Tail(queue)
  PROVE  /\ 1 \in 1..Len(queue) /\ Head(queue) = queue[1]
         /\ queue' \in Seq(Event \cup {Sentinel}) /\ Len(queue') = Len(queue) - 1
         /\ \A i \in 1..Len(queue') : i + 1 \in 1..Len(queue) /\ queue'[i] = queue[i + 1]
         /\ \A j \in 1..Len(queue) : j # 1 =>
              j - 1 \in 1..Len(queue') /\ queue'[j - 1] = queue[j]
<1>1. queue \in Seq(Event \cup {Sentinel}) /\ Len(queue) \in Nat
  BY WatchTypes
<1>2. /\ 1 \in 1..Len(queue) /\ Head(queue) = queue[1]
      /\ queue' \in Seq(Event \cup {Sentinel}) /\ Len(queue') = Len(queue) - 1
      /\ \A i \in 1..Len(queue') : i + 1 \in 1..Len(queue) /\ queue'[i] = queue[i + 1]
  BY <1>1
<1>3. ASSUME NEW j \in 1..Len(queue), j # 1
      PROVE  j - 1 \in 1..Len(queue') /\ queue'[j - 1] = queue[j]
  <2>1. j - 1 \in 1..Len(queue') /\ (j - 1) + 1 = j
    BY <1>1, <1>2, <1>3
  <2> QED BY <1>2, <2>1
<1> QED BY <1>2, <1>3

(* One entry of the stream is applied, be it an event or the sentinel: the *)
(* view takes what the event carries, and the rest of the stream still     *)
(* ends in the bucket.                                                     *)
LEMMA TakingPreserves ==
  ASSUME WatchInv, phase = "open", queue # <<>>, queue' = Tail(queue),
         UNCHANGED <<bucket, seq, phase>>,
         \A k \in Keys : live'[k] = IF Head(queue).key = k THEN Head(queue).val ELSE live[k],
         lastRevision' = IF Head(queue).key \in Keys /\ Head(queue).rev > lastRevision
                         THEN Head(queue).rev ELSE lastRevision
  PROVE  /\ StreamEndsInBucket' /\ StreamReachesRevision' /\ EventsAreChained'
         /\ lastRevision' \in Nat /\ lastRevision' <= seq
<1> DEFINE h == Head(queue)
<1>1. WatchTypeOK
  BY DEF WatchInv
<1>2. /\ 1 \in 1..Len(queue) /\ h = queue[1]
      /\ \A i \in 1..Len(queue') : i + 1 \in 1..Len(queue) /\ queue'[i] = queue[i + 1]
      /\ \A j \in 1..Len(queue) : j # 1 =>
           j - 1 \in 1..Len(queue') /\ queue'[j - 1] = queue[j]
  BY <1>1, HeadTaken
<1>3. /\ \A i \in 1..Len(queue) : queue[i] \in Event \cup {Sentinel}
      /\ seq \in Nat /\ lastRevision \in Nat /\ lastRevision <= seq
      /\ bucket' = bucket /\ seq' = seq /\ phase' = phase
  BY <1>1, WatchTypes DEF WatchInv
<1> HIDE DEF h
<1>4. ASSUME NEW k \in Keys
      PROVE  /\ \A i \in 1..Len(queue') : LastOf(i, k, queue') => queue'[i].val = bucket[k].val
             /\ (\A i \in 1..Len(queue') : queue'[i].key # k) => live'[k] = bucket[k].val
  <2>1. ASSUME NEW i \in 1..Len(queue'), LastOf(i, k, queue')
        PROVE  queue'[i].val = bucket[k].val
    <3>1. i + 1 \in 1..Len(queue) /\ queue[i + 1].key = k
      BY <1>2, <2>1 DEF LastOf
    <3>2. ASSUME NEW j \in 1..Len(queue), j > i + 1 PROVE queue[j].key # k
      <4>1. j # 1 /\ j - 1 > i
        BY <3>2
      <4> QED BY <1>2, <2>1, <4>1 DEF LastOf
    <3>3. LastOf(i + 1, k, queue)
      BY <3>1, <3>2 DEF LastOf
    <3> QED BY <1>2, <3>1, <3>3 DEF WatchInv, StreamEndsInBucket
  <2>2. ASSUME \A i \in 1..Len(queue') : queue'[i].key # k
        PROVE  live'[k] = bucket[k].val
    <3>1. \A j \in 1..Len(queue) : j # 1 => queue[j].key # k
      BY <1>2, <2>2
    <3>2. CASE h.key = k
      <4>1. LastOf(1, k, queue)
        BY <1>2, <3>1, <3>2 DEF LastOf
      <4> QED BY <1>2, <3>2, <4>1 DEF WatchInv, StreamEndsInBucket, h
    <3>3. CASE h.key # k
      BY <1>2, <3>1, <3>3 DEF WatchInv, StreamEndsInBucket, h
    <3> QED BY <3>2, <3>3
  <2> QED BY <2>1, <2>2
<1>5. StreamEndsInBucket'
  BY <1>3, <1>4 DEF StreamEndsInBucket
<1>6. h.key \in Keys => h.rev \in Nat /\ h.rev <= seq
  <2> SUFFICES ASSUME h.key \in Keys PROVE h.rev \in Nat /\ h.rev <= seq
    OBVIOUS
  <2>1. h \in Event
    BY <1>2, <1>3, EventsHaveKeys
  <2> QED BY <1>2, <2>1 DEF Event, WatchInv, StreamReachesRevision
<1>7. lastRevision' = IF h.key \in Keys /\ h.rev > lastRevision THEN h.rev ELSE lastRevision
  BY DEF h
<1>8. lastRevision' \in Nat /\ lastRevision' <= seq
  BY <1>3, <1>6, <1>7
<1>9. StreamReachesRevision'
  <2>1. ASSUME NEW i \in 1..Len(queue'), queue'[i].key \in Keys
        PROVE  /\ queue'[i].rev <= seq
               /\ (\A j \in 1..Len(queue') : j > i => queue'[j].key \notin Keys)
                    => queue'[i].rev = seq
    <3>1. i + 1 \in 1..Len(queue) /\ queue'[i] = queue[i + 1]
      BY <1>2
    <3>2. ASSUME \A j \in 1..Len(queue') : j > i => queue'[j].key \notin Keys,
                 NEW j \in 1..Len(queue), j > i + 1
          PROVE  queue[j].key \notin Keys
      <4>1. j # 1 /\ j - 1 > i
        BY <3>2
      <4> QED BY <1>2, <3>2, <4>1
    <3> QED BY <2>1, <3>1, <3>2 DEF WatchInv, StreamReachesRevision
  <2>2. ASSUME \A i \in 1..Len(queue') : queue'[i].key \notin Keys
        PROVE  lastRevision' = seq
    <3>1. \A j \in 1..Len(queue) : j # 1 => queue[j].key \notin Keys
      BY <1>2, <2>2
    <3>2. CASE h.key \in Keys
      <4>1. h.rev = seq
        BY <1>2, <3>1, <3>2 DEF WatchInv, StreamReachesRevision
      <4> QED BY <1>3, <1>7, <3>2, <4>1
    <3>3. CASE h.key \notin Keys
      <4>1. lastRevision = seq
        BY <1>2, <3>1, <3>3 DEF WatchInv, StreamReachesRevision
      <4> QED BY <1>7, <3>3, <4>1
    <3> QED BY <3>2, <3>3
  <2> QED BY <1>3, <2>1, <2>2 DEF StreamReachesRevision
<1>10. EventsAreChained'
  <2> SUFFICES ASSUME NEW i \in 1..Len(queue'), queue'[i].tail
               PROVE  /\ \A j \in 1..Len(queue') : Before(j, i, queue') => queue'[i].was = queue'[j].val
                      /\ (\A j \in 1..Len(queue') : j < i => queue'[j].key # queue'[i].key)
                           => queue'[i].was = live'[queue'[i].key]
    BY DEF EventsAreChained
  <2>1. i + 1 \in 1..Len(queue) /\ queue'[i] = queue[i + 1] /\ queue[i + 1].key \in Keys
    BY <1>2, <1>3, EventsHaveKeys
  <2>2. ASSUME NEW j \in 1..Len(queue'), Before(j, i, queue')
        PROVE  queue'[i].was = queue'[j].val
    <3>1. j + 1 \in 1..Len(queue) /\ queue'[j] = queue[j + 1] /\ j + 1 < i + 1
          /\ queue[j + 1].key = queue[i + 1].key
      BY <1>2, <2>1, <2>2 DEF Before
    <3>2. ASSUME NEW m \in 1..Len(queue), j + 1 < m, m < i + 1
          PROVE  queue[m].key # queue[i + 1].key
      <4>1. m # 1 /\ j < m - 1 /\ m - 1 < i
        BY <3>2
      <4>2. m - 1 \in 1..Len(queue') /\ queue'[m - 1] = queue[m]
        BY <1>2, <4>1
      <4>3. queue'[m - 1].key # queue'[i].key
        BY <2>2, <4>1, <4>2 DEF Before
      <4> QED BY <2>1, <4>2, <4>3
    <3>3. Before(j + 1, i + 1, queue)
      BY <3>1, <3>2 DEF Before
    <3> QED BY <2>1, <3>1, <3>3 DEF WatchInv, EventsAreChained
  <2>3. ASSUME \A j \in 1..Len(queue') : j < i => queue'[j].key # queue'[i].key
        PROVE  queue'[i].was = live'[queue'[i].key]
    <3>1. ASSUME NEW m \in 1..Len(queue), m # 1, m < i + 1
          PROVE  queue[m].key # queue[i + 1].key
      <4>1. m - 1 < i
        BY <3>1
      <4> QED BY <1>2, <2>1, <2>3, <3>1, <4>1
    <3>2. CASE h.key = queue[i + 1].key
      <4>1. Before(1, i + 1, queue)
        BY <1>2, <3>1, <3>2 DEF Before
      <4>2. queue[i + 1].was = h.val
        BY <1>2, <2>1, <4>1 DEF WatchInv, EventsAreChained
      <4> QED BY <2>1, <3>2, <4>2 DEF h
    <3>3. CASE h.key # queue[i + 1].key
      <4>1. \A m \in 1..Len(queue) : m < i + 1 => queue[m].key # queue[i + 1].key
        BY <1>2, <3>1, <3>3
      <4>2. queue[i + 1].was = live[queue[i + 1].key]
        BY <2>1, <4>1 DEF WatchInv, EventsAreChained
      <4> QED BY <2>1, <3>3, <4>2 DEF h
    <3> QED BY <3>2, <3>3
  <2> QED BY <2>2, <2>3
<1> QED BY <1>5, <1>8, <1>9, <1>10

(* Nothing but the stream and the view: the store stands still.            *)
LEMMA StoreStands ==
  ASSUME WatchInv, UNCHANGED vars
  PROVE  IInv' /\ TypeOK' /\ RevisionsAreUnique' /\ bucket' = bucket /\ seq' = seq
<1>1. bucket' = bucket /\ seq' = seq
  BY DEF vars
<1>2. IInv'
  BY NextPreserves DEF WatchInv
<1>3. RevisionsAreUnique'
  BY <1>1 DEF WatchInv, RevisionsAreUnique
<1> QED BY <1>1, <1>2, <1>3 DEF IInv

(* An empty queue, in a phase in which the stream is not open.             *)
LEMMA NotOpen ==
  ASSUME phase' # "open", queue' = <<>>
  PROVE  /\ StreamEndsInBucket' /\ StreamReachesRevision' /\ EventsAreChained'
         /\ queue' \in Seq(Event \cup {Sentinel})
<1>1. Len(queue') = 0 /\ queue' \in Seq(Event \cup {Sentinel})
  OBVIOUS
<1>2. 1..0 = {}
  OBVIOUS
<1> QED BY <1>1, <1>2 DEF StreamEndsInBucket, StreamReachesRevision, EventsAreChained

LEMMA WatchInitially == WatchInit => WatchInv
<1> SUFFICES ASSUME WatchInit PROVE WatchInv
  OBVIOUS
<1>1. /\ bucket = [k \in Keys |-> NeverWritten] /\ seq = 0 /\ phase = "down" /\ todo = {}
      /\ queue = <<>> /\ live = [k \in Keys |-> None] /\ lastRevision = 0
      /\ revokedAt = [k \in Keys |-> None] /\ restarts = 0
  BY DEF WatchInit, Init
<1>2. IInv
  BY InitEstablishes DEF WatchInit
<1>3. Len(queue) = 0 /\ queue \in Seq(Event \cup {Sentinel})
  BY <1>1
<1>4. WatchTypeOK
  BY <1>1, <1>2, <1>3, MaxRevisionIsNat, MaxRestartsIsNat DEF IInv, WatchTypeOK, Phases
<1>5. RevisionsAreUnique
  BY <1>1 DEF RevisionsAreUnique, NeverWritten
<1>6. SnapshotOfWritten /\ ClassifierKnowsView
  BY <1>1 DEF SnapshotOfWritten, ClassifierKnowsView
<1>7. StreamEndsInBucket /\ StreamReachesRevision /\ EventsAreChained
  BY <1>1, <1>3 DEF StreamEndsInBucket, StreamReachesRevision, EventsAreChained
<1> QED BY <1>1, <1>2, <1>4, <1>5, <1>6, <1>7 DEF WatchInv

(* A step of a writer.  A write reaches an open watcher as the one event   *)
(* that says what it overwrote.                                            *)
LEMMA WritesAreDelivered ==
  ASSUME WatchInv, NEW k \in Keys, NEW v \in Value \cup {None}, Writes(k, v), phase = "open"
  PROVE  LET e == [tail |-> TRUE, key |-> k, val |-> v, rev |-> seq + 1, was |-> bucket[k].val]
         IN  Delivered = Append(queue, e) /\ e \in Event
<1>1. /\ bucket \in [Keys -> Entry(Value)] /\ seq \in Nat
      /\ bucket[k].val \in Value \cup {None} /\ bucket[k].rev \in Nat /\ bucket[k].rev <= seq
  BY WatchTypes DEF WatchInv, IInv, RevisionsInThePast
<1>2. /\ bucket'[k] = [val |-> v, rev |-> seq + 1]
      /\ \A l \in Keys : l # k => bucket'[l] = bucket[l]
  BY <1>1 DEF Writes
<1>3. bucket'[k].rev = seq + 1 /\ bucket'[k].val = v
  BY <1>2
<1>4. bucket'[k] # bucket[k]
  BY <1>1, <1>3
<1>5. {l \in Keys : bucket'[l] # bucket[l]} = {k}
  BY <1>2, <1>4
<1>6. (CHOOSE l \in {k} : TRUE) = k
  OBVIOUS
<1>7. Delivered = Append(queue, [tail |-> TRUE, key |-> k, val |-> v, rev |-> seq + 1, was |-> bucket[k].val])
  BY <1>3, <1>5, <1>6 DEF Delivered
<1>8. [tail |-> TRUE, key |-> k, val |-> v, rev |-> seq + 1, was |-> bucket[k].val] \in Event
  BY <1>1 DEF Event
<1> QED BY <1>7, <1>8

LEMMA WriteKeepsRevisionsUnique ==
  ASSUME WatchInv, NEW k \in Keys, NEW v \in Value \cup {None}, Writes(k, v)
  PROVE  RevisionsAreUnique'
<1>1. /\ bucket \in [Keys -> Entry(Value)] /\ seq \in Nat
      /\ \A l \in Keys : bucket[l].rev \in Nat /\ bucket[l].rev <= seq
  BY WatchTypes DEF WatchInv, IInv, RevisionsInThePast
<1>2. /\ bucket'[k] = [val |-> v, rev |-> seq + 1] /\ seq' = seq + 1
      /\ \A l \in Keys : l # k => bucket'[l] = bucket[l]
  BY <1>1 DEF Writes
<1>3. bucket'[k].rev = seq + 1 /\ seq' = seq + 1 /\ seq + 1 # 0
  BY <1>1, <1>2
<1>4. \A l \in Keys : l # k => bucket'[l].rev # seq + 1
  BY <1>1, <1>2
<1>5. \A l \in Keys : bucket'[l].rev = 0 => bucket'[l].val = None
  BY <1>2, <1>3 DEF WatchInv, RevisionsAreUnique
<1>6. \A l, m \in Keys : bucket'[l].rev = bucket'[m].rev /\ bucket'[l].rev # 0 => l = m
  BY <1>2, <1>3, <1>4 DEF WatchInv, RevisionsAreUnique
<1> QED BY <1>3, <1>5, <1>6 DEF RevisionsAreUnique

LEMMA WriterPreserves ==
  ASSUME WatchInv, Writers(Next)
  PROVE  WatchInv'
<1>1. /\ Next /\ queue' = Delivered
      /\ phase' = phase /\ todo' = todo /\ live' = live /\ lastRevision' = lastRevision
      /\ revokedAt' = revokedAt /\ restarts' = restarts
  BY DEF Writers, viewVars
<1>2. WatchTypeOK /\ IInv /\ TypeOK
  BY DEF WatchInv, IInv
<1>3. IInv' /\ TypeOK'
  BY <1>1, <1>2, NextPreserves DEF IInv
<1>4. ClassifierKnowsView'
  BY <1>1 DEF WatchInv, ClassifierKnowsView
<1>5. seq \in Nat /\ lastRevision \in Nat /\ lastRevision <= seq /\ Keys \subseteq Nat
  BY <1>2, WatchTypes DEF WatchInv
<1>6. CASE UNCHANGED <<bucket, seq>>
  <2>1. queue' = queue
    BY <1>1, <1>6 DEF Delivered
  <2>2. WatchTypeOK'
    BY <1>1, <1>2, <1>3, <2>1 DEF WatchTypeOK, Event, Sentinel
  <2>3. RevisionsAreUnique' /\ SnapshotOfWritten'
    BY <1>1, <1>6 DEF WatchInv, RevisionsAreUnique, SnapshotOfWritten
  <2>4. StreamEndsInBucket' /\ StreamReachesRevision' /\ EventsAreChained'
    BY <1>1, <1>6, <2>1
       DEF WatchInv, StreamEndsInBucket, StreamReachesRevision, EventsAreChained, LastOf, Before
  <2> QED BY <1>1, <1>3, <1>4, <1>6, <2>1, <2>2, <2>3, <2>4 DEF WatchInv
<1>7. ASSUME NEW k \in Keys, NEW v \in Value \cup {None}, Writes(k, v)
      PROVE  WatchInv'
  <2>1. /\ bucket'[k].val = v /\ bucket'[k].rev = seq + 1 /\ seq' = seq + 1
        /\ \A l \in Keys : l # k => bucket'[l] = bucket[l]
    BY <1>2, <1>7, WatchTypes DEF Writes
  <2>2. RevisionsAreUnique'
    BY <1>7, WriteKeepsRevisionsUnique
  <2>3. SnapshotOfWritten'
    BY <1>1, <1>5, <2>1 DEF WatchInv, SnapshotOfWritten
  <2>4. lastRevision' <= seq'
    BY <1>1, <1>5, <2>1
  <2>5. CASE phase # "open"
    <3>1. queue' = <<>> /\ queue = <<>> /\ phase' # "open"
      BY <1>1, <2>5 DEF Delivered, WatchInv
    <3>2. /\ StreamEndsInBucket' /\ StreamReachesRevision' /\ EventsAreChained'
          /\ queue' \in Seq(Event \cup {Sentinel})
      BY <3>1, NotOpen
    <3>3. WatchTypeOK'
      BY <1>1, <1>2, <1>3, <3>1 DEF WatchTypeOK, Event, Sentinel
    <3> QED BY <1>3, <1>4, <2>2, <2>3, <2>4, <3>1, <3>2, <3>3 DEF WatchInv
  <2>6. CASE phase = "open"
    <3> DEFINE e == [tail |-> TRUE, key |-> k, val |-> v, rev |-> seq + 1, was |-> bucket[k].val]
               n == Len(queue)
    <3>1. queue' = Append(queue, e) /\ e \in Event
      BY <1>1, <1>7, <2>6, WritesAreDelivered
    <3>2. e.tail /\ e.key = k /\ e.val = v /\ e.rev = seq + 1 /\ e.was = bucket[k].val
      OBVIOUS
    <3> HIDE DEF e
    <3>3. /\ queue \in Seq(Event \cup {Sentinel}) /\ n \in Nat
          /\ \A i \in 1..n : queue[i] \in Event \cup {Sentinel}
      BY <1>2, WatchTypes
    <3>4. /\ queue' \in Seq(Event \cup {Sentinel}) /\ Len(queue') = n + 1
          /\ queue'[n + 1] = e /\ \A i \in 1..n : queue'[i] = queue[i]
      BY <3>1, <3>3
    <3> HIDE DEF n
    <3>5. \A i \in 1..(n + 1) : i = n + 1 \/ i \in 1..n
      BY <3>3
    <3>6. n + 1 \in 1..(n + 1) /\ \A i \in 1..n : i \in 1..(n + 1) /\ n + 1 > i
      BY <3>3
    <3>7. WatchTypeOK'
      <4>1. queue' \in Seq(Event' \cup {Sentinel'})
        BY <3>4 DEF Event, Sentinel
      <4> QED BY <1>1, <1>2, <1>3, <4>1 DEF WatchTypeOK
    <3>8. StreamEndsInBucket'
      <4> SUFFICES ASSUME NEW l \in Keys
                   PROVE  /\ \A i \in 1..(n + 1) : LastOf(i, l, queue') => queue'[i].val = bucket'[l].val
                          /\ (\A i \in 1..(n + 1) : queue'[i].key # l) => live'[l] = bucket'[l].val
        BY <3>4 DEF StreamEndsInBucket
      <4>1. ASSUME NEW i \in 1..(n + 1), LastOf(i, l, queue') PROVE queue'[i].val = bucket'[l].val
        <5>1. CASE i = n + 1
          BY <2>1, <3>2, <3>4, <4>1, <5>1 DEF LastOf
        <5>2. CASE i \in 1..n
          <6>1. l # k
            BY <3>2, <3>4, <3>6, <4>1, <5>2 DEF LastOf
          <6>2. LastOf(i, l, queue)
            BY <3>4, <3>6, <4>1, <5>2 DEF LastOf, n
          <6> QED BY <2>1, <2>6, <3>4, <5>2, <6>1, <6>2 DEF WatchInv, StreamEndsInBucket, n
        <5> QED BY <3>5, <5>1, <5>2
      <4>2. ASSUME \A i \in 1..(n + 1) : queue'[i].key # l PROVE live'[l] = bucket'[l].val
        <5>1. l # k
          BY <3>2, <3>4, <3>6, <4>2
        <5>2. \A i \in 1..n : queue[i].key # l
          BY <3>4, <3>6, <4>2
        <5> QED BY <1>1, <2>1, <2>6, <5>1, <5>2 DEF WatchInv, StreamEndsInBucket, n
      <4> QED BY <4>1, <4>2
    <3>9. StreamReachesRevision'
      <4>1. ASSUME NEW i \in 1..(n + 1), queue'[i].key \in Keys
            PROVE  /\ queue'[i].rev <= seq'
                   /\ (\A j \in 1..(n + 1) : j > i => queue'[j].key \notin Keys)
                        => queue'[i].rev = seq'
        <5>1. CASE i = n + 1
          BY <1>5, <2>1, <3>2, <3>4, <5>1
        <5>2. CASE i \in 1..n
          <6>1. queue[i] \in Event /\ queue[i].rev <= seq
            BY <2>6, <3>3, <3>4, <4>1, <5>2, EventsHaveKeys DEF WatchInv, StreamReachesRevision, n
          <6>2. queue'[i].rev <= seq'
            BY <1>5, <2>1, <3>4, <5>2, <6>1 DEF Event
          <6> QED BY <3>2, <3>4, <3>6, <5>2, <6>2
        <5> QED BY <3>5, <5>1, <5>2
      <4>2. ~ \A i \in 1..(n + 1) : queue'[i].key \notin Keys
        BY <3>2, <3>4, <3>6
      <4> QED BY <3>4, <4>1, <4>2 DEF StreamReachesRevision
    <3>10. EventsAreChained'
      <4> SUFFICES ASSUME NEW i \in 1..(n + 1), queue'[i].tail
                   PROVE  /\ \A j \in 1..(n + 1) : Before(j, i, queue') => queue'[i].was = queue'[j].val
                          /\ (\A j \in 1..(n + 1) : j < i => queue'[j].key # queue'[i].key)
                               => queue'[i].was = live'[queue'[i].key]
        BY <3>4 DEF EventsAreChained
      <4>1. CASE i = n + 1
        <5>1. ASSUME NEW j \in 1..(n + 1), Before(j, i, queue') PROVE queue'[i].was = queue'[j].val
          <6>1. j \in 1..n /\ queue[j].key = k
            BY <3>2, <3>3, <3>4, <4>1, <5>1 DEF Before
          <6>2. LastOf(j, k, queue)
            BY <3>2, <3>3, <3>4, <3>6, <4>1, <5>1, <6>1 DEF Before, LastOf, n
          <6> QED BY <2>6, <3>2, <3>4, <4>1, <6>1, <6>2 DEF WatchInv, StreamEndsInBucket, n
        <5>2. ASSUME \A j \in 1..(n + 1) : j < i => queue'[j].key # queue'[i].key
              PROVE  queue'[i].was = live'[queue'[i].key]
          <6>1. \A j \in 1..n : queue[j].key # k
            BY <3>2, <3>3, <3>4, <3>6, <4>1, <5>2
          <6> QED BY <1>1, <2>6, <3>2, <3>4, <4>1, <6>1 DEF WatchInv, StreamEndsInBucket, n
        <5> QED BY <5>1, <5>2
      <4>2. CASE i \in 1..n
        <5>1. queue'[i] = queue[i] /\ queue[i].tail
          BY <3>4, <4>2
        <5>2. ASSUME NEW j \in 1..(n + 1), Before(j, i, queue') PROVE queue'[i].was = queue'[j].val
          <6>1. j \in 1..n
            BY <3>3, <4>2, <5>2 DEF Before
          <6>2. Before(j, i, queue)
            BY <3>4, <3>6, <4>2, <5>2, <6>1 DEF Before, n
          <6> QED BY <3>4, <4>2, <5>1, <6>1, <6>2 DEF WatchInv, EventsAreChained, n
        <5>3. ASSUME \A j \in 1..(n + 1) : j < i => queue'[j].key # queue'[i].key
              PROVE  queue'[i].was = live'[queue'[i].key]
          <6>1. \A j \in 1..n : j < i => queue[j].key # queue[i].key
            BY <3>4, <3>6, <4>2, <5>3
          <6> QED BY <1>1, <4>2, <5>1, <6>1 DEF WatchInv, EventsAreChained, n
        <5> QED BY <5>2, <5>3
      <4> QED BY <3>5, <4>1, <4>2
    <3> QED BY <1>1, <1>3, <1>4, <2>2, <2>3, <2>4, <2>6, <3>7, <3>8, <3>9, <3>10 DEF WatchInv
  <2> QED BY <2>5, <2>6
<1> QED BY <1>1, <1>2, <1>6, <1>7, WriterEffect
-----------------------------------------------------------------------------
(* The snapshot.                                                           *)

LEMMA ListKeysPreserves ==
  ASSUME WatchInv, ListKeys
  PROVE  WatchInv'
<1>1. /\ UNCHANGED vars /\ phase = "down" /\ phase' = "listed"
      /\ todo' = {k \in Keys : Live(bucket, k)} /\ live' = [k \in Keys |-> None]
      /\ lastRevision' = 0 /\ revokedAt' = [k \in Keys |-> None]
      /\ queue' = queue /\ restarts' = restarts
  BY DEF ListKeys
<1>2. IInv' /\ TypeOK' /\ RevisionsAreUnique' /\ bucket' = bucket /\ seq' = seq
  BY <1>1, StoreStands
<1>3. queue' = <<>> /\ phase' # "open" /\ WatchTypeOK
  BY <1>1 DEF WatchInv
<1>4. /\ StreamEndsInBucket' /\ StreamReachesRevision' /\ EventsAreChained'
  BY <1>3, NotOpen
<1>5. WatchTypeOK'
  BY <1>1, <1>2, <1>3, MaxRevisionIsNat DEF WatchTypeOK, Phases, Event, Sentinel
<1>6. SnapshotOfWritten' /\ ClassifierKnowsView'
  BY <1>1 DEF SnapshotOfWritten, ClassifierKnowsView
<1>7. lastRevision' <= seq'
  BY <1>1, <1>2, <1>3, WatchTypes
<1> QED BY <1>2, <1>3, <1>4, <1>5, <1>6, <1>7 DEF WatchInv

LEMMA FetchKeyPreserves ==
  ASSUME WatchInv, FetchKey
  PROVE  WatchInv'
<1> DEFINE k == Min(todo)
<1>1. /\ UNCHANGED vars /\ phase = "listed" /\ phase' = phase /\ todo # {}
      /\ bucket[k].val # Poison /\ todo' = todo \ {k}
      /\ live' = [live EXCEPT ![k] = bucket[k].val]
      /\ revokedAt' = [revokedAt EXCEPT ![k] =
                         IF Live(bucket, k) THEN bucket[k].val.revoked ELSE None]
      /\ queue' = queue /\ lastRevision' = lastRevision /\ restarts' = restarts
  BY DEF FetchKey
<1>2. IInv' /\ TypeOK' /\ RevisionsAreUnique' /\ bucket' = bucket /\ seq' = seq
  BY <1>1, StoreStands
<1>3. queue' = <<>> /\ phase' # "open" /\ WatchTypeOK
  BY <1>1 DEF WatchInv
<1>4. k \in Keys
  <2>1. todo \subseteq Keys /\ todo \subseteq Nat
    BY <1>3, WatchTypes
  <2> QED BY <1>1, <2>1, MinIsLeast
<1> HIDE DEF k
<1>5. bucket[k].val \in Record \cup {None}
  BY <1>1, <1>3, <1>4, WatchTypes DEF Value
<1>6. /\ live' \in [Keys -> Record \cup {None}] /\ revokedAt' \in [Keys -> Instants \cup {None}]
      /\ live'[k] = bucket[k].val
      /\ revokedAt'[k] = IF bucket[k].val = None THEN None ELSE bucket[k].val.revoked
      /\ \A l \in Keys : l # k => live'[l] = live[l] /\ revokedAt'[l] = revokedAt[l]
  <2>1. Live(bucket, k) => bucket[k].val.revoked \in Instants \cup {None}
    BY <1>5 DEF Live, Record
  <2> QED BY <1>1, <1>3, <1>4, <1>5, <2>1, WatchTypes DEF Live
<1>7. StreamEndsInBucket' /\ StreamReachesRevision' /\ EventsAreChained'
  BY <1>3, NotOpen
<1>8. WatchTypeOK'
  BY <1>1, <1>2, <1>3, <1>6 DEF WatchTypeOK, Event, Sentinel
<1>9. SnapshotOfWritten'
  BY <1>1, <1>2, <1>6 DEF WatchInv, SnapshotOfWritten, RevisionsAreUnique
<1>10. ClassifierKnowsView'
  BY <1>6 DEF WatchInv, ClassifierKnowsView
<1>11. lastRevision' <= seq'
  BY <1>1, <1>2 DEF WatchInv
<1> QED BY <1>2, <1>3, <1>7, <1>8, <1>9, <1>10, <1>11 DEF WatchInv

(* A poisoned snapshot, a poisoned event, the end of the stream, a crash.  *)
LEMMA StoppingPreserves ==
  ASSUME WatchInv, FetchPoison \/ ConsumePoison \/ Restart \/ (ConsumeSentinel /\ phase' = "ended")
  PROVE  WatchInv'
<1>1. /\ UNCHANGED vars /\ UNCHANGED viewVars /\ phase' \in {"down", "ended"}
      /\ todo' = todo \/ todo' = {}
      /\ queue' = <<>>
      /\ restarts' = restarts \/ (restarts' = restarts + 1 /\ restarts < MaxRestarts)
  BY DEF WatchInv, FetchPoison, ConsumePoison, Restart, ConsumeSentinel
<1>2. IInv' /\ TypeOK' /\ RevisionsAreUnique' /\ bucket' = bucket /\ seq' = seq
  BY <1>1, StoreStands
<1>3. WatchTypeOK /\ live' = live /\ lastRevision' = lastRevision /\ revokedAt' = revokedAt
  BY <1>1 DEF WatchInv, viewVars
<1>4. /\ StreamEndsInBucket' /\ StreamReachesRevision' /\ EventsAreChained'
      /\ queue' \in Seq(Event \cup {Sentinel})
  BY <1>1, NotOpen
<1>5. restarts' \in 0..MaxRestarts
  BY <1>1, <1>3, MaxRestartsIsNat DEF WatchTypeOK
<1>6. WatchTypeOK'
  BY <1>1, <1>2, <1>3, <1>4, <1>5 DEF WatchTypeOK, Phases, Event, Sentinel
<1>7. SnapshotOfWritten' /\ ClassifierKnowsView' /\ lastRevision' <= seq'
  BY <1>1, <1>2, <1>3 DEF WatchInv, SnapshotOfWritten, ClassifierKnowsView
<1> QED BY <1>1, <1>2, <1>4, <1>6, <1>7 DEF WatchInv

(* The replay: the last operation of each key ever written, oldest first.  *)
LEMMA ReplayOfBucket ==
  ASSUME WatchTypeOK, IInv, RevisionsAreUnique
  PROVE  LET order == ReplayOrder(bucket, seq) IN
           /\ order \in Seq(Keys) /\ Len(order) \in Nat /\ DOMAIN order = 1..Len(order)
           /\ \A i \in 1..Len(order) : order[i] \in Keys
           /\ \A k \in Keys : bucket[k].rev # 0 => \E i \in 1..Len(order) : order[i] = k
           /\ \A i, j \in 1..Len(order) : i < j => bucket[order[i]].rev < bucket[order[j]].rev
           /\ \A i \in 1..Len(order) : bucket[order[i]].rev # 0
<1> DEFINE D == Replayed(bucket)
           order == ReplayOrder(bucket, seq)
<1>1. /\ seq \in Nat /\ DOMAIN bucket = Keys
      /\ \A k \in Keys : bucket[k].rev \in Nat /\ bucket[k].rev <= seq
  BY WatchTypes DEF IInv, RevisionsInThePast
<1>2. \A k : k \in D <=> k \in Keys /\ bucket[k].rev # 0
  BY <1>1 DEF Replayed
<1>3. /\ \A k \in D : bucket[k].rev \in 1..seq
      /\ \A k, l \in D : bucket[k].rev = bucket[l].rev => k = l
  BY <1>1, <1>2 DEF RevisionsAreUnique
<1>4. /\ order \in Seq(D)
      /\ \A k \in D : \E i \in 1..Len(order) : order[i] = k
      /\ \A i, j \in 1..Len(order) : i < j => bucket[order[i]].rev < bucket[order[j]].rev
  <2>1. order = InOrder(D, bucket, seq)
    BY Zenon DEF ReplayOrder, InOrder
  <2> HIDE DEF D, order
  <2> QED BY <1>1, <1>3, <2>1, OldestFirst
<1> HIDE DEF D, order
<1>5. order \in Seq(Keys) /\ \A i \in 1..Len(order) : order[i] \in D
  BY <1>2, <1>4
<1> QED BY <1>2, <1>4, <1>5 DEF order

LEMMA OpenWatchPreserves ==
  ASSUME WatchInv, OpenWatch
  PROVE  WatchInv'
<1> DEFINE order == ReplayOrder(bucket, seq)
           n == Len(order)
           event(k) == [tail |-> FALSE, key |-> k, val |-> bucket[k].val,
                        rev |-> bucket[k].rev, was |-> None]
<1>1. /\ UNCHANGED vars /\ phase = "listed" /\ phase' = "open"
      /\ queue' = Append([i \in DOMAIN order |-> event(order[i])], Sentinel)
      /\ todo' = todo /\ live' = live /\ lastRevision' = lastRevision
      /\ revokedAt' = revokedAt /\ restarts' = restarts
  BY DEF OpenWatch, viewVars
<1>2. IInv' /\ TypeOK' /\ RevisionsAreUnique' /\ bucket' = bucket /\ seq' = seq
  BY <1>1, StoreStands
<1>3. WatchTypeOK /\ IInv /\ RevisionsAreUnique
  BY DEF WatchInv
<1>4. /\ order \in Seq(Keys) /\ n \in Nat /\ DOMAIN order = 1..n
      /\ \A i \in 1..n : order[i] \in Keys
      /\ \A k \in Keys : bucket[k].rev # 0 => \E i \in 1..n : order[i] = k
      /\ \A i, j \in 1..n : i < j => bucket[order[i]].rev < bucket[order[j]].rev
      /\ \A i \in 1..n : bucket[order[i]].rev # 0
  BY <1>3, ReplayOfBucket
<1>5. /\ \A k \in Keys : bucket[k].val \in Value \cup {None} /\ bucket[k].rev \in Nat
      /\ \A k \in Keys : bucket[k].rev <= seq
      /\ seq \in Nat /\ None \notin Keys /\ lastRevision = 0
  BY <1>1, <1>3, WatchTypes DEF IInv, RevisionsInThePast, WatchInv, SnapshotOfWritten
<1>6. \A k \in Keys : event(k) \in Event
  BY <1>5 DEF Event
<1> HIDE DEF order
<1>7. /\ queue' \in Seq(Event \cup {Sentinel}) /\ Len(queue') = n + 1
      /\ queue'[n + 1] = Sentinel
      /\ \A i \in 1..n : queue'[i] = event(order[i])
  <2> DEFINE replay == [i \in DOMAIN order |-> event(order[i])]
  <2>1. /\ replay \in Seq(Event \cup {Sentinel}) /\ Len(replay) = n
        /\ \A i \in 1..n : replay[i] = event(order[i])
    <3> HIDE DEF event
    <3> QED BY <1>4, <1>6
  <2>2. queue' = Append(replay, Sentinel)
    BY <1>1
  <2> HIDE DEF replay, event
  <2> QED BY <1>4, <2>1, <2>2
<1>8. /\ queue'[n + 1].key \notin Keys /\ queue'[n + 1].tail = FALSE
      /\ \A i \in 1..n : /\ queue'[i].key = order[i] /\ queue'[i].tail = FALSE
                         /\ queue'[i].val = bucket[order[i]].val
                         /\ queue'[i].rev = bucket[order[i]].rev
  <2>1. queue'[n + 1].key \notin Keys /\ queue'[n + 1].tail = FALSE
    BY <1>5, <1>7 DEF Sentinel
  <2>2. ASSUME NEW i \in 1..n
        PROVE  /\ queue'[i].key = order[i] /\ queue'[i].tail = FALSE
               /\ queue'[i].val = bucket[order[i]].val
               /\ queue'[i].rev = bucket[order[i]].rev
    <3>1. queue'[i] = event(order[i])
      BY <1>7
    <3> QED BY <3>1
  <2> QED BY <2>1, <2>2
<1> HIDE DEF n, event
<1>9. /\ \A i \in 1..(n + 1) : i = n + 1 \/ i \in 1..n
      /\ \A i \in 1..n : i \in 1..(n + 1)
  BY <1>4
<1>10. WatchTypeOK'
  <2>1. queue' \in Seq(Event' \cup {Sentinel'})
    BY <1>7 DEF Event, Sentinel
  <2> QED BY <1>1, <1>2, <1>3, <2>1 DEF WatchTypeOK, Phases
<1>11. StreamEndsInBucket'
  <2> SUFFICES ASSUME NEW k \in Keys
               PROVE  /\ \A i \in 1..(n + 1) : LastOf(i, k, queue') => queue'[i].val = bucket[k].val
                      /\ (\A i \in 1..(n + 1) : queue'[i].key # k) => live[k] = bucket[k].val
    BY <1>1, <1>2, <1>7 DEF StreamEndsInBucket
  <2>1. \A i \in 1..(n + 1) : LastOf(i, k, queue') => queue'[i].val = bucket[k].val
    BY <1>8, <1>9 DEF LastOf
  <2>2. ASSUME \A i \in 1..(n + 1) : queue'[i].key # k PROVE live[k] = bucket[k].val
    <3>1. bucket[k].rev = 0
      BY <1>4, <1>8, <1>9, <2>2
    <3> QED BY <1>1, <1>3, <3>1 DEF WatchInv, RevisionsAreUnique, SnapshotOfWritten
  <2> QED BY <2>1, <2>2
<1>12. StreamReachesRevision'
  <2>1. ASSUME NEW i \in 1..(n + 1), queue'[i].key \in Keys,
               \A j \in 1..(n + 1) : j > i => queue'[j].key \notin Keys
        PROVE  queue'[i].rev = seq
    <3>1. i \in 1..n /\ \A j \in 1..n : ~(j > i)
      BY <1>4, <1>8, <1>9, <2>1
    <3>2. order[i] \in Keys /\ bucket[order[i]].rev # 0 /\ bucket[order[i]].rev <= seq
      BY <1>4, <1>5, <3>1
    <3>3. seq # 0
      BY <1>5, <3>2
    <3>4. PICK k \in Keys : bucket[k].rev = seq
      BY <1>3, <3>3 DEF RevisionsAreUnique
    <3>5. PICK j \in 1..n : order[j] = k
      BY <1>4, <3>3, <3>4
    <3>6. j = i \/ j < i
      BY <1>4, <3>1
    <3>7. ~(j < i)
      BY <1>4, <1>5, <3>1, <3>2, <3>4, <3>5
    <3> QED BY <1>8, <3>1, <3>4, <3>5, <3>6, <3>7
  <2>2. \A i \in 1..(n + 1) : queue'[i].key \in Keys => queue'[i].rev <= seq
    BY <1>4, <1>5, <1>8, <1>9
  <2>3. ASSUME \A i \in 1..(n + 1) : queue'[i].key \notin Keys PROVE lastRevision = seq
    <3>1. \A k \in Keys : bucket[k].rev = 0
      BY <1>4, <1>8, <1>9, <2>3
    <3> QED BY <1>3, <1>5, <3>1 DEF RevisionsAreUnique
  <2> QED BY <1>1, <1>2, <1>7, <2>1, <2>2, <2>3 DEF StreamReachesRevision
<1>13. EventsAreChained'
  <2>1. \A i \in 1..Len(queue') : ~queue'[i].tail
    BY <1>7, <1>8, <1>9
  <2> QED BY <2>1 DEF EventsAreChained
<1>14. SnapshotOfWritten' /\ ClassifierKnowsView' /\ lastRevision' <= seq' /\ phase' = "open"
  BY <1>1, <1>2 DEF WatchInv, SnapshotOfWritten, ClassifierKnowsView
<1> QED BY <1>2, <1>10, <1>11, <1>12, <1>13, <1>14 DEF WatchInv
-----------------------------------------------------------------------------
(* The tail.                                                               *)

LEMMA ConsumePreserves ==
  ASSUME WatchInv, Consume
  PROVE  WatchInv'
<1> DEFINE e == Head(queue)
<1>1. /\ UNCHANGED vars /\ phase = "open" /\ phase' = phase /\ queue # <<>>
      /\ e # Sentinel /\ e.val # Poison
      /\ live' = [live EXCEPT ![e.key] = e.val]
      /\ revokedAt' = [revokedAt EXCEPT ![e.key] = IF e.val = None THEN None ELSE e.val.revoked]
      /\ lastRevision' = IF e.rev > lastRevision THEN e.rev ELSE lastRevision
      /\ queue' = Tail(queue) /\ todo' = todo /\ restarts' = restarts
  BY DEF Consume
<1>2. IInv' /\ TypeOK' /\ RevisionsAreUnique' /\ bucket' = bucket /\ seq' = seq
  BY <1>1, StoreStands
<1>3. WatchTypeOK
  BY DEF WatchInv
<1>4. e \in Event /\ e.key \in Keys /\ queue' \in Seq(Event \cup {Sentinel})
  BY <1>1, <1>3, HeadTaken, WatchTypes, EventsHaveKeys
<1> HIDE DEF e
<1>5. e.val \in Record \cup {None}
  BY <1>1, <1>4 DEF Event, Value
<1>6. e.val # None => e.val.revoked \in Instants \cup {None}
  BY <1>5 DEF Record
<1>7. /\ live \in [Keys -> Record \cup {None}] /\ revokedAt \in [Keys -> Instants \cup {None}]
      /\ seq \in Nat /\ MaxRevision \in Nat /\ seq <= MaxRevision
  BY <1>3, WatchTypes
<1>8. /\ live' \in [Keys -> Record \cup {None}] /\ revokedAt' \in [Keys -> Instants \cup {None}]
      /\ \A k \in Keys : live'[k] = IF e.key = k THEN e.val ELSE live[k]
      /\ \A k \in Keys : revokedAt'[k] = IF e.key = k
                         THEN IF e.val = None THEN None ELSE e.val.revoked
                         ELSE revokedAt[k]
  BY <1>1, <1>4, <1>5, <1>6, <1>7
<1>9. /\ StreamEndsInBucket' /\ StreamReachesRevision' /\ EventsAreChained'
      /\ lastRevision' \in Nat /\ lastRevision' <= seq
  <2>1. \A k \in Keys : live'[k] = IF Head(queue).key = k THEN Head(queue).val ELSE live[k]
    BY <1>8 DEF e
  <2>2. lastRevision' = IF Head(queue).key \in Keys /\ Head(queue).rev > lastRevision
                        THEN Head(queue).rev ELSE lastRevision
    BY <1>1, <1>4 DEF e
  <2>3. UNCHANGED <<bucket, seq, phase>>
    BY <1>1, <1>2
  <2> QED BY <1>1, <2>1, <2>2, <2>3, TakingPreserves
<1>10. WatchTypeOK'
  <2>1. queue' \in Seq(Event' \cup {Sentinel'}) /\ lastRevision' \in 0..MaxRevision
    BY <1>4, <1>7, <1>9 DEF Event, Sentinel
  <2> QED BY <1>1, <1>2, <1>3, <1>8, <2>1 DEF WatchTypeOK
<1>11. ClassifierKnowsView'
  BY <1>8 DEF WatchInv, ClassifierKnowsView
<1>12. SnapshotOfWritten' /\ phase' = "open" /\ lastRevision' <= seq'
  BY <1>1, <1>2, <1>9 DEF SnapshotOfWritten
<1> QED BY <1>2, <1>9, <1>10, <1>11, <1>12 DEF WatchInv

LEMMA ConsumeSentinelPreserves ==
  ASSUME WatchInv, ConsumeSentinel
  PROVE  WatchInv'
<1>1. CASE phase' = "ended"
  BY <1>1, StoppingPreserves
<1>2. CASE phase' # "ended"
  <2>1. /\ UNCHANGED vars /\ UNCHANGED viewVars /\ phase = "open" /\ phase' = phase
        /\ queue # <<>> /\ Head(queue) = Sentinel /\ queue' = Tail(queue)
        /\ todo' = todo /\ restarts' = restarts
    BY <1>2 DEF ConsumeSentinel
  <2>2. IInv' /\ TypeOK' /\ RevisionsAreUnique' /\ bucket' = bucket /\ seq' = seq
    BY <2>1, StoreStands
  <2>3. WatchTypeOK /\ live' = live /\ lastRevision' = lastRevision /\ revokedAt' = revokedAt
    BY <2>1 DEF WatchInv, viewVars
  <2>4. queue' \in Seq(Event \cup {Sentinel})
    BY <2>1, <2>3, HeadTaken
  <2>5. Head(queue).key \notin Keys
    BY <2>1, KeysAreOrdered DEF Sentinel
  <2>6. StreamEndsInBucket' /\ StreamReachesRevision' /\ EventsAreChained'
    <3>1. \A k \in Keys : live'[k] = IF Head(queue).key = k THEN Head(queue).val ELSE live[k]
      BY <2>3, <2>5
    <3>2. lastRevision' = IF Head(queue).key \in Keys /\ Head(queue).rev > lastRevision
                          THEN Head(queue).rev ELSE lastRevision
      BY <2>3, <2>5
    <3> QED BY <2>1, <2>2, <3>1, <3>2, TakingPreserves
  <2>7. WatchTypeOK'
    BY <2>1, <2>2, <2>3, <2>4 DEF WatchTypeOK, Event, Sentinel
  <2>8. ClassifierKnowsView' /\ SnapshotOfWritten' /\ phase' = "open" /\ lastRevision' <= seq'
    BY <2>1, <2>2, <2>3 DEF WatchInv, ClassifierKnowsView, SnapshotOfWritten
  <2> QED BY <2>2, <2>6, <2>7, <2>8 DEF WatchInv
<1> QED BY <1>1, <1>2

LEMMA WatchNextPreserves == WatchInv /\ [WatchNext]_watchVars => WatchInv'
<1> SUFFICES ASSUME WatchInv, [WatchNext]_watchVars PROVE WatchInv'
  OBVIOUS
<1>1. CASE Writers(Next)
  BY <1>1, WriterPreserves
<1>2. CASE ConsumerStep
  BY <1>2, ListKeysPreserves, FetchKeyPreserves, StoppingPreserves, OpenWatchPreserves,
     ConsumePreserves, ConsumeSentinelPreserves DEF ConsumerStep
<1>3. CASE Restart
  BY <1>3, StoppingPreserves
<1>4. CASE UNCHANGED watchVars
  <2>1. /\ UNCHANGED vars /\ UNCHANGED viewVars /\ phase' = phase /\ todo' = todo
        /\ queue' = queue /\ restarts' = restarts
    BY <1>4 DEF watchVars
  <2>2. IInv' /\ TypeOK' /\ RevisionsAreUnique' /\ bucket' = bucket /\ seq' = seq
    BY <2>1, StoreStands
  <2>3. live' = live /\ lastRevision' = lastRevision /\ revokedAt' = revokedAt
    BY <2>1 DEF viewVars
  <2>4. WatchTypeOK'
    BY <2>1, <2>2, <2>3 DEF WatchInv, WatchTypeOK, Event, Sentinel
  <2>5. /\ ClassifierKnowsView' /\ SnapshotOfWritten' /\ lastRevision' <= seq'
        /\ phase' # "open" => queue' = <<>>
    BY <2>1, <2>2, <2>3 DEF WatchInv, ClassifierKnowsView, SnapshotOfWritten
  <2>6. StreamEndsInBucket' /\ StreamReachesRevision' /\ EventsAreChained'
    BY <2>1, <2>2, <2>3
       DEF WatchInv, StreamEndsInBucket, StreamReachesRevision, EventsAreChained, LastOf, Before
  <2> QED BY <2>2, <2>4, <2>5, <2>6 DEF WatchInv
<1> QED BY <1>1, <1>2, <1>3, <1>4 DEF WatchNext

(* In every reachable state of bucket, stream and consumer the invariant   *)
(* holds.                                                                  *)
THEOREM WatchInvariance == WatchSpec => []WatchInv
  BY WatchInitially, WatchNextPreserves, PTL DEF WatchSpec

(* A watched store is a store: consumers change nothing in it, so all that *)
(* holds of its behaviours holds while it is watched.                      *)
THEOREM WatchingChangesNothing == WatchSpec => Spec
<1>1. WatchInit => Init
  BY DEF WatchInit
<1>2. [WatchNext]_watchVars => [Next]_vars
  BY DEF WatchNext, Writers, ConsumerStep, ListKeys, FetchKey, FetchPoison, OpenWatch, Consume,
         ConsumePoison, ConsumeSentinel, Restart, watchVars
<1> QED BY <1>1, <1>2, PTL DEF WatchSpec, Spec

(* Every variable of the consumer keeps its type.                          *)
THEOREM WatchTypeCorrect == WatchSpec => []WatchTypeOK
<1>1. WatchInv => WatchTypeOK
  BY DEF WatchInv
<1> QED BY <1>1, WatchInvariance, PTL

(* While the stream is open, the view plus what the stream still holds is  *)
(* the bucket: nothing written or deleted around a torn snapshot is lost,  *)
(* and once everything is consumed the last revision is the bucket's.      *)
THEOREM ViewCatchesUp == WatchSpec => []LiveCatchesUp
<1>1. WatchInv => LiveCatchesUp
  <2> SUFFICES ASSUME WatchInv, phase = "open"
               PROVE  /\ \A k \in Keys : Foreseen(k) = bucket[k].val
                      /\ (\A k \in Keys : PendingFor(k) = {}) => lastRevision = seq
    BY DEF LiveCatchesUp
  <2>1. /\ Len(queue) \in Nat /\ DOMAIN queue = 1..Len(queue)
        /\ \A i \in 1..Len(queue) : queue[i] \in Event \cup {Sentinel}
    BY WatchTypes DEF WatchInv
  <2>2. \A k, i : i \in PendingFor(k) <=> i \in 1..Len(queue) /\ queue[i].key = k
    BY <2>1 DEF PendingFor
  <2>3. ASSUME NEW k \in Keys, PendingFor(k) = {} PROVE Foreseen(k) = bucket[k].val
    <3>1. \A i \in 1..Len(queue) : queue[i].key # k
      BY <2>2, <2>3
    <3> QED BY <2>3, <3>1 DEF WatchInv, StreamEndsInBucket, Foreseen
  <2>4. ASSUME NEW k \in Keys, PendingFor(k) # {} PROVE Foreseen(k) = bucket[k].val
    <3> DEFINE m == Max(PendingFor(k))
    <3>1. PendingFor(k) \subseteq 0..Len(queue)
      BY <2>1, <2>2
    <3>2. m \in PendingFor(k) /\ \A i \in PendingFor(k) : i <= m
      BY <2>1, <2>4, <3>1, BoundedHasMax
    <3> HIDE DEF m
    <3>3. m \in 1..Len(queue) /\ queue[m].key = k
      BY <2>2, <3>2
    <3>4. ASSUME NEW j \in 1..Len(queue), j > m PROVE queue[j].key # k
      <4>1. j \notin PendingFor(k)
        BY <3>2, <3>3, <3>4
      <4> QED BY <2>2, <4>1
    <3>5. LastOf(m, k, queue)
      BY <3>3, <3>4 DEF LastOf
    <3>6. queue[m].val = bucket[k].val
      BY <3>3, <3>5 DEF WatchInv, StreamEndsInBucket
    <3> QED BY <2>4, <3>6 DEF Foreseen, m
  <2>5. ASSUME \A k \in Keys : PendingFor(k) = {} PROVE lastRevision = seq
    <3>1. \A i \in 1..Len(queue) : queue[i].key \notin Keys
      BY <2>2, <2>5
    <3> QED BY <3>1 DEF WatchInv, StreamReachesRevision
  <2> QED BY <2>3, <2>4, <2>5
<1> QED BY <1>1, WatchInvariance, PTL

(* Each event of the live tail is classified as the transition the bucket  *)
(* made, whatever the snapshot missed and however often the consumer died. *)
THEOREM VerdictsAreTrue == WatchSpec => TailVerdictsAreTrue
<1> DEFINE True == Consume => LET e == Head(queue) IN
                     e.tail => Classify(revokedAt[e.key], e.val) = Happened(e.was, e.val)
<1>1. WatchInv => [True]_watchVars
  <2> DEFINE e == Head(queue)
             prior == revokedAt[e.key]
  <2> SUFFICES ASSUME WatchInv, Consume, e.tail
               PROVE  Classify(prior, e.val) = Happened(e.was, e.val)
    OBVIOUS
  <2>1. queue # <<>> /\ e # Sentinel /\ e.val # Poison /\ WatchTypeOK /\ queue' = Tail(queue)
    BY DEF Consume, WatchInv
  <2>2. 1 \in 1..Len(queue) /\ e = queue[1] /\ e \in Event /\ e.key \in Keys
    BY <2>1, HeadTaken, WatchTypes, EventsHaveKeys
  <2>3. e.was = live[e.key]
    <3>1. \A j \in 1..Len(queue) : ~(j < 1)
      BY <2>1, WatchTypes
    <3> QED BY <2>2, <3>1 DEF WatchInv, EventsAreChained
  <2>4. live[e.key] \in Record \cup {None}
    BY <2>1, <2>2, WatchTypes
  <2>5. prior = IF live[e.key] = None THEN None ELSE live[e.key].revoked
    BY <2>2 DEF WatchInv, ClassifierKnowsView
  <2> HIDE DEF e, prior
  <2>6. prior = IF Revoked(e.was) THEN e.was.revoked ELSE None
    BY <2>3, <2>4, <2>5, ValuesAreDistinct DEF Revoked
  <2>7. Classify(prior, e.val) = Happened(e.was, e.val)
    BY <2>6 DEF Classify, Happened
  <2> QED BY <2>7
<1> QED BY <1>1, WatchInvariance, PTL DEF WatchSpec, TailVerdictsAreTrue
=============================================================================

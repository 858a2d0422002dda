------------------------------ MODULE KvBucket ------------------------------
(***************************************************************************)
(* The NATS JetStream key-value bucket, as the code in src/ uses it        *)
(* through the nats-py KeyValue handle (and as the mocks of its tests      *)
(* stand in for it).  External: nothing here is code of the repository.    *)
(*                                                                         *)
(* A bucket is a function from keys to the last entry written under the    *)
(* key.  Revision numbers are taken from one counter per bucket and are    *)
(* never reused; a deletion leaves a tombstone, an entry with no value.    *)
(***************************************************************************)
EXTENDS Naturals, Lists

CONSTANT None       \* Python's None: no value, no entry, no instant

Entry(V) == [val : V \cup {None}, rev : Nat]

NeverWritten == [val |-> None, rev |-> 0]

(* get(key) finds an entry.                                                *)
Live(b, k) == b[k].val # None

(* The revision that update(key, value, last=...) compares with "last": a  *)
(* key that holds no value, deleted or never written, counts as revision 0 *)
(* (the create-if-absent case).                                            *)
LiveRevision(b, k) == IF Live(b, k) THEN b[k].rev ELSE 0

(* The bucket after value v was stored under k as revision r.              *)
Stored(b, k, v, r) == [b EXCEPT ![k] = [val |-> v, rev |-> r]]

(* The bucket after delete(k) left a tombstone as revision r.              *)
Tombstoned(b, k, r) == Stored(b, k, None, r)

(* What watchall() replays before its live tail: the last operation of     *)
(* every key ever written, tombstones included, oldest first.              *)
Replayed(b) == {k \in DOMAIN b : b[k].rev # 0}

(* Their keys in that order, in a bucket whose last revision is n.         *)
ReplayOrder(b, n) ==
  LET revs == Ascending({b[k].rev : k \in Replayed(b)}, n)
  IN  [i \in 1..Len(revs) |-> CHOOSE k \in Replayed(b) : b[k].rev = revs[i]]
=============================================================================

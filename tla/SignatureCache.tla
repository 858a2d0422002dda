--------------------------- MODULE SignatureCache ---------------------------
(***************************************************************************)
(* AipSignatureVerificationCache: a bounded memo of verify_aip_signature   *)
(* with a time to live.  "entries" is its dict, "order" the list of keys   *)
(* in insertion order that decides what is evicted; the two are kept in    *)
(* step by hand in every operation.  The class has no lock and no await:   *)
(* a call runs to its end before the next one starts.                      *)
(***************************************************************************)
EXTENDS Naturals, SequencesExt, Lists

CONSTANTS
  Bodies, Kids, Signatures, PubKeys,
  Genuine,      \* <<body, signature, key>> that the Ed25519 check accepts
  Malformed,    \* signatures it raises ValueError on
  MaxEntries, Ttl,
  MaxClock,     \* bound: the clock stops here
  MaxHits,      \* bound: calls answered from the cache
  MaxMisses     \* bound: fresh verifications

ASSUME Bounds == MaxEntries \in Nat \ {0} /\ Ttl \in Nat \ {0} /\ MaxClock \in Nat

ASSUME GenuineIsWellFormed ==
  Genuine \subseteq Bodies \X (Signatures \ Malformed) \X PubKeys

VARIABLES
  entries,      \* cache key -> outcome and insertion time
  order,        \* cache keys, oldest insertion first
  stats,        \* the lifetime counters
  clock,
  cleared       \* entries dropped by clear() (history)

vars == <<entries, order, stats, clock, cleared>>

(* One call's arguments.  (There is one algorithm; others are malformed.)  *)
Call == [body : Bodies, kid : Kids, sig : Signatures, pub : PubKeys]

Verifies(c) == <<c.body, c.sig, c.pub>> \in Genuine

(* Faulty variant: the key identifier stands for the public key.           *)
CacheKeyByKid(c) == <<c.body, c.kid, c.sig>>

(* _build_cache_key hashes the five parts; distinct parts, distinct keys.  *)
CacheKey(c) == <<c.body, c.kid, c.sig, c.pub>>

Init ==
  /\ entries = << >>
  /\ order = <<>>
  /\ stats = [hits |-> 0, misses |-> 0, evictions |-> 0, expired |-> 0]
  /\ clock = 0
  /\ cleared = 0
-----------------------------------------------------------------------------
Known == DOMAIN entries

Fresh(k) == k \in Known /\ clock - entries[k].at < Ttl

Without(f, S) == [k \in DOMAIN f \ S |-> f[k]]

(* Faulty variant: the removed keys stay in the order.                     *)
DropEntriesOnly(S) == [entries |-> Without(entries, S), order |-> order]

(* _remove, for every key of S.                                            *)
Drop(S) == [entries |-> Without(entries, S),
            order   |-> Leaving(order, S)]

Hit(c) ==
  /\ Fresh(CacheKey(c))
  /\ stats.hits < MaxHits
  /\ stats' = [stats EXCEPT !.hits = @ + 1]
  /\ UNCHANGED <<entries, order, clock, cleared>>

(* An entry past its time to live is dropped, the signature is verified    *)
(* anew, and the outcome, good or bad, is stored; at capacity the oldest   *)
(* insertion makes room.                                                   *)
Miss(c) ==
  LET k    == CacheKey(c)
      old  == {k} \cap Known
      kept == Drop(old)
      full == Cardinality(DOMAIN kept.entries) >= MaxEntries
      room == IF full THEN Without(kept.entries, {Head(kept.order)}) ELSE kept.entries
  IN
  /\ c.sig \notin Malformed
  /\ ~Fresh(k)
  /\ stats.misses < MaxMisses
  /\ entries' = [x \in DOMAIN room \cup {k} |->
                   IF x = k THEN [outcome |-> Verifies(c), at |-> clock] ELSE room[x]]
  /\ order' = Append(IF full THEN Tail(kept.order) ELSE kept.order, k)
  /\ stats' = [stats EXCEPT !.misses = @ + 1,
                            !.expired = @ + Cardinality(old),
                            !.evictions = @ + (IF full THEN 1 ELSE 0)]
  /\ UNCHANGED <<clock, cleared>>

(* Faulty variant: the sweep forgets its counter.                          *)
EvictExpiredUncounted ==
  LET old == {k \in Known : entries[k].at + Ttl <= clock} IN
  /\ old # {}
  /\ entries' = Drop(old).entries
  /\ order' = Drop(old).order
  /\ UNCHANGED <<stats, clock, cleared>>

EvictExpired ==
  LET old == {k \in Known : entries[k].at + Ttl <= clock} IN
  /\ old # {}
  /\ entries' = Drop(old).entries
  /\ order' = Drop(old).order
  /\ stats' = [stats EXCEPT !.expired = @ + Cardinality(old)]
  /\ UNCHANGED <<clock, cleared>>

Clear ==
  /\ Known # {}
  /\ entries' = << >>
  /\ order' = <<>>
  /\ cleared' = cleared + Cardinality(Known)
  /\ UNCHANGED <<stats, clock>>

Tick ==
  /\ clock < MaxClock
  /\ clock' = clock + 1
  /\ UNCHANGED <<entries, order, stats, cleared>>

Next ==
  \/ \E c \in Call : Hit(c)
  \/ \E c \in Call : Miss(c)
  \/ EvictExpired
  \/ Clear
  \/ Tick

Spec == Init /\ [][Next]_vars
-----------------------------------------------------------------------------
(* Every variable has its type.                                            *)
TypeOK ==
  /\ \A k \in Known : entries[k] \in [outcome : BOOLEAN, at : 0..clock]
  /\ Known \subseteq {CacheKey(c) : c \in Call}
  /\ order \in Seq(Known)
  /\ stats \in [{"hits", "misses", "evictions", "expired"} -> Nat]
  /\ clock \in 0..MaxClock /\ cleared \in Nat

(* The dict and the order list never drift apart: the list names every     *)
(* entry once, the oldest insertion first, and never more than max_entries.*)
(* If they drifted, an eviction would pop a key that is gone and the cache *)
(* would outgrow its bound.                                                *)
OrderIsEntries ==
  /\ ToSet(order) = Known
  /\ Len(order) = Cardinality(Known)
  /\ Len(order) <= MaxEntries
  /\ \A i, j \in DOMAIN order : i < j => entries[order[i]].at <= entries[order[j]].at

(* A hit cannot be told from a fresh verification: whichever call finds an *)
(* entry, its own verification would have come out as the entry says.      *)
HitIsFreshVerify ==
  \A c \in Call : CacheKey(c) \in Known =>
    entries[CacheKey(c)].outcome = Verifies(c)

(* The counters account for every entry there ever was: each miss stored   *)
(* one, and it is still here, evicted, expired or cleared.                 *)
CountersBalance ==
  stats.misses = Cardinality(Known) + stats.evictions + stats.expired + cleared

(* What the doc of CacheStats says of "expired": an entry removed on a     *)
(* lookup, which counts as a miss as well.                                 *)
ExpiryIsAMiss ==
  [][stats'.expired > stats.expired => stats'.misses > stats.misses]_vars
=============================================================================

------------------------ MODULE IdentityCacheProofs ------------------------
(***************************************************************************)
(* Proofs about the three caches of the identity substrate, SignatureCache,*)
(* FtdCache and HttpsResolver, for any documents, keys, capacity, time to  *)
(* live and time.                                                          *)
(*                                                                         *)
(* The first and the last are a dict with a list of its keys, which the    *)
(* classes keep in step.  InStep says what that means: the list names the  *)
(* keys of the dict, each once, the oldest first.  It is inductive once it *)
(* is known what the list is after keys were taken out of it               *)
(* (DropKeepsInStep), and it makes the length of the list the number of    *)
(* entries, on which the capacity bounds and the balance of the counters   *)
(* rest.  The second shares its one entry between threads: a call carries  *)
(* with it what its pipeline has established.                              *)
(***************************************************************************)
EXTENDS SignatureCache, FtdCache, HttpsResolver, ListLemmas, FiniteSetTheorems

-----------------------------------------------------------------------------
(* The dict and the list in step.                                          *)

(* The list o names the keys of e, each once, the oldest insertion first.  *)
InStep(e, o) ==
  /\ o \in Seq(DOMAIN e)
  /\ ToSet(o) = DOMAIN e
  /\ \A i, j \in 1..Len(o) : o[i] = o[j] => i = j
  /\ \A i, j \in 1..Len(o) : i < j => e[o[i]].at <= e[o[j]].at

EntryType(e, now) ==
  /\ DOMAIN e \subseteq {CacheKey(c) : c \in Call}
  /\ \A k \in DOMAIN e : e[k] \in [outcome : BOOLEAN, at : 0..now]

TellsTheOutcome(e) ==
  \A c \in Call : CacheKey(c) \in DOMAIN e => e[CacheKey(c)].outcome = Verifies(c)

IInv ==
  /\ TypeOK
  /\ InStep(entries, order)
  /\ Len(order) <= MaxEntries
  /\ HitIsFreshVerify
  /\ CountersBalance

(* A list in step with the dict is as long as the dict is large.           *)
LEMMA InStepCounts ==
  ASSUME NEW e, NEW o, InStep(e, o)
  PROVE  IsFiniteSet(DOMAIN e) /\ Cardinality(DOMAIN e) = Len(o) /\ Len(o) \in Nat
<1>1. o \in Seq(DOMAIN e) /\ Len(o) \in Nat /\ o \in [1..Len(o) -> DOMAIN e]
  BY DEF InStep
<1>2. o \in Bijection(1..Len(o), DOMAIN e)
  <2>1. IsInjective(o)
    BY <1>1 DEF InStep, IsInjective
  <2>2. \A k \in DOMAIN e : \E i \in 1..Len(o) : o[i] = k
    BY <1>1 DEF InStep, ToSet
  <2> QED BY <1>1, <2>1, <2>2 DEF Bijection, Injection, Surjection
<1>3. IsFiniteSet(1..Len(o)) /\ Cardinality(1..Len(o)) = Len(o)
  <2>1. 1 \in Int /\ Len(o) \in Int /\ (1 > Len(o) => Len(o) = 0)
    BY <1>1
  <2>2. /\ IsFiniteSet(1..Len(o))
        /\ Cardinality(1..Len(o)) = IF 1 > Len(o) THEN 0 ELSE Len(o) - 1 + 1
    BY <2>1, FS_Interval
  <2> QED BY <1>1, <2>1, <2>2
<1>4. ExistsBijection(1..Len(o), DOMAIN e)
  BY <1>2 DEF ExistsBijection
<1> QED BY <1>1, <1>3, <1>4, FS_Bijection

(* Any keys taken out of both leave dict and list in step.                 *)
LEMMA WithoutKeepsInStep ==
  ASSUME NEW d, NEW l, InStep(d, l), NEW S
  PROVE  InStep(Without(d, S), Leaving(l, S))
<1> DEFINE e == Without(d, S)
           o == Leaving(l, S)
           K == DOMAIN d
<1>1. DOMAIN e = K \ S /\ \A k \in K \ S : e[k] = d[k]
  BY DEF Without
<1>2. l \in Seq(K) /\ ToSet(l) = K /\ DOMAIN l = 1..Len(l)
  BY DEF InStep
<1>3. IsLeftOf(o, l, S, Len(l))
  BY <1>2, LeavingIsLeft
<1> HIDE DEF e, o
<1>4. o \in Seq(DOMAIN e) /\ Len(o) \in Nat /\ DOMAIN o = 1..Len(o)
  BY <1>1, <1>2, <1>3 DEF IsLeftOf
<1>5. ToSet(o) = DOMAIN e
  <2>1. ToSet(o) \subseteq DOMAIN e
    BY <1>4 DEF ToSet
  <2>2. ASSUME NEW k \in DOMAIN e PROVE k \in ToSet(o)
    <3>1. PICK p \in 1..Len(l) : l[p] = k
      BY <1>1, <1>2 DEF ToSet
    <3>2. PICK i \in 1..Len(o) : o[i] = k
      BY <1>1, <1>3, <3>1 DEF IsLeftOf
    <3> QED BY <1>4, <3>2 DEF ToSet
  <2> QED BY <2>1, <2>2
<1>6. ASSUME NEW i \in 1..Len(o), NEW j \in 1..Len(o), i < j
      PROVE  o[i] # o[j] /\ e[o[i]].at <= e[o[j]].at
  <2>1. PICK p, q \in 1..Len(l) : p < q /\ o[i] = l[p] /\ o[j] = l[q]
    BY <1>3, <1>6 DEF IsLeftOf
  <2>2. l[p] # l[q] /\ d[l[p]].at <= d[l[q]].at
    BY <2>1 DEF InStep
  <2>3. e[o[i]] = d[o[i]] /\ e[o[j]] = d[o[j]]
    BY <1>1, <1>4
  <2> QED BY <2>1, <2>2, <2>3
<1>7. ASSUME NEW i \in 1..Len(o), NEW j \in 1..Len(o), o[i] = o[j] PROVE i = j
  BY <1>4, <1>6, <1>7
<1> QED BY <1>1, <1>4, <1>5, <1>6, <1>7 DEF InStep, e, o

(* _remove, for any keys.                                                  *)
LEMMA DropKeepsInStep ==
  ASSUME InStep(entries, order), NEW S
  PROVE  /\ InStep(Drop(S).entries, Drop(S).order)
         /\ DOMAIN Drop(S).entries = Known \ S
         /\ \A k \in Known \ S : Drop(S).entries[k] = entries[k]
<1>1. Drop(S).entries = Without(entries, S) /\ Drop(S).order = Leaving(order, S)
  BY DEF Drop
<1>2. /\ DOMAIN Without(entries, S) = Known \ S
      /\ \A k \in Known \ S : Without(entries, S)[k] = entries[k]
  BY DEF Without, Known
<1> QED BY <1>1, <1>2, WithoutKeepsInStep

(* _insert's eviction: the oldest key leaves both.                         *)
LEMMA EvictionKeepsInStep ==
  ASSUME NEW e, NEW o, InStep(e, o), Len(o) > 0
  PROVE  /\ Head(o) \in DOMAIN e
         /\ InStep(Without(e, {Head(o)}), Tail(o))
         /\ Len(Tail(o)) = Len(o) - 1
<1> DEFINE d == Without(e, {Head(o)})
           t == Tail(o)
<1>1. o \in Seq(DOMAIN e) /\ Len(o) \in Nat /\ o # <<>> /\ DOMAIN o = 1..Len(o)
  BY DEF InStep
<1>2. Head(o) = o[1] /\ o[1] \in DOMAIN e
  BY <1>1
<1>3. /\ t \in Seq(DOMAIN e) /\ Len(t) = Len(o) - 1 /\ DOMAIN t = 1..Len(t)
      /\ \A i \in 1..Len(t) : t[i] = o[i + 1]
  BY <1>1
<1>4. DOMAIN d = DOMAIN e \ {o[1]} /\ \A k \in DOMAIN d : d[k] = e[k]
  BY <1>2 DEF Without
<1> HIDE DEF d, t
<1>5. ASSUME NEW i \in 1..Len(t) PROVE t[i] \in DOMAIN d
  <2>1. i + 1 \in 1..Len(o) /\ 1 \in 1..Len(o) /\ i + 1 # 1
    BY <1>1, <1>3
  <2>2. o[i + 1] # o[1]
    BY <2>1 DEF InStep
  <2>3. o[i + 1] \in DOMAIN e
    BY <1>1, <2>1
  <2> QED BY <1>3, <1>4, <2>2, <2>3
<1>6. t \in Seq(DOMAIN d)
  BY <1>3, <1>5
<1>7. ToSet(t) = DOMAIN d
  <2>1. ToSet(t) \subseteq DOMAIN d
    BY <1>3, <1>5 DEF ToSet
  <2>2. ASSUME NEW k \in DOMAIN d PROVE k \in ToSet(t)
    <3>1. PICK p \in 1..Len(o) : o[p] = k
      BY <1>1, <1>4 DEF InStep, ToSet
    <3>2. p # 1
      BY <1>4, <3>1
    <3>3. p - 1 \in 1..Len(t) /\ (p - 1) + 1 = p
      BY <1>1, <1>3, <3>2
    <3>4. t[p - 1] = k
      BY <1>3, <3>1, <3>3
    <3> QED BY <1>3, <3>3, <3>4 DEF ToSet
  <2> QED BY <2>1, <2>2
<1>8. ASSUME NEW i \in 1..Len(t), NEW j \in 1..Len(t)
      PROVE  /\ t[i] = t[j] => i = j
             /\ i < j => d[t[i]].at <= d[t[j]].at
  <2>1. i + 1 \in 1..Len(o) /\ j + 1 \in 1..Len(o) /\ (i < j => i + 1 < j + 1)
        /\ (i + 1 = j + 1 => i = j)
    BY <1>1, <1>3
  <2>2. /\ o[i + 1] = o[j + 1] => i + 1 = j + 1
        /\ i < j => e[o[i + 1]].at <= e[o[j + 1]].at
    BY <2>1 DEF InStep
  <2>3. d[t[i]] = e[t[i]] /\ d[t[j]] = e[t[j]]
    BY <1>4, <1>5
  <2> QED BY <1>3, <2>1, <2>2, <2>3
<1>9. InStep(d, t)
  BY <1>6, <1>7, <1>8 DEF InStep
<1> QED BY <1>2, <1>3, <1>9 DEF d, t

(* _insert of a new key that is no older than any other.                   *)
LEMMA InsertionKeepsInStep ==
  ASSUME NEW e, NEW o, InStep(e, o), NEW k, k \notin DOMAIN e, NEW d,
         DOMAIN d = DOMAIN e \cup {k}, \A x \in DOMAIN e : d[x] = e[x],
         \A x \in DOMAIN e : e[x].at <= d[k].at
  PROVE  InStep(d, Append(o, k)) /\ Len(Append(o, k)) = Len(o) + 1
<1> DEFINE t == Append(o, k)
<1>1. o \in Seq(DOMAIN e) /\ Len(o) \in Nat /\ DOMAIN o = 1..Len(o)
  BY DEF InStep
<1>2. o \in Seq(DOMAIN d)
  BY <1>1
<1>3. /\ t \in Seq(DOMAIN d) /\ Len(t) = Len(o) + 1 /\ DOMAIN t = 1..Len(t)
      /\ t[Len(o) + 1] = k /\ \A i \in 1..Len(o) : t[i] = o[i]
  BY <1>1, <1>2
<1> HIDE DEF t
<1>4. 1..Len(t) = (1..Len(o)) \cup {Len(o) + 1}
  BY <1>1, <1>3
<1>5. \A i \in 1..Len(o) : o[i] \in DOMAIN e /\ o[i] # k
  BY <1>1
<1>6. ToSet(t) = DOMAIN d
  <2>1. ToSet(t) \subseteq DOMAIN d
    BY <1>3 DEF ToSet
  <2>2. ASSUME NEW x \in DOMAIN d PROVE x \in ToSet(t)
    <3>1. CASE x = k
      BY <1>3, <1>4, <3>1 DEF ToSet
    <3>2. CASE x # k
      <4>1. PICK p \in 1..Len(o) : o[p] = x
        BY <1>1, <3>2 DEF InStep, ToSet
      <4> QED BY <1>3, <1>4, <4>1 DEF ToSet
    <3> QED BY <3>1, <3>2
  <2> QED BY <2>1, <2>2
<1>7. ASSUME NEW i \in 1..Len(t), NEW j \in 1..Len(t), i < j
      PROVE  t[i] # t[j] /\ d[t[i]].at <= d[t[j]].at
  <2>1. i \in 1..Len(o)
    BY <1>1, <1>3, <1>7
  <2>2. CASE j \in 1..Len(o)
    <3>1. o[i] # o[j] /\ e[o[i]].at <= e[o[j]].at
      BY <1>1, <1>7, <2>1, <2>2 DEF InStep
    <3> QED BY <1>3, <1>5, <2>1, <2>2, <3>1
  <2>3. CASE j = Len(o) + 1
    BY <1>3, <1>5, <2>1, <2>3
  <2> QED BY <1>4, <2>2, <2>3
<1>8. ASSUME NEW i \in 1..Len(t), NEW j \in 1..Len(t), t[i] = t[j] PROVE i = j
  BY <1>1, <1>3, <1>7, <1>8
<1> QED BY <1>3, <1>6, <1>7, <1>8 DEF InStep, t
-----------------------------------------------------------------------------
(* The steps.                                                              *)

(* What the invariant says of any dict e and list o.                       *)
Sound(e, o, now) ==
  /\ EntryType(e, now)
  /\ InStep(e, o)
  /\ Len(o) <= MaxEntries
  /\ TellsTheOutcome(e)

Numbers ==
  /\ stats \in [{"hits", "misses", "evictions", "expired"} -> Nat]
  /\ clock \in 0..MaxClock /\ cleared \in Nat

LEMMA InvariantIsSound ==
  IInv <=> Sound(entries, order, clock) /\ Numbers /\ CountersBalance
  BY DEF IInv, TypeOK, Sound, Numbers, EntryType, HitIsFreshVerify, TellsTheOutcome,
         InStep, Known

LEMMA SoundNext == Sound(entries', order', clock') => Sound(entries, order, clock)'
  BY DEF Sound, EntryType, InStep, TellsTheOutcome, Call, CacheKey, Verifies

(* What is dropped leaves the rest sound, and is counted exactly.          *)
LEMMA DropKeepsSound ==
  ASSUME Sound(entries, order, clock), NEW S \in SUBSET Known
  PROVE  /\ Sound(Drop(S).entries, Drop(S).order, clock)
         /\ DOMAIN Drop(S).entries = Known \ S
         /\ IsFiniteSet(Known) /\ IsFiniteSet(S) /\ Cardinality(S) \in Nat
         /\ Cardinality(Known \ S) = Cardinality(Known) - Cardinality(S)
<1> DEFINE e == Drop(S).entries
           o == Drop(S).order
<1>1. InStep(entries, order)
  BY DEF Sound
<1>2. /\ InStep(e, o) /\ DOMAIN e = Known \ S
      /\ \A k \in Known \ S : e[k] = entries[k]
  BY <1>1, DropKeepsInStep
<1>3. /\ IsFiniteSet(Known) /\ Cardinality(Known) = Len(order) /\ Len(order) \in Nat
  BY <1>1, InStepCounts DEF Known
<1> HIDE DEF e, o
<1>4. IsFiniteSet(Known \ S) /\ Cardinality(Known \ S) = Len(o) /\ Len(o) \in Nat
  BY <1>2, InStepCounts
<1>5. IsFiniteSet(S) /\ Cardinality(S) \in Nat
  BY <1>3, FS_Subset, FS_CardinalityType
<1>6. Cardinality(Known) = Cardinality(Known \ S) + Cardinality(S)
  <2>1. (Known \ S) \cup S = Known /\ (Known \ S) \cap S = {}
    OBVIOUS
  <2>2. Cardinality((Known \ S) \cup S) =
          Cardinality(Known \ S) + Cardinality(S) - Cardinality((Known \ S) \cap S)
    BY <1>4, <1>5, FS_Union
  <2>3. Cardinality({}) = 0
    BY FS_EmptySet
  <2>4. Cardinality(Known) = Cardinality(Known \ S) + Cardinality(S) - 0
    BY <2>1, <2>2, <2>3
  <2> QED BY <1>4, <1>5, <2>4
<1>7. Len(o) <= MaxEntries
  BY <1>3, <1>4, <1>5, <1>6, Bounds DEF Sound
<1>8. EntryType(e, clock) /\ TellsTheOutcome(e)
  BY <1>2 DEF Sound, EntryType, TellsTheOutcome, Known
<1>9. Sound(e, o, clock)
  BY <1>2, <1>7, <1>8 DEF Sound
<1>10. Cardinality(Known \ S) = Cardinality(Known) - Cardinality(S)
  BY <1>3, <1>4, <1>5, <1>6
<1> QED BY <1>2, <1>3, <1>5, <1>9, <1>10 DEF e, o

LEMMA InitHolds == Init => IInv
<1> SUFFICES ASSUME Init PROVE IInv
  OBVIOUS
<1>1. entries = << >> /\ order = <<>> /\ DOMAIN entries = {} /\ Len(order) = 0
      /\ order \in Seq({}) /\ ToSet(order) = {}
  BY DEF Init, ToSet
<1>2. InStep(entries, order)
  BY <1>1 DEF InStep
<1>3. EntryType(entries, clock) /\ TellsTheOutcome(entries)
  BY <1>1 DEF EntryType, TellsTheOutcome
<1>4. Sound(entries, order, clock)
  BY <1>1, <1>2, <1>3, Bounds DEF Sound
<1>5. Numbers /\ CountersBalance
  BY <1>1, FS_EmptySet, Bounds DEF Init, Numbers, CountersBalance, Known
<1> QED BY <1>4, <1>5, InvariantIsSound

(* A fresh verification: what was there of the key goes, at capacity the   *)
(* oldest goes too, and the outcome comes in.                              *)
LEMMA MissKeepsInvariant ==
  ASSUME IInv, NEW c \in Call, Miss(c)
  PROVE  IInv'
<1> DEFINE k    == CacheKey(c)
           old  == {k} \cap Known
           e    == Drop(old).entries
           o    == Drop(old).order
           full == Cardinality(DOMAIN e) >= MaxEntries
           room == IF full THEN Without(e, {Head(o)}) ELSE e
           rest == IF full THEN Tail(o) ELSE o
           d    == [x \in DOMAIN room \cup {k} |->
                      IF x = k THEN [outcome |-> Verifies(c), at |-> clock] ELSE room[x]]
           gone == IF full THEN 1 ELSE 0
<1>1. /\ entries' = d /\ order' = Append(rest, k)
      /\ stats' = [stats EXCEPT !.misses = @ + 1, !.expired = @ + Cardinality(old),
                                !.evictions = @ + gone]
      /\ UNCHANGED <<clock, cleared>>
  BY DEF Miss
<1>2. Sound(entries, order, clock) /\ Numbers /\ CountersBalance
  BY InvariantIsSound
<1>3. /\ Sound(e, o, clock) /\ DOMAIN e = Known \ old
      /\ IsFiniteSet(Known) /\ Cardinality(old) \in Nat
      /\ Cardinality(DOMAIN e) = Cardinality(Known) - Cardinality(old)
  <2>1. old \in SUBSET Known
    OBVIOUS
  <2> HIDE DEF old
  <2> QED BY <1>2, <2>1, DropKeepsSound
<1>4. k \notin DOMAIN e
  BY <1>3
<1>k. k \in {CacheKey(x) : x \in Call}
  OBVIOUS
<1>t. \A x \in Call : CacheKey(x) = k => Verifies(x) = Verifies(c)
  BY DEF CacheKey, Verifies
<1> HIDE DEF old, e, o, k
<1>5. InStep(e, o) /\ Len(o) \in Nat /\ Cardinality(DOMAIN e) = Len(o) /\ Len(o) <= MaxEntries
      /\ EntryType(e, clock) /\ TellsTheOutcome(e)
  BY <1>3, InStepCounts DEF Sound
<1>6. /\ InStep(room, rest) /\ Len(rest) = Len(o) - gone /\ gone \in {0, 1}
      /\ DOMAIN room \subseteq DOMAIN e /\ \A x \in DOMAIN room : room[x] = e[x]
      /\ Len(rest) + 1 <= MaxEntries /\ Len(rest) \in Nat
  <2>1. CASE full
    <3>1. Len(o) > 0
      BY <1>5, <2>1, Bounds
    <3>2. /\ InStep(Without(e, {Head(o)}), Tail(o)) /\ Len(Tail(o)) = Len(o) - 1
      BY <1>5, <3>1, EvictionKeepsInStep
    <3>3. room = Without(e, {Head(o)}) /\ rest = Tail(o) /\ gone = 1
      BY <2>1
    <3>4. DOMAIN room \subseteq DOMAIN e /\ \A x \in DOMAIN room : room[x] = e[x]
      BY <3>3 DEF Without
    <3> HIDE DEF room, rest, gone
    <3>5. Len(rest) = Len(o) - 1 /\ Len(rest) \in Nat
      BY <1>5, <3>1, <3>2, <3>3
    <3>6. Len(rest) + 1 <= MaxEntries
      BY <1>5, <3>5, Bounds
    <3> QED BY <3>2, <3>3, <3>4, <3>5, <3>6
  <2>2. CASE ~ full
    BY <1>5, <2>2, Bounds
  <2> QED BY <2>1, <2>2
<1> HIDE DEF room, rest, full, gone
<1>7. /\ DOMAIN d = DOMAIN room \cup {k} /\ k \notin DOMAIN room
      /\ d[k] = [outcome |-> Verifies(c), at |-> clock]
      /\ \A x \in DOMAIN room : d[x] = room[x]
  BY <1>4, <1>6
<1> HIDE DEF d
<1>8. \A x \in DOMAIN room : room[x].at <= d[k].at
  BY <1>2, <1>5, <1>6, <1>7 DEF EntryType, Numbers
<1>9. InStep(d, Append(rest, k)) /\ Len(Append(rest, k)) = Len(rest) + 1
  BY <1>6, <1>7, <1>8, InsertionKeepsInStep
<1>10. EntryType(d, clock)
  <2>1. Verifies(c) \in BOOLEAN
    BY DEF Verifies
  <2>2. clock \in 0..clock
    BY <1>2 DEF Numbers
  <2>3. d[k] \in [outcome : BOOLEAN, at : 0..clock]
    BY <1>7, <2>1, <2>2
  <2> QED BY <1>k, <1>5, <1>6, <1>7, <2>3 DEF EntryType
<1>11. TellsTheOutcome(d)
  <2>1. ASSUME NEW x \in Call, CacheKey(x) \in DOMAIN d PROVE d[CacheKey(x)].outcome = Verifies(x)
    <3>1. CASE CacheKey(x) = k
      BY <1>t, <1>7, <3>1
    <3>2. CASE CacheKey(x) # k
      BY <1>5, <1>6, <1>7, <2>1, <3>2 DEF TellsTheOutcome
    <3> QED BY <3>1, <3>2
  <2> QED BY <2>1 DEF TellsTheOutcome
<1>12. Len(Append(rest, k)) <= MaxEntries
  BY <1>6, <1>9
<1>13. Sound(entries, order, clock)'
  <2>1. Sound(entries', order', clock')
    BY <1>1, <1>9, <1>10, <1>11, <1>12 DEF Sound
  <2> QED BY <2>1, SoundNext
<1>14. Cardinality(Known') = Len(rest) + 1
  BY <1>1, <1>7, <1>9, InStepCounts DEF Known
<1>15. Numbers'
  <2>1. /\ stats \in [{"hits", "misses", "evictions", "expired"} -> Nat]
        /\ stats.misses + 1 \in Nat /\ stats.expired + Cardinality(old) \in Nat
        /\ stats.evictions + gone \in Nat
    BY <1>2, <1>3, <1>6 DEF Numbers
  <2>2. stats' \in [{"hits", "misses", "evictions", "expired"} -> Nat]
    BY <1>1, <2>1
  <2> QED BY <1>1, <1>2, <2>2 DEF Numbers
<1>16. /\ stats'.misses = stats.misses + 1 /\ stats'.evictions = stats.evictions + gone
       /\ stats'.expired = stats.expired + Cardinality(old)
       /\ stats.misses \in Nat /\ stats.evictions \in Nat /\ stats.expired \in Nat /\ cleared \in Nat
  BY <1>1, <1>2 DEF Numbers
<1>17. CountersBalance'
  <2>1. stats.misses = Cardinality(Known) + stats.evictions + stats.expired + cleared
    BY <1>2 DEF CountersBalance
  <2>2. Cardinality(Known) \in Nat
    BY <1>3, FS_CardinalityType
  <2>3. Cardinality(Known') = Cardinality(Known) - Cardinality(old) - gone + 1
    BY <1>3, <1>5, <1>6, <1>14, <2>2
  <2>4. cleared' = cleared
    BY <1>1
  <2>5. stats.misses + 1 =
          (Cardinality(Known) - Cardinality(old) - gone + 1)
            + (stats.evictions + gone) + (stats.expired + Cardinality(old)) + cleared
    <3>1. \A m, n, w, v, x, g, l \in Nat :
            m = n + v + x + l => m + 1 = (n - w - g + 1) + (v + g) + (x + w) + l
      OBVIOUS
    <3>2. gone \in Nat /\ Cardinality(old) \in Nat
      BY <1>3, <1>6
    <3> HIDE DEF CountersBalance
    <3> QED BY <1>16, <2>1, <2>2, <3>1, <3>2
  <2>6. stats'.misses = Cardinality(Known') + stats'.evictions + stats'.expired + cleared'
    BY <1>16, <2>3, <2>4, <2>5
  <2> QED BY <2>6 DEF CountersBalance
<1> QED BY <1>13, <1>15, <1>17, InvariantIsSound, PTL

LEMMA EvictExpiredKeepsInvariant ==
  ASSUME IInv, EvictExpired
  PROVE  IInv'
<1> DEFINE old == {k \in Known : entries[k].at + Ttl <= clock}
           n   == Cardinality(old)
<1>1. /\ entries' = Drop(old).entries /\ order' = Drop(old).order
      /\ stats' = [stats EXCEPT !.expired = @ + n]
      /\ UNCHANGED <<clock, cleared>>
  BY DEF EvictExpired
<1>2. Sound(entries, order, clock) /\ Numbers /\ CountersBalance
  BY InvariantIsSound
<1>3. old \in SUBSET Known
  OBVIOUS
<1> HIDE DEF old
<1>4. /\ Sound(Drop(old).entries, Drop(old).order, clock)
      /\ DOMAIN Drop(old).entries = Known \ old
      /\ IsFiniteSet(Known) /\ n \in Nat
      /\ Cardinality(Known \ old) = Cardinality(Known) - n
  BY <1>2, <1>3, DropKeepsSound
<1> HIDE DEF n
<1>5. Sound(entries', order', clock')
  BY <1>1, <1>4
<1>6. /\ stats \in [{"hits", "misses", "evictions", "expired"} -> Nat]
      /\ stats.misses \in Nat /\ stats.evictions \in Nat /\ stats.expired \in Nat /\ cleared \in Nat
      /\ stats.expired + n \in Nat
  BY <1>2, <1>4 DEF Numbers
<1>7. /\ stats' \in [{"hits", "misses", "evictions", "expired"} -> Nat]
      /\ stats'.misses = stats.misses /\ stats'.evictions = stats.evictions
      /\ stats'.expired = stats.expired + n
  BY <1>1, <1>6
<1>8. Numbers'
  BY <1>1, <1>2, <1>7 DEF Numbers
<1>9. CountersBalance'
  <2>1. Known' = Known \ old
    BY <1>1, <1>4 DEF Known
  <2>2. Cardinality(Known) \in Nat
    BY <1>4, FS_CardinalityType
  <2>3. stats.misses = Cardinality(Known) + stats.evictions + stats.expired + cleared
    BY <1>2 DEF CountersBalance
  <2>4. stats.misses = (Cardinality(Known) - n) + stats.evictions + (stats.expired + n) + cleared
    BY <1>4, <1>6, <2>2, <2>3
  <2> QED BY <1>1, <1>4, <1>7, <2>1, <2>4 DEF CountersBalance
<1> QED BY <1>5, <1>8, <1>9, SoundNext, InvariantIsSound, PTL

LEMMA ClearKeepsInvariant ==
  ASSUME IInv, Clear
  PROVE  IInv'
<1>1. Sound(entries, order, clock) /\ Numbers /\ CountersBalance
  BY InvariantIsSound
<1>2. /\ entries' = << >> /\ order' = <<>> /\ UNCHANGED <<stats, clock>>
      /\ cleared' = cleared + Cardinality(Known) /\ DOMAIN entries' = {} /\ Len(order') = 0
      /\ order' \in Seq({}) /\ ToSet(order') = {}
  BY DEF Clear, ToSet
<1>3. Sound(entries', order', clock')
  BY <1>2, Bounds DEF Sound, InStep, EntryType, TellsTheOutcome
<1>4. Cardinality(Known) \in Nat
  BY <1>1, InStepCounts DEF Sound, Known
<1>5. Numbers'
  BY <1>1, <1>2, <1>4 DEF Numbers
<1>6. CountersBalance'
  <2>1. Cardinality(Known') = 0
    BY <1>2, FS_EmptySet DEF Known
  <2>2. stats.misses = Cardinality(Known) + stats.evictions + stats.expired + cleared
    BY <1>1 DEF CountersBalance
  <2>3. stats.evictions \in Nat /\ stats.expired \in Nat /\ cleared \in Nat
    BY <1>1 DEF Numbers
  <2>4. stats.misses = 0 + stats.evictions + stats.expired + (cleared + Cardinality(Known))
    BY <1>4, <2>2, <2>3
  <2> QED BY <1>2, <2>1, <2>4 DEF CountersBalance
<1> QED BY <1>3, <1>5, <1>6, SoundNext, InvariantIsSound, PTL

LEMMA TickKeepsInvariant ==
  ASSUME IInv, Tick
  PROVE  IInv'
<1>1. Sound(entries, order, clock) /\ Numbers /\ CountersBalance
  BY InvariantIsSound
<1>2. clock' = clock + 1 /\ clock < MaxClock /\ UNCHANGED <<entries, order, stats, cleared>>
  BY DEF Tick
<1>3. clock \in Nat /\ clock' \in 0..MaxClock
  BY <1>1, <1>2, Bounds DEF Numbers
<1>4. \A t : t \in 0..clock => t \in 0..(clock + 1)
  BY <1>3
<1>5. EntryType(entries, clock + 1)
  BY <1>1, <1>4 DEF Sound, EntryType
<1>6. Sound(entries', order', clock')
  BY <1>1, <1>2, <1>5 DEF Sound
<1>7. Numbers' /\ CountersBalance'
  BY <1>1, <1>2, <1>3 DEF Numbers, CountersBalance, Known
<1> QED BY <1>6, <1>7, SoundNext, InvariantIsSound, PTL

(* The invariant is inductive.                                             *)
THEOREM Inductive == Spec => []IInv
<1>1. Init => IInv
  BY InitHolds
<1>2. IInv /\ [Next]_vars => IInv'
  <2> SUFFICES ASSUME IInv, [Next]_vars PROVE IInv'
    OBVIOUS
  <2>1. CASE UNCHANGED vars
    BY <2>1 DEF vars, IInv, TypeOK, InStep, HitIsFreshVerify, CountersBalance, Known
  <2>2. ASSUME NEW c \in Call, Hit(c) PROVE IInv'
    <3>1. UNCHANGED <<entries, order, clock, cleared>> /\ stats' = [stats EXCEPT !.hits = @ + 1]
      BY <2>2 DEF Hit
    <3>2. /\ stats' \in [{"hits", "misses", "evictions", "expired"} -> Nat]
          /\ stats'.misses = stats.misses /\ stats'.evictions = stats.evictions
          /\ stats'.expired = stats.expired
      BY <3>1 DEF IInv, TypeOK
    <3> QED BY <3>1, <3>2 DEF IInv, TypeOK, InStep, HitIsFreshVerify, CountersBalance, Known
  <2>3. ASSUME NEW c \in Call, Miss(c) PROVE IInv'
    BY <2>3, MissKeepsInvariant
  <2>4. CASE EvictExpired
    BY <2>4, EvictExpiredKeepsInvariant
  <2>5. CASE Clear
    BY <2>5, ClearKeepsInvariant
  <2>6. CASE Tick
    BY <2>6, TickKeepsInvariant
  <2> QED BY <2>1, <2>2, <2>3, <2>4, <2>5, <2>6 DEF Next
<1> QED BY <1>1, <1>2, PTL DEF Spec
-----------------------------------------------------------------------------
(* Every variable of the cache keeps its type.                             *)
THEOREM TypeCorrect == Spec => []TypeOK
<1>1. IInv => TypeOK
  BY DEF IInv
<1> QED BY <1>1, Inductive, PTL

(* Whatever is looked up, inserted, evicted, expired and cleared in        *)
(* whatever order, _order names the keys of _entries, each once and the    *)
(* oldest insertion first, and there are no more than max_entries.         *)
THEOREM OrderNamesEntries == Spec => []OrderIsEntries
<1>1. IInv => OrderIsEntries
  <2> SUFFICES ASSUME IInv PROVE OrderIsEntries
    OBVIOUS
  <2>1. InStep(entries, order) /\ Len(order) <= MaxEntries
    BY DEF IInv
  <2>2. Cardinality(DOMAIN entries) = Len(order) /\ DOMAIN order = 1..Len(order)
    BY <2>1, InStepCounts DEF InStep
  <2> QED BY <2>1, <2>2 DEF OrderIsEntries, InStep, Known
<1> QED BY <1>1, Inductive, PTL

(* verify() answers from the cache exactly what it would have computed,    *)
(* for every pair of calls that share a cache key.                         *)
THEOREM HitsAreTrue == Spec => []HitIsFreshVerify
<1>1. IInv => HitIsFreshVerify
  BY DEF IInv
<1> QED BY <1>1, Inductive, PTL

(* The lifetime counters account for every entry that was ever stored.     *)
THEOREM CountersAddUp == Spec => []CountersBalance
<1>1. IInv => CountersBalance
  BY DEF IInv
<1> QED BY <1>1, Inductive, PTL
-----------------------------------------------------------------------------
(* FtdCache.                                                               *)


(* What the steps a call has behind it say of its document; DNS cannot     *)
(* name the document of a call unnoticed.                                  *)
KeepsItsWord(c) ==
  /\ c.step \in {"get", "put"} => c.read \in 0..MaxTime
  /\ c.step \in {"anchored", "verified", "put"} =>
       c.doc \notin Unstructured \cup Foreign /\ c.now < Expires[c.doc] /\ c.named
  /\ c.step \in {"verified", "put"} =>
       LiveKeys(c.doc, c.now) # {} /\ c.doc \notin Unsigned

PipelineKeepsItsWord ==
  \A t \in Threads : call[t] # Idle =>
    KeepsItsWord(call[t]) /\ (call[t].doc = anchor => call[t].named)

(* The entry is verified and lapses a margin before its document.          *)
CacheIsVerified ==
  cache # None =>
    /\ Verified(cache.result)
    /\ cache.cache_until + Margin = Expires[cache.result.doc]

FtdInv == FtdTypeOK /\ PipelineKeepsItsWord /\ CacheIsVerified /\ OnlyVerifiedIsServed
-----------------------------------------------------------------------------
(* A call in the middle of something has the fields of one, and keeps its  *)
(* word.                                                                   *)
LEMMA ActivePipeline ==
  ASSUME FtdInv, NEW t \in Threads, call[t].step # "idle"
  PROVE  /\ call[t] \in FtdCall /\ call[t] # Idle /\ KeepsItsWord(call[t])
         /\ call[t].doc = anchor => call[t].named
  BY DEF FtdInv, FtdTypeOK, PipelineKeepsItsWord, Idle

LEMMA FtdInitEstablishes == FtdInit => FtdInv
  BY DocsAreDated DEF FtdInit, FtdInv, FtdTypeOK, PipelineKeepsItsWord, CacheIsVerified,
                       OnlyVerifiedIsServed

(* A call that changes only its own slot, or drops the entry too, or has   *)
(* the entry or a verified result to return.                               *)
LEMMA SlotPreserves ==
  ASSUME FtdInv, NEW t \in Threads, NEW c \in {Idle} \cup FtdCall,
         call' = [call EXCEPT ![t] = c],
         c # Idle => KeepsItsWord(c) /\ (c.doc = anchor => c.named),
         cache' \in {cache, None},
         served' = served \/ (served' \in Result /\ Verified(served')),
         UNCHANGED <<time, anchor>>
  PROVE  FtdInv'
<1>1. FtdTypeOK /\ PipelineKeepsItsWord /\ CacheIsVerified /\ OnlyVerifiedIsServed
  BY DEF FtdInv
<1>2. call \in [Threads -> {Idle} \cup FtdCall]
  BY <1>1 DEF FtdTypeOK
<1>3. call'[t] = c /\ \A u \in Threads : u # t => call'[u] = call[u]
  BY <1>2
<1>4. FtdTypeOK'
  BY <1>1, <1>2 DEF FtdTypeOK
<1>5. PipelineKeepsItsWord'
  <2> SUFFICES ASSUME NEW u \in Threads, call'[u] # Idle
               PROVE  KeepsItsWord(call'[u]) /\ (call'[u].doc = anchor => call'[u].named)
    BY DEF PipelineKeepsItsWord, KeepsItsWord, LiveKeys
  <2>1. CASE u = t
    BY <1>3, <2>1
  <2>2. CASE u # t
    BY <1>1, <1>3, <2>2 DEF PipelineKeepsItsWord
  <2> QED BY <2>1, <2>2
<1>6. CacheIsVerified' /\ OnlyVerifiedIsServed'
  BY <1>1 DEF CacheIsVerified, OnlyVerifiedIsServed, Verified, LiveKeys
<1> QED BY <1>4, <1>5, <1>6 DEF FtdInv

LEMMA DonePreserves ==
  ASSUME FtdInv, NEW t \in Threads, Done(t), cache' \in {cache, None},
         served' = served \/ (served' \in Result /\ Verified(served')),
         UNCHANGED <<time, anchor>>
  PROVE  FtdInv'
  BY SlotPreserves DEF Done

(* A call takes the time, and with it whether DNS names its document.      *)
LEMMA CallBeginsPreserves ==
  ASSUME FtdInv, NEW t \in Threads, NEW d \in Generations, CallBegins(t, d)
  PROVE  FtdInv'
<1> DEFINE c == [step |-> "called", doc |-> d, now |-> time, read |-> None,
                 named |-> anchor = d]
<1>1. c \in FtdCall
  BY DEF FtdInv, FtdTypeOK, FtdCall, Steps
<1>2. KeepsItsWord(c) /\ (c.doc = anchor => c.named)
  BY DEF KeepsItsWord
<1>3. call' = [call EXCEPT ![t] = c] /\ UNCHANGED <<time, anchor, cache, served>>
  BY DEF CallBegins
<1> HIDE DEF c
<1> QED BY <1>1, <1>2, <1>3, SlotPreserves

LEMMA ReadClockPreserves ==
  ASSUME FtdInv, NEW t \in Threads, ReadClock(t)
  PROVE  FtdInv'
<1> DEFINE c == [call[t] EXCEPT !.step = IF @ = "called" THEN "get" ELSE "put", !.read = time]
<1>1. call[t].step \in {"called", "verified"} /\ UNCHANGED <<time, anchor, cache, served>>
  BY DEF ReadClock
<1>2. /\ call[t] \in FtdCall /\ KeepsItsWord(call[t]) /\ time \in 0..MaxTime
      /\ call[t].doc = anchor => call[t].named
  BY <1>1, ActivePipeline DEF FtdInv, FtdTypeOK
<1>3. /\ c \in FtdCall /\ c.read = time
      /\ c.step = IF call[t].step = "called" THEN "get" ELSE "put"
      /\ c.doc = call[t].doc /\ c.now = call[t].now /\ c.named = call[t].named
  BY <1>1, <1>2 DEF FtdCall, Steps
<1>4. KeepsItsWord(c)
  BY <1>1, <1>2, <1>3 DEF KeepsItsWord
<1>5. call' = [call EXCEPT ![t] = c]
  BY <1>2 DEF ReadClock, FtdInv, FtdTypeOK
<1> HIDE DEF c
<1> QED BY <1>1, <1>2, <1>3, <1>4, <1>5, SlotPreserves

(* A hit serves the entry, and the entry is verified.                      *)
LEMMA FtdHitPreserves ==
  ASSUME FtdInv, NEW t \in Threads, FtdHit(t)
  PROVE  FtdInv'
<1>1. cache \in Entry /\ Verified(cache.result)
  BY DEF FtdInv, FtdTypeOK, CacheIsVerified, FtdHit, FoundFresh
<1>2. cache.result \in Result
  BY <1>1 DEF Entry
<1>3. served' = cache.result /\ Done(t) /\ UNCHANGED <<time, anchor, cache>>
  BY DEF FtdHit
<1> QED BY <1>1, <1>2, <1>3, DonePreserves

LEMMA FtdMissPreserves ==
  ASSUME FtdInv, NEW t \in Threads, FtdMiss(t)
  PROVE  FtdInv'
<1> DEFINE c == [call[t] EXCEPT !.step = "pipeline", !.read = None]
<1>1. call[t].step = "get" /\ cache' = None /\ UNCHANGED <<time, anchor, served>>
  BY DEF FtdMiss
<1>2. call[t] \in FtdCall /\ (call[t].doc = anchor => call[t].named)
  BY <1>1, ActivePipeline
<1>3. /\ c \in FtdCall /\ c.step = "pipeline"
      /\ c.doc = call[t].doc /\ c.named = call[t].named
  BY <1>2 DEF FtdCall, Steps
<1>4. KeepsItsWord(c)
  BY <1>3 DEF KeepsItsWord
<1>5. call' = [call EXCEPT ![t] = c]
  BY <1>2 DEF FtdMiss, FtdInv, FtdTypeOK
<1> HIDE DEF c
<1> QED BY <1>1, <1>2, <1>3, <1>4, <1>5, SlotPreserves

(* Going on to a step that finds its promises kept.                        *)
LEMMA GoPreserves ==
  ASSUME FtdInv, NEW t \in Threads, NEW step \in Steps \ {"get", "put"},
         call[t].step # "idle", Go(t, step),
         step \in {"anchored", "verified"} =>
           /\ call[t].doc \notin Unstructured \cup Foreign
           /\ call[t].now < Expires[call[t].doc] /\ call[t].named,
         step = "verified" =>
           LiveKeys(call[t].doc, call[t].now) # {} /\ call[t].doc \notin Unsigned,
         UNCHANGED <<time, anchor, cache, served>>
  PROVE  FtdInv'
<1> DEFINE c == [call[t] EXCEPT !.step = step]
<1>1. call[t] \in FtdCall /\ (call[t].doc = anchor => call[t].named)
  BY ActivePipeline
<1>2. /\ c \in FtdCall /\ c.step = step /\ c.now = call[t].now
      /\ c.doc = call[t].doc /\ c.named = call[t].named
  BY <1>1 DEF FtdCall
<1>3. KeepsItsWord(c)
  BY <1>2 DEF KeepsItsWord
<1>4. call' = [call EXCEPT ![t] = c]
  BY DEF Go
<1> HIDE DEF c
<1> QED BY <1>1, <1>2, <1>3, <1>4, SlotPreserves

(* The anchor matches now, so DNS has named the document.                  *)
LEMMA CheckDocumentPreserves ==
  ASSUME FtdInv, NEW t \in Threads, CheckDocument(t)
  PROVE  FtdInv'
<1>1. call[t].step = "pipeline" /\ UNCHANGED <<time, anchor, cache, served>>
  BY DEF CheckDocument
<1>2. CASE Refused(t) /\ Done(t)
  BY <1>1, <1>2, DonePreserves
<1>3. CASE Go(t, "poison")
  BY <1>1, <1>3, GoPreserves DEF Steps
<1>4. CASE ~Refused(t) /\ anchor = call[t].doc /\ Go(t, "anchored")
  <2>1. call[t] \in FtdCall /\ call[t].named
    BY <1>1, <1>4, ActivePipeline
  <2>2. call[t].doc \in Generations /\ call[t].now \in Nat /\ Expires[call[t].doc] \in Nat
    BY <2>1, DocsAreDated DEF FtdCall
  <2>3. call[t].doc \notin Unstructured \cup Foreign /\ call[t].now < Expires[call[t].doc]
    BY <1>4, <2>2 DEF Refused, Structured
  <2> QED BY <1>1, <1>4, <2>1, <2>3, GoPreserves DEF Steps
<1> QED BY <1>2, <1>3, <1>4 DEF CheckDocument

LEMMA SelectKeysPreserves ==
  ASSUME FtdInv, NEW t \in Threads, SelectKeys(t)
  PROVE  FtdInv'
<1>1. call[t].step = "anchored" /\ UNCHANGED <<time, anchor, cache, served>>
  BY DEF SelectKeys
<1>2. CASE Done(t)
  BY <1>1, <1>2, DonePreserves
<1>3. CASE /\ ~(LiveKeys(call[t].doc, call[t].now) = {} \/ call[t].doc \in Unsigned)
           /\ Go(t, "verified")
  <2>1. /\ call[t].doc \notin Unstructured \cup Foreign
        /\ call[t].now < Expires[call[t].doc] /\ call[t].named
    BY <1>1, ActivePipeline DEF KeepsItsWord
  <2> QED BY <1>1, <1>3, <2>1, GoPreserves DEF Steps
<1> QED BY <1>2, <1>3 DEF SelectKeys

(* The end of the pipeline: all that Verified asks for was promised.       *)
LEMMA PutPreserves ==
  ASSUME FtdInv, NEW t \in Threads, Put(t)
  PROVE  FtdInv'
<1> DEFINE d == call[t].doc
<1>1. call[t] \in FtdCall /\ call[t].step = "put" /\ KeepsItsWord(call[t])
  BY ActivePipeline DEF Put
<1>2. /\ call[t].read \in 0..MaxTime /\ d \notin Unstructured \cup Foreign \cup Unsigned
      /\ call[t].now < Expires[d] /\ call[t].named /\ LiveKeys(d, call[t].now) # {}
  BY <1>1 DEF KeepsItsWord
<1>3. d \in Generations /\ Expires[d] \in Nat /\ Margin \in Nat /\ call[t].now \in 0..MaxTime
  BY <1>1, DocsAreDated DEF FtdCall
<1>4. LiveKeys(d, call[t].now) \in SUBSET UNION {IssuerKeys[x] : x \in Generations}
  BY <1>3 DEF LiveKeys
<1>5. Verdict(t) \in Result
  BY <1>1, <1>3, <1>4 DEF Verdict, Result, FtdCall
<1>6. Verified(Verdict(t))
  BY <1>2 DEF Verified, Verdict
<1>7. PICK q \in Result : q = Verdict(t) /\ q.doc = d
  BY <1>5 DEF Verdict
<1>8. /\ cache' = IF call[t].read + Margin < Expires[d]
                  THEN [result |-> q, cache_until |-> Expires[d] - Margin] ELSE cache
      /\ served' = q /\ Done(t) /\ UNCHANGED <<time, anchor>>
  BY <1>7 DEF Put
<1>9. CASE cache' = cache
  BY <1>6, <1>7, <1>8, <1>9, DonePreserves
<1>10. CASE /\ call[t].read + Margin < Expires[d]
            /\ cache' = [result |-> q, cache_until |-> Expires[d] - Margin]
  <2>1. Expires[d] - Margin \in Nat /\ Expires[d] - Margin + Margin = Expires[d]
    BY <1>2, <1>3, <1>10
  <2>2. cache' \in Entry /\ cache'.result = q /\ cache'.cache_until + Margin = Expires[d]
    BY <1>10, <2>1 DEF Entry
  <2>3. CacheIsVerified' /\ OnlyVerifiedIsServed'
    BY <1>6, <1>7, <1>8, <2>2 DEF CacheIsVerified, OnlyVerifiedIsServed, Verified, LiveKeys
  <2>4. /\ call \in [Threads -> {Idle} \cup FtdCall]
        /\ call' = [call EXCEPT ![t] = Idle]
    BY <1>8 DEF Done, FtdInv, FtdTypeOK
  <2>5. FtdTypeOK'
    BY <1>8, <2>2, <2>4 DEF FtdInv, FtdTypeOK
  <2>6. PipelineKeepsItsWord'
    BY <1>8, <2>4 DEF FtdInv, PipelineKeepsItsWord, KeepsItsWord, LiveKeys
  <2> QED BY <2>3, <2>5, <2>6 DEF FtdInv
<1> QED BY <1>8, <1>9, <1>10

(* No call misses that DNS names its document.                             *)
LEMMA PublishAnchorPreserves ==
  ASSUME FtdInv, NEW d \in Generations, PublishAnchor(d)
  PROVE  FtdInv'
<1>1. anchor' = d /\ UNCHANGED <<time, cache, served>>
      /\ call' = [t \in Threads |-> IF call[t] # Idle /\ call[t].doc = d
                                    THEN [call[t] EXCEPT !.named = TRUE] ELSE call[t]]
  BY DEF PublishAnchor
<1>2. ASSUME NEW t \in Threads
      PROVE  /\ call'[t] \in {Idle} \cup FtdCall
             /\ call'[t] # Idle => KeepsItsWord(call'[t]) /\ (call'[t].doc = d => call'[t].named)
  <2>1. call[t] \in {Idle} \cup FtdCall
        /\ (call[t] # Idle => KeepsItsWord(call[t]))
    BY DEF FtdInv, FtdTypeOK, PipelineKeepsItsWord
  <2>2. CASE call[t] # Idle /\ call[t].doc = d
    <3>1. call'[t] = [call[t] EXCEPT !.named = TRUE] /\ call[t] \in FtdCall
      BY <1>1, <2>1, <2>2
    <3>2. /\ call'[t] \in FtdCall /\ call'[t].named = TRUE /\ call'[t].step = call[t].step
          /\ call'[t].doc = call[t].doc /\ call'[t].now = call[t].now
          /\ call'[t].read = call[t].read
      BY <3>1 DEF FtdCall
    <3> QED BY <2>1, <2>2, <3>2 DEF KeepsItsWord
  <2>3. CASE ~(call[t] # Idle /\ call[t].doc = d)
    BY <1>1, <2>1, <2>3
  <2> QED BY <2>2, <2>3
<1>3. FtdTypeOK'
  BY <1>1, <1>2 DEF FtdInv, FtdTypeOK
<1>4. PipelineKeepsItsWord'
  BY <1>1, <1>2 DEF PipelineKeepsItsWord, KeepsItsWord, LiveKeys
<1>5. CacheIsVerified' /\ OnlyVerifiedIsServed'
  BY <1>1 DEF FtdInv, CacheIsVerified, OnlyVerifiedIsServed, Verified, LiveKeys
<1> QED BY <1>3, <1>4, <1>5 DEF FtdInv

LEMMA FtdStepPreserves ==
  FtdInv /\ [FtdNext]_ftdVars => FtdInv'
<1> SUFFICES ASSUME FtdInv, [FtdNext]_ftdVars PROVE FtdInv'
  OBVIOUS
<1>1. ASSUME NEW t \in Threads, NEW d \in Generations, CallBegins(t, d) PROVE FtdInv'
  BY <1>1, CallBeginsPreserves
<1>2. ASSUME NEW t \in Threads, ReadClock(t) PROVE FtdInv'
  BY <1>2, ReadClockPreserves
<1>3. ASSUME NEW t \in Threads, FtdHit(t) PROVE FtdInv'
  BY <1>3, FtdHitPreserves
<1>4. ASSUME NEW t \in Threads, FtdMiss(t) PROVE FtdInv'
  BY <1>4, FtdMissPreserves
<1>5. ASSUME NEW t \in Threads, CheckDocument(t) PROVE FtdInv'
  BY <1>5, CheckDocumentPreserves
<1>6. ASSUME NEW t \in Threads, AnchorUnavailable(t) PROVE FtdInv'
  BY <1>6, GoPreserves DEF AnchorUnavailable, Steps
<1>7. ASSUME NEW t \in Threads, SelectKeys(t) PROVE FtdInv'
  BY <1>7, SelectKeysPreserves
<1>8. ASSUME NEW t \in Threads, Put(t) PROVE FtdInv'
  BY <1>8, PutPreserves
<1>9. ASSUME NEW t \in Threads, Poison(t) PROVE FtdInv'
  BY <1>9, DonePreserves DEF Poison
<1>10. ASSUME NEW d \in Generations, PublishAnchor(d) PROVE FtdInv'
  BY <1>10, PublishAnchorPreserves
<1>11. CASE FtdTick
  <2>1. time \in 0..MaxTime /\ time' = time + 1 /\ time' \in 0..MaxTime
        /\ UNCHANGED <<anchor, call, cache, served>>
    BY <1>11, DocsAreDated DEF FtdInv, FtdTypeOK, FtdTick
  <2> QED BY <2>1 DEF FtdInv, FtdTypeOK, PipelineKeepsItsWord, KeepsItsWord, CacheIsVerified,
                      OnlyVerifiedIsServed, Verified, LiveKeys
<1>12. CASE UNCHANGED ftdVars
  BY <1>12 DEF ftdVars, FtdInv, FtdTypeOK, PipelineKeepsItsWord, KeepsItsWord, CacheIsVerified,
               OnlyVerifiedIsServed, Verified, LiveKeys
<1> QED BY <1>1, <1>2, <1>3, <1>4, <1>5, <1>6, <1>7, <1>8, <1>9, <1>10, <1>11, <1>12
        DEF FtdNext, ThreadStep
-----------------------------------------------------------------------------
(* FtdInv holds in every reachable state.                                  *)
THEOREM FtdInductive == FtdSpec => []FtdInv
<1>1. FtdInit => FtdInv
  BY FtdInitEstablishes
<1>2. FtdInv /\ [FtdNext]_ftdVars => FtdInv'
  BY FtdStepPreserves
<1> QED BY <1>1, <1>2, PTL DEF FtdSpec

(* The state of verify_ftd_document's callers and of the cache is typed.   *)
THEOREM FtdTypeCorrect == FtdSpec => []FtdTypeOK
<1>1. FtdInv => FtdTypeOK
  BY DEF FtdInv
<1>2. FtdSpec => []FtdInv
  BY FtdInductive
<1> QED BY <1>1, <1>2, PTL

(* verify_ftd_document returns only results whose document went through    *)
(* all of its steps, and was named by DNS meanwhile, with any number of    *)
(* threads and documents, although the lock covers the dict accesses alone.*)
THEOREM ServesOnlyVerified == FtdSpec => []OnlyVerifiedIsServed
<1>1. FtdInv => OnlyVerifiedIsServed
  BY DEF FtdInv
<1>2. FtdSpec => []FtdInv
  BY FtdInductive
<1> QED BY <1>1, <1>2, PTL

(* FTDCache.get answers nothing within the margin before the document's    *)
(* own expiry, for every margin and every expiry.                          *)
THEOREM HitsKeepTheMargin == FtdSpec => RefreshedBeforeExpiry
<1>1. FtdInv => \A t \in Threads : FtdHit(t) =>
                   call[t].read + Margin < Expires[cache.result.doc]
  <2> SUFFICES ASSUME FtdInv, NEW t \in Threads, FtdHit(t)
               PROVE  call[t].read + Margin < Expires[cache.result.doc]
    OBVIOUS
  <2>1. call[t].step = "get" /\ cache # None /\ call[t].read < cache.cache_until
    BY DEF FtdHit, FoundFresh
  <2>2. call[t].read \in Nat /\ Margin \in Nat
    BY <2>1, ActivePipeline, DocsAreDated DEF KeepsItsWord
  <2>3. cache.cache_until \in Nat /\ cache.cache_until + Margin = Expires[cache.result.doc]
    BY <2>1 DEF FtdInv, FtdTypeOK, CacheIsVerified, Entry
  <2> QED BY <2>1, <2>2, <2>3
<1>2. FtdSpec => []FtdInv
  BY FtdInductive
<1> QED BY <1>1, <1>2, PTL DEF RefreshedBeforeExpiry
-----------------------------------------------------------------------------
(* HttpsResolver.                                                          *)

(* An entry's tag is the one its document has where it came from.          *)
IsTheirs(e) == e.etag = ETag[e.from][e.doc]
TagsAreTheirs == \A u \in DOMAIN tagged : IsTheirs(tagged[u])

(* What a request under way knows: the entry it was sent for was one of    *)
(* the cache, and each redirect came off its budget, or followed on one    *)
(* that did, or on the first request, by urlopen itself.  What a caller    *)
(* puts into the cache bears its document's tag.                           *)
RequestKnows(k) ==
  /\ k.step = "get" =>
       /\ k.found # Nothing => IsTheirs(k.found)
       /\ k.hops <= (MaxRedirects - k.budget) * (UrllibLimit + 1) + k.auto
       /\ ~FollowsRedirects =>
            k.auto = 0 /\ k.at \notin Plain /\ k.hops + k.budget <= MaxRedirects
  /\ k.step \in PutSteps => IsTheirs(k.entry)

HttpsInv ==
  /\ ResolverTypeOK
  /\ TagsAreTheirs
  /\ \A c \in Callers : RequestKnows(request[c])
-----------------------------------------------------------------------------
Requests == {NoRequest} \cup Request \cup Putting

LEMMA ActiveRequest ==
  ASSUME HttpsInv, NEW c \in Callers
  PROVE  /\ request[c] \in Requests /\ RequestKnows(request[c])
         /\ request[c].step = "get" => request[c] \in Request
         /\ request[c].step \in PutSteps => request[c] \in Putting
<1>1. request[c] \in Requests /\ RequestKnows(request[c])
  BY DEF HttpsInv, ResolverTypeOK, Requests
<1>2. NoRequest.step = "idle" /\ \A k \in Request : k.step = "get"
  BY DEF NoRequest, Request
<1>3. (\A k \in Putting : k.step \in PutSteps) /\ "get" \notin PutSteps /\ "idle" \notin PutSteps
  BY DEF Putting, PutSteps
<1> QED BY <1>1, <1>2, <1>3 DEF Requests

(* A caller's step that leaves the servers as they are, and in the cache   *)
(* only entries whose tags are theirs.                                     *)
LEMMA CallerKeeps ==
  ASSUME HttpsInv, NEW c \in Callers, NEW k \in Requests, RequestKnows(k),
         request' = [request EXCEPT ![c] = k], site' = site,
         DOMAIN tagged' \subseteq Uris \ Plain,
         \A u \in DOMAIN tagged' : tagged'[u] \in CacheEntry /\ IsTheirs(tagged'[u]),
         taggedOrder' \in Seq(Uris \ Plain)
  PROVE  HttpsInv'
<1>1. request \in [Callers -> Requests]
  BY DEF HttpsInv, ResolverTypeOK, Requests
<1>2. /\ request' \in [Callers -> Requests]
      /\ request'[c] = k /\ \A b \in Callers : b # c => request'[b] = request[b]
  BY <1>1
<1>3. ResolverTypeOK'
  BY <1>2 DEF HttpsInv, ResolverTypeOK, Requests
<1>4. ASSUME NEW b \in Callers PROVE RequestKnows(request[b])'
  BY <1>2 DEF HttpsInv
<1>5. TagsAreTheirs'
  BY DEF TagsAreTheirs
<1> QED BY <1>3, <1>4, <1>5 DEF HttpsInv

(* A step that changes nothing but its caller's slot.                      *)
LEMMA RequestKeeps ==
  ASSUME HttpsInv, NEW c \in Callers, NEW k \in Requests, RequestKnows(k),
         request' = [request EXCEPT ![c] = k], UNCHANGED <<site, tagged, taggedOrder>>
  PROVE  HttpsInv'
BY CallerKeeps DEF HttpsInv, ResolverTypeOK, TagsAreTheirs

LEMMA AnswerKeeps ==
  ASSUME HttpsInv, NEW c \in Callers, Ends(c), UNCHANGED <<site, tagged, taggedOrder>>
  PROVE  HttpsInv'
<1>1. request' = [request EXCEPT ![c] = NoRequest] /\ NoRequest \in Requests
  BY DEF Ends, Requests
<1>2. RequestKnows(NoRequest)
  BY DEF RequestKnows, NoRequest, PutSteps
<1> QED BY <1>1, <1>2, RequestKeeps

LEMMA RequestKeepsInvariant ==
  ASSUME HttpsInv, NEW c \in Callers, NEW u \in Uris \ Plain, Start(c, u)
  PROVE  HttpsInv'
<1> DEFINE k == [step |-> "get", uri |-> u, found |-> Lookup(u), at |-> u,
                 budget |-> MaxRedirects, auto |-> 0, hops |-> 0]
<1>1. request' = [request EXCEPT ![c] = k] /\ UNCHANGED <<site, tagged, taggedOrder>>
  BY DEF Start
<1>2. Lookup(u) \in CacheEntry \cup {Nothing}
  BY DEF Lookup, HttpsInv, ResolverTypeOK
<1>3. Lookup(u) # Nothing => IsTheirs(Lookup(u))
  BY DEF Lookup, HttpsInv, TagsAreTheirs
<1>4. MaxRedirects \in Nat /\ UrllibLimit \in Nat
  BY ResolverBounds
<1>5. k \in Request /\ k \in Requests
  BY <1>2, <1>4 DEF Request, Requests
<1>6. RequestKnows(k)
  <2>1. 0 <= (MaxRedirects - MaxRedirects) * (UrllibLimit + 1) + 0
    BY <1>4
  <2> QED BY <1>3, <1>4, <2>1 DEF RequestKnows, PutSteps
<1> HIDE DEF k
<1> QED BY <1>1, <1>5, <1>6, RequestKeeps

LEMMA ModifiedKeeps ==
  ASSUME HttpsInv, NEW c \in Callers, Modified(c)
  PROVE  HttpsInv'
<1> DEFINE from == request[c].at
           e == [etag |-> TagAt(from), doc |-> Here(c), from |-> from]
           k == [step |-> "put", uri |-> request[c].uri, evict |-> Nothing, entry |-> e]
<1>1. /\ request[c].step = "get" /\ Here(c) \in Docs /\ UNCHANGED <<site, tagged, taggedOrder>>
      /\ request \in [Callers -> Requests]
  BY DEF Modified, Asks, HttpsInv, ResolverTypeOK, Requests
<1>2. request[c] \in Request
  BY <1>1, ActiveRequest
<1>3. CASE TagAt(from) = Nothing
  <2>1. request' = [request EXCEPT ![c] = NoRequest]
    BY <1>1, <1>3 DEF Modified
  <2> QED BY <1>1, <2>1, AnswerKeeps DEF Ends
<1>4. CASE TagAt(from) # Nothing
  <2>1. request' = [request EXCEPT ![c] = k]
    BY <1>1, <1>4 DEF Modified
  <2>2. TagAt(from) = ETag[from][Here(c)] /\ from \in Uris /\ request[c].uri \in Uris \ Plain
    BY <1>2 DEF TagAt, Here, Request
  <2>3. e \in CacheEntry /\ IsTheirs(e)
    BY <1>1, <1>4, <2>2 DEF CacheEntry, IsTheirs
  <2> HIDE DEF e
  <2>4. k \in Requests /\ RequestKnows(k)
    BY <2>2, <2>3 DEF Requests, Putting, PutSteps, RequestKnows
  <2> HIDE DEF k
  <2> QED BY <1>1, <2>1, <2>4, RequestKeeps
<1> QED BY <1>3, <1>4

(* What one more redirect on the budget allows.                            *)
LEMMA OneMoreRound ==
  ASSUME NEW n \in Nat, NEW u \in Nat
  PROVE  (n + 1) * (u + 1) = n * (u + 1) + u + 1 /\ n * (u + 1) \in Nat
OBVIOUS

LEMMA RedirectKeeps ==
  ASSUME HttpsInv, NEW c \in Callers, Redirect(c)
  PROVE  HttpsInv'
<1> DEFINE k == request[c]
           u == Here(c)
<1>1. /\ k.step = "get" /\ u \in Uris /\ UNCHANGED <<site, tagged, taggedOrder>>
  BY DEF Redirect, Asks
<1>2. k \in Request /\ RequestKnows(k)
  BY <1>1, ActiveRequest
<1>3. /\ MaxRedirects \in Nat /\ UrllibLimit \in Nat /\ k.budget \in 0..MaxRedirects
      /\ k.auto \in 0..UrllibLimit /\ k.hops \in Nat
  BY <1>2, ResolverBounds DEF Request
<1>4. request \in [Callers -> Requests]
  BY DEF HttpsInv, ResolverTypeOK, Requests
<1>5. CASE FollowsRedirects /\ k.auto < UrllibLimit
  <2> DEFINE l == [k EXCEPT !.at = u, !.hops = @ + 1, !.auto = @ + 1]
  <2>1. request' = [request EXCEPT ![c] = l]
    BY <1>4, <1>5 DEF Redirect
  <2>2. l \in Request
    <3>1. k.hops + 1 \in Nat /\ k.auto + 1 \in 0..UrllibLimit
      BY <1>3, <1>5
    <3> QED BY <1>1, <1>2, <3>1 DEF Request
  <2>3. /\ l.found = k.found /\ l.hops = k.hops + 1 /\ l.budget = k.budget
        /\ l.auto = k.auto + 1 /\ l.step = "get"
    BY <1>1, <1>2 DEF Request
  <2> HIDE DEF l
  <2>4. RequestKnows(l)
    <3> DEFINE rounds == (MaxRedirects - k.budget) * (UrllibLimit + 1)
    <3>1. rounds \in Nat
      <4>1. MaxRedirects - k.budget \in Nat
        BY <1>3
      <4> QED BY <1>3, <4>1, OneMoreRound
    <3>2. k.hops <= rounds + k.auto
      BY <1>1, <1>2 DEF RequestKnows
    <3> HIDE DEF rounds
    <3>3. k.hops + 1 <= rounds + (k.auto + 1)
      BY <1>3, <3>1, <3>2
    <3> QED BY <1>1, <1>2, <1>5, <2>3, <3>3 DEF RequestKnows, rounds, PutSteps
  <2>5. l \in Requests
    BY <2>2 DEF Requests
  <2> QED BY <1>1, <2>1, <2>4, <2>5, RequestKeeps
<1>6. CASE /\ ~(FollowsRedirects /\ k.auto < UrllibLimit)
           /\ k.budget > 0 /\ u \notin Plain
  <2> DEFINE l == [k EXCEPT !.at = u, !.hops = @ + 1, !.auto = 0, !.budget = @ - 1]
  <2>1. request' = [request EXCEPT ![c] = l]
    BY <1>4, <1>6 DEF Redirect
  <2>2. l \in Request
    <3>1. k.hops + 1 \in Nat /\ 0 \in 0..UrllibLimit /\ k.budget - 1 \in 0..MaxRedirects
      BY <1>3, <1>6
    <3> QED BY <1>1, <1>2, <3>1 DEF Request
  <2>3. /\ l.found = k.found /\ l.hops = k.hops + 1 /\ l.budget = k.budget - 1
        /\ l.auto = 0 /\ l.at = u /\ l.step = "get"
    BY <1>1, <1>2 DEF Request
  <2> HIDE DEF l
  <2>4. l.hops <= (MaxRedirects - l.budget) * (UrllibLimit + 1) + l.auto
    <3> DEFINE n == MaxRedirects - k.budget
               rounds == n * (UrllibLimit + 1)
    <3>1. n \in Nat /\ MaxRedirects - l.budget = n + 1
      BY <1>3, <2>3
    <3>2. k.hops <= rounds + k.auto
      BY <1>1, <1>2 DEF RequestKnows
    <3> HIDE DEF n
    <3>3. (n + 1) * (UrllibLimit + 1) = rounds + UrllibLimit + 1 /\ rounds \in Nat
      BY <1>3, <3>1, OneMoreRound
    <3> HIDE DEF rounds
    <3>4. k.hops + 1 <= rounds + UrllibLimit + 1
      BY <1>3, <3>2, <3>3
    <3>5. rounds + UrllibLimit + 1 \in Nat
      BY <1>3, <3>3
    <3>6. /\ (MaxRedirects - l.budget) * (UrllibLimit + 1) = rounds + UrllibLimit + 1
          /\ l.hops <= rounds + UrllibLimit + 1 /\ l.auto = 0
      BY <2>3, <3>1, <3>3, <3>4
    <3> QED BY <3>5, <3>6
  <2>5. ~FollowsRedirects => l.hops + l.budget <= MaxRedirects
    BY <1>1, <1>2, <1>3, <2>3 DEF RequestKnows
  <2>6. RequestKnows(l)
    BY <1>1, <1>2, <1>6, <2>3, <2>4, <2>5 DEF RequestKnows, PutSteps
  <2>7. l \in Requests
    BY <2>2 DEF Requests
  <2> QED BY <1>1, <2>1, <2>6, <2>7, RequestKeeps
<1>7. CASE Ends(c)
  BY <1>1, <1>7, AnswerKeeps
<1> QED BY <1>5, <1>6, <1>7 DEF Redirect

(* The lines of put, whatever other callers do between them: entries keep  *)
(* the tags of their documents, and the list lists URIs.                   *)
LEMMA HttpsPutKeeps ==
  ASSUME HttpsInv, NEW c \in Callers,
         \/ PutFinds(c) \/ Measure(c) \/ PopOldest(c) \/ DropEvicted(c)
         \/ Write(c) \/ Unlist(c) \/ List(c)
  PROVE  HttpsInv'
<1> DEFINE k == request[c]
           At(step) == [k EXCEPT !.step = step]
<1>1. /\ k.step \in PutSteps /\ k \in Putting /\ IsTheirs(k.entry)
      /\ request \in [Callers -> Requests]
  <2>1. k.step \in PutSteps /\ request \in [Callers -> Requests]
    BY DEF PutFinds, Measure, PopOldest, DropEvicted, Write, Unlist, List, Puts, PutSteps,
           HttpsInv, ResolverTypeOK, Requests
  <2> QED BY <2>1, ActiveRequest DEF RequestKnows
<1>2. /\ DOMAIN tagged \subseteq Uris \ Plain /\ taggedOrder \in Seq(Uris \ Plain)
      /\ \A u \in DOMAIN tagged : tagged[u] \in CacheEntry /\ IsTheirs(tagged[u])
  BY DEF HttpsInv, ResolverTypeOK, TagsAreTheirs
<1>3. k.uri \in Uris \ Plain /\ k.entry \in CacheEntry
  BY <1>1 DEF Putting
<1>4. ASSUME NEW l \in Putting, l.entry = k.entry PROVE l \in Requests /\ RequestKnows(l)
  <2>1. l.step # "get"
    BY DEF Putting, PutSteps
  <2> QED BY <1>1, <1>4, <2>1 DEF Requests, RequestKnows
<1>5. ASSUME NEW step \in PutSteps
      PROVE  /\ At(step) \in Requests /\ RequestKnows(At(step))
             /\ GoesOn(c, step) => request' = [request EXCEPT ![c] = At(step)]
  <2>1. At(step) \in Putting /\ At(step).entry = k.entry
    BY <1>1 DEF Putting
  <2> QED BY <1>1, <1>4, <2>1 DEF GoesOn
<1>6. NoRequest \in Requests /\ RequestKnows(NoRequest)
  BY DEF Requests, RequestKnows, NoRequest, PutSteps
<1>7. {"replace", "room", "evict", "insert", "drop", "unlist", "list"} \subseteq PutSteps
  BY DEF PutSteps
<1>8. CASE PutFinds(c)
  <2>1. PICK step \in PutSteps : GoesOn(c, step)
    BY <1>7, <1>8 DEF PutFinds
  <2> QED BY <1>5, <1>8, <2>1, RequestKeeps DEF PutFinds
<1>9. CASE Measure(c)
  <2>1. PICK step \in PutSteps : GoesOn(c, step)
    BY <1>7, <1>9 DEF Measure
  <2> QED BY <1>5, <1>9, <2>1, RequestKeeps DEF Measure
<1>10. CASE PopOldest(c)
  <2>1. CASE taggedOrder = <<>>
    <3>1. Ends(c) /\ UNCHANGED <<site, tagged, taggedOrder>>
      BY <1>10, <2>1 DEF PopOldest
    <3> QED BY <3>1, AnswerKeeps
  <2>2. CASE taggedOrder # <<>>
    <3> DEFINE l == [k EXCEPT !.step = "drop", !.evict = Head(taggedOrder)]
    <3>1. /\ Head(taggedOrder) \in Uris \ Plain /\ Tail(taggedOrder) \in Seq(Uris \ Plain)
          /\ "drop" \in PutSteps
      BY <1>2, <1>7, <2>2
    <3>2. l \in Putting /\ l.entry = k.entry
      BY <1>1, <3>1 DEF Putting
    <3>3. request' = [request EXCEPT ![c] = l]
      BY <1>1, <1>10, <2>2 DEF PopOldest
    <3>4. UNCHANGED <<site, tagged>> /\ taggedOrder' \in Seq(Uris \ Plain)
      BY <1>10, <2>2, <3>1 DEF PopOldest
    <3> HIDE DEF l
    <3>5. l \in Requests /\ RequestKnows(l)
      BY <1>4, <3>2
    <3> QED BY <1>2, <3>3, <3>4, <3>5, CallerKeeps
  <2> QED BY <2>1, <2>2
<1>11. CASE DropEvicted(c)
  <2>1. /\ DOMAIN tagged' \subseteq DOMAIN tagged /\ UNCHANGED <<site, taggedOrder>>
        /\ \A u \in DOMAIN tagged' : tagged'[u] = tagged[u]
    BY <1>11 DEF DropEvicted
  <2>2. GoesOn(c, "insert")
    BY <1>11 DEF DropEvicted
  <2>3. /\ DOMAIN tagged' \subseteq Uris \ Plain /\ taggedOrder' \in Seq(Uris \ Plain)
        /\ \A u \in DOMAIN tagged' : tagged'[u] \in CacheEntry /\ IsTheirs(tagged'[u])
    BY <1>2, <2>1
  <2> QED BY <1>5, <1>7, <2>1, <2>2, <2>3, CallerKeeps
<1>12. CASE Write(c)
  <2>1. /\ DOMAIN tagged' = DOMAIN tagged \cup {k.uri} /\ UNCHANGED <<site, taggedOrder>>
        /\ \A u \in DOMAIN tagged' : tagged'[u] = IF u = k.uri THEN k.entry ELSE tagged[u]
    BY <1>12 DEF Write
  <2>2. PICK step \in PutSteps : GoesOn(c, step)
    BY <1>7, <1>12 DEF Write
  <2>3. /\ DOMAIN tagged' \subseteq Uris \ Plain /\ taggedOrder' \in Seq(Uris \ Plain)
        /\ \A u \in DOMAIN tagged' : tagged'[u] \in CacheEntry /\ IsTheirs(tagged'[u])
    BY <1>1, <1>2, <1>3, <2>1
  <2> QED BY <1>5, <2>1, <2>2, <2>3, CallerKeeps
<1>13. CASE Unlist(c)
  <2>1. taggedOrder' \in Seq(Uris \ Plain) /\ UNCHANGED <<site, tagged>>
    BY <1>2, <1>13, FirstIsTakenOut DEF Unlist
  <2>2. GoesOn(c, "list")
    BY <1>13 DEF Unlist
  <2> QED BY <1>2, <1>5, <1>7, <2>1, <2>2, CallerKeeps
<1>14. CASE List(c)
  <2>1. taggedOrder' \in Seq(Uris \ Plain) /\ UNCHANGED <<site, tagged>>
    BY <1>2, <1>3, <1>14 DEF List
  <2>2. request' = [request EXCEPT ![c] = NoRequest]
    BY <1>14 DEF List, Ends
  <2> QED BY <1>2, <1>6, <2>1, <2>2, CallerKeeps
<1> QED BY <1>8, <1>9, <1>10, <1>11, <1>12, <1>13, <1>14

LEMMA PublishKeeps ==
  ASSUME HttpsInv, NEW u \in Uris, NEW x \in Docs \cup Uris, Publish(u, x)
  PROVE  HttpsInv'
<1>1. site' = [site EXCEPT ![u] = x] /\ UNCHANGED <<tagged, taggedOrder, request>>
  BY DEF Publish
<1>2. ResolverTypeOK'
  BY <1>1 DEF HttpsInv, ResolverTypeOK, CacheEntry
<1>3. TagsAreTheirs' /\ (\A c \in Callers : RequestKnows(request[c]))'
  BY <1>1 DEF HttpsInv, TagsAreTheirs, IsTheirs, RequestKnows
<1> QED BY <1>2, <1>3 DEF HttpsInv

LEMMA HttpsInitially == ASSUME ResolverInit PROVE HttpsInv
<1>1. /\ site \in [Uris -> Docs \cup Uris] /\ tagged = << >> /\ taggedOrder = <<>>
      /\ request = [c \in Callers |-> NoRequest] /\ DOMAIN tagged = {}
  BY DEF ResolverInit
<1>2. ResolverTypeOK
  BY <1>1 DEF ResolverTypeOK
<1> QED BY <1>1, <1>2 DEF HttpsInv, TagsAreTheirs, RequestKnows, NoRequest, PutSteps

(* HttpsInv holds in every reachable state.                                *)
THEOREM HttpsInductive == ResolverSpec => []HttpsInv
<1>1. ResolverInit => HttpsInv
  BY HttpsInitially
<1>2. HttpsInv /\ [ResolverNext]_resolverVars => HttpsInv'
  <2> SUFFICES ASSUME HttpsInv, [ResolverNext]_resolverVars PROVE HttpsInv'
    OBVIOUS
  <2>1. ASSUME NEW c \in Callers, NEW u \in Uris \ Plain, Start(c, u) PROVE HttpsInv'
    BY <2>1, RequestKeepsInvariant
  <2>2. ASSUME NEW c \in Callers, NotModified(c) \/ Fail(c) PROVE HttpsInv'
    BY <2>2, AnswerKeeps DEF NotModified, Fail
  <2>3. ASSUME NEW c \in Callers, Modified(c) PROVE HttpsInv'
    BY <2>3, ModifiedKeeps
  <2>4. ASSUME NEW c \in Callers, Redirect(c) PROVE HttpsInv'
    BY <2>4, RedirectKeeps
  <2>5. ASSUME NEW c \in Callers,
               \/ PutFinds(c) \/ Measure(c) \/ PopOldest(c) \/ DropEvicted(c)
               \/ Write(c) \/ Unlist(c) \/ List(c)
        PROVE  HttpsInv'
    BY <2>5, HttpsPutKeeps
  <2>6. ASSUME NEW u \in Uris, NEW x \in Docs \cup Uris, Publish(u, x) PROVE HttpsInv'
    BY <2>6, PublishKeeps
  <2>7. CASE UNCHANGED resolverVars
    BY <2>7 DEF resolverVars, HttpsInv, ResolverTypeOK, TagsAreTheirs, IsTheirs, RequestKnows
  <2> QED BY <2>1, <2>2, <2>3, <2>4, <2>5, <2>6, <2>7 DEF ResolverNext, CallerStep
<1> QED BY <1>1, <1>2, PTL DEF ResolverSpec

(* When the URI that gave a document and its tag answers 304 to that tag,  *)
(* the document returned is the one it holds, with any number of callers   *)
(* that replace and evict entries and any redirects meanwhile.  The only   *)
(* assumption on tags is that no URI gives one tag to two documents.       *)
THEOREM NotModifiedTellsTheTruth ==
  ResolverSpec => NotModifiedIsCurrent
<1>1. HttpsInv => \A c \in Callers : NotModified(c) /\ request[c].found.from = request[c].at =>
                    Reused(c) # Nothing /\ Reused(c).doc = Here(c)
  <2> SUFFICES ASSUME HttpsInv, NEW c \in Callers, NotModified(c),
                      request[c].found.from = request[c].at
               PROVE  Reused(c) # Nothing /\ Reused(c).doc = Here(c)
    OBVIOUS
  <2> DEFINE f == request[c].found
             u == request[c].at
  <2>1. /\ request[c].step = "get" /\ Here(c) \in Docs /\ Here(c) = site[u]
        /\ f # Nothing /\ f.etag = ETag[u][Here(c)]
    BY DEF NotModified, Asks, TagMatches, TagAt, Here
  <2>2. f \in CacheEntry /\ f.etag = ETag[u][f.doc] /\ u \in Uris
    BY <2>1, ActiveRequest DEF RequestKnows, Request, IsTheirs
  <2>3. f.doc \in Docs /\ f.etag # Nothing
    BY <2>2 DEF CacheEntry
  <2>4. f.doc = Here(c)
    BY <2>1, <2>2, <2>3, TagsIdentifyDocs
  <2> QED BY <2>1, <2>4 DEF Reused
<1>2. ResolverSpec => []HttpsInv
  BY HttpsInductive
<1> QED BY <1>1, <1>2, PTL DEF NotModifiedIsCurrent


(* An opener that follows no redirect itself keeps the transport's promise:*)
(* at most max_redirects are followed, and none away from https.           *)
THEOREM BudgetHolds ==
  ASSUME ~FollowsRedirects
  PROVE  ResolverSpec => []WithinRedirectBudget
<1>1. HttpsInv => WithinRedirectBudget
  <2> SUFFICES ASSUME HttpsInv, NEW c \in Callers, Asks(c)
               PROVE  request[c].hops <= MaxRedirects /\ request[c].at \notin Plain
    BY DEF WithinRedirectBudget
  <2>1. request[c] \in Request /\ request[c].step = "get" /\ RequestKnows(request[c])
    BY ActiveRequest DEF Asks
  <2>2. /\ request[c].hops \in Nat /\ request[c].budget \in 0..MaxRedirects
        /\ request[c].hops + request[c].budget <= MaxRedirects /\ request[c].at \notin Plain
    BY <2>1 DEF RequestKnows, Request
  <2>3. MaxRedirects \in Nat
    BY ResolverBounds
  <2> QED BY <2>2, <2>3
<1>2. ResolverSpec => []HttpsInv
  BY HttpsInductive
<1> QED BY <1>1, <1>2, PTL

(* With urllib's opener, which follows up to UrllibLimit redirects before  *)
(* the transport sees one, a request still follows only so many: a full    *)
(* round of urlopen's before, and after, each one on the budget.           *)
THEOREM RedirectsAreBounded ==
  ResolverSpec => [](\A c \in Callers : Asks(c) =>
                            request[c].hops <= MaxRedirects * (UrllibLimit + 1) + UrllibLimit)
<1> DEFINE I == \A c \in Callers : Asks(c) =>
                  request[c].hops <= MaxRedirects * (UrllibLimit + 1) + UrllibLimit
<1>1. HttpsInv => I
  <2> SUFFICES ASSUME HttpsInv, NEW c \in Callers, Asks(c)
               PROVE  request[c].hops <= MaxRedirects * (UrllibLimit + 1) + UrllibLimit
    OBVIOUS
  <2>1. request[c] \in Request /\ request[c].step = "get" /\ RequestKnows(request[c])
    BY ActiveRequest DEF Asks
  <2> DEFINE left == MaxRedirects - request[c].budget
             round == UrllibLimit + 1
  <2>2. /\ request[c].hops <= left * round + request[c].auto
        /\ request[c].hops \in Nat /\ request[c].auto \in 0..UrllibLimit
        /\ MaxRedirects \in Nat /\ UrllibLimit \in Nat
        /\ left \in 0..MaxRedirects /\ round \in Nat
    BY <2>1, ResolverBounds DEF RequestKnows, Request
  <2> HIDE DEF left, round
  <2>3. left * round <= MaxRedirects * round
    BY <2>2
  <2>4. left * round \in Nat /\ MaxRedirects * round \in Nat
    BY <2>2
  <2>5. request[c].hops <= MaxRedirects * round + UrllibLimit
    BY <2>2, <2>3, <2>4
  <2> QED BY <2>5 DEF round
<1>2. ResolverSpec => []HttpsInv
  BY HttpsInductive
<1> QED BY <1>1, <1>2, PTL
-----------------------------------------------------------------------------
(* HTTPSAipResolverCache's bound, when no two callers are in put at once.  *)

(* The entries of the resolver's cache bear no time: as if all were stored *)
(* at once, they are in step with the order list.                          *)
Timeless(K) == [u \in K |-> [at |-> 0]]

InPut(c) == request[c].step \in PutSteps
PutsApart == \A b, c \in Callers : InPut(b) /\ InPut(c) => b = c

(* The keys that a call at its line of put has in _entries only.           *)
Unlisted(k) == CASE k.step = "drop" -> {k.evict}
                 [] k.step = "list" -> {k.uri}
                 [] OTHER           -> {}

(* What holds at a line of put, of the keys K of _entries and the list o:  *)
(* they are in step but for one key, for which there is room.              *)
MidPut(k, K, o) ==
  /\ InStep(Timeless(K \ Unlisted(k)), o)
  /\ Unlisted(k) \subseteq K
  /\ Len(o) <= MaxTagged
  /\ k.step \in {"drop", "insert", "list"} => Len(o) < MaxTagged
  /\ k.step = "evict" => Len(o) >= MaxTagged
  /\ k.step \in {"room", "evict", "drop", "insert"} => k.uri \notin K
  /\ k.step \in {"replace", "unlist", "list"} => k.uri \in K

LruInv ==
  /\ \A c \in Callers : InPut(c) => MidPut(request[c], DOMAIN tagged, taggedOrder)
  /\ (\A c \in Callers : ~InPut(c)) => MidPut(NoRequest, DOMAIN tagged, taggedOrder)

LEMMA OutsidePut ==
  ASSUME NEW K, NEW o
  PROVE  /\ MidPut(NoRequest, K, o) <=> InStep(Timeless(K), o) /\ Len(o) <= MaxTagged
         /\ \A k \in Putting : k.step = "put" =>
              (MidPut(k, K, o) <=> InStep(Timeless(K), o) /\ Len(o) <= MaxTagged)
<1>1. Unlisted(NoRequest) = {} /\ NoRequest.step = "idle" /\ K \ {} = K
  BY DEF Unlisted, NoRequest
<1>2. ASSUME NEW k, k.step = "put" PROVE Unlisted(k) = {}
  BY <1>2 DEF Unlisted
<1> QED BY <1>1, <1>2 DEF MidPut

(* Such dict and list are finite, and no larger than allowed.              *)
LEMMA MidPutIsBounded ==
  ASSUME NEW k, NEW K, NEW o, MidPut(k, K, o)
  PROVE  Cardinality(K) <= MaxTagged /\ Len(o) <= MaxTagged /\ Len(o) \in Nat
<1> DEFINE L == K \ Unlisted(k)
<1>1. InStep(Timeless(L), o) /\ DOMAIN Timeless(L) = L /\ Unlisted(k) \subseteq K
  BY DEF MidPut, Timeless
<1>2. IsFiniteSet(L) /\ Cardinality(L) = Len(o) /\ Len(o) \in Nat
  BY <1>1, InStepCounts
<1>3. MaxTagged \in Nat
  BY ResolverBounds
<1>4. CASE k.step \in {"drop", "list"}
  <2>1. PICK x : Unlisted(k) = {x}
    BY <1>4 DEF Unlisted
  <2>2. K = L \cup {x} /\ x \notin L
    BY <1>1, <2>1
  <2>3. Cardinality(K) = Cardinality(L) + 1
    BY <1>2, <2>2, FS_AddElement
  <2>4. Len(o) < MaxTagged
    BY <1>4 DEF MidPut
  <2> QED BY <1>2, <1>3, <2>3, <2>4
<1>5. CASE k.step \notin {"drop", "list"}
  <2>1. L = K
    BY <1>5 DEF Unlisted
  <2> QED BY <1>2, <2>1 DEF MidPut
<1> QED BY <1>4, <1>5

LEMMA ListingKeepsInStep ==
  ASSUME NEW L, NEW o, NEW u, InStep(Timeless(L), o), u \notin L
  PROVE  InStep(Timeless(L \cup {u}), Append(o, u)) /\ Len(Append(o, u)) = Len(o) + 1
<1> DEFINE e == Timeless(L)
           d == Timeless(L \cup {u})
<1>1. /\ DOMAIN e = L /\ DOMAIN d = L \cup {u}
      /\ \A x \in L : d[x] = e[x] /\ e[x].at = 0 /\ d[x].at = 0
      /\ d[u].at = 0
  BY DEF Timeless
<1>2. InStep(e, o) /\ \A x \in DOMAIN e : e[x].at <= d[u].at
  BY <1>1
<1> HIDE DEF e, d
<1>3. InStep(d, Append(o, u)) /\ Len(Append(o, u)) = Len(o) + 1
  BY <1>1, <1>2, InsertionKeepsInStep
<1> QED BY <1>3 DEF d

(* list.remove of the one place a key has.                                 *)
LEMMA UnlistingKeepsInStep ==
  ASSUME NEW K, NEW o, NEW u \in K, InStep(Timeless(K), o)
  PROVE  /\ InStep(Timeless(K \ {u}), RemoveFirst(o, u))
         /\ Len(RemoveFirst(o, u)) = Len(o) - 1
<1> DEFINE t == RemoveFirst(o, u)
<1>1. /\ o \in Seq(K) /\ Len(o) \in Nat /\ DOMAIN o = 1..Len(o) /\ ToSet(o) = K
      /\ \A i, j \in 1..Len(o) : o[i] = o[j] => i = j
  BY DEF InStep, Timeless
<1>2. t \in Seq(K) /\ Len(t) = Len(o) - 1
  <2>1. o \in Seq(K) /\ u \in ToSet(o)
    BY <1>1
  <2> QED BY <2>1, FirstIsTakenOut
<1>3. PICK m \in 1..Len(o) : /\ o[m] = u
                             /\ \A j \in 1..Len(t) : t[j] = IF j < m THEN o[j] ELSE o[j + 1]
  <2>1. o \in Seq(K) /\ u \in ToSet(o)
    BY <1>1
  <2>2. \E i \in 1..Len(o) : o[i] = u /\ IsWithoutPlace(t, o, i)
    BY <2>1, FirstIsTakenOut
  <2> HIDE DEF t
  <2> QED BY <1>2, <2>2 DEF IsWithoutPlace
<1> DEFINE at(j) == IF j < m THEN j ELSE j + 1
<1> HIDE DEF t
<1>4. DOMAIN t = 1..Len(t)
  BY <1>2
<1>5. ASSUME NEW j \in 1..Len(t) PROVE at(j) \in 1..Len(o) /\ at(j) # m /\ t[j] = o[at(j)]
  BY <1>1, <1>2, <1>3
<1>6. ASSUME NEW i \in 1..Len(t), NEW j \in 1..Len(t), at(i) = at(j) PROVE i = j
  BY <1>1, <1>2, <1>3, <1>6
<1>7. ASSUME NEW i \in 1..Len(o), i # m PROVE \E j \in 1..Len(t) : at(j) = i
  <2>1. CASE i < m
    BY <1>1, <1>2, <2>1
  <2>2. CASE ~(i < m)
    <3>1. i - 1 \in 1..Len(t) /\ at(i - 1) = i
      BY <1>1, <1>2, <1>3, <1>7, <2>2
    <3> QED BY <3>1
  <2> QED BY <2>1, <2>2
<1> HIDE DEF at
<1>8. ASSUME NEW j \in 1..Len(t) PROVE t[j] \in K \ {u}
  BY <1>1, <1>3, <1>5
<1>9. t \in Seq(K \ {u})
  BY <1>2, <1>8
<1>10. ToSet(t) = K \ {u}
  <2>1. ToSet(t) \subseteq K \ {u}
    BY <1>4, <1>8 DEF ToSet
  <2>2. ASSUME NEW x \in K \ {u} PROVE x \in ToSet(t)
    <3>1. PICK i \in 1..Len(o) : o[i] = x
      BY <1>1 DEF ToSet
    <3>2. i # m
      BY <1>3, <3>1
    <3>3. PICK j \in 1..Len(t) : at(j) = i
      BY <1>7, <3>2
    <3>4. t[j] = x
      BY <1>5, <3>1, <3>3
    <3> QED BY <1>4, <3>4 DEF ToSet
  <2> QED BY <2>1, <2>2
<1>11. ASSUME NEW i \in 1..Len(t), NEW j \in 1..Len(t), t[i] = t[j] PROVE i = j
  BY <1>1, <1>5, <1>6, <1>11
<1>12. /\ DOMAIN Timeless(K \ {u}) = K \ {u}
       /\ \A x \in K \ {u} : Timeless(K \ {u})[x].at = 0
  BY DEF Timeless
<1>13. \A i, j \in 1..Len(t) : Timeless(K \ {u})[t[i]].at <= Timeless(K \ {u})[t[j]].at
  <2>1. \A x, y \in K \ {u} : Timeless(K \ {u})[x].at <= Timeless(K \ {u})[y].at
    <3>1. 0 <= 0
      OBVIOUS
    <3> QED BY <1>12, <3>1, Zenon
  <2> QED BY <1>8, <2>1
<1> QED BY <1>2, <1>9, <1>10, <1>11, <1>12, <1>13 DEF InStep, t

(* A line of put takes its caller from one place of it to the next, or out.*)
LEMMA PutLine ==
  ASSUME HttpsInv, NEW c \in Callers, InPut(c), MidPut(request[c], DOMAIN tagged, taggedOrder),
         \/ PutFinds(c) \/ Measure(c) \/ PopOldest(c) \/ DropEvicted(c)
         \/ Write(c) \/ Unlist(c) \/ List(c)
  PROVE  /\ MidPut(request'[c], DOMAIN tagged', taggedOrder')
         /\ request'[c].step \notin PutSteps => request'[c] = NoRequest
<1> DEFINE k == request[c]
           l == request'[c]
           K == DOMAIN tagged
           o == taggedOrder
<1>1. k \in Putting /\ request \in [Callers -> Requests]
  BY ActiveRequest DEF InPut, HttpsInv, ResolverTypeOK, Requests
<1>2. /\ MidPut(k, K, o) /\ MaxTagged \in Nat \ {0} /\ Len(o) \in Nat
  BY MidPutIsBounded, ResolverBounds
<1>3. ASSUME NEW step \in PutSteps, GoesOn(c, step)
      PROVE  l.step = step /\ l.uri = k.uri /\ l.evict = k.evict
  BY <1>1, <1>3 DEF GoesOn, Putting
<1>4. {"replace", "room", "evict", "insert", "drop", "unlist", "list"} \subseteq PutSteps
  BY DEF PutSteps
<1>5. CASE PutFinds(c)
  <2>1. k.step = "put" /\ UNCHANGED <<tagged, taggedOrder>>
    BY <1>5 DEF PutFinds, Puts
  <2>2. /\ l.uri = k.uri
        /\ \/ k.uri \in K /\ l.step = "replace"
           \/ k.uri \notin K /\ l.step = "room"
    BY <1>3, <1>4, <1>5 DEF PutFinds
  <2>3. Unlisted(k) = {} /\ Unlisted(l) = {}
    BY <2>1, <2>2 DEF Unlisted
  <2>4. l.step \in PutSteps
    BY <1>4, <2>2
  <2> QED BY <1>2, <2>1, <2>2, <2>3, <2>4 DEF MidPut
<1>6. CASE Measure(c)
  <2>1. k.step = "room" /\ UNCHANGED <<tagged, taggedOrder>>
    BY <1>6 DEF Measure, Puts
  <2>2. /\ l.uri = k.uri
        /\ \/ Len(o) >= MaxTagged /\ l.step = "evict"
           \/ Len(o) < MaxTagged /\ l.step = "insert"
    BY <1>2, <1>3, <1>4, <1>6 DEF Measure
  <2>3. Unlisted(k) = {} /\ Unlisted(l) = {}
    BY <2>1, <2>2 DEF Unlisted
  <2>4. l.step \in PutSteps
    BY <1>4, <2>2
  <2> QED BY <1>2, <2>1, <2>2, <2>3, <2>4 DEF MidPut
<1>7. CASE PopOldest(c)
  <2>1. k.step = "evict" /\ UNCHANGED tagged
    BY <1>7 DEF PopOldest, Puts
  <2>2. Unlisted(k) = {} /\ Len(o) > 0 /\ k.uri \notin K /\ Len(o) <= MaxTagged
    BY <1>2, <2>1 DEF Unlisted, MidPut
  <2>3. K \ {} = K /\ InStep(Timeless(K), o) /\ DOMAIN Timeless(K) = K
    BY <1>2, <2>2 DEF MidPut, Timeless
  <2>4. Without(Timeless(K), {Head(o)}) = Timeless(K \ {Head(o)})
    BY DEF Without, Timeless
  <2>5. /\ Head(o) \in K /\ InStep(Timeless(K \ {Head(o)}), Tail(o))
        /\ Len(Tail(o)) = Len(o) - 1
    BY <2>2, <2>3, <2>4, EvictionKeepsInStep
  <2>6. o # <<>>
    BY <2>2
  <2>7. /\ taggedOrder' = Tail(o) /\ l.step = "drop" /\ l.evict = Head(o) /\ l.uri = k.uri
    BY <1>1, <1>7, <2>6 DEF PopOldest, Putting
  <2>8. Unlisted(l) = {Head(o)} /\ l.step \in PutSteps
    BY <1>4, <2>7 DEF Unlisted
  <2>9. Len(Tail(o)) < MaxTagged /\ Len(Tail(o)) <= MaxTagged
    BY <1>2, <2>2, <2>5
  <2> QED BY <2>1, <2>2, <2>5, <2>7, <2>8, <2>9 DEF MidPut
<1>8. CASE DropEvicted(c)
  <2>1. k.step = "drop" /\ UNCHANGED taggedOrder /\ DOMAIN tagged' = K \ {k.evict}
    BY <1>8 DEF DropEvicted, Puts
  <2>2. l.step = "insert" /\ l.uri = k.uri
    BY <1>3, <1>4, <1>8 DEF DropEvicted
  <2>3. Unlisted(k) = {k.evict} /\ Unlisted(l) = {} /\ l.step \in PutSteps
    BY <1>4, <2>1, <2>2 DEF Unlisted
  <2>4. (K \ {k.evict}) \ {} = K \ {k.evict}
    OBVIOUS
  <2> QED BY <1>2, <2>1, <2>2, <2>3, <2>4 DEF MidPut
<1>9. CASE Write(c)
  <2>1. /\ k.step \in {"insert", "replace"} /\ UNCHANGED taggedOrder
        /\ DOMAIN tagged' = K \cup {k.uri}
    BY <1>9 DEF Write, Puts
  <2>2. Unlisted(k) = {}
    BY <2>1 DEF Unlisted
  <2>3. CASE k.step = "insert"
    <3>1. l.step = "list" /\ l.uri = k.uri /\ k.uri \notin K /\ Len(o) < MaxTagged
      BY <1>2, <1>3, <1>4, <1>9, <2>3 DEF Write, Puts, MidPut
    <3>2. Unlisted(l) = {k.uri} /\ l.step \in PutSteps
      BY <1>4, <3>1 DEF Unlisted
    <3>3. (K \cup {k.uri}) \ {k.uri} = K \ {}
      BY <3>1
    <3> QED BY <1>2, <2>1, <2>2, <3>1, <3>2, <3>3 DEF MidPut
  <2>4. CASE k.step = "replace"
    <3>1. l.step = "unlist" /\ l.uri = k.uri /\ k.uri \in K
      BY <1>2, <1>3, <1>4, <1>9, <2>4 DEF Write, Puts, MidPut
    <3>2. Unlisted(l) = {} /\ l.step \in PutSteps /\ K \cup {k.uri} = K
      BY <1>4, <3>1 DEF Unlisted
    <3> QED BY <1>2, <2>1, <2>2, <3>1, <3>2 DEF MidPut
  <2> QED BY <2>1, <2>3, <2>4
<1>10. CASE Unlist(c)
  <2>1. /\ k.step = "unlist" /\ UNCHANGED tagged
        /\ taggedOrder' = RemoveFirst(o, k.uri)
    BY <1>10 DEF Unlist, Puts
  <2>2. l.step = "list" /\ l.uri = k.uri
    BY <1>3, <1>4, <1>10 DEF Unlist
  <2>3. Unlisted(k) = {} /\ Unlisted(l) = {k.uri} /\ l.step \in PutSteps
    BY <1>4, <2>1, <2>2 DEF Unlisted
  <2>4. k.uri \in K /\ K \ {} = K /\ InStep(Timeless(K), o) /\ Len(o) <= MaxTagged
    BY <1>2, <2>1, <2>3 DEF MidPut
  <2>5. /\ InStep(Timeless(K \ {k.uri}), RemoveFirst(o, k.uri))
        /\ Len(RemoveFirst(o, k.uri)) = Len(o) - 1
    BY <2>4, UnlistingKeepsInStep
  <2>6. Len(RemoveFirst(o, k.uri)) < MaxTagged /\ Len(RemoveFirst(o, k.uri)) <= MaxTagged
    BY <1>2, <2>4, <2>5
  <2> QED BY <2>1, <2>2, <2>3, <2>4, <2>5, <2>6 DEF MidPut
<1>11. CASE List(c)
  <2>1. /\ k.step = "list" /\ UNCHANGED tagged /\ taggedOrder' = Append(o, k.uri)
        /\ l = NoRequest
    BY <1>1, <1>11 DEF List, Puts, Ends
  <2>2. /\ Unlisted(k) = {k.uri} /\ k.uri \in K /\ Len(o) < MaxTagged
        /\ InStep(Timeless(K \ {k.uri}), o)
    BY <1>2, <2>1 DEF Unlisted, MidPut
  <2>3. (K \ {k.uri}) \cup {k.uri} = K
    BY <2>2
  <2>4. /\ InStep(Timeless((K \ {k.uri}) \cup {k.uri}), Append(o, k.uri))
        /\ Len(Append(o, k.uri)) = Len(o) + 1
    BY <2>2, ListingKeepsInStep
  <2>5. InStep(Timeless(K), Append(o, k.uri))
    BY <2>3, <2>4, Zenon
  <2>6. Len(Append(o, k.uri)) <= MaxTagged
    BY <1>2, <2>2, <2>4
  <2> QED BY <2>1, <2>5, <2>6, OutsidePut
<1> QED BY <1>5, <1>6, <1>7, <1>8, <1>9, <1>10, <1>11

(* A step after which c alone may be in put.                               *)
LEMMA LruStep ==
  ASSUME HttpsInv, NEW c \in Callers, NEW l, request' = [request EXCEPT ![c] = l],
         \A b \in Callers : b # c => ~InPut(b),
         MidPut(l, DOMAIN tagged', taggedOrder'),
         l.step \notin PutSteps => MidPut(NoRequest, DOMAIN tagged', taggedOrder')
  PROVE  LruInv'
<1>1. \A b \in Callers : request'[b] = IF b = c THEN l ELSE request[b]
  BY DEF HttpsInv, ResolverTypeOK
<1>2. \A b \in Callers : request'[b].step \in PutSteps => b = c
  BY <1>1 DEF InPut
<1> QED BY <1>1, <1>2 DEF LruInv, InPut

(* A step before and after which its caller is not in put, and which       *)
(* leaves the cache alone.                                                 *)
LEMMA LruKeeps ==
  ASSUME LruInv, UNCHANGED <<tagged, taggedOrder>>,
         \A b \in Callers : \/ request'[b] = request[b]
                            \/ ~InPut(b) /\ request'[b].step \notin PutSteps
  PROVE  LruInv'
<1>1. \A b \in Callers : InPut(b)' <=> InPut(b)
  BY DEF InPut
<1>2. \A b \in Callers : InPut(b) => request'[b] = request[b]
  BY DEF InPut
<1> QED BY <1>1, <1>2 DEF LruInv

LEMMA LruNext ==
  ASSUME HttpsInv, LruInv, PutsApart, PutsApart', [ResolverNext]_resolverVars
  PROVE  LruInv'
<1> DEFINE Fixed == UNCHANGED <<tagged, taggedOrder>>
<1>1. request \in [Callers -> Requests]
  BY DEF HttpsInv, ResolverTypeOK, Requests
<1>2. "get" \notin PutSteps /\ "idle" \notin PutSteps /\ NoRequest.step = "idle"
      /\ "put" \in PutSteps
  BY DEF PutSteps, NoRequest
<1>3. ASSUME NEW c \in Callers, NEW l, request' = [request EXCEPT ![c] = l],
             ~InPut(c), l.step \notin PutSteps, Fixed
      PROVE  LruInv'
  <2>1. \A b \in Callers : request'[b] = IF b = c THEN l ELSE request[b]
    BY <1>1, <1>3
  <2> QED BY <1>3, <2>1, LruKeeps
<1>4. ASSUME NEW c \in Callers, NEW u \in Uris \ Plain, Start(c, u) PROVE LruInv'
  <2> DEFINE l == [step |-> "get", uri |-> u, found |-> Lookup(u), at |-> u,
                   budget |-> MaxRedirects, auto |-> 0, hops |-> 0]
  <2>1. request' = [request EXCEPT ![c] = l] /\ request[c] = NoRequest /\ Fixed
    BY <1>4 DEF Start
  <2>2. ~InPut(c) /\ l.step \notin PutSteps
    BY <1>2, <2>1 DEF InPut
  <2> HIDE DEF l
  <2> QED BY <1>3, <2>1, <2>2
<1>5. ASSUME NEW c \in Callers, Asks(c), Ends(c), Fixed PROVE LruInv'
  <2>1. ~InPut(c)
    BY <1>2, <1>5 DEF Asks, InPut
  <2> QED BY <1>2, <1>3, <1>5, <2>1 DEF Ends
<1>6. ASSUME NEW c \in Callers, NotModified(c) \/ Fail(c) PROVE LruInv'
  BY <1>5, <1>6 DEF NotModified, Fail
<1>7. ASSUME NEW c \in Callers, Modified(c) PROVE LruInv'
  <2> DEFINE from == request[c].at
             l == [step |-> "put", uri |-> request[c].uri, evict |-> Nothing,
                   entry |-> [etag |-> TagAt(from), doc |-> Here(c), from |-> from]]
  <2>1. Asks(c) /\ Fixed
    BY <1>7 DEF Modified
  <2>2. CASE TagAt(from) = Nothing
    <3>1. request' = [request EXCEPT ![c] = NoRequest]
      BY <1>7, <2>2 DEF Modified
    <3> QED BY <1>5, <2>1, <3>1 DEF Ends
  <2>3. CASE TagAt(from) # Nothing
    <3>1. request' = [request EXCEPT ![c] = l]
      BY <1>1, <1>7, <2>3 DEF Modified
    <3>2. l.step = "put"
      OBVIOUS
    <3> HIDE DEF l
    <3>3. \A b \in Callers : request'[b] = IF b = c THEN l ELSE request[b]
      BY <1>1, <3>1
    <3>4. ASSUME NEW b \in Callers, InPut(b) PROVE FALSE
      <4>1. b # c
        BY <1>2, <2>1, <3>4 DEF Asks, InPut
      <4>2. request'[b].step \in PutSteps /\ request'[c].step \in PutSteps
        BY <1>2, <3>2, <3>3, <3>4, <4>1 DEF InPut
      <4> QED BY <4>1, <4>2 DEF PutsApart, InPut
    <3>5. MidPut(NoRequest, DOMAIN tagged, taggedOrder)
      BY <3>4 DEF LruInv
    <3>6. MidPut(l, DOMAIN tagged, taggedOrder)
      <4>1. InStep(Timeless(DOMAIN tagged), taggedOrder) /\ Len(taggedOrder) <= MaxTagged
        BY <3>5, OutsidePut
      <4>2. Unlisted(l) = {} /\ DOMAIN tagged \ {} = DOMAIN tagged
        BY <3>2 DEF Unlisted
      <4> QED BY <3>2, <4>1, <4>2 DEF MidPut
    <3>7. MidPut(l, DOMAIN tagged', taggedOrder') /\ MidPut(NoRequest, DOMAIN tagged', taggedOrder')
      BY <2>1, <3>5, <3>6
    <3> QED BY <3>1, <3>4, <3>7, LruStep
  <2> QED BY <2>2, <2>3
<1>8. ASSUME NEW c \in Callers, Redirect(c) PROVE LruInv'
  <2>1. request[c] \in Request /\ request[c].step = "get" /\ Fixed /\ Asks(c)
    BY <1>8, ActiveRequest DEF Redirect, Asks
  <2>2. CASE Ends(c)
    BY <1>5, <2>1, <2>2
  <2>3. CASE ~Ends(c)
    <3>1. PICK l : request' = [request EXCEPT ![c] = l] /\ l.step = "get"
      <4>1. CASE FollowsRedirects /\ request[c].auto < UrllibLimit
        <5> DEFINE l == [request[c] EXCEPT !.at = Here(c), !.hops = @ + 1, !.auto = @ + 1]
        <5>1. request' = [request EXCEPT ![c] = l]
          BY <1>1, <1>8, <4>1 DEF Redirect
        <5>2. l.step = "get"
          BY <2>1 DEF Request
        <5> HIDE DEF l
        <5> QED BY <5>1, <5>2
      <4>2. CASE ~(FollowsRedirects /\ request[c].auto < UrllibLimit)
        <5> DEFINE l == [request[c] EXCEPT !.at = Here(c), !.hops = @ + 1, !.auto = 0,
                                           !.budget = @ - 1]
        <5>1. request' = [request EXCEPT ![c] = l]
          BY <1>1, <1>8, <2>3, <4>2 DEF Redirect
        <5>2. l.step = "get"
          BY <2>1 DEF Request
        <5> HIDE DEF l
        <5> QED BY <5>1, <5>2
      <4> QED BY <4>1, <4>2
    <3>2. ~InPut(c) /\ l.step \notin PutSteps
      BY <1>2, <2>1, <3>1 DEF InPut
    <3> QED BY <1>3, <2>1, <3>1, <3>2
  <2> QED BY <2>2, <2>3
<1>9. ASSUME NEW c \in Callers,
             \/ PutFinds(c) \/ Measure(c) \/ PopOldest(c) \/ DropEvicted(c)
             \/ Write(c) \/ Unlist(c) \/ List(c)
      PROVE  LruInv'
  <2>1. InPut(c)
    BY <1>9 DEF PutFinds, Measure, PopOldest, DropEvicted, Write, Unlist, List, Puts, PutSteps, InPut
  <2>2. MidPut(request[c], DOMAIN tagged, taggedOrder)
    BY <2>1 DEF LruInv
  <2>3. /\ MidPut(request'[c], DOMAIN tagged', taggedOrder')
        /\ request'[c].step \notin PutSteps => request'[c] = NoRequest
    BY <1>9, <2>1, <2>2, PutLine
  <2>4. request' = [request EXCEPT ![c] = request'[c]]
    BY <1>1, <1>9 DEF PutFinds, Measure, PopOldest, DropEvicted, Write, Unlist, List, GoesOn, Ends
  <2>5. \A b \in Callers : b # c => ~InPut(b)
    BY <2>1 DEF PutsApart
  <2> QED BY <2>3, <2>4, <2>5, LruStep
<1>10. ASSUME NEW u \in Uris, NEW x \in Docs \cup Uris, Publish(u, x) PROVE LruInv'
  BY <1>10, LruKeeps DEF Publish
<1>11. CASE UNCHANGED resolverVars
  BY <1>11, LruKeeps DEF resolverVars
<1> QED BY <1>4, <1>6, <1>7, <1>8, <1>9, <1>10, <1>11 DEF ResolverNext, CallerStep

LEMMA LruInitially == ASSUME ResolverInit PROVE LruInv
<1>1. DOMAIN tagged = {} /\ taggedOrder = <<>> /\ request = [c \in Callers |-> NoRequest]
  BY DEF ResolverInit
<1>2. InStep(Timeless({}), <<>>)
  <2>1. DOMAIN Timeless({}) = {} /\ ToSet(<<>>) = {} /\ <<>> \in Seq({}) /\ Len(<<>>) = 0
    BY DEF Timeless, ToSet
  <2>2. 1..Len(<<>>) = {}
    BY <2>1
  <2> QED BY <2>1, <2>2 DEF InStep
<1>3. Len(<<>>) <= MaxTagged
  BY ResolverBounds
<1>4. MidPut(NoRequest, DOMAIN tagged, taggedOrder)
  BY <1>1, <1>2, <1>3, OutsidePut
<1>5. \A c \in Callers : ~InPut(c)
  BY <1>1 DEF InPut, NoRequest, PutSteps
<1> QED BY <1>4, <1>5 DEF LruInv

(* "Bounded LRU": as long as no two callers are in put at once, whatever   *)
(* else they do at the same time, the cache keeps max_entries at most, and *)
(* whenever nobody is in put its list names its keys.                      *)
THEOREM EtagCacheIsBounded ==
  ResolverSpec /\ []PutsApart =>
    [](/\ BoundedLru
       /\ (\A c \in Callers : ~InPut(c)) => ToSet(taggedOrder) = DOMAIN tagged)
<1> DEFINE I == /\ BoundedLru
                /\ (\A c \in Callers : ~InPut(c)) => ToSet(taggedOrder) = DOMAIN tagged
<1>1. ResolverInit => LruInv
  BY LruInitially
<1>2. HttpsInv /\ LruInv /\ PutsApart /\ PutsApart' /\ [ResolverNext]_resolverVars => LruInv'
  BY LruNext
<1>3. LruInv => I
  <2> SUFFICES ASSUME LruInv PROVE I
    OBVIOUS
  <2>1. CASE \E c \in Callers : InPut(c)
    BY <2>1, MidPutIsBounded DEF LruInv, BoundedLru
  <2>2. CASE \A c \in Callers : ~InPut(c)
    <3>1. MidPut(NoRequest, DOMAIN tagged, taggedOrder)
      BY <2>2 DEF LruInv
    <3>2. BoundedLru
      BY <3>1, MidPutIsBounded DEF BoundedLru
    <3>3. InStep(Timeless(DOMAIN tagged), taggedOrder) /\ DOMAIN Timeless(DOMAIN tagged) = DOMAIN tagged
      BY <3>1, OutsidePut DEF Timeless
    <3> QED BY <3>2, <3>3 DEF InStep
  <2> QED BY <2>1, <2>2
<1>4. ResolverSpec => []HttpsInv
  BY HttpsInductive
<1> QED BY <1>1, <1>2, <1>3, <1>4, PTL DEF ResolverSpec
=============================================================================

------------------------------ MODULE FtdCache ------------------------------
(***************************************************************************)
(* verify_ftd_document in several threads over one FTDCache, for one FTD   *)
(* identifier.  A call takes the time once, asks the cache, and on a miss  *)
(* checks the document its caller fetched: expiry, then the DNS anchor (a  *)
(* network wait), then the issuer keys' windows and the signature, and     *)
(* stores the result.  The cache reads a clock of its own before it takes  *)
(* its lock, and only the dict accesses are under it, so documents rotate, *)
(* time passes and other calls run between any two of those steps.         *)
(*                                                                         *)
(* The caller follows verify_ftd_document's doc: it poisons the cache when *)
(* the anchor does not match.                                              *)
(***************************************************************************)
EXTENDS Naturals, FiniteSets

CONSTANTS
  Threads,
  Generations,  \* document generations of the identifier
  Expires,      \* [Docs -> Nat]
  IssuerKeys,   \* [Docs -> sets of [from, until]], until None if the key has no end
  Unstructured, \* documents without the structure of an FTD
  Foreign,      \* documents of another identifier
  Unsigned,     \* documents whose signature does not verify
  Margin,       \* refresh_margin_s
  None,
  MaxTime       \* bound: the clock stops here

ASSUME DocsAreDated ==
  /\ Expires \in [Generations -> Nat]
  /\ \A d \in Generations : IssuerKeys[d] \subseteq [from : Nat, until : Nat \cup {None}]
  /\ Unstructured \cup Foreign \cup Unsigned \subseteq Generations
  /\ Margin \in Nat /\ MaxTime \in Nat

VARIABLES
  time,
  anchor,       \* the document whose fingerprint DNS answers
  call,         \* what each thread is in the middle of
  cache,        \* the entry, None if there is none
  served        \* the last result a call returned (history)

ftdVars == <<time, anchor, call, cache, served>>

(* named is history: DNS named the document at some moment of the call.    *)
Result == [doc : Generations, keys : SUBSET UNION {IssuerKeys[d] : d \in Generations},
           verified_at : 0..MaxTime, named : BOOLEAN]
Entry  == [result : Result, cache_until : Nat]
Idle   == [step |-> "idle"]
Steps  == {"called", "get", "pipeline", "anchored", "verified", "put", "poison"}
FtdCall == [step : Steps, doc : Generations, now : 0..MaxTime,
            read : (0..MaxTime) \cup {None},   \* what the cache read off its clock
            named : BOOLEAN]

FtdInit ==
  /\ time = 0
  /\ anchor \in Generations
  /\ call = [t \in Threads |-> Idle]
  /\ cache = None
  /\ served = None
-----------------------------------------------------------------------------
Go(t, step) == call' = [call EXCEPT ![t].step = step]
Done(t) == call' = [call EXCEPT ![t] = Idle]

(* The caller fetched d some time ago, over HTTPS or from a file.          *)
CallBegins(t, d) ==
  /\ call[t] = Idle
  /\ call' = [call EXCEPT ![t] = [step |-> "called", doc |-> d, now |-> time,
                                  read |-> None, named |-> anchor = d]]
  /\ UNCHANGED <<time, anchor, cache, served>>

(* get and put read the clock, then wait for the lock.                     *)
ReadClock(t) ==
  /\ call[t].step \in {"called", "verified"}
  /\ call' = [call EXCEPT ![t].step = IF @ = "called" THEN "get" ELSE "put", ![t].read = time]
  /\ UNCHANGED <<time, anchor, cache, served>>

(* FTDCache.get: fresh, or evicted on the way.                             *)
FoundFresh(t) == cache # None /\ call[t].read < cache.cache_until

FtdHit(t) ==
  /\ call[t].step = "get"
  /\ FoundFresh(t)
  /\ served' = cache.result
  /\ Done(t)
  /\ UNCHANGED <<time, anchor, cache>>

FtdMiss(t) ==
  /\ call[t].step = "get"
  /\ ~FoundFresh(t)
  /\ cache' = None
  /\ call' = [call EXCEPT ![t].step = "pipeline", ![t].read = None]
  /\ UNCHANGED <<time, anchor, served>>

(* _structural_validate and _validate_issuer_key, field by field.          *)
Structured(d) == d \notin Unstructured

(* Steps 1 to 4 refuse a bad structure, a wrong id and an expired document *)
(* before step 5 asks DNS; a mismatch raises FTDAnchorError.               *)
Refused(t) ==
  LET d == call[t].doc IN ~Structured(d) \/ d \in Foreign \/ call[t].now >= Expires[d]

(* Faulty variant: what DNS answers is not compared.                       *)
CheckDocumentUnanchored(t) ==
  /\ call[t].step = "pipeline"
  /\ IF Refused(t) THEN Done(t) ELSE Go(t, "anchored")
  /\ UNCHANGED <<time, anchor, cache, served>>

CheckDocument(t) ==
  /\ call[t].step = "pipeline"
  /\ CASE Refused(t) -> Done(t)
       [] ~Refused(t) /\ anchor = call[t].doc -> Go(t, "anchored")
       [] OTHER -> Go(t, "poison")
  /\ UNCHANGED <<time, anchor, cache, served>>

(* DNS does not answer: FTDAnchorError too.                                *)
AnchorUnavailable(t) ==
  /\ call[t].step = "pipeline"
  /\ ~Refused(t)
  /\ Go(t, "poison")
  /\ UNCHANGED <<time, anchor, cache, served>>

(* _select_valid_issuer_keys.                                              *)
LiveKeys(d, now) == {k \in IssuerKeys[d] : k.from <= now /\ (k.until # None => now < k.until)}

(* Steps 6 and 7: a key must be in its window at the time the call began,  *)
(* and the signature must verify.                                          *)
SelectKeys(t) ==
  /\ call[t].step = "anchored"
  /\ IF LiveKeys(call[t].doc, call[t].now) = {} \/ call[t].doc \in Unsigned
     THEN Done(t)
     ELSE Go(t, "verified")
  /\ UNCHANGED <<time, anchor, cache, served>>

Verdict(t) == [doc |-> call[t].doc, keys |-> LiveKeys(call[t].doc, call[t].now),
               verified_at |-> call[t].now, named |-> call[t].named]

(* Faulty variant: cache_until is the document's own expiry.               *)
PutUntilExpiry(t) ==
  /\ call[t].step = "put"
  /\ cache' = [result |-> Verdict(t), cache_until |-> Expires[call[t].doc]]
  /\ served' = Verdict(t)
  /\ Done(t)
  /\ UNCHANGED <<time, anchor>>

(* FTDCache.put clamps the lifetime and stores nothing already stale; the  *)
(* call returns its result either way.                                     *)
Put(t) ==
  LET expires == Expires[call[t].doc] IN
  /\ call[t].step = "put"
  /\ cache' = IF call[t].read + Margin < expires
              THEN [result |-> Verdict(t), cache_until |-> expires - Margin]
              ELSE cache
  /\ served' = Verdict(t)
  /\ Done(t)
  /\ UNCHANGED <<time, anchor>>

Poison(t) ==
  /\ call[t].step = "poison"
  /\ cache' = None
  /\ Done(t)
  /\ UNCHANGED <<time, anchor, served>>
-----------------------------------------------------------------------------
(* The federation publishes the fingerprint of another generation.         *)
PublishAnchor(d) ==
  /\ d # anchor
  /\ anchor' = d
  /\ call' = [t \in Threads |-> IF call[t] # Idle /\ call[t].doc = d
                                THEN [call[t] EXCEPT !.named = TRUE] ELSE call[t]]
  /\ UNCHANGED <<time, cache, served>>

FtdTick ==
  /\ time < MaxTime
  /\ time' = time + 1
  /\ UNCHANGED <<anchor, call, cache, served>>

ThreadStep(t) ==
  \/ \E d \in Generations : CallBegins(t, d)
  \/ ReadClock(t)
  \/ FtdHit(t)
  \/ FtdMiss(t)
  \/ CheckDocument(t)
  \/ AnchorUnavailable(t)
  \/ SelectKeys(t)
  \/ Put(t)
  \/ Poison(t)

FtdNext ==
  \/ \E t \in Threads : ThreadStep(t)
  \/ \E d \in Generations : PublishAnchor(d)
  \/ FtdTick

FtdSpec == FtdInit /\ [][FtdNext]_ftdVars
-----------------------------------------------------------------------------
(* Every variable has its type.                                            *)
FtdTypeOK ==
  /\ time \in 0..MaxTime
  /\ anchor \in Generations
  /\ call \in [Threads -> {Idle} \cup FtdCall]
  /\ cache = None \/ cache \in Entry
  /\ served = None \/ served \in Result

(* A result is only as good as its pipeline: the document was signed and   *)
(* well formed, it had not expired and had a live issuer key when the call *)
(* began, and DNS named it at some moment of that call.                    *)
Verified(r) ==
  /\ r.doc \notin Unstructured \cup Foreign \cup Unsigned
  /\ r.verified_at < Expires[r.doc]
  /\ r.keys = LiveKeys(r.doc, r.verified_at) /\ r.keys # {}
  /\ r.named

(* However the anchor moves and whatever other threads store, poison or    *)
(* let lapse meanwhile, a call returns nothing but results that went       *)
(* through the whole pipeline while DNS named their document.              *)
OnlyVerifiedIsServed == served # None => Verified(served)

(* "Phase-1b verifiers MUST refresh the FTD-doc cache no later than 60     *)
(* minutes before expires": a call that finds its clock that late is not   *)
(* answered from the cache, however long the call that stored the entry    *)
(* waited for DNS and for the lock before it did.                          *)
RefreshedBeforeExpiry ==
  [][\A t \in Threads : FtdHit(t) =>
       call[t].read + Margin < Expires[cache.result.doc]]_ftdVars

(* What the doc of VerifyResult says of valid_issuer_keys: entries that    *)
(* are currently in their validity window.  A hit returns those that were  *)
(* when the document was verified.                                         *)
ServedKeysAreLive ==
  [][\A t \in Threads : FtdHit(t) =>
       cache.result.keys \subseteq LiveKeys(cache.result.doc, time)]_ftdVars
=============================================================================

----------------------------- MODULE ConnectRetry -----------------------------
(***************************************************************************)
(* connect_with_retry: at most Len(schedule) + 1 attempts.  Before each    *)
(* one it may poll the JWT cache for a bounded time; a cache that stays    *)
(* cold uses the attempt up without a connect.  A transient failure is     *)
(* logged and slept off, any other exception is logged and re-raised.      *)
(* Meanwhile the SPIRE agent fills and empties the cache, the adapter's    *)
(* connect takes its time and sleeps run late.                             *)
(*                                                                         *)
(* Time is counted in ticks: "left" and "patience" run down to the end of  *)
(* a sleep and to the polling deadline.                                    *)
(***************************************************************************)
EXTENDS Naturals, SequencesExt

CONSTANTS
  Delays,         \* the jittered delays each entry of the schedule may give
  WiredCache,     \* a jwt_cache was passed
  WaitBudget,     \* jwt_cache_wait_seconds
  PollInterval,
  MaxLate         \* bound: ticks spent in connects and oversleeping

ASSUME DelaysAreNat ==
  Delays \in Seq(SUBSET Nat) /\ \A i \in DOMAIN Delays : Delays[i] # {}
ASSUME PollTakesTime == WaitBudget \in Nat /\ PollInterval \in Nat \ {0}
ASSUME LatenessIsBounded == MaxLate \in Nat /\ WiredCache \in BOOLEAN

VARIABLES
  pc,             \* where the loop is
  attempt,        \* attempt_index + 1
  ready,          \* the cache's is_ready()
  left,           \* of the current sleep
  patience,       \* until the polling deadline
  elapsed,        \* since attempt_start
  log,            \* NatsConnectAttemptLog.attempts
  total,          \* NatsConnectAttemptLog.total_elapsed_seconds
  succeeded,      \* NatsConnectAttemptLog.succeeded
  finalError,     \* NatsConnectAttemptLog.final_error_repr is not empty
  late, real      \* ticks so far (real is a history variable)

result == <<log, total, succeeded, finalError>>
vars == <<pc, attempt, ready, left, patience, elapsed, result, late, real>>

Transient == {"tcp-unreachable", "nats-py-connect-fail", "auth-rejected",
              "jwt-cache-cold", "unknown-transient"}

Attempts == Len(Delays) + 1

Over == {"returned", "fellOff", "raised"}

Init ==
  /\ pc = "attempt" /\ attempt = 1
  /\ ready \in BOOLEAN
  /\ left = 0 /\ patience = 0 /\ elapsed = 0
  /\ log = <<>> /\ total = 0 /\ succeeded = FALSE /\ finalError = FALSE
  /\ late = 0 /\ real = 0
-----------------------------------------------------------------------------
Record(reason, took, sleep) ==
  /\ log' = Append(log, [reason |-> reason, elapsed |-> took, sleep |-> sleep])
  /\ total' = total + took + sleep

(* jittered_delay, or 0 when there is no attempt to come.                  *)
SleepFor == IF attempt < Attempts THEN Delays[attempt] ELSE {0}

(* Faulty variant: attempt_start is taken once, before the loop.           *)
ConnectCarryingStart ==
  /\ pc' = "connect"
  /\ UNCHANGED <<attempt, left, patience, elapsed, result>>

Connect ==
  /\ pc' = "connect"
  /\ elapsed' = 0
  /\ UNCHANGED <<attempt, left, patience, result>>

(* Sleep, or go on at once when there is nothing to sleep.                 *)
BackOff(d) ==
  IF d > 0 THEN pc' = "backoff" /\ left' = d /\ UNCHANGED attempt
           ELSE pc' = "attempt" /\ attempt' = attempt + 1 /\ left' = 0

(* Faulty variant: the last cold attempt leaves no final error.            *)
ColdWithoutError ==
  \E d \in SleepFor :
    /\ Record("jwt-cache-cold", WaitBudget, d)
    /\ IF attempt = Attempts
       THEN pc' = "fellOff" /\ UNCHANGED <<attempt, left>>
       ELSE BackOff(d)
    /\ UNCHANGED <<patience, elapsed, succeeded, finalError>>

(* The cache stayed cold.  On the last attempt the loop runs out and the   *)
(* statement after it returns the log.                                     *)
Cold ==
  \E d \in SleepFor :
    /\ Record("jwt-cache-cold", WaitBudget, d)
    /\ IF attempt = Attempts
       THEN pc' = "fellOff" /\ finalError' = TRUE /\ UNCHANGED <<attempt, left>>
       ELSE BackOff(d) /\ UNCHANGED finalError
    /\ UNCHANGED <<patience, elapsed, succeeded>>

Begin ==
  /\ pc = "attempt"
  /\ CASE ~WiredCache \/ ready -> Connect
       [] WiredCache /\ ~ready /\ WaitBudget = 0 -> Cold
       [] OTHER ->
            /\ pc' = "poll" /\ left' = PollInterval /\ patience' = WaitBudget
            /\ UNCHANGED <<attempt, elapsed, result>>
  /\ UNCHANGED <<ready, late, real>>

PollWakes ==
  /\ pc = "poll" /\ left = 0
  /\ CASE ready -> Connect
       [] ~ready /\ patience = 0 -> Cold
       [] OTHER -> left' = PollInterval /\ UNCHANGED <<pc, attempt, patience, elapsed, result>>
  /\ UNCHANGED <<ready, late, real>>

ConnectSucceeds ==
  /\ pc = "connect"
  /\ Record("success", elapsed, 0)
  /\ succeeded' = TRUE
  /\ pc' = "returned"
  /\ UNCHANGED <<attempt, ready, left, patience, elapsed, finalError, late, real>>

(* Faulty variant: a failed connect is tried again at once, uncounted.     *)
ConnectFailsForFree(reason) ==
  /\ pc = "connect"
  /\ pc' = "attempt"
  /\ UNCHANGED <<attempt, ready, left, patience, elapsed, result, late, real>>

ConnectFails(reason) ==
  /\ pc = "connect"
  /\ \E d \in SleepFor :
       /\ Record(reason, elapsed, d)
       /\ IF attempt = Attempts
          THEN pc' = "returned" /\ finalError' = TRUE /\ UNCHANGED <<attempt, left>>
          ELSE BackOff(d) /\ UNCHANGED finalError
  /\ UNCHANGED <<ready, patience, elapsed, succeeded, late, real>>

(* An exception that is no NatsAdapterError, cancellation among them.      *)
ConnectRaises ==
  /\ pc = "connect"
  /\ Record("unknown-transient", elapsed, 0)
  /\ finalError' = TRUE
  /\ pc' = "raised"
  /\ UNCHANGED <<attempt, ready, left, patience, elapsed, succeeded, late, real>>

BackOffEnds ==
  /\ pc = "backoff" /\ left = 0
  /\ pc' = "attempt" /\ attempt' = attempt + 1
  /\ UNCHANGED <<ready, left, patience, elapsed, result, late, real>>
-----------------------------------------------------------------------------
Minus1(n) == IF n > 0 THEN n - 1 ELSE 0

Tick ==
  /\ pc \in {"poll", "connect", "backoff"}
  /\ left > 0 \/ late < MaxLate
  /\ late' = IF left > 0 THEN late ELSE late + 1
  /\ left' = Minus1(left)
  /\ patience' = Minus1(patience)
  /\ elapsed' = elapsed + 1
  /\ real' = real + 1
  /\ UNCHANGED <<pc, attempt, ready, result>>

(* The caller decides by the flags and drops the log.                      *)
CallerReads ==
  /\ pc \in Over
  /\ pc' = "done" /\ attempt' = 1
  /\ log' = <<>> /\ total' = 0
  /\ left' = 0 /\ patience' = 0 /\ elapsed' = 0 /\ late' = 0 /\ real' = 0
  /\ ready' = FALSE
  /\ UNCHANGED <<succeeded, finalError>>

(* The caller's task is cancelled in a sleep: nothing is logged, and the    *)
(* log goes with the exception.                                            *)
SleepCancelled ==
  /\ pc \in {"poll", "backoff"}
  /\ pc' = "done" /\ attempt' = 1
  /\ log' = <<>> /\ total' = 0
  /\ left' = 0 /\ patience' = 0 /\ elapsed' = 0 /\ late' = 0 /\ real' = 0
  /\ ready' = FALSE
  /\ UNCHANGED <<succeeded, finalError>>

(* The agent obtains an SVID, or the one in the cache expires.  Once the   *)
(* call is over nobody asks, and the cache counts as cold.                 *)
CacheFlips ==
  /\ pc # "done"
  /\ ready' = ~ready
  /\ UNCHANGED <<pc, attempt, left, patience, elapsed, result, late, real>>

Step ==
  \/ Begin
  \/ PollWakes
  \/ ConnectSucceeds
  \/ \E r \in Transient : ConnectFails(r)
  \/ ConnectRaises
  \/ BackOffEnds
  \/ Tick

Next == Step \/ CallerReads \/ SleepCancelled \/ CacheFlips

(* The event loop runs and time passes; connect has a timeout of its own.  *)
Spec == Init /\ [][Next]_vars /\ WF_vars(Step)
-----------------------------------------------------------------------------
(* Every variable has its type.                                            *)
TypeOK ==
  /\ pc \in {"attempt", "poll", "connect", "backoff", "done"} \cup Over
  /\ attempt \in 1..Attempts
  /\ ready \in BOOLEAN
  /\ left \in Nat /\ patience \in 0..WaitBudget /\ elapsed \in Nat
  /\ log \in Seq([reason : Transient \cup {"success"}, elapsed : Nat, sleep : Nat])
  /\ total \in Nat /\ succeeded \in BOOLEAN /\ finalError \in BOOLEAN
  /\ late \in 0..MaxLate /\ real \in Nat

(* The caller has nothing but the log to decide by: one entry for each     *)
(* attempt, in order; the last one and the two flags tell how it ended,    *)
(* and a log that gives up has used every attempt.                         *)
LogTellsTheOutcome ==
  /\ Len(log) = IF pc \in {"attempt", "poll", "connect", "done"} THEN attempt - 1 ELSE attempt
  /\ \A i \in 1..(Len(log) - 1) : log[i].reason # "success"
  /\ pc \in Over =>
       /\ succeeded <=> log[Len(log)].reason = "success"
       /\ finalError <=> ~succeeded
       /\ ~succeeded /\ pc # "raised" => Len(log) = Attempts
       /\ log[Len(log)].sleep = 0

(* The times in the log never add up to more than really went by, with     *)
(* late sleeps, slow connects and polls that end early or late.  (A sleep  *)
(* is entered before it is slept.)                                         *)
LogNeverOverstates ==
  total <= real + (IF pc = "backoff" THEN left ELSE 0)

(* Whatever the cache and the server do, the call comes to an end.         *)
Terminates == <>(pc \in Over \cup {"done"})

(* The comment on the return after the loop: the loop always returns       *)
(* inside its body.                                                        *)
LoopReturnsInside == pc # "fellOff"

(* The module doc: if the cache stays empty past the budget, the final     *)
(* attempt re-raises.                                                      *)
ColdFinalAttemptRaises ==
  pc \in Over /\ attempt = Attempts /\ log[Attempts].reason = "jwt-cache-cold" => pc = "raised"
=============================================================================

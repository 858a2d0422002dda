-------------------------- MODULE NatsSessionProofs --------------------------
(***************************************************************************)
(* What holds of a NATS session for every spelling of every token, every   *)
(* schedule of delays and however often the connection drops: what a valid *)
(* filter lets through and how subjects parse; what the log of             *)
(* connect_with_retry and the adapter's state tell the caller; what the    *)
(* bridge's exit codes tell the operator.                                  *)
(***************************************************************************)
EXTENDS NatsSession, SequenceTheorems, TLAPS

(* A consumer whose filter passed the validation and that a broker accepts *)
(* gets messages of the one environment and the one domain it names, with  *)
(* whatever wildcards behind them.                                         *)
THEOREM FilterPinsEnvAndDomain ==
  ASSUME NEW f \in Seq(Tokens), NEW s \in Seq(Tokens),
         ValidConsumerFilter(f), Subscribable(f), Matches(f, s)
  PROVE  f[2] = s[2] /\ f[3] = s[3]
<1>1. 2 \in DOMAIN f /\ 3 \in DOMAIN f
  BY DEF ValidConsumerFilter
<1>2. f[2] = s[2]
  BY <1>1 DEF ValidConsumerFilter, Matches, RESERVED_ENVS
<1>3. f[3] # "*" /\ f[3] # ">"
  BY <1>1 DEF ValidConsumerFilter, Subscribable
<1>4. f[3] = s[3]
  BY <1>1, <1>3 DEF Matches
<1>5. QED
  BY <1>2, <1>4

(* A stream whose pattern passed the validation captures one environment   *)
(* and one domain.                                                         *)
THEOREM StreamPinsEnvAndDomain ==
  ASSUME NEW f \in Seq(Tokens), NEW s \in Seq(Tokens), ValidStreamPattern(f), Matches(f, s)
  PROVE  f[2] = s[2] /\ f[3] = s[3]
<1>1. 2 \in DOMAIN f /\ 3 \in DOMAIN f
  BY DEF ValidStreamPattern
<1>2. f[2] \in RESERVED_ENVS /\ f[3] \notin {"*", ">"}
  BY DEF ValidStreamPattern
<1>3. f[2] = s[2]
  BY <1>1, <1>2 DEF Matches, RESERVED_ENVS
<1>4. f[3] = s[3]
  BY <1>1, <1>2 DEF Matches
<1>5. QED
  BY <1>3, <1>4

(* An anchor is one token that is not empty, or the three or four of a TV  *)
(* anchor.                                                                 *)
LEMMA AnchorLength ==
  ASSUME NEW t \in Seq(Tokens), LooksLikeSubIdAnchor(t)
  PROVE  /\ Len(t) \in {1, 3, 4}
         /\ Len(t) > 1 \/ (1 \in DOMAIN t /\ NonEmpty(t[1]))
<1>1. Len(t) \in {3, 4} \/ (Len(t) = 1 /\ NonEmpty(t[1]))
  BY DEF LooksLikeSubIdAnchor, IsPersonaSlug, IsTvAnchor, LeadingToken, HostToken
<1>2. QED
  BY <1>1

(* Where parse_subject cuts what follows the domain.                       *)
LastCut(domain, rest) ==
  LET cuts == Cuts(domain, rest)
  IN  IF cuts = {} THEN Len(rest) ELSE CHOOSE k \in cuts : \A j \in cuts : j <= k

(* The event type always keeps a token, and what is cut off is an anchor.  *)
LEMMA CutIsInside ==
  ASSUME NEW domain, NEW rest \in Seq(Tokens), Len(rest) > 0
  PROVE  /\ LastCut(domain, rest) \in 1..Len(rest)
         /\ LastCut(domain, rest) < Len(rest)
            => LooksLikeSubIdAnchor(SubSeq(rest, LastCut(domain, rest) + 1, Len(rest)))
<1> DEFINE cuts == Cuts(domain, rest)
<1>1. \A k \in cuts : /\ k \in 1..(Len(rest) - 1)
                      /\ LooksLikeSubIdAnchor(SubSeq(rest, k + 1, Len(rest)))
  BY DEF Cuts
<1>2. \A k \in cuts : k \in {Len(rest) - 1, Len(rest) - 3, Len(rest) - 4}
  <2> TAKE k \in cuts
  <2> DEFINE t == SubSeq(rest, k + 1, Len(rest))
  <2>1. k \in 1..(Len(rest) - 1) /\ t \in Seq(Tokens) /\ Len(t) = Len(rest) - k
    BY <1>1
  <2>2. Len(t) \in {1, 3, 4}
    BY <1>1, <2>1, AnchorLength
  <2>3. k = Len(rest) - Len(t)
    BY <2>1
  <2> HIDE DEF t
  <2>4. QED
    BY <2>2, <2>3
<1>3. CASE cuts = {}
  BY <1>3 DEF LastCut
<1>4. CASE cuts # {}
  <2>1. \E k \in cuts : \A j \in cuts : j <= k
    BY <1>2, <1>4
  <2>2. LastCut(domain, rest) \in cuts
    BY <1>4, <2>1 DEF LastCut
  <2>3. QED
    BY <1>1, <2>2
<1>5. QED
  BY <1>3, <1>4

(* Three sequences that hold the parts of s, put together, are s.          *)
LEMMA Rejoined ==
  ASSUME NEW s \in Seq(Tokens), NEW a \in Seq(Tokens), NEW b \in Seq(Tokens),
         NEW c \in Seq(Tokens), Len(s) = Len(a) + Len(b) + Len(c),
         \A i \in 1..Len(a) : a[i] = s[i],
         \A i \in 1..Len(b) : b[i] = s[i + Len(a)],
         \A i \in 1..Len(c) : c[i] = s[i + Len(a) + Len(b)]
  PROVE  (a \o b) \o c = s
<1> DEFINE ab == a \o b
<1>1. /\ ab \in Seq(Tokens) /\ Len(ab) = Len(a) + Len(b)
      /\ \A i \in 1..Len(ab) : ab[i] = IF i <= Len(a) THEN a[i] ELSE b[i - Len(a)]
  BY ConcatProperties
<1>2. \A i \in 1..Len(ab) : ab[i] = s[i]
  <2> TAKE i \in 1..Len(ab)
  <2>1. CASE i <= Len(a)
    BY <1>1, <2>1
  <2>2. CASE i > Len(a)
    <3>1. i - Len(a) \in 1..Len(b) /\ ab[i] = b[i - Len(a)]
      BY <1>1, <2>2
    <3>2. (i - Len(a)) + Len(a) = i
      BY <1>1
    <3>3. QED
      BY <3>1, <3>2
  <2>3. QED
    BY <1>1, <2>1, <2>2
<1> DEFINE whole == ab \o c
<1> HIDE DEF ab
<1>3. /\ whole \in Seq(Tokens) /\ Len(whole) = Len(s)
      /\ \A i \in 1..Len(whole) : whole[i] = IF i <= Len(ab) THEN ab[i] ELSE c[i - Len(ab)]
  <2>1. ab \in Seq(Tokens)
    BY <1>1
  <2>2. /\ whole \in Seq(Tokens) /\ Len(whole) = Len(ab) + Len(c)
        /\ \A i \in 1..(Len(ab) + Len(c)) :
             whole[i] = IF i <= Len(ab) THEN ab[i] ELSE c[i - Len(ab)]
    BY <2>1, ConcatProperties
  <2> HIDE DEF whole
  <2>3. QED
    BY <1>1, <2>2
<1>4. ASSUME NEW i \in 1..Len(s) PROVE whole[i] = s[i]
  <2>1. CASE i <= Len(ab)
    BY <1>1, <1>2, <1>3, <2>1
  <2>2. CASE i > Len(ab)
    <3>1. i - Len(ab) \in 1..Len(c) /\ whole[i] = c[i - Len(ab)]
      BY <1>1, <1>3, <2>2
    <3>2. (i - Len(ab)) + Len(a) + Len(b) = i
      BY <1>1
    <3>3. QED
      BY <3>1, <3>2
  <2>3. QED
    BY <1>1, <2>1, <2>2
<1>5. whole = s
  <2> HIDE DEF whole
  <2>1. QED
    BY <1>3, <1>4, SeqEqual
<1>6. QED
  BY <1>5 DEF ab

(* Parsing loses nothing and invents nothing: what parse_subject returns   *)
(* is accepted by build_subject, and gives the subject it came from.       *)
THEOREM BuildInvertsParse ==
  ASSUME NEW s \in Seq(Tokens), NEW p \in Parse(s)
  PROVE  Build(p) = s
<1> DEFINE rest == SubSeq(s, 4, Len(s))
           cut  == LastCut(s[3], rest)
           event == SubSeq(rest, 1, cut)
           sub == SubSeq(rest, cut + 1, Len(rest))
<1>1. /\ p = [env |-> s[2], domain |-> s[3], event |-> event, sub |-> sub]
      /\ MatchesSchema(s) /\ IsEventType(event) /\ FitsSubId(sub)
  BY DEF Parse, LastCut
<1> HIDE DEF cut
<1>2. /\ Len(s) > 3 /\ rest \in Seq(Tokens) /\ Len(rest) = Len(s) - 3
      /\ \A i \in 1..Len(rest) : rest[i] = s[i + 3]
  BY <1>1 DEF MatchesSchema
<1> HIDE DEF rest
<1>3. /\ cut \in 1..Len(rest)
      /\ cut < Len(rest) => LooksLikeSubIdAnchor(sub)
  BY <1>2, CutIsInside DEF cut
<1>4. /\ event \in Seq(Tokens) /\ Len(event) = cut
      /\ sub \in Seq(Tokens) /\ Len(sub) = Len(rest) - cut
      /\ \A i \in 1..cut : event[i] = s[i + 3]
      /\ \A i \in 1..Len(sub) : sub[i] = s[i + 3 + cut]
  BY <1>2, <1>3
<1>5. Joined(p) = s
  <2> DEFINE head == <<"wakir", s[2], s[3]>>
  <2>1. /\ head \in Seq(Tokens) /\ Len(head) = 3
        /\ \A i \in 1..3 : head[i] = s[i]
    BY <1>1, <1>2 DEF MatchesSchema
  <2>2. Joined(p) = (head \o event) \o sub
    BY <1>1 DEF Joined
  <2> HIDE DEF head, event, sub
  <2>3. Len(s) = Len(head) + Len(event) + Len(sub)
    BY <1>2, <1>3, <1>4, <2>1
  <2>4. \A i \in 1..Len(event) : event[i] = s[i + Len(head)]
    BY <1>4, <2>1
  <2>5. \A i \in 1..Len(sub) : sub[i] = s[i + Len(head) + Len(event)]
    BY <1>4, <2>1
  <2>6. \A i \in 1..Len(head) : head[i] = s[i]
    BY <2>1
  <2>7. head \in Seq(Tokens) /\ event \in Seq(Tokens) /\ sub \in Seq(Tokens)
    BY <1>4, <2>1
  <2>8. (head \o event) \o sub = s
    BY <2>3, <2>4, <2>5, <2>6, <2>7, Rejoined
  <2>9. QED
    BY <2>2, <2>8
<1>6. p.env \in RESERVED_ENVS /\ LeadingToken(p.domain) /\ IsEventType(p.event)
  BY <1>1 DEF MatchesSchema
<1>7. ASSUME sub # NoSubId PROVE IsSubId(sub)
  <2>1. Len(sub) > 0 /\ cut < Len(rest)
    BY <1>2, <1>3, <1>4, <1>7 DEF NoSubId
  <2>2. LooksLikeSubIdAnchor(sub)
    BY <1>3, <2>1
  <2> HIDE DEF event, sub
  <2>3. Len(sub) > 1 \/ \E i \in DOMAIN sub : NonEmpty(sub[i])
    BY <1>4, <2>2, AnchorLength
  <2>4. \A i \in DOMAIN sub : Only(sub[i], Letters \ {"other"})
    <3> TAKE i \in DOMAIN sub
    <3>1. i \in 1..Len(sub)
      BY <1>4
    <3>2. sub[i] = s[i + 3 + cut]
      BY <1>4, <3>1
    <3>3. Len(sub) = Len(s) - 3 - cut /\ cut \in Nat
      BY <1>2, <1>3, <1>4
    <3>4. i + 3 + cut \in 1..Len(s)
      BY <3>1, <3>3
    <3>5. i + 3 + cut \in DOMAIN s
      BY <3>4
    <3>6. QED
      BY <1>1, <3>2, <3>5 DEF MatchesSchema
  <2>5. QED
    BY <2>3, <2>4 DEF IsSubId
<1>8. QED
  BY <1>1, <1>5, <1>6, <1>7 DEF Build

(* A peer whose host name has a slug can be addressed by it: the slug is   *)
(* an anchor that parse_subject finds again, within the limit on a sub_id. *)
THEOREM HostSlugIsAnAnchor ==
  ASSUME NEW host, NEW slug \in FederationHostSlug(host), NEW t \in Tokens,
         Spelling[t].chars = slug.chars, Spelling[t].octets = slug.octets
  PROVE  LooksLikeSubIdAnchor(<<t>>)
<1>1. slug.octets \in 1..64 /\ slug.chars \subseteq {"lower", "digit", "-"}
  BY DEF FederationHostSlug
<1>2. HostToken(t)
  BY <1>1 DEF HostToken, NonEmpty, Only
<1>3. QED
  BY <1>2 DEF LooksLikeSubIdAnchor
-----------------------------------------------------------------------------
(* The retry loop.  The counting of attempts and of time is inductive once *)
(* it says what is still under way: no attempt is decided before the end,  *)
(* and what was waited in a poll or a connect is not yet in the log.       *)

Undecided ==
  pc \notin Over \cup {"done"} =>
    /\ ~succeeded /\ ~finalError
    /\ \A i \in 1..Len(log) : log[i].reason # "success"

NoTimeIsInvented ==
  /\ pc = "connect" => total + elapsed <= real
  /\ pc = "poll" => total + WaitBudget <= real + patience

RetryInv ==
  /\ TypeOK
  /\ LogTellsTheOutcome
  /\ LogNeverOverstates
  /\ Undecided
  /\ NoTimeIsInvented
  /\ pc = "backoff" => attempt < Attempts

Entries == [reason : Transient \cup {"success"}, elapsed : Nat, sleep : Nat]

LEMMA RetryTypes ==
  ASSUME RetryInv
  PROVE  /\ pc \in {"attempt", "poll", "connect", "backoff", "done", "returned", "fellOff", "raised"}
         /\ Attempts \in Nat /\ attempt \in Nat /\ attempt >= 1 /\ attempt <= Attempts
         /\ left \in Nat /\ elapsed \in Nat /\ total \in Nat /\ real \in Nat
         /\ WaitBudget \in Nat /\ patience \in Nat /\ patience <= WaitBudget
         /\ log \in Seq(Entries) /\ Len(log) \in Nat
         /\ late \in 0..MaxLate
         /\ ready \in BOOLEAN /\ succeeded \in BOOLEAN /\ finalError \in BOOLEAN
         /\ Len(Delays) \in Nat
BY DelaysAreNat, PollTakesTime DEF RetryInv, TypeOK, Over, Attempts, Entries

(* What arithmetic needs of it.                                            *)
LEMMA RetryNumbers ==
  ASSUME RetryInv
  PROVE  /\ Attempts \in Nat /\ attempt \in Nat /\ attempt >= 1 /\ attempt <= Attempts
         /\ left \in Nat /\ elapsed \in Nat /\ total \in Nat /\ real \in Nat
         /\ WaitBudget \in Nat /\ patience \in Nat /\ patience <= WaitBudget
         /\ Len(log) \in Nat
BY RetryTypes

LEMMA SleepIsShort ==
  ASSUME RetryInv, NEW d \in SleepFor
  PROVE  d \in Nat /\ (attempt = Attempts => d = 0)
<1>1. CASE attempt < Attempts
  <2>1. attempt \in 1..Len(Delays)
    BY <1>1, RetryTypes DEF Attempts
  <2>2. Delays[attempt] \subseteq Nat
    BY <2>1, DelaysAreNat
  <2>3. QED
    BY <1>1, <2>2, RetryTypes DEF SleepFor
<1>2. CASE attempt = Attempts
  BY <1>2, RetryTypes DEF SleepFor
<1>3. QED
  BY <1>1, <1>2, RetryTypes

LEMMA Recorded ==
  ASSUME RetryInv, NEW reason \in Transient \cup {"success"}, NEW took \in Nat, NEW sleep \in Nat,
         Record(reason, took, sleep)
  PROVE  /\ log' \in Seq(Entries) /\ Len(log') = Len(log) + 1
         /\ \A i \in 1..Len(log) : log'[i] = log[i]
         /\ log'[Len(log) + 1] = [reason |-> reason, elapsed |-> took, sleep |-> sleep]
         /\ total' = total + took + sleep
<1> DEFINE e == [reason |-> reason, elapsed |-> took, sleep |-> sleep]
<1>1. e \in Entries
  BY DEF Entries
<1>2. log \in Seq(Entries) /\ log' = Append(log, e) /\ total' = total + took + sleep
  BY RetryTypes DEF Record
<1> HIDE DEF e
<1>3. /\ log' \in Seq(Entries) /\ Len(log') = Len(log) + 1
      /\ \A i \in 1..Len(log) : log'[i] = log[i]
      /\ log'[Len(log) + 1] = e
  BY <1>1, <1>2
<1>4. QED
  BY <1>2, <1>3 DEF e

LEMMA RetryInitially == Init => RetryInv
<1> SUFFICES ASSUME Init PROVE RetryInv
  OBVIOUS
<1>1. Attempts \in Nat /\ 1 <= Attempts /\ Len(log) = 0
  BY DelaysAreNat DEF Attempts, Init
<1>2. TypeOK
  <2>1. log \in Seq([reason : Transient \cup {"success"}, elapsed : Nat, sleep : Nat])
    BY DEF Init
  <2>2. attempt \in 1..Attempts /\ patience \in 0..WaitBudget /\ late \in 0..MaxLate
    BY <1>1, PollTakesTime, LatenessIsBounded DEF Init
  <2>3. QED
    BY <2>1, <2>2 DEF Init, TypeOK
<1>3. QED
  BY <1>1, <1>2 DEF Init, RetryInv, LogTellsTheOutcome, LogNeverOverstates, Undecided,
                    NoTimeIsInvented, Over

(* A failed attempt: its time is in the log, and the sleep ahead of it.    *)
LEMMA AttemptFails ==
  ASSUME RetryInv, pc \in {"attempt", "poll", "connect"},
         NEW reason \in Transient, NEW took \in Nat, total + took <= real,
         NEW d \in SleepFor, Record(reason, took, d),
         IF attempt = Attempts
         THEN pc' \in {"returned", "fellOff"} /\ finalError' = TRUE /\ UNCHANGED <<attempt, left>>
         ELSE BackOff(d) /\ UNCHANGED finalError,
         UNCHANGED <<ready, patience, elapsed, succeeded, late, real>>
  PROVE  RetryInv'
<1>1. d \in Nat /\ (attempt = Attempts => d = 0)
  BY SleepIsShort
<1>2. /\ log' \in Seq(Entries) /\ Len(log') = Len(log) + 1
      /\ \A i \in 1..Len(log) : log'[i] = log[i]
      /\ log'[Len(log) + 1] = [reason |-> reason, elapsed |-> took, sleep |-> d]
      /\ total' = total + took + d
  BY <1>1, Recorded
<1>3. Len(log) = attempt - 1
  BY DEF RetryInv, LogTellsTheOutcome
<1>4. reason # "success"
  BY DEF Transient
<1>5. ~succeeded /\ ~finalError /\ \A i \in 1..Len(log) : log[i].reason # "success"
  BY DEF RetryInv, Undecided, Over
<1>6. \A i \in 1..Len(log') : log'[i].reason # "success"
  <2> TAKE i \in 1..Len(log')
  <2>1. CASE i <= Len(log)
    <3>1. i \in 1..Len(log)
      BY <1>2, <2>1, RetryTypes
    <3>2. QED
      BY <1>2, <1>5, <3>1
  <2>2. CASE i = Len(log) + 1
    BY <1>2, <1>4, <2>2
  <2>3. QED
    BY <1>2, <2>1, <2>2, RetryTypes
<1>7. CASE attempt = Attempts
  <2>1. /\ pc' \in {"returned", "fellOff"} /\ finalError' = TRUE
        /\ attempt' = attempt /\ left' = left /\ total' = total + took
    BY <1>1, <1>2, <1>7, RetryTypes
  <2>2. Len(log') = attempt' /\ attempt' = Attempts /\ log'[Len(log')].sleep = 0
        /\ log'[Len(log')].reason # "success"
    BY <1>1, <1>2, <1>3, <1>4, <1>7, <2>1, RetryTypes
  <2>3. TypeOK'
    <3>1. log' \in Seq([reason : Transient \cup {"success"}, elapsed : Nat, sleep : Nat])
      BY <1>2 DEF Entries
    <3>2. total' \in Nat
      BY <2>1, RetryTypes
    <3>3. QED
      BY <2>1, <3>1, <3>2 DEF RetryInv, TypeOK, Over
  <2>4. LogTellsTheOutcome'
    BY <1>5, <1>6, <2>1, <2>2, RetryTypes DEF LogTellsTheOutcome, Over, Attempts
  <2>5. QED
    BY <1>7, <2>1, <2>3, <2>4, RetryTypes
       DEF RetryInv, LogNeverOverstates, Undecided, NoTimeIsInvented, Over, Attempts
<1>8. CASE attempt # Attempts
  <2>1. BackOff(d) /\ finalError' = finalError /\ attempt < Attempts
    BY <1>8, RetryTypes
  <2>2. CASE d > 0
    <3>1. pc' = "backoff" /\ left' = d /\ attempt' = attempt
      BY <2>1, <2>2 DEF BackOff
    <3>2. TypeOK'
      <4>1. log' \in Seq([reason : Transient \cup {"success"}, elapsed : Nat, sleep : Nat])
        BY <1>2 DEF Entries
      <4>2. total' \in Nat /\ left' \in Nat /\ attempt' \in 1..Attempts /\ real' = real
        BY <1>1, <1>2, <2>1, <3>1, RetryNumbers
      <4>3. QED
        BY <3>1, <4>1, <4>2 DEF RetryInv, TypeOK, Over, Attempts
    <3>3. Len(log') = attempt' /\ \A i \in 1..(Len(log') - 1) : log'[i].reason # "success"
      <4>1. Len(log') = attempt' /\ Len(log') \in Nat
        BY <1>2, <1>3, <3>1, RetryNumbers
      <4>2. QED
        BY <1>6, <4>1
    <3>4. total' <= real' + left'
      BY <1>1, <1>2, <3>1, RetryNumbers
    <3>5. QED
      BY <1>5, <1>6, <2>1, <3>1, <3>2, <3>3, <3>4
         DEF RetryInv, LogTellsTheOutcome, LogNeverOverstates, Undecided, NoTimeIsInvented, Over
  <2>3. CASE d = 0
    <3>1. pc' = "attempt" /\ left' = 0 /\ attempt' = attempt + 1
      BY <2>1, <2>3 DEF BackOff
    <3>2. TypeOK'
      <4>1. log' \in Seq([reason : Transient \cup {"success"}, elapsed : Nat, sleep : Nat])
        BY <1>2 DEF Entries
      <4>2. total' \in Nat /\ left' \in Nat /\ attempt' \in 1..Attempts /\ real' = real
        <5>1. total' \in Nat
          BY <1>1, <1>2, RetryNumbers
        <5>2. attempt' \in 1..Attempts
          BY <2>1, <3>1, RetryNumbers
        <5>3. QED
          BY <3>1, <5>1, <5>2
      <4>3. QED
        BY <3>1, <4>1, <4>2 DEF RetryInv, TypeOK, Over, Attempts
    <3>3. Len(log') = attempt' - 1 /\ \A i \in 1..(Len(log') - 1) : log'[i].reason # "success"
      <4>1. Len(log') = attempt' - 1 /\ Len(log') \in Nat
        BY <1>2, <1>3, <3>1, RetryTypes
      <4>2. QED
        BY <1>6, <4>1
    <3>4. total' <= real' + 0
      BY <1>1, <1>2, <2>3, <3>1, RetryNumbers
    <3>5. QED
      BY <1>5, <1>6, <2>1, <3>1, <3>2, <3>3, <3>4
         DEF RetryInv, LogTellsTheOutcome, LogNeverOverstates, Undecided, NoTimeIsInvented, Over
  <2>4. QED
    BY <1>1, <2>2, <2>3
<1>9. QED
  BY <1>7, <1>8

(* Nothing is entered in the log, and the loop goes on to connect, to poll *)
(* or to another attempt.                                                  *)
LEMMA GoesOn ==
  ASSUME RetryInv, UNCHANGED <<log, total, succeeded, finalError, ready, late, real>>,
         pc \in {"attempt", "poll", "backoff"}, pc' \in {"attempt", "connect", "poll"},
         attempt' \in 1..Attempts, Len(log) = attempt' - 1,
         left' \in Nat, patience' \in 0..WaitBudget, elapsed' \in Nat,
         pc' = "connect" => total + elapsed' <= real,
         pc' = "poll" => total + WaitBudget <= real + patience',
         total <= real
  PROVE  RetryInv'
<1>1. ~succeeded /\ ~finalError /\ \A i \in 1..Len(log) : log[i].reason # "success"
  BY DEF RetryInv, Undecided, Over
<1>2. TypeOK'
  BY RetryTypes DEF RetryInv, TypeOK, Attempts, Over
<1>3. LogTellsTheOutcome'
  <2>1. Len(log) \in Nat
    BY RetryTypes
  <2>2. \A i \in 1..(Len(log) - 1) : log[i].reason # "success"
    <3>1. \A n \in Nat : \A i \in 1..(n - 1) : i \in 1..n
      OBVIOUS
    <3>2. QED
      BY <1>1, <2>1, <3>1
  <2>3. QED
    BY <2>2 DEF LogTellsTheOutcome, Over
<1>4. total' <= real' + 0 /\ pc' # "backoff"
  BY RetryNumbers
<1>5. Undecided' /\ NoTimeIsInvented'
  BY <1>1 DEF Undecided, NoTimeIsInvented
<1>6. QED
  BY <1>2, <1>3, <1>4, <1>5 DEF RetryInv, LogNeverOverstates

LEMMA ColdKeeps ==
  ASSUME RetryInv, pc \in {"attempt", "poll"}, total + WaitBudget <= real,
         Cold, UNCHANGED <<ready, late, real>>
  PROVE  RetryInv'
<1>1. PICK d \in SleepFor :
        /\ Record("jwt-cache-cold", WaitBudget, d)
        /\ IF attempt = Attempts
           THEN pc' = "fellOff" /\ finalError' = TRUE /\ UNCHANGED <<attempt, left>>
           ELSE BackOff(d) /\ UNCHANGED finalError
  BY DEF Cold
<1>2. UNCHANGED <<patience, elapsed, succeeded>>
  BY DEF Cold
<1>3. "jwt-cache-cold" \in Transient /\ WaitBudget \in Nat
  BY PollTakesTime DEF Transient
<1>4. QED
  BY <1>1, <1>2, <1>3, AttemptFails

LEMMA BeginKeeps == ASSUME RetryInv, Begin PROVE RetryInv'
<1>1. pc = "attempt" /\ Len(log) = attempt - 1 /\ total <= real
  BY RetryTypes DEF Begin, RetryInv, LogTellsTheOutcome, LogNeverOverstates
<1>2. \/ Connect
      \/ WaitBudget = 0 /\ Cold
      \/ /\ pc' = "poll" /\ left' = PollInterval /\ patience' = WaitBudget
         /\ UNCHANGED <<attempt, elapsed, result>>
  BY LatenessIsBounded, RetryTypes DEF Begin
<1>3. UNCHANGED <<ready, late, real>>
  BY DEF Begin
<1>4. CASE Connect
  BY <1>1, <1>3, <1>4, GoesOn, RetryTypes DEF Connect, result
<1>5. CASE WaitBudget = 0 /\ Cold
  BY <1>1, <1>3, <1>5, ColdKeeps, RetryTypes
<1>6. CASE /\ pc' = "poll" /\ left' = PollInterval /\ patience' = WaitBudget
           /\ UNCHANGED <<attempt, elapsed, result>>
  <2>1. PollInterval \in Nat
    BY PollTakesTime
  <2>2. QED
    BY <1>1, <1>3, <1>6, <2>1, GoesOn, RetryTypes DEF result
<1>7. QED
  BY <1>2, <1>4, <1>5, <1>6

LEMMA PollWakesKeeps == ASSUME RetryInv, PollWakes PROVE RetryInv'
<1>1. /\ pc = "poll" /\ Len(log) = attempt - 1
      /\ total <= real /\ total + WaitBudget <= real + patience
  BY RetryTypes DEF PollWakes, RetryInv, LogTellsTheOutcome, LogNeverOverstates, NoTimeIsInvented
<1>2. \/ Connect
      \/ patience = 0 /\ Cold
      \/ left' = PollInterval /\ UNCHANGED <<pc, attempt, patience, elapsed, result>>
  BY RetryTypes DEF PollWakes
<1>3. UNCHANGED <<ready, late, real>>
  BY DEF PollWakes
<1>4. CASE Connect
  BY <1>1, <1>3, <1>4, GoesOn, RetryTypes DEF Connect, result
<1>5. CASE patience = 0 /\ Cold
  BY <1>1, <1>3, <1>5, ColdKeeps, RetryTypes
<1>6. CASE left' = PollInterval /\ UNCHANGED <<pc, attempt, patience, elapsed, result>>
  <2>1. PollInterval \in Nat
    BY PollTakesTime
  <2>2. QED
    BY <1>1, <1>3, <1>6, <2>1, GoesOn, RetryTypes DEF result
<1>7. QED
  BY <1>2, <1>4, <1>5, <1>6

LEMMA ConnectFailsKeeps ==
  ASSUME RetryInv, NEW reason \in Transient, ConnectFails(reason) PROVE RetryInv'
<1>1. pc = "connect" /\ total + elapsed <= real /\ elapsed \in Nat
  BY RetryTypes DEF ConnectFails, RetryInv, NoTimeIsInvented
<1>2. PICK d \in SleepFor :
        /\ Record(reason, elapsed, d)
        /\ IF attempt = Attempts
           THEN pc' = "returned" /\ finalError' = TRUE /\ UNCHANGED <<attempt, left>>
           ELSE BackOff(d) /\ UNCHANGED finalError
  BY DEF ConnectFails
<1>3. UNCHANGED <<ready, patience, elapsed, succeeded, late, real>>
  BY DEF ConnectFails
<1>4. QED
  BY <1>1, <1>2, <1>3, AttemptFails

(* The attempt that ends the call, with a connection or with an exception. *)
LEMMA LastAttempt ==
  ASSUME RetryInv, pc = "connect", NEW reason \in Transient \cup {"success"},
         Record(reason, elapsed, 0), pc' \in {"returned", "raised"},
         succeeded' = (reason = "success"), finalError' = (reason # "success"),
         reason # "success" => pc' = "raised",
         UNCHANGED <<attempt, ready, left, patience, elapsed, late, real>>
  PROVE  RetryInv'
<1>1. /\ log' \in Seq(Entries) /\ Len(log') = Len(log) + 1
      /\ \A i \in 1..Len(log) : log'[i] = log[i]
      /\ log'[Len(log) + 1] = [reason |-> reason, elapsed |-> elapsed, sleep |-> 0]
      /\ total' = total + elapsed + 0
  <2>1. elapsed \in Nat /\ 0 \in Nat
    BY RetryTypes
  <2>2. QED
    BY <2>1, Recorded
<1>2. Len(log) = attempt - 1 /\ total + elapsed <= real
  BY DEF RetryInv, LogTellsTheOutcome, NoTimeIsInvented
<1>3. \A i \in 1..Len(log) : log[i].reason # "success"
  BY DEF RetryInv, Undecided, Over
<1>4. /\ Len(log') = attempt' /\ log'[Len(log')].sleep = 0 /\ log'[Len(log')].reason = reason
      /\ \A i \in 1..(Len(log') - 1) : log'[i].reason # "success"
      /\ total' <= real'
  BY <1>1, <1>2, <1>3, RetryTypes
<1>5. TypeOK'
  BY <1>1, <1>2, RetryTypes DEF RetryInv, TypeOK, Entries, Over, Attempts
<1>6. LogTellsTheOutcome'
  BY <1>4 DEF LogTellsTheOutcome, Over
<1>7. QED
  BY <1>4, <1>5, <1>6, RetryTypes
     DEF RetryInv, LogNeverOverstates, Undecided, NoTimeIsInvented, Over

LEMMA ConnectSucceedsKeeps == ASSUME RetryInv, ConnectSucceeds PROVE RetryInv'
<1>1. pc = "connect" /\ ~finalError
  BY DEF ConnectSucceeds, RetryInv, Undecided, Over
<1>2. QED
  BY <1>1, LastAttempt, RetryTypes DEF ConnectSucceeds

LEMMA ConnectRaisesKeeps == ASSUME RetryInv, ConnectRaises PROVE RetryInv'
<1>1. pc = "connect" /\ ~succeeded
  BY DEF ConnectRaises, RetryInv, Undecided, Over
<1>2. "unknown-transient" \in Transient \cup {"success"} /\ "unknown-transient" # "success"
  BY DEF Transient
<1>3. /\ Record("unknown-transient", elapsed, 0) /\ finalError' = TRUE /\ pc' = "raised"
      /\ UNCHANGED <<attempt, ready, left, patience, elapsed, succeeded, late, real>>
  BY DEF ConnectRaises
<1>4. succeeded' = ("unknown-transient" = "success") /\ finalError' = ("unknown-transient" # "success")
  BY <1>1, <1>3, RetryTypes
<1>5. QED
  BY <1>1, <1>2, <1>3, <1>4, LastAttempt

LEMMA BackOffEndsKeeps == ASSUME RetryInv, BackOffEnds PROVE RetryInv'
<1>1. /\ pc = "backoff" /\ pc' = "attempt" /\ attempt' = attempt + 1
      /\ UNCHANGED <<ready, left, patience, elapsed, log, total, succeeded, finalError, late, real>>
      /\ left = 0
  BY DEF BackOffEnds, result
<1>2. attempt < Attempts /\ Len(log) = attempt /\ total <= real
  BY <1>1, RetryTypes DEF RetryInv, LogTellsTheOutcome, LogNeverOverstates
<1>3. attempt' \in 1..Attempts /\ Len(log) = attempt' - 1
  BY <1>1, <1>2, RetryTypes
<1>4. patience \in 0..WaitBudget
  BY RetryTypes
<1>5. QED
  BY <1>1, <1>2, <1>3, <1>4, GoesOn, RetryTypes

(* What one second takes from the sleep ahead, it adds to the time passed. *)
LEMMA OneSecondOn ==
  ASSUME NEW t \in Nat, NEW r \in Nat, NEW l \in Nat, NEW m \in Nat,
         t <= r + l, m + 1 >= l
  PROVE  t <= (r + 1) + m
OBVIOUS

LEMMA TickKeeps == ASSUME RetryInv, Tick PROVE RetryInv'
<1>1. /\ pc' = pc /\ pc \in {"poll", "connect", "backoff"}
      /\ UNCHANGED <<attempt, ready, log, total, succeeded, finalError>>
      /\ elapsed' = elapsed + 1 /\ real' = real + 1
  BY DEF Tick, result
<1>2. left' \in Nat /\ left' + 1 >= left
  BY RetryNumbers DEF Tick, Minus1
<1>3. patience' \in 0..WaitBudget /\ patience' + 1 >= patience
  BY RetryNumbers DEF Tick, Minus1
<1>4. late' \in 0..MaxLate
  <2>1. late \in 0..MaxLate
    BY RetryTypes
  <2>2. QED
    BY <2>1, LatenessIsBounded DEF Tick
<1>5. TypeOK'
  BY <1>1, <1>2, <1>3, <1>4, RetryTypes DEF RetryInv, TypeOK, Attempts, Over
<1>6. LogTellsTheOutcome' /\ Undecided' /\ (pc = "backoff" => attempt < Attempts)'
  BY <1>1, RetryTypes DEF RetryInv, LogTellsTheOutcome, Undecided, Attempts, Over
<1>7. LogNeverOverstates'
  <2>1. total <= real + (IF pc = "backoff" THEN left ELSE 0)
    BY DEF RetryInv, LogNeverOverstates
  <2>2. total \in Nat /\ real \in Nat /\ left \in Nat
    BY RetryTypes
  <2>3. total' = total /\ real' = real + 1 /\ pc' = pc
    BY <1>1
  <2>4. CASE pc = "backoff"
    <3>1. total <= real + left
      BY <2>1, <2>4
    <3>2. total <= (real + 1) + left'
      BY <1>2, <2>2, <3>1, OneSecondOn
    <3>3. QED
      BY <2>3, <2>4, <3>2 DEF LogNeverOverstates
  <2>5. CASE pc # "backoff"
    BY <2>1, <2>2, <2>3, <2>5 DEF LogNeverOverstates
  <2>6. QED
    BY <2>4, <2>5
<1>8. NoTimeIsInvented'
  <2>1. patience' \in Nat
    BY <1>3, RetryTypes
  <2>2. /\ pc = "connect" => total + elapsed <= real
        /\ pc = "poll" => total + WaitBudget <= real + patience
    BY DEF RetryInv, NoTimeIsInvented
  <2>3. /\ pc' = pc /\ total' = total /\ elapsed' = elapsed + 1 /\ real' = real + 1
        /\ total \in Nat /\ elapsed \in Nat /\ real \in Nat
        /\ WaitBudget \in Nat /\ patience \in Nat
    BY <1>1, RetryNumbers
  <2>4. pc' = "connect" => total' + elapsed' <= real'
    BY <2>2, <2>3
  <2>5. pc' = "poll" => total' + WaitBudget <= real' + patience'
    <3>1. ASSUME pc = "poll" PROVE total + WaitBudget <= (real + 1) + patience'
      <4> DEFINE t == total + WaitBudget
      <4>1. t \in Nat /\ t <= real + patience
        BY <2>2, <2>3, <3>1
      <4> HIDE DEF t
      <4>2. t <= (real + 1) + patience'
        BY <1>3, <2>1, <2>3, <4>1, OneSecondOn
      <4>3. QED
        BY <4>2 DEF t
    <3>2. QED
      BY <2>3, <3>1
  <2>6. QED
    BY <2>4, <2>5 DEF NoTimeIsInvented
<1>9. QED
  BY <1>5, <1>6, <1>7, <1>8 DEF RetryInv

(* The call is over, or ends in a sleep.                                   *)
LEMMA EndKeeps == ASSUME RetryInv, CallerReads \/ SleepCancelled PROVE RetryInv'
<1>1. /\ pc' = "done" /\ attempt' = 1 /\ log' = <<>> /\ total' = 0
      /\ left' = 0 /\ patience' = 0 /\ elapsed' = 0 /\ late' = 0 /\ real' = 0
      /\ ready' = FALSE /\ UNCHANGED <<succeeded, finalError>>
  BY DEF CallerReads, SleepCancelled
<1>2. log' \in Seq(Entries) /\ Len(log') = 0
  BY <1>1
<1>3. TypeOK'
  <2>1. /\ attempt' \in 1..Attempts /\ patience' \in 0..WaitBudget /\ late' \in 0..MaxLate
        /\ succeeded' \in BOOLEAN /\ finalError' \in BOOLEAN
    BY <1>1, RetryTypes, RetryNumbers, LatenessIsBounded DEF Attempts
  <2>2. log' \in Seq([reason : Transient \cup {"success"}, elapsed : Nat, sleep : Nat])
    BY <1>2 DEF Entries
  <2>3. QED
    BY <1>1, <2>1, <2>2 DEF TypeOK
<1>4. QED
  BY <1>1, <1>2, <1>3 DEF RetryInv, LogTellsTheOutcome, LogNeverOverstates, Undecided,
                         NoTimeIsInvented, Attempts, Over

(* The cache may flip, or the rest of the container move.                  *)
LEMMA CacheFlipsKeeps ==
  ASSUME RetryInv, ready' \in BOOLEAN,
         UNCHANGED <<pc, attempt, left, patience, elapsed, log, total, succeeded, finalError,
                     late, real>>
  PROVE  RetryInv'
BY RetryTypes DEF RetryInv, TypeOK, LogTellsTheOutcome, LogNeverOverstates, Undecided,
                  NoTimeIsInvented, Attempts, Over

LEMMA RetryKeeps == RetryInv /\ [Next]_vars => RetryInv'
<1> SUFFICES ASSUME RetryInv, [Next]_vars PROVE RetryInv'
  OBVIOUS
<1>1. CASE Begin
  BY <1>1, BeginKeeps
<1>2. CASE PollWakes
  BY <1>2, PollWakesKeeps
<1>3. CASE ConnectSucceeds
  BY <1>3, ConnectSucceedsKeeps
<1>4. CASE \E r \in Transient : ConnectFails(r)
  BY <1>4, ConnectFailsKeeps
<1>5. CASE ConnectRaises
  BY <1>5, ConnectRaisesKeeps
<1>6. CASE BackOffEnds
  BY <1>6, BackOffEndsKeeps
<1>7. CASE Tick
  BY <1>7, TickKeeps
<1>8. CASE CallerReads \/ SleepCancelled
  BY <1>8, EndKeeps
<1>9. CASE CacheFlips
  BY <1>9, CacheFlipsKeeps, RetryTypes DEF CacheFlips, result
<1>10. CASE UNCHANGED vars
  BY <1>10, CacheFlipsKeeps, RetryTypes DEF vars, result
<1>11. QED
  BY <1>1, <1>2, <1>3, <1>4, <1>5, <1>6, <1>7, <1>8, <1>9, <1>10 DEF Next, Step
-----------------------------------------------------------------------------
(* The adapter's connection.  A dial is under way only inside a connect,   *)
(* and what a close awaits is the client held, unless it was parted from   *)
(* it.  As long as no connect has overlapped anything the adapter has one  *)
(* owner: who dials does so alone, and nothing is held.                    *)

OneOwner ==
  /\ dialing => conn = "none" /\ \A t \in Tasks : task[t] = "idle"
  /\ \A t \in Tasks : task[t] = "dialing" =>
       /\ conn = "none" /\ ~dialing
       /\ \A u \in Tasks \ {t} : task[u] = "idle"
  /\ \A t \in Tasks : task[t] = "parted" => conn = "none"

AdapterInv ==
  /\ authMode \in {"mock-jwt", "live-spiffe"}
  /\ connected \in BOOLEAN /\ dialing \in BOOLEAN /\ overlapped \in BOOLEAN
  /\ conn \in {"none", "open", "reconnecting", "closed"}
  /\ task \in [Tasks -> {"idle", "dialing", "closing", "parted"}]
  /\ connects \in Nat
  /\ OutcomeIsTheConnection
  /\ dialing => pc = "connect" /\ authMode = "mock-jwt"
  /\ \A t \in Tasks : task[t] = "dialing" => connects > 0 /\ authMode = "mock-jwt"
  /\ \A t \in Tasks : task[t] = "closing" => conn # "none"
  /\ ~overlapped => OneOwner

(* What the steps of the loop do to the flags the caller goes by.          *)
LEMMA LoopKeepsFlags ==
  ASSUME RetryStep
  PROVE  succeeded' = succeeded /\ (pc = "connect" => pc' = "connect")
BY DEF RetryStep, Begin, PollWakes, BackOffEnds, Tick, Connect, Cold, result

LEMMA FailureKeepsFlags ==
  ASSUME NEW r, ConnectFails(r)
  PROVE  succeeded' = succeeded /\ pc = "connect" /\ pc' \in {"returned", "backoff", "attempt"}
BY DEF ConnectFails, BackOff

(* Each step of a session is a step of connect_with_retry or leaves it     *)
(* alone: the adapter's probe, dial and failures are what its connect does.*)
LEMMA StepIsOfTheRetry == [SessionNext]_sessionVars => [Next]_vars
<1> SUFFICES ASSUME [SessionNext]_sessionVars PROVE [Next]_vars
  OBVIOUS
<1>1. CASE ConnectStep
  <2>1. CASE RetryStep /\ RetryAlone
    BY <2>1 DEF RetryStep, Next, Step
  <2>2. ASSUME NEW r \in Transient, ConnectFails(r) PROVE Next
    BY <2>2 DEF Next, Step
  <2>3. {"tcp-unreachable", "auth-rejected", "nats-py-connect-fail"} \subseteq Transient
    BY DEF Transient
  <2>4. CASE ProbeFails
    BY <2>2, <2>3, <2>4 DEF ProbeFails
  <2>5. CASE SpiffeRefused
    BY <2>2, <2>3, <2>5 DEF SpiffeRefused
  <2>6. CASE Dial
    BY <2>6 DEF Dial, AdapterAlone
  <2>7. CASE \E r \in {"auth-rejected", "nats-py-connect-fail"} : DialFails(r)
    BY <2>2, <2>3, <2>7 DEF DialFails
  <2>8. CASE DialCancelled
    BY <2>8 DEF DialCancelled, Next, Step
  <2>9. CASE DialSucceeds
    BY <2>9 DEF DialSucceeds, Next, Step
  <2>10. QED
    BY <1>1, <2>1, <2>4, <2>5, <2>6, <2>7, <2>8, <2>9 DEF ConnectStep
<1>2. CASE (CallerReads \/ SleepCancelled) /\ RetryAlone
  BY <1>2 DEF Next
<1>3. CASE CacheFlips /\ RetryAlone
  BY <1>3 DEF Next
<1>4. CASE UNCHANGED sessionVars
  BY <1>4 DEF sessionVars
<1>5. CASE \/ \E t \in Tasks : TaskConnects(t) \/ TaskDialEnds(t)
           \/ \E t \in Tasks : Close(t) \/ CloseReturns(t) \/ CloseCancelled(t)
           \/ LinkDrops \/ LinkReturns \/ ClientCloses \/ Delivered
           \/ \E m \in Buildable : Publish(m)
  BY <1>5 DEF TaskConnects, TaskDialEnds, Close, CloseReturns, CloseCancelled, Reset, LinkDrops,
              LinkReturns, ClientCloses, Delivered, Publish, AdapterAlone
<1>6. CASE \/ \E env \in RESERVED_ENVS, slug \in Slugs : Start(Assignment(env, slug))
           \/ BridgeConnects \/ BridgePublishes \/ BridgeFlushes \/ BridgeDrains \/ BridgeDelivered
  BY <1>6 DEF Start, BridgeConnects, BridgePublishes, BridgeFlushes, BridgeDrains, BridgeDelivered
<1>7. QED
  BY <1>1, <1>2, <1>3, <1>4, <1>5, <1>6 DEF SessionNext

(* A step that leaves the adapter alone must not end the call during a     *)
(* dial.                                                                   *)
LEMMA AdapterUntouched ==
  ASSUME AdapterInv, UNCHANGED <<authMode, ownership>>, succeeded' = succeeded,
         dialing => pc' = "connect"
  PROVE  AdapterInv'
BY DEF AdapterInv, ownership, OutcomeIsTheConnection, OneOwner

(* A client that was let go makes no difference to the adapter, nor does   *)
(* the end of the wait for it.                                             *)
LEMMA DialEndsWithout ==
  ASSUME AdapterInv, LetGo, dialing' = FALSE, succeeded' = succeeded,
         UNCHANGED <<authMode, conn, connected, task, connects, closed, overlapped>>
  PROVE  AdapterInv'
BY DEF AdapterInv, LetGo, OutcomeIsTheConnection, OneOwner

LEMMA TaskEndsWithout ==
  ASSUME AdapterInv, NEW t \in Tasks, LetGo \/ UNCHANGED forgotten,
         task' = [task EXCEPT ![t] = "idle"], UNCHANGED <<pc, succeeded>>,
         UNCHANGED <<authMode, conn, connected, dialing, connects, closed, overlapped>>
  PROVE  AdapterInv'
<1>1. /\ task' \in [Tasks -> {"idle", "dialing", "closing", "parted"}]
      /\ task'[t] = "idle" /\ \A u \in Tasks \ {t} : task'[u] = task[u]
  BY DEF AdapterInv
<1>2. \A u \in Tasks : task[u] = "idle" => task'[u] = "idle"
  BY <1>1
<1>3. \A u \in Tasks : task'[u] \in {"dialing", "closing", "parted"} => task'[u] = task[u]
  BY <1>1
<1>4. ("adapter" \in forgotten)' <=> "adapter" \in forgotten
  BY DEF LetGo
<1>5. OutcomeIsTheConnection'
  BY <1>4 DEF AdapterInv, OutcomeIsTheConnection
<1>6. OneOwner => OneOwner'
  BY <1>2, <1>3 DEF OneOwner
<1> QED BY <1>1, <1>3, <1>5, <1>6 DEF AdapterInv

(* A new client is held, the retry loop's or another task's.               *)
LEMMA HoldKeeps ==
  ASSUME AdapterInv, Hold, authMode = "mock-jwt",
         UNCHANGED <<authMode, connects, closed, overlapped>>,
         dialing' => dialing /\ pc' = "connect", dialing' \in BOOLEAN,
         \/ succeeded' /\ ~dialing' /\ dialing /\ task' = Parted
         \/ /\ succeeded' = succeeded /\ dialing' = dialing
            /\ \E t \in Tasks : task[t] = "dialing" /\ task' = [Parted EXCEPT ![t] = "idle"]
  PROVE  AdapterInv'
<1>1. /\ conn' = "open" /\ connected' = TRUE
      /\ "adapter" \in forgotten' => "adapter" \in forgotten \/ conn # "none"
  BY DEF Hold, Live
<1>2. /\ task' \in [Tasks -> {"idle", "dialing", "closing", "parted"}]
      /\ \A u \in Tasks : task'[u] # "closing" /\ (task'[u] = "dialing" => task[u] = "dialing")
      /\ \A u \in Tasks : task'[u] = "parted" => task[u] \in {"closing", "parted"}
  BY DEF Parted, AdapterInv
<1>3. \/ dialing
      \/ \E t \in Tasks : task[t] = "dialing" /\ task'[t] = "idle" /\ connects > 0
  BY DEF AdapterInv, Parted
<1>4. ~overlapped => conn = "none"
  BY <1>3 DEF AdapterInv, OneOwner
<1>5. ~overlapped => ~dialing' /\ \A u \in Tasks : task'[u] = "idle"
  <2>1. CASE dialing /\ ~dialing' /\ task' = Parted
    BY <2>1 DEF AdapterInv, OneOwner, Parted
  <2>2. CASE /\ dialing' = dialing
             /\ \E t \in Tasks : task[t] = "dialing" /\ task' = [Parted EXCEPT ![t] = "idle"]
    BY <2>2 DEF AdapterInv, OneOwner, Parted
  <2> QED BY <2>1, <2>2
<1>6. OutcomeIsTheConnection'
  <2>1. ~succeeded' => connects' > 0 /\ connects' \in Nat
    BY DEF AdapterInv
  <2>2. "adapter" \in forgotten' => overlapped'
    BY <1>1, <1>4 DEF AdapterInv, OutcomeIsTheConnection
  <2> QED BY <1>1, <2>1, <2>2 DEF OutcomeIsTheConnection
<1>7. ~overlapped' => OneOwner'
  BY <1>5 DEF OneOwner
<1> QED BY <1>1, <1>2, <1>6, <1>7 DEF AdapterInv

(* _client and _connected are reset; unless the close was of another       *)
(* client, that is what it awaited.                                        *)
LEMMA ResetKeeps ==
  ASSUME AdapterInv, NEW t \in Tasks, task[t] \in {"closing", "parted"}, Reset(t),
         "adapter" \in forgotten' => "adapter" \in forgotten \/ (task[t] = "parted" /\ conn # "none")
  PROVE  AdapterInv'
<1>1. /\ conn' = "none" /\ connected' = FALSE /\ "client" \in closed'
      /\ task' = [Parted EXCEPT ![t] = "idle"]
      /\ UNCHANGED <<pc, succeeded, authMode, dialing, connects, overlapped>>
  BY DEF Reset, AdapterAlone, vars, result
<1>2. /\ task' \in [Tasks -> {"idle", "dialing", "closing", "parted"}]
      /\ \A u \in Tasks : task'[u] # "closing" /\ (task'[u] = "dialing" => task[u] = "dialing")
      /\ \A u \in Tasks : task[u] = "idle" => task'[u] = "idle"
  BY <1>1 DEF Parted, AdapterInv
<1>3. OutcomeIsTheConnection'
  BY <1>1 DEF AdapterInv, OutcomeIsTheConnection, OneOwner
<1>4. OneOwner => OneOwner'
  BY <1>1, <1>2 DEF OneOwner
<1> QED BY <1>1, <1>2, <1>3, <1>4 DEF AdapterInv

(* A connect that overlaps nothing is the only call under way.             *)
LEMMA DialBegins ==
  ASSUME AdapterInv, authMode = "mock-jwt",
         UNCHANGED <<succeeded, authMode, conn, connected, closed, forgotten>>,
         overlapped' = (overlapped \/ Overlaps),
         \/ dialing' = TRUE /\ pc' = "connect" /\ UNCHANGED <<task, connects>>
         \/ /\ UNCHANGED <<pc, dialing>> /\ connects' = connects + 1
            /\ \E t \in Tasks : task[t] = "idle" /\ task' = [task EXCEPT ![t] = "dialing"]
  PROVE  AdapterInv'
<1>1. connects' \in Nat /\ connects' >= connects
  BY DEF AdapterInv
<1>2. task' \in [Tasks -> {"idle", "dialing", "closing", "parted"}]
  BY DEF AdapterInv
<1>3. \A u \in Tasks : task'[u] \in {"closing", "parted"} => task'[u] = task[u]
  BY DEF AdapterInv
<1>4. ASSUME NEW u \in Tasks, task'[u] = "dialing" PROVE connects' > 0
  BY <1>1, <1>4 DEF AdapterInv
<1>5. OutcomeIsTheConnection'
  BY <1>1 DEF AdapterInv, OutcomeIsTheConnection
<1>6. ~overlapped' => OneOwner'
  <2> SUFFICES ASSUME ~overlapped' PROVE OneOwner'
    OBVIOUS
  <2>1. conn = "none" /\ ~dialing /\ \A u \in Tasks : task[u] = "idle"
    BY DEF Overlaps, AdapterInv
  <2>2. CASE dialing' = TRUE /\ UNCHANGED task
    BY <2>1, <2>2 DEF OneOwner
  <2>3. CASE /\ UNCHANGED dialing
             /\ \E t \in Tasks : task' = [task EXCEPT ![t] = "dialing"]
    BY <2>1, <2>3 DEF OneOwner, AdapterInv
  <2> QED BY <2>2, <2>3
<1>7. overlapped' \in BOOLEAN
  BY DEF AdapterInv, Overlaps
<1>8. dialing' \in BOOLEAN /\ (dialing' => pc' = "connect" /\ authMode' = "mock-jwt")
  <2>1. dialing \in BOOLEAN /\ (dialing => pc = "connect")
    BY DEF AdapterInv
  <2>2. CASE dialing' = TRUE /\ pc' = "connect"
    BY <2>2
  <2>3. CASE UNCHANGED <<pc, dialing>>
    BY <2>1, <2>3
  <2> QED BY <2>2, <2>3
<1>9. \A u \in Tasks : task'[u] = "closing" => conn' # "none"
  BY <1>3 DEF AdapterInv
<1> QED BY <1>1, <1>2, <1>4, <1>5, <1>6, <1>7, <1>8, <1>9 DEF AdapterInv

LEMMA AdapterKeeps == RetryInv /\ AdapterInv /\ [SessionNext]_sessionVars => AdapterInv'
<1> SUFFICES ASSUME RetryInv, AdapterInv, [SessionNext]_sessionVars PROVE AdapterInv'
  OBVIOUS
<1>1. dialing => pc = "connect"
  BY DEF AdapterInv
<1>2. CASE RetryStep /\ RetryAlone
  BY <1>1, <1>2, LoopKeepsFlags, AdapterUntouched DEF RetryAlone, adapter
<1>3. CASE (CallerReads \/ SleepCancelled) /\ RetryAlone
  BY <1>1, <1>3, AdapterUntouched DEF RetryAlone, adapter, CallerReads, SleepCancelled, Over
<1>4. CASE CacheFlips /\ RetryAlone
  BY <1>1, <1>4, AdapterUntouched DEF RetryAlone, adapter, CacheFlips, result
<1>5. CASE ProbeFails \/ SpiffeRefused
  BY <1>5, FailureKeepsFlags, AdapterUntouched DEF ProbeFails, SpiffeRefused, RetryAlone, adapter
<1>6. CASE Dial
  BY <1>6, DialBegins DEF Dial, AdapterAlone, vars, result
<1>7. CASE \E r \in {"auth-rejected", "nats-py-connect-fail"} : DialFails(r)
  BY <1>7, FailureKeepsFlags, DialEndsWithout DEF DialFails
<1>8. CASE DialCancelled
  BY <1>8, DialEndsWithout DEF DialCancelled, ConnectRaises
<1>9. CASE DialSucceeds
  BY <1>9, HoldKeeps DEF DialSucceeds, ConnectSucceeds, AdapterInv
<1>10. ASSUME NEW t \in Tasks, TaskConnects(t) PROVE AdapterInv'
  BY <1>10, DialBegins DEF TaskConnects, AdapterAlone, vars, result
<1>11. ASSUME NEW t \in Tasks, TaskDialEnds(t) PROVE AdapterInv'
  <2>1. /\ task[t] = "dialing" /\ UNCHANGED <<pc, succeeded, authMode>>
        /\ UNCHANGED <<dialing, connects, closed, overlapped>>
    BY <1>11 DEF TaskDialEnds, AdapterAlone, vars, result
  <2>2. authMode = "mock-jwt" /\ dialing \in BOOLEAN
    BY <2>1 DEF AdapterInv
  <2>3. CASE Hold /\ task' = [Parted EXCEPT ![t] = "idle"]
    BY <1>1, <2>1, <2>2, <2>3, HoldKeeps
  <2>4. CASE LetGo /\ task' = [task EXCEPT ![t] = "idle"] /\ UNCHANGED <<conn, connected>>
    BY <2>1, <2>4, TaskEndsWithout
  <2> QED BY <1>11, <2>3, <2>4 DEF TaskDialEnds
<1>12. ASSUME NEW t \in Tasks, Close(t) PROVE AdapterInv'
  <2>1. /\ task[t] = "idle" /\ UNCHANGED <<pc, succeeded, authMode>>
        /\ UNCHANGED <<conn, dialing, connects, forgotten, overlapped>>
    BY <1>12 DEF Close, AdapterAlone, vars, result
  <2>2. CASE conn # "none"
    <3>1. /\ UNCHANGED <<connected, closed>>
          /\ task' = [task EXCEPT ![t] = "closing"]
      BY <1>12, <2>2 DEF Close
    <3>2. /\ task' \in [Tasks -> {"idle", "dialing", "closing", "parted"}]
          /\ \A u \in Tasks : task'[u] # "closing" => task'[u] = task[u]
      BY <3>1 DEF AdapterInv
    <3>3. OutcomeIsTheConnection'
      BY <2>1, <3>1 DEF AdapterInv, OutcomeIsTheConnection
    <3>4. OneOwner => OneOwner'
      BY <2>1, <2>2, <3>2 DEF OneOwner
    <3> QED BY <2>1, <2>2, <3>1, <3>2, <3>3, <3>4 DEF AdapterInv
  <2>3. CASE conn = "none"
    <3>1. connected' = FALSE /\ closed' = closed \cup {"empty"} /\ UNCHANGED task
      BY <1>12, <2>3 DEF Close
    <3> QED BY <2>1, <2>3, <3>1 DEF AdapterInv, OutcomeIsTheConnection, OneOwner
  <2> QED BY <2>2, <2>3
<1>13. ASSUME NEW t \in Tasks, CloseReturns(t) PROVE AdapterInv'
  <2>1. task[t] \in {"closing", "parted"} /\ Reset(t)
    BY <1>13 DEF CloseReturns
  <2>2. "adapter" \in forgotten' => "adapter" \in forgotten \/ (task[t] = "parted" /\ conn # "none")
    <3>1. CASE forgotten' = forgotten \cup IF conn \in Live THEN {"library"} ELSE {}
      BY <3>1
    <3>2. CASE /\ task[t] = "parted"
               /\ \E raised \in SUBSET {"library"} :
                    forgotten' = forgotten \cup raised
                                   \cup IF conn \in Live /\ ~BeingClosed THEN {"adapter"} ELSE {}
      <4>1. "none" \notin Live
        BY DEF Live
      <4>2. CASE conn \in Live
        BY <3>2, <4>1, <4>2
      <4>3. CASE conn \notin Live
        BY <3>2, <4>3
      <4> QED BY <4>2, <4>3
    <3> QED BY <1>13, <3>1, <3>2 DEF CloseReturns
  <2> QED BY <2>1, <2>2, ResetKeeps
<1>14. ASSUME NEW t \in Tasks, CloseCancelled(t) PROVE AdapterInv'
  BY <1>14, TaskEndsWithout DEF CloseCancelled, AdapterAlone, vars, result
<1>15. CASE LinkDrops \/ LinkReturns \/ ClientCloses
  <2>1. /\ conn # "none" /\ conn' \in {"open", "reconnecting", "closed"}
        /\ UNCHANGED <<pc, succeeded, authMode>> /\ Held
    BY <1>15 DEF LinkDrops, LinkReturns, ClientCloses, AdapterAlone, vars, result
  <2> QED BY <2>1 DEF Held, AdapterInv, OutcomeIsTheConnection, OneOwner
<1>16. CASE \/ \E m \in Buildable : Publish(m)
            \/ Delivered
            \/ \E env \in RESERVED_ENVS, slug \in Slugs : Start(Assignment(env, slug))
            \/ BridgeConnects \/ BridgePublishes \/ BridgeFlushes \/ BridgeDrains
            \/ BridgeDelivered \/ UNCHANGED sessionVars
  BY <1>1, <1>16, AdapterUntouched
     DEF Publish, Delivered, Start, BridgeConnects, BridgePublishes, BridgeFlushes, BridgeDrains,
         BridgeDelivered, sessionVars, adapter, vars, result
<1>17. QED
  BY <1>2, <1>3, <1>4, <1>5, <1>6, <1>7, <1>8, <1>9, <1>10, <1>11, <1>12, <1>13, <1>14, <1>15,
     <1>16 DEF SessionNext, ConnectStep
-----------------------------------------------------------------------------
(* The bridge.  A copy under way counts as one that may still arrive, a    *)
(* run under way as one that may still report.                             *)

UnderWay == IF wire = Nothing THEN 0 ELSE 1

Running == IF bridge = "idle" THEN 0 ELSE 1

BridgeInv ==
  /\ bridge \in {"idle", "connecting", "connected", "published", "draining"}
  /\ failing \in BOOLEAN
  /\ copies \in Nat /\ reported \in [ok : Nat, failed : Nat]
  /\ reported.ok <= copies
  /\ copies + UnderWay <= reported.ok + reported.failed + Running
  /\ bridge \in {"connecting", "connected"} => wire # Nothing
  /\ bridge = "published" /\ wire = Nothing => reported.ok < copies
  /\ bridge = "draining" /\ ~failing => wire = Nothing /\ reported.ok < copies

LEMMA BridgeKeeps == BridgeInv /\ [SessionNext]_sessionVars => BridgeInv'
<1> SUFFICES ASSUME BridgeInv, [SessionNext]_sessionVars PROVE BridgeInv'
  OBVIOUS
<1> DEFINE ok == reported.ok
           failed == reported.failed
<1>1. ok \in Nat /\ failed \in Nat /\ copies \in Nat
  BY DEF BridgeInv
<1>2. \A code : Report(code) => /\ bridge' = "idle" /\ failing' = FALSE
                                /\ reported' \in [ok : Nat, failed : Nat]
                                /\ code = 0 => /\ reported'.ok = ok + 1
                                               /\ reported'.failed = failed
                                /\ code # 0 => /\ reported'.ok = ok
                                               /\ reported'.failed = failed + 1
  BY DEF Report, BridgeInv
<1>3. CASE UNCHANGED forward
  BY <1>3 DEF forward, BridgeInv, UnderWay, Running
<1>0. /\ ok <= copies
      /\ copies + UnderWay <= (ok + failed) + Running
      /\ UnderWay = 0 \/ UnderWay = 1
  BY <1>1 DEF BridgeInv, UnderWay
<1> HIDE DEF ok, failed
<1>4. ASSUME NEW p, Start(p) PROVE BridgeInv'
  <2>1. /\ bridge = "idle" /\ wire = Nothing
        /\ UNCHANGED <<failing, reported, copies>>
    BY <1>4 DEF Start
  <2>2. \/ bridge' = "connecting" /\ wire' = [sent |-> p, subject |-> BridgeSubject(p)]
        \/ UNCHANGED <<bridge, wire>>
    BY <1>4 DEF Start
  <2>3. [sent |-> p, subject |-> BridgeSubject(p)] # Nothing
    BY DEF Nothing
  <2>4. QED
    BY <1>1, <2>1, <2>2, <2>3 DEF BridgeInv, UnderWay, Running
<1>5. CASE BridgeConnects
  <2>1. bridge = "connecting" /\ wire # Nothing /\ UNCHANGED copies
    BY <1>5 DEF BridgeConnects, BridgeInv
  <2>2. CASE bridge' = "connected" /\ UNCHANGED <<failing, reported, wire>>
    BY <1>1, <2>1, <2>2 DEF BridgeInv, UnderWay, Running
  <2>3. CASE Report(3) /\ wire' = Nothing
    <3>1. copies + 1 <= (ok + failed) + 1
      BY <1>0, <2>1 DEF UnderWay, Running
    <3>2. /\ bridge' = "idle" /\ failing' = FALSE /\ reported' \in [ok : Nat, failed : Nat]
          /\ reported'.ok = ok /\ reported'.failed = failed + 1
      BY <1>2, <2>3
    <3>3. UnderWay' = 0 /\ Running' = 0
      BY <2>3, <3>2 DEF UnderWay, Running
    <3>4. copies' + UnderWay' <= reported'.ok + reported'.failed + Running'
      BY <1>1, <2>1, <3>1, <3>2, <3>3
    <3>5. QED
      BY <1>0, <1>1, <2>1, <2>3, <3>2, <3>4 DEF BridgeInv
  <2>4. QED
    BY <1>5, <2>2, <2>3 DEF BridgeConnects
<1>6. CASE BridgePublishes
  <2>1. /\ bridge = "connected" /\ wire # Nothing /\ UNCHANGED <<reported, copies>>
        /\ \/ bridge' = "published" /\ UNCHANGED <<failing, wire>>
           \/ bridge' = "draining" /\ failing' = TRUE /\ wire' = Nothing
    BY <1>6 DEF BridgePublishes, BridgeInv
  <2>2. UnderWay = 1 /\ Running = 1 /\ Running' = 1 /\ UnderWay' \in {0, 1}
    BY <2>1 DEF UnderWay, Running
  <2>3. copies' + UnderWay' <= (ok + failed) + Running'
    <3>1. copies' = copies /\ copies + UnderWay <= (ok + failed) + 1
      BY <1>0, <2>1, <2>2
    <3>2. UnderWay \in Nat /\ UnderWay' \in Nat /\ UnderWay' <= UnderWay
      BY <1>0, <2>2
    <3>3. \A a, b, c, d \in Nat : a + b <= d + 1 /\ c <= b => a + c <= d + 1
      OBVIOUS
    <3>4. copies \in Nat /\ ok + failed \in Nat
      BY <1>1
    <3>5. copies + UnderWay' <= (ok + failed) + 1
      BY <3>1, <3>2, <3>3, <3>4
    <3>6. QED
      BY <2>2, <3>1, <3>5
  <2>4. QED
    BY <1>0, <2>1, <2>3 DEF BridgeInv, ok, failed
<1>7. CASE BridgeFlushes
  <2>1. /\ bridge = "published" /\ bridge' = "draining" /\ UNCHANGED <<reported, copies>>
        /\ \/ wire = Nothing /\ UNCHANGED <<failing, wire>>
           \/ failing' = TRUE /\ wire' \in {wire, Nothing}
    BY <1>7 DEF BridgeFlushes
  <2>2. Running = 1 /\ Running' = 1 /\ UnderWay' \in {0, UnderWay}
    BY <2>1 DEF UnderWay, Running
  <2>3. copies' + UnderWay' <= (ok + failed) + Running'
    <3>1. copies' = copies /\ copies + UnderWay <= (ok + failed) + 1
      BY <1>0, <2>1, <2>2
    <3>2. UnderWay \in Nat /\ UnderWay' \in Nat /\ UnderWay' <= UnderWay
      BY <1>0, <2>2
    <3>3. \A a, b, c, d \in Nat : a + b <= d + 1 /\ c <= b => a + c <= d + 1
      OBVIOUS
    <3>4. copies \in Nat /\ ok + failed \in Nat
      BY <1>1
    <3>5. copies + UnderWay' <= (ok + failed) + 1
      BY <3>1, <3>2, <3>3, <3>4
    <3>6. QED
      BY <2>2, <3>1, <3>5
  <2>4. QED
    BY <1>0, <2>1, <2>3 DEF BridgeInv, ok, failed
<1>8. CASE BridgeDrains
  <2>1. bridge = "draining" /\ UNCHANGED <<wire, copies>>
    BY <1>8 DEF BridgeDrains
  <2>2. PICK code \in {0, 3} : Report(code) /\ (code = 0 => ~failing)
    BY <1>8 DEF BridgeDrains
  <2>6. /\ bridge' = "idle" /\ failing' = FALSE /\ reported' \in [ok : Nat, failed : Nat]
        /\ Running = 1 /\ Running' = 0 /\ UnderWay' = UnderWay
    BY <1>2, <2>1, <2>2 DEF Running, UnderWay
  <2>3. CASE code = 0
    <3>1. reported'.ok = ok + 1 /\ reported'.failed = failed
      BY <1>2, <2>2, <2>3
    <3>2. wire = Nothing /\ ok < copies
      BY <2>1, <2>2, <2>3 DEF BridgeInv, ok
    <3>3. /\ copies' + UnderWay' <= reported'.ok + reported'.failed + Running'
          /\ reported'.ok <= copies'
      BY <1>0, <1>1, <2>1, <2>6, <3>1, <3>2
    <3>4. QED
      BY <1>1, <2>1, <2>6, <3>3 DEF BridgeInv
  <2>4. CASE code = 3
    <3>1. reported'.ok = ok /\ reported'.failed = failed + 1
      BY <1>2, <2>2, <2>4
    <3>2. /\ copies' + UnderWay' <= reported'.ok + reported'.failed + Running'
          /\ reported'.ok <= copies'
      BY <1>0, <1>1, <2>1, <2>6, <3>1
    <3>3. QED
      BY <1>1, <2>1, <2>6, <3>2 DEF BridgeInv
  <2>5. QED
    BY <2>2, <2>3, <2>4
<1>9. CASE BridgeDelivered
  <2>1. /\ wire # Nothing /\ wire' = Nothing /\ UNCHANGED <<bridge, failing, reported>>
        /\ copies' = copies + 1 \/ (bridge = "idle" /\ copies' = copies)
        /\ bridge \in {"published", "draining", "idle"}
    BY <1>9 DEF BridgeDelivered
  <2>2. QED
    BY <1>1, <2>1 DEF BridgeInv, UnderWay, Running
<1>10. CASE ConnectStep
  BY <1>3, <1>10 DEF ConnectStep, RetryAlone, AdapterAlone, ProbeFails, SpiffeRefused, Dial, DialFails,
                     DialCancelled, DialSucceeds
<1>11. CASE \/ CallerReads /\ RetryAlone
            \/ SleepCancelled /\ RetryAlone
            \/ CacheFlips /\ RetryAlone
            \/ \E t \in Tasks : TaskConnects(t) \/ TaskDialEnds(t)
            \/ \E t \in Tasks : Close(t) \/ CloseReturns(t) \/ CloseCancelled(t)
            \/ LinkDrops \/ LinkReturns \/ ClientCloses \/ Delivered
            \/ \E m \in Buildable : Publish(m)
  BY <1>3, <1>11 DEF RetryAlone, AdapterAlone, TaskConnects, TaskDialEnds, Close, CloseReturns,
                     CloseCancelled, Reset, LinkDrops, LinkReturns, ClientCloses, Delivered,
                     Publish
<1>12. CASE UNCHANGED sessionVars
  BY <1>3, <1>12 DEF sessionVars
<1>13. QED
  BY <1>4, <1>5, <1>6, <1>7, <1>8, <1>9, <1>10, <1>11, <1>12 DEF SessionNext
-----------------------------------------------------------------------------
(* Subjects on their way: parts whose subject build_subject, or the        *)
(* bridge's template, has let through.                                     *)

SubjectParts == [env : Tokens, domain : Tokens, event : Seq(Tokens), sub : Seq(Tokens)]

Sendable(p) == p.env \in RESERVED_ENVS /\ MatchesSchema(Joined(p)) /\ IsEventType(p.event)

(* The event types reserved in one domain have the same number of tokens.  *)
LEMMA ReservedLength ==
  ASSUME NEW d, NEW e, Reserved(d, e)
  PROVE  Len(e) = IF d = "wat" THEN 4 ELSE 3
<1>1. d \in {"aip", "cap", "federation", "wat", "agent", "meta", "treasury", "comms"}
  BY DEF Reserved, RESERVED_EVENT_TYPES
<1>2. e \in RESERVED_EVENT_TYPES[d]
  BY DEF Reserved
<1>3. CASE d = "aip"
  BY <1>2, <1>3 DEF RESERVED_EVENT_TYPES
<1>4. CASE d = "cap"
  BY <1>2, <1>4 DEF RESERVED_EVENT_TYPES
<1>5. CASE d = "federation"
  BY <1>2, <1>5 DEF RESERVED_EVENT_TYPES
<1>6. CASE d = "wat"
  BY <1>2, <1>6 DEF RESERVED_EVENT_TYPES
<1>7. CASE d = "agent"
  BY <1>2, <1>7 DEF RESERVED_EVENT_TYPES
<1>8. CASE d = "meta"
  BY <1>2, <1>8 DEF RESERVED_EVENT_TYPES
<1>9. CASE d = "treasury" \/ d = "comms"
  BY <1>2, <1>9 DEF RESERVED_EVENT_TYPES
<1>10. QED
  BY <1>1, <1>3, <1>4, <1>5, <1>6, <1>7, <1>8, <1>9

LEMMA JoinedParts ==
  ASSUME NEW p \in SubjectParts
  PROVE  /\ Joined(p) \in Seq(Tokens)
         /\ Len(Joined(p)) = 3 + Len(p.event) + Len(p.sub)
         /\ Joined(p)[1] = "wakir" /\ Joined(p)[2] = p.env /\ Joined(p)[3] = p.domain
         /\ \A i \in 1..Len(p.event) : Joined(p)[i + 3] = p.event[i]
         /\ \A i \in 1..Len(p.sub) : Joined(p)[i + 3 + Len(p.event)] = p.sub[i]
<1> DEFINE head == <<"wakir", p.env, p.domain>>
           most == head \o p.event
           whole == most \o p.sub
<1>1. /\ head \in Seq(Tokens) /\ Len(head) = 3
      /\ head[1] = "wakir" /\ head[2] = p.env /\ head[3] = p.domain
      /\ p.event \in Seq(Tokens) /\ p.sub \in Seq(Tokens)
      /\ Len(p.event) \in Nat /\ Len(p.sub) \in Nat
  <2>1. p.env \in Tokens /\ p.domain \in Tokens /\ p.event \in Seq(Tokens) /\ p.sub \in Seq(Tokens)
    BY DEF SubjectParts
  <2>2. head \in Seq(Tokens) /\ Len(head) = 3
    BY <2>1, TemplateIsLowercase
  <2>3. QED
    BY <2>1, <2>2
<1> HIDE DEF head
<1>2. /\ most \in Seq(Tokens) /\ Len(most) = 3 + Len(p.event)
      /\ \A i \in 1..(3 + Len(p.event)) : most[i] = IF i <= 3 THEN head[i] ELSE p.event[i - 3]
  <2>1. /\ most \in Seq(Tokens) /\ Len(most) = Len(head) + Len(p.event)
        /\ \A i \in 1..(Len(head) + Len(p.event)) :
             most[i] = IF i <= Len(head) THEN head[i] ELSE p.event[i - Len(head)]
    BY <1>1, ConcatProperties
  <2> HIDE DEF most
  <2>2. QED
    BY <1>1, <2>1
<1> HIDE DEF most
<1>3. /\ whole \in Seq(Tokens) /\ Len(whole) = Len(most) + Len(p.sub)
      /\ \A i \in 1..(Len(most) + Len(p.sub)) :
           whole[i] = IF i <= Len(most) THEN most[i] ELSE p.sub[i - Len(most)]
  BY <1>1, <1>2, ConcatProperties
<1>4. Joined(p) = whole
  BY DEF Joined, whole, most, head
<1> HIDE DEF whole
<1>5. \A i \in 1..(3 + Len(p.event)) : whole[i] = most[i]
  <2>1. Len(most) \in Nat /\ Len(most) = 3 + Len(p.event)
    BY <1>1, <1>2
  <2>2. \A i \in 1..Len(most) : i \in 1..(Len(most) + Len(p.sub)) /\ i <= Len(most)
    <3>1. \A m, n \in Nat : \A i \in 1..m : i \in 1..(m + n) /\ i <= m
      OBVIOUS
    <3>2. QED
      BY <1>1, <2>1, <3>1
  <2>3. QED
    BY <1>3, <2>1, <2>2
<1>6. whole[1] = "wakir" /\ whole[2] = p.env /\ whole[3] = p.domain
  <2>1. \A i \in {1, 2, 3} : i \in 1..(3 + Len(p.event)) /\ i <= 3
    BY <1>1
  <2>2. QED
    BY <1>1, <1>2, <1>5, <2>1
<1>7. ASSUME NEW i \in 1..Len(p.event) PROVE whole[i + 3] = p.event[i]
  <2>1. i + 3 \in 1..(3 + Len(p.event)) /\ ~(i + 3 <= 3) /\ (i + 3) - 3 = i
    BY <1>1
  <2>2. QED
    BY <1>2, <1>5, <2>1
<1>8. ASSUME NEW i \in 1..Len(p.sub) PROVE whole[i + 3 + Len(p.event)] = p.sub[i]
  <2>1. /\ i + 3 + Len(p.event) \in 1..(Len(most) + Len(p.sub))
        /\ ~(i + 3 + Len(p.event) <= Len(most))
        /\ (i + 3 + Len(p.event)) - Len(most) = i
    <3>1. \A m, n \in Nat : \A j \in 1..n :
            /\ j + 3 + m \in 1..((3 + m) + n)
            /\ ~(j + 3 + m <= 3 + m)
            /\ (j + 3 + m) - (3 + m) = j
      OBVIOUS
    <3>2. /\ i + 3 + Len(p.event) \in 1..((3 + Len(p.event)) + Len(p.sub))
          /\ ~(i + 3 + Len(p.event) <= 3 + Len(p.event))
          /\ (i + 3 + Len(p.event)) - (3 + Len(p.event)) = i
      BY <1>1, <3>1
    <3>3. Len(most) = 3 + Len(p.event)
      BY <1>2
    <3>4. QED
      BY <3>2, <3>3
  <2>2. QED
    BY <1>3, <2>1
<1>9. Len(whole) = 3 + Len(p.event) + Len(p.sub)
  BY <1>1, <1>2, <1>3
<1>10. QED
  BY <1>3, <1>4, <1>6, <1>7, <1>8, <1>9

(* What follows the domain is cut where it was joined.                     *)
LEMMA CutWhereJoined ==
  ASSUME NEW d, NEW rest \in Seq(Tokens), NEW e \in Seq(Tokens), NEW t \in Seq(Tokens),
         Len(rest) = Len(e) + Len(t),
         SubSeq(rest, 1, Len(e)) = e, SubSeq(rest, Len(e) + 1, Len(rest)) = t,
         Reserved(d, e), t # <<>> => LooksLikeSubIdAnchor(t)
  PROVE  LastCut(d, rest) = Len(e)
<1>1. Len(e) \in Nat /\ Len(t) \in Nat /\ Len(rest) \in Nat /\ Len(e) \in {3, 4}
  <2>1. Len(e) \in {3, 4}
    BY ReservedLength
  <2>2. QED
    BY <2>1
<1>2. ASSUME NEW k \in Cuts(d, rest) PROVE k = Len(e)
  <2>1. k \in 1..(Len(rest) - 1) /\ Reserved(d, SubSeq(rest, 1, k))
    BY <1>2 DEF Cuts
  <2>2. Len(SubSeq(rest, 1, k)) = k
    BY <1>1, <2>1
  <2>3. QED
    BY <2>1, <2>2, ReservedLength
<1>3. CASE t = <<>>
  <2>1. Len(rest) = Len(e)
    BY <1>1, <1>3
  <2>2. Cuts(d, rest) = {}
    <3>1. \A k \in Cuts(d, rest) : k \in 1..(Len(rest) - 1)
      BY DEF Cuts
    <3>2. QED
      BY <1>1, <1>2, <2>1, <3>1
  <2>3. QED
    BY <2>1, <2>2 DEF LastCut
<1>4. CASE t # <<>>
  <2>1. Len(t) \in {1, 3, 4}
    BY <1>4, AnchorLength
  <2>2. Len(e) \in 1..(Len(rest) - 1) /\ (Len(e) = Len(rest) - 1 \/ Len(rest) >= 4)
    BY <1>1, <2>1
  <2>3. Len(e) \in Cuts(d, rest)
    BY <1>4, <2>2 DEF Cuts
  <2>4. \E k \in Cuts(d, rest) : \A j \in Cuts(d, rest) : j <= k
    BY <1>1, <1>2, <2>3
  <2>5. LastCut(d, rest) \in Cuts(d, rest)
    BY <2>3, <2>4 DEF LastCut
  <2>6. QED
    BY <1>2, <2>5
<1>5. QED
  BY <1>3, <1>4

LEMMA ParsesBack ==
  ASSUME NEW p \in SubjectParts, Sendable(p), Reserved(p.domain, p.event),
         p.sub # NoSubId => LooksLikeSubIdAnchor(p.sub), FitsSubId(p.sub)
  PROVE  Parse(Joined(p)) = {p}
<1> DEFINE s == Joined(p)
           rest == SubSeq(s, 4, Len(s))
<1>1. /\ p.event \in Seq(Tokens) /\ p.sub \in Seq(Tokens)
      /\ Len(p.event) \in Nat /\ Len(p.sub) \in Nat
      /\ p = [env |-> p.env, domain |-> p.domain, event |-> p.event, sub |-> p.sub]
  BY DEF SubjectParts
<1>2. /\ s \in Seq(Tokens) /\ Len(s) = 3 + Len(p.event) + Len(p.sub)
      /\ s[1] = "wakir" /\ s[2] = p.env /\ s[3] = p.domain
      /\ \A i \in 1..Len(p.event) : s[i + 3] = p.event[i]
      /\ \A i \in 1..Len(p.sub) : s[i + 3 + Len(p.event)] = p.sub[i]
  BY JoinedParts
<1>3. MatchesSchema(s) /\ IsEventType(p.event)
  BY DEF Sendable
<1> HIDE DEF s
<1>4. /\ rest \in Seq(Tokens) /\ Len(rest) = Len(p.event) + Len(p.sub)
      /\ \A i \in 1..Len(rest) : rest[i] = s[i + 3]
  BY <1>1, <1>2
<1> HIDE DEF rest
<1>5. SubSeq(rest, 1, Len(p.event)) = p.event
  <2> DEFINE e == SubSeq(rest, 1, Len(p.event))
  <2>1. /\ e \in Seq(Tokens) /\ Len(e) = Len(p.event)
        /\ \A i \in 1..Len(e) : e[i] = rest[i]
    BY <1>1, <1>4
  <2> HIDE DEF e
  <2>2. \A i \in 1..Len(e) : e[i] = p.event[i]
    <3> TAKE i \in 1..Len(e)
    <3>1. i \in 1..Len(rest) /\ i \in 1..Len(p.event)
      BY <1>1, <1>4, <2>1
    <3>2. QED
      BY <1>2, <1>4, <2>1, <3>1
  <2>3. e = p.event
    BY <1>1, <2>1, <2>2, SeqEqual
  <2>4. QED
    BY <2>3 DEF e
<1>6. SubSeq(rest, Len(p.event) + 1, Len(rest)) = p.sub
  <2> DEFINE t == SubSeq(rest, Len(p.event) + 1, Len(rest))
  <2>1. /\ t \in Seq(Tokens) /\ Len(t) = Len(p.sub)
        /\ \A i \in 1..Len(t) : t[i] = rest[i + Len(p.event)]
    BY <1>1, <1>4
  <2> HIDE DEF t
  <2>2. \A i \in 1..Len(t) : t[i] = p.sub[i]
    <3> TAKE i \in 1..Len(t)
    <3>1. /\ i + Len(p.event) \in 1..Len(rest) /\ i \in 1..Len(p.sub)
          /\ (i + Len(p.event)) + 3 = i + 3 + Len(p.event)
      BY <1>1, <1>4, <2>1
    <3>2. rest[i + Len(p.event)] = s[i + 3 + Len(p.event)]
      BY <1>4, <3>1
    <3>3. QED
      BY <1>2, <2>1, <3>1, <3>2
  <2>3. t = p.sub
    BY <1>1, <2>1, <2>2, SeqEqual
  <2>4. QED
    BY <2>3 DEF t
<1>7. LastCut(p.domain, rest) = Len(p.event)
  <2>1. p.sub # <<>> => LooksLikeSubIdAnchor(p.sub)
    BY DEF NoSubId
  <2>2. /\ rest \in Seq(Tokens) /\ Len(rest) = Len(p.event) + Len(p.sub)
        /\ p.event \in Seq(Tokens) /\ p.sub \in Seq(Tokens)
    BY <1>1, <1>4
  <2>3. QED
    BY <1>5, <1>6, <2>1, <2>2, CutWhereJoined, ZenonT(60)
<1>8. Parse(s) = {[env |-> s[2], domain |-> s[3],
                   event |-> SubSeq(rest, 1, LastCut(s[3], rest)),
                   sub |-> SubSeq(rest, LastCut(s[3], rest) + 1, Len(rest))]}
  <2>1. /\ IsEventType(SubSeq(rest, 1, LastCut(s[3], rest)))
        /\ FitsSubId(SubSeq(rest, LastCut(s[3], rest) + 1, Len(rest)))
    BY <1>2, <1>3, <1>5, <1>6, <1>7
  <2>2. QED
    BY <1>3, <2>1, Zenon DEF Parse, LastCut, rest
<1>9. QED
  BY <1>1, <1>2, <1>5, <1>6, <1>7, <1>8 DEF s

(* What build_subject makes of a reserved event type and of an anchor, or  *)
(* of nothing, parses back to exactly these parts.                         *)
THEOREM ParseInvertsBuild ==
  ASSUME NEW p \in SubjectParts, Build(p) # Refused, Reserved(p.domain, p.event),
         p.sub # NoSubId => LooksLikeSubIdAnchor(p.sub)
  PROVE  Parse(Build(p)) = {p}
<1>1. Build(p) = Joined(p) /\ Sendable(p)
  BY DEF Build, Sendable
<1>2. FitsSubId(p.sub)
  BY DEF Build, FitsSubId, NoSubId
<1>3. QED
  BY <1>1, <1>2, ParsesBack
-----------------------------------------------------------------------------
(* What is under way has such a subject; hence what a consumer makes of it.*)

OnTheWay(m) ==
  m = Nothing \/ \E p \in SubjectParts : Sendable(p) /\ m = [sent |-> p, subject |-> Joined(p)]

SubjectInv == OnTheWay(buffer) /\ OnTheWay(wire) /\ ReceivedAsMeant

LEMMA ReceiveKeeps ==
  ASSUME NEW m, m # Nothing, OnTheWay(m), ReceivedAsMeant, Receive(m)
  PROVE  ReceivedAsMeant'
<1>1. PICK p \in SubjectParts : Sendable(p) /\ m = [sent |-> p, subject |-> Joined(p)]
  BY DEF OnTheWay
<1>2. CASE UNCHANGED received
  BY <1>2 DEF ReceivedAsMeant
<1>3. ASSUME NEW f \in Filters,
             ValidConsumerFilter(f), Subscribable(f), Matches(f, m.subject),
             received' = [sent |-> m.sent, filter |-> f, parsed |-> Parse(m.subject),
                          schema |-> SchemaForSubject(m.subject)]
      PROVE  ReceivedAsMeant'
  <2>1. /\ received'.sent = p /\ received'.filter = f /\ received'.parsed = Parse(Joined(p))
        /\ received'.schema = SchemaForSubject(Joined(p))
    BY <1>1, <1>3
  <2>2. f[2] = p.env /\ f[3] = p.domain
    <3>1. f \in Seq(Tokens) /\ Joined(p) \in Seq(Tokens) /\ Matches(f, Joined(p))
      BY <1>1, <1>3, SubjectsAreText, JoinedParts
    <3>2. f[2] = Joined(p)[2] /\ f[3] = Joined(p)[3]
      BY <1>3, <3>1, FilterPinsEnvAndDomain
    <3>3. QED
      BY <3>2, JoinedParts
  <2>3. ASSUME Reserved(p.domain, p.event),
               p.sub # NoSubId => LooksLikeSubIdAnchor(p.sub), FitsSubId(p.sub)
        PROVE  /\ Parse(Joined(p)) = {p}
               /\ SchemaForSubject(Joined(p)) = {SchemaInventory(SubSeq(p.event, 1, 2))}
    <3>1. Parse(Joined(p)) = {p}
      BY <1>1, <2>3, ParsesBack
    <3>2. ~(Len(p.event) < 2)
      <4>1. Len(p.event) = IF p.domain = "wat" THEN 4 ELSE 3
        BY <2>3, ReservedLength, Zenon
      <4>2. QED
        BY <4>1
    <3>3. QED
      BY <3>1, <3>2 DEF SchemaForSubject
  <2>4. QED
    BY <2>1, <2>2, <2>3 DEF ReceivedAsMeant
<1>4. QED
  BY <1>2, <1>3 DEF Receive, Subscriptions

LEMMA PublishedIsOnTheWay ==
  ASSUME NEW p \in Messages, Build(p) # Refused
  PROVE  OnTheWay([sent |-> p, subject |-> Build(p)])
<1>1. p \in SubjectParts
  BY SubjectsAreText DEF SubjectParts
<1>2. Build(p) = Joined(p) /\ Sendable(p)
  BY DEF Build, Sendable
<1>3. QED
  BY <1>1, <1>2 DEF OnTheWay

(* The bridge's template gives a subject the mapping would accept too.     *)
LEMMA TemplateIsSendable ==
  ASSUME NEW env \in RESERVED_ENVS, NEW slug \in Slugs,
         BridgeSubject(Assignment(env, slug)) # Refused
  PROVE  /\ Assignment(env, slug) \in SubjectParts
         /\ Sendable(Assignment(env, slug))
         /\ BridgeSubject(Assignment(env, slug)) = Joined(Assignment(env, slug))
<1> DEFINE p == Assignment(env, slug)
<1>1. p \in SubjectParts
  <2>1. slug \in Tokens
    BY SubjectsAreText
  <2>2. env \in Tokens
    BY TemplateIsLowercase
  <2>3. <<slug>> \in Seq(Tokens)
    BY <2>1
  <2>4. <<"agent", "task", "assigned">> \in Seq(Tokens) /\ "agent" \in Tokens
    BY TemplateIsLowercase
  <2>5. QED
    BY <2>2, <2>3, <2>4 DEF Assignment, SubjectParts
<1>2. /\ p.env = env /\ p.domain = "agent" /\ p.sub = <<slug>>
      /\ p.event = <<"agent", "task", "assigned">>
  BY DEF Assignment
<1>3. LeadingToken(slug) /\ BridgeSubject(p) = Joined(p)
  BY <1>2 DEF BridgeSubject
<1>4. \A t \in {"wakir", "agent", "task", "assigned", env} :
        LeadingToken(t) /\ Only(t, {"lower", "digit", "_", "-"})
  BY TemplateIsLowercase DEF LeadingToken, NonEmpty, Only
<1>5. IsEventType(p.event)
  <2> DEFINE e == <<"agent", "task", "assigned">>
  <2>1. e # <<>> /\ e[1] = "agent" /\ DOMAIN e = 1..3
    OBVIOUS
  <2>2. \A i \in 1..3 : e[i] \in {"agent", "task", "assigned"}
    OBVIOUS
  <2> HIDE DEF e
  <2>3. IsEventType(e)
    BY <1>4, <2>1, <2>2 DEF IsEventType
  <2>4. QED
    BY <1>2, <2>3 DEF e
<1> HIDE DEF p
<1>6. /\ Len(Joined(p)) = 7
      /\ Joined(p)[1] = "wakir" /\ Joined(p)[2] = env /\ Joined(p)[3] = "agent"
      /\ Joined(p)[4] = "agent" /\ Joined(p)[5] = "task" /\ Joined(p)[6] = "assigned"
      /\ Joined(p)[7] = slug
      /\ DOMAIN Joined(p) = 1..7
  <2>1. Len(p.event) = 3 /\ Len(p.sub) = 1
    BY <1>2
  <2>2. /\ p.event[1] = "agent" /\ p.event[2] = "task" /\ p.event[3] = "assigned"
        /\ p.sub[1] = slug
    BY <1>2
  <2>3. /\ Joined(p)[1 + 3] = p.event[1] /\ Joined(p)[2 + 3] = p.event[2]
        /\ Joined(p)[3 + 3] = p.event[3] /\ Joined(p)[1 + 3 + 3] = p.sub[1]
    <3>1. \A i \in 1..Len(p.event) : Joined(p)[i + 3] = p.event[i]
      BY <1>1, JoinedParts
    <3>2. \A i \in 1..Len(p.sub) : Joined(p)[i + 3 + Len(p.event)] = p.sub[i]
      BY <1>1, JoinedParts
    <3>3. QED
      BY <2>1, <3>1, <3>2
  <2>4. Joined(p) \in Seq(Tokens) /\ Len(Joined(p)) = 3 + Len(p.event) + Len(p.sub)
    BY <1>1, JoinedParts
  <2>5. Len(Joined(p)) = 7
    BY <2>1, <2>4
  <2>6. DOMAIN Joined(p) = 1..7
    <3>1. \A s \in Seq(Tokens) : DOMAIN s = 1..Len(s)
      OBVIOUS
    <3>2. QED
      BY <2>4, <2>5, <3>1
  <2>7. Joined(p)[1] = "wakir" /\ Joined(p)[2] = env /\ Joined(p)[3] = "agent"
    BY <1>1, <1>2, JoinedParts
  <2>8. QED
    BY <2>2, <2>3, <2>5, <2>6, <2>7
<1>7. MatchesSchema(Joined(p))
  <2>1. Only(slug, {"lower", "digit", "_", "-"})
    BY <1>3 DEF LeadingToken
  <2>2. {"lower", "digit", "_", "-"} \subseteq Letters \ {"other"}
    BY DEF Letters
  <2>3. \A i \in 1..7 : Joined(p)[i] \in {"wakir", "agent", "task", "assigned", env, slug}
    BY <1>6
  <2>4. \A i \in 1..7 : Only(Joined(p)[i], {"lower", "digit", "_", "-"})
    BY <1>4, <2>1, <2>3
  <2>5. \A i \in 1..7 : Only(Joined(p)[i], Letters \ {"other"})
    BY <2>2, <2>4 DEF Only
  <2>6. LeadingToken(Joined(p)[3]) /\ LeadingToken(Joined(p)[4])
    BY <1>4, <1>6
  <2> DEFINE s == Joined(p)
  <2>7. /\ Len(s) = 7 /\ DOMAIN s = 1..7 /\ s[1] = "wakir" /\ s[2] \in RESERVED_ENVS
        /\ LeadingToken(s[3]) /\ LeadingToken(s[4])
        /\ \A i \in DOMAIN s : Only(s[i], Letters \ {"other"})
    BY <1>6, <2>5, <2>6
  <2> HIDE DEF s
  <2>8. MatchesSchema(s)
    BY <2>7 DEF MatchesSchema
  <2>9. QED
    BY <2>8 DEF s
<1>8. QED
  BY <1>1, <1>2, <1>3, <1>5, <1>7 DEF p, Sendable

LEMMA SubjectsKeep == SubjectInv /\ [SessionNext]_sessionVars => SubjectInv'
<1> SUFFICES ASSUME SubjectInv, [SessionNext]_sessionVars PROVE SubjectInv'
  OBVIOUS
<1>1. OnTheWay(Nothing)
  BY DEF OnTheWay
<1>2. ASSUME buffer' \in {buffer, Nothing}, wire' \in {wire, Nothing}, UNCHANGED received
      PROVE  SubjectInv'
  BY <1>1, <1>2 DEF SubjectInv, OnTheWay, ReceivedAsMeant
<1>3. ASSUME NEW m \in Buildable, Publish(m) PROVE SubjectInv'
  <2>1. OnTheWay(m)
    BY PublishedIsOnTheWay DEF Buildable
  <2>2. buffer' = m /\ wire' = wire /\ received' = Nothing
    BY <1>3 DEF Publish, forward
  <2>3. QED
    BY <2>1, <2>2 DEF SubjectInv, OnTheWay, ReceivedAsMeant
<1>4. ASSUME NEW env \in RESERVED_ENVS, NEW slug \in Slugs, Start(Assignment(env, slug))
      PROVE  SubjectInv'
  <2> DEFINE p == Assignment(env, slug)
  <2>1. buffer' = buffer /\ received' = Nothing
    BY <1>4 DEF Start, adapter
  <2>2. PICK in \in Inputs :
          IF EarlyExit(in, BridgeSubject(p)) = 3
          THEN bridge' = "connecting" /\ wire' = [sent |-> p, subject |-> BridgeSubject(p)]
          ELSE UNCHANGED <<bridge, wire>>
    BY <1>4 DEF Start
  <2>3. CASE EarlyExit(in, BridgeSubject(p)) = 3
    <3>1. BridgeSubject(p) # Refused
      BY <2>3 DEF EarlyExit, Inputs
    <3>2. OnTheWay(wire')
      BY <2>2, <2>3, <3>1, TemplateIsSendable DEF OnTheWay
    <3>3. QED
      BY <2>1, <3>2 DEF SubjectInv, OnTheWay, ReceivedAsMeant
  <2>4. CASE EarlyExit(in, BridgeSubject(p)) # 3
    BY <2>1, <2>2, <2>4 DEF SubjectInv, OnTheWay, ReceivedAsMeant
  <2>5. QED
    BY <2>3, <2>4
<1>5. CASE Delivered
  <2>1. ReceivedAsMeant'
    BY <1>5, ReceiveKeeps DEF Delivered, SubjectInv
  <2>2. QED
    BY <1>1, <1>5, <2>1 DEF Delivered, SubjectInv, forward, OnTheWay
<1>6. CASE BridgeDelivered
  <2>1. ReceivedAsMeant'
    <3>1. CASE Receive(wire)
      BY <1>6, <3>1, ReceiveKeeps DEF BridgeDelivered, SubjectInv
    <3>2. CASE UNCHANGED received
      BY <3>2 DEF SubjectInv, ReceivedAsMeant
    <3>3. QED
      BY <1>6, <3>1, <3>2 DEF BridgeDelivered
  <2>2. QED
    BY <1>1, <1>6, <2>1 DEF BridgeDelivered, SubjectInv, adapter, OnTheWay
<1>7. CASE \/ BridgeConnects \/ BridgePublishes \/ BridgeFlushes \/ BridgeDrains
           \/ UNCHANGED sessionVars
  BY <1>2, <1>7 DEF BridgeConnects, BridgePublishes, BridgeFlushes, BridgeDrains, adapter,
                    forward, sessionVars
<1>8. CASE ConnectStep
  BY <1>2, <1>8 DEF ConnectStep, RetryAlone, ProbeFails, SpiffeRefused, Dial, DialFails,
                    DialCancelled, DialSucceeds, Hold, AdapterAlone, adapter, forward
<1>9. CASE \/ (CallerReads \/ SleepCancelled \/ CacheFlips) /\ RetryAlone
           \/ \E t \in Tasks : TaskConnects(t) \/ TaskDialEnds(t)
           \/ \E t \in Tasks : Close(t) \/ CloseReturns(t) \/ CloseCancelled(t)
           \/ LinkDrops \/ LinkReturns \/ ClientCloses
  BY <1>2, <1>9 DEF RetryAlone, TaskConnects, TaskDialEnds, Hold, Close, CloseReturns, Reset,
                    CloseCancelled, LinkDrops, LinkReturns, ClientCloses, AdapterAlone,
                    adapter, forward
<1>10. QED
  BY <1>3, <1>4, <1>5, <1>6, <1>7, <1>8, <1>9 DEF SessionNext
-----------------------------------------------------------------------------
(* The session: the four invariants together, and what they give.          *)

IInv == RetryInv /\ AdapterInv /\ BridgeInv /\ SubjectInv

LEMMA SessionInitially == SessionInit => IInv
<1> SUFFICES ASSUME SessionInit PROVE IInv
  OBVIOUS
<1>1. RetryInv
  BY RetryInitially DEF SessionInit
<1>2. AdapterInv
  BY DEF SessionInit, Init, AdapterInv, OutcomeIsTheConnection, OneOwner
<1>3. BridgeInv
  <2>1. /\ bridge = "idle" /\ failing = FALSE /\ wire = Nothing /\ copies = 0
        /\ reported = [ok |-> 0, failed |-> 0]
    BY DEF SessionInit
  <2>2. reported \in [ok : Nat, failed : Nat] /\ reported.ok = 0 /\ reported.failed = 0
    BY <2>1
  <2>3. UnderWay = 0 /\ Running = 0
    BY <2>1 DEF UnderWay, Running
  <2>4. copies + UnderWay <= reported.ok + reported.failed + Running
    BY <2>1, <2>2, <2>3
  <2>5. copies \in Nat /\ reported.ok <= copies
    BY <2>1, <2>2
  <2>6. QED
    BY <2>1, <2>2, <2>4, <2>5 DEF BridgeInv
<1>4. SubjectInv
  BY DEF SessionInit, SubjectInv, OnTheWay, ReceivedAsMeant
<1>5. QED
  BY <1>1, <1>2, <1>3, <1>4 DEF IInv

(* In every reachable state of every session the invariants hold.          *)
THEOREM Inductive == SessionSpec => []IInv
<1>1. IInv /\ [SessionNext]_sessionVars => IInv'
  BY StepIsOfTheRetry, RetryKeeps, AdapterKeeps, BridgeKeeps, SubjectsKeep DEF IInv
<1>2. QED
  BY SessionInitially, <1>1, PTL DEF SessionSpec

(* The session's steps on the retry loop's variables are steps of          *)
(* connect_with_retry as it stands by itself: driving a real adapter, the  *)
(* loop does nothing it does not do with any other connect.                *)
THEOREM SessionRunsTheLoop == SessionSpec => Init /\ [][Next]_vars
<1>1. SessionInit => Init
  BY DEF SessionInit
<1>2. QED
  BY <1>1, StepIsOfTheRetry, PTL DEF SessionSpec

(* Every variable of the loop keeps its type.                              *)
THEOREM TypeCorrect == SessionSpec => []TypeOK
<1>1. IInv => TypeOK
  BY DEF IInv, RetryInv
<1>2. QED
  BY Inductive, <1>1, PTL

(* The caller can go by the log: one entry for each attempt, in order, the *)
(* outcome in the last one and in the flags, for every schedule.           *)
THEOREM LogIsTheOutcome == SessionSpec => []LogTellsTheOutcome
<1>1. IInv => LogTellsTheOutcome
  BY DEF IInv, RetryInv
<1>2. QED
  BY Inductive, <1>1, PTL

(* The elapsed times and sleeps in the log never add up to more than the   *)
(* time that went by, however late sleeps and polls end.                   *)
THEOREM LogIsNoOverstatement == SessionSpec => []LogNeverOverstates
<1>1. IInv => LogNeverOverstates
  BY DEF IInv, RetryInv
<1>2. QED
  BY Inductive, <1>1, PTL

(* After connect_with_retry the adapter holds what the log says; and it    *)
(* forgets an open connection only if some connect overlapped another call *)
(* or came while a client was held.  That is so for any number of tasks    *)
(* that connect, publish and close, and wherever a close strikes, raises   *)
(* or is cancelled.                                                        *)
THEOREM ConnectionIsTheOutcome == SessionSpec => []OutcomeIsTheConnection
<1>1. IInv => OutcomeIsTheConnection
  BY DEF IInv, AdapterInv
<1>2. QED
  BY Inductive, <1>1, PTL

(* The bridge's exit codes bound the copies that reached the broker, for   *)
(* any number of runs.                                                     *)
THEOREM ExitCodesBoundCopies == SessionSpec => []ExitTellsCopies
<1>1. IInv => ExitTellsCopies
  <2> SUFFICES ASSUME IInv PROVE ExitTellsCopies
    OBVIOUS
  <2>1. /\ reported.ok \in Nat /\ reported.failed \in Nat /\ copies \in Nat
        /\ reported.ok <= copies
        /\ copies + UnderWay <= (reported.ok + reported.failed) + Running
    BY DEF IInv, BridgeInv
  <2>2. UnderWay \in Nat
    BY DEF UnderWay
  <2>3. bridge = "idle" => Running = 0
    BY DEF Running
  <2>4. QED
    BY <2>1, <2>2, <2>3 DEF ExitTellsCopies
<1>2. QED
  BY Inductive, <1>1, PTL

(* Whatever filter passed validation, a consumer gets its environment and  *)
(* domain only, and reads a reserved event type and its anchor as they     *)
(* were sent, by the adapter or by the bridge.                             *)
THEOREM DeliveredAsMeant == SessionSpec => []ReceivedAsMeant
<1>1. IInv => ReceivedAsMeant
  BY DEF IInv, SubjectInv
<1>2. QED
  BY Inductive, <1>1, PTL
=============================================================================

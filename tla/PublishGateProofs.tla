-------------------------- MODULE PublishGateProofs --------------------------
(***************************************************************************)
(* Proofs about PublishGate, for any publishers, policies, files, entries  *)
(* and times.                                                              *)
(*                                                                         *)
(* Three arguments.  The gate's loop: what it replaces a fallback by is    *)
(* always the stronger of the two, so the fold over the policies found is  *)
(* their maximum, in whatever order they come (DecisionIsMaximum).  The    *)
(* gate against the bucket: a policy that the loop takes for a match was   *)
(* in the bucket when it was fetched (CallKnows).  The pins: a revision a  *)
(* compare-and-set succeeded on is one the registry's entry has left       *)
(* behind for good, as nothing in it is ever deleted (PinsInThePast).      *)
(***************************************************************************)
EXTENDS PublishGate, ListLemmas

-----------------------------------------------------------------------------
(* The gate's loop.                                                        *)

Codes == {Precedence[r] : r \in 2..7}

(* Seven different codes, and a finding is none but the last six.          *)
LEMMA CodesAreRanked ==
  /\ DOMAIN Precedence = 1..7
  /\ Precedence[1] = Nothing
  /\ Precedence[7] = "POLICY_MATCH"
  /\ \A q, r \in 1..7 : Precedence[q] = Precedence[r] => q = r
  BY DEF Precedence, Nothing

LEMMA FindingIsCode ==
  ASSUME NEW p, NEW e, NEW asOf
  PROVE  Finding(p, e, asOf) \in Codes
<1>1. Finding(p, e, asOf) \in {"POLICY_REVOKED", "POLICY_DISABLED", "KID_NOT_ALLOWED",
                               "TRIPLE_NOT_ALLOWED", "OUTSIDE_VALIDITY_WINDOW", "POLICY_MATCH"}
  BY DEF Finding
<1>2. /\ Precedence[2] = "POLICY_DISABLED" /\ Precedence[3] = "KID_NOT_ALLOWED"
      /\ Precedence[4] = "TRIPLE_NOT_ALLOWED" /\ Precedence[5] = "OUTSIDE_VALIDITY_WINDOW"
      /\ Precedence[6] = "POLICY_REVOKED" /\ Precedence[7] = "POLICY_MATCH"
  BY DEF Precedence
<1>3. \A r \in 2..7 : Precedence[r] \in Codes
  BY DEF Codes
<1> QED BY <1>1, <1>2, <1>3

(* A finding takes the place of exactly the weaker ones.                   *)
LEMMA StrongerReplaces ==
  ASSUME NEW q \in 1..7, NEW r \in 2..7
  PROVE  Precedence[q] \in Replaces(Precedence[r]) <=> q < r
<1>1. q \in {1, 2, 3, 4, 5, 6, 7} /\ r \in {2, 3, 4, 5, 6, 7}
  OBVIOUS
<1>2. /\ Precedence[1] = Nothing
      /\ Precedence[2] = "POLICY_DISABLED" /\ Precedence[3] = "KID_NOT_ALLOWED"
      /\ Precedence[4] = "TRIPLE_NOT_ALLOWED" /\ Precedence[5] = "OUTSIDE_VALIDITY_WINDOW"
      /\ Precedence[6] = "POLICY_REVOKED" /\ Precedence[7] = "POLICY_MATCH"
  BY DEF Precedence
<1>3. CASE r = 2
  BY <1>1, <1>2, <1>3 DEF Replaces, Nothing
<1>4. CASE r = 3
  BY <1>1, <1>2, <1>4 DEF Replaces, Nothing
<1>5. CASE r = 4
  BY <1>1, <1>2, <1>5 DEF Replaces, Nothing
<1>6. CASE r = 5
  BY <1>1, <1>2, <1>6 DEF Replaces, Nothing
<1>7. CASE r = 6
  BY <1>1, <1>2, <1>7 DEF Replaces, Nothing
<1>8. CASE r = 7
  BY <1>1, <1>2, <1>8 DEF Replaces, Nothing
<1> QED BY <1>1, <1>3, <1>4, <1>5, <1>6, <1>7, <1>8

Ranks(F) == {1} \cup {i \in DOMAIN Precedence : Precedence[i] \in F}

LEMMA StrongestHasTopRank ==
  ASSUME NEW F
  PROVE  /\ Max(Ranks(F)) \in Ranks(F)
         /\ \A i \in Ranks(F) : i <= Max(Ranks(F))
         /\ Ranks(F) \subseteq 1..7
         /\ Strongest(F) = Precedence[Max(Ranks(F))]
<1>1. Ranks(F) \subseteq 0..7 /\ Ranks(F) # {} /\ Ranks(F) \subseteq 1..7
  BY CodesAreRanked DEF Ranks
<1>2. 7 \in Nat
  OBVIOUS
<1>3. Max(Ranks(F)) \in Ranks(F) /\ \A i \in Ranks(F) : i <= Max(Ranks(F))
  BY <1>1, <1>2, BoundedHasMax
<1> QED BY <1>1, <1>3 DEF Strongest, Ranks

LEMMA StrongestOfNone == Strongest({}) = Nothing
<1>1. Ranks({}) = {1}
  BY DEF Ranks
<1>2. Max(Ranks({})) = 1
  BY <1>1, StrongestHasTopRank
<1> QED BY <1>2, StrongestHasTopRank, CodesAreRanked

(* One more finding.                                                       *)
LEMMA StrongestOfOneMore ==
  ASSUME NEW F, NEW v \in Codes
  PROVE  Strongest(F \cup {v}) = IF Strongest(F) \in Replaces(v) THEN v ELSE Strongest(F)
<1> DEFINE m == Max(Ranks(F))
<1>1. PICK r \in 2..7 : v = Precedence[r]
  BY DEF Codes
<1>2. m \in Ranks(F) /\ m \in 1..7 /\ Ranks(F) \subseteq 1..7 /\ \A i \in Ranks(F) : i <= m
  BY StrongestHasTopRank
<1>3. Strongest(F) = Precedence[m]
  BY StrongestHasTopRank
<1>4. Ranks(F \cup {v}) = Ranks(F) \cup {r}
  <2>1. ASSUME NEW i \in 1..7 PROVE Precedence[i] \in {v} <=> i = r
    BY <1>1, CodesAreRanked
  <2> QED BY <2>1, CodesAreRanked DEF Ranks
<1>5. Strongest(F \cup {v}) = Precedence[Max(Ranks(F) \cup {r})]
  BY <1>4, StrongestHasTopRank
<1> HIDE DEF m
<1>6. Max(Ranks(F) \cup {r}) = IF m < r THEN r ELSE m
  <2> DEFINE S == Ranks(F) \cup {r}
             x == IF m < r THEN r ELSE m
  <2>1. S \subseteq Nat
    BY <1>2
  <2>2. x \in S /\ \A i \in S : i <= x
    BY <1>2
  <2> HIDE DEF S, x
  <2>3. Max(S) = x
    BY <2>1, <2>2, MaxIsGreatest
  <2> QED BY <2>3 DEF S, x
<1>7. Precedence[m] \in Replaces(v) <=> m < r
  BY <1>1, <1>2, StrongerReplaces
<1> QED BY <1>1, <1>3, <1>5, <1>6, <1>7

(* What the loop finds among the policies at the positions in s.           *)
FindingsAt(found, e, asOf, s) ==
  {Finding(found[i].policy, e, asOf) : i \in {j \in s : found[j].by = e.by}}

(* The equation of FoldLeft's inner function, for Decision.                *)
FoldsLoop(g, found, e, asOf) ==
  g = [s \in SUBSET DOMAIN found |->
         IF s = {} THEN Nothing
         ELSE Judged(e, asOf, g[s \ {Max(s)}], found[Max(s)])]

LEMMA DecisionUnfolds ==
  ASSUME NEW found, NEW e, NEW asOf
  PROVE  Decision(found, e, asOf) =
           (CHOOSE g : FoldsLoop(g, found, e, asOf))[DOMAIN found]
  BY Zenon DEF Decision, FoldLeft, MapThenFoldSet, FoldsLoop

(* One more position: the loop body applied to the strongest so far.       *)
LEMMA LoopBodyKeepsStrongest ==
  ASSUME NEW found, NEW e, NEW asOf, NEW s, NEW x \in s
  PROVE  Strongest(FindingsAt(found, e, asOf, s)) =
           Judged(e, asOf, Strongest(FindingsAt(found, e, asOf, s \ {x})), found[x])
<1> DEFINE v == Finding(found[x].policy, e, asOf)
           F == FindingsAt(found, e, asOf, s \ {x})
<1>1. CASE found[x].by # e.by
  <2>1. {j \in s : found[j].by = e.by} = {j \in s \ {x} : found[j].by = e.by}
    BY <1>1
  <2>2. FindingsAt(found, e, asOf, s) = F
    BY <2>1 DEF FindingsAt
  <2> QED BY <1>1, <2>2 DEF Judged
<1>2. CASE found[x].by = e.by
  <2>1. {j \in s : found[j].by = e.by} = {j \in s \ {x} : found[j].by = e.by} \cup {x}
    BY <1>2
  <2>2. FindingsAt(found, e, asOf, s) = F \cup {v}
    BY <2>1 DEF FindingsAt
  <2>3. v \in Codes
    BY FindingIsCode
  <2> HIDE DEF F, v
  <2>4. Strongest(F \cup {v}) = IF Strongest(F) \in Replaces(v) THEN v ELSE Strongest(F)
    BY <2>3, StrongestOfOneMore
  <2> QED BY <1>2, <2>2, <2>4 DEF Judged, F, v
<1> QED BY <1>1, <1>2

(* A function as FoldLeft asks for exists: the maximum is one.             *)
LEMMA MaximumFoldsLoop ==
  ASSUME NEW T, NEW found \in Seq(T), NEW e, NEW asOf
  PROVE  \E g : FoldsLoop(g, found, e, asOf)
<1> DEFINE g == [s \in SUBSET DOMAIN found |-> Strongest(FindingsAt(found, e, asOf, s))]
           h == [s \in SUBSET DOMAIN found |->
                   IF s = {} THEN Nothing
                   ELSE Judged(e, asOf, g[s \ {Max(s)}], found[Max(s)])]
<1>1. ASSUME NEW s \in SUBSET DOMAIN found PROVE g[s] = h[s]
  <2>1. CASE s = {}
    <3>1. FindingsAt(found, e, asOf, {}) = {}
      BY DEF FindingsAt
    <3> QED BY <2>1, <3>1, StrongestOfNone
  <2>2. CASE s # {}
    <3>1. Len(found) \in Nat /\ s \subseteq 0..Len(found)
      OBVIOUS
    <3>2. Max(s) \in s
      BY <2>2, <3>1, BoundedHasMax
    <3>3. s \ {Max(s)} \in SUBSET DOMAIN found
      OBVIOUS
    <3>4. g[s] = Judged(e, asOf, Strongest(FindingsAt(found, e, asOf, s \ {Max(s)})), found[Max(s)])
      BY <3>2, LoopBodyKeepsStrongest
    <3>5. g[s \ {Max(s)}] = Strongest(FindingsAt(found, e, asOf, s \ {Max(s)}))
      BY <3>3
    <3> QED BY <2>2, <3>4, <3>5
  <2> QED BY <2>1, <2>2
<1>2. g = h
  BY <1>1, Zenon
<1>3. FoldsLoop(g, found, e, asOf)
  BY <1>2, Zenon DEF FoldsLoop
<1> QED BY <1>3, Zenon

(* Any function of that kind is the maximum at 1..m: else there is a least *)
(* m where it is not, and the loop body leads there from the one before.   *)
LEMMA FoldIsMaximum ==
  ASSUME NEW T, NEW found \in Seq(T), NEW e, NEW asOf, NEW g, FoldsLoop(g, found, e, asOf),
         NEW n \in 0..Len(found)
  PROVE  g[1..n] = Strongest(FindingsAt(found, e, asOf, 1..n))
<1> DEFINE Bad == {m \in 0..Len(found) : g[1..m] # Strongest(FindingsAt(found, e, asOf, 1..m))}
<1>1. SUFFICES Bad = {}
  OBVIOUS
<1>2. SUFFICES ASSUME Bad # {} PROVE FALSE
  OBVIOUS
<1>3. PICK m \in Bad : \A k \in Bad : m <= k
  <2>1. Bad \subseteq Nat
    OBVIOUS
  <2> HIDE DEF Bad
  <2> QED BY <1>2, <2>1, LeastNatural
<1>4. m \in 0..Len(found) /\ Len(found) \in Nat /\ DOMAIN found = 1..Len(found)
  OBVIOUS
<1>5. ASSUME NEW s \in SUBSET DOMAIN found
      PROVE  g[s] = IF s = {} THEN Nothing
                    ELSE Judged(e, asOf, g[s \ {Max(s)}], found[Max(s)])
  BY Zenon DEF FoldsLoop
<1>6. (1..m) \in SUBSET DOMAIN found
  BY <1>4
<1>7. CASE m = 0
  <2>1. 1..m = {}
    BY <1>7
  <2>2. FindingsAt(found, e, asOf, {}) = {}
    BY DEF FindingsAt
  <2>3. g[1..m] = Nothing
    BY <1>5, <1>6, <2>1
  <2>4. Strongest(FindingsAt(found, e, asOf, 1..m)) = Nothing
    BY <2>1, <2>2, StrongestOfNone
  <2> QED BY <1>3, <2>3, <2>4
<1>8. CASE m # 0
  <2>1. m - 1 \in 0..Len(found) /\ m - 1 \notin Bad
    BY <1>3, <1>4, <1>8
  <2>2. g[1..(m - 1)] = Strongest(FindingsAt(found, e, asOf, 1..(m - 1)))
    BY <2>1
  <2>3. Max(1..m) = m
    <3>1. 1..m \subseteq Nat /\ m \in 1..m /\ \A i \in 1..m : i <= m
      BY <1>4, <1>8
    <3> QED BY <3>1, MaxIsGreatest
  <2>4. (1..m) \ {m} = 1..(m - 1) /\ m \in 1..m /\ 1..m # {}
    BY <1>4, <1>8
  <2>5. g[1..m] = Judged(e, asOf, g[1..(m - 1)], found[m])
    BY <1>5, <1>6, <2>3, <2>4
  <2>6. Strongest(FindingsAt(found, e, asOf, 1..m)) =
          Judged(e, asOf, Strongest(FindingsAt(found, e, asOf, 1..(m - 1))), found[m])
    BY <2>4, LoopBodyKeepsStrongest
  <2> QED BY <1>3, <2>2, <2>5, <2>6
<1> QED BY <1>7, <1>8

(* check_registered_by_capability decides by the strongest finding of any  *)
(* candidate, whatever the order and the number of the policies.           *)
THEOREM DecisionIsMaximum ==
  ASSUME NEW T, NEW found \in Seq(T), NEW e, NEW asOf
  PROVE  Decision(found, e, asOf) = Strongest(Findings(found, e, asOf))
<1> DEFINE g == CHOOSE f : FoldsLoop(f, found, e, asOf)
<1>1. FoldsLoop(g, found, e, asOf)
  BY MaximumFoldsLoop, Zenon
<1>2. Len(found) \in 0..Len(found) /\ DOMAIN found = 1..Len(found)
  OBVIOUS
<1>3. Decision(found, e, asOf) = g[DOMAIN found]
  BY DecisionUnfolds, Zenon
<1> HIDE DEF g
<1>4. g[DOMAIN found] = Strongest(FindingsAt(found, e, asOf, DOMAIN found))
  BY <1>1, <1>2, FoldIsMaximum
<1>5. FindingsAt(found, e, asOf, DOMAIN found) = Findings(found, e, asOf)
  BY DEF FindingsAt, Findings, Candidates, ToSet
<1> QED BY <1>3, <1>4, <1>5

(* A match is one of the candidates'.                                      *)
LEMMA MatchIsFound ==
  ASSUME NEW T, NEW found \in Seq(T), NEW e, NEW asOf,
         Decision(found, e, asOf) = "POLICY_MATCH"
  PROVE  \E i \in DOMAIN found :
           found[i].by = e.by /\ Finding(found[i].policy, e, asOf) = "POLICY_MATCH"
<1> DEFINE F == Findings(found, e, asOf)
<1>1. Strongest(F) = "POLICY_MATCH"
  BY DecisionIsMaximum
<1>2. Max(Ranks(F)) \in Ranks(F) /\ Ranks(F) \subseteq 1..7 /\ Strongest(F) = Precedence[Max(Ranks(F))]
  BY StrongestHasTopRank
<1>3. Max(Ranks(F)) = 7
  BY <1>1, <1>2, CodesAreRanked
<1>4. "POLICY_MATCH" \in F
  BY <1>2, <1>3, CodesAreRanked DEF Ranks
<1> QED BY <1>4 DEF Findings, Candidates, ToSet
-----------------------------------------------------------------------------
(* The invariant.                                                          *)

(* The registry's revisions are in the past, and the pin of a publish that *)
(* committed is behind the entry it made.                                  *)
PinsInThePast ==
  /\ \A n \in Names : registry[n].rev <= entrySeq
  /\ won \subseteq Names \X Nat
  /\ \A w \in won : Live(registry, w[1]) /\ w[2] < registry[w[1]].rev

(* What a call in the state d, noticed to be granted or not, has behind it.*)
CallKnows(d, noticed) ==
  /\ d.step \in {"load", "write"} /\ d.source = "bucket" =>
       \A k \in Ids : Grants(k, policies[k], d.entry, d.asOf) => noticed
  /\ d.step = "load" /\ d.source = "bucket" =>
       \A i \in DOMAIN d.found :
         d.found[i].by = d.entry.by /\ Finding(d.found[i].policy, d.entry, d.asOf) = "POLICY_MATCH"
           => noticed
  /\ d.step = "write" /\ d.source = "bucket" => noticed
  /\ d.step = "over" =>
       /\ d.code = "OK" => d.did # "nothing"
       /\ d.did = "stored" => d.code \in {"OK", "BACKEND_ERROR"}

CallsKnow == \A c \in Publishers : CallKnows(call[c], granted[c])

IInv == TypeOK /\ PinsInThePast /\ CallsKnow

State == {Idle, Waiting} \cup Call \cup Over

(* A step that changes one publisher's call, and no policy.                *)
LEMMA SlotPreserves ==
  ASSUME TypeOK, CallsKnow, NEW c \in Publishers, NEW d \in State, NEW g \in BOOLEAN,
         call' = [call EXCEPT ![c] = d], granted' = [granted EXCEPT ![c] = g],
         CallKnows(d, g), policies' = policies
  PROVE  /\ call' \in [Publishers -> State]
         /\ granted' \in [Publishers -> BOOLEAN]
         /\ CallsKnow'
<1>1. call \in [Publishers -> State] /\ granted \in [Publishers -> BOOLEAN]
  BY DEF TypeOK, State
<1>2. call' \in [Publishers -> State] /\ granted' \in [Publishers -> BOOLEAN]
  BY <1>1
<1>3. call'[c] = d /\ granted'[c] = g
      /\ \A b \in Publishers : b # c => call'[b] = call[b] /\ granted'[b] = granted[b]
  BY <1>1
<1>4. ASSUME NEW b \in Publishers PROVE CallKnows(call[b], granted[b])'
  <2>1. CallKnows(call'[b], granted'[b])
    <3>1. CASE b = c
      BY <1>3, <3>1
    <3>2. CASE b # c
      BY <1>3, <3>2 DEF CallsKnow
    <3> QED BY <3>1, <3>2
  <2> QED BY <2>1 DEF CallKnows, Grants
<1> QED BY <1>2, <1>4 DEF CallsKnow

LEMMA SlotAlonePreserves ==
  ASSUME IInv, NEW c \in Publishers, NEW d \in State, NEW g \in BOOLEAN,
         call' = [call EXCEPT ![c] = d], granted' = [granted EXCEPT ![c] = g],
         CallKnows(d, g), UNCHANGED <<policies, policyWrites, registry, entrySeq, won>>
  PROVE  IInv'
<1>1. TypeOK /\ CallsKnow /\ PinsInThePast
  BY DEF IInv
<1>2. /\ call' \in [Publishers -> State] /\ granted' \in [Publishers -> BOOLEAN]
      /\ CallsKnow'
  BY <1>1, SlotPreserves
<1>3. TypeOK'
  BY <1>1, <1>2 DEF TypeOK, State
<1>4. PinsInThePast'
  BY <1>1 DEF PinsInThePast, Live
<1> QED BY <1>2, <1>3, <1>4 DEF IInv

LEMMA KeepGranted ==
  ASSUME TypeOK, NEW c \in Publishers, UNCHANGED granted
  PROVE  granted[c] \in BOOLEAN /\ granted' = [granted EXCEPT ![c] = granted[c]]
  BY DEF TypeOK

LEMMA ActiveCall ==
  ASSUME TypeOK, NEW c \in Publishers, call[c].step \in {"load", "write"}
  PROVE  call[c] \in Call
  BY DEF TypeOK, Idle, Waiting, Over

LEMMA WaitingCall ==
  ASSUME TypeOK, NEW c \in Publishers, call[c].step = "answer"
  PROVE  call[c] = Waiting
  BY DEF TypeOK, Idle, Call, Over

(* An exit that contradicts neither the bucket nor the dry run.            *)
LEMMA ExitPreserves ==
  ASSUME IInv, NEW c \in Publishers, NEW code \in ExitCode, Exit(c, code),
         call[c].step \in {"load", "write", "answer"},
         call[c] = Waiting => code \in {"OK", "BACKEND_ERROR"},
         call[c] # Waiting /\ code = "OK" => call[c].dry,
         UNCHANGED <<policies, policyWrites, registry, entrySeq, won>>
  PROVE  IInv'
<1> DEFINE did == IF call[c] = Waiting THEN "stored"
                  ELSE IF call[c].dry /\ code = "OK" THEN "checked" ELSE "nothing"
           d == [step |-> "over", code |-> code, did |-> did]
<1>1. did \in {"nothing", "checked", "stored"}
  OBVIOUS
<1>2. d \in State
  BY <1>1 DEF State, Over
<1>3. CallKnows(d, FALSE)
  BY DEF CallKnows
<1>4. call' = [call EXCEPT ![c] = d] /\ granted' = [granted EXCEPT ![c] = FALSE]
  BY DEF Exit
<1> HIDE DEF d
<1> QED BY <1>2, <1>3, <1>4, SlotAlonePreserves

LEMMA InitEstablishes == Init => IInv
<1> SUFFICES ASSUME Init PROVE IInv
  OBVIOUS
<1>1. TypeOK
  BY Bounds DEF Init, TypeOK, NeverWritten, Entry
<1>2. PinsInThePast
  BY DEF Init, PinsInThePast, NeverWritten
<1>3. CallsKnow
  BY DEF Init, CallsKnow, CallKnows, Idle
<1> QED BY <1>1, <1>2, <1>3 DEF IInv

LEMMA ToIdlePreserves ==
  ASSUME IInv, NEW c \in Publishers, call' = [call EXCEPT ![c] = Idle],
         NEW g \in BOOLEAN, granted' = [granted EXCEPT ![c] = g],
         UNCHANGED <<policies, policyWrites, registry, entrySeq, won>>
  PROVE  IInv'
<1>1. Idle \in State /\ CallKnows(Idle, g)
  BY DEF State, CallKnows, Idle
<1> QED BY <1>1, SlotAlonePreserves

LEMMA RefusePreserves ==
  ASSUME IInv, NEW c \in Publishers, NEW code \in {"INPUT_ERROR", "VALIDATION_ERROR"},
         Refuse(c, code)
  PROVE  IInv'
<1> DEFINE d == [step |-> "over", code |-> code, did |-> "nothing"]
<1>1. d \in State /\ CallKnows(d, granted[c])
  BY DEF State, Over, ExitCode, CallKnows
<1>2. /\ call' = [call EXCEPT ![c] = d]
      /\ granted[c] \in BOOLEAN /\ granted' = [granted EXCEPT ![c] = granted[c]]
      /\ UNCHANGED <<policies, policyWrites, registry, entrySeq, won>>
  BY KeepGranted DEF Refuse, IInv
<1> HIDE DEF d
<1> QED BY <1>1, <1>2, SlotAlonePreserves

(* What a file holds is a list of policies.                                *)
LEMMA FilesAreReadable ==
  ASSUME NEW f \in PolicyFiles
  PROVE  FromFile(f) \in Seq(Readable)
<1>1. DOMAIN FromFile(f) = 1..Len(f) /\ Len(f) \in Nat
  BY FilesAreLists DEF FromFile
<1>2. ASSUME NEW i \in 1..Len(f) PROVE FromFile(f)[i] \in Readable
  <2>1. FromFile(f)[i] \in ToSet(FromFile(f))
    BY <1>1 DEF ToSet
  <2>2. ToSet(FromFile(f)) \in {ToSet(FromFile(file)) : file \in PolicyFiles}
    OBVIOUS
  <2> QED BY <2>1, <2>2 DEF Readable
<1>3. FromFile(f) = [i \in 1..Len(f) |-> FromFile(f)[i]]
  BY FilesAreLists DEF FromFile
<1>4. FromFile(f) \in [1..Len(f) -> Readable]
  BY <1>2, <1>3
<1> QED BY <1>1, <1>4

(* A command begins: a policy that is live by now and grants it is         *)
(* noticed, and nothing has been found yet in the bucket.                  *)
LEMMA BeginPreserves ==
  ASSUME IInv, NEW c \in Publishers, NEW e \in Entries, NEW gate \in Gates,
         NEW dry \in BOOLEAN, NEW r \in (0..entrySeq) \cup {None},
         NEW found \in Seq(Readable), NEW g \in BOOLEAN,
         granted' = [granted EXCEPT ![c] = g],
         Begin(c, e, gate, dry, r, found),
         gate.source = "bucket" =>
           /\ found = <<>>
           /\ \A k \in Ids : Grants(k, policies[k], e, gate.asOf) => g
  PROVE  IInv'
<1> DEFINE todo == {k \in Ids : gate.source = "bucket" /\ policies[k] # None}
           d == [step |-> "load", entry |-> e, asOf |-> gate.asOf, source |-> gate.source,
                 dry |-> dry, pin |-> r, found |-> found, todo |-> todo]
<1>1. gate.asOf \in AsOf /\ gate.source \in {"none", "file", "bucket"}
  BY DEF Gates, Flags
<1>2. r \in Nat \cup {None} /\ todo \in SUBSET Ids
  BY DEF IInv, TypeOK
<1>3. d \in Call
  BY <1>1, <1>2 DEF Call
<1>4. CallKnows(d, g)
  BY DEF CallKnows
<1>5. /\ call' = [call EXCEPT ![c] = d]
      /\ UNCHANGED <<policies, policyWrites, registry, entrySeq, won>>
  BY DEF Begin
<1>6. d \in State
  BY <1>3 DEF State
<1> HIDE DEF d
<1> QED BY <1>4, <1>5, <1>6, SlotAlonePreserves

LEMMA StartPreserves ==
  ASSUME IInv, NEW c \in Publishers, NEW e \in Entries, NEW gate \in Gates,
         NEW dry \in BOOLEAN, NEW r \in (0..entrySeq) \cup {None}, Start(c, e, gate, dry, r)
  PROVE  IInv'
<1>1. CASE gate.source # "file"
  <2> DEFINE g == gate.source = "bucket" /\ \E k \in Ids : Grants(k, policies[k], e, gate.asOf)
  <2>1. g \in BOOLEAN /\ <<>> \in Seq(Readable)
    OBVIOUS
  <2>2. Begin(c, e, gate, dry, r, <<>>) /\ granted' = [granted EXCEPT ![c] = g]
    BY <1>1 DEF Start
  <2>3. gate.source = "bucket" => \A k \in Ids : Grants(k, policies[k], e, gate.asOf) => g
    OBVIOUS
  <2> HIDE DEF g
  <2> QED BY <2>1, <2>2, <2>3, BeginPreserves
<1>2. CASE gate.source = "file"
  <2>1. PICK f \in PolicyFiles : Begin(c, e, gate, dry, r, FromFile(f))
    BY <1>2 DEF Start
  <2>2. FromFile(f) \in Seq(Readable)
    BY FilesAreReadable
  <2>3. granted[c] \in BOOLEAN /\ granted' = [granted EXCEPT ![c] = granted[c]]
    BY <1>2, KeepGranted DEF Start, IInv
  <2> QED BY <1>2, <2>1, <2>2, <2>3, BeginPreserves
<1> QED BY <1>1, <1>2

(* A policy the loop takes for a match grants the entry.                   *)
LEMMA MatchGrants ==
  ASSUME NEW k \in Ids, NEW p \in Policies, NEW e, NEW asOf \in AsOf,
         Issuer[k] = e.by, Finding(p, e, asOf) = "POLICY_MATCH"
  PROVE  Grants(k, p, e, asOf)
<1>1. /\ ~IsRevoked(p, asOf) /\ ~p.disabled /\ e.kid \in p.kids /\ e.name \in p.names
      /\ WindowContains(p, asOf)
  BY DEF Finding
<1>2. /\ p.disabled \in BOOLEAN
      /\ p.revoked \in Nat \cup {None} /\ p.from \in Nat \cup {None} /\ p.until \in Nat \cup {None}
      /\ asOf \in Nat \cup {None}
  BY PoliciesAreBundles, ClocksAreInstants
<1>3. p.revoked = None \/ (asOf # None /\ asOf < p.revoked)
  BY <1>1, <1>2 DEF IsRevoked
<1>4. \/ asOf = None
      \/ (p.from = None \/ p.from <= asOf) /\ (p.until = None \/ asOf < p.until)
  BY <1>1, <1>2 DEF WindowContains
<1> QED BY <1>1, <1>3, <1>4 DEF Grants

(* One get.  What is appended is in the bucket, so if the loop will take   *)
(* it for a match the publisher's grant has been noticed.                  *)
LEMMA LoadPreserves ==
  ASSUME IInv, NEW c \in Publishers, Load(c)
  PROVE  IInv'
<1> DEFINE k == Min(call[c].todo)
           todo == call[c].todo \ {k}
           found == IF policies[k] # None THEN Append(call[c].found, Held(k)) ELSE call[c].found
           d == [call[c] EXCEPT !.todo = todo, !.found = found]
<1>1. call[c] \in Call /\ call[c].step = "load" /\ call[c].todo # {}
  BY ActiveCall DEF Load, IInv
<1>2. k \in call[c].todo /\ k \in Ids
  <2>1. call[c].todo \subseteq Nat /\ call[c].todo \subseteq Ids
    BY <1>1, KeysAreOrdered DEF Call
  <2>2. k \in call[c].todo
    BY <1>1, <2>1, MinIsLeast
  <2> QED BY <2>1, <2>2
<1>3. UNCHANGED <<policies, policyWrites, registry, entrySeq, won>>
  BY DEF Load
<1> HIDE DEF k
<1>4. CASE policies[k] = Poison
  <2>1. Exit(c, "VALIDATION_ERROR")
    BY <1>4 DEF Load, k
  <2>2. call[c] # Waiting /\ "VALIDATION_ERROR" \in ExitCode
    BY <1>1 DEF Waiting, ExitCode
  <2> QED BY <1>1, <1>3, <2>1, <2>2, ExitPreserves
<1>5. CASE policies[k] # Poison
  <2>1. /\ call' = [call EXCEPT ![c].todo = @ \ {k},
                                ![c].found = IF policies[k] # None THEN Append(@, Held(k)) ELSE @]
        /\ UNCHANGED granted
    BY <1>5 DEF Load, k
  <2>2. call' = [call EXCEPT ![c] = d]
    BY <2>1, <1>1 DEF IInv, TypeOK
  <2>3. call[c].found \in Seq(Readable) /\ call[c].todo \in SUBSET Ids /\ call[c].asOf \in AsOf
    BY <1>1 DEF Call
  <2>4. policies[k] # None => policies[k] \in Policies /\ Held(k) \in Readable
    <3>1. policies[k] # None => policies[k] \in Policies
      BY <1>2, <1>5 DEF IInv, TypeOK
    <3> QED BY <1>2, <3>1 DEF Held, Readable
  <2>5. found \in Seq(Readable) /\ todo \in SUBSET Ids
    BY <2>3, <2>4
  <2> HIDE DEF found, todo
  <2>6. /\ d \in Call /\ d.step = "load" /\ d.found = found /\ d.source = call[c].source
        /\ d.entry = call[c].entry /\ d.asOf = call[c].asOf
    BY <1>1, <2>5 DEF Call
  <2>7. CallKnows(call[c], granted[c])
    BY DEF IInv, CallsKnow
  <2>8. ASSUME d.source = "bucket", NEW i \in DOMAIN found, found[i].by = d.entry.by,
               Finding(found[i].policy, d.entry, d.asOf) = "POLICY_MATCH"
        PROVE  granted[c]
    <3>1. CASE i \in DOMAIN call[c].found /\ found[i] = call[c].found[i]
      BY <1>1, <2>6, <2>7, <2>8, <3>1 DEF CallKnows
    <3>2. CASE policies[k] # None /\ found[i] = Held(k)
      <4>1. Issuer[k] = d.entry.by /\ Finding(policies[k], d.entry, d.asOf) = "POLICY_MATCH"
        BY <2>8, <3>2 DEF Held
      <4>2. Grants(k, policies[k], d.entry, d.asOf)
        BY <1>2, <2>3, <2>4, <2>6, <3>2, <4>1, MatchGrants
      <4> QED BY <1>1, <1>2, <2>6, <2>7, <2>8, <4>2 DEF CallKnows
    <3>3. \/ i \in DOMAIN call[c].found /\ found[i] = call[c].found[i]
          \/ policies[k] # None /\ found[i] = Held(k)
      BY <2>3, <2>8 DEF found
    <3> QED BY <3>1, <3>2, <3>3
  <2>9. ASSUME d.source = "bucket", NEW x \in Ids, Grants(x, policies[x], d.entry, d.asOf)
        PROVE  granted[c]
    BY <1>1, <2>6, <2>7, <2>9 DEF CallKnows
  <2>10. CallKnows(d, granted[c])
    BY <2>6, <2>8, <2>9 DEF CallKnows
  <2>11. granted[c] \in BOOLEAN /\ granted' = [granted EXCEPT ![c] = granted[c]]
    BY <2>1, KeepGranted DEF IInv
  <2>12. d \in State
    BY <2>6 DEF State
  <2> HIDE DEF d
  <2> QED BY <1>3, <2>2, <2>10, <2>11, <2>12, SlotAlonePreserves
<1> QED BY <1>4, <1>5

(* The gate: a match was found in the bucket, so the grant was noticed.    *)
LEMMA DecidePreserves ==
  ASSUME IInv, NEW c \in Publishers, Decide(c)
  PROVE  IInv'
<1>1. call[c] \in Call /\ call[c].step = "load" /\ call[c] # Waiting
  BY ActiveCall DEF Decide, IInv, Waiting
<1>2. UNCHANGED <<policies, policyWrites, registry, entrySeq, won>>
  BY DEF Decide
<1>3. CASE Exit(c, "CAPABILITY_DENY")
  BY <1>1, <1>2, <1>3, ExitPreserves DEF ExitCode
<1>4. CASE call[c].dry /\ Exit(c, "OK")
  BY <1>1, <1>2, <1>4, ExitPreserves DEF ExitCode
<1>5. CASE /\ ~(call[c].source # "none"
                /\ Decision(call[c].found, call[c].entry, call[c].asOf) # "POLICY_MATCH")
           /\ call' = [call EXCEPT ![c].step = "write", ![c].found = <<>>]
           /\ UNCHANGED granted
  <2> DEFINE d == [call[c] EXCEPT !.step = "write", !.found = <<>>]
  <2>1. call' = [call EXCEPT ![c] = d]
    BY <1>1, <1>5 DEF IInv, TypeOK
  <2>2. /\ d \in Call /\ d.step = "write" /\ d.source = call[c].source
        /\ d.entry = call[c].entry /\ d.asOf = call[c].asOf
    <3>1. <<>> \in Seq(Readable)
      OBVIOUS
    <3> QED BY <1>1, <3>1 DEF Call
  <2>3. CallKnows(call[c], granted[c]) /\ call[c].found \in Seq(Readable)
    BY <1>1 DEF IInv, CallsKnow, Call
  <2>4. ASSUME d.source = "bucket" PROVE granted[c]
    <3>1. Decision(call[c].found, call[c].entry, call[c].asOf) = "POLICY_MATCH"
      BY <1>5, <2>2, <2>4
    <3>2. PICK i \in DOMAIN call[c].found :
            /\ call[c].found[i].by = call[c].entry.by
            /\ Finding(call[c].found[i].policy, call[c].entry, call[c].asOf) = "POLICY_MATCH"
      BY <2>3, <3>1, MatchIsFound
    <3> QED BY <1>1, <2>2, <2>3, <2>4, <3>2 DEF CallKnows
  <2>5. CallKnows(d, granted[c])
    BY <2>2, <2>4 DEF CallKnows
  <2>6. granted[c] \in BOOLEAN /\ granted' = [granted EXCEPT ![c] = granted[c]]
    BY <1>5, KeepGranted DEF IInv
  <2>7. d \in State
    BY <2>2 DEF State
  <2> HIDE DEF d
  <2> QED BY <1>2, <2>1, <2>5, <2>6, <2>7, SlotAlonePreserves
<1> QED BY <1>3, <1>4, <1>5 DEF Decide

(* A write takes the next revision, past every pin that ever won.          *)
LEMMA WritePreserves ==
  ASSUME IInv, NEW c \in Publishers, Write(c)
  PROVE  IInv'
<1> DEFINE e == call[c].entry
           r == call[c].pin
<1>1. call[c] \in Call /\ call[c].step = "write"
  BY ActiveCall DEF Write, IInv
<1>2. e \in Entries /\ e.name \in Names /\ r \in Nat \cup {None} /\ e # None
  BY <1>1, EntriesAreSigned DEF Call, Names
<1>3. TypeOK /\ CallsKnow /\ PinsInThePast
  BY DEF IInv
<1>4. /\ entrySeq' = entrySeq + 1 /\ entrySeq \in Nat /\ entrySeq' \in 0..MaxEntryWrites
      /\ registry' = [registry EXCEPT ![e.name] = [val |-> e, rev |-> entrySeq + 1]]
  BY <1>3, Bounds DEF Write, Store, Stored, TypeOK
<1>5. registry \in [Names -> Entry(Entries)]
  BY <1>3 DEF TypeOK
<1>6. /\ registry'[e.name] = [val |-> e, rev |-> entrySeq + 1]
      /\ \A n \in Names : n # e.name => registry'[n] = registry[n]
      /\ \A n \in Names : registry[n].rev \in Nat
      /\ registry' \in [Names -> Entry(Entries)]
  BY <1>2, <1>4, <1>5 DEF Entry
<1>7. /\ policies' = policies /\ policyWrites' = policyWrites
      /\ call' = [call EXCEPT ![c] = Waiting]
      /\ granted[c] \in BOOLEAN /\ granted' = [granted EXCEPT ![c] = granted[c]]
  BY <1>3, KeepGranted DEF Write, Answering
<1>8. Waiting \in State /\ CallKnows(Waiting, granted[c])
  BY DEF State, CallKnows, Waiting
<1>9. /\ call' \in [Publishers -> State] /\ granted' \in [Publishers -> BOOLEAN]
      /\ CallsKnow'
  BY <1>3, <1>7, <1>8, SlotPreserves
<1>10. won' = IF r = None THEN won ELSE won \cup {<<e.name, r>>}
  BY DEF Write
<1>11. r # None => r \in Nat /\ r <= entrySeq
  <2>1. r # None => LiveRevision(registry, e.name) = r
    BY DEF Write
  <2>2. LiveRevision(registry, e.name) <= entrySeq
    BY <1>2, <1>3, <1>4 DEF LiveRevision, PinsInThePast
  <2> QED BY <1>2, <2>1, <2>2
<1>12. won' \subseteq Names \X Nat
  BY <1>2, <1>3, <1>10, <1>11 DEF PinsInThePast
<1>13. PinsInThePast'
  <2>1. ASSUME NEW n \in Names PROVE registry'[n].rev <= entrySeq'
    <3>1. registry[n].rev <= entrySeq /\ registry[n].rev \in Nat
      BY <1>3, <1>6 DEF PinsInThePast
    <3> QED BY <1>4, <1>6, <3>1
  <2>2. ASSUME NEW w \in won' PROVE registry'[w[1]].val # None /\ w[2] < registry'[w[1]].rev
    <3>1. w[1] \in Names /\ w[2] \in Nat
      BY <1>12
    <3>2. CASE w \in won
      <4>1. registry[w[1]].val # None /\ w[2] < registry[w[1]].rev
        BY <1>3, <3>2 DEF PinsInThePast, Live
      <4>2. registry[w[1]].rev <= entrySeq /\ registry[w[1]].rev \in Nat
        BY <1>3, <1>6, <3>1 DEF PinsInThePast
      <4>3. CASE w[1] = e.name
        BY <1>2, <1>4, <1>6, <3>1, <4>1, <4>2, <4>3
      <4>4. CASE w[1] # e.name
        BY <1>6, <3>1, <4>1, <4>4
      <4> QED BY <4>3, <4>4
    <3>3. CASE r # None /\ w = <<e.name, r>>
      BY <1>2, <1>4, <1>6, <1>11, <3>3
    <3> QED BY <1>10, <3>2, <3>3
  <2> QED BY <1>12, <2>1, <2>2 DEF PinsInThePast, Live
<1>14. won' \subseteq Names \X (Nat \cup {None})
  BY <1>12
<1>15. TypeOK'
  BY <1>3, <1>4, <1>6, <1>7, <1>9, <1>14 DEF TypeOK, State
<1> QED BY <1>9, <1>13, <1>15 DEF IInv

(* Operators edit the policies; a grant among them is noticed at once by   *)
(* every call it concerns.                                                 *)
LEMMA PolicyChangePreserves ==
  ASSUME IInv, NEW k \in Ids, NEW v \in Policies \cup {Poison, None}, PolicyChange(k, v)
  PROVE  IInv'
<1>1. TypeOK /\ CallsKnow /\ PinsInThePast
  BY DEF IInv
<1>2. /\ policyWrites' = policyWrites + 1 /\ policyWrites' \in 0..MaxPolicyWrites
      /\ policies' = [policies EXCEPT ![k] = v]
      /\ UNCHANGED <<registry, entrySeq, call, won>>
  BY <1>1, Bounds DEF PolicyChange, TypeOK
<1>3. /\ policies' \in [Ids -> Policies \cup {Poison, None}]
      /\ policies'[k] = v /\ \A x \in Ids : x # k => policies'[x] = policies[x]
  BY <1>1, <1>2 DEF TypeOK
<1>4. granted' = [c \in Publishers |->
                   granted[c] \/ (call[c].step \in {"load", "write"} /\ call[c].source = "bucket"
                                   /\ Grants(k, v, call[c].entry, call[c].asOf))]
  BY DEF PolicyChange
<1>5. granted' \in [Publishers -> BOOLEAN]
  BY <1>4, <1>1 DEF TypeOK
<1>6. TypeOK'
  BY <1>1, <1>2, <1>3, <1>5 DEF TypeOK
<1>7. PinsInThePast'
  BY <1>1, <1>2 DEF PinsInThePast, Live
<1>8. ASSUME NEW c \in Publishers PROVE CallKnows(call[c], granted[c])'
  <2>1. CallKnows(call[c], granted[c])
    BY <1>1 DEF CallsKnow
  <2>2. granted'[c] = (granted[c] \/ (/\ call[c].step \in {"load", "write"}
                                      /\ call[c].source = "bucket"
                                      /\ Grants(k, v, call[c].entry, call[c].asOf)))
    BY <1>4
  <2>3. granted[c] => granted'[c]
    BY <2>2
  <2>4. ASSUME call[c].step \in {"load", "write"}, call[c].source = "bucket", NEW x \in Ids,
               Grants(x, policies'[x], call[c].entry, call[c].asOf)
        PROVE  granted'[c]
    <3>1. CASE x = k
      BY <1>3, <2>2, <2>4, <3>1
    <3>2. CASE x # k
      BY <1>3, <2>1, <2>3, <2>4, <3>2 DEF CallKnows
    <3> QED BY <3>1, <3>2
  <2> QED BY <1>2, <2>1, <2>3, <2>4 DEF CallKnows
<1>9. CallsKnow'
  BY <1>8 DEF CallsKnow
<1> QED BY <1>6, <1>7, <1>9 DEF IInv

LEMMA StepPreserves == IInv /\ [Next]_vars => IInv'
<1> SUFFICES ASSUME IInv, [Next]_vars PROVE IInv'
  OBVIOUS
<1>1. ASSUME NEW c \in Publishers, NEW code \in {"INPUT_ERROR", "VALIDATION_ERROR"},
             Refuse(c, code)
      PROVE  IInv'
  BY <1>1, RefusePreserves
<1>2. ASSUME NEW c \in Publishers, NEW e \in Entries, NEW g \in Gates, NEW dry \in BOOLEAN,
             NEW r \in (0..entrySeq) \cup {None}, Start(c, e, g, dry, r)
      PROVE  IInv'
  BY <1>2, StartPreserves
<1>3. ASSUME NEW c \in Publishers, Load(c) PROVE IInv'
  BY <1>3, LoadPreserves
<1>4. ASSUME NEW c \in Publishers, Decide(c) PROVE IInv'
  BY <1>4, DecidePreserves
<1>5. ASSUME NEW c \in Publishers, Write(c) PROVE IInv'
  BY <1>5, WritePreserves
<1>6. ASSUME NEW c \in Publishers, Conflict(c) PROVE IInv'
  <2>1. call[c] # Waiting
    BY <1>6 DEF Conflict, Waiting
  <2> QED BY <1>6, <2>1, ExitPreserves DEF Conflict, ExitCode
<1>7. ASSUME NEW c \in Publishers, Acknowledged(c) PROVE IInv'
  <2>1. call[c] = Waiting
    BY <1>7, WaitingCall DEF Acknowledged, IInv
  <2> QED BY <1>7, <2>1, ExitPreserves DEF Acknowledged, ExitCode
<1>8. ASSUME NEW c \in Publishers, WriteFails(c) PROVE IInv'
  BY <1>8, ExitPreserves DEF WriteFails, ExitCode
<1>9. ASSUME NEW c \in Publishers, TransportFails(c) PROVE IInv'
  <2>1. call[c].step \in {"load", "write"} /\ call[c] # Waiting
    BY <1>9 DEF TransportFails, Waiting
  <2> QED BY <1>9, <2>1, ExitPreserves DEF TransportFails, ExitCode
<1>10. ASSUME NEW c \in Publishers, Killed(c) PROVE IInv'
  BY <1>10, ToIdlePreserves DEF Killed
<1>11. ASSUME NEW c \in Publishers, Leave(c) PROVE IInv'
  <2>1. granted[c] \in BOOLEAN /\ granted' = [granted EXCEPT ![c] = granted[c]]
    BY <1>11, KeepGranted DEF Leave, IInv
  <2> QED BY <1>11, <2>1, ToIdlePreserves DEF Leave
<1>12. ASSUME NEW k \in Ids, NEW v \in Policies \cup {Poison, None}, PolicyChange(k, v)
       PROVE  IInv'
  BY <1>12, PolicyChangePreserves
<1>13. CASE UNCHANGED vars
  BY <1>13 DEF vars, IInv, TypeOK, PinsInThePast, Live, CallsKnow, CallKnows, Grants
<1> QED BY <1>1, <1>2, <1>3, <1>4, <1>5, <1>6, <1>7, <1>8, <1>9, <1>10, <1>11, <1>12, <1>13
        DEF Next, PublisherStep
-----------------------------------------------------------------------------
(* IInv holds in every reachable state.                                    *)
THEOREM Inductive == Spec => []IInv
<1>1. Init => IInv
  BY InitEstablishes
<1>2. IInv /\ [Next]_vars => IInv'
  BY StepPreserves
<1> QED BY <1>1, <1>2, PTL DEF Spec

(* Both buckets and every publisher's call stay well typed.                *)
THEOREM TypeCorrect == Spec => []TypeOK
<1>1. IInv => TypeOK
  BY DEF IInv
<1> QED BY <1>1, Inductive, PTL

(* The gate's decision in every state of every command: the strongest      *)
(* finding of the candidates loaded so far.                                *)
THEOREM DecisionCorrect == Spec => []DecisionIsStrongest
<1>1. IInv => DecisionIsStrongest
  <2> SUFFICES ASSUME IInv, NEW c \in Publishers, call[c].step = "load"
               PROVE  Decision(call[c].found, call[c].entry, call[c].asOf)
                        = Strongest(Findings(call[c].found, call[c].entry, call[c].asOf))
    BY DEF DecisionIsStrongest
  <2>1. call[c].found \in Seq(Readable)
    BY ActiveCall DEF IInv, Call
  <2> QED BY <2>1, DecisionIsMaximum
<1> QED BY <1>1, Inductive, PTL

(* The exit code of publish and dry-run tells what the command did.        *)
THEOREM ExitCodeIsTrue == Spec => []ExitTellsTheBucket
<1>1. IInv => ExitTellsTheBucket
  BY DEF IInv, CallsKnow, CallKnows, ExitTellsTheBucket
<1> QED BY <1>1, Inductive, PTL

(* A publish gated by the bucket writes only if a policy that was in the   *)
(* bucket during the command grants it, whatever operators do between the  *)
(* list, the gets and the write.                                           *)
THEOREM GateIsHonoured == Spec => GatedWriteWasGranted
<1>1. IInv => \A c \in Publishers : Write(c) /\ call[c].source = "bucket" => granted[c]
  BY DEF IInv, CallsKnow, CallKnows, Write
<1> QED BY <1>1, Inductive, PTL DEF GatedWriteWasGranted

(* Of the publishes pinned to one revision of a name at most one commits,  *)
(* for any number of publishers and of plain puts in between.              *)
THEOREM PinsAreUsedOnce == Spec => OnePinOneWinner
<1>1. IInv => \A c \in Publishers : Write(c) /\ call[c].pin # None =>
                <<call[c].entry.name, call[c].pin>> \notin won
  <2> SUFFICES ASSUME IInv, NEW c \in Publishers, Write(c), call[c].pin # None,
                      <<call[c].entry.name, call[c].pin>> \in won
               PROVE  FALSE
    OBVIOUS
  <2> DEFINE n == call[c].entry.name
  <2>1. call[c].entry \in Entries /\ n \in Names
    BY ActiveCall DEF Write, IInv, Call, Names
  <2>2. LiveRevision(registry, n) = call[c].pin
    BY DEF Write
  <2>3. Live(registry, n) /\ call[c].pin < registry[n].rev /\ call[c].pin \in Nat
    BY DEF IInv, PinsInThePast
  <2>4. registry[n].rev \in Nat
    BY <2>1 DEF IInv, TypeOK, Entry
  <2> QED BY <2>2, <2>3, <2>4 DEF LiveRevision
<1> QED BY <1>1, Inductive, PTL DEF OnePinOneWinner
=============================================================================

----------------------------- MODULE PublishGate -----------------------------
(***************************************************************************)
(* The publisher CLI's publish and dry-run commands: check the flags, load *)
(* the capability policies when gated, from a local file or from the       *)
(* bucket (one list, then one get per key), decide with                    *)
(* check_registered_by_capability whether the entry's issuer and key may   *)
(* register it, then connect to the schema registry, write, and exit with  *)
(* a code.  The policies' operators and other publishers, gated or not,    *)
(* run between any two of those steps, and an answer can be lost.          *)
(***************************************************************************)
EXTENDS KvBucket, SequencesExt

CONSTANTS
  Publishers,
  Ids,            \* keys of the capability-policy bucket
  Issuer,         \* [Ids -> the registered_by part of the key]
  Policies,       \* the policies that are ever stored
  PolicyFiles,    \* contents of a --capability-registry file
  Poison,         \* bytes that do not decode
  Entries,        \* schema-registry entries to publish
  AsOf,           \* values of --gate-as-of, None if it is left out
  MaxPolicyWrites, MaxEntryWrites     \* bounds on the two buckets

ASSUME KeysAreOrdered == Ids \subseteq Nat        \* snapshot sorts them

ASSUME Bounds == MaxPolicyWrites \in Nat /\ MaxEntryWrites \in Nat

(* A schema triple is its name here: one layer, one version.               *)
ASSUME EntriesAreSigned ==
  /\ None \notin Entries
  /\ \A e \in Entries : {"by", "kid", "name"} \subseteq DOMAIN e

ASSUME PoliciesAreBundles ==
  \A p \in Policies : p.disabled \in BOOLEAN
    /\ {p.revoked, p.from, p.until} \subseteq Nat \cup {None}

ASSUME FilesAreLists == \A f \in PolicyFiles : Len(f) \in Nat /\ DOMAIN f = 1..Len(f)

ASSUME ClocksAreInstants == AsOf \subseteq Nat \cup {None}

VARIABLES
  policies,               \* what each key of the capability-policy bucket holds
  policyWrites,           \* how often it was written (bound)
  registry, entrySeq,     \* the schema-registry bucket
  call,                   \* what each publisher is in the middle of
  granted,                \* has a policy live since its start granted it? (history)
  won                     \* CAS publishes that committed: name and pin (history)

vars == <<policies, policyWrites, registry, entrySeq, call, granted, won>>

Names == {e.name : e \in Entries}

(* _policy_from_dict: a file knows no revoked_at.                          *)
FromFile(file) == [i \in DOMAIN file |-> [file[i] EXCEPT !.policy.revoked = None]]

Held(k) == [by |-> Issuer[k], policy |-> policies[k]]

(* What a load can find.                                                   *)
Readable == [by : {Issuer[k] : k \in Ids}, policy : Policies]
              \cup UNION {ToSet(FromFile(file)) : file \in PolicyFiles}

Idle    == [step |-> "idle"]
Waiting == [step |-> "answer"]                         \* written, not yet told so
Call == [step   : {"load", "write"},
         entry  : Entries,
         asOf   : AsOf,
         source : {"none", "file", "bucket"},
         dry    : BOOLEAN,
         pin    : Nat \cup {None},                     \* --expected-revision
         todo   : SUBSET Ids,
         found  : Seq(Readable)]

ExitCode == {"OK", "INPUT_ERROR", "VALIDATION_ERROR", "CAS_CONFLICT", "BACKEND_ERROR",
             "CAPABILITY_DENY", "traceback"}
Over == [step : {"over"}, code : ExitCode, did : {"nothing", "checked", "stored"}]

(* The flags of a command; argparse excludes two sources of policies.      *)
Flags == {f \in [sign : BOOLEAN, kid : BOOLEAN, key : BOOLEAN, gate : BOOLEAN,
                 file : BOOLEAN, bucket : BOOLEAN, asOf : AsOf] : ~(f.file /\ f.bucket)}

(* _validate_capability_flag_consistency *)
FlagsConsistent(f) ==
  /\ IF f.sign THEN f.kid /\ f.key ELSE ~f.kid /\ ~f.key
  /\ IF f.gate THEN f.sign /\ (f.file \/ f.bucket)
               ELSE ~f.file /\ ~f.bucket /\ f.asOf = None

(* What is left of the flags that pass.                                    *)
Gates ==
  {[source |-> IF f.file THEN "file" ELSE IF f.bucket THEN "bucket" ELSE "none",
    asOf |-> f.asOf] : f \in {g \in Flags : FlagsConsistent(g)}}

(* Authority as the policy's fields state it: not revoked, not disabled,   *)
(* for this issuer, this key, this triple and this time.                   *)
Grants(k, p, e, asOf) ==
  /\ p \in Policies
  /\ Issuer[k] = e.by
  /\ p.revoked = None \/ (asOf # None /\ asOf < p.revoked)
  /\ ~p.disabled
  /\ e.kid \in p.kids
  /\ e.name \in p.names
  /\ \/ asOf = None
     \/ (p.from = None \/ p.from <= asOf) /\ (p.until = None \/ asOf < p.until)

Init ==
  /\ policies = [k \in Ids |-> None] /\ policyWrites = 0
  /\ registry = [n \in Names |-> NeverWritten] /\ entrySeq = 0
  /\ call = [c \in Publishers |-> Idle]
  /\ granted = [c \in Publishers |-> FALSE]
  /\ won = {}
-----------------------------------------------------------------------------
(* Faulty variant: without a clock a revocation is skipped like a window.  *)
IsRevokedByClockOnly(p, asOf) ==
  p.revoked # None /\ asOf # None /\ asOf >= p.revoked

(* _is_revoked: without a clock a revocation holds at once.                *)
IsRevoked(p, asOf) ==
  /\ p.revoked # None
  /\ asOf # None => asOf >= p.revoked

(* _window_contains: without a clock the window is skipped.                *)
WindowContains(p, asOf) ==
  asOf # None =>
    /\ p.from # None => asOf >= p.from
    /\ p.until # None => asOf < p.until

(* What the loop body finds of one candidate, its tests in their order.    *)
Finding(p, e, asOf) ==
  IF IsRevoked(p, asOf) THEN "POLICY_REVOKED"
  ELSE IF p.disabled THEN "POLICY_DISABLED"
  ELSE IF e.kid \notin p.kids THEN "KID_NOT_ALLOWED"
  ELSE IF e.name \notin p.names THEN "TRIPLE_NOT_ALLOWED"
  ELSE IF ~WindowContains(p, asOf) THEN "OUTSIDE_VALIDITY_WINDOW"
  ELSE "POLICY_MATCH"

Nothing == "NO_POLICY_FOR_ISSUER"

(* Faulty variant: a triple mismatch does not replace a kid mismatch.      *)
ReplacesFirstComeFirst(v) ==
  CASE v = "POLICY_DISABLED"         -> {Nothing}
    [] v = "KID_NOT_ALLOWED"         -> {Nothing, "POLICY_DISABLED"}
    [] v = "TRIPLE_NOT_ALLOWED"      -> {Nothing, "POLICY_DISABLED"}
    [] v = "OUTSIDE_VALIDITY_WINDOW" -> {Nothing, "POLICY_DISABLED", "KID_NOT_ALLOWED",
                                         "TRIPLE_NOT_ALLOWED"}
    [] OTHER -> {Nothing, "POLICY_DISABLED", "KID_NOT_ALLOWED", "TRIPLE_NOT_ALLOWED",
                 "OUTSIDE_VALIDITY_WINDOW", "POLICY_REVOKED"} \ {v}

(* The fallbacks a finding takes the place of.                             *)
Replaces(v) ==
  CASE v = "POLICY_DISABLED"         -> {Nothing}
    [] v = "KID_NOT_ALLOWED"         -> {Nothing, "POLICY_DISABLED"}
    [] v = "TRIPLE_NOT_ALLOWED"      -> {Nothing, "POLICY_DISABLED", "KID_NOT_ALLOWED"}
    [] v = "OUTSIDE_VALIDITY_WINDOW" -> {Nothing, "POLICY_DISABLED", "KID_NOT_ALLOWED",
                                         "TRIPLE_NOT_ALLOWED"}
    [] OTHER -> {Nothing, "POLICY_DISABLED", "KID_NOT_ALLOWED", "TRIPLE_NOT_ALLOWED",
                 "OUTSIDE_VALIDITY_WINDOW", "POLICY_REVOKED"} \ {v}

(* policies_for: the policies of the entry's issuer.                       *)
Candidates(found, e) == {h \in ToSet(found) : h.by = e.by}

(* The loop body, which sees candidates only.                              *)
Judged(e, asOf, fallback, h) ==
  LET v == Finding(h.policy, e, asOf) IN
  IF h.by = e.by /\ fallback \in Replaces(v) THEN v ELSE fallback

(* check_registered_by_capability: the loop stops at the first match.      *)
Decision(found, e, asOf) ==
  FoldLeft(LAMBDA fallback, h : Judged(e, asOf, fallback, h), Nothing, found)
-----------------------------------------------------------------------------
Exit(c, code) ==
  /\ call' = [call EXCEPT ![c] =
                [step |-> "over", code |-> code,
                 did |-> IF call[c] = Waiting THEN "stored"
                         ELSE IF call[c].dry /\ code = "OK" THEN "checked"
                         ELSE "nothing"]]
  /\ granted' = [granted EXCEPT ![c] = FALSE]

(* Flags that contradict each other, files that cannot be read, a body or  *)
(* a key of the wrong shape: nothing has been opened yet.                  *)
Refuse(c, code) ==
  /\ call[c] = Idle
  /\ call' = [call EXCEPT ![c] = [step |-> "over", code |-> code, did |-> "nothing"]]
  /\ UNCHANGED <<policies, policyWrites, registry, entrySeq, granted, won>>

Begin(c, e, gate, dry, pin, found) ==
  /\ call[c] = Idle
  /\ dry => pin = None
  /\ call' = [call EXCEPT ![c] =
                [step |-> "load", entry |-> e, asOf |-> gate.asOf, source |-> gate.source,
                 dry |-> dry, pin |-> pin, found |-> found,
                 todo |-> {k \in Ids : gate.source = "bucket" /\ policies[k] # None}]]
  /\ UNCHANGED <<policies, policyWrites, registry, entrySeq, won>>

(* Not gated, gated by a file, or by the bucket; --expected-revision is    *)
(* any revision the operator may have seen, --create-only is 0.            *)
Start(c, e, gate, dry, pin) ==
  \/ /\ gate.source # "file"
     /\ Begin(c, e, gate, dry, pin, <<>>)
     /\ granted' = [granted EXCEPT ![c] =
                      gate.source = "bucket" /\ \E k \in Ids : Grants(k, policies[k], e, gate.asOf)]
  \/ /\ gate.source = "file"
     /\ \E f \in PolicyFiles : Begin(c, e, gate, dry, pin, FromFile(f))
     /\ UNCHANGED granted

(* The shell gets the code.                                                *)
Leave(c) ==
  /\ call[c].step = "over"
  /\ call' = [call EXCEPT ![c] = Idle]
  /\ UNCHANGED <<policies, policyWrites, registry, entrySeq, granted, won>>

(* One get of snapshot_registry, in key order: a key deleted since the     *)
(* listing is skipped, a poisoned one ends the command.                    *)
Load(c) ==
  LET k == Min(call[c].todo) IN
  /\ call[c].step = "load" /\ call[c].todo # {}
  /\ IF policies[k] = Poison
     THEN Exit(c, "VALIDATION_ERROR")
     ELSE /\ call' = [call EXCEPT ![c].todo = @ \ {k},
                        ![c].found = IF policies[k] # None THEN Append(@, Held(k)) ELSE @]
          /\ UNCHANGED granted
  /\ UNCHANGED <<policies, policyWrites, registry, entrySeq, won>>

(* The gate.  A deny, and every dry run, ends before the registry is       *)
(* connected to.                                                           *)
Decide(c) ==
  LET d == call[c] IN
  /\ d.step = "load" /\ d.todo = {}
  /\ IF d.source # "none" /\ Decision(d.found, d.entry, d.asOf) # "POLICY_MATCH"
     THEN Exit(c, "CAPABILITY_DENY")
     ELSE IF d.dry THEN Exit(c, "OK")
     ELSE call' = [call EXCEPT ![c].step = "write", ![c].found = <<>>] /\ UNCHANGED granted
  /\ UNCHANGED <<policies, policyWrites, registry, entrySeq, won>>

Store(e) ==
  /\ entrySeq < MaxEntryWrites
  /\ entrySeq' = entrySeq + 1
  /\ registry' = Stored(registry, e.name, e, entrySeq')

Answering(c) == call' = [call EXCEPT ![c] = Waiting] /\ UNCHANGED granted

(* Faulty variant: the pin is not compared.                                *)
WriteUnpinned(c) ==
  /\ call[c].step = "write"
  /\ Store(call[c].entry)
  /\ won' = won \cup {<<call[c].entry.name, call[c].pin>>}
  /\ Answering(c)
  /\ UNCHANGED <<policies, policyWrites>>

(* put, or put_with_revision with its compare-and-set, at the broker.      *)
Write(c) ==
  LET e == call[c].entry
      r == call[c].pin
  IN
  /\ call[c].step = "write"
  /\ r # None => LiveRevision(registry, e.name) = r
  /\ Store(e)
  /\ won' = IF r = None THEN won ELSE won \cup {<<e.name, r>>}
  /\ Answering(c)
  /\ UNCHANGED <<policies, policyWrites>>

Conflict(c) ==
  /\ call[c].step = "write"
  /\ call[c].pin # None
  /\ LiveRevision(registry, call[c].entry.name) # call[c].pin
  /\ Exit(c, "CAS_CONFLICT")
  /\ UNCHANGED <<policies, policyWrites, registry, entrySeq, won>>

Acknowledged(c) ==
  /\ call[c].step = "answer"
  /\ Exit(c, "OK")
  /\ UNCHANGED <<policies, policyWrites, registry, entrySeq, won>>

(* Faulty variant: no answer is taken for a conflict.                      *)
WriteFailsAsConflict(c) ==
  /\ call[c].step \in {"write", "answer"}
  /\ Exit(c, "CAS_CONFLICT")
  /\ UNCHANGED <<policies, policyWrites, registry, entrySeq, won>>

(* The write fails at the broker or on the way, or its answer is lost:     *)
(* the CLI cannot tell.                                                    *)
WriteFails(c) ==
  /\ call[c].step \in {"write", "answer"}
  /\ Exit(c, "BACKEND_ERROR")
  /\ UNCHANGED <<policies, policyWrites, registry, entrySeq, won>>

(* Neither connect, to the policies' bucket or to the registry, nor a read *)
(* of a policy is in a handler for the transport's exceptions.             *)
TransportFails(c) ==
  /\ \/ call[c].step = "load" /\ call[c].source = "bucket"
     \/ call[c].step = "write"
  /\ Exit(c, "traceback")
  /\ UNCHANGED <<policies, policyWrites, registry, entrySeq, won>>

(* The process dies.                                                       *)
Killed(c) ==
  /\ call[c].step \notin {"idle", "over"}
  /\ call' = [call EXCEPT ![c] = Idle]
  /\ granted' = [granted EXCEPT ![c] = FALSE]
  /\ UNCHANGED <<policies, policyWrites, registry, entrySeq, won>>
-----------------------------------------------------------------------------
(* Operators register, edit, revoke and delete policies; somebody outside  *)
(* the backend stores bytes that do not decode.                            *)
PolicyChange(k, v) ==
  /\ policyWrites < MaxPolicyWrites
  /\ v = None => policies[k] # None
  /\ policyWrites' = policyWrites + 1
  /\ policies' = [policies EXCEPT ![k] = v]
  /\ granted' = [c \in Publishers |->
                   granted[c] \/ (call[c].step \in {"load", "write"} /\ call[c].source = "bucket"
                                   /\ Grants(k, v, call[c].entry, call[c].asOf))]
  /\ UNCHANGED <<registry, entrySeq, call, won>>

PublisherStep(c) ==
  \/ \E code \in {"INPUT_ERROR", "VALIDATION_ERROR"} : Refuse(c, code)
  \/ \E e \in Entries, g \in Gates, dry \in BOOLEAN, r \in (0..entrySeq) \cup {None} :
       Start(c, e, g, dry, r)
  \/ Load(c)
  \/ Decide(c)
  \/ Write(c)
  \/ Conflict(c)
  \/ Acknowledged(c)
  \/ WriteFails(c)
  \/ TransportFails(c)
  \/ Killed(c)
  \/ Leave(c)

Next ==
  \/ \E c \in Publishers : PublisherStep(c)
  \/ \E k \in Ids, v \in Policies \cup {Poison, None} : PolicyChange(k, v)

Spec == Init /\ [][Next]_vars
-----------------------------------------------------------------------------
(* Every variable has its type.                                            *)
TypeOK ==
  /\ policies \in [Ids -> Policies \cup {Poison, None}] /\ policyWrites \in 0..MaxPolicyWrites
  /\ registry \in [Names -> Entry(Entries)] /\ entrySeq \in 0..MaxEntryWrites
  /\ call \in [Publishers -> {Idle, Waiting} \cup Call \cup Over]
  /\ granted \in [Publishers -> BOOLEAN]
  /\ won \subseteq Names \X (Nat \cup {None})

(* The policies are read one by one and the write comes later still.  Yet  *)
(* every write gated by the bucket has a policy of its issuer that grants  *)
(* it and that was in the bucket at some moment of that very command: a    *)
(* revocation made before the command began is never missed.               *)
GatedWriteWasGranted ==
  [][\A c \in Publishers : Write(c) /\ call[c].source = "bucket" => granted[c]]_vars

(* Weakest first, the reason a denial gives ("POLICY_REVOKED outranks").   *)
Precedence == <<Nothing, "POLICY_DISABLED", "KID_NOT_ALLOWED", "TRIPLE_NOT_ALLOWED",
                "OUTSIDE_VALIDITY_WINDOW", "POLICY_REVOKED", "POLICY_MATCH">>

Strongest(findings) ==
  Precedence[Max({1} \cup {i \in DOMAIN Precedence : Precedence[i] \in findings})]

Findings(found, e, asOf) == {Finding(h.policy, e, asOf) : h \in Candidates(found, e)}

(* The decision does not depend on the order the policies come in: it is   *)
(* the strongest finding of any candidate.                                 *)
DecisionIsStrongest ==
  \A c \in Publishers : call[c].step = "load" =>
    LET d == call[c] IN
    Decision(d.found, d.entry, d.asOf) = Strongest(Findings(d.found, d.entry, d.asOf))

(* Of all the publishes pinned to one revision of a name at most one       *)
(* commits, also with plain puts in between.                               *)
OnePinOneWinner ==
  [][\A c \in Publishers : Write(c) /\ call[c].pin # None =>
       <<call[c].entry.name, call[c].pin>> \notin won]_vars

(* Pipelines act on the exit code: OK from a publish means this command's  *)
(* entry was stored; every other code, a traceback's too, that it was not, *)
(* except BACKEND_ERROR, which leaves it open.                             *)
ExitTellsTheBucket ==
  \A c \in Publishers : call[c].step = "over" =>
    /\ call[c].code = "OK" => call[c].did # "nothing"
    /\ call[c].did = "stored" => call[c].code \in {"OK", "BACKEND_ERROR"}

(* The CLI's doc: the gate decision is byte-identical regardless of source.*)
(* So it would be the same with the policies found so far in a file.       *)
SourceDoesNotMatter ==
  \A c \in Publishers : call[c].step = "load" =>
    LET d == call[c] IN Decision(FromFile(d.found), d.entry, d.asOf) = Decision(d.found, d.entry, d.asOf)

(* What the doc of check_registered_by_capability says of the reason it    *)
(* gives: the first-encountered structural mismatch.                       *)
FirstMismatchIsReported ==
  \A c \in Publishers : call[c].step = "load" =>
    LET d == call[c]
        cands == SelectSeq(d.found, LAMBDA h : h.by = d.entry.by)
        structural == {"KID_NOT_ALLOWED", "TRIPLE_NOT_ALLOWED", "OUTSIDE_VALIDITY_WINDOW"}
        findings == [i \in DOMAIN cands |-> Finding(cands[i].policy, d.entry, d.asOf)]
    IN ToSet(findings) \subseteq structural /\ findings # <<>> =>
         Decision(d.found, d.entry, d.asOf) = findings[1]
=============================================================================

# TLA+ models of wakir-protocol

This directory holds TLA+ specifications of the stateful parts of
`wakir_protocol`, TLC configurations that check them on small instances, and
proofs that TLAPS checks for every instance. Paths below are relative to
`src/wakir_protocol/`, except those under `docs/`, which are relative to `src/`.

To check a model: `tlc -config PublishGate.cfg MCPublishGate.tla`. To check
proofs: `tlapm PublishGateProofs.tla`, and likewise the other modules whose name
ends in `Proofs`, and `ListLemmas`. `PROJECT.json` lists every run
with the properties it checks, the mutants that show each property can fail,
the source lines behind every definition, the disagreement found between the
code and its documentation that has a run of its own, and the hazards the
properties were written for.

## 1. The system

wakir-protocol is a library with a few command lines. It has no server of its
own: its shared state lives in NATS JetStream key-value buckets, and its
processes are publishers, watchers and replicators that read and write these
buckets with no lock between them.

| Component | State it keeps | Operations | What is hard | What makes it correct |
|---|---|---|---|---|
| Capability-policy store (`schemas/capability_policy_nats_kv_backend.py`) | one bucket: policy key to envelope and revision | `put`, `put_with_revision`, `delete`, `get_with_revision`, CLI `revoke` / `unrevoke` | the gate of `put_with_revision` reads in one await and writes in another; `put` is last-write-wins | a compare-and-set write never drops, moves or buries a revocation; a revoke loses no edit |
| Watch and revocation classifier (same file) | live view, last revision, per-key revocation state | `snapshot`, `watch`, `LiveCapabilityPolicySnapshot.apply`, `RevocationEventClassifier.classify` | the stream overlaps the snapshot; poison; restarts; two watcher shapes | the live view catches up; a verdict matches the bucket's history |
| Capability-policy replication (`schemas/capability_policy_replication.py`) | cursor, counters, halt flags; source and target buckets | bootstrap, tail, two conflict policies | read-check-write over awaits on a bucket others write; partial bootstrap | the target ends equal to the source or a counter says why; revocations on the target survive |
| Schema-registry store and replication (`schemas/registry_nats_kv_backend.py`, `schemas/replication.py`) | as above, over schema entries | as above | as above | positions only move forward; poison is never copied |
| Publisher CLI and gate (`schemas/publisher_cli.py`, `schemas/registered_by_capability.py`) | none of its own; reads policies from the bucket or from a file, writes entries | `publish`, dry run, `check_registered_by_capability` | several policies per issuer, in arbitrary order; policies change between read and write; an answer is lost, a request fails, the process dies | a gated write was granted; one pin, one winner; the strongest finding decides; the exit code tells what the bucket holds |
| Signature cache (`identity_substrate/aip_signature_verification_cache.py`) | map bounded by age of insertion and TTL, five counters | `verify`, `clear`, `evict_expired` | eviction, expiry and refill in any order | an answer equals that of a fresh verification; counters balance |
| FTD verifier and cache (`identity_substrate/ftd_verifier.py`) | one cached result, lock | `verify_ftd_document` through `FTDCache` | threads, a moving DNS anchor, refresh margins | what is served was verified while DNS named it, and none past its refresh time |
| HTTPS transport and resolver (`identity_substrate/aip_https_backend.py`) | ETag cache with LRU order | `resolve`, conditional requests, redirects | a 304 that arrives after the entry was evicted or replaced, or from a redirect's target; two threads in `put`; redirect loops | a 304 of the URI that gave the tag means that the cached body is the one it holds; every call ends |
| Document fetch, DNS anchor, verification bridge, kid resolver (`identity_substrate/`) | none between calls; each call holds what its requests answered | `fetch_aip_document`, `resolve_txt`, `parse_anchor`, `verify_from_transport`, `resolve_kid`, `list_resolvable_kids` | the document and the TXT records rotate between the requests of one call; DoH providers fail over | what is accepted is vouched for by one document served during the call; an anchor is refused only for cause |
| Entry signing (`schemas/entry_signing.py`) | the signature block in the stored envelope | `sign_entry`, `envelope_with_signature`, `verify_entry_signature` | writers that keep the block and writers that drop it share a bucket | an accepted block was made with the key the document names |
| Persona definitions (`persona/`) | none; the file and the hash the operator keeps | `pin`, `inspect`, `validate`, `migrate` | a hash is taken by one command and expected by another, over schema versions, while the file is edited | an expected hash misses no change of the hashed content, up to what `str()` hides, and raises no false alarm |
| NATS connect retry (`adapters/real_nats_adapter/connect_retry.py`) | attempt log | `connect_with_retry`, cache wait | a cold credential cache, late sleeps, a dial that is cancelled | the log tells the outcome and so does the connection; the call ends |
| NATS connection adapter (`adapters/real_nats_adapter/adapter.py`) | the client and two flags | probe, connect, publish, close | close while connect or publish is under way; the library drops, returns and gives up | no connection stays open that the adapter has forgotten, unless connects overlap |
| SPIFFE adapters (`adapters/`) | none | the real one raises `NotImplementedError`, the mock answers constants | - | nothing to model |
| NATS subject mapping (`wirelang/nats_subject_mapping.py`) | none | build, parse, validate a stream pattern or a filter | event type and sub_id both contain dots, and nothing in a subject says where one ends; wildcards | parsing loses nothing; a valid filter delivers one environment and domain; a reserved type arrives as it was meant |
| Bridge command line (`cli/bridge_forward.py`) | none | forward one assignment over a connection of its own, dry run | a flush that times out with the message under way; a drain that raises after it arrived | the exit code bounds the copies that an operator who retries has forwarded |
| Shamir split and recovery drill, key derivation, documents, JCS | none | cryptography and encoding | arithmetic | out of reach |
| wirelang frames and caveats, doppelbetrieb command lines, `tooling/` (`wirelang/`, `cli/`) | none | pure functions and one-shot filters | ordering of findings | not modelled, see section 7 |

How they interact:

- The publisher CLI reads policies through the capability store and writes
  entries to the schema store: `PublishGate` over `CapabilityPolicyStore`'s
  subject matter.
- Watchers follow a bucket: `RevocationWatch` extends `CapabilityPolicyStore`, and
  the store's steps are the source of its stream.
- Replicators follow one bucket and write another, which others may write too:
  `CapabilityPolicyReplication`, `SchemaReplication`.
- A verifier of an entry reads the bucket, fetches and checks the issuer's
  document and resolves the signature's kid in it: `EntryVerification`. The
  caches on this way, of bodies, of verified signatures and of trust documents,
  are `HttpsResolver`, `SignatureCache` and `FtdCache`; they are models of their
  own, because the callers that the repository composes do not share them.
- `connect_with_retry` drives the adapter's `connect` and waits for its
  credentials; the container publishes through the adapter and other tasks may
  connect or close it; the bridge forwards on its own connection; consumers filter and parse
  the subjects that both built: `NatsSession`, over `ConnectRetry` and
  `NatsSubjects`.

## 2. Modules

| Module | Models | How state and actions correspond to the code |
|---|---|---|
| `KvBucket` | one JetStream KV bucket, from how the backends use it (external) | a bucket is a function from keys to `[value, rev]` with one revision counter; `put`, `update(last=)`, `delete` are operators |
| `Lists` | what components do to lists: taking elements out, walking numbers in order | recursive functions, so that proofs can be about them |
| `ListLemmas` | lemmas that several proofs cite | least and greatest numbers, and what the operators of `Lists` return for every list |
| `CapabilityPolicyStore` | store and read-modify-write commands | one call per client: `Begin*` is the read (and gate), `Finish*` the write. `Write*` are the unconditional puts, deletes and corruption by others |
| `RevocationWatch` | `snapshot`, both watch shapes, live view, classifier | extends `CapabilityPolicyStore` with the consumer's variables; `Writers` are the store's steps, and the stream is a sequence of what they wrote; the consumer lists, fetches, opens, applies one event per step |
| `RevocationWatchProofs` | theorems about the store and its consumer | see section 6 |
| `CapabilityPolicyReplication` | `bootstrap`, tail, counters, halts | every await is a step: list, fetch, read target, check, write. `settings` (policy, filter) and `shared` (do others write the target?) are chosen in `Init` and never change |
| `CapabilityPolicyReplicationProofs` | its theorems | see section 6 |
| `OneWayMirror` | what a replicator promises | per key, the target's position in the source's history; a step moves it forward or leaves it. Safety only |
| `SchemaReplication` | `schemas/replication.py` and its store | as above; `ImplementsMirror` is the refinement of `OneWayMirror` |
| `SchemaReplicationProofs` | its theorems | see section 6 |
| `PublishGate` | publisher and capability gate | a publisher reads the policies key by key from the bucket, or all at once from a file, decides (`Check`), reads the entry's pin, writes. The write, its acknowledgement and the exit are steps: an answer may be lost (`Acknowledged`), a request may raise what the command does not catch (`Leave`), the process may be killed. Operators act between any two steps |
| `PublishGateProofs` | its theorems | see section 6 |
| `SignatureCache` | `AIPSignatureVerificationCache` | one action per public method; `Tick` is the injected clock |
| `FtdCache` | `verify_ftd_document` and `FTDCache` | the clock reading before the lock, lookup, verification and store are separate steps of a thread; the lock covers the dict accesses of `get`, `put` and `poison` only. Documents may be malformed, foreign, unsigned, expired |
| `HttpsResolver` | resolver, transport, opener | request, answer and redirect are steps of a caller, and so is each access of `put` to the dict and the list (`PutFinds`, `Measure`, `PopOldest`, `DropEvicted`, `Write`, `Unlist`, `List`), since it takes no lock; servers publish in between |
| `IdentityCacheProofs` | theorems about the three caches above | see section 6 |
| `EntryVerification` | document fetch, DNS anchor, bridge, kid resolver, entry signing | the repository gives these as functions that a caller composes (`docs/schema-registry-spec.md` 5.8 to 5.10): a call gets the document, asks the DoH providers in turn, judges; site and zone change between its requests, writers store envelopes between calls |
| `PersonaCli` | `persona/` commands | one call reads the file once, and its result is a function of what it read (`Invoke`, then `Answer`); the operator keeps the hash it gave, writes a migrated definition back (`WriteBack`), others edit (`Edit`) |
| `DocumentProofs` | theorems about the two modules above | see section 6 |
| `ConnectRetry` | `connect_with_retry` | attempts, cache polls, sleeps; `total` is the time the log tells, `real` the elapsed one. `connect` itself is left to the module that extends it |
| `NatsSubjects` | subject mapping | pure operators. A dotted text is the sequence of its tokens, and a token's spelling is the classes of characters that the regular expressions tell apart |
| `NatsSession` | the live adapter, driven by `ConnectRetry` and shared with other tasks; `bridge_forward`; a consumer | probe, dial, outcome and publish are steps, and so are each task's connect, its end, its `close()` and what follows that await (`CloseReturns`, `CloseCancelled`); `LinkDrops`, `LinkReturns`, `ClientCloses` and `Delivered` are the library's. One run of the bridge is connect, publish, flush, drain, each of which may raise |
| `NatsSessionProofs` | theorems about the loop, the adapter, the bridge and the subjects | see section 6 |

Each `MC*` module names small sets for the constants of its module; a `.cfg`
chooses among them. `KvBucket` is the bucket of `CapabilityPolicyStore`, of both
replications and of the schema registry in `PublishGate`; the policies that
`PublishGate` only reads need no revisions and are a function from keys to
values there.

### Abstractions shared by the modules

- A capability policy is its revocation instant and one *bundle* value that
  stands for every other field; an entry is a name with its issuer and kid.
- *Poison* is any stored value that does not decode as an envelope.
- A key that is absent or deleted has revision 0 for a compare-and-set, as in
  the repository's mock buckets. A real server compares with the tombstone's
  revision. Deleting an absent key does nothing; `keys()` of an empty bucket is
  empty.
- Each request to the bucket is atomic. A crash (restart) may fall between any
  two of them; the last request before it either took effect or did not.
- In the replication models the tail is the iterator-shaped watcher. The shape
  with a `None` sentinel is modelled in `RevocationWatch`.
- A body that a caller fetched for its edit may be arbitrarily old.
- Documents are opaque. Cryptography, JSON rules and structural checks are
  predicates on them, given as constants. A URI gives no two of its documents
  one ETag, which is what an ETag is; two URIs may give the same one to
  different documents, and in the resolver's runs they do.
- `SignatureCache`'s methods are atomic: they wait for nothing, and the class,
  which takes no lock, promises nothing to threads. The resolver's transport is
  documented as safe for threads, so its cache is modelled access by access; one
  access to a dict or a list is atomic, as under CPython's lock.
- An entry lies under the key it names, where every writer of the repository puts
  it; the replicators write under the key that the entry names.
- A token of a subject ends where it ends: Python's `$` also matches before a
  line feed at the very end of a text (`wirelang/nats_subject_mapping.py:135`,
  140-145), and no spelling has one.
- Relative redirect targets, header hygiene, size limits and JSON limits of the
  transport are one kind of failed answer.
- A fingerprint is the body it is of and a signature the key it was made with:
  the hash and the signature scheme are injective. A persona hash is likewise
  the mapping that was hashed: values that JCS writes alike (`1` and `1.0`) are
  one value. The subset takes `str()` of the name, the description and each
  tool before that, so `1` and `"1"`, or null and `"None"`, hash alike there:
  `Text` is this `str()`, and what `PersonaCli` promises is promised up to it.
- In `NatsSession` one `connect_with_retry` call is modelled; the other tasks
  that have the adapter call its `connect` and `close` directly. Their connects
  begin at the dial: what comes before it leaves the adapter as it was. One
  message of the adapter is under way at a time, and one of the bridge, which
  starts when the connect is over and nothing of either is under way. Cancelled
  or not, a dial that does not succeed leaves a client behind that nobody closes
  (`adapter.py:454-476`), and so may a close that raises (487) or is cancelled:
  whether such a client still has a connection is the library's affair
  (`LetGo`). The answer to a flush implies that the broker has processed the
  publish before it.
- In `PublishGate` a `--gate-as-of` that does not parse is refused at once; the
  code tells it after it has loaded the policies, with the same exit code.
- In `EntryVerification` an identifier parses; which identifiers do is a matter
  of strings. A writer acts only between calls, since a call reads the bucket
  once and first.

## 3. Runs that pass

| Run | Question | Bounds, and why they suffice | States |
|---|---|---|---|
| `CapabilityPolicyStore` | do compare-and-set writes respect what they replace? | 2 clients, 1 key, 2 instants, 2 bundles, 4 revisions: a stale pin needs one intervening write, a lost edit two; keys do not interact | 1.15 million, up to symmetry |
| `RevocationWatch` | does a consumer catch up, and are its verdicts true? | 2 keys, 3 writes, 1 restart: a write can precede, overlap and follow the snapshot | 59 000 |
| `CapabilityPolicyReplication` | is the target the source's mirror, is every event accounted for, and do revocations on it survive? | 2 keys, one filtered out, both policies with every halt flag on and off, with a target of its own or shared, 3 source and 2 foreign writes, 1 restart: a foreign write before, between and after the read and the write of an event | 814 000 |
| `SchemaReplication` | does schema replication implement `OneWayMirror`, and respect foreign writes and poison? | as above with two entries, one of which `put`'s gates refuse, besides poison | 1.87 million |
| `PublishGate` | are gated writes granted, is the decision the strongest finding, has one pin one winner, and does the exit code tell what was stored? | 2 publishers, gated by the bucket, by a file or not at all, dry or not; 2 policy keys of one issuer and a file with another issuer's policy before a revoked, windowed one; all six kinds of policy in any order, clock absent or given, 2 policy and 2 entry writes: a policy may go and another come during one load; any request may fail and any answer get lost | 2.5 million |
| `SignatureCache` | is the cache transparent? | 2 entries for 8 possible keys, `Ttl` 2, clock to 5: fill, hit, expire, evict and refill all occur | 40 000 |
| `FtdCache` | what may two threads be served? | 5 documents (short-lived, long-lived, unsigned, malformed, of another domain), clock to 3: a document can lapse while a call waits for DNS or the lock, and the anchor can leave a document and come back; deadlock is checked | 2.32 million |
| `HttpsResolver` | do concurrent callers mix up bodies, and does every call end? | 2 callers, 2 addresses that may redirect to each other, 2 documents with a tag that both addresses use, 1 redirect, room for one entry: every answer can race an eviction, and every line of one `put` one of another; no call starts while the list is longer than `MaxListed`, which only overlapping puts make it; deadlock is checked | 411 000 |
| `NatsSession` | does the log tell the truth, when may the adapter forget an open connection, do exit codes bound what was forwarded, does a consumer get what was meant, and does the call end? | 2 attempts with a delay of 0 or 1, a 2-tick wait polled every tick, up to 1 tick late; 2 tasks that close at any time, and 2 calls in all, each a connect of one of them or a run of the bridge: two dials, two closes and the loop's own dial meet in every order, and a run can follow one that failed; 6 messages (reserved types with and without anchors, one cut in the middle, a sub_id that is no anchor), 8 filters | 2.78 million |
| `EntryVerification` | can a rotation in the middle of a call have an entry accepted, or an anchor refused, without cause? | 8 documents (rotated, windowed, duplicate kid, foreign, tampered, broken), 7 record sets, 4 signature blocks, 2 DoH providers, 1 change during a call: a call has one fetch and one lookup, so one gap; deadlock is checked | 538 000 |
| `PersonaCli` | does an expected hash notice every change that `str()` does not hide, and only changes? | 28 contents of the file: each schema version, unknown and absent ones, each shape the validator tells apart, values that one encoder accepts and the other refuses, a number, the string of it and a date as name and as tool; deadlock is checked | 1.42 million |

`CHECK_DEADLOCK FALSE` is used where the counters of operations (`MaxRevision`,
`MaxSource`, `MaxTarget`, `MaxRestarts`, `MaxPolicyWrites`, `MaxEntryWrites`,
`MaxHits`, `MaxMisses`, `MaxCalls`) run out, where a replicator has halted or where the one
call modelled is over: the system has then nothing left to do. `MaxSource`, `MaxTarget`, `MaxPolicyWrites`,
`MaxEntryWrites`, `MaxRestarts`, `MaxListed` and `MaxCalls` bound what the *environment* does, and
`MaxRevision` the bucket's counter; `MaxHits` and `MaxMisses` bound the counters
of the signature cache, `MaxClock` and `MaxTime` the clocks, `MaxLate` what the world may delay.
None is a decision of the code.

The store's and the publishers' runs use symmetry in clients, publishers,
instants or bundles, of which no definition orders the values; both check safety
only, so the reduction is sound.

A `TypeOK` says what the variables of a module hold. Among the runs only the
store's checks it; for the other modules it is an invariant of their
configurations in section 4, holds in each, and is proved for those that
section 6 names.

Some properties restrict what they say on purpose. `NotModifiedIsCurrent` speaks of
a 304 from the URI that gave the tag: what another answers to it means nothing,
and the code takes it all the same (`NotModifiedByAnyone` in section 4).
`OnlyVerifiedIsServed` says that DNS named the document during the call that
stored it, not when it is served: an entry lives until its margin, and a thread
that verified an older document may store it over a newer one.
`GatedWriteWasGranted` says that the gate granted the entry at some instant of
the command, not at the write: a policy may be revoked between the decision and
the write, and the code accepts that. `AcceptedIsVouchedFor` speaks likewise of
documents and anchors of the duration of the call. `ReceivedAsMeant` asks for
the exact parts only when the event type is reserved and the sub_id an anchor or
absent: elsewhere `parse_subject` cannot know.

## 4. Where code and documentation disagree

`ReplicationRevocationRace` is a run of `PROJECT.json`: TLC refutes by a trace
of the code's steps what the module's documentation promises. The others are
configurations of the same modules, with properties that restate the quoted
sentences; `tlc -config X.cfg MCY.tla` shows a trace. Where a configuration has
several, the property is named; taking the others out of the configuration shows
the trace of each.

| Configuration | The documentation | The code |
|---|---|---|
| `ReplicationRevocationRace` and, under CAS_PIN, `ReplicationDisagreements` (`TailKeepsRevocation`) | "once a key carries a revocation on the target, no replication path will silently overwrite it" (`schemas/capability_policy_replication.py:123-127`) | a revocation placed on the target between the check and the write is overwritten and no counter moves |
| `ReplicationDisagreements` (`EnvelopeErrorsAtMostOne`) | "this counter is 0 or 1" (same file, 315) | an envelope error in the tail is counted where it is found and where it is handled |
| `ReplicationDisagreements` (`BootstrapEqualisesKeysets`) | "leaves the target's keysets byte-equal to the source's" (same file, 160-163) | bootstrap copies and never deletes |
| `UnrevokeLostUpdate` | "preserving every other capability-bundle field byte-equally" (`schemas/publisher_cli.py:1929-1931`) | `unrevoke` writes without a pin and undoes an edit stored after its read |
| `RevocationWatch` with `SentinelEndsStream = TRUE` (`Converges`) | the `None` between replay and tail is "a stream-internal marker only" (`schemas/capability_policy_nats_kv_backend.py:1696-1699`) | it ends the stream, with a watcher whose `updates()` yields it |
| `RevocationWatchOperators` | the audit marker of an operator's unrevoke (`schemas/capability_policy_nats_kv_backend.py:462`) tells it from a breach on the stream | operators' revokes and unrevokes alone give a verdict of a breach |
| `SchemaDisagreements` (`CasPinSurfacesConcurrentWrites`) | a concurrent write on the target surfaces as a conflict (`schemas/replication.py:357-361`) | a key read as absent is created with a plain put |
| `SchemaDisagreements` (`SnapshotIsAView`) | `snapshot()` is "a complete, self-consistent view" (`schemas/registry_nats_kv_backend.py:813`) | one list and one get per key: it can be a state the bucket never had |
| `SignatureCacheExpired` | "an expired entry counts as a miss" (`identity_substrate/aip_signature_verification_cache.py:190-192`) | `evict_expired` counts expirations without misses |
| `FtdCacheKeys` | `valid_issuer_keys` are those whose window includes now (`identity_substrate/ftd_verifier.py:668`) | a hit returns those that were when the document was verified |
| `HttpsRedirectsUrllib` (`WithinRedirectBudget`) | at most `max_redirects` redirects are followed (`identity_substrate/aip_https_backend.py:172`) | the default opener follows redirects itself, outside the budget |
| `HttpsRedirectsUrllib` (`NotModifiedByAnyone`) | a 304 tells "that a cached document is still current" (same file, 197-198) | the tag is sent to redirect targets too (433-436, 463): one that uses it for another document answers 304 for that |
| `HttpsRedirectsUrllib` (`BoundedLru`) | "Bounded LRU" (same file, 679) | `put` takes no lock (694-708): of two threads that measured the list before either appended both insert |
| `PublishGateDisagreements` (`FirstMismatchIsReported`) | the reason is the "first-encountered" mismatch (`schemas/registered_by_capability.py:462`) | a later policy's mismatch may replace it |
| `PublishGateDisagreements` (`SourceDoesNotMatter`) | "the gate decision is byte-identical regardless of source" (`schemas/publisher_cli.py:30-31`) | the file loader drops `revoked_at`, so a file grants what the bucket refuses |
| `NatsDisagreements` (`LoopReturnsInside`) | "the loop always returns inside its body" (`connect_retry.py:615`) | a cache cold on the last attempt ends the loop |
| `NatsDisagreements` (`ColdFinalAttemptRaises`) | "if the cache stays empty past the budget the final attempt re-raises" (same file, 81-83) | it then returns a log, and raises nothing |
| `NatsDisagreements` (`ClosedStaysClosed`) | after `close` "the adapter is unusable" (`adapters/real_nats_adapter/adapter.py:200`) | a close during a dial finds no client, and the dial then opens one |
| `NatsDisagreements` (`NothingIsForgotten`) | "implementations MUST be safe for concurrent use from multiple asyncio tasks" (same file, 173-174) | a connect replaces the client of another connect (478), and a close forgets the one that a connect has set while it awaited (486, 491): it stays open and nobody holds it |
| `NatsDisagreements` (`StatusMeansOpen`) | `connected` is true iff the adapter holds an open connection (same file, 75) | the flag stays when the library has given up reconnecting |
| `NatsDisagreements` (`NoStarForEventType`) | `wakir.prod.cap.*` is rejected (`docs/nats-subject-mapping-v1.md:366`) | the rule looks at patterns of five and more tokens only |
| `NatsDisagreements` (`BuiltSubjectsParse`) | peeling the sub_id off "keeps the build/parse roundtrip exact" (`wirelang/nats_subject_mapping.py:322`) | a sub_id that is no anchor, or a mixed-case one, parses into the event type or not at all; a slug of more than 64 octets, which the bridge's template takes, does not parse |
| `EntryDisagreements` (`SignedEntryStaysSigned`) | the backend's codec "is extended to round-trip the optional slot" (`schemas/entry_signing.py:30-31`) | `put` encodes the entry without its signature, so an entry published with `--sign`, or replicated, is refused as unsigned |
| `EntryDisagreements` (`BridgeVerifiesOverHttps`) | the transport of the bridge may be the HTTPS one (`identity_substrate/verify_bridge.py:5`, 99) | the identifier then is the URL, which never equals the document's `aip:` id |
| `EntryDisagreements` (`AnyProviderFailureFailsOver`) | "On any provider failure ... the resolver fails over" (`identity_substrate/dns_anchor.py:137-139`) | a reset while the answer is read, or an answer that is no object, passes every handler |
| `EntryDisagreements` (`ListedKidsResolve`) | "the kids that `resolve_kid` would succeed on" (`identity_substrate/kid_resolver.py:316`) | without a clock an unparseable time is listed and does not resolve |
| `PersonaDisagreements` (`EmittedHashIsPin`) | `pin` prints what `migrate --emit-hash` prints on a no-op chain (`persona/cli.py:578-582`) | `migrate` hashes the whole mapping, `pin` its canonical subset |
| `PersonaDisagreements` (`ValidatorReportsEveryFile`) | the validator lets only `FileNotFoundError` and bugs escape (`persona/persona_validator.py:10-11`) | malformed YAML raises `yaml.YAMLError` through every handler |

Seen while modelling, and not stated as properties: a filter that leaves the
domain out (`wakir.<env>.>`) is rejected as too short; a publish over a lost
connection raises the base `NatsAdapterError`, where the protocol class speaks of
the unavailable one; a transport error while policies are loaded, or while the
CLI connects, leaves the process as a traceback, whose exit code 1 is not in the
table of exit codes; a malformed triple is an input error of a dry run and a
backend error of `publish`.

## 5. Liveness and fairness

| Property | Fairness | Why the code justifies it |
|---|---|---|
| `Converges` (`RevocationWatch`) | `WF_vars(ConsumerStep)` | one coroutine; the event loop resumes it when its request is answered or an event arrives |
| `EventuallyMirrors` (both replications) | `WF_vars(Replicator)` | the same, for the replicator's coroutine |
| `EveryCallEnds` (`HttpsResolver`) | weak for each caller's steps | every request is answered or times out |
| `Terminates` (`NatsSession`) | `WF_sessionVars(ConnectStep)` | a coroutine between finite sleeps, whose probe and dial have timeouts; a call cancelled in a sleep has ended too |

Writers, operators, servers and restarts are never fair: they may stop at any
time. The number of restarts is bounded, which is what lets a replicator finish
a bootstrap. `OneWayMirror` states safety only: what a replicator eventually does
is `EventuallyMirrors`, over the replicator's own variables.

## 6. Proofs

A theorem holds for every value of the constants that meets the module's named
assumptions, and these say only what the program guarantees: that what is not a
value (`None`, poison) differs from values, that keys are ordered, that bounds
are numbers, that settings have the constructor's types. TLC evaluates each of
them in a run. Every invariant below was first checked by TLC as an invariant of
the component's own run. For each component a theorem (`Inductive`,
`Invariance`) says that its invariant holds in every reachable state, and the
others follow from it.

### Store and watch

`RevocationWatchProofs`, about the store:

- `TypeCorrect`: `Spec => []TypeOK`
- `PinCorrect`: a key that still has the revision a client read still has the
  value the client read
- `RevocationSafety`: a compare-and-set write never removes a revocation nor
  moves its instant
- `RevokeLosesNoEdit`: a revoke in CAS mode writes the bundle that is live when
  it commits
- `PoisonSafety`: a compare-and-set write never replaces poison

The gate of `put_with_revision` reads the live record and checks the rules of
revocation, and the update, a later step, compares revisions only. So the rules
hold at the write only if *equal revision implies equal value*: that is
`PinMeansUnchanged`. It is not inductive by itself. A revision that a client
holds may be one that has not been written yet unless `RevisionsInThePast` says
that every revision held or stored is at most the counter; and a revoke call
needs `RevokesKeepBundle`, that what it is about to write carries the bundle of
what it read. `IInv` is their conjunction with `TypeOK`.

And about the consumer of its watch stream:

- `WatchingChangesNothing`: `WatchSpec => Spec`. A watched store behaves as a
  store, so all of the above holds while it is watched
- `ViewCatchesUp`: while the stream is open, view and pending events together
  are the bucket (`LiveCatchesUp`)
- `VerdictsAreTrue`: the classifier's verdict on an event of the tail is the
  transition the bucket made (`TailVerdictsAreTrue`)

The snapshot is torn, so before the stream is open nothing relates the view to
the bucket but that it holds only keys that were once written
(`SnapshotOfWritten`). The replay then brings the last operation of each of
these, since revisions are unique and the replay lists them in order
(`RevisionsAreUnique`, `ReplayOfBucket`). From there on the last pending event of
a key carries the bucket's value (`StreamEndsInBucket`), each event overwrote
what the one before it on its key wrote, or what the view holds
(`EventsAreChained`), and the classifier's instant is the view's
(`ClassifierKnowsView`). `WatchInv` is the conjunction.

### Replication of policies

`CapabilityPolicyReplicationProofs`:

- `EventsAreCounted`: each event taken from the stream is counted once
- `DivergenceIsCounted`: a replicator that has caught up, on a target of its
  own, has it equal to the source or has counted a refusal
- `RevocationsStay`: no write to a target of its own, and no pinned write,
  removes or moves a revocation

`Converging` is what makes the second inductive: of every key, an event in the
queue that differs from the source has another behind it, the write in progress
is the source's value or has one behind it, and when neither is there the target
holds the source's value. It starts with the replay because the target of a
replicator that has it to itself never holds a key the source has not had
(`OnlyWrittenKeys`). `PinsAreChecked` carries the verdict of the gate over to the
write: a target entry that still has the pinned revision has passed it.

### Replication of schemas

`SchemaReplicationProofs`:

- `Refinement`: `Spec => ImplementsMirror`, that is `OneWayMirror` with the
  position of each key in the source's history: initial states map to initial
  states, every step to a step of the mirror or a stutter
- `StoresOnlyEntries`: neither poison nor what `put`'s gates refuse is copied: the
  write in progress passed them when it was begun (`WorkIsStorable`)
- `PinnedUpdateIsSafe`: a pinned update replaces what the replicator read

An operation waits in the snapshot, in the queue or in the write in progress, and
none is behind what was copied last of its key (`SnapAhead`, `QueueAhead`,
`WorkAhead`). That survives the copying of any of them because the queue
ascends, the write in progress comes before the queue, and snapshot and queue are
never full together (`PhaseShape`).

### Publisher gate

`PublishGateProofs`:

- `DecisionIsMaximum`: for every list of policies, the loop of
  `check_registered_by_capability` ends with the issuer's finding of highest
  rank. The list is of any length: see the end of this section
- `DecisionCorrect`, `ExitCodeIsTrue`: `DecisionIsStrongest` and
  `ExitTellsTheBucket`
- `GateIsHonoured`: a gated publish writes nothing that the gate did not grant
  during the command
- `PinsAreUsedOnce`: of the publishers that pinned a revision one writes

`CallKnows` says what a call has behind it at each step: a policy found to match
was in the bucket when it was fetched. `PinsInThePast` says that an entry is past
every revision on which a compare-and-set has succeeded, as nothing of the
registry is deleted.

### The identity caches

`IdentityCacheProofs`, about each of the three. The signature cache and, between
puts, the resolver's keep a dict and a list in step: `InStep` says that the list
names the keys of the dict, each once, the oldest first. It makes the length of
the list the number of entries, on which the bounds rest.

- `OrderNamesEntries`, `HitsAreTrue`, `CountersAddUp` (signature cache): for
  every capacity and time to live
- `ServesOnlyVerified`, `HitsKeepTheMargin` (trust documents): for any number of
  threads and any waits between a clock reading and the lock. Nothing is checked again at the end of the pipeline, so a call carries
  with it what its earlier steps established (`PipelineKeepsItsWord`), past the
  network wait and whatever others do to the cache; what is stored is then
  verified and lapses a margin before its document (`CacheIsVerified`)
- `NotModifiedTellsTheTruth` (resolver): when the URI that gave a tag answers 304
  to it, the document returned is the one it holds. The entry may be replaced or
  evicted while the request is under way, and any number of callers may be in
  `put`, so a request must know more than its URI: what it was sent with was an
  entry of the cache, and its tag is the one that the URI it came from gives to
  its document (`RequestKnows`, `TagsAreTheirs`). That no URI gives one tag to two
  of its own documents is the hypothesis `TagsIdentifyDocs`; of two URIs nothing
  is assumed
- `EtagCacheIsBounded`: as long as no two callers are in `put` at once
  (`PutsApart`) `max_entries` holds, and `_order` names `_entries` whenever nobody
  is. `LruInv` says at each line of `put` by which key the two are apart
  (`MidPut`). Without the hypothesis the bound is false, see `BoundedLru`
- `BudgetHolds`, `RedirectsAreBounded`: an opener that follows nothing itself
  keeps the redirect budget. urllib's passes it, as `HttpsRedirectsUrllib.cfg`
  shows, but by no more than its own limit for each redirect on the budget and
  one round before: `MaxRedirects * (UrllibLimit + 1) + UrllibLimit`

The three share a proof module, so their names differ: `tagged` and `taggedOrder`
are the resolver's `_entries` and `_order`, `MaxTagged` its `max_entries`, `time`
the trust documents' clock, and `Init`, `Next`, `Spec` have a prefix. So it is with
`PersonaCli`, whose call is `command`.

### Entries and their documents

`DocumentProofs`, about `EntryVerification`:

- `AcceptanceHasNoGap` (`AcceptedIsVouchedFor`), `RefusalHasACause`
  (`AnchorRefusedForCause`): whatever is rotated between the requests of a call
- `ListingIsTrue` (`ListIsWhatResolves`): for every document, clock and purpose

A verdict is about what the call fetched, and site and zone may have moved on
since. `CallKnows` says which of the bodies and record sets of this very call
stand behind each of its steps: the document was served, and when the verdict is
due and an anchor is required, one record set of the zone named it. The invariant
is `CallKnows` with `TypeOK` and the two properties. The rest is about operators:
what `verify_bridge`, `parse_anchor` and `resolve_kid` promise of what they
accept (`ResolvesToTheOne` and the lemmas after it). Assumed is what parsing
makes of a document: `public_keys` is a list, and a timestamp an instant, absent
or refused.

### Persona definitions

`DocumentProofs`, about `PersonaCli`, for any set of files:

- `NoDriftIsMissed` (`DriftIsNoticed`): a migration that met its expected hash
  gives the pinned identity, and the `str()` of the name and the tools, that the
  hash was taken of
- `NoFalseAlarm` (`DriftMeansEdited`): migrating and writing back, in any number
  of steps, is no drift
- `ValidatorAgrees` (`ValidIsPinnable`)

A hash says what it was taken of: the subset of a definition, or, from
`migrate --emit-hash`, a definition at another version (`HashOf`). The second
theorem needs to know of the file as well: as long as nobody edits it, it holds
the definition that the pin was taken of at some version (`PinIsKnown`), and so
did the file that the last command read, whose result may yet be written back
(`CallIsKnown`). Both rest on `MigratedIs`: `migrate` changes the version alone.
`Lifted` is recursive, and that there is such a function is proved by giving it
(`LiftedIsLifting`), which takes that the chain has two steps
(`ThreeLiftsAreTooMany`). Assumed is what parsing makes of a file, that null is a JSON value, and that a
string is its own `str()`: `FilesAreParsed`, `SubsetsAreFit`, `TextIsText`.

### NATS session

`NatsSessionProofs`, about the session:

- `SessionRunsTheLoop`: a session with the live adapter is a behaviour of
  `ConnectRetry`, so nothing the adapter or its link does disturbs the loop
- `LogIsTheOutcome`, `LogIsNoOverstatement`, `ConnectionIsTheOutcome`,
  `ExitCodesBoundCopies`, `DeliveredAsMeant`

The invariant has four parts. `RetryInv`: until the end no attempt is decided,
and a wait under way is not yet in the log (`NoTimeIsInvented`). `AdapterInv`: a
dial is under way only within a connect, and what a close awaits is the client
held unless a newer one has taken its place or another close has returned
(`parted`). And as long as no connect overlapped anything (`OneOwner`) a dial is
the only call under way and nothing is held; that is what keeps a connection from
being forgotten, and with the first overlap it is lost. `BridgeInv`: a copy under way counts as one that may still arrive, a
run under way as one that may still report; without both, the bounds on the
copies are not inductive. `SubjectInv`: what is under way was built from sendable
parts.

And about subjects, for every spelling of every token:

- `FilterPinsEnvAndDomain`, `StreamPinsEnvAndDomain`: what a valid filter or
  stream pattern matches has the environment and the domain it names
- `BuildInvertsParse`: what `parse_subject` returns is accepted by
  `build_subject`, and gives the subject back (T-NSM-02 of
  `docs/nats-subject-mapping-v1.md`)
- `ParseInvertsBuild`: what `build_subject` makes of a reserved event type and
  an anchor, or of no sub_id, parses to these parts. Without the two conditions
  it is false, see `BuiltSubjectsParse`
- `HostSlugIsAnAnchor`: the slug of a host is recognised as an anchor

An anchor is one token or the three or four of a TV anchor (`AnchorLength`), so
there are at most three cuts and a last one (`CutIsInside`); the parts on either
side of it, put together, are the subject (`Rejoined`). In the other direction
there is one cut, where the parts were joined (`CutWhereJoined`), because the
reserved event types of a domain have the same number of tokens
(`ReservedLength`).

The proof of `DeliveredAsMeant` showed that the bridge may build a subject no one
can parse: its template takes a `--persona-slug` of any length and
`parse_subject` refuses a sub_id of more than 64 octets. `ReceivedAsMeant` says
so since (`FitsSubId`), and TLC shows it with `BuiltSubjectsParse` of
`NatsDisagreements`.

### Lists of every length

`Leaving`, `Ascending` and the gate's loop are recursive functions. The library's
induction theorems cannot be instantiated here, as they take an operator; but a
statement about all lengths has a least counterexample if it has any
(`LeastNatural`, from the well-foundedness of the naturals), and the function's
own equation shows that it is none. `LeavingIsLeft`, `AscendingIsSorted`,
`OldestFirst`, `FoldIsMaximum` and `LiftedIs` are proved so. That such a function satisfies
its equation at all is proved first, by the same argument (`KeepsExists`).

### Model-checked only

- Liveness under fairness: section 5. It is out of TLAPS's reach, and so is
  `ENABLED`.
- `UnrevokeLostUpdate`, `HttpsRedirectsUrllib`, `ReplicationRevocationRace` and
  the `*Disagreements` configurations: they show what does not hold.
- `Octets`, the length of a dotted text, is a fold. The proofs take whether a
  sub_id fits (`FitsSubId`) as it comes and never compute the sum.

## 7. Not modelled

- Cryptography, canonical JSON, key derivation and Shamir's field arithmetic:
  pure computations that enumeration of small instances says nothing about. The
  recovery drill only calls them in order.
- JSON-schema validation beyond the shapes that decide a step, encodings, frame
  building: pure and without state.
- `doppelbetrieb_score` and `doppelbetrieb_aggregate`: floating-point arithmetic
  over a file that is read once.
- Argument parsing, receipts, file-backed registries and scripts under
  `tooling/`: input and output.
- The SPIFFE adapters: the real one is a stub, the mock keeps nothing. The mock
  NATS adapter has the live one's flags without the library.
- `LiveSchemaSnapshot`: it mirrors `LiveCapabilityPolicySnapshot`.
- Generated data, fixtures and examples.

## 8. Plan

Done: the models of every component that section 7 does not name, and the proofs
of section 6: a theorem states every property that a passing run checks, but for
the liveness properties of section 5.

Next, in this order:

1. `LiveSchemaSnapshot`, beside its twin in `RevocationWatch`, should the two
   drift apart.
2. `NatsSession`: `ReceivedAsMeant` with the lengths that `Octets` computes,
   which needs a recursive function in place of the fold.
3. The SPIFFE adapters, once the real one is more than a stub.

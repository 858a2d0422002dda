-------------------------- MODULE EntryVerification --------------------------
(***************************************************************************)
(* A schema-registry entry from its writer to its verifier.  Writers and   *)
(* replicators store its envelope, signed or not.  A verifier reads it,    *)
(* fetches the issuer's AIP document over HTTPS, cross-checks it with the  *)
(* DNS anchor, verifies the document (verify_bridge), resolves the         *)
(* signature's kid in it and verifies the entry: the flow that             *)
(* docs/schema-registry-spec.md 5.8 to 5.10 composes.  The site and the    *)
(* zone change between the verifier's requests.                            *)
(***************************************************************************)
EXTENDS Naturals, SequencesExt

CONSTANTS
  Documents,      \* documents the site may serve
  NotAnObject,    \* ... a body that is JSON but no object
  Unreachable,    \* ... or no answer that the transport accepts
  AipId, Url,     \* the document's identifier and the URL it maps to
  Zones,          \* record sets of the anchor name: sequences of anchors
  Garbage,        \* a TXT record that is no anchor
  Keys,           \* well-formed 32-byte Ed25519 keys
  Malformed,      \* any other key, or a signature block of the wrong shape
  Forged,         \* a signature that no key makes over these bytes
  NotAMapping,    \* an item of public_keys that is no mapping
  Unparseable,    \* a timestamp that is not RFC 3339
  Blocks,         \* signature blocks that writers make
  Requests,       \* what verifiers ask for
  Providers,      \* number of DoH providers
  MaxChanges,     \* bound on changes of site and zone during a call
  None

ASSUME Bounds == Providers \in Nat \ {0} /\ MaxChanges \in Nat

Mappings(d) == {i \in DOMAIN d.keys : d.keys[i] # NotAMapping}

(* What parsing makes of a document and of a clock.  None is no value.     *)
ASSUME DocumentsAreParsed ==
  \A d \in Documents :
    /\ d.keys \in Seq(ToSet(d.keys))
    /\ \A i \in Mappings(d) :
         {d.keys[i].from, d.keys[i].until} \subseteq Nat \cup {None, Unparseable}

ASSUME ClocksAreInstants == \A r \in Requests : r.asOf \in Nat \cup {None}

ASSUME NoneIsNoValue ==
  None \notin Nat \cup Keys \cup Documents /\ Unparseable \notin Nat \cup {None}

VARIABLES
  site,       \* what Url answers
  zone,       \* TXT records of _wakir-aip.<host>
  bucket,     \* the envelope under the entry's key: its block, and (history)
              \* the block its writer made
  changes,    \* how often site or zone changed since the call began (bound)
  call,       \* what the verifier is in the middle of
  served,     \* bodies that Url answered since the call began (history)
  zones       \* record sets that the zone held since then (history)

vars == <<site, zone, bucket, changes, call, served, zones>>

Envelope == [block : Blocks \cup {None}, made : Blocks \cup {None}]
Answers  == Documents \cup {NotAnObject, Unreachable}

Errors == {"malformed-block", "transport", "anchor", "escaped", "schema-failed",
           "id-mismatch", "signature-failed", "hash-mismatch", "kid", "unsigned"}

Idle == [step |-> "idle"]
Call == [step     : {"get", "dns", "judge", "done"},
         request  : Requests,
         envelope : Envelope,
         doc      : Documents \cup {None},
         failed   : 0..Providers,            \* DoH providers that failed
         verdict  : Errors \cup {"valid", "invalid", "verified", None}]

Init ==
  /\ site \in Answers /\ zone \in Zones
  /\ bucket = None
  /\ changes = 0
  /\ call = Idle
  /\ served = {} /\ zones = {}
-----------------------------------------------------------------------------
(* kid_resolver *)

(* Faulty variant: the key is usable at the instant it expires.            *)
InWindowInclusive(e, asOf) ==
  /\ Unparseable \notin {e.from, e.until}
  /\ asOf # None => /\ e.from = None \/ e.from <= asOf
                    /\ e.until = None \/ asOf <= e.until

(* The timestamps are parsed in any case, compared only given a clock.     *)
InWindow(e, asOf) ==
  /\ Unparseable \notin {e.from, e.until}
  /\ asOf # None => /\ e.from = None \/ e.from <= asOf
                    /\ e.until = None \/ asOf < e.until

Matches(d, kid) == {i \in Mappings(d) : d.keys[i].kid = kid}

(* resolve_kid: the key that kid names, None for a KidResolverError.       *)
ResolveKid(d, kid, asOf, purpose) ==
  LET usable == {i \in Matches(d, kid) :
                   LET e == d.keys[i] IN
                   /\ e.alg = "Ed25519" /\ e.key \in Keys
                   /\ InWindow(e, asOf)
                   /\ purpose \in {None, e.purpose}}
  IN  IF /\ Mappings(d) = DOMAIN d.keys
         /\ \E i \in usable : Matches(d, kid) = {i}
      THEN d.keys[CHOOSE i \in usable : TRUE].key
      ELSE None

(* Faulty variant: the listing forgets that duplicates are unresolvable.   *)
ListAllKids(d, asOf, purpose) ==
  {d.keys[i].kid : i \in {i \in Mappings(d) :
     LET e == d.keys[i] IN
     /\ e.alg = "Ed25519" /\ e.key \in Keys
     /\ asOf # None => InWindow(e, asOf)
     /\ purpose \in {None, e.purpose}}}

(* list_resolvable_kids *)
ListResolvableKids(d, asOf, purpose) ==
  {d.keys[i].kid : i \in {i \in Mappings(d) :
     LET e == d.keys[i] IN
     /\ Matches(d, e.kid) = {i}
     /\ e.alg = "Ed25519" /\ e.key \in Keys
     /\ asOf # None => InWindow(e, asOf)
     /\ purpose \in {None, e.purpose}}}
-----------------------------------------------------------------------------
(* verify_bridge *)

(* aip-document.json, whose date-time format nobody asserts.               *)
SchemaValid(d) ==
  /\ d.keys # <<>> /\ Mappings(d) = DOMAIN d.keys
  /\ d.id # Url
  /\ d.sig # None

(* _default_pubkey_resolver: the first key with the signature's kid, or    *)
(* else the first key.                                                     *)
DefaultPubkey(d) ==
  LET named == Matches(d, d.sig.kid)
  IN  d.keys[IF named = {} THEN 1 ELSE Min(named)].key

(* SHA-256 over the canonical body without document_signature.             *)
Fingerprint(d) == [id |-> d.id, keys |-> d.keys]

ASSUME NoneIsNoFingerprint == \A d \in Documents : Fingerprint(d) # None

(* verify_from_transport once it has the body.                             *)
VerifyDocument(d, docId, pin) ==
  IF ~SchemaValid(d) THEN "schema-failed"
  ELSE IF d.id # docId THEN "id-mismatch"
  ELSE IF DefaultPubkey(d) \notin Keys \/ DefaultPubkey(d) # d.sig.by
       THEN "signature-failed"
  ELSE IF pin \notin {None, Fingerprint(d)} THEN "hash-mismatch"
  ELSE "verified"
-----------------------------------------------------------------------------
(* dns_anchor *)

(* Faulty variant: a record that is there twice counts as two.             *)
ParseAnchorOnce(records) ==
  LET found == SelectSeq(records, LAMBDA r : r # Garbage)
  IN  IF Len(found) = 1 THEN found[1] ELSE None

(* parse_anchor: the one fingerprint, None for a DnsAnchorError.           *)
ParseAnchor(records) ==
  LET found == ToSet(records) \ {Garbage}
  IN  IF \E f \in found : found = {f} THEN CHOOSE f \in found : TRUE ELSE None
-----------------------------------------------------------------------------
(* The verifier *)

(* envelope_to_signed_entry on what the bucket holds.                      *)
Start(r) ==
  LET broken == bucket.block = Malformed IN
  /\ call = Idle
  /\ bucket # None
  /\ call' = [step     |-> IF broken THEN "done" ELSE "get",
              request  |-> r,
              envelope |-> bucket,
              doc      |-> None,
              failed   |-> 0,
              verdict  |-> IF broken THEN "malformed-block" ELSE None]
  /\ served' = {site} /\ zones' = {zone}
  /\ UNCHANGED <<site, zone, bucket, changes>>

(* The verifier keeps nothing from one call to the next.                   *)
Return ==
  /\ call.step = "done"
  /\ call' = Idle
  /\ served' = {} /\ zones' = {} /\ changes' = 0
  /\ UNCHANGED <<site, zone, bucket>>

Keeps == UNCHANGED <<site, zone, bucket, changes, served, zones>>

End(verdict) == call' = [call EXCEPT !.step = "done", !.verdict = verdict]

(* fetch_aip_document up to the fetched body; it looks at whether it may   *)
(* require an anchor after the fetch.                                      *)
GetDocument ==
  LET r == call.request IN
  /\ call.step = "get" /\ r.flow = "chain"
  /\ IF site \in {NotAnObject, Unreachable} THEN End("transport")
     ELSE IF r.required /\ ~r.dns THEN End("anchor")
     ELSE call' = [call EXCEPT !.doc = site,
                               !.step = IF r.dns THEN "dns" ELSE "judge"]
  /\ Keeps

(* verify_from_transport over HTTPSDocumentTransport: the identifier is    *)
(* the URL of the request.                                                 *)
GetAndVerify ==
  LET r == call.request IN
  /\ call.step = "get" /\ r.flow = "bridge"
  /\ IF r.id # Url \/ site \in {NotAnObject, Unreachable} THEN End("transport")
     ELSE call' = [call EXCEPT !.doc = site, !.step = "done",
                               !.verdict = VerifyDocument(site, r.id, r.pin)]
  /\ Keeps

Exhausted(failed) == failed = Providers

(* _query_one raised _DohSoftFailure: resolve_txt tries the next provider; *)
(* the last one's failure is a DnsAnchorError.                             *)
ProviderFails ==
  LET failed == call.failed + 1 IN
  /\ call.step = "dns"
  /\ call' = [call EXCEPT
        !.failed  = failed,
        !.step    = IF ~Exhausted(failed) THEN @
                    ELSE IF call.request.required THEN "done" ELSE "judge",
        !.verdict = IF Exhausted(failed) /\ call.request.required THEN "anchor" ELSE @]
  /\ Keeps

(* A connection reset while the answer is read is neither URLError nor     *)
(* TimeoutError, and a body that is a JSON array has no get: they pass     *)
(* through every handler.                                                  *)
ProviderFailureEscapes ==
  /\ call.step = "dns"
  /\ End("escaped")
  /\ Keeps

(* anchor_required makes anything but a match an error.                    *)
AcceptsAnchor(found) == found = Fingerprint(call.doc) \/ ~call.request.required

ProviderAnswers ==
  /\ call.step = "dns"
  /\ IF AcceptsAnchor(ParseAnchor(zone))
     THEN call' = [call EXCEPT !.step = "judge"]
     ELSE End("anchor")
  /\ Keeps

(* verify_entry_signature, the document verified and the kid resolved.     *)
Judge ==
  LET r     == call.request
      block == call.envelope.block
      aip   == VerifyDocument(call.doc, r.id, None)
      key   == ResolveKid(call.doc, block.kid, r.asOf, r.purpose)
  IN
  /\ call.step = "judge"
  /\ End(IF aip # "verified" THEN aip
         ELSE IF block = None THEN IF r.strict THEN "unsigned" ELSE "valid"
         ELSE IF key = None THEN "kid"
         ELSE IF key = block.by THEN "valid" ELSE "invalid")
  /\ Keeps

VerifierStep ==
  \/ GetDocument
  \/ GetAndVerify
  \/ ProviderFails
  \/ ProviderFailureEscapes
  \/ ProviderAnswers
  \/ Judge
-----------------------------------------------------------------------------
(* Everyone else.  What is stored or served while the verifier has its     *)
(* answers cannot reach it: writers act between calls, the site and the    *)
(* zone between calls and until the verdict.                               *)

Changes ==
  /\ call.step # "done"
  /\ call # Idle => changes < MaxChanges
  /\ changes' = IF call = Idle THEN 0 ELSE changes + 1

Serve(a) ==
  /\ Changes
  /\ site # a /\ site' = a
  /\ served' = IF call = Idle THEN {} ELSE served \cup {a}
  /\ UNCHANGED <<zone, bucket, call, zones>>

SetZone(z) ==
  /\ Changes
  /\ zone # z /\ zone' = z
  /\ zones' = IF call = Idle THEN {} ELSE zones \cup {z}
  /\ UNCHANGED <<site, bucket, call, served>>

Store(block, made) ==
  /\ call = Idle
  /\ bucket' = [block |-> block, made |-> made]
  /\ UNCHANGED <<site, zone, changes, call, served, zones>>

(* publish [--sign]: sign_entry makes the block for the gate and the       *)
(* receipt; NatsKvSchemaRegistry.put stores the entry without it.          *)
Publish(made) == Store(None, made)

(* A replicator decodes an entry that was stored elsewhere and puts it.    *)
Replicate(made) == Store(None, made)

(* A caller that stores envelope_with_signature's bytes itself.            *)
StoreEnvelope(block) == Store(block, block)

Others ==
  \/ \E a \in Answers : Serve(a)
  \/ \E z \in Zones : SetZone(z)
  \/ \E b \in (Blocks \ {Malformed}) \cup {None} : Publish(b) \/ Replicate(b)
  \/ \E b \in Blocks : StoreEnvelope(b)

Next == VerifierStep \/ Others \/ Return \/ \E r \in Requests : Start(r)

Spec == Init /\ [][Next]_vars
-----------------------------------------------------------------------------
(* Every variable has its type.                                            *)
TypeOK ==
  /\ site \in Answers /\ zone \in Zones
  /\ bucket \in Envelope \cup {None}
  /\ changes \in 0..MaxChanges
  /\ call \in Call \cup {Idle}
  /\ served \subseteq Answers /\ zones \subseteq Zones

Signed(block) == block \notin {None, Malformed}

(* The chain has no gap that a change between its requests could open: an  *)
(* entry accepted on its signature carries a signature by the one Ed25519  *)
(* key that some document names so, usable at the verifier's time; that    *)
(* document has the identifier asked for, is signed by a key it lists, and *)
(* was served during this very call; and if the verifier insists on an     *)
(* anchor, its fingerprint was the zone's only one at some time of it.     *)
AcceptedIsVouchedFor ==
  call.step = "done" /\ call.verdict = "valid" /\ Signed(call.envelope.block) =>
    LET r == call.request
        block == call.envelope.block
    IN \E d \in served \cap Documents :
         /\ d.id = r.id
         /\ \E i \in Mappings(d) : d.keys[i].key = d.sig.by
         /\ \E i \in Mappings(d) :
              LET e == d.keys[i] IN
              /\ e.kid = block.kid /\ e.alg = "Ed25519" /\ e.key = block.by
              /\ r.asOf # None =>
                   /\ e.from \in 0..r.asOf \cup {None}
                   /\ e.until \notin 0..r.asOf
              /\ \A j \in Mappings(d) \ {i} : d.keys[j].kid # block.kid
         /\ r.required =>
              \E z \in zones : ToSet(z) \ {Garbage} = {Fingerprint(d)}

(* A verifier that insists on an anchor is refused only for cause: it has  *)
(* no resolver, or every provider failed, or during the call the zone did  *)
(* not name the fetched document alone.  A provider that fails over to the *)
(* next, a record that is there twice and records of others are no cause.  *)
AnchorRefusedForCause ==
  call.step = "done" /\ call.verdict = "anchor" =>
    /\ call.request.required
    /\ \/ ~call.request.dns
       \/ call.failed = Providers
       \/ \E z \in zones : ToSet(z) \ {Garbage} # {Fingerprint(call.doc)}

(* "Enumerate the kids that resolve_kid would succeed on": the listing     *)
(* that an operator reads before switching to STRICT tells, of a document  *)
(* that passed its schema, exactly the kids that resolve, provided its     *)
(* times parse or a clock is given.                                        *)
ListIsWhatResolves ==
  call # Idle /\ call.doc # None /\ SchemaValid(call.doc) =>
    LET d == call.doc
        r == call.request
        times == UNION {{d.keys[i].from, d.keys[i].until} : i \in DOMAIN d.keys}
    IN r.asOf # None \/ Unparseable \notin times =>
         ListResolvableKids(d, r.asOf, r.purpose)
           = {k \in {d.keys[i].kid : i \in DOMAIN d.keys} :
                ResolveKid(d, k, r.asOf, r.purpose) # None}

(* entry_signing.py: the codec "is extended to round-trip the optional     *)
(* slot": an entry whose writer signed it is never refused as unsigned.    *)
SignedEntryStaysSigned ==
  call.step = "done" /\ call.verdict = "unsigned" => call.envelope.made = None

(* verify_bridge.py: the transport is "compatible with                     *)
(* HTTPSDocumentTransport.get": a well-signed document that the site       *)
(* served throughout the call verifies.                                    *)
BridgeVerifiesOverHttps ==
  call.step = "done" /\ call.request.flow = "bridge" /\ call.request.pin = None =>
    \A d \in Documents :
      served = {d} /\ VerifyDocument(d, AipId, None) = "verified"
        => call.verdict = "verified"

(* dns_anchor.py: "On any provider failure ... the resolver fails over to  *)
(* the next provider in the list."                                         *)
AnyProviderFailureFailsOver == call.step = "done" => call.verdict # "escaped"

(* kid_resolver.py: "Enumerate the kids that resolve_kid would succeed     *)
(* on", of any document that passed its schema.                            *)
ListedKidsResolve ==
  call # Idle /\ call.doc # None /\ SchemaValid(call.doc) =>
    \A k \in ListResolvableKids(call.doc, call.request.asOf, call.request.purpose) :
      ResolveKid(call.doc, k, call.request.asOf, call.request.purpose) # None
=============================================================================

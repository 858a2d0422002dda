--------------------------- MODULE DocumentProofs ---------------------------
(***************************************************************************)
(* Proofs about what is read from documents: EntryVerification and         *)
(* PersonaCli.                                                             *)
(*                                                                         *)
(* EntryVerification, for any documents, zones, signature blocks, requests *)
(* and DoH providers, and for any number of changes.  A verdict is about   *)
(* what the call fetched, and the site and the zone may have moved on      *)
(* since.  So the histories served and zones must hold what the call goes  *)
(* by: CallKnows says which of the bodies and record sets of this very     *)
(* call stand behind each of its steps.  The rest is about the operators:  *)
(* what verify_bridge, parse_anchor and resolve_kid promise of what they   *)
(* accept.                                                                 *)
(*                                                                         *)
(* PersonaCli, for any files that parse as its assumptions say.  A hash    *)
(* says what it was taken of (HashOf), and as long as nobody edits the     *)
(* file that is what the file holds, at some version (PinIsKnown).  That   *)
(* migrate changes the version alone rests on the chain having two steps:  *)
(* the recursive function Lifted is given outright (LiftedIsLifting).      *)
(***************************************************************************)
EXTENDS EntryVerification, PersonaCli, ListLemmas

(* What a call has behind it when it comes to a step.                      *)
CallKnows ==
  call # Idle =>
    LET r == call.request IN
    /\ call \in Call
    /\ site \in served /\ zone \in zones
    /\ call.doc # None => call.doc \in served
    /\ call.step # "done" => call.verdict = None
    /\ call.step = "get" => call.failed = 0
    /\ call.step = "dns" => call.doc # None /\ r.dns /\ call.failed < Providers
    /\ call.step = "judge" =>
         /\ call.doc # None
         /\ r.required => \E z \in zones : ParseAnchor(z) = Fingerprint(call.doc)

IInv == TypeOK /\ CallKnows /\ AcceptedIsVouchedFor /\ AnchorRefusedForCause
-----------------------------------------------------------------------------
(* The operators.                                                          *)

(* resolve_kid answers with the key of the one item that has the kid.      *)
LEMMA ResolvesToTheOne ==
  ASSUME NEW d, NEW kid, NEW asOf, NEW purpose, ResolveKid(d, kid, asOf, purpose) # None
  PROVE  /\ Mappings(d) = DOMAIN d.keys
         /\ \E i \in Mappings(d) :
              /\ Matches(d, kid) = {i}
              /\ d.keys[i].alg = "Ed25519" /\ d.keys[i].key \in Keys
              /\ InWindow(d.keys[i], asOf)
              /\ purpose \in {None, d.keys[i].purpose}
              /\ ResolveKid(d, kid, asOf, purpose) = d.keys[i].key
<1> DEFINE usable == {i \in Matches(d, kid) :
                        /\ d.keys[i].alg = "Ed25519" /\ d.keys[i].key \in Keys
                        /\ InWindow(d.keys[i], asOf)
                        /\ purpose \in {None, d.keys[i].purpose}}
<1>1. /\ Mappings(d) = DOMAIN d.keys
      /\ \E i \in usable : Matches(d, kid) = {i}
      /\ ResolveKid(d, kid, asOf, purpose) = d.keys[CHOOSE i \in usable : TRUE].key
  BY DEF ResolveKid
<1>2. PICK i \in usable : Matches(d, kid) = {i}
  BY <1>1
<1>3. (CHOOSE j \in usable : TRUE) = i
  BY <1>2
<1>4. i \in Mappings(d)
  BY <1>2 DEF Matches
<1> QED BY <1>1, <1>2, <1>3, <1>4

(* ... and answers whenever there is such an item.                         *)
LEMMA TheOneResolves ==
  ASSUME NEW d, NEW kid, NEW asOf, NEW purpose, NEW i, Mappings(d) = DOMAIN d.keys,
         Matches(d, kid) = {i}, d.keys[i].alg = "Ed25519", d.keys[i].key \in Keys,
         InWindow(d.keys[i], asOf), purpose \in {None, d.keys[i].purpose}
  PROVE  ResolveKid(d, kid, asOf, purpose) # None
<1> DEFINE usable == {j \in Matches(d, kid) :
                        /\ d.keys[j].alg = "Ed25519" /\ d.keys[j].key \in Keys
                        /\ InWindow(d.keys[j], asOf)
                        /\ purpose \in {None, d.keys[j].purpose}}
<1>1. usable = {i}
  OBVIOUS
<1>2. ResolveKid(d, kid, asOf, purpose) = d.keys[CHOOSE j \in usable : TRUE].key
  BY <1>1 DEF ResolveKid
<1>3. (CHOOSE j \in usable : TRUE) = i
  BY <1>1
<1> QED BY <1>2, <1>3, NoneIsNoValue

(* parse_anchor answers exactly when the records name one fingerprint.     *)
LEMMA AnchorIsTheOnlyOne ==
  ASSUME NEW z, NEW f, f # None
  PROVE  ParseAnchor(z) = f <=> ToSet(z) \ {Garbage} = {f}
<1> DEFINE found == ToSet(z) \ {Garbage}
<1>1. ASSUME found = {f} PROVE ParseAnchor(z) = f
  <2>1. (CHOOSE g \in found : TRUE) = f
    BY <1>1
  <2> QED BY <1>1, <2>1 DEF ParseAnchor
<1>2. ASSUME ParseAnchor(z) = f PROVE found = {f}
  <2>1. PICK g \in found : found = {g}
    BY <1>2 DEF ParseAnchor
  <2>2. (CHOOSE h \in found : TRUE) = g
    BY <2>1
  <2> QED BY <1>2, <2>1, <2>2 DEF ParseAnchor
<1> QED BY <1>1, <1>2

(* The key that verify_bridge checks the document's signature with is one  *)
(* that the document lists.                                                *)
LEMMA VerifiedListsItsKey ==
  ASSUME NEW d \in Documents, NEW docId, NEW expectedHash,
         VerifyDocument(d, docId, expectedHash) = "verified"
  PROVE  /\ SchemaValid(d) /\ d.id = docId
         /\ \E i \in Mappings(d) : d.keys[i].key = d.sig.by
<1>1. SchemaValid(d) /\ d.id = docId /\ DefaultPubkey(d) = d.sig.by
  BY DEF VerifyDocument
<1>2. DOMAIN d.keys = 1..Len(d.keys) /\ Len(d.keys) \in Nat
  BY DocumentsAreParsed
<1>3. Mappings(d) = DOMAIN d.keys /\ d.keys # <<>>
  BY <1>1 DEF SchemaValid
<1> DEFINE named == Matches(d, d.sig.kid)
<1>4. CASE named = {}
  <2>1. 1 \in DOMAIN d.keys
    <3>1. d.keys \in Seq(ToSet(d.keys)) /\ Len(d.keys) # 0
      BY <1>2, <1>3, DocumentsAreParsed
    <3> QED BY <1>2, <3>1
  <2> QED BY <1>1, <1>3, <1>4, <2>1 DEF DefaultPubkey
<1>5. CASE named # {}
  <2>1. named \subseteq Mappings(d) /\ named \subseteq Nat
    BY <1>2, <1>3 DEF Matches
  <2>2. Min(named) \in named
    BY <1>5, <2>1, MinIsLeast
  <2> QED BY <1>1, <1>5, <2>1, <2>2 DEF DefaultPubkey
<1> QED BY <1>1, <1>4, <1>5

(* The listing: the kids that name one item which qualifies.               *)
LEMMA ListedIsResolvable ==
  ASSUME NEW d \in Documents, NEW asOf, NEW purpose, SchemaValid(d),
         asOf # None \/ \A i \in DOMAIN d.keys : Unparseable \notin {d.keys[i].from, d.keys[i].until}
  PROVE  ListResolvableKids(d, asOf, purpose)
           = {k \in {d.keys[i].kid : i \in DOMAIN d.keys} : ResolveKid(d, k, asOf, purpose) # None}
<1> DEFINE Kids == {d.keys[i].kid : i \in DOMAIN d.keys}
           Listed == {i \in Mappings(d) :
                        /\ Matches(d, d.keys[i].kid) = {i}
                        /\ d.keys[i].alg = "Ed25519" /\ d.keys[i].key \in Keys
                        /\ asOf # None => InWindow(d.keys[i], asOf)
                        /\ purpose \in {None, d.keys[i].purpose}}
<1>1. Mappings(d) = DOMAIN d.keys
  BY DEF SchemaValid
<1>2. ListResolvableKids(d, asOf, purpose) = {d.keys[i].kid : i \in Listed}
  BY DEF ListResolvableKids
<1>3. \A i \in DOMAIN d.keys : asOf = None => InWindow(d.keys[i], asOf)
  BY DEF InWindow
<1>4. ASSUME NEW i \in Listed
      PROVE  d.keys[i].kid \in Kids /\ ResolveKid(d, d.keys[i].kid, asOf, purpose) # None
  <2>1. InWindow(d.keys[i], asOf)
    BY <1>1, <1>3
  <2> QED BY <1>1, <2>1, TheOneResolves
<1>5. ASSUME NEW k \in Kids, ResolveKid(d, k, asOf, purpose) # None
      PROVE  k \in {d.keys[i].kid : i \in Listed}
  <2>1. PICK i \in Mappings(d) :
          /\ Matches(d, k) = {i}
          /\ d.keys[i].alg = "Ed25519" /\ d.keys[i].key \in Keys
          /\ InWindow(d.keys[i], asOf)
          /\ purpose \in {None, d.keys[i].purpose}
    BY <1>5, ResolvesToTheOne
  <2>2. d.keys[i].kid = k
    BY <2>1 DEF Matches
  <2> QED BY <2>1, <2>2
<1> HIDE DEF Kids, Listed
<1>6. {d.keys[i].kid : i \in Listed} = {k \in Kids : ResolveKid(d, k, asOf, purpose) # None}
  BY <1>4, <1>5
<1> QED BY <1>2, <1>6 DEF Kids
-----------------------------------------------------------------------------
(* The steps of a call.                                                    *)

(* The fields of a call under way.                                         *)
LEMMA ActiveCall ==
  ASSUME IInv, call # Idle
  PROVE  /\ call \in Call
         /\ call.step \in {"get", "dns", "judge", "done"} /\ call.request \in Requests
         /\ call.envelope \in Envelope /\ call.doc \in Documents \cup {None}
         /\ call.failed \in 0..Providers
         /\ call.verdict \in Errors \cup {"valid", "invalid", "verified", None}
BY DEF IInv, TypeOK, Call

(* Only a call that ended has something to answer for.                     *)
LEMMA UndecidedIsFine ==
  ASSUME TypeOK', CallKnows', call'.step # "done"
  PROVE  IInv'
BY DEF IInv, AcceptedIsVouchedFor, AnchorRefusedForCause

(* What every end has in common.                                           *)
LEMMA Ends ==
  ASSUME IInv, call # Idle, call.step # "done",
         NEW verdict \in Errors \cup {"valid", "invalid", "verified"}, End(verdict), Keeps
  PROVE  /\ TypeOK' /\ CallKnows'
         /\ call'.step = "done" /\ call'.verdict = verdict
         /\ call'.request = call.request /\ call'.envelope = call.envelope
         /\ call'.doc = call.doc /\ call'.failed = call.failed
         /\ zones' = zones /\ served' = served
<1>1. /\ call \in Call
      /\ call' = [call EXCEPT !.step = "done", !.verdict = verdict]
      /\ UNCHANGED <<site, zone, bucket, changes, served, zones>>
  BY ActiveCall DEF End, Keeps
<1>2. call' \in Call
  BY <1>1 DEF Call
<1>3. /\ call'.step = "done" /\ call'.verdict = verdict
      /\ call'.request = call.request /\ call'.envelope = call.envelope
      /\ call'.doc = call.doc /\ call'.failed = call.failed
  BY <1>1 DEF Call
<1>4. TypeOK'
  BY <1>1, <1>2 DEF IInv, TypeOK, Envelope
<1>5. CallKnows'
  BY <1>1, <1>2, <1>3 DEF IInv, CallKnows
<1> QED BY <1>1, <1>3, <1>4, <1>5

(* An end with a verdict that neither invariant speaks of.                 *)
LEMMA EndsOtherwise ==
  ASSUME IInv, call # Idle, call.step # "done",
         NEW verdict \in Errors \cup {"invalid", "verified"}, verdict # "anchor",
         End(verdict), Keeps
  PROVE  IInv'
<1>1. verdict # "valid"
  BY DEF Errors
<1> QED BY <1>1, Ends DEF IInv, AcceptedIsVouchedFor, AnchorRefusedForCause

(* A refusal over the anchor, for a cause.                                 *)
LEMMA EndsRefused ==
  ASSUME IInv, call # Idle, call.step # "done", End("anchor"), Keeps,
         call.request.required,
         \/ ~call.request.dns
         \/ \E z \in zones : ToSet(z) \ {Garbage} # {Fingerprint(call.doc)}
  PROVE  IInv'
<1>1. "anchor" \in Errors
  BY DEF Errors
<1>2. /\ TypeOK' /\ CallKnows'
      /\ call'.step = "done" /\ call'.verdict = "anchor"
      /\ call'.request = call.request /\ call'.doc = call.doc /\ zones' = zones
  BY <1>1, Ends
<1>3. AnchorRefusedForCause'
  BY <1>2 DEF AnchorRefusedForCause, Fingerprint
<1> QED BY <1>2, <1>3 DEF IInv, AcceptedIsVouchedFor

LEMMA StartKeeps == ASSUME IInv, NEW r \in Requests, Start(r) PROVE IInv'
<1>1. /\ bucket \in Envelope /\ served' = {site} /\ zones' = {zone}
      /\ UNCHANGED <<site, zone, bucket, changes>>
  BY DEF Start, IInv, TypeOK
<1> DEFINE broken == bucket.block = Malformed
<1>2. call' = [step |-> IF broken THEN "done" ELSE "get", request |-> r, envelope |-> bucket,
               doc |-> None, failed |-> 0, verdict |-> IF broken THEN "malformed-block" ELSE None]
  BY DEF Start
<1> HIDE DEF broken
<1>3. call' \in Call
  BY <1>1, <1>2, Bounds DEF Call, Errors
<1>4. TypeOK'
  BY <1>1, <1>3 DEF IInv, TypeOK, Envelope
<1>5. CallKnows'
  BY <1>1, <1>2, <1>3 DEF CallKnows
<1>6. call'.step = "done" => call'.verdict = "malformed-block"
  BY <1>2
<1> QED BY <1>4, <1>5, <1>6 DEF IInv, AcceptedIsVouchedFor, AnchorRefusedForCause

LEMMA ReturnKeeps == ASSUME IInv, Return PROVE IInv'
<1>1. /\ call' = Idle /\ served' = {} /\ zones' = {} /\ changes' = 0
      /\ UNCHANGED <<site, zone, bucket>>
  BY DEF Return
<1>2. TypeOK'
  BY <1>1, Bounds DEF IInv, TypeOK, Envelope
<1>3. call'.step # "done"
  BY <1>1 DEF Idle
<1> QED BY <1>1, <1>2, <1>3, UndecidedIsFine DEF CallKnows, Idle

LEMMA GetDocumentKeeps == ASSUME IInv, GetDocument PROVE IInv'
<1> DEFINE r == call.request
<1>1. call.step = "get" /\ call # Idle /\ Keeps
  BY DEF GetDocument, Idle
<1>2. CASE site \in {NotAnObject, Unreachable}
  <2>1. End("transport") /\ "transport" \in Errors
    BY <1>2 DEF GetDocument, Errors
  <2> QED BY <1>1, <2>1, EndsOtherwise
<1>3. CASE site \notin {NotAnObject, Unreachable} /\ r.required /\ ~r.dns
  <2>1. End("anchor")
    BY <1>3 DEF GetDocument
  <2> QED BY <1>1, <1>3, <2>1, EndsRefused
<1>4. CASE site \notin {NotAnObject, Unreachable} /\ ~(r.required /\ ~r.dns)
  <2>1. /\ call' = [call EXCEPT !.doc = site, !.step = IF r.dns THEN "dns" ELSE "judge"]
        /\ UNCHANGED <<site, zone, bucket, changes, served, zones>>
    BY <1>4 DEF GetDocument, Keeps
  <2>2. call \in Call /\ site \in Documents /\ call.failed = 0 /\ call.verdict = None /\ site \in served
    BY <1>1, <1>4, ActiveCall DEF IInv, TypeOK, Answers, CallKnows
  <2>3. call' \in Call
    BY <2>1, <2>2 DEF Call
  <2>4. /\ call'.doc = site /\ call'.step = IF r.dns THEN "dns" ELSE "judge"
        /\ call'.request = r /\ call'.failed = 0 /\ call'.verdict = None
    BY <2>1, <2>2 DEF Call
  <2>5. TypeOK'
    BY <2>1, <2>3 DEF IInv, TypeOK, Envelope
  <2>6. 0 < Providers
    BY Bounds
  <2>7. site # None
    BY <2>2, NoneIsNoValue
  <2>8. CallKnows'
    BY <1>1, <1>4, <2>1, <2>2, <2>3, <2>4, <2>6, <2>7 DEF IInv, CallKnows
  <2>9. call'.step # "done"
    BY <2>4
  <2> QED BY <2>5, <2>8, <2>9, UndecidedIsFine
<1> QED BY <1>2, <1>3, <1>4

(* What VerifyDocument may answer.                                         *)
LEMMA VerdictsOfTheBridge ==
  ASSUME NEW d, NEW docId, NEW expectedHash
  PROVE  /\ VerifyDocument(d, docId, expectedHash) \in Errors \cup {"verified"}
         /\ VerifyDocument(d, docId, expectedHash) # "anchor"
BY DEF VerifyDocument, Errors

LEMMA GetAndVerifyKeeps == ASSUME IInv, GetAndVerify PROVE IInv'
<1> DEFINE r == call.request
           v == VerifyDocument(site, r.id, r.pin)
<1>1. call.step = "get" /\ call # Idle /\ Keeps
  BY DEF GetAndVerify, Idle
<1>2. CASE r.id # Url \/ site \in {NotAnObject, Unreachable}
  <2>1. End("transport") /\ "transport" \in Errors
    BY <1>2 DEF GetAndVerify, Errors
  <2> QED BY <1>1, <2>1, EndsOtherwise
<1>3. CASE ~(r.id # Url \/ site \in {NotAnObject, Unreachable})
  <2>1. /\ call' = [call EXCEPT !.doc = site, !.step = "done", !.verdict = v]
        /\ UNCHANGED <<site, zone, bucket, changes, served, zones>>
    BY <1>3 DEF GetAndVerify, Keeps
  <2>2. v \in Errors \cup {"verified"} /\ v # "anchor" /\ v # "valid"
    BY VerdictsOfTheBridge DEF Errors
  <2> HIDE DEF v
  <2>3. call \in Call /\ site \in Documents /\ site \in served
    BY <1>1, <1>3, ActiveCall DEF IInv, TypeOK, Answers, CallKnows
  <2>4. call' \in Call
    BY <2>1, <2>2, <2>3 DEF Call
  <2>5. call'.doc = site /\ call'.step = "done" /\ call'.verdict = v
    BY <2>1, <2>3 DEF Call
  <2>6. TypeOK'
    BY <2>1, <2>4 DEF IInv, TypeOK, Envelope
  <2>7. CallKnows'
    BY <1>1, <2>1, <2>3, <2>4, <2>5 DEF IInv, CallKnows
  <2> QED BY <2>2, <2>5, <2>6, <2>7 DEF IInv, AcceptedIsVouchedFor, AnchorRefusedForCause
<1> QED BY <1>2, <1>3

LEMMA ProviderFailsKeeps == ASSUME IInv, ProviderFails PROVE IInv'
<1> DEFINE r == call.request
           failed == call.failed + 1
<1>1. call.step = "dns" /\ call # Idle
  BY DEF ProviderFails, Idle
<1>2. /\ call \in Call /\ call.doc # None /\ call.doc \in served /\ r.dns
      /\ call.verdict = None /\ site \in served /\ zone \in zones
      /\ call.failed \in Nat /\ Providers \in Nat /\ failed \in 0..Providers
  BY <1>1, ActiveCall, Bounds DEF IInv, CallKnows
<1>3. /\ call' = [call EXCEPT
             !.failed  = failed,
             !.step    = IF ~Exhausted(failed) THEN @ ELSE IF r.required THEN "done" ELSE "judge",
             !.verdict = IF Exhausted(failed) /\ r.required THEN "anchor" ELSE @]
      /\ UNCHANGED <<site, zone, bucket, changes, served, zones>>
  BY DEF ProviderFails, Keeps
<1>4. /\ call'.failed = failed /\ call'.request = r /\ call'.doc = call.doc
      /\ call'.step = IF ~Exhausted(failed) THEN "dns" ELSE IF r.required THEN "done" ELSE "judge"
      /\ call'.verdict = IF Exhausted(failed) /\ r.required THEN "anchor" ELSE None
  BY <1>1, <1>2, <1>3 DEF Call
<1> HIDE DEF failed
<1>5. call' \in Call
  BY <1>1, <1>2, <1>3 DEF Call, Errors
<1>6. TypeOK'
  BY <1>3, <1>5 DEF IInv, TypeOK, Envelope
<1>7. CASE ~Exhausted(failed)
  <2>1. failed < Providers /\ call'.step = "dns" /\ call'.verdict = None
    BY <1>2, <1>4, <1>7 DEF Exhausted
  <2>2. CallKnows'
    BY <1>2, <1>3, <1>4, <1>5, <2>1 DEF CallKnows
  <2> QED BY <1>6, <2>1, <2>2, UndecidedIsFine
<1>8. CASE Exhausted(failed) /\ r.required
  <2>1. call'.step = "done" /\ call'.verdict = "anchor" /\ call'.failed = Providers
    BY <1>4, <1>8 DEF Exhausted
  <2>2. CallKnows'
    BY <1>2, <1>3, <1>4, <1>5, <2>1 DEF CallKnows
  <2> QED BY <1>4, <1>6, <1>8, <2>1, <2>2 DEF IInv, AcceptedIsVouchedFor, AnchorRefusedForCause
<1>9. CASE Exhausted(failed) /\ ~r.required
  <2>1. call'.step = "judge" /\ call'.verdict = None
    BY <1>4, <1>9
  <2>2. CallKnows'
    BY <1>2, <1>3, <1>4, <1>5, <1>9, <2>1 DEF CallKnows
  <2> QED BY <1>6, <2>1, <2>2, UndecidedIsFine
<1> QED BY <1>7, <1>8, <1>9

LEMMA ProviderFailureEscapesKeeps == ASSUME IInv, ProviderFailureEscapes PROVE IInv'
<1>1. call.step = "dns" /\ call # Idle /\ End("escaped") /\ Keeps /\ "escaped" \in Errors
  BY DEF ProviderFailureEscapes, Idle, Errors
<1> QED BY <1>1, EndsOtherwise

LEMMA ProviderAnswersKeeps == ASSUME IInv, ProviderAnswers PROVE IInv'
<1> DEFINE d == call.doc
           found == ParseAnchor(zone)
<1>1. call.step = "dns" /\ call # Idle /\ Keeps
  BY DEF ProviderAnswers, Idle
<1>2. /\ call \in Call /\ d # None /\ d \in Documents /\ d \in served
      /\ call.verdict = None /\ site \in served /\ zone \in zones
  BY <1>1, ActiveCall DEF IInv, CallKnows
<1>3. CASE AcceptsAnchor(found)
  <2>1. call' = [call EXCEPT !.step = "judge"] /\ UNCHANGED <<site, zone, bucket, changes, served, zones>>
    BY <1>3 DEF ProviderAnswers, Keeps
  <2>2. call' \in Call
    BY <1>2, <2>1 DEF Call
  <2>3. call'.step = "judge" /\ call'.doc = d /\ call'.request = call.request /\ call'.verdict = None
    BY <1>2, <2>1 DEF Call
  <2>4. TypeOK'
    BY <2>1, <2>2 DEF IInv, TypeOK, Envelope
  <2>5. call.request.required => ParseAnchor(zone) = Fingerprint(d)
    BY <1>3 DEF AcceptsAnchor
  <2>6. CallKnows'
    BY <1>2, <2>1, <2>2, <2>3, <2>5 DEF CallKnows, ParseAnchor, Fingerprint
  <2>7. call'.step # "done"
    BY <2>3
  <2> QED BY <2>4, <2>6, <2>7, UndecidedIsFine
<1>4. CASE ~AcceptsAnchor(found)
  <2>1. End("anchor")
    BY <1>4 DEF ProviderAnswers
  <2>2. call.request.required /\ ParseAnchor(zone) # Fingerprint(d)
    BY <1>4 DEF AcceptsAnchor
  <2>3. ToSet(zone) \ {Garbage} # {Fingerprint(d)}
    BY <1>2, <2>2, AnchorIsTheOnlyOne, NoneIsNoFingerprint
  <2> QED BY <1>1, <1>2, <2>1, <2>2, <2>3, EndsRefused
<1> QED BY <1>3, <1>4

(* verify_entry_signature accepts on what the call knows.                  *)
LEMMA AcceptanceIsVouchedFor ==
  ASSUME IInv, call.step = "judge", call # Idle,
         VerifyDocument(call.doc, call.request.id, None) = "verified",
         Signed(call.envelope.block),
         ResolveKid(call.doc, call.envelope.block.kid, call.request.asOf, call.request.purpose) # None,
         ResolveKid(call.doc, call.envelope.block.kid, call.request.asOf, call.request.purpose)
           = call.envelope.block.by
  PROVE  LET r == call.request
             block == call.envelope.block
         IN \E d \in served \cap Documents :
              /\ d.id = r.id
              /\ \E i \in Mappings(d) : d.keys[i].key = d.sig.by
              /\ \E i \in Mappings(d) :
                   LET e == d.keys[i] IN
                   /\ e.kid = block.kid /\ e.alg = "Ed25519" /\ e.key = block.by
                   /\ r.asOf # None =>
                        /\ e.from \in 0..r.asOf \cup {None}
                        /\ e.until \notin 0..r.asOf
                   /\ \A j \in Mappings(d) \ {i} : d.keys[j].kid # block.kid
              /\ r.required =>
                   \E z \in zones : ToSet(z) \ {Garbage} = {Fingerprint(d)}
<1> DEFINE d == call.doc
           r == call.request
           kid == call.envelope.block.kid
<1>1. d \in Documents /\ d \in served /\ r \in Requests
  BY ActiveCall DEF IInv, CallKnows
<1>2. d.id = r.id /\ \E i \in Mappings(d) : d.keys[i].key = d.sig.by
  BY <1>1, VerifiedListsItsKey
<1>3. PICK i \in Mappings(d) :
        /\ Matches(d, kid) = {i}
        /\ d.keys[i].alg = "Ed25519" /\ InWindow(d.keys[i], r.asOf)
        /\ ResolveKid(d, kid, r.asOf, r.purpose) = d.keys[i].key
  BY ResolvesToTheOne
<1>4. d.keys[i].kid = kid /\ \A j \in Mappings(d) \ {i} : d.keys[j].kid # kid
  BY <1>3 DEF Matches
<1>5. ASSUME r.asOf # None
      PROVE  d.keys[i].from \in 0..r.asOf \cup {None} /\ d.keys[i].until \notin 0..r.asOf
  <2>1. r.asOf \in Nat
    BY <1>1, <1>5, ClocksAreInstants
  <2>2. {d.keys[i].from, d.keys[i].until} \subseteq Nat \cup {None, Unparseable}
    BY <1>1, DocumentsAreParsed
  <2>3. /\ Unparseable \notin {d.keys[i].from, d.keys[i].until}
        /\ d.keys[i].from = None \/ d.keys[i].from <= r.asOf
        /\ d.keys[i].until = None \/ r.asOf < d.keys[i].until
    BY <1>3, <1>5 DEF InWindow
  <2>4. d.keys[i].from \in 0..r.asOf \cup {None}
    <3> DEFINE t == d.keys[i].from
    <3>1. t \in Nat \cup {None} /\ (t = None \/ t <= r.asOf)
      BY <2>2, <2>3
    <3> HIDE DEF t
    <3>2. t \in 0..r.asOf \cup {None}
      BY <2>1, <3>1
    <3> QED BY <3>2 DEF t
  <2>5. d.keys[i].until \notin 0..r.asOf
    <3> DEFINE t == d.keys[i].until
    <3>1. t \in Nat \cup {None} /\ (t = None \/ r.asOf < t)
      BY <2>2, <2>3
    <3> HIDE DEF t
    <3>2. t \notin 0..r.asOf
      BY <2>1, <3>1, NoneIsNoValue
    <3> QED BY <3>2 DEF t
  <2> QED BY <2>4, <2>5
<1>6. ASSUME r.required PROVE \E z \in zones : ToSet(z) \ {Garbage} = {Fingerprint(d)}
  <2>1. PICK z \in zones : ParseAnchor(z) = Fingerprint(d)
    BY <1>6 DEF IInv, CallKnows
  <2> QED BY <1>1, <2>1, AnchorIsTheOnlyOne, NoneIsNoFingerprint
<1> HIDE DEF d, r, kid
<1>7. \E j \in Mappings(d) :
        /\ d.keys[j].kid = kid /\ d.keys[j].alg = "Ed25519" /\ d.keys[j].key = call.envelope.block.by
        /\ r.asOf # None =>
             /\ d.keys[j].from \in 0..r.asOf \cup {None}
             /\ d.keys[j].until \notin 0..r.asOf
        /\ \A n \in Mappings(d) \ {j} : d.keys[n].kid # kid
  BY <1>3, <1>4, <1>5 DEF d, r, kid
<1> QED BY <1>1, <1>2, <1>6, <1>7 DEF d, r, kid

LEMMA JudgeKeeps == ASSUME IInv, Judge PROVE IInv'
<1> DEFINE r == call.request
           block == call.envelope.block
           aip == VerifyDocument(call.doc, r.id, None)
           key == ResolveKid(call.doc, block.kid, r.asOf, r.purpose)
           verdict == IF aip # "verified" THEN aip
                      ELSE IF block = None THEN IF r.strict THEN "unsigned" ELSE "valid"
                      ELSE IF key = None THEN "kid"
                      ELSE IF key = block.by THEN "valid" ELSE "invalid"
<1>1. call.step = "judge" /\ call # Idle /\ Keeps /\ End(verdict)
  BY DEF Judge, Idle
<1>2. aip \in Errors \cup {"verified"} /\ aip # "anchor"
  BY VerdictsOfTheBridge
<1>3. /\ verdict \in Errors \cup {"valid", "invalid", "verified"}
      /\ verdict # "anchor"
      /\ verdict = "valid" /\ Signed(block) => aip = "verified" /\ key # None /\ key = block.by
  BY <1>2 DEF Errors, Signed
<1>4. CASE verdict # "valid"
  BY <1>1, <1>3, <1>4, EndsOtherwise
<1>5. CASE verdict = "valid"
  <2> HIDE DEF verdict
  <2>1. /\ TypeOK' /\ CallKnows'
        /\ call'.step = "done" /\ call'.verdict = "valid"
        /\ call'.request = r /\ call'.envelope = call.envelope
        /\ zones' = zones /\ served' = served
    BY <1>1, <1>5, Ends
  <2>2. CASE ~Signed(block)
    BY <2>1, <2>2 DEF IInv, AcceptedIsVouchedFor, AnchorRefusedForCause
  <2>3. CASE Signed(block)
    <3>1. aip = "verified" /\ key # None /\ key = block.by
      BY <1>3, <1>5, <2>3
    <3>2. AcceptedIsVouchedFor'
      BY <1>1, <2>1, <2>3, <3>1, AcceptanceIsVouchedFor
         DEF AcceptedIsVouchedFor, Fingerprint, Mappings, Signed
    <3> QED BY <2>1, <3>2 DEF IInv, AnchorRefusedForCause
  <2> QED BY <2>2, <2>3
<1> QED BY <1>4, <1>5
-----------------------------------------------------------------------------
(* Everyone else.                                                          *)

LEMMA CountsChanges == ASSUME IInv, Changes PROVE changes' \in 0..MaxChanges
BY Bounds DEF Changes, IInv, TypeOK

LEMMA ServeKeeps == ASSUME IInv, NEW a \in Answers, Serve(a) PROVE IInv'
<1>1. /\ site' = a /\ UNCHANGED <<zone, bucket, call, zones>> /\ call.step # "done"
      /\ served' = IF call = Idle THEN {} ELSE served \cup {a}
  BY DEF Serve, Changes
<1>2. TypeOK'
  BY <1>1, CountsChanges DEF Serve, IInv, TypeOK, Envelope
<1>3. CallKnows'
  BY <1>1 DEF IInv, CallKnows
<1> QED BY <1>1, <1>2, <1>3, UndecidedIsFine

LEMMA SetZoneKeeps == ASSUME IInv, NEW z \in Zones, SetZone(z) PROVE IInv'
<1>1. /\ zone' = z /\ UNCHANGED <<site, bucket, call, served>> /\ call.step # "done"
      /\ zones' = IF call = Idle THEN {} ELSE zones \cup {z}
  BY DEF SetZone, Changes
<1>2. TypeOK'
  BY <1>1, CountsChanges DEF SetZone, IInv, TypeOK, Envelope
<1>3. CallKnows'
  BY <1>1 DEF IInv, CallKnows, Fingerprint
<1> QED BY <1>1, <1>2, <1>3, UndecidedIsFine

LEMMA StoreKeeps ==
  ASSUME IInv, NEW block \in Blocks \cup {None}, NEW made \in Blocks \cup {None}, Store(block, made)
  PROVE  IInv'
<1>1. /\ call = Idle /\ bucket' = [block |-> block, made |-> made]
      /\ UNCHANGED <<site, zone, changes, call, served, zones>>
  BY DEF Store
<1>2. TypeOK'
  BY <1>1 DEF IInv, TypeOK, Envelope
<1>3. CallKnows' /\ call'.step # "done"
  BY <1>1 DEF CallKnows, Idle
<1> QED BY <1>2, <1>3, UndecidedIsFine

LEMMA InitEstablishes == Init => IInv
<1> SUFFICES ASSUME Init PROVE IInv
  OBVIOUS
<1>1. TypeOK
  BY Bounds DEF Init, TypeOK
<1>2. call = Idle /\ call.step # "done"
  BY DEF Init, Idle
<1> QED BY <1>1, <1>2 DEF IInv, CallKnows, AcceptedIsVouchedFor, AnchorRefusedForCause

LEMMA StepPreserves == IInv /\ [Next]_vars => IInv'
<1> SUFFICES ASSUME IInv, [Next]_vars PROVE IInv'
  OBVIOUS
<1>1. CASE VerifierStep
  BY <1>1, GetDocumentKeeps, GetAndVerifyKeeps, ProviderFailsKeeps,
     ProviderFailureEscapesKeeps, ProviderAnswersKeeps, JudgeKeeps DEF VerifierStep
<1>2. CASE Others
  <2>1. CASE \E a \in Answers : Serve(a)
    BY <2>1, ServeKeeps
  <2>2. CASE \E z \in Zones : SetZone(z)
    BY <2>2, SetZoneKeeps
  <2>3. CASE \E b \in (Blocks \ {Malformed}) \cup {None} : Publish(b) \/ Replicate(b)
    BY <2>3, StoreKeeps DEF Publish, Replicate
  <2>4. CASE \E b \in Blocks : StoreEnvelope(b)
    BY <2>4, StoreKeeps DEF StoreEnvelope
  <2> QED BY <1>2, <2>1, <2>2, <2>3, <2>4 DEF Others
<1>3. CASE Return
  BY <1>3, ReturnKeeps
<1>4. CASE \E r \in Requests : Start(r)
  BY <1>4, StartKeeps
<1>5. CASE UNCHANGED vars
  BY <1>5 DEF vars, IInv, TypeOK, CallKnows, AcceptedIsVouchedFor, AnchorRefusedForCause,
              Fingerprint, Mappings, Signed, Envelope
<1> QED BY <1>1, <1>2, <1>3, <1>4, <1>5 DEF Next

(* IInv holds in every reachable state.                                    *)
THEOREM Inductive == Spec => []IInv
<1> QED BY InitEstablishes, StepPreserves, PTL DEF Spec

(* An entry that verify_entry_signature accepts on its signature is        *)
(* vouched for by one document and, where an anchor is required, one       *)
(* record set that were there during the call, however the site and the    *)
(* zone change between its requests.                                       *)
THEOREM AcceptanceHasNoGap == Spec => []AcceptedIsVouchedFor
<1>1. IInv => AcceptedIsVouchedFor
  BY DEF IInv
<1> QED BY <1>1, Inductive, PTL

(* fetch_aip_document refuses over the anchor only without a resolver,     *)
(* with every provider failing, or on a zone that did not name the         *)
(* document alone, for any number of providers and any records.            *)
THEOREM RefusalHasACause == Spec => []AnchorRefusedForCause
<1>1. IInv => AnchorRefusedForCause
  BY DEF IInv
<1> QED BY <1>1, Inductive, PTL

(* list_resolvable_kids lists the kids that resolve_kid succeeds on, for   *)
(* every document that passed its schema, every clock and every purpose.   *)
THEOREM ListingIsTrue == Spec => []ListIsWhatResolves
<1>1. IInv => ListIsWhatResolves
  <2> SUFFICES ASSUME IInv, call # Idle, call.doc # None, SchemaValid(call.doc)
               PROVE  LET d == call.doc
                          r == call.request
                          times == UNION {{d.keys[i].from, d.keys[i].until} : i \in DOMAIN d.keys}
                      IN r.asOf # None \/ Unparseable \notin times =>
                           ListResolvableKids(d, r.asOf, r.purpose)
                             = {k \in {d.keys[i].kid : i \in DOMAIN d.keys} :
                                  ResolveKid(d, k, r.asOf, r.purpose) # None}
    BY DEF ListIsWhatResolves
  <2>1. call.doc \in Documents
    BY ActiveCall
  <2> QED BY <2>1, ListedIsResolvable
<1> QED BY <1>1, Inductive, PTL
-----------------------------------------------------------------------------
(* The persona commands.                                                   *)

(* Definitions that files hold, with what migrate makes of them.           *)
Lifts(c)    == {[c EXCEPT !.version = v] : v \in VersionList}
Written     == Files \ {Missing, NoFence, NoMapping, BadYaml}
Definitions == Written \cup UNION {Lifts(c) : c \in Written}

WellFormed(d) ==
  /\ d = [name |-> d.name, tools |-> d.tools, version |-> d.version,
          identity |-> d.identity, extra |-> d.extra]
  /\ d.name # Absent => d.name \in DOMAIN Text
  /\ HasTools(d) =>
       /\ d.tools = [items |-> d.tools.items, listed |-> d.tools.listed]
       /\ \A i \in DOMAIN d.tools.items : d.tools.items[i] \in DOMAIN Text
  /\ HasIdentity(d) =>
       d.identity = [pins |-> d.identity.pins, extra |-> d.identity.extra]

(* A mapping whose version is replaced.                                    *)
LEMMA OtherVersion ==
  ASSUME NEW d, WellFormed(d), NEW v, NEW u
  PROVE  LET e == [d EXCEPT !.version = v] IN
         /\ WellFormed(e) /\ e.version = v
         /\ e.name = d.name /\ e.tools = d.tools /\ e.identity = d.identity /\ e.extra = d.extra
         /\ [e EXCEPT !.version = u] = [d EXCEPT !.version = u]
         /\ d.version = v => e = d
<1> DEFINE e == [d EXCEPT !.version = v]
<1>1. d = [name |-> d.name, tools |-> d.tools, version |-> d.version,
           identity |-> d.identity, extra |-> d.extra]
  BY DEF WellFormed
<1>2. e = [name |-> d.name, tools |-> d.tools, version |-> v,
           identity |-> d.identity, extra |-> d.extra]
  BY <1>1
<1>3. /\ e.name = d.name /\ e.tools = d.tools /\ e.identity = d.identity /\ e.extra = d.extra
      /\ e.version = v
  BY <1>2
<1>4. [e EXCEPT !.version = u] = [d EXCEPT !.version = u]
  BY <1>1, <1>2
<1>5. d.version = v => e = d
  BY <1>1, <1>2
<1>6. WellFormed(e)
  <2>1. (HasTools(e) <=> HasTools(d)) /\ (HasIdentity(e) <=> HasIdentity(d))
    BY <1>3 DEF HasTools, HasIdentity
  <2>2. e = [name |-> e.name, tools |-> e.tools, version |-> e.version,
             identity |-> e.identity, extra |-> e.extra]
    BY <1>2, <1>3
  <2> HIDE DEF e
  <2> QED BY <1>3, <2>1, <2>2 DEF WellFormed
<1> QED BY <1>3, <1>4, <1>5, <1>6

LEMMA DefinitionsAreWellFormed ==
  ASSUME NEW d \in Definitions
  PROVE  WellFormed(d)
<1>1. \A c \in Written : WellFormed(c)
  BY FilesAreParsed DEF Written, WellFormed, HasTools, HasIdentity
<1>2. CASE d \in Written
  BY <1>1, <1>2
<1>3. CASE d \notin Written
  <2>1. PICK c \in Written, v \in VersionList : d = [c EXCEPT !.version = v]
    BY <1>3 DEF Definitions, Lifts
  <2> QED BY <1>1, <2>1, OtherVersion
<1> QED BY <1>2, <1>3

(* Lifting stays among the definitions.                                    *)
LEMMA LiftsAreDefinitions ==
  ASSUME NEW d \in Definitions, NEW v \in VersionList
  PROVE  /\ [d EXCEPT !.version = v] \in Definitions
         /\ [d EXCEPT !.version = v] \notin {Null, Missing, NoFence, NoMapping, BadYaml}
         /\ Extractable([d EXCEPT !.version = v]) =>
              /\ Canonical([d EXCEPT !.version = v]) # Null
              /\ HasTools(Canonical([d EXCEPT !.version = v]))
              /\ HasIdentity(Canonical([d EXCEPT !.version = v]))
<1>1. PICK c \in Written : [d EXCEPT !.version = v] = [c EXCEPT !.version = v]
  <2>1. CASE d \in Written
    BY <2>1
  <2>2. CASE d \notin Written
    <3>1. PICK c \in Written, u \in VersionList : d = [c EXCEPT !.version = u]
      BY <2>2 DEF Definitions, Lifts
    <3>2. WellFormed(c)
      BY DefinitionsAreWellFormed DEF Definitions
    <3>3. [[c EXCEPT !.version = u] EXCEPT !.version = v] = [c EXCEPT !.version = v]
      BY <3>2, OtherVersion
    <3> QED BY <3>1, <3>3
  <2> QED BY <2>1, <2>2
<1>2. [c EXCEPT !.version = v] \in Lifts(c)
  BY DEF Lifts
<1>3. [c EXCEPT !.version = v] \in Definitions
  BY <1>2 DEF Definitions
<1> QED BY <1>1, <1>3, SubsetsAreFit DEF Written

LEMMA DefinitionsAreNoSentinels ==
  ASSUME NEW d \in Definitions
  PROVE  /\ d \notin {Null, Missing, NoFence, NoMapping, BadYaml}
         /\ Extractable(d) =>
              /\ Canonical(d) # Null
              /\ HasTools(Canonical(d)) /\ HasIdentity(Canonical(d))
<1>1. WellFormed(d)
  BY DefinitionsAreWellFormed
<1>2. CASE d.version \in VersionList
  <2>1. d = [d EXCEPT !.version = d.version]
    BY <1>1, OtherVersion
  <2> DEFINE e == [d EXCEPT !.version = d.version]
  <2>2. /\ e \notin {Null, Missing, NoFence, NoMapping, BadYaml}
        /\ Extractable(e) =>
             /\ Canonical(e) # Null
             /\ HasTools(Canonical(e)) /\ HasIdentity(Canonical(e))
    BY <1>2, LiftsAreDefinitions
  <2> QED BY <2>1, <2>2
<1>3. CASE d.version \notin VersionList
  <2>1. d \in Written
    <3> SUFFICES ASSUME d \notin Written PROVE FALSE
      OBVIOUS
    <3>1. PICK c \in Written, u \in VersionList : d = [c EXCEPT !.version = u]
      BY DEF Definitions, Lifts
    <3>2. WellFormed(c)
      BY DefinitionsAreWellFormed DEF Definitions
    <3> QED BY <1>3, <3>1, <3>2, OtherVersion
  <2>2. ~Extractable(d)
    BY <1>3 DEF Extractable, Accepted, VersionList
  <2> QED BY <2>1, <2>2, FilesAreParsed DEF Written
<1> QED BY <1>2, <1>3
-----------------------------------------------------------------------------
(* The chain of migrations.                                                *)

LEMMA LiftIs ==
  ASSUME NEW d
  PROVE  Lift(d) =
           IF d = Null THEN Null
           ELSE IF d.version = "persona-v0" THEN [d EXCEPT !.version = "persona-v1"]
           ELSE IF d.version = "persona-v1" THEN [d EXCEPT !.version = "persona-v2"]
           ELSE Null
<1> DEFINE first  == [source |-> "persona-v0", target |-> "persona-v1"]
           second == [source |-> "persona-v1", target |-> "persona-v2"]
<1>1. ToSet(RegisteredSteps) = {first, second}
  BY DEF RegisteredSteps, ToSet
<1>2. /\ first.source = "persona-v0" /\ first.target = "persona-v1"
      /\ second.source = "persona-v1" /\ second.target = "persona-v2"
  OBVIOUS
<1> HIDE DEF first, second
<1>3. \A v : StepsFrom(v) = {s \in {first, second} : s.source = v}
  BY <1>1 DEF StepsFrom
<1>4. CASE d.version = "persona-v0"
  <2>1. StepsFrom(d.version) = {first}
    BY <1>2, <1>3, <1>4
  <2>2. (CHOOSE s \in {first} : TRUE) = first
    OBVIOUS
  <2> QED BY <1>2, <1>4, <2>1, <2>2 DEF Lift
<1>5. CASE d.version = "persona-v1"
  <2>1. StepsFrom(d.version) = {second}
    BY <1>2, <1>3, <1>5
  <2>2. (CHOOSE s \in {second} : TRUE) = second
    OBVIOUS
  <2> QED BY <1>2, <1>5, <2>1, <2>2 DEF Lift
<1>6. CASE d.version \notin {"persona-v0", "persona-v1"}
  <2>1. StepsFrom(d.version) = {}
    BY <1>2, <1>3, <1>6
  <2> QED BY <1>6, <2>1 DEF Lift
<1> QED BY <1>4, <1>5, <1>6

LEMMA ThreeLiftsAreTooMany ==
  ASSUME NEW d, WellFormed(d)
  PROVE  Lift(Lift(Lift(d))) = Null
<1> DEFINE Again(v) == Lift([d EXCEPT !.version = v])
<1>1. Lift(Null) = Null
  BY LiftIs
<1>2. \A v : [d EXCEPT !.version = v].version = v
  <2>1. d = [name |-> d.name, tools |-> d.tools, version |-> d.version,
             identity |-> d.identity, extra |-> d.extra]
    BY DEF WellFormed
  <2> QED BY <2>1
<1>3. \A v, u : [[d EXCEPT !.version = v] EXCEPT !.version = u] = [d EXCEPT !.version = u]
  <2> SUFFICES ASSUME NEW v, NEW u
               PROVE  [[d EXCEPT !.version = v] EXCEPT !.version = u]
                        = [d EXCEPT !.version = u]
    OBVIOUS
  <2> QED BY OtherVersion
<1>4. Again("persona-v2") = Null
  BY <1>2, LiftIs
<1>5. Again("persona-v1") \in {Null, [d EXCEPT !.version = "persona-v2"]}
  BY <1>2, <1>3, LiftIs
<1>6. Lift(d) \in {Null, [d EXCEPT !.version = "persona-v1"],
                   [d EXCEPT !.version = "persona-v2"]}
  BY LiftIs
<1> QED BY <1>1, <1>4, <1>5, <1>6

(* Lifted is written by recursion.  The chain is short, so the function    *)
(* that it stands for can be given outright.                               *)
LEMMA LiftedIsLifting ==
  ASSUME NEW d, WellFormed(d), MaxChainLength \in Nat
  PROVE  Lifted(d) = [n \in 0..MaxChainLength |->
           IF n = 0 THEN d ELSE Lift(Lifted(d)[n - 1])]
<1> DEFINE L1 == Lift(d)
           L2 == Lift(L1)
           f  == [n \in 0..MaxChainLength |->
                    IF n = 0 THEN d ELSE IF n = 1 THEN L1 ELSE IF n = 2 THEN L2 ELSE Null]
           IsLifting(g) == g = [n \in 0..MaxChainLength |->
                                  IF n = 0 THEN d ELSE Lift(g[n - 1])]
<1>1. Lift(L2) = Null /\ Lift(Null) = Null
  BY ThreeLiftsAreTooMany, LiftIs
<1>2. ASSUME NEW n \in 0..MaxChainLength
      PROVE  f[n] = IF n = 0 THEN d ELSE Lift(f[n - 1])
  <2> HIDE DEF L1, L2
  <2>1. CASE n = 0
    BY <2>1
  <2>2. CASE n = 1
    <3>1. Lift(d) = L1
      BY DEF L1
    <3> QED BY <2>2, <3>1
  <2>3. CASE n = 2
    <3>1. Lift(L1) = L2
      BY DEF L2
    <3> QED BY <2>3, <3>1
  <2>4. CASE n > 2
    <3>1. n - 1 \in 0..MaxChainLength /\ n - 1 # 0 /\ n - 1 # 1 /\ n # 0 /\ n # 1 /\ n # 2
      BY <2>4
    <3>2. f[n - 1] \in {L2, Null} /\ f[n] = Null
      BY <3>1
    <3> QED BY <1>1, <3>1, <3>2
  <2> QED BY <2>1, <2>2, <2>3, <2>4
<1>3. IsLifting(f)
  BY <1>2
<1>4. Lifted(d) = CHOOSE g : IsLifting(g)
  BY DEF Lifted
<1> HIDE DEF IsLifting, f
<1>5. IsLifting(Lifted(d))
  BY <1>3, <1>4
<1> QED BY <1>5 DEF IsLifting

LEMMA LiftedIs ==
  ASSUME NEW d \in Definitions, NEW n \in 0..MaxChainLength
  PROVE  LET e == Lifted(d)[n] IN e = Null \/ e = [d EXCEPT !.version = e.version]
<1> DEFINE g == Lifted(d)
           Is(e) == e = Null \/ e = [d EXCEPT !.version = e.version]
           Bad == {m \in 0..MaxChainLength : ~Is(g[m])}
<1>1. WellFormed(d) /\ MaxChainLength \in Nat
  BY DefinitionsAreWellFormed, ChainIsBounded
<1>2. \A m \in 0..MaxChainLength : g[m] = IF m = 0 THEN d ELSE Lift(g[m - 1])
  BY <1>1, LiftedIsLifting
<1>3. Is(d)
  BY <1>1, OtherVersion
<1>4. ASSUME NEW e, Is(e) PROVE Is(Lift(e))
  <2>1. CASE Lift(e) = Null
    BY <2>1
  <2>2. CASE Lift(e) # Null
    <3>1. e # Null /\ e = [d EXCEPT !.version = e.version]
      BY <1>4, <2>2, LiftIs
    <3>2. PICK v : Lift(e) = [e EXCEPT !.version = v]
      BY <2>2, LiftIs
    <3>3. [[d EXCEPT !.version = e.version] EXCEPT !.version = v] = [d EXCEPT !.version = v]
      BY <1>1, OtherVersion
    <3>4. Lift(e) = [d EXCEPT !.version = v]
      BY <3>1, <3>2, <3>3
    <3>5. [d EXCEPT !.version = v].version = v
      <4>1. d = [name |-> d.name, tools |-> d.tools, version |-> d.version,
                 identity |-> d.identity, extra |-> d.extra]
        BY <1>1 DEF WellFormed
      <4> QED BY <4>1
    <3> QED BY <3>4, <3>5
  <2> QED BY <2>1, <2>2
<1> HIDE DEF g, Is
<1>5. SUFFICES ASSUME Bad # {} PROVE FALSE
  BY DEF Is, g
<1>6. PICK m \in Bad : \A k \in Bad : m <= k
  <2>1. Bad \subseteq Nat
    BY <1>1
  <2> QED BY <1>5, <2>1, LeastNatural
<1>7. m # 0
  BY <1>2, <1>3, <1>6
<1>8. m - 1 \in 0..MaxChainLength /\ m - 1 \notin Bad
  BY <1>1, <1>6, <1>7
<1>9. Is(g[m - 1]) /\ g[m] = Lift(g[m - 1])
  BY <1>2, <1>6, <1>7, <1>8
<1> QED BY <1>4, <1>6, <1>9

(* migrate_persona changes nothing but the version, and that to the one it *)
(* was asked for, however many steps it takes.                             *)
LEMMA MigratedIs ==
  ASSUME NEW d \in Definitions, NEW t \in VersionList
  PROVE  Migrated(d, t) \in {Null, [d EXCEPT !.version = t]}
<1> DEFINE there == {n \in 0..MaxChainLength :
                       Lifted(d)[n] # Null /\ Lifted(d)[n].version = t}
<1>1. Coerced(d) = d
  BY DefinitionsAreNoSentinels DEF Coerced
<1>2. Migrated(d, t) \in {Null, Lifted(d)[Min(there)]}
  BY <1>1 DEF Migrated
<1>3. CASE there = {}
  BY <1>1, <1>3 DEF Migrated
<1>4. CASE there # {}
  <2>1. Min(there) \in there
    <3>1. there \subseteq Nat
      BY ChainIsBounded
    <3>2. \E m \in there : \A n \in there : m <= n
      BY <1>4, <3>1, LeastNatural
    <3> HIDE DEF there
    <3> QED BY <3>2 DEF Min
  <2>2. Lifted(d)[Min(there)] = [d EXCEPT !.version = t]
    BY <2>1, LiftedIs
  <2> QED BY <1>2, <2>2
<1> QED BY <1>3, <1>4
-----------------------------------------------------------------------------
(* The commands.                                                           *)

Contents == Files \cup Definitions

(* What is read is a definition, or one of the four other contents.        *)
LEMMA DefinitionOrNot ==
  ASSUME NEW c \in Contents, c \notin {Missing, NoFence, NoMapping, BadYaml}
  PROVE  c \in Definitions
BY DEF Contents, Definitions, Written

(* pin and inspect give the hash of the canonical subset of a definition.  *)
LEMMA PinIs ==
  ASSUME NEW c \in Contents
  PROVE  LET r == RunPin(c) IN
         IF c \in Definitions \ {Missing, NoFence, NoMapping, BadYaml}
              /\ Extractable(c) /\ ~HoldsAny(Canonical(c), NotJcs)
         THEN /\ r.exit = "ok"
              /\ r.hash = Canonical(c)
         ELSE r.exit # "ok" /\ r.hash = Null
<1>1. \A x : Fails(x).exit = x /\ Fails(x).hash = Null
  BY DEF Fails, Result
<1>2. \A o, h : Result("ok", o, h).exit = "ok" /\ Result("ok", o, h).hash = h
  BY DEF Result
<1>3. CASE c = Missing \/ c = BadYaml
  BY <1>1, <1>3 DEF RunPin
<1>4. CASE c \notin {Missing, BadYaml} /\ ~IsMapping(c)
  BY <1>1, <1>4 DEF RunPin, IsMapping
<1>5. CASE c \notin {Missing, BadYaml} /\ IsMapping(c)
  <2>1. c \in Definitions \ {Missing, NoFence, NoMapping, BadYaml}
    BY <1>5, DefinitionOrNot DEF IsMapping
  <2>2. CASE Extractable(c) /\ ~HoldsAny(Canonical(c), NotJcs)
    BY <1>2, <1>5, <2>1, <2>2 DEF RunPin
  <2>3. CASE ~Extractable(c) \/ HoldsAny(Canonical(c), NotJcs)
    BY <1>1, <1>5, <2>1, <2>3 DEF RunPin
  <2> QED BY <2>2, <2>3
<1> QED BY <1>3, <1>4, <1>5

(* What migrate answers: it fails, it reports drift, or it gives the       *)
(* definition at the version asked for.                                    *)
LEMMA MigrateIs ==
  ASSUME NEW c \in Contents, NEW cmd, cmd.target \in VersionList,
         NEW expected
  PROVE  LET r == RunMigrate(c, cmd, expected)
             d == [c EXCEPT !.version = cmd.target]
         IN  \/ r.exit \notin {"ok", "drift"} /\ r.hash = Null
             \/ /\ r.exit = "drift" /\ r.hash = Null
                /\ c \in Definitions /\ Extractable(d)
                /\ expected # Null /\ expected # Canonical(d)
             \/ /\ r.exit = "ok" /\ r.out = d /\ r.hash \in {Null, d}
                /\ c \in Definitions
                /\ expected # Null => Extractable(d) /\ expected = Canonical(d)
<1> DEFINE r == RunMigrate(c, cmd, expected)
           d == [c EXCEPT !.version = cmd.target]
           m == Migrated(c, cmd.target)
           unhashable == ~Extractable(m) \/ HoldsAny(Projected(m), NotJcs)
           Is(x, o, h) == r.exit = x /\ r.out = o /\ r.hash = h
<1>1. \A x, o, h : /\ Result(x, o, h).exit = x
                   /\ Result(x, o, h).out = o
                   /\ Result(x, o, h).hash = h
  BY DEF Result
<1>2. \A x : Fails(x) = Result(x, Null, Null)
  BY DEF Fails
<1>3. CASE c \in {Missing, BadYaml} \/ m = Null
  <2>1. r \in {Fails("not-found"), Fails("traceback"), Fails("failed")}
    BY <1>3 DEF RunMigrate
  <2> QED BY <1>1, <1>2, <2>1
<1>4. CASE c \notin {Missing, BadYaml} /\ m # Null
  <2>1. c \notin {NoFence, NoMapping}
    BY <1>4 DEF Migrated, Coerced
  <2>2. c \in Definitions
    BY <1>4, <2>1, DefinitionOrNot
  <2>3. m = d
    BY <1>4, <2>2, MigratedIs
  <2>4. CASE expected # Null /\ unhashable
    <3>1. r = Fails("traceback")
      BY <1>4, <2>4 DEF RunMigrate
    <3> QED BY <1>1, <1>2, <3>1
  <2>5. CASE expected # Null /\ ~unhashable /\ expected # Projected(m)
    <3>1. r = Fails("drift")
      BY <1>4, <2>5 DEF RunMigrate
    <3>2. Projected(d) = Canonical(d)
      BY DEF Projected
    <3>3. Is("drift", Null, Null)
      BY <1>1, <1>2, <3>1
    <3> HIDE DEF r, m, d
    <3>4. Extractable(d) /\ expected # Canonical(d)
      BY <2>3, <2>5, <3>2
    <3> QED BY <2>2, <2>5, <3>3, <3>4 DEF r, d
  <2>6. CASE expected # Null => ~unhashable /\ expected = Projected(m)
    <3>1. r \in {Fails("traceback"), Result("traceback", d, Null),
                 Result("ok", d, Null), Result("ok", d, d)}
      <4>1. r = IF HoldsAny(m, NotJson) THEN Fails("traceback")
                ELSE IF cmd.emit /\ HoldsAny(m, NotJcs)
                     THEN Result("traceback", m, Null)
                ELSE Result("ok", m, IF cmd.emit THEN m ELSE Null)
        BY <1>4, <2>6 DEF RunMigrate
      <4> HIDE DEF r, m, d
      <4> QED BY <2>3, <4>1
    <3>2. expected # Null => Extractable(d) /\ expected = Canonical(d)
      <4>1. Projected(d) = Canonical(d)
        BY DEF Projected
      <4> HIDE DEF m, d
      <4> QED BY <2>3, <2>6, <4>1
    <3>3. Is("traceback", Null, Null) \/ Is("traceback", d, Null)
            \/ Is("ok", d, Null) \/ Is("ok", d, d)
      BY <1>1, <1>2, <3>1
    <3> HIDE DEF r, d
    <3> QED BY <2>2, <3>2, <3>3 DEF r, d
  <2> QED BY <2>4, <2>5, <2>6
<1> QED BY <1>3, <1>4
-----------------------------------------------------------------------------
(* The invariant.                                                          *)

MigrationOf(d, p) == d = p \/ \E v \in VersionList : d = [p EXCEPT !.version = v]

(* The command gives the hash of the definition p.                         *)
HashOf(hash, giver, p) ==
  /\ p \in Definitions
  /\ \/ giver \in {"pin", "inspect"} /\ Extractable(p) /\ hash = Canonical(p)
     \/ giver = "migrate" /\ \E v \in VersionList : hash = [p EXCEPT !.version = v]

(* The pin is a hash of the definition it was taken of, and as long as     *)
(* nobody edits the file, that holds this definition or a migration of it. *)
PinIsKnown ==
  /\ file \in Contents
  /\ pin # Null =>
       /\ pin.hash # Null /\ HashOf(pin.hash, pin.by, pinned)
       /\ ~edited => MigrationOf(file, pinned)

(* A command that is told to expect a hash is told the pin's, and a        *)
(* command that gave none left the pin as it was.                          *)
CallIsKnown ==
  command.step # "idle" =>
    /\ command = [step |-> command.step, cmd |-> command.cmd, expected |-> command.expected,
                  taken |-> command.taken, read |-> command.read, result |-> command.result]
    /\ command.step \in {"exists", "done"} /\ command.cmd \in Commands
    /\ command.expected # Null =>
         /\ command.cmd.name = "migrate"
         /\ \E giver \in {"pin", "inspect", "migrate"} :
              HashOf(command.expected, giver, command.taken)
         /\ command.result.hash = Null => pin # Null /\ command.expected = pin.hash
    /\ command.step = "exists" => command.result.hash = Null
    /\ command.step = "done" =>
         /\ command.read \in Contents
         /\ command.result = Run(command.cmd, command.read, command.expected)
         /\ pin # Null /\ ~edited => MigrationOf(command.read, pinned)

PersonaInv == PinIsKnown /\ CallIsKnown

LEMMA RunIs ==
  ASSUME NEW cmd \in Commands, NEW c, NEW expected
  PROVE  /\ cmd.name \in {"pin", "inspect"} => Run(cmd, c, expected) = RunPin(c)
         /\ cmd.name = "validate" => Run(cmd, c, expected) = RunValidate(c)
         /\ cmd.name = "migrate" => /\ Run(cmd, c, expected)
                                         = RunMigrate(c, cmd, expected)
                                    /\ cmd.target \in VersionList
         /\ cmd.name \in {"pin", "inspect", "validate", "migrate"}
<1>1. /\ cmd.name \in {"pin", "inspect", "validate", "migrate"}
      /\ cmd.name = "migrate" => cmd.target \in VersionList
  BY DEF Commands
<1>2. cmd.name \in {"pin", "inspect"} => Run(cmd, c, expected) = RunPin(c)
  BY <1>1 DEF Run, RunInspect
<1>3. cmd.name = "validate" => Run(cmd, c, expected) = RunValidate(c)
  BY <1>1 DEF Run
<1>4. cmd.name = "migrate" => Run(cmd, c, expected) = RunMigrate(c, cmd, expected)
  BY <1>1 DEF Run
<1> QED BY <1>1, <1>2, <1>3, <1>4

LEMMA NothingIsFound ==
  ASSUME NEW cmd \in Commands, NEW expected
  PROVE  Run(cmd, Missing, expected) = Fails("not-found")
BY RunIs DEF RunPin, RunValidate, RunMigrate

LEMMA HashIsOfWhatWasRead ==
  ASSUME NEW cmd \in Commands, NEW c \in Contents, NEW expected,
         Run(cmd, c, expected).hash # Null
  PROVE  HashOf(Run(cmd, c, expected).hash, cmd.name, c)
<1>1. CASE cmd.name \in {"pin", "inspect"}
  BY <1>1, RunIs, PinIs DEF HashOf
<1>2. CASE cmd.name = "validate"
  BY <1>2, RunIs DEF RunValidate, Fails, Result
<1>3. CASE cmd.name = "migrate"
  <2>1. /\ cmd.target \in VersionList
        /\ Run(cmd, c, expected) = RunMigrate(c, cmd, expected)
    BY <1>3, RunIs
  <2>2. c \in Definitions /\ Run(cmd, c, expected).hash = [c EXCEPT !.version = cmd.target]
    BY <2>1, MigrateIs
  <2> QED BY <1>3, <2>1, <2>2 DEF HashOf
<1> QED BY <1>1, <1>2, <1>3, RunIs

LEMMA PersonaInitially == ASSUME PersonaInit PROVE PersonaInv
BY DEF PersonaInit, NoCommand, PersonaInv, PinIsKnown, CallIsKnown, Contents

LEMMA CommandStartKeeps ==
  ASSUME PersonaInv, NEW cmd \in Commands, Invoke(cmd)
  PROVE  PersonaInv'
<1> DEFINE expected == IF cmd.expect THEN pin.hash ELSE Null
           now == IF file = Missing THEN "done" ELSE "exists"
<1>1. /\ command' = [step |-> now, cmd |-> cmd, expected |-> expected,
                     taken |-> IF cmd.expect THEN pinned ELSE Null,
                     read |-> Missing, result |-> Fails("not-found")]
      /\ UNCHANGED <<file, pin, pinned, edited>>
      /\ cmd.expect => pin # Null /\ cmd.name = "migrate"
  BY DEF Invoke, Commands
<1>2. PinIsKnown'
  BY <1>1 DEF PersonaInv, PinIsKnown, Contents, HashOf, MigrationOf, Definitions, Written, Lifts
<1>3. Fails("not-found").hash = Null
  BY DEF Fails, Result
<1>4. expected # Null => /\ cmd.expect /\ cmd.name = "migrate"
                         /\ pin # Null /\ expected = pin.hash
                         /\ HashOf(pin.hash, pin.by, pinned)
                         /\ pin.by \in {"pin", "inspect", "migrate"}
  BY <1>1 DEF PersonaInv, PinIsKnown, HashOf
<1>5. now = "done" => /\ Missing = file
                       /\ Fails("not-found") = Run(cmd, Missing, expected)
  BY NothingIsFound
<1>6. /\ command'.step = now /\ command'.cmd = cmd /\ command'.expected = expected
      /\ cmd.expect => command'.taken = pinned
      /\ command'.read = Missing /\ command'.result = Fails("not-found")
      /\ command' = [step |-> command'.step, cmd |-> command'.cmd, expected |-> command'.expected,
                     taken |-> command'.taken, read |-> command'.read, result |-> command'.result]
      /\ now \in {"exists", "done"}
  BY <1>1
<1> HIDE DEF now, expected
<1>7. CallIsKnown'
  BY <1>1, <1>3, <1>4, <1>5, <1>6 DEF PersonaInv, PinIsKnown, CallIsKnown
<1> QED BY <1>2, <1>7 DEF PersonaInv

LEMMA CommandAnswerKeeps ==
  ASSUME PersonaInv, Answer
  PROVE  PersonaInv'
<1> DEFINE result == Run(command.cmd, file, command.expected)
<1>1. /\ command.step = "exists" /\ UNCHANGED file
      /\ command' = [command EXCEPT !.step = "done", !.read = file, !.result = result]
      /\ IF result.hash = Null THEN UNCHANGED <<pin, pinned, edited>>
         ELSE /\ pin' = [hash |-> result.hash, by |-> command.cmd.name]
              /\ pinned' = file /\ edited' = FALSE
  BY DEF Answer
<1>2. /\ file \in Contents /\ command.cmd \in Commands
      /\ command.result.hash = Null
      /\ command = [step |-> command.step, cmd |-> command.cmd, expected |-> command.expected,
                    taken |-> command.taken, read |-> command.read, result |-> command.result]
  BY <1>1 DEF PersonaInv, PinIsKnown, CallIsKnown
<1>3. result.hash # Null => HashOf(result.hash, command.cmd.name, file)
  BY <1>2, HashIsOfWhatWasRead
<1>4. /\ command'.step = "done" /\ command'.cmd = command.cmd /\ command'.expected = command.expected
      /\ command'.taken = command.taken /\ command'.read = file /\ command'.result = result
      /\ command' = [step |-> command'.step, cmd |-> command'.cmd, expected |-> command'.expected,
                     taken |-> command'.taken, read |-> command'.read, result |-> command'.result]
  <2> HIDE DEF result
  <2> QED BY <1>1, <1>2
<1> HIDE DEF result
<1>5. PinIsKnown'
  <2>1. CASE result.hash = Null
    BY <1>1, <2>1 DEF PersonaInv, PinIsKnown
  <2>2. CASE result.hash # Null
    <3>1. pin'.hash = result.hash /\ pin'.by = command.cmd.name
      BY <1>1, <2>2
    <3> QED BY <1>1, <1>2, <1>3, <2>2, <3>1 DEF PinIsKnown, MigrationOf
  <2> QED BY <2>1, <2>2
<1>6. CallIsKnown'
  <2>1. command'.expected # Null =>
          /\ command'.cmd.name = "migrate"
          /\ \E giver \in {"pin", "inspect", "migrate"} :
               HashOf(command'.expected, giver, command'.taken)
    BY <1>1, <1>4 DEF PersonaInv, CallIsKnown
  <2>2. command'.expected # Null /\ command'.result.hash = Null =>
          pin' # Null /\ command'.expected = pin'.hash
    BY <1>1, <1>2, <1>4 DEF PersonaInv, CallIsKnown
  <2>3. command'.result = Run(command'.cmd, command'.read, command'.expected)
    BY <1>4 DEF result
  <2>4. pin' # Null /\ ~edited' => MigrationOf(command'.read, pinned')
    BY <1>1, <1>4 DEF PersonaInv, PinIsKnown, MigrationOf
  <2> QED BY <1>1, <1>2, <1>4, <2>1, <2>2, <2>3, <2>4 DEF CallIsKnown
<1> QED BY <1>5, <1>6 DEF PersonaInv

LEMMA WriteBackKeeps ==
  ASSUME PersonaInv, WriteBack
  PROVE  PersonaInv'
<1>1. /\ command.step = "done" /\ command.cmd.name = "migrate" /\ command.result.exit = "ok"
      /\ file' = command.result.out
      /\ UNCHANGED <<command, pin, pinned, edited>>
  BY DEF WriteBack
<1>2. /\ command.cmd \in Commands /\ command.read \in Contents
      /\ command.result = Run(command.cmd, command.read, command.expected)
      /\ pin # Null /\ ~edited => MigrationOf(command.read, pinned)
  BY <1>1 DEF PersonaInv, CallIsKnown
<1>3. /\ command.cmd.target \in VersionList
      /\ command.result = RunMigrate(command.read, command.cmd, command.expected)
  BY <1>1, <1>2, RunIs
<1>4. command.read \in Definitions /\ file' = [command.read EXCEPT !.version = command.cmd.target]
  BY <1>1, <1>2, <1>3, MigrateIs
<1>5. file' \in Contents
  BY <1>3, <1>4, LiftsAreDefinitions DEF Contents
<1>6. ASSUME pin # Null, ~edited PROVE MigrationOf(file', pinned)
  <2>1. pinned \in Definitions
    BY <1>6 DEF PersonaInv, PinIsKnown, HashOf
  <2>2. WellFormed(pinned)
    BY <2>1, DefinitionsAreWellFormed
  <2>3. CASE command.read = pinned
    BY <1>3, <1>4, <2>3 DEF MigrationOf
  <2>4. CASE \E v \in VersionList : command.read = [pinned EXCEPT !.version = v]
    <3>1. file' = [pinned EXCEPT !.version = command.cmd.target]
      BY <1>4, <2>2, <2>4, OtherVersion
    <3> QED BY <1>3, <3>1 DEF MigrationOf
  <2> QED BY <1>2, <1>6, <2>3, <2>4 DEF MigrationOf
<1>7. PinIsKnown'
  BY <1>1, <1>5, <1>6 DEF PersonaInv, PinIsKnown
<1>8. CallIsKnown'
  BY <1>1 DEF PersonaInv, CallIsKnown
<1> QED BY <1>7, <1>8 DEF PersonaInv

LEMMA EditKeeps ==
  ASSUME PersonaInv, NEW c \in Files, Edit(c)
  PROVE  PersonaInv'
<1>1. file' = c /\ edited' = TRUE /\ UNCHANGED <<command, pin, pinned>>
  BY DEF Edit
<1>2. PinIsKnown'
  BY <1>1 DEF PersonaInv, PinIsKnown, Contents
<1>3. CallIsKnown'
  BY <1>1 DEF PersonaInv, CallIsKnown
<1> QED BY <1>2, <1>3 DEF PersonaInv

(* PersonaInv holds in every reachable state.                              *)
THEOREM PersonaInductive == PersonaSpec => []PersonaInv
<1>1. PersonaInit => PersonaInv
  BY PersonaInitially
<1>2. PersonaInv /\ [PersonaNext]_personaVars => PersonaInv'
  <2> SUFFICES ASSUME PersonaInv, [PersonaNext]_personaVars PROVE PersonaInv'
    OBVIOUS
  <2>1. ASSUME NEW cmd \in Commands, Invoke(cmd) PROVE PersonaInv'
    BY <2>1, CommandStartKeeps
  <2>2. CASE Answer
    BY <2>2, CommandAnswerKeeps
  <2>3. CASE WriteBack
    BY <2>3, WriteBackKeeps
  <2>4. ASSUME NEW c \in Files, Edit(c) PROVE PersonaInv'
    BY <2>4, EditKeeps
  <2>5. CASE UNCHANGED personaVars
    BY <2>5 DEF personaVars, PersonaInv, PinIsKnown, CallIsKnown
  <2> QED BY <2>1, <2>2, <2>3, <2>4, <2>5 DEF PersonaNext
<1> QED BY <1>1, <1>2, PTL DEF PersonaSpec
-----------------------------------------------------------------------------
(* What the commands promise.                                              *)

(* What the hashed subset of a definition is made of.                      *)
LEMMA SubsetIs ==
  ASSUME NEW d, WellFormed(d), Extractable(d)
  PROVE  LET s == Canonical(d) IN
         /\ s.name = Text[d.name] /\ s.version = d.version /\ s.extra = Null
         /\ s.tools = [items |-> Texts(d.tools.items), listed |-> TRUE]
         /\ s.identity = [pins |-> d.identity.pins, extra |-> Null]
         /\ s.tools.items = Texts(d.tools.items)
         /\ s.identity.pins = d.identity.pins /\ s.identity.extra = Null
<1> DEFINE s == Canonical(d)
<1>1. d = [name |-> d.name, tools |-> d.tools, version |-> d.version,
           identity |-> d.identity, extra |-> d.extra]
  BY DEF WellFormed
<1>2. PICK q, y : d.identity = [pins |-> q, extra |-> y]
  BY DEF WellFormed, Extractable
<1> DEFINE t == [items |-> Texts(d.tools.items), listed |-> TRUE]
<1>3. s = [d EXCEPT !.name = Text[d.name], !.tools = t, !.identity.extra = Null, !.extra = Null]
  BY DEF Canonical
<1>4. t.items = Texts(d.tools.items)
  OBVIOUS
<1> HIDE DEF s, t
<1>5. /\ s.name = Text[d.name] /\ s.version = d.version /\ s.extra = Null
      /\ s.tools = t /\ s.identity = [pins |-> q, extra |-> Null]
  <2>1. PICK n, u, v, x : d = [name |-> n, tools |-> u, version |-> v,
                               identity |-> [pins |-> q, extra |-> y], extra |-> x]
    BY <1>1, <1>2
  <2>2. d.name = n
    BY <2>1
  <2> QED BY <1>3, <2>1, <2>2
<1>6. s.identity.pins = d.identity.pins /\ s.identity.extra = Null
  BY <1>2, <1>5
<1>7. d.identity.pins = q
  BY <1>2
<1> QED BY <1>4, <1>5, <1>6, <1>7 DEF s, t

(* str() of a str() is that.                                               *)
LEMMA TextsAreText ==
  ASSUME NEW d, WellFormed(d), Extractable(d)
  PROVE  /\ Text[Text[d.name]] = Text[d.name]
         /\ Texts(Texts(d.tools.items)) = Texts(d.tools.items)
<1>1. /\ d.name \in DOMAIN Text
      /\ \A i \in DOMAIN d.tools.items : d.tools.items[i] \in DOMAIN Text
  BY DEF WellFormed, Extractable
<1>2. \A i \in DOMAIN d.tools.items : Text[Text[d.tools.items[i]]] = Text[d.tools.items[i]]
  BY <1>1, TextIsText
<1>3. DOMAIN Texts(d.tools.items) = DOMAIN d.tools.items
  BY DEF Texts
<1>4. \A i \in DOMAIN d.tools.items : Texts(d.tools.items)[i] = Text[d.tools.items[i]]
  BY DEF Texts
<1>5. Texts(Texts(d.tools.items))
        = [i \in DOMAIN d.tools.items |-> Text[Text[d.tools.items[i]]]]
  BY <1>3, <1>4 DEF Texts
<1>6. Texts(Texts(d.tools.items)) = Texts(d.tools.items)
  BY <1>2, <1>5 DEF Texts
<1> QED BY <1>1, <1>6, TextIsText

LEMMA MigrateAnswered ==
  ASSUME PersonaInv, command.step = "done", command.result.exit \in {"ok", "drift"},
         command.expected # Null
  PROVE  /\ command.cmd.name = "migrate" /\ command.cmd.target \in VersionList
         /\ command.read \in Definitions
         /\ LET d == [command.read EXCEPT !.version = command.cmd.target] IN
            /\ Extractable(d)
            /\ command.result.exit = "ok" =>
                 command.result.out = d /\ command.expected = Canonical(d)
            /\ command.result.exit = "drift" =>
                 command.result.hash = Null /\ command.expected # Canonical(d)
<1>1. /\ command.cmd \in Commands /\ command.read \in Contents /\ command.cmd.name = "migrate"
      /\ command.result = Run(command.cmd, command.read, command.expected)
  BY DEF PersonaInv, CallIsKnown
<1>2. /\ command.cmd.target \in VersionList
      /\ command.result = RunMigrate(command.read, command.cmd, command.expected)
  BY <1>1, RunIs
<1> QED BY <1>1, <1>2, MigrateIs

(* A migration that met its expected hash gives the definition that the    *)
(* hash was taken of, at the version it was taken at and up to what str()  *)
(* hides, for any files, any edits, any number of migrations that were     *)
(* written back, and any str() that leaves strings alone.                  *)
THEOREM NoDriftIsMissed == PersonaSpec => []DriftIsNoticed
<1>1. PersonaInv => DriftIsNoticed
  <2> SUFFICES ASSUME PersonaInv, command.step = "done", command.result.exit = "ok",
                      command.expected # Null
               PROVE  LET d == command.result.out
                          p == command.taken
                      IN  /\ d.version = command.expected.version
                          /\ Text[d.name] = Text[p.name]
                          /\ Texts(d.tools.items) = Texts(p.tools.items)
                          /\ d.identity.pins = p.identity.pins
    BY DEF DriftIsNoticed, Ended
  <2> DEFINE d == [command.read EXCEPT !.version = command.cmd.target]
             p == command.taken
  <2>1. /\ command.result.out = d /\ command.expected = Canonical(d)
        /\ Extractable(d) /\ WellFormed(d)
    BY MigrateAnswered, DefinitionsAreWellFormed, OtherVersion
  <2>2. PICK giver : HashOf(command.expected, giver, p)
    BY DEF PersonaInv, CallIsKnown
  <2>3. WellFormed(p)
    BY <2>2, DefinitionsAreWellFormed DEF HashOf
  <2> HIDE DEF d, p
  <2>4. LET e == command.expected IN
        /\ e.version = d.version /\ e.identity.pins = d.identity.pins
        /\ e.name = Text[d.name] /\ Text[e.name] = Text[d.name]
        /\ e.tools.items = Texts(d.tools.items)
        /\ Texts(e.tools.items) = Texts(d.tools.items)
    <3> DEFINE e == command.expected
    <3>1. /\ e.version = d.version /\ e.identity.pins = d.identity.pins
          /\ e.name = Text[d.name] /\ e.tools.items = Texts(d.tools.items)
      BY <2>1, SubsetIs
    <3> HIDE DEF e
    <3>2. Text[e.name] = Text[d.name] /\ Texts(e.tools.items) = Texts(d.tools.items)
      BY <2>1, <3>1, TextsAreText
    <3> QED BY <3>1, <3>2 DEF e
  <2>5. LET e == command.expected IN
        /\ Text[e.name] = Text[p.name] /\ Texts(e.tools.items) = Texts(p.tools.items)
        /\ e.identity.pins = p.identity.pins
    <3>1. CASE Extractable(p) /\ command.expected = Canonical(p)
      <4> DEFINE e == command.expected
      <4>1. /\ e.name = Text[p.name] /\ e.tools.items = Texts(p.tools.items)
            /\ e.identity.pins = p.identity.pins
        BY <2>3, <3>1, SubsetIs
      <4> HIDE DEF e
      <4>2. Text[e.name] = Text[p.name] /\ Texts(e.tools.items) = Texts(p.tools.items)
        BY <2>3, <3>1, <4>1, TextsAreText
      <4> QED BY <4>1, <4>2 DEF e
    <3>2. CASE \E v \in VersionList : command.expected = [p EXCEPT !.version = v]
      <4>1. PICK v : command.expected = [p EXCEPT !.version = v]
        BY <3>2
      <4> DEFINE e == [p EXCEPT !.version = v]
      <4>2. e.name = p.name /\ e.tools = p.tools /\ e.identity = p.identity
        BY <2>3, OtherVersion
      <4> QED BY <4>1, <4>2
    <3> QED BY <2>2, <3>1, <3>2 DEF HashOf
  <2> QED BY <2>1, <2>4, <2>5 DEF p
<1>2. PersonaSpec => []PersonaInv
  BY PersonaInductive
<1> QED BY <1>1, <1>2, PTL

(* A migration reports drift only if the file was edited, the pin is of    *)
(* another version, or migrate emitted it of a file in no canonical form:  *)
(* migrating and writing back, in any number of steps, is no drift.        *)
THEOREM NoFalseAlarm == PersonaSpec => []DriftMeansEdited
<1>1. PersonaInv => DriftMeansEdited
  <2> SUFFICES ASSUME PersonaInv, command.step = "done", command.result.exit = "drift", ~edited,
                      pin.hash.version = command.cmd.target,
                      pin.by = "migrate" => pin.hash = Canonical(pin.hash)
               PROVE  FALSE
    BY DEF DriftMeansEdited, Ended
  <2>1. command.expected # Null /\ command.result.hash = Null
    <3>1. /\ command.cmd \in Commands /\ command.read \in Contents
          /\ command.result = Run(command.cmd, command.read, command.expected)
      BY DEF PersonaInv, CallIsKnown
    <3>2. CASE command.cmd.name = "migrate"
      <4>1. /\ command.cmd.target \in VersionList
            /\ command.result = RunMigrate(command.read, command.cmd, command.expected)
        BY <3>1, <3>2, RunIs
      <4> DEFINE r == RunMigrate(command.read, command.cmd, command.expected)
      <4>2. r.exit = "drift" => command.expected # Null /\ r.hash = Null
        BY <3>1, <4>1, MigrateIs
      <4> HIDE DEF r
      <4> QED BY <4>1, <4>2 DEF r
    <3>3. CASE command.cmd.name \in {"pin", "inspect"}
      BY <3>1, <3>3, RunIs DEF RunPin, Fails, Result
    <3>4. CASE command.cmd.name = "validate"
      BY <3>1, <3>4, RunIs DEF RunValidate, Fails, Result
    <3> QED BY <3>1, <3>2, <3>3, <3>4, RunIs
  <2> DEFINE t == command.cmd.target
             d == [command.read EXCEPT !.version = t]
  <2>2. command.expected # Canonical(d) /\ t \in VersionList
    BY <2>1, MigrateAnswered
  <2>3. /\ pin # Null /\ command.expected = pin.hash
        /\ HashOf(pin.hash, pin.by, pinned) /\ MigrationOf(command.read, pinned)
    BY <2>1 DEF PersonaInv, PinIsKnown, CallIsKnown
  <2>4. WellFormed(pinned)
    BY <2>3, DefinitionsAreWellFormed DEF HashOf
  <2>5. d = [pinned EXCEPT !.version = t]
    BY <2>3, <2>4, OtherVersion DEF MigrationOf
  <2>6. CASE Extractable(pinned) /\ pin.hash = Canonical(pinned)
    <3>1. pinned.version = t
      BY <2>4, <2>6, SubsetIs
    <3>2. d = pinned
      BY <2>4, <2>5, <3>1, OtherVersion
    <3> HIDE DEF d, t
    <3> QED BY <2>2, <2>3, <2>6, <3>2
  <2>7. CASE /\ pin.by = "migrate"
             /\ \E v \in VersionList : pin.hash = [pinned EXCEPT !.version = v]
    <3>1. pin.hash = d
      BY <2>4, <2>5, <2>7, OtherVersion
    <3> HIDE DEF d, t
    <3> QED BY <2>2, <2>3, <2>7, <3>1
  <2> QED BY <2>3, <2>6, <2>7 DEF HashOf
<1>2. PersonaSpec => []PersonaInv
  BY PersonaInductive
<1> QED BY <1>1, <1>2, PTL

(* The validator that collects errors and the extractor that raises the    *)
(* first agree on every file, but for the values that JCS has no form for. *)
THEOREM ValidatorAgrees == PersonaSpec => []ValidIsPinnable
<1>1. ASSUME NEW c \in Contents, c \notin {Missing, BadYaml}
      PROVE  Report(c) = {} <=> IsMapping(c) /\ Extractable(c)
  <2>1. CASE ~IsMapping(c)
    BY <2>1 DEF Report, IsMapping
  <2>2. CASE IsMapping(c)
    <3>1. Report(c) = ValidationErrors(c)
      BY <2>2 DEF Report, IsMapping
    <3>2. ValidationErrors(c) = {} <=>
            /\ \A k \in {"name", "tools", "version", "identity"} : c[k] # Absent
            /\ c.version \in Accepted \cup {Absent}
            /\ c.tools \notin Misfits /\ c.identity \notin Misfits
            /\ HasIdentity(c) => c.identity.pins # Absent
      BY DEF ValidationErrors, HasIdentity
    <3> QED BY <2>2, <3>1, <3>2 DEF Extractable, HasTools, HasIdentity
  <2> QED BY <2>1, <2>2
<1>2. PersonaInv => ValidIsPinnable
  <2> SUFFICES ASSUME PersonaInv, command.step = "done", command.cmd.name = "validate"
               PROVE  LET pinnable == RunPin(command.read).exit = "ok" IN
                      /\ pinnable => command.result.exit = "ok"
                      /\ command.result.exit = "ok" =>
                           pinnable \/ HoldsAny(command.read, NotJcs)
    BY DEF ValidIsPinnable, Ended
  <2> DEFINE c == command.read
  <2>1. c \in Contents /\ command.result = RunValidate(c)
    BY RunIs DEF PersonaInv, CallIsKnown
  <2>2. command.result.exit = "ok" <=> c \notin {Missing, BadYaml} /\ Report(c) = {}
    BY <2>1 DEF RunValidate, Fails, Result
  <2>3. ASSUME c \in Definitions, Extractable(c),
               HoldsAny(Canonical(c), NotJcs)
        PROVE  HoldsAny(c, NotJcs)
    <3> DEFINE s == Canonical(c)
    <3>1. WellFormed(c) /\ HasTools(c) /\ HasIdentity(c) /\ c.name # Absent
      BY <2>3, DefinitionsAreWellFormed DEF Extractable
    <3>2. /\ s.extra = Null /\ s.name = Text[c.name]
          /\ s.tools.items = Texts(c.tools.items)
          /\ s.identity.pins = c.identity.pins /\ s.identity.extra = Null
      BY <2>3, <3>1, SubsetIs
    <3>3. \/ s.name \in NotJcs \/ s.identity.pins \in NotJcs
          \/ \E i \in DOMAIN s.tools.items : s.tools.items[i] \in NotJcs
      <4>1. HasTools(s) /\ HasIdentity(s)
        BY <2>3, DefinitionsAreNoSentinels
      <4> HIDE DEF s
      <4>2. s.extra \notin NotJcs /\ s.identity.extra \notin NotJcs
        BY <3>2, SubsetsAreFit
      <4>3. HoldsAny(s, NotJcs)
        BY <2>3 DEF s
      <4> QED BY <4>1, <4>2, <4>3 DEF HoldsAny
    <3>4. CASE s.name \in NotJcs
      BY <3>1, <3>2, <3>4, TextIsText DEF HoldsAny, WellFormed
    <3>5. CASE s.identity.pins \in NotJcs
      BY <3>1, <3>2, <3>5 DEF HoldsAny
    <3>6. ASSUME NEW i \in DOMAIN s.tools.items, s.tools.items[i] \in NotJcs
          PROVE  HoldsAny(c, NotJcs)
      <4>1. i \in DOMAIN c.tools.items /\ s.tools.items[i] = Text[c.tools.items[i]]
        BY <3>2 DEF Texts
      <4>2. c.tools.items[i] \in NotJcs
        BY <3>1, <3>6, <4>1, TextIsText DEF WellFormed
      <4> QED BY <3>1, <4>1, <4>2 DEF HoldsAny
    <3> QED BY <3>3, <3>4, <3>5, <3>6
  <2> HIDE DEF c
  <2>4. RunPin(c).exit = "ok" => command.result.exit = "ok"
    BY <1>1, <2>1, <2>2, PinIs DEF IsMapping
  <2>5. command.result.exit = "ok" =>
          RunPin(c).exit = "ok" \/ HoldsAny(c, NotJcs)
    BY <1>1, <2>1, <2>2, <2>3, PinIs, DefinitionOrNot DEF IsMapping
  <2> QED BY <2>4, <2>5 DEF c
<1>3. PersonaSpec => []PersonaInv
  BY PersonaInductive
<1> QED BY <1>2, <1>3, PTL
=============================================================================

---------------------------- MODULE HttpsResolver ----------------------------
(***************************************************************************)
(* HTTPSAipResolver over HTTPSDocumentTransport, with its ETag cache, as   *)
(* the threads of several callers use one resolver.  A call looks the URI  *)
(* up, sends a GET with the cached ETag (the same header on every          *)
(* redirect), and either answers a 304 from the entry it found at the      *)
(* start, or verifies the body and puts it into the cache, which takes no  *)
(* lock: each access of put to the dict or the list is a step.  Between    *)
(* any two steps the servers change and other callers run.                 *)
(***************************************************************************)
EXTENDS Naturals, SequencesExt

CONSTANTS
  Callers,
  Uris,               \* every URI a request may go to
  Plain,              \* those whose scheme is not https
  Docs,               \* verified documents
  ETag,               \* [Uris -> [Docs -> entity tags or Nothing]]
  Serves,             \* [Uris -> sets of documents and of URIs to redirect to]
  MaxTagged,          \* of the cache
  MaxRedirects,       \* the transport's ceiling
  FollowsRedirects,   \* TRUE: urlopen follows redirects itself, as urllib's does
  UrllibLimit,        \* ... at most so many
  MaxListed,          \* bound: with a longer list no call starts
  Nothing

ASSUME ResolverBounds ==
  /\ MaxTagged \in Nat \ {0} /\ MaxRedirects \in Nat /\ UrllibLimit \in Nat
  /\ MaxListed \in Nat
  /\ Plain \subseteq Uris
  /\ Serves \in [Uris -> SUBSET (Docs \cup Uris)]

(* A URI gives no two of its documents one entity tag.  Two URIs may give  *)
(* the same tag to different documents.                                    *)
ASSUME TagsIdentifyDocs ==
  \A u \in Uris : \A d, e \in Docs : ETag[u][d] = ETag[u][e] /\ ETag[u][d] # Nothing => d = e

VARIABLES
  site,         \* what each URI answers: a document, or the URI it redirects to
  tagged,       \* HTTPSAipResolverCache._entries
  taggedOrder,  \* HTTPSAipResolverCache._order
  request       \* what each caller is in the middle of

resolverVars == <<site, tagged, taggedOrder, request>>

(* from, the URI that gave the body and its tag, is history.               *)
CacheEntry == [etag : {ETag[u][d] : u \in Uris, d \in Docs} \ {Nothing}, doc : Docs, from : Uris]

NoRequest == [step |-> "idle"]
Request == [step  : {"get"},
            uri   : Uris \ Plain,
            found : CacheEntry \cup {Nothing},  \* the entry at the start of the call
            at    : Uris,                    \* current_url
            budget : 0..MaxRedirects,        \* redirect_budget
            auto  : 0..UrllibLimit,          \* followed by urlopen itself
            hops  : Nat]                     \* redirects followed (history)

(* A call whose document is verified, at a line of put.                    *)
PutSteps == {"put", "room", "evict", "drop", "insert", "replace", "unlist", "list"}
Putting  == [step : PutSteps, uri : Uris \ Plain, entry : CacheEntry,
             evict : (Uris \ Plain) \cup {Nothing}]

ResolverInit ==
  /\ site \in [Uris -> Docs \cup Uris] /\ \A u \in Uris : site[u] \in Serves[u]
  /\ tagged = << >>
  /\ taggedOrder = <<>>
  /\ request = [c \in Callers |-> NoRequest]
-----------------------------------------------------------------------------
Lookup(u) == IF u \in DOMAIN tagged THEN tagged[u] ELSE Nothing

(* Any other scheme raises HTTPSSchemeError at once.                       *)
Start(c, u) ==
  /\ request[c] = NoRequest
  /\ Len(taggedOrder) <= MaxListed
  /\ request' = [request EXCEPT ![c] = [step |-> "get", uri |-> u, found |-> Lookup(u),
                                        at |-> u, budget |-> MaxRedirects, auto |-> 0,
                                        hops |-> 0]]
  /\ UNCHANGED <<site, tagged, taggedOrder>>

Ends(c) == request' = [request EXCEPT ![c] = NoRequest]

Here(c) == site[request[c].at]

Asks(c) == request[c].step = "get"

(* The tag a URI gives to what it has now.                                 *)
TagAt(u) == ETag[u][site[u]]

(* The If-None-Match that is sent, to redirect targets too, is that tag.   *)
TagMatches(c) ==
  /\ request[c].found # Nothing
  /\ request[c].found.etag = TagAt(request[c].at)

(* Faulty variant: a 304 is answered from the cache as it is by then.      *)
ReusedFromCache(c) == Lookup(request[c].uri)

(* What a 304 is answered from: the entry found when the call began.       *)
Reused(c) == request[c].found

NotModified(c) ==
  /\ Asks(c) /\ Here(c) \in Docs
  /\ TagMatches(c)
  /\ Ends(c)
  /\ UNCHANGED <<site, tagged, taggedOrder>>

(* 200, and the body passes verify_fn.  A document without an entity tag   *)
(* is not put into the cache.                                              *)
Modified(c) ==
  LET tag == TagAt(request[c].at) IN
  /\ Asks(c) /\ Here(c) \in Docs
  /\ ~TagMatches(c)
  /\ request' = [request EXCEPT ![c] =
       IF tag = Nothing THEN NoRequest
       ELSE [step |-> "put", uri |-> @.uri, evict |-> Nothing,
             entry |-> [etag |-> tag, doc |-> Here(c), from |-> @.at]]]
  /\ UNCHANGED <<site, tagged, taggedOrder>>

(* Faulty variant: the budget is not counted down.                         *)
RedirectUnbudgeted(c) ==
  /\ Asks(c) /\ Here(c) \in Uris
  /\ IF Here(c) \notin Plain
     THEN request' = [request EXCEPT ![c].at = Here(c), ![c].hops = (@ + 1) % 4]
     ELSE Ends(c)
  /\ UNCHANGED <<site, tagged, taggedOrder>>

(* A 3xx.  urllib's urlopen follows so many before the code sees one as an *)
(* HTTPError; an urlopen that follows none raises at once.  A raised one   *)
(* is followed on the budget, and away from https never.                   *)
Redirect(c) ==
  /\ Asks(c) /\ Here(c) \in Uris
  /\ IF FollowsRedirects /\ request[c].auto < UrllibLimit
     THEN request' = [request EXCEPT ![c].at = Here(c), ![c].hops = @ + 1, ![c].auto = @ + 1]
     ELSE IF request[c].budget > 0 /\ Here(c) \notin Plain
     THEN request' = [request EXCEPT ![c].at = Here(c), ![c].hops = @ + 1, ![c].auto = 0,
                                     ![c].budget = @ - 1]
     ELSE Ends(c)         \* HTTPSRedirectError, HTTPSSchemeError
  /\ UNCHANGED <<site, tagged, taggedOrder>>

(* Status, transport, size, payload and verification errors.               *)
Fail(c) ==
  /\ Asks(c)
  /\ Ends(c)
  /\ UNCHANGED <<site, tagged, taggedOrder>>

-----------------------------------------------------------------------------
(* HTTPSAipResolverCache.put.                                              *)
Puts(c, step) == request[c].step = step
GoesOn(c, step) == request' = [request EXCEPT ![c].step = step]

PutFinds(c) ==
  /\ Puts(c, "put")
  /\ GoesOn(c, IF request[c].uri \in DOMAIN tagged THEN "replace" ELSE "room")
  /\ UNCHANGED <<site, tagged, taggedOrder>>

Measure(c) ==
  /\ Puts(c, "room")
  /\ GoesOn(c, IF Len(taggedOrder) >= MaxTagged THEN "evict" ELSE "insert")
  /\ UNCHANGED <<site, tagged, taggedOrder>>

(* pop(0) of a list that another caller has emptied raises.                *)
PopOldest(c) ==
  /\ Puts(c, "evict")
  /\ IF taggedOrder = <<>>
     THEN Ends(c) /\ UNCHANGED taggedOrder
     ELSE /\ request' = [request EXCEPT ![c].step = "drop", ![c].evict = Head(taggedOrder)]
          /\ taggedOrder' = Tail(taggedOrder)
  /\ UNCHANGED <<site, tagged>>

DropEvicted(c) ==
  /\ Puts(c, "drop")
  /\ tagged' = [u \in DOMAIN tagged \ {request[c].evict} |-> tagged[u]]
  /\ GoesOn(c, "insert")
  /\ UNCHANGED <<site, taggedOrder>>

Write(c) ==
  LET u == request[c].uri IN
  /\ Puts(c, "insert") \/ Puts(c, "replace")
  /\ tagged' = [v \in DOMAIN tagged \cup {u} |-> IF v = u THEN request[c].entry ELSE tagged[v]]
  /\ GoesOn(c, IF Puts(c, "insert") THEN "list" ELSE "unlist")
  /\ UNCHANGED <<site, taggedOrder>>

(* list.remove takes the first one out, and there may be none.             *)
Unlist(c) ==
  /\ Puts(c, "unlist")
  /\ taggedOrder' = RemoveFirst(taggedOrder, request[c].uri)
  /\ GoesOn(c, "list")
  /\ UNCHANGED <<site, tagged>>

List(c) ==
  /\ Puts(c, "list")
  /\ taggedOrder' = Append(taggedOrder, request[c].uri)
  /\ Ends(c)
  /\ UNCHANGED <<site, tagged>>
-----------------------------------------------------------------------------
Publish(u, x) ==
  /\ x \in Serves[u]
  /\ site' = [site EXCEPT ![u] = x]
  /\ UNCHANGED <<tagged, taggedOrder, request>>

CallerStep(c) ==
  \/ NotModified(c)
  \/ Modified(c)
  \/ Redirect(c)
  \/ Fail(c)
  \/ PutFinds(c) \/ Measure(c) \/ PopOldest(c) \/ DropEvicted(c)
  \/ Write(c) \/ Unlist(c) \/ List(c)

ResolverNext ==
  \/ \E c \in Callers, u \in Uris \ Plain : Start(c, u)
  \/ \E c \in Callers : CallerStep(c)
  \/ \E u \in Uris, x \in Docs \cup Uris : Publish(u, x)

(* Every request is answered or times out.                                 *)
ResolverSpec ==
  /\ ResolverInit /\ [][ResolverNext]_resolverVars
  /\ \A c \in Callers : WF_resolverVars(CallerStep(c))
-----------------------------------------------------------------------------
(* Every variable has its type.                                            *)
ResolverTypeOK ==
  /\ site \in [Uris -> Docs \cup Uris]
  /\ DOMAIN tagged \subseteq Uris \ Plain
  /\ \A u \in DOMAIN tagged : tagged[u] \in CacheEntry
  /\ taggedOrder \in Seq(Uris \ Plain)
  /\ request \in [Callers -> {NoRequest} \cup Request \cup Putting]

(* When the URI that gave a document and its tag answers 304 to that tag,  *)
(* the call returns the document that it holds at that moment, although    *)
(* since the call looked the entry up other callers may have replaced or   *)
(* evicted it, and whatever redirects led there then and lead there now.   *)
NotModifiedIsCurrent ==
  [][\A c \in Callers : NotModified(c) /\ request[c].found.from = request[c].at =>
       Reused(c) # Nothing /\ Reused(c).doc = Here(c)]_resolverVars

(* HTTPSDocumentNotModified says that the document has not changed: a 304, *)
(* whoever sends it, is answered with what its sender holds.               *)
NotModifiedByAnyone ==
  [][\A c \in Callers : NotModified(c) => Reused(c).doc = Here(c)]_resolverVars

(* At most max_redirects redirects are followed, and none away from https. *)
WithinRedirectBudget ==
  \A c \in Callers : Asks(c) => request[c].hops <= MaxRedirects /\ request[c].at \notin Plain

(* "Bounded LRU": the cache keeps max_entries documents at most.           *)
BoundedLru == Cardinality(DOMAIN tagged) <= MaxTagged

(* Whatever the servers do, redirecting in circles included, a call ends.  *)
EveryCallEnds ==
  \A c \in Callers : request[c] # NoRequest ~> request[c] = NoRequest
=============================================================================

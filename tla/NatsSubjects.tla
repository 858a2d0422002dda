----------------------------- MODULE NatsSubjects -----------------------------
(***************************************************************************)
(* The subject mapping: wakir.<env>.<domain>.<event_type>[.<sub_id>], how  *)
(* it is built and parsed back, which anchors a sub_id may be, and which   *)
(* stream patterns and consumer filters pass.                              *)
(*                                                                         *)
(* A dotted text is the sequence of its tokens; a token is a name whose    *)
(* spelling, the classes of its characters, is all the regular expressions *)
(* look at.  The event type and the sub_id contain dots too, so where one  *)
(* ends is what parse_subject has to find out.  ($ also matches before a   *)
(* line feed that ends the text; no text here ends so.)                    *)
(***************************************************************************)
EXTENDS Naturals, Sequences, SequencesExt

CONSTANT Spelling   \* of each token: its first character's class, all classes, its octets

Tokens == DOMAIN Spelling

Letters == {"lower", "upper", "digit", "_", "-", "other"}

ASSUME SpellingIsText ==
  \A t \in Tokens : /\ Spelling[t].chars \subseteq Letters
                    /\ Spelling[t].octets \in Nat
                    /\ Spelling[t].octets > 0 => Spelling[t].first \in Spelling[t].chars

NoSubId == <<>>       \* sub_id=None
Refused == <<>>       \* SubjectFormatError in place of a subject
-----------------------------------------------------------------------------
RESERVED_ENVS == {"dev", "staging", "prod"}

RESERVED_EVENT_TYPES ==
  [aip        |-> {<<"aip", "document", e>> : e \in {"published", "rotated", "revoked", "fetched"}},
   cap        |-> {<<"cap", "token", e>> : e \in {"issued", "appended", "sealed", "revoked", "verified"}},
   federation |-> {<<"federation", "ftd", "published">>, <<"federation", "ftd", "rotated">>,
                   <<"federation", "peer", "admitted">>, <<"federation", "route", "added">>,
                   <<"federation", "route", "removed">>},
   wat        |-> {<<"wat", "audit", "anchor", "created">>, <<"wat", "leaf", "federated", "attached">>},
   agent      |-> {<<"agent", "task", e>> : e \in {"assigned", "accepted", "completed"}},
   meta       |-> {<<"meta", "schema", "deprecation">>, <<"meta", "vocabulary", "bumped">>,
                   <<"meta", "capability", "issued">>},
   treasury   |-> {},
   comms      |-> {}]

Reserved(domain, event) ==
  domain \in DOMAIN RESERVED_EVENT_TYPES /\ event \in RESERVED_EVENT_TYPES[domain]

SchemaInventory(prefix) ==
  CASE prefix = <<"aip", "document">> -> "aip-document"
    [] prefix = <<"cap", "token">> -> "layer-3-capability-token"
    [] prefix \in {<<"federation", "ftd">>, <<"federation", "peer">>, <<"federation", "route">>}
         -> "federation-trust-document"
    [] prefix \in {<<"agent", "task">>, <<"meta", "schema">>, <<"meta", "vocabulary">>,
                   <<"meta", "capability">>} -> "layer-2-semantic"
    [] OTHER -> "none"
-----------------------------------------------------------------------------
Only(t, classes) == Spelling[t].chars \subseteq classes

NonEmpty(t) == Spelling[t].octets > 0

(* [a-z][a-z0-9_-]* : a domain, and what an event type begins with.        *)
LeadingToken(t) ==
  NonEmpty(t) /\ Spelling[t].first = "lower" /\ Only(t, {"lower", "digit", "_", "-"})

(* [a-z][a-z0-9_.-]* : dots may stand anywhere after the first character.  *)
IsEventType(s) ==
  /\ s # <<>>
  /\ LeadingToken(s[1])
  /\ \A i \in DOMAIN s : Only(s[i], {"lower", "digit", "_", "-"})

(* [a-zA-Z0-9_.-]+ *)
IsSubId(s) ==
  /\ Len(s) > 1 \/ \E i \in DOMAIN s : NonEmpty(s[i])
  /\ \A i \in DOMAIN s : Only(s[i], Letters \ {"other"})

Octets(s) == FoldLeft(LAMBDA n, t : n + Spelling[t].octets + 1, 0, s) - 1

FitsSubId(s) == s # <<>> => Octets(s) <= 64

IsPersonaSlug(s) == Len(s) = 1 /\ LeadingToken(s[1]) /\ Spelling[s[1]].octets <= 31

HostToken(t) == NonEmpty(t) /\ Only(t, {"lower", "digit", "-"})

IsTvAnchor(s) ==
  /\ Len(s) \in {3, 4}
  /\ s[1] = "tv" /\ s[2] = "w"
  /\ NonEmpty(s[3]) /\ Only(s[3], {"digit"})
  /\ Len(s) = 4 => HostToken(s[4])

LooksLikeSubIdAnchor(s) ==
  IsPersonaSlug(s) \/ IsTvAnchor(s) \/ (Len(s) = 1 /\ HostToken(s[1]))

(* The spelling of a host name with its dots turned into hyphens; lower()  *)
(* makes its letters small.                                                *)
FederationHostSlug(host) ==
  LET used == UNION {Spelling[host[i]].chars : i \in DOMAIN host}
               \cup (IF Len(host) > 1 THEN {"-"} ELSE {})
      slug == [chars |-> IF "upper" \in used THEN (used \ {"upper"}) \cup {"lower"} ELSE used,
               octets |-> Octets(host)]
  IN IF slug.octets \in 1..64 /\ slug.chars \subseteq {"lower", "digit", "-"} THEN {slug} ELSE {}
-----------------------------------------------------------------------------
MatchesSchema(s) ==
  /\ Len(s) > 3
  /\ s[1] = "wakir" /\ s[2] \in RESERVED_ENVS
  /\ LeadingToken(s[3]) /\ LeadingToken(s[4])
  /\ \A i \in DOMAIN s : Only(s[i], Letters \ {"other"})

Joined(p) == <<"wakir", p.env, p.domain>> \o p.event \o p.sub

Build(p) ==
  IF /\ p.env \in RESERVED_ENVS
     /\ LeadingToken(p.domain)
     /\ IsEventType(p.event)
     /\ p.sub # NoSubId => IsSubId(p.sub) /\ FitsSubId(p.sub)
     /\ MatchesSchema(Joined(p))
  THEN Joined(p) ELSE Refused

(* Faulty variant: only the last token can be a sub_id.                    *)
CutsLast(domain, rest) ==
  {k \in {Len(rest) - 1} :
     /\ k > 0
     /\ Reserved(domain, SubSeq(rest, 1, k))
     /\ LooksLikeSubIdAnchor(SubSeq(rest, k + 1, Len(rest)))}

(* Where the tokens after the domain may be cut in a reserved event type   *)
(* and an anchor.  The last token is tried first; further cuts only when   *)
(* there are enough tokens for a TV anchor.                                *)
Cuts(domain, rest) ==
  {k \in 1..(Len(rest) - 1) :
     /\ k = Len(rest) - 1 \/ Len(rest) >= 4
     /\ Reserved(domain, SubSeq(rest, 1, k))
     /\ LooksLikeSubIdAnchor(SubSeq(rest, k + 1, Len(rest)))}

(* The parts, as a set: empty when parse_subject raises.  Without a cut    *)
(* everything is the event type.                                           *)
Parse(s) ==
  LET rest == SubSeq(s, 4, Len(s))
      cuts == Cuts(s[3], rest)
      cut  == IF cuts = {} THEN Len(rest) ELSE CHOOSE k \in cuts : \A j \in cuts : j <= k
      p    == [env |-> s[2], domain |-> s[3], event |-> SubSeq(rest, 1, cut),
               sub |-> SubSeq(rest, cut + 1, Len(rest))]
  IN IF MatchesSchema(s) /\ IsEventType(p.event) /\ FitsSubId(p.sub) THEN {p} ELSE {}

SchemaForSubject(s) ==
  {IF Len(p.event) < 2 THEN "none" ELSE SchemaInventory(SubSeq(p.event, 1, 2)) : p \in Parse(s)}
-----------------------------------------------------------------------------
ValidStreamPattern(f) ==
  /\ Len(f) > 3
  /\ f[1] = "wakir"
  /\ f[2] \in RESERVED_ENVS
  /\ f[3] \notin {"*", ">"}

ValidConsumerFilter(f) ==
  /\ Len(f) > 3
  /\ f[1] = "wakir"
  /\ f[2] \in RESERVED_ENVS
  /\ f[3] # "*"
  /\ Len(f) > 4 => f[4] # "*"

(* The broker: * stands for one token, > at the end for one or more.       *)
Subscribable(f) == \A i \in DOMAIN f : f[i] = ">" => i = Len(f)

Matches(f, s) ==
  /\ f # <<>> /\ Len(f) <= Len(s)
  /\ Len(f) = Len(s) \/ f[Len(f)] = ">"
  /\ \A i \in DOMAIN f : f[i] \in {s[i], "*", ">"}
=============================================================================

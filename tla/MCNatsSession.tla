---------------------------- MODULE MCNatsSession ----------------------------
EXTENDS NatsSession

MCDelays == <<{0, 1}>>

Lower(n) == [first |-> "lower", chars |-> {"lower"}, octets |-> n]

MCSpelling ==
  [t \in {"wakir", "dev", "staging", "prod", "agent", "cap", "task", "assigned",
          "token", "issued", "wat", "audit", "anchor", "created", "tv", "w", "tomas"} |-> Lower(5)]
  @@ "2" :> [first |-> "digit", chars |-> {"digit"}, octets |-> 1]
  @@ "Ann" :> [first |-> "upper", chars |-> {"upper", "lower"}, octets |-> 3]
  @@ "a-slug-of-more-than-sixty-four-octets" :>
       [first |-> "lower", chars |-> {"lower", "-"}, octets |-> 65]
  @@ "" :> [first |-> "other", chars |-> {}, octets |-> 0]
  @@ "*" :> [first |-> "other", chars |-> {"other"}, octets |-> 1]
  @@ ">" :> [first |-> "other", chars |-> {"other"}, octets |-> 1]

Parts(env, domain, event, sub) == [env |-> env, domain |-> domain, event |-> event, sub |-> sub]

(* Reserved types with and without anchors, one of them cut in the middle, *)
(* a sub_id that is no anchor, an event type of a single token, which is   *)
(* not reserved, and a sub_id that build_subject refuses.                  *)
MCMessages ==
  { Parts("prod", "cap", <<"cap", "token", "issued">>, NoSubId),
    Parts("prod", "cap", <<"cap", "token", "issued">>, <<"tv", "w", "2", "issued">>),
    Parts("dev", "wat", <<"wat", "audit", "anchor", "created">>, <<"tv", "w", "2">>),
    Parts("dev", "agent", <<"agent", "task", "assigned">>, <<"Ann">>),
    Parts("prod", "cap", <<"task">>, NoSubId),
    Parts("prod", "cap", <<"cap", "token", "issued">>, <<"">>) }

MCFilters ==
  { <<"wakir", "prod", "cap", ">">>,
    <<"wakir", "dev", "wat", ">">>,
    <<"wakir", "dev", "agent", "agent", "task", "assigned", "*">>,
    <<"wakir", "prod", "cap", "*">>,
    <<"wakir", "*", "cap", ">">>,
    <<"wakir", "prod", "*", ">">>,
    <<"wakir", "prod", ">">>,
    <<"wakir", "prod", ">", "token">> }

(* Accepted, refused, and one that the bridge takes and no consumer can    *)
(* parse: an anchor too long for a sub_id.                                 *)
MCSlugs == {"tomas", "Ann", "a-slug-of-more-than-sixty-four-octets"}
=============================================================================

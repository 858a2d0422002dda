--------------------------- MODULE MCHttpsResolver ---------------------------
EXTENDS HttpsResolver

CONSTANTS c1, c2, u1, u2, http, d1, d2, e1, e2

TwoCallers == {c1, c2}
TwoUris    == {u1, u2}
MCUris     == {u1, u2, http}
MCPlain    == {http}
NoUris    == {}
MCDocs     == {d1, d2}

(* The redirect target gives one document no tag, and the other one that   *)
(* the first server gives to another.                                      *)
MCETag == [u \in {u1, u2, http} |->
             IF u = u1 THEN d1 :> e1 @@ d2 :> e2 ELSE d1 :> Nothing @@ d2 :> e1]

(* Each server redirects to the other at times, so in a circle too.        *)
MCServes == [u \in {u1, u2} |-> IF u = u1 THEN {d1, d2, u2} ELSE {d1, d2, u1}]
AnyPage  == [u \in MCUris |-> MCDocs \cup MCUris]
=============================================================================

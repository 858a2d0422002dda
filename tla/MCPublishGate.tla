---------------------------- MODULE MCPublishGate ----------------------------
EXTENDS PublishGate

CONSTANTS p1, p2, org, other, k1, k2, n1, n2

OnePublisher  == {p1}
TwoPublishers == {p1, p2}
Symmetry      == Permutations(TwoPublishers)

(* Two policy keys of one issuer; another issuer's policy is in a file.    *)
TwoIds   == {1, 2}
MCIssuer == [i \in TwoIds |-> org]

Policy(revoked, disabled, kids, names, from, until) ==
  [revoked |-> revoked, disabled |-> disabled, kids |-> kids, names |-> names,
   from |-> from, until |-> until]

Good     == Policy(None, FALSE, {k1}, {n1}, None, None)
Revoked2 == Policy(2, FALSE, {k1}, {n1}, None, None)
Disabled == Policy(None, TRUE, {k1}, {n1}, None, None)
OtherKid == Policy(None, FALSE, {k2}, {n1}, None, None)
OtherSet == Policy(None, FALSE, {k1}, {n2}, None, None)
Windowed == Policy(None, FALSE, {k1}, {n1}, 1, 2)

(* One policy for every outcome at time 2, and most of those without a     *)
(* clock.                                                                  *)
AllPolicies == {Good, Revoked2, Disabled, OtherKid, OtherSet, Windowed}

MCEntries == {[by |-> org, kid |-> k1, name |-> n1]}

MCAsOf == {None, 2}

(* A file: behind a policy of another issuer, one that would do but was    *)
(* revoked, and whose window ends at 2.                                    *)
MCFiles == {<<[by |-> other, policy |-> Good],
              [by |-> org, policy |-> Policy(2, FALSE, {k1}, {n1}, None, 2)]>>}
=============================================================================

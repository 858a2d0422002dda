----------------------- MODULE MCCapabilityPolicyStore -----------------------
EXTENDS CapabilityPolicyStore, TLC

CONSTANTS c1, c2, k1, t1, t2, b1, b2

MCClients  == {c1, c2}
MCKeys     == {k1}
MCInstants == {t1, t2}
MCBundles  == {b1, b2}

Symmetry == Permutations(MCClients) \cup Permutations(MCInstants) \cup Permutations(MCBundles)
=============================================================================

-------------------------- MODULE MCSignatureCache --------------------------
EXTENDS SignatureCache

CONSTANTS d1, k1, k2, s1, s2, bad, p1, p2

MCBodies     == {d1}
MCKids       == {k1, k2}
MCSignatures == {s1, bad}
MCPubKeys    == {p1, p2}
MCGenuine    == {<<d1, s1, p1>>}
MCMalformed  == {bad}
=============================================================================

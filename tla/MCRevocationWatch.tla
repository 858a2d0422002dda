-------------------------- MODULE MCRevocationWatch --------------------------
EXTENDS RevocationWatch

CONSTANTS c1, c2, t1, t2, b1

NoClients  == {}
TwoClients == {c1, c2}
TwoKeys    == {1, 2}
OneKey     == {1}
MCInstants == {t1, t2}
MCBundles  == {b1}
=============================================================================

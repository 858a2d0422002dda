--------------------- MODULE MCCapabilityPolicyReplication --------------------
EXTENDS CapabilityPolicyReplication

CONSTANTS t1, t2, b1

OneKey      == {1}
TwoKeys     == {1, 2}
TwoInstants == {t1, t2}
OneBundle   == {b1}

Setting(casPin, envelope, conflict, breach, accepted) ==
  [casPin |-> casPin, haltOnEnvelopeError |-> envelope,
   haltOnConflict |-> conflict, haltOnBreach |-> breach, accepted |-> accepted]

SourceWins == {Setting(FALSE, TRUE, FALSE, FALSE, OneKey)}
CasPin     == {Setting(TRUE, TRUE, FALSE, FALSE, OneKey)}

(* Both policies, every flag on in one of the two and off in the other.    *)
TwoSettings == {Setting(FALSE, TRUE, FALSE, TRUE, OneKey),
                Setting(TRUE, FALSE, TRUE, FALSE, OneKey)}

Alone   == {FALSE}
Crowded == {TRUE}
Both    == BOOLEAN
=============================================================================

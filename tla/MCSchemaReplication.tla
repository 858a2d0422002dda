-------------------------- MODULE MCSchemaReplication --------------------------
EXTENDS SchemaReplication

CONSTANTS e1, e2

OneKey     == {1}
TwoKeys    == {1, 2}
MCEntries  == {e1, e2}
OneEntry   == {e1}
OnlyE2     == {e2}
NoEntry    == {}

Setting(casPin, envelope, conflict, accepted) ==
  [casPin |-> casPin, haltOnEnvelopeError |-> envelope,
   haltOnConflict |-> conflict, accepted |-> accepted]

SourceWins  == {Setting(FALSE, TRUE, FALSE, TwoKeys)}
CasPin      == {Setting(TRUE, TRUE, FALSE, OneKey)}

(* Both policies, every flag on and off, with and without a filter.        *)
ThreeSettings == {Setting(FALSE, FALSE, FALSE, TwoKeys), Setting(TRUE, TRUE, TRUE, OneKey),
                Setting(TRUE, FALSE, FALSE, OneKey)}

Alone   == {FALSE}
Crowded == {TRUE}
Both    == BOOLEAN
=============================================================================

------------------------ MODULE MCEntryVerification ------------------------
(***************************************************************************)
(* Constants for the EntryVerification runs.                               *)
(***************************************************************************)
EXTENDS EntryVerification

CONSTANTS k1, k2, otherId

Key(kid, alg, key, from, until, purpose) ==
  [kid |-> kid, alg |-> alg, key |-> key, from |-> from, until |-> until,
   purpose |-> purpose]

Plain(kid, key) == Key(kid, "Ed25519", key, None, None, None)

Doc(keys, kid, by) == [id |-> AipId, keys |-> keys, sig |-> [kid |-> kid, by |-> by]]

Current  == Doc(<<Plain("a", k1)>>, "a", k1)
Rotated  == Doc(<<Plain("b", k1), Plain("a", k2)>>, "a", k2)
Windowed == Doc(<<Key("a", "Ed25519", k1, 1, 2, "frame-signing"),
                  Key("b", "secp256k1", k2, 0, None, None)>>, "c", k1)
Twice    == Doc(<<Plain("a", k1), Plain("a", k2)>>, "a", k1)
Undated  == Doc(<<Key("a", "Ed25519", k1, Unparseable, None, None)>>, "a", k1)
Foreign  == [Current EXCEPT !.id = otherId]
Tampered == [Rotated EXCEPT !.sig = [kid |-> "a", by |-> Forged]]
Broken   == Doc(<<Plain("a", k1), NotAMapping>>, "a", k1)

AllDocuments == {Current, Rotated, Windowed, Twice, Undated, Foreign, Tampered, Broken}

Anchors(d) == {<<Fingerprint(d)>>, <<Garbage, Fingerprint(d), Fingerprint(d)>>}

SomeZones == {<<>>} \cup UNION {Anchors(d) : d \in {Current, Windowed}}
               \cup {<<Fingerprint(Rotated)>>, <<Fingerprint(Current), Fingerprint(Rotated)>>}

SomeBlocks == {[kid |-> "a", by |-> k1], [kid |-> "a", by |-> k2],
               [kid |-> "a", by |-> Forged], Malformed}

Ask(dns, required, strict, asOf, purpose) ==
  [flow |-> "chain", id |-> AipId, pin |-> None, dns |-> dns, required |-> required,
   strict |-> strict, asOf |-> asOf, purpose |-> purpose]

Bridge(id, pin) ==
  [Ask(FALSE, FALSE, TRUE, None, None) EXCEPT !.flow = "bridge", !.id = id, !.pin = pin]

SomeRequests ==
  {Ask(TRUE, TRUE, TRUE, asOf, None) : asOf \in {None, 1, 2}}
  \cup {Ask(dns, FALSE, ~dns, 1, None) : dns \in BOOLEAN}
  \cup {Ask(FALSE, FALSE, TRUE, None, None), Ask(FALSE, TRUE, TRUE, 1, None),
        Ask(TRUE, TRUE, FALSE, 1, "frame-signing")}
  \cup {Bridge(AipId, None), Bridge(Url, Fingerprint(Current))}

(* A shorter list for the disagreements.                                   *)
FewRequests ==
  {Ask(TRUE, FALSE, TRUE, None, None), Bridge(AipId, None), Bridge(Url, None)}
=============================================================================

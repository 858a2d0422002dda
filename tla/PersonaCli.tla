----------------------------- MODULE PersonaCli -----------------------------
(***************************************************************************)
(* The wakir-persona commands on one persona file: pin and inspect hash    *)
(* its canonical subset, validate reports on it, migrate lifts it along    *)
(* the chain of schema versions, and may emit the hash of the result or    *)
(* expect one.  An operator keeps the hash that a command gave and expects *)
(* it of a later one (docs/self-migration-konverter-spec.md 7.5), and may  *)
(* write a migrated definition back, while others edit or move the file.   *)
(*                                                                         *)
(* A definition is its front-matter; the markdown body is never read.  Its *)
(* name stands for its description too, which the code treats alike.       *)
(* SHA-256 is injective: a hash is the mapping that it hashes.  Values     *)
(* that JCS writes alike, as 1 and 1.0, are one value, but values that     *)
(* only str() writes alike, as 1 and the string 1, are two.                *)
(***************************************************************************)
EXTENDS Naturals, FiniteSetsExt, SequencesExt

CONSTANTS
  Files,        \* contents that the file has at first or is edited to
  Missing,      \* ... no file
  NoFence,      \* ... text without front-matter
  NoMapping,    \* ... front-matter that is YAML but no mapping
  BadYaml,      \* ... front-matter that is not YAML
  Absent,       \* a key that is not there
  Text,         \* str() of a value: a function
  Misfits,      \* values that tools or identity_pinned should not have, as null
  NotJson,      \* values that json.dumps refuses, as a date
  NotJcs,       \* values that rfc8785.dumps refuses, as a date or a NaN
  MaxChainLength,
  Null

ASSUME ChainIsBounded == MaxChainLength \in Nat /\ NotJson \subseteq NotJcs

(* A string is its own str(), and that of anything else escapes what JCS   *)
(* cannot write.                                                           *)
ASSUME TextIsText ==
  \A v \in DOMAIN Text :
    /\ Text[v] \in DOMAIN Text /\ Text[Text[v]] = Text[v]
    /\ Text[v] \in NotJcs => v \in NotJcs

(* What parse_frontmatter makes of a file.                                 *)
ASSUME FilesAreParsed ==
  /\ Null \notin Files
  /\ \A c \in Files \ {Missing, NoFence, NoMapping, BadYaml} :
       /\ c = [name |-> c.name, tools |-> c.tools, version |-> c.version,
               identity |-> c.identity, extra |-> c.extra]
       /\ c.name # Absent => c.name \in DOMAIN Text
       /\ c.tools \notin {Absent} \cup Misfits =>
            /\ c.tools = [items |-> c.tools.items, listed |-> c.tools.listed]
            /\ \A i \in DOMAIN c.tools.items : c.tools.items[i] \in DOMAIN Text
            /\ ~c.tools.listed => \A i \in DOMAIN c.tools.items :
                                   Text[c.tools.items[i]] = c.tools.items[i]
       /\ c.identity \notin {Absent} \cup Misfits =>
            c.identity = [pins |-> c.identity.pins, extra |-> c.identity.extra]

VersionList == {"persona-v0", "persona-v1", "persona-v2"}
Accepted    == {"persona-v1", "persona-v2"}

RegisteredSteps == << [source |-> "persona-v0", target |-> "persona-v1"],
                      [source |-> "persona-v1", target |-> "persona-v2"] >>

VARIABLES
  file,     \* what is at the path
  command,  \* the command that runs or ran last
  pin,      \* the hash that the operator keeps, and the command that gave it
  pinned,   \* the definition it was taken of (history)
  edited    \* did anyone else touch the file since? (history)

personaVars == <<file, command, pin, pinned, edited>>

Commands ==
  [name : {"pin", "inspect", "validate"}, target : {Null}, expect : {FALSE}, emit : {FALSE}]
    \cup [name : {"migrate"}, target : VersionList, expect : BOOLEAN, emit : BOOLEAN]

NoCommand == [step |-> "idle"]

PersonaInit ==
  /\ file \in Files
  /\ command = NoCommand
  /\ pin = Null /\ pinned = Null
  /\ edited = FALSE
-----------------------------------------------------------------------------
(* persona_canonical_form and persona_hash *)

(* split_frontmatter and parse_frontmatter raise nothing.                  *)
IsMapping(c) == c \notin {NoFence, NoMapping}

HasTools(d)    == d.tools \notin {Absent} \cup Misfits
HasIdentity(d) == d.identity \notin {Absent} \cup Misfits

(* The values of a definition, but for its version, hold one of these.     *)
HoldsAny(d, values) ==
  \/ {d.name, d.extra} \cap values # {}
  \/ IF HasTools(d) THEN \E i \in DOMAIN d.tools.items : d.tools.items[i] \in values
     ELSE d.tools \in values
  \/ IF HasIdentity(d) THEN {d.identity.pins, d.identity.extra} \cap values # {}
     ELSE d.identity \in values

(* extract_canonical_subset raises neither KeyError nor ValueError.        *)
Extractable(d) ==
  /\ Absent \notin {d.name, d.tools, d.version, d.identity}
  /\ d.version \in Accepted
  /\ HasIdentity(d) /\ d.identity.pins # Absent
  /\ HasTools(d)

Texts(items) == [i \in DOMAIN items |-> Text[items[i]]]

(* Faulty variant: what identity_pinned holds is left out of the hash.     *)
CanonicalUnpinned(d) ==
  [d EXCEPT !.name = Text[@],
            !.tools = [items |-> Texts(d.tools.items), listed |-> TRUE],
            !.identity = [pins |-> Null, extra |-> Null],
            !.extra = Null]

(* The subset: str() of the name and of each tool, comma-separated tools   *)
(* listed, unlisted keys dropped.                                          *)
Canonical(d) ==
  [d EXCEPT !.name = Text[@],
            !.tools = [items |-> Texts(d.tools.items), listed |-> TRUE],
            !.identity.extra = Null,
            !.extra = Null]

(* None, which JCS writes as null, and what is no mapping are told from    *)
(* what migrate makes of a definition, and from the subset that is hashed, *)
(* whose tools and identity_pinned are no misfits.                         *)
ASSUME SubsetsAreFit ==
  /\ {Null, Absent} \cap NotJcs = {}
  /\ \A c \in Files \ {Missing, NoFence, NoMapping, BadYaml}, v \in VersionList :
       LET d == [c EXCEPT !.version = v]
       IN  /\ d \notin {Null, Missing, NoFence, NoMapping, BadYaml}
           /\ Extractable(d) =>
                /\ Canonical(d) # Null
                /\ HasTools(Canonical(d)) /\ HasIdentity(Canonical(d))
-----------------------------------------------------------------------------
(* persona_validator *)

(* Faulty variant: the keys of identity_pinned are not looked for.         *)
ErrorsAtTopLevel(d) ==
  {k \in {"name", "tools", "version", "identity"} : d[k] = Absent}
    \cup {e \in {"schema-version-unsupported"} : d.version \notin Accepted \cup {Absent}}
    \cup {e \in {"tools-wrong-type"} : d.tools \in Misfits}
    \cup {e \in {"identity-pinned-not-mapping"} : d.identity \in Misfits}

(* The errors of _validate_canonical_mapping, all of them.                 *)
ValidationErrors(d) ==
  {k \in {"name", "tools", "version", "identity"} : d[k] = Absent}
    \cup {e \in {"schema-version-unsupported"} : d.version \notin Accepted \cup {Absent}}
    \cup {e \in {"tools-wrong-type"} : d.tools \in Misfits}
    \cup {e \in {"identity-pinned-not-mapping"} : d.identity \in Misfits}
    \cup {e \in {"identity-pinned-missing-key"} :
            HasIdentity(d) /\ d.identity.pins = Absent}

(* validate_persona: the errors of its report.                             *)
Report(c) ==
  CASE c = NoFence     -> {"frontmatter-missing"}
    [] c = NoMapping -> {"frontmatter-malformed"}
    [] OTHER           -> ValidationErrors(c)
-----------------------------------------------------------------------------
(* persona_migration *)

StepsFrom(v) == {s \in ToSet(RegisteredSteps) : s.source = v}

(* MigrationStep.apply: a new mapping with the next version; None at the   *)
(* end of the chain.                                                       *)
Lift(d) ==
  IF d = Null \/ StepsFrom(d.version) = {} THEN Null
  ELSE [d EXCEPT !.version = (CHOOSE s \in StepsFrom(d.version) : TRUE).target]

(* _coerce_to_dict: None for a PersonaMigrationError.                      *)
Coerced(c) == IF c \in {NoFence, NoMapping} THEN Null ELSE c

(* _resolve_chain and its steps: the mapping after n of them.              *)
Lifted(d) ==
  LET lifted[n \in 0..MaxChainLength] == IF n = 0 THEN d ELSE Lift(lifted[n - 1])
  IN  lifted

(* migrate_persona without a pin: None for a PersonaMigrationError.        *)
Migrated(c, target) ==
  LET d == Coerced(c)
      there == {n \in 0..MaxChainLength :
                  Lifted(d)[n] # Null /\ Lifted(d)[n].version = target}
  IN  IF d # Null /\ d.version \in VersionList /\ there # {}
      THEN Lifted(d)[Min(there)] ELSE Null

(* Faulty variant: the mapping is compared as it is.                       *)
ProjectedNot(d) == d

(* _project_canonical_subset: what a pin is compared with.                 *)
Projected(d) == Canonical(d)
-----------------------------------------------------------------------------
(* The commands.  An exception that no handler names ends in a traceback   *)
(* (and exit code 1, as "failed" does).                                    *)

Result(exit, out, hash) == [exit |-> exit, out |-> out, hash |-> hash]
Fails(exit) == Result(exit, Null, Null)

RunPin(c) ==
  IF c = Missing THEN Fails("not-found")
  ELSE IF c = BadYaml THEN Fails("traceback")
  ELSE IF ~IsMapping(c) \/ ~Extractable(c) \/ HoldsAny(Canonical(c), NotJcs)
       THEN Fails("failed")
  ELSE Result("ok", Canonical(c), Canonical(c))

(* The same path; the report puts the subset beside the hash.              *)
RunInspect(c) == RunPin(c)

RunValidate(c) ==
  IF c = Missing THEN Fails("not-found")
  ELSE IF c = BadYaml THEN Fails("traceback")
  ELSE IF Report(c) # {} THEN Fails("failed")
  ELSE Result("ok", "valid", Null)

(* The expected hash is compared with the subset's, the emitted hash is    *)
(* that of the whole mapping, after it was written to stdout.              *)
RunMigrate(c, cmd, expected) ==
  LET d == Migrated(c, cmd.target)
      unhashable == ~Extractable(d) \/ HoldsAny(Projected(d), NotJcs)
  IN  IF c = Missing THEN Fails("not-found")
      ELSE IF c = BadYaml THEN Fails("traceback")
      ELSE IF d = Null THEN Fails("failed")
      ELSE IF expected # Null /\ unhashable THEN Fails("traceback")
      ELSE IF expected # Null /\ expected # Projected(d) THEN Fails("drift")
      ELSE IF HoldsAny(d, NotJson) THEN Fails("traceback")
      ELSE IF cmd.emit /\ HoldsAny(d, NotJcs) THEN Result("traceback", d, Null)
      ELSE Result("ok", d, IF cmd.emit THEN d ELSE Null)

Run(cmd, c, expected) ==
  CASE cmd.name = "pin"      -> RunPin(c)
    [] cmd.name = "inspect"  -> RunInspect(c)
    [] cmd.name = "validate" -> RunValidate(c)
    [] cmd.name = "migrate"  -> RunMigrate(c, cmd, expected)

(* The operator calls a command, which looks whether the file exists.      *)
Invoke(cmd) ==
  /\ command.step # "exists"
  /\ cmd.expect => pin # Null
  /\ command' = [step     |-> IF file = Missing THEN "done" ELSE "exists",
                 cmd      |-> cmd,
                 expected |-> IF cmd.expect THEN pin.hash ELSE Null,
                 taken    |-> IF cmd.expect THEN pinned ELSE Null,  \* (history)
                 read     |-> Missing,
                 result   |-> Fails("not-found")]
  /\ UNCHANGED <<file, pin, pinned, edited>>

(* It reads the file, where it may be gone by now, and answers.  The       *)
(* operator keeps a hash that it gives.                                    *)
Answer ==
  LET result == Run(command.cmd, file, command.expected) IN
  /\ command.step = "exists"
  /\ command' = [command EXCEPT !.step = "done", !.read = file, !.result = result]
  /\ IF result.hash = Null THEN UNCHANGED <<pin, pinned, edited>>
     ELSE /\ pin' = [hash |-> result.hash, by |-> command.cmd.name]
          /\ pinned' = file
          /\ edited' = FALSE
  /\ UNCHANGED file

(* The operator replaces the definition by what migrate wrote to stdout,   *)
(* unless that is no JSON: json.dumps writes NaN, which is a string in the *)
(* front-matter.                                                           *)
WriteBack ==
  /\ command.step = "done" /\ command.cmd.name = "migrate" /\ command.result.exit = "ok"
  /\ ~HoldsAny(command.result.out, NotJcs)
  /\ file' = command.result.out
  /\ UNCHANGED <<command, pin, pinned, edited>>

Edit(c) ==
  /\ file # c
  /\ file' = c /\ edited' = TRUE
  /\ UNCHANGED <<command, pin, pinned>>

PersonaNext ==
  (\E cmd \in Commands : Invoke(cmd)) \/ Answer \/ WriteBack \/ \E c \in Files : Edit(c)

PersonaSpec == PersonaInit /\ [][PersonaNext]_personaVars
-----------------------------------------------------------------------------
Ended(exit) == command.step = "done" /\ command.result.exit = exit

(* No drift is missed but in what str() hides: a migration that met its    *)
(* expected hash gives the pinned identity of the definition the hash was  *)
(* taken of, and a name and tools that str() writes as it writes those, at *)
(* the version the hash was taken at, whatever was edited, migrated and    *)
(* written back between the two commands.                                  *)
DriftIsNoticed ==
  Ended("ok") /\ command.expected # Null =>
    LET d == command.result.out
        p == command.taken
    IN /\ d.version = command.expected.version
       /\ Text[d.name] = Text[p.name]
       /\ Texts(d.tools.items) = Texts(p.tools.items)
       /\ d.identity.pins = p.identity.pins

(* No false alarm: a migration reports drift only if someone edited the    *)
(* file since its hash was taken, or the hash is of another version, or    *)
(* migrate emitted it of a file that is not in canonical form.  Migrating  *)
(* first and writing the result back, in one step or two, is no drift.     *)
DriftMeansEdited ==
  Ended("drift") =>
    \/ edited
    \/ pin.hash.version # command.cmd.target
    \/ pin.by = "migrate" /\ pin.hash # Canonical(pin.hash)

(* The validator, which collects errors, and the extractor, which raises   *)
(* the first, agree: what validates can be pinned, unless JCS has no form  *)
(* for a value, and what can be pinned validates.                          *)
ValidIsPinnable ==
  command.step = "done" /\ command.cmd.name = "validate" =>
    LET pinnable == RunPin(command.read).exit = "ok" IN
    /\ pinnable => Ended("ok")
    /\ Ended("ok") => pinnable \/ HoldsAny(command.read, NotJcs)

(* cli.py, V-907-CLI-invariant: what pin prints "equals ... migrate        *)
(* --emit-hash stderr-last-line on a v9 (no-op-chain) input".              *)
EmittedHashIsPin ==
  Ended("ok") /\ command.cmd.emit /\ command.cmd.target = command.read.version =>
    RunPin(command.read).exit # "ok" \/ command.result.hash = RunPin(command.read).hash

(* persona_hash.py: a persona definition with "malformed YAML" is reported *)
(* as invalid; persona_validator.py: "The only exceptions that escape are  *)
(* FileNotFoundError for a missing path and pure bugs".                    *)
ValidatorReportsEveryFile ==
  command.step = "done" /\ command.cmd.name = "validate" => ~Ended("traceback")
=============================================================================

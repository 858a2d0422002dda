---------------------------- MODULE MCPersonaCli ----------------------------
(***************************************************************************)
(* Constants for the PersonaCli runs.                                      *)
(***************************************************************************)
EXTENDS PersonaCli

CONSTANTS i1, i2, x, one, date, nan

(* str() of the number one is the string of it, and so on.                 *)
SomeText ==
  [v \in {"nurse", "Read", "1", "2026-01-01", one, date} |->
     CASE v = one -> "1" [] v = date -> "2026-01-01" [] OTHER -> v]

Definition(version) ==
  [name |-> "nurse", tools |-> [items |-> <<"Read">>, listed |-> TRUE], version |-> version,
   identity |-> [pins |-> i1, extra |-> Null], extra |-> Null]

Base == Definition("persona-v1")

SomeFiles ==
  {Missing, NoFence, NoMapping, BadYaml}
  \cup {Definition(v) : v \in VersionList \cup {"persona-v9", Absent}}
  \cup {[Definition(v) EXCEPT !.tools.listed = FALSE] : v \in {"persona-v0", "persona-v1"}}
  \cup {[Definition(v) EXCEPT !.identity.pins = i2] : v \in {"persona-v0", "persona-v1"}}
  \cup {[Base EXCEPT !.extra = x], [Base EXCEPT !.extra = date],
        [Base EXCEPT !.identity.extra = x], [Base EXCEPT !.identity.pins = nan],
        [Base EXCEPT !.identity.pins = Absent], [Base EXCEPT !.identity = Null],
        [Base EXCEPT !.tools = date], [Base EXCEPT !.tools.items = <<>>],
        [Base EXCEPT !.name = Absent]}
  \cup {[Base EXCEPT !.name = n] : n \in {one, "1", date}}
  \cup {[Base EXCEPT !.tools.items = <<t>>] : t \in {one, "1", date}}
=============================================================================

---------------------------- MODULE OneWayMirror ----------------------------
(***************************************************************************)
(* What one-way replication promises, with no protocol in it: the source   *)
(* publishes operations on keys, one after the other, and for every key    *)
(* the mirror shows the outcome of one operation that was published for    *)
(* it.  It may skip operations; it never shows anything else and never     *)
(* goes back to an older one, whatever crashes and restarts there are.     *)
(***************************************************************************)
EXTENDS Naturals, Sequences

CONSTANTS
  Keys,
  Values,     \* what an operation leaves under its key, deletion included
  Absent      \* shown of a key nothing was mirrored of

VARIABLES
  log,        \* the operations published, oldest first
  position,   \* of each key, the operation the mirror shows; 0 if none
  shown       \* of each key, what the mirror shows

vars == <<log, position, shown>>

Init ==
  /\ log = <<>>
  /\ position = [k \in Keys |-> 0]
  /\ shown = [k \in Keys |-> Absent]

Publish(k, v) ==
  /\ log' = Append(log, [key |-> k, val |-> v])
  /\ UNCHANGED <<position, shown>>

Advance(k) ==
  \E i \in DOMAIN log :
    /\ log[i].key = k
    /\ position[k] < i
    /\ position' = [position EXCEPT ![k] = i]
    /\ shown' = [shown EXCEPT ![k] = log[i].val]
    /\ UNCHANGED log

Next ==
  \/ \E k \in Keys, v \in Values : Publish(k, v)
  \/ \E k \in Keys : Advance(k)

Spec == Init /\ [][Next]_vars
=============================================================================

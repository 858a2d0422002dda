----------------------------- MODULE MCFtdCache -----------------------------
EXTENDS FtdCache

CONSTANTS t1, t2, d1, d2, d3, d4, d5

MCThreads   == {t1, t2}
MCDocs      == {d1, d2, d3, d4, d5}
MCMalformed == {d4}
MCForeign   == {d5}
MCUnsigned  == {d3}

(* d1 runs out within the clock's range, the others beyond it.             *)
MCExpires == [d \in MCDocs |-> IF d = d1 THEN 3 ELSE 9]

(* One key of d1 is retired before d1 expires; d2's is yet to start.       *)
MCIssuerKeys == [d \in MCDocs |->
  CASE d = d1 -> {[from |-> 0, until |-> 1], [from |-> 1, until |-> 9]}
    [] d = d2 -> {[from |-> 1, until |-> None]}
    [] OTHER  -> {[from |-> 0, until |-> 9]}]
=============================================================================

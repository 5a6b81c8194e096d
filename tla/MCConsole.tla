----------------------------- MODULE MCConsole -----------------------------
(* The console on small instances.                                         *)
EXTENDS Console

CONSTANTS r1, r3

Home == [r \in Readers |-> IF r = r3 THEN "worker" ELSE "server"]
Number(n) == [finite |-> TRUE, n |-> n]
Garbled == [finite |-> FALSE, n |-> 0]
SomeForms == {[mode |-> "enforce", review |-> Number(400), block |-> Number(60)],
              [mode |-> "on", review |-> Garbled, block |-> Number(-5)]}
SomeBodies == {[address |-> "", tell |-> FALSE]}

=============================================================================

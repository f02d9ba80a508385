---------------------------- MODULE MCPort9999 ------------------------------
(* Instances of Port9999 for TLC: who runs on two hosts. *)
EXTENDS Port9999

CONSTANTS s1, s2, c1, c2, p1, p2

Two(prog1, prog2, port2, prog3, copies, others) ==
  [server |-> [s \in {s1, s2} |-> IF s = s1 THEN prog1 ELSE prog3],
   client |-> [c \in {c1, c2} |-> IF c = c1 THEN prog2[1] ELSE prog2[2]],
   port |-> [c \in {c1, c2} |-> IF c = c1 THEN p1 ELSE port2],
   maxDups |-> copies, maxForeign |-> others]

MCMixes == {
  Two("49", <<"50", "50">>, p2, "none", 0, 0),   \* two clients of one server
  Two("49", <<"50", "43">>, p1, "none", 1, 1),   \* 43 gets the port, and late answers, of 50
  Two("42", <<"50", "none">>, p2, "49", 1, 0),   \* an echo server on the other host
  Two("42", <<"41", "43">>, p2, "none", 1, 1),   \* two clients of the echo server
  Two("42", <<"41", "43">>, p1, "none", 1, 1),   \* 43 gets the port of 41
  Two("42", <<"50", "43">>, p1, "none", 1, 0),
  Two("40", <<"41", "43">>, p2, "none", 1, 1)}
=============================================================================

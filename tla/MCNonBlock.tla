----------------------------- MODULE MCNonBlock -----------------------------
(* Instances of NonBlock for TLC. *)
EXTENDS NonBlock

CONSTANTS c1, c2, c3

\* The commands, and texts that share a part with one.
Typed == {HELLO \o <<0>>, SHUTDOWN \o <<0>>, <<0, 2, 1>>, <<1, 3, 4>>}
=============================================================================

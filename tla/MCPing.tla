------------------------------- MODULE MCPing -------------------------------
(* Instances of Ping for TLC, with the constants of its arithmetic. *)
EXTENDS PingInv, PingArith

\* What a raw ICMP socket also delivers: an echo request that carries our id
\* (a ping of the local host) and the answers to other processes, one of them with
\* a pid that ends in the same 16 bits.
MCForeign ==
  { [type |-> "echo",  id |-> 2, seq |-> 0, att |-> 0, slot |-> Slots],
    [type |-> "reply", id |-> 1, seq |-> 0, att |-> 0, slot |-> Slots],
    [type |-> "reply", id |-> 2, seq |-> 0, att |-> 0, slot |-> Slots] }
=============================================================================

----------------------------- MODULE PingArith ------------------------------
(***************************************************************************)
(* The arithmetic of 57-socket_raw_ping.c: icmp_tvsub, from which both the *)
(* round-trip time and the time of the summary come, and the checksum that *)
(* icmp_pack puts into a probe.                                            *)
(***************************************************************************)
EXTENDS Integers

CONSTANTS
  Thousand, Million,   \* 1000, and the microseconds of a second
  Word                 \* 2^16: the values of a u16

ASSUME PingArithAssumption ==
  /\ Thousand \in Nat \ {0} /\ Million = Thousand * Thousand
  /\ Word \in Nat /\ Word > 1

-----------------------------------------------------------------------------
(* Times. *)

TimeVal == [sec : Int, usec : 0 .. Million - 1]

Micros(tv) == Million * tv.sec + tv.usec

icmp_tvsub(end, begin) ==
  LET sec == end.sec - begin.sec
      usec == end.usec - begin.usec
  IN  IF usec < 0 THEN [sec |-> sec - 1, usec |-> usec + Million]
      ELSE [sec |-> sec, usec |-> usec]

\* What icmp_unpack and icmp_statistics print of a difference.
Millis(tv) == Thousand * tv.sec + (tv.usec \div Thousand)

-----------------------------------------------------------------------------
(* The checksum of a message of 16-bit words. *)

\* The sums an int holds: below 2^31, for a Word of 2^16.
Sum == {s \in Nat : 2 * (s \div Word) < Word}

\* The carries of the sum are added to its low half; the sum of that may carry
\* once more.
Folded(sum) == (sum \div Word) + (sum % Word)
Twice(sum) == Folded(sum) + (Folded(sum) \div Word)

\* ~sum, stored in 16 bits.
icmp_cksum(sum) == Word - 1 - (Twice(sum) % Word)
=============================================================================

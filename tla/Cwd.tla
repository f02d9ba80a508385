-------------------------------- MODULE Cwd ---------------------------------
(***************************************************************************)
(* The working directory of the programs that create a name in it and      *)
(* never remove one: 18 (a FIFO), 01, 06 and 08 (files).  names are those  *)
(* that exist, from whatever ran before; prog says what runs now.          *)
(***************************************************************************)
EXTENDS Integers

VARIABLES prog, names

cwd == <<prog, names>>

CwdInit ==
  /\ prog \in {"16", "17", "18", "files"}
  /\ names \in SUBSET {"named_fifo", "test.txt", "hole.txt", "mmap.txt"}

Least(a, b) == IF a < b THEN a ELSE b

Pipes == prog # "files"
=============================================================================

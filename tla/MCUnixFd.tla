------------------------------ MODULE MCUnixFd ------------------------------
(***************************************************************************)
(* UnixFd on texts that spell the server's command whole, in part, over an *)
(* older text, or not at all.                                              *)
(***************************************************************************)
EXTENDS UnixFdProps

MCTexts == {Exi, <<"e", "x">>, <<"o", "o", "i">>, Quit}
=============================================================================

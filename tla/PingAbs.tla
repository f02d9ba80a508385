------------------------------ MODULE PingAbs -------------------------------
(***************************************************************************)
(* What a ping promises: a summary that says how many distinct probes it   *)
(* transmitted and how many of those were answered.                        *)
(***************************************************************************)
EXTENDS Naturals, FiniteSets

CONSTANT Probes

VARIABLES sent, counted, report

vars == <<sent, counted, report>>

Init == sent = {} /\ counted = {} /\ report = <<>>

Transmit(p) ==
  /\ report = <<>> /\ p \in Probes \ sent
  /\ sent' = sent \cup {p}
  /\ UNCHANGED <<counted, report>>

Answer(p) ==
  /\ report = <<>> /\ p \in sent \ counted
  /\ counted' = counted \cup {p}
  /\ UNCHANGED <<sent, report>>

Report ==
  /\ report = <<>>
  /\ report' = <<Cardinality(sent), Cardinality(counted)>>
  /\ UNCHANGED <<sent, counted>>

Next == Report \/ (\E p \in Probes : Transmit(p) \/ Answer(p))

Spec == Init /\ [][Next]_vars
=============================================================================

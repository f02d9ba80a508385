----------------------------- MODULE MCWorkDir ------------------------------
(* Instances of WorkDir for TLC: which programs run at once. *)
EXTENDS WorkDir

CONSTANTS r1, r2, r3

Three(a, b, c) == [r \in {r1, r2, r3} |-> CASE r = r1 -> a [] r = r2 -> b [] OTHER -> c]

MCJobs == {
  Three("02", "10", "10"),
  Three("02", "03", "10"),
  Three("03", "10", "03"),
  Three("01", "10", "02"),
  Three("01", "01", "03"),
  Three("06", "06", "02"),
  Three("08", "08", "08"),
  Three("06", "08", "03")}
=============================================================================

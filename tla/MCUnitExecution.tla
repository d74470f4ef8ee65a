--------------------------- MODULE MCUnitExecution ---------------------------
(* Three units in two steps: a and b finish the same step, c needs a.      *)
EXTENDS UnitExecution, TLC

MCUnits == {"a", "b", "c"}
MCSteps == {"s", "t"}
MCDeps == [u \in MCUnits |-> IF u = "c" THEN {"a"} ELSE {}]
MCStepOf == [u \in MCUnits |-> IF u = "c" THEN "t" ELSE "s"]
MCGaps == {<<u, u = "b">> : u \in MCUnits}
MCAnyGaps == MCUnits \X BOOLEAN
(* An ordinary job whose processes die anywhere, and a build job whose     *)
(* processes die between the SUCCEEDED receipt and the checkpoint.         *)
MCSettings == {[build |-> FALSE, faults |-> Steps],
               [build |-> TRUE, faults |-> {"checkpoint"}]}
MCBuild == {[build |-> TRUE, faults |-> {}]}
Symmetry == Permutations(Workers)
=============================================================================

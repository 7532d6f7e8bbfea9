--------------------------- MODULE MCFairnessGate ---------------------------
(* FairnessGate on a small instance: two files, four cells of two flows.   *)
EXTENDS FairnessGate

TwoFiles == <<"harness", "runtime">>
FourCells == {"cubic", "bbr", "mixed", "reverse"}
MixedCells == {"mixed", "reverse"}
BbrCells == {"bbr"}
Recorded == [c \in FourCells |->
               CASE c = "mixed" -> <<1, 3>> [] c = "reverse" -> <<3, 1>> [] OTHER -> <<2, 2>>]
Measured == {<<2, 2>>, <<1, 3>>, <<3, 1>>, <<0, 4>>, <<1, 2>>}
=============================================================================

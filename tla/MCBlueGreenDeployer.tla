------------------------ MODULE MCBlueGreenDeployer ------------------------
(* Three deploys, one of them of a bad build, and one status call.         *)
EXTENDS BlueGreenDeployer

MCCalls == {"d1", "d2", "d3", "s"}
MCTwoCalls == {"d1", "d2"}
MCVersion == [c \in Calls |-> CASE c = "d1" -> "v2" [] c = "d2" -> "v3bad"
                                [] c = "d3" -> "v4" [] OTHER -> "none"]
=============================================================================

------------------------------ MODULE MCReplay ------------------------------
(* Two clients and one server. The first has three lines under two time     *)
(* stamps, the second one file.                                             *)
EXTENDS Replay

Line(at, file) == [at |-> at, file |-> file]

MCClients == {"c1", "c2"}
MCSize == "a" :> 2 @@ "b" :> 1 @@ "e" :> 0
MCRecording == "c1" :> <<Line(13, "b"), Line(5, "a"), Line(5, "e")>> @@ "c2" :> <<Line(3, "b")>>

Started(speed, count, chunkSize, verify, streaming) ==
    [speed |-> speed, count |-> count, chunkSize |-> chunkSize,
     verify |-> verify, streaming |-> streaming]

MCOptions == "c1" :> Started(2, 2, 1, TRUE, TRUE) @@ "c2" :> Started(2, 1, 2, FALSE, FALSE)
MCKillable == {"c2", "server"}
MCMayMiss == {"e"}
MCNobody == {}
=============================================================================

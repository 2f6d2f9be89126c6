------------------------- MODULE MCFrequencyControl -------------------------
(* Small instances of FrequencyControl: two sockets, the second with two CPUs, *)
(* or both with two CPUs that take turns, so that a CPU behind one that is     *)
(* offline may belong to either socket.                                        *)
EXTENDS FrequencyControl, TLC

MCPackage == (0 :> <<0>>) @@ (1 :> <<1, 2>>)
MCInterleaved == (0 :> <<0, 2>>) @@ (1 :> <<1, 3>>)
MCAvailable == <<2>>
MCOfflines == {<<>>, <<1>>}
=============================================================================

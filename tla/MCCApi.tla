-------------------------------- MODULE MCCApi --------------------------------
(* Small instances of CApi. *)
EXTENDS CApi

MCDevices == [v \in Vendors |-> 2]
=============================================================================

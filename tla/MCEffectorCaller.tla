-------------------------- MODULE MCEffectorCaller --------------------------
(* Instances of EffectorCaller for TLC.                                     *)
EXTENDS EffectorCaller

AnyModes == [idempotent : BOOLEAN, singleWriter : BOOLEAN]
=============================================================================

-------------------------------- MODULE MCLora --------------------------------
(***************************************************************************)
(* Lora with two probes, two whole readings, and two packets that lack a   *)
(* field: a probe's reading mixed of two packets is none of these.         *)
(***************************************************************************)
EXTENDS Lora

Fields3(t, s, h) == [temp |-> t, soil |-> s, ph |-> h]
MCReadings == {Fields3(1, 1, 1), Fields3(2, 2, 2),
               Fields3(1, 1, Unreadable), Fields3(Unreadable, 2, 2)}
===============================================================================

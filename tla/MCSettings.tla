------------------------------ MODULE MCSettings ------------------------------
(***************************************************************************)
(* Settings with slots of two chunks of two bytes, an editor of two        *)
(* positions, and two printable characters, ' ' and '_'.  The shell writes *)
(* a line too long for the editor, with another behind it.                 *)
(***************************************************************************)
EXTENDS Settings

MCEchoed == {[field |-> "wifi_pass", text |-> <<LastChar, LastChar, Newline, LastChar>>]}
===============================================================================

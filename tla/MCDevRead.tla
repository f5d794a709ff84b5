----------------------------- MODULE MCDevRead -----------------------------
(* An instance of DevRead for TLC. *)
EXTENDS DevRead

(* As ints of 5 bits: -12, -1, -15 and 5.  A field of 2 holds the second   *)
(* and the last; the tags get any order in the file.                       *)
MCEuid == <<20, 31, 17, 5>>
=============================================================================

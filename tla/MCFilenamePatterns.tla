------------------------- MODULE MCFilenamePatterns -------------------------
(* Three years, the last of them a leap year, for TLC. *)
EXTENDS FilenamePatterns

MCFirstDay == [year |-> 2026, month |-> 1, day |-> 1, dow |-> 4]
=============================================================================

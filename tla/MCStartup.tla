----------------------------- MODULE MCStartup -----------------------------
(* Startup on a few instances, tables and codes. *)
EXTENDS Startup

CONSTANTS i1, i2, s1, s2, o1

=============================================================================

------------------------- MODULE MCChangeWatchdog -------------------------
(* Instances of ChangeWatchdog for TLC.                                    *)
EXTENDS ChangeWatchdog

CONSTANTS a, h, night, o1
=============================================================================

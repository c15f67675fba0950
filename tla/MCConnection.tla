------------------------------ MODULE MCConnection ------------------------------
(* Values of Connection's constants for TLC.                                    *)
EXTENDS Connection, TLC

CONSTANTS c1, c2, t1, t2

Alike == Permutations(Conn)
================================================================================

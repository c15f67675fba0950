--------------------------- MODULE MCPropertyObject ---------------------------
(* Values of PropertyObject's constants for TLC: a CacheingPropertyObject with a  *)
(* full prefix and a PropertyObject with a short one for the same namespace.     *)
EXTENDS PropertyObject, TLC

CONSTANTS cpo, po, p, q, ns

MCPrefix == [o \in Object |-> ns]
================================================================================

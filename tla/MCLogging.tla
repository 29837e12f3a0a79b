------------------------------ MODULE MCLogging ------------------------------
(***************************************************************************)
(* The instance of Logging for TLC.                                        *)
(***************************************************************************)
EXTENDS Logging

CONSTANTS w1, w2

MCWorker == {w1, w2}

=============================================================================

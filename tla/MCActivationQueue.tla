--------------------------- MODULE MCActivationQueue ---------------------------
(* Small instances of ActivationQueue for TLC.                             *)
EXTENDS ActivationQueue
===============================================================================

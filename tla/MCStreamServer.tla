----------------------------- MODULE MCStreamServer -----------------------------
(* Small instances of StreamServer for TLC.                                *)
EXTENDS StreamServer

CONSTANTS h1, h2    \* the handlers

\* One client sends a request after its first; the other disturbs it.
OneSendsTwo == (h1 :> 2) @@ (h2 :> 1)
OneEach     == (h1 :> 1) @@ (h2 :> 1)
===============================================================================

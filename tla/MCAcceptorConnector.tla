-------------------------- MODULE MCAcceptorConnector --------------------------
(* Small instances of AcceptorConnector for TLC.                           *)
EXTENDS AcceptorConnector

CONSTANTS h1, h2    \* handlers
===============================================================================

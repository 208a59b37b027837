------------------------------ MODULE MCDaemon ------------------------------
EXTENDS Daemon, TLC
CONSTANTS c1, c2, c3, bad
\* Two contents with a listener each, one without.
Listeners == c1 :> 8080 @@ c2 :> 9090 @@ c3 :> 0
=============================================================================

----------------------------- MODULE MCShutdown -----------------------------
(* Two tracked requests and one ordinary one.                               *)
EXTENDS Shutdown
CONSTANTS t1, t2, r1

MCTracked == {t1, t2}
MCConns   == {t1, t2, r1}

=============================================================================

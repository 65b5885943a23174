---------------------------- MODULE MCProcesses -----------------------------
(* The server, with two drills asked for at once, and two commands beside   *)
(* it, one of them a drill.                                                 *)
EXTENDS Processes
CONSTANTS server, command, cron, http1, http2, cli

MCOwner == [d \in {http1, http2, cli} |-> IF d = cli THEN command ELSE server]
=============================================================================

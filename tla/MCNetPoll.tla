----------------------------- MODULE MCNetPoll -----------------------------
(***************************************************************************)
(* Three CPUs in the passing run (two in the lock-order run, set in its   *)
(* cfg).  The socket-set operations take the same single lock, so one of  *)
(* them stands for all four.                                               *)
(***************************************************************************)
EXTENDS NetPoll

\* check_poll and the socket calls of the system-call layer
MCOpsWithoutPoll == {"check_poll", "add_socket"}
\* as above, and poll (also the NetPollTimer callback)
MCOpsAll == {"poll_interfaces", "check_poll", "add_socket"}
=============================================================================

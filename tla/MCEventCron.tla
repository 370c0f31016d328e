---------------------------- MODULE MCEventCron ----------------------------
(* Instances of EventCron for TLC.                                         *)
EXTENDS EventCron, TLC

CONSTANTS a, b

\* A transaction with two handled events, and one with an event nobody
\* handles, a log entry that is no print, and a handled event.
MCLogs == a :> <<"initiate-outbound", "finalize-inbound">>
          @@ b :> <<"escrow", "none", "initiate-outbound">>
=============================================================================

--------------------------- MODULE MCEventStream ---------------------------
(* Constant values for the runs over EventStream.tla. *)
EXTENDS EventStream

AllEntries == 1..MaxEntries

\* What can put messages, commits and cursors out of step, once each; what
\* can delay the stream.
SafetyFaults == [late |-> 1, fails |-> 1, exits |-> 0, lost |-> 1]
StreamFaults == [late |-> 0, fails |-> 1, exits |-> 1, lost |-> 0]
=============================================================================

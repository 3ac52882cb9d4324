----------------------------- MODULE MC_JobQueue -----------------------------
(* Model values for the runs of JobQueue.                                  *)
EXTENDS JobQueue

\* States in which operators retry: all in which nothing runs (the table
\* refuses a succeeded job).
ClosedStates == {"SUCCEEDED", "FAILED", "TIMED_OUT", "CANCELLED", "WAITING_RESOURCE"}

=============================================================================

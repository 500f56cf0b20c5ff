--------------------------- MODULE MCSimulationJob ---------------------------
(* Bounds for model checking one simulation connection.                   *)
EXTENDS SimulationJob

\* Runs that end before and beyond the sample limit.
MCLengths == {2, 4}
\* Frames smaller than a batch, and frames that fill one alone.
MCWidths == {1, 2}
=============================================================================

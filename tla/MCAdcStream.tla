----------------------------- MODULE MCAdcStream -----------------------------
(* AdcStream with a few receivers and connections, for TLC. *)
EXTENDS AdcStream, TLC

\* Receivers and connections are interchangeable; no property of the run is a
\* liveness property.
Symmetry == Permutations(Receivers) \cup Permutations(Conns)

\* Once `raced' holds, what the ring and the logger contain, and the histories
\* of the pipeline, are read by no guard and by no property of the run.
Contents == IF raced THEN <<>> ELSE <<ring, loggerConn, consumed, interrupted>>
View == <<done, wpc, first, num, i, started, loggerId, loggerTerm, lpc, rd, sems,
          driver, cancelled, conn, workerId, control, history, Contents>>
===============================================================================

---------------------------- MODULE MCProcessing ----------------------------
(* Small instances of Processing for TLC.                                   *)
EXTENDS Processing

About(pages, attempts, cleanups, sweeps, traits) ==
  [pages |-> pages, attempts |-> attempts, cleanups |-> cleanups, sweeps |-> sweeps,
   traits |-> traits]

\* A source that fails, with the retry, the sweep and a member's deletion overlapping; two
\* attempts that store a page; an attempt that stores two; cleanups of two attempts.
Overlaps ==
  {About(1, 1, 0, 1, {"retry", "delete"}), About(1, 2, 1, 0, {"convertible"}),
   About(2, 1, 1, 0, {"convertible"}), About(1, 1, 2, 0, {"convertible"})}

\* The retry of a source that can be converted; a deletion by a member and two sweeps;
\* cleanups of two attempts.
Endings ==
  {About(1, 1, 0, 0, {"convertible", "retry"}), About(1, 1, 0, 2, {"delete"}),
   About(1, 1, 2, 0, {"convertible"})}

FailingCleanup == {About(1, 1, 2, 0, {"convertible"})}
EarlyRetry == {About(1, 1, 0, 0, {"retry"})}
SlowAttempt == {About(2, 1, 1, 0, {"convertible", "slow"})}
=============================================================================

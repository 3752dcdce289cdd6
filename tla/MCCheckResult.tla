---------------------------- MODULE MCCheckResult ----------------------------
(***************************************************************************)
(* The instance of CheckResult for TLC.                                    *)
(***************************************************************************)
EXTENDS CheckResult

\* No error, and the two errors of SplitWorld's callers that rank highest.
ThreeResults == {0, 3, 4}
=============================================================================

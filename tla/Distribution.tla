---------------------------- MODULE Distribution ----------------------------
(***************************************************************************)
(* Dividing N consecutive things among size owners in blocks: the jobs of  *)
(* SplitWorld::distributeJobs, and the index ranges of JMPI_.              *)
(***************************************************************************)
EXTENDS Integers

\* Fault: the jobs left over by the division are given to nobody.
CountWithoutRest(numjobs, swcount, localid) == numjobs \div swcount

\* distributeJobs: how many of numjobs jobs a world gets, and the first of them
JobCount(numjobs, swcount, localid) ==
  numjobs \div swcount + (IF localid < numjobs % swcount THEN 1 ELSE 0)

JobStart(numjobs, swcount, localid) ==
  (numjobs \div swcount) * localid
    + (IF localid < numjobs % swcount THEN localid ELSE numjobs % swcount)

\* JMPI_::split: local_N and offset
SplitCount(N, size, rank) ==
  LET rest == N - (N \div size) * size
  IN  IF rank < rest THEN N \div size + 1 ELSE N \div size

SplitOffset(N, size, rank) ==
  LET rest == N - (N \div size) * size
  IN  IF rank < rest THEN SplitCount(N, size, rank) * rank
                     ELSE SplitCount(N, size, rank) * rank + rest

\* JMPI_::setDistribution for N = max_id - min_id + 1 indices: distribution[p]
Boundary(min_id, N, size, p) ==
  LET local_N == N \div size
      rest == N - local_N * size
  IN  IF N <= 0 THEN min_id
      ELSE IF p = size THEN min_id + N
      ELSE IF p < rest THEN min_id + (local_N + 1) * p
      ELSE min_id + rest + local_N * p

\* what setDistribution returns: the length of the longest block
LongestBlock(N, size) ==
  IF N <= 0 THEN 0
  ELSE IF N - (N \div size) * size = 0 THEN N \div size ELSE N \div size + 1
=============================================================================

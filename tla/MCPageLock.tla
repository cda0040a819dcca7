------------------------------ MODULE MCPageLock ------------------------------
(***************************************************************************)
(* The values TLC gives the constants of PageLock.                         *)
(***************************************************************************)
EXTENDS PageLock, TLC

\* The requests for a lock; the null request, which the header offers for
\* asking which lock one has, is the type left out.
LockRequests == LockTypes \ {PAGE_LOCK_NULL}

Symmetric == Permutations(Owners) \cup Permutations(Pages)
=============================================================================

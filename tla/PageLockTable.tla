---------------------------- MODULE PageLockTable ----------------------------
(***************************************************************************)
(* What the page lock promises its clients (page_lock.h): for every page,  *)
(* a read-write-intent lock per owner.  A request is answered with the     *)
(* strongest lock, not above the one asked for or already held, that the   *)
(* compatibility matrix of the header allows beside the locks of the other *)
(* owners.  A weaker answer than the one asked for leaves the owner asleep *)
(* until some lock is released.                                            *)
(*                                                                         *)
(* PageLock refines this module.                                           *)
(***************************************************************************)
EXTENDS Integers

CONSTANTS
    Owners,     \* lock owners: the thread identifiers
    Pages,      \* logical pages
    Requests    \* the lock types the clients ask for

PAGE_LOCK_NULL   == 0
PAGE_LOCK_READ   == 1
PAGE_LOCK_INTENT == 2
PAGE_LOCK_WRITE  == 3
LockTypes == PAGE_LOCK_NULL .. PAGE_LOCK_WRITE

VARIABLES
    held,       \* held[p][o]: the lock owner o has on page p
    asleep      \* requests <<o, p, t>> answered short and not yet signalled

tableVars == <<held, asleep>>

(***************************************************************************)
(* The matrix of the header: row = lock another owner holds, column =      *)
(* lock requested.                                                         *)
(***************************************************************************)
Compatible(other, asked) ==
    \/ other = PAGE_LOCK_NULL
    \/ asked = PAGE_LOCK_NULL
    \/ other = PAGE_LOCK_READ /\ asked \in {PAGE_LOCK_READ, PAGE_LOCK_INTENT}

\* The lock types owner o may be given on page p.
Grantable(o, p) ==
    {t \in LockTypes : \A q \in Owners \ {o} : Compatible(held[p][q], t)}

IsAnswer(o, p, t, g) ==
    LET wanted == {u \in Grantable(o, p) : u <= t \/ u <= held[p][o]}
    IN  g \in wanted /\ \A u \in wanted : u <= g

TableInit ==
    /\ held = [p \in Pages |-> [o \in Owners |-> PAGE_LOCK_NULL]]
    /\ asleep = {}

TableLock(o, p, t) ==
    \E g \in LockTypes :
        /\ IsAnswer(o, p, t, g)
        /\ held' = IF g = PAGE_LOCK_NULL THEN held ELSE [held EXCEPT ![p][o] = g]
        /\ asleep' = {r \in asleep : r[1] # o \/ r[2] # p}
                         \cup (IF g < t THEN {<<o, p, t>>} ELSE {})

TableUnlock(o, p) ==
    /\ held[p][o] # PAGE_LOCK_NULL
    /\ held' = [held EXCEPT ![p][o] = PAGE_LOCK_NULL]
    /\ asleep' = {}

TableNext ==
    \E o \in Owners, p \in Pages :
        \/ \E t \in Requests : TableLock(o, p, t)
        \/ TableUnlock(o, p)

TableSpec == TableInit /\ [][TableNext]_tableVars
=============================================================================

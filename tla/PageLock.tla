------------------------------- MODULE PageLock -------------------------------
(***************************************************************************)
(* The page lock of the firmware (page_lock.c): a table of slots in DRAM,  *)
(* each the lock record of one page, with two bits per owner.  A slot is   *)
(* taken when a page is locked first and given back when its last owner    *)
(* unlocks.                                                                *)
(*                                                                         *)
(* The calls are atomic: threads are switched only at their own sleep().   *)
(* The clients (read and write threads) ask for the locks in Requests and  *)
(* keep at most PerOwner pages each.                                       *)
(***************************************************************************)
EXTENDS Integers, FiniteSets

CONSTANTS
    Owners,     \* lock owners: the thread identifiers
    Pages,      \* logical pages
    Slots,      \* the lock records, MAX_NUM_LOCKS of them
    PerOwner,   \* MAX_NUM_LOCKS_PER_OWNER: pages an owner locks at a time
    NULL_LPN,   \* marks a free slot
    Requests    \* the lock types the clients ask for

PAGE_LOCK_NULL   == 0
PAGE_LOCK_READ   == 1
PAGE_LOCK_INTENT == 2
PAGE_LOCK_WRITE  == 3
LockTypes == PAGE_LOCK_NULL .. PAGE_LOCK_WRITE

ASSUME NullLpnAssumption  == NULL_LPN \notin Pages
ASSUME RequestsAssumption == Requests \subseteq LockTypes
ASSUME SlotsAssumption    == IsFiniteSet(Slots)
ASSUME PerOwnerAssumption == PerOwner \in Nat \ {0}

VARIABLES
    lpns,         \* lpns[s]: the page of slot s, or NULL_LPN
    owners_info,  \* owners_info[s][o]: the lock of owner o in slot s
    num_locks,    \* the count of slots in use
    asleep,       \* requests answered short, waiting for SIG_LOCK_RELEASED
    halted        \* an ASSERT has failed

vars == <<lpns, owners_info, num_locks, asleep, halted>>

MAX_NUM_LOCKS == Cardinality(Slots)

(***************************************************************************)
(* Reading the table.  An operator named Bug... is the next definition as  *)
(* a slip in the code would have it; the runs show that it is noticed.     *)
(***************************************************************************)

HasSlot(p) == \E s \in Slots : lpns[s] = p

SlotOf(p) == CHOOSE s \in Slots : lpns[s] = p

NoOwners == [o \in Owners |-> PAGE_LOCK_NULL]

InfoOf(p) == IF HasSlot(p) THEN owners_info[SlotOf(p)] ELSE NoOwners

\* A write lock is granted beside readers.
BugWriteBesideRead(t) ==
    IF t \in {PAGE_LOCK_NULL, PAGE_LOCK_READ} THEN PAGE_LOCK_WRITE ELSE PAGE_LOCK_NULL

\* _highest_compatible_lock: the strongest lock allowed beside another one.
HighestCompatible(t) ==
    CASE t = PAGE_LOCK_NULL   -> PAGE_LOCK_WRITE
      [] t = PAGE_LOCK_READ   -> PAGE_LOCK_INTENT
      [] t = PAGE_LOCK_INTENT -> PAGE_LOCK_NULL
      [] t = PAGE_LOCK_WRITE  -> PAGE_LOCK_NULL

\* t is the strongest lock among the owners other than o.
IsHighestExcept(info, o, t) ==
    /\ \A q \in Owners \ {o} : info[q] <= t
    /\ t = PAGE_LOCK_NULL \/ \E q \in Owners \ {o} : info[q] = t

HighestExcept(info, o) ==
    CHOOSE t \in LockTypes : IsHighestExcept(info, o, t)

Lower(a, b)  == IF a < b THEN a ELSE b
Higher(a, b) == IF a < b THEN b ELSE a

\* The lock held already is not taken into account: it may be weakened.
BugForgetsOldLock(info, o, t) == Lower(HighestCompatible(HighestExcept(info, o)), t)

\* What page_lock(o, _, t) returns on a page with these owners.
FinalLock(info, o, t) ==
    Lower(HighestCompatible(HighestExcept(info, o)), Higher(t, info[o]))

(***************************************************************************)
(* page_lock.                                                              *)
(***************************************************************************)
Granted(info, o, g) ==
    IF g # PAGE_LOCK_NULL /\ g # info[o] THEN [info EXCEPT ![o] = g] ELSE info

WaitFor(o, p, t, g) ==
    {r \in asleep : r[1] # o \/ r[2] # p} \cup (IF g < t THEN {<<o, p, t>>} ELSE {})

\* The lock is determined and recorded in slot s.
LockAt(s, o, p, t) ==
    LET g == FinalLock(owners_info[s], o, t) IN
      /\ owners_info' = [owners_info EXCEPT ![s] = Granted(@, o, g)]
      /\ asleep' = WaitFor(o, p, t, g)

\* The page has a slot already.
LockKnownPage(o, p, t) ==
    /\ \E s \in Slots : lpns[s] = p /\ LockAt(s, o, p, t)
    /\ UNCHANGED <<lpns, num_locks, halted>>

\* assign_lock_for: the page takes a free slot, then the lock is granted.
LockNewPage(o, p, t) ==
    /\ \E s \in Slots :
        /\ lpns[s] = NULL_LPN
        /\ lpns' = [lpns EXCEPT ![s] = p]
        /\ LockAt(s, o, p, t)
    /\ num_locks' = num_locks + 1
    /\ UNCHANGED halted

\* assign_lock_for: ASSERT(num_locks < MAX_NUM_LOCKS) fails.
LockOverflow ==
    /\ halted' = TRUE
    /\ UNCHANGED <<lpns, owners_info, num_locks, asleep>>

PagesOf(o) == {p \in Pages : InfoOf(p)[o] # PAGE_LOCK_NULL}

page_lock(o, p, t) ==
    /\ Cardinality(PagesOf(o) \cup {p}) <= PerOwner
    /\ IF HasSlot(p) THEN LockKnownPage(o, p, t)
       ELSE IF num_locks < MAX_NUM_LOCKS THEN LockNewPage(o, p, t)
       ELSE LockOverflow

(***************************************************************************)
(* page_unlock: nothing happens when the owner has no lock on the page.    *)
(***************************************************************************)
Unlocked(info, o) == [info EXCEPT ![o] = PAGE_LOCK_NULL]

\* The owners are looked at before the unlock instead of after it.
BugStaleOwners(info, o) == info = NoOwners

\* release_lock_at is due: nobody else has a lock on the page.
LastOwner(info, o) == Unlocked(info, o) = NoOwners

CountAfter(last) == IF last THEN num_locks - 1 ELSE num_locks

\* The release is announced only when the slot is given back.
BugSignalsLastOnly(last) == IF last THEN {} ELSE asleep

\* SIG_LOCK_RELEASED wakes every sleeping request.
SleepersAfter(last) == {}

page_unlock(o, p) ==
    \E s \in Slots :
        /\ lpns[s] = p
        /\ owners_info[s][o] # PAGE_LOCK_NULL
        /\ owners_info' = [owners_info EXCEPT ![s] = Unlocked(@, o)]
        /\ LET last == LastOwner(owners_info[s], o) IN
             /\ lpns' = IF last THEN [lpns EXCEPT ![s] = NULL_LPN] ELSE lpns
             /\ num_locks' = CountAfter(last)
             /\ asleep' = SleepersAfter(last)
        /\ UNCHANGED halted

page_lock_init ==
    /\ lpns = [s \in Slots |-> NULL_LPN]
    /\ owners_info = [s \in Slots |-> NoOwners]

Init ==
    /\ page_lock_init
    /\ num_locks = 0
    /\ asleep = {}
    /\ halted = FALSE

Next ==
    /\ ~halted
    /\ \E o \in Owners, p \in Pages :
        \/ \E t \in Requests : page_lock(o, p, t)
        \/ page_unlock(o, p)

Spec == Init /\ [][Next]_vars

-----------------------------------------------------------------------------
\* Every variable keeps its type; the count of slots in use is never negative.
TypeOK ==
    /\ lpns \in [Slots -> Pages \cup {NULL_LPN}]
    /\ owners_info \in [Slots -> [Owners -> LockTypes]]
    /\ num_locks \in Nat
    /\ asleep \subseteq Owners \X Pages \X LockTypes
    /\ halted \in BOOLEAN

UsedSlots == {s \in Slots : lpns[s] # NULL_LPN}

\* A page is described by at most one slot, and a free slot carries no
\* leftover owner bits, so the next page that takes it starts unlocked;
\* num_locks counts the slots in use.
SlotsCoherent ==
    /\ \A s, r \in UsedSlots : lpns[s] = lpns[r] => s = r
    /\ \A s \in Slots \ UsedSlots : owners_info[s] = NoOwners
    /\ num_locks = Cardinality(UsedSlots)

\* Two owners of one page never hold incompatible locks, whatever the order of
\* the calls: a write lock excludes every other lock, and beside an intent to
\* write there are only readers.
Exclusion ==
    \A s \in Slots : \A o, q \in Owners :
        o # q =>
          /\ owners_info[s][o] = PAGE_LOCK_WRITE => owners_info[s][q] = PAGE_LOCK_NULL
          /\ owners_info[s][o] = PAGE_LOCK_INTENT => owners_info[s][q] <= PAGE_LOCK_READ

\* A slot in use has an owner: requests that are denied, repeated or upgraded
\* never leave behind a slot that no unlock can give back.
NoSlotLeak == \A s \in UsedSlots : owners_info[s] # NoOwners

\* page_lock.c:48, ASSERT(num_locks < MAX_NUM_LOCKS): there is a slot for every
\* request of owners that keep within MAX_NUM_LOCKS_PER_OWNER pages.
SlotAvailable == ~halted

\* A request that sleeps would still be answered short: whatever made it
\* grantable raised SIG_LOCK_RELEASED after the request was denied.
NoMissedRelease ==
    \A r \in asleep : FinalLock(InfoOf(r[2]), r[1], r[3]) < r[3]

\* The table of slots implements the lock table that the header promises.
Held == [p \in Pages |-> InfoOf(p)]
Table == INSTANCE PageLockTable WITH held <- Held
Refines == Table!TableSpec
=============================================================================

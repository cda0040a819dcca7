--------------------------- MODULE PageLock_proofs ---------------------------
(***************************************************************************)
(* The page lock, for any number of owners, pages and slots and any set of *)
(* lock types the clients may ask for: the slots stay coherent and the     *)
(* locks compatible, the slots implement the lock table of page_lock.h,    *)
(* every request that could be granted is woken, and slots for the limit   *)
(* of each owner suffice. All rests on one inductive invariant, that a     *)
(* page has at most one slot and that the owners' bits of a slot are       *)
(* compatible; the table of the header is what SlotOf finds, since there   *)
(* is only one.                                                            *)
(***************************************************************************)
EXTENDS PageLock, FiniteSetTheorems, FunctionTheorems, TLAPS

(***************************************************************************)
(* The strongest lock of the other owners exists: the CHOOSE in            *)
(* HighestExcept picks a value that bounds every other owner's lock and is *)
(* attained.                                                               *)
(***************************************************************************)
LEMMA HighestExceptIs ==
  ASSUME NEW info \in [Owners -> LockTypes], NEW o \in Owners
  PROVE  /\ HighestExcept(info, o) \in LockTypes
         /\ IsHighestExcept(info, o, HighestExcept(info, o))
<1> USE DEF LockTypes, PAGE_LOCK_NULL, PAGE_LOCK_READ, PAGE_LOCK_INTENT, PAGE_LOCK_WRITE
<1> DEFINE Other == Owners \ {o}
<1>1. \E t \in LockTypes : IsHighestExcept(info, o, t)
  <2>1. CASE \E q \in Other : info[q] = 3
    BY <2>1 DEF IsHighestExcept
  <2>2. CASE ~(\E q \in Other : info[q] = 3) /\ (\E q \in Other : info[q] = 2)
    <3>1. \A q \in Other : info[q] <= 2
      BY <2>2
    <3>2. QED BY <2>2, <3>1 DEF IsHighestExcept
  <2>3. CASE /\ ~(\E q \in Other : info[q] = 3)
             /\ ~(\E q \in Other : info[q] = 2)
             /\ \E q \in Other : info[q] = 1
    <3>1. \A q \in Other : info[q] <= 1
      BY <2>3
    <3>2. QED BY <2>3, <3>1 DEF IsHighestExcept
  <2>4. CASE ~(\E q \in Other : info[q] \in 1..3)
    <3>1. \A q \in Other : info[q] <= 0
      BY <2>4
    <3>2. QED BY <3>1 DEF IsHighestExcept
  <2>5. QED BY <2>1, <2>2, <2>3, <2>4
<1>2. QED BY <1>1 DEF HighestExcept

(***************************************************************************)
(* What page_lock answers: a lock type, never above the one the matrix     *)
(* allows beside the other owners, and never NULL on an unlocked page      *)
(* unless NULL was asked for.                                              *)
(***************************************************************************)
LEMMA FinalLockIs ==
  ASSUME NEW info \in [Owners -> LockTypes], NEW o \in Owners, NEW t \in LockTypes
  PROVE  LET g == FinalLock(info, o, t) IN
         /\ g \in LockTypes
         /\ g <= HighestCompatible(HighestExcept(info, o))
         /\ info = NoOwners => g = t
<1> USE DEF LockTypes, PAGE_LOCK_NULL, PAGE_LOCK_READ, PAGE_LOCK_INTENT, PAGE_LOCK_WRITE
<1> DEFINE h == HighestExcept(info, o)
<1>1. h \in LockTypes /\ IsHighestExcept(info, o, h)
  BY HighestExceptIs
<1> HIDE DEF h
<1>2. HighestCompatible(h) \in LockTypes
  BY <1>1 DEF HighestCompatible
<1>3. info[o] \in LockTypes
  OBVIOUS
<1>4. FinalLock(info, o, t) = Lower(HighestCompatible(h), Higher(t, info[o]))
  BY DEF FinalLock, h
<1>5. info = NoOwners => h = 0 /\ info[o] = 0
  BY <1>1 DEF NoOwners, IsHighestExcept
<1>6. info = NoOwners => FinalLock(info, o, t) = t
  BY <1>4, <1>5 DEF Lower, Higher, HighestCompatible
<1>7. QED
  BY <1>2, <1>3, <1>4, <1>6 DEF Lower, Higher, h

\* The locks of one page are compatible with each other.
PageExcludes(info) ==
    \A o, q \in Owners :
        o # q =>
          /\ info[o] = PAGE_LOCK_WRITE => info[q] = PAGE_LOCK_NULL
          /\ info[o] = PAGE_LOCK_INTENT => info[q] <= PAGE_LOCK_READ

(***************************************************************************)
(* Granting a lock keeps the locks of the page compatible.                 *)
(***************************************************************************)
LEMMA GrantExcludes ==
  ASSUME NEW info \in [Owners -> LockTypes], NEW o \in Owners, NEW t \in LockTypes,
         PageExcludes(info)
  PROVE  LET i == Granted(info, o, FinalLock(info, o, t)) IN
         i \in [Owners -> LockTypes] /\ PageExcludes(i)
<1> USE DEF LockTypes, PAGE_LOCK_NULL, PAGE_LOCK_READ, PAGE_LOCK_INTENT, PAGE_LOCK_WRITE
<1> DEFINE g == FinalLock(info, o, t)
           h == HighestExcept(info, o)
           i == Granted(info, o, g)
<1>1. g \in LockTypes /\ g <= HighestCompatible(h)
  BY FinalLockIs
<1>2. h \in LockTypes /\ IsHighestExcept(info, o, h)
  BY HighestExceptIs
<1> HIDE DEF g, h
<1>3. i \in [Owners -> LockTypes]
  BY <1>1 DEF Granted
<1>4. \A q \in Owners \ {o} : i[q] = info[q] /\ i[q] <= h
  BY <1>2 DEF Granted, IsHighestExcept
<1>5. i = info \/ (i[o] = g /\ g # 0)
  BY DEF Granted
<1>6. SUFFICES ASSUME i[o] = g, g # 0 PROVE PageExcludes(i)
  BY <1>3, <1>5 DEF g
<1>7. g = 3 => h = 0
  BY <1>1, <1>2 DEF HighestCompatible
<1>8. g # 0 => h <= 1
  BY <1>1, <1>2 DEF HighestCompatible
<1>9. ASSUME NEW q \in Owners \ {o}
      PROVE  i[q] <= 1 /\ (g = 3 => i[q] = 0)
  <2>1. i[q] \in LockTypes /\ i[q] <= h
    BY <1>3, <1>4
  <2>2. QED BY <2>1, <1>6, <1>7, <1>8, <1>2
<1>10. QED
  BY <1>9, <1>6, <1>1, <1>3 DEF PageExcludes

(***************************************************************************)
(* The inductive invariant: types, coherent slots and exclusion.  Exclusion *)
(* alone is not inductive: a page that takes a free slot with leftover      *)
(* owner bits would start with locks nobody asked for.                      *)
(***************************************************************************)
IInv == TypeOK /\ SlotsCoherent /\ Exclusion

LEMMA ExclusionIsPerPage == Exclusion <=> \A s \in Slots : PageExcludes(owners_info[s])
  BY DEF Exclusion, PageExcludes

LEMMA InitIInv == Init => IInv
<1> SUFFICES ASSUME Init PROVE IInv
  OBVIOUS
<1> USE NullLpnAssumption DEF Init, page_lock_init
<1>1. TypeOK
  <2>1. NoOwners \in [Owners -> LockTypes]
    BY DEF NoOwners, LockTypes, PAGE_LOCK_NULL, PAGE_LOCK_WRITE
  <2>2. lpns \in [Slots -> Pages \cup {NULL_LPN}]
    OBVIOUS
  <2>3. owners_info \in [Slots -> [Owners -> LockTypes]]
    BY <2>1
  <2>4. asleep \subseteq Owners \X Pages \X LockTypes
    OBVIOUS
  <2>5. QED BY <2>2, <2>3, <2>4 DEF TypeOK
<1>2. UsedSlots = {}
  BY DEF UsedSlots
<1>3. SlotsCoherent
  BY <1>2, FS_EmptySet DEF SlotsCoherent
<1>4. Exclusion
  BY DEF Exclusion, NoOwners, PAGE_LOCK_NULL, PAGE_LOCK_READ, PAGE_LOCK_WRITE, PAGE_LOCK_INTENT
<1>5. QED BY <1>1, <1>3, <1>4 DEF IInv

(***************************************************************************)
(* Locking through slot s keeps the types and the exclusion, and disturbs  *)
(* no other slot.                                                          *)
(***************************************************************************)
LEMMA LockAtIs ==
  ASSUME IInv, NEW s \in Slots, NEW o \in Owners, NEW p \in Pages, NEW t \in LockTypes,
         LockAt(s, o, p, t)
  PROVE  /\ owners_info' \in [Slots -> [Owners -> LockTypes]]
         /\ asleep' \subseteq Owners \X Pages \X LockTypes
         /\ Exclusion'
         /\ \A r \in Slots \ {s} : owners_info'[r] = owners_info[r]
         /\ owners_info[s] = NoOwners /\ t # PAGE_LOCK_NULL => owners_info'[s] # NoOwners
<1> DEFINE g == FinalLock(owners_info[s], o, t)
           i == Granted(owners_info[s], o, g)
<1>1. owners_info \in [Slots -> [Owners -> LockTypes]]
  BY DEF IInv, TypeOK
<1>2. \A r \in Slots : PageExcludes(owners_info[r])
  BY ExclusionIsPerPage DEF IInv
<1>3. i \in [Owners -> LockTypes] /\ PageExcludes(i)
  BY <1>1, <1>2, GrantExcludes
<1>4. owners_info' = [owners_info EXCEPT ![s] = i] /\ asleep' = WaitFor(o, p, t, g)
  BY DEF LockAt
<1>5. owners_info[s] = NoOwners => g = t
  BY <1>1, FinalLockIs
<1> HIDE DEF g
<1>6. owners_info[s] = NoOwners /\ t # PAGE_LOCK_NULL => i[o] = t
  BY <1>1, <1>5 DEF Granted, NoOwners
<1> HIDE DEF i
<1>7. owners_info' \in [Slots -> [Owners -> LockTypes]]
  BY <1>1, <1>3, <1>4
<1>8. \A r \in Slots : PageExcludes(owners_info'[r])
  BY <1>1, <1>2, <1>3, <1>4
<1>9. Exclusion'
  BY <1>8 DEF Exclusion, PageExcludes
<1>10. asleep' \subseteq Owners \X Pages \X LockTypes
  <2>1. asleep \subseteq Owners \X Pages \X LockTypes
    BY DEF IInv, TypeOK
  <2>2. <<o, p, t>> \in Owners \X Pages \X LockTypes
    OBVIOUS
  <2>3. QED BY <2>1, <2>2, <1>4 DEF WaitFor
<1>11. QED
  BY <1>1, <1>4, <1>6, <1>7, <1>9, <1>10 DEF NoOwners

LEMMA LockKnownPageIInv ==
  ASSUME IInv, NEW o \in Owners, NEW p \in Pages, NEW t \in LockTypes,
         LockKnownPage(o, p, t)
  PROVE  IInv'
<1>1. PICK s \in Slots : lpns[s] = p /\ LockAt(s, o, p, t)
  BY DEF LockKnownPage
<1>2. UNCHANGED <<lpns, num_locks, halted>>
  BY DEF LockKnownPage
<1>3. /\ owners_info' \in [Slots -> [Owners -> LockTypes]]
      /\ asleep' \subseteq Owners \X Pages \X LockTypes
      /\ Exclusion'
      /\ \A r \in Slots \ {s} : owners_info'[r] = owners_info[r]
  BY <1>1, LockAtIs
<1>4. TypeOK'
  BY <1>2, <1>3 DEF IInv, TypeOK
<1>5. UsedSlots' = UsedSlots /\ s \in UsedSlots
  BY <1>1, <1>2, NullLpnAssumption DEF UsedSlots
<1>6. SlotsCoherent'
  BY <1>2, <1>3, <1>5 DEF IInv, SlotsCoherent
<1>7. QED BY <1>3, <1>4, <1>6 DEF IInv

LEMMA LockNewPageIInv ==
  ASSUME IInv, NEW o \in Owners, NEW p \in Pages, NEW t \in LockTypes,
         ~HasSlot(p), LockNewPage(o, p, t)
  PROVE  IInv'
<1>1. PICK s \in Slots : /\ lpns[s] = NULL_LPN
                         /\ lpns' = [lpns EXCEPT ![s] = p]
                         /\ LockAt(s, o, p, t)
  BY DEF LockNewPage
<1>2. num_locks' = num_locks + 1 /\ UNCHANGED halted
  BY DEF LockNewPage
<1>3. /\ owners_info' \in [Slots -> [Owners -> LockTypes]]
      /\ asleep' \subseteq Owners \X Pages \X LockTypes
      /\ Exclusion'
      /\ \A r \in Slots \ {s} : owners_info'[r] = owners_info[r]
  BY <1>1, LockAtIs
<1>4. lpns \in [Slots -> Pages \cup {NULL_LPN}] /\ num_locks \in Nat
  BY DEF IInv, TypeOK
<1>5. TypeOK'
  BY <1>1, <1>2, <1>3, <1>4 DEF IInv, TypeOK
<1>6. s \notin UsedSlots /\ UsedSlots' = UsedSlots \cup {s}
  BY <1>1, <1>4, NullLpnAssumption DEF UsedSlots
<1>7. IsFiniteSet(UsedSlots)
  BY SlotsAssumption, FS_Subset DEF UsedSlots
<1>8. num_locks' = Cardinality(UsedSlots')
  BY <1>2, <1>6, <1>7, FS_AddElement DEF IInv, SlotsCoherent
<1>9. \A r \in UsedSlots : lpns[r] # p
  BY DEF HasSlot, UsedSlots
<1>10. \A r, q \in UsedSlots' : lpns'[r] = lpns'[q] => r = q
  BY <1>1, <1>4, <1>6, <1>9 DEF IInv, SlotsCoherent, UsedSlots
<1>11. \A r \in Slots \ UsedSlots' : owners_info'[r] = NoOwners
  BY <1>3, <1>6 DEF IInv, SlotsCoherent
<1>12. SlotsCoherent'
  BY <1>8, <1>10, <1>11 DEF SlotsCoherent
<1>13. QED BY <1>3, <1>5, <1>12 DEF IInv

LEMMA UnlockIInv ==
  ASSUME IInv, NEW o \in Owners, NEW p \in Pages, page_unlock(o, p)
  PROVE  IInv'
<1>1. PICK s \in Slots :
        /\ lpns[s] = p
        /\ owners_info[s][o] # PAGE_LOCK_NULL
        /\ owners_info' = [owners_info EXCEPT ![s] = Unlocked(@, o)]
        /\ lpns' = IF LastOwner(owners_info[s], o) THEN [lpns EXCEPT ![s] = NULL_LPN] ELSE lpns
        /\ num_locks' = CountAfter(LastOwner(owners_info[s], o))
        /\ asleep' = SleepersAfter(LastOwner(owners_info[s], o))
        /\ UNCHANGED halted
  BY DEF page_unlock
<1> DEFINE last == LastOwner(owners_info[s], o)
           i == Unlocked(owners_info[s], o)
<1>2. /\ lpns \in [Slots -> Pages \cup {NULL_LPN}]
      /\ owners_info \in [Slots -> [Owners -> LockTypes]]
      /\ num_locks \in Nat
  BY DEF IInv, TypeOK
<1>3. /\ i \in [Owners -> LockTypes]
      /\ i[o] = PAGE_LOCK_NULL
      /\ \A q \in Owners \ {o} : i[q] = owners_info[s][q]
  BY <1>2 DEF Unlocked, LockTypes, PAGE_LOCK_NULL, PAGE_LOCK_WRITE
<1>4. s \in UsedSlots
  BY <1>1, NullLpnAssumption DEF UsedSlots
<1>5. IsFiniteSet(UsedSlots) /\ Cardinality(UsedSlots) \in Nat
  BY SlotsAssumption, FS_Subset, FS_CardinalityType DEF UsedSlots
<1>6. last <=> i = NoOwners
  BY DEF LastOwner
<1>7. Cardinality(UsedSlots \ {s}) = num_locks - 1 /\ num_locks - 1 \in Nat
  <2>1. IsFiniteSet(UsedSlots \ {s}) /\ Cardinality(UsedSlots \ {s}) = Cardinality(UsedSlots) - 1
    BY <1>4, <1>5, FS_RemoveElement
  <2>2. Cardinality(UsedSlots \ {s}) \in Nat
    BY <2>1, FS_CardinalityType
  <2>3. QED BY <2>1, <2>2 DEF IInv, SlotsCoherent
<1>8. UsedSlots' = IF last THEN UsedSlots \ {s} ELSE UsedSlots
  BY <1>1, <1>2, <1>4, NullLpnAssumption DEF UsedSlots
<1>9. num_locks' = IF last THEN num_locks - 1 ELSE num_locks
  BY <1>1 DEF CountAfter
<1>10. owners_info' = [owners_info EXCEPT ![s] = i]
  BY <1>1
<1> HIDE DEF last, i
<1>11. TypeOK'
  <2>1. lpns' \in [Slots -> Pages \cup {NULL_LPN}]
    BY <1>1, <1>2
  <2>2. owners_info' \in [Slots -> [Owners -> LockTypes]]
    BY <1>2, <1>3, <1>10
  <2>3. asleep' = {}
    BY <1>1 DEF SleepersAfter
  <2>4. num_locks' \in Nat
    BY <1>2, <1>7, <1>9
  <2>5. QED BY <1>1, <2>1, <2>2, <2>3, <2>4 DEF IInv, TypeOK
<1>12. num_locks' = Cardinality(UsedSlots')
  BY <1>7, <1>8, <1>9 DEF IInv, SlotsCoherent
<1>13. \A r, q \in UsedSlots' : lpns'[r] = lpns'[q] => r = q
  <2>1. \A r \in UsedSlots' : r \in UsedSlots /\ lpns'[r] = lpns[r]
    BY <1>1, <1>2, <1>8 DEF last, UsedSlots
  <2>2. QED BY <2>1 DEF IInv, SlotsCoherent
<1>14. \A r \in Slots \ UsedSlots' : owners_info'[r] = NoOwners
  BY <1>2, <1>4, <1>6, <1>8, <1>10 DEF IInv, SlotsCoherent
<1>15. Exclusion'
  <2>1. \A r \in Slots : PageExcludes(owners_info[r])
    BY ExclusionIsPerPage DEF IInv
  <2>2. PageExcludes(i)
    BY <1>3, <2>1 DEF PageExcludes, PAGE_LOCK_NULL, PAGE_LOCK_READ, PAGE_LOCK_INTENT,
                      PAGE_LOCK_WRITE
  <2>3. \A r \in Slots : PageExcludes(owners_info'[r])
    BY <1>2, <1>10, <2>1, <2>2
  <2>4. QED BY <2>3 DEF Exclusion, PageExcludes
<1>16. QED BY <1>11, <1>12, <1>13, <1>14, <1>15 DEF IInv, SlotsCoherent

LEMMA NextIInv == IInv /\ [Next]_vars => IInv'
<1> SUFFICES ASSUME IInv, [Next]_vars PROVE IInv'
  OBVIOUS
<1>1. ASSUME NEW o \in Owners, NEW p \in Pages, NEW t \in Requests, page_lock(o, p, t)
      PROVE  IInv'
  <2>1. t \in LockTypes
    BY RequestsAssumption
  <2>2. CASE HasSlot(p) /\ LockKnownPage(o, p, t)
    BY <2>1, <2>2, LockKnownPageIInv
  <2>3. CASE ~HasSlot(p) /\ LockNewPage(o, p, t)
    BY <2>1, <2>3, LockNewPageIInv
  <2>4. CASE LockOverflow
    BY <2>4 DEF LockOverflow, IInv, TypeOK, SlotsCoherent, UsedSlots, Exclusion
  <2>5. QED BY <1>1, <2>2, <2>3, <2>4 DEF page_lock
<1>2. ASSUME NEW o \in Owners, NEW p \in Pages, page_unlock(o, p)
      PROVE  IInv'
  BY <1>2, UnlockIInv
<1>3. CASE UNCHANGED vars
  BY <1>3 DEF vars, IInv, TypeOK, SlotsCoherent, UsedSlots, Exclusion
<1>4. QED BY <1>1, <1>2, <1>3 DEF Next

(***************************************************************************)
(* Every reachable state is well typed, its slots are coherent (one slot   *)
(* per page, free slots blank, num_locks exact) and no two owners hold     *)
(* incompatible locks on a page: page_lock and page_unlock keep exclusion  *)
(* for any requests, owners and pages, even past MAX_NUM_LOCKS_PER_OWNER.  *)
(***************************************************************************)
THEOREM PageLockSafe == Spec => [](TypeOK /\ SlotsCoherent /\ Exclusion)
<1>1. Spec => []IInv
  BY InitIInv, NextIInv, PTL DEF Spec
<1>2. QED BY <1>1, PTL DEF IInv

(***************************************************************************)
(* Clients that never send a null request, as the read and write threads,  *)
(* leave no slot in use without an owner.                                  *)
(***************************************************************************)
THEOREM NoLeak ==
  ASSUME PAGE_LOCK_NULL \notin Requests
  PROVE  Spec => []NoSlotLeak
<1>1. Init => NoSlotLeak
  BY DEF Init, page_lock_init, NoSlotLeak, UsedSlots
<1>2. IInv /\ NoSlotLeak /\ [Next]_vars => NoSlotLeak'
  <2> SUFFICES ASSUME IInv, NoSlotLeak, [Next]_vars PROVE NoSlotLeak'
    OBVIOUS
  <2>1. /\ lpns \in [Slots -> Pages \cup {NULL_LPN}]
        /\ owners_info \in [Slots -> [Owners -> LockTypes]]
    BY DEF IInv, TypeOK
  <2>2. ASSUME NEW o \in Owners, NEW p \in Pages, NEW t \in Requests, page_lock(o, p, t)
        PROVE  NoSlotLeak'
    <3>1. t \in LockTypes /\ t # PAGE_LOCK_NULL
      BY RequestsAssumption
    <3>2. CASE HasSlot(p) /\ LockKnownPage(o, p, t)
      <4>1. PICK s \in Slots : lpns[s] = p /\ LockAt(s, o, p, t)
        BY <3>2 DEF LockKnownPage
      <4>2. s \in UsedSlots /\ UsedSlots' = UsedSlots
        BY <3>2, <4>1, NullLpnAssumption DEF LockKnownPage, UsedSlots
      <4>3. owners_info'[s] # NoOwners
        <5> DEFINE g == FinalLock(owners_info[s], o, t)
        <5>1. PICK q \in Owners : owners_info[s][q] # PAGE_LOCK_NULL
          BY <2>1, <4>2 DEF NoSlotLeak, NoOwners
        <5>2. owners_info'[s] = Granted(owners_info[s], o, g)
          BY <2>1, <4>1 DEF LockAt
        <5> HIDE DEF g
        <5>3. owners_info'[s][q] # PAGE_LOCK_NULL
          BY <2>1, <5>1, <5>2 DEF Granted
        <5>4. QED BY <5>3 DEF NoOwners
      <4>4. \A r \in Slots \ {s} : owners_info'[r] = owners_info[r]
        BY <3>1, <4>1, LockAtIs
      <4>5. QED BY <4>2, <4>3, <4>4 DEF NoSlotLeak, UsedSlots
    <3>3. CASE ~HasSlot(p) /\ LockNewPage(o, p, t)
      <4>1. PICK s \in Slots : /\ lpns[s] = NULL_LPN
                               /\ lpns' = [lpns EXCEPT ![s] = p]
                               /\ LockAt(s, o, p, t)
        BY <3>3 DEF LockNewPage
      <4>2. owners_info[s] = NoOwners
        BY <4>1 DEF IInv, SlotsCoherent, UsedSlots
      <4>3. owners_info'[s] # NoOwners /\ \A r \in Slots \ {s} : owners_info'[r] = owners_info[r]
        BY <3>1, <4>1, <4>2, LockAtIs
      <4>4. QED BY <2>1, <4>1, <4>3 DEF NoSlotLeak, UsedSlots
    <3>4. CASE LockOverflow
      BY <3>4 DEF LockOverflow, NoSlotLeak, UsedSlots
    <3>5. QED BY <2>2, <3>2, <3>3, <3>4 DEF page_lock
  <2>3. ASSUME NEW o \in Owners, NEW p \in Pages, page_unlock(o, p)
        PROVE  NoSlotLeak'
    <3>1. PICK s \in Slots :
            /\ owners_info' = [owners_info EXCEPT ![s] = Unlocked(@, o)]
            /\ lpns' = IF LastOwner(owners_info[s], o)
                       THEN [lpns EXCEPT ![s] = NULL_LPN] ELSE lpns
      BY <2>3 DEF page_unlock
    <3>2. owners_info'[s] = Unlocked(owners_info[s], o)
      BY <2>1, <3>1
    <3>3. CASE LastOwner(owners_info[s], o)
      BY <2>1, <3>1, <3>3 DEF NoSlotLeak, UsedSlots
    <3>4. CASE ~LastOwner(owners_info[s], o)
      BY <2>1, <3>1, <3>2, <3>4 DEF NoSlotLeak, UsedSlots, LastOwner
    <3>5. QED BY <3>3, <3>4
  <2>4. CASE UNCHANGED vars
    BY <2>4 DEF vars, NoSlotLeak, UsedSlots
  <2>5. QED BY <2>2, <2>3, <2>4 DEF Next
<1>3. Spec => []IInv
  BY InitIInv, NextIInv, PTL DEF Spec
<1>4. QED BY <1>1, <1>2, <1>3, PTL DEF Spec

-----------------------------------------------------------------------------

(***************************************************************************)
(* SlotOf finds the slot of a page: there is only one.                     *)
(***************************************************************************)
LEMMA InfoOfSlot ==
  ASSUME SlotsCoherent, NEW s \in Slots, lpns[s] \in Pages
  PROVE  HasSlot(lpns[s]) /\ InfoOf(lpns[s]) = owners_info[s]
<1>1. HasSlot(lpns[s])
  BY DEF HasSlot
<1>2. SlotOf(lpns[s]) \in Slots /\ lpns[SlotOf(lpns[s])] = lpns[s]
  BY DEF SlotOf
<1>3. SlotOf(lpns[s]) = s
  BY <1>2, NullLpnAssumption DEF SlotsCoherent, UsedSlots
<1>4. QED BY <1>1, <1>3 DEF InfoOf

LEMMA InfoOfType ==
  ASSUME TypeOK, NEW p \in Pages
  PROVE  InfoOf(p) \in [Owners -> LockTypes]
<1>1. NoOwners \in [Owners -> LockTypes]
  BY DEF NoOwners, LockTypes, PAGE_LOCK_NULL, PAGE_LOCK_WRITE
<1>2. HasSlot(p) => SlotOf(p) \in Slots
  BY DEF HasSlot, SlotOf
<1>3. QED BY <1>1, <1>2 DEF InfoOf, TypeOK

(***************************************************************************)
(* The arithmetic of page_lock, with the highest other lock only, gives    *)
(* the strongest lock that the matrix allows beside every other owner.     *)
(***************************************************************************)
LEMMA FinalLockIsAnswer ==
  ASSUME NEW info \in [Owners -> LockTypes], NEW o \in Owners, NEW t \in LockTypes
  PROVE  LET g == FinalLock(info, o, t)
             able == {u \in LockTypes : \A q \in Owners \ {o} : Table!Compatible(info[q], u)}
             wanted == {u \in able : u <= t \/ u <= info[o]}
         IN  g \in wanted /\ \A u \in wanted : u <= g
<1> USE DEF LockTypes, PAGE_LOCK_NULL, PAGE_LOCK_READ, PAGE_LOCK_INTENT, PAGE_LOCK_WRITE
<1> DEFINE h == HighestExcept(info, o)
           able == {u \in LockTypes : \A q \in Owners \ {o} : Table!Compatible(info[q], u)}
           g == FinalLock(info, o, t)
<1>1. h \in LockTypes /\ IsHighestExcept(info, o, h)
  BY HighestExceptIs
<1>2. g = Lower(HighestCompatible(h), Higher(t, info[o]))
  BY DEF FinalLock
<1> HIDE DEF h, g
<1>3. HighestCompatible(h) \in LockTypes
  BY <1>1 DEF HighestCompatible
<1>4. ASSUME NEW u \in LockTypes
      PROVE  u \in able <=> u <= HighestCompatible(h)
  <2> USE DEF Table!Compatible, Table!PAGE_LOCK_NULL, Table!PAGE_LOCK_READ,
              Table!PAGE_LOCK_INTENT
  <2>1. \A q \in Owners \ {o} : info[q] \in LockTypes /\ info[q] <= h
    BY <1>1 DEF IsHighestExcept
  <2>2. CASE h = 0
    BY <2>1, <2>2 DEF HighestCompatible
  <2>3. CASE h # 0
    <3>1. PICK q \in Owners \ {o} : info[q] = h
      BY <1>1, <2>3 DEF IsHighestExcept
    <3>2. u \in able => u <= HighestCompatible(h)
      BY <1>1, <2>3, <3>1 DEF HighestCompatible
    <3>3. u <= HighestCompatible(h) => u \in able
      BY <1>1, <2>1, <2>3 DEF HighestCompatible
    <3>4. QED BY <3>2, <3>3
  <2>4. QED BY <2>2, <2>3
<1>5. info[o] \in LockTypes /\ g \in LockTypes
  BY <1>2, <1>3 DEF Lower, Higher
<1>6. g <= HighestCompatible(h) /\ (g <= t \/ g <= info[o])
  BY <1>2, <1>3, <1>5 DEF Lower, Higher
<1>7. \A u \in LockTypes : u <= HighestCompatible(h) /\ (u <= t \/ u <= info[o]) => u <= g
  BY <1>2, <1>3, <1>5 DEF Lower, Higher
<1> HIDE DEF able
<1>8. g \in able
  BY <1>4, <1>5, <1>6
<1>9. \A u \in able : u \in LockTypes
  BY DEF able
<1>10. QED
  BY <1>4, <1>6, <1>7, <1>8, <1>9 DEF g, able

\* One step on page p that leaves the other pages alone.
OnlyPage(p, info) ==
    \A r \in Pages : InfoOf(r)' = IF r = p THEN info ELSE InfoOf(r)

LEMMA OnlyPageHeld ==
  ASSUME NEW p \in Pages, NEW info, OnlyPage(p, info)
  PROVE  Held' = [Held EXCEPT ![p] = info]
  BY DEF OnlyPage, Held

(***************************************************************************)
(* page_lock changes the record of its page and of no other, whether or    *)
(* not the page had a slot.                                                *)
(***************************************************************************)
LEMMA LockIsLocal ==
  ASSUME IInv, IInv', NEW o \in Owners, NEW p \in Pages, NEW t \in LockTypes,
         \/ HasSlot(p) /\ LockKnownPage(o, p, t)
         \/ ~HasSlot(p) /\ LockNewPage(o, p, t)
  PROVE  LET g == FinalLock(InfoOf(p), o, t) IN
         /\ OnlyPage(p, Granted(InfoOf(p), o, g))
         /\ asleep' = WaitFor(o, p, t, g)
<1> DEFINE g == FinalLock(InfoOf(p), o, t)
<1>1. /\ lpns \in [Slots -> Pages \cup {NULL_LPN}]
      /\ owners_info \in [Slots -> [Owners -> LockTypes]]
      /\ SlotsCoherent /\ SlotsCoherent'
  BY DEF IInv, TypeOK
<1>2. PICK s \in Slots :
        /\ LockAt(s, o, p, t)
        /\ owners_info[s] = InfoOf(p)
        /\ lpns' = [lpns EXCEPT ![s] = p]
        /\ lpns[s] = p \/ (lpns[s] = NULL_LPN /\ ~HasSlot(p))
  <2>1. CASE HasSlot(p) /\ LockKnownPage(o, p, t)
    <3>1. PICK s \in Slots : lpns[s] = p /\ LockAt(s, o, p, t)
      BY <2>1 DEF LockKnownPage
    <3>2. owners_info[s] = InfoOf(p)
      BY <1>1, <3>1, InfoOfSlot
    <3>3. lpns' = [lpns EXCEPT ![s] = p]
      BY <1>1, <2>1, <3>1 DEF LockKnownPage
    <3>4. QED BY <3>1, <3>2, <3>3
  <2>2. CASE ~HasSlot(p) /\ LockNewPage(o, p, t)
    <3>1. PICK s \in Slots : /\ lpns[s] = NULL_LPN
                             /\ lpns' = [lpns EXCEPT ![s] = p]
                             /\ LockAt(s, o, p, t)
      BY <2>2 DEF LockNewPage
    <3>2. owners_info[s] = NoOwners
      BY <1>1, <3>1 DEF SlotsCoherent, UsedSlots
    <3>3. QED BY <2>2, <3>1, <3>2 DEF InfoOf
  <2>3. QED BY <2>1, <2>2
<1>3. owners_info' = [owners_info EXCEPT ![s] = Granted(InfoOf(p), o, g)]
  BY <1>1, <1>2 DEF LockAt
<1>4. asleep' = WaitFor(o, p, t, g)
  BY <1>2 DEF LockAt
<1> HIDE DEF g
<1>5. InfoOf(p)' = Granted(InfoOf(p), o, g)
  <2>1. lpns'[s] = p /\ owners_info'[s] = Granted(InfoOf(p), o, g)
    BY <1>1, <1>2, <1>3
  <2>2. (HasSlot(p) /\ SlotOf(p) = s)'
    BY <1>1, <2>1, NullLpnAssumption DEF HasSlot, SlotOf, SlotsCoherent, UsedSlots
  <2>3. QED BY <2>1, <2>2 DEF InfoOf
<1>6. ASSUME NEW r \in Pages, r # p PROVE InfoOf(r)' = InfoOf(r)
  <2>1. \A z \in Slots : lpns'[z] = r <=> lpns[z] = r
    BY <1>1, <1>2, <1>6, NullLpnAssumption
  <2>2. HasSlot(r)' <=> HasSlot(r)
    BY <2>1 DEF HasSlot
  <2>3. HasSlot(r) => SlotOf(r)' = SlotOf(r) /\ SlotOf(r) \in Slots /\ lpns[SlotOf(r)] = r
    BY <1>1, <2>1, <2>2, NullLpnAssumption DEF HasSlot, SlotOf, SlotsCoherent, UsedSlots
  <2>4. HasSlot(r) => owners_info'[SlotOf(r)] = owners_info[SlotOf(r)]
    BY <1>1, <1>2, <1>3, <1>6, <2>3, NullLpnAssumption
  <2>5. QED BY <2>2, <2>3, <2>4 DEF InfoOf
<1>7. QED BY <1>4, <1>5, <1>6 DEF OnlyPage, g

(***************************************************************************)
(* page_unlock likewise, also when it gives the slot back.                 *)
(***************************************************************************)
LEMMA UnlockIsLocal ==
  ASSUME IInv, IInv', NEW o \in Owners, NEW p \in Pages, page_unlock(o, p)
  PROVE  /\ InfoOf(p)[o] # PAGE_LOCK_NULL
         /\ OnlyPage(p, Unlocked(InfoOf(p), o))
         /\ asleep' = {}
<1>1. /\ lpns \in [Slots -> Pages \cup {NULL_LPN}]
      /\ owners_info \in [Slots -> [Owners -> LockTypes]]
      /\ SlotsCoherent /\ SlotsCoherent'
  BY DEF IInv, TypeOK
<1>2. PICK s \in Slots :
        /\ lpns[s] = p
        /\ owners_info[s][o] # PAGE_LOCK_NULL
        /\ owners_info' = [owners_info EXCEPT ![s] = Unlocked(@, o)]
        /\ lpns' = IF LastOwner(owners_info[s], o) THEN [lpns EXCEPT ![s] = NULL_LPN] ELSE lpns
        /\ asleep' = SleepersAfter(LastOwner(owners_info[s], o))
  BY DEF page_unlock
<1>3. owners_info[s] = InfoOf(p) /\ owners_info'[s] = Unlocked(InfoOf(p), o)
  BY <1>1, <1>2, InfoOfSlot
<1>4. InfoOf(p)' = Unlocked(InfoOf(p), o)
  <2>1. CASE LastOwner(owners_info[s], o)
    <3>1. ~HasSlot(p)'
      BY <1>1, <1>2, <2>1, NullLpnAssumption DEF HasSlot, SlotsCoherent, UsedSlots
    <3>2. QED BY <1>3, <2>1, <3>1 DEF InfoOf, LastOwner, NoOwners
  <2>2. CASE ~LastOwner(owners_info[s], o)
    <3>1. (HasSlot(p) /\ SlotOf(p) = s)'
      BY <1>1, <1>2, <2>2, NullLpnAssumption DEF HasSlot, SlotOf, SlotsCoherent, UsedSlots
    <3>2. QED BY <1>3, <3>1 DEF InfoOf
  <2>3. QED BY <2>1, <2>2
<1>5. ASSUME NEW r \in Pages, r # p PROVE InfoOf(r)' = InfoOf(r)
  <2>1. \A z \in Slots : lpns'[z] = r <=> lpns[z] = r
    BY <1>1, <1>2, <1>5, NullLpnAssumption
  <2>2. HasSlot(r)' <=> HasSlot(r)
    BY <2>1 DEF HasSlot
  <2>3. HasSlot(r) => SlotOf(r)' = SlotOf(r) /\ SlotOf(r) \in Slots /\ lpns[SlotOf(r)] = r
    BY <1>1, <2>1, <2>2, NullLpnAssumption DEF HasSlot, SlotOf, SlotsCoherent, UsedSlots
  <2>4. HasSlot(r) => owners_info'[SlotOf(r)] = owners_info[SlotOf(r)]
    BY <1>1, <1>2, <1>5, <2>3
  <2>5. QED BY <2>2, <2>3, <2>4 DEF InfoOf
<1>6. QED BY <1>2, <1>3, <1>4, <1>5 DEF OnlyPage, SleepersAfter

(***************************************************************************)
(* Both kinds of lock steps are steps of the table.                        *)
(***************************************************************************)
LEMMA LockRefines ==
  ASSUME IInv, IInv', NEW o \in Owners, NEW p \in Pages, NEW t \in LockTypes,
         \/ HasSlot(p) /\ LockKnownPage(o, p, t)
         \/ ~HasSlot(p) /\ LockNewPage(o, p, t)
  PROVE  Table!TableLock(o, p, t)
<1> DEFINE g == FinalLock(InfoOf(p), o, t)
<1>1. InfoOf(p) \in [Owners -> LockTypes]
  BY InfoOfType DEF IInv
<1>2. OnlyPage(p, Granted(InfoOf(p), o, g)) /\ asleep' = WaitFor(o, p, t, g)
  BY LockIsLocal
<1>3. Held[p] = InfoOf(p) /\ Held' = [Held EXCEPT ![p] = Granted(InfoOf(p), o, g)]
  BY <1>2, OnlyPageHeld DEF Held
<1>4. g \in LockTypes /\ Table!IsAnswer(o, p, t, g)
  <2>1. g \in LockTypes
    BY <1>1, FinalLockIs
  <2>2. Table!LockTypes = LockTypes
    BY DEF Table!LockTypes, LockTypes, Table!PAGE_LOCK_NULL, Table!PAGE_LOCK_WRITE,
           PAGE_LOCK_NULL, PAGE_LOCK_WRITE
  <2> HIDE DEF g
  <2>3. QED
    BY <1>1, <1>3, <2>1, <2>2, FinalLockIsAnswer
       DEF g, Table!IsAnswer, Table!Grantable
<1> HIDE DEF g
<1>5. Held' = IF g = PAGE_LOCK_NULL THEN Held ELSE [Held EXCEPT ![p][o] = g]
  <2>1. Held = [Held EXCEPT ![p] = Held[p]] /\ InfoOf(p) = [InfoOf(p) EXCEPT ![o] = InfoOf(p)[o]]
    BY <1>1 DEF Held
  <2>2. QED BY <1>3, <2>1 DEF Granted
<1>6. g \in Table!LockTypes
  BY <1>4 DEF Table!LockTypes, LockTypes, Table!PAGE_LOCK_NULL, Table!PAGE_LOCK_WRITE,
              PAGE_LOCK_NULL, PAGE_LOCK_WRITE
<1>7. QED
  BY <1>2, <1>4, <1>5, <1>6
     DEF Table!TableLock, WaitFor, Table!PAGE_LOCK_NULL, PAGE_LOCK_NULL

LEMMA UnlockRefines ==
  ASSUME IInv, IInv', NEW o \in Owners, NEW p \in Pages, page_unlock(o, p)
  PROVE  Table!TableUnlock(o, p)
<1>1. InfoOf(p)[o] # PAGE_LOCK_NULL /\ OnlyPage(p, Unlocked(InfoOf(p), o)) /\ asleep' = {}
  BY UnlockIsLocal
<1>2. Held[p] = InfoOf(p) /\ Held' = [Held EXCEPT ![p] = Unlocked(InfoOf(p), o)]
  BY <1>1, OnlyPageHeld DEF Held
<1>3. QED
  BY <1>1, <1>2 DEF Table!TableUnlock, Unlocked, Table!PAGE_LOCK_NULL, PAGE_LOCK_NULL

(***************************************************************************)
(* The slots and owner bits of page_lock.c implement the lock table of the *)
(* header: every answer is the strongest lock that the matrix allows, and  *)
(* every unlock wakes the requests answered short.                         *)
(***************************************************************************)
THEOREM PageLockRefines == Spec => Refines
<1>1. Init => Table!TableInit
  <2> SUFFICES ASSUME Init PROVE Table!TableInit
    OBVIOUS
  <2>1. \A p \in Pages : InfoOf(p) = NoOwners
    BY NullLpnAssumption DEF Init, page_lock_init, InfoOf, HasSlot
  <2>2. QED
    BY <2>1 DEF Init, Held, NoOwners, Table!TableInit, Table!PAGE_LOCK_NULL, PAGE_LOCK_NULL
<1>2. IInv /\ IInv' /\ [Next]_vars => [Table!TableNext]_(Table!tableVars)
  <2> SUFFICES ASSUME IInv, IInv', [Next]_vars
               PROVE  Table!TableNext \/ UNCHANGED <<Held, asleep>>
    BY DEF Table!tableVars
  <2>1. ASSUME NEW o \in Owners, NEW p \in Pages, NEW t \in Requests, page_lock(o, p, t)
        PROVE  Table!TableNext \/ UNCHANGED <<Held, asleep>>
    <3>1. CASE LockOverflow
      BY <3>1 DEF LockOverflow, Held, InfoOf, HasSlot, SlotOf
    <3>2. CASE ~LockOverflow
      <4>1. t \in LockTypes
        BY RequestsAssumption
      <4>2. Table!TableLock(o, p, t)
        BY <2>1, <3>2, <4>1, LockRefines DEF page_lock
      <4>3. QED BY <4>2 DEF Table!TableNext
    <3>3. QED BY <3>1, <3>2
  <2>2. ASSUME NEW o \in Owners, NEW p \in Pages, page_unlock(o, p)
        PROVE  Table!TableNext
    BY <2>2, UnlockRefines DEF Table!TableNext
  <2>3. CASE UNCHANGED vars
    BY <2>3 DEF vars, Held, InfoOf, HasSlot, SlotOf
  <2>4. QED BY <2>1, <2>2, <2>3 DEF Next
<1>3. Spec => []IInv
  BY InitIInv, NextIInv, PTL DEF Spec
<1>4. QED BY <1>1, <1>2, <1>3, PTL DEF Spec, Refines, Table!TableSpec

(***************************************************************************)
(* page_lock never weakens a lock: where the matrix allows less than the   *)
(* owner holds, it allows nothing, and the null answer changes nothing.    *)
(* This needs Exclusion.                                                   *)
(***************************************************************************)
LEMMA LocksNeverWeaken ==
  ASSUME NEW info \in [Owners -> LockTypes], NEW o \in Owners, NEW t \in LockTypes,
         PageExcludes(info)
  PROVE  \A q \in Owners : info[q] <= Granted(info, o, FinalLock(info, o, t))[q]
<1> USE DEF LockTypes, PAGE_LOCK_NULL, PAGE_LOCK_READ, PAGE_LOCK_INTENT, PAGE_LOCK_WRITE
<1> DEFINE h == HighestExcept(info, o)
           g == FinalLock(info, o, t)
<1>1. h \in LockTypes /\ IsHighestExcept(info, o, h)
  BY HighestExceptIs
<1>2. g = Lower(HighestCompatible(h), Higher(t, info[o])) /\ g \in LockTypes
  BY FinalLockIs DEF FinalLock
<1> HIDE DEF h, g
<1>3. info[o] \in LockTypes
  OBVIOUS
<1>4. info[o] = 3 => h = 0
  BY <1>1 DEF IsHighestExcept, PageExcludes
<1>5. g # 0 => info[o] <= g
  BY <1>1, <1>2, <1>3, <1>4 DEF Lower, Higher, HighestCompatible
<1>6. \A q \in Owners : info[q] <= Granted(info, o, g)[q]
  BY <1>2, <1>3, <1>5 DEF Granted
<1>7. QED BY <1>6 DEF g

(***************************************************************************)
(* The stronger the locks of the others, the weaker the answer.            *)
(***************************************************************************)
LEMMA AnswerFalls ==
  ASSUME NEW info \in [Owners -> LockTypes], NEW i \in [Owners -> LockTypes],
         NEW o \in Owners, NEW t \in LockTypes,
         \A q \in Owners : info[q] <= i[q],
         i[o] = info[o]
  PROVE  FinalLock(i, o, t) <= FinalLock(info, o, t)
<1> USE DEF LockTypes, PAGE_LOCK_NULL, PAGE_LOCK_READ, PAGE_LOCK_INTENT, PAGE_LOCK_WRITE
<1> DEFINE h == HighestExcept(info, o)
           k == HighestExcept(i, o)
<1>1. h \in LockTypes /\ IsHighestExcept(info, o, h)
  BY HighestExceptIs
<1>2. k \in LockTypes /\ IsHighestExcept(i, o, k)
  BY HighestExceptIs
<1>3. FinalLock(info, o, t) = Lower(HighestCompatible(h), Higher(t, info[o]))
  BY DEF FinalLock
<1>4. FinalLock(i, o, t) = Lower(HighestCompatible(k), Higher(t, info[o]))
  BY DEF FinalLock
<1> HIDE DEF h, k
<1>5. h <= k
  <2>1. CASE h = 0
    BY <1>2, <2>1
  <2>2. CASE h # 0
    <3>1. PICK q \in Owners \ {o} : info[q] = h
      BY <1>1, <2>2 DEF IsHighestExcept
    <3>2. h <= i[q] /\ i[q] <= k /\ i[q] \in LockTypes
      BY <1>2, <3>1 DEF IsHighestExcept
    <3>3. QED BY <1>1, <1>2, <3>2
  <2>3. QED BY <2>1, <2>2
<1>6. HighestCompatible(k) <= HighestCompatible(h)
  BY <1>1, <1>2, <1>5 DEF HighestCompatible
<1>7. HighestCompatible(k) \in LockTypes /\ HighestCompatible(h) \in LockTypes /\ info[o] \in LockTypes
  BY <1>1, <1>2 DEF HighestCompatible
<1>8. QED BY <1>3, <1>4, <1>6, <1>7 DEF Lower, Higher

(***************************************************************************)
(* Recording a short answer does not make the same request grantable.      *)
(***************************************************************************)
LEMMA ShortStaysShort ==
  ASSUME NEW info \in [Owners -> LockTypes], NEW o \in Owners, NEW t \in LockTypes,
         FinalLock(info, o, t) < t
  PROVE  LET i == Granted(info, o, FinalLock(info, o, t)) IN FinalLock(i, o, t) < t
<1> USE DEF LockTypes, PAGE_LOCK_NULL, PAGE_LOCK_READ, PAGE_LOCK_INTENT, PAGE_LOCK_WRITE
<1> DEFINE h == HighestExcept(info, o)
           g == FinalLock(info, o, t)
           i == Granted(info, o, g)
           k == HighestExcept(i, o)
<1>1. h \in LockTypes /\ IsHighestExcept(info, o, h)
  BY HighestExceptIs
<1>2. g = Lower(HighestCompatible(h), Higher(t, info[o])) /\ g \in LockTypes /\ g < t
  BY FinalLockIs DEF FinalLock
<1> HIDE DEF h, g
<1>3. i \in [Owners -> LockTypes] /\ \A q \in Owners \ {o} : i[q] = info[q]
  BY <1>2 DEF Granted
<1> HIDE DEF i
<1>4. k \in LockTypes /\ IsHighestExcept(i, o, k)
  BY <1>3, HighestExceptIs
<1>5. FinalLock(i, o, t) = Lower(HighestCompatible(k), Higher(t, i[o]))
  BY DEF FinalLock
<1> HIDE DEF k
<1>6. h = k
  BY <1>1, <1>3, <1>4 DEF IsHighestExcept
<1>7. HighestCompatible(h) < t
  <2>1. HighestCompatible(h) \in LockTypes /\ info[o] \in LockTypes
    BY <1>1 DEF HighestCompatible
  <2>2. QED BY <1>2, <2>1 DEF Lower, Higher
<1>8. HighestCompatible(h) \in LockTypes /\ i[o] \in LockTypes
  BY <1>1, <1>3 DEF HighestCompatible
<1>9. FinalLock(i, o, t) < t
  BY <1>5, <1>6, <1>7, <1>8 DEF Lower, Higher
<1>10. QED BY <1>9 DEF i, g

LEMMA LockKeepsSleepers ==
  ASSUME IInv, IInv', NoMissedRelease, NEW o \in Owners, NEW p \in Pages, NEW t \in LockTypes,
         \/ HasSlot(p) /\ LockKnownPage(o, p, t)
         \/ ~HasSlot(p) /\ LockNewPage(o, p, t)
  PROVE  NoMissedRelease'
<1> DEFINE info == InfoOf(p)
           g == FinalLock(info, o, t)
           i == Granted(info, o, g)
<1>1. OnlyPage(p, i) /\ asleep' = WaitFor(o, p, t, g)
  BY LockIsLocal
<1>2. info \in [Owners -> LockTypes] /\ i \in [Owners -> LockTypes] /\ PageExcludes(info)
  <2>1. info \in [Owners -> LockTypes]
    BY InfoOfType DEF IInv
  <2>2. PageExcludes(info)
    <3>1. HasSlot(p) => SlotOf(p) \in Slots
      BY DEF HasSlot, SlotOf
    <3>2. PageExcludes(NoOwners)
      BY DEF PageExcludes, NoOwners, PAGE_LOCK_NULL, PAGE_LOCK_READ, PAGE_LOCK_INTENT,
             PAGE_LOCK_WRITE
    <3>3. QED BY <3>1, <3>2, ExclusionIsPerPage DEF IInv, InfoOf
  <2>3. QED BY <2>1, <2>2, GrantExcludes
<1>3. InfoOf(p)' = i /\ \A r \in Pages : r # p => InfoOf(r)' = InfoOf(r)
  BY <1>1 DEF OnlyPage
<1>4. ASSUME NEW q \in Owners, NEW r \in Pages, NEW u \in LockTypes,
             <<q, r, u>> \in asleep, q # o \/ r # p
      PROVE  FinalLock(InfoOf(r)', q, u) < u
  <2>1. FinalLock(InfoOf(r), q, u) < u
    BY <1>4 DEF NoMissedRelease
  <2>2. CASE r # p
    BY <1>3, <2>1, <2>2
  <2>3. CASE r = p
    <3>1. \A z \in Owners : info[z] <= i[z]
      BY <1>2, LocksNeverWeaken
    <3>2. i[q] = info[q]
      BY <1>2, <1>4, <2>3 DEF Granted
    <3>3. FinalLock(i, q, u) <= FinalLock(info, q, u)
      BY <1>2, <3>1, <3>2, AnswerFalls
    <3>4. FinalLock(i, q, u) \in LockTypes /\ FinalLock(info, q, u) \in LockTypes
      BY <1>2, FinalLockIs
    <3> HIDE DEF i
    <3>5. QED
      BY <1>3, <2>1, <2>3, <3>3, <3>4 DEF LockTypes, PAGE_LOCK_NULL, PAGE_LOCK_WRITE
  <2>4. QED BY <2>2, <2>3
<1>5. g < t => FinalLock(InfoOf(p)', o, t) < t
  BY <1>2, <1>3, ShortStaysShort
<1>6. \A r \in asleep : r \in Owners \X Pages \X LockTypes
  BY DEF IInv, TypeOK
<1> HIDE DEF g, i, info
<1>7. ASSUME NEW r \in asleep' PROVE FinalLock(InfoOf(r[2])', r[1], r[3]) < r[3]
  <2>1. CASE r \in asleep /\ (r[1] # o \/ r[2] # p)
    BY <1>4, <1>6, <2>1
  <2>2. CASE r = <<o, p, t>> /\ g < t
    BY <1>5, <2>2
  <2>3. QED BY <1>1, <1>7, <2>1, <2>2 DEF WaitFor
<1>8. QED BY <1>7 DEF NoMissedRelease

(***************************************************************************)
(* No lost wake-up: a request that sleeps would still be answered short.   *)
(* What makes it grantable is an unlock, and page_unlock signals all.      *)
(***************************************************************************)
THEOREM NoRequestMissed == Spec => []NoMissedRelease
<1>1. Init => NoMissedRelease
  BY DEF Init, NoMissedRelease
<1>2. IInv /\ IInv' /\ NoMissedRelease /\ [Next]_vars => NoMissedRelease'
  <2> SUFFICES ASSUME IInv, IInv', NoMissedRelease, [Next]_vars
               PROVE  NoMissedRelease'
    OBVIOUS
  <2>1. ASSUME UNCHANGED <<lpns, owners_info, asleep>> PROVE NoMissedRelease'
    BY <2>1 DEF NoMissedRelease, InfoOf, HasSlot, SlotOf
  <2>2. ASSUME NEW o \in Owners, NEW p \in Pages, NEW t \in Requests, page_lock(o, p, t)
        PROVE  NoMissedRelease'
    <3>1. CASE LockOverflow
      BY <2>1, <3>1 DEF LockOverflow
    <3>2. CASE ~LockOverflow
      BY <2>2, <3>2, LockKeepsSleepers, RequestsAssumption DEF page_lock
    <3>3. QED BY <3>1, <3>2
  <2>3. ASSUME NEW o \in Owners, NEW p \in Pages, page_unlock(o, p)
        PROVE  NoMissedRelease'
    <3>1. asleep' = {}
      BY <2>3, UnlockIsLocal
    <3>2. QED BY <3>1 DEF NoMissedRelease
  <2>4. CASE UNCHANGED vars
    BY <2>1, <2>4 DEF vars
  <2>5. QED BY <2>2, <2>3, <2>4 DEF Next
<1>3. Spec => []IInv
  BY InitIInv, NextIInv, PTL DEF Spec
<1>4. QED BY <1>1, <1>2, <1>3, PTL DEF Spec

(***************************************************************************)
(* The elements of a set of at most n elements can be numbered up to n.    *)
(***************************************************************************)
Numberings(S, n) == {f \in [S -> 1 .. n] : \A x, y \in S : f[x] = f[y] => x = y}

LEMMA NumberingExists ==
  ASSUME NEW S, IsFiniteSet(S), NEW n \in Nat, Cardinality(S) <= n
  PROVE  Numberings(S, n) # {}
<1> DEFINE m == Cardinality(S)
<1>1. m \in Nat /\ ExistsBijection(S, 1 .. m)
  BY FS_CardinalityType, Fun_ExistsBijSymmetric
<1>2. PICK f \in Bijection(S, 1 .. m) : TRUE
  BY <1>1 DEF ExistsBijection
<1> HIDE DEF m
<1>3. f \in [S -> 1 .. m] /\ \A x, y \in S : f[x] = f[y] => x = y
  BY <1>2 DEF Bijection, Injection, IsInjective
<1>4. 1 .. m \subseteq 1 .. n
  BY <1>1 DEF m
<1>5. f \in Numberings(S, n)
  BY <1>3, <1>4 DEF Numberings
<1>6. QED BY <1>5

\* Every owner keeps within its limit.
WithinLimit ==
    \A o \in Owners : IsFiniteSet(PagesOf(o)) /\ Cardinality(PagesOf(o)) <= PerOwner

(***************************************************************************)
(* Each slot in use is charged to one of its owners.  No owner is charged  *)
(* more than PerOwner slots, and the one that asks for a new page has one  *)
(* to spare, so that a slot is free.                                       *)
(***************************************************************************)
LEMMA FreeSlot ==
  ASSUME IsFiniteSet(Owners), Cardinality(Owners) * PerOwner <= MAX_NUM_LOCKS,
         IInv, NoSlotLeak, WithinLimit,
         NEW o \in Owners, NEW p \in Pages, ~HasSlot(p),
         Cardinality(PagesOf(o) \cup {p}) <= PerOwner
  PROVE  num_locks < MAX_NUM_LOCKS
<1> DEFINE A(q) == IF q = o THEN PagesOf(q) \cup {p} ELSE PagesOf(q)
           num == [q \in Owners |-> CHOOSE f \in Numberings(A(q), PerOwner) : TRUE]
           own == [s \in UsedSlots |-> CHOOSE q \in Owners : owners_info[s][q] # PAGE_LOCK_NULL]
           T == Owners \X (1 .. PerOwner)
           spare == <<o, num[o][p]>>
           charge == [s \in UsedSlots |-> <<own[s], num[own[s]][lpns[s]]>>]
<1>1. /\ lpns \in [Slots -> Pages \cup {NULL_LPN}]
      /\ owners_info \in [Slots -> [Owners -> LockTypes]]
      /\ SlotsCoherent
  BY DEF IInv, TypeOK
<1>2. \A q \in Owners : num[q] \in Numberings(A(q), PerOwner)
  <2> TAKE q \in Owners
  <2>1. IsFiniteSet(A(q)) /\ Cardinality(A(q)) <= PerOwner
    BY FS_AddElement DEF WithinLimit
  <2>2. Numberings(A(q), PerOwner) # {}
    BY <2>1, NumberingExists, PerOwnerAssumption
  <2>3. QED BY <2>2
<1>3. \A s \in UsedSlots : own[s] \in Owners /\ lpns[s] \in PagesOf(own[s])
  <2> TAKE s \in UsedSlots
  <2>1. s \in Slots /\ lpns[s] \in Pages
    BY <1>1 DEF UsedSlots
  <2>2. \E q \in Owners : owners_info[s][q] # PAGE_LOCK_NULL
    BY <1>1, <2>1 DEF NoSlotLeak, NoOwners
  <2>3. own[s] \in Owners /\ owners_info[s][own[s]] # PAGE_LOCK_NULL
    BY <2>2
  <2> HIDE DEF own
  <2>4. InfoOf(lpns[s]) = owners_info[s]
    BY <1>1, <2>1, InfoOfSlot
  <2>5. QED BY <2>1, <2>3, <2>4 DEF PagesOf
<1>4. \A q \in Owners : A(q) \in SUBSET Pages /\ PagesOf(q) \subseteq A(q)
  BY DEF PagesOf
<1>5. p \in A(o)
  OBVIOUS
<1> HIDE DEF A, num, own
<1>6. spare \in T
  BY <1>2, <1>5 DEF Numberings
<1>7. charge \in Injection(UsedSlots, T \ {spare})
  <2>1. \A s \in UsedSlots : own[s] \in Owners /\ lpns[s] \in A(own[s])
    BY <1>3, <1>4
  <2>2. \A s \in UsedSlots : charge[s] \in T
    BY <1>2, <2>1 DEF Numberings
  <2>3. \A s \in UsedSlots : charge[s] # spare
    <3>1. \A s \in UsedSlots : lpns[s] # p
      BY DEF UsedSlots, HasSlot
    <3>2. QED BY <1>2, <1>5, <2>1, <3>1 DEF Numberings
  <2>4. \A s, r \in UsedSlots : charge[s] = charge[r] => s = r
    <3>1. \A s, r \in UsedSlots : charge[s] = charge[r] => lpns[s] = lpns[r]
      BY <1>2, <2>1 DEF Numberings
    <3>2. QED BY <1>1, <3>1 DEF SlotsCoherent
  <2> HIDE DEF charge, spare, T
  <2>5. charge \in [UsedSlots -> T \ {spare}]
    BY <2>2, <2>3 DEF charge
  <2>6. QED BY <2>4, <2>5 DEF Injection, IsInjective
<1>8. IsFiniteSet(T) /\ Cardinality(T) = Cardinality(Owners) * PerOwner
  <2>1. IsFiniteSet(1 .. PerOwner) /\ Cardinality(1 .. PerOwner) = PerOwner
    BY FS_Interval, PerOwnerAssumption
  <2>2. QED BY <2>1, FS_Product
<1> HIDE DEF T, spare, charge
<1>9. IsFiniteSet(T \ {spare}) /\ Cardinality(T \ {spare}) = Cardinality(T) - 1
  BY <1>6, <1>8, FS_RemoveElement
<1>10. Cardinality(UsedSlots) <= Cardinality(T \ {spare})
  BY <1>7, <1>9, FS_Injection
<1>11. /\ Cardinality(UsedSlots) \in Nat /\ Cardinality(T) \in Nat
       /\ MAX_NUM_LOCKS \in Nat
  BY <1>8, SlotsAssumption, FS_Subset, FS_CardinalityType DEF UsedSlots, MAX_NUM_LOCKS
<1>12. QED
  BY <1>1, <1>8, <1>9, <1>10, <1>11 DEF SlotsCoherent

\* PagesOf reads the lock records only.
LEMMA PagesOfSame ==
  ASSUME UNCHANGED <<lpns, owners_info>>
  PROVE  \A q \in Owners : PagesOf(q)' = PagesOf(q)
  BY DEF PagesOf, InfoOf, HasSlot, SlotOf

(***************************************************************************)
(* The guard of the clients keeps every owner within its limit.            *)
(***************************************************************************)
LEMMA LimitKept ==
  ASSUME IInv, IInv', WithinLimit, [Next]_vars
  PROVE  WithinLimit'
<1>1. ASSUME NEW o \in Owners, NEW p \in Pages, NEW info \in [Owners -> LockTypes],
             OnlyPage(p, info),
             \A q \in Owners \ {o} : info[q] = InfoOf(p)[q],
             \/ info[o] = PAGE_LOCK_NULL
             \/ Cardinality(PagesOf(o) \cup {p}) <= PerOwner
      PROVE  WithinLimit'
  <2>1. \A q \in Owners \ {o} : PagesOf(q)' = PagesOf(q)
    BY <1>1 DEF OnlyPage, PagesOf
  <2>2. PagesOf(o)' \subseteq IF info[o] = PAGE_LOCK_NULL THEN PagesOf(o) ELSE PagesOf(o) \cup {p}
    BY <1>1 DEF OnlyPage, PagesOf
  <2>3. /\ IsFiniteSet(PagesOf(o)) /\ Cardinality(PagesOf(o)) <= PerOwner
        /\ IsFiniteSet(PagesOf(o) \cup {p})
    BY FS_AddElement DEF WithinLimit
  <2>4. \A S : IsFiniteSet(S) /\ Cardinality(S) <= PerOwner =>
                 \A R \in SUBSET S : IsFiniteSet(R) /\ Cardinality(R) <= PerOwner
    BY FS_Subset, FS_CardinalityType, PerOwnerAssumption
  <2>5. IsFiniteSet(PagesOf(o)') /\ Cardinality(PagesOf(o)') <= PerOwner
    BY <1>1, <2>2, <2>3, <2>4
  <2>6. QED BY <2>1, <2>5 DEF WithinLimit
<1>2. ASSUME UNCHANGED <<lpns, owners_info>> PROVE WithinLimit'
  BY <1>2, PagesOfSame DEF WithinLimit
<1>3. ASSUME NEW o \in Owners, NEW p \in Pages, NEW t \in Requests, page_lock(o, p, t)
      PROVE  WithinLimit'
  <2> DEFINE info == Granted(InfoOf(p), o, FinalLock(InfoOf(p), o, t))
  <2>1. CASE LockOverflow
    BY <1>2, <2>1 DEF LockOverflow
  <2>2. CASE ~LockOverflow
    <3>1. t \in LockTypes /\ InfoOf(p) \in [Owners -> LockTypes]
      BY RequestsAssumption, InfoOfType DEF IInv
    <3>2. OnlyPage(p, info)
      BY <1>3, <2>2, <3>1, LockIsLocal DEF page_lock
    <3>3. info \in [Owners -> LockTypes] /\ \A q \in Owners \ {o} : info[q] = InfoOf(p)[q]
      BY <3>1, FinalLockIs DEF Granted
    <3>4. Cardinality(PagesOf(o) \cup {p}) <= PerOwner
      BY <1>3 DEF page_lock
    <3> HIDE DEF info
    <3>5. QED BY <1>1, <3>2, <3>3, <3>4
  <2>3. QED BY <2>1, <2>2
<1>4. ASSUME NEW o \in Owners, NEW p \in Pages, page_unlock(o, p)
      PROVE  WithinLimit'
  <2> DEFINE info == Unlocked(InfoOf(p), o)
  <2>1. OnlyPage(p, info) /\ InfoOf(p) \in [Owners -> LockTypes]
    BY <1>4, UnlockIsLocal, InfoOfType DEF IInv
  <2>2. /\ info \in [Owners -> LockTypes] /\ info[o] = PAGE_LOCK_NULL
        /\ \A q \in Owners \ {o} : info[q] = InfoOf(p)[q]
    BY <2>1 DEF Unlocked, LockTypes, PAGE_LOCK_NULL, PAGE_LOCK_WRITE
  <2> HIDE DEF info
  <2>3. QED BY <1>1, <2>1, <2>2
<1>5. CASE UNCHANGED vars
  BY <1>2, <1>5 DEF vars
<1>6. QED BY <1>3, <1>4, <1>5 DEF Next

(***************************************************************************)
(* MAX_NUM_LOCKS slots (page_lock.c:5, the limit times the owners) suffice *)
(* for clients that ask for locks and keep within their limit: the         *)
(* assertion of page_lock.c:48 never fails.                                *)
(***************************************************************************)
THEOREM SlotsSuffice ==
  ASSUME PAGE_LOCK_NULL \notin Requests,
         IsFiniteSet(Owners),
         Cardinality(Owners) * PerOwner <= MAX_NUM_LOCKS
  PROVE  Spec => []SlotAvailable
<1>1. Init => WithinLimit /\ SlotAvailable
  <2> SUFFICES ASSUME Init PROVE WithinLimit /\ SlotAvailable
    OBVIOUS
  <2>1. \A o \in Owners : PagesOf(o) = {}
    BY NullLpnAssumption DEF Init, page_lock_init, PagesOf, InfoOf, HasSlot, NoOwners
  <2>2. WithinLimit
    BY <2>1, FS_EmptySet, PerOwnerAssumption DEF WithinLimit
  <2>3. QED BY <2>2 DEF Init, SlotAvailable
<1>2. /\ IInv /\ IInv' /\ NoSlotLeak /\ WithinLimit /\ SlotAvailable /\ [Next]_vars
      => WithinLimit' /\ SlotAvailable'
  <2> SUFFICES ASSUME IInv, IInv', NoSlotLeak, WithinLimit, SlotAvailable, [Next]_vars
               PROVE  WithinLimit' /\ SlotAvailable'
    OBVIOUS
  <2>1. ASSUME NEW o \in Owners, NEW p \in Pages, NEW t \in Requests, page_lock(o, p, t)
        PROVE  SlotAvailable'
    <3>1. CASE HasSlot(p) /\ LockKnownPage(o, p, t)
      BY <3>1 DEF LockKnownPage, SlotAvailable
    <3>2. CASE ~HasSlot(p)
      <4>1. num_locks < MAX_NUM_LOCKS
        BY <2>1, <3>2, FreeSlot DEF page_lock
      <4>2. QED BY <2>1, <3>2, <4>1 DEF page_lock, LockNewPage, LockOverflow, SlotAvailable
    <3>3. QED BY <2>1, <3>1, <3>2 DEF page_lock
  <2>2. ASSUME NEW o \in Owners, NEW p \in Pages, page_unlock(o, p)
        PROVE  SlotAvailable'
    BY <2>2 DEF page_unlock, SlotAvailable
  <2>3. ASSUME UNCHANGED vars PROVE SlotAvailable'
    BY <2>3 DEF vars, SlotAvailable
  <2>4. QED BY <2>1, <2>2, <2>3, LimitKept DEF Next
<1>3. Spec => []IInv
  BY InitIInv, NextIInv, PTL DEF Spec
<1>4. Spec => []NoSlotLeak
  BY NoLeak
<1>5. QED BY <1>1, <1>2, <1>3, <1>4, PTL DEF Spec
=============================================================================

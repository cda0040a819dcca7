---------------------------- MODULE Driver_proofs -----------------------------
(***************************************************************************)
(* Proofs that the tssd driver keeps its invariants for every number of    *)
(* processes and sectors, every key and every bio, whether or not the      *)
(* kernel calls open and release one at a time.                            *)
(***************************************************************************)
EXTENDS Driver, FiniteSetTheorems, TLAPS

Holders == {p \in Procs : pc[p] \in {"open", "bio"}}

\* The count of users that open and release keep is exact.
UsersCounted == users = Cardinality(Holders)

\* Nobody is in a call of a driver that is not loaded.
CallsNeedDevice == ~loaded => \A p \in Procs : pc[p] = "closed"

\* What a sector holds is of the session that owns it.
OwnerWrote == \A s \in Sectors : data[s] = Zero \/ data[s].by = sector_uids[s]

\* While a bio reads, the device does not change.
HeldStill ==
    \A p \in Procs : pc[p] = "bio" /\ ~bio[p].write =>
        first[p] = [data |-> data, uids |-> sector_uids]

\* The inductive invariant.
IInv ==
    /\ TypeOK /\ UsersCounted /\ CallsNeedDevice /\ OwnerWrote /\ HeldStill
    /\ MediaStaysWhileUsed /\ ReadsOneMoment /\ ReadsOwn
    /\ TimerOnlyWhenUnused /\ TimerNeedsDevice

-----------------------------------------------------------------------------
\* A session's uid is one of the two that setup_device stores.
LEMMA SessionUidType == ASSUME NEW k \in Nat PROVE SessionUid(k) \in Uids
  BY DEF SessionUid, Uids

\* Wiped memory, and a write, are data.
LEMMA WipedType == Wiped \in [Sectors -> Data]
  BY DEF Wiped, Data

LEMMA NoBioType == NoBio \in Bios
  <1>1. (CHOOSE k \in Keys : TRUE) \in Keys /\ (CHOOSE v \in Values : TRUE) \in Values
    BY DriverAssumption
  <1>2. 0 \in Sectors /\ 1 \in 1 .. MaxSectors
    BY DriverAssumption DEF Sectors
  <1> QED  BY <1>1, <1>2 DEF NoBio, Bios

LEMMA FirstZeroType == FirstZero \in [data : [Sectors -> Data], uids : [Sectors -> Uids]]
  BY WipedType DEF FirstZero, Uids

\* A holder leaves or joins the set when its pc changes.
LEMMA CountJoin ==
  ASSUME UsersCounted, TypeOK, NEW p \in Procs, pc[p] = "opening",
         pc' = [pc EXCEPT ![p] = "open"]
  PROVE  Cardinality(Holders') = users + 1 /\ users \in Nat
  <1>1. IsFiniteSet(Holders)
    BY DriverAssumption, FS_Subset DEF Holders
  <1>2. Holders' = Holders \cup {p} /\ p \notin Holders
    BY DEF Holders, TypeOK
  <1> QED  BY <1>1, <1>2, FS_AddElement, FS_CardinalityType DEF UsersCounted

LEMMA CountLeave ==
  ASSUME UsersCounted, TypeOK, NEW p \in Procs, pc[p] = "open",
         pc' = [pc EXCEPT ![p] = "closed"]
  PROVE  Cardinality(Holders') = users - 1 /\ users \in Nat \ {0}
  <1>1. IsFiniteSet(Holders)
    BY DriverAssumption, FS_Subset DEF Holders
  <1>2. Holders' = Holders \ {p} /\ p \in Holders
    BY DEF Holders, TypeOK
  <1>3. Cardinality(Holders) \in Nat /\ Holders # {}
    BY <1>1, <1>2, FS_CardinalityType
  <1>4. Cardinality(Holders') = Cardinality(Holders) - 1
    BY <1>1, <1>2, FS_RemoveElement
  <1>5. Cardinality(Holders) # 0
    BY <1>1, <1>3, FS_EmptySet
  <1> QED  BY <1>3, <1>4, <1>5 DEF UsersCounted

\* Somebody who has the device open is counted.
LEMMA HolderCounts ==
  ASSUME UsersCounted, NEW p \in Procs, pc[p] \in {"open", "bio"}
  PROVE  users \in Nat \ {0}
  <1>1. IsFiniteSet(Holders) /\ Holders # {}
    BY DriverAssumption, FS_Subset DEF Holders
  <1> QED  BY <1>1, FS_CardinalityType, FS_EmptySet DEF UsersCounted

-----------------------------------------------------------------------------
LEMMA InitIInv == Init => IInv
  <1> SUFFICES ASSUME Init PROVE IInv
    OBVIOUS
  <1>1. Holders = {}
    BY DEF Init, Holders
  <1>2. UsersCounted
    BY <1>1, FS_EmptySet DEF Init, UsersCounted
  <1>3. TypeOK
    <2>1. data \in [Sectors -> Data] /\ sector_uids \in [Sectors -> Uids]
      BY WipedType DEF Init, Uids
    <2>2. users \in Nat /\ lock \in Procs \cup {Free}
      BY DEF Init
    <2>3. pc \in [Procs -> {"closed", "opening", "open", "bio"}]
      BY DEF Init
    <2>4. bio \in [Procs -> Bios] /\ done \in [Procs -> 0 .. MaxSectors]
      BY NoBioType, DriverAssumption DEF Init
    <2>5. buffer \in [Procs -> [Sectors -> Data]]
      BY WipedType DEF Init
    <2>6. first \in [Procs -> [data : [Sectors -> Data], uids : [Sectors -> Uids]]]
      BY FirstZeroType DEF Init
    <2>7. \A p \in Procs : pc[p] = "bio" <=> lock = p
      BY DriverAssumption DEF Init
    <2> QED  BY <2>1, <2>2, <2>3, <2>4, <2>5, <2>6, <2>7 DEF Init, TypeOK
  <1>4. OwnerWrote
    BY DEF Init, OwnerWrote, Wiped
  <1> QED
    BY <1>2, <1>3, <1>4 DEF Init, IInv, CallsNeedDevice, HeldStill, MediaStaysWhileUsed,
       ReadsOneMoment, ReadsOwn, TimerOnlyWhenUnused, TimerNeedsDevice

\* The step lemmas below take the actions one at a time.
LEMMA StutterStep == IInv /\ UNCHANGED vars => IInv'
  BY DEF IInv, vars, store, timer, bios, TypeOK, UsersCounted, Holders, CallsNeedDevice,
     OwnerWrote, HeldStill, MediaStaysWhileUsed, ReadsOneMoment, ReadsOwn, Sector, SectorsOf, Uid,
     TimerOnlyWhenUnused, TimerNeedsDevice

LEMMA OpenStep == ASSUME IInv, NEW p \in Procs, tssd_open(p) PROVE IInv'
  <1>0. /\ TypeOK /\ UsersCounted /\ pc[p] = "closed" /\ loaded
        /\ running = FALSE /\ pending' = FALSE /\ running' = FALSE
    BY DEF IInv, tssd_open, del_timer_sync, MayCall, TypeOK
  <1>1. TypeOK'
    <2>1. pc' \in [Procs -> {"closed", "opening", "open", "bio"}]
      BY <1>0 DEF TypeOK, tssd_open
    <2>2. \A q \in Procs : pc'[q] = "bio" <=> lock' = q
      BY <1>0 DEF TypeOK, tssd_open
    <2> QED  BY <1>0, <2>1, <2>2 DEF TypeOK, tssd_open, store, bios
  <1>2. UsersCounted'
    <2>1. Holders' = Holders
      BY <1>0 DEF tssd_open, Holders, TypeOK
    <2> QED  BY <1>0, <2>1 DEF tssd_open, UsersCounted
  <1>3. CallsNeedDevice' /\ OwnerWrote' /\ HeldStill' /\ MediaStaysWhileUsed'
    BY <1>0 DEF IInv, tssd_open, store, bios, TypeOK, CallsNeedDevice, OwnerWrote, HeldStill,
       MediaStaysWhileUsed
  <1>4. ReadsOneMoment' /\ ReadsOwn'
    BY <1>0 DEF IInv, tssd_open, bios, TypeOK, ReadsOneMoment, ReadsOwn, Sector, SectorsOf, Uid
  <1>5. TimerOnlyWhenUnused' /\ TimerNeedsDevice'
    BY <1>0 DEF IInv, tssd_open, TimerOnlyWhenUnused, TimerNeedsDevice
  <1> QED  BY <1>1, <1>2, <1>3, <1>4, <1>5 DEF IInv

LEMMA OpenLockedStep == ASSUME IInv, NEW p \in Procs, OpenLocked(p) PROVE IInv'
  <1>0. /\ TypeOK /\ UsersCounted /\ pc[p] = "opening" /\ lock = Free
        /\ pc' = [pc EXCEPT ![p] = "open"] /\ users' = users + 1 /\ users \in Nat
    BY DEF IInv, OpenLocked, TypeOK
  <1>a. \A q \in Procs : pc[q] # "bio"
    BY <1>0, DriverAssumption DEF TypeOK
  <1>b. /\ media_change' \in BOOLEAN /\ (data' = Wiped \/ data' = data)
        /\ ~media_change'
    <2>1. CASE users = 0
      <3>1. media_change' = FALSE /\ data' = IF media_change THEN Wiped ELSE data
        BY <2>1 DEF OpenLocked, check_disk_change, tssd_revalidate
      <3> QED  BY <3>1
    <2>2. CASE users # 0
      <3>1. UNCHANGED <<media_change, data>>
        BY <2>2 DEF OpenLocked
      <3>2. media_change \in BOOLEAN /\ ~media_change
        BY <1>0, <2>2 DEF IInv, MediaStaysWhileUsed, TypeOK
      <3> QED  BY <3>1, <3>2
    <2> QED  BY <2>1, <2>2
  <1>1. TypeOK'
    <2>1. pc' \in [Procs -> {"closed", "opening", "open", "bio"}]
      BY <1>0 DEF TypeOK
    <2>2. \A q \in Procs : pc'[q] = "bio" <=> lock' = q
      BY <1>0, <1>a DEF TypeOK, OpenLocked
    <2>3. data' \in [Sectors -> Data]
      BY <1>0, <1>b, WipedType DEF TypeOK
    <2> QED  BY <1>0, <1>b, <2>1, <2>2, <2>3 DEF TypeOK, OpenLocked, timer, bios
  <1>2. UsersCounted'
    BY <1>0, <1>a, CountJoin DEF UsersCounted
  <1>3. OwnerWrote'
    BY <1>b DEF IInv, OwnerWrote, OpenLocked, Wiped
  <1>4. CallsNeedDevice' /\ HeldStill' /\ ReadsOneMoment' /\ ReadsOwn'
    BY <1>0, <1>a DEF IInv, OpenLocked, CallsNeedDevice, HeldStill, ReadsOneMoment, ReadsOwn
  <1>5. MediaStaysWhileUsed'
    BY <1>b DEF MediaStaysWhileUsed
  <1>6. TimerOnlyWhenUnused' /\ TimerNeedsDevice'
    BY <1>0 DEF IInv, OpenLocked, timer, TimerOnlyWhenUnused, TimerNeedsDevice
  <1> QED  BY <1>1, <1>2, <1>3, <1>4, <1>5, <1>6 DEF IInv

LEMMA ReleaseStep == ASSUME IInv, NEW p \in Procs, tssd_release(p) PROVE IInv'
  <1>0. /\ TypeOK /\ UsersCounted /\ pc[p] = "open" /\ lock = Free /\ loaded
        /\ pc' = [pc EXCEPT ![p] = "closed"] /\ users' = users - 1
    BY DEF IInv, tssd_release, MayCall
  <1>a. \A q \in Procs : pc[q] # "bio"
    BY <1>0, DriverAssumption DEF TypeOK
  <1>b. Cardinality(Holders') = users - 1 /\ users \in Nat \ {0}
    BY <1>0, <1>a, CountLeave
  <1>c. pending' \in BOOLEAN /\ twice' \in BOOLEAN
    <2>1. /\ pending' = (pending \/ Unused(users'))
          /\ twice' = (twice \/ (pending /\ Unused(users')))
      BY DEF tssd_release
    <2> QED  BY <2>1, Zenon
  <1>1. TypeOK'
    <2>1. pc' \in [Procs -> {"closed", "opening", "open", "bio"}]
      BY <1>0 DEF TypeOK
    <2>2. \A q \in Procs : pc'[q] = "bio" <=> lock' = q
      BY <1>0, <1>a DEF TypeOK, tssd_release
    <2> QED  BY <1>0, <1>b, <1>c, <2>1, <2>2 DEF TypeOK, tssd_release, store, bios
  <1>2. UsersCounted'
    BY <1>0, <1>b DEF UsersCounted
  <1>3. OwnerWrote' /\ CallsNeedDevice' /\ HeldStill' /\ ReadsOneMoment' /\ ReadsOwn'
    BY <1>0, <1>a DEF IInv, tssd_release, store, OwnerWrote, CallsNeedDevice, HeldStill,
       ReadsOneMoment, ReadsOwn
  <1>4. MediaStaysWhileUsed'
    BY <1>b DEF IInv, tssd_release, MediaStaysWhileUsed
  <1>5. TimerOnlyWhenUnused'
    <2> SUFFICES ASSUME serial
                 PROVE  /\ ~twice'
                        /\ pending' \/ running' => users' = 0 /\ \A q \in Procs : pc'[q] = "closed"
      BY DEF TimerOnlyWhenUnused, tssd_release
    <2>1. ~pending /\ ~running /\ ~twice
      BY <1>0 DEF IInv, TimerOnlyWhenUnused
    <2>2. ~twice' /\ ~running'
      BY <2>1 DEF tssd_release
    <2>3. ASSUME pending' PROVE users' = 0 /\ \A q \in Procs : pc'[q] = "closed"
      <3>1. users' = 0
        BY <2>1, <2>3 DEF tssd_release, Unused
      <3>2. Holders' = {}
        <4>1. IsFiniteSet(Holders')
          BY DriverAssumption, FS_Subset DEF Holders
        <4> QED  BY <1>0, <1>b, <3>1, <4>1, FS_EmptySet
      <3>3. \A q \in Procs : pc[q] # "opening"
        BY DEF tssd_release, MayCall
      <3> QED  BY <1>0, <1>1, <3>1, <3>2, <3>3 DEF Holders, TypeOK
    <2> QED  BY <2>2, <2>3
  <1>6. TimerNeedsDevice'
    BY <1>0 DEF IInv, tssd_release, TimerNeedsDevice
  <1> QED  BY <1>1, <1>2, <1>3, <1>4, <1>5, <1>6 DEF IInv

LEMMA RereadStep == ASSUME IInv, NEW p \in Procs, RereadPartitions(p) PROVE IInv'
  <1>1. TypeOK /\ users \in Nat \ {0}
    BY HolderCounts DEF IInv, RereadPartitions
  <1>2. ~media_change /\ media_change \in BOOLEAN
    BY <1>1 DEF IInv, MediaStaysWhileUsed, TypeOK
  <1>3. media_change' = media_change /\ data' = data
    <2>1. media_change' = FALSE /\ data' = IF media_change THEN Wiped ELSE data
      BY DEF RereadPartitions, tssd_revalidate
    <2> QED  BY <1>2, <2>1
  <1>4. UNCHANGED vars
    BY <1>3 DEF RereadPartitions, vars, store
  <1> QED  BY <1>4, StutterStep

LEMMA ExpireStep == ASSUME IInv, Expire PROVE IInv'
  <1>0. pending /\ pending' = FALSE /\ running' = TRUE
    BY DEF Expire
  <1>1. UNCHANGED <<serial, loaded, data, sector_uids, users, media_change, lock, pc, bio, done,
                    buffer, first, used, twice>>
    BY DEF Expire, store, bios
  <1>2. TypeOK'
    BY <1>0, <1>1 DEF IInv, TypeOK
  <1>3. UsersCounted' /\ CallsNeedDevice' /\ OwnerWrote' /\ HeldStill' /\ MediaStaysWhileUsed'
    BY <1>1 DEF IInv, UsersCounted, Holders, CallsNeedDevice, OwnerWrote, HeldStill,
       MediaStaysWhileUsed
  <1>4. ReadsOneMoment' /\ ReadsOwn'
    BY <1>1 DEF IInv, ReadsOneMoment, ReadsOwn, Sector, SectorsOf, Uid
  <1>5. TimerOnlyWhenUnused' /\ TimerNeedsDevice'
    BY <1>0, <1>1 DEF IInv, TimerOnlyWhenUnused, TimerNeedsDevice
  <1> QED  BY <1>2, <1>3, <1>4, <1>5 DEF IInv

LEMMA InvalidateStep == ASSUME IInv, tssd_invalidate PROVE IInv'
  <1>0. running /\ running' = FALSE /\ media_change' = (media_change \/ users = 0)
    BY DEF tssd_invalidate, SanityCheck
  <1>1. UNCHANGED <<serial, loaded, data, sector_uids, users, lock, pending, pc, bio, done,
                    buffer, first, used, twice>>
    BY DEF tssd_invalidate, store, bios
  <1>2. TypeOK'
    <2>1. media_change' \in BOOLEAN
      BY <1>0, Zenon
    <2> QED  BY <1>0, <1>1, <2>1 DEF IInv, TypeOK
  <1>3. UsersCounted' /\ CallsNeedDevice' /\ OwnerWrote' /\ HeldStill'
    BY <1>1 DEF IInv, UsersCounted, Holders, CallsNeedDevice, OwnerWrote, HeldStill
  <1>4. MediaStaysWhileUsed'
    BY <1>0, <1>1 DEF IInv, TypeOK, MediaStaysWhileUsed
  <1>5. ReadsOneMoment' /\ ReadsOwn'
    BY <1>1 DEF IInv, ReadsOneMoment, ReadsOwn, Sector, SectorsOf, Uid
  <1>6. TimerOnlyWhenUnused' /\ TimerNeedsDevice'
    BY <1>0, <1>1 DEF IInv, TimerOnlyWhenUnused, TimerNeedsDevice
  <1> QED  BY <1>2, <1>3, <1>4, <1>5, <1>6 DEF IInv

LEMMA SetupStep == ASSUME IInv, setup_device PROVE IInv'
  <1>0. /\ TypeOK /\ \A p \in Procs : pc[p] = "closed"
        /\ ~loaded /\ loaded' = TRUE /\ data' = Wiped /\ sector_uids' = [s \in Sectors |-> 0]
        /\ media_change' = FALSE /\ used' = FALSE
        /\ UNCHANGED <<serial, users, lock, pending, running, pc, bio, done, buffer, first, twice>>
    BY DEF IInv, setup_device, CallsNeedDevice, timer, bios
  <1>1. TypeOK'
    <2>1. data' \in [Sectors -> Data] /\ sector_uids' \in [Sectors -> Uids]
      BY <1>0, WipedType DEF Uids
    <2> QED  BY <1>0, <2>1 DEF TypeOK
  <1>2. UsersCounted' /\ CallsNeedDevice' /\ OwnerWrote' /\ HeldStill' /\ MediaStaysWhileUsed'
    BY <1>0 DEF IInv, UsersCounted, Holders, CallsNeedDevice, OwnerWrote, HeldStill, Wiped,
       MediaStaysWhileUsed
  <1>3. ReadsOneMoment' /\ ReadsOwn'
    BY <1>0 DEF ReadsOneMoment, ReadsOwn
  <1>4. TimerOnlyWhenUnused' /\ TimerNeedsDevice'
    BY <1>0 DEF IInv, TimerOnlyWhenUnused, TimerNeedsDevice
  <1> QED  BY <1>1, <1>2, <1>3, <1>4 DEF IInv

LEMMA ExitStep == ASSUME IInv, tssd_exit PROVE IInv'
  <1>0. /\ TypeOK /\ \A p \in Procs : pc[p] = "closed"
        /\ loaded' = FALSE /\ running = FALSE /\ running' = FALSE /\ pending' = FALSE
        /\ UNCHANGED <<serial, data, sector_uids, users, media_change, lock, pc, bio, done, buffer,
                       first, used, twice>>
    BY DEF IInv, tssd_exit, del_timer_sync, TypeOK, store, bios
  <1>1. TypeOK'
    BY <1>0 DEF TypeOK
  <1>2. UsersCounted' /\ CallsNeedDevice' /\ OwnerWrote' /\ HeldStill' /\ MediaStaysWhileUsed'
    BY <1>0 DEF IInv, UsersCounted, Holders, CallsNeedDevice, OwnerWrote, HeldStill,
       MediaStaysWhileUsed
  <1>3. ReadsOneMoment' /\ ReadsOwn'
    BY <1>0 DEF ReadsOneMoment, ReadsOwn
  <1>4. TimerOnlyWhenUnused' /\ TimerNeedsDevice'
    BY <1>0 DEF IInv, TimerOnlyWhenUnused, TimerNeedsDevice
  <1> QED  BY <1>1, <1>2, <1>3, <1>4 DEF IInv

LEMMA BeginStep == ASSUME IInv, NEW p \in Procs, NEW b \in Bios, BeginBio(p, b) PROVE IInv'
  <1>0. /\ TypeOK /\ pc[p] = "open" /\ lock = Free /\ lock' = p
        /\ pc' = [pc EXCEPT ![p] = "bio"]
        /\ bio' = [bio EXCEPT ![p] = b] /\ done' = [done EXCEPT ![p] = 0]
        /\ buffer' = [buffer EXCEPT ![p] = Wiped]
        /\ first' = [first EXCEPT ![p] = [data |-> data, uids |-> sector_uids]]
        /\ UNCHANGED <<serial, loaded, data, sector_uids, users, media_change, pending, running,
                       used, twice>>
    BY DEF IInv, BeginBio, store, timer
  <1>a. \A q \in Procs : pc[q] # "bio"
    BY <1>0, DriverAssumption DEF TypeOK
  <1>1. TypeOK'
    <2>1. pc' \in [Procs -> {"closed", "opening", "open", "bio"}]
      BY <1>0 DEF TypeOK
    <2>2. \A q \in Procs : pc'[q] = "bio" <=> lock' = q
      BY <1>0, <1>a DEF TypeOK
    <2>3. bio' \in [Procs -> Bios] /\ done' \in [Procs -> 0 .. MaxSectors]
      BY <1>0, DriverAssumption DEF TypeOK
    <2>4. buffer' \in [Procs -> [Sectors -> Data]]
      BY <1>0, WipedType DEF TypeOK
    <2>5. [data |-> data, uids |-> sector_uids]
             \in [data : [Sectors -> Data], uids : [Sectors -> Uids]]
      BY <1>0 DEF TypeOK
    <2>6. first' \in [Procs -> [data : [Sectors -> Data], uids : [Sectors -> Uids]]]
      BY <1>0, <2>5 DEF TypeOK
    <2> QED  BY <1>0, <2>1, <2>2, <2>3, <2>4, <2>6 DEF TypeOK
  <1>2. UsersCounted'
    <2>1. Holders' = Holders
      BY <1>0 DEF Holders, TypeOK
    <2> QED  BY <1>0, <2>1 DEF IInv, UsersCounted
  <1>3. CallsNeedDevice' /\ OwnerWrote' /\ MediaStaysWhileUsed'
    BY <1>0 DEF IInv, TypeOK, CallsNeedDevice, OwnerWrote, MediaStaysWhileUsed
  <1>4. HeldStill'
    BY <1>0, <1>a DEF TypeOK, HeldStill
  <1>5. ReadsOneMoment'
    <2> SUFFICES ASSUME NEW q \in Procs, pc'[q] = "bio", NEW s \in Sectors,
                        bio'[q].start <= s, s < Sector(q)'
                 PROVE  FALSE
      BY DEF ReadsOneMoment
    <2>1. q = p
      BY <1>0, <1>a DEF TypeOK
    <2>2. Sector(q)' = bio'[q].start + 0 /\ bio'[q].start \in Nat
      BY <1>0, <2>1, DriverAssumption DEF TypeOK, Sector, Bios, Sectors
    <2> QED  BY <2>2, DriverAssumption DEF Sectors
  <1>6. ReadsOwn'
    BY <1>0, <1>a DEF TypeOK, ReadsOwn, Wiped, Uid
  <1>7. TimerOnlyWhenUnused' /\ TimerNeedsDevice'
    BY <1>0 DEF IInv, TypeOK, TimerOnlyWhenUnused, TimerNeedsDevice
  <1> QED  BY <1>1, <1>2, <1>3, <1>4, <1>5, <1>6, <1>7 DEF IInv

LEMMA EndStep == ASSUME IInv, NEW p \in Procs, EndBio(p) PROVE IInv'
  <1>0. /\ TypeOK /\ pc[p] = "bio" /\ lock = p /\ lock' = Free
        /\ pc' = [pc EXCEPT ![p] = "open"]
        /\ bio' = [bio EXCEPT ![p] = NoBio] /\ done' = [done EXCEPT ![p] = 0]
        /\ buffer' = [buffer EXCEPT ![p] = Wiped]
        /\ first' = [first EXCEPT ![p] = FirstZero]
        /\ UNCHANGED <<serial, loaded, data, sector_uids, users, media_change, pending, running,
                       used, twice>>
    BY DEF IInv, EndBio, store, timer, TypeOK
  <1>a. \A q \in Procs : pc'[q] # "bio"
    BY <1>0, DriverAssumption DEF TypeOK
  <1>1. TypeOK'
    <2>1. pc' \in [Procs -> {"closed", "opening", "open", "bio"}]
      BY <1>0 DEF TypeOK
    <2>2. \A q \in Procs : pc'[q] = "bio" <=> lock' = q
      BY <1>0, <1>a, DriverAssumption
    <2>3. bio' \in [Procs -> Bios] /\ done' \in [Procs -> 0 .. MaxSectors]
      BY <1>0, DriverAssumption, NoBioType DEF TypeOK
    <2>4. buffer' \in [Procs -> [Sectors -> Data]]
      BY <1>0, WipedType DEF TypeOK
    <2>5. first' \in [Procs -> [data : [Sectors -> Data], uids : [Sectors -> Uids]]]
      BY <1>0, FirstZeroType DEF TypeOK
    <2> QED  BY <1>0, <2>1, <2>2, <2>3, <2>4, <2>5 DEF TypeOK
  <1>2. UsersCounted'
    <2>1. Holders' = Holders
      BY <1>0 DEF Holders, TypeOK
    <2> QED  BY <1>0, <2>1 DEF IInv, UsersCounted
  <1>3. CallsNeedDevice' /\ OwnerWrote' /\ MediaStaysWhileUsed'
    BY <1>0 DEF IInv, TypeOK, CallsNeedDevice, OwnerWrote, MediaStaysWhileUsed
  <1>4. HeldStill' /\ ReadsOneMoment' /\ ReadsOwn'
    BY <1>a DEF HeldStill, ReadsOneMoment, ReadsOwn
  <1>5. TimerOnlyWhenUnused' /\ TimerNeedsDevice'
    BY <1>0 DEF IInv, TypeOK, TimerOnlyWhenUnused, TimerNeedsDevice
  <1> QED  BY <1>1, <1>2, <1>3, <1>4, <1>5 DEF IInv

\* What a segment reads is data of the session of its bio, or zeros.
LEMMA MayReadOwn ==
  ASSUME IInv, NEW ss \in SUBSET Sectors, NEW s \in ss, NEW uid \in Uids
  PROVE  LET r == MayRead(ss, s, uid) IN
         /\ r \in Data /\ (r = Zero \/ r.by = uid)
         /\ \/ r = data[s] /\ sector_uids[s] = uid
            \/ r = Zero /\ \E t \in ss : sector_uids[t] # uid
  <1>1. data[s] \in Data /\ (data[s] = Zero \/ data[s].by = sector_uids[s])
    BY DEF IInv, TypeOK, OwnerWrote
  <1>2. CASE \A t \in ss : sector_uids[t] = uid
    BY <1>1, <1>2 DEF MayRead
  <1>3. CASE ~ \A t \in ss : sector_uids[t] = uid
    BY <1>3 DEF MayRead, Data
  <1> QED  BY <1>2, <1>3

LEMMA TransferStep ==
  ASSUME IInv, NEW p \in Procs, NEW n \in 1 .. MaxSectors, tssd_transfer(p, n) PROVE IInv'
  <1> DEFINE ss == Sector(p) .. Sector(p) + n - 1
  <1>0. /\ TypeOK /\ pc[p] = "bio" /\ lock = p
        /\ done' = [done EXCEPT ![p] = @ + n]
        /\ UNCHANGED <<serial, loaded, users, media_change, lock, pending, running, pc, bio, first,
                       used, twice>>
    BY DEF IInv, tssd_transfer, KeepLock, timer, TypeOK
  <1>a. \A q \in Procs : pc[q] = "bio" => q = p
    BY <1>0 DEF TypeOK
  <1>b. /\ bio[p] \in Bios /\ bio[p].start \in Nat /\ bio[p].count \in 1 .. MaxSectors
        /\ done[p] \in Nat /\ n \in Nat \ {0} /\ nsectors \in Nat /\ MaxSectors \in Nat
    BY <1>0, DriverAssumption DEF TypeOK, Bios, Sectors
  <1>c. /\ done[p] + n <= bio[p].count /\ Sector(p) + n <= nsectors
        /\ Sector(p) = bio[p].start + done[p]
    BY DEF tssd_transfer, Sector
  <1>d. ss \subseteq SectorsOf(p) /\ ss \in SUBSET Sectors /\ Uid(p) \in Uids
    <2>1. ss \in SUBSET Sectors
      BY <1>b, <1>c DEF Sectors
    <2>2. \A x \in ss : bio[p].start <= x /\ x < bio[p].start + bio[p].count
      BY <1>b, <1>c
    <2>3. bio[p].key \in Nat
      BY <1>b, DriverAssumption DEF Bios
    <2> QED  BY <2>1, <2>2, <2>3, SessionUidType DEF Uid, SectorsOf
  <1>e. done' \in [Procs -> 0 .. MaxSectors]
    BY <1>0, <1>b, <1>c DEF TypeOK
  <1>f. Sector(p)' = Sector(p) + n
    <2>1. done'[p] = done[p] + n /\ bio'[p] = bio[p]
      BY <1>0 DEF TypeOK
    <2>2. Sector(p)' = bio[p].start + (done[p] + n)
      BY <2>1 DEF Sector
    <2> QED  BY <1>b, <1>c, <2>2
  <1>g. \A x \in Sectors : bio[p].start <= x /\ x < Sector(p)' => x \in ss \/ x < Sector(p)
    BY <1>b, <1>c, <1>f DEF Sectors
  <1>h. Uid(p)' = Uid(p) /\ SectorsOf(p)' = SectorsOf(p)
    BY <1>0 DEF Uid, SectorsOf
  <1>2. UsersCounted' /\ CallsNeedDevice' /\ MediaStaysWhileUsed' /\ TimerOnlyWhenUnused'
        /\ TimerNeedsDevice'
    BY <1>0 DEF IInv, UsersCounted, Holders, CallsNeedDevice, MediaStaysWhileUsed,
       TimerOnlyWhenUnused, TimerNeedsDevice
  <1>i. WriteSegment(p, ss) \/ ReadSegment(p, ss)
    BY DEF tssd_transfer
  <1> HIDE DEF ss
  <1>3. CASE WriteSegment(p, ss)
    <2>1. /\ bio[p].write /\ bio[p].value \in Values
          /\ sector_uids' = [s \in Sectors |-> IF s \in ss THEN Uid(p) ELSE sector_uids[s]]
          /\ data' = [s \in Sectors |-> IF s \in ss THEN [by |-> Uid(p), value |-> bio[p].value]
                                        ELSE data[s]]
          /\ buffer' = buffer
      BY <1>3, <1>b DEF WriteSegment, Owned, Bios
    <2>2. [by |-> Uid(p), value |-> bio[p].value] \in Data
      BY <1>d, <2>1 DEF Data
    <2>3. TypeOK'
      <3>1. data' \in [Sectors -> Data] /\ sector_uids' \in [Sectors -> Uids]
        BY <1>0, <1>d, <2>1, <2>2 DEF TypeOK
      <3> QED  BY <1>0, <1>e, <2>1, <3>1 DEF TypeOK
    <2>4. OwnerWrote'
      BY <1>0, <1>d, <2>1 DEF IInv, TypeOK, OwnerWrote
    <2>5. HeldStill' /\ ReadsOneMoment'
      BY <1>0, <1>a, <2>1 DEF HeldStill, ReadsOneMoment
    <2>6. ReadsOwn'
      BY <1>0, <2>1 DEF IInv, ReadsOwn, Uid
    <2> QED  BY <1>2, <2>3, <2>4, <2>5, <2>6 DEF IInv
  <1>4. CASE ReadSegment(p, ss)
    <2> DEFINE r(x) == MayRead(ss, x, Uid(p))
    <2>1. /\ ~bio[p].write
          /\ buffer' = [buffer EXCEPT ![p] = [x \in Sectors |-> IF x \in ss THEN r(x) ELSE @[x]]]
          /\ data' = data /\ sector_uids' = sector_uids
      BY <1>4 DEF ReadSegment, store
    <2>2. ASSUME NEW x \in ss
          PROVE  /\ r(x) \in Data /\ (r(x) = Zero \/ r(x).by = Uid(p))
                 /\ \/ r(x) = data[x] /\ sector_uids[x] = Uid(p)
                    \/ r(x) = Zero /\ \E t \in ss : sector_uids[t] # Uid(p)
      BY <1>d, MayReadOwn
    <2>3. first[p] = [data |-> data, uids |-> sector_uids]
      BY <1>0, <2>1 DEF IInv, HeldStill
    <2> HIDE DEF r
    <2>5. \A x \in Sectors : buffer'[p][x] = IF x \in ss THEN r(x) ELSE buffer[p][x]
      BY <1>0, <2>1 DEF TypeOK
    <2>6. buffer' \in [Procs -> [Sectors -> Data]]
      BY <1>0, <1>d, <2>1, <2>2 DEF TypeOK
    <2>7. TypeOK'
      BY <1>0, <1>e, <2>1, <2>6 DEF TypeOK
    <2>8. OwnerWrote' /\ HeldStill'
      BY <1>0, <2>1 DEF IInv, OwnerWrote, HeldStill
    <2>9. ReadsOneMoment'
      <3> SUFFICES ASSUME NEW x \in Sectors, bio[p].start <= x, x < Sector(p)'
                   PROVE  \/ buffer'[p][x] = first[p].data[x] /\ first[p].uids[x] = Uid(p)
                          \/ buffer'[p][x] = Zero /\ \E t \in SectorsOf(p) : first[p].uids[t] # Uid(p)
        BY <1>0, <1>a, <1>h DEF ReadsOneMoment
      <3>1. CASE x \in ss
        <4>1. buffer'[p][x] = r(x)
          BY <2>5, <3>1
        <4>2. first[p].data = data /\ first[p].uids = sector_uids
          BY <2>3
        <4> QED  BY <1>d, <2>2, <3>1, <4>1, <4>2
      <3>2. CASE x \notin ss
        <4>1. x < Sector(p) /\ buffer'[p][x] = buffer[p][x]
          BY <1>g, <2>5, <3>2
        <4> QED  BY <1>0, <2>1, <4>1 DEF IInv, ReadsOneMoment
      <3> QED  BY <3>1, <3>2
    <2>10. ReadsOwn'
      <3> SUFFICES ASSUME NEW x \in Sectors
                   PROVE  buffer'[p][x] = Zero \/ buffer'[p][x].by = Uid(p)
        BY <1>0, <1>a, <1>h DEF ReadsOwn
      <3>1. CASE x \in ss
        BY <2>2, <2>5, <3>1
      <3>2. CASE x \notin ss
        BY <1>0, <2>5, <3>2 DEF IInv, ReadsOwn
      <3> QED  BY <3>1, <3>2
    <2> QED  BY <1>2, <2>7, <2>8, <2>9, <2>10 DEF IInv
  <1> QED  BY <1>3, <1>4, <1>i

-----------------------------------------------------------------------------
LEMMA NextIInv == IInv /\ [Next]_vars => IInv'
  <1> SUFFICES ASSUME IInv, [Next]_vars PROVE IInv'
    OBVIOUS
  <1>1. ASSUME NEW p \in Procs, Calls(p) PROVE IInv'
    BY <1>1, OpenStep, OpenLockedStep, ReleaseStep, RereadStep DEF Calls
  <1>2. ASSUME NEW p \in Procs, Transfers(p) PROVE IInv'
    BY <1>2, BeginStep, TransferStep, EndStep DEF Transfers
  <1>3. CASE Expire
    BY <1>3, ExpireStep
  <1>4. CASE tssd_invalidate
    BY <1>4, InvalidateStep
  <1>5. CASE setup_device
    BY <1>5, SetupStep
  <1>6. CASE tssd_exit
    BY <1>6, ExitStep
  <1>7. CASE UNCHANGED vars
    BY <1>7, StutterStep
  <1> QED  BY <1>1, <1>2, <1>3, <1>4, <1>5, <1>6, <1>7 DEF Next

\* The inductive invariant holds in every state the driver reaches.
THEOREM DriverInvariant == Spec => []IInv
  BY InitIInv, NextIInv, PTL DEF Spec

\* The variables keep their types, and the lock is held by who transfers a bio.
THEOREM DriverTypes == Spec => []TypeOK
  <1>1. IInv => TypeOK
    BY DEF IInv
  <1> QED  BY DriverInvariant, <1>1, PTL

\* No media change is flagged while somebody uses the device, even where opens
\* and releases overlap: the revalidation without a lock is harmless.
THEOREM NoMediaChangeInUse == Spec => []MediaStaysWhileUsed
  <1>1. IInv => MediaStaysWhileUsed
    BY DEF IInv
  <1> QED  BY DriverInvariant, <1>1, PTL

\* A bio reads, for its session, the device as it was when the bio began.
THEOREM BioReadsOneMoment == Spec => []ReadsOneMoment
  <1>1. IInv => ReadsOneMoment
    BY DEF IInv
  <1> QED  BY DriverInvariant, <1>1, PTL

\* No session reads what another one wrote.
THEOREM SessionsReadTheirOwn == Spec => []ReadsOwn
  <1>1. IInv => ReadsOwn
    BY DEF IInv
  <1> QED  BY DriverInvariant, <1>1, PTL

\* Where the kernel calls open and release one at a time, the timer is never added
\* twice and never armed while the device is used; and it never outlives the device.
THEOREM TimerIsSafe == Spec => [](TimerOnlyWhenUnused /\ TimerNeedsDevice)
  <1>1. IInv => TimerOnlyWhenUnused /\ TimerNeedsDevice
    BY DEF IInv
  <1> QED  BY DriverInvariant, <1>1, PTL
===============================================================================

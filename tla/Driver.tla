-------------------------------- MODULE Driver --------------------------------
(***************************************************************************)
(* The tssd block driver (src/driver/tssd.c): a RAM disk whose sectors     *)
(* belong to the session that wrote them, and which forgets its data when  *)
(* nobody has used it for INVALIDATE_DELAY: a timer then flags a media     *)
(* change, and the next open wipes the data.                               *)
(*                                                                         *)
(* Processes open and close the device and send bios, and have the kernel  *)
(* revalidate it (BLKRRPART).  The driver leaves open whether the kernel   *)
(* calls open and release one at a time (bd_mutex): "serial" says so, and  *)
(* both cases are modelled.  The critical sections of open, release and    *)
(* the timer are steps; that of a bio has a step for every segment.        *)
(***************************************************************************)
EXTENDS Naturals, FiniteSets

CONSTANTS
    Procs,        \* processes
    nsectors,     \* sectors of the device
    Values,       \* what a bio writes
    Keys,         \* session keys of bios
    MaxSectors,   \* sectors of a bio
    Free,         \* nobody holds the lock
    NoValue       \* what memory holds that was wiped

ASSUME DriverAssumption ==
    /\ IsFiniteSet(Procs) /\ nsectors \in Nat \ {0}
    /\ Keys \subseteq Nat /\ Keys # {} /\ MaxSectors \in Nat \ {0}
    /\ Free \notin Procs /\ NoValue \notin Values /\ Values # {}

Sectors == 0 .. nsectors - 1
Uids    == {0, 1}

\* Memory that was never written or has been wiped; else who wrote it, and what.
Zero == [by |-> 2, value |-> NoValue]
Data == {Zero} \cup [by : Uids, value : Values]

Bios == [write : BOOLEAN, key : Keys, value : Values, start : Sectors, count : 1 .. MaxSectors]

VARIABLES
    serial,             \* the kernel calls open and release one at a time
    loaded,             \* setup_device is done, tssd_exit is not
    data, sector_uids,
    users, media_change, lock,
    pending, running,   \* the timer is armed; its handler is under way
    pc,                 \* of a process: "closed", "opening", "open" or "bio"
    bio, done, buffer,  \* its bio, the sectors transferred, what was read
    first,              \* history: what the device held when the bio began
    used,               \* history: somebody has had the device open
    twice               \* history: add_timer of an armed timer

timer  == <<pending, running>>
store  == <<data, sector_uids>>
bios   == <<bio, done, buffer, first>>
vars   == <<serial, loaded, store, users, media_change, lock, timer, pc, bios, used, twice>>

\* sessions[session_key & 1], with sessions[i] = i.
SessionUid(key) == key % 2

Wiped == [s \in Sectors |-> Zero]

(***************************************************************************)
(* Open and close.                                                         *)
(***************************************************************************)
MayCall == loaded /\ (serial => \A q \in Procs : pc[q] # "opening")

\* Bug: the timer stays.
BugLeavesTimer == UNCHANGED timer

\* It waits for the handler to end.
del_timer_sync == ~running /\ pending' = FALSE /\ UNCHANGED running

tssd_open(p) ==
    /\ pc[p] = "closed" /\ MayCall
    /\ del_timer_sync
    /\ pc' = [pc EXCEPT ![p] = "opening"]
    /\ UNCHANGED <<serial, loaded, store, users, media_change, lock, bios, used, twice>>

\* Bug: the wipe is left to others.
BugChecksNothing == UNCHANGED <<media_change, data>>

tssd_revalidate ==
    /\ media_change' = FALSE
    /\ data' = IF media_change THEN Wiped ELSE data

\* check_disk_change revalidates when media_changed says so.
check_disk_change == tssd_revalidate

OpenLocked(p) ==
    /\ pc[p] = "opening" /\ lock = Free
    /\ IF users = 0 THEN check_disk_change ELSE UNCHANGED <<media_change, data>>
    /\ users' = users + 1
    /\ used' = TRUE
    /\ pc' = [pc EXCEPT ![p] = "open"]
    /\ UNCHANGED <<serial, loaded, sector_uids, lock, timer, bios, twice>>

\* Bug: the timer is started unless the last user leaves.
BugArmsInUse(left) == left > 0

Unused(left) == left = 0

tssd_release(p) ==
    /\ pc[p] = "open" /\ MayCall /\ lock = Free
    /\ users' = users - 1
    /\ pending' = (pending \/ Unused(users'))
    /\ twice' = (twice \/ (pending /\ Unused(users')))
    /\ pc' = [pc EXCEPT ![p] = "closed"]
    /\ UNCHANGED <<serial, loaded, store, media_change, lock, running, bios, used>>

\* The kernel revalidates at the request of a user; the lock is not taken.
RereadPartitions(p) ==
    /\ pc[p] = "open" /\ MayCall
    /\ tssd_revalidate
    /\ UNCHANGED <<serial, loaded, sector_uids, users, lock, timer, pc, bios, used, twice>>

(***************************************************************************)
(* The timer.                                                              *)
(***************************************************************************)
Expire ==
    /\ pending /\ ~running
    /\ pending' = FALSE /\ running' = TRUE
    /\ UNCHANGED <<serial, loaded, store, users, media_change, lock, pc, bios, used, twice>>

\* Bug: the sanity check is left out.
BugTrustsTimer == TRUE

SanityCheck == users = 0

tssd_invalidate ==
    /\ running /\ lock = Free
    /\ running' = FALSE
    /\ media_change' = (media_change \/ SanityCheck)
    /\ UNCHANGED <<serial, loaded, store, users, lock, pending, pc, bios, used, twice>>

(***************************************************************************)
(* Bios.                                                                   *)
(***************************************************************************)
NoBio == [write |-> FALSE, key |-> CHOOSE k \in Keys : TRUE, value |-> CHOOSE v \in Values : TRUE,
          start |-> 0, count |-> 1]

FirstZero == [data |-> Wiped, uids |-> [s \in Sectors |-> 0]]

Sector(p) == bio[p].start + done[p]

\* The sectors of the bio, those past the end of the device left out.
SectorsOf(p) == {s \in Sectors : bio[p].start <= s /\ s < bio[p].start + bio[p].count}

Uid(p) == SessionUid(bio[p].key)

\* What a session gets of sector s, when it reads the sectors ss at a time.
MayRead(ss, s, uid) ==
    IF \A t \in ss : sector_uids[t] = uid THEN data[s] ELSE Zero

BeginBio(p, b) ==
    /\ pc[p] = "open" /\ lock = Free
    /\ lock' = p
    /\ pc' = [pc EXCEPT ![p] = "bio"]
    /\ bio' = [bio EXCEPT ![p] = b]
    /\ done' = [done EXCEPT ![p] = 0]
    /\ buffer' = [buffer EXCEPT ![p] = Wiped]
    /\ first' = [first EXCEPT ![p] = [data |-> data, uids |-> sector_uids]]
    /\ UNCHANGED <<serial, loaded, store, users, media_change, timer, used, twice>>

\* Bug: the data are written and the sectors keep their owner.
BugKeepsOwner(ss, uid) == sector_uids

Owned(ss, uid) == [s \in Sectors |-> IF s \in ss THEN uid ELSE sector_uids[s]]

WriteSegment(p, ss) ==
    /\ bio[p].write
    /\ sector_uids' = Owned(ss, Uid(p))
    /\ data' = [s \in Sectors |-> IF s \in ss THEN [by |-> Uid(p), value |-> bio[p].value]
                                  ELSE data[s]]
    /\ UNCHANGED buffer

ReadSegment(p, ss) ==
    /\ ~bio[p].write
    /\ buffer' = [buffer EXCEPT ![p] = [s \in Sectors |->
                      IF s \in ss THEN MayRead(ss, s, Uid(p)) ELSE @[s]]]
    /\ UNCHANGED store

\* Bug: the lock is given up after each segment.
BugUnlocks == lock' = Free

KeepLock == UNCHANGED lock

\* The next segment of the bio, of n sectors.
tssd_transfer(p, n) ==
    /\ pc[p] = "bio"
    /\ done[p] + n <= bio[p].count /\ Sector(p) + n <= nsectors
    /\ LET ss == Sector(p) .. Sector(p) + n - 1 IN WriteSegment(p, ss) \/ ReadSegment(p, ss)
    /\ done' = [done EXCEPT ![p] = @ + n]
    /\ KeepLock
    /\ UNCHANGED <<serial, loaded, users, media_change, timer, pc, bio, first, used, twice>>

\* All segments are done, or the next one goes past the end of the device.
EndBio(p) ==
    /\ pc[p] = "bio"
    /\ done[p] = bio[p].count \/ bio[p].start + bio[p].count > nsectors
    /\ lock' = Free
    /\ pc' = [pc EXCEPT ![p] = "open"]
    /\ bio' = [bio EXCEPT ![p] = NoBio]
    /\ done' = [done EXCEPT ![p] = 0]
    /\ buffer' = [buffer EXCEPT ![p] = Wiped]
    /\ first' = [first EXCEPT ![p] = FirstZero]
    /\ UNCHANGED <<serial, loaded, store, users, media_change, timer, used, twice>>

(***************************************************************************)
(* The module is loaded and unloaded.                                      *)
(***************************************************************************)
setup_device ==
    /\ ~loaded
    /\ loaded' = TRUE
    /\ data' = Wiped /\ sector_uids' = [s \in Sectors |-> 0]
    /\ media_change' = FALSE /\ used' = FALSE
    /\ UNCHANGED <<serial, users, lock, timer, pc, bios, twice>>

tssd_exit ==
    /\ loaded /\ \A p \in Procs : pc[p] = "closed"
    /\ del_timer_sync
    /\ loaded' = FALSE
    /\ UNCHANGED <<serial, store, users, media_change, lock, pc, bios, used, twice>>

Init ==
    /\ serial \in BOOLEAN /\ loaded = FALSE
    /\ data = Wiped /\ sector_uids = [s \in Sectors |-> 0]
    /\ users = 0 /\ media_change = FALSE /\ lock = Free
    /\ pending = FALSE /\ running = FALSE
    /\ pc = [p \in Procs |-> "closed"]
    /\ bio = [p \in Procs |-> NoBio] /\ done = [p \in Procs |-> 0]
    /\ buffer = [p \in Procs |-> Wiped] /\ first = [p \in Procs |-> FirstZero]
    /\ used = FALSE /\ twice = FALSE

Calls(p) == tssd_open(p) \/ OpenLocked(p) \/ tssd_release(p) \/ RereadPartitions(p)

Transfers(p) ==
    \/ \E b \in Bios : BeginBio(p, b)
    \/ \E n \in 1 .. MaxSectors : tssd_transfer(p, n)
    \/ EndBio(p)

Next ==
    \/ \E p \in Procs : Calls(p) \/ Transfers(p)
    \/ Expire \/ tssd_invalidate \/ setup_device \/ tssd_exit

Spec == Init /\ [][Next]_vars

\* Time passes, the handler runs when the lock is free, and an open that has begun
\* ends.  Nobody has to open or close, or to send bios.
FairSpec ==
    /\ Spec
    /\ WF_vars(Expire) /\ WF_vars(tssd_invalidate)
    /\ \A p \in Procs : WF_vars(OpenLocked(p))

(***************************************************************************)
(* Properties.                                                             *)
(***************************************************************************)

\* The variables have their types; the lock is held by who transfers a bio.
TypeOK ==
    /\ serial \in BOOLEAN /\ loaded \in BOOLEAN
    /\ data \in [Sectors -> Data] /\ sector_uids \in [Sectors -> Uids]
    /\ users \in Nat /\ media_change \in BOOLEAN /\ lock \in Procs \cup {Free}
    /\ pending \in BOOLEAN /\ running \in BOOLEAN
    /\ pc \in [Procs -> {"closed", "opening", "open", "bio"}]
    /\ bio \in [Procs -> Bios] /\ done \in [Procs -> 0 .. MaxSectors]
    /\ buffer \in [Procs -> [Sectors -> Data]]
    /\ first \in [Procs -> [data : [Sectors -> Data], uids : [Sectors -> Uids]]]
    /\ used \in BOOLEAN /\ twice \in BOOLEAN
    /\ \A p \in Procs : pc[p] = "bio" <=> lock = p

\* No media change is flagged while somebody uses the device, however opens,
\* releases and the timer interleave; so revalidation, which does not take the
\* lock "for fear of deadlocking with open", wipes nothing under a user.
MediaStaysWhileUsed == users > 0 => ~media_change

\* A bio reads the device as it was when the bio began, though others write and
\* revalidate without the lock meanwhile: of each sector zeros or what the session
\* had there, and the latter if all sectors of the bio were the session's.
ReadsOneMoment ==
    \A p \in Procs : pc[p] = "bio" /\ ~bio[p].write =>
        \A s \in Sectors : bio[p].start <= s /\ s < Sector(p) =>
            \/ buffer[p][s] = first[p].data[s] /\ first[p].uids[s] = Uid(p)
            \/ buffer[p][s] = Zero /\ \E t \in SectorsOf(p) : first[p].uids[t] # Uid(p)

\* No session reads what another one wrote, also of sectors that changed hands
\* or were wiped in between.
ReadsOwn ==
    \A p \in Procs : pc[p] = "bio" => \A s \in Sectors :
        buffer[p][s] = Zero \/ buffer[p][s].by = Uid(p)

\* When the kernel calls open and release one at a time the timer only exists for
\* a device nobody uses or is about to use: so it is never added twice (a BUG in
\* add_timer), and its handler, which takes the lock in interrupt context, never
\* interrupts a bio that holds it.
TimerOnlyWhenUnused ==
    serial => ~twice /\ (pending \/ running => users = 0 /\ \A p \in Procs : pc[p] = "closed")

\* The timer never outlives the device it would write to.
TimerNeedsDevice == pending \/ running => loaded

\* A device that was used and has been left is flagged, unless it is opened again
\* or the module unloaded: no order of opens and releases loses the timer.
UnusedIsForgotten == used /\ users = 0 ~> media_change \/ users > 0 \/ ~loaded
===============================================================================

-------------------------- MODULE FtlThreads_proofs ---------------------------
(***************************************************************************)
(* The threads of the firmware, for any number of threads, pages, banks    *)
(* and users, any commands and any size of a page. First what every        *)
(* handler keeps of its own record and of its locks and fixed mapping      *)
(* pages (IInv, by itself enough for MappingStays and LocksGivenBack);     *)
(* then the list of the scheduler, in the order of the commands            *)
(* (SchedInv); then the types; and on these the page locks: a thread that  *)
(* is kept out of a page is behind the one that keeps it out (LockInv), so *)
(* that locks are given in the order of the commands (LocksInOrder). Last, *)
(* where the virtual page of a sub-page is (PageInv). FtlData_proofs goes  *)
(* on from here.                                                           *)
(***************************************************************************)
EXTENDS FtlThreads, FiniteSetTheorems, SequenceTheorems, TLAPS

Fields == DOMAIN FreeThread

Shape ==
    /\ DOMAIN th = Threads /\ \A t \in Threads : DOMAIN th[t] = Fields
    /\ DOMAIN held = Lpns /\ \A p \in Lpns : DOMAIN held[p] = Threads

Holds(t, p) == held[p][t] # 0

\* What a thread has fixed is in the cache.
FixedIsLoaded == Fixed \subseteq loaded

\* The state of a handler, phase by phase: what it has fixed, which flash reads
\* are under way, and which locks it may hold.
NotBegun(t) ==
    /\ th[t].fixed = {}
    /\ \A p \in Lpns : ~Holds(t, p)

ReadState(t) ==
    /\ th[t].fixed = {}
    /\ \A p \in Lpns : Holds(t, p) =>
          p = th[t].lpn /\ th[t].phase \in {"LOCK", "PMT_LOAD"}

WriteState(t) ==
    /\ \A p \in Lpns : Holds(t, p) =>
          /\ p \in PagesOf(th[t]) /\ th[t].phase # "SATA"
          /\ th[t].phase = "FLASH_WRITE" => th[t].issued = {}
    /\ th[t].phase \in {"FLASH_READ", "BANK", "PMT_UPDATE"} =>
          \A sp \in SubPages : th[t].pages[sp] # NoPage => sp \in th[t].fixed
    /\ th[t].phase = "FLASH_READ" => th[t].issued \subseteq th[t].need
    /\ th[t].phase \in {"BANK", "PMT_UPDATE"} => th[t].issued = {}

HandlerOK(t) ==
    /\ th[t].kind \in {"free", "read", "write"}
    /\ th[t].kind = "free" \/ th[t].phase = "BUFFER" => NotBegun(t)
    /\ th[t].kind = "read" => ReadState(t)
    /\ th[t].kind = "write" => WriteState(t)

IInv == Shape /\ FixedIsLoaded /\ \A t \in Threads : HandlerOK(t)

-----------------------------------------------------------------------------
(***************************************************************************)
(* A step of thread t changes the variables of t and the locks of t.       *)
(***************************************************************************)
LEMMA FieldsAre ==
  Fields = {"kind", "phase", "awake", "wake", "lpn", "uid", "seq", "sectors", "left", "want",
            "buf", "pages", "vps", "fixed", "need", "issued"}
  BY DEF Fields, FreeThread

LocalTo(t) ==
    /\ Shape'
    /\ \A x \in Threads \ {t} : th'[x] = th[x] /\ \A p \in Lpns : held'[p][x] = held[p][x]
    /\ loaded \subseteq loaded'

LEMMA LocalStep ==
  ASSUME IInv, NEW t \in Threads, LocalTo(t), HandlerOK(t)',
         \A sp \in th'[t].fixed : th'[t].pages[sp] \in Lpns => th'[t].pages[sp] \in loaded'
  PROVE  IInv'
<1>1. ASSUME NEW x \in Threads \ {t} PROVE HandlerOK(x)'
  <2>1. /\ th'[x] = th[x] /\ HandlerOK(x)
        /\ \A p \in Lpns : held'[p][x] = held[p][x]
    BY DEF LocalTo, IInv
  <2>2. (\A p \in Lpns : Holds(x, p)' = Holds(x, p)) /\ PagesOf(th[x])' = PagesOf(th[x])
    BY <2>1 DEF Holds, PagesOf
  <2>3. NotBegun(x) => NotBegun(x)'
    BY <2>1, <2>2 DEF NotBegun
  <2>4. ReadState(x) => ReadState(x)'
    BY <2>1, <2>2 DEF ReadState
  <2>5. WriteState(x) => WriteState(x)'
    BY <2>1, <2>2 DEF WriteState
  <2>6. QED BY <2>1, <2>3, <2>4, <2>5 DEF HandlerOK
<1>2. FixedIsLoaded'
  <2> SUFFICES ASSUME NEW p \in Lpns, NEW x \in Threads, NEW sp \in th'[x].fixed,
                      th'[x].pages[sp] = p
               PROVE  p \in loaded'
    BY DEF FixedIsLoaded, Fixed
  <2>1. CASE x = t
    BY <2>1
  <2>2. CASE x # t
    <3>1. p \in Fixed
      BY <2>2 DEF LocalTo, Fixed
    <3>2. QED BY <3>1 DEF IInv, FixedIsLoaded, LocalTo
  <2>3. QED BY <2>1, <2>2
<1>3. QED BY <1>1, <1>2 DEF IInv, LocalTo

(***************************************************************************)
(* Going on, sleeping and ending.                                          *)
(***************************************************************************)
LEMMA GoOnEffect ==
  ASSUME Shape, NEW t \in Threads, NEW r, DOMAIN r = Fields, NEW phase, GoOn(t, r, phase)
  PROVE  /\ DOMAIN th' = Threads /\ \A x \in Threads : DOMAIN th'[x] = Fields
         /\ \A x \in Threads \ {t} : th'[x] = th[x]
         /\ th'[t].kind = r.kind /\ th'[t].lpn = r.lpn /\ th'[t].pages = r.pages
         /\ th'[t].fixed = r.fixed /\ th'[t].issued = r.issued /\ th'[t].need = r.need
         /\ th'[t].phase = phase
<1>1. th' = [th EXCEPT ![t] = [r EXCEPT !.awake = TRUE, !.wake = {}, !.phase = phase]]
  BY DEF GoOn
<1>2. th'[t] = [r EXCEPT !.awake = TRUE, !.wake = {}, !.phase = phase]
  BY <1>1 DEF Shape
<1>3. QED BY <1>1, <1>2, FieldsAre DEF Shape

LEMMA SleepEffect ==
  ASSUME Shape, NEW t \in Threads, NEW r, DOMAIN r = Fields, NEW signals, Sleep(t, r, signals)
  PROVE  /\ DOMAIN th' = Threads /\ \A x \in Threads : DOMAIN th'[x] = Fields
         /\ \A x \in Threads \ {t} : th'[x] = th[x]
         /\ th'[t].kind = r.kind /\ th'[t].lpn = r.lpn /\ th'[t].pages = r.pages
         /\ th'[t].fixed = r.fixed /\ th'[t].issued = r.issued /\ th'[t].need = r.need
         /\ th'[t].phase = r.phase
<1>1. th' = [th EXCEPT ![t] = [r EXCEPT !.awake = FALSE, !.wake = signals]]
  BY DEF Sleep
<1>2. th'[t] = [r EXCEPT !.awake = FALSE, !.wake = signals]
  BY <1>1 DEF Shape
<1>3. QED BY <1>1, <1>2, FieldsAre DEF Shape

(***************************************************************************)
(* The locks of t, after t has asked for some or has given some back.      *)
(***************************************************************************)
LEMMA LockedEffect ==
  ASSUME Shape, NEW t \in Threads, NEW ps, NEW type, held' = Locked(t, ps, type)
  PROVE  /\ DOMAIN held' = Lpns /\ \A p \in Lpns : DOMAIN held'[p] = Threads
         /\ \A p \in Lpns, x \in Threads \ {t} : held'[p][x] = held[p][x]
         /\ \A p \in Lpns \ ps : held'[p] = held[p]
  BY DEF Locked, Shape

LEMMA UnlockEffect ==
  ASSUME Shape, NEW t \in Threads, NEW ps, Unlock(t, ps)
  PROVE  /\ DOMAIN held' = Lpns /\ \A p \in Lpns : DOMAIN held'[p] = Threads
         /\ \A p \in Lpns, x \in Threads \ {t} : held'[p][x] = held[p][x]
         /\ \A p \in ps \cap Lpns : held'[p][t] = 0
         /\ \A p \in Lpns \ ps : held'[p] = held[p]
  BY DEF Unlock, Shape

-----------------------------------------------------------------------------
(***************************************************************************)
(* The phases of a read.                                                   *)
(***************************************************************************)
LEMMA ReadBufferStep == ASSUME IInv, NEW t \in Threads, ReadBuffer(t) PROVE IInv'
<1>1. th[t].kind = "read" /\ th[t].phase = "BUFFER" /\ NotBegun(t) /\ Shape
  BY DEF ReadBuffer, Runs, IInv, HandlerOK
<1> DEFINE found == {s \in th[t].sectors : Buffer!Pulled(th[t].lpn, s, th[t].uid) # Absent}
           r == [th[t] EXCEPT
                   !.left = th[t].sectors \ found,
                   !.buf = [s \in Sectors |-> IF s \in found
                                              THEN Buffer!Pulled(th[t].lpn, s, th[t].uid) ELSE 0]]
           phase == IF found = th[t].sectors THEN "SATA" ELSE "LOCK"
<1>2. GoOn(t, r, phase) /\ UNCHANGED <<held, loaded>>
  BY DEF ReadBuffer, pmt
<1>a. DOMAIN r = Fields /\ r.kind = "read" /\ r.fixed = {}
  BY <1>1, FieldsAre DEF Shape, NotBegun
<1> HIDE DEF r, phase
<1>3. LocalTo(t)
  BY <1>1, <1>2, <1>a, GoOnEffect DEF LocalTo, Shape
<1>5. th'[t].fixed = {} /\ th'[t].kind = "read"
  BY <1>1, <1>2, <1>a, GoOnEffect
<1>4. HandlerOK(t)'
  BY <1>1, <1>2, <1>5 DEF HandlerOK, ReadState, NotBegun, Holds
<1>6. QED BY <1>3, <1>4, <1>5, LocalStep

LEMMA ReadLockStep == ASSUME IInv, NEW t \in Threads, ReadLock(t) PROVE IInv'
<1>1. th[t].kind = "read" /\ th[t].phase = "LOCK" /\ ReadState(t) /\ Shape
  BY DEF ReadLock, Runs, IInv, HandlerOK
<1>2. held' = Locked(t, {th[t].lpn}, LockTable!PAGE_LOCK_READ)
  BY DEF ReadLock
<1>3. GoOn(t, th[t], "PMT_LOAD") \/ Sleep(t, th[t], {"lock"})
  BY DEF ReadLock
<1>4. DOMAIN th[t] = Fields
  BY <1>1 DEF Shape
<1>a. /\ DOMAIN th' = Threads /\ \A x \in Threads : DOMAIN th'[x] = Fields
      /\ \A x \in Threads \ {t} : th'[x] = th[x]
  BY <1>1, <1>3, <1>4, GoOnEffect, SleepEffect
<1>b. /\ DOMAIN held' = Lpns /\ \A p \in Lpns : DOMAIN held'[p] = Threads
      /\ \A p \in Lpns, x \in Threads \ {t} : held'[p][x] = held[p][x]
      /\ \A p \in Lpns \ {th[t].lpn} : held'[p] = held[p]
  BY <1>1, <1>2, LockedEffect
<1>5. LocalTo(t)
  BY <1>a, <1>b DEF LocalTo, ReadLock, Shape, pmt
<1>6. /\ th'[t].kind = "read" /\ th'[t].lpn = th[t].lpn /\ th'[t].fixed = {}
      /\ th'[t].phase \in {"LOCK", "PMT_LOAD"}
  BY <1>1, <1>3, <1>4, GoOnEffect, SleepEffect DEF ReadState
<1>7. \A p \in Lpns : Holds(t, p)' => p = th[t].lpn
  BY <1>1, <1>b DEF Holds, ReadState
<1>8. HandlerOK(t)'
  BY <1>6, <1>7 DEF HandlerOK, ReadState
<1>9. QED BY <1>5, <1>6, <1>8, LocalStep

LEMMA LoadForReadStep == ASSUME IInv, NEW t \in Threads, LoadForRead(t) PROVE IInv'
<1>1. th[t].kind = "read" /\ th[t].phase = "PMT_LOAD" /\ ReadState(t) /\ Shape
  BY DEF LoadForRead, Runs, IInv, HandlerOK
<1>2. Sleep(t, th[t], {"pmt"}) /\ DOMAIN th[t] = Fields
  BY <1>1 DEF LoadForRead, Shape
<1>3. LocalTo(t)
  BY <1>1, <1>2, SleepEffect DEF LocalTo, LoadForRead, Shape
<1>4. HandlerOK(t)' /\ th'[t].fixed = {}
  BY <1>1, <1>2, SleepEffect DEF LoadForRead, HandlerOK, ReadState, Holds
<1>5. QED BY <1>3, <1>4, LocalStep

LEMMA MakeSegmentsStep == ASSUME IInv, NEW t \in Threads, MakeSegments(t) PROVE IInv'
<1>1. th[t].kind = "read" /\ ReadState(t) /\ Shape /\ Unlock(t, {th[t].lpn})
  BY DEF MakeSegments, Runs, IInv, HandlerOK
<1> DEFINE r == [th[t] EXCEPT !.vps = map[th[t].lpn], !.need = Segments(th[t], map[th[t].lpn])]
<1>2. GoOn(t, r, "FLASH_READ")
  BY DEF MakeSegments
<1>a. DOMAIN r = Fields /\ r.kind = "read" /\ r.fixed = {}
  BY <1>1, FieldsAre DEF Shape, ReadState
<1> HIDE DEF r
<1>3. LocalTo(t)
  BY <1>1, <1>2, <1>a, GoOnEffect, UnlockEffect DEF LocalTo, MakeSegments, pmt, Shape
<1>4. \A p \in Lpns : ~Holds(t, p)'
  BY <1>1, UnlockEffect DEF Holds, ReadState
<1>5. th'[t].fixed = {} /\ th'[t].kind = "read" /\ th'[t].phase = "FLASH_READ"
  BY <1>1, <1>2, <1>a, GoOnEffect
<1>6. HandlerOK(t)'
  BY <1>4, <1>5 DEF HandlerOK, ReadState
<1>7. QED BY <1>3, <1>5, <1>6, LocalStep

(***************************************************************************)
(* The loop of flash reads, of either handler, fixes nothing and leaves    *)
(* the locks alone.  When it ends, nothing is under way.                   *)
(***************************************************************************)
LEMMA ReadLoopEffect ==
  ASSUME IInv, NEW t \in Threads, NEW now, NEW buf, NEW phase, ReadLoop(t, now, buf, phase)
  PROVE  /\ DOMAIN th' = Threads /\ \A x \in Threads : DOMAIN th'[x] = Fields
         /\ \A x \in Threads \ {t} : th'[x] = th[x]
         /\ th'[t].kind = th[t].kind /\ th'[t].lpn = th[t].lpn /\ th'[t].pages = th[t].pages
         /\ th'[t].fixed = th[t].fixed
         /\ th[t].issued \subseteq th[t].need \ now =>
               /\ th'[t].issued \subseteq th'[t].need
               /\ th'[t].phase = th[t].phase \/ (th'[t].phase = phase /\ th'[t].issued = {})
         /\ th'[t].phase \in {th[t].phase, phase}
<1> DEFINE r == AfterReads(th[t], now, buf)
<1>1. DOMAIN th[t] = Fields /\ Shape
  BY DEF IInv, Shape
<1>2. /\ DOMAIN r = Fields /\ r.kind = th[t].kind /\ r.lpn = th[t].lpn
      /\ r.pages = th[t].pages /\ r.fixed = th[t].fixed /\ r.phase = th[t].phase
      /\ r.need = th[t].need \ (now \cup Ended(th[t]))
      /\ r.issued = (th[t].issued \ Ended(th[t])) \cup Issuable(th[t], now)
  BY <1>1, FieldsAre DEF AfterReads
<1>3. th[t].issued \subseteq th[t].need \ now => r.issued \subseteq r.need
  BY <1>2 DEF Issuable, Ended
<1> HIDE DEF r
<1>4. (r.need = {} /\ GoOn(t, r, phase)) \/ \E signals : Sleep(t, r, signals)
  BY DEF ReadLoop, r
<1>5. CASE r.need = {} /\ GoOn(t, r, phase)
  BY <1>1, <1>2, <1>3, <1>5, GoOnEffect
<1>6. CASE \E signals : Sleep(t, r, signals)
  BY <1>1, <1>2, <1>3, <1>6, SleepEffect
<1>7. QED BY <1>4, <1>5, <1>6

LEMMA ReadFlashStep == ASSUME IInv, NEW t \in Threads, ReadFlash(t) PROVE IInv'
<1>1. /\ th[t].kind = "read" /\ th[t].phase = "FLASH_READ" /\ ReadState(t) /\ Shape
      /\ UNCHANGED <<held, loaded>>
  BY DEF ReadFlash, Runs, IInv, HandlerOK, pmt
<1>2. PICK now, buf : ReadLoop(t, now, buf, "SATA")
  BY DEF ReadFlash
<1>3. LocalTo(t)
  BY <1>1, <1>2, ReadLoopEffect DEF LocalTo, Shape
<1>4. HandlerOK(t)' /\ th'[t].fixed = {}
  BY <1>1, <1>2, ReadLoopEffect DEF HandlerOK, ReadState, Holds
<1>5. QED BY <1>3, <1>4, LocalStep

LEMMA FinishStep == ASSUME IInv, NEW t \in Threads, Finish(t) PROVE IInv'
<1>1. th[t].phase = "SATA" /\ th[t].kind \in {"read", "write"} /\ HandlerOK(t) /\ Shape
  BY DEF Finish, Runs, IInv
<1>2. \A p \in Lpns : ~Holds(t, p)
  BY <1>1 DEF HandlerOK, ReadState, WriteState
<1>3. th' = [th EXCEPT ![t] = FreeThread] /\ UNCHANGED <<held, loaded>>
  BY DEF Finish, End, pmt
<1>4. th'[t] = FreeThread /\ LocalTo(t)
  BY <1>1, <1>3 DEF LocalTo, Shape, Fields
<1>5. th'[t].kind = "free" /\ th'[t].fixed = {} /\ th'[t].issued = {} /\ th'[t].phase = "BUFFER"
  BY <1>4 DEF FreeThread
<1>6. HandlerOK(t)'
  BY <1>2, <1>3, <1>5 DEF HandlerOK, NotBegun, Holds
<1>7. QED BY <1>4, <1>5, <1>6, LocalStep

-----------------------------------------------------------------------------
(***************************************************************************)
(* The phases of a write.  In BUFFER the thread has no page yet.           *)
(***************************************************************************)
LEMMA BufferedStep ==
  ASSUME IInv, NEW t \in Threads, Runs(t, "write", "BUFFER"), NEW r, DOMAIN r = Fields,
         r.kind = "write", r.fixed = {}, NEW phase \in {"LOCK", "SATA"}, GoOn(t, r, phase),
         UNCHANGED <<held, loaded>>
  PROVE  IInv'
<1>1. NotBegun(t) /\ Shape
  BY DEF Runs, IInv, HandlerOK
<1>2. LocalTo(t)
  BY <1>1, GoOnEffect DEF LocalTo, Shape
<1>3. th'[t].kind = "write" /\ th'[t].fixed = {} /\ th'[t].phase = phase
  BY <1>1, GoOnEffect
<1>4. HandlerOK(t)'
  BY <1>1, <1>3 DEF HandlerOK, WriteState, NotBegun, Holds
<1>5. QED BY <1>2, <1>3, <1>4, LocalStep

LEMMA ToBufferStep ==
  ASSUME IInv, NEW t \in Threads,
         WriteWholePage(t) \/ PushPartialPage(t) \/ FlushAndPush(t)
  PROVE  IInv'
<1>1. DOMAIN th[t] = Fields /\ Runs(t, "write", "BUFFER") /\ th[t].kind = "write" /\ th[t].fixed = {}
      /\ UNCHANGED <<held, loaded>>
  BY DEF IInv, Shape, WriteWholePage, PushPartialPage, FlushAndPush, Runs, HandlerOK, NotBegun, pmt
<1>2. CASE WriteWholePage(t)
  <2> DEFINE r == [th[t] EXCEPT !.buf = [s \in Sectors |-> th[t].seq],
                                !.pages = [sp \in SubPages |-> th[t].lpn]]
  <2>1. GoOn(t, r, "LOCK")
    BY <1>2 DEF WriteWholePage
  <2>2. DOMAIN r = Fields /\ r.kind = "write" /\ r.fixed = {}
    BY <1>1, FieldsAre
  <2> HIDE DEF r
  <2>3. QED BY <1>1, <2>1, <2>2, BufferedStep
<1>3. CASE PushPartialPage(t)
  <2>1. GoOn(t, th[t], "SATA")
    BY <1>3 DEF PushPartialPage
  <2>2. QED BY <1>1, <2>1, BufferedStep
<1>4. CASE FlushAndPush(t)
  <2> DEFINE r(pages, owner) ==
               [th[t] EXCEPT !.pages = pages, !.uid = FlushedUser(@, owner),
                             !.left = Buffer!BufferSectors(pages),
                             !.buf = [s \in Sectors |->
                                        IF s \in Buffer!BufferSectors(pages)
                                        THEN wb[pages[s[1]]][s].val ELSE 0]]
  <2>1. PICK pages \in [SubPages -> Lpns \cup {NoPage}], owner \in Users :
          GoOn(t, r(pages, owner), "LOCK")
    BY <1>4 DEF FlushAndPush
  <2>2. /\ DOMAIN r(pages, owner) = Fields
        /\ r(pages, owner).kind = "write" /\ r(pages, owner).fixed = {}
    BY <1>1, FieldsAre
  <2> HIDE DEF r
  <2>3. QED BY <1>1, <2>1, <2>2, BufferedStep
<1>5. QED BY <1>2, <1>3, <1>4

LEMMA WriteLockStep == ASSUME IInv, NEW t \in Threads, WriteLock(t) PROVE IInv'
<1>1. th[t].kind = "write" /\ th[t].phase = "LOCK" /\ WriteState(t) /\ Shape
  BY DEF WriteLock, Runs, IInv, HandlerOK
<1>2. held' = Locked(t, PagesOf(th[t]), LockTable!PAGE_LOCK_WRITE) /\ loaded' = loaded
  BY DEF WriteLock, pmt
<1>3. GoOn(t, th[t], "PMT_LOAD") \/ Sleep(t, th[t], {"lock"})
  BY DEF WriteLock
<1>4. DOMAIN th[t] = Fields
  BY <1>1 DEF Shape
<1>5. /\ DOMAIN th' = Threads /\ \A x \in Threads : DOMAIN th'[x] = Fields
      /\ \A x \in Threads \ {t} : th'[x] = th[x]
      /\ th'[t].kind = "write" /\ th'[t].pages = th[t].pages /\ th'[t].fixed = th[t].fixed
      /\ th'[t].phase \in {"LOCK", "PMT_LOAD"}
  BY <1>1, <1>3, <1>4, GoOnEffect, SleepEffect
<1>6. /\ DOMAIN held' = Lpns /\ \A p \in Lpns : DOMAIN held'[p] = Threads
      /\ \A p \in Lpns, x \in Threads \ {t} : held'[p][x] = held[p][x]
      /\ \A p \in Lpns \ PagesOf(th[t]) : held'[p] = held[p]
  BY <1>1, <1>2, LockedEffect
<1>7. LocalTo(t)
  BY <1>2, <1>5, <1>6 DEF LocalTo, Shape
<1>8. PagesOf(th[t])' = PagesOf(th[t])
  BY <1>5 DEF PagesOf
<1>9. HandlerOK(t)'
  BY <1>1, <1>5, <1>6, <1>8 DEF HandlerOK, WriteState, Holds
<1>10. \A sp \in th'[t].fixed : th'[t].pages[sp] \in Lpns => th'[t].pages[sp] \in loaded'
  BY <1>2, <1>5 DEF IInv, FixedIsLoaded, Fixed
<1>11. QED BY <1>7, <1>9, <1>10, LocalStep

LEMMA WritePmtLoadStep == ASSUME IInv, NEW t \in Threads, WritePmtLoad(t) PROVE IInv'
<1>1. /\ th[t].kind = "write" /\ th[t].phase = "PMT_LOAD" /\ WriteState(t) /\ Shape
      /\ UNCHANGED <<held, loaded>>
  BY DEF WritePmtLoad, Runs, IInv, HandlerOK, pmt
<1> DEFINE todo == {sp \in SubPages : th[t].pages[sp] # NoPage} \ th[t].fixed
           now  == {sp \in todo : th[t].pages[sp] \in loaded}
           r1   == [th[t] EXCEPT !.fixed = @ \cup now,
                                 !.vps = [sp \in SubPages |->
                                            IF sp \in now THEN map[th[t].pages[sp]][sp] ELSE @[sp]]]
           r2   == [r1 EXCEPT !.need = Incomplete(th[t]), !.issued = {}]
<1>2. (todo = now /\ GoOn(t, r2, "FLASH_READ")) \/ Sleep(t, r1, {"pmt"})
  BY DEF WritePmtLoad
<1>3. /\ DOMAIN r1 = Fields /\ r1.kind = "write" /\ r1.pages = th[t].pages
      /\ r1.phase = "PMT_LOAD" /\ r1.fixed = th[t].fixed \cup now
  BY <1>1, FieldsAre DEF Shape
<1>4. /\ DOMAIN r2 = Fields /\ r2.kind = "write" /\ r2.pages = th[t].pages
      /\ r2.fixed = th[t].fixed \cup now /\ r2.issued = {}
  BY <1>3, FieldsAre
<1> HIDE DEF r1, r2
<1>5. /\ DOMAIN th' = Threads /\ \A x \in Threads : DOMAIN th'[x] = Fields
      /\ \A x \in Threads \ {t} : th'[x] = th[x]
      /\ th'[t].kind = "write" /\ th'[t].pages = th[t].pages
      /\ th'[t].fixed = th[t].fixed \cup now
      /\ \/ th'[t].phase = "PMT_LOAD"
         \/ th'[t].phase = "FLASH_READ" /\ todo = now /\ th'[t].issued = {}
  BY <1>1, <1>2, <1>3, <1>4, GoOnEffect, SleepEffect
<1>6. LocalTo(t)
  BY <1>1, <1>5 DEF LocalTo, Shape
<1>7. PagesOf(th[t])' = PagesOf(th[t])
  BY <1>5 DEF PagesOf
<1>8. HandlerOK(t)'
  BY <1>1, <1>5, <1>7 DEF HandlerOK, WriteState, Holds
<1>9. \A sp \in th'[t].fixed : th'[t].pages[sp] \in Lpns => th'[t].pages[sp] \in loaded'
  BY <1>1, <1>5 DEF IInv, FixedIsLoaded, Fixed
<1>10. QED BY <1>6, <1>8, <1>9, LocalStep

LEMMA CompleteSubPagesStep == ASSUME IInv, NEW t \in Threads, CompleteSubPages(t) PROVE IInv'
<1>1. /\ th[t].kind = "write" /\ th[t].phase = "FLASH_READ" /\ WriteState(t) /\ Shape
      /\ UNCHANGED <<held, loaded>>
  BY DEF CompleteSubPages, Runs, IInv, HandlerOK, pmt
<1> DEFINE now == {sp \in th[t].need \ th[t].issued : th[t].vps[sp] = 0}
<1>2. PICK buf : ReadLoop(t, now, buf, "BANK")
  BY DEF CompleteSubPages
<1>3. th[t].issued \subseteq th[t].need \ now
  BY <1>1 DEF WriteState
<1> HIDE DEF now
<1>4. /\ DOMAIN th' = Threads /\ \A x \in Threads : DOMAIN th'[x] = Fields
      /\ \A x \in Threads \ {t} : th'[x] = th[x]
      /\ th'[t].kind = "write" /\ th'[t].pages = th[t].pages /\ th'[t].fixed = th[t].fixed
      /\ th'[t].issued \subseteq th'[t].need
      /\ th'[t].phase = "FLASH_READ" \/ (th'[t].phase = "BANK" /\ th'[t].issued = {})
  BY <1>1, <1>2, <1>3, ReadLoopEffect
<1>5. LocalTo(t)
  BY <1>1, <1>4 DEF LocalTo, Shape
<1>6. PagesOf(th[t])' = PagesOf(th[t])
  BY <1>4 DEF PagesOf
<1>7. HandlerOK(t)'
  BY <1>1, <1>4, <1>6 DEF HandlerOK, WriteState, Holds
<1>8. \A sp \in th'[t].fixed : th'[t].pages[sp] \in Lpns => th'[t].pages[sp] \in loaded'
  BY <1>1, <1>4 DEF IInv, FixedIsLoaded, Fixed
<1>9. QED BY <1>5, <1>7, <1>8, LocalStep

LEMMA BankStep ==
  ASSUME IInv, NEW t \in Threads, AllocatePage(t) \/ WaitForBank(t)
  PROVE  IInv'
<1>1. /\ th[t].kind = "write" /\ th[t].phase = "BANK" /\ WriteState(t) /\ Shape
      /\ UNCHANGED <<held, loaded>>
  BY DEF AllocatePage, WaitForBank, Runs, IInv, HandlerOK, pmt
<1>2. GoOn(t, th[t], "PMT_UPDATE") \/ Sleep(t, th[t], Banks)
  BY DEF AllocatePage, WaitForBank
<1>3. DOMAIN th[t] = Fields
  BY <1>1 DEF Shape
<1>4. /\ DOMAIN th' = Threads /\ \A x \in Threads : DOMAIN th'[x] = Fields
      /\ \A x \in Threads \ {t} : th'[x] = th[x]
      /\ th'[t].kind = "write" /\ th'[t].pages = th[t].pages /\ th'[t].fixed = th[t].fixed
      /\ th'[t].issued = th[t].issued /\ th'[t].phase \in {"BANK", "PMT_UPDATE"}
  BY <1>1, <1>2, <1>3, GoOnEffect, SleepEffect
<1>5. LocalTo(t)
  BY <1>1, <1>4 DEF LocalTo, Shape
<1>6. PagesOf(th[t])' = PagesOf(th[t])
  BY <1>4 DEF PagesOf
<1>7. HandlerOK(t)'
  BY <1>1, <1>4, <1>6 DEF HandlerOK, WriteState, Holds
<1>8. \A sp \in th'[t].fixed : th'[t].pages[sp] \in Lpns => th'[t].pages[sp] \in loaded'
  BY <1>1, <1>4 DEF IInv, FixedIsLoaded, Fixed
<1>9. QED BY <1>5, <1>7, <1>8, LocalStep

LEMMA UpdatePmtStep == ASSUME IInv, NEW t \in Threads, UpdatePmt(t) PROVE IInv'
<1>1. /\ th[t].kind = "write" /\ th[t].phase = "PMT_UPDATE" /\ WriteState(t) /\ Shape
      /\ UNCHANGED <<held, loaded>>
  BY DEF UpdatePmt, Runs, IInv, HandlerOK
<1> DEFINE r == [th[t] EXCEPT !.fixed = {}]
<1>2. GoOn(t, r, "FLASH_WRITE")
  BY DEF UpdatePmt
<1>3. DOMAIN r = Fields /\ r.kind = "write" /\ r.pages = th[t].pages /\ r.fixed = {}
      /\ r.issued = {}
  BY <1>1, FieldsAre DEF Shape, WriteState
<1> HIDE DEF r
<1>4. /\ DOMAIN th' = Threads /\ \A x \in Threads : DOMAIN th'[x] = Fields
      /\ \A x \in Threads \ {t} : th'[x] = th[x]
      /\ th'[t].kind = "write" /\ th'[t].pages = th[t].pages /\ th'[t].fixed = {}
      /\ th'[t].issued = {} /\ th'[t].phase = "FLASH_WRITE"
  BY <1>1, <1>2, <1>3, GoOnEffect
<1>5. LocalTo(t)
  BY <1>1, <1>4 DEF LocalTo, Shape
<1>6. PagesOf(th[t])' = PagesOf(th[t])
  BY <1>4 DEF PagesOf
<1>7. HandlerOK(t)'
  BY <1>1, <1>4, <1>6 DEF HandlerOK, WriteState, Holds
<1>8. QED BY <1>4, <1>5, <1>7, LocalStep

\* The locks are given back when the command has been issued.
LEMMA IssueWriteStep == ASSUME IInv, NEW t \in Threads, IssueWrite(t) PROVE IInv'
<1>1. /\ th[t].kind = "write" /\ th[t].phase = "FLASH_WRITE" /\ WriteState(t) /\ Shape
      /\ th[t].issued = {} /\ loaded' = loaded
  BY DEF IssueWrite, Runs, IInv, HandlerOK, pmt
<1> DEFINE r1 == [th[t] EXCEPT !.vps = [sp \in SubPages |-> th[t].seq]]
           r2 == [r1 EXCEPT !.issued = {0}]
           b  == BankOf(r1, 0)
<1>2. \/ Unlock(t, PagesOf(r1)) /\ Sleep(t, r2, {b})
      \/ held' = held /\ Sleep(t, th[t], {b})
  BY DEF IssueWrite
<1>3. DOMAIN th[t] = Fields /\ DOMAIN r1 = Fields /\ r1.kind = "write" /\ r1.pages = th[t].pages
      /\ r1.fixed = th[t].fixed /\ r1.phase = "FLASH_WRITE"
  BY <1>1, FieldsAre DEF Shape
<1>4. DOMAIN r2 = Fields /\ r2.kind = "write" /\ r2.pages = th[t].pages
      /\ r2.fixed = th[t].fixed /\ r2.phase = "FLASH_WRITE"
  BY <1>3, FieldsAre
<1>5. PagesOf(r1) = PagesOf(th[t])
  BY <1>3 DEF PagesOf
<1> HIDE DEF r1, r2, b
<1>6. /\ DOMAIN th' = Threads /\ \A x \in Threads : DOMAIN th'[x] = Fields
      /\ \A x \in Threads \ {t} : th'[x] = th[x]
      /\ th'[t].kind = "write" /\ th'[t].pages = th[t].pages /\ th'[t].fixed = th[t].fixed
      /\ th'[t].phase = "FLASH_WRITE"
  BY <1>1, <1>2, <1>3, <1>4, SleepEffect
<1>7. /\ DOMAIN held' = Lpns /\ \A p \in Lpns : DOMAIN held'[p] = Threads
      /\ \A p \in Lpns, x \in Threads \ {t} : held'[p][x] = held[p][x]
  BY <1>1, <1>2, UnlockEffect DEF Shape
<1>8. LocalTo(t)
  BY <1>1, <1>6, <1>7 DEF LocalTo, Shape
<1>9. PagesOf(th[t])' = PagesOf(th[t])
  BY <1>6 DEF PagesOf
<1>10. \A p \in Lpns : Holds(t, p)' => p \in PagesOf(th[t])' /\ th'[t].issued = {}
  <2>1. CASE Unlock(t, PagesOf(r1))
    BY <1>1, <1>5, <2>1, UnlockEffect DEF Holds, WriteState
  <2>2. CASE held' = held /\ Sleep(t, th[t], {b})
    BY <1>1, <1>3, <1>9, <2>2, SleepEffect DEF Holds, WriteState
  <2>3. QED BY <1>2, <2>1, <2>2
<1>11. HandlerOK(t)'
  BY <1>6, <1>10 DEF HandlerOK, WriteState
<1>12. \A sp \in th'[t].fixed : th'[t].pages[sp] \in Lpns => th'[t].pages[sp] \in loaded'
  BY <1>1, <1>6 DEF IInv, FixedIsLoaded, Fixed
<1>13. QED BY <1>8, <1>11, <1>12, LocalStep

LEMMA EndWriteStep == ASSUME IInv, NEW t \in Threads, EndWrite(t) PROVE IInv'
<1>1. /\ th[t].kind = "write" /\ th[t].phase = "FLASH_WRITE" /\ WriteState(t) /\ Shape
      /\ th[t].issued = {0} /\ UNCHANGED <<held, loaded>>
  BY DEF EndWrite, Runs, IInv, HandlerOK, pmt
<1>2. GoOn(t, th[t], "SATA") \/ Sleep(t, th[t], {BankOf(th[t], 0)})
  BY DEF EndWrite
<1>3. DOMAIN th[t] = Fields
  BY <1>1 DEF Shape
<1>4. /\ DOMAIN th' = Threads /\ \A x \in Threads : DOMAIN th'[x] = Fields
      /\ \A x \in Threads \ {t} : th'[x] = th[x]
      /\ th'[t].kind = "write" /\ th'[t].pages = th[t].pages /\ th'[t].fixed = th[t].fixed
      /\ th'[t].phase \in {"FLASH_WRITE", "SATA"}
  BY <1>1, <1>2, <1>3, GoOnEffect, SleepEffect
<1>5. LocalTo(t)
  BY <1>1, <1>4 DEF LocalTo, Shape
<1>6. \A p \in Lpns : ~Holds(t, p)'
  BY <1>1 DEF WriteState, Holds
<1>7. HandlerOK(t)'
  BY <1>4, <1>6 DEF HandlerOK, WriteState
<1>8. \A sp \in th'[t].fixed : th'[t].pages[sp] \in Lpns => th'[t].pages[sp] \in loaded'
  BY <1>1, <1>4 DEF IInv, FixedIsLoaded, Fixed
<1>9. QED BY <1>5, <1>7, <1>8, LocalStep

-----------------------------------------------------------------------------
(***************************************************************************)
(* The scheduler, and new commands.                                        *)
(***************************************************************************)
LEMMA AcceptStep == ASSUME IInv, NEW t \in Threads, NEW c \in Cmds, Accept(t, c) PROVE IInv'
<1>1. /\ th[t].kind = "free" /\ NotBegun(t) /\ Shape /\ UNCHANGED <<held, loaded>>
      /\ c.kind \in {"read", "write"}
  BY CmdsAssumption DEF Accept, IInv, HandlerOK, pmt, CmdType
<1> DEFINE r == [FreeThread EXCEPT
                   !.kind = c.kind, !.lpn = c.lpn, !.uid = c.uid, !.seq = next',
                   !.sectors = c.sectors, !.left = c.sectors,
                   !.want = IF c.kind = "read" THEN disk[c.lpn] ELSE Blank]
<1>2. th' = [th EXCEPT ![t] = r]
  BY DEF Accept
<1>3. DOMAIN r = Fields /\ r.kind = c.kind /\ r.fixed = {} /\ r.phase = "BUFFER"
  BY FieldsAre DEF FreeThread
<1> HIDE DEF r
<1>4. th'[t] = r /\ LocalTo(t)
  BY <1>1, <1>2, <1>3 DEF LocalTo, Shape
<1>5. HandlerOK(t)'
  BY <1>1, <1>3, <1>4 DEF HandlerOK, NotBegun, ReadState, WriteState, Holds
<1>6. QED BY <1>3, <1>4, <1>5, LocalStep

LEMMA PassStep ==
  ASSUME IInv, UNCHANGED <<th, held>>, Fixed \cap loaded \subseteq loaded'
  PROVE  IInv'
<1>1. Shape' /\ Fixed' = Fixed
  BY DEF IInv, Shape, Fixed
<1>2. ASSUME NEW t \in Threads PROVE HandlerOK(t)'
  BY DEF IInv, HandlerOK, NotBegun, ReadState, WriteState, Holds, PagesOf
<1>3. QED BY <1>1, <1>2 DEF IInv, FixedIsLoaded

LEMMA InitIInv == Init => IInv
<1> SUFFICES ASSUME Init PROVE IInv
  OBVIOUS
<1>1. th = [t \in Threads |-> FreeThread] /\ held = [p \in Lpns |-> [t \in Threads |-> 0]]
  BY DEF Init
<1>2. Shape
  BY <1>1 DEF Shape, Fields
<1>3. ASSUME NEW t \in Threads
      PROVE  th[t].kind = "free" /\ th[t].fixed = {} /\ th[t].phase = "BUFFER"
  BY <1>1 DEF FreeThread
<1>4. \A t \in Threads : HandlerOK(t)
  BY <1>1, <1>3 DEF HandlerOK, NotBegun, Holds
<1>5. FixedIsLoaded
  BY <1>3 DEF FixedIsLoaded, Fixed
<1>6. QED BY <1>2, <1>4, <1>5 DEF IInv

LEMMA NextIInv == IInv /\ [Next]_vars => IInv'
<1> SUFFICES ASSUME IInv, [Next]_vars PROVE IInv'
  OBVIOUS
<1>1. CASE StartPass
  <2>1. UNCHANGED <<th, held>>
    BY <1>1 DEF StartPass
  <2>2. PICK load \in SUBSET requested,
             out \in IF PmtEvicts THEN SUBSET (loaded \ Fixed) ELSE {{}} :
               loaded' = (loaded \ out) \cup load
    BY <1>1 DEF StartPass
  <2>3. QED BY <2>1, <2>2, PassStep
<1>2. CASE Skip
  BY <1>2, PassStep DEF Skip, pmt
<1>3. ASSUME NEW t \in Threads, Read(t) PROVE IInv'
  BY <1>3, ReadBufferStep, ReadLockStep, LoadForReadStep, MakeSegmentsStep, ReadFlashStep DEF Read
<1>4. ASSUME NEW t \in Threads, Write(t) PROVE IInv'
  BY <1>4, ToBufferStep, WriteLockStep, WritePmtLoadStep, CompleteSubPagesStep, BankStep,
     UpdatePmtStep, IssueWriteStep, EndWriteStep DEF Write
<1>5. ASSUME NEW t \in Threads, Finish(t) PROVE IInv'
  BY <1>5, FinishStep
<1>6. ASSUME NEW t \in Threads, NEW c \in Cmds, Accept(t, c) PROVE IInv'
  BY <1>6, AcceptStep
<1>7. CASE UNCHANGED vars
  BY <1>7, PassStep DEF vars, sched, pmt
<1>8. QED BY <1>1, <1>2, <1>3, <1>4, <1>5, <1>6, <1>7 DEF Next, Handler

(***************************************************************************)
(* The assertion of ftl_write_thread.c:239: from the moment a writer has   *)
(* read the old places of its sub-pages until it has stored the new ones   *)
(* no mapping page it needs leaves the cache, though it sleeps in between  *)
(* for flash reads and for a bank.                                         *)
(***************************************************************************)
THEOREM MappingStays == Spec => []MappingStaysLoaded
<1>1. IInv => MappingStaysLoaded
  <2> SUFFICES ASSUME IInv, NEW t \in Threads, th[t].kind = "write",
                      th[t].phase \in {"FLASH_READ", "BANK", "PMT_UPDATE"},
                      NEW p \in PagesOf(th[t])
               PROVE  p \in loaded
    BY DEF MappingStaysLoaded
  <2>1. PICK sp \in SubPages : p \in Lpns /\ th[t].pages[sp] = p
    BY DEF PagesOf
  <2>2. th[t].pages[sp] # NoPage
    BY <2>1, NullAssumption
  <2>3. sp \in th[t].fixed
    BY <2>2 DEF IInv, HandlerOK, WriteState
  <2>4. QED BY <2>1, <2>3 DEF IInv, FixedIsLoaded, Fixed
<1>2. QED BY InitIInv, NextIInv, <1>1, PTL DEF Spec

(***************************************************************************)
(* A thread that has ended, whose id the next command gets, holds no page  *)
(* lock: also the writer of a flushed buffer gives back the locks of all   *)
(* its pages, before it waits for the flash command to end.                *)
(***************************************************************************)
NoLockLeft == \A t \in Threads, p \in Lpns : th[t].kind = "free" => held[p][t] = 0

THEOREM LocksGivenBack == Spec => []NoLockLeft
<1>1. IInv => NoLockLeft
  BY DEF IInv, HandlerOK, NotBegun, Holds, NoLockLeft
<1>2. QED BY InitIInv, NextIInv, <1>1, PTL DEF Spec

(***************************************************************************)
(* What a step of a handler does to the variables of its thread.           *)
(***************************************************************************)
Kept(t) ==
    /\ DOMAIN th' = Threads /\ \A x \in Threads \ {t} : th'[x] = th[x]
    /\ DOMAIN th'[t] = Fields
    /\ th'[t].kind = th[t].kind /\ th'[t].lpn = th[t].lpn /\ th'[t].uid = th[t].uid
    /\ th'[t].seq = th[t].seq /\ th'[t].sectors = th[t].sectors /\ th'[t].want = th[t].want

Goes(t, phase) ==
    /\ Kept(t)
    /\ th'[t].awake = TRUE /\ th'[t].wake = {} /\ th'[t].phase = phase
    /\ UNCHANGED <<queue, turn>>

Sleeps(t, signals) ==
    /\ Kept(t)
    /\ th'[t].awake = FALSE /\ th'[t].wake = signals /\ th'[t].phase = th[t].phase
    /\ turn' = NextTurn /\ queue' = queue

SameRecord(r, t) ==
    /\ DOMAIN r = Fields
    /\ r.kind = th[t].kind /\ r.lpn = th[t].lpn /\ r.uid = th[t].uid
    /\ r.seq = th[t].seq /\ r.sectors = th[t].sectors /\ r.want = th[t].want

Works(t, r) ==
    /\ th'[t].left = r.left /\ th'[t].buf = r.buf /\ th'[t].pages = r.pages
    /\ th'[t].vps = r.vps /\ th'[t].fixed = r.fixed /\ th'[t].need = r.need
    /\ th'[t].issued = r.issued

LEMMA GoOnFields ==
  ASSUME Shape, NEW t \in Threads, NEW r, SameRecord(r, t), NEW phase, GoOn(t, r, phase)
  PROVE  Goes(t, phase) /\ Works(t, r)
<1>1. th' = [th EXCEPT ![t] = [r EXCEPT !.awake = TRUE, !.wake = {}, !.phase = phase]]
      /\ UNCHANGED <<queue, turn>>
  BY DEF GoOn
<1> DEFINE n == [r EXCEPT !.awake = TRUE, !.wake = {}, !.phase = phase]
<1>2. th'[t] = n /\ DOMAIN th' = Threads /\ \A x \in Threads \ {t} : th'[x] = th[x]
  BY <1>1 DEF Shape
<1>3. /\ DOMAIN n = Fields /\ n.awake = TRUE /\ n.wake = {} /\ n.phase = phase
      /\ n.kind = r.kind /\ n.lpn = r.lpn /\ n.uid = r.uid /\ n.seq = r.seq
      /\ n.sectors = r.sectors /\ n.want = r.want
      /\ n.left = r.left /\ n.buf = r.buf /\ n.pages = r.pages /\ n.vps = r.vps
      /\ n.fixed = r.fixed /\ n.need = r.need /\ n.issued = r.issued
  BY FieldsAre DEF SameRecord
<1> HIDE DEF n
<1>4. QED BY <1>1, <1>2, <1>3 DEF Goes, Kept, Works, SameRecord

LEMMA SleepFields ==
  ASSUME Shape, NEW t \in Threads, NEW r, SameRecord(r, t), r.phase = th[t].phase,
         NEW signals, Sleep(t, r, signals)
  PROVE  Sleeps(t, signals) /\ Works(t, r)
<1>1. th' = [th EXCEPT ![t] = [r EXCEPT !.awake = FALSE, !.wake = signals]]
      /\ turn' = NextTurn /\ queue' = queue
  BY DEF Sleep
<1> DEFINE n == [r EXCEPT !.awake = FALSE, !.wake = signals]
<1>2. th'[t] = n /\ DOMAIN th' = Threads /\ \A x \in Threads \ {t} : th'[x] = th[x]
  BY <1>1 DEF Shape
<1>3. /\ DOMAIN n = Fields /\ n.awake = FALSE /\ n.wake = signals /\ n.phase = r.phase
      /\ n.kind = r.kind /\ n.lpn = r.lpn /\ n.uid = r.uid /\ n.seq = r.seq
      /\ n.sectors = r.sectors /\ n.want = r.want
      /\ n.left = r.left /\ n.buf = r.buf /\ n.pages = r.pages /\ n.vps = r.vps
      /\ n.fixed = r.fixed /\ n.need = r.need /\ n.issued = r.issued
  BY FieldsAre DEF SameRecord
<1> HIDE DEF n
<1>4. QED BY <1>1, <1>2, <1>3 DEF Sleeps, Kept, Works, SameRecord

LEMMA ZeroIsSubPage == 0 \in SubPages /\ SubPages \subseteq Nat
<1>1. Cardinality(SubPages) \in Nat /\ Cardinality(SubPages) # 0
  BY SizesAssumption, FS_CardinalityType, FS_EmptySet
<1>2. QED BY <1>1, SizesAssumption

LEMMA OwnRecord == ASSUME Shape, NEW t \in Threads PROVE SameRecord(th[t], t)
  BY DEF Shape, SameRecord

-----------------------------------------------------------------------------
(***************************************************************************)
(* The effect of each phase, field by field.                               *)
(***************************************************************************)
\* What a read finds in the write buffer.
FoundBy(t) == {s \in th[t].sectors : Buffer!Pulled(th[t].lpn, s, th[t].uid) # Absent}

LEMMA ReadBufferEffect ==
  ASSUME Shape, NEW t \in Threads, ReadBuffer(t)
  PROVE  /\ Runs(t, "read", "BUFFER")
         /\ UNCHANGED <<lockSig, pmtSig, held, wb, loaded, requested, map, flash, idle, complete, disk, next>>
         /\ Goes(t, IF FoundBy(t) = th[t].sectors THEN "SATA" ELSE "LOCK")
         /\ th'[t].left = th[t].sectors \ FoundBy(t)
         /\ th'[t].buf = [s \in Sectors |-> IF s \in FoundBy(t)
                                           THEN Buffer!Pulled(th[t].lpn, s, th[t].uid) ELSE 0]
         /\ th'[t].pages = th[t].pages /\ th'[t].vps = th[t].vps /\ th'[t].fixed = th[t].fixed
         /\ th'[t].need = th[t].need /\ th'[t].issued = th[t].issued
<1> DEFINE found == FoundBy(t)
           buf == [s \in Sectors |-> IF s \in found
                                     THEN Buffer!Pulled(th[t].lpn, s, th[t].uid) ELSE 0]
           r == [th[t] EXCEPT !.left = th[t].sectors \ found, !.buf = buf]
           phase == IF found = th[t].sectors THEN "SATA" ELSE "LOCK"
<1>1. GoOn(t, r, phase)
  BY DEF ReadBuffer, FoundBy
<1>2. /\ SameRecord(r, t) /\ r.left = th[t].sectors \ found /\ r.buf = buf
      /\ r.pages = th[t].pages /\ r.vps = th[t].vps /\ r.fixed = th[t].fixed
      /\ r.need = th[t].need /\ r.issued = th[t].issued
  <2> HIDE DEF found, buf
  <2> QED BY FieldsAre DEF SameRecord, Shape
<1> HIDE DEF r, phase
<1>3. Goes(t, phase) /\ Works(t, r)
  BY <1>1, <1>2, GoOnFields
<1>4. /\ Runs(t, "read", "BUFFER")
      /\ UNCHANGED <<lockSig, pmtSig, held, wb, loaded, requested, map, flash, idle, complete, disk, next>>
  BY DEF ReadBuffer, pmt, banks, host
<1>5. QED BY <1>2, <1>3, <1>4 DEF Works, phase

LEMMA ReadLockEffect ==
  ASSUME Shape, NEW t \in Threads, ReadLock(t)
  PROVE  /\ Runs(t, "read", "LOCK") /\ Works(t, th[t])
         /\ UNCHANGED <<lockSig, pmtSig, wb, loaded, requested, map, flash, idle, complete, disk, next>>
         /\ held' = Locked(t, {th[t].lpn}, 1)
         /\ IF Answer(t, th[t].lpn, 1) = 1 THEN Goes(t, "PMT_LOAD") ELSE Sleeps(t, {"lock"})
<1>1. IF Answer(t, th[t].lpn, 1) = 1 THEN GoOn(t, th[t], "PMT_LOAD") ELSE Sleep(t, th[t], {"lock"})
  BY DEF ReadLock, LockTable!PAGE_LOCK_READ
<1>2. SameRecord(th[t], t)
  BY OwnRecord
<1>3. /\ Runs(t, "read", "LOCK") /\ held' = Locked(t, {th[t].lpn}, 1)
      /\ UNCHANGED <<lockSig, pmtSig, wb, loaded, requested, map, flash, idle, complete, disk, next>>
  BY DEF ReadLock, LockTable!PAGE_LOCK_READ, pmt, banks, host
<1>4. CASE Answer(t, th[t].lpn, 1) = 1
  BY <1>1, <1>2, <1>3, <1>4, GoOnFields
<1>5. CASE Answer(t, th[t].lpn, 1) # 1
  BY <1>1, <1>2, <1>3, <1>5, SleepFields
<1>6. QED BY <1>4, <1>5

LEMMA LoadForReadEffect ==
  ASSUME Shape, NEW t \in Threads, LoadForRead(t)
  PROVE  /\ Runs(t, "read", "PMT_LOAD") /\ Works(t, th[t]) /\ Sleeps(t, {"pmt"})
         /\ requested' = requested \cup {th[t].lpn}
         /\ UNCHANGED <<lockSig, pmtSig, held, wb, loaded, map, flash, idle, complete, disk, next>>
<1>1. /\ Runs(t, "read", "PMT_LOAD") /\ Sleep(t, th[t], {"pmt"})
      /\ requested' = requested \cup {th[t].lpn}
      /\ UNCHANGED <<lockSig, pmtSig, held, wb, loaded, map, flash, idle, complete, disk, next>>
  BY DEF LoadForRead, banks, host
<1>2. QED BY <1>1, OwnRecord, SleepFields

LEMMA MakeSegmentsEffect ==
  ASSUME Shape, NEW t \in Threads, MakeSegments(t)
  PROVE  /\ Runs(t, "read", "PMT_LOAD") /\ Goes(t, "FLASH_READ") /\ Unlock(t, {th[t].lpn})
         /\ UNCHANGED <<pmtSig, wb, loaded, requested, map, flash, idle, complete, disk, next>>
         /\ th'[t].vps = map[th[t].lpn] /\ th'[t].need = Segments(th[t], map[th[t].lpn])
         /\ th'[t].left = th[t].left /\ th'[t].buf = th[t].buf /\ th'[t].pages = th[t].pages
         /\ th'[t].fixed = th[t].fixed /\ th'[t].issued = th[t].issued
<1> DEFINE vps == map[th[t].lpn]
           need == Segments(th[t], vps)
           r == [th[t] EXCEPT !.vps = vps, !.need = need]
<1>1. GoOn(t, r, "FLASH_READ")
  BY DEF MakeSegments
<1>2. /\ SameRecord(r, t) /\ r.vps = vps /\ r.need = need
      /\ r.left = th[t].left /\ r.buf = th[t].buf /\ r.pages = th[t].pages
      /\ r.fixed = th[t].fixed /\ r.issued = th[t].issued
  <2> HIDE DEF vps, need
  <2> QED BY FieldsAre DEF SameRecord, Shape
<1>3. /\ Runs(t, "read", "PMT_LOAD") /\ Unlock(t, {th[t].lpn})
      /\ UNCHANGED <<pmtSig, wb, loaded, requested, map, flash, idle, complete, disk, next>>
  BY DEF MakeSegments, pmt, banks, host
<1> HIDE DEF r
<1>4. Goes(t, "FLASH_READ") /\ Works(t, r)
  BY <1>1, <1>2, GoOnFields
<1>5. QED BY <1>2, <1>3, <1>4 DEF Works

Loops(t, now, buf) ==
    /\ complete' = complete
    /\ th'[t].need = th[t].need \ (now \cup Ended(th[t]))
    /\ th'[t].issued = (th[t].issued \ Ended(th[t])) \cup Issuable(th[t], now)
    /\ th'[t].buf = buf
    /\ th'[t].left = th[t].left /\ th'[t].pages = th[t].pages /\ th'[t].vps = th[t].vps
    /\ th'[t].fixed = th[t].fixed

LEMMA ReadLoopFields ==
  ASSUME Shape, NEW t \in Threads, NEW now, NEW buf, NEW phase, ReadLoop(t, now, buf, phase)
  PROVE  /\ Loops(t, now, buf)
         /\ idle' = idle \ {BankOf(th[t], i) : i \in Issuable(th[t], now)}
         /\ IF th'[t].need = {} THEN Goes(t, phase)
            ELSE Sleeps(t, {flash[th[t].vps[i]].bank : i \in th'[t].need})
<1> DEFINE need == th[t].need \ (now \cup Ended(th[t]))
           issued == (th[t].issued \ Ended(th[t])) \cup Issuable(th[t], now)
           r == AfterReads(th[t], now, buf)
<1>1. /\ SameRecord(r, t) /\ r.need = need /\ r.issued = issued /\ r.buf = buf
      /\ r.left = th[t].left /\ r.pages = th[t].pages /\ r.vps = th[t].vps
      /\ r.fixed = th[t].fixed /\ r.phase = th[t].phase
  <2>1. r = [th[t] EXCEPT !.need = need, !.issued = issued, !.buf = buf]
    <3>1. DOMAIN th[t] = Fields
      BY DEF Shape
    <3>2. r = [th[t] EXCEPT !.need = @ \ (now \cup Ended(th[t])),
                            !.issued = (@ \ Ended(th[t])) \cup Issuable(th[t], now),
                            !.buf = buf]
      BY Zenon DEF AfterReads
    <3>3. QED BY <3>1, <3>2, FieldsAre
  <2> HIDE DEF r, need, issued
  <2>2. QED BY <2>1, FieldsAre DEF SameRecord, Shape
<1>2. /\ idle' = idle \ {BankOf(r, i) : i \in Issuable(th[t], now)}
      /\ complete' = complete
      /\ IF r.need = {} THEN GoOn(t, r, phase)
         ELSE Sleep(t, r, {BankOf(r, i) : i \in r.need})
  BY Zenon DEF ReadLoop
<1>3. \A i : BankOf(r, i) = flash[th[t].vps[i]].bank
  <2> HIDE DEF r, need, issued
  <2> QED BY <1>1 DEF BankOf
<1>7. {BankOf(r, i) : i \in r.need} = {flash[th[t].vps[i]].bank : i \in need}
  <2> HIDE DEF r, need, issued
  <2> QED BY <1>1, <1>3
<1>8. {BankOf(r, i) : i \in Issuable(th[t], now)} = {BankOf(th[t], i) : i \in Issuable(th[t], now)}
  <2> HIDE DEF r, need, issued
  <2> QED BY <1>3 DEF BankOf
<1> HIDE DEF r, need, issued
<1>4. CASE need = {}
  BY <1>1, <1>2, <1>4, <1>8, GoOnFields DEF Works, need, issued, Loops
<1>5. CASE need # {}
  <2>1. Sleeps(t, {BankOf(r, i) : i \in r.need}) /\ Works(t, r)
    BY <1>1, <1>2, <1>5, SleepFields
  <2>2. Sleeps(t, {flash[th[t].vps[i]].bank : i \in need}) /\ th'[t].need = need
    BY <2>1, <1>1, <1>7 DEF Works
  <2>3. QED BY <1>1, <1>2, <1>5, <1>8, <2>1, <2>2 DEF Works, need, issued, Loops
<1>6. QED BY <1>4, <1>5

\* The sectors a read gets from flash without a command of its own, and its
\* buffer after one run of the loop.
ReadNow(t) == {i \in th[t].need \ th[t].issued : ~Authenticated(th[t], i) \/ th[t].vps[i] = 0}

ReadData(t, i) ==
    IF Authenticated(th[t], i) THEN flash[th[t].vps[i]].data ELSE [s \in Sectors |-> Zeros]

Filled(t) ==
    [s \in Sectors |->
        IF s \in th[t].left /\ \E i \in ReadNow(t) \cup Ended(th[t]) : th[t].vps[i] = th[t].vps[s[1]]
        THEN ReadData(t, s[1])[s] ELSE th[t].buf[s]]

LEMMA ReadFlashEffect ==
  ASSUME Shape, NEW t \in Threads, ReadFlash(t)
  PROVE  /\ Runs(t, "read", "FLASH_READ") /\ ReadLoop(t, ReadNow(t), Filled(t), "SATA")
         /\ UNCHANGED <<lockSig, pmtSig, held, wb, loaded, requested, map, flash, disk, next>>
<1>1. ReadLoop(t, ReadNow(t), Filled(t), "SATA")
  BY DEF ReadFlash, ReadNow, ReadData, Filled
<1>2. QED BY <1>1 DEF ReadFlash, pmt, host

LEMMA FinishEffect ==
  ASSUME Shape, NEW t \in Threads, Finish(t)
  PROVE  /\ Runs(t, "read", "SATA") \/ Runs(t, "write", "SATA")
         /\ UNCHANGED <<lockSig, pmtSig, held, wb, loaded, requested, map, flash, idle, complete, disk, next>>
         /\ End(t) /\ DOMAIN th' = Threads /\ (\A x \in Threads \ {t} : th'[x] = th[x])
         /\ th'[t] = FreeThread
<1>1. /\ Runs(t, "read", "SATA") \/ Runs(t, "write", "SATA")
      /\ UNCHANGED <<lockSig, pmtSig, held, wb, loaded, requested, map, flash, idle, complete, disk, next>>
      /\ End(t) /\ th' = [th EXCEPT ![t] = FreeThread]
  BY DEF Finish, pmt, banks, host, End
<1>2. QED BY <1>1 DEF Shape

LEMMA WriteWholePageEffect ==
  ASSUME Shape, NEW t \in Threads, WriteWholePage(t)
  PROVE  /\ Runs(t, "write", "BUFFER") /\ Goes(t, "LOCK") /\ th[t].sectors = Sectors
         /\ wb' = Buffer!Dropped(wb, th[t].lpn)
         /\ UNCHANGED <<lockSig, pmtSig, held, loaded, requested, map, flash, idle, complete, disk, next>>
         /\ th'[t].buf = [s \in Sectors |-> th[t].seq]
         /\ th'[t].pages = [sp \in SubPages |-> th[t].lpn]
         /\ th'[t].left = th[t].left /\ th'[t].vps = th[t].vps /\ th'[t].fixed = th[t].fixed
         /\ th'[t].need = th[t].need /\ th'[t].issued = th[t].issued
<1> DEFINE buf == [s \in Sectors |-> th[t].seq]
           pages == [sp \in SubPages |-> th[t].lpn]
           r == [th[t] EXCEPT !.buf = buf, !.pages = pages]
<1>1. GoOn(t, r, "LOCK")
  BY DEF WriteWholePage
<1>2. /\ SameRecord(r, t) /\ r.buf = buf /\ r.pages = pages /\ r.left = th[t].left
      /\ r.vps = th[t].vps /\ r.fixed = th[t].fixed /\ r.need = th[t].need
      /\ r.issued = th[t].issued
  <2> HIDE DEF buf, pages
  <2> QED BY FieldsAre DEF SameRecord, Shape
<1> HIDE DEF r
<1>3. Goes(t, "LOCK") /\ Works(t, r)
  BY <1>1, <1>2, GoOnFields
<1>4. /\ Runs(t, "write", "BUFFER") /\ th[t].sectors = Sectors
      /\ wb' = Buffer!Dropped(wb, th[t].lpn)
      /\ UNCHANGED <<lockSig, pmtSig, held, loaded, requested, map, flash, idle, complete, disk, next>>
  BY DEF WriteWholePage, pmt, banks, host
<1>5. QED BY <1>2, <1>3, <1>4 DEF Works

LEMMA PushPartialPageEffect ==
  ASSUME Shape, NEW t \in Threads, PushPartialPage(t)
  PROVE  /\ Runs(t, "write", "BUFFER") /\ Goes(t, "SATA") /\ Works(t, th[t])
         /\ th[t].sectors # Sectors /\ wb' = Pushed(wb, th[t])
         /\ UNCHANGED <<lockSig, pmtSig, held, loaded, requested, map, flash, idle, complete, disk, next>>
<1>1. /\ Runs(t, "write", "BUFFER") /\ GoOn(t, th[t], "SATA")
      /\ th[t].sectors # Sectors /\ wb' = Pushed(wb, th[t])
      /\ UNCHANGED <<lockSig, pmtSig, held, loaded, requested, map, flash, idle, complete, disk, next>>
  BY DEF PushPartialPage, pmt, banks, host
<1>2. QED BY <1>1, OwnRecord, GoOnFields

\* The data of the buffer that is taken out.
TakenOut(pages) ==
    [s \in Sectors |-> IF s \in Buffer!BufferSectors(pages) THEN wb[pages[s[1]]][s].val ELSE 0]

FlushesTo(t, pages) ==
    /\ wb' = Pushed(Buffer!Flushed(pages), th[t])
    /\ th'[t].pages = pages /\ th'[t].left = Buffer!BufferSectors(pages)
    /\ th'[t].buf = TakenOut(pages)

LEMMA FlushAndPushEffect ==
  ASSUME Shape, NEW t \in Threads, FlushAndPush(t)
  PROVE  /\ Runs(t, "write", "BUFFER") /\ Goes(t, "LOCK") /\ th[t].sectors # Sectors
         /\ \E pages \in [SubPages -> Lpns \cup {NoPage}] :
              (\E owner \in Users : Buffer!IsBuffer(pages, owner)) /\ FlushesTo(t, pages)
         /\ UNCHANGED <<lockSig, pmtSig, held, loaded, requested, map, flash, idle, complete, disk, next>>
         /\ th'[t].vps = th[t].vps /\ th'[t].fixed = th[t].fixed
         /\ th'[t].need = th[t].need /\ th'[t].issued = th[t].issued
<1>1. PICK pages \in [SubPages -> Lpns \cup {NoPage}], owner \in Users :
        /\ Buffer!IsBuffer(pages, owner)
        /\ wb' = Pushed(Buffer!Flushed(pages), th[t])
        /\ GoOn(t, [th[t] EXCEPT
                       !.pages = pages,
                       !.uid   = FlushedUser(@, owner),
                       !.left  = Buffer!BufferSectors(pages),
                       !.buf   = TakenOut(pages)],
                 "LOCK")
  BY DEF FlushAndPush, TakenOut
<1> DEFINE out == TakenOut(pages)
           left == Buffer!BufferSectors(pages)
           uid == FlushedUser(th[t].uid, owner)
           r == [th[t] EXCEPT !.pages = pages, !.uid = uid, !.left = left, !.buf = out]
<1>2. GoOn(t, r, "LOCK")
  <2>1. [th[t] EXCEPT !.pages = pages, !.uid   = FlushedUser(@, owner),
                      !.left  = Buffer!BufferSectors(pages), !.buf   = TakenOut(pages)] = r
    <3> DEFINE bs == Buffer!BufferSectors(pages)
    <3> HIDE DEF bs
    <3>1. DOMAIN th[t] = Fields
      BY DEF Shape
    <3>2. QED BY <3>1, FieldsAre DEF FlushedUser
  <2>2. QED BY <1>1, <2>1
<1>3. /\ SameRecord(r, t) /\ r.buf = out /\ r.pages = pages /\ r.left = left
      /\ r.vps = th[t].vps /\ r.fixed = th[t].fixed /\ r.need = th[t].need
      /\ r.issued = th[t].issued
  <2>1. uid = th[t].uid
    BY DEF FlushedUser
  <2> HIDE DEF out, left, uid
  <2> QED BY <2>1, FieldsAre DEF SameRecord, Shape
<1> HIDE DEF r
<1>4. Goes(t, "LOCK") /\ Works(t, r)
  BY <1>2, <1>3, GoOnFields
<1>5. /\ Runs(t, "write", "BUFFER") /\ th[t].sectors # Sectors
      /\ UNCHANGED <<lockSig, pmtSig, held, loaded, requested, map, flash, idle, complete, disk, next>>
  BY DEF FlushAndPush, pmt, banks, host
<1>6. FlushesTo(t, pages)
  BY <1>1, <1>3, <1>4 DEF Works, FlushesTo
<1>7. QED BY <1>1, <1>3, <1>4, <1>5, <1>6 DEF Works

LEMMA WriteLockEffect ==
  ASSUME Shape, NEW t \in Threads, WriteLock(t)
  PROVE  /\ Runs(t, "write", "LOCK") /\ Works(t, th[t])
         /\ held' = Locked(t, PagesOf(th[t]), 3)
         /\ UNCHANGED <<lockSig, pmtSig, wb, loaded, requested, map, flash, idle, complete, disk, next>>
         /\ IF \A p \in PagesOf(th[t]) : Answer(t, p, 3) = 3
            THEN Goes(t, "PMT_LOAD") ELSE Sleeps(t, {"lock"})
<1>1. /\ Runs(t, "write", "LOCK")
      /\ held' = Locked(t, PagesOf(th[t]), 3)
      /\ IF \A p \in PagesOf(th[t]) : Answer(t, p, 3) = 3
         THEN GoOn(t, th[t], "PMT_LOAD") ELSE Sleep(t, th[t], {"lock"})
      /\ UNCHANGED <<lockSig, pmtSig, wb, loaded, requested, map, flash, idle, complete, disk, next>>
  BY DEF WriteLock, LockTable!PAGE_LOCK_WRITE, pmt, banks, host
<1>2. SameRecord(th[t], t)
  BY OwnRecord
<1>3. CASE \A p \in PagesOf(th[t]) : Answer(t, p, 3) = 3
  BY <1>1, <1>2, <1>3, GoOnFields
<1>4. CASE ~\A p \in PagesOf(th[t]) : Answer(t, p, 3) = 3
  BY <1>1, <1>2, <1>4, SleepFields
<1>5. QED BY <1>3, <1>4

\* The sub-pages whose place a writer still has to read, and those it can.
ToFix(t) == {sp \in SubPages : th[t].pages[sp] # NoPage} \ th[t].fixed
CanFix(t) == {sp \in ToFix(t) : th[t].pages[sp] \in loaded}

LEMMA WritePmtLoadEffect ==
  ASSUME Shape, NEW t \in Threads, WritePmtLoad(t)
  PROVE  /\ Runs(t, "write", "PMT_LOAD")
         /\ requested' = requested \cup {th[t].pages[sp] : sp \in ToFix(t) \ CanFix(t)}
         /\ UNCHANGED <<lockSig, pmtSig, held, wb, loaded, map, flash, idle, complete, disk, next>>
         /\ th'[t].fixed = th[t].fixed \cup CanFix(t)
         /\ th'[t].vps = [sp \in SubPages |->
                             IF sp \in CanFix(t) THEN map[th[t].pages[sp]][sp] ELSE th[t].vps[sp]]
         /\ th'[t].left = th[t].left /\ th'[t].buf = th[t].buf /\ th'[t].pages = th[t].pages
         /\ \/ /\ ToFix(t) = CanFix(t) /\ Goes(t, "FLASH_READ")
               /\ th'[t].need = Incomplete(th[t]) /\ th'[t].issued = {}
            \/ /\ Sleeps(t, {"pmt"})
               /\ th'[t].need = th[t].need /\ th'[t].issued = th[t].issued
<1> DEFINE todo == ToFix(t)
           now == CanFix(t)
           vps == [sp \in SubPages |->
                     IF sp \in CanFix(t) THEN map[th[t].pages[sp]][sp] ELSE th[t].vps[sp]]
           fixed == th[t].fixed \cup now
           need == Incomplete(th[t])
           r1 == [th[t] EXCEPT !.fixed = fixed, !.vps = vps]
           r2 == [r1 EXCEPT !.need = need, !.issued = {}]
<1>1. /\ Runs(t, "write", "PMT_LOAD")
      /\ requested' = requested \cup {th[t].pages[sp] : sp \in todo \ now}
      /\ IF todo = now THEN GoOn(t, r2, "FLASH_READ") ELSE Sleep(t, r1, {"pmt"})
      /\ UNCHANGED <<lockSig, pmtSig, held, wb, loaded, map, flash, idle, complete, disk, next>>
  <2>1. [th[t] EXCEPT !.fixed = @ \cup now,
                      !.vps = [sp \in SubPages |->
                                 IF sp \in now THEN map[th[t].pages[sp]][sp] ELSE @[sp]]] = r1
    <3>1. DOMAIN th[t] = Fields
      BY DEF Shape
    <3> DEFINE nn == CanFix(t)
    <3> HIDE DEF nn
    <3>2. QED BY <3>1, FieldsAre
  <2>2. /\ Runs(t, "write", "PMT_LOAD")
        /\ LET ra == [th[t] EXCEPT !.fixed = @ \cup now,
                                   !.vps = [sp \in SubPages |->
                                              IF sp \in now THEN map[th[t].pages[sp]][sp] ELSE @[sp]]]
           IN  IF todo = now
               THEN GoOn(t, [ra EXCEPT !.need = Incomplete(th[t]), !.issued = {}], "FLASH_READ")
               ELSE Sleep(t, ra, {"pmt"})
    BY Zenon DEF WritePmtLoad, ToFix, CanFix
  <2>3. IF todo = now THEN GoOn(t, r2, "FLASH_READ") ELSE Sleep(t, r1, {"pmt"})
    BY <2>1, <2>2, Zenon
  <2>4. requested' = requested \cup {th[t].pages[sp] : sp \in todo \ now}
    BY Zenon DEF WritePmtLoad, ToFix, CanFix
  <2>5. UNCHANGED <<lockSig, pmtSig, held, wb, loaded, map, flash, idle, complete, disk, next>>
    BY DEF WritePmtLoad, banks, host
  <2>6. QED BY <2>2, <2>3, <2>4, <2>5
<1> HIDE DEF todo, now, vps, fixed, need
<1>2. /\ SameRecord(r1, t) /\ r1.fixed = fixed /\ r1.vps = vps /\ r1.left = th[t].left
      /\ r1.buf = th[t].buf /\ r1.pages = th[t].pages /\ r1.phase = th[t].phase
      /\ r1.need = th[t].need /\ r1.issued = th[t].issued
  BY FieldsAre DEF SameRecord, Shape
<1> HIDE DEF r1
<1>3. /\ SameRecord(r2, t) /\ r2.fixed = fixed /\ r2.vps = vps /\ r2.left = th[t].left
      /\ r2.buf = th[t].buf /\ r2.pages = th[t].pages
      /\ r2.need = need /\ r2.issued = {}
  BY <1>2, FieldsAre DEF SameRecord
<1> HIDE DEF r2
<1>4. CASE todo = now
  <2>1. Goes(t, "FLASH_READ") /\ Works(t, r2)
    BY <1>1, <1>3, <1>4, GoOnFields
  <2>2. QED BY <1>1, <1>3, <1>4, <2>1 DEF Works, todo, now, vps, fixed, need
<1>5. CASE todo # now
  <2>1. Sleeps(t, {"pmt"}) /\ Works(t, r1)
    BY <1>1, <1>2, <1>5, SleepFields
  <2>2. QED BY <1>1, <1>2, <1>5, <2>1 DEF Works, todo, now, vps, fixed, need
<1>6. QED BY <1>4, <1>5

\* The sub-pages that are completed with erased sectors, and the buffer after
\* one run of the loop.
WriteNow(t) == {sp \in th[t].need \ th[t].issued : th[t].vps[sp] = 0}

Completed(t) ==
    [s \in Sectors |->
        IF s[1] \in WriteNow(t) \cup Ended(th[t]) /\ s \notin th[t].left
        THEN flash[th[t].vps[s[1]]].data[s] ELSE th[t].buf[s]]

LEMMA CompleteSubPagesEffect ==
  ASSUME Shape, NEW t \in Threads, CompleteSubPages(t)
  PROVE  /\ Runs(t, "write", "FLASH_READ") /\ ReadLoop(t, WriteNow(t), Completed(t), "BANK")
         /\ UNCHANGED <<lockSig, pmtSig, held, wb, loaded, requested, map, flash, disk, next>>
<1>1. ReadLoop(t, WriteNow(t), Completed(t), "BANK")
  BY DEF CompleteSubPages, WriteNow, Completed
<1>2. QED BY <1>1 DEF CompleteSubPages, pmt, host

LEMMA AllocatePageEffect ==
  ASSUME Shape, NEW t \in Threads, AllocatePage(t)
  PROVE  /\ Runs(t, "write", "BANK") /\ Goes(t, "PMT_UPDATE") /\ Works(t, th[t])
         /\ \E b \in idle :
              flash' = [flash EXCEPT ![th[t].seq].bank = b, ![th[t].seq].uid = th[t].uid]
         /\ UNCHANGED <<lockSig, pmtSig, held, wb, loaded, requested, map, idle, complete, disk, next>>
<1>1. /\ Runs(t, "write", "BANK") /\ GoOn(t, th[t], "PMT_UPDATE")
      /\ \E b \in idle :
           flash' = [flash EXCEPT ![th[t].seq].bank = b, ![th[t].seq].uid = th[t].uid]
      /\ UNCHANGED <<lockSig, pmtSig, held, wb, loaded, requested, map, idle, complete, disk, next>>
  BY DEF AllocatePage, pmt, banks, host
<1>2. QED BY <1>1, OwnRecord, GoOnFields

LEMMA WaitForBankEffect ==
  ASSUME Shape, NEW t \in Threads, WaitForBank(t)
  PROVE  /\ Runs(t, "write", "BANK") /\ Sleeps(t, Banks) /\ Works(t, th[t])
         /\ UNCHANGED <<lockSig, pmtSig, held, wb, loaded, requested, map, flash, idle, complete, disk, next>>
<1>1. /\ Runs(t, "write", "BANK") /\ Sleep(t, th[t], Banks)
      /\ UNCHANGED <<lockSig, pmtSig, held, wb, loaded, requested, map, flash, idle, complete, disk, next>>
  BY DEF WaitForBank, pmt, banks, host
<1>2. QED BY <1>1, OwnRecord, SleepFields

LEMMA UpdatePmtEffect ==
  ASSUME Shape, NEW t \in Threads, UpdatePmt(t)
  PROVE  /\ Runs(t, "write", "PMT_UPDATE") /\ Goes(t, "FLASH_WRITE")
         /\ map' = [p \in Lpns |-> [sp \in SubPages |->
                       IF th[t].pages[sp] = p THEN th[t].seq ELSE map[p][sp]]]
         /\ UNCHANGED <<lockSig, pmtSig, held, wb, loaded, requested, flash, idle, complete, disk, next>>
         /\ th'[t].fixed = {}
         /\ th'[t].left = th[t].left /\ th'[t].buf = th[t].buf /\ th'[t].pages = th[t].pages
         /\ th'[t].vps = th[t].vps /\ th'[t].need = th[t].need /\ th'[t].issued = th[t].issued
<1> DEFINE r == [th[t] EXCEPT !.fixed = {}]
<1>1. /\ Runs(t, "write", "PMT_UPDATE") /\ GoOn(t, r, "FLASH_WRITE")
      /\ map' = [p \in Lpns |-> [sp \in SubPages |->
                    IF th[t].pages[sp] = p THEN th[t].seq ELSE map[p][sp]]]
      /\ UNCHANGED <<lockSig, pmtSig, held, wb, loaded, requested, flash, idle, complete, disk, next>>
  BY DEF UpdatePmt, banks, host
<1>2. /\ SameRecord(r, t) /\ r.fixed = {}
      /\ r.left = th[t].left /\ r.buf = th[t].buf /\ r.pages = th[t].pages
      /\ r.vps = th[t].vps /\ r.need = th[t].need /\ r.issued = th[t].issued
  BY FieldsAre DEF SameRecord, Shape
<1> HIDE DEF r
<1>3. Goes(t, "FLASH_WRITE") /\ Works(t, r)
  BY <1>1, <1>2, GoOnFields
<1>4. QED BY <1>1, <1>2, <1>3 DEF Works

\* The page is written and unlocked, or the bank is busy.
WritesPage(t) ==
    /\ flash[th[t].seq].bank \in idle
    /\ flash' = [flash EXCEPT ![th[t].seq].data = th[t].buf]
    /\ idle' = idle \ {flash[th[t].seq].bank}
    /\ Unlock(t, PagesOf(th[t]))
    /\ Sleeps(t, {flash[th[t].seq].bank})
    /\ th'[t].vps = [sp \in SubPages |-> th[t].seq] /\ th'[t].issued = {0}
    /\ th'[t].left = th[t].left /\ th'[t].buf = th[t].buf /\ th'[t].pages = th[t].pages
    /\ th'[t].fixed = th[t].fixed /\ th'[t].need = th[t].need

FindsBusy(t) ==
    /\ flash[th[t].seq].bank \notin idle
    /\ Sleeps(t, {flash[th[t].seq].bank}) /\ Works(t, th[t])
    /\ UNCHANGED <<flash, idle, held, lockSig>>

LEMMA IssueWriteEffect ==
  ASSUME Shape, NEW t \in Threads, IssueWrite(t)
  PROVE  /\ Runs(t, "write", "FLASH_WRITE") /\ th[t].issued = {}
         /\ WritesPage(t) \/ FindsBusy(t)
         /\ UNCHANGED <<pmtSig, wb, loaded, requested, map, complete, disk, next>>
<1> DEFINE vps == [sp \in SubPages |-> th[t].seq]
           r1 == [th[t] EXCEPT !.vps = vps]
           r2 == [r1 EXCEPT !.issued = {0}]
           b  == BankOf(r1, 0)
<1>1. /\ Runs(t, "write", "FLASH_WRITE") /\ th[t].issued = {}
      /\ UNCHANGED <<pmtSig, wb, loaded, requested, map, complete, disk, next>>
      /\ IF b \in idle
         THEN /\ flash' = [flash EXCEPT ![r1.seq].data = r1.buf]
              /\ idle' = idle \ {b}
              /\ Unlock(t, PagesOf(r1))
              /\ Sleep(t, r2, {b})
         ELSE /\ Sleep(t, th[t], {b})
              /\ UNCHANGED <<flash, idle, held, lockSig>>
  BY DEF IssueWrite, pmt, host
<1>2. /\ SameRecord(r1, t) /\ r1.vps = vps /\ r1.issued = th[t].issued /\ r1.phase = th[t].phase
      /\ r1.left = th[t].left /\ r1.buf = th[t].buf /\ r1.pages = th[t].pages
      /\ r1.fixed = th[t].fixed /\ r1.need = th[t].need
  <2> HIDE DEF vps
  <2> QED BY FieldsAre DEF SameRecord, Shape
<1>3. b = flash[th[t].seq].bank
  <2>1. 0 \in SubPages
    BY ZeroIsSubPage
  <2> HIDE DEF r1
  <2>2. QED BY <1>2, <2>1 DEF BankOf
<1> HIDE DEF r1, b
<1>4. /\ SameRecord(r2, t) /\ r2.vps = vps /\ r2.issued = {0} /\ r2.phase = th[t].phase
      /\ r2.left = th[t].left /\ r2.buf = th[t].buf /\ r2.pages = th[t].pages
      /\ r2.fixed = th[t].fixed /\ r2.need = th[t].need
  <2> HIDE DEF vps
  <2> QED BY <1>2, FieldsAre DEF SameRecord
<1>5. PagesOf(r1) = PagesOf(th[t])
  BY <1>2 DEF PagesOf
<1> HIDE DEF r2, vps
<1>6. CASE b \in idle
  <2>1. Sleeps(t, {b}) /\ Works(t, r2)
    BY <1>1, <1>4, <1>6, SleepFields
  <2>2. WritesPage(t)
    BY <1>1, <1>2, <1>3, <1>4, <1>5, <1>6, <2>1 DEF Works, WritesPage, SameRecord, vps
  <2>3. QED BY <1>1, <2>2
<1>7. CASE b \notin idle
  <2>1. Sleeps(t, {b}) /\ Works(t, th[t])
    BY <1>1, <1>7, OwnRecord, SleepFields
  <2>2. QED BY <1>1, <1>3, <1>7, <2>1 DEF FindsBusy
<1>8. QED BY <1>6, <1>7

LEMMA EndWriteEffect ==
  ASSUME Shape, NEW t \in Threads, EndWrite(t)
  PROVE  /\ Runs(t, "write", "FLASH_WRITE") /\ th[t].issued = {0} /\ Works(t, th[t])
         /\ UNCHANGED <<lockSig, pmtSig, held, wb, loaded, requested, map, flash, idle, complete, disk, next>>
         /\ IF Ended(th[t]) = {0} THEN Goes(t, "SATA") ELSE Sleeps(t, {BankOf(th[t], 0)})
<1>1. /\ Runs(t, "write", "FLASH_WRITE") /\ th[t].issued = {0}
      /\ UNCHANGED <<lockSig, pmtSig, held, wb, loaded, requested, map, flash, idle, complete, disk, next>>
      /\ IF Ended(th[t]) = {0} THEN GoOn(t, th[t], "SATA") ELSE Sleep(t, th[t], {BankOf(th[t], 0)})
  BY DEF EndWrite, pmt, banks, host
<1>2. CASE Ended(th[t]) = {0}
  BY <1>1, <1>2, OwnRecord, GoOnFields
<1>3. CASE Ended(th[t]) # {0}
  BY <1>1, <1>3, OwnRecord, SleepFields
<1>4. QED BY <1>2, <1>3

LEMMA AcceptEffect ==
  ASSUME Shape, NEW t \in Threads, NEW c \in Cmds, Accept(t, c)
  PROVE  /\ turn = 0 /\ next < MaxCmds /\ th[t].kind = "free" /\ next' = next + 1
         /\ disk' = IF c.kind = "read" THEN disk
                    ELSE [disk EXCEPT ![c.lpn] =
                            [s \in Sectors |-> IF s \in c.sectors THEN next + 1 ELSE @[s]]]
         /\ DOMAIN th' = Threads /\ (\A x \in Threads \ {t} : th'[x] = th[x])
         /\ DOMAIN th'[t] = Fields
         /\ th'[t].kind = c.kind /\ th'[t].lpn = c.lpn /\ th'[t].uid = c.uid
         /\ th'[t].seq = next + 1 /\ th'[t].sectors = c.sectors /\ th'[t].left = c.sectors
         /\ th'[t].want = (IF c.kind = "read" THEN disk[c.lpn] ELSE Blank)
         /\ th'[t].phase = "BUFFER" /\ th'[t].awake = TRUE /\ th'[t].wake = {}
         /\ th'[t].buf = Blank /\ th'[t].pages = [sp \in SubPages |-> NoPage]
         /\ th'[t].vps = [sp \in SubPages |-> 0] /\ th'[t].fixed = {} /\ th'[t].need = {}
         /\ th'[t].issued = {}
         /\ queue' = Append(queue, t)
         /\ UNCHANGED <<turn, lockSig, pmtSig, held, wb, loaded, requested, map, flash, idle, complete>>
<1> DEFINE want == IF c.kind = "read" THEN disk[c.lpn] ELSE Blank
           r == [FreeThread EXCEPT
                   !.kind = c.kind, !.lpn = c.lpn, !.uid = c.uid, !.seq = next',
                   !.sectors = c.sectors, !.left = c.sectors, !.want = want]
<1>1. /\ th' = [th EXCEPT ![t] = r] /\ next' = next + 1
      /\ turn = 0 /\ next < MaxCmds /\ th[t].kind = "free"
      /\ disk' = IF c.kind = "read" THEN disk
                 ELSE [disk EXCEPT ![c.lpn] =
                         [s \in Sectors |-> IF s \in c.sectors THEN next + 1 ELSE @[s]]]
      /\ queue' = Append(queue, t)
      /\ UNCHANGED <<turn, lockSig, pmtSig, held, wb, loaded, requested, map, flash, idle, complete>>
  BY DEF Accept, pmt, banks
<1>2. /\ DOMAIN r = Fields
      /\ r.kind = c.kind /\ r.lpn = c.lpn /\ r.uid = c.uid /\ r.seq = next'
      /\ r.sectors = c.sectors /\ r.left = c.sectors /\ r.want = want
      /\ r.phase = "BUFFER" /\ r.awake = TRUE /\ r.wake = {}
      /\ r.buf = Blank /\ r.pages = [sp \in SubPages |-> NoPage]
      /\ r.vps = [sp \in SubPages |-> 0] /\ r.fixed = {} /\ r.need = {} /\ r.issued = {}
  <2> DEFINE nopages == [sp \in SubPages |-> NoPage]
             novps == [sp \in SubPages |-> 0]
             user == CHOOSE u \in Users : TRUE
             free == [kind |-> "free", phase |-> "BUFFER", awake |-> TRUE, wake |-> {},
                      lpn |-> 1, uid |-> user, seq |-> 0,
                      sectors |-> {}, left |-> {}, want |-> Blank, buf |-> Blank,
                      pages |-> nopages, vps |-> novps, fixed |-> {}, need |-> {}, issued |-> {}]
  <2>1. FreeThread = free
    BY DEF FreeThread
  <2> HIDE DEF nopages, novps, user, want
  <2>2. QED BY <2>1, FieldsAre DEF nopages, novps
<1> HIDE DEF r
<1>3. th'[t] = r /\ DOMAIN th' = Threads /\ \A x \in Threads \ {t} : th'[x] = th[x]
  BY <1>1 DEF Shape
<1>4. QED BY <1>1, <1>2, <1>3

-----------------------------------------------------------------------------
(***************************************************************************)
(* The list of the scheduler.  Threads are listed in the order of their    *)
(* commands; one whose turn is still to come in this pass has a number not *)
(* below that of the current one.  A fresh thread has not run yet.         *)
(***************************************************************************)
Live(t) == th[t].kind # "free"
Fresh(t) == Live(t) /\ th[t].phase = "BUFFER"
ToRun(t) == turn > 0 /\ th[queue[turn]].seq <= th[t].seq
Ahead(t, u) == Live(t) /\ Live(u) /\ th[t].seq < th[u].seq

Listed ==
    /\ queue \in Seq(Threads) /\ turn \in 0 .. Len(queue)
    /\ \A i \in 1 .. Len(queue) : Live(queue[i])
    /\ \A t \in Threads : Live(t) => \E i \in 1 .. Len(queue) : queue[i] = t
    /\ \A i, j \in 1 .. Len(queue) : i < j => th[queue[i]].seq < th[queue[j]].seq

Numbered ==
    /\ next \in 0 .. MaxCmds /\ \A p \in Lpns : p <= next
    /\ \A t \in Threads : Live(t) => th[t].seq \in 1 .. next /\ th[t].seq \notin Lpns

\* Fresh threads are awake and the last of the list; a thread that has slept
\* is awake only while it runs.
FreshLast ==
    /\ \A t \in Threads : Fresh(t) => th[t].awake = TRUE /\ (turn > 0 => ToRun(t))
    /\ \A t, u \in Threads : Fresh(t) /\ Ahead(t, u) => Fresh(u)
    /\ \A t \in Threads : Live(t) /\ th[t].awake = TRUE /\ ~Fresh(t) => turn > 0 /\ t = queue[turn]
    /\ \A t \in Threads : Live(t) => th[t].awake \in BOOLEAN

SchedInv == Listed /\ Numbered /\ FreshLast

LEMMA MaxCmdsNat == MaxCmds \in Nat /\ Lpns \subseteq Nat /\ Lpns \subseteq 1 .. MaxCmds /\ Lpns # {}
  BY LpnsAssumption

LEMMA Positions ==
  ASSUME Listed, Numbered
  PROVE  /\ \A i, j \in 1 .. Len(queue) : th[queue[i]].seq <= th[queue[j]].seq <=> i <= j
         /\ \A t \in Threads : Live(t) => th[t].seq \in Nat
         /\ \A t, u \in Threads : Live(t) /\ Live(u) /\ th[t].seq = th[u].seq => t = u
         /\ turn > 0 => queue[turn] \in Threads /\ Live(queue[turn])
<1>1. \A t \in Threads : Live(t) => th[t].seq \in Nat
  BY MaxCmdsNat DEF Numbered
<1>2. \A i \in 1 .. Len(queue) : queue[i] \in Threads /\ Live(queue[i])
  BY DEF Listed
<1>3. \A i, j \in 1 .. Len(queue) : th[queue[i]].seq <= th[queue[j]].seq <=> i <= j
  <2> TAKE i, j \in 1 .. Len(queue)
  <2>1. th[queue[i]].seq \in Nat /\ th[queue[j]].seq \in Nat
    BY <1>1, <1>2
  <2>2. (i < j => th[queue[i]].seq < th[queue[j]].seq) /\ (j < i => th[queue[j]].seq < th[queue[i]].seq)
    BY DEF Listed
  <2>3. i \in Int /\ j \in Int
    OBVIOUS
  <2>4. CASE i = j
    BY <2>1, <2>3, <2>4
  <2>5. QED BY <2>1, <2>2, <2>3, <2>4
<1>4. \A t, u \in Threads : Live(t) /\ Live(u) /\ th[t].seq = th[u].seq => t = u
  <2> SUFFICES ASSUME NEW t \in Threads, NEW u \in Threads, Live(t), Live(u), th[t].seq = th[u].seq
               PROVE  t = u
    OBVIOUS
  <2>1. PICK i \in 1 .. Len(queue) : queue[i] = t
    BY DEF Listed
  <2>2. PICK j \in 1 .. Len(queue) : queue[j] = u
    BY DEF Listed
  <2>3. i <= j /\ j <= i
    BY <2>1, <2>2, <1>1, <1>3
  <2>4. QED BY <2>1, <2>2, <2>3
<1>5. turn > 0 => queue[turn] \in Threads /\ Live(queue[turn])
  BY <1>2 DEF Listed
<1>6. QED BY <1>1, <1>3, <1>4, <1>5

(***************************************************************************)
(* How the turn moves.                                                     *)
(***************************************************************************)
SameList ==
    /\ queue' = queue
    /\ \A x \in Threads : th'[x].kind = th[x].kind /\ th'[x].seq = th[x].seq

LEMMA TurnStays ==
  ASSUME Listed, Numbered, SameList, turn' = turn
  PROVE  Listed' /\ \A x \in Threads : ToRun(x)' <=> ToRun(x)
<1>1. \A x \in Threads : Live(x)' <=> Live(x)
  BY DEF SameList, Live
<1>2. Listed'
  BY <1>1 DEF Listed, SameList
<1>3. turn > 0 => queue[turn] \in Threads
  BY Positions
<1>4. QED BY <1>2, <1>3 DEF SameList, ToRun

LEMMA TurnMoves ==
  ASSUME Listed, Numbered, SameList, turn > 0, turn' = NextTurn
  PROVE  /\ Listed'
         /\ \A x \in Threads : Live(x) => (ToRun(x)' <=> (ToRun(x) /\ x # queue[turn]))
<1>1. \A x \in Threads : Live(x)' <=> Live(x)
  BY DEF SameList, Live
<1>2. turn \in 1 .. Len(queue) /\ Len(queue) \in Nat /\ turn' \in 0 .. Len(queue)
  BY DEF Listed, NextTurn
<1>3. Listed'
  <2>1. \A i \in 1 .. Len(queue) : queue[i] \in Threads /\ th'[queue[i]].seq = th[queue[i]].seq
    BY DEF Listed, SameList
  <2>2. queue' \in Seq(Threads) /\ \A i \in 1 .. Len(queue) : Live(queue[i])'
    BY <1>1, <2>1 DEF Listed, SameList
  <2>3. \A i, j \in 1 .. Len(queue) : i < j => th'[queue[i]].seq < th'[queue[j]].seq
    BY <2>1 DEF Listed
  <2>4. \A x \in Threads : Live(x)' => \E i \in 1 .. Len(queue) : queue[i] = x
    BY <1>1 DEF Listed
  <2>5. QED BY <1>2, <2>2, <2>3, <2>4 DEF Listed, SameList
<1>4. ASSUME NEW x \in Threads, Live(x) PROVE ToRun(x)' <=> (ToRun(x) /\ x # queue[turn])
  <2>1. PICK i \in 1 .. Len(queue) : queue[i] = x
    BY <1>4 DEF Listed
  <2>2. ToRun(x) <=> turn <= i
    BY <1>2, <2>1, Positions DEF ToRun
  <2>3. x = queue[turn] <=> i = turn
    BY <1>2, <2>1, Positions
  <2>4. ToRun(x)' <=> turn' > 0 /\ th[queue[turn']].seq <= th[x].seq
    <3>1. CASE turn' > 0
      <4>1. queue[turn'] \in Threads
        BY <1>2, <3>1 DEF Listed
      <4>2. QED BY <4>1 DEF SameList, ToRun
    <3>2. QED BY <3>1 DEF ToRun
  <2>5. CASE turn < Len(queue)
    <3>1. turn' = turn + 1 /\ turn' \in 1 .. Len(queue)
      BY <1>2, <2>5 DEF NextTurn
    <3>2. ToRun(x)' <=> turn' <= i
      BY <2>1, <2>4, <3>1, Positions
    <3>3. QED BY <1>2, <2>1, <2>2, <2>3, <3>1, <3>2
  <2>6. CASE ~(turn < Len(queue))
    <3>1. turn' = 0 /\ turn = Len(queue)
      BY <1>2, <2>6 DEF NextTurn
    <3>2. QED BY <1>2, <2>1, <2>2, <2>3, <2>4, <3>1
  <2>7. QED BY <2>5, <2>6
<1>5. QED BY <1>3, <1>4

LEMMA Removed ==
  ASSUME NEW S, NEW q \in Seq(S), NEW n \in 1 .. Len(q)
  PROVE  /\ RemoveAt(q, n) \in Seq(S) /\ Len(RemoveAt(q, n)) = Len(q) - 1
         /\ \A i \in 1 .. Len(q) - 1 : RemoveAt(q, n)[i] = IF i < n THEN q[i] ELSE q[i + 1]
<1> DEFINE a == SubSeq(q, 1, n - 1)
           b == SubSeq(q, n + 1, Len(q))
<1>0. Len(q) \in Nat /\ \A i \in 1 .. Len(q) : q[i] \in S
  OBVIOUS
<1>1. a \in Seq(S) /\ Len(a) = n - 1 /\ \A i \in 1 .. n - 1 : a[i] = q[i]
  BY <1>0
<1>2. b \in Seq(S) /\ Len(b) = Len(q) - n /\ \A i \in 1 .. Len(q) - n : b[i] = q[n + i]
  BY <1>0
<1>3. RemoveAt(q, n) = a \o b
  BY DEF RemoveAt
<1> HIDE DEF a, b
<1>4. a \o b \in Seq(S) /\ Len(a \o b) = Len(q) - 1
  <2>0. a \in Seq(S) /\ b \in Seq(S)
    BY <1>1, <1>2
  <2>1. a \o b \in Seq(S) /\ Len(a \o b) = Len(a) + Len(b)
    BY <2>0, ConcatProperties
  <2>2. QED BY <2>1, <1>0, <1>1, <1>2
<1>5. ASSUME NEW i \in 1 .. Len(q) - 1 PROVE (a \o b)[i] = IF i < n THEN q[i] ELSE q[i + 1]
  <2>1. CASE i < n
    <3>1. (a \o b)[i] = a[i]
      BY <1>0, <1>1, <1>2, <2>1
    <3>2. QED BY <3>1, <1>1, <2>1, <1>0
  <2>2. CASE ~(i < n)
    <3>1. (a \o b)[i] = b[i - Len(a)]
      BY <1>0, <1>1, <1>2, <2>2
    <3>2. i - Len(a) \in 1 .. Len(q) - n /\ n + (i - Len(a)) = i + 1
      BY <1>0, <1>1, <2>2
    <3>3. QED BY <3>1, <3>2, <1>2, <2>2
  <2>3. QED BY <2>1, <2>2
<1>6. QED BY <1>3, <1>4, <1>5

LEMMA TurnEnds ==
  ASSUME Listed, Numbered, NEW t \in Threads, turn > 0, t = queue[turn], End(t),
         DOMAIN th' = Threads, \A x \in Threads \ {t} : th'[x] = th[x], th'[t] = FreeThread
  PROVE  /\ Listed'
         /\ \A x \in Threads \ {t} : Live(x) => (ToRun(x)' <=> ToRun(x))
<1>1. turn \in 1 .. Len(queue) /\ Len(queue) \in Nat /\ queue \in Seq(Threads)
  BY DEF Listed
<1>2. queue' = RemoveAt(queue, turn) /\ turn' = IF turn < Len(queue) THEN turn ELSE 0
  BY DEF End
<1>3. /\ queue' \in Seq(Threads) /\ Len(queue') = Len(queue) - 1
      /\ \A i \in 1 .. Len(queue) - 1 : queue'[i] = IF i < turn THEN queue[i] ELSE queue[i + 1]
  BY <1>1, <1>2, Removed
<1> DEFINE old(i) == IF i < turn THEN i ELSE i + 1
<1>4. \A i \in 1 .. Len(queue) - 1 : old(i) \in 1 .. Len(queue) /\ queue'[i] = queue[old(i)] /\ old(i) # turn
  BY <1>1, <1>3
<1>5. \A i \in 1 .. Len(queue) : queue[i] \in Threads /\ (i # turn => queue[i] # t)
  BY <1>1, Positions DEF Listed
<1>6. ~Live(t)' /\ \A x \in Threads \ {t} : Live(x)' <=> Live(x)
  BY DEF Live, FreeThread
<1>7. \A i, j \in 1 .. Len(queue) - 1 : i < j => old(i) < old(j)
  BY <1>1
<1>8. Listed'
  <2>1. turn' \in 0 .. Len(queue')
    BY <1>1, <1>2, <1>3
  <2>2. ASSUME NEW i \in 1 .. Len(queue') PROVE th'[queue'[i]].kind # "free"
    <3>1. i \in 1 .. Len(queue) - 1
      BY <1>3
    <3>2. queue'[i] = queue[old(i)] /\ old(i) \in 1 .. Len(queue) /\ old(i) # turn
      BY <3>1, <1>4
    <3> HIDE DEF old
    <3>3. queue[old(i)] \in Threads \ {t} /\ Live(queue[old(i)])
      BY <3>2, <1>5 DEF Listed
    <3>4. QED BY <3>2, <3>3 DEF Live
  <2>3. ASSUME NEW x \in Threads, th'[x].kind # "free" PROVE \E i \in 1 .. Len(queue') : queue'[i] = x
    <3>1. x # t /\ Live(x)
      BY <2>3, <1>6 DEF Live
    <3>2. PICK i \in 1 .. Len(queue) : queue[i] = x
      BY <3>1 DEF Listed
    <3>3. CASE i < turn
      <4>1. i \in 1 .. Len(queue) - 1 /\ queue'[i] = x
        BY <1>1, <1>3, <3>2, <3>3
      <4>2. QED BY <4>1, <1>3
    <3>4. CASE i > turn
      <4>1. i - 1 \in 1 .. Len(queue) - 1 /\ queue'[i - 1] = x
        BY <1>1, <1>3, <3>2, <3>4
      <4>2. QED BY <4>1, <1>3
    <3>5. QED BY <1>1, <3>1, <3>2, <3>3, <3>4
  <2>4. ASSUME NEW i \in 1 .. Len(queue'), NEW j \in 1 .. Len(queue'), i < j
        PROVE  th'[queue'[i]].seq < th'[queue'[j]].seq
    <3>1. i \in 1 .. Len(queue) - 1 /\ j \in 1 .. Len(queue) - 1
      BY <1>3
    <3>2. /\ queue'[i] = queue[old(i)] /\ queue'[j] = queue[old(j)] /\ old(i) < old(j)
          /\ old(i) \in 1 .. Len(queue) /\ old(j) \in 1 .. Len(queue)
          /\ old(i) # turn /\ old(j) # turn
      BY <3>1, <2>4, <1>4, <1>7
    <3> HIDE DEF old
    <3>3. /\ queue[old(i)] \in Threads \ {t} /\ queue[old(j)] \in Threads \ {t}
          /\ th[queue[old(i)]].seq < th[queue[old(j)]].seq
      BY <3>2, <1>5 DEF Listed
    <3>4. QED BY <3>2, <3>3
  <2>5. QED BY <1>3, <2>1, <2>2, <2>3, <2>4 DEF Listed, Live
<1>9. ASSUME NEW x \in Threads \ {t}, Live(x) PROVE ToRun(x)' <=> ToRun(x)
  <2>1. PICK i \in 1 .. Len(queue) : queue[i] = x
    BY <1>9 DEF Listed
  <2>2. i # turn
    BY <2>1
  <2>3. ToRun(x) <=> turn < i
    BY <1>1, <2>1, <2>2, Positions DEF ToRun
  <2>4. CASE turn < Len(queue)
    <3>1. turn' = turn /\ turn \in 1 .. Len(queue) - 1 /\ turn + 1 \in 1 .. Len(queue)
      BY <1>1, <1>2, <2>4
    <3>2. queue'[turn] = queue[turn + 1] /\ queue[turn + 1] \in Threads \ {t}
      BY <1>1, <1>3, <1>5, <3>1
    <3>3. ToRun(x)' <=> th[queue[turn + 1]].seq <= th[x].seq
      BY <1>1, <3>1, <3>2 DEF ToRun
    <3>4. th[queue[turn + 1]].seq <= th[x].seq <=> turn + 1 <= i
      BY <2>1, <3>1, Positions
    <3>5. QED BY <1>1, <2>1, <2>3, <3>3, <3>4
  <2>5. CASE ~(turn < Len(queue))
    BY <1>1, <1>2, <2>1, <2>3, <2>5 DEF ToRun
  <2>6. QED BY <2>4, <2>5
<1>10. QED BY <1>8, <1>9

(***************************************************************************)
(* A step of a handler is a step of the current thread, which falls        *)
(* through to a later phase, sleeps in its phase, or ends.                 *)
(***************************************************************************)
Current(t) == turn > 0 /\ t = queue[turn] /\ Live(t) /\ Awake(t)

Steps(t) ==
    \/ \E phase \in Phases \ {"BUFFER"} : Goes(t, phase)
    \/ th[t].phase # "BUFFER" /\ \E signals : Sleeps(t, signals)

LEMMA ReadLoopSteps ==
  ASSUME Shape, NEW t \in Threads, th[t].phase = "FLASH_READ", NEW now, NEW buf,
         NEW phase \in Phases \ {"BUFFER"}, ReadLoop(t, now, buf, phase)
  PROVE  Steps(t)
  BY ReadLoopFields DEF Steps

LEMMA HandlerSteps ==
  ASSUME Shape, NEW t \in Threads, Read(t) \/ Write(t)
  PROVE  Current(t) /\ Steps(t) /\ UNCHANGED <<disk, next>>
<1>1. ASSUME NEW kind \in {"read", "write"}, NEW phase, Runs(t, kind, phase)
      PROVE  Current(t) /\ th[t].phase = phase
  BY <1>1 DEF Runs, Current, Live
<1>0. ASSUME NEW signals, Sleeps(t, signals), th[t].phase # "BUFFER" PROVE Steps(t)
  BY <1>0 DEF Steps
<1>a. ASSUME NEW phase \in {"PMT_LOAD", "FLASH_READ", "SATA"}, Goes(t, phase) PROVE Steps(t)
  BY <1>a DEF Steps, Phases
<1>2. CASE ReadBuffer(t)
  BY <1>2, <1>1, ReadBufferEffect DEF Steps, Phases
<1>3. CASE ReadLock(t)
  <2>1. /\ Runs(t, "read", "LOCK") /\ UNCHANGED <<disk, next>>
        /\ Goes(t, "PMT_LOAD") \/ Sleeps(t, {"lock"})
    BY <1>3, ReadLockEffect
  <2>2. QED BY <2>1, <1>0, <1>1, <1>a
<1>4. CASE LoadForRead(t)
  BY <1>4, <1>1, LoadForReadEffect DEF Steps
<1>5. CASE MakeSegments(t)
  BY <1>5, <1>1, MakeSegmentsEffect DEF Steps, Phases
<1>6. CASE ReadFlash(t)
  BY <1>6, <1>1, ReadFlashEffect, ReadLoopSteps DEF Phases
<1>7. CASE WriteWholePage(t)
  BY <1>7, <1>1, WriteWholePageEffect DEF Steps, Phases
<1>8. CASE PushPartialPage(t)
  BY <1>8, <1>1, PushPartialPageEffect DEF Steps, Phases
<1>9. CASE FlushAndPush(t)
  BY <1>9, <1>1, FlushAndPushEffect DEF Steps, Phases
<1>10. CASE WriteLock(t)
  BY <1>10, <1>1, WriteLockEffect DEF Steps, Phases
<1>11. CASE WritePmtLoad(t)
  <2>1. /\ Runs(t, "write", "PMT_LOAD") /\ UNCHANGED <<disk, next>>
        /\ Goes(t, "FLASH_READ") \/ Sleeps(t, {"pmt"})
    BY <1>11, WritePmtLoadEffect
  <2>2. QED BY <2>1, <1>0, <1>1, <1>a
<1>12. CASE CompleteSubPages(t)
  BY <1>12, <1>1, CompleteSubPagesEffect, ReadLoopSteps DEF Phases
<1>13. CASE AllocatePage(t)
  BY <1>13, <1>1, AllocatePageEffect DEF Steps, Phases
<1>14. CASE WaitForBank(t)
  BY <1>14, <1>1, WaitForBankEffect DEF Steps
<1>15. CASE UpdatePmt(t)
  BY <1>15, <1>1, UpdatePmtEffect DEF Steps, Phases
<1>16. CASE IssueWrite(t)
  <2>1. /\ Runs(t, "write", "FLASH_WRITE") /\ UNCHANGED <<disk, next>>
        /\ \E signals : Sleeps(t, signals)
    BY <1>16, IssueWriteEffect DEF WritesPage, FindsBusy
  <2>2. QED BY <2>1, <1>1 DEF Steps
<1>17. CASE EndWrite(t)
  <2>1. /\ Runs(t, "write", "FLASH_WRITE") /\ UNCHANGED <<disk, next>>
        /\ Goes(t, "SATA") \/ \E signals : Sleeps(t, signals)
    BY <1>17, EndWriteEffect
  <2>2. QED BY <2>1, <1>0, <1>1, <1>a
<1>18. QED
  BY <1>2, <1>3, <1>4, <1>5, <1>6, <1>7, <1>8, <1>9, <1>10, <1>11, <1>12, <1>13, <1>14,
     <1>15, <1>16, <1>17 DEF Read, Write

LEMMA StepsKeep ==
  ASSUME NEW t \in Threads, Steps(t)
  PROVE  Kept(t) /\ SameList /\ (\A x \in Threads : Live(x)' <=> Live(x))
<1>1. Kept(t) /\ queue' = queue
  BY DEF Steps, Goes, Sleeps
<1>2. QED BY <1>1 DEF Kept, SameList, Live

(***************************************************************************)
(* The scheduler's invariant.                                              *)
(***************************************************************************)
\* Who has yet to run, after a step of thread t.
LEMMA ToRunAfterStep ==
  ASSUME Listed, Numbered, NEW t \in Threads, Current(t), Steps(t)
  PROVE  /\ Listed'
         /\ \A x \in Threads : Live(x) /\ x # t => (ToRun(x)' <=> ToRun(x))
         /\ ToRun(t)
         /\ \/ th'[t].awake = TRUE /\ ToRun(t)' /\ turn' = turn /\ queue' = queue
            \/ th'[t].awake = FALSE /\ ~ToRun(t)' /\ th'[t].phase = th[t].phase
<1>1. SameList /\ turn > 0 /\ t = queue[turn] /\ Live(t)
  BY StepsKeep DEF Current
<1>2. ToRun(t)
  BY <1>1, Positions DEF ToRun
<1>3. CASE \E phase \in Phases \ {"BUFFER"} : Goes(t, phase)
  <2>1. turn' = turn /\ th'[t].awake = TRUE
    BY <1>3 DEF Goes
  <2>2. QED BY <1>1, <1>2, <2>1, TurnStays DEF SameList
<1>4. CASE \E signals : Sleeps(t, signals)
  <2>1. turn' = NextTurn /\ th'[t].awake = FALSE /\ th'[t].phase = th[t].phase
    BY <1>4 DEF Sleeps
  <2>2. QED BY <1>1, <1>2, <2>1, TurnMoves
<1>5. QED BY <1>3, <1>4 DEF Steps

LEMMA SchedHandler ==
  ASSUME SchedInv, Shape, NEW t \in Threads, Read(t) \/ Write(t)
  PROVE  SchedInv'
<1>1. Current(t) /\ Steps(t) /\ next' = next /\ Listed /\ Numbered /\ FreshLast
  BY HandlerSteps DEF SchedInv
<1>2. Kept(t) /\ SameList /\ \A x \in Threads : Live(x)' <=> Live(x)
  BY <1>1, StepsKeep
<1>3. /\ Listed'
      /\ \A x \in Threads : Live(x) /\ x # t => (ToRun(x)' <=> ToRun(x))
      /\ \/ th'[t].awake = TRUE /\ ToRun(t)' /\ turn' = turn /\ queue' = queue
         \/ th'[t].awake = FALSE /\ th'[t].phase = th[t].phase
  BY <1>1, ToRunAfterStep
<1>4. Numbered'
  BY <1>1, <1>2 DEF Numbered, SameList
<1>5. ~Fresh(t)'
  BY <1>1 DEF Steps, Fresh, Goes, Sleeps
<1>6. \A x \in Threads \ {t} : (Fresh(x)' <=> Fresh(x)) /\ th'[x] = th[x]
  BY <1>2 DEF Fresh, Kept
<1>7. \A x, y \in Threads : Ahead(x, y)' <=> Ahead(x, y)
  BY <1>2 DEF Ahead, SameList
<1>8. turn > 0 /\ t = queue[turn] /\ Live(t) /\ th[t].seq \in Nat
  BY <1>1, Positions DEF Current
<1>9. FreshLast'
  <2>1. ASSUME NEW x \in Threads, Fresh(x)' PROVE th'[x].awake = TRUE /\ (turn' > 0 => ToRun(x)')
    BY <2>1, <1>1, <1>3, <1>5, <1>6, <1>8 DEF FreshLast, Fresh
  <2>2. ASSUME NEW x \in Threads, NEW y \in Threads, Fresh(x)', Ahead(x, y)' PROVE Fresh(y)'
    <3>1. x # t /\ Fresh(x) /\ Ahead(x, y) /\ Fresh(y)
      BY <2>2, <1>1, <1>5, <1>6, <1>7 DEF FreshLast
    <3>2. y # t
      <4>1. ToRun(x) /\ th[x].seq \in Nat /\ Live(x)
        BY <3>1, <1>1, <1>8, Positions DEF FreshLast, Fresh
      <4>2. th[t].seq <= th[x].seq
        BY <4>1, <1>8 DEF ToRun
      <4>3. QED BY <3>1, <4>1, <4>2, <1>8 DEF Ahead
    <3>3. QED BY <3>1, <3>2, <1>6
  <2>3. ASSUME NEW x \in Threads, Live(x)', th'[x].awake = TRUE, ~Fresh(x)' PROVE turn' > 0 /\ x = queue'[turn']
    <3>1. CASE x = t
      BY <2>3, <3>1, <1>3, <1>8
    <3>2. CASE x # t
      <4>1. Live(x) /\ ~Fresh(x) /\ th[x].awake = TRUE
        BY <2>3, <3>2, <1>2, <1>6
      <4>2. QED BY <4>1, <3>2, <1>1, <1>8 DEF FreshLast
    <3>3. QED BY <3>1, <3>2
  <2>4. \A x \in Threads : Live(x)' => th'[x].awake \in BOOLEAN
    BY <1>1, <1>2, <1>3, <1>6 DEF FreshLast
  <2>5. QED BY <2>1, <2>2, <2>3, <2>4 DEF FreshLast
<1>10. QED BY <1>3, <1>4, <1>9 DEF SchedInv

LEMMA SchedFinish ==
  ASSUME SchedInv, Shape, NEW t \in Threads, Finish(t)
  PROVE  SchedInv'
<1>1. /\ Listed /\ Numbered /\ FreshLast /\ turn > 0 /\ t = queue[turn]
      /\ DOMAIN th' = Threads /\ (\A x \in Threads \ {t} : th'[x] = th[x]) /\ th'[t] = FreeThread
      /\ End(t) /\ next' = next /\ th[t].phase # "BUFFER"
  BY FinishEffect DEF SchedInv, Runs
<1>2. Listed' /\ \A x \in Threads \ {t} : Live(x) => (ToRun(x)' <=> ToRun(x))
  BY <1>1, TurnEnds
<1>3. ~Live(t)' /\ \A x \in Threads \ {t} : (Live(x)' <=> Live(x)) /\ (Fresh(x)' <=> Fresh(x))
  BY <1>1 DEF Live, Fresh, FreeThread
<1>4. Numbered'
  BY <1>1, <1>3 DEF Numbered
<1>5. FreshLast'
  <2>1. ASSUME NEW x \in Threads, Fresh(x)' PROVE th'[x].awake = TRUE /\ (turn' > 0 => ToRun(x)')
    <3>1. x # t /\ Fresh(x) /\ Live(x)
      BY <2>1, <1>3 DEF Fresh
    <3>2. QED BY <3>1, <1>1, <1>2 DEF FreshLast
  <2>2. ASSUME NEW x \in Threads, NEW y \in Threads, Fresh(x)', Ahead(x, y)' PROVE Fresh(y)'
    <3>1. x # t /\ y # t
      BY <2>2, <1>3 DEF Ahead
    <3>2. Fresh(x) /\ Ahead(x, y)
      BY <2>2, <3>1, <1>1, <1>3 DEF Ahead
    <3>3. QED BY <3>1, <3>2, <1>1, <1>3 DEF FreshLast
  <2>3. ASSUME NEW x \in Threads, Live(x)', th'[x].awake = TRUE PROVE Fresh(x)'
    <3>1. x # t /\ Live(x) /\ th[x].awake = TRUE
      BY <2>3, <1>1, <1>3
    <3>2. QED BY <3>1, <1>1, <1>3 DEF FreshLast
  <2>4. \A x \in Threads : Live(x)' => th'[x].awake \in BOOLEAN
    BY <1>1, <1>3 DEF FreshLast
  <2>5. QED BY <2>1, <2>2, <2>3, <2>4 DEF FreshLast
<1>6. QED BY <1>2, <1>4, <1>5 DEF SchedInv

LEMMA SchedSkip == ASSUME SchedInv, Skip PROVE SchedInv'
<1>1. /\ Listed /\ Numbered /\ FreshLast /\ turn > 0 /\ ~Awake(queue[turn]) /\ turn' = NextTurn
      /\ queue' = queue /\ th' = th /\ next' = next
  BY DEF SchedInv, Skip, host
<1>2. SameList
  BY <1>1 DEF SameList
<1>3. Listed' /\ \A x \in Threads : Live(x) => (ToRun(x)' <=> (ToRun(x) /\ x # queue[turn]))
  BY <1>1, <1>2, TurnMoves
<1>4. queue[turn] \in Threads /\ Live(queue[turn]) /\ th[queue[turn]].awake # TRUE
  BY <1>1, Positions DEF Awake
<1>5. FreshLast'
  <2>1. ASSUME NEW x \in Threads, Fresh(x)' PROVE th'[x].awake = TRUE /\ (turn' > 0 => ToRun(x)')
    <3>1. Fresh(x) /\ Live(x) /\ x # queue[turn]
      BY <2>1, <1>1, <1>4 DEF Fresh, Live, FreshLast
    <3>2. QED BY <3>1, <1>1, <1>3 DEF FreshLast
  <2>2. QED BY <2>1, <1>1, <1>4 DEF FreshLast, Fresh, Ahead, Live
<1>6. Numbered'
  BY <1>1 DEF Numbered, Live
<1>7. QED BY <1>3, <1>5, <1>6 DEF SchedInv

LEMMA SchedPass == ASSUME SchedInv, StartPass PROVE SchedInv' /\ \A x \in Threads : Live(x) => ToRun(x)'
<1>1. /\ Listed /\ Numbered /\ FreshLast /\ turn = 0 /\ turn' = (IF queue = <<>> THEN 0 ELSE 1)
      /\ queue' = queue /\ th' = th /\ next' = next
  BY DEF SchedInv, StartPass, host
<1>2. queue \in Seq(Threads) /\ Len(queue) \in Nat
  BY <1>1 DEF Listed
<1>3. ASSUME NEW x \in Threads, Live(x) PROVE ToRun(x)'
  <2>1. PICK i \in 1 .. Len(queue) : queue[i] = x
    BY <1>1, <1>3 DEF Listed
  <2>2. turn' = 1 /\ 1 \in 1 .. Len(queue)
    BY <1>1, <1>2, <2>1
  <2>3. th[queue[1]].seq <= th[x].seq
    BY <1>1, <2>1, <2>2, Positions
  <2>4. QED BY <1>1, <2>2, <2>3 DEF ToRun
<1>4. Listed'
  <2>1. turn' \in 0 .. Len(queue)
    BY <1>1, <1>2, EmptySeq
  <2>2. QED BY <1>1, <2>1 DEF Listed, Live
<1>5. FreshLast'
  BY <1>1, <1>3 DEF FreshLast, Fresh, Ahead, Live
<1>6. Numbered'
  BY <1>1 DEF Numbered, Live
<1>7. QED BY <1>3, <1>4, <1>5, <1>6 DEF SchedInv

LEMMA SchedAccept ==
  ASSUME SchedInv, Shape, NEW t \in Threads, NEW c \in Cmds, Accept(t, c)
  PROVE  SchedInv'
<1>1. /\ Listed /\ Numbered /\ FreshLast /\ turn = 0 /\ turn' = 0 /\ next < MaxCmds /\ next' = next + 1
      /\ ~Live(t) /\ (\A x \in Threads \ {t} : th'[x] = th[x])
      /\ th'[t].kind = c.kind /\ th'[t].seq = next + 1 /\ th'[t].phase = "BUFFER" /\ th'[t].awake = TRUE
      /\ queue' = Append(queue, t)
  BY AcceptEffect DEF SchedInv, Live
<1>2. c.kind # "free"
  BY CmdsAssumption DEF CmdType
<1>3. queue \in Seq(Threads) /\ Len(queue) \in Nat /\ next \in Nat
  BY <1>1, MaxCmdsNat DEF Listed, Numbered
<1>4. /\ queue' \in Seq(Threads) /\ Len(queue') = Len(queue) + 1 /\ queue'[Len(queue) + 1] = t
      /\ \A i \in 1 .. Len(queue) : queue'[i] = queue[i]
  BY <1>1, <1>3
<1>5. Live(t)' /\ \A x \in Threads \ {t} : (Live(x)' <=> Live(x)) /\ (Fresh(x)' <=> Fresh(x))
  BY <1>1, <1>2 DEF Live, Fresh
<1>6. \A i \in 1 .. Len(queue) : queue[i] \in Threads \ {t} /\ Live(queue[i])
  BY <1>1, <1>3 DEF Listed
<1>7. \A x \in Threads : Live(x) => th[x].seq \in 1 .. next
  BY <1>1 DEF Numbered
<1>8. Listed'
  <2>1. turn' \in 0 .. Len(queue')
    BY <1>1, <1>3, <1>4
  <2>2. ASSUME NEW i \in 1 .. Len(queue') PROVE th'[queue'[i]].kind # "free"
    <3>1. CASE i = Len(queue) + 1
      BY <3>1, <1>4, <1>1, <1>2
    <3>2. CASE i # Len(queue) + 1
      <4>1. i \in 1 .. Len(queue)
        BY <3>2, <1>3, <1>4
      <4>2. QED BY <4>1, <1>4, <1>6, <1>1 DEF Live
    <3>3. QED BY <3>1, <3>2
  <2>3. ASSUME NEW x \in Threads, th'[x].kind # "free" PROVE \E i \in 1 .. Len(queue') : queue'[i] = x
    <3>1. CASE x = t
      <4>1. Len(queue) + 1 \in 1 .. Len(queue')
        BY <1>3, <1>4
      <4>2. QED BY <3>1, <4>1, <1>4
    <3>2. CASE x # t
      <4>1. PICK i \in 1 .. Len(queue) : queue[i] = x
        BY <2>3, <3>2, <1>1, <1>5 DEF Listed, Live
      <4>2. i \in 1 .. Len(queue')
        BY <4>1, <1>3, <1>4
      <4>3. QED BY <4>1, <4>2, <1>4
    <3>3. QED BY <3>1, <3>2
  <2>4. ASSUME NEW i \in 1 .. Len(queue'), NEW j \in 1 .. Len(queue'), i < j
        PROVE  th'[queue'[i]].seq < th'[queue'[j]].seq
    <3>1. i \in 1 .. Len(queue)
      BY <2>4, <1>3, <1>4
    <3>2. th'[queue'[i]].seq = th[queue[i]].seq /\ th[queue[i]].seq \in 1 .. next
      BY <3>1, <1>1, <1>4, <1>6, <1>7
    <3>3. CASE j = Len(queue) + 1
      <4>1. th'[queue'[j]].seq = next + 1
        BY <3>3, <1>4, <1>1
      <4>2. QED BY <3>2, <4>1, <1>3
    <3>4. CASE j # Len(queue) + 1
      <4>1. j \in 1 .. Len(queue)
        BY <3>4, <1>3, <1>4
      <4>2. th'[queue'[j]].seq = th[queue[j]].seq
        BY <4>1, <1>1, <1>4, <1>6
      <4>3. QED BY <3>1, <3>2, <4>1, <4>2, <2>4, <1>1 DEF Listed
    <3>5. QED BY <3>3, <3>4
  <2>5. QED BY <1>4, <2>1, <2>2, <2>3, <2>4 DEF Listed, Live
<1>9. Numbered'
  <2>1. next' \in 0 .. MaxCmds /\ \A p \in Lpns : p <= next'
    BY <1>1, <1>3, MaxCmdsNat DEF Numbered
  <2>2. ASSUME NEW x \in Threads, Live(x)' PROVE th'[x].seq \in 1 .. next' /\ th'[x].seq \notin Lpns
    <3>1. CASE x = t
      <4>1. next + 1 \notin Lpns
        BY <1>1, <1>3, MaxCmdsNat DEF Numbered
      <4>2. QED BY <3>1, <4>1, <1>1, <1>3
    <3>2. CASE x # t
      BY <2>2, <3>2, <1>1, <1>3, <1>5 DEF Numbered
    <3>3. QED BY <3>1, <3>2
  <2>3. QED BY <2>1, <2>2 DEF Numbered
<1>10. FreshLast'
  <2>1. Fresh(t)'
    BY <1>1, <1>5 DEF Fresh
  <2>2. ASSUME NEW x \in Threads, NEW y \in Threads, Fresh(x)', Ahead(x, y)' PROVE Fresh(y)'
    <3>1. CASE y = t
      BY <3>1, <2>1
    <3>2. CASE y # t
      <4>1. x # t
        <5>1. Live(y) /\ th'[y].seq = th[y].seq
          BY <2>2, <3>2, <1>1, <1>5 DEF Ahead
        <5>2. th'[y].seq \in 1 .. next /\ th'[t].seq = next + 1
          BY <5>1, <1>1, <1>7
        <5>3. QED BY <2>2, <5>2, <1>3 DEF Ahead
      <4>2. QED BY <2>2, <3>2, <4>1, <1>1, <1>5 DEF FreshLast, Ahead
    <3>3. QED BY <3>1, <3>2
  <2>3. ASSUME NEW x \in Threads, Live(x)', th'[x].awake = TRUE PROVE Fresh(x)'
    BY <2>1, <2>3, <1>1, <1>5 DEF FreshLast
  <2>4. ASSUME NEW x \in Threads, Live(x)'
        PROVE  th'[x].awake \in BOOLEAN /\ (Fresh(x)' => th'[x].awake = TRUE)
    BY <2>4, <1>1, <1>5 DEF FreshLast
  <2>5. (\A x \in Threads : Fresh(x)' => Live(x)') /\ ~(turn' > 0)
    BY <1>1 DEF Fresh
  <2>6. QED BY <2>2, <2>3, <2>4, <2>5 DEF FreshLast
<1>11. QED BY <1>8, <1>9, <1>10 DEF SchedInv

LEMMA SchedInit == Init => SchedInv
<1> SUFFICES ASSUME Init PROVE SchedInv
  OBVIOUS
<1>1. /\ queue = <<>> /\ turn = 0 /\ th = [t \in Threads |-> FreeThread]
      /\ next = Cardinality(Lpns)
  BY DEF Init
<1>2. \A t \in Threads : ~Live(t)
  BY <1>1 DEF Live, FreeThread
<1>3. PICK n \in 1 .. MaxCmds : Lpns = 1 .. n
  BY LpnsAssumption
<1>4. next = n
  <2>1. n \in Int /\ 1 \in Int
    BY MaxCmdsNat
  <2>2. Cardinality(1 .. n) = IF 1 > n THEN 0 ELSE n - 1 + 1
    BY <2>1, FS_Interval
  <2>3. QED BY <1>1, <1>3, <2>2
<1>5. Numbered
  BY <1>2, <1>3, <1>4, MaxCmdsNat DEF Numbered
<1>6. Listed
  BY <1>1, <1>2 DEF Listed
<1>7. QED BY <1>2, <1>5, <1>6 DEF SchedInv, FreshLast, Fresh, Ahead

LEMMA SchedNext == IInv /\ SchedInv /\ [Next]_vars => SchedInv'
<1> SUFFICES ASSUME Shape, SchedInv, [Next]_vars PROVE SchedInv'
  BY DEF IInv
<1>1. CASE UNCHANGED vars
  <2>1. UNCHANGED <<queue, turn, th, next>>
    BY <1>1 DEF vars, sched, host
  <2>2. QED BY <2>1 DEF SchedInv, Listed, Numbered, FreshLast, Live, Fresh, Ahead, ToRun
<1>2. QED
  BY <1>1, SchedHandler, SchedFinish, SchedSkip, SchedPass, SchedAccept DEF Next, Handler

-----------------------------------------------------------------------------
(***************************************************************************)
(* Types.                                                                  *)
(***************************************************************************)
SectorType == [val : {Absent} \cup (1 .. MaxCmds), uid : Users \cup {NoUser}]
PageType   == [bank : Banks, uid : Users, data : [Sectors -> Values]]

WorldOK ==
    /\ lockSig \in BOOLEAN /\ pmtSig \in BOOLEAN
    /\ held \in [Lpns -> [Threads -> 0 .. 3]]
    /\ wb \in [Lpns -> [Sectors -> SectorType]]
    /\ map \in [Lpns -> [SubPages -> Vps]]
    /\ loaded \subseteq Lpns /\ requested \subseteq Lpns
    /\ flash \in [Vps -> PageType]
    /\ idle \subseteq Banks /\ complete \subseteq Banks
    /\ disk \in [Lpns -> [Sectors -> 1 .. MaxCmds]]

ThreadsOK == \A t \in Threads : ThreadOK(th[t])

Typed == WorldOK /\ ThreadsOK

WorkOK(r) ==
    /\ r.left \subseteq Sectors /\ r.buf \in [Sectors -> Values]
    /\ r.pages \in [SubPages -> Lpns \cup {NoPage}] /\ r.vps \in [SubPages -> Vps]
    /\ r.fixed \subseteq SubPages /\ r.issued \subseteq SubPages /\ r.need \subseteq SubPages

LEMMA SectorParts == \A s \in Sectors : s[1] \in SubPages /\ s[2] \in Parts
  BY DEF Sectors

LEMMA CommandOK ==
  ASSUME NEW c \in Cmds
  PROVE  /\ c.kind \in {"read", "write"} /\ c.lpn \in Lpns /\ c.uid \in Users
         /\ c.sectors \subseteq Sectors
  BY CmdsAssumption DEF CmdType

(***************************************************************************)
(* The page lock's answer: the strongest lock that the locks of the other  *)
(* owners allow, and not above the one asked for or the one held.          *)
(***************************************************************************)
LEMMA AnswerSpec ==
  ASSUME NEW t \in Threads, NEW p \in Lpns, NEW type \in 1 .. 3, held[p][t] \in 0 .. 3
  PROVE  /\ Answer(t, p, type) \in 0 .. 3
         /\ LockTable!IsAnswer(t, p, type, Answer(t, p, type))
<1> DEFINE wanted == {u \in LockTable!Grantable(t, p) : u <= type \/ u <= held[p][t]}
<1>1. 0 \in wanted
  BY DEF LockTable!Grantable, LockTable!Compatible, LockTable!LockTypes, LockTable!PAGE_LOCK_NULL,
         LockTable!PAGE_LOCK_WRITE
<1>2. wanted \subseteq 0 .. 3
  BY DEF LockTable!Grantable, LockTable!LockTypes, LockTable!PAGE_LOCK_NULL, LockTable!PAGE_LOCK_WRITE
<1> HIDE DEF wanted
<1>3. \E g \in wanted : \A u \in wanted : u <= g
  <2>1. CASE 3 \in wanted
    BY <1>2, <2>1
  <2>2. CASE 3 \notin wanted /\ 2 \in wanted
    BY <1>2, <2>2
  <2>3. CASE 3 \notin wanted /\ 2 \notin wanted /\ 1 \in wanted
    BY <1>2, <2>3
  <2>4. CASE 3 \notin wanted /\ 2 \notin wanted /\ 1 \notin wanted
    BY <1>1, <1>2, <2>4
  <2>5. QED BY <2>1, <2>2, <2>3, <2>4
<1>4. PICK g \in wanted : \A u \in wanted : u <= g
  BY <1>3
<1>5. g \in LockTable!LockTypes /\ LockTable!IsAnswer(t, p, type, g)
  BY <1>2, <1>4 DEF wanted, LockTable!IsAnswer, LockTable!LockTypes, LockTable!PAGE_LOCK_NULL,
         LockTable!PAGE_LOCK_WRITE
<1>6. Answer(t, p, type) \in LockTable!LockTypes /\ LockTable!IsAnswer(t, p, type, Answer(t, p, type))
  BY <1>5 DEF Answer
<1>7. QED BY <1>6 DEF LockTable!LockTypes, LockTable!PAGE_LOCK_NULL, LockTable!PAGE_LOCK_WRITE

LEMMA LockedType ==
  ASSUME held \in [Lpns -> [Threads -> 0 .. 3]], NEW t \in Threads, NEW ps, NEW type \in 1 .. 3
  PROVE  Locked(t, ps, type) \in [Lpns -> [Threads -> 0 .. 3]]
<1>1. \A p \in Lpns : held[p] \in [Threads -> 0 .. 3] /\ held[p][t] \in 0 .. 3
  OBVIOUS
<1>2. \A p \in Lpns : Answer(t, p, type) \in 0 .. 3
  BY <1>1, AnswerSpec
<1>3. QED BY <1>1, <1>2 DEF Locked

LEMMA UnlockType ==
  ASSUME WorldOK, NEW t \in Threads, NEW ps, Unlock(t, ps)
  PROVE  held' \in [Lpns -> [Threads -> 0 .. 3]] /\ lockSig' \in BOOLEAN
<1>1. held' \in [Lpns -> [Threads -> 0 .. 3]]
  BY DEF WorldOK, Unlock
<1>2. lockSig' \in BOOLEAN
  BY DEF WorldOK, Unlock
<1>3. QED BY <1>1, <1>2

(***************************************************************************)
(* The write buffer.                                                       *)
(***************************************************************************)
StoreType == [Lpns -> [Sectors -> SectorType]]

LEMMA NoSectorType == Buffer!NoSector \in SectorType
  BY DEF Buffer!NoSector, SectorType

LEMMA PushedType ==
  ASSUME NEW store \in StoreType, NEW r, r.lpn \in Lpns, r.uid \in Users, r.seq \in 1 .. MaxCmds
  PROVE  Pushed(store, r) \in StoreType
<1> DEFINE new(s) == IF s \in r.sectors THEN [val |-> r.seq, uid |-> r.uid]
                     ELSE IF \E x \in r.sectors : x[1] = s[1] /\ store[r.lpn][s].uid # r.uid
                          THEN Buffer!NoSector ELSE store[r.lpn][s]
<1>1. Pushed(store, r) = [store EXCEPT ![r.lpn] = [s \in Sectors |-> new(s)]]
  BY DEF Pushed, Buffer!Push, Sectors, Buffer!Sectors, StoreType
<1>2. \A s \in Sectors : new(s) \in SectorType
  <2> TAKE s \in Sectors
  <2>1. store[r.lpn][s] \in SectorType
    BY DEF StoreType
  <2>2. [val |-> r.seq, uid |-> r.uid] \in SectorType
    BY DEF SectorType
  <2>3. QED BY <2>1, <2>2, NoSectorType
<1> HIDE DEF new
<1>3. [s \in Sectors |-> new(s)] \in [Sectors -> SectorType]
  BY <1>2
<1>4. QED BY <1>1, <1>3 DEF StoreType

LEMMA FlushedType ==
  ASSUME wb \in StoreType, NEW pages
  PROVE  Buffer!Flushed(pages) \in StoreType
  BY NoSectorType DEF Buffer!Flushed, StoreType, Sectors, Buffer!Sectors

LEMMA DroppedType ==
  ASSUME wb \in StoreType, NEW p \in Lpns
  PROVE  Buffer!Dropped(wb, p) \in StoreType
  BY NoSectorType DEF Buffer!Dropped, StoreType, Sectors, Buffer!Sectors

LEMMA InBufferValue ==
  ASSUME wb \in StoreType, NEW p \in Lpns, NEW s \in Sectors
  PROVE  /\ wb[p][s] \in SectorType
         /\ Buffer!InBuffer(p, s) => wb[p][s].val \in 1 .. MaxCmds
  BY DEF StoreType, SectorType, Buffer!InBuffer

LEMMA ValuesAre == 1 .. MaxCmds \subseteq Values /\ 0 \in Values /\ Zeros \in Values /\ Absent \notin Values
  BY MaxCmdsNat DEF Values, Zeros, Absent

(***************************************************************************)
(* The types are kept by every step.                                       *)
(***************************************************************************)
Wakers == {"lock", "pmt"} \cup Banks

LEMMA WorkTyped ==
  ASSUME ThreadsOK, NEW t \in Threads
  PROVE  /\ WorkOK(th[t]) /\ th[t].lpn \in Lpns /\ th[t].uid \in Users /\ th[t].seq \in 0 .. MaxCmds
         /\ th[t].kind \in {"free", "read", "write"} /\ th[t].phase \in Phases
         /\ th[t].sectors \subseteq Sectors /\ th[t].want \in [Sectors -> Values]
         /\ th[t].awake \in BOOLEAN /\ th[t].wake \subseteq Wakers
  BY DEF ThreadsOK, ThreadOK, WorkOK, Wakers

LEMMA SameWorkTyped ==
  ASSUME ThreadsOK, NEW t \in Threads, Works(t, th[t])
  PROVE  WorkOK(th'[t])
  BY DEF ThreadsOK, ThreadOK, WorkOK, Works

LEMMA ThreadsKept ==
  ASSUME ThreadsOK, NEW t \in Threads, Kept(t), WorkOK(th'[t]), th'[t].phase \in Phases,
         th'[t].awake \in BOOLEAN, th'[t].wake \subseteq Wakers
  PROVE  ThreadsOK'
<1>1. ASSUME NEW x \in Threads \ {t} PROVE ThreadOK(th'[x])
  BY DEF Kept, ThreadsOK
<1>2. ThreadOK(th'[t])
  BY DEF Kept, ThreadsOK, ThreadOK, WorkOK, Wakers
<1>3. QED BY <1>1, <1>2 DEF ThreadsOK, ThreadOK

LEMMA GoesTyped ==
  ASSUME ThreadsOK, NEW t \in Threads, NEW phase \in Phases, Goes(t, phase), WorkOK(th'[t])
  PROVE  ThreadsOK'
  BY ThreadsKept DEF Goes

LEMMA SleepsTyped ==
  ASSUME ThreadsOK, NEW t \in Threads, NEW signals \in SUBSET Wakers, Sleeps(t, signals),
         WorkOK(th'[t])
  PROVE  ThreadsOK'
  BY ThreadsKept, WorkTyped DEF Sleeps

LEMMA PhasesAre ==
  {"BUFFER", "LOCK", "PMT_LOAD", "FLASH_READ", "BANK", "PMT_UPDATE", "FLASH_WRITE", "SATA"} = Phases
  /\ {"lock"} \in SUBSET Wakers /\ {"pmt"} \in SUBSET Wakers /\ Banks \in SUBSET Wakers
  BY DEF Phases, Wakers

\* The data that a pull finds, and the place of a virtual page.
LEMMA PulledType ==
  ASSUME WorldOK, NEW p \in Lpns, NEW s \in Sectors, NEW uid
  PROVE  Buffer!Pulled(p, s, uid) # Absent => Buffer!Pulled(p, s, uid) \in Values
  BY InBufferValue, ValuesAre DEF Buffer!Pulled, WorldOK, StoreType, SectorType

LEMMA BankType ==
  ASSUME WorldOK, NEW v \in Vps
  PROVE  /\ flash[v].bank \in Banks /\ flash[v].uid \in Users
         /\ flash[v].data \in [Sectors -> Values]
  BY DEF WorldOK, PageType

LEMMA TypedReadBuffer == ASSUME Typed, Shape, NEW t \in Threads, ReadBuffer(t) PROVE Typed'
<1>1. ThreadsOK /\ WorldOK /\ WorldOK'
  BY ReadBufferEffect DEF Typed, WorldOK
<1>2. th[t].lpn \in Lpns /\ th[t].sectors \subseteq Sectors
  BY <1>1, WorkTyped
<1>3. th'[t].buf \in [Sectors -> Values]
  <2>1. ASSUME NEW s \in Sectors
        PROVE  (IF s \in FoundBy(t) THEN Buffer!Pulled(th[t].lpn, s, th[t].uid) ELSE 0) \in Values
    BY <1>1, <1>2, PulledType, ValuesAre DEF FoundBy
  <2>2. QED BY <2>1, ReadBufferEffect
<1>4. WorkOK(th'[t])
  BY <1>1, <1>2, <1>3, WorkTyped, ReadBufferEffect DEF WorkOK
<1>5. \E phase \in Phases : Goes(t, phase)
  BY ReadBufferEffect, PhasesAre
<1>6. QED BY <1>1, <1>4, <1>5, GoesTyped DEF Typed

LEMMA TypedReadLock == ASSUME Typed, Shape, NEW t \in Threads, ReadLock(t) PROVE Typed'
<1>1. ThreadsOK /\ WorldOK
  BY DEF Typed
<1>2. held' \in [Lpns -> [Threads -> 0 .. 3]]
  <2>1. held \in [Lpns -> [Threads -> 0 .. 3]] /\ 1 \in 1 .. 3
    BY <1>1 DEF WorldOK
  <2>2. Locked(t, {th[t].lpn}, 1) \in [Lpns -> [Threads -> 0 .. 3]]
    BY <2>1, LockedType
  <2>3. QED BY <2>2, ReadLockEffect
<1>3. WorldOK'
  BY <1>1, <1>2, ReadLockEffect DEF WorldOK
<1>4. WorkOK(th'[t])
  BY <1>1, ReadLockEffect, SameWorkTyped
<1>5. Goes(t, "PMT_LOAD") \/ Sleeps(t, {"lock"})
  BY ReadLockEffect
<1>6. ThreadsOK'
  BY <1>1, <1>4, <1>5, GoesTyped, SleepsTyped, PhasesAre
<1>7. QED BY <1>3, <1>6 DEF Typed

LEMMA TypedLoadForRead == ASSUME Typed, Shape, NEW t \in Threads, LoadForRead(t) PROVE Typed'
<1>1. ThreadsOK /\ WorldOK /\ th[t].lpn \in Lpns
  BY WorkTyped DEF Typed
<1>2. WorldOK'
  BY <1>1, LoadForReadEffect DEF WorldOK
<1>3. WorkOK(th'[t])
  BY <1>1, LoadForReadEffect, SameWorkTyped
<1>4. Sleeps(t, {"pmt"})
  BY LoadForReadEffect
<1>5. QED BY <1>1, <1>2, <1>3, <1>4, SleepsTyped, PhasesAre DEF Typed

LEMMA TypedMakeSegments == ASSUME Typed, Shape, NEW t \in Threads, MakeSegments(t) PROVE Typed'
<1>1. ThreadsOK /\ WorldOK /\ th[t].lpn \in Lpns
  BY WorkTyped DEF Typed
<1>2. held' \in [Lpns -> [Threads -> 0 .. 3]] /\ lockSig' \in BOOLEAN
  BY <1>1, MakeSegmentsEffect, UnlockType
<1>3. WorldOK'
  BY <1>1, <1>2, MakeSegmentsEffect DEF WorldOK
<1>4. map[th[t].lpn] \in [SubPages -> Vps] /\ Segments(th[t], map[th[t].lpn]) \subseteq SubPages
  BY <1>1 DEF WorldOK, Segments
<1>5. WorkOK(th'[t])
  BY <1>1, <1>4, MakeSegmentsEffect, WorkTyped DEF WorkOK
<1>6. Goes(t, "FLASH_READ")
  BY MakeSegmentsEffect
<1>7. QED BY <1>1, <1>3, <1>5, <1>6, GoesTyped, PhasesAre DEF Typed

LEMMA TypedReadLoop ==
  ASSUME Typed, Shape, NEW t \in Threads, NEW now, NEW buf \in [Sectors -> Values],
         NEW phase \in Phases, ReadLoop(t, now, buf, phase),
         UNCHANGED <<lockSig, pmtSig, held, wb, loaded, requested, map, flash, disk>>
  PROVE  Typed'
<1>1. ThreadsOK /\ WorldOK /\ WorkOK(th[t])
  BY WorkTyped DEF Typed
<1>9. Loops(t, now, buf) /\ idle' \subseteq idle
  BY ReadLoopFields
<1>2. WorldOK'
  BY <1>1, <1>9 DEF WorldOK, Loops
<1>3. Issuable(th[t], now) \subseteq th[t].need
  BY DEF Issuable
<1>4. WorkOK(th'[t])
  <2>1. th'[t].need \subseteq th[t].need /\ th'[t].issued \subseteq th[t].issued \cup th[t].need
    BY <1>3, <1>9 DEF Loops
  <2>2. /\ th'[t].buf = buf /\ th'[t].left = th[t].left /\ th'[t].pages = th[t].pages
        /\ th'[t].vps = th[t].vps /\ th'[t].fixed = th[t].fixed
    BY <1>9 DEF Loops
  <2>3. QED BY <1>1, <2>1, <2>2 DEF WorkOK
<1>5. {flash[th[t].vps[i]].bank : i \in th'[t].need} \in SUBSET Wakers
  <2>1. \A i \in th'[t].need : th[t].vps[i] \in Vps
    BY <1>1, <1>4 DEF WorkOK
  <2>2. \A i \in th'[t].need : flash[th[t].vps[i]].bank \in Banks
    BY <1>1, <2>1, BankType
  <2>3. QED BY <2>2 DEF Wakers
<1>6. Goes(t, phase) \/ Sleeps(t, {flash[th[t].vps[i]].bank : i \in th'[t].need})
  BY ReadLoopFields
<1>7. ThreadsOK'
  BY <1>1, <1>4, <1>5, <1>6, GoesTyped, SleepsTyped
<1>8. QED BY <1>2, <1>7 DEF Typed

LEMMA TypedReadFlash == ASSUME Typed, Shape, NEW t \in Threads, ReadFlash(t) PROVE Typed'
<1>1. ThreadsOK /\ WorldOK /\ WorkOK(th[t])
  BY WorkTyped DEF Typed
<1>2. Filled(t) \in [Sectors -> Values]
  <2>1. ASSUME NEW s \in Sectors PROVE ReadData(t, s[1])[s] \in Values
    <3>1. th[t].vps[s[1]] \in Vps
      BY <1>1, SectorParts DEF WorkOK
    <3>2. QED BY <1>1, <3>1, BankType, ValuesAre DEF ReadData
  <2>2. QED BY <1>1, <2>1 DEF Filled, WorkOK
<1>3. QED BY <1>2, ReadFlashEffect, TypedReadLoop, PhasesAre

LEMMA TypedCompleteSubPages == ASSUME Typed, Shape, NEW t \in Threads, CompleteSubPages(t) PROVE Typed'
<1>1. ThreadsOK /\ WorldOK /\ WorkOK(th[t])
  BY WorkTyped DEF Typed
<1>2. Completed(t) \in [Sectors -> Values]
  <2>1. ASSUME NEW s \in Sectors PROVE flash[th[t].vps[s[1]]].data[s] \in Values
    <3>1. th[t].vps[s[1]] \in Vps
      BY <1>1, SectorParts DEF WorkOK
    <3>2. QED BY <1>1, <3>1, BankType
  <2>2. QED BY <1>1, <2>1 DEF Completed, WorkOK
<1>3. QED BY <1>2, CompleteSubPagesEffect, TypedReadLoop, PhasesAre

LEMMA FreeThreadOK == ThreadOK(FreeThread)
<1> DEFINE nopages == [sp \in SubPages |-> NoPage]
           novps == [sp \in SubPages |-> 0]
           user == CHOOSE u \in Users : TRUE
           free == [kind |-> "free", phase |-> "BUFFER", awake |-> TRUE, wake |-> {},
                    lpn |-> 1, uid |-> user, seq |-> 0,
                    sectors |-> {}, left |-> {}, want |-> Blank, buf |-> Blank,
                    pages |-> nopages, vps |-> novps, fixed |-> {}, need |-> {}, issued |-> {}]
<1>1. FreeThread = free
  BY DEF FreeThread
<1>2. /\ nopages \in [SubPages -> Lpns \cup {NoPage}] /\ novps \in [SubPages -> Vps]
      /\ user \in Users /\ Blank \in [Sectors -> Values]
  BY SizesAssumption, ValuesAre, MaxCmdsNat DEF Vps, Blank
<1>3. 1 \in Lpns /\ 0 \in 0 .. MaxCmds
  BY LpnsAssumption
<1> HIDE DEF nopages, novps, user
<1>4. QED BY <1>1, <1>2, <1>3 DEF ThreadOK, Phases

LEMMA TypedFinish == ASSUME Typed, Shape, NEW t \in Threads, Finish(t) PROVE Typed'
<1>1. ThreadsOK /\ WorldOK /\ WorldOK'
  BY FinishEffect DEF Typed, WorldOK
<1>2. \A x \in Threads : ThreadOK(th'[x])
  BY <1>1, FinishEffect, FreeThreadOK DEF ThreadsOK
<1>3. QED BY <1>1, <1>2 DEF Typed, ThreadsOK, ThreadOK

LEMMA WriterSeq ==
  ASSUME SchedInv, NEW t \in Threads, th[t].kind # "free"
  PROVE  th[t].seq \in 1 .. MaxCmds
  BY MaxCmdsNat DEF SchedInv, Numbered, Live

LEMMA TypedWriteWholePage == ASSUME Typed, Shape, NEW t \in Threads, WriteWholePage(t) PROVE Typed'
<1>1. ThreadsOK /\ WorldOK /\ WorkOK(th[t]) /\ th[t].lpn \in Lpns /\ th[t].seq \in 0 .. MaxCmds
  BY WorkTyped DEF Typed
<1>2. wb' \in [Lpns -> [Sectors -> SectorType]]
  BY <1>1, DroppedType, WriteWholePageEffect DEF WorldOK, StoreType
<1>3. WorldOK'
  BY <1>1, <1>2, WriteWholePageEffect DEF WorldOK
<1>4. th'[t].buf \in [Sectors -> Values] /\ th'[t].pages \in [SubPages -> Lpns \cup {NoPage}]
  <2>1. th[t].seq \in Values
    BY <1>1, ValuesAre, MaxCmdsNat
  <2>2. [s \in Sectors |-> th[t].seq] \in [Sectors -> Values]
    BY <2>1
  <2>3. [sp \in SubPages |-> th[t].lpn] \in [SubPages -> Lpns \cup {NoPage}]
    BY <1>1
  <2>4. QED BY <2>2, <2>3, WriteWholePageEffect
<1>5. WorkOK(th'[t])
  BY <1>1, <1>4, WriteWholePageEffect DEF WorkOK
<1>6. Goes(t, "LOCK")
  BY WriteWholePageEffect
<1>7. QED BY <1>1, <1>3, <1>5, <1>6, GoesTyped, PhasesAre DEF Typed

LEMMA TypedPushPartialPage ==
  ASSUME Typed, Shape, SchedInv, NEW t \in Threads, PushPartialPage(t) PROVE Typed'
<1>1. ThreadsOK /\ WorldOK /\ th[t].lpn \in Lpns /\ th[t].uid \in Users /\ th[t].seq \in 1 .. MaxCmds
  BY WorkTyped, WriterSeq, PushPartialPageEffect DEF Typed, Runs
<1>2. wb' \in [Lpns -> [Sectors -> SectorType]]
  <2>1. wb \in StoreType
    BY <1>1 DEF WorldOK, StoreType
  <2>2. Pushed(wb, th[t]) \in StoreType
    BY <2>1, <1>1, PushedType
  <2>3. QED BY <2>2, PushPartialPageEffect DEF StoreType
<1>3. WorldOK'
  BY <1>1, <1>2, PushPartialPageEffect DEF WorldOK
<1>4. WorkOK(th'[t]) /\ Goes(t, "SATA")
  BY <1>1, PushPartialPageEffect, SameWorkTyped
<1>5. QED BY <1>1, <1>3, <1>4, GoesTyped, PhasesAre DEF Typed

LEMMA TypedFlushAndPush ==
  ASSUME Typed, Shape, SchedInv, NEW t \in Threads, FlushAndPush(t) PROVE Typed'
<1>1. /\ ThreadsOK /\ WorldOK /\ WorkOK(th[t]) /\ th[t].lpn \in Lpns /\ th[t].uid \in Users
      /\ th[t].seq \in 1 .. MaxCmds /\ wb \in StoreType
  BY WorkTyped, WriterSeq, FlushAndPushEffect DEF Typed, Runs, WorldOK, StoreType
<1>2. PICK pages \in [SubPages -> Lpns \cup {NoPage}] : FlushesTo(t, pages)
  BY FlushAndPushEffect
<1>3. wb' \in [Lpns -> [Sectors -> SectorType]]
  BY <1>1, <1>2, PushedType, FlushedType DEF FlushesTo, StoreType
<1>4. WorldOK'
  BY <1>1, <1>3, FlushAndPushEffect DEF WorldOK
<1>5. /\ Buffer!BufferSectors(pages) \subseteq Sectors
      /\ \A s \in Buffer!BufferSectors(pages) : pages[s[1]] \in Lpns /\ Buffer!InBuffer(pages[s[1]], s)
  BY SectorParts DEF Buffer!BufferSectors, Buffer!Sectors, Sectors
<1>6. TakenOut(pages) \in [Sectors -> Values]
  <2>1. ASSUME NEW s \in Buffer!BufferSectors(pages) PROVE wb[pages[s[1]]][s].val \in Values
    BY <1>1, <1>5, InBufferValue, ValuesAre
  <2>2. QED BY <2>1, ValuesAre DEF TakenOut
<1>7. WorkOK(th'[t])
  BY <1>1, <1>2, <1>5, <1>6, FlushAndPushEffect DEF WorkOK, FlushesTo
<1>8. Goes(t, "LOCK")
  BY FlushAndPushEffect
<1>9. QED BY <1>1, <1>4, <1>7, <1>8, GoesTyped, PhasesAre DEF Typed

LEMMA TypedWriteLock == ASSUME Typed, Shape, NEW t \in Threads, WriteLock(t) PROVE Typed'
<1>1. ThreadsOK /\ WorldOK
  BY DEF Typed
<1>2. held' \in [Lpns -> [Threads -> 0 .. 3]]
  <2>1. held \in [Lpns -> [Threads -> 0 .. 3]] /\ 3 \in 1 .. 3
    BY <1>1 DEF WorldOK
  <2>2. Locked(t, PagesOf(th[t]), 3) \in [Lpns -> [Threads -> 0 .. 3]]
    BY <2>1, LockedType
  <2>3. QED BY <2>2, WriteLockEffect
<1>3. WorldOK'
  BY <1>1, <1>2, WriteLockEffect DEF WorldOK
<1>4. WorkOK(th'[t])
  BY <1>1, WriteLockEffect, SameWorkTyped
<1>5. Goes(t, "PMT_LOAD") \/ Sleeps(t, {"lock"})
  BY WriteLockEffect
<1>6. ThreadsOK'
  BY <1>1, <1>4, <1>5, GoesTyped, SleepsTyped, PhasesAre
<1>7. QED BY <1>3, <1>6 DEF Typed

LEMMA TypedWritePmtLoad == ASSUME Typed, Shape, NEW t \in Threads, WritePmtLoad(t) PROVE Typed'
<1>1. ThreadsOK /\ WorldOK /\ WorkOK(th[t])
  BY WorkTyped DEF Typed
<1>2. /\ ToFix(t) \subseteq SubPages /\ CanFix(t) \subseteq SubPages
      /\ \A sp \in ToFix(t) : th[t].pages[sp] \in Lpns
  BY <1>1 DEF ToFix, CanFix, WorkOK
<1>3. requested' \subseteq Lpns
  <2>1. requested' = requested \cup {th[t].pages[sp] : sp \in ToFix(t) \ CanFix(t)}
    BY WritePmtLoadEffect
  <2>2. QED BY <2>1, <1>1, <1>2 DEF WorldOK
<1>4. WorldOK'
  BY <1>1, <1>3, WritePmtLoadEffect DEF WorldOK
<1>5. th'[t].vps \in [SubPages -> Vps]
  <2>1. \A sp \in CanFix(t) : map[th[t].pages[sp]][sp] \in Vps
    BY <1>1, <1>2 DEF CanFix, WorldOK
  <2>2. \A sp \in SubPages : th[t].vps[sp] \in Vps
    BY <1>1 DEF WorkOK
  <2>3. [sp \in SubPages |-> IF sp \in CanFix(t) THEN map[th[t].pages[sp]][sp] ELSE th[t].vps[sp]]
          \in [SubPages -> Vps]
    BY <2>1, <2>2
  <2>4. QED BY <2>3, WritePmtLoadEffect
<1>6. Incomplete(th[t]) \subseteq SubPages
  BY DEF Incomplete
<1>7. WorkOK(th'[t])
  BY <1>1, <1>2, <1>5, <1>6, WritePmtLoadEffect DEF WorkOK
<1>8. Goes(t, "FLASH_READ") \/ Sleeps(t, {"pmt"})
  BY WritePmtLoadEffect
<1>9. ThreadsOK'
  BY <1>1, <1>7, <1>8, GoesTyped, SleepsTyped, PhasesAre
<1>10. QED BY <1>4, <1>9 DEF Typed

LEMMA TypedAllocatePage ==
  ASSUME Typed, Shape, SchedInv, NEW t \in Threads, AllocatePage(t) PROVE Typed'
<1>1. ThreadsOK /\ WorldOK /\ th[t].uid \in Users /\ th[t].seq \in 1 .. MaxCmds
  BY WorkTyped, WriterSeq, AllocatePageEffect DEF Typed, Runs
<1>2. PICK b \in idle : flash' = [flash EXCEPT ![th[t].seq].bank = b, ![th[t].seq].uid = th[t].uid]
  BY AllocatePageEffect
<1>3. flash' \in [Vps -> PageType]
  <2>1. b \in Banks /\ flash \in [Vps -> PageType] /\ th[t].seq \in Vps
    BY <1>1 DEF WorldOK, Vps
  <2>2. QED BY <2>1, <1>1, <1>2 DEF PageType
<1>4. WorldOK'
  BY <1>1, <1>3, AllocatePageEffect DEF WorldOK
<1>5. WorkOK(th'[t]) /\ Goes(t, "PMT_UPDATE")
  BY <1>1, AllocatePageEffect, SameWorkTyped
<1>6. QED BY <1>1, <1>4, <1>5, GoesTyped, PhasesAre DEF Typed

LEMMA TypedWaitForBank == ASSUME Typed, Shape, NEW t \in Threads, WaitForBank(t) PROVE Typed'
<1>1. ThreadsOK /\ WorldOK /\ WorldOK'
  BY WaitForBankEffect DEF Typed, WorldOK
<1>2. WorkOK(th'[t]) /\ Sleeps(t, Banks)
  BY <1>1, WaitForBankEffect, SameWorkTyped
<1>3. QED BY <1>1, <1>2, SleepsTyped, PhasesAre DEF Typed

LEMMA TypedUpdatePmt == ASSUME Typed, Shape, NEW t \in Threads, UpdatePmt(t) PROVE Typed'
<1>1. ThreadsOK /\ WorldOK /\ WorkOK(th[t]) /\ th[t].seq \in Vps
  BY WorkTyped DEF Typed, Vps
<1>2. map' \in [Lpns -> [SubPages -> Vps]]
  BY <1>1, UpdatePmtEffect DEF WorldOK
<1>3. WorldOK'
  BY <1>1, <1>2, UpdatePmtEffect DEF WorldOK
<1>4. WorkOK(th'[t]) /\ Goes(t, "FLASH_WRITE")
  BY <1>1, UpdatePmtEffect DEF WorkOK
<1>5. QED BY <1>1, <1>3, <1>4, GoesTyped, PhasesAre DEF Typed

LEMMA TypedIssueWrite ==
  ASSUME Typed, Shape, NEW t \in Threads, IssueWrite(t) PROVE Typed'
<1>1. ThreadsOK /\ WorldOK /\ WorkOK(th[t]) /\ th[t].seq \in Vps /\ 0 \in SubPages
  BY WorkTyped, ZeroIsSubPage DEF Typed, Vps
<1>2. {flash[th[t].seq].bank} \in SUBSET Wakers
  BY <1>1, BankType DEF Wakers
<1>3. CASE WritesPage(t)
  <2>1. flash' \in [Vps -> PageType]
    <3>1. flash \in [Vps -> PageType] /\ th[t].buf \in [Sectors -> Values]
      BY <1>1 DEF WorldOK, WorkOK
    <3>2. QED BY <3>1, <1>1, <1>3 DEF WritesPage, PageType
  <2>2. held' \in [Lpns -> [Threads -> 0 .. 3]] /\ lockSig' \in BOOLEAN
    BY <1>1, <1>3, UnlockType DEF WritesPage
  <2>3. WorldOK'
    BY <1>1, <1>3, <2>1, <2>2, IssueWriteEffect DEF WorldOK, WritesPage
  <2>4. WorkOK(th'[t])
    BY <1>1, <1>3 DEF WorkOK, WritesPage
  <2>5. QED BY <1>1, <1>2, <1>3, <2>3, <2>4, SleepsTyped DEF Typed, WritesPage
<1>4. CASE FindsBusy(t)
  <2>1. WorldOK'
    BY <1>1, <1>4, IssueWriteEffect DEF WorldOK, FindsBusy
  <2>2. WorkOK(th'[t])
    BY <1>1, <1>4, SameWorkTyped DEF FindsBusy
  <2>3. QED BY <1>1, <1>2, <1>4, <2>1, <2>2, SleepsTyped DEF Typed, FindsBusy
<1>5. QED BY <1>3, <1>4, IssueWriteEffect

LEMMA TypedEndWrite == ASSUME Typed, Shape, NEW t \in Threads, EndWrite(t) PROVE Typed'
<1>1. ThreadsOK /\ WorldOK /\ WorldOK' /\ WorkOK(th[t]) /\ 0 \in SubPages
  BY WorkTyped, EndWriteEffect, ZeroIsSubPage DEF Typed, WorldOK
<1>2. WorkOK(th'[t])
  BY <1>1, EndWriteEffect, SameWorkTyped
<1>3. {BankOf(th[t], 0)} \in SUBSET Wakers
  BY <1>1, BankType DEF BankOf, WorkOK, Wakers
<1>4. Goes(t, "SATA") \/ Sleeps(t, {BankOf(th[t], 0)})
  BY EndWriteEffect
<1>5. QED BY <1>1, <1>2, <1>3, <1>4, GoesTyped, SleepsTyped, PhasesAre DEF Typed

LEMMA TypedAccept ==
  ASSUME Typed, Shape, SchedInv, NEW t \in Threads, NEW c \in Cmds, Accept(t, c)
  PROVE  Typed'
<1>1. /\ ThreadsOK /\ WorldOK /\ next + 1 \in 1 .. MaxCmds
      /\ c.kind \in {"read", "write"} /\ c.lpn \in Lpns /\ c.uid \in Users /\ c.sectors \subseteq Sectors
      /\ \A p \in Lpns : disk[p] \in [Sectors -> 1 .. MaxCmds]
  <2>1. next < MaxCmds /\ next \in 0 .. MaxCmds
    BY AcceptEffect DEF SchedInv, Numbered
  <2>2. next + 1 \in 1 .. MaxCmds
    BY <2>1, MaxCmdsNat
  <2>3. QED BY <2>2, CommandOK DEF Typed, WorldOK
<1>2. disk' \in [Lpns -> [Sectors -> 1 .. MaxCmds]]
  <2>1. disk \in [Lpns -> [Sectors -> 1 .. MaxCmds]]
    BY <1>1 DEF WorldOK
  <2>2. [s \in Sectors |-> IF s \in c.sectors THEN next + 1 ELSE disk[c.lpn][s]] \in [Sectors -> 1 .. MaxCmds]
    BY <1>1
  <2>3. disk' = disk \/ disk' = [disk EXCEPT ![c.lpn] =
                     [s \in Sectors |-> IF s \in c.sectors THEN next + 1 ELSE disk[c.lpn][s]]]
    BY <2>1, AcceptEffect
  <2>4. QED BY <2>1, <2>2, <2>3
<1>3. WorldOK'
  BY <1>1, <1>2, AcceptEffect DEF WorldOK
<1>4. /\ Blank \in [Sectors -> Values] /\ disk[c.lpn] \in [Sectors -> Values]
      /\ [sp \in SubPages |-> NoPage] \in [SubPages -> Lpns \cup {NoPage}]
      /\ [sp \in SubPages |-> 0] \in [SubPages -> Vps]
  <2>1. Blank \in [Sectors -> Values] /\ [sp \in SubPages |-> NoPage] \in [SubPages -> Lpns \cup {NoPage}]
    BY ValuesAre DEF Blank
  <2>2. [sp \in SubPages |-> 0] \in [SubPages -> Vps]
    BY MaxCmdsNat DEF Vps
  <2>3. disk[c.lpn] \in [Sectors -> Values]
    BY <1>1, ValuesAre
  <2>4. QED BY <2>1, <2>2, <2>3
<1>5. ThreadOK(th'[t])
  <2>1. th'[t].want \in [Sectors -> Values]
    <3>1. th'[t].want = IF c.kind = "read" THEN disk[c.lpn] ELSE Blank
      BY AcceptEffect
    <3>2. QED BY <1>4, <3>1
  <2>3. /\ th'[t].kind = c.kind /\ th'[t].lpn = c.lpn /\ th'[t].uid = c.uid
        /\ th'[t].seq = next + 1 /\ th'[t].sectors = c.sectors /\ th'[t].left = c.sectors
        /\ th'[t].phase = "BUFFER" /\ th'[t].awake = TRUE /\ th'[t].wake = {}
        /\ th'[t].buf = Blank /\ th'[t].pages = [sp \in SubPages |-> NoPage]
        /\ th'[t].vps = [sp \in SubPages |-> 0] /\ th'[t].fixed = {} /\ th'[t].need = {}
        /\ th'[t].issued = {}
    BY AcceptEffect
  <2>4. next + 1 \in 0 .. MaxCmds
    BY <1>1
  <2>2. QED BY <1>1, <1>4, <2>1, <2>3, <2>4 DEF ThreadOK, Phases
<1>6. \A x \in Threads \ {t} : ThreadOK(th'[x])
  <2>1. \A x \in Threads \ {t} : th'[x] = th[x]
    BY AcceptEffect
  <2>2. \A x \in Threads : ThreadOK(th[x])
    BY <1>1 DEF ThreadsOK
  <2>3. QED BY <2>1, <2>2
<1>7. QED BY <1>3, <1>5, <1>6 DEF Typed, ThreadsOK, ThreadOK

LEMMA TypedPass == ASSUME Typed, StartPass PROVE Typed'
<1>1. /\ ThreadsOK /\ WorldOK /\ UNCHANGED <<th, held, wb, map, flash, disk>> /\ lockSig' = FALSE
  BY DEF Typed, StartPass, host
<1>2. PICK done \in SUBSET (Banks \ idle), load \in SUBSET requested,
          out \in IF PmtEvicts THEN SUBSET (loaded \ Fixed) ELSE {{}} :
        /\ complete' = done
        /\ \E busy \in IF PmtUsesBanks THEN SUBSET (idle \cup done) ELSE {{}} :
              idle' = (idle \cup done) \ busy
        /\ loaded' = (loaded \ out) \cup load
        /\ requested' = requested \ load
        /\ pmtSig' = (load # {})
  BY DEF StartPass
<1>3. idle' \subseteq Banks /\ complete' \subseteq Banks /\ loaded' \subseteq Lpns /\ requested' \subseteq Lpns
  BY <1>1, <1>2 DEF WorldOK
<1>4. WorldOK'
  BY <1>1, <1>2, <1>3 DEF WorldOK
<1>5. QED BY <1>1, <1>4 DEF Typed, ThreadsOK, ThreadOK

LEMMA TypedInit == Init => Typed
<1> SUFFICES ASSUME Init PROVE Typed
  OBVIOUS
<1>1. th = [t \in Threads |-> FreeThread]
  BY DEF Init
<1>2. ThreadsOK
  BY <1>1, FreeThreadOK DEF ThreadsOK
<1>3. PICK bank \in [Lpns -> Banks] :
        flash = [v \in Vps |->
                    IF v \in Lpns
                    THEN [bank |-> bank[v], uid |-> FirstWrite(v).uid,
                          data |-> [s \in Sectors |-> v]]
                    ELSE [bank |-> CHOOSE b \in Banks : TRUE,
                          uid |-> CHOOSE u \in Users : TRUE,
                          data |-> Blank]]
  BY DEF Init
<1>4. \A p \in Lpns : p \in 1 .. MaxCmds /\ p \in Vps /\ p \in Values
  BY MaxCmdsNat, ValuesAre DEF Vps
<1>5. flash \in [Vps -> PageType]
  <2>1. \A v \in Lpns : FirstWrite(v).uid \in Users
    BY CmdsAssumption DEF FirstWrite, CmdType
  <2>2. ASSUME NEW v \in Lpns
        PROVE  [bank |-> bank[v], uid |-> FirstWrite(v).uid, data |-> [s \in Sectors |-> v]] \in PageType
    BY <2>1, <1>4 DEF PageType
  <2>3. [bank |-> CHOOSE b \in Banks : TRUE, uid |-> CHOOSE u \in Users : TRUE, data |-> Blank] \in PageType
    BY SizesAssumption, ValuesAre DEF PageType, Blank
  <2>4. QED BY <1>3, <2>2, <2>3
<1>6. wb \in [Lpns -> [Sectors -> SectorType]]
  BY NoSectorType DEF Init
<1>7. map \in [Lpns -> [SubPages -> Vps]] /\ disk \in [Lpns -> [Sectors -> 1 .. MaxCmds]]
  BY <1>4 DEF Init
<1>8. /\ lockSig \in BOOLEAN /\ pmtSig \in BOOLEAN /\ loaded \subseteq Lpns /\ requested \subseteq Lpns
      /\ idle \subseteq Banks /\ complete \subseteq Banks
      /\ held \in [Lpns -> [Threads -> 0 .. 3]]
  <2>1. held = [p \in Lpns |-> [t \in Threads |-> 0]] /\ loaded \in IF PmtEvicts THEN SUBSET Lpns ELSE {Lpns}
    BY DEF Init
  <2>2. /\ lockSig = FALSE /\ pmtSig = FALSE /\ requested = {} /\ idle = Banks /\ complete = {}
    BY DEF Init
  <2>3. loaded \subseteq Lpns
    BY <2>1
  <2>4. held \in [Lpns -> [Threads -> 0 .. 3]]
    BY <2>1
  <2>5. QED BY <2>2, <2>3, <2>4
<1>9. QED BY <1>2, <1>5, <1>6, <1>7, <1>8 DEF Typed, WorldOK

LEMMA TypedNext == IInv /\ SchedInv /\ Typed /\ [Next]_vars => Typed'
<1> SUFFICES ASSUME Shape, SchedInv, Typed, [Next]_vars PROVE Typed'
  BY DEF IInv
<1>1. CASE UNCHANGED vars \/ Skip
  <2>1. UNCHANGED <<th, lockSig, pmtSig, held, wb, map, loaded, requested, flash, idle, complete, disk>>
    BY <1>1 DEF vars, sched, pmt, banks, host, Skip
  <2>2. QED BY <2>1 DEF Typed, WorldOK, ThreadsOK, ThreadOK
<1>2. ASSUME NEW t \in Threads, Read(t) PROVE Typed'
  BY <1>2, TypedReadBuffer, TypedReadLock, TypedLoadForRead, TypedMakeSegments, TypedReadFlash DEF Read
<1>3. ASSUME NEW t \in Threads, Write(t) PROVE Typed'
  BY <1>3, TypedWriteWholePage, TypedPushPartialPage, TypedFlushAndPush, TypedWriteLock,
     TypedWritePmtLoad, TypedCompleteSubPages, TypedAllocatePage, TypedWaitForBank, TypedUpdatePmt,
     TypedIssueWrite, TypedEndWrite DEF Write
<1>4. QED BY <1>1, <1>2, <1>3, TypedFinish, TypedPass, TypedAccept DEF Next, Handler

(***************************************************************************)
(* Threads leave the list while it is walked, and the next command takes   *)
(* the id, a lock owner, of one that has ended: every live thread is       *)
(* listed exactly once, all variables keep their types, and a thread that  *)
(* has ended holds no page lock.                                           *)
(***************************************************************************)
Safe1 == IInv /\ SchedInv /\ Typed

LEMMA Safe1Holds == Spec => []Safe1
<1>1. Init => Safe1
  BY InitIInv, SchedInit, TypedInit DEF Safe1
<1>2. Safe1 /\ [Next]_vars => Safe1'
  BY NextIInv, SchedNext, TypedNext DEF Safe1
<1>3. QED BY <1>1, <1>2, PTL DEF Spec

LEMMA ListedIsLive == ASSUME SchedInv PROVE ToSet(queue) = {t \in Threads : Live(t)}
<1>1. queue \in Seq(Threads) /\ \A i \in 1 .. Len(queue) : queue[i] \in Threads /\ Live(queue[i])
  BY DEF SchedInv, Listed
<1>2. \A t \in Threads : Live(t) => \E i \in 1 .. Len(queue) : queue[i] = t
  BY DEF SchedInv, Listed
<1>3. ToSet(queue) = {queue[i] : i \in 1 .. Len(queue)}
  BY <1>1 DEF ToSet
<1>4. QED BY <1>1, <1>2, <1>3

THEOREM ThreadsStayCoherent == Spec => []ThreadsCoherent
<1>1. ASSUME Safe1 PROVE ThreadsCoherent
  <2>1. SchedInv /\ WorldOK /\ ThreadsOK /\ IInv
    BY <1>1 DEF Safe1, Typed
  <2>2. turn \in 0 .. Len(queue) /\ next \in 0 .. MaxCmds
    BY <2>1 DEF SchedInv, Listed, Numbered
  <2>3. ASSUME NEW i \in 1 .. Len(queue), NEW j \in 1 .. Len(queue), queue[i] = queue[j] PROVE i = j
    <3>1. queue[i] \in Threads /\ Live(queue[i]) /\ th[queue[i]].seq \in Nat
      BY <2>1, Positions DEF SchedInv, Listed
    <3>2. th[queue[i]].seq <= th[queue[j]].seq /\ th[queue[j]].seq <= th[queue[i]].seq
      BY <3>1, <2>3
    <3>3. i <= j /\ j <= i
      BY <3>2, <2>1, Positions DEF SchedInv
    <3>4. QED BY <3>3
  <2>4. ToSet(queue) = {t \in Threads : th[t].kind # "free"}
    BY <2>1, ListedIsLive DEF Live
  <2>5. held \in [Lpns -> [Threads -> LockTable!LockTypes]]
    BY <2>1 DEF WorldOK, LockTable!LockTypes, LockTable!PAGE_LOCK_NULL, LockTable!PAGE_LOCK_WRITE
  <2>6. DOMAIN th = Threads
    BY <2>1 DEF IInv, Shape
  <2>7. \A t \in Threads : th[t].kind = "free" => \A p \in Lpns : held[p][t] = LockTable!PAGE_LOCK_NULL
    BY <2>1 DEF IInv, HandlerOK, NotBegun, Holds, LockTable!PAGE_LOCK_NULL
  <2>8. TypeOK
    BY <2>1, <2>2, <2>3, <2>4, <2>5, <2>6 DEF TypeOK, WorldOK, ThreadsOK, SectorType, PageType
  <2>9. QED BY <2>7, <2>8 DEF ThreadsCoherent
<1>2. QED BY <1>1, Safe1Holds, PTL

-----------------------------------------------------------------------------
(***************************************************************************)
(* The page locks.  A writer carries the data of its pages until its flash *)
(* command is issued; all the while it asks for their locks, and has them  *)
(* once it has left LOCK.                                                  *)
(***************************************************************************)
Unissued(t) ==
    th[t].kind = "write" /\ th[t].phase = "FLASH_WRITE" /\ th[t].issued = {}

Carries(t) ==
    \/ th[t].kind = "write" /\ th[t].phase \in {"LOCK", "PMT_LOAD", "FLASH_READ", "BANK", "PMT_UPDATE"}
    \/ Unissued(t)

Asks(t, p) ==
    \/ th[t].kind = "read" /\ th[t].phase \in {"LOCK", "PMT_LOAD"} /\ p = th[t].lpn
    \/ Carries(t) /\ p \in PagesOf(th[t])

OwnLocks(t, p) ==
    /\ held[p][t] # 0 => Asks(t, p) /\ (held[p][t] = 1 <=> th[t].kind = "read")
    /\ Asks(t, p) /\ th[t].phase # "LOCK" => held[p][t] = IF th[t].kind = "read" THEN 1 ELSE 3
    /\ th[t].kind = "read" /\ th[t].phase = "LOCK" => held[p][t] = 0

\* t keeps u from page p: it is a writer of p, or it waits to read p and u writes.
Bars(t, u, p) ==
    \/ Carries(t) /\ p \in PagesOf(th[t])
    \/ th[t].kind = "read" /\ th[t].phase = "LOCK" /\ p = th[t].lpn /\ th[u].kind = "write"

PairLocks(t, u, p) ==
    /\ held[p][t] = 3 => held[p][u] = 0
    /\ held[p][t] = 2 => held[p][u] \in {0, 1}
    /\ Ahead(t, u) /\ Bars(t, u, p) => held[p][u] = 0

\* A sleeper has a writer ahead of it, or is about to be woken.
Blocked(t, p) ==
    Live(t) /\ th[t].phase = "LOCK" /\ th[t].awake = FALSE =>
        /\ th[t].wake = {"lock"}
        /\ Asks(t, p) /\ held[p][t] = 0 =>
              \/ \E u \in Threads : Ahead(u, t) /\ held[p][u] \in {2, 3}
              \/ lockSig = TRUE /\ ToRun(t)

LockInv ==
    /\ \A t \in Threads, p \in Lpns : OwnLocks(t, p) /\ Blocked(t, p)
    /\ \A t, u \in Threads, p \in Lpns : t # u => PairLocks(t, u, p)

Safe == Shape /\ IInv /\ SchedInv /\ Typed

LEMMA SafeParts == ASSUME Safe1 PROVE Safe
  BY DEF Safe1, Safe, IInv

LEMMA HeldType == ASSUME Safe, NEW p \in Lpns, NEW t \in Threads PROVE held[p][t] \in 0 .. 3
  BY DEF Safe, Typed, WorldOK

LEMMA AskingIsLive == ASSUME NEW t, NEW p, Asks(t, p) PROVE Live(t)
  BY DEF Asks, Carries, Unissued, Live

(***************************************************************************)
(* What the answers say of the locks of the others.                        *)
(***************************************************************************)
LEMMA ReadAnswer ==
  ASSUME Safe, NEW t \in Threads, NEW p \in Lpns, held[p][t] = 0
  PROVE  /\ Answer(t, p, 1) \in {0, 1}
         /\ Answer(t, p, 1) = 1 => \A u \in Threads \ {t} : held[p][u] \in {0, 1}
         /\ Answer(t, p, 1) = 0 => \E u \in Threads \ {t} : held[p][u] \in {2, 3}
<1> DEFINE g == Answer(t, p, 1)
<1>1. g \in 0 .. 3 /\ LockTable!IsAnswer(t, p, 1, g)
  BY HeldType, AnswerSpec
<1> HIDE DEF g
<1>2. \A u \in Threads : held[p][u] \in 0 .. 3
  BY HeldType
<1>3. g <= 1 /\ \A u \in Threads \ {t} : g = 1 => held[p][u] \in {0, 1}
  BY <1>1, <1>2 DEF LockTable!IsAnswer, LockTable!Grantable, LockTable!LockTypes, LockTable!Compatible,
     LockTable!PAGE_LOCK_NULL, LockTable!PAGE_LOCK_READ, LockTable!PAGE_LOCK_INTENT, LockTable!PAGE_LOCK_WRITE
<1>4. g = 0 => \E u \in Threads \ {t} : held[p][u] \in {2, 3}
  <2> SUFFICES ASSUME g = 0, \A u \in Threads \ {t} : held[p][u] \in {0, 1} PROVE FALSE
    BY <1>2
  <2>1. 1 \in LockTable!Grantable(t, p)
    BY DEF LockTable!Grantable, LockTable!LockTypes, LockTable!Compatible,
     LockTable!PAGE_LOCK_NULL, LockTable!PAGE_LOCK_READ, LockTable!PAGE_LOCK_INTENT, LockTable!PAGE_LOCK_WRITE
  <2>2. 1 <= g
    BY <1>1, <2>1 DEF LockTable!IsAnswer
  <2>3. QED BY <2>2
<1>5. QED BY <1>1, <1>3, <1>4 DEF g

LEMMA WriteAnswer ==
  ASSUME Safe, NEW t \in Threads, NEW p \in Lpns,
         \A u \in Threads \ {t} : (held[p][t] = 3 => held[p][u] = 0) /\ (held[p][t] = 2 => held[p][u] \in {0, 1}),
         held[p][t] # 1
  PROVE  LET g == Answer(t, p, 3)
             after == IF g # 0 THEN g ELSE held[p][t]
         IN  /\ g \in {0, 2, 3} /\ after \in {0, 2, 3} /\ (g = 0 => held[p][t] = 0)
             /\ after = 3 => \A u \in Threads \ {t} : held[p][u] = 0
             /\ after = 2 => \A u \in Threads \ {t} : held[p][u] \in {0, 1}
             /\ after = 0 => \E u \in Threads \ {t} : held[p][u] \in {2, 3}
<1> DEFINE g == Answer(t, p, 3)
<1>1. g \in 0 .. 3 /\ LockTable!IsAnswer(t, p, 3, g)
  BY HeldType, AnswerSpec
<1> HIDE DEF g
<1>2. \A u \in Threads : held[p][u] \in 0 .. 3
  BY HeldType
<1>3. /\ \A u \in Threads \ {t} : g = 3 => held[p][u] = 0
      /\ \A u \in Threads \ {t} : g \in {1, 2} => held[p][u] \in {0, 1}
  BY <1>1, <1>2 DEF LockTable!IsAnswer, LockTable!Grantable, LockTable!LockTypes, LockTable!Compatible,
     LockTable!PAGE_LOCK_NULL, LockTable!PAGE_LOCK_READ, LockTable!PAGE_LOCK_INTENT, LockTable!PAGE_LOCK_WRITE
<1>4. (\A u \in Threads \ {t} : held[p][u] \in {0, 1}) => g \in {2, 3}
  <2> SUFFICES ASSUME \A u \in Threads \ {t} : held[p][u] \in {0, 1} PROVE g \in {2, 3}
    OBVIOUS
  <2>1. 2 \in LockTable!Grantable(t, p)
    BY DEF LockTable!Grantable, LockTable!LockTypes, LockTable!Compatible,
     LockTable!PAGE_LOCK_NULL, LockTable!PAGE_LOCK_READ, LockTable!PAGE_LOCK_INTENT, LockTable!PAGE_LOCK_WRITE
  <2>2. 2 <= g
    BY <1>1, <2>1 DEF LockTable!IsAnswer
  <2>3. QED BY <1>1, <2>2
<1>5. g # 1
  BY <1>3, <1>4
<1>6. g = 0 => \E u \in Threads \ {t} : held[p][u] \in {2, 3}
  BY <1>2, <1>4
<1>7. g = 0 => held[p][t] = 0
  BY <1>2, <1>6
<1>8. QED BY <1>1, <1>2, <1>3, <1>5, <1>6, <1>7 DEF g

(***************************************************************************)
(* A thread that is barred from a page finds a lock there that keeps it    *)
(* out, and who finds one is behind its holder.                            *)
(***************************************************************************)
LEMMA AwakeIsCurrent ==
  ASSUME SchedInv, NEW x \in Threads, Live(x), th[x].phase # "BUFFER", ~(turn > 0 /\ x = queue[turn])
  PROVE  th[x].awake = FALSE
  BY DEF SchedInv, FreshLast, Fresh

LEMMA BarredFinds ==
  ASSUME Safe, LockInv, NEW t \in Threads, Current(t), NEW x \in Threads, NEW p \in Lpns,
         Ahead(x, t), Bars(x, t, p)
  PROVE  held[p][t] = 0 /\ \E u \in Threads \ {t} : held[p][u] \in {2, 3}
<1>1. /\ SchedInv /\ Live(x) /\ th[x].seq < th[t].seq /\ turn > 0 /\ t = queue[turn]
      /\ th[x].seq \in Nat /\ th[t].seq \in Nat
  BY Positions DEF Safe, Ahead, Current, SchedInv
<1>2. x # t
  BY <1>1
<1>3. held[p][t] = 0
  BY <1>2 DEF LockInv, PairLocks
<1>4. Asks(x, p) /\ th[x].phase # "BUFFER"
  BY DEF Bars, Asks, Carries, Unissued
<1>5. held[p][x] \in {0, 2, 3}
  BY HeldType DEF LockInv, OwnLocks, Bars, Carries, Unissued
<1>6. CASE held[p][x] = 0
  <2>1. th[x].phase = "LOCK"
    BY <1>4, <1>6 DEF LockInv, OwnLocks
  <2>2. th[x].awake = FALSE
    BY <1>1, <1>2, <1>4, AwakeIsCurrent
  <2>3. ~ToRun(x)
    BY <1>1 DEF ToRun
  <2>4. PICK u \in Threads : Ahead(u, x) /\ held[p][u] \in {2, 3}
    BY <2>1, <2>2, <2>3, <1>1, <1>4, <1>6 DEF LockInv, Blocked
  <2>5. QED BY <2>4, <1>3
<1>7. QED BY <1>2, <1>3, <1>5, <1>6

LEMMA BlockerIsAhead ==
  ASSUME Safe, LockInv, NEW t \in Threads, Live(t), NEW u \in Threads \ {t}, NEW p \in Lpns,
         held[p][u] \in {2, 3}, th[u].kind = "write" => Bars(t, u, p)
  PROVE  Ahead(u, t) /\ th[u].kind = "write"
<1>1. Asks(u, p) /\ th[u].kind # "read" /\ OwnLocks(u, p)
  BY DEF LockInv, OwnLocks
<1>2. Live(u) /\ th[u].kind = "write"
  BY <1>1 DEF Asks, Carries, Unissued, Live
<1>3. th[t].seq \in Nat /\ th[u].seq \in Nat /\ th[t].seq # th[u].seq
  BY <1>2, Positions DEF Safe, SchedInv
<1>4. ~Ahead(t, u)
  BY <1>2 DEF LockInv, PairLocks
<1>5. QED BY <1>2, <1>3, <1>4 DEF Ahead

(***************************************************************************)
(* A step of thread t: the others keep what they hold, and a sleeper whose *)
(* writer gives back its lock is to run after it.                          *)
(***************************************************************************)
LockStepOf(t) ==
    /\ \A p \in Lpns, x \in Threads \ {t} : held'[p][x] = held[p][x]
    /\ lockSig = TRUE => lockSig' = TRUE
    /\ \A p \in Lpns : held[p][t] \in {2, 3} => held'[p][t] \in {2, 3} \/ lockSig' = TRUE

LEMMA OthersKept ==
  ASSUME NEW t \in Threads, NEW x \in Threads \ {t}, Kept(t), LockStepOf(t)
  PROVE  /\ th'[x] = th[x]
         /\ Live(x)' <=> Live(x)
         /\ Carries(x)' <=> Carries(x)
         /\ \A p \in Lpns : OwnLocks(x, p) => OwnLocks(x, p)'
         /\ \A p \in Lpns : Asks(x, p)' <=> Asks(x, p)
         /\ \A p \in Lpns : Bars(x, t, p)' <=> Bars(x, t, p)
         /\ \A p \in Lpns, y \in Threads \ {t} : PairLocks(x, y, p) => PairLocks(x, y, p)'
<1>1. th'[x] = th[x] /\ \A y \in Threads \ {t} : th'[y] = th[y]
  BY DEF Kept
<1>2. PagesOf(th[x])' = PagesOf(th[x])
  BY <1>1 DEF PagesOf
<1>3. (Live(x)' <=> Live(x)) /\ (Unissued(x)' <=> Unissued(x))
  BY <1>1 DEF Live, Unissued
<1>4. Carries(x)' <=> Carries(x)
  BY <1>1, <1>3 DEF Carries
<1>5. th'[t].kind = th[t].kind
  BY DEF Kept
<1>6. ASSUME NEW p \in Lpns
      PROVE  /\ Asks(x, p)' <=> Asks(x, p)
             /\ \A y \in Threads : Bars(x, y, p)' <=> Bars(x, y, p)
  <2>1. \A y \in Threads : th'[y].kind = th[y].kind
    BY <1>1, <1>5
  <2>2. QED BY <1>1, <1>2, <1>4, <2>1 DEF Asks, Bars
<1>7. ASSUME NEW p \in Lpns, OwnLocks(x, p) PROVE OwnLocks(x, p)'
  <2>1. held'[p][x] = held[p][x]
    BY DEF LockStepOf
  <2>2. th'[x].kind = th[x].kind /\ th'[x].phase = th[x].phase
    BY <1>1
  <2>3. Asks(x, p)' <=> Asks(x, p)
    BY <1>6
  <2>4. QED BY <1>7, <2>1, <2>2, <2>3 DEF OwnLocks
<1>8. ASSUME NEW p \in Lpns, NEW y \in Threads \ {t}, PairLocks(x, y, p) PROVE PairLocks(x, y, p)'
  <2>1. Ahead(x, y)' <=> Ahead(x, y)
    BY <1>1, <1>3 DEF Ahead, Live
  <2>2. held'[p][x] = held[p][x] /\ held'[p][y] = held[p][y]
    BY DEF LockStepOf
  <2>3. Bars(x, y, p)' <=> Bars(x, y, p)
    BY <1>6
  <2>4. QED BY <1>8, <2>1, <2>2, <2>3 DEF PairLocks
<1>9. \A p \in Lpns : Asks(x, p)' <=> Asks(x, p)
  BY <1>6
<1>10. \A p \in Lpns : Bars(x, t, p)' <=> Bars(x, t, p)
  BY <1>6
<1>11. QED BY <1>1, <1>3, <1>4, <1>7, <1>8, <1>9, <1>10

LEMMA LockStep ==
  ASSUME Safe, LockInv, NEW t \in Threads, Current(t), Steps(t), LockStepOf(t),
         \A p \in Lpns : OwnLocks(t, p)' /\ Blocked(t, p)',
         \A p \in Lpns, x \in Threads \ {t} : PairLocks(t, x, p)' /\ PairLocks(x, t, p)'
  PROVE  LockInv'
<1>1. Kept(t) /\ SameList /\ SchedInv /\ Listed /\ Numbered
  BY StepsKeep DEF Safe, SchedInv
<1>2. \A x, y \in Threads : Ahead(x, y)' <=> Ahead(x, y)
  BY <1>1, StepsKeep DEF Ahead, SameList
<1>3. ASSUME NEW x \in Threads \ {t}, NEW p \in Lpns PROVE OwnLocks(x, p)' /\ Blocked(x, p)'
  <2>1. OwnLocks(x, p)'
    BY <1>1, OthersKept DEF LockInv
  <2>2. th'[x] = th[x] /\ (Live(x)' <=> Live(x)) /\ (Asks(x, p)' <=> Asks(x, p)) /\ held'[p][x] = held[p][x]
    BY <1>1, OthersKept DEF LockStepOf
  <2>3. Live(x) => (ToRun(x)' <=> ToRun(x))
    BY <1>1, ToRunAfterStep
  <2>4. SUFFICES ASSUME Live(x), th[x].phase = "LOCK", th[x].awake = FALSE
                 PROVE  /\ th[x].wake = {"lock"}
                        /\ Asks(x, p) /\ held[p][x] = 0 =>
                              \/ \E u \in Threads : Ahead(u, x)' /\ held'[p][u] \in {2, 3}
                              \/ lockSig' = TRUE /\ ToRun(x)'
    BY <2>1, <2>2 DEF Blocked
  <2>5. /\ th[x].wake = {"lock"}
        /\ Asks(x, p) /\ held[p][x] = 0 =>
              \/ \E u \in Threads : Ahead(u, x) /\ held[p][u] \in {2, 3}
              \/ lockSig = TRUE /\ ToRun(x)
    BY <2>4 DEF LockInv, Blocked
  <2>6. ASSUME NEW u \in Threads, Ahead(u, x), held[p][u] \in {2, 3}
        PROVE  \/ Ahead(u, x)' /\ held'[p][u] \in {2, 3}
               \/ lockSig' = TRUE /\ ToRun(x)'
    <3>1. CASE u # t
      BY <2>6, <3>1, <1>2 DEF LockStepOf
    <3>2. CASE u = t
      <4>1. ToRun(x)
        <5>1. th[t].seq \in Nat /\ th[x].seq \in Nat
          BY <1>1, <2>4, Positions DEF Current
        <5>2. QED BY <2>6, <3>2, <5>1 DEF Ahead, ToRun, Current
      <4>2. QED BY <2>3, <2>4, <2>6, <3>2, <4>1, <1>2 DEF LockStepOf
    <3>3. QED BY <3>1, <3>2
  <2>7. QED BY <2>3, <2>4, <2>5, <2>6 DEF LockStepOf
<1>4. ASSUME NEW x \in Threads, NEW y \in Threads, NEW p \in Lpns, x # y PROVE PairLocks(x, y, p)'
  <2>1. CASE x # t /\ y # t
    BY <1>1, <1>4, <2>1, OthersKept DEF LockInv
  <2>2. CASE x = t \/ y = t
    BY <1>4, <2>2
  <2>3. QED BY <2>1, <2>2
<1>5. QED BY <1>3, <1>4 DEF LockInv

(***************************************************************************)
(* A step in which t keeps or gives back its locks and does not wait.      *)
(***************************************************************************)
LEMMA ReleaseStep ==
  ASSUME Safe, LockInv, NEW t \in Threads, Current(t), Steps(t), LockStepOf(t),
         th'[t].phase # "LOCK", Carries(t)' => Carries(t) /\ th'[t].pages = th[t].pages,
         \A p \in Lpns : held'[p][t] \in {0, held[p][t]} /\ OwnLocks(t, p)'
  PROVE  LockInv'
<1>1. Kept(t)
  BY StepsKeep
<1>2. \A p \in Lpns : Blocked(t, p)'
  BY DEF Blocked
<1>3. ASSUME NEW p \in Lpns, NEW x \in Threads \ {t} PROVE PairLocks(t, x, p)' /\ PairLocks(x, t, p)'
  <2>1. Ahead(t, x)' = Ahead(t, x) /\ Ahead(x, t)' = Ahead(x, t)
    BY <1>1, StepsKeep DEF Ahead, SameList
  <2>2. held'[p][x] = held[p][x] /\ held'[p][t] \in {0, held[p][t]}
    BY DEF LockStepOf
  <2>3. Bars(t, x, p)' => Bars(t, x, p)
    <3>1. Carries(t)' => PagesOf(th[t])' = PagesOf(th[t])
      BY DEF PagesOf
    <3>2. QED BY <3>1 DEF Bars
  <2>4. Bars(x, t, p)' => Bars(x, t, p)
    BY <1>1, OthersKept
  <2>5. PairLocks(t, x, p) /\ PairLocks(x, t, p)
    BY DEF LockInv
  <2>6. PairLocks(t, x, p)'
    BY <2>1, <2>2, <2>3, <2>5 DEF PairLocks
  <2>7. PairLocks(x, t, p)'
    BY <2>1, <2>2, <2>4, <2>5 DEF PairLocks
  <2>8. QED BY <2>6, <2>7
<1>4. QED BY <1>2, <1>3, LockStep

\* Outside of LOCK, and with the locks left alone.
LEMMA QuietStep ==
  ASSUME Safe, LockInv, NEW t \in Threads, Current(t), Steps(t), UNCHANGED <<held, lockSig>>,
         th[t].phase # "LOCK", th'[t].phase # "LOCK",
         Carries(t)' <=> Carries(t), Carries(t) => th'[t].pages = th[t].pages,
         th[t].kind = "read" => (th'[t].phase = "PMT_LOAD" <=> th[t].phase = "PMT_LOAD")
  PROVE  LockInv'
<1>1. Kept(t)
  BY StepsKeep
<1>2. LockStepOf(t)
  BY DEF LockStepOf
<1>3. ASSUME NEW p \in Lpns PROVE OwnLocks(t, p)'
  <2>1. Carries(t) => PagesOf(th[t])' = PagesOf(th[t])
    BY DEF PagesOf
  <2>2. Asks(t, p)' <=> Asks(t, p)
    BY <1>1, <2>1 DEF Asks, Kept
  <2>3. th'[t].kind = th[t].kind
    BY <1>1 DEF Kept
  <2>4. OwnLocks(t, p)
    BY DEF LockInv
  <2>5. QED BY <2>2, <2>3, <2>4 DEF OwnLocks
<1>4. QED BY <1>2, <1>3, ReleaseStep

-----------------------------------------------------------------------------
\* t begins to ask: those behind it have not run yet.
LEMMA EnterLock ==
  ASSUME Safe, LockInv, NEW t \in Threads, Current(t), th[t].phase = "BUFFER", Goes(t, "LOCK"),
         UNCHANGED <<held, lockSig>>
  PROVE  LockInv'
<1>1. Steps(t) /\ Kept(t)
  BY DEF Steps, Goes, Phases
<1>2. ASSUME NEW x \in Threads, Fresh(x), NEW p \in Lpns PROVE held[p][x] = 0
  BY <1>2 DEF Safe, IInv, HandlerOK, NotBegun, Holds, Fresh
<1>3. Fresh(t)
  BY DEF Fresh, Current
<1>4. LockStepOf(t)
  BY DEF LockStepOf
<1>5. ASSUME NEW p \in Lpns PROVE OwnLocks(t, p)' /\ Blocked(t, p)'
  <2>1. held'[p][t] = 0 /\ th'[t].phase = "LOCK" /\ th'[t].awake = TRUE
    BY <1>2, <1>3 DEF Goes
  <2>2. QED BY <2>1 DEF OwnLocks, Blocked
<1>6. ASSUME NEW p \in Lpns, NEW x \in Threads \ {t} PROVE PairLocks(t, x, p)' /\ PairLocks(x, t, p)'
  <2>1. Ahead(t, x)' = Ahead(t, x)
    BY <1>1, StepsKeep DEF Ahead, SameList
  <2>2. Ahead(t, x) => held[p][x] = 0
    BY <1>2, <1>3 DEF Safe, SchedInv, FreshLast
  <2>3. held'[p][t] = 0 /\ held'[p][x] = held[p][x]
    BY <1>2, <1>3
  <2>4. PairLocks(t, x, p)'
    BY <2>1, <2>2, <2>3 DEF PairLocks
  <2>5. PairLocks(x, t, p)'
    BY <2>3 DEF PairLocks
  <2>6. QED BY <2>4, <2>5
<1>7. QED BY <1>1, <1>4, <1>5, <1>6, LockStep

\* The answers of the lock table become the locks of t.
LEMMA LockedBy ==
  ASSUME Shape, NEW t \in Threads, NEW ps \in SUBSET Lpns, NEW type, held' = Locked(t, ps, type)
  PROVE  /\ \A p \in Lpns, x \in Threads \ {t} : held'[p][x] = held[p][x]
         /\ \A p \in Lpns \ ps : held'[p][t] = held[p][t]
         /\ \A p \in ps : held'[p][t] = IF Answer(t, p, type) # 0 THEN Answer(t, p, type) ELSE held[p][t]
<1>1. \A p \in Lpns : held'[p] = IF p \in ps /\ Answer(t, p, type) # 0
                                 THEN [held[p] EXCEPT ![t] = Answer(t, p, type)] ELSE held[p]
  BY DEF Locked, LockTable!PAGE_LOCK_NULL
<1>2. \A p \in Lpns : DOMAIN held[p] = Threads
  BY DEF Shape
<1>3. QED BY <1>1, <1>2

LEMMA ReadLockLocks ==
  ASSUME Safe, LockInv, NEW t \in Threads, Current(t), ReadLock(t)
  PROVE  LockInv'
<1> DEFINE l == th[t].lpn
           g == Answer(t, l, 1)
<1>1. /\ th[t].kind = "read" /\ th[t].phase = "LOCK" /\ held' = Locked(t, {l}, 1) /\ lockSig' = lockSig
      /\ Steps(t) /\ Kept(t)
      /\ IF g = 1 THEN Goes(t, "PMT_LOAD") ELSE Sleeps(t, {"lock"})
  BY ReadLockEffect, HandlerSteps, StepsKeep DEF Runs, Safe, Read
<1>2. l \in Lpns
  BY WorkTyped DEF Safe, Typed
<1>3. \A p \in Lpns : held[p][t] = 0
  BY <1>1 DEF LockInv, OwnLocks
<1>4. /\ g \in {0, 1}
      /\ g = 1 => \A u \in Threads \ {t} : held[l][u] \in {0, 1}
      /\ g = 0 => \E u \in Threads \ {t} : held[l][u] \in {2, 3}
  BY <1>2, <1>3, ReadAnswer
<1> HIDE DEF g, l
<1>5. /\ \A p \in Lpns, x \in Threads \ {t} : held'[p][x] = held[p][x]
      /\ held'[l][t] = g /\ \A p \in Lpns \ {l} : held'[p][t] = 0
  <2> DEFINE one == {l}
  <2>1. one \in SUBSET Lpns /\ Shape /\ held' = Locked(t, one, 1)
    BY <1>1, <1>2 DEF Safe
  <2> HIDE DEF one
  <2>2. /\ \A p \in Lpns, x \in Threads \ {t} : held'[p][x] = held[p][x]
        /\ \A p \in Lpns \ one : held'[p][t] = held[p][t]
        /\ \A p \in one : held'[p][t] = IF Answer(t, p, 1) # 0 THEN Answer(t, p, 1) ELSE held[p][t]
    BY <2>1, LockedBy
  <2>3. held'[l][t] = g
    BY <2>2, <1>2, <1>3 DEF g, one
  <2>4. \A p \in Lpns \ {l} : held'[p][t] = 0
    BY <2>2, <1>3 DEF one
  <2>5. QED BY <2>2, <2>3, <2>4
<1>6. LockStepOf(t)
  <2>1. \A p \in Lpns, x \in Threads \ {t} : held'[p][x] = held[p][x]
    BY <1>5
  <2>2. \A p \in Lpns : held[p][t] \notin {2, 3}
    BY <1>3
  <2>3. QED BY <1>1, <2>1, <2>2 DEF LockStepOf
<1>7. /\ th'[t].kind = "read" /\ th'[t].lpn = l /\ ~Carries(t)'
      /\ g = 1 => th'[t].phase = "PMT_LOAD"
      /\ g = 0 => th'[t].phase = "LOCK" /\ th'[t].wake = {"lock"}
  BY <1>1 DEF Kept, Carries, Unissued, Goes, Sleeps, l
<1>8. ASSUME NEW p \in Lpns PROVE OwnLocks(t, p)'
  BY <1>4, <1>5, <1>7 DEF OwnLocks, Asks
<1>9. ASSUME NEW x \in Threads PROVE Ahead(t, x)' = Ahead(t, x) /\ Ahead(x, t)' = Ahead(x, t)
  BY <1>1, StepsKeep DEF Ahead, SameList
<1>10. ASSUME NEW p \in Lpns PROVE Blocked(t, p)'
  <2> SUFFICES ASSUME th'[t].phase = "LOCK", Asks(t, p)'
               PROVE  th'[t].wake = {"lock"} /\ \E u \in Threads : Ahead(u, t)' /\ held'[p][u] \in {2, 3}
    BY <1>4, <1>7 DEF Blocked
  <2>1. g = 0 /\ p = l
    BY <1>4, <1>7 DEF Asks
  <2>2. PICK u \in Threads \ {t} : held[l][u] \in {2, 3}
    BY <2>1, <1>4
  <2>3. th[u].kind = "write" => Bars(t, u, l)
    BY <1>1 DEF Bars, l
  <2>4. Ahead(u, t)
    BY <2>2, <2>3, <1>2, BlockerIsAhead DEF Current
  <2>5. QED BY <2>1, <2>2, <2>4, <1>2, <1>5, <1>7, <1>9
<1>11. ASSUME NEW p \in Lpns, NEW x \in Threads \ {t} PROVE PairLocks(t, x, p)'
  <2>1. held'[p][t] \in {0, 1}
    BY <1>4, <1>5
  <2>2. Ahead(t, x)' /\ Bars(t, x, p)' => held'[p][x] = 0
    <3> SUFFICES ASSUME Ahead(t, x)', Bars(t, x, p)' PROVE held'[p][x] = 0
      OBVIOUS
    <3>1. th'[x].kind = th[x].kind
      BY <1>1 DEF Kept
    <3>2. Bars(t, x, p)
      BY <3>1, <1>1, <1>7 DEF Bars, l
    <3>3. QED BY <3>2, <1>5, <1>9 DEF LockInv, PairLocks
  <2>3. QED BY <2>1, <2>2 DEF PairLocks
<1>12. ASSUME NEW p \in Lpns, NEW x \in Threads \ {t} PROVE PairLocks(x, t, p)'
  <2>1. Bars(x, t, p)' => Bars(x, t, p)
    BY <1>1, <1>6, OthersKept
  <2>2. CASE p = l
    <3>1. held[p][x] \in {0, 1} \/ g = 0
      BY <2>2, <1>4
    <3>2. Ahead(x, t) /\ Bars(x, t, p) => g = 0
      BY <2>2, <1>4, BarredFinds
    <3>3. QED BY <2>1, <2>2, <3>1, <3>2, <1>5, <1>9 DEF PairLocks
  <2>3. CASE p # l
    BY <2>3, <1>5 DEF PairLocks
  <2>4. QED BY <2>2, <2>3
<1>13. QED BY <1>1, <1>6, <1>8, <1>10, <1>11, <1>12, LockStep

LEMMA WriteLockLocks ==
  ASSUME Safe, LockInv, NEW t \in Threads, Current(t), WriteLock(t)
  PROVE  LockInv'
<1> DEFINE ps == PagesOf(th[t])
<1>1. /\ th[t].kind = "write" /\ th[t].phase = "LOCK" /\ held' = Locked(t, ps, 3) /\ lockSig' = lockSig
      /\ Steps(t) /\ Kept(t) /\ th'[t].pages = th[t].pages
      /\ IF \A p \in ps : Answer(t, p, 3) = 3 THEN Goes(t, "PMT_LOAD") ELSE Sleeps(t, {"lock"})
  BY WriteLockEffect, HandlerSteps, StepsKeep DEF Runs, Safe, Write, Works
<1>2. ps \subseteq Lpns /\ PagesOf(th[t])' = ps
  BY <1>1 DEF PagesOf
<1>3. Carries(t)
  BY <1>1 DEF Carries
<1>4. ASSUME NEW p \in Lpns \ ps PROVE held[p][t] = 0
  BY <1>1, <1>4 DEF LockInv, OwnLocks, Asks
<1> HIDE DEF ps
<1>5. ASSUME NEW p \in ps
      PROVE  /\ Answer(t, p, 3) \in {0, 2, 3} /\ held'[p][t] \in {0, 2, 3}
             /\ Answer(t, p, 3) # 0 => held'[p][t] = Answer(t, p, 3)
             /\ held'[p][t] = 3 => \A u \in Threads \ {t} : held[p][u] = 0
             /\ held'[p][t] = 2 => \A u \in Threads \ {t} : held[p][u] \in {0, 1}
             /\ held'[p][t] = 0 => held[p][t] = 0 /\ \E u \in Threads \ {t} : held[p][u] \in {2, 3}
  <2> DEFINE g == Answer(t, p, 3)
  <2>1. p \in Lpns
    BY <1>2
  <2>2. held'[p][t] = IF g # 0 THEN g ELSE held[p][t]
    BY <1>1, <1>2, <2>1, LockedBy DEF Safe
  <2>3. held[p][t] # 1 /\ \A u \in Threads \ {t} : (held[p][t] = 3 => held[p][u] = 0) /\ (held[p][t] = 2 => held[p][u] \in {0, 1})
    BY <2>1, <1>1 DEF LockInv, OwnLocks, PairLocks
  <2>4. /\ g \in {0, 2, 3} /\ held'[p][t] \in {0, 2, 3} /\ (g = 0 => held[p][t] = 0)
        /\ held'[p][t] = 3 => \A u \in Threads \ {t} : held[p][u] = 0
        /\ held'[p][t] = 2 => \A u \in Threads \ {t} : held[p][u] \in {0, 1}
        /\ held'[p][t] = 0 => \E u \in Threads \ {t} : held[p][u] \in {2, 3}
    BY <2>1, <2>2, <2>3, WriteAnswer
  <2> HIDE DEF g
  <2>5. QED BY <2>2, <2>4 DEF g
<1>6. /\ \A p \in Lpns, x \in Threads \ {t} : held'[p][x] = held[p][x]
      /\ \A p \in Lpns \ ps : held'[p][t] = 0
  BY <1>1, <1>2, <1>4, LockedBy DEF Safe
<1>7. LockStepOf(t)
  <2>1. ASSUME NEW p \in Lpns, held[p][t] \in {2, 3} PROVE held'[p][t] \in {2, 3}
    BY <2>1, <1>4, <1>5
  <2>2. QED BY <2>1, <1>1, <1>6 DEF LockStepOf
<1>8. /\ th'[t].kind = "write" /\ Carries(t)'
      /\ th'[t].phase # "LOCK" => \A p \in ps : held'[p][t] = 3
      /\ th'[t].phase = "LOCK" => th'[t].wake = {"lock"}
  <2>1. th'[t].kind = "write" /\ th'[t].phase \in {"LOCK", "PMT_LOAD"}
    BY <1>1 DEF Kept, Goes, Sleeps
  <2>2. CASE \A p \in ps : Answer(t, p, 3) = 3
    BY <1>1, <1>5, <2>1, <2>2 DEF Carries, Goes
  <2>3. CASE ~\A p \in ps : Answer(t, p, 3) = 3
    BY <1>1, <1>5, <2>1, <2>3 DEF Carries, Sleeps
  <2>4. QED BY <2>2, <2>3
<1>9. ASSUME NEW p \in Lpns PROVE Asks(t, p)' <=> p \in ps
  BY <1>2, <1>8 DEF Asks
<1>10. ASSUME NEW p \in Lpns PROVE OwnLocks(t, p)'
  BY <1>5, <1>6, <1>8, <1>9 DEF OwnLocks
<1>11. ASSUME NEW x \in Threads PROVE Ahead(t, x)' = Ahead(t, x) /\ Ahead(x, t)' = Ahead(x, t)
  BY <1>1, StepsKeep DEF Ahead, SameList
<1>12. ASSUME NEW p \in Lpns PROVE Blocked(t, p)'
  <2> SUFFICES ASSUME th'[t].phase = "LOCK", Asks(t, p)', held'[p][t] = 0
               PROVE  \E u \in Threads : Ahead(u, t)' /\ held'[p][u] \in {2, 3}
    BY <1>8 DEF Blocked
  <2>1. PICK u \in Threads \ {t} : held[p][u] \in {2, 3}
    BY <1>5, <1>9
  <2>2. Bars(t, u, p)
    BY <1>3, <1>9 DEF Bars, ps
  <2>3. Ahead(u, t)
    BY <2>1, <2>2, BlockerIsAhead DEF Current
  <2>4. QED BY <2>1, <2>3, <1>6, <1>11
<1>13. ASSUME NEW p \in Lpns, NEW x \in Threads \ {t} PROVE PairLocks(t, x, p)'
  <2>1. /\ held'[p][t] = 3 => held'[p][x] = 0
        /\ held'[p][t] = 2 => held'[p][x] \in {0, 1}
    BY <1>5, <1>6
  <2>2. Bars(t, x, p)' => Bars(t, x, p)
    BY <1>2, <1>3, <1>8 DEF Bars, ps
  <2>3. PairLocks(t, x, p)
    BY DEF LockInv
  <2>4. QED BY <2>1, <2>2, <2>3, <1>6, <1>11 DEF PairLocks
<1>14. ASSUME NEW p \in Lpns, NEW x \in Threads \ {t} PROVE PairLocks(x, t, p)'
  <2>1. Bars(x, t, p)' => Bars(x, t, p)
    BY <1>1, <1>7, OthersKept
  <2>2. CASE p \in ps
    <3>1. /\ held[p][x] = 3 => held'[p][t] = 0
          /\ held[p][x] = 2 => held'[p][t] = 0
      BY <2>2, <1>5
    <3>2. Ahead(x, t) /\ Bars(x, t, p) => held'[p][t] = 0
      <4> SUFFICES ASSUME Ahead(x, t), Bars(x, t, p) PROVE held'[p][t] = 0
        OBVIOUS
      <4>1. \E u \in Threads \ {t} : held[p][u] \in {2, 3}
        BY BarredFinds
      <4>2. QED BY <4>1, <2>2, <1>5
    <3>3. QED BY <2>1, <3>1, <3>2, <1>6, <1>11 DEF PairLocks
  <2>3. CASE p \notin ps
    BY <2>3, <1>6 DEF PairLocks
  <2>4. QED BY <2>2, <2>3
<1>15. QED BY <1>1, <1>7, <1>10, <1>12, <1>13, <1>14, LockStep

-----------------------------------------------------------------------------
LEMMA LoopPhase ==
  ASSUME Shape, NEW t \in Threads, NEW now, NEW buf, NEW phase, ReadLoop(t, now, buf, phase)
  PROVE  th'[t].phase \in {th[t].phase, phase} /\ th'[t].pages = th[t].pages
<1>1. Loops(t, now, buf) /\ (Goes(t, phase) \/ \E signals : Sleeps(t, signals))
  BY ReadLoopFields
<1>2. QED BY <1>1 DEF Goes, Sleeps, Loops

\* The kinds of steps that leave the locks alone, and those that give them back.
LEMMA QuietLocks ==
  ASSUME Safe, LockInv, NEW t \in Threads, Current(t),
         \/ LoadForRead(t) \/ ReadFlash(t) \/ PushPartialPage(t) \/ WritePmtLoad(t)
         \/ CompleteSubPages(t) \/ AllocatePage(t) \/ WaitForBank(t) \/ UpdatePmt(t) \/ EndWrite(t)
         \/ IssueWrite(t) /\ FindsBusy(t)
  PROVE  LockInv'
<1>1. Shape /\ (th[t].phase = "PMT_UPDATE" /\ th[t].kind = "write" => th[t].issued = {})
  BY DEF Safe, IInv, HandlerOK, WriteState
<1> SUFFICES /\ Steps(t) /\ UNCHANGED <<held, lockSig>>
             /\ th[t].phase # "LOCK" /\ th'[t].phase # "LOCK"
             /\ Carries(t)' <=> Carries(t)
             /\ Carries(t) => th'[t].pages = th[t].pages
             /\ th[t].kind = "read" => (th'[t].phase = "PMT_LOAD" <=> th[t].phase = "PMT_LOAD")
  BY QuietStep
<1>2. Steps(t) /\ th'[t].kind = th[t].kind
  BY <1>1, HandlerSteps, StepsKeep DEF Read, Write, Kept
<1>3. CASE LoadForRead(t)
  <2>1. /\ th[t].kind = "read" /\ th[t].phase = "PMT_LOAD" /\ th'[t].phase = "PMT_LOAD"
        /\ UNCHANGED <<held, lockSig>>
    BY <1>1, <1>3, LoadForReadEffect DEF Runs, Sleeps
  <2>2. QED BY <2>1, <1>2 DEF Carries, Unissued
<1>4. CASE ReadFlash(t)
  <2>1. Runs(t, "read", "FLASH_READ") /\ UNCHANGED <<held, lockSig>> /\ ReadLoop(t, ReadNow(t), Filled(t), "SATA")
    BY <1>1, <1>4, ReadFlashEffect
  <2>2. th'[t].phase \in {"FLASH_READ", "SATA"} /\ th[t].kind = "read" /\ th[t].phase = "FLASH_READ"
    BY <1>1, <2>1, LoopPhase DEF Runs
  <2>3. QED BY <2>1, <2>2, <1>2 DEF Carries, Unissued
<1>5. CASE PushPartialPage(t)
  <2>1. /\ th[t].kind = "write" /\ th[t].phase = "BUFFER" /\ th'[t].phase = "SATA"
        /\ UNCHANGED <<held, lockSig>>
    BY <1>1, <1>5, PushPartialPageEffect DEF Runs, Goes
  <2>2. QED BY <2>1, <1>2 DEF Carries, Unissued
<1>6. CASE WritePmtLoad(t)
  <2>1. /\ th[t].kind = "write" /\ th[t].phase = "PMT_LOAD" /\ th'[t].phase \in {"PMT_LOAD", "FLASH_READ"}
        /\ UNCHANGED <<held, lockSig>> /\ th'[t].pages = th[t].pages
    <3>1. /\ Runs(t, "write", "PMT_LOAD") /\ UNCHANGED <<held, lockSig>> /\ th'[t].pages = th[t].pages
          /\ Goes(t, "FLASH_READ") \/ Sleeps(t, {"pmt"})
      BY <1>1, <1>6, WritePmtLoadEffect
    <3>2. QED BY <3>1 DEF Runs, Goes, Sleeps
  <2>2. QED BY <2>1, <1>2 DEF Carries, Unissued
<1>7. CASE CompleteSubPages(t)
  <2>1. Runs(t, "write", "FLASH_READ") /\ UNCHANGED <<held, lockSig>> /\ ReadLoop(t, WriteNow(t), Completed(t), "BANK")
    BY <1>1, <1>7, CompleteSubPagesEffect
  <2>2. /\ th'[t].phase \in {"FLASH_READ", "BANK"} /\ th[t].kind = "write" /\ th[t].phase = "FLASH_READ"
        /\ th'[t].pages = th[t].pages
    BY <1>1, <2>1, LoopPhase DEF Runs
  <2>3. QED BY <2>1, <2>2, <1>2 DEF Carries, Unissued
<1>8. CASE AllocatePage(t)
  <2>1. /\ th[t].kind = "write" /\ th[t].phase = "BANK" /\ th'[t].phase = "PMT_UPDATE"
        /\ UNCHANGED <<held, lockSig>> /\ th'[t].pages = th[t].pages
    BY <1>1, <1>8, AllocatePageEffect DEF Runs, Goes, Works
  <2>2. QED BY <2>1, <1>2 DEF Carries, Unissued
<1>9. CASE WaitForBank(t)
  <2>1. /\ th[t].kind = "write" /\ th[t].phase = "BANK" /\ th'[t].phase = "BANK"
        /\ UNCHANGED <<held, lockSig>> /\ th'[t].pages = th[t].pages
    BY <1>1, <1>9, WaitForBankEffect DEF Runs, Sleeps, Works
  <2>2. QED BY <2>1, <1>2 DEF Carries, Unissued
<1>10. CASE UpdatePmt(t)
  <2>1. /\ th[t].kind = "write" /\ th[t].phase = "PMT_UPDATE" /\ th'[t].phase = "FLASH_WRITE"
        /\ UNCHANGED <<held, lockSig>> /\ th'[t].pages = th[t].pages /\ th'[t].issued = {}
    BY <1>1, <1>10, UpdatePmtEffect DEF Runs, Goes
  <2>2. QED BY <2>1, <1>2 DEF Carries, Unissued
<1>11. CASE EndWrite(t)
  <2>1. /\ Runs(t, "write", "FLASH_WRITE") /\ th[t].issued = {0} /\ Works(t, th[t])
        /\ UNCHANGED <<held, lockSig>>
        /\ Goes(t, "SATA") \/ \E signals : Sleeps(t, signals)
    BY <1>1, <1>11, EndWriteEffect
  <2>2. /\ th[t].kind = "write" /\ th[t].phase = "FLASH_WRITE" /\ th'[t].phase \in {"FLASH_WRITE", "SATA"}
        /\ th[t].issued # {} /\ th'[t].issued # {}
    BY <2>1 DEF Runs, Goes, Sleeps, Works
  <2>3. QED BY <2>1, <2>2, <1>2 DEF Carries, Unissued
<1>12. CASE IssueWrite(t) /\ FindsBusy(t)
  <2>1. /\ th[t].kind = "write" /\ th[t].phase = "FLASH_WRITE" /\ th'[t].phase = "FLASH_WRITE"
        /\ UNCHANGED <<held, lockSig>> /\ th'[t].pages = th[t].pages /\ th'[t].issued = th[t].issued
    BY <1>1, <1>12, IssueWriteEffect DEF Runs, FindsBusy, Sleeps, Works
  <2>2. QED BY <2>1, <1>2 DEF Carries, Unissued
<1>13. QED BY <1>3, <1>4, <1>5, <1>6, <1>7, <1>8, <1>9, <1>10, <1>11, <1>12

LEMMA ReleasedBy ==
  ASSUME Shape, NEW t \in Threads, NEW ps, Unlock(t, ps)
  PROVE  /\ \A p \in Lpns, x \in Threads \ {t} : held'[p][x] = held[p][x]
         /\ \A p \in Lpns : held'[p][t] = IF p \in ps THEN 0 ELSE held[p][t]
         /\ lockSig = TRUE => lockSig' = TRUE
         /\ (\E p \in ps : held[p][t] # 0) => lockSig' = TRUE
<1>1. \A p \in Lpns : held'[p] = IF p \in ps THEN [held[p] EXCEPT ![t] = 0] ELSE held[p]
  BY DEF Unlock
<1>2. \A p \in Lpns : DOMAIN held[p] = Threads
  BY DEF Shape
<1>3. lockSig' = (lockSig \/ \E p \in ps : held[p][t] # 0)
  BY DEF Unlock
<1>4. (lockSig = TRUE => lockSig' = TRUE) /\ ((\E p \in ps : held[p][t] # 0) => lockSig' = TRUE)
  BY <1>3, Zenon
<1>5. QED BY <1>1, <1>2, <1>4

\* All the locks that t holds are on the pages it gives back.
LEMMA ReleaseAll ==
  ASSUME Safe, LockInv, NEW t \in Threads, Current(t), Steps(t), NEW ps, Unlock(t, ps),
         \A p \in Lpns : Asks(t, p) => p \in ps,
         th'[t].phase \notin {"LOCK", "PMT_LOAD"}, ~Carries(t)'
  PROVE  LockInv'
<1>1. /\ \A p \in Lpns, x \in Threads \ {t} : held'[p][x] = held[p][x]
      /\ \A p \in Lpns : held'[p][t] = 0
      /\ lockSig = TRUE => lockSig' = TRUE
      /\ \A p \in Lpns : held[p][t] # 0 => lockSig' = TRUE
  <2>1. /\ \A p \in Lpns, x \in Threads \ {t} : held'[p][x] = held[p][x]
        /\ \A p \in Lpns : held'[p][t] = IF p \in ps THEN 0 ELSE held[p][t]
        /\ lockSig = TRUE => lockSig' = TRUE
        /\ (\E p \in ps : held[p][t] # 0) => lockSig' = TRUE
    BY ReleasedBy DEF Safe
  <2>2. \A p \in Lpns : held[p][t] # 0 => p \in ps
    BY DEF LockInv, OwnLocks
  <2>3. QED BY <2>1, <2>2
<1>2. LockStepOf(t)
  <2>1. \A p \in Lpns : held[p][t] \in {2, 3} => lockSig' = TRUE
    BY <1>1
  <2>2. QED BY <2>1, <1>1 DEF LockStepOf
<1>3. \A p \in Lpns : OwnLocks(t, p)'
  BY <1>1 DEF OwnLocks, Asks
<1>4. QED BY <1>1, <1>2, <1>3, ReleaseStep

LEMMA LockHandler ==
  ASSUME Safe, LockInv, NEW t \in Threads, Read(t) \/ Write(t)
  PROVE  LockInv'
<1>1. Shape /\ Current(t) /\ Steps(t) /\ th'[t].kind = th[t].kind
  BY HandlerSteps, StepsKeep DEF Safe, Kept
<1>2. CASE ReadBuffer(t)
  <2>1. /\ Runs(t, "read", "BUFFER") /\ UNCHANGED <<held, lockSig>>
        /\ Goes(t, IF FoundBy(t) = th[t].sectors THEN "SATA" ELSE "LOCK")
    BY <1>1, <1>2, ReadBufferEffect
  <2>2. CASE Goes(t, "LOCK")
    BY <1>1, <2>1, <2>2, EnterLock DEF Runs
  <2>3. CASE Goes(t, "SATA")
    <3>1. ~Carries(t) /\ ~Carries(t)' /\ th[t].phase = "BUFFER" /\ th'[t].phase = "SATA"
      BY <1>1, <2>1, <2>3 DEF Carries, Unissued, Goes, Runs
    <3>2. QED BY <3>1, <1>1, <2>1, QuietStep
  <2>4. QED BY <2>1, <2>2, <2>3
<1>3. CASE ReadLock(t)
  BY <1>1, <1>3, ReadLockLocks
<1>4. CASE MakeSegments(t)
  <2>1. Runs(t, "read", "PMT_LOAD") /\ Goes(t, "FLASH_READ") /\ Unlock(t, {th[t].lpn})
    BY <1>1, <1>4, MakeSegmentsEffect
  <2>2. th'[t].phase = "FLASH_READ" /\ ~Carries(t)' /\ \A p \in Lpns : Asks(t, p) => p \in {th[t].lpn}
    BY <1>1, <2>1 DEF Carries, Unissued, Asks, Goes, Runs
  <2>3. QED BY <1>1, <2>1, <2>2, ReleaseAll
<1>5. CASE WriteWholePage(t)
  BY <1>1, <1>5, WriteWholePageEffect, EnterLock DEF Runs
<1>6. CASE FlushAndPush(t)
  BY <1>1, <1>6, FlushAndPushEffect, EnterLock DEF Runs
<1>7. CASE WriteLock(t)
  BY <1>1, <1>7, WriteLockLocks
<1>8. CASE IssueWrite(t)
  <2>1. Runs(t, "write", "FLASH_WRITE") /\ (WritesPage(t) \/ FindsBusy(t))
    BY <1>1, <1>8, IssueWriteEffect
  <2>2. CASE WritesPage(t)
    <3>1. /\ Unlock(t, PagesOf(th[t])) /\ th'[t].phase = "FLASH_WRITE" /\ th'[t].issued # {}
          /\ th[t].kind = "write"
      BY <2>1, <2>2 DEF WritesPage, Sleeps, Runs
    <3>2. ~Carries(t)' /\ \A p \in Lpns : Asks(t, p) => p \in PagesOf(th[t])
      BY <1>1, <3>1 DEF Carries, Unissued, Asks
    <3>3. QED BY <1>1, <3>1, <3>2, ReleaseAll
  <2>3. QED BY <1>1, <1>8, <2>1, <2>2, QuietLocks
<1>9. QED
  BY <1>1, <1>2, <1>3, <1>4, <1>5, <1>6, <1>7, <1>8, QuietLocks DEF Read, Write

LEMMA LockFinish ==
  ASSUME Safe, LockInv, NEW t \in Threads, Finish(t)
  PROVE  LockInv'
<1>1. /\ Listed /\ Numbered /\ turn > 0 /\ t = queue[turn] /\ UNCHANGED <<held, lockSig>>
      /\ DOMAIN th' = Threads /\ (\A x \in Threads \ {t} : th'[x] = th[x]) /\ th'[t] = FreeThread
      /\ End(t) /\ th[t].phase = "SATA"
  BY FinishEffect DEF Safe, SchedInv, Runs
<1>2. \A x \in Threads \ {t} : Live(x) => (ToRun(x)' <=> ToRun(x))
  BY <1>1, TurnEnds
<1>3. \A p \in Lpns : held[p][t] = 0 /\ ~Bars(t, t, p)
  BY <1>1 DEF LockInv, OwnLocks, Asks, Carries, Unissued, Bars
<1>4. th'[t].kind = "free" /\ ~Live(t)' /\ \A x \in Threads \ {t} : Live(x)' <=> Live(x)
  BY <1>1 DEF Live, FreeThread
<1>5. \A x, y \in Threads \ {t} : Ahead(x, y)' <=> Ahead(x, y)
  BY <1>1, <1>4 DEF Ahead
<1>6. ASSUME NEW x \in Threads \ {t}, NEW p \in Lpns
      PROVE  /\ Asks(x, p)' <=> Asks(x, p)
             /\ \A y \in Threads \ {t} : Bars(x, y, p)' <=> Bars(x, y, p)
  BY <1>1 DEF Asks, Bars, Carries, Unissued, PagesOf
<1>7. ASSUME NEW x \in Threads, NEW p \in Lpns PROVE OwnLocks(x, p)' /\ Blocked(x, p)'
  <2>1. CASE x = t
    <3>1. ~Asks(t, p)'
      BY <1>4 DEF Asks, Carries, Unissued
    <3>2. QED BY <2>1, <3>1, <1>1, <1>3, <1>4 DEF OwnLocks, Blocked
  <2>2. CASE x # t
    <3>1. OwnLocks(x, p)'
      BY <2>2, <1>1, <1>6 DEF LockInv, OwnLocks
    <3>2. SUFFICES ASSUME Live(x), th[x].phase = "LOCK", th[x].awake = FALSE
                   PROVE  /\ th[x].wake = {"lock"}
                          /\ Asks(x, p) /\ held[p][x] = 0 =>
                                \/ \E u \in Threads : Ahead(u, x)' /\ held[p][u] \in {2, 3}
                                \/ lockSig' = TRUE /\ ToRun(x)'
      BY <2>2, <3>1, <1>1, <1>4, <1>6 DEF Blocked
    <3>3. /\ th[x].wake = {"lock"}
          /\ Asks(x, p) /\ held[p][x] = 0 =>
                \/ \E u \in Threads : Ahead(u, x) /\ held[p][u] \in {2, 3}
                \/ lockSig = TRUE /\ ToRun(x)
      BY <3>2 DEF LockInv, Blocked
    <3>4. ASSUME NEW u \in Threads, Ahead(u, x), held[p][u] \in {2, 3} PROVE Ahead(u, x)'
      BY <2>2, <3>4, <1>3, <1>5
    <3>5. QED BY <2>2, <3>2, <3>3, <3>4, <1>1, <1>2
  <2>3. QED BY <2>1, <2>2
<1>8. ASSUME NEW x \in Threads, NEW y \in Threads, NEW p \in Lpns, x # y PROVE PairLocks(x, y, p)'
  <2>1. CASE x = t
    BY <2>1, <1>1, <1>3, <1>4 DEF PairLocks, Ahead
  <2>2. CASE y = t
    BY <2>2, <1>1, <1>3 DEF PairLocks
  <2>3. CASE x # t /\ y # t
    <3>1. PairLocks(x, y, p)
      BY <1>8 DEF LockInv
    <3>2. (Ahead(x, y)' <=> Ahead(x, y)) /\ (Bars(x, y, p)' <=> Bars(x, y, p))
      BY <2>3, <1>5, <1>6
    <3>3. QED BY <3>1, <3>2, <1>1 DEF PairLocks
  <2>4. QED BY <2>1, <2>2, <2>3
<1>9. QED BY <1>7, <1>8 DEF LockInv

\* Nothing but the scheduler's variables change.
LEMMA LocksStay ==
  ASSUME LockInv, UNCHANGED <<th, held>>,
         \A x \in Threads :
             Live(x) /\ th[x].wake = {"lock"} /\ lockSig = TRUE /\ ToRun(x) => lockSig' = TRUE /\ ToRun(x)'
  PROVE  LockInv'
<1>1. /\ \A x, p : (Asks(x, p)' <=> Asks(x, p))
      /\ \A x, y : Ahead(x, y)' <=> Ahead(x, y)
      /\ \A x, y, p : Bars(x, y, p)' <=> Bars(x, y, p)
      /\ \A x : Live(x)' <=> Live(x)
  BY DEF Asks, Ahead, Bars, Carries, Unissued, Live, PagesOf
<1>2. ASSUME NEW x \in Threads, NEW p \in Lpns PROVE OwnLocks(x, p)' /\ Blocked(x, p)'
  <2>1. OwnLocks(x, p) /\ Blocked(x, p)
    BY DEF LockInv
  <2>2. OwnLocks(x, p)'
    BY <1>1, <2>1 DEF OwnLocks
  <2>3. Blocked(x, p)'
    BY <1>1, <2>1 DEF Blocked
  <2>4. QED BY <2>2, <2>3
<1>3. ASSUME NEW x \in Threads, NEW y \in Threads, NEW p \in Lpns, x # y PROVE PairLocks(x, y, p)'
  BY <1>1, <1>3 DEF LockInv, PairLocks
<1>4. QED BY <1>2, <1>3 DEF LockInv

LEMMA LockSkip == ASSUME Safe, LockInv, Skip PROVE LockInv'
<1>1. /\ Listed /\ Numbered /\ turn > 0 /\ ~Awake(queue[turn]) /\ turn' = NextTurn
      /\ queue' = queue /\ UNCHANGED <<th, held, lockSig>>
  BY DEF Safe, SchedInv, Skip
<1>2. SameList
  BY <1>1 DEF SameList
<1>3. \A x \in Threads : Live(x) => (ToRun(x)' <=> (ToRun(x) /\ x # queue[turn]))
  BY <1>1, <1>2, TurnMoves
<1>4. ASSUME NEW x \in Threads, th[x].wake = {"lock"}, lockSig = TRUE PROVE x # queue[turn]
  <2>1. "lock" \in Signals
    BY <1>4 DEF Signals
  <2>2. th[x].wake \cap Signals # {}
    BY <1>4, <2>1
  <2>3. QED BY <1>1, <2>2 DEF Awake
<1>5. ASSUME NEW x \in Threads, Live(x), th[x].wake = {"lock"}, lockSig = TRUE, ToRun(x)
      PROVE  lockSig' = TRUE /\ ToRun(x)'
  BY <1>1, <1>3, <1>4, <1>5
<1>6. UNCHANGED <<th, held>>
  BY <1>1
<1>7. QED BY <1>5, <1>6, LocksStay

LEMMA LockPass == ASSUME Safe, LockInv, StartPass PROVE LockInv'
<1>1. turn = 0 /\ UNCHANGED <<th, held>>
  BY DEF StartPass
<1>2. \A x : ~ToRun(x)
  BY <1>1 DEF ToRun
<1>3. \A x \in Threads :
         Live(x) /\ th[x].wake = {"lock"} /\ lockSig = TRUE /\ ToRun(x) => lockSig' = TRUE /\ ToRun(x)'
  BY <1>2
<1>4. QED BY <1>1, <1>3, LocksStay

LEMMA LockAccept ==
  ASSUME Safe, LockInv, NEW t \in Threads, NEW c \in Cmds, Accept(t, c)
  PROVE  LockInv'
<1>0. next \in Nat /\ Shape
  BY MaxCmdsNat DEF Safe, SchedInv, Numbered
<1>1. /\ ~Live(t) /\ (\A x \in Threads \ {t} : th'[x] = th[x]) /\ turn = 0 /\ next \in Nat
      /\ th'[t].kind = c.kind /\ th'[t].seq = next + 1 /\ th'[t].phase = "BUFFER"
      /\ UNCHANGED <<held, lockSig>>
  BY <1>0, AcceptEffect DEF Live
<1>2. \A p \in Lpns : held[p][t] = 0
  BY <1>1, AskingIsLive DEF LockInv, OwnLocks
<1>3. \A x \in Threads \ {t} : Live(x)' <=> Live(x)
  BY <1>1 DEF Live
<1>4. \A x \in Threads : Live(x) => th[x].seq \in 1 .. next
  BY DEF Safe, SchedInv, Numbered
<1>5. \A x \in Threads : ~Ahead(t, x)'
  <2> SUFFICES ASSUME NEW x \in Threads, Ahead(t, x)' PROVE FALSE
    OBVIOUS
  <2>1. CASE x = t
    BY <2>1, <1>1 DEF Ahead
  <2>2. CASE x # t
    BY <2>2, <1>1, <1>3, <1>4 DEF Ahead
  <2>3. QED BY <2>1, <2>2
<1>6. \A x, y \in Threads \ {t} : Ahead(x, y)' <=> Ahead(x, y)
  BY <1>1, <1>3 DEF Ahead
<1>7. ASSUME NEW x \in Threads \ {t}, NEW p \in Lpns
      PROVE  /\ Asks(x, p)' <=> Asks(x, p)
             /\ \A y \in Threads \ {t} : Bars(x, y, p)' <=> Bars(x, y, p)
  BY <1>1 DEF Asks, Bars, Carries, Unissued, PagesOf
<1>8. ASSUME NEW x \in Threads, NEW p \in Lpns PROVE OwnLocks(x, p)' /\ Blocked(x, p)'
  <2>1. CASE x = t
    <3>1. ~Asks(t, p)'
      BY <1>1 DEF Asks, Carries, Unissued
    <3>2. QED BY <2>1, <3>1, <1>1, <1>2 DEF OwnLocks, Blocked
  <2>2. CASE x # t
    <3>1. OwnLocks(x, p) /\ Blocked(x, p)
      BY DEF LockInv
    <3>2. OwnLocks(x, p)'
      BY <2>2, <3>1, <1>1, <1>7 DEF OwnLocks
    <3>3. SUFFICES ASSUME Live(x), th[x].phase = "LOCK", th[x].awake = FALSE
                   PROVE  /\ th[x].wake = {"lock"}
                          /\ Asks(x, p) /\ held[p][x] = 0 =>
                                \E u \in Threads : Ahead(u, x)' /\ held[p][u] \in {2, 3}
      BY <2>2, <3>2, <1>1, <1>3, <1>7 DEF Blocked
    <3>4. /\ th[x].wake = {"lock"}
          /\ Asks(x, p) /\ held[p][x] = 0 => \E u \in Threads : Ahead(u, x) /\ held[p][u] \in {2, 3}
      BY <3>1, <3>3, <1>1 DEF Blocked, ToRun
    <3>5. ASSUME NEW u \in Threads, Ahead(u, x), held[p][u] \in {2, 3} PROVE Ahead(u, x)'
      BY <2>2, <3>5, <1>2, <1>6
    <3>6. QED BY <3>4, <3>5
  <2>3. QED BY <2>1, <2>2
<1>9. ASSUME NEW x \in Threads, NEW y \in Threads, NEW p \in Lpns, x # y PROVE PairLocks(x, y, p)'
  <2>1. CASE x = t
    BY <2>1, <1>1, <1>2, <1>5 DEF PairLocks
  <2>2. CASE y = t
    BY <2>2, <1>1, <1>2 DEF PairLocks
  <2>3. CASE x # t /\ y # t
    <3>1. PairLocks(x, y, p)
      BY <1>9 DEF LockInv
    <3>2. (Ahead(x, y)' <=> Ahead(x, y)) /\ (Bars(x, y, p)' <=> Bars(x, y, p))
      BY <2>3, <1>6, <1>7
    <3>3. QED BY <3>1, <3>2, <1>1 DEF PairLocks
  <2>4. QED BY <2>1, <2>2, <2>3
<1>10. QED BY <1>8, <1>9 DEF LockInv

LEMMA LockInit == Init => LockInv
<1> SUFFICES ASSUME Init PROVE LockInv
  OBVIOUS
<1>1. (\A p \in Lpns, t \in Threads : held[p][t] = 0) /\ \A t \in Threads : th[t] = FreeThread
  BY DEF Init
<1>2. \A t \in Threads : th[t].kind = "free" /\ th[t].phase = "BUFFER"
  <2>1. FreeThread.kind = "free" /\ FreeThread.phase = "BUFFER"
    BY DEF FreeThread
  <2>2. QED BY <1>1, <2>1
<1>3. QED
  BY <1>1, <1>2 DEF LockInv, OwnLocks, Blocked, PairLocks, Asks, Carries, Unissued, Ahead, Live

LEMMA LockNext == Safe1 /\ LockInv /\ [Next]_vars => LockInv'
<1> SUFFICES ASSUME Safe, LockInv, [Next]_vars PROVE LockInv'
  BY SafeParts
<1>1. CASE UNCHANGED vars
  <2>1. UNCHANGED <<th, held, lockSig, turn, queue>>
    BY <1>1 DEF vars, sched
  <2>2. \A x : ToRun(x)' <=> ToRun(x)
    BY <2>1 DEF ToRun
  <2>3. UNCHANGED <<th, held>> /\ lockSig' = lockSig
    BY <2>1
  <2>4. QED BY <2>2, <2>3, LocksStay
<1>2. QED
  BY <1>1, LockHandler, LockFinish, LockSkip, LockPass, LockAccept DEF Next, Handler

-----------------------------------------------------------------------------
\* A reader holds no buffer of its own.
ReadersHavePages == \A t \in Threads : th[t].kind = "read" => PagesOf(th[t]) = {}

LEMMA PagesNext == Safe1 /\ ReadersHavePages /\ [Next]_vars => ReadersHavePages'
<1> SUFFICES ASSUME Shape, ReadersHavePages, [Next]_vars PROVE ReadersHavePages'
  BY DEF Safe1, IInv
<1>1. ASSUME NEW t \in Threads, \A x \in Threads \ {t} : th'[x] = th[x],
             th'[t].kind = "read" => PagesOf(th'[t]) = {}
      PROVE  ReadersHavePages'
  BY <1>1 DEF ReadersHavePages, PagesOf
<1>2. ASSUME NEW t \in Threads, Read(t) PROVE ReadersHavePages'
  <2>1. Kept(t)
    BY <1>2, HandlerSteps, StepsKeep
  <2>2. th[t].kind = "read"
    BY <1>2 DEF Read, ReadBuffer, ReadLock, LoadForRead, MakeSegments, ReadFlash, Runs
  <2>3. th'[t].pages = th[t].pages
    <3>1. CASE ReadBuffer(t)
      BY <3>1, ReadBufferEffect
    <3>2. CASE ReadLock(t)
      BY <3>2, ReadLockEffect DEF Works
    <3>3. CASE LoadForRead(t)
      BY <3>3, LoadForReadEffect DEF Works
    <3>4. CASE MakeSegments(t)
      BY <3>4, MakeSegmentsEffect
    <3>5. CASE ReadFlash(t)
      BY <3>5, ReadFlashEffect, LoopPhase
    <3>6. QED BY <1>2, <3>1, <3>2, <3>3, <3>4, <3>5 DEF Read
  <2>4. PagesOf(th'[t]) = {}
    BY <2>2, <2>3 DEF ReadersHavePages, PagesOf
  <2>5. QED BY <1>1, <2>1, <2>4 DEF Kept
<1>3. ASSUME NEW t \in Threads, Write(t) PROVE ReadersHavePages'
  <2>1. Kept(t)
    BY <1>3, HandlerSteps, StepsKeep
  <2>2. th[t].kind = "write"
    BY <1>3 DEF Write, WriteWholePage, PushPartialPage, FlushAndPush, WriteLock, WritePmtLoad,
       CompleteSubPages, AllocatePage, WaitForBank, UpdatePmt, IssueWrite, EndWrite, Runs
  <2>3. QED BY <1>1, <2>1, <2>2 DEF Kept
<1>4. ASSUME NEW t \in Threads, Finish(t) PROVE ReadersHavePages'
  <2>1. (\A x \in Threads \ {t} : th'[x] = th[x]) /\ th'[t] = FreeThread
    BY <1>4, FinishEffect
  <2>2. FreeThread.kind = "free"
    BY DEF FreeThread
  <2>3. QED BY <1>1, <2>1, <2>2
<1>5. ASSUME NEW t \in Threads, NEW c \in Cmds, Accept(t, c) PROVE ReadersHavePages'
  <2>1. (\A x \in Threads \ {t} : th'[x] = th[x]) /\ th'[t].pages = [sp \in SubPages |-> NoPage]
    BY <1>5, AcceptEffect
  <2>2. PagesOf(th'[t]) = {}
    BY <2>1, NullAssumption DEF PagesOf
  <2>3. QED BY <1>1, <2>1, <2>2
<1>6. CASE StartPass \/ Skip \/ UNCHANGED vars
  <2>1. th' = th
    BY <1>6 DEF StartPass, Skip, vars, sched
  <2>2. QED BY <2>1 DEF ReadersHavePages, PagesOf
<1>7. QED BY <1>2, <1>3, <1>4, <1>5, <1>6 DEF Next, Handler

LEMMA PagesInit == Init => ReadersHavePages
<1>1. FreeThread.kind = "free"
  BY DEF FreeThread
<1>2. QED BY <1>1 DEF Init, ReadersHavePages

(***************************************************************************)
(* No overtaking.  Only a step of the thread behind could raise its lock,  *)
(* and then the one ahead of it still bars it from the page.               *)
(***************************************************************************)
LEMMA OnlyOwnLocks ==
  ASSUME Shape, NEW t \in Threads, Read(t) \/ Write(t)
  PROVE  \A p \in Lpns, x \in Threads \ {t} : held'[p][x] = held[p][x]
<1>0. ASSUME NEW ps, NEW type, held' = Locked(t, ps, type)
      PROVE  \A p \in Lpns, x \in Threads \ {t} : held'[p][x] = held[p][x]
  BY <1>0, LockedEffect
<1>1. CASE ReadLock(t)
  <2>1. held' = Locked(t, {th[t].lpn}, 1)
    BY <1>1, ReadLockEffect
  <2>2. QED BY <2>1, <1>0
<1>2. CASE WriteLock(t)
  <2>1. held' = Locked(t, PagesOf(th[t]), 3)
    BY <1>2, WriteLockEffect
  <2>2. QED BY <2>1, <1>0
<1>3. CASE MakeSegments(t)
  BY <1>3, MakeSegmentsEffect, UnlockEffect
<1>4. CASE IssueWrite(t)
  <2>1. WritesPage(t) \/ held' = held
    BY <1>4, IssueWriteEffect DEF FindsBusy
  <2>2. QED BY <2>1, UnlockEffect DEF WritesPage
<1>5. CASE \/ ReadBuffer(t) \/ LoadForRead(t) \/ ReadFlash(t)
           \/ WriteWholePage(t) \/ PushPartialPage(t) \/ FlushAndPush(t) \/ WritePmtLoad(t)
           \/ CompleteSubPages(t) \/ AllocatePage(t) \/ WaitForBank(t) \/ UpdatePmt(t) \/ EndWrite(t)
  <2>1. held' = held
    BY <1>5 DEF ReadBuffer, LoadForRead, ReadFlash, WriteWholePage, PushPartialPage, FlushAndPush,
       WritePmtLoad, CompleteSubPages, AllocatePage, WaitForBank, UpdatePmt, EndWrite
  <2>2. QED BY <2>1
<1>6. QED BY <1>1, <1>2, <1>3, <1>4, <1>5 DEF Read, Write

Safe2 == Safe1 /\ LockInv /\ ReadersHavePages

LEMMA Safe2Holds == Spec => []Safe2
<1>1. Init => LockInv /\ ReadersHavePages
  BY LockInit, PagesInit
<1>2. Safe1 /\ LockInv /\ ReadersHavePages /\ [Next]_vars => LockInv' /\ ReadersHavePages'
  BY LockNext, PagesNext
<1>3. QED BY <1>1, <1>2, Safe1Holds, PTL DEF Spec, Safe2

GivenInOrder ==
    \A i, j \in 1 .. Len(queue), p \in Lpns :
          /\ i < j
          /\ WaitsFor(queue[i], p)
          /\ held[p][queue[i]] # LockTable!PAGE_LOCK_WRITE
          /\ \E k \in {i, j} : th[queue[k]].kind = "write"
          => held'[p][queue[j]] <= held[p][queue[j]]

LEMMA InOrderStep ==
  ASSUME Safe2, Safe2', [Next]_vars, NEW a \in Threads, NEW b \in Threads, NEW p \in Lpns,
         Ahead(a, b), Bars(a, b, p)
  PROVE  held'[p][b] <= held[p][b]
<1>1. Safe /\ LockInv' /\ held \in [Lpns -> [Threads -> 0 .. 3]]
  BY SafeParts DEF Safe2, Safe1, Typed, WorldOK
<1>2. /\ a # b /\ held[p][b] \in 0 .. 3
      /\ th[a].seq < th[b].seq /\ th[a].seq \in Nat /\ Live(a) /\ Live(b)
  <2>1. th[a].seq < th[b].seq /\ Live(a) /\ Live(b)
    BY DEF Ahead
  <2>2. th[a].seq \in Nat
    BY <1>1, <2>1, Positions DEF Safe, SchedInv
  <2>3. QED BY <1>1, <2>1, <2>2
<1>3. CASE Read(b) \/ Write(b)
  <2>1. Kept(b) /\ \A x \in Threads : Live(x)' <=> Live(x)
    BY <1>1, <1>3, HandlerSteps, StepsKeep DEF Safe
  <2>2. th'[a] = th[a] /\ th'[b].kind = th[b].kind /\ th'[b].seq = th[b].seq
    BY <2>1, <1>2 DEF Kept
  <2>3. Ahead(a, b)'
    BY <2>1, <2>2, <1>2 DEF Ahead
  <2>4. Bars(a, b, p)'
    BY <2>2 DEF Bars, Carries, Unissued, PagesOf
  <2>5. held'[p][b] = 0
    BY <1>1, <1>2, <2>3, <2>4 DEF LockInv, PairLocks
  <2>6. QED BY <2>5, <1>2
<1>4. ASSUME NEW t \in Threads, Read(t) \/ Write(t), t # b PROVE held'[p][b] = held[p][b]
  BY <1>4, <1>1, OnlyOwnLocks DEF Safe
<1>5. StartPass \/ Skip \/ (\E t \in Threads : Finish(t) \/ \E c \in Cmds : Accept(t, c)) \/ UNCHANGED vars
       => UNCHANGED held
  BY DEF StartPass, Skip, Finish, Accept, vars
<1>6. QED
  BY <1>2, <1>3, <1>4, <1>5 DEF Next, Handler

THEOREM LocksInOrder == Spec => NoOvertaking
<1>1. ASSUME Safe2, Safe2', [Next]_vars PROVE GivenInOrder
  <2> SUFFICES ASSUME NEW i \in 1 .. Len(queue), NEW j \in 1 .. Len(queue), NEW p \in Lpns,
                      i < j, WaitsFor(queue[i], p), \E k \in {i, j} : th[queue[k]].kind = "write"
               PROVE  held'[p][queue[j]] <= held[p][queue[j]]
    BY DEF GivenInOrder
  <2>1. PICK a \in Threads, b \in Threads : a = queue[i] /\ b = queue[j] /\ Ahead(a, b)
    BY <1>1 DEF Safe2, Safe1, SchedInv, Listed, Ahead
  <2>2. th[a].phase = "LOCK" /\ (p \in PagesOf(th[a]) \/ (th[a].kind = "read" /\ p = th[a].lpn))
    <3>1. /\ th[a].phase = "LOCK"
          /\ p \in PagesOf(th[a]) \cup (IF th[a].kind = "read" THEN {th[a].lpn} ELSE {})
      BY <2>1 DEF WaitsFor
    <3>2. CASE th[a].kind = "read"
      BY <3>1, <3>2
    <3>3. CASE th[a].kind # "read"
      BY <3>1, <3>3
    <3>4. QED BY <3>2, <3>3
  <2>3. Bars(a, b, p)
    <3>1. CASE th[a].kind = "read"
      BY <3>1, <1>1, <2>1, <2>2 DEF ReadersHavePages, Bars, Safe2
    <3>2. CASE th[a].kind # "read"
      <4>1. th[a].kind = "write"
        BY <3>2, <1>1, <2>1 DEF Ahead, Live, Safe2, Safe1, IInv, HandlerOK
      <4>2. QED BY <3>2, <4>1, <2>2 DEF Bars, Carries
    <3>3. QED BY <3>1, <3>2
  <2>4. QED BY <1>1, <2>1, <2>3, InOrderStep
<1>2. [][GivenInOrder]_vars => NoOvertaking
  BY PTL DEF NoOvertaking, GivenInOrder
<1>3. QED BY <1>1, <1>2, Safe2Holds, PTL DEF Spec

-----------------------------------------------------------------------------
(***************************************************************************)
(* Virtual pages.  The page of command n is settled when no thread has yet *)
(* to write it; every place in the mapping table is a settled page or that *)
(* of a writer that has stored it and is about to issue its flash command. *)
(***************************************************************************)
Writing(t) == th[t].kind = "write" /\ (th[t].phase = "BUFFER" \/ Carries(t))

Settled(v) == v \in 1 .. next /\ \A t \in Threads : Writing(t) => th[t].seq # v

Placed(p, sp) ==
    \/ Settled(map[p][sp])
    \/ \E t \in Threads : Unissued(t) /\ th[t].pages[sp] = p /\ map[p][sp] = th[t].seq

ReaderPlaces(t) ==
    th[t].kind = "read" /\ th[t].phase = "FLASH_READ" => \A sp \in SubPages : Settled(th[t].vps[sp])

Loading == {"PMT_LOAD", "FLASH_READ", "BANK", "PMT_UPDATE"}

WriterPlaces(t) ==
    /\ th[t].kind = "write" /\ th[t].phase = "LOCK" => th[t].fixed = {}
    /\ th[t].kind = "write" /\ th[t].phase \in Loading =>
          \A sp \in th[t].fixed : th[t].pages[sp] # NoPage =>
              th[t].vps[sp] = map[th[t].pages[sp]][sp] /\ Settled(th[t].vps[sp])

\* The flash commands of a thread are reads of what it needs, or its write.
CommandsOf(t) ==
    Live(t) /\ th[t].issued # {} =>
        \/ th[t].phase = "FLASH_READ" /\ th[t].issued \subseteq th[t].need
        \/ /\ th[t].kind = "write" /\ th[t].phase \in {"FLASH_WRITE", "SATA"}
           /\ th[t].issued = {0} /\ th[t].vps[0] = th[t].seq

NeedsPages(t) ==
    /\ th[t].kind = "write" /\ th[t].phase = "FLASH_READ" => \A sp \in th[t].need : th[t].pages[sp] # NoPage
    /\ Carries(t) => \A s \in th[t].left : th[t].pages[s[1]] # NoPage

PageOK(t) == ReaderPlaces(t) /\ WriterPlaces(t) /\ CommandsOf(t) /\ NeedsPages(t)

PageInv ==
    /\ \A p \in Lpns, sp \in SubPages : Placed(p, sp)
    /\ \A t \in Threads : PageOK(t)

LEMMA UnissuedCarries == ASSUME NEW t, Unissued(t) PROVE Carries(t) /\ th[t].phase = "FLASH_WRITE"
  BY DEF Carries, Unissued

LEMMA PageIn ==
  ASSUME Safe, NEW t \in Threads, NEW sp \in SubPages, th[t].pages[sp] # NoPage
  PROVE  th[t].pages[sp] \in Lpns
  BY DEF Safe, Typed, ThreadsOK, ThreadOK

\* Who has the lock of a page finds a settled place there.
LEMMA LockedIsSettled ==
  ASSUME Safe, LockInv, PageInv, NEW t \in Threads, NEW p \in Lpns, NEW sp \in SubPages,
         Asks(t, p), th[t].phase # "LOCK", ~Unissued(t)
  PROVE  Settled(map[p][sp])
<1>1. held[p][t] \in {1, 3}
  BY DEF LockInv, OwnLocks
<1>2. ASSUME NEW u \in Threads, Unissued(u), th[u].pages[sp] = p PROVE FALSE
  <2>1. Carries(u) /\ th[u].phase # "LOCK" /\ u # t /\ th[u].kind = "write"
    BY <1>2, UnissuedCarries DEF Unissued
  <2>2. Asks(u, p)
    BY <1>2, <2>1 DEF Asks, PagesOf
  <2>3. held[p][u] = 3
    BY <2>1, <2>2 DEF LockInv, OwnLocks
  <2>4. held[p][t] = 0
    BY <2>1, <2>3 DEF LockInv, PairLocks
  <2>5. QED BY <1>1, <2>4
<1>3. QED BY <1>2 DEF PageInv, Placed

(***************************************************************************)
(* A step of a handler keeps settled pages settled.                        *)
(***************************************************************************)
LEMMA WritingEnds ==
  ASSUME Safe, NEW t \in Threads, Read(t) \/ Write(t), Writing(t)'
  PROVE  Writing(t)
<1>1. Shape /\ Kept(t) /\ Steps(t)
  BY HandlerSteps, StepsKeep DEF Safe
<1>2. th[t].kind = "write"
  BY <1>1 DEF Writing, Kept
<1>3. ASSUME NEW phase \in {"BUFFER", "LOCK", "PMT_LOAD", "FLASH_READ", "BANK", "PMT_UPDATE"},
             Runs(t, "write", phase)
      PROVE  Writing(t)
  BY <1>3 DEF Runs, Writing, Carries
<1>4. CASE IssueWrite(t)
  BY <1>4 DEF IssueWrite, Runs, Writing, Carries, Unissued
<1>5. CASE EndWrite(t)
  <2>1. /\ th'[t].issued # {}
        /\ Goes(t, "SATA") \/ \E signals : Sleeps(t, signals)
        /\ th[t].phase = "FLASH_WRITE"
    BY <1>1, <1>5, EndWriteEffect DEF Works, Runs
  <2>2. th'[t].phase \in {"FLASH_WRITE", "SATA"}
    BY <2>1 DEF Goes, Sleeps
  <2>3. QED BY <2>1, <2>2 DEF Writing, Carries, Unissued
<1>6. CASE Read(t)
  BY <1>2, <1>6 DEF Read, ReadBuffer, ReadLock, LoadForRead, MakeSegments, ReadFlash, Runs
<1>7. QED
  BY <1>3, <1>4, <1>5, <1>6 DEF Write, WriteWholePage, PushPartialPage, FlushAndPush, WriteLock,
     WritePmtLoad, CompleteSubPages, AllocatePage, WaitForBank, UpdatePmt

LEMMA SettledStays ==
  ASSUME Safe, NEW t \in Threads, Read(t) \/ Write(t), NEW v, Settled(v)
  PROVE  Settled(v)'
<1>1. Kept(t) /\ next' = next
  BY HandlerSteps, StepsKeep DEF Safe
<1>2. ASSUME NEW x \in Threads, Writing(x)' PROVE th'[x].seq # v
  <2>1. CASE x = t
    BY <2>1, <1>1, <1>2, WritingEnds DEF Settled, Kept
  <2>2. CASE x # t
    <3>1. th'[x] = th[x]
      BY <2>2, <1>1 DEF Kept
    <3>2. Writing(x)
      BY <3>1, <1>2 DEF Writing, Carries, Unissued
    <3>3. QED BY <3>1, <3>2 DEF Settled
  <2>3. QED BY <2>1, <2>2
<1>3. QED BY <1>1, <1>2 DEF Settled

\* A carrier of another page of the table keeps its place.
LEMMA PageStep ==
  ASSUME Safe, PageInv, NEW t \in Threads, Read(t) \/ Write(t),
         \A p \in Lpns, sp \in SubPages : Placed(p, sp)',
         \A x \in Threads \ {t}, sp \in SubPages :
             Carries(x) /\ th[x].phase # "LOCK" /\ th[x].pages[sp] # NoPage =>
                 map'[th[x].pages[sp]][sp] = map[th[x].pages[sp]][sp],
         PageOK(t)'
  PROVE  PageInv'
<1>1. Kept(t) /\ \A v : Settled(v) => Settled(v)'
  BY HandlerSteps, StepsKeep, SettledStays DEF Safe
<1>2. ASSUME NEW x \in Threads \ {t} PROVE PageOK(x)'
  <2>1. th'[x] = th[x] /\ PageOK(x) /\ th[x].fixed \subseteq SubPages
    BY <1>1 DEF Kept, PageInv, Safe, Typed, ThreadsOK, ThreadOK
  <2>2. ReaderPlaces(x)'
    BY <1>1, <2>1 DEF PageOK, ReaderPlaces
  <2>3. WriterPlaces(x)'
    <3>1. SUFFICES ASSUME th[x].kind = "write", th[x].phase \in Loading, NEW sp \in th[x].fixed,
                          th[x].pages[sp] # NoPage
                   PROVE  th[x].vps[sp] = map'[th[x].pages[sp]][sp] /\ Settled(th[x].vps[sp])'
      BY <2>1 DEF PageOK, WriterPlaces
    <3>2. Carries(x) /\ th[x].phase # "LOCK" /\ sp \in SubPages
      BY <2>1, <3>1 DEF Carries, Loading
    <3>3. th[x].vps[sp] = map[th[x].pages[sp]][sp] /\ Settled(th[x].vps[sp])
      BY <2>1, <3>1 DEF PageOK, WriterPlaces
    <3>4. Settled(th[x].vps[sp])'
      <4>1. PICK v : v = th[x].vps[sp]
        OBVIOUS
      <4>2. Settled(v) /\ th'[x].vps[sp] = v
        BY <2>1, <3>3, <4>1
      <4>3. Settled(v)'
        BY <1>1, <4>2
      <4>4. QED BY <4>2, <4>3
    <3>5. QED BY <3>1, <3>2, <3>3, <3>4
  <2>4. CommandsOf(x)'
    BY <2>1 DEF PageOK, CommandsOf, Live
  <2>5. NeedsPages(x)'
    BY <2>1 DEF PageOK, NeedsPages, Carries, Unissued
  <2>6. QED BY <2>2, <2>3, <2>4, <2>5 DEF PageOK
<1>3. QED BY <1>2 DEF PageInv

LEMMA SamePlaces ==
  ASSUME Safe, PageInv, NEW t \in Threads, Read(t) \/ Write(t), map' = map,
         Unissued(t) => Unissued(t)' /\ th'[t].pages = th[t].pages
  PROVE  \A p \in Lpns, sp \in SubPages : Placed(p, sp)'
<1>1. Kept(t) /\ \A v : Settled(v) => Settled(v)'
  BY HandlerSteps, StepsKeep, SettledStays DEF Safe
<1>2. ASSUME NEW p \in Lpns, NEW sp \in SubPages PROVE Placed(p, sp)'
  <2>1. CASE Settled(map[p][sp])
    <3>1. PICK v : v = map[p][sp]
      OBVIOUS
    <3>2. Settled(v)' /\ map'[p][sp] = v
      BY <1>1, <2>1, <3>1
    <3>3. QED BY <3>2 DEF Placed
  <2>2. ASSUME NEW x \in Threads, Unissued(x), th[x].pages[sp] = p, map[p][sp] = th[x].seq
        PROVE  Unissued(x)' /\ th'[x].pages[sp] = p /\ map'[p][sp] = th'[x].seq
    <3>1. CASE x = t
      BY <1>1, <2>2, <3>1 DEF Kept
    <3>2. CASE x # t
      BY <1>1, <2>2, <3>2 DEF Kept, Unissued
    <3>3. QED BY <3>1, <3>2
  <2>3. QED BY <2>1, <2>2 DEF PageInv, Placed
<1>3. QED BY <1>2

\* A step that leaves the mapping table alone.
LEMMA PageQuiet ==
  ASSUME Safe, PageInv, NEW t \in Threads, Read(t) \/ Write(t), map' = map,
         Unissued(t) => Unissued(t)' /\ th'[t].pages = th[t].pages,
         PageOK(t)'
  PROVE  PageInv'
<1>1. \A p \in Lpns, sp \in SubPages : Placed(p, sp)'
  BY SamePlaces
<1>2. QED BY <1>1, PageStep

-----------------------------------------------------------------------------
\* The flash commands of a read loop are among what it still needs.
LEMMA LoopCommands ==
  ASSUME NEW t \in Threads, NEW now, NEW buf, Loops(t, now, buf), th[t].issued \subseteq th[t].need,
         now \cap th[t].issued = {}
  PROVE  th'[t].issued \subseteq th'[t].need /\ th'[t].need \subseteq th[t].need
<1>1. Issuable(th[t], now) \subseteq th[t].need \ (th[t].issued \cup now) /\ Ended(th[t]) \subseteq th[t].issued
  BY DEF Issuable, Ended
<1>2. QED BY <1>1 DEF Loops

LEMMA IdleThread ==
  ASSUME PageInv, NEW t \in Threads, Live(t), th[t].phase \notin {"FLASH_READ", "FLASH_WRITE", "SATA"}
  PROVE  th[t].issued = {}
  BY DEF PageInv, PageOK, CommandsOf

LEMMA PageRead ==
  ASSUME Safe, LockInv, PageInv, NEW t \in Threads, Read(t)
  PROVE  PageInv'
<1>1. /\ Shape /\ Kept(t) /\ Live(t) /\ th[t].kind = "read" /\ th'[t].kind = "read"
      /\ \A v : Settled(v) => Settled(v)'
  <2>1. Shape /\ Kept(t) /\ Current(t)
    BY HandlerSteps, StepsKeep DEF Safe
  <2>2. th[t].kind = "read"
    BY DEF Read, ReadBuffer, ReadLock, LoadForRead, MakeSegments, ReadFlash, Runs
  <2>3. QED BY <2>1, <2>2, SettledStays DEF Kept, Current
<1>2. ASSUME map' = map, ReaderPlaces(t)', CommandsOf(t)' PROVE PageInv'
  <2>1. ~Unissued(t) /\ WriterPlaces(t)' /\ NeedsPages(t)'
    BY <1>1 DEF Unissued, WriterPlaces, NeedsPages, Carries
  <2>2. PageOK(t)'
    BY <1>2, <2>1 DEF PageOK
  <2>3. QED BY <1>2, <2>1, <2>2, PageQuiet
<1>3. ASSUME map' = map, th'[t].phase # "FLASH_READ", th'[t].issued = {} PROVE PageInv'
  BY <1>2, <1>3 DEF ReaderPlaces, CommandsOf
<1>4. CASE ReadBuffer(t)
  <2>1. /\ th[t].phase = "BUFFER" /\ map' = map /\ th'[t].issued = th[t].issued
        /\ Goes(t, IF FoundBy(t) = th[t].sectors THEN "SATA" ELSE "LOCK")
    BY <1>1, <1>4, ReadBufferEffect DEF Runs
  <2>2. th'[t].phase \in {"SATA", "LOCK"}
    BY <2>1 DEF Goes
  <2>3. QED BY <1>1, <1>3, <2>1, <2>2, IdleThread
<1>5. CASE ReadLock(t)
  <2>1. /\ th[t].phase = "LOCK" /\ map' = map /\ th'[t].issued = th[t].issued
        /\ Goes(t, "PMT_LOAD") \/ Sleeps(t, {"lock"})
    BY <1>1, <1>5, ReadLockEffect DEF Runs, Works
  <2>2. th'[t].phase \in {"PMT_LOAD", "LOCK"}
    BY <2>1 DEF Goes, Sleeps
  <2>3. QED BY <1>1, <1>3, <2>1, <2>2, IdleThread
<1>6. CASE LoadForRead(t)
  <2>1. /\ th[t].phase = "PMT_LOAD" /\ map' = map /\ th'[t].issued = th[t].issued
        /\ th'[t].phase = "PMT_LOAD"
    BY <1>1, <1>6, LoadForReadEffect DEF Runs, Works, Sleeps
  <2>2. QED BY <1>1, <1>3, <2>1, IdleThread
<1>7. CASE MakeSegments(t)
  <2>1. /\ th[t].phase = "PMT_LOAD" /\ map' = map /\ th'[t].issued = th[t].issued
        /\ th'[t].vps = map[th[t].lpn]
    BY <1>1, <1>7, MakeSegmentsEffect DEF Runs
  <2>2. th'[t].issued = {}
    BY <1>1, <2>1, IdleThread
  <2>3. th[t].lpn \in Lpns /\ Asks(t, th[t].lpn) /\ ~Unissued(t)
    BY <1>1, <2>1, WorkTyped DEF Safe, Typed, Asks, Unissued
  <2>4. ASSUME NEW sp \in SubPages PROVE Settled(th[t].vps[sp])'
    <3>1. Settled(map[th[t].lpn][sp])
      BY <2>1, <2>3, LockedIsSettled
    <3>2. PICK v : v = map[th[t].lpn][sp]
      OBVIOUS
    <3>3. Settled(v)' /\ th'[t].vps[sp] = v
      BY <1>1, <2>1, <3>1, <3>2
    <3>4. QED BY <3>3
  <2>5. ReaderPlaces(t)'
    BY <2>4 DEF ReaderPlaces
  <2>6. CommandsOf(t)'
    BY <2>2 DEF CommandsOf
  <2>7. QED BY <1>2, <2>1, <2>5, <2>6
<1>8. CASE ReadFlash(t)
  <2>1. /\ th[t].phase = "FLASH_READ" /\ map' = map
        /\ ReadLoop(t, ReadNow(t), Filled(t), "SATA")
    BY <1>1, <1>8, ReadFlashEffect DEF Runs
  <2>2. /\ Loops(t, ReadNow(t), Filled(t))
        /\ th'[t].need # {} => th'[t].phase = "FLASH_READ"
    BY <1>1, <2>1, ReadLoopFields DEF Sleeps
  <2>3. th[t].issued \subseteq th[t].need
    BY <1>1, <2>1 DEF PageInv, PageOK, CommandsOf
  <2>4. ReadNow(t) \cap th[t].issued = {}
    BY DEF ReadNow
  <2>5. th'[t].issued \subseteq th'[t].need
    BY <2>2, <2>3, <2>4, LoopCommands
  <2>6. CommandsOf(t)'
    BY <2>2, <2>5 DEF CommandsOf
  <2>7. ASSUME NEW sp \in SubPages PROVE Settled(th[t].vps[sp])'
    <3>1. Settled(th[t].vps[sp]) /\ th'[t].vps[sp] = th[t].vps[sp]
      BY <1>1, <2>1, <2>2 DEF PageInv, PageOK, ReaderPlaces, Loops
    <3>2. PICK v : v = th[t].vps[sp]
      OBVIOUS
    <3>3. Settled(v)' /\ th'[t].vps[sp] = v
      BY <1>1, <3>1, <3>2
    <3>4. QED BY <3>3
  <2>8. ReaderPlaces(t)'
    BY <2>7 DEF ReaderPlaces
  <2>9. QED BY <1>2, <2>1, <2>6, <2>8
<1>9. QED BY <1>4, <1>5, <1>6, <1>7, <1>8 DEF Read

LEMMA PageWrite ==
  ASSUME Safe, LockInv, PageInv, NEW t \in Threads, Write(t)
  PROVE  PageInv'
<1>1. /\ Shape /\ Kept(t) /\ Live(t) /\ th[t].kind = "write" /\ th'[t].kind = "write"
      /\ th'[t].seq = th[t].seq /\ th'[t].lpn = th[t].lpn
      /\ \A v : Settled(v) => Settled(v)'
  <2>1. Shape /\ Kept(t) /\ Current(t)
    BY HandlerSteps, StepsKeep DEF Safe
  <2>2. th[t].kind = "write"
    BY DEF Write, WriteWholePage, PushPartialPage, FlushAndPush, WriteLock, WritePmtLoad,
       CompleteSubPages, AllocatePage, WaitForBank, UpdatePmt, IssueWrite, EndWrite, Runs
  <2>3. QED BY <2>1, <2>2, SettledStays DEF Kept, Current
<1>2. /\ ReaderPlaces(t)'
      /\ th[t].fixed \subseteq SubPages
  <2>1. ReaderPlaces(t)'
    BY <1>1 DEF ReaderPlaces
  <2>2. QED BY <2>1, WorkTyped DEF Safe, Typed, WorkOK
<1>3. ASSUME map' = map, th[t].phase # "FLASH_WRITE", WriterPlaces(t)', CommandsOf(t)', NeedsPages(t)'
      PROVE  PageInv'
  BY <1>2, <1>3, PageQuiet DEF PageOK, Unissued
\* In and before LOCK nothing is fixed and nothing is issued.
<1>4. ASSUME map' = map, th[t].phase = "BUFFER", th'[t].phase = "LOCK", th'[t].issued = th[t].issued,
             th'[t].fixed = th[t].fixed, \A s \in th'[t].left : th'[t].pages[s[1]] # NoPage
      PROVE  PageInv'
  <2>1. th'[t].issued = {} /\ th'[t].fixed = {}
    BY <1>1, <1>4, IdleThread DEF Safe, IInv, HandlerOK, NotBegun
  <2>2. WriterPlaces(t)'
    BY <1>4, <2>1 DEF WriterPlaces, Loading
  <2>3. CommandsOf(t)' /\ NeedsPages(t)'
    BY <1>4, <2>1 DEF CommandsOf, NeedsPages
  <2>4. QED BY <1>3, <1>4, <2>2, <2>3
\* A phase that leaves the places alone.
<1>5. ASSUME map' = map, Works(t, th[t]), th[t].phase \in Loading \ {"FLASH_READ"},
             th'[t].phase \in Loading \ {"FLASH_READ"}
      PROVE  PageInv'
  <2>1. th[t].issued = {} /\ th'[t].issued = {}
    BY <1>1, <1>5, IdleThread DEF Works, Loading
  <2>2. WriterPlaces(t)'
    <3> SUFFICES ASSUME NEW sp \in th'[t].fixed, th'[t].pages[sp] # NoPage
                 PROVE  th'[t].vps[sp] = map[th'[t].pages[sp]][sp] /\ Settled(th[t].vps[sp])'
      BY <1>5 DEF WriterPlaces, Loading
    <3>1. th[t].vps[sp] = map[th[t].pages[sp]][sp] /\ Settled(th[t].vps[sp])
      BY <1>1, <1>5 DEF PageInv, PageOK, WriterPlaces, Works
    <3>2. PICK v : v = th[t].vps[sp]
      OBVIOUS
    <3>3. Settled(v)' /\ th'[t].vps[sp] = v
      BY <1>1, <1>5, <3>1, <3>2 DEF Works
    <3>4. Settled(th[t].vps[sp])'
      BY <3>3
    <3>5. QED BY <3>1, <3>4, <1>5 DEF Works
  <2>3. Carries(t) /\ NeedsPages(t)
    BY <1>1, <1>5 DEF PageInv, PageOK, Carries, Loading
  <2>4. CommandsOf(t)' /\ NeedsPages(t)'
    BY <1>5, <2>1, <2>3 DEF CommandsOf, NeedsPages, Works
  <2>5. th[t].phase # "FLASH_WRITE"
    BY <1>5 DEF Loading
  <2>6. QED BY <1>3, <1>5, <2>2, <2>4, <2>5
<1>6. CASE WriteWholePage(t)
  <2>1. /\ th[t].phase = "BUFFER" /\ th'[t].phase = "LOCK" /\ map' = map /\ th'[t].issued = th[t].issued
        /\ th'[t].fixed = th[t].fixed /\ th'[t].pages = [sp \in SubPages |-> th[t].lpn]
        /\ th'[t].left = th[t].left
    BY <1>1, <1>6, WriteWholePageEffect DEF Runs, Goes
  <2>2. th[t].lpn \in Lpns /\ th[t].lpn # NoPage /\ th[t].left \subseteq Sectors
    BY WorkTyped, NullAssumption DEF Safe, Typed, WorkOK
  <2>3. \A s \in th'[t].left : th'[t].pages[s[1]] # NoPage
    BY <2>1, <2>2, SectorParts
  <2>4. QED BY <1>4, <2>1, <2>3
<1>7. CASE PushPartialPage(t)
  <2>1. th[t].phase = "BUFFER" /\ th'[t].phase = "SATA" /\ map' = map /\ th'[t].issued = th[t].issued
    BY <1>1, <1>7, PushPartialPageEffect DEF Runs, Goes, Works
  <2>2. th'[t].issued = {}
    BY <1>1, <2>1, IdleThread
  <2>3. WriterPlaces(t)' /\ CommandsOf(t)' /\ NeedsPages(t)'
    BY <2>1, <2>2 DEF WriterPlaces, CommandsOf, NeedsPages, Carries, Unissued, Loading
  <2>4. QED BY <1>3, <2>1, <2>3
<1>8. CASE FlushAndPush(t)
  <2>1. /\ th[t].phase = "BUFFER" /\ th'[t].phase = "LOCK" /\ map' = map /\ th'[t].issued = th[t].issued
        /\ th'[t].fixed = th[t].fixed
        /\ \E pages : th'[t].pages = pages /\ th'[t].left = Buffer!BufferSectors(pages)
    BY <1>1, <1>8, FlushAndPushEffect DEF Runs, Goes, FlushesTo
  <2>2. \A s \in th'[t].left : th'[t].pages[s[1]] # NoPage
    BY <2>1 DEF Buffer!BufferSectors
  <2>3. QED BY <1>4, <2>1, <2>2
<1>9. CASE WriteLock(t)
  <2>1. /\ th[t].phase = "LOCK" /\ map' = map /\ Works(t, th[t])
        /\ Goes(t, "PMT_LOAD") \/ Sleeps(t, {"lock"})
    BY <1>1, <1>9, WriteLockEffect DEF Runs
  <2>2. th'[t].phase \in {"LOCK", "PMT_LOAD"}
    BY <2>1 DEF Goes, Sleeps
  <2>3. /\ th'[t].issued = {} /\ th'[t].fixed = {} /\ th'[t].pages = th[t].pages
        /\ th'[t].left = th[t].left
    BY <1>1, <2>1, IdleThread DEF Works, PageInv, PageOK, WriterPlaces
  <2>4. Carries(t) /\ NeedsPages(t)
    BY <1>1, <2>1 DEF PageInv, PageOK, Carries
  <2>5. WriterPlaces(t)' /\ CommandsOf(t)' /\ NeedsPages(t)'
    BY <2>2, <2>3, <2>4 DEF WriterPlaces, CommandsOf, NeedsPages
  <2>6. QED BY <1>3, <2>1, <2>5
<1>10. CASE WritePmtLoad(t)
  <2>1. /\ th[t].phase = "PMT_LOAD" /\ map' = map
        /\ th'[t].fixed = th[t].fixed \cup CanFix(t)
        /\ th'[t].vps = [sp \in SubPages |->
                             IF sp \in CanFix(t) THEN map[th[t].pages[sp]][sp] ELSE th[t].vps[sp]]
        /\ th'[t].left = th[t].left /\ th'[t].pages = th[t].pages
        /\ \/ Goes(t, "FLASH_READ") /\ th'[t].need = Incomplete(th[t]) /\ th'[t].issued = {}
           \/ Sleeps(t, {"pmt"}) /\ th'[t].issued = th[t].issued
    BY <1>1, <1>10, WritePmtLoadEffect DEF Runs
  <2>2. /\ th'[t].issued = {} /\ th'[t].phase \in {"PMT_LOAD", "FLASH_READ"}
        /\ th'[t].phase = "FLASH_READ" => th'[t].need = Incomplete(th[t])
    BY <1>1, <2>1, IdleThread DEF Goes, Sleeps
  <2>3. Carries(t) /\ NeedsPages(t) /\ ~Unissued(t)
    BY <1>1, <2>1 DEF PageInv, PageOK, Carries, Unissued
  <2>4. CommandsOf(t)'
    BY <2>2 DEF CommandsOf
  <2>5. NeedsPages(t)'
    BY <2>1, <2>2, <2>3 DEF NeedsPages, Incomplete
  <2>6. WriterPlaces(t)'
    <3> SUFFICES ASSUME NEW sp \in th'[t].fixed, th'[t].pages[sp] # NoPage
                 PROVE  th'[t].vps[sp] = map[th'[t].pages[sp]][sp] /\ Settled(th[t].vps[sp])'
      BY <2>1, <2>2 DEF WriterPlaces
    <3>1. sp \in SubPages /\ CanFix(t) \subseteq SubPages
      BY <1>2, <2>1 DEF CanFix, ToFix
    <3>2. th'[t].vps[sp] = map[th[t].pages[sp]][sp] /\ Settled(map[th[t].pages[sp]][sp])
      <4>1. CASE sp \in CanFix(t)
        <5>1. th[t].pages[sp] \in Lpns
          BY <2>1, <3>1, PageIn
        <5>2. Asks(t, th[t].pages[sp])
          BY <2>3, <3>1, <5>1 DEF Asks, PagesOf
        <5>3. QED BY <2>1, <2>3, <3>1, <4>1, <5>1, <5>2, LockedIsSettled
      <4>2. CASE sp \notin CanFix(t)
        BY <1>1, <2>1, <3>1, <4>2 DEF PageInv, PageOK, WriterPlaces, Loading
      <4>3. QED BY <4>1, <4>2
    <3>3. PICK v : v = map[th[t].pages[sp]][sp]
      OBVIOUS
    <3>4. Settled(v)' /\ th'[t].vps[sp] = v
      BY <1>1, <3>2, <3>3
    <3>5. Settled(th[t].vps[sp])'
      BY <3>4
    <3>6. QED BY <2>1, <3>2, <3>5
  <2>7. QED BY <1>3, <2>1, <2>4, <2>5, <2>6
<1>11. CASE CompleteSubPages(t)
  <2>1. /\ th[t].phase = "FLASH_READ" /\ map' = map
        /\ ReadLoop(t, WriteNow(t), Completed(t), "BANK")
    BY <1>1, <1>11, CompleteSubPagesEffect DEF Runs
  <2>2. /\ Loops(t, WriteNow(t), Completed(t)) /\ th'[t].phase \in {"FLASH_READ", "BANK"}
        /\ th'[t].need # {} => th'[t].phase = "FLASH_READ"
    <3>1. /\ Loops(t, WriteNow(t), Completed(t))
          /\ th'[t].need # {} => \E signals : Sleeps(t, signals)
      BY <1>1, <2>1, ReadLoopFields
    <3>2. th'[t].phase \in {"FLASH_READ", "BANK"}
      BY <1>1, <2>1, LoopPhase
    <3>3. QED BY <2>1, <3>1, <3>2 DEF Sleeps
  <2>3. th[t].issued \subseteq th[t].need /\ NeedsPages(t) /\ Carries(t)
    BY <1>1, <2>1 DEF PageInv, PageOK, CommandsOf, Carries
  <2>4. WriteNow(t) \cap th[t].issued = {}
    BY DEF WriteNow
  <2>5. th'[t].issued \subseteq th'[t].need /\ th'[t].need \subseteq th[t].need
    BY <2>2, <2>3, <2>4, LoopCommands
  <2>6. CommandsOf(t)'
    BY <2>2, <2>5 DEF CommandsOf
  <2>7. NeedsPages(t)'
    BY <1>1, <2>1, <2>2, <2>3, <2>5 DEF NeedsPages, Loops
  <2>8. WriterPlaces(t)'
    <3> SUFFICES ASSUME NEW sp \in th'[t].fixed, th'[t].pages[sp] # NoPage
                 PROVE  th'[t].vps[sp] = map[th'[t].pages[sp]][sp] /\ Settled(th[t].vps[sp])'
      BY <2>1, <2>2 DEF WriterPlaces
    <3>1. th[t].vps[sp] = map[th[t].pages[sp]][sp] /\ Settled(th[t].vps[sp])
      BY <1>1, <2>1, <2>2 DEF PageInv, PageOK, WriterPlaces, Loops, Loading
    <3>2. PICK v : v = th[t].vps[sp]
      OBVIOUS
    <3>3. Settled(v)' /\ th'[t].vps[sp] = v
      BY <1>1, <2>2, <3>1, <3>2 DEF Loops
    <3>4. Settled(th[t].vps[sp])'
      BY <3>3
    <3>5. QED BY <3>1, <3>4, <2>2 DEF Loops
  <2>9. QED BY <1>3, <2>1, <2>6, <2>7, <2>8
<1>12. CASE AllocatePage(t)
  <2>1. /\ th[t].phase = "BANK" /\ map' = map /\ Works(t, th[t]) /\ th'[t].phase = "PMT_UPDATE"
    BY <1>1, <1>12, AllocatePageEffect DEF Runs, Goes
  <2>2. QED BY <1>5, <2>1 DEF Loading
<1>13. CASE WaitForBank(t)
  <2>1. /\ th[t].phase = "BANK" /\ map' = map /\ Works(t, th[t]) /\ th'[t].phase = "BANK"
    BY <1>1, <1>13, WaitForBankEffect DEF Runs, Sleeps
  <2>2. QED BY <1>5, <2>1 DEF Loading
<1>14. CASE UpdatePmt(t)
  <2>1. /\ th[t].phase = "PMT_UPDATE" /\ th'[t].phase = "FLASH_WRITE"
        /\ map' = [p \in Lpns |-> [sp \in SubPages |->
                       IF th[t].pages[sp] = p THEN th[t].seq ELSE map[p][sp]]]
        /\ th'[t].pages = th[t].pages /\ th'[t].left = th[t].left /\ th'[t].issued = th[t].issued
    BY <1>1, <1>14, UpdatePmtEffect DEF Runs, Goes
  <2>2. th'[t].issued = {} /\ Unissued(t)' /\ Carries(t) /\ NeedsPages(t) /\ ~Unissued(t)
    BY <1>1, <2>1, IdleThread DEF Unissued, Carries, PageInv, PageOK
  <2>3. PageOK(t)'
    BY <1>2, <2>1, <2>2 DEF PageOK, WriterPlaces, CommandsOf, NeedsPages, Loading
  <2>4. ASSUME NEW p \in Lpns, NEW sp \in SubPages PROVE Placed(p, sp)'
    <3>1. CASE th[t].pages[sp] = p
      <4>1. map'[p][sp] = th'[t].seq
        BY <1>1, <2>1, <3>1
      <4>2. QED BY <2>1, <2>2, <3>1, <4>1 DEF Placed
    <3>2. CASE th[t].pages[sp] # p
      <4>1. map'[p][sp] = map[p][sp]
        BY <2>1, <3>2
      <4>2. CASE Settled(map[p][sp])
        <5>1. PICK v : v = map[p][sp]
          OBVIOUS
        <5>2. Settled(v)' /\ map'[p][sp] = v
          BY <1>1, <4>1, <4>2, <5>1
        <5>3. QED BY <5>2 DEF Placed
      <4>3. ASSUME NEW x \in Threads, Unissued(x), th[x].pages[sp] = p, map[p][sp] = th[x].seq
            PROVE  Placed(p, sp)'
        <5>1. th'[x] = th[x]
          BY <4>3, <1>1, <2>2 DEF Kept
        <5>2. Unissued(x)' /\ th'[x].pages[sp] = p /\ map'[p][sp] = th'[x].seq
          BY <4>1, <4>3, <5>1 DEF Unissued
        <5>3. QED BY <5>2 DEF Placed
      <4>4. QED BY <4>2, <4>3 DEF PageInv, Placed
    <3>3. QED BY <3>1, <3>2
  <2>5. ASSUME NEW x \in Threads \ {t}, NEW sp \in SubPages, Carries(x), th[x].phase # "LOCK",
               th[x].pages[sp] # NoPage
        PROVE  map'[th[x].pages[sp]][sp] = map[th[x].pages[sp]][sp]
    <3>1. th[x].pages[sp] \in Lpns
      BY <2>5, PageIn
    <3>2. th[t].pages[sp] # th[x].pages[sp]
      <4> SUFFICES ASSUME th[t].pages[sp] = th[x].pages[sp] PROVE FALSE
        OBVIOUS
      <4> DEFINE p == th[x].pages[sp]
      <4>1. Asks(t, p) /\ Asks(x, p) /\ th[x].kind = "write" /\ p \in Lpns
        BY <2>2, <2>5, <3>1 DEF Asks, PagesOf, Carries, Unissued
      <4> HIDE DEF p
      <4>2. held[p][t] = 3 /\ held[p][x] = 3
        BY <1>1, <2>1, <2>5, <4>1 DEF LockInv, OwnLocks
      <4>3. held[p][x] = 0
        BY <4>1, <4>2 DEF LockInv, PairLocks
      <4>4. QED BY <4>2, <4>3
    <3>3. QED BY <2>1, <3>1, <3>2
  <2>6. QED BY <2>3, <2>4, <2>5, PageStep
<1>15. CASE IssueWrite(t)
  <2>1. /\ th[t].phase = "FLASH_WRITE" /\ th[t].issued = {} /\ map' = map
        /\ WritesPage(t) \/ FindsBusy(t)
    BY <1>1, <1>15, IssueWriteEffect DEF Runs
  <2>2. CASE FindsBusy(t)
    <3>1. Works(t, th[t]) /\ th'[t].phase = "FLASH_WRITE"
      BY <2>1, <2>2 DEF FindsBusy, Sleeps
    <3>2. Unissued(t) /\ Unissued(t)' /\ NeedsPages(t) /\ Carries(t)
      BY <1>1, <2>1, <3>1 DEF Unissued, Carries, Works, PageInv, PageOK
    <3>3. PageOK(t)'
      BY <1>2, <2>1, <3>1, <3>2 DEF PageOK, WriterPlaces, CommandsOf, NeedsPages, Loading, Works
    <3>4. QED BY <2>1, <3>1, <3>2, <3>3, PageQuiet DEF Works
  <2>3. CASE WritesPage(t)
    <3>1. /\ th'[t].phase = "FLASH_WRITE" /\ th'[t].issued = {0}
          /\ th'[t].vps = [sp \in SubPages |-> th[t].seq]
      BY <2>1, <2>3 DEF WritesPage, Sleeps
    <3>2. ~Unissued(t)' /\ ~Carries(t)' /\ ~Writing(t)'
      BY <3>1 DEF Unissued, Carries, Writing
    <3>3. th'[t].vps[0] = th'[t].seq
      BY <1>1, <3>1, ZeroIsSubPage
    <3>4. PageOK(t)'
      BY <1>1, <1>2, <3>1, <3>2, <3>3 DEF PageOK, WriterPlaces, CommandsOf, NeedsPages, Loading
    <3>5. ASSUME NEW v, v = th[t].seq PROVE Settled(v)'
      <4>1. v \in 1 .. next /\ next' = next
        BY <1>1, <3>5, HandlerSteps DEF Safe, SchedInv, Numbered
      <4>2. ASSUME NEW x \in Threads, Writing(x)' PROVE th'[x].seq # v
        <5>1. x # t /\ th'[x] = th[x]
          BY <4>2, <3>2, <1>1 DEF Kept
        <5>2. Live(x)
          BY <4>2, <5>1 DEF Writing, Carries, Unissued, Live
        <5>3. QED BY <5>1, <5>2, <1>1, <3>5, Positions DEF Safe, SchedInv
      <4>3. QED BY <4>1, <4>2 DEF Settled
    <3>6. ASSUME NEW p \in Lpns, NEW sp \in SubPages PROVE Placed(p, sp)'
      <4>1. CASE Settled(map[p][sp]) \/ map[p][sp] = th[t].seq
        <5>1. PICK v : v = map[p][sp]
          OBVIOUS
        <5>2. Settled(v)' /\ map'[p][sp] = v
          BY <1>1, <2>1, <3>5, <4>1, <5>1
        <5>3. QED BY <5>2 DEF Placed
      <4>2. ASSUME NEW x \in Threads \ {t}, Unissued(x), th[x].pages[sp] = p, map[p][sp] = th[x].seq
            PROVE  Placed(p, sp)'
        <5>1. th'[x] = th[x]
          BY <4>2, <1>1 DEF Kept
        <5>2. Unissued(x)' /\ th'[x].pages[sp] = p /\ map'[p][sp] = th'[x].seq
          BY <2>1, <4>2, <5>1 DEF Unissued
        <5>3. QED BY <5>2 DEF Placed
      <4>3. QED BY <4>1, <4>2 DEF PageInv, Placed
    <3>7. QED BY <2>1, <3>4, <3>6, PageStep
  <2>4. QED BY <2>1, <2>2, <2>3
<1>16. CASE EndWrite(t)
  <2>1. /\ th[t].phase = "FLASH_WRITE" /\ th[t].issued = {0} /\ map' = map /\ Works(t, th[t])
        /\ Goes(t, "SATA") \/ \E signals : Sleeps(t, signals)
    BY <1>1, <1>16, EndWriteEffect DEF Runs
  <2>2. th'[t].phase \in {"SATA", "FLASH_WRITE"}
    BY <2>1 DEF Goes, Sleeps
  <2>3. ~Unissued(t) /\ ~Carries(t)' /\ th'[t].issued = {0} /\ th'[t].vps[0] = th'[t].seq
    BY <1>1, <2>1, <2>2 DEF Unissued, Carries, Works, PageInv, PageOK, CommandsOf
  <2>4. PageOK(t)'
    BY <1>1, <1>2, <2>2, <2>3 DEF PageOK, WriterPlaces, CommandsOf, NeedsPages, Loading
  <2>5. QED BY <2>1, <2>3, <2>4, PageQuiet
<1>17. QED
  BY <1>6, <1>7, <1>8, <1>9, <1>10, <1>11, <1>12, <1>13, <1>14, <1>15, <1>16 DEF Write
=============================================================================

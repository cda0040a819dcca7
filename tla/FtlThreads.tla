------------------------------ MODULE FtlThreads ------------------------------
(***************************************************************************)
(* The concurrent heart of the firmware: ftl_main accepts page commands    *)
(* and gives each a cooperative thread; schedule() walks the FIFO of       *)
(* threads once per pass; the read and write handlers run, phase by phase, *)
(* until they sleep on a signal or end.  They share the write buffer, the  *)
(* page locks, the mapping table and the flash banks.                      *)
(*                                                                         *)
(* One action is one phase of the running handler.  A handler is not       *)
(* interrupted between its phases, so only thread queue[turn] steps while  *)
(* a pass is under way (turn > 0); commands arrive and flash commands end  *)
(* between the passes (turn = 0).                                          *)
(*                                                                         *)
(* The lock table is PageLockTable, which PageLock refines.  The write     *)
(* buffer is SectorStore, which WriteBuffer refines; it may be full at any *)
(* time and then flush any buffer.  The PMT thread, which always runs      *)
(* first, is a service that loads what was requested and evicts what is    *)
(* not fixed.                                                              *)
(***************************************************************************)
EXTENDS Integers, FiniteSets, Sequences, SequencesExt

CONSTANTS
    Threads,      \* thread identifiers, the lock owners
    Lpns,         \* logical pages, 1..n
    SubPages,     \* sub-pages of a page, 0..m
    Parts,        \* sectors of a sub-page
    Banks,        \* flash banks
    Users,        \* user ids
    Cmds,         \* the page commands the host may send
    MaxCmds,      \* bound: commands accepted, those of Init included
    PmtEvicts,    \* whether the PMT thread evicts pages
    PmtUsesBanks, \* whether the PMT thread keeps banks busy
    NoPage,       \* NULL_LPN
    NoUser        \* NULL_USER_ID

Sectors == SubPages \X Parts

CmdType == [kind : {"read", "write"}, lpn : Lpns, uid : Users,
            sectors : SUBSET Sectors \ {{}}]

ASSUME CmdsAssumption ==
    Cmds \subseteq CmdType /\ \A p \in Lpns : \E c \in Cmds : c.lpn = p
ASSUME LpnsAssumption == MaxCmds \in Nat /\ \E n \in 1 .. MaxCmds : Lpns = 1 .. n
ASSUME SizesAssumption ==
    /\ IsFiniteSet(SubPages) /\ SubPages # {} /\ SubPages = 0 .. Cardinality(SubPages) - 1
    /\ Parts # {} /\ Banks # {} /\ Users # {}
ASSUME NullAssumption == NoPage \notin Lpns /\ NoUser \notin Users

(***************************************************************************)
(* A sector holds the number of the command that wrote it; 0 is erased     *)
(* flash (ALL_ONE_BUF), Zeros what a reader without access is given        *)
(* (ALL_ZERO_BUF) and Absent a sector that is not in the write buffer.     *)
(***************************************************************************)
Zeros  == -1
Absent == -2
Values == Zeros .. MaxCmds

\* Virtual pages: n is the page allocated by command n, 0 the null page.
Vps == 0 .. MaxCmds

VARIABLES
    queue, turn,         \* scheduler: FIFO of threads, position in the pass
    lockSig, pmtSig,     \* SIG_LOCK_RELEASED, SIG_PMT_LOADED of this pass
    th,                  \* th[t]: handler variables of thread t
    held,                \* held[p][t]: page lock
    wb,                  \* wb[p][s]: [val, uid] of a sector in the write buffer
    map,                 \* map[p][sp]: virtual page of a sub-page
    loaded, requested,   \* PMT pages in the cache, and asked for
    flash,               \* flash[v]: [bank, uid, data] of a virtual page
    idle, complete,      \* banks idle; banks whose command ended in this pass
    disk, next           \* what the host has written; commands so far

sched == <<queue, turn, th>>
pmt   == <<loaded, requested, map>>
banks == <<idle, complete>>
host  == <<disk, next>>
vars  == <<sched, lockSig, pmtSig, held, wb, pmt, flash, banks, host>>

LockTable == INSTANCE PageLockTable
                WITH Owners <- Threads, Pages <- Lpns, Requests <- {1, 3}, asleep <- {}

\* write_buffer.c, by its promise (see SectorStore and WriteBuffer).
Buffer == INSTANCE SectorStore
             WITH Values <- 1 .. MaxCmds, Ranges <- SUBSET Sectors \ {{}, Sectors}

Blank == [s \in Sectors |-> 0]

FreeThread ==
    [kind |-> "free", phase |-> "BUFFER", awake |-> TRUE, wake |-> {},
     lpn |-> 1, uid |-> CHOOSE u \in Users : TRUE, seq |-> 0,
     sectors |-> {}, left |-> {}, want |-> Blank, buf |-> Blank,
     pages |-> [sp \in SubPages |-> NoPage], vps |-> [sp \in SubPages |-> 0],
     fixed |-> {}, need |-> {}, issued |-> {}]

(***************************************************************************)
(* scheduler.c and signal.h.                                               *)
(***************************************************************************)
\* Bug: a bank that is used again in the pass no longer signals its end.
BugForgetsComplete ==
    (IF lockSig THEN {"lock"} ELSE {}) \cup (IF pmtSig THEN {"pmt"} ELSE {}) \cup idle

Signals ==
    (IF lockSig THEN {"lock"} ELSE {}) \cup (IF pmtSig THEN {"pmt"} ELSE {})
        \cup idle \cup complete

Awake(t) == th[t].awake \/ th[t].wake \cap Signals # {}

Runs(t, kind, phase) ==
    /\ turn > 0
    /\ t = queue[turn]
    /\ Awake(t)
    /\ th[t].kind = kind
    /\ th[t].phase = phase

NextTurn == IF turn < Len(queue) THEN turn + 1 ELSE 0

\* sleep(signals): the handler returns and resumes in the same phase.
Sleep(t, r, signals) ==
    /\ th' = [th EXCEPT ![t] = [r EXCEPT !.awake = FALSE, !.wake = signals]]
    /\ turn' = NextTurn
    /\ UNCHANGED queue

\* The handler falls through to another phase.
GoOn(t, r, phase) ==
    /\ th' = [th EXCEPT ![t] = [r EXCEPT !.awake = TRUE, !.wake = {}, !.phase = phase]]
    /\ UNCHANGED <<queue, turn>>

\* Bug: the thread is freed but stays in the list.
BugStaysListed(t) ==
    /\ th' = [th EXCEPT ![t] = FreeThread]
    /\ turn' = NextTurn
    /\ UNCHANGED queue

\* end(): the thread is removed from the list and its object freed.
End(t) ==
    /\ th' = [th EXCEPT ![t] = FreeThread]
    /\ queue' = RemoveAt(queue, turn)
    /\ turn' = IF turn < Len(queue) THEN turn ELSE 0

\* A sleeping thread is passed over when none of its signals is set.
Skip ==
    /\ turn > 0
    /\ ~Awake(queue[turn])
    /\ turn' = NextTurn
    /\ UNCHANGED <<queue, th, lockSig, pmtSig, held, wb, pmt, flash, banks, host>>

\* Bug: only the first sub-page of a buffer fixes its page.
BugFixesFirst ==
    {p \in Lpns : \E t \in Threads : 0 \in th[t].fixed /\ th[t].pages[0] = p}

\* pmt_fix: pages that a writer has fixed stay in the cache.
Fixed == {p \in Lpns : \E t \in Threads : \E sp \in th[t].fixed : th[t].pages[sp] = p}

\* schedule() begins a pass: fla_update_bank_state sees which commands ended,
\* then the PMT thread, first in the list, loads and evicts mapping pages.
StartPass ==
    /\ turn = 0
    /\ turn' = IF queue = <<>> THEN 0 ELSE 1
    /\ lockSig' = FALSE
    /\ \E done \in SUBSET (Banks \ idle),
          load \in SUBSET requested,
          out \in IF PmtEvicts THEN SUBSET (loaded \ Fixed) ELSE {{}} :
        /\ complete' = done
        /\ \E busy \in IF PmtUsesBanks THEN SUBSET (idle \cup done) ELSE {{}} :
              idle' = (idle \cup done) \ busy
        /\ loaded' = (loaded \ out) \cup load
        /\ requested' = requested \ load
        /\ pmtSig' = (load # {})
    /\ UNCHANGED <<queue, th, held, wb, map, flash, host>>

\* ftl_main: a page command becomes a thread at the end of the list.  The host
\* is owed, for a read, what the commands accepted before it have written.
Accept(t, c) ==
    /\ turn = 0
    /\ next < MaxCmds
    /\ th[t].kind = "free"
    /\ next' = next + 1
    /\ disk' = IF c.kind = "read" THEN disk
               ELSE [disk EXCEPT ![c.lpn] =
                        [s \in Sectors |-> IF s \in c.sectors THEN next' ELSE @[s]]]
    /\ th' = [th EXCEPT ![t] = [FreeThread EXCEPT
                  !.kind = c.kind, !.lpn = c.lpn, !.uid = c.uid, !.seq = next',
                  !.sectors = c.sectors, !.left = c.sectors,
                  !.want = IF c.kind = "read" THEN disk[c.lpn] ELSE Blank]]
    /\ queue' = Append(queue, t)
    /\ UNCHANGED <<turn, lockSig, pmtSig, held, wb, pmt, flash, banks>>

(***************************************************************************)
(* page_lock.c, by its table (see PageLockTable and PageLock).             *)
(***************************************************************************)
Answer(t, p, type) == CHOOSE g \in LockTable!LockTypes : LockTable!IsAnswer(t, p, type, g)

\* The lock table after t has asked for type on the pages ps.
Locked(t, ps, type) ==
    [p \in Lpns |->
        IF p \in ps /\ Answer(t, p, type) # LockTable!PAGE_LOCK_NULL
        THEN [held[p] EXCEPT ![t] = Answer(t, p, type)]
        ELSE held[p]]

\* Bug: the release is not signalled.
BugSilentUnlock(t, ps) ==
    /\ held' = [p \in Lpns |-> IF p \in ps THEN [held[p] EXCEPT ![t] = 0] ELSE held[p]]
    /\ UNCHANGED lockSig

\* Bug: only one of the pages of a buffer is unlocked.
BugUnlocksOne(t, ps) ==
    LET one == CHOOSE p \in ps : TRUE
    IN  held' = [held EXCEPT ![one][t] = 0] /\ lockSig' = TRUE

Unlock(t, ps) ==
    /\ held' = [p \in Lpns |-> IF p \in ps THEN [held[p] EXCEPT ![t] = 0] ELSE held[p]]
    /\ lockSig' = (lockSig \/ \E p \in ps : held[p][t] # 0)

(***************************************************************************)
(* ftl_read_thread.c.                                                      *)
(***************************************************************************)

\* Write buffer first: the sectors found there need no flash access.
ReadBuffer(t) ==
    /\ Runs(t, "read", "BUFFER")
    /\ LET r == th[t]
           found == {s \in r.sectors : Buffer!Pulled(r.lpn, s, r.uid) # Absent}
       IN  GoOn(t, [r EXCEPT !.left = r.sectors \ found,
                             !.buf = [s \in Sectors |->
                                        IF s \in found THEN Buffer!Pulled(r.lpn, s, r.uid) ELSE 0]],
                IF found = r.sectors THEN "SATA" ELSE "LOCK")
    /\ UNCHANGED <<lockSig, pmtSig, held, wb, pmt, flash, banks, host>>

ReadLock(t) ==
    /\ Runs(t, "read", "LOCK")
    /\ LET r == th[t]
           read == LockTable!PAGE_LOCK_READ
       IN  /\ held' = Locked(t, {r.lpn}, read)
           /\ IF Answer(t, r.lpn, read) = read
              THEN GoOn(t, r, "PMT_LOAD")
              ELSE Sleep(t, r, {"lock"})
    /\ UNCHANGED <<lockSig, pmtSig, wb, pmt, flash, banks, host>>

\* The mapping page has to be loaded first.
LoadForRead(t) ==
    /\ Runs(t, "read", "PMT_LOAD")
    /\ th[t].lpn \notin loaded
    /\ requested' = requested \cup {th[t].lpn}
    /\ Sleep(t, th[t], {"pmt"})
    /\ UNCHANGED <<lockSig, pmtSig, held, wb, loaded, map, flash, banks, host>>

\* Sub-pages that share a virtual page form one segment, named by its first
\* sub-page.  The page is unlocked as soon as the segments are known.
Segments(r, vps) ==
    {sp \in SubPages :
        /\ \E s \in r.left : s[1] = sp
        /\ \A s \in r.left : vps[s[1]] = vps[sp] => sp <= s[1]}

MakeSegments(t) ==
    /\ Runs(t, "read", "PMT_LOAD")
    /\ th[t].lpn \in loaded
    /\ LET r == th[t] IN
         /\ GoOn(t, [r EXCEPT !.vps = map[r.lpn], !.need = Segments(r, map[r.lpn])],
                 "FLASH_READ")
         /\ Unlock(t, {r.lpn})
    /\ UNCHANGED <<pmtSig, wb, pmt, flash, banks, host>>

(***************************************************************************)
(* The flash read loop shared by both handlers.  now are the items that    *)
(* need no flash command, ended those whose command has ended; of the rest *)
(* the first item on every idle bank is issued.                            *)
(***************************************************************************)
BankOf(r, i) == flash[r.vps[i]].bank

Ended(r) == {i \in r.issued : BankOf(r, i) \in complete}

Issuable(r, now) ==
    LET waiting == r.need \ (r.issued \cup now)
    IN  {i \in waiting : /\ BankOf(r, i) \in idle
                         /\ \A j \in waiting : BankOf(r, j) = BankOf(r, i) => i <= j}

\* The handler after one run of the loop; buf is the buffer it has filled.
AfterReads(r, now, buf) ==
    [r EXCEPT !.need = @ \ (now \cup Ended(r)),
              !.issued = (@ \ Ended(r)) \cup Issuable(r, now),
              !.buf = buf]

ReadLoop(t, now, buf, phase) ==
    LET r == AfterReads(th[t], now, buf) IN
      /\ idle' = idle \ {BankOf(r, i) : i \in Issuable(th[t], now)}
      /\ IF r.need = {}
         THEN GoOn(t, r, phase)
         ELSE Sleep(t, r, {BankOf(r, i) : i \in r.need})
      /\ UNCHANGED complete

\* acl_authenticate: the null page is everybody's.
Authenticated(r, i) == r.vps[i] = 0 \/ flash[r.vps[i]].uid = r.uid

ReadFlash(t) ==
    /\ Runs(t, "read", "FLASH_READ")
    /\ LET r == th[t]
           now == {i \in r.need \ r.issued : ~Authenticated(r, i) \/ r.vps[i] = 0}
           data(i) == IF Authenticated(r, i) THEN flash[r.vps[i]].data
                      ELSE [s \in Sectors |-> Zeros]
           filled == [s \in Sectors |->
                        IF s \in r.left /\ \E i \in now \cup Ended(r) : r.vps[i] = r.vps[s[1]]
                        THEN data(s[1])[s] ELSE r.buf[s]]
       IN  ReadLoop(t, now, filled, "SATA")
    /\ UNCHANGED <<lockSig, pmtSig, held, wb, pmt, flash, host>>

\* sata_manager_finish_read_task, sata_manager_finish_write_task.
Finish(t) ==
    /\ Runs(t, "read", "SATA") \/ Runs(t, "write", "SATA")
    /\ End(t)
    /\ UNCHANGED <<lockSig, pmtSig, held, wb, pmt, flash, banks, host>>

(***************************************************************************)
(* ftl_write_thread.c.                                                     *)
(***************************************************************************)

\* A whole page goes to flash directly; its sectors in the write buffer are
\* out of date.
WriteWholePage(t) ==
    /\ Runs(t, "write", "BUFFER")
    /\ th[t].sectors = Sectors
    /\ wb' = Buffer!Dropped(wb, th[t].lpn)
    /\ GoOn(t, [th[t] EXCEPT !.buf = [s \in Sectors |-> th[t].seq],
                             !.pages = [sp \in SubPages |-> th[t].lpn]],
            "LOCK")
    /\ UNCHANGED <<lockSig, pmtSig, held, pmt, flash, banks, host>>

Pushed(store, r) == Buffer!Push(store, r.lpn, r.sectors, r.uid, r.seq)

\* Part of a page is buffered, and that ends the command.
PushPartialPage(t) ==
    /\ Runs(t, "write", "BUFFER")
    /\ th[t].sectors # Sectors
    /\ wb' = Pushed(wb, th[t])
    /\ GoOn(t, th[t], "SATA")
    /\ UNCHANGED <<lockSig, pmtSig, held, pmt, flash, banks, host>>

\* The user that the flushed page will be authorized for: write_buffer_flush
\* leaves *uid alone (write_buffer.c:469 tests OPION_ACL), which keeps the
\* user of the command.
FlushedUser(command, owner) == command

\* When the buffer is full one buffer is taken out first, and the thread goes
\* on to write that one to flash.
FlushAndPush(t) ==
    /\ Runs(t, "write", "BUFFER")
    /\ th[t].sectors # Sectors
    /\ \E pages \in [SubPages -> Lpns \cup {NoPage}], owner \in Users :
         /\ Buffer!IsBuffer(pages, owner)
         /\ wb' = Pushed(Buffer!Flushed(pages), th[t])
         /\ GoOn(t, [th[t] EXCEPT
                       !.pages = pages,
                       !.uid   = FlushedUser(@, owner),
                       !.left  = Buffer!BufferSectors(pages),
                       !.buf   = [s \in Sectors |->
                                    IF s \in Buffer!BufferSectors(pages)
                                    THEN wb[pages[s[1]]][s].val ELSE 0]],
                 "LOCK")
    /\ UNCHANGED <<lockSig, pmtSig, held, pmt, flash, banks, host>>

PagesOf(r) == {p \in Lpns : \E sp \in SubPages : r.pages[sp] = p}

\* All pages are asked for in every attempt; what was granted is kept.
WriteLock(t) ==
    /\ Runs(t, "write", "LOCK")
    /\ LET ps    == PagesOf(th[t])
           write == LockTable!PAGE_LOCK_WRITE
       IN  /\ held' = Locked(t, ps, write)
           /\ IF \A p \in ps : Answer(t, p, write) = write
              THEN GoOn(t, th[t], "PMT_LOAD")
              ELSE Sleep(t, th[t], {"lock"})
    /\ UNCHANGED <<lockSig, pmtSig, wb, pmt, flash, banks, host>>

\* Bug: no sub-page is completed.
BugNoneIncomplete(r) == {}

\* Sub-pages with some but not all sectors are completed from flash.
Incomplete(r) ==
    {sp \in SubPages : \E s \in r.left, x \in Sectors \ r.left : s[1] = sp /\ x[1] = sp}

WritePmtLoad(t) ==
    /\ Runs(t, "write", "PMT_LOAD")
    /\ LET r    == th[t]
           todo == {sp \in SubPages : r.pages[sp] # NoPage} \ r.fixed
           now  == {sp \in todo : r.pages[sp] \in loaded}
           r1   == [r EXCEPT !.fixed = @ \cup now,
                             !.vps = [sp \in SubPages |->
                                        IF sp \in now THEN map[r.pages[sp]][sp] ELSE @[sp]]]
       IN  /\ requested' = requested \cup {r.pages[sp] : sp \in todo \ now}
           /\ IF todo = now
              THEN GoOn(t, [r1 EXCEPT !.need = Incomplete(r), !.issued = {}], "FLASH_READ")
              ELSE Sleep(t, r1, {"pmt"})
    /\ UNCHANGED <<lockSig, pmtSig, held, wb, loaded, map, flash, banks, host>>

\* The missing sectors are copied from the old virtual page.
CompleteSubPages(t) ==
    /\ Runs(t, "write", "FLASH_READ")
    /\ LET r    == th[t]
           now  == {sp \in r.need \ r.issued : r.vps[sp] = 0}
           full == [s \in Sectors |->
                      IF s[1] \in now \cup Ended(r) /\ s \notin r.left
                      THEN flash[r.vps[s[1]]].data[s] ELSE r.buf[s]]
       IN  ReadLoop(t, now, full, "BANK")
    /\ UNCHANGED <<lockSig, pmtSig, held, wb, pmt, flash, host>>

\* gc_allocate_new_vpn and acl_authorize, on any idle bank.
AllocatePage(t) ==
    /\ Runs(t, "write", "BANK")
    /\ \E b \in idle :
         flash' = [flash EXCEPT ![th[t].seq].bank = b, ![th[t].seq].uid = th[t].uid]
    /\ GoOn(t, th[t], "PMT_UPDATE")
    /\ UNCHANGED <<lockSig, pmtSig, held, wb, pmt, banks, host>>

WaitForBank(t) ==
    /\ Runs(t, "write", "BANK")
    /\ idle = {}
    /\ Sleep(t, th[t], Banks)
    /\ UNCHANGED <<lockSig, pmtSig, held, wb, pmt, flash, banks, host>>

UpdatePmt(t) ==
    /\ Runs(t, "write", "PMT_UPDATE")
    /\ map' = [p \in Lpns |-> [sp \in SubPages |->
                  IF th[t].pages[sp] = p THEN th[t].seq ELSE map[p][sp]]]
    /\ GoOn(t, [th[t] EXCEPT !.fixed = {}], "FLASH_WRITE")
    /\ UNCHANGED <<lockSig, pmtSig, held, wb, loaded, requested, flash, banks, host>>

\* The pages are unlocked as soon as the write command is issued: readers of
\* the new virtual page queue behind it on the bank.
IssueWrite(t) ==
    /\ Runs(t, "write", "FLASH_WRITE")
    /\ th[t].issued = {}
    /\ LET r == [th[t] EXCEPT !.vps = [sp \in SubPages |-> th[t].seq]]
           b == BankOf(r, 0)
       IN  IF b \in idle
           THEN /\ flash' = [flash EXCEPT ![r.seq].data = r.buf]
                /\ idle' = idle \ {b}
                /\ Unlock(t, PagesOf(r))
                /\ Sleep(t, [r EXCEPT !.issued = {0}], {b})
           ELSE /\ Sleep(t, th[t], {b})
                /\ UNCHANGED <<flash, idle, held, lockSig>>
    /\ UNCHANGED <<pmtSig, wb, pmt, complete, host>>

EndWrite(t) ==
    /\ Runs(t, "write", "FLASH_WRITE")
    /\ th[t].issued = {0}
    /\ IF Ended(th[t]) = {0}
       THEN GoOn(t, th[t], "SATA")
       ELSE Sleep(t, th[t], {BankOf(th[t], 0)})
    /\ UNCHANGED <<lockSig, pmtSig, held, wb, pmt, flash, banks, host>>

(***************************************************************************)
(* The drive starts quiet: the host has written every page in full, one    *)
(* command each, the pages lie on any banks, and nothing is buffered.      *)
(***************************************************************************)
FirstWrite(p) == CHOOSE c \in Cmds : c.lpn = p

Init ==
    /\ queue = <<>> /\ turn = 0
    /\ lockSig = FALSE /\ pmtSig = FALSE
    /\ th = [t \in Threads |-> FreeThread]
    /\ held = [p \in Lpns |-> [t \in Threads |-> 0]]
    /\ wb = [p \in Lpns |-> [s \in Sectors |-> Buffer!NoSector]]
    /\ map = [p \in Lpns |-> [sp \in SubPages |-> p]]
    /\ loaded \in IF PmtEvicts THEN SUBSET Lpns ELSE {Lpns}
    /\ requested = {}
    /\ \E bank \in [Lpns -> Banks] :
         flash = [v \in Vps |->
                    IF v \in Lpns
                    THEN [bank |-> bank[v], uid |-> FirstWrite(v).uid,
                          data |-> [s \in Sectors |-> v]]
                    ELSE [bank |-> CHOOSE b \in Banks : TRUE,
                          uid |-> CHOOSE u \in Users : TRUE,
                          data |-> Blank]]
    /\ idle = Banks /\ complete = {}
    /\ disk = [p \in Lpns |-> [s \in Sectors |-> p]]
    /\ next = Cardinality(Lpns)

Read(t) ==
    ReadBuffer(t) \/ ReadLock(t) \/ LoadForRead(t) \/ MakeSegments(t) \/ ReadFlash(t)

Write(t) ==
    \/ WriteWholePage(t) \/ PushPartialPage(t) \/ FlushAndPush(t) \/ WriteLock(t)
    \/ WritePmtLoad(t) \/ CompleteSubPages(t) \/ AllocatePage(t) \/ WaitForBank(t)
    \/ UpdatePmt(t) \/ IssueWrite(t) \/ EndWrite(t)

Handler(t) == Read(t) \/ Write(t) \/ Finish(t)

Next ==
    \/ StartPass
    \/ Skip
    \/ \E t \in Threads : Handler(t)
    \/ \E t \in Threads, c \in Cmds : Accept(t, c)

Spec == Init /\ [][Next]_vars

(***************************************************************************)
(* Fairness.  Passes go on for ever and a handler runs to its next sleep   *)
(* (Main calls ftl_main in an endless loop); in some pass a bank is idle   *)
(* when the PMT thread has had its turn, and a mapping page is loaded.  The *)
(* host need not send anything.                                            *)
(***************************************************************************)
FairSpec ==
    /\ Spec
    /\ WF_vars(StartPass)
    /\ WF_vars(Skip)
    /\ \A t \in Threads : WF_vars(Handler(t))
    /\ \A b \in Banks : SF_vars(StartPass /\ b \in idle')
    /\ \A p \in Lpns : SF_vars(StartPass /\ p \in requested /\ p \in loaded')

(***************************************************************************)
(* Properties.                                                             *)
(***************************************************************************)
Phases == {"BUFFER", "LOCK", "PMT_LOAD", "FLASH_READ", "BANK", "PMT_UPDATE",
           "FLASH_WRITE", "SATA"}

ThreadOK(r) ==
    /\ r.kind \in {"free", "read", "write"}
    /\ r.phase \in Phases
    /\ r.awake \in BOOLEAN
    /\ r.wake \subseteq {"lock", "pmt"} \cup Banks
    /\ r.lpn \in Lpns /\ r.uid \in Users /\ r.seq \in 0 .. MaxCmds
    /\ r.sectors \subseteq Sectors /\ r.left \subseteq Sectors
    /\ r.want \in [Sectors -> Values] /\ r.buf \in [Sectors -> Values]
    /\ r.pages \in [SubPages -> Lpns \cup {NoPage}]
    /\ r.vps \in [SubPages -> Vps]
    /\ r.fixed \subseteq SubPages /\ r.issued \subseteq SubPages /\ r.need \subseteq SubPages

\* Types, and the scheduler's list: each live thread is in it exactly once.
TypeOK ==
    /\ turn \in 0 .. Len(queue)
    /\ \A i, j \in 1 .. Len(queue) : queue[i] = queue[j] => i = j
    /\ ToSet(queue) = {t \in Threads : th[t].kind # "free"}
    /\ lockSig \in BOOLEAN /\ pmtSig \in BOOLEAN
    /\ DOMAIN th = Threads /\ \A t \in Threads : ThreadOK(th[t])
    /\ held \in [Lpns -> [Threads -> LockTable!LockTypes]]
    /\ wb \in [Lpns -> [Sectors -> [val : {Absent} \cup (1 .. MaxCmds),
                                uid : Users \cup {NoUser}]]]
    /\ map \in [Lpns -> [SubPages -> Vps]]
    /\ loaded \subseteq Lpns /\ requested \subseteq Lpns
    /\ flash \in [Vps -> [bank : Banks, uid : Users, data : [Sectors -> Values]]]
    /\ idle \subseteq Banks /\ complete \subseteq Banks
    /\ disk \in [Lpns -> [Sectors -> 1 .. MaxCmds]]
    /\ next \in 0 .. MaxCmds

\* Read your writes, in order: a read answers the host with exactly what the
\* commands accepted before it have written, and nothing accepted later, even
\* though threads sleep, drop their page lock before the flash read and pass
\* data through the write buffer (ftl_read_thread.c:74-224).
ReadsSnapshot ==
    \A t \in Threads :
        th[t].kind = "read" /\ th[t].phase = "SATA" =>
            \A s \in th[t].sectors : th[t].buf[s] = th[t].want[s]

\* No update is lost: once every thread has ended, each sector is found in the
\* write buffer or else in the virtual page that the mapping table names.
NothingLost ==
    queue = <<>> =>
        \A p \in Lpns, s \in Sectors :
            disk[p][s] = IF Buffer!InBuffer(p, s) THEN wb[p][s].val
                         ELSE flash[map[p][s[1]]].data[s]

WaitsFor(t, p) ==
    /\ th[t].phase = "LOCK"
    /\ ~th[t].awake
    /\ p \in PagesOf(th[t]) \cup (IF th[t].kind = "read" THEN {th[t].lpn} ELSE {})

\* The page locks are given in the order of the commands: a thread never gets
\* the lock a thread ahead of it in the list still waits for, if one of the two
\* is to write.  The scheduler's FIFO walk is all that ensures it; the data a
\* waiting writer has taken out of the write buffer is in no other place.
NoOvertaking ==
    [][\A i, j \in 1 .. Len(queue), p \in Lpns :
          /\ i < j
          /\ WaitsFor(queue[i], p)
          /\ held[p][queue[i]] # LockTable!PAGE_LOCK_WRITE
          /\ \E k \in {i, j} : th[queue[k]].kind = "write"
          => held'[p][queue[j]] <= held[p][queue[j]]]_vars

\* The flash commands under way: thread, item and bank.
Commands ==
    {c \in Threads \X SubPages \X Banks :
        c[2] \in th[c[1]].issued /\ c[3] = BankOf(th[c[1]], c[2])}

\* No end of a flash command goes unseen.  A bank counts as complete for one
\* pass only, so the thread that issued the command must run in that pass, also
\* when another thread has already put the bank to use again: between passes a
\* command under way has its bank busy and for itself.
NoMissedCompletion ==
    turn = 0 =>
        \A c, d \in Commands : c[3] \notin idle /\ (c[3] = d[3] => c = d)

\* Threads leave the scheduler's list while it is walked, and their ids, which are
\* lock owners, are reused: each live thread is in the list exactly once, and one
\* that has ended holds no page, whatever the pages of the buffer it has flushed.
ThreadsCoherent ==
    /\ TypeOK
    /\ \A t \in Threads : th[t].kind = "free" =>
        \A p \in Lpns : held[p][t] = LockTable!PAGE_LOCK_NULL

\* A mapping page that a writer has read stays in the cache until it is
\* updated (the assertion of ftl_write_thread.c:239).
MappingStaysLoaded ==
    \A t \in Threads :
        th[t].kind = "write" /\ th[t].phase \in {"FLASH_READ", "BANK", "PMT_UPDATE"}
            => PagesOf(th[t]) \subseteq loaded

\* Every command ends: no thread sleeps on a signal that has passed.
EveryCommandFinishes ==
    \A t \in Threads : th[t].kind # "free" ~> th[t].kind = "free"

\* A user who reads a page that nobody else has written gets what was written
\* (write_buffer.h:66 says that write_buffer_flush outputs the owner of the
\* flushed data).
OwnerReadsBack ==
    \A t \in Threads :
        th[t].kind = "read" /\ th[t].phase = "SATA" =>
            \A s \in th[t].sectors :
                (\A c \in Cmds : c.lpn = th[t].lpn => c.uid = th[t].uid)
                    => th[t].buf[s] = th[t].want[s]
=============================================================================

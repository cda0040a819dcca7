---------------------------- MODULE FtlData_proofs ----------------------------
(***************************************************************************)
(* The flash banks and the data of the threads of the firmware, on the     *)
(* invariants of FtlThreads_proofs. Each flash command under way has its   *)
(* bank busy, or ended in this pass with its thread still to run           *)
(* (BankInv), so that no end is missed (CompletionsSeen). The data: of     *)
(* every sector of a page the newest write below a given number is known,  *)
(* and where it is, in the write buffer, with a writer that carries it, or *)
(* in flash (DataInv); a reader that has taken its page's place and a      *)
(* writer that completes its sub-pages get that. From this, for the one    *)
(* user that the firmware knows, ReadsAreSnapshots and NothingIsLost.      *)
(***************************************************************************)
EXTENDS FtlThreads_proofs, WellFoundedInduction

-----------------------------------------------------------------------------
\* Steps that change no record but that of t, which carries nothing after them.
LEMMA PagesElsewhere ==
  ASSUME PageInv, Safe, NEW t \in Threads, \A x \in Threads \ {t} : th'[x] = th[x],
         ~Unissued(t), map' = map, PageOK(t)', \A v : Settled(v) => Settled(v)'
  PROVE  PageInv'
<1>1. ASSUME NEW p \in Lpns, NEW sp \in SubPages PROVE Placed(p, sp)'
  <2>1. CASE Settled(map[p][sp])
    <3>1. PICK v : v = map[p][sp]
      OBVIOUS
    <3>2. Settled(v)' /\ map'[p][sp] = v
      BY <2>1, <3>1
    <3>3. QED BY <3>2 DEF Placed
  <2>2. ASSUME NEW x \in Threads, Unissued(x), th[x].pages[sp] = p, map[p][sp] = th[x].seq
        PROVE  Placed(p, sp)'
    <3>1. th'[x] = th[x]
      BY <2>2
    <3>2. Unissued(x)' /\ th'[x].pages[sp] = p /\ map'[p][sp] = th'[x].seq
      BY <2>2, <3>1 DEF Unissued
    <3>3. QED BY <3>2 DEF Placed
  <2>3. QED BY <2>1, <2>2 DEF PageInv, Placed
<1>2. ASSUME NEW x \in Threads \ {t} PROVE PageOK(x)'
  <2>1. th'[x] = th[x] /\ PageOK(x) /\ th[x].fixed \subseteq SubPages
    BY DEF PageInv, Safe, Typed, ThreadsOK, ThreadOK
  <2>2. ReaderPlaces(x)'
    BY <2>1 DEF PageOK, ReaderPlaces
  <2>3. WriterPlaces(x)'
    <3>1. SUFFICES ASSUME th[x].kind = "write", th[x].phase \in Loading, NEW sp \in th[x].fixed,
                          th[x].pages[sp] # NoPage
                   PROVE  th[x].vps[sp] = map[th[x].pages[sp]][sp] /\ Settled(th[x].vps[sp])'
      BY <2>1 DEF PageOK, WriterPlaces
    <3>2. th[x].vps[sp] = map[th[x].pages[sp]][sp] /\ Settled(th[x].vps[sp])
      BY <2>1, <3>1 DEF PageOK, WriterPlaces
    <3>3. PICK v : v = th[x].vps[sp]
      OBVIOUS
    <3>4. Settled(v)' /\ th'[x].vps[sp] = v
      BY <2>1, <3>2, <3>3
    <3>5. Settled(th[x].vps[sp])'
      BY <3>4
    <3>6. QED BY <3>2, <3>5
  <2>4. CommandsOf(x)'
    BY <2>1 DEF PageOK, CommandsOf, Live
  <2>5. NeedsPages(x)'
    BY <2>1 DEF PageOK, NeedsPages, Carries, Unissued
  <2>6. QED BY <2>2, <2>3, <2>4, <2>5 DEF PageOK
<1>3. QED BY <1>1, <1>2 DEF PageInv

LEMMA PageFinish == ASSUME Safe, PageInv, NEW t \in Threads, Finish(t) PROVE PageInv'
<1>1. /\ (\A x \in Threads \ {t} : th'[x] = th[x]) /\ th'[t] = FreeThread /\ map' = map /\ next' = next
      /\ th[t].phase = "SATA"
  BY FinishEffect DEF Safe, Runs
<1>2. th'[t].kind = "free"
  BY <1>1 DEF FreeThread
<1>3. PageOK(t)' /\ ~Unissued(t) /\ ~Writing(t)'
  BY <1>1, <1>2 DEF PageOK, ReaderPlaces, WriterPlaces, CommandsOf, NeedsPages, Unissued, Carries,
     Writing, Live
<1>4. ASSUME NEW v, Settled(v) PROVE Settled(v)'
  <2>1. ASSUME NEW x \in Threads, Writing(x)' PROVE th'[x].seq # v
    <3>1. x # t /\ th'[x] = th[x]
      BY <2>1, <1>1, <1>3
    <3>2. Writing(x)
      BY <2>1, <3>1 DEF Writing, Carries, Unissued
    <3>3. QED BY <1>4, <3>1, <3>2 DEF Settled
  <2>2. QED BY <1>1, <1>4, <2>1 DEF Settled
<1>5. QED BY <1>1, <1>3, <1>4, PagesElsewhere

LEMMA PageAccept ==
  ASSUME Safe, PageInv, NEW t \in Threads, NEW c \in Cmds, Accept(t, c) PROVE PageInv'
<1>1. /\ (\A x \in Threads \ {t} : th'[x] = th[x]) /\ map' = map /\ next' = next + 1
      /\ th'[t].phase = "BUFFER" /\ th'[t].seq = next + 1 /\ th'[t].issued = {} /\ th[t].kind = "free"
  BY AcceptEffect DEF Safe
<1>2. PageOK(t)' /\ ~Unissued(t)
  BY <1>1 DEF PageOK, ReaderPlaces, WriterPlaces, CommandsOf, NeedsPages, Unissued, Carries, Loading
<1>3. next \in Nat
  BY MaxCmdsNat DEF Safe, SchedInv, Numbered
<1>4. ASSUME NEW v, Settled(v) PROVE Settled(v)'
  <2>1. v \in 1 .. next /\ v \in 1 .. next' /\ v # next + 1
    BY <1>1, <1>3, <1>4 DEF Settled
  <2>2. ASSUME NEW x \in Threads, Writing(x)' PROVE th'[x].seq # v
    <3>1. CASE x = t
      BY <3>1, <2>1, <1>1
    <3>2. CASE x # t
      <4>1. th'[x] = th[x]
        BY <3>2, <1>1
      <4>2. Writing(x)
        BY <2>2, <4>1 DEF Writing, Carries, Unissued
      <4>3. QED BY <1>4, <4>1, <4>2 DEF Settled
    <3>3. QED BY <3>1, <3>2
  <2>3. QED BY <2>1, <2>2 DEF Settled
<1>5. QED BY <1>1, <1>2, <1>4, PagesElsewhere

LEMMA PageStay == ASSUME PageInv, UNCHANGED <<th, map, next>> PROVE PageInv'
  BY DEF PageInv, Placed, Settled, Writing, Carries, Unissued, PageOK, ReaderPlaces, WriterPlaces,
     CommandsOf, NeedsPages, Live

LEMMA PageInit == Init => PageInv
<1> SUFFICES ASSUME Init PROVE PageInv
  OBVIOUS
<1>1. /\ \A t \in Threads : th[t] = FreeThread
      /\ map = [p \in Lpns |-> [sp \in SubPages |-> p]] /\ next = Cardinality(Lpns)
  BY DEF Init
<1>2. \A t \in Threads : th[t].kind = "free"
  <2>1. FreeThread.kind = "free"
    BY DEF FreeThread
  <2>2. QED BY <1>1, <2>1
<1>3. next \in Nat /\ \A p \in Lpns : p \in 1 .. next
  BY SchedInit, MaxCmdsNat DEF SchedInv, Numbered
<1>4. \A p \in Lpns : Settled(p)
  BY <1>2, <1>3 DEF Settled, Writing, Carries, Unissued
<1>5. ASSUME NEW p \in Lpns, NEW sp \in SubPages PROVE Placed(p, sp)
  BY <1>1, <1>4 DEF Placed
<1>6. ASSUME NEW t \in Threads PROVE PageOK(t)
  BY <1>2 DEF PageOK, ReaderPlaces, WriterPlaces, CommandsOf, NeedsPages, Live, Carries, Unissued
<1>7. QED BY <1>5, <1>6 DEF PageInv

LEMMA PageNext == Safe2 /\ PageInv /\ [Next]_vars => PageInv'
<1> SUFFICES ASSUME Safe, LockInv, PageInv, [Next]_vars PROVE PageInv'
  BY SafeParts DEF Safe2
<1>1. CASE StartPass \/ Skip \/ UNCHANGED vars
  <2>1. UNCHANGED <<th, map, next>>
    BY <1>1 DEF StartPass, Skip, vars, sched, pmt, host
  <2>2. QED BY <2>1, PageStay
<1>2. QED BY <1>1, PageRead, PageWrite, PageFinish, PageAccept DEF Next, Handler

-----------------------------------------------------------------------------
(***************************************************************************)
(* The banks.  A flash command under way keeps its bank from the others,   *)
(* until the pass in which it ends; then its thread has yet to run.        *)
(***************************************************************************)
Cmd(t, i) == Live(t) /\ i \in th[t].issued

CmdOK(t, i) ==
    Cmd(t, i) =>
        /\ Settled(th[t].vps[i])
        /\ BankOf(th[t], i) \notin idle \/ (BankOf(th[t], i) \in complete /\ ToRun(t))
        /\ th[t].awake = FALSE => BankOf(th[t], i) \in th[t].wake

SameBank(t, i, u, j) == Cmd(t, i) /\ Cmd(u, j) /\ BankOf(th[t], i) = BankOf(th[u], j)

\* Two commands have a bank in common only while one of them has ended.
ApartOK(t, i, u, j) ==
    SameBank(t, i, u, j) => t # u /\ BankOf(th[t], i) \in complete /\ (ToRun(t) \/ ToRun(u))

BankInv ==
    /\ \A t \in Threads, i \in SubPages : CmdOK(t, i)
    /\ \A t, u \in Threads, i, j \in SubPages : t # u \/ i # j => ApartOK(t, i, u, j)

Safe3 == Safe /\ LockInv /\ PageInv

\* A step of thread t that leaves the banks of settled pages as they are.
LEMMA BanksAfter ==
  ASSUME Safe3, BankInv, NEW t \in Threads, Read(t) \/ Write(t),
         idle' \subseteq idle, complete' = complete,
         \A v : Settled(v) => flash'[v].bank = flash[v].bank,
         \A i \in SubPages : CmdOK(t, i)',
         \A i, j \in SubPages : i # j => ~SameBank(t, i, t, j)',
         \A u \in Threads \ {t}, i, j \in SubPages : ApartOK(t, i, u, j)'
  PROVE  BankInv'
<1>1. /\ Kept(t) /\ Current(t) /\ Steps(t) /\ Safe
      /\ \A v : Settled(v) => Settled(v)'
  <2>1. Safe /\ Shape
    BY DEF Safe3, Safe
  <2>2. Kept(t) /\ Current(t) /\ Steps(t)
    BY <2>1, HandlerSteps, StepsKeep
  <2>3. QED BY <2>1, <2>2, SettledStays
<1>2. ASSUME NEW x \in Threads \ {t}, NEW i \in SubPages
      PROVE  /\ th'[x] = th[x] /\ (Live(x)' <=> Live(x)) /\ (Cmd(x, i)' <=> Cmd(x, i))
             /\ Live(x) => (ToRun(x)' <=> ToRun(x))
             /\ Cmd(x, i) => BankOf(th[x], i)' = BankOf(th[x], i)
  <2>1. th'[x] = th[x]
    BY <1>1 DEF Kept
  <2>2. (Live(x)' <=> Live(x)) /\ (Cmd(x, i)' <=> Cmd(x, i))
    BY <2>1 DEF Live, Cmd
  <2>3. Live(x) => (ToRun(x)' <=> ToRun(x))
    BY <1>1, ToRunAfterStep DEF Safe3, Safe, SchedInv
  <2>4. Cmd(x, i) => Settled(th[x].vps[i])
    BY DEF BankInv, CmdOK
  <2>5. QED BY <2>1, <2>2, <2>3, <2>4 DEF BankOf
<1>3. ASSUME NEW x \in Threads \ {t}, NEW i \in SubPages PROVE CmdOK(x, i)'
  <2>1. SUFFICES ASSUME Cmd(x, i) PROVE CmdOK(x, i)'
    BY <1>2 DEF CmdOK
  <2>2. CmdOK(x, i) /\ Live(x)
    BY <2>1 DEF BankInv, Cmd
  <2>3. Settled(th[x].vps[i])'
    <3>1. PICK v : v = th[x].vps[i]
      OBVIOUS
    <3>2. Settled(v)' /\ th'[x].vps[i] = v
      BY <1>1, <1>2, <2>1, <2>2, <3>1 DEF CmdOK
    <3>3. QED BY <3>2
  <2>4. BankOf(th[x], i)' \notin idle' \/ (BankOf(th[x], i)' \in complete' /\ ToRun(x)')
    BY <1>2, <2>1, <2>2 DEF CmdOK
  <2>5. th'[x].awake = FALSE => BankOf(th[x], i)' \in th'[x].wake
    BY <1>2, <2>1, <2>2 DEF CmdOK
  <2>6. QED BY <2>3, <2>4, <2>5 DEF CmdOK
<1>4. ASSUME NEW x \in Threads \ {t}, NEW y \in Threads \ {t}, NEW i \in SubPages, NEW j \in SubPages,
             x # y \/ i # j
      PROVE  ApartOK(x, i, y, j)'
  <2>1. SUFFICES ASSUME SameBank(x, i, y, j)'
                 PROVE  x # y /\ BankOf(th[x], i)' \in complete' /\ (ToRun(x)' \/ ToRun(y)')
    BY DEF ApartOK
  <2>2. /\ Cmd(x, i) /\ Cmd(y, j) /\ Live(x) /\ Live(y)
        /\ BankOf(th[x], i)' = BankOf(th[x], i) /\ BankOf(th[y], j)' = BankOf(th[y], j)
    BY <1>2, <2>1 DEF SameBank, Cmd
  <2>3. SameBank(x, i, y, j) /\ ApartOK(x, i, y, j)
    BY <1>4, <2>1, <2>2 DEF SameBank, BankInv
  <2>4. QED BY <1>2, <2>2, <2>3 DEF ApartOK
<1>5. ASSUME NEW x \in Threads \ {t}, NEW i \in SubPages, NEW j \in SubPages
      PROVE  ApartOK(x, i, t, j)'
  BY DEF ApartOK, SameBank
<1>6. ASSUME NEW x \in Threads, NEW y \in Threads, NEW i \in SubPages, NEW j \in SubPages,
             x # y \/ i # j
      PROVE  ApartOK(x, i, y, j)'
  <2>1. CASE x = t /\ y = t
    BY <2>1, <1>6 DEF ApartOK
  <2>2. QED BY <2>1, <1>4, <1>5, <1>6
<1>7. QED BY <1>3, <1>6 DEF BankInv

\* A step of a thread without commands.
LEMMA BanksKept ==
  ASSUME Safe3, BankInv, NEW t \in Threads, Read(t) \/ Write(t),
         idle' = idle, complete' = complete,
         \A v : Settled(v) => flash'[v].bank = flash[v].bank, th'[t].issued = {}
  PROVE  BankInv'
<1>1. \A i : ~Cmd(t, i)'
  BY DEF Cmd
<1>2. \A i \in SubPages : CmdOK(t, i)'
  BY <1>1 DEF CmdOK
<1>3. \A i, j \in SubPages : i # j => ~SameBank(t, i, t, j)'
  BY <1>1 DEF SameBank
<1>4. \A u \in Threads \ {t}, i, j \in SubPages : ApartOK(t, i, u, j)'
  BY <1>1 DEF ApartOK, SameBank
<1>5. idle' \subseteq idle
  OBVIOUS
<1>6. QED BY <1>2, <1>3, <1>4, <1>5, BanksAfter

-----------------------------------------------------------------------------
SettledAre == \A v : Settled(v) => v \in Vps /\ v \in 1 .. next

LEMMA SettledVps == ASSUME Safe PROVE SettledAre
  BY MaxCmdsNat DEF Safe, SchedInv, Numbered, Settled, Vps, SettledAre

\* The read loop, of a thread that needs settled pages only.
LEMMA BanksLoop ==
  ASSUME Safe3, BankInv, NEW t \in Threads, Read(t) \/ Write(t), th[t].phase = "FLASH_READ",
         NEW now, NEW buf, NEW phase, ReadLoop(t, now, buf, phase), flash' = flash,
         \A i \in th[t].need : Settled(th[t].vps[i]), now \cap th[t].issued = {}
  PROVE  BankInv'
<1>1. /\ Shape /\ Safe /\ Live(t) /\ Kept(t) /\ Current(t) /\ Steps(t) /\ Listed /\ Numbered
      /\ \A v : Settled(v) => Settled(v)'
  <2>1. Safe /\ Shape /\ Listed /\ Numbered
    BY DEF Safe3, Safe, SchedInv
  <2>2. Kept(t) /\ Current(t) /\ Steps(t)
    BY <2>1, HandlerSteps, StepsKeep
  <2>3. \A v : Settled(v) => Settled(v)'
    BY <2>1, SettledStays
  <2>4. QED BY <2>1, <2>2, <2>3 DEF Current
<1>2. /\ Loops(t, now, buf)
      /\ idle' = idle \ {BankOf(th[t], i) : i \in Issuable(th[t], now)}
      /\ th'[t].need # {} => Sleeps(t, {flash[th[t].vps[i]].bank : i \in th'[t].need})
  BY <1>1, ReadLoopFields
<1>3. th[t].issued \subseteq th[t].need /\ th[t].need \subseteq SubPages /\ SubPages \subseteq Nat
  <2>1. th[t].need \subseteq SubPages
    BY <1>1 DEF Safe, Typed, ThreadsOK, ThreadOK
  <2>2. QED BY <1>1, <2>1, ZeroIsSubPage DEF Safe3, PageInv, PageOK, CommandsOf
<1>4. th'[t].issued \subseteq th'[t].need /\ th'[t].need \subseteq th[t].need
  BY <1>2, <1>3, LoopCommands
\* Commands that went on, and new ones.
<1>5. \A i : BankOf(th[t], i)' = BankOf(th[t], i)
  BY <1>2 DEF BankOf, Loops
<1>6. ASSUME NEW i \in SubPages, Cmd(t, i)'
      PROVE  /\ i \in th'[t].need /\ Settled(th[t].vps[i]) /\ BankOf(th[t], i) \notin idle'
             /\ \/ Cmd(t, i) /\ BankOf(th[t], i) \notin complete /\ BankOf(th[t], i) \notin idle
                \/ /\ BankOf(th[t], i) \in idle /\ i \in th[t].need \ (th[t].issued \cup now)
                   /\ \A j \in th[t].need \ (th[t].issued \cup now) :
                         BankOf(th[t], j) = BankOf(th[t], i) => i <= j
  <2>1. i \in th'[t].issued /\ i \in th'[t].need /\ i \in th[t].need
    BY <1>4, <1>6 DEF Cmd
  <2>2. CASE i \in Issuable(th[t], now)
    BY <1>2, <2>1, <2>2 DEF Issuable
  <2>3. CASE i \notin Issuable(th[t], now)
    <3>1. i \in th[t].issued /\ i \notin Ended(th[t])
      BY <1>2, <2>1, <2>3 DEF Loops
    <3>2. Cmd(t, i) /\ BankOf(th[t], i) \notin complete
      BY <1>1, <3>1 DEF Cmd, Ended
    <3>3. BankOf(th[t], i) \notin idle
      BY <3>2 DEF BankInv, CmdOK
    <3>4. QED BY <1>2, <2>1, <3>2, <3>3
  <2>4. QED BY <2>2, <2>3
<1>7. ASSUME NEW i \in SubPages PROVE CmdOK(t, i)'
  <2>1. SUFFICES ASSUME Cmd(t, i)' PROVE CmdOK(t, i)'
    BY DEF CmdOK
  <2>2. Settled(th[t].vps[i])'
    <3>1. PICK v : v = th[t].vps[i]
      OBVIOUS
    <3>2. Settled(v)' /\ th'[t].vps[i] = v
      BY <1>1, <1>2, <1>6, <2>1, <3>1 DEF Loops
    <3>3. QED BY <3>2
  <2>3. BankOf(th[t], i)' \notin idle'
    BY <1>5, <1>6, <2>1
  <2>4. BankOf(th[t], i)' \in th'[t].wake
    <3>1. th'[t].wake = {flash[th[t].vps[x]].bank : x \in th'[t].need}
      BY <1>2, <1>6, <2>1 DEF Sleeps
    <3>2. QED BY <1>5, <1>6, <2>1, <3>1 DEF BankOf
  <2>5. QED BY <2>2, <2>3, <2>4 DEF CmdOK
<1>8. ASSUME NEW i \in SubPages, NEW j \in SubPages, i # j PROVE ~SameBank(t, i, t, j)'
  <2>1. SUFFICES ASSUME Cmd(t, i)', Cmd(t, j)', BankOf(th[t], i) = BankOf(th[t], j) PROVE FALSE
    BY <1>5 DEF SameBank
  <2>2. ~(Cmd(t, i) /\ Cmd(t, j))
    BY <1>8, <2>1 DEF BankInv, ApartOK, SameBank
  <2>3. i \in Nat /\ j \in Nat
    BY <1>3
  <2>4. QED BY <1>6, <1>8, <2>1, <2>2, <2>3
<1>9. ASSUME NEW u \in Threads \ {t}, NEW i \in SubPages, NEW j \in SubPages
      PROVE  ApartOK(t, i, u, j)'
  <2>1. SUFFICES ASSUME SameBank(t, i, u, j)' PROVE ApartOK(t, i, u, j)'
    BY DEF ApartOK
  <2>2. th'[u] = th[u] /\ Cmd(t, i)' /\ Cmd(u, j) /\ BankOf(th[t], i) = BankOf(th[u], j) /\ Live(u)
    BY <1>1, <1>5, <2>1 DEF Kept, SameBank, Cmd, Live, BankOf
  <2>3. ~Cmd(t, i) \/ BankOf(th[t], i) \in complete
    BY <2>2 DEF BankInv, ApartOK, SameBank
  <2>4. BankOf(th[t], i) \in idle
    BY <1>6, <2>2, <2>3
  <2>5. BankOf(th[t], i) \in complete /\ ToRun(u)
    BY <2>2, <2>4 DEF BankInv, CmdOK
  <2>6. ToRun(u)' /\ complete' = complete
    BY <1>1, <1>2, <2>2, <2>5, ToRunAfterStep DEF Loops
  <2>7. QED BY <1>5, <2>5, <2>6 DEF ApartOK
<1>10. /\ idle' \subseteq idle /\ complete' = complete
       /\ \A v : Settled(v) => flash'[v].bank = flash[v].bank
  BY <1>2 DEF Loops
<1>11. QED BY <1>7, <1>8, <1>9, <1>10, BanksAfter

\* The page of a write command is settled with it.
LEMMA IssuedIsSettled ==
  ASSUME Safe, NEW t \in Threads, IssueWrite(t), WritesPage(t), NEW v, v = th[t].seq
  PROVE  Settled(v)'
<1>1. Kept(t) /\ Live(t) /\ next' = next
  <2>1. Write(t) /\ Shape
    BY DEF Write, Safe
  <2>2. QED BY <2>1, HandlerSteps, StepsKeep DEF Current
<1>2. ~Writing(t)'
  <2>1. th'[t].phase = "FLASH_WRITE" /\ th'[t].issued = {0}
    BY IssueWriteEffect DEF WritesPage, Sleeps, Runs, Safe
  <2>2. QED BY <2>1 DEF Writing, Carries, Unissued
<1>3. v \in 1 .. next
  BY <1>1 DEF Safe, SchedInv, Numbered
<1>4. ASSUME NEW x \in Threads, Writing(x)' PROVE th'[x].seq # v
  <2>1. x # t /\ th'[x] = th[x]
    BY <1>4, <1>1, <1>2 DEF Kept
  <2>2. Live(x)
    BY <1>4, <2>1 DEF Writing, Carries, Unissued, Live
  <2>3. QED BY <2>1, <2>2, <1>1, Positions DEF Safe, SchedInv
<1>5. QED BY <1>1, <1>3, <1>4 DEF Settled

LEMMA BanksWrite ==
  ASSUME Safe3, BankInv, NEW t \in Threads, IssueWrite(t), WritesPage(t)
  PROVE  BankInv'
<1>1. /\ Write(t) /\ Shape /\ Safe /\ Live(t) /\ Kept(t) /\ Current(t) /\ Steps(t)
      /\ Listed /\ Numbered /\ complete' = complete
  <2>1. Safe /\ Shape /\ Write(t) /\ Listed /\ Numbered
    BY DEF Safe3, Safe, Write, SchedInv
  <2>2. Kept(t) /\ Current(t) /\ Steps(t)
    BY <2>1, HandlerSteps, StepsKeep
  <2>3. QED BY <2>1, <2>2, IssueWriteEffect DEF Current
<1> DEFINE b == flash[th[t].seq].bank
<1>2. b \in idle /\ idle' = idle \ {b} /\ th'[t].wake = {b} /\ th'[t].issued = {0}
      /\ th'[t].vps[0] = th[t].seq
  BY ZeroIsSubPage DEF WritesPage, Sleeps
<1>3. flash' = [flash EXCEPT ![th[t].seq].data = th[t].buf]
  BY DEF WritesPage
<1>4. \A v \in Vps : flash'[v].bank = flash[v].bank
  <2>1. flash \in [Vps -> PageType]
    BY <1>1 DEF Safe, Typed, WorldOK
  <2>2. ASSUME NEW v \in Vps PROVE flash'[v].bank = flash[v].bank
    <3>1. flash[v] \in PageType
      BY <2>1
    <3>2. flash'[v] = IF v = th[t].seq THEN [flash[v] EXCEPT !.data = th[t].buf] ELSE flash[v]
      BY <1>3, <2>1
    <3>3. QED BY <3>1, <3>2 DEF PageType
  <2>3. QED BY <2>2
<1>5. \A v : Settled(v) => flash'[v].bank = flash[v].bank
  BY <1>1, <1>4, SettledVps DEF SettledAre
<1>6. th[t].seq \in Vps
  BY <1>1, WorkTyped DEF Safe, Typed, Vps
<1>7. BankOf(th[t], 0)' = b
  BY <1>2, <1>4, <1>6 DEF BankOf
<1>8. Settled(th[t].vps[0])'
  <2>1. PICK v : v = th[t].seq
    OBVIOUS
  <2>2. Settled(v)' /\ th'[t].vps[0] = v
    BY <1>1, <1>2, <2>1, IssuedIsSettled
  <2>3. QED BY <2>2
<1> HIDE DEF b
<1>9. ASSUME NEW i \in SubPages PROVE CmdOK(t, i)'
  BY <1>2, <1>7, <1>8 DEF CmdOK, Cmd
<1>10. \A i, j \in SubPages : i # j => ~SameBank(t, i, t, j)'
  BY <1>2 DEF SameBank, Cmd
<1>11. ASSUME NEW u \in Threads \ {t}, NEW i \in SubPages, NEW j \in SubPages
       PROVE  ApartOK(t, i, u, j)'
  <2>1. SUFFICES ASSUME SameBank(t, i, u, j)' PROVE ApartOK(t, i, u, j)'
    BY DEF ApartOK
  <2>2. th'[u] = th[u] /\ Cmd(u, j) /\ Live(u) /\ i = 0 /\ BankOf(th[u], j)' = b /\ BankOf(th[t], i)' = b
    BY <1>1, <1>2, <1>7, <2>1 DEF Kept, SameBank, Cmd, Live
  <2>3. Settled(th[u].vps[j])
    BY <2>2 DEF BankInv, CmdOK
  <2>4. BankOf(th[u], j) = b
    BY <1>5, <2>2, <2>3 DEF BankOf
  <2>8. CmdOK(u, j) /\ b \in idle
    BY <1>2, <2>2 DEF BankInv
  <2>5. b \in complete /\ ToRun(u)
    BY <2>2, <2>4, <2>8 DEF CmdOK
  <2>6. ToRun(u)'
    BY <1>1, <2>2, <2>5, ToRunAfterStep
  <2>7. QED BY <1>1, <2>2, <2>5, <2>6 DEF ApartOK
<1>12. idle' \subseteq idle
  BY <1>2
<1>13. QED BY <1>1, <1>5, <1>9, <1>10, <1>11, <1>12, BanksAfter

LEMMA BanksEnd ==
  ASSUME Safe3, BankInv, NEW t \in Threads, EndWrite(t)
  PROVE  BankInv'
<1>1. /\ Write(t) /\ Shape /\ Safe /\ Live(t) /\ Kept(t) /\ Current(t) /\ Steps(t) /\ Listed /\ Numbered
      /\ \A v : Settled(v) => Settled(v)'
  <2>1. Safe /\ Shape /\ Write(t) /\ Listed /\ Numbered
    BY DEF Safe3, Safe, Write, SchedInv
  <2>2. Kept(t) /\ Current(t) /\ Steps(t)
    BY <2>1, HandlerSteps, StepsKeep
  <2>3. \A v : Settled(v) => Settled(v)'
    BY <2>1, SettledStays
  <2>4. QED BY <2>1, <2>2, <2>3 DEF Current
<1>2. /\ th[t].issued = {0} /\ Works(t, th[t]) /\ flash' = flash /\ idle' = idle /\ complete' = complete
      /\ IF Ended(th[t]) = {0} THEN Goes(t, "SATA") ELSE Sleeps(t, {BankOf(th[t], 0)})
  BY <1>1, EndWriteEffect
<1>3. /\ th'[t].issued = {0} /\ 0 \in SubPages /\ BankOf(th[t], 0)' = BankOf(th[t], 0) /\ Cmd(t, 0)
      /\ CmdOK(t, 0)
  BY <1>1, <1>2, ZeroIsSubPage DEF Works, BankOf, Cmd, BankInv
<1>4. \/ BankOf(th[t], 0) \in complete /\ th'[t].awake = TRUE /\ ToRun(t)'
      \/ /\ BankOf(th[t], 0) \notin complete /\ BankOf(th[t], 0) \notin idle
         /\ th'[t].wake = {BankOf(th[t], 0)}
  <2>1. CASE BankOf(th[t], 0) \in complete
    <3>1. Ended(th[t]) = {0}
      BY <1>2, <2>1 DEF Ended
    <3>2. th'[t].awake = TRUE
      BY <1>2, <3>1 DEF Goes
    <3>3. ToRun(t)'
      BY <1>1, <3>2, ToRunAfterStep
    <3>4. QED BY <2>1, <3>2, <3>3
  <2>2. CASE BankOf(th[t], 0) \notin complete
    <3>1. Ended(th[t]) # {0}
      BY <1>2, <2>2 DEF Ended
    <3>2. QED BY <1>2, <1>3, <2>2, <3>1 DEF Sleeps, CmdOK
  <2>3. QED BY <2>1, <2>2
<1>5. Settled(th[t].vps[0])'
  <2>1. PICK v : v = th[t].vps[0]
    OBVIOUS
  <2>2. Settled(v)' /\ th'[t].vps[0] = v
    BY <1>1, <1>2, <1>3, <2>1 DEF Works, CmdOK
  <2>3. QED BY <2>2
<1>6. ASSUME NEW i \in SubPages PROVE CmdOK(t, i)'
  <2>1. SUFFICES ASSUME i = 0 PROVE CmdOK(t, 0)'
    BY <1>3 DEF CmdOK, Cmd
  <2>2. QED BY <1>2, <1>3, <1>4, <1>5 DEF CmdOK
<1>7. \A i, j \in SubPages : i # j => ~SameBank(t, i, t, j)'
  BY <1>3 DEF SameBank, Cmd
<1>8. ASSUME NEW u \in Threads \ {t}, NEW i \in SubPages, NEW j \in SubPages
      PROVE  ApartOK(t, i, u, j)'
  <2>1. SUFFICES ASSUME SameBank(t, i, u, j)' PROVE ApartOK(t, i, u, j)'
    BY DEF ApartOK
  <2>2. th'[u] = th[u] /\ i = 0 /\ SameBank(t, 0, u, j)
    BY <1>1, <1>2, <1>3, <2>1 DEF Kept, SameBank, Cmd, Live, BankOf
  <2>3. BankOf(th[t], 0) \in complete
    BY <1>3, <2>2 DEF BankInv, ApartOK
  <2>4. QED BY <1>2, <1>3, <1>4, <2>2, <2>3 DEF ApartOK
<1>9. idle' \subseteq idle /\ \A v : Settled(v) => flash'[v].bank = flash[v].bank
  BY <1>2
<1>10. QED BY <1>1, <1>2, <1>6, <1>7, <1>8, <1>9, BanksAfter

-----------------------------------------------------------------------------
LEMMA BanksRead == ASSUME Safe3, BankInv, NEW t \in Threads, Read(t) PROVE BankInv'
<1>1. /\ Shape /\ Safe /\ PageInv /\ Live(t) /\ th[t].kind = "read"
  <2>1. Safe /\ Shape /\ PageInv
    BY DEF Safe3, Safe
  <2>2. Current(t)
    BY <2>1, HandlerSteps
  <2>3. th[t].kind = "read"
    BY DEF Read, ReadBuffer, ReadLock, LoadForRead, MakeSegments, ReadFlash, Runs
  <2>4. QED BY <2>1, <2>2, <2>3 DEF Current
<1>2. ASSUME idle' = idle, complete' = complete, flash' = flash, th'[t].issued = th[t].issued,
             th[t].phase \notin {"FLASH_READ", "FLASH_WRITE", "SATA"}
      PROVE  BankInv'
  <2>1. th'[t].issued = {} /\ \A v : Settled(v) => flash'[v].bank = flash[v].bank
    BY <1>1, <1>2, IdleThread
  <2>2. QED BY <1>2, <2>1, BanksKept
<1>3. CASE ReadBuffer(t)
  BY <1>1, <1>2, <1>3, ReadBufferEffect DEF Runs
<1>4. CASE ReadLock(t)
  BY <1>1, <1>2, <1>4, ReadLockEffect DEF Runs, Works
<1>5. CASE LoadForRead(t)
  BY <1>1, <1>2, <1>5, LoadForReadEffect DEF Runs, Works
<1>6. CASE MakeSegments(t)
  BY <1>1, <1>2, <1>6, MakeSegmentsEffect DEF Runs
<1>7. CASE ReadFlash(t)
  <2>1. /\ th[t].phase = "FLASH_READ" /\ flash' = flash
        /\ ReadLoop(t, ReadNow(t), Filled(t), "SATA")
    BY <1>1, <1>7, ReadFlashEffect DEF Runs
  <2>2. \A i \in th[t].need : Settled(th[t].vps[i])
    <3>1. th[t].need \subseteq SubPages
      BY <1>1 DEF Safe, Typed, ThreadsOK, ThreadOK
    <3>2. QED BY <1>1, <2>1, <3>1 DEF PageInv, PageOK, ReaderPlaces
  <2>3. ReadNow(t) \cap th[t].issued = {}
    BY DEF ReadNow
  <2>4. QED BY <2>1, <2>2, <2>3, BanksLoop
<1>8. QED BY <1>3, <1>4, <1>5, <1>6, <1>7 DEF Read

\* What a writer completes it has fixed.
LEMMA NeedIsSettled ==
  ASSUME Safe, PageInv, NEW t \in Threads, th[t].kind = "write", th[t].phase = "FLASH_READ"
  PROVE  \A i \in th[t].need : Settled(th[t].vps[i])
<1>1. SUFFICES ASSUME NEW i \in th[t].need PROVE Settled(th[t].vps[i])
  OBVIOUS
<1>2. i \in SubPages /\ th[t].pages[i] # NoPage
  BY DEF PageInv, PageOK, NeedsPages, Safe, Typed, ThreadsOK, ThreadOK
<1>3. i \in th[t].fixed
  <2>1. HandlerOK(t)
    BY DEF Safe, IInv
  <2>2. QED BY <1>2, <2>1 DEF HandlerOK, WriteState
<1>4. QED BY <1>2, <1>3 DEF PageInv, PageOK, WriterPlaces, Loading

LEMMA BanksAllocate == ASSUME Safe3, BankInv, NEW t \in Threads, AllocatePage(t) PROVE BankInv'
<1>1. Shape /\ Safe /\ PageInv /\ Write(t)
  BY DEF Safe3, Safe, Write
<1>2. PICK b \in idle : flash' = [flash EXCEPT ![th[t].seq].bank = b, ![th[t].seq].uid = th[t].uid]
  BY <1>1, AllocatePageEffect
<1>3. th[t].kind = "write" /\ th[t].phase = "BANK" /\ idle' = idle /\ complete' = complete
      /\ th'[t].issued = th[t].issued
  BY <1>1, AllocatePageEffect DEF Runs, Works
<1>4. th'[t].issued = {} /\ Writing(t)
  <2>1. Live(t)
    BY <1>3 DEF Live
  <2>2. QED BY <1>1, <1>3, <2>1, IdleThread DEF Writing, Carries
<1>5. \A v : Settled(v) => flash'[v].bank = flash[v].bank
  <2>1. ASSUME NEW v, Settled(v) PROVE v # th[t].seq /\ v \in Vps
    BY <2>1, <1>1, <1>4, SettledVps DEF Settled, SettledAre
  <2>2. DOMAIN flash = Vps
    BY <1>1 DEF Safe, Typed, WorldOK
  <2>3. QED BY <1>2, <2>1, <2>2
<1>6. QED BY <1>1, <1>3, <1>4, <1>5, BanksKept

LEMMA BanksWriter == ASSUME Safe3, BankInv, NEW t \in Threads, Write(t) PROVE BankInv'
<1>1. /\ Shape /\ Safe /\ PageInv /\ Live(t) /\ th[t].kind = "write"
  <2>1. Safe /\ Shape /\ PageInv
    BY DEF Safe3, Safe
  <2>2. Current(t)
    BY <2>1, HandlerSteps
  <2>3. th[t].kind = "write"
    BY DEF Write, WriteWholePage, PushPartialPage, FlushAndPush, WriteLock, WritePmtLoad,
       CompleteSubPages, AllocatePage, WaitForBank, UpdatePmt, IssueWrite, EndWrite, Runs
  <2>4. QED BY <2>1, <2>2, <2>3 DEF Current
<1>2. ASSUME idle' = idle, complete' = complete, flash' = flash, th'[t].issued \in {{}, th[t].issued},
             th[t].phase \notin {"FLASH_READ", "FLASH_WRITE", "SATA"}
      PROVE  BankInv'
  <2>1. th'[t].issued = {} /\ \A v : Settled(v) => flash'[v].bank = flash[v].bank
    BY <1>1, <1>2, IdleThread
  <2>2. QED BY <1>2, <2>1, BanksKept
<1>3. CASE WriteWholePage(t)
  BY <1>1, <1>2, <1>3, WriteWholePageEffect DEF Runs
<1>4. CASE PushPartialPage(t)
  BY <1>1, <1>2, <1>4, PushPartialPageEffect DEF Runs, Works
<1>5. CASE FlushAndPush(t)
  BY <1>1, <1>2, <1>5, FlushAndPushEffect DEF Runs
<1>6. CASE WriteLock(t)
  BY <1>1, <1>2, <1>6, WriteLockEffect DEF Runs, Works
<1>7. CASE WritePmtLoad(t)
  BY <1>1, <1>2, <1>7, WritePmtLoadEffect DEF Runs
<1>8. CASE CompleteSubPages(t)
  <2>1. /\ th[t].phase = "FLASH_READ" /\ flash' = flash
        /\ ReadLoop(t, WriteNow(t), Completed(t), "BANK")
    BY <1>1, <1>8, CompleteSubPagesEffect DEF Runs
  <2>2. \A i \in th[t].need : Settled(th[t].vps[i])
    BY <1>1, <2>1, NeedIsSettled
  <2>3. WriteNow(t) \cap th[t].issued = {}
    BY DEF WriteNow
  <2>4. QED BY <2>1, <2>2, <2>3, BanksLoop
<1>9. CASE WaitForBank(t)
  BY <1>1, <1>2, <1>9, WaitForBankEffect DEF Runs, Works
<1>10. CASE UpdatePmt(t)
  BY <1>1, <1>2, <1>10, UpdatePmtEffect DEF Runs
<1>11. CASE IssueWrite(t)
  <2>1. CASE FindsBusy(t)
    <3>1. idle' = idle /\ complete' = complete /\ flash' = flash /\ th'[t].issued = {}
      BY <1>1, <1>11, <2>1, IssueWriteEffect DEF FindsBusy, Works
    <3>2. \A v : Settled(v) => flash'[v].bank = flash[v].bank
      BY <3>1
    <3>3. QED BY <3>1, <3>2, BanksKept
  <2>2. QED BY <1>1, <1>11, <2>1, IssueWriteEffect, BanksWrite
<1>12. QED
  BY <1>3, <1>4, <1>5, <1>6, <1>7, <1>8, <1>9, <1>10, <1>11, BanksAllocate, BanksEnd DEF Write

-----------------------------------------------------------------------------
\* A thread comes or goes.
LEMMA BanksElsewhere ==
  ASSUME BankInv, NEW t \in Threads, \A x \in Threads \ {t} : th'[x] = th[x],
         \A x \in Threads \ {t} : Live(x) => (ToRun(x)' <=> ToRun(x)),
         idle' = idle, complete' = complete, flash' = flash,
         \A v : Settled(v) => Settled(v)', th'[t].issued = {}
  PROVE  BankInv'
<1>1. \A i : ~Cmd(t, i)'
  BY DEF Cmd
<1>2. ASSUME NEW x \in Threads \ {t}, NEW i \in SubPages
      PROVE  /\ Live(x)' <=> Live(x)
             /\ Cmd(x, i)' <=> Cmd(x, i)
             /\ BankOf(th[x], i)' = BankOf(th[x], i)
  BY DEF Live, Cmd, BankOf
<1>3. ASSUME NEW x \in Threads, NEW i \in SubPages PROVE CmdOK(x, i)'
  <2>1. SUFFICES ASSUME Cmd(x, i)' PROVE CmdOK(x, i)'
    BY DEF CmdOK
  <2>2. x # t /\ th'[x] = th[x]
    BY <1>1, <2>1
  <2>3. Cmd(x, i) /\ CmdOK(x, i) /\ Live(x)
    BY <1>2, <2>1, <2>2 DEF BankInv, Cmd
  <2>4. Settled(th[x].vps[i])'
    <3>1. PICK v : v = th[x].vps[i]
      OBVIOUS
    <3>2. Settled(v)' /\ th'[x].vps[i] = v
      BY <2>2, <2>3, <3>1 DEF CmdOK
    <3>3. QED BY <3>2
  <2>5. BankOf(th[x], i)' \notin idle' \/ (BankOf(th[x], i)' \in complete' /\ ToRun(x)')
    BY <1>2, <2>2, <2>3 DEF CmdOK
  <2>6. th'[x].awake = FALSE => BankOf(th[x], i)' \in th'[x].wake
    BY <1>2, <2>2, <2>3 DEF CmdOK
  <2>7. QED BY <2>4, <2>5, <2>6 DEF CmdOK
<1>4. ASSUME NEW x \in Threads, NEW y \in Threads, NEW i \in SubPages, NEW j \in SubPages, x # y \/ i # j
      PROVE  ApartOK(x, i, y, j)'
  <2>1. SUFFICES ASSUME SameBank(x, i, y, j)' PROVE ApartOK(x, i, y, j)'
    BY DEF ApartOK
  <2>2. x # t /\ y # t
    BY <1>1, <2>1 DEF SameBank
  <2>3. SameBank(x, i, y, j) /\ Live(x) /\ Live(y)
    BY <1>2, <2>1, <2>2 DEF SameBank, Cmd
  <2>4. ApartOK(x, i, y, j)
    BY <1>4 DEF BankInv
  <2>5. QED BY <1>2, <2>2, <2>3, <2>4 DEF ApartOK
<1>5. QED BY <1>3, <1>4 DEF BankInv

LEMMA SettledFinish ==
  ASSUME Shape, NEW t \in Threads, Finish(t), NEW v, Settled(v) PROVE Settled(v)'
<1>1. /\ (\A x \in Threads \ {t} : th'[x] = th[x]) /\ th'[t] = FreeThread /\ next' = next
  BY FinishEffect
<1>2. ~Writing(t)'
  BY <1>1 DEF Writing, Carries, Unissued, FreeThread
<1>3. ASSUME NEW x \in Threads, Writing(x)' PROVE th'[x].seq # v
  <2>1. x # t /\ th'[x] = th[x]
    BY <1>1, <1>2, <1>3
  <2>2. Writing(x)
    BY <1>3, <2>1 DEF Writing, Carries, Unissued
  <2>3. QED BY <2>1, <2>2 DEF Settled
<1>4. QED BY <1>1, <1>3 DEF Settled

LEMMA SettledAccept ==
  ASSUME Safe, NEW t \in Threads, NEW c \in Cmds, Accept(t, c), NEW v, Settled(v) PROVE Settled(v)'
<1>1. (\A x \in Threads \ {t} : th'[x] = th[x]) /\ next' = next + 1 /\ th'[t].seq = next + 1
  BY AcceptEffect DEF Safe
<1>2. next \in Nat /\ v \in 1 .. next
  BY MaxCmdsNat DEF Safe, SchedInv, Numbered, Settled
<1>3. ASSUME NEW x \in Threads, Writing(x)' PROVE th'[x].seq # v
  <2>1. CASE x = t
    BY <1>1, <1>2, <2>1
  <2>2. CASE x # t
    <3>1. th'[x] = th[x]
      BY <1>1, <2>2
    <3>2. Writing(x)
      BY <1>3, <3>1 DEF Writing, Carries, Unissued
    <3>3. QED BY <3>1, <3>2 DEF Settled
  <2>3. QED BY <2>1, <2>2
<1>4. QED BY <1>1, <1>2, <1>3 DEF Settled

LEMMA BanksFinish == ASSUME Safe3, BankInv, NEW t \in Threads, Finish(t) PROVE BankInv'
<1>1. Safe /\ Shape /\ Listed /\ Numbered
  BY DEF Safe3, Safe, SchedInv
<1>2. /\ \A x \in Threads \ {t} : th'[x] = th[x]
      /\ DOMAIN th' = Threads /\ th'[t] = FreeThread /\ End(t) /\ turn > 0 /\ t = queue[turn]
      /\ idle' = idle /\ complete' = complete /\ flash' = flash
  BY <1>1, FinishEffect DEF Runs
<1>3. \A x \in Threads \ {t} : Live(x) => (ToRun(x)' <=> ToRun(x))
  BY <1>1, <1>2, TurnEnds
<1>4. th'[t].issued = {}
  BY <1>2 DEF FreeThread
<1>5. \A v : Settled(v) => Settled(v)'
  BY <1>1, SettledFinish
<1>6. QED BY <1>2, <1>3, <1>4, <1>5, BanksElsewhere

LEMMA BanksAccept ==
  ASSUME Safe3, BankInv, NEW t \in Threads, NEW c \in Cmds, Accept(t, c) PROVE BankInv'
<1>1. Safe /\ Shape
  BY DEF Safe3, Safe
<1>2. /\ \A x \in Threads \ {t} : th'[x] = th[x]
      /\ turn = 0 /\ turn' = 0 /\ th'[t].issued = {}
      /\ idle' = idle /\ complete' = complete /\ flash' = flash
  BY <1>1, AcceptEffect
<1>3. \A x \in Threads \ {t} : Live(x) => (ToRun(x)' <=> ToRun(x))
  BY <1>2 DEF ToRun
<1>4. \A v : Settled(v) => Settled(v)'
  BY <1>1, SettledAccept
<1>5. QED BY <1>2, <1>3, <1>4, BanksElsewhere

\* The turn passes over a thread: no command of its own has ended.
LEMMA BanksSkip == ASSUME Safe3, BankInv, Skip PROVE BankInv'
<1>1. Listed /\ Numbered /\ SchedInv
  BY DEF Safe3, Safe, SchedInv
<1>2. /\ turn > 0 /\ ~Awake(queue[turn]) /\ turn' = NextTurn
      /\ UNCHANGED <<queue, th, flash, idle, complete, next>>
  BY DEF Skip, banks, host
<1>3. \A x \in Threads : Live(x) => (ToRun(x)' <=> (ToRun(x) /\ x # queue[turn]))
  BY <1>1, <1>2, TurnMoves DEF SameList
<1>4. ASSUME NEW i \in SubPages, Cmd(queue[turn], i) PROVE BankOf(th[queue[turn]], i) \notin complete
  <2>1. queue[turn] \in Threads
    BY <1>1, <1>2, Positions
  <2>2. th[queue[turn]].awake = FALSE /\ th[queue[turn]].wake \cap complete = {}
    BY <1>1, <1>2, <1>4, <2>1 DEF Awake, Signals, SchedInv, FreshLast, Cmd
  <2>3. BankOf(th[queue[turn]], i) \in th[queue[turn]].wake
    BY <1>4, <2>1, <2>2 DEF BankInv, CmdOK
  <2>4. QED BY <2>2, <2>3
<1>5. /\ \A v : Settled(v)' <=> Settled(v)
      /\ \A x, i : (Cmd(x, i)' <=> Cmd(x, i)) /\ BankOf(th[x], i)' = BankOf(th[x], i)
  BY <1>2 DEF Settled, Writing, Carries, Unissued, Cmd, Live, BankOf
<1>6. ASSUME NEW x \in Threads, NEW i \in SubPages PROVE CmdOK(x, i)'
  <2>1. SUFFICES ASSUME Cmd(x, i) PROVE CmdOK(x, i)'
    BY <1>5 DEF CmdOK
  <2>2. CmdOK(x, i) /\ Live(x)
    BY <2>1 DEF BankInv, Cmd
  <2>3. Settled(th[x].vps[i])'
    <3>1. PICK v : v = th[x].vps[i]
      OBVIOUS
    <3>2. Settled(v)' /\ th'[x].vps[i] = v
      BY <1>2, <1>5, <2>1, <2>2, <3>1 DEF CmdOK
    <3>3. QED BY <3>2
  <2>4. QED BY <1>2, <1>3, <1>4, <1>5, <2>1, <2>2, <2>3 DEF CmdOK
<1>7. ASSUME NEW x \in Threads, NEW y \in Threads, NEW i \in SubPages, NEW j \in SubPages, x # y \/ i # j
      PROVE  ApartOK(x, i, y, j)'
  <2>1. SUFFICES ASSUME SameBank(x, i, y, j)' PROVE ApartOK(x, i, y, j)'
    BY DEF ApartOK
  <2>2. SameBank(x, i, y, j) /\ ApartOK(x, i, y, j) /\ Live(x) /\ Live(y) /\ Cmd(x, i) /\ Cmd(y, j)
    BY <1>5, <1>7, <2>1 DEF SameBank, BankInv, Cmd
  <2>3. BankOf(th[x], i) \in complete /\ BankOf(th[y], j) \in complete /\ x # y
    BY <2>2 DEF ApartOK, SameBank
  <2>4. x # queue[turn] /\ y # queue[turn]
    BY <1>4, <2>2, <2>3
  <2>5. ToRun(x)' \/ ToRun(y)'
    BY <1>3, <2>2, <2>4 DEF ApartOK
  <2>6. QED BY <1>2, <1>5, <2>3, <2>5 DEF ApartOK
<1>8. QED BY <1>6, <1>7 DEF BankInv

\* A new pass: commands end, and all threads are to run.
LEMMA BanksPass == ASSUME Safe3, BankInv, StartPass PROVE BankInv'
<1>1. turn = 0 /\ UNCHANGED <<th, flash, next>>
  BY DEF StartPass, host
<1>2. PICK done \in SUBSET (Banks \ idle) :
         complete' = done /\ \E busy : idle' = (idle \cup done) \ busy
  BY DEF StartPass
<1>3. \A x \in Threads : Live(x) => ToRun(x)'
  BY SchedPass DEF Safe3, Safe
<1>4. /\ \A v : Settled(v)' <=> Settled(v)
      /\ \A x, i : (Cmd(x, i)' <=> Cmd(x, i)) /\ BankOf(th[x], i)' = BankOf(th[x], i)
  BY <1>1 DEF Settled, Writing, Carries, Unissued, Cmd, Live, BankOf
<1>5. ASSUME NEW x \in Threads, NEW i \in SubPages PROVE CmdOK(x, i)'
  <2>1. SUFFICES ASSUME Cmd(x, i) PROVE CmdOK(x, i)'
    BY <1>4 DEF CmdOK
  <2>2. CmdOK(x, i) /\ Live(x)
    BY <2>1 DEF BankInv, Cmd
  <2>3. Settled(th[x].vps[i])'
    <3>1. PICK v : v = th[x].vps[i]
      OBVIOUS
    <3>2. Settled(v)' /\ th'[x].vps[i] = v
      BY <1>1, <1>4, <2>1, <2>2, <3>1 DEF CmdOK
    <3>3. QED BY <3>2
  <2>4. BankOf(th[x], i) \notin idle
    BY <1>1, <2>1, <2>2 DEF CmdOK, ToRun
  <2>5. QED BY <1>1, <1>2, <1>3, <1>4, <2>1, <2>2, <2>3, <2>4 DEF CmdOK
<1>6. ASSUME NEW x \in Threads, NEW y \in Threads, NEW i \in SubPages, NEW j \in SubPages, x # y \/ i # j
      PROVE  ApartOK(x, i, y, j)'
  <2>1. ~SameBank(x, i, y, j)
    BY <1>1, <1>6 DEF BankInv, ApartOK, ToRun
  <2>2. QED BY <1>4, <2>1 DEF ApartOK, SameBank
<1>7. QED BY <1>5, <1>6 DEF BankInv

LEMMA BanksStay == ASSUME BankInv, UNCHANGED vars PROVE BankInv'
  BY DEF BankInv, CmdOK, ApartOK, SameBank, Settled, Writing, Carries, Unissued, Cmd, Live, BankOf, ToRun,
     vars, sched, pmt, banks, host

LEMMA BanksInit == Init => BankInv
<1> SUFFICES ASSUME Init PROVE BankInv
  OBVIOUS
<1>1. \A t \in Threads : ~Live(t)
  BY DEF Init, Live, FreeThread
<1>2. QED BY <1>1 DEF BankInv, CmdOK, ApartOK, SameBank, Cmd

LEMMA BanksNext == Safe3 /\ BankInv /\ [Next]_vars => BankInv'
  BY BanksPass, BanksSkip, BanksRead, BanksWriter, BanksFinish, BanksAccept, BanksStay DEF Next, Handler

-----------------------------------------------------------------------------
EndedIdle == \A t \in Threads : ~Live(t) => th[t].issued = {}

LEMMA EndedIdleNext == Safe /\ EndedIdle /\ [Next]_vars => EndedIdle'
<1> SUFFICES ASSUME Safe, EndedIdle, [Next]_vars PROVE EndedIdle'
  OBVIOUS
<1>1. Shape
  BY DEF Safe
<1>2. ASSUME NEW t \in Threads, Read(t) \/ Write(t) PROVE EndedIdle'
  <2>1. Kept(t) /\ Live(t)
    BY <1>1, <1>2, HandlerSteps, StepsKeep DEF Current
  <2>2. ASSUME NEW x \in Threads, ~Live(x)' PROVE th'[x].issued = {}
    BY <2>1, <2>2 DEF Kept, Live, EndedIdle
  <2>3. QED BY <2>2 DEF EndedIdle
<1>3. ASSUME NEW t \in Threads, Finish(t) PROVE EndedIdle'
  <2>1. (\A x \in Threads \ {t} : th'[x] = th[x]) /\ th'[t].issued = {}
    <3>1. (\A x \in Threads \ {t} : th'[x] = th[x]) /\ th'[t] = FreeThread
      BY <1>1, <1>3, FinishEffect
    <3>2. QED BY <3>1 DEF FreeThread
  <2>2. QED BY <2>1 DEF EndedIdle, Live
<1>4. ASSUME NEW t \in Threads, NEW c \in Cmds, Accept(t, c) PROVE EndedIdle'
  <2>1. (\A x \in Threads \ {t} : th'[x] = th[x]) /\ th'[t].issued = {}
    BY <1>1, <1>4, AcceptEffect
  <2>2. QED BY <2>1 DEF EndedIdle, Live
<1>5. CASE StartPass \/ Skip \/ UNCHANGED vars
  BY <1>5 DEF StartPass, Skip, vars, sched, EndedIdle, Live
<1>6. QED BY <1>2, <1>3, <1>4, <1>5 DEF Next, Handler

LEMMA EndedIdleInit == Init => EndedIdle
  BY DEF Init, EndedIdle, FreeThread

\* The pages, their banks and the flash commands, with all they rest on.
Safe4 == Safe2 /\ PageInv /\ BankInv /\ EndedIdle

LEMMA Safe4Holds == Spec => []Safe4
<1>1. Init => PageInv /\ BankInv /\ EndedIdle
  BY PageInit, BanksInit, EndedIdleInit
<1>2. Safe2 /\ PageInv /\ BankInv /\ EndedIdle /\ [Next]_vars => PageInv' /\ BankInv' /\ EndedIdle'
  <2> SUFFICES ASSUME Safe2, PageInv, BankInv, EndedIdle, [Next]_vars
               PROVE  PageInv' /\ BankInv' /\ EndedIdle'
    OBVIOUS
  <2>1. Safe /\ Safe3
    BY SafeParts DEF Safe2, Safe3
  <2>2. QED BY <2>1, PageNext, BanksNext, EndedIdleNext
<1>3. QED BY <1>1, <1>2, Safe2Holds, PTL DEF Spec, Safe4

(***************************************************************************)
(* No end of a flash command goes unseen: a bank counts as complete for    *)
(* one pass only, and between passes a command under way still has its     *)
(* bank busy and to itself, although another thread that runs earlier in   *)
(* the pass may have put the bank to use again.                            *)
(***************************************************************************)
THEOREM CompletionsSeen == Spec => []NoMissedCompletion
<1>1. ASSUME Safe4 PROVE NoMissedCompletion
  <2> SUFFICES ASSUME turn = 0, NEW c \in Commands, NEW d \in Commands
               PROVE  c[3] \notin idle /\ (c[3] = d[3] => c = d)
    BY DEF NoMissedCompletion
  <2>1. ASSUME NEW e \in Commands
        PROVE  /\ e \in Threads \X SubPages \X Banks /\ e[1] \in Threads /\ e[2] \in SubPages
               /\ e[3] = BankOf(th[e[1]], e[2]) /\ Cmd(e[1], e[2])
    BY <1>1 DEF Commands, Cmd, Safe4, EndedIdle
  <2>2. \A t : ~ToRun(t)
    BY DEF ToRun
  <2>3. c[3] \notin idle
    BY <1>1, <2>1, <2>2 DEF Safe4, BankInv, CmdOK
  <2>4. ASSUME c[3] = d[3] PROVE c = d
    <3>1. SameBank(c[1], c[2], d[1], d[2])
      BY <2>1, <2>4 DEF SameBank
    <3>2. c[1] = d[1] /\ c[2] = d[2]
      BY <1>1, <2>1, <2>2, <3>1 DEF Safe4, BankInv, ApartOK
    <3>3. QED BY <2>1, <2>4, <3>2
  <2>5. QED BY <2>3, <2>4
<1>2. QED BY <1>1, Safe4Holds, PTL

-----------------------------------------------------------------------------
(***************************************************************************)
(* The data.  A sector of a page is, in the order of the commands, on      *)
(* flash; with the writers that have taken it out of the write buffer or   *)
(* are to write the whole page; in the write buffer; and with the writers  *)
(* that have not run.  What the commands below n have written is found     *)
(* with the last of them.                                                  *)
(***************************************************************************)
Later == MaxCmds + 1

AtPlace(t, p, sp) == Unissued(t) /\ th[t].pages[sp] = p

StoredIs(p, s, v) ==
    /\ \A t \in Threads : AtPlace(t, p, s[1]) => v = th[t].buf[s]
    /\ (\A t \in Threads : ~AtPlace(t, p, s[1])) => v = flash[map[p][s[1]]].data[s]

HoldsSector(t, p, s) == Carries(t) /\ th[t].pages[s[1]] = p /\ s \in th[t].left

LastHolder(t, n, p, s) ==
    /\ HoldsSector(t, p, s) /\ th[t].seq < n
    /\ \A u \in Threads : HoldsSector(u, p, s) /\ th[u].seq < n => th[u].seq <= th[t].seq

NoHolder(n, p, s) == \A t \in Threads : HoldsSector(t, p, s) => ~(th[t].seq < n)

\* Before command n, sector s of page p that is not in the write buffer is v.
ContentBefore(n, p, s, v) ==
    /\ \A t \in Threads : LastHolder(t, n, p, s) => v = th[t].buf[s]
    /\ NoHolder(n, p, s) => StoredIs(p, s, v)

Buffered(p, s) == wb[p][s].val # Absent

Content(p, s, v) ==
    /\ Buffered(p, s) => v = wb[p][s].val
    /\ ~Buffered(p, s) => ContentBefore(Later, p, s, v)

FreshWriter(t, p, s) ==
    th[t].kind = "write" /\ th[t].phase = "BUFFER" /\ th[t].lpn = p /\ s \in th[t].sectors

LastWriter(t, n, p, s) ==
    /\ FreshWriter(t, p, s) /\ th[t].seq < n
    /\ \A u \in Threads : FreshWriter(u, p, s) /\ th[u].seq < n => th[u].seq <= th[t].seq

NoWriter(n, p, s) == \A t \in Threads : FreshWriter(t, p, s) => ~(th[t].seq < n)

\* Before command n, sector s of page p is v.
Expect(n, p, s, v) ==
    /\ \A t \in Threads : LastWriter(t, n, p, s) => v = th[t].seq
    /\ NoWriter(n, p, s) => Content(p, s, v)

\* What a reader has still to find, and what it has found.
ReaderData(t) ==
    th[t].kind = "read" =>
        /\ th[t].phase \in {"BUFFER", "LOCK", "PMT_LOAD", "FLASH_READ", "SATA"}
        /\ th[t].phase = "BUFFER" =>
              \A s \in Sectors : Expect(th[t].seq, th[t].lpn, s, th[t].want[s])
        /\ th[t].phase \in {"LOCK", "PMT_LOAD"} =>
              /\ \A s \in th[t].left : ContentBefore(th[t].seq, th[t].lpn, s, th[t].want[s])
              /\ \A s \in th[t].sectors \ th[t].left : th[t].buf[s] = th[t].want[s]
        /\ th[t].phase = "FLASH_READ" =>
              /\ \A s \in th[t].left : flash[th[t].vps[s[1]]].data[s] = th[t].want[s]
              /\ \A s \in th[t].sectors :
                    \/ th[t].buf[s] = th[t].want[s]
                    \/ s \in th[t].left /\ \E i \in th[t].need : th[t].vps[i] = th[t].vps[s[1]]
        /\ th[t].phase = "SATA" => \A s \in th[t].sectors : th[t].buf[s] = th[t].want[s]

Completing == {"FLASH_READ", "BANK", "PMT_UPDATE"}

\* A writer carries part of each sub-page it has, and completes it from the
\* place it has read.
WriterData(t) ==
    /\ Fresh(t) => th[t].left = th[t].sectors
    /\ Carries(t) => \A sp \in SubPages : th[t].pages[sp] # NoPage => \E s \in th[t].left : s[1] = sp
    /\ Carries(t) /\ th[t].phase \in Completing =>
          \A s \in Sectors \ th[t].left : th[t].pages[s[1]] # NoPage =>
             \/ th[t].buf[s] = flash[th[t].vps[s[1]]].data[s]
             \/ th[t].phase = "FLASH_READ" /\ s[1] \in th[t].need
    /\ Unissued(t) =>
          \A sp \in SubPages : th[t].pages[sp] # NoPage => map[th[t].pages[sp]][sp] = th[t].seq

DiskIs == \A p \in Lpns, s \in Sectors : Expect(Later, p, s, disk[p][s])

OwnersAre == \A p \in Lpns, s \in Sectors : Buffered(p, s) => wb[p][s].uid \in Users

DataInv == DiskIs /\ OwnersAre /\ \A t \in Threads : ReaderData(t) /\ WriterData(t)

(***************************************************************************)
(* What stays when the records that matter, the mapping table and the data *)
(* on flash stay.                                                          *)
(***************************************************************************)
LEMMA StoredStays ==
  ASSUME NEW p, NEW s, NEW v, StoredIs(p, s, v),
         \A x \in Threads : AtPlace(x, p, s[1])' <=> AtPlace(x, p, s[1]),
         \A x \in Threads : AtPlace(x, p, s[1]) => th'[x].buf[s] = th[x].buf[s],
         flash'[map'[p][s[1]]].data[s] = flash[map[p][s[1]]].data[s]
  PROVE  StoredIs(p, s, v)'
  BY DEF StoredIs

LEMMA ContentBeforeStays ==
  ASSUME NEW n, NEW p, NEW s, NEW v, ContentBefore(n, p, s, v),
         \A x \in Threads : HoldsSector(x, p, s)' <=> HoldsSector(x, p, s),
         \A x \in Threads : HoldsSector(x, p, s) =>
                th'[x].seq = th[x].seq /\ th'[x].buf[s] = th[x].buf[s],
         StoredIs(p, s, v) => StoredIs(p, s, v)'
  PROVE  ContentBefore(n, p, s, v)'
<1>1. \A x \in Threads : LastHolder(x, n, p, s)' => LastHolder(x, n, p, s) /\ th'[x].buf[s] = th[x].buf[s]
  BY DEF LastHolder
<1>2. NoHolder(n, p, s)' => NoHolder(n, p, s)
  BY DEF NoHolder
<1>3. QED BY <1>1, <1>2 DEF ContentBefore

LEMMA ContentStays ==
  ASSUME NEW p, NEW s, NEW v, Content(p, s, v), wb' = wb,
         ContentBefore(Later, p, s, v) => ContentBefore(Later, p, s, v)'
  PROVE  Content(p, s, v)'
  BY DEF Content, Buffered

LEMMA ExpectStays ==
  ASSUME NEW n, NEW p, NEW s, NEW v, Expect(n, p, s, v),
         \A x \in Threads : FreshWriter(x, p, s)' <=> FreshWriter(x, p, s),
         \A x \in Threads : FreshWriter(x, p, s) => th'[x].seq = th[x].seq,
         Content(p, s, v) => Content(p, s, v)'
  PROVE  Expect(n, p, s, v)'
<1>1. \A x \in Threads : LastWriter(x, n, p, s)' => LastWriter(x, n, p, s) /\ th'[x].seq = th[x].seq
  BY DEF LastWriter
<1>2. NoWriter(n, p, s)' => NoWriter(n, p, s)
  BY DEF NoWriter
<1>3. QED BY <1>1, <1>2 DEF Expect

\* A record that stays.
LEMMA SameRecordSame ==
  ASSUME NEW x, th'[x] = th[x], NEW p, NEW s
  PROVE  /\ AtPlace(x, p, s[1])' <=> AtPlace(x, p, s[1])
         /\ HoldsSector(x, p, s)' <=> HoldsSector(x, p, s)
         /\ FreshWriter(x, p, s)' <=> FreshWriter(x, p, s)
         /\ Carries(x)' <=> Carries(x)
         /\ Unissued(x)' <=> Unissued(x)
         /\ Fresh(x)' <=> Fresh(x)
  BY DEF AtPlace, HoldsSector, FreshWriter, Carries, Unissued, Fresh, Live

(***************************************************************************)
(* The other threads, when thread t steps, comes or goes.                  *)
(***************************************************************************)
Waiting(x) == th[x].kind = "read" /\ th[x].phase \in {"LOCK", "PMT_LOAD"}
FreshReader(x) == th[x].kind = "read" /\ th[x].phase = "BUFFER"

LEMMA DataElsewhere ==
  ASSUME Safe, PageInv, DataInv, NEW t \in Threads, \A x \in Threads \ {t} : th'[x] = th[x],
         \A v : \A x \in Threads \ {t}, s \in Sectors :
             Waiting(x) /\ ContentBefore(th[x].seq, th[x].lpn, s, v)
                 => ContentBefore(th[x].seq, th[x].lpn, s, v)',
         \A v : \A x \in Threads \ {t}, s \in Sectors :
             FreshReader(x) /\ Expect(th[x].seq, th[x].lpn, s, v)
                 => Expect(th[x].seq, th[x].lpn, s, v)',
         \A v : Settled(v) => flash'[v].data = flash[v].data,
         \A x \in Threads \ {t}, sp \in SubPages :
             Unissued(x) /\ th[x].pages[sp] # NoPage =>
                 map'[th[x].pages[sp]][sp] = map[th[x].pages[sp]][sp],
         DiskIs', OwnersAre', ReaderData(t)', WriterData(t)'
  PROVE  DataInv'
<1>1. ASSUME NEW x \in Threads \ {t} PROVE ReaderData(x)'
  <2>1. th'[x] = th[x] /\ ReaderData(x)
    BY DEF DataInv
  <2>2. CASE th[x].kind # "read"
    BY <2>1, <2>2 DEF ReaderData
  <2>3. CASE th[x].kind = "read" /\ th[x].phase = "BUFFER"
    <3>1. ASSUME NEW s \in Sectors PROVE Expect(th[x].seq, th[x].lpn, s, th[x].want[s])'
      <4>1. Expect(th[x].seq, th[x].lpn, s, th[x].want[s])
        BY <2>1, <2>3 DEF ReaderData
      <4>2. PICK n, p, v : n = th[x].seq /\ p = th[x].lpn /\ v = th[x].want[s]
        OBVIOUS
      <4>3. Expect(n, p, s, v)'
        BY <2>3, <4>1, <4>2 DEF FreshReader
      <4>4. th'[x].seq = n /\ th'[x].lpn = p /\ th'[x].want[s] = v
        BY <2>1, <4>2
      <4>5. QED BY <4>3, <4>4
    <3>2. QED BY <2>1, <2>3, <3>1 DEF ReaderData
  <2>4. CASE Waiting(x)
    <3>1. ASSUME NEW s \in th[x].left PROVE ContentBefore(th[x].seq, th[x].lpn, s, th[x].want[s])'
      <4>1. ContentBefore(th[x].seq, th[x].lpn, s, th[x].want[s]) /\ s \in Sectors
        BY <2>1, <2>4, WorkTyped DEF ReaderData, Waiting, Safe, Typed, WorkOK
      <4>2. PICK n, p, v : n = th[x].seq /\ p = th[x].lpn /\ v = th[x].want[s]
        OBVIOUS
      <4>3. ContentBefore(n, p, s, v)'
        BY <2>4, <4>1, <4>2
      <4>4. th'[x].seq = n /\ th'[x].lpn = p /\ th'[x].want[s] = v
        BY <2>1, <4>2
      <4>5. QED BY <4>3, <4>4
    <3>2. QED BY <2>1, <2>4, <3>1 DEF ReaderData, Waiting
  <2>5. CASE th[x].kind = "read" /\ th[x].phase = "FLASH_READ"
    <3>1. ASSUME NEW s \in th[x].left PROVE flash'[th[x].vps[s[1]]].data[s] = th[x].want[s]
      <4>1. s[1] \in SubPages
        BY WorkTyped, SectorParts DEF Safe, Typed, WorkOK
      <4>2. Settled(th[x].vps[s[1]])
        BY <2>5, <4>1 DEF PageInv, PageOK, ReaderPlaces
      <4>3. flash[th[x].vps[s[1]]].data[s] = th[x].want[s]
        BY <2>1, <2>5 DEF ReaderData
      <4>4. QED BY <4>2, <4>3
    <3>2. QED BY <2>1, <2>5, <3>1 DEF ReaderData
  <2>6. CASE th[x].kind = "read" /\ th[x].phase = "SATA"
    BY <2>1, <2>6 DEF ReaderData
  <2>7. QED BY <2>1, <2>2, <2>3, <2>4, <2>5, <2>6 DEF ReaderData, Waiting
<1>2. ASSUME NEW x \in Threads \ {t} PROVE WriterData(x)'
  <2>1. th'[x] = th[x] /\ WriterData(x) /\ (Carries(x)' <=> Carries(x)) /\ (Unissued(x)' <=> Unissued(x))
        /\ (Fresh(x)' <=> Fresh(x))
    BY SameRecordSame DEF DataInv
  <2>2. ASSUME Carries(x), th[x].phase \in Completing, NEW s \in Sectors \ th[x].left,
               th[x].pages[s[1]] # NoPage
        PROVE  \/ th[x].buf[s] = flash'[th[x].vps[s[1]]].data[s]
               \/ th[x].phase = "FLASH_READ" /\ s[1] \in th[x].need
    <3>1. s[1] \in SubPages /\ th[x].kind = "write" /\ th[x].phase \in Loading
      BY <2>2, SectorParts DEF Carries, Unissued, Completing, Loading
    <3>2. s[1] \in th[x].fixed
      <4>1. HandlerOK(x)
        BY DEF Safe, IInv
      <4>2. QED BY <2>2, <3>1, <4>1 DEF HandlerOK, WriteState, Completing
    <3>3. Settled(th[x].vps[s[1]])
      BY <2>2, <3>1, <3>2 DEF PageInv, PageOK, WriterPlaces
    <3>4. \/ th[x].buf[s] = flash[th[x].vps[s[1]]].data[s]
          \/ th[x].phase = "FLASH_READ" /\ s[1] \in th[x].need
      BY <2>1, <2>2 DEF WriterData
    <3>5. QED BY <3>3, <3>4
  <2>3. ASSUME Unissued(x), NEW sp \in SubPages, th[x].pages[sp] # NoPage
        PROVE  map'[th[x].pages[sp]][sp] = th[x].seq
    BY <2>1, <2>3 DEF WriterData
  <2>4. QED BY <2>1, <2>2, <2>3 DEF WriterData
<1>3. QED BY <1>1, <1>2 DEF DataInv

-----------------------------------------------------------------------------
(***************************************************************************)
(* Steps that move no data: the write buffer, the mapping table and the    *)
(* data on flash stay, and so does what thread t carries.                  *)
(***************************************************************************)
SameStores == wb' = wb /\ map' = map /\ \A v \in Vps : flash'[v].data = flash[v].data

SameCarried(t) ==
    \A p \in Lpns, s \in Sectors :
        /\ HoldsSector(t, p, s)' <=> HoldsSector(t, p, s)
        /\ AtPlace(t, p, s[1])' <=> AtPlace(t, p, s[1])
        /\ FreshWriter(t, p, s)' <=> FreshWriter(t, p, s)
        /\ HoldsSector(t, p, s) \/ AtPlace(t, p, s[1]) => th'[t].buf[s] = th[t].buf[s]
        /\ HoldsSector(t, p, s) \/ FreshWriter(t, p, s) => th'[t].seq = th[t].seq

LEMMA QuietContent ==
  ASSUME Safe, NEW t \in Threads, \A x \in Threads \ {t} : th'[x] = th[x], SameStores, SameCarried(t)
  PROVE  \A n, v : \A p \in Lpns, s \in Sectors :
            /\ ContentBefore(n, p, s, v) => ContentBefore(n, p, s, v)'
            /\ Expect(n, p, s, v) => Expect(n, p, s, v)'
<1> SUFFICES ASSUME NEW n, NEW v, NEW p \in Lpns, NEW s \in Sectors
             PROVE  /\ ContentBefore(n, p, s, v) => ContentBefore(n, p, s, v)'
                    /\ Expect(n, p, s, v) => Expect(n, p, s, v)'
  OBVIOUS
<1>1. ASSUME NEW x \in Threads
      PROVE  /\ HoldsSector(x, p, s)' <=> HoldsSector(x, p, s)
             /\ AtPlace(x, p, s[1])' <=> AtPlace(x, p, s[1])
             /\ FreshWriter(x, p, s)' <=> FreshWriter(x, p, s)
             /\ HoldsSector(x, p, s) \/ AtPlace(x, p, s[1]) => th'[x].buf[s] = th[x].buf[s]
             /\ HoldsSector(x, p, s) \/ FreshWriter(x, p, s) => th'[x].seq = th[x].seq
  <2>1. CASE x = t
    BY <2>1 DEF SameCarried
  <2>2. CASE x # t
    BY <2>2, SameRecordSame
  <2>3. QED BY <2>1, <2>2
<1>2. flash'[map'[p][s[1]]].data[s] = flash[map[p][s[1]]].data[s]
  <2>1. map[p][s[1]] \in Vps
    BY SectorParts DEF Safe, Typed, WorldOK
  <2>2. QED BY <2>1 DEF SameStores
<1>3. ASSUME NEW w, StoredIs(p, s, w) PROVE StoredIs(p, s, w)'
  BY <1>1, <1>2, <1>3, StoredStays
<1>4. ASSUME NEW m, NEW w, ContentBefore(m, p, s, w) PROVE ContentBefore(m, p, s, w)'
  <2>1. StoredIs(p, s, w) => StoredIs(p, s, w)'
    BY <1>3
  <2>2. \A x \in Threads : HoldsSector(x, p, s)' <=> HoldsSector(x, p, s)
    BY <1>1
  <2>3. \A x \in Threads : HoldsSector(x, p, s) =>
                th'[x].seq = th[x].seq /\ th'[x].buf[s] = th[x].buf[s]
    BY <1>1
  <2>4. QED BY <1>4, <2>1, <2>2, <2>3, ContentBeforeStays
<1>5. ASSUME NEW w, Content(p, s, w) PROVE Content(p, s, w)'
  <2>1. ContentBefore(Later, p, s, w) => ContentBefore(Later, p, s, w)'
    BY <1>4
  <2>2. wb' = wb
    BY DEF SameStores
  <2>3. QED BY <1>5, <2>1, <2>2, ContentStays
<1>6. ASSUME Expect(n, p, s, v) PROVE Expect(n, p, s, v)'
  <2>1. Content(p, s, v) => Content(p, s, v)'
    BY <1>5
  <2>2. \A x \in Threads : FreshWriter(x, p, s)' <=> FreshWriter(x, p, s)
    BY <1>1
  <2>3. \A x \in Threads : FreshWriter(x, p, s) => th'[x].seq = th[x].seq
    BY <1>1
  <2>4. QED BY <1>6, <2>1, <2>2, <2>3, ExpectStays
<1>7. QED BY <1>4, <1>6

LEMMA DataQuiet ==
  ASSUME Safe, PageInv, DataInv, NEW t \in Threads, \A x \in Threads \ {t} : th'[x] = th[x],
         SameStores, SameCarried(t), disk' = disk, ReaderData(t)', WriterData(t)'
  PROVE  DataInv'
<1>1. \A n, v : \A p \in Lpns, s \in Sectors :
            /\ ContentBefore(n, p, s, v) => ContentBefore(n, p, s, v)'
            /\ Expect(n, p, s, v) => Expect(n, p, s, v)'
  BY QuietContent
<1>2. \A x \in Threads : th[x].lpn \in Lpns
  BY WorkTyped DEF Safe, Typed
<1>3. ASSUME NEW x \in Threads \ {t}, NEW s \in Sectors, NEW v,
             Waiting(x) /\ ContentBefore(th[x].seq, th[x].lpn, s, v)
      PROVE  ContentBefore(th[x].seq, th[x].lpn, s, v)'
  <2> PICK n : n = th[x].seq
    OBVIOUS
  <2>1. PICK p \in Lpns : p = th[x].lpn
    BY <1>2
  <2>2. ContentBefore(n, p, s, v)' /\ th'[x].seq = n /\ th'[x].lpn = p
    BY <1>1, <1>3, <2>1
  <2>3. QED BY <2>2
<1>4. ASSUME NEW x \in Threads \ {t}, NEW s \in Sectors, NEW v,
             FreshReader(x) /\ Expect(th[x].seq, th[x].lpn, s, v)
      PROVE  Expect(th[x].seq, th[x].lpn, s, v)'
  <2> PICK n : n = th[x].seq
    OBVIOUS
  <2>1. PICK p \in Lpns : p = th[x].lpn
    BY <1>2
  <2>2. Expect(n, p, s, v)' /\ th'[x].seq = n /\ th'[x].lpn = p
    BY <1>1, <1>4, <2>1
  <2>3. QED BY <2>2
<1>5. \A v : Settled(v) => flash'[v].data = flash[v].data
  BY SettledVps DEF SettledAre, SameStores
<1>6. DiskIs'
  <2>1. ASSUME NEW p \in Lpns, NEW s \in Sectors PROVE Expect(Later, p, s, disk[p][s])'
    <3>1. PICK v : v = disk[p][s]
      OBVIOUS
    <3>2. Expect(Later, p, s, v)' /\ disk'[p][s] = v
      BY <1>1, <3>1 DEF DataInv, DiskIs
    <3>3. QED BY <3>2
  <2>2. QED BY <2>1 DEF DiskIs
<1>7. OwnersAre'
  BY DEF DataInv, OwnersAre, Buffered, SameStores
<1>8. map' = map
  BY DEF SameStores
<1>9. QED BY <1>3, <1>4, <1>5, <1>6, <1>7, <1>8, DataElsewhere

\* A thread that is not writing carries nothing.
LEMMA ReaderCarriesNothing ==
  ASSUME NEW t, th[t].kind # "write", th'[t].kind # "write"
  PROVE  /\ SameCarried(t)
         /\ (Fresh(t)' => th'[t].left = th'[t].sectors) => WriterData(t)'
<1>1. ~Carries(t) /\ ~Unissued(t) /\ ~Carries(t)' /\ ~Unissued(t)'
  BY DEF Carries, Unissued
<1>2. QED BY <1>1 DEF SameCarried, HoldsSector, AtPlace, FreshWriter, WriterData

-----------------------------------------------------------------------------
(***************************************************************************)
(* Every command has the same user (eventq_get, DEFAULT_USER_ID).          *)
(***************************************************************************)
OneUser == \A u, w \in Users : u = w

\* The current thread, if it is fresh, is the first that has not run.
LEMMA FirstFresh ==
  ASSUME Safe, NEW t \in Threads, Current(t), NEW x \in Threads, Fresh(x)
  PROVE  th[t].seq <= th[x].seq
  BY DEF Current, Safe, SchedInv, FreshLast, ToRun

LEMMA CarriersAhead ==
  ASSUME Safe, NEW t \in Threads, Fresh(t), NEW x \in Threads, Live(x), ~Fresh(x)
  PROVE  th[x].seq < th[t].seq
<1>1. Live(t) /\ th[x].seq # th[t].seq /\ th[x].seq \in Nat /\ th[t].seq \in Nat
  BY Positions DEF Fresh, Safe, SchedInv
<1>2. ~(th[t].seq < th[x].seq)
  BY <1>1 DEF Safe, SchedInv, FreshLast, Ahead
<1>3. QED BY <1>1, <1>2

LEMMA HolderIs ==
  ASSUME NEW t, NEW p \in Lpns, NEW s \in Sectors, HoldsSector(t, p, s) \/ AtPlace(t, p, s[1])
  PROVE  /\ Live(t) /\ ~Fresh(t) /\ Carries(t) /\ th[t].kind = "write" /\ th[t].phase # "BUFFER"
         /\ p \in PagesOf(th[t])
<1>1. Carries(t) /\ th[t].pages[s[1]] = p /\ s[1] \in SubPages
  BY SectorParts DEF HoldsSector, AtPlace, Carries
<1>2. QED BY <1>1 DEF PagesOf, Carries, Unissued, Live, Fresh

LEMMA SeqBelow ==
  ASSUME Safe, NEW t \in Threads, Live(t)
  PROVE  th[t].seq \in Nat /\ th[t].seq < Later /\ th[t].seq <= next /\ next \in Nat
  BY MaxCmdsNat DEF Safe, SchedInv, Numbered, Later

\* With one user, a pull finds what is there.
LEMMA PulledIs ==
  ASSUME OneUser, Safe, OwnersAre, NEW p \in Lpns, NEW s \in Sectors, NEW uid \in Users
  PROVE  Buffer!Pulled(p, s, uid) = wb[p][s].val
<1>1. ASSUME NEW x \in Parts, Buffer!InBuffer(p, <<s[1], x>>) PROVE wb[p][<<s[1], x>>].uid = uid
  <2>1. <<s[1], x>> \in Sectors
    BY SectorParts DEF Sectors
  <2>2. wb[p][<<s[1], x>>].uid \in Users
    BY <1>1, <2>1 DEF OwnersAre, Buffered, Buffer!InBuffer
  <2>3. QED BY <2>2 DEF OneUser
<1>2. Buffer!OwnersOf(p, s[1]) \subseteq {uid}
  BY <1>1 DEF Buffer!OwnersOf
<1>3. QED BY <1>2 DEF Buffer!Pulled

\* The first sub-page of a segment.
LEMMA SegmentOf ==
  ASSUME NEW r, NEW vps, r.left \subseteq Sectors, NEW s \in r.left
  PROVE  \E i \in Segments(r, vps) : vps[i] = vps[s[1]]
<1> DEFINE W == {x \in SubPages : vps[x] = vps[s[1]] /\ \E y \in r.left : y[1] = x}
<1>1. s[1] \in W /\ W \subseteq Nat
  BY SectorParts, ZeroIsSubPage
<1>2. PICK n \in W : \A m \in W : ~(<<m, n>> \in OpToRel(<, Nat))
  BY <1>1, NatLessThanWellFounded, WFMin, Zenon
<1>3. \A m \in W : n <= m
  <2> HIDE DEF W
  <2>1. \A m \in W : ~(m < n)
    BY <1>1, <1>2 DEF OpToRel
  <2>2. QED BY <1>1, <2>1
<1>4. ASSUME NEW y \in r.left, vps[y[1]] = vps[n] PROVE n <= y[1]
  <2>1. y[1] \in W
    BY <1>1, <1>4, SectorParts
  <2>2. QED BY <1>3, <2>1
<1>5. n \in Segments(r, vps)
  BY <1>4 DEF Segments
<1>6. QED BY <1>5

-----------------------------------------------------------------------------
(***************************************************************************)
(* The reader.                                                             *)
(***************************************************************************)
\* What a reader that has not run expects, it finds.
LEMMA FreshReaderFinds ==
  ASSUME Safe, NEW t \in Threads, Current(t), Fresh(t), NEW p \in Lpns, NEW s \in Sectors, NEW v,
         Expect(th[t].seq, p, s, v)
  PROVE  /\ Buffered(p, s) => v = wb[p][s].val
         /\ ~Buffered(p, s) => ContentBefore(th[t].seq, p, s, v)
<1>1. NoWriter(th[t].seq, p, s)
  <2>1. SUFFICES ASSUME NEW x \in Threads, FreshWriter(x, p, s) PROVE ~(th[x].seq < th[t].seq)
    BY DEF NoWriter
  <2>2. Fresh(x) /\ Live(x) /\ Live(t)
    BY <2>1 DEF FreshWriter, Fresh, Live
  <2>3. th[t].seq <= th[x].seq /\ th[t].seq \in Nat /\ th[x].seq \in Nat
    BY <2>2, FirstFresh, SeqBelow
  <2>4. QED BY <2>3
<1>2. Content(p, s, v)
  BY <1>1 DEF Expect
<1>3. ASSUME ContentBefore(Later, p, s, v) PROVE ContentBefore(th[t].seq, p, s, v)
  <2>1. ASSUME NEW x \in Threads, HoldsSector(x, p, s) PROVE th[x].seq < th[t].seq /\ th[x].seq < Later
    BY <2>1, HolderIs, CarriersAhead, SeqBelow
  <2>2. \A x \in Threads : LastHolder(x, th[t].seq, p, s) => LastHolder(x, Later, p, s)
    BY <2>1 DEF LastHolder
  <2>3. NoHolder(th[t].seq, p, s) => NoHolder(Later, p, s)
    BY <2>1 DEF NoHolder
  <2>4. QED BY <1>3, <2>2, <2>3 DEF ContentBefore
<1>4. QED BY <1>2, <1>3 DEF Content

\* A thread that has the lock of a page has nobody who carries it ahead.
LEMMA LockedAlone ==
  ASSUME Safe, LockInv, NEW t \in Threads, NEW p \in Lpns, Asks(t, p), th[t].phase # "LOCK",
         NEW x \in Threads \ {t}, Carries(x), p \in PagesOf(th[x])
  PROVE  ~Ahead(x, t) /\ ~Unissued(x)
<1>1. held[p][t] \in {1, 3}
  BY DEF LockInv, OwnLocks
<1>2. ~Ahead(x, t)
  BY <1>1 DEF LockInv, PairLocks, Bars
<1>3. ASSUME Unissued(x) PROVE FALSE
  <2>1. Asks(x, p) /\ th[x].phase # "LOCK" /\ th[x].kind = "write"
    BY <1>3 DEF Asks, Unissued
  <2>2. held[p][x] = 3
    BY <2>1 DEF LockInv, OwnLocks
  <2>3. QED BY <1>1, <2>2 DEF LockInv, PairLocks
<1>4. QED BY <1>2, <1>3

\* A reader that has the lock of its page finds the data on flash.
LEMMA LockedReaderFinds ==
  ASSUME Safe, LockInv, NEW t \in Threads, th[t].kind = "read", th[t].phase = "PMT_LOAD",
         NEW s \in Sectors, NEW v, ContentBefore(th[t].seq, th[t].lpn, s, v)
  PROVE  v = flash[map[th[t].lpn][s[1]]].data[s]
<1>1. th[t].lpn \in Lpns /\ Asks(t, th[t].lpn) /\ Live(t)
  BY WorkTyped DEF Safe, Typed, Asks, Live
<1>2. PICK p \in Lpns : p = th[t].lpn
  BY <1>1
<1>3. NoHolder(th[t].seq, p, s)
  <2>1. SUFFICES ASSUME NEW x \in Threads, HoldsSector(x, p, s), th[x].seq < th[t].seq PROVE FALSE
    BY DEF NoHolder
  <2>2. Live(x) /\ Carries(x) /\ p \in PagesOf(th[x]) /\ x # t
    BY <2>1, HolderIs
  <2>3. Ahead(x, t)
    BY <1>1, <2>1, <2>2 DEF Ahead
  <2>4. QED BY <1>1, <1>2, <2>2, <2>3, LockedAlone
<1>4. \A x \in Threads : ~AtPlace(x, p, s[1])
  <2>1. SUFFICES ASSUME NEW x \in Threads, AtPlace(x, p, s[1]) PROVE FALSE
    OBVIOUS
  <2>2. Carries(x) /\ p \in PagesOf(th[x]) /\ x # t /\ Unissued(x)
    BY <2>1, HolderIs DEF AtPlace
  <2>3. QED BY <1>1, <1>2, <2>2, LockedAlone
<1>5. QED BY <1>2, <1>3, <1>4 DEF ContentBefore, StoredIs

-----------------------------------------------------------------------------
\* The steps of a reader move no data.
LEMMA ReaderStores ==
  ASSUME Safe, NEW t \in Threads, Read(t)
  PROVE  /\ SameStores /\ disk' = disk /\ SameCarried(t) /\ Kept(t) /\ Current(t)
         /\ th[t].kind = "read" /\ th'[t].kind = "read"
         /\ ~Fresh(t)' => WriterData(t)'
         /\ \A n, v : \A p \in Lpns, s \in Sectors :
              /\ ContentBefore(n, p, s, v) => ContentBefore(n, p, s, v)'
              /\ Expect(n, p, s, v) => Expect(n, p, s, v)'
<1>1. Shape
  BY DEF Safe
<1>2. Kept(t) /\ Current(t) /\ disk' = disk
  BY <1>1, HandlerSteps, StepsKeep
<1>3. th[t].kind = "read" /\ th'[t].kind = "read"
  BY <1>2 DEF Read, ReadBuffer, ReadLock, LoadForRead, MakeSegments, ReadFlash, Runs, Kept
<1>4. wb' = wb /\ map' = map /\ flash' = flash
  <2>1. CASE ReadBuffer(t)
    BY <1>1, <2>1, ReadBufferEffect
  <2>2. CASE ReadLock(t)
    BY <1>1, <2>2, ReadLockEffect
  <2>3. CASE LoadForRead(t)
    BY <1>1, <2>3, LoadForReadEffect
  <2>4. CASE MakeSegments(t)
    BY <1>1, <2>4, MakeSegmentsEffect
  <2>5. CASE ReadFlash(t)
    BY <1>1, <2>5, ReadFlashEffect
  <2>6. QED BY <2>1, <2>2, <2>3, <2>4, <2>5 DEF Read
<1>5. SameStores
  BY <1>4 DEF SameStores
<1>6. SameCarried(t) /\ (~Fresh(t)' => WriterData(t)')
  BY <1>3, ReaderCarriesNothing
<1>7. \A x \in Threads \ {t} : th'[x] = th[x]
  BY <1>2 DEF Kept
<1>8. QED BY <1>2, <1>3, <1>5, <1>6, <1>7, QuietContent

\* It is enough to follow what the reader has found.
LEMMA DataRead ==
  ASSUME Safe, PageInv, DataInv, NEW t \in Threads, Read(t), ReaderData(t)', ~Fresh(t)'
  PROVE  DataInv'
<1>1. SameStores /\ disk' = disk /\ SameCarried(t) /\ Kept(t) /\ WriterData(t)'
  BY ReaderStores
<1>2. \A x \in Threads \ {t} : th'[x] = th[x]
  BY <1>1 DEF Kept
<1>3. QED BY <1>1, <1>2, DataQuiet

LEMMA DataReadBuffer ==
  ASSUME OneUser, Safe, PageInv, DataInv, NEW t \in Threads, ReadBuffer(t) PROVE DataInv'
<1>1. Read(t) /\ Shape
  BY DEF Read, Safe
<1>2. /\ Kept(t) /\ Current(t) /\ th[t].kind = "read" /\ th'[t].kind = "read"
      /\ \A n, v : \A p \in Lpns, s \in Sectors : ContentBefore(n, p, s, v) => ContentBefore(n, p, s, v)'
  BY <1>1, ReaderStores
<1>3. /\ th[t].phase = "BUFFER"
      /\ Goes(t, IF FoundBy(t) = th[t].sectors THEN "SATA" ELSE "LOCK")
      /\ th'[t].left = th[t].sectors \ FoundBy(t)
      /\ th'[t].buf = [s \in Sectors |-> IF s \in FoundBy(t)
                                           THEN Buffer!Pulled(th[t].lpn, s, th[t].uid) ELSE 0]
  BY <1>1, ReadBufferEffect DEF Runs
<1>4. /\ th'[t].sectors = th[t].sectors /\ th'[t].want = th[t].want /\ th'[t].seq = th[t].seq
      /\ th'[t].lpn = th[t].lpn /\ th[t].sectors \subseteq Sectors
      /\ th[t].lpn \in Lpns /\ th[t].uid \in Users
  BY <1>2, WorkTyped DEF Kept, Safe, Typed
<1>5. Fresh(t) /\ OwnersAre
  BY <1>2, <1>3 DEF Fresh, Live, DataInv
<1>6. PICK n, p : n = th[t].seq /\ p = th[t].lpn
  OBVIOUS
<1>7. ASSUME NEW s \in th[t].sectors
      PROVE  /\ s \in FoundBy(t) => th'[t].buf[s] = th'[t].want[s]
             /\ s \notin FoundBy(t) => ContentBefore(th[t].seq, th[t].lpn, s, th[t].want[s])'
  <2>1. s \in Sectors /\ Buffer!Pulled(th[t].lpn, s, th[t].uid) = wb[th[t].lpn][s].val
    BY <1>4, <1>5, PulledIs
  <2>2. Expect(th[t].seq, th[t].lpn, s, th[t].want[s])
    BY <1>2, <1>3, <2>1 DEF DataInv, ReaderData
  <2>3. PICK v : v = th[t].want[s]
    OBVIOUS
  <2>4. /\ Buffered(p, s) => v = wb[p][s].val
        /\ ~Buffered(p, s) => ContentBefore(n, p, s, v)
    BY <1>2, <1>4, <1>5, <1>6, <2>1, <2>2, <2>3, FreshReaderFinds
  <2>5. s \in FoundBy(t) <=> Buffered(p, s)
    BY <1>6, <2>1 DEF FoundBy, Buffered
  <2>6. s \in FoundBy(t) => th'[t].buf[s] = th'[t].want[s]
    BY <1>3, <1>4, <1>6, <2>1, <2>3, <2>4, <2>5
  <2>7. ASSUME s \notin FoundBy(t) PROVE ContentBefore(th[t].seq, th[t].lpn, s, th[t].want[s])'
    <3>1. ContentBefore(n, p, s, v)'
      BY <1>2, <1>4, <1>6, <2>1, <2>4, <2>5, <2>7
    <3>2. th'[t].seq = n /\ th'[t].lpn = p /\ th'[t].want[s] = v
      BY <1>4, <1>6, <2>3
    <3>3. QED BY <3>1, <3>2
  <2>8. QED BY <2>6, <2>7
<1>8. ReaderData(t)'
  <2>1. CASE FoundBy(t) = th[t].sectors
    <3>1. th'[t].phase = "SATA"
      BY <1>3, <2>1 DEF Goes
    <3>2. \A s \in th'[t].sectors : th'[t].buf[s] = th'[t].want[s]
      BY <1>4, <1>7, <2>1
    <3>3. QED BY <3>1, <3>2 DEF ReaderData
  <2>2. CASE FoundBy(t) # th[t].sectors
    <3>1. th'[t].phase = "LOCK"
      BY <1>3, <2>2 DEF Goes
    <3>2. \A s \in th'[t].left : ContentBefore(th[t].seq, th[t].lpn, s, th[t].want[s])'
      BY <1>3, <1>7
    <3>3. \A s \in th'[t].sectors \ th'[t].left : th'[t].buf[s] = th'[t].want[s]
      BY <1>3, <1>4, <1>7
    <3>4. QED BY <3>1, <3>2, <3>3 DEF ReaderData
  <2>3. QED BY <2>1, <2>2
<1>9. ~Fresh(t)'
  BY <1>3 DEF Fresh, Goes
<1>10. QED BY <1>1, <1>8, <1>9, DataRead

\* While it waits for its lock or its mapping page, a reader keeps what it has.
LEMMA DataReadWaits ==
  ASSUME Safe, PageInv, DataInv, NEW t \in Threads, ReadLock(t) \/ LoadForRead(t) PROVE DataInv'
<1>1. Read(t) /\ Shape
  BY DEF Read, Safe
<1>2. /\ Kept(t) /\ th[t].kind = "read" /\ th'[t].kind = "read"
      /\ \A n, v : \A p \in Lpns, s \in Sectors : ContentBefore(n, p, s, v) => ContentBefore(n, p, s, v)'
  BY <1>1, ReaderStores
<1>3. /\ th[t].phase \in {"LOCK", "PMT_LOAD"} /\ th'[t].phase \in {"LOCK", "PMT_LOAD"}
      /\ Works(t, th[t])
  <2>1. CASE ReadLock(t)
    <3>1. /\ th[t].phase = "LOCK" /\ Works(t, th[t])
          /\ Goes(t, "PMT_LOAD") \/ Sleeps(t, {"lock"})
      BY <1>1, <2>1, ReadLockEffect DEF Runs
    <3>2. QED BY <3>1 DEF Goes, Sleeps
  <2>2. CASE LoadForRead(t)
    BY <1>1, <2>2, LoadForReadEffect DEF Runs, Sleeps
  <2>3. QED BY <2>1, <2>2
<1>4. /\ th'[t].sectors = th[t].sectors /\ th'[t].want = th[t].want /\ th'[t].seq = th[t].seq
      /\ th'[t].lpn = th[t].lpn /\ th[t].lpn \in Lpns /\ th'[t].left = th[t].left /\ th'[t].buf = th[t].buf
      /\ th[t].left \subseteq Sectors
  BY <1>2, <1>3, WorkTyped DEF Kept, Works, Safe, Typed, WorkOK
<1>5. ASSUME NEW s \in th'[t].left PROVE ContentBefore(th[t].seq, th[t].lpn, s, th[t].want[s])'
  <2>1. ContentBefore(th[t].seq, th[t].lpn, s, th[t].want[s]) /\ s \in Sectors
    BY <1>2, <1>3, <1>4 DEF DataInv, ReaderData
  <2>2. PICK n, p, v : n = th[t].seq /\ p = th[t].lpn /\ v = th[t].want[s]
    OBVIOUS
  <2>3. ContentBefore(n, p, s, v)'
    BY <1>2, <1>4, <2>1, <2>2
  <2>4. th'[t].seq = n /\ th'[t].lpn = p /\ th'[t].want[s] = v
    BY <1>4, <2>2
  <2>5. QED BY <2>3, <2>4
<1>6. \A s \in th'[t].sectors \ th'[t].left : th'[t].buf[s] = th'[t].want[s]
  BY <1>2, <1>3, <1>4 DEF DataInv, ReaderData
<1>7. ReaderData(t)' /\ ~Fresh(t)'
  BY <1>3, <1>5, <1>6 DEF ReaderData, Fresh
<1>8. QED BY <1>1, <1>7, DataRead

LEMMA DataMakeSegments ==
  ASSUME Safe, LockInv, PageInv, DataInv, NEW t \in Threads, MakeSegments(t) PROVE DataInv'
<1>1. Read(t) /\ Shape
  BY DEF Read, Safe
<1>2. Kept(t) /\ th[t].kind = "read" /\ th'[t].kind = "read"
  BY <1>1, ReaderStores
<1>3. /\ th[t].phase = "PMT_LOAD" /\ Goes(t, "FLASH_READ") /\ flash' = flash
      /\ th'[t].vps = map[th[t].lpn] /\ th'[t].need = Segments(th[t], map[th[t].lpn])
      /\ th'[t].left = th[t].left /\ th'[t].buf = th[t].buf
  BY <1>1, MakeSegmentsEffect DEF Runs
<1>4. /\ th'[t].sectors = th[t].sectors /\ th'[t].want = th[t].want /\ th[t].left \subseteq Sectors
      /\ th'[t].phase = "FLASH_READ"
  BY <1>2, <1>3, WorkTyped DEF Kept, Goes, Safe, Typed, WorkOK
<1>5. ASSUME NEW s \in th'[t].left PROVE flash'[th'[t].vps[s[1]]].data[s] = th'[t].want[s]
  <2>1. s \in Sectors /\ ContentBefore(th[t].seq, th[t].lpn, s, th[t].want[s])
    BY <1>2, <1>3, <1>4 DEF DataInv, ReaderData
  <2>2. th[t].want[s] = flash[map[th[t].lpn][s[1]]].data[s]
    BY <1>2, <1>3, <2>1, LockedReaderFinds
  <2>3. QED BY <1>3, <1>4, <2>2
<1>6. ASSUME NEW s \in th'[t].sectors
      PROVE  \/ th'[t].buf[s] = th'[t].want[s]
             \/ s \in th'[t].left /\ \E i \in th'[t].need : th'[t].vps[i] = th'[t].vps[s[1]]
  <2>1. CASE s \in th[t].left
    BY <1>3, <1>4, <2>1, SegmentOf
  <2>2. CASE s \notin th[t].left
    BY <1>2, <1>3, <1>4, <2>2 DEF DataInv, ReaderData
  <2>3. QED BY <2>1, <2>2
<1>7. ReaderData(t)' /\ ~Fresh(t)'
  BY <1>4, <1>5, <1>6 DEF ReaderData, Fresh
<1>8. QED BY <1>1, <1>7, DataRead

LEMMA DataReadFlash ==
  ASSUME OneUser, Safe, PageInv, DataInv, NEW t \in Threads, ReadFlash(t) PROVE DataInv'
<1>1. Read(t) /\ Shape
  BY DEF Read, Safe
<1>2. Kept(t) /\ th[t].kind = "read" /\ th'[t].kind = "read"
  BY <1>1, ReaderStores
<1>3. /\ th[t].phase = "FLASH_READ" /\ flash' = flash
      /\ ReadLoop(t, ReadNow(t), Filled(t), "SATA")
  BY <1>1, ReadFlashEffect DEF Runs
<1>4. /\ Loops(t, ReadNow(t), Filled(t)) /\ th'[t].phase \in {"FLASH_READ", "SATA"}
      /\ th'[t].need = {} \/ th'[t].phase = "FLASH_READ"
  <2>1. /\ Loops(t, ReadNow(t), Filled(t))
        /\ th'[t].need # {} => \E signals : Sleeps(t, signals)
    BY <1>1, <1>3, ReadLoopFields
  <2>2. th'[t].phase \in {"FLASH_READ", "SATA"}
    BY <1>1, <1>3, LoopPhase
  <2>3. QED BY <1>3, <2>1, <2>2 DEF Sleeps
<1>5. /\ th'[t].sectors = th[t].sectors /\ th'[t].want = th[t].want /\ th[t].left \subseteq Sectors
      /\ th[t].sectors \subseteq Sectors /\ th[t].uid \in Users /\ th[t].vps \in [SubPages -> Vps]
      /\ th'[t].left = th[t].left /\ th'[t].vps = th[t].vps /\ th'[t].buf = Filled(t)
      /\ th'[t].need = th[t].need \ (ReadNow(t) \cup Ended(th[t]))
  BY <1>2, <1>4, WorkTyped DEF Kept, Safe, Typed, WorkOK, Loops
<1>6. /\ \A s \in th[t].left : flash[th[t].vps[s[1]]].data[s] = th[t].want[s]
      /\ \A s \in th[t].sectors :
            \/ th[t].buf[s] = th[t].want[s]
            \/ s \in th[t].left /\ \E i \in th[t].need : th[t].vps[i] = th[t].vps[s[1]]
  BY <1>2, <1>3 DEF DataInv, ReaderData
<1>7. ASSUME NEW s \in th[t].left PROVE ReadData(t, s[1])[s] = th[t].want[s]
  <2>1. th[t].vps[s[1]] \in Vps
    BY <1>5, SectorParts
  <2>2. flash[th[t].vps[s[1]]].uid \in Users
    BY <2>1, BankType DEF Safe, Typed
  <2>3. Authenticated(th[t], s[1])
    BY <1>5, <2>2 DEF OneUser, Authenticated
  <2>4. QED BY <1>6, <2>3 DEF ReadData
<1>8. ASSUME NEW s \in th[t].sectors
      PROVE  \/ th'[t].buf[s] = th[t].want[s]
             \/ s \in th[t].left /\ \E i \in th'[t].need : th[t].vps[i] = th[t].vps[s[1]]
  <2>1. CASE s \in th[t].left /\ \E i \in ReadNow(t) \cup Ended(th[t]) : th[t].vps[i] = th[t].vps[s[1]]
    <3>1. Filled(t)[s] = ReadData(t, s[1])[s]
      BY <1>5, <2>1 DEF Filled
    <3>2. QED BY <1>5, <1>7, <2>1, <3>1
  <2>2. CASE ~(s \in th[t].left /\ \E i \in ReadNow(t) \cup Ended(th[t]) : th[t].vps[i] = th[t].vps[s[1]])
    <3>1. Filled(t)[s] = th[t].buf[s]
      BY <1>5, <2>2 DEF Filled
    <3>2. QED BY <1>5, <1>6, <2>2, <3>1
  <2>3. QED BY <2>1, <2>2
<1>9. ReaderData(t)'
  <2>1. CASE th'[t].phase = "FLASH_READ"
    BY <1>3, <1>5, <1>6, <1>8, <2>1 DEF ReaderData
  <2>2. CASE th'[t].phase = "SATA" /\ th'[t].need = {}
    BY <1>5, <1>8, <2>2 DEF ReaderData
  <2>3. QED BY <1>4, <2>1, <2>2
<1>10. ~Fresh(t)'
  BY <1>4 DEF Fresh
<1>11. QED BY <1>1, <1>9, <1>10, DataRead

LEMMA DataReader ==
  ASSUME OneUser, Safe, LockInv, PageInv, DataInv, NEW t \in Threads, Read(t) PROVE DataInv'
  BY DataReadBuffer, DataReadWaits, DataMakeSegments, DataReadFlash DEF Read

-----------------------------------------------------------------------------
(***************************************************************************)
(* The writer, while it waits, loads its mapping pages and completes its   *)
(* sub-pages: it keeps what it carries.                                    *)
(***************************************************************************)
CompletedOf(r) ==
    \A s \in Sectors \ r.left : r.pages[s[1]] # NoPage =>
        \/ r.buf[s] = flash[r.vps[s[1]]].data[s]
        \/ r.phase = "FLASH_READ" /\ s[1] \in r.need

LEMMA DataWriteQuiet ==
  ASSUME Safe, PageInv, DataInv, NEW t \in Threads, Write(t), SameStores,
         th[t].phase # "BUFFER", th'[t].left = th[t].left, th'[t].pages = th[t].pages,
         \A s \in th[t].left : th'[t].buf[s] = th[t].buf[s],
         Unissued(t) => th'[t].buf = th[t].buf,
         Carries(t)' <=> Carries(t), Unissued(t)' <=> Unissued(t),
         Carries(t) /\ th'[t].phase \in Completing => CompletedOf(th[t])'
  PROVE  DataInv'
<1>1. Kept(t) /\ disk' = disk /\ th'[t].phase # "BUFFER" /\ th[t].kind = "write"
  <2>1. Shape /\ Runs(t, "write", th[t].phase)
    BY DEF Safe, Write, WriteWholePage, PushPartialPage, FlushAndPush, WriteLock, WritePmtLoad,
           CompleteSubPages, AllocatePage, WaitForBank, UpdatePmt, IssueWrite, EndWrite, Runs
  <2>2. Kept(t) /\ disk' = disk /\ Steps(t)
    BY <2>1, HandlerSteps, StepsKeep
  <2>3. QED BY <2>1, <2>2 DEF Steps, Goes, Sleeps, Runs
<1>2. /\ th'[t].kind = th[t].kind /\ th'[t].seq = th[t].seq /\ \A x \in Threads \ {t} : th'[x] = th[x]
  BY <1>1 DEF Kept
<1>3. SameCarried(t)
  BY <1>1, <1>2 DEF SameCarried, HoldsSector, AtPlace, FreshWriter
<1>4. ReaderData(t)'
  BY <1>1, <1>2 DEF ReaderData
<1>5. WriterData(t)'
  <2>1. ~Fresh(t)'
    BY <1>1 DEF Fresh
  <2>2. Carries(t)' => \A sp \in SubPages : th'[t].pages[sp] # NoPage => \E s \in th'[t].left : s[1] = sp
    BY DEF DataInv, WriterData
  <2>3. Carries(t)' /\ th'[t].phase \in Completing => CompletedOf(th[t])'
    OBVIOUS
  <2>4. Unissued(t)' => \A sp \in SubPages : th'[t].pages[sp] # NoPage => map'[th'[t].pages[sp]][sp] = th'[t].seq
    BY <1>2 DEF DataInv, WriterData, SameStores
  <2>5. QED BY <2>1, <2>2, <2>3, <2>4 DEF WriterData, CompletedOf
<1>6. QED BY <1>1, <1>2, <1>3, <1>4, <1>5, DataQuiet

\* A step that leaves the record's work alone.
LEMMA DataWriteSame ==
  ASSUME Safe, PageInv, DataInv, NEW t \in Threads, Write(t), SameStores,
         th[t].phase # "BUFFER", Works(t, th[t]),
         Carries(t)' <=> Carries(t), Unissued(t)' <=> Unissued(t),
         th'[t].phase \in Completing =>
            th[t].phase \in Completing /\ (th[t].phase = "FLASH_READ" => th'[t].phase = "FLASH_READ")
  PROVE  DataInv'
<1>1. /\ th'[t].left = th[t].left /\ th'[t].pages = th[t].pages /\ th'[t].buf = th[t].buf
      /\ th'[t].vps = th[t].vps /\ th'[t].need = th[t].need
  BY DEF Works
<1>2. ASSUME Carries(t), th'[t].phase \in Completing PROVE CompletedOf(th[t])'
  <2>1. ASSUME NEW s \in Sectors \ th[t].left, th[t].pages[s[1]] # NoPage
        PROVE  \/ th'[t].buf[s] = flash'[th'[t].vps[s[1]]].data[s]
               \/ th'[t].phase = "FLASH_READ" /\ s[1] \in th'[t].need
    <3>1. \/ th[t].buf[s] = flash[th[t].vps[s[1]]].data[s]
          \/ th[t].phase = "FLASH_READ" /\ s[1] \in th[t].need
      BY <1>2, <2>1 DEF DataInv, WriterData
    <3>2. flash'[th[t].vps[s[1]]].data = flash[th[t].vps[s[1]]].data
      <4>1. th[t].vps[s[1]] \in Vps
        BY <2>1, SectorParts, WorkTyped DEF Safe, Typed, WorkOK
      <4>2. QED BY <4>1 DEF SameStores
    <3>3. QED BY <1>1, <1>2, <3>1, <3>2
  <2>2. QED BY <1>1, <2>1 DEF CompletedOf
<1>3. QED BY <1>1, <1>2, DataWriteQuiet

LEMMA DataWriteLock ==
  ASSUME Safe, PageInv, DataInv, NEW t \in Threads, WriteLock(t) PROVE DataInv'
<1>1. Write(t) /\ Shape
  BY DEF Write, Safe
<1>2. /\ th[t].kind = "write" /\ th[t].phase = "LOCK" /\ Works(t, th[t]) /\ SameStores
      /\ th'[t].phase \in {"LOCK", "PMT_LOAD"} /\ th'[t].kind = "write"
  <2>1. /\ Runs(t, "write", "LOCK") /\ Works(t, th[t]) /\ SameStores
        /\ Goes(t, "PMT_LOAD") \/ Sleeps(t, {"lock"})
    BY <1>1, WriteLockEffect DEF SameStores
  <2>2. QED BY <2>1 DEF Runs, Goes, Sleeps, Kept
<1>3. /\ Carries(t)' <=> Carries(t)
      /\ Unissued(t)' <=> Unissued(t)
  BY <1>2 DEF Carries, Unissued
<1>4. th'[t].phase \notin Completing
  BY <1>2 DEF Completing
<1>5. QED BY <1>1, <1>2, <1>3, <1>4, DataWriteSame

LEMMA DataWaitForBank ==
  ASSUME Safe, PageInv, DataInv, NEW t \in Threads, WaitForBank(t) \/ AllocatePage(t) PROVE DataInv'
<1>1. Write(t) /\ Shape
  BY DEF Write, Safe
<1>2. /\ th[t].kind = "write" /\ th[t].phase = "BANK" /\ Works(t, th[t]) /\ SameStores
      /\ th'[t].phase \in {"BANK", "PMT_UPDATE"} /\ th'[t].kind = "write"
  <2>1. CASE WaitForBank(t)
    <3>1. Runs(t, "write", "BANK") /\ Sleeps(t, Banks) /\ Works(t, th[t]) /\ SameStores
      BY <1>1, <2>1, WaitForBankEffect DEF SameStores
    <3>2. QED BY <3>1 DEF Runs, Sleeps, Kept
  <2>2. CASE AllocatePage(t)
    <3>1. /\ Runs(t, "write", "BANK") /\ Goes(t, "PMT_UPDATE") /\ Works(t, th[t]) /\ wb' = wb /\ map' = map
          /\ \E b \in idle :
              flash' = [flash EXCEPT ![th[t].seq].bank = b, ![th[t].seq].uid = th[t].uid]
      BY <1>1, <2>2, AllocatePageEffect
    <3>2. PICK b \in idle : flash' = [flash EXCEPT ![th[t].seq].bank = b, ![th[t].seq].uid = th[t].uid]
      BY <3>1
    <3>3. flash \in [Vps -> PageType]
      BY DEF Safe, Typed, WorldOK
    <3>4. \A v \in Vps : flash'[v].data = flash[v].data
      BY <3>2, <3>3 DEF PageType
    <3>5. QED BY <3>1, <3>4 DEF Runs, Goes, Kept, SameStores
  <2>3. QED BY <2>1, <2>2
<1>3. /\ Carries(t)' <=> Carries(t)
      /\ Unissued(t)' <=> Unissued(t)
  BY <1>2 DEF Carries, Unissued
<1>4. th[t].phase \in Completing
  BY <1>2 DEF Completing
<1>5. QED BY <1>1, <1>2, <1>3, <1>4, DataWriteSame

LEMMA DataIssueWaits ==
  ASSUME Safe, PageInv, DataInv, NEW t \in Threads, IssueWrite(t), FindsBusy(t) PROVE DataInv'
<1>1. Write(t) /\ Shape
  BY DEF Write, Safe
<1>2. /\ th[t].kind = "write" /\ th[t].phase = "FLASH_WRITE" /\ Works(t, th[t]) /\ SameStores
      /\ th'[t].phase = "FLASH_WRITE" /\ th'[t].kind = "write"
  <2>1. Runs(t, "write", "FLASH_WRITE") /\ wb' = wb /\ map' = map
    BY <1>1, IssueWriteEffect
  <2>2. QED BY <2>1 DEF Runs, FindsBusy, Sleeps, Kept, SameStores
<1>3. /\ Carries(t)' <=> Carries(t)
      /\ Unissued(t)' <=> Unissued(t)
  BY <1>2 DEF Carries, Unissued, Works
<1>4. th'[t].phase \notin Completing
  BY <1>2 DEF Completing
<1>5. QED BY <1>1, <1>2, <1>3, <1>4, DataWriteSame

LEMMA DataEndWrite ==
  ASSUME Safe, PageInv, DataInv, NEW t \in Threads, EndWrite(t) PROVE DataInv'
<1>1. Write(t) /\ Shape
  BY DEF Write, Safe
<1>2. /\ th[t].kind = "write" /\ th[t].phase = "FLASH_WRITE" /\ Works(t, th[t]) /\ SameStores
      /\ th'[t].phase \in {"FLASH_WRITE", "SATA"} /\ th'[t].kind = "write"
      /\ th[t].issued = {0} /\ th'[t].issued = {0}
  <2>1. Runs(t, "write", "FLASH_WRITE") /\ SameStores /\ Works(t, th[t]) /\ th[t].issued = {0}
        /\ (Goes(t, "SATA") \/ Sleeps(t, {BankOf(th[t], 0)}))
    BY <1>1, EndWriteEffect DEF SameStores
  <2>2. QED BY <2>1 DEF Runs, Goes, Sleeps, Kept, Works
<1>3. /\ Carries(t)' <=> Carries(t)
      /\ Unissued(t)' <=> Unissued(t)
  BY <1>2 DEF Carries, Unissued
<1>4. th'[t].phase \notin Completing
  BY <1>2 DEF Completing
<1>5. QED BY <1>1, <1>2, <1>3, <1>4, DataWriteSame

LEMMA DataWritePmtLoad ==
  ASSUME Safe, PageInv, DataInv, NEW t \in Threads, WritePmtLoad(t) PROVE DataInv'
<1>1. Write(t) /\ Shape
  BY DEF Write, Safe
<1>2. /\ th[t].kind = "write" /\ th[t].phase = "PMT_LOAD" /\ SameStores
      /\ th'[t].left = th[t].left /\ th'[t].buf = th[t].buf /\ th'[t].pages = th[t].pages
      /\ \/ th'[t].phase = "PMT_LOAD"
         \/ th'[t].phase = "FLASH_READ" /\ th'[t].need = Incomplete(th[t])
      /\ th'[t].kind = "write"
  <2>1. /\ Runs(t, "write", "PMT_LOAD") /\ SameStores
        /\ th'[t].left = th[t].left /\ th'[t].buf = th[t].buf /\ th'[t].pages = th[t].pages
        /\ \/ Goes(t, "FLASH_READ") /\ th'[t].need = Incomplete(th[t])
           \/ Sleeps(t, {"pmt"})
    BY <1>1, WritePmtLoadEffect DEF SameStores
  <2>2. QED BY <2>1 DEF Runs, Goes, Sleeps, Kept
<1>3. /\ Carries(t) /\ Carries(t)' /\ ~Unissued(t) /\ ~Unissued(t)'
  BY <1>2 DEF Carries, Unissued
<1>4. ASSUME th'[t].phase \in Completing PROVE CompletedOf(th[t])'
  <2>1. th'[t].phase = "FLASH_READ" /\ th'[t].need = Incomplete(th[t])
    BY <1>2, <1>4 DEF Completing
  <2>2. ASSUME NEW s \in Sectors \ th[t].left, th[t].pages[s[1]] # NoPage PROVE s[1] \in Incomplete(th[t])
    <3>1. s[1] \in SubPages
      BY <2>2, SectorParts
    <3>2. \E y \in th[t].left : y[1] = s[1]
      BY <1>3, <2>2, <3>1 DEF DataInv, WriterData
    <3>3. QED BY <2>2, <3>1, <3>2 DEF Incomplete
  <2>3. QED BY <1>2, <2>1, <2>2 DEF CompletedOf
<1>5. QED BY <1>1, <1>2, <1>3, <1>4, DataWriteQuiet

LEMMA DataCompleteSubPages ==
  ASSUME Safe, PageInv, DataInv, NEW t \in Threads, CompleteSubPages(t) PROVE DataInv'
<1>1. Write(t) /\ Shape
  BY DEF Write, Safe
<1>2. /\ th[t].kind = "write" /\ th[t].phase = "FLASH_READ" /\ SameStores
      /\ ReadLoop(t, WriteNow(t), Completed(t), "BANK") /\ flash' = flash
  BY <1>1, CompleteSubPagesEffect DEF Runs, SameStores
<1>3. /\ Loops(t, WriteNow(t), Completed(t)) /\ th'[t].phase \in {"FLASH_READ", "BANK"}
      /\ th'[t].need = {} \/ th'[t].phase = "FLASH_READ"
      /\ th'[t].kind = "write"
  <2>1. /\ Loops(t, WriteNow(t), Completed(t))
        /\ th'[t].need # {} => \E signals : Sleeps(t, signals)
    BY <1>1, <1>2, ReadLoopFields
  <2>2. th'[t].phase \in {"FLASH_READ", "BANK"}
    BY <1>1, <1>2, LoopPhase
  <2>3. Kept(t)
    BY <1>1, HandlerSteps, StepsKeep
  <2>4. QED BY <1>2, <2>1, <2>2, <2>3 DEF Sleeps, Kept
<1>4. /\ th'[t].left = th[t].left /\ th'[t].vps = th[t].vps /\ th'[t].buf = Completed(t)
      /\ th'[t].pages = th[t].pages
      /\ th'[t].need = th[t].need \ (WriteNow(t) \cup Ended(th[t])) /\ th[t].left \subseteq Sectors
  BY <1>3, WorkTyped DEF Safe, Typed, WorkOK, Loops
<1>5. /\ Carries(t) /\ Carries(t)' /\ ~Unissued(t) /\ ~Unissued(t)'
  BY <1>2, <1>3 DEF Carries, Unissued
<1>6. \A s \in th[t].left : th'[t].buf[s] = th[t].buf[s]
  BY <1>4 DEF Completed
<1>7. CompletedOf(th[t])'
  <2>1. ASSUME NEW s \in Sectors \ th[t].left, th[t].pages[s[1]] # NoPage
        PROVE  \/ th'[t].buf[s] = flash[th[t].vps[s[1]]].data[s]
               \/ th'[t].phase = "FLASH_READ" /\ s[1] \in th'[t].need
    <3>1. CASE s[1] \in WriteNow(t) \cup Ended(th[t])
      BY <1>4, <2>1, <3>1 DEF Completed
    <3>2. CASE s[1] \notin WriteNow(t) \cup Ended(th[t])
      <4>1. th'[t].buf[s] = th[t].buf[s]
        BY <1>4, <2>1, <3>2 DEF Completed
      <4>2. \/ th[t].buf[s] = flash[th[t].vps[s[1]]].data[s]
            \/ s[1] \in th[t].need
        BY <1>2, <1>5, <2>1 DEF DataInv, WriterData, Completing
      <4>3. QED BY <1>3, <1>4, <3>2, <4>1, <4>2
    <3>3. QED BY <3>1, <3>2
  <2>2. QED BY <1>2, <1>4, <2>1 DEF CompletedOf
<1>8. th[t].phase # "BUFFER"
  BY <1>2
<1>9. QED BY <1>1, <1>2, <1>4, <1>5, <1>6, <1>7, <1>8, DataWriteQuiet

-----------------------------------------------------------------------------
(***************************************************************************)
(* Threads end, commands come, passes begin.                               *)
(***************************************************************************)
LEMMA DataFinish == ASSUME Safe, PageInv, DataInv, NEW t \in Threads, Finish(t) PROVE DataInv'
<1>1. Shape
  BY DEF Safe
<1>2. /\ SameStores /\ disk' = disk /\ (\A x \in Threads \ {t} : th'[x] = th[x])
      /\ th[t].phase = "SATA" /\ th'[t].kind = "free"
  <2>1. /\ Runs(t, "read", "SATA") \/ Runs(t, "write", "SATA")
        /\ SameStores /\ disk' = disk /\ (\A x \in Threads \ {t} : th'[x] = th[x])
        /\ th'[t] = FreeThread
    BY <1>1, FinishEffect DEF SameStores
  <2>2. QED BY <2>1 DEF Runs, FreeThread
<1>3. ~Carries(t) /\ ~Unissued(t) /\ ~Carries(t)' /\ ~Unissued(t)' /\ ~Fresh(t)'
  BY <1>2 DEF Carries, Unissued, Fresh, Live
<1>4. SameCarried(t) /\ ReaderData(t)' /\ WriterData(t)'
  BY <1>2, <1>3 DEF SameCarried, HoldsSector, AtPlace, FreshWriter, ReaderData, WriterData
<1>5. QED BY <1>2, <1>4, DataQuiet

LEMMA DataStay == ASSUME DataInv, UNCHANGED <<th, wb, map, flash, disk>> PROVE DataInv'
<1>1. \A n, p, s, v : (Expect(n, p, s, v)' <=> Expect(n, p, s, v))
                      /\ (ContentBefore(n, p, s, v)' <=> ContentBefore(n, p, s, v))
  BY DEF Expect, Content, ContentBefore, StoredIs, LastHolder, NoHolder, LastWriter, NoWriter,
         HoldsSector, FreshWriter, AtPlace, Carries, Unissued, Buffered
<1>2. DiskIs'
  <2>1. ASSUME NEW p \in Lpns, NEW s \in Sectors PROVE Expect(Later, p, s, disk[p][s])'
    <3>1. PICK v : v = disk[p][s]
      OBVIOUS
    <3>2. Expect(Later, p, s, v)' /\ disk'[p][s] = v
      BY <1>1, <3>1 DEF DataInv, DiskIs
    <3>3. QED BY <3>2
  <2>2. QED BY <2>1 DEF DiskIs
<1>3. OwnersAre'
  BY DEF DataInv, OwnersAre, Buffered
<1>4. ASSUME NEW x \in Threads PROVE ReaderData(x)' /\ WriterData(x)'
  <2>1. PICK n, p, w : n = th[x].seq /\ p = th[x].lpn /\ w = th[x].want
    OBVIOUS
  <2>2. th'[x] = th[x] /\ ReaderData(x) /\ WriterData(x)
    BY DEF DataInv
  <2>3. \A s : (Expect(th[x].seq, th[x].lpn, s, th[x].want[s])' <=> Expect(th[x].seq, th[x].lpn, s, th[x].want[s]))
               /\ (ContentBefore(th[x].seq, th[x].lpn, s, th[x].want[s])'
                     <=> ContentBefore(th[x].seq, th[x].lpn, s, th[x].want[s]))
    <3>1. \A s : (Expect(n, p, s, w[s])' <=> Expect(n, p, s, w[s]))
               /\ (ContentBefore(n, p, s, w[s])' <=> ContentBefore(n, p, s, w[s]))
      BY <1>1
    <3>2. th'[x].seq = n /\ th'[x].lpn = p /\ th'[x].want = w
      BY <2>1, <2>2
    <3>3. QED BY <2>1, <3>1, <3>2
  <2>4. ReaderData(x)'
    BY <2>2, <2>3 DEF ReaderData
  <2>5. WriterData(x)'
    BY <2>2 DEF WriterData, Fresh, Live, Carries, Unissued
  <2>6. QED BY <2>4, <2>5
<1>5. QED BY <1>2, <1>3, <1>4 DEF DataInv

LEMMA DataInit == Init => DataInv
<1> SUFFICES ASSUME Init PROVE DataInv
  OBVIOUS
<1>1. /\ \A t \in Threads : th[t].kind = "free"
      /\ \A p \in Lpns, s \in Sectors : wb[p][s].val = Absent
      /\ \A p \in Lpns, sp \in SubPages : map[p][sp] = p
      /\ \A p \in Lpns, s \in Sectors : disk[p][s] = p
  BY DEF Init, FreeThread, Buffer!NoSector
<1>2. \A p \in Lpns, s \in Sectors : flash[p].data[s] = p
  <2>1. Lpns \subseteq Vps
    BY MaxCmdsNat DEF Vps
  <2>2. QED BY <2>1 DEF Init
<1>3. \A t \in Threads : ~Carries(t) /\ ~Unissued(t) /\ ~Fresh(t)
  BY <1>1 DEF Carries, Unissued, Fresh, Live
<1>4. \A n, p, s : \A t \in Threads : ~LastWriter(t, n, p, s) /\ ~LastHolder(t, n, p, s) /\ ~AtPlace(t, p, s[1])
  BY <1>1, <1>3 DEF LastWriter, FreshWriter, LastHolder, HoldsSector, AtPlace
<1>5. DiskIs
  <2>1. ASSUME NEW p \in Lpns, NEW s \in Sectors PROVE Expect(Later, p, s, disk[p][s])
    <3>1. disk[p][s] = flash[map[p][s[1]]].data[s]
      BY <1>1, <1>2, SectorParts
    <3>2. ContentBefore(Later, p, s, disk[p][s])
      BY <1>4, <3>1 DEF ContentBefore, StoredIs
    <3>3. ~Buffered(p, s)
      BY <1>1 DEF Buffered
    <3>4. QED BY <1>4, <3>2, <3>3 DEF Expect, Content
  <2>2. QED BY <2>1 DEF DiskIs
<1>6. OwnersAre
  BY <1>1 DEF OwnersAre, Buffered
<1>7. \A t \in Threads : ReaderData(t) /\ WriterData(t)
  BY <1>1, <1>3 DEF ReaderData, WriterData
<1>8. QED BY <1>5, <1>6, <1>7 DEF DataInv

(***************************************************************************)
(* A command comes: it is later than all others.                           *)
(***************************************************************************)
\* Only the writers before n count.
LEMMA ExpectKept ==
  ASSUME NEW n, NEW p, NEW s, NEW v, Expect(n, p, s, v),
         \A x \in Threads : FreshWriter(x, p, s)' /\ th'[x].seq < n <=> FreshWriter(x, p, s) /\ th[x].seq < n,
         \A x \in Threads : FreshWriter(x, p, s) /\ th[x].seq < n => th'[x].seq = th[x].seq,
         Content(p, s, v) => Content(p, s, v)'
  PROVE  Expect(n, p, s, v)'
<1>1. \A x \in Threads : LastWriter(x, n, p, s)' => LastWriter(x, n, p, s) /\ th'[x].seq = th[x].seq
  BY DEF LastWriter
<1>2. NoWriter(n, p, s)' => NoWriter(n, p, s)
  BY DEF NoWriter
<1>3. QED BY <1>1, <1>2 DEF Expect

LEMMA ExpectEarlier ==
  ASSUME NEW n, NEW m, NEW p, NEW s, NEW v, Expect(m, p, s, v),
         \A x \in Threads : FreshWriter(x, p, s) => th[x].seq < n /\ th[x].seq < m
  PROVE  Expect(n, p, s, v)
<1>1. \A x \in Threads : LastWriter(x, n, p, s) => LastWriter(x, m, p, s)
  BY DEF LastWriter
<1>2. NoWriter(n, p, s) => NoWriter(m, p, s)
  BY DEF NoWriter
<1>3. QED BY <1>1, <1>2 DEF Expect

LEMMA DataAccept ==
  ASSUME Safe, PageInv, DataInv, NEW t \in Threads, NEW c \in Cmds, Accept(t, c) PROVE DataInv'
<1>1. Shape /\ next \in Nat /\ next + 1 < Later /\ MaxCmds \in Nat /\ c.lpn \in Lpns
      /\ c.kind \in {"read", "write"} /\ c.sectors \subseteq Sectors
  <2>1. next < MaxCmds
    BY AcceptEffect DEF Safe
  <2>2. QED BY <2>1, MaxCmdsNat, CommandOK DEF Safe, SchedInv, Numbered, Later
<1>2. /\ wb' = wb /\ map' = map /\ flash' = flash /\ (\A x \in Threads \ {t} : th'[x] = th[x])
      /\ th[t].kind = "free" /\ th'[t].kind = c.kind /\ th'[t].phase = "BUFFER"
      /\ th'[t].seq = next + 1 /\ th'[t].lpn = c.lpn /\ th'[t].sectors = c.sectors /\ th'[t].left = c.sectors
      /\ c.kind = "read" => th'[t].want = disk[c.lpn]
      /\ disk' = IF c.kind = "read" THEN disk
                 ELSE [disk EXCEPT ![c.lpn] =
                            [s \in Sectors |-> IF s \in c.sectors THEN next + 1 ELSE @[s]]]
  BY <1>1, AcceptEffect
<1>3. ~Carries(t) /\ ~Unissued(t) /\ ~Carries(t)' /\ ~Unissued(t)'
  BY <1>2 DEF Carries, Unissued
<1>4. \A x \in Threads : \A p, s :
         /\ HoldsSector(x, p, s)' <=> HoldsSector(x, p, s)
         /\ AtPlace(x, p, s[1])' <=> AtPlace(x, p, s[1])
         /\ HoldsSector(x, p, s) \/ AtPlace(x, p, s[1]) => th'[x] = th[x]
  BY <1>2, <1>3, SameRecordSame DEF HoldsSector, AtPlace
<1>5. ASSUME NEW n, NEW p \in Lpns, NEW s \in Sectors, NEW v, ContentBefore(n, p, s, v)
      PROVE  ContentBefore(n, p, s, v)'
  <2>1. StoredIs(p, s, v) => StoredIs(p, s, v)'
    BY <1>2, <1>4 DEF StoredIs
  <2>2. \A x \in Threads : HoldsSector(x, p, s)' <=> HoldsSector(x, p, s)
    BY <1>4
  <2>3. \A x \in Threads : HoldsSector(x, p, s) =>
                th'[x].seq = th[x].seq /\ th'[x].buf[s] = th[x].buf[s]
    BY <1>4
  <2>4. QED BY <1>5, <2>1, <2>2, <2>3, ContentBeforeStays
<1>6. \A p \in Lpns : \A s \in Sectors : \A v : Content(p, s, v) => Content(p, s, v)'
  BY <1>2, <1>5, ContentStays
<1>7. \A x \in Threads : Live(x) => x # t /\ th[x].seq \in Nat /\ th[x].seq <= next /\ th[x].seq < Later
  BY <1>2, SeqBelow DEF Live
<1>8. \A x \in Threads : \A p, s : FreshWriter(x, p, s) => Live(x)
  BY DEF FreshWriter, Live
<1>9. \A x \in Threads : \A p, s : FreshWriter(x, p, s) => FreshWriter(x, p, s)' /\ th'[x].seq = th[x].seq
  BY <1>2, <1>7, <1>8, SameRecordSame
<1>10. \A x \in Threads : \A p, s : FreshWriter(x, p, s)' /\ ~FreshWriter(x, p, s) =>
          x = t /\ c.kind = "write" /\ p = c.lpn /\ s \in c.sectors /\ th'[x].seq = next + 1
  <2> SUFFICES ASSUME NEW x \in Threads, NEW p, NEW s, FreshWriter(x, p, s)', ~FreshWriter(x, p, s)
               PROVE  x = t /\ c.kind = "write" /\ p = c.lpn /\ s \in c.sectors /\ th'[x].seq = next + 1
    OBVIOUS
  <2>1. x = t
    BY <1>2, SameRecordSame
  <2>2. QED BY <1>2, <2>1 DEF FreshWriter
<1>11. ASSUME NEW n, NEW p \in Lpns, NEW s \in Sectors, NEW v, Expect(n, p, s, v),
              ~(next + 1 < n) \/ c.kind = "read" \/ p # c.lpn \/ s \notin c.sectors
       PROVE  Expect(n, p, s, v)'
  <2>1. \A x \in Threads : FreshWriter(x, p, s)' /\ th'[x].seq < n <=> FreshWriter(x, p, s) /\ th[x].seq < n
    BY <1>9, <1>10, <1>11
  <2>2. \A x \in Threads : FreshWriter(x, p, s) /\ th[x].seq < n => th'[x].seq = th[x].seq
    BY <1>9
  <2>3. Content(p, s, v) => Content(p, s, v)'
    BY <1>6
  <2>4. QED BY <1>11, <2>1, <2>2, <2>3, ExpectKept
<1>12. DiskIs'
  <2>1. ASSUME NEW p \in Lpns, NEW s \in Sectors PROVE Expect(Later, p, s, disk[p][s])'
    <3>1. Expect(Later, p, s, disk[p][s])
      BY DEF DataInv, DiskIs
    <3>2. disk \in [Lpns -> [Sectors -> 1 .. MaxCmds]]
      BY DEF Safe, Typed, WorldOK
    <3>3. CASE c.kind = "read" \/ p # c.lpn \/ s \notin c.sectors
      <4>1. disk'[p][s] = disk[p][s]
        BY <1>1, <1>2, <3>2, <3>3
      <4>2. PICK v : v = disk[p][s]
        OBVIOUS
      <4>3. Expect(Later, p, s, v)'
        BY <1>11, <3>1, <3>3, <4>2
      <4>4. QED BY <4>1, <4>2, <4>3
    <3>4. CASE c.kind = "write" /\ p = c.lpn /\ s \in c.sectors
      <4>1. disk'[p][s] = next + 1
        BY <1>2, <3>2, <3>4
      <4>2. FreshWriter(t, p, s)' /\ th'[t].seq < Later /\ th'[t].seq = next + 1
        BY <1>1, <1>2, <3>4 DEF FreshWriter
      <4>3. ASSUME NEW x \in Threads, LastWriter(x, Later, p, s)' PROVE disk'[p][s] = th'[x].seq
        <5>1. FreshWriter(x, p, s)' /\ th'[t].seq <= th'[x].seq
          BY <4>2, <4>3 DEF LastWriter
        <5>2. CASE FreshWriter(x, p, s)
          BY <1>1, <1>7, <1>8, <1>9, <4>2, <5>1, <5>2
        <5>3. CASE ~FreshWriter(x, p, s)
          BY <1>10, <4>1, <5>1, <5>3
        <5>4. QED BY <5>2, <5>3
      <4>4. ~NoWriter(Later, p, s)'
        BY <4>2 DEF NoWriter
      <4>5. QED BY <4>3, <4>4 DEF Expect
    <3>5. QED BY <1>1, <3>3, <3>4
  <2>2. QED BY <2>1 DEF DiskIs
<1>13. ReaderData(t)'
  <2>1. SUFFICES ASSUME c.kind = "read", NEW s \in Sectors
                 PROVE  Expect(th[t].seq, th[t].lpn, s, th[t].want[s])'
    BY <1>2 DEF ReaderData
  <2>2. PICK n, p, v : n = next + 1 /\ p = c.lpn /\ v = disk[c.lpn][s]
    OBVIOUS
  <2>3. Expect(Later, p, s, v) /\ p \in Lpns
    BY <1>1, <2>2 DEF DataInv, DiskIs
  <2>4. \A x \in Threads : FreshWriter(x, p, s) => th[x].seq < n /\ th[x].seq < Later
    BY <1>1, <1>7, <1>8, <2>2
  <2>5. Expect(n, p, s, v)
    BY <2>3, <2>4, ExpectEarlier
  <2>6. Expect(n, p, s, v)'
    BY <1>11, <2>1, <2>3, <2>5
  <2>7. th'[t].seq = n /\ th'[t].lpn = p /\ th'[t].want[s] = v
    BY <1>2, <2>1, <2>2
  <2>8. QED BY <2>6, <2>7
<1>14. WriterData(t)'
  BY <1>2, <1>3 DEF WriterData
<1>15. ASSUME NEW v, NEW x \in Threads \ {t}, NEW s \in Sectors,
              Waiting(x) /\ ContentBefore(th[x].seq, th[x].lpn, s, v)
       PROVE  ContentBefore(th[x].seq, th[x].lpn, s, v)'
  <2>1. PICK n, p : n = th[x].seq /\ p = th[x].lpn
    OBVIOUS
  <2>2. p \in Lpns
    BY <2>1, WorkTyped DEF Safe, Typed
  <2>3. ContentBefore(n, p, s, v)' /\ th'[x].seq = n /\ th'[x].lpn = p
    BY <1>2, <1>5, <1>15, <2>1, <2>2
  <2>4. QED BY <2>3
<1>16. ASSUME NEW v, NEW x \in Threads \ {t}, NEW s \in Sectors,
              FreshReader(x) /\ Expect(th[x].seq, th[x].lpn, s, v)
       PROVE  Expect(th[x].seq, th[x].lpn, s, v)'
  <2>1. PICK n, p : n = th[x].seq /\ p = th[x].lpn
    OBVIOUS
  <2>2. p \in Lpns /\ ~(next + 1 < n)
    <3>1. Live(x)
      BY <1>16 DEF FreshReader, Live
    <3>2. QED BY <1>1, <1>7, <2>1, <3>1, WorkTyped DEF Safe, Typed
  <2>3. Expect(n, p, s, v)' /\ th'[x].seq = n /\ th'[x].lpn = p
    BY <1>2, <1>11, <1>16, <2>1, <2>2
  <2>4. QED BY <2>3
<1>17. OwnersAre'
  BY <1>2 DEF DataInv, OwnersAre, Buffered
<1>18. QED BY <1>2, <1>12, <1>13, <1>14, <1>15, <1>16, <1>17, DataElsewhere

-----------------------------------------------------------------------------
(***************************************************************************)
(* A writer runs for the first time.  It is the first of those that have   *)
(* not run, and comes after all that carry data.                           *)
(***************************************************************************)
LEMMA FirstWriterRuns ==
  ASSUME Safe, NEW t \in Threads, Current(t), Fresh(t), \A x \in Threads \ {t} : th'[x] = th[x],
         th'[t].seq = th[t].seq, NEW n, NEW p, NEW s, NEW v, th[t].seq < n, Expect(n, p, s, v), ~FreshWriter(t, p, s)',
         FreshWriter(t, p, s) => Content(p, s, th[t].seq)',
         ~FreshWriter(t, p, s) /\ Content(p, s, v) => Content(p, s, v)'
  PROVE  Expect(n, p, s, v)'
<1>1. \A x \in Threads : FreshWriter(x, p, s)' <=> FreshWriter(x, p, s) /\ x # t
  BY SameRecordSame
<1>2. \A x \in Threads : FreshWriter(x, p, s) => th[t].seq <= th[x].seq
  BY FirstFresh DEF FreshWriter, Fresh, Live
<1>3. ASSUME NEW x \in Threads, LastWriter(x, n, p, s)' PROVE v = th'[x].seq
  <2>1. x # t /\ th'[x] = th[x] /\ FreshWriter(x, p, s)
    BY <1>1, <1>3 DEF LastWriter
  <2>2. LastWriter(x, n, p, s)
    BY <1>1, <1>2, <1>3, <2>1 DEF LastWriter
  <2>3. QED BY <2>1, <2>2 DEF Expect
<1>4. ASSUME NoWriter(n, p, s)' PROVE Content(p, s, v)'
  <2>1. \A x \in Threads : FreshWriter(x, p, s) /\ x # t => ~(th[x].seq < n)
    BY <1>1, <1>4 DEF NoWriter
  <2>2. CASE FreshWriter(t, p, s)
    <3>1. th[t].seq <= th[t].seq
      BY <1>2, <2>2
    <3>2. LastWriter(t, n, p, s)
      BY <2>1, <2>2, <3>1 DEF LastWriter
    <3>3. v = th[t].seq
      BY <3>2 DEF Expect
    <3>4. Content(p, s, th[t].seq)' /\ v = th'[t].seq
      BY <2>2, <3>3
    <3>5. QED BY <3>4
  <2>3. CASE ~FreshWriter(t, p, s)
    <3>1. NoWriter(n, p, s)
      BY <2>1, <2>3 DEF NoWriter
    <3>2. QED BY <2>3, <3>1 DEF Expect
  <2>4. QED BY <2>2, <2>3
<1>5. QED BY <1>3, <1>4 DEF Expect

\* Others find the same, where it holds nothing or holds it after them.
LEMMA HolderJoins ==
  ASSUME Safe, NEW t \in Threads, Fresh(t), \A x \in Threads \ {t} : th'[x] = th[x],
         map' = map, flash' = flash, ~Unissued(t)', th'[t].seq = th[t].seq,
         NEW n, NEW p, NEW s, NEW v, ContentBefore(n, p, s, v),
         ~(th[t].seq < n) \/ ~HoldsSector(t, p, s)'
  PROVE  ContentBefore(n, p, s, v)'
<1>1. ~Carries(t) /\ ~Unissued(t)
  BY DEF Fresh, Carries, Unissued
<1>2. \A x \in Threads : HoldsSector(x, p, s)' /\ th'[x].seq < n <=> HoldsSector(x, p, s) /\ th[x].seq < n
  BY <1>1, SameRecordSame DEF HoldsSector
<1>3. \A x \in Threads : HoldsSector(x, p, s) => th'[x] = th[x]
  BY <1>1 DEF HoldsSector
<1>4. \A x \in Threads : LastHolder(x, n, p, s)' => LastHolder(x, n, p, s)
  BY <1>2, <1>3 DEF LastHolder
<1>5. NoHolder(n, p, s)' => NoHolder(n, p, s)
  BY <1>2 DEF NoHolder
<1>6. StoredIs(p, s, v) => StoredIs(p, s, v)'
  <2>1. \A x \in Threads : (AtPlace(x, p, s[1])' <=> AtPlace(x, p, s[1])) /\ (AtPlace(x, p, s[1]) => th'[x] = th[x])
    BY <1>1, SameRecordSame DEF AtPlace
  <2>2. QED BY <2>1 DEF StoredIs
<1>7. QED BY <1>3, <1>4, <1>5, <1>6 DEF ContentBefore, LastHolder

\* What it holds is the newest.
LEMMA HolderIsLast ==
  ASSUME Safe, NEW t \in Threads, Fresh(t), \A x \in Threads \ {t} : th'[x] = th[x],
         th'[t].seq = th[t].seq, NEW p \in Lpns, NEW s \in Sectors, NEW v,
         HoldsSector(t, p, s)', v = th'[t].buf[s]
  PROVE  ContentBefore(Later, p, s, v)'
<1>1. th[t].seq \in Nat /\ th[t].seq < Later
  BY SeqBelow DEF Fresh
<1>2. ASSUME NEW x \in Threads, LastHolder(x, Later, p, s)' PROVE x = t
  <2>1. SUFFICES ASSUME x # t PROVE FALSE
    OBVIOUS
  <2>2. HoldsSector(x, p, s)' /\ th'[x] = th[x] /\ th[t].seq <= th[x].seq
    BY <1>1, <1>2, <2>1 DEF LastHolder
  <2>3. HoldsSector(x, p, s)
    BY <2>2, SameRecordSame
  <2>4. th[x].seq \in Nat /\ th[x].seq < th[t].seq
    BY <2>3, HolderIs, CarriersAhead, SeqBelow
  <2>5. QED BY <1>1, <2>2, <2>4
<1>3. ~NoHolder(Later, p, s)'
  BY <1>1 DEF NoHolder
<1>4. QED BY <1>2, <1>3 DEF ContentBefore

LEMMA DataFirstWriter ==
  ASSUME Safe, PageInv, DataInv, NEW t \in Threads, Write(t), Fresh(t), th'[t].phase \in {"LOCK", "SATA"},
         map' = map, flash' = flash, OwnersAre',
         \A sp \in SubPages : Carries(t)' /\ th'[t].pages[sp] # NoPage => \E s \in th'[t].left : s[1] = sp,
         \A p \in Lpns, s \in Sectors : FreshWriter(t, p, s) => Content(p, s, th[t].seq)',
         \A v : \A p \in Lpns, s \in Sectors : ~FreshWriter(t, p, s) /\ Content(p, s, v) => Content(p, s, v)'
  PROVE  DataInv'
<1>1. /\ Current(t) /\ disk' = disk /\ (\A x \in Threads \ {t} : th'[x] = th[x])
      /\ th'[t].kind = th[t].kind /\ th'[t].seq = th[t].seq /\ th[t].kind = "write"
  <2>1. Shape /\ th[t].kind = "write"
    BY DEF Safe, Write, WriteWholePage, PushPartialPage, FlushAndPush, WriteLock, WritePmtLoad,
           CompleteSubPages, AllocatePage, WaitForBank, UpdatePmt, IssueWrite, EndWrite, Runs
  <2>2. QED BY <2>1, HandlerSteps, StepsKeep DEF Kept
<1>2. ~Unissued(t) /\ ~Unissued(t)' /\ ~Fresh(t)' /\ \A p, s : ~FreshWriter(t, p, s)'
  BY DEF Fresh, Unissued, FreshWriter
<1>3. WriterData(t)' /\ ReaderData(t)'
  BY <1>1, <1>2 DEF WriterData, ReaderData, Completing
<1>4. ASSUME NEW n, th[t].seq < n, NEW p \in Lpns, NEW s \in Sectors, NEW v, Expect(n, p, s, v)
      PROVE  Expect(n, p, s, v)'
  BY <1>1, <1>2, <1>4, FirstWriterRuns
<1>5. DiskIs'
  <2>1. ASSUME NEW p \in Lpns, NEW s \in Sectors PROVE Expect(Later, p, s, disk[p][s])'
    <3>1. PICK v : v = disk[p][s]
      OBVIOUS
    <3>2. th[t].seq < Later
      BY SeqBelow DEF Fresh
    <3>3. Expect(Later, p, s, v)' /\ disk'[p][s] = v
      BY <1>1, <1>4, <3>1, <3>2 DEF DataInv, DiskIs
    <3>4. QED BY <3>3
  <2>2. QED BY <2>1 DEF DiskIs
<1>6. ASSUME NEW v, NEW x \in Threads \ {t}, NEW s \in Sectors,
              Waiting(x) /\ ContentBefore(th[x].seq, th[x].lpn, s, v)
       PROVE  ContentBefore(th[x].seq, th[x].lpn, s, v)'
  <2>1. PICK n, p : n = th[x].seq /\ p = th[x].lpn
    OBVIOUS
  <2>2. ~(th[t].seq < n)
    <3>1. Live(x) /\ ~Fresh(x) /\ Live(t)
      BY <1>6 DEF Waiting, Live, Fresh
    <3>2. n < th[t].seq /\ n \in Nat /\ th[t].seq \in Nat
      BY <2>1, <3>1, CarriersAhead, SeqBelow
    <3>3. QED BY <3>2
  <2>3. ContentBefore(n, p, s, v)' /\ th'[x].seq = n /\ th'[x].lpn = p
    BY <1>1, <1>2, <1>6, <2>1, <2>2, HolderJoins
  <2>4. QED BY <2>3
<1>7. ASSUME NEW v, NEW x \in Threads \ {t}, NEW s \in Sectors,
              FreshReader(x) /\ Expect(th[x].seq, th[x].lpn, s, v)
       PROVE  Expect(th[x].seq, th[x].lpn, s, v)'
  <2>1. PICK n, p : n = th[x].seq /\ p = th[x].lpn
    OBVIOUS
  <2>2. p \in Lpns /\ th[t].seq < n
    <3>1. Live(x) /\ Fresh(x) /\ Live(t)
      BY <1>7 DEF FreshReader, Live, Fresh
    <3>2. th[t].seq <= n /\ th[t].seq # n /\ n \in Nat /\ th[t].seq \in Nat
      BY <1>1, <2>1, <3>1, FirstFresh, SeqBelow, Positions DEF Safe, SchedInv
    <3>3. QED BY <2>1, <3>2, WorkTyped DEF Safe, Typed
  <2>3. Expect(n, p, s, v)' /\ th'[x].seq = n /\ th'[x].lpn = p
    BY <1>1, <1>4, <1>7, <2>1, <2>2
  <2>4. QED BY <2>3
<1>8. QED BY <1>1, <1>2, <1>3, <1>5, <1>6, <1>7, DataElsewhere

(***************************************************************************)
(* The write buffer, with one user.                                        *)
(***************************************************************************)
OwnersIn(store) == \A p \in Lpns, s \in Sectors : store[p][s].val # Absent => store[p][s].uid \in Users

LEMMA PushedIs ==
  ASSUME OneUser, NEW store \in StoreType, OwnersIn(store),
         NEW r, r.lpn \in Lpns, r.uid \in Users
  PROVE  /\ OwnersIn(Pushed(store, r))
         /\ \A p \in Lpns, s \in Sectors :
              Pushed(store, r)[p][s].val = IF p = r.lpn /\ s \in r.sectors THEN r.seq ELSE store[p][s].val
<1> DEFINE new(s) == IF s \in r.sectors THEN [val |-> r.seq, uid |-> r.uid]
                     ELSE IF \E x \in r.sectors : x[1] = s[1] /\ store[r.lpn][s].uid # r.uid
                          THEN Buffer!NoSector ELSE store[r.lpn][s]
<1>1. Pushed(store, r) = [store EXCEPT ![r.lpn] = [s \in Sectors |-> new(s)]]
  BY DEF Pushed, Buffer!Push, Sectors, Buffer!Sectors, StoreType
<1>2. ASSUME NEW s \in Sectors
      PROVE  /\ new(s).val = IF s \in r.sectors THEN r.seq ELSE store[r.lpn][s].val
             /\ new(s).val # Absent => new(s).uid \in Users
  <2>1. CASE s \in r.sectors
    BY <2>1
  <2>2. CASE s \notin r.sectors /\ \E x \in r.sectors : x[1] = s[1] /\ store[r.lpn][s].uid # r.uid
    <3>1. new(s) = Buffer!NoSector
      BY <2>2
    <3>2. store[r.lpn][s].val = Absent
      BY <2>2 DEF OneUser, OwnersIn
    <3>3. QED BY <2>2, <3>1, <3>2 DEF Buffer!NoSector
  <2>3. CASE s \notin r.sectors /\ ~\E x \in r.sectors : x[1] = s[1] /\ store[r.lpn][s].uid # r.uid
    <3>1. new(s) = store[r.lpn][s]
      BY <2>3
    <3>2. QED BY <2>3, <3>1 DEF OwnersIn
  <2>4. QED BY <2>1, <2>2, <2>3
<1> HIDE DEF new
<1>3. \A p \in Lpns, s \in Sectors : Pushed(store, r)[p][s] = IF p = r.lpn THEN new(s) ELSE store[p][s]
  BY <1>1 DEF StoreType
<1>4. QED BY <1>2, <1>3 DEF OwnersIn

LEMMA FlushedIs ==
  ASSUME OwnersAre, NEW pages
  PROVE  /\ OwnersIn(Buffer!Flushed(pages))
         /\ \A p \in Lpns, s \in Sectors :
              Buffer!Flushed(pages)[p][s].val = IF pages[s[1]] = p THEN Absent ELSE wb[p][s].val
  BY DEF Buffer!Flushed, Buffer!NoSector, Sectors, Buffer!Sectors, OwnersIn, OwnersAre, Buffered

LEMMA DroppedIs ==
  ASSUME wb \in StoreType, OwnersAre, NEW p \in Lpns
  PROVE  /\ OwnersIn(Buffer!Dropped(wb, p))
         /\ \A x \in Lpns, s \in Sectors :
              Buffer!Dropped(wb, p)[x][s].val = IF x = p THEN Absent ELSE wb[x][s].val
  BY DEF Buffer!Dropped, Buffer!NoSector, Sectors, Buffer!Sectors, OwnersIn, OwnersAre, Buffered, StoreType

-----------------------------------------------------------------------------
LEMMA FreshWriterIs ==
  ASSUME Safe, DataInv, NEW t \in Threads, Runs(t, "write", "BUFFER")
  PROVE  /\ Fresh(t) /\ th[t].left = th[t].sectors /\ th[t].lpn \in Lpns /\ th[t].uid \in Users
         /\ th[t].seq \in 1 .. MaxCmds /\ th[t].seq # Absent /\ wb \in StoreType /\ OwnersAre /\ OwnersIn(wb)
         /\ \A p, s : FreshWriter(t, p, s) <=> p = th[t].lpn /\ s \in th[t].sectors
<1>1. Fresh(t) /\ th[t].kind = "write" /\ th[t].phase = "BUFFER"
  BY DEF Runs, Fresh, Live
<1>2. th[t].seq \in 1 .. MaxCmds /\ th[t].seq # Absent
  BY <1>1, WriterSeq, ValuesAre DEF Safe, Absent
<1>3. th[t].lpn \in Lpns /\ th[t].uid \in Users /\ wb \in StoreType
  BY WorkTyped DEF Safe, Typed, WorldOK, StoreType
<1>4. th[t].left = th[t].sectors /\ OwnersAre
  BY <1>1 DEF DataInv, WriterData
<1>5. QED BY <1>1, <1>2, <1>3, <1>4 DEF FreshWriter, OwnersAre, OwnersIn, Buffered

LEMMA DataPush ==
  ASSUME OneUser, Safe, PageInv, DataInv, NEW t \in Threads, PushPartialPage(t) PROVE DataInv'
<1>1. Write(t) /\ Shape
  BY DEF Write, Safe
<1>2. /\ Runs(t, "write", "BUFFER") /\ Goes(t, "SATA") /\ wb' = Pushed(wb, th[t])
      /\ map' = map /\ flash' = flash
  BY <1>1, PushPartialPageEffect
<1>3. /\ Fresh(t) /\ th[t].lpn \in Lpns /\ th[t].uid \in Users
      /\ th[t].seq # Absent /\ wb \in StoreType /\ OwnersIn(wb)
      /\ \A p, s : FreshWriter(t, p, s) <=> p = th[t].lpn /\ s \in th[t].sectors
  BY <1>2, FreshWriterIs
<1>4. /\ OwnersIn(wb')
      /\ \A p \in Lpns, s \in Sectors : wb'[p][s].val = IF FreshWriter(t, p, s) THEN th[t].seq ELSE wb[p][s].val
  BY <1>2, <1>3, PushedIs
<1>5. OwnersAre'
  BY <1>4 DEF OwnersAre, OwnersIn, Buffered
<1>6. th'[t].phase = "SATA" /\ ~Carries(t)' /\ ~Unissued(t)' /\ th'[t].seq = th[t].seq
      /\ \A x \in Threads \ {t} : th'[x] = th[x]
  BY <1>2 DEF Goes, Carries, Unissued, Kept
<1>7. ASSUME NEW p \in Lpns, NEW s \in Sectors, FreshWriter(t, p, s) PROVE Content(p, s, th[t].seq)'
  <2>1. wb'[p][s].val = th'[t].seq /\ Buffered(p, s)'
    BY <1>3, <1>4, <1>6, <1>7 DEF Buffered
  <2>2. QED BY <2>1 DEF Content
<1>8. ASSUME NEW v, NEW p \in Lpns, NEW s \in Sectors, ~FreshWriter(t, p, s), Content(p, s, v)
      PROVE  Content(p, s, v)'
  <2>1. wb'[p][s].val = wb[p][s].val
    BY <1>4, <1>8
  <2>2. ~HoldsSector(t, p, s)'
    BY <1>6 DEF HoldsSector
  <2>3. ContentBefore(Later, p, s, v) => ContentBefore(Later, p, s, v)'
    BY <1>2, <1>3, <1>6, <2>2, HolderJoins
  <2>4. QED BY <1>8, <2>1, <2>3 DEF Content, Buffered
<1>9. QED BY <1>1, <1>2, <1>3, <1>5, <1>6, <1>7, <1>8, DataFirstWriter

LEMMA DataWholePage ==
  ASSUME Safe, PageInv, DataInv, NEW t \in Threads, WriteWholePage(t) PROVE DataInv'
<1>1. Write(t) /\ Shape
  BY DEF Write, Safe
<1>2. /\ Runs(t, "write", "BUFFER") /\ Goes(t, "LOCK") /\ wb' = Buffer!Dropped(wb, th[t].lpn)
      /\ map' = map /\ flash' = flash /\ th[t].sectors = Sectors
      /\ th'[t].buf = [s \in Sectors |-> th[t].seq]
      /\ th'[t].pages = [sp \in SubPages |-> th[t].lpn] /\ th'[t].left = th[t].left
  BY <1>1, WriteWholePageEffect
<1>3. /\ Fresh(t) /\ th[t].left = Sectors /\ th[t].lpn \in Lpns
      /\ wb \in StoreType /\ OwnersAre
      /\ \A p, s : FreshWriter(t, p, s) <=> p = th[t].lpn /\ s \in Sectors
  BY <1>2, FreshWriterIs
<1>4. /\ OwnersIn(wb')
      /\ \A p \in Lpns, s \in Sectors : wb'[p][s].val = IF p = th[t].lpn THEN Absent ELSE wb[p][s].val
  BY <1>2, <1>3, DroppedIs
<1>5. OwnersAre'
  BY <1>4 DEF OwnersAre, OwnersIn, Buffered
<1>6. th'[t].phase = "LOCK" /\ Carries(t)' /\ ~Unissued(t)' /\ th'[t].seq = th[t].seq
      /\ \A x \in Threads \ {t} : th'[x] = th[x]
  BY <1>2 DEF Goes, Carries, Unissued, Kept, Runs
<1>7. ASSUME NEW p \in Lpns, NEW s \in Sectors, FreshWriter(t, p, s) PROVE Content(p, s, th[t].seq)'
  <2>1. p = th[t].lpn /\ ~Buffered(p, s)'
    BY <1>3, <1>4, <1>7 DEF Buffered
  <2>2. HoldsSector(t, p, s)'
    BY <1>2, <1>3, <1>6, <2>1, SectorParts DEF HoldsSector
  <2>3. PICK v : v = th[t].seq
    OBVIOUS
  <2>4. v = th'[t].buf[s]
    BY <1>2, <2>3
  <2>5. ContentBefore(Later, p, s, v)'
    BY <1>3, <1>6, <2>2, <2>4, HolderIsLast
  <2>6. th'[t].seq = v
    BY <1>6, <2>3
  <2>7. QED BY <2>1, <2>5, <2>6 DEF Content
<1>8. ASSUME NEW v, NEW p \in Lpns, NEW s \in Sectors, ~FreshWriter(t, p, s), Content(p, s, v)
      PROVE  Content(p, s, v)'
  <2>1. wb'[p][s].val = wb[p][s].val /\ p # th[t].lpn
    BY <1>3, <1>4, <1>8
  <2>2. ~HoldsSector(t, p, s)'
    BY <1>2, <2>1, SectorParts DEF HoldsSector
  <2>3. ContentBefore(Later, p, s, v) => ContentBefore(Later, p, s, v)'
    BY <1>2, <1>3, <1>6, <2>2, HolderJoins
  <2>4. QED BY <1>8, <2>1, <2>3 DEF Content, Buffered
<1>9. \A sp \in SubPages : \E s \in th'[t].left : s[1] = sp
  <2>1. TAKE sp \in SubPages
  <2>2. PICK x \in Parts : TRUE
    BY SizesAssumption
  <2>3. <<sp, x>> \in Sectors /\ <<sp, x>>[1] = sp
    BY DEF Sectors
  <2>4. QED BY <1>2, <1>3, <2>3
<1>10. QED BY <1>1, <1>2, <1>3, <1>5, <1>6, <1>7, <1>8, <1>9, DataFirstWriter

LEMMA DataFlush ==
  ASSUME OneUser, Safe, PageInv, DataInv, NEW t \in Threads, FlushAndPush(t) PROVE DataInv'
<1>1. Write(t) /\ Shape
  BY DEF Write, Safe
<1>2. /\ Runs(t, "write", "BUFFER") /\ Goes(t, "LOCK") /\ map' = map /\ flash' = flash
  BY <1>1, FlushAndPushEffect
<1>3. PICK pages \in [SubPages -> Lpns \cup {NoPage}] :
              (\E owner \in Users : Buffer!IsBuffer(pages, owner)) /\ FlushesTo(t, pages)
  BY <1>1, FlushAndPushEffect
<1>4. /\ Fresh(t) /\ th[t].lpn \in Lpns /\ th[t].uid \in Users
      /\ th[t].seq # Absent /\ wb \in StoreType /\ OwnersAre
      /\ \A p, s : FreshWriter(t, p, s) <=> p = th[t].lpn /\ s \in th[t].sectors
  BY <1>2, FreshWriterIs
<1>5. PICK store \in StoreType : store = Buffer!Flushed(pages)
  BY <1>4, FlushedType
<1>6. /\ OwnersIn(store)
      /\ \A p \in Lpns, s \in Sectors : store[p][s].val = IF pages[s[1]] = p THEN Absent ELSE wb[p][s].val
  BY <1>4, <1>5, FlushedIs
<1>7. /\ OwnersIn(wb')
      /\ \A p \in Lpns, s \in Sectors :
            wb'[p][s].val = IF FreshWriter(t, p, s) THEN th[t].seq ELSE store[p][s].val
  <2>1. wb' = Pushed(store, th[t])
    BY <1>3, <1>5 DEF FlushesTo
  <2>2. QED BY <1>4, <1>6, <2>1, PushedIs
<1>8. OwnersAre'
  BY <1>7 DEF OwnersAre, OwnersIn, Buffered
<1>9. /\ th'[t].phase = "LOCK" /\ Carries(t)' /\ ~Unissued(t)' /\ th'[t].seq = th[t].seq
      /\ \A x \in Threads \ {t} : th'[x] = th[x]
  BY <1>2 DEF Goes, Carries, Unissued, Kept, Runs
<1>10. /\ th'[t].pages = pages /\ th'[t].left = Buffer!BufferSectors(pages) /\ th'[t].buf = TakenOut(pages)
  BY <1>3 DEF FlushesTo
<1>11. \A p \in Lpns, s \in Sectors :
          /\ HoldsSector(t, p, s)' <=> pages[s[1]] = p /\ Buffered(p, s)
          /\ pages[s[1]] = p /\ Buffered(p, s) => th'[t].buf[s] = wb[p][s].val
  <2>1. TAKE p \in Lpns, s \in Sectors
  <2>2. p # NoPage
    BY NullAssumption
  <2>3. pages[s[1]] = p => (s \in Buffer!BufferSectors(pages) <=> Buffered(p, s))
    BY <2>2 DEF Buffer!BufferSectors, Buffer!InBuffer, Buffered, Buffer!Sectors, Sectors
  <2>4. s \in Buffer!BufferSectors(pages) => TakenOut(pages)[s] = wb[pages[s[1]]][s].val
    BY DEF TakenOut
  <2>5. QED BY <1>9, <1>10, <2>3, <2>4 DEF HoldsSector
<1>12. ASSUME NEW p \in Lpns, NEW s \in Sectors, FreshWriter(t, p, s) PROVE Content(p, s, th[t].seq)'
  <2>1. wb'[p][s].val = th'[t].seq /\ Buffered(p, s)'
    BY <1>4, <1>7, <1>9, <1>12 DEF Buffered
  <2>2. QED BY <2>1 DEF Content
<1>13. ASSUME NEW v, NEW p \in Lpns, NEW s \in Sectors, ~FreshWriter(t, p, s), Content(p, s, v)
      PROVE  Content(p, s, v)'
  <2>1. wb'[p][s].val = IF pages[s[1]] = p THEN Absent ELSE wb[p][s].val
    BY <1>6, <1>7, <1>13
  <2>2. CASE HoldsSector(t, p, s)'
    <3>1. v = th'[t].buf[s] /\ ~Buffered(p, s)'
      BY <1>11, <1>13, <2>1, <2>2 DEF Content, Buffered
    <3>2. ContentBefore(Later, p, s, v)'
      BY <1>4, <1>9, <2>2, <3>1, HolderIsLast
    <3>3. QED BY <3>1, <3>2 DEF Content
  <2>3. CASE ~HoldsSector(t, p, s)'
    <3>1. ContentBefore(Later, p, s, v) => ContentBefore(Later, p, s, v)'
      BY <1>2, <1>4, <1>9, <2>3, HolderJoins
    <3>2. wb'[p][s].val = wb[p][s].val
      BY <1>11, <2>1, <2>3 DEF Buffered
    <3>3. QED BY <1>13, <3>1, <3>2 DEF Content, Buffered
  <2>4. QED BY <2>2, <2>3
<1>14. ASSUME NEW sp \in SubPages, th'[t].pages[sp] # NoPage PROVE \E s \in th'[t].left : s[1] = sp
  <2>1. PICK owner \in Users : owner \in Buffer!OwnersOf(pages[sp], sp)
    BY <1>3, <1>10, <1>14 DEF Buffer!IsBuffer
  <2>2. PICK x \in Parts : Buffer!InBuffer(pages[sp], <<sp, x>>)
    BY <2>1 DEF Buffer!OwnersOf
  <2>3. <<sp, x>> \in Sectors /\ <<sp, x>>[1] = sp
    BY DEF Sectors
  <2>4. <<sp, x>> \in Buffer!BufferSectors(pages)
    BY <1>10, <1>14, <2>2, <2>3 DEF Buffer!BufferSectors, Buffer!Sectors, Sectors
  <2>5. QED BY <1>10, <2>3, <2>4
<1>15. QED BY <1>1, <1>2, <1>4, <1>8, <1>9, <1>12, <1>13, <1>14, DataFirstWriter

-----------------------------------------------------------------------------
(***************************************************************************)
(* A writer puts its page in its place: it names the new virtual page in   *)
(* the mapping table, and then writes it.  It has the locks of its pages,  *)
(* so nobody who comes before it still waits for them, and nobody else is  *)
(* at its places.                                                          *)
(***************************************************************************)
LEMMA PlacerAlone ==
  ASSUME Safe, LockInv, NEW t \in Threads, Carries(t), th[t].phase # "LOCK",
         NEW p \in Lpns, NEW sp \in SubPages, th[t].pages[sp] = p
  PROVE  /\ \A x \in Threads \ {t} : ~AtPlace(x, p, sp)
         /\ \A x \in Threads : Waiting(x) /\ th[x].lpn = p => th[t].seq < th[x].seq
         /\ \A x \in Threads, s \in Sectors : HoldsSector(x, p, s) => th[t].seq <= th[x].seq
<1>1. Asks(t, p) /\ Live(t) /\ p \in PagesOf(th[t]) /\ th[t].kind = "write"
  BY DEF Asks, PagesOf, Carries, Unissued, Live
<1>2. held[p][t] = 3
  BY <1>1 DEF LockInv, OwnLocks
<1>3. ASSUME NEW x \in Threads \ {t}, AtPlace(x, p, sp) PROVE FALSE
  <2>1. Carries(x) /\ Unissued(x) /\ p \in PagesOf(th[x])
    BY <1>3 DEF AtPlace, Carries, PagesOf
  <2>2. QED BY <1>1, <2>1, LockedAlone
<1>4. ASSUME NEW x \in Threads, Waiting(x), th[x].lpn = p PROVE th[t].seq < th[x].seq
  <2>1. x # t /\ Live(x) /\ Asks(x, p)
    BY <1>1, <1>4 DEF Waiting, Live, Asks
  <2>2. held[p][x] = 0
    BY <1>2, <2>1 DEF LockInv, PairLocks
  <2>3. th[x].phase = "LOCK"
    BY <1>4, <2>1, <2>2 DEF LockInv, OwnLocks, Waiting
  <2>4. ~Ahead(x, t)
    BY <1>1, <1>2, <1>4, <2>1, <2>3 DEF LockInv, PairLocks, Bars, Waiting
  <2>5. th[x].seq # th[t].seq /\ th[x].seq \in Nat /\ th[t].seq \in Nat
    BY <1>1, <2>1, Positions DEF Safe, SchedInv
  <2>6. QED BY <1>1, <2>1, <2>4, <2>5 DEF Ahead
<1>5. ASSUME NEW x \in Threads, NEW s \in Sectors, HoldsSector(x, p, s) PROVE th[t].seq <= th[x].seq
  <2>1. Live(x) /\ Carries(x) /\ p \in PagesOf(th[x])
    BY <1>5, HolderIs
  <2>2. th[x].seq \in Nat /\ th[t].seq \in Nat
    BY <1>1, <2>1, SeqBelow
  <2>3. CASE x = t
    BY <2>2, <2>3
  <2>4. CASE x # t
    <3>1. ~Ahead(x, t)
      BY <1>1, <2>1, <2>4, LockedAlone
    <3>2. QED BY <1>1, <2>1, <2>2, <3>1 DEF Ahead
  <2>5. QED BY <2>3, <2>4
<1>6. QED BY <1>3, <1>4, <1>5

LEMMA DataPlaced ==
  ASSUME Safe, LockInv, PageInv, DataInv, NEW t \in Threads, Write(t), Carries(t), th[t].phase # "LOCK",
         th'[t].phase # "BUFFER", wb' = wb,
         \A n, v : \A p \in Lpns, s \in Sectors :
             (th[t].pages[s[1]] = p => th[t].seq < n) /\ ContentBefore(n, p, s, v)
                 => ContentBefore(n, p, s, v)',
         \A v : Settled(v) => flash'[v].data = flash[v].data,
         \A x \in Threads \ {t}, sp \in SubPages :
             Unissued(x) /\ th[x].pages[sp] # NoPage =>
                 map'[th[x].pages[sp]][sp] = map[th[x].pages[sp]][sp],
         WriterData(t)'
  PROVE  DataInv'
<1>1. /\ Current(t) /\ disk' = disk /\ (\A x \in Threads \ {t} : th'[x] = th[x])
      /\ th'[t].kind = "write" /\ th'[t].seq = th[t].seq /\ th[t].kind = "write" /\ Live(t)
      /\ th[t].phase # "BUFFER"
  <2>1. Shape /\ th[t].kind = "write" /\ th[t].phase # "BUFFER"
    BY DEF Safe, Carries, Unissued
  <2>2. QED BY <2>1, HandlerSteps, StepsKeep DEF Kept, Current
<1>2. ASSUME NEW n, NEW p \in Lpns, NEW s \in Sectors, NEW v, th[t].seq < n, n = Later \/ n \in Nat,
             Expect(n, p, s, v)
      PROVE  Expect(n, p, s, v)'
  <2>1. th[t].seq < Later
    BY <1>1, SeqBelow
  <2>2. ContentBefore(Later, p, s, v) => ContentBefore(Later, p, s, v)'
    BY <2>1
  <2>3. Content(p, s, v) => Content(p, s, v)'
    BY <2>2, ContentStays
  <2>4. \A x \in Threads : FreshWriter(x, p, s)' <=> FreshWriter(x, p, s)
    BY <1>1, SameRecordSame DEF FreshWriter
  <2>5. \A x \in Threads : FreshWriter(x, p, s) => th'[x].seq = th[x].seq
    BY <1>1
  <2>6. QED BY <1>2, <2>3, <2>4, <2>5, ExpectStays
<1>3. DiskIs'
  <2>1. ASSUME NEW p \in Lpns, NEW s \in Sectors PROVE Expect(Later, p, s, disk[p][s])'
    <3>1. PICK v : v = disk[p][s]
      OBVIOUS
    <3>2. th[t].seq < Later
      BY <1>1, SeqBelow
    <3>3. Expect(Later, p, s, v)' /\ disk'[p][s] = v
      BY <1>1, <1>2, <3>1, <3>2 DEF DataInv, DiskIs
    <3>4. QED BY <3>3
  <2>2. QED BY <2>1 DEF DiskIs
<1>4. ASSUME NEW v, NEW x \in Threads \ {t}, NEW s \in Sectors,
              Waiting(x) /\ ContentBefore(th[x].seq, th[x].lpn, s, v)
       PROVE  ContentBefore(th[x].seq, th[x].lpn, s, v)'
  <2>1. PICK n, p : n = th[x].seq /\ p = th[x].lpn
    OBVIOUS
  <2>2. p \in Lpns /\ s[1] \in SubPages
    BY <2>1, WorkTyped, SectorParts DEF Safe, Typed
  <2>3. th[t].pages[s[1]] = p => th[t].seq < n
    BY <1>4, <2>1, <2>2, PlacerAlone
  <2>4. ContentBefore(n, p, s, v)' /\ th'[x].seq = n /\ th'[x].lpn = p
    BY <1>1, <1>4, <2>1, <2>2, <2>3
  <2>5. QED BY <2>4
<1>5. ASSUME NEW v, NEW x \in Threads \ {t}, NEW s \in Sectors,
              FreshReader(x) /\ Expect(th[x].seq, th[x].lpn, s, v)
       PROVE  Expect(th[x].seq, th[x].lpn, s, v)'
  <2>1. PICK n, p : n = th[x].seq /\ p = th[x].lpn
    OBVIOUS
  <2>2. p \in Lpns /\ th[t].seq < n /\ n \in Nat
    <3>1. Fresh(x) /\ ~Fresh(t) /\ Live(x)
      BY <1>1, <1>5 DEF FreshReader, Live, Fresh
    <3>2. QED BY <1>1, <2>1, <3>1, CarriersAhead, SeqBelow, WorkTyped DEF Safe, Typed
  <2>3. Expect(n, p, s, v)' /\ th'[x].seq = n /\ th'[x].lpn = p
    BY <1>1, <1>2, <1>5, <2>1, <2>2
  <2>4. QED BY <2>3
<1>6. OwnersAre' /\ ReaderData(t)'
  BY <1>1 DEF DataInv, OwnersAre, Buffered, ReaderData
<1>7. QED BY <1>1, <1>3, <1>4, <1>5, <1>6, DataElsewhere

LEMMA DataUpdatePmt ==
  ASSUME Safe, LockInv, PageInv, DataInv, NEW t \in Threads, UpdatePmt(t) PROVE DataInv'
<1>1. Write(t) /\ Shape
  BY DEF Write, Safe
<1>2. /\ th[t].kind = "write" /\ th[t].phase = "PMT_UPDATE" /\ th'[t].phase = "FLASH_WRITE"
      /\ th'[t].kind = "write" /\ th'[t].seq = th[t].seq
      /\ map' = [p \in Lpns |-> [sp \in SubPages |->
                    IF th[t].pages[sp] = p THEN th[t].seq ELSE map[p][sp]]]
      /\ wb' = wb /\ flash' = flash /\ (\A x \in Threads \ {t} : th'[x] = th[x])
      /\ th'[t].left = th[t].left /\ th'[t].buf = th[t].buf /\ th'[t].pages = th[t].pages
      /\ th'[t].issued = th[t].issued
  <2>1. Runs(t, "write", "PMT_UPDATE") /\ Goes(t, "FLASH_WRITE")
    BY <1>1, UpdatePmtEffect
  <2>2. QED BY <1>1, <2>1, UpdatePmtEffect DEF Runs, Goes, Kept
<1>3. WriteState(t)
  BY <1>2 DEF Safe, IInv, HandlerOK
<1>4. /\ Carries(t) /\ ~Unissued(t) /\ Unissued(t)' /\ Carries(t)' /\ th[t].phase # "LOCK"
  BY <1>2, <1>3 DEF Carries, Unissued, WriteState
<1>5. ASSUME NEW p \in Lpns, NEW sp \in SubPages
      PROVE  map'[p][sp] = IF th[t].pages[sp] = p THEN th[t].seq ELSE map[p][sp]
  BY <1>2
<1>6. ASSUME NEW p \in Lpns, NEW s \in Sectors, NEW v, StoredIs(p, s, v),
             th[t].pages[s[1]] = p => s \notin th[t].left
      PROVE  StoredIs(p, s, v)'
  <2>1. s[1] \in SubPages
    BY SectorParts
  <2>2. CASE th[t].pages[s[1]] # p
    <3>1. \A x \in Threads : (AtPlace(x, p, s[1])' <=> AtPlace(x, p, s[1])) /\ (AtPlace(x, p, s[1]) => th'[x] = th[x])
      BY <1>2, <2>2, SameRecordSame DEF AtPlace
    <3>2. flash'[map'[p][s[1]]].data[s] = flash[map[p][s[1]]].data[s]
      BY <1>2, <1>5, <2>1, <2>2
    <3>3. QED BY <1>6, <3>1, <3>2, StoredStays
  <2>3. CASE th[t].pages[s[1]] = p
    <3>1. \A x \in Threads \ {t} : ~AtPlace(x, p, s[1]) /\ ~AtPlace(x, p, s[1])'
      BY <1>2, <1>4, <2>1, <2>3, PlacerAlone, SameRecordSame
    <3>2. AtPlace(t, p, s[1])' /\ ~AtPlace(t, p, s[1])
      BY <1>2, <1>4, <2>3 DEF AtPlace
    <3>3. v = flash[map[p][s[1]]].data[s]
      BY <1>6, <3>1, <3>2 DEF StoredIs
    <3>4. th[t].pages[s[1]] # NoPage
      BY <2>3, NullAssumption
    <3>5. th[t].buf[s] = flash[th[t].vps[s[1]]].data[s]
      BY <1>2, <1>4, <1>6, <2>3, <3>4 DEF DataInv, WriterData, Completing
    <3>6. th[t].vps[s[1]] = map[p][s[1]]
      <4>1. s[1] \in th[t].fixed
        BY <1>2, <1>3, <2>1, <3>4 DEF WriteState
      <4>2. QED BY <1>2, <2>3, <3>4, <4>1 DEF PageInv, PageOK, WriterPlaces, Loading
    <3>7. v = th'[t].buf[s]
      BY <1>2, <3>3, <3>5, <3>6
    <3>8. QED BY <3>1, <3>2, <3>7 DEF StoredIs
  <2>4. QED BY <2>2, <2>3
<1>7. ASSUME NEW n, NEW v, NEW p \in Lpns, NEW s \in Sectors, th[t].pages[s[1]] = p => th[t].seq < n,
             ContentBefore(n, p, s, v)
      PROVE  ContentBefore(n, p, s, v)'
  <2>1. \A x \in Threads : (HoldsSector(x, p, s)' <=> HoldsSector(x, p, s))
                /\ th'[x].seq = th[x].seq /\ th'[x].buf = th[x].buf
    BY <1>2, <1>4, SameRecordSame DEF HoldsSector
  <2>2. CASE th[t].pages[s[1]] = p /\ s \in th[t].left
    <3>1. HoldsSector(t, p, s) /\ th[t].seq < n
      BY <1>4, <1>7, <2>2 DEF HoldsSector
    <3>2. ~NoHolder(n, p, s)'
      BY <2>1, <3>1 DEF NoHolder
    <3>3. \A x \in Threads : LastHolder(x, n, p, s)' => LastHolder(x, n, p, s)
      BY <2>1 DEF LastHolder
    <3>4. QED BY <1>7, <2>1, <3>2, <3>3 DEF ContentBefore
  <2>3. CASE ~(th[t].pages[s[1]] = p /\ s \in th[t].left)
    <3>1. StoredIs(p, s, v) => StoredIs(p, s, v)'
      BY <1>6, <2>3
    <3>2. \A x \in Threads : HoldsSector(x, p, s)' <=> HoldsSector(x, p, s)
      BY <2>1
    <3>3. \A x \in Threads : HoldsSector(x, p, s) =>
                  th'[x].seq = th[x].seq /\ th'[x].buf[s] = th[x].buf[s]
      BY <2>1
    <3>4. QED BY <1>7, <3>1, <3>2, <3>3, ContentBeforeStays
  <2>4. QED BY <2>2, <2>3
<1>8. ASSUME NEW x \in Threads \ {t}, NEW sp \in SubPages, Unissued(x), th[x].pages[sp] # NoPage
      PROVE  map'[th[x].pages[sp]][sp] = map[th[x].pages[sp]][sp]
  <2>1. PICK p \in Lpns : p = th[x].pages[sp]
    BY <1>8, PageIn
  <2>2. AtPlace(x, p, sp)
    BY <1>8, <2>1 DEF AtPlace
  <2>3. th[t].pages[sp] # p
    BY <1>4, <2>2, PlacerAlone
  <2>4. QED BY <1>5, <2>1, <2>3
<1>9. WriterData(t)'
  <2>1. ~Fresh(t)' /\ th'[t].phase \notin Completing
    BY <1>2 DEF Fresh, Completing
  <2>2. \A sp \in SubPages : th'[t].pages[sp] # NoPage => \E s \in th'[t].left : s[1] = sp
    BY <1>2, <1>4 DEF DataInv, WriterData
  <2>3. ASSUME NEW sp \in SubPages, th'[t].pages[sp] # NoPage PROVE map'[th'[t].pages[sp]][sp] = th'[t].seq
    <3>1. PICK p \in Lpns : p = th[t].pages[sp]
      BY <1>2, <2>3, PageIn
    <3>2. QED BY <1>2, <1>5, <3>1
  <2>4. QED BY <2>1, <2>2, <2>3 DEF WriterData
<1>10. QED BY <1>1, <1>2, <1>4, <1>7, <1>8, <1>9, DataPlaced

LEMMA DataWritesPage ==
  ASSUME Safe, LockInv, PageInv, DataInv, NEW t \in Threads, IssueWrite(t), WritesPage(t) PROVE DataInv'
<1>1. Write(t) /\ Shape
  BY DEF Write, Safe
<1>2. /\ th[t].kind = "write" /\ th[t].phase = "FLASH_WRITE" /\ th'[t].phase = "FLASH_WRITE"
      /\ th'[t].kind = "write" /\ th[t].issued = {} /\ th'[t].issued = {0}
      /\ wb' = wb /\ map' = map /\ (\A x \in Threads \ {t} : th'[x] = th[x])
      /\ flash' = [flash EXCEPT ![th[t].seq].data = th[t].buf]
  <2>1. Runs(t, "write", "FLASH_WRITE") /\ th[t].issued = {} /\ wb' = wb /\ map' = map
    BY <1>1, IssueWriteEffect
  <2>2. QED BY <2>1 DEF Runs, WritesPage, Sleeps, Kept
<1>3. Unissued(t) /\ Carries(t) /\ Writing(t) /\ ~Unissued(t)' /\ ~Carries(t)' /\ ~Fresh(t)' /\ Live(t)
  BY <1>2 DEF Carries, Unissued, Fresh, Writing, Live
<1>4. th[t].seq \in Vps /\ flash \in [Vps -> PageType]
  BY WorkTyped DEF Safe, Typed, WorldOK, Vps
<1>5. /\ \A s : flash'[th[t].seq].data[s] = th[t].buf[s]
      /\ \A v \in Vps : v # th[t].seq => flash'[v].data = flash[v].data
  BY <1>2, <1>4 DEF PageType
<1>6. \A v : Settled(v) => flash'[v].data = flash[v].data
  <2> SUFFICES ASSUME NEW v, Settled(v) PROVE flash'[v].data = flash[v].data
    OBVIOUS
  <2>1. v \in Vps
    BY SettledVps DEF SettledAre
  <2>2. v # th[t].seq
    BY <1>3 DEF Settled
  <2>3. QED BY <1>5, <2>1, <2>2
<1>7. ASSUME NEW n, NEW v, NEW p \in Lpns, NEW s \in Sectors, th[t].pages[s[1]] = p => th[t].seq < n,
             ContentBefore(n, p, s, v)
      PROVE  ContentBefore(n, p, s, v)'
  <2>1. s[1] \in SubPages
    BY SectorParts
  <2>2. \A x \in Threads : (HoldsSector(x, p, s)' <=> HoldsSector(x, p, s) /\ x # t)
                        /\ (x # t => th'[x] = th[x])
    BY <1>2, <1>3, SameRecordSame DEF HoldsSector
  <2>3. CASE th[t].pages[s[1]] # p
    <3>1. \A x \in Threads : (AtPlace(x, p, s[1])' <=> AtPlace(x, p, s[1])) /\ (AtPlace(x, p, s[1]) => th'[x] = th[x])
      BY <1>2, <1>3, <2>3, SameRecordSame DEF AtPlace
    <3>2. (\A x \in Threads : ~AtPlace(x, p, s[1])) => flash'[map'[p][s[1]]].data[s] = flash[map[p][s[1]]].data[s]
      <4> SUFFICES ASSUME \A x \in Threads : ~AtPlace(x, p, s[1])
                   PROVE  flash'[map'[p][s[1]]].data[s] = flash[map[p][s[1]]].data[s]
        OBVIOUS
      <4>1. Placed(p, s[1])
        BY <2>1 DEF PageInv
      <4>2. Settled(map[p][s[1]])
        BY <4>1 DEF Placed, AtPlace
      <4>3. QED BY <1>2, <1>6, <4>2
    <3>3. StoredIs(p, s, v) => StoredIs(p, s, v)'
      BY <3>1, <3>2 DEF StoredIs
    <3>4. ~HoldsSector(t, p, s)
      BY <2>3 DEF HoldsSector
    <3>5. \A x \in Threads : HoldsSector(x, p, s)' <=> HoldsSector(x, p, s)
      BY <2>2, <3>4
    <3>6. \A x \in Threads : HoldsSector(x, p, s) =>
                  th'[x].seq = th[x].seq /\ th'[x].buf[s] = th[x].buf[s]
      BY <2>2, <3>4
    <3>7. QED BY <1>7, <3>3, <3>5, <3>6, ContentBeforeStays
  <2>4. CASE th[t].pages[s[1]] = p
    <3>1. th[t].seq < n /\ AtPlace(t, p, s[1]) /\ ~AtPlace(t, p, s[1])'
      BY <1>3, <1>7, <2>4 DEF AtPlace
    <3>2. \A x \in Threads \ {t} : ~AtPlace(x, p, s[1]) /\ ~AtPlace(x, p, s[1])'
      BY <1>2, <1>3, <2>1, <2>4, PlacerAlone, SameRecordSame
    <3>3. map[p][s[1]] = th[t].seq
      <4>1. th[t].pages[s[1]] # NoPage
        BY <2>4, NullAssumption
      <4>2. QED BY <1>3, <2>1, <2>4, <4>1 DEF DataInv, WriterData
    <3>4. flash'[map'[p][s[1]]].data[s] = th[t].buf[s]
      BY <1>2, <1>5, <3>3
    <3>5. v = th[t].buf[s] => StoredIs(p, s, v)'
      BY <3>1, <3>2, <3>4 DEF StoredIs
    <3>6. ASSUME NEW x \in Threads, LastHolder(x, n, p, s)' PROVE v = th'[x].buf[s]
      <4>1. x # t /\ HoldsSector(x, p, s) /\ th'[x] = th[x] /\ th[x].seq < n
        BY <2>2, <3>6 DEF LastHolder
      <4>2. th[t].seq <= th[x].seq
        BY <1>3, <2>1, <2>4, <1>2, <4>1, PlacerAlone
      <4>3. LastHolder(x, n, p, s)
        BY <2>2, <3>6, <4>1, <4>2 DEF LastHolder
      <4>4. QED BY <1>7, <4>1, <4>3 DEF ContentBefore
    <3>7. ASSUME NoHolder(n, p, s)' PROVE v = th[t].buf[s]
      <4>1. \A x \in Threads : HoldsSector(x, p, s) /\ x # t => ~(th[x].seq < n)
        BY <2>2, <3>7 DEF NoHolder
      <4>2. CASE HoldsSector(t, p, s)
        <5>1. th[t].seq <= th[t].seq
          BY <1>3, SeqBelow
        <5>2. LastHolder(t, n, p, s)
          BY <3>1, <4>1, <4>2, <5>1 DEF LastHolder
        <5>3. QED BY <1>7, <5>2 DEF ContentBefore
      <4>3. CASE ~HoldsSector(t, p, s)
        <5>1. NoHolder(n, p, s)
          BY <4>1, <4>3 DEF NoHolder
        <5>2. QED BY <1>7, <3>1, <5>1 DEF ContentBefore, StoredIs
      <4>4. QED BY <4>2, <4>3
    <3>8. QED BY <3>5, <3>6, <3>7 DEF ContentBefore
  <2>5. QED BY <2>3, <2>4
<1>8. WriterData(t)'
  BY <1>3 DEF WriterData
<1>9. th[t].phase # "LOCK" /\ th'[t].phase # "BUFFER"
  BY <1>2
<1>10. QED BY <1>1, <1>2, <1>3, <1>6, <1>7, <1>8, <1>9, DataPlaced

-----------------------------------------------------------------------------
(***************************************************************************)
(* The data, with all it rests on.                                         *)
(***************************************************************************)
Safe5 == Safe2 /\ PageInv /\ DataInv

LEMMA DataNext ==
  ASSUME OneUser PROVE Safe2 /\ PageInv /\ DataInv /\ [Next]_vars => DataInv'
<1> SUFFICES ASSUME Safe2, PageInv, DataInv, [Next]_vars PROVE DataInv'
  OBVIOUS
<1>1. Safe /\ LockInv
  BY SafeParts DEF Safe2
<1>2. ASSUME NEW t \in Threads, Read(t) PROVE DataInv'
  BY <1>1, <1>2, DataReader
<1>3. ASSUME NEW t \in Threads, Write(t) PROVE DataInv'
  <2>1. CASE WriteWholePage(t)
    BY <1>1, <2>1, DataWholePage
  <2>2. CASE PushPartialPage(t)
    BY <1>1, <2>2, DataPush
  <2>3. CASE FlushAndPush(t)
    BY <1>1, <2>3, DataFlush
  <2>4. CASE WriteLock(t)
    BY <1>1, <2>4, DataWriteLock
  <2>5. CASE WritePmtLoad(t)
    BY <1>1, <2>5, DataWritePmtLoad
  <2>6. CASE CompleteSubPages(t)
    BY <1>1, <2>6, DataCompleteSubPages
  <2>7. CASE AllocatePage(t) \/ WaitForBank(t)
    BY <1>1, <2>7, DataWaitForBank
  <2>8. CASE UpdatePmt(t)
    BY <1>1, <2>8, DataUpdatePmt
  <2>9. CASE IssueWrite(t)
    <3>1. WritesPage(t) \/ FindsBusy(t)
      BY <1>1, <2>9, IssueWriteEffect DEF Safe
    <3>2. QED BY <1>1, <2>9, <3>1, DataWritesPage, DataIssueWaits
  <2>10. CASE EndWrite(t)
    BY <1>1, <2>10, DataEndWrite
  <2>11. QED BY <1>3, <2>1, <2>2, <2>3, <2>4, <2>5, <2>6, <2>7, <2>8, <2>9, <2>10 DEF Write
<1>4. ASSUME NEW t \in Threads, Finish(t) PROVE DataInv'
  BY <1>1, <1>4, DataFinish
<1>5. ASSUME NEW t \in Threads, NEW c \in Cmds, Accept(t, c) PROVE DataInv'
  BY <1>1, <1>5, DataAccept
<1>6. CASE StartPass \/ Skip \/ UNCHANGED vars
  <2>1. UNCHANGED <<th, wb, map, flash, disk>>
    BY <1>6 DEF StartPass, Skip, vars, sched, pmt, host
  <2>2. QED BY <2>1, DataStay
<1>7. QED BY <1>2, <1>3, <1>4, <1>5, <1>6 DEF Next, Handler

LEMMA Safe5Holds == ASSUME OneUser PROVE Spec => []Safe5
<1>1. Safe2 /\ PageInv /\ [Next]_vars => PageInv'
  BY PageNext
<1>2. Safe2 /\ PageInv /\ DataInv /\ [Next]_vars => DataInv'
  BY DataNext
<1>3. QED BY <1>1, <1>2, PageInit, DataInit, Safe2Holds, PTL DEF Spec, Safe5

(***************************************************************************)
(* Read your writes, in order: a read answers the host with exactly what   *)
(* the commands accepted before it have written, and nothing accepted      *)
(* later, although it drops its page lock before it reads the flash and    *)
(* the data pass through the write buffer.  With one user, the only one    *)
(* the firmware has: with more, a reader without access is given zeros.    *)
(***************************************************************************)
THEOREM ReadsAreSnapshots == ASSUME OneUser PROVE Spec => []ReadsSnapshot
<1>1. Safe5 => ReadsSnapshot
  BY DEF Safe5, DataInv, ReaderData, ReadsSnapshot
<1>2. QED BY <1>1, Safe5Holds, PTL

(***************************************************************************)
(* No update is lost: once every thread has ended, each sector is in the   *)
(* write buffer, or else in the virtual page that the mapping table names. *)
(* With one user: another user's push drops sectors from the write buffer. *)
(***************************************************************************)
THEOREM NothingIsLost == ASSUME OneUser PROVE Spec => []NothingLost
<1>1. ASSUME Safe5 PROVE NothingLost
  <2> SUFFICES ASSUME queue = <<>>, NEW p \in Lpns, NEW s \in Sectors
               PROVE  disk[p][s] = IF Buffer!InBuffer(p, s) THEN wb[p][s].val
                                   ELSE flash[map[p][s[1]]].data[s]
    BY DEF NothingLost
  <2>1. \A x \in Threads : ~Live(x)
    <3>1. Listed
      BY <1>1 DEF Safe5, Safe2, Safe1, SchedInv
    <3>2. Len(queue) = 0
      OBVIOUS
    <3>3. QED BY <3>1, <3>2 DEF Listed
  <2>2. \A x \in Threads : ~Carries(x) /\ ~Unissued(x) /\ ~FreshWriter(x, p, s)
    BY <2>1 DEF Carries, Unissued, FreshWriter, Live
  <2>3. PICK v : v = disk[p][s]
    OBVIOUS
  <2>4. Expect(Later, p, s, v)
    BY <1>1, <2>3 DEF Safe5, DataInv, DiskIs
  <2>5. Content(p, s, v)
    BY <2>2, <2>4 DEF Expect, NoWriter
  <2>6. ContentBefore(Later, p, s, v) => v = flash[map[p][s[1]]].data[s]
    BY <2>2 DEF ContentBefore, NoHolder, HoldsSector, StoredIs, AtPlace
  <2>7. QED BY <2>3, <2>5, <2>6 DEF Content, Buffered, Buffer!InBuffer
<1>2. QED BY <1>1, Safe5Holds, PTL
=============================================================================

--------------------------- MODULE SataEvents_proofs ---------------------------
(***************************************************************************)
(* The SATA front end, for any number of commands and resets, any length   *)
(* of the event queue and any number of tasks: the hardware moves data     *)
(* only for the host, slow commands run alone and whole, and the host      *)
(* never waits for something that the device has forgotten.                *)
(***************************************************************************)
EXTENDS SataEvents, FiniteSetTheorems, TLAPS

(***************************************************************************)
(* The inductive invariant.                                                *)
(***************************************************************************)
Transfers(c) == kind[c] \in {"read", "write"}

\* The host waits for c, or has given it up.
Expected(c) == c = host \/ c \in aborted

\* Commands are numbered as the host sends them, and it waits for the last.
HostWaitsForLast == host \in Cmds => host = sent

\* A reset that is under way has the host waiting for its end.
HostWaitsForReset ==
    ~link \/ toggle # "off" \/ "PHY_ONLINE" \in irq => host = ATA_SRST

\* A command that has not been handled is newer than any that moves or waits
\* to; if the host has given it up, by a reset that is not in the mailbox yet.
ReceivedIsLast ==
    "CMD_RECV" \in irq =>
        /\ cfis = sent /\ sent \in Cmds
        /\ moving < sent
        /\ eq_full => g_sata_action_flags < sent
        /\ host = sent \/ (sent \in aborted /\ host = ATA_SRST /\ ResetUnderWay)

MovingExpected == moving # NoCmd => Transfers(moving) /\ Expected(moving)

\* The transfer that waits is newer than the one that is under way.
WaitingExpected ==
    eq_full =>
        /\ g_sata_action_flags \in Cmds
        /\ Transfers(g_sata_action_flags) /\ Expected(g_sata_action_flags)
        /\ moving < g_sata_action_flags

\* The handler sees every edge of SRST, or the reset is lost.
EdgesSeen ==
    /\ "REG_FIS_RECV" \in irq => toggle # "off"
    /\ toggle = "falling" => "REG_FIS_RECV" \in irq
    /\ toggle = "falling" \/ (toggle = "on" /\ "REG_FIS_RECV" \notin irq) =>
           srst \/ ATA_SRST \in lost

\* Until the handler has seen the link come up, it sees nothing else.
OnlineFirst ==
    \/ int_enable = Interrupts
    \/ /\ int_enable = {"PHY_ONLINE"} /\ "PHY_ONLINE" \in irq
       /\ toggle # "falling" /\ (toggle = "on" => "REG_FIS_RECV" \in irq)

\* What is in the mailbox, or runs, is a reset the host waits for or a slow
\* command that it waits for or has given up.
Wanted(c) ==
    IF c = ATA_SRST
    THEN host = ATA_SRST /\ "CMD_RECV" \notin irq
    ELSE c \in 1 .. sent /\ kind[c] = "slow" /\ Expected(c)

MailWanted ==
    /\ slow_cmd.code = slow_cmd.lba
    /\ slow_cmd.status = "PENDING" /\ pc # "done" => Wanted(slow_cmd.code)

RunWanted ==
    /\ pc = "code" => Wanted(slow_cmd.code)
    /\ pc \in {"lba", "answer"} => Wanted(run.code)

\* Between the two reads of the mailbox the command may only be replaced after
\* the host has given it up.
ReadsOneCommand == pc = "lba" => run.code = slow_cmd.code \/ run.code \in aborted

\* From the moment ftl_main has found the FTL idle.
IdleStays ==
    pc \in {"code", "lba", "answer", "done"} \/ (pc = "check" /\ idle) =>
        tasks = {} /\ sata_cmd = NoCmd /\ ToSet(eq) \subseteq late

Types == TypeOK /\ eq \in Seq(1 .. sent)

Arrivals ==
    /\ HostWaitsForLast /\ HostWaitsForReset /\ ReceivedIsLast
    /\ EdgesSeen /\ OnlineFirst

Moves == MovingExpected /\ WaitingExpected /\ DeferredIsQueued

Mailbox == MailWanted /\ RunWanted /\ ReadsOneCommand /\ RunsWhole

IInv == Types /\ Arrivals /\ Moves /\ Mailbox /\ IdleStays /\ HostIsServed

LEMMA TasksFinite ==
  ASSUME Types
  PROVE  IsFiniteSet(tasks) /\ Cardinality(tasks) \in Nat
<1>1. IsFiniteSet(1 .. sent)
  BY FS_Interval, BoundsAssumption DEF Types, TypeOK
<1>2. IsFiniteSet(tasks)
  BY <1>1, FS_Subset DEF Types, TypeOK
<1>3. QED BY <1>2, FS_CardinalityType

LEMMA HandlerEnabled ==
  ASSUME Types, OnlineFirst
  PROVE  /\ masked = {} => irq = {}
         /\ "REG_FIS_RECV" \in masked => int_enable = Interrupts
         /\ int_enable = Interrupts => masked = irq
BY DEF Types, TypeOK, OnlineFirst, masked, Interrupts

(***************************************************************************)
(* The steps of the host, the handler, the FTL and the loop, one by one.   *)
(***************************************************************************)
\* The host sends a command.
LEMMA SendStep ==
  ASSUME IInv, NEW k \in Kinds, Send(k)
  PROVE  IInv'
<1>1. Types'
  BY BoundsAssumption, SMTT(20) DEF IInv, Send, Types, TypeOK, Cmds, ATA_SRST,
     CmdIds, ftlVars, mainVars, queue, Interrupts
<1>2. Arrivals'
  BY BoundsAssumption, SMTT(20) DEF IInv, Send, Arrivals, HostWaitsForLast,
     HostWaitsForReset, ReceivedIsLast, EdgesSeen, OnlineFirst, ResetUnderWay,
     Types, TypeOK, Cmds, ATA_SRST, queue, ftlVars, mainVars
<1>3. Moves'
  BY SMTT(20) DEF IInv, Send, Moves, MovingExpected, WaitingExpected,
     DeferredIsQueued, Transfers, Expected, Types, TypeOK, queue, ftlVars, mainVars
<1>4. Mailbox'
  BY BoundsAssumption, SMTT(20) DEF IInv, Send, Mailbox, MailWanted, RunWanted,
     ReadsOneCommand, RunsWhole, Wanted, Expected, Types, TypeOK, NoCmd, ATA_SRST,
     ftlVars, mainVars, queue
<1>5. IdleStays'
  BY SMTT(20) DEF IInv, Send, IdleStays, ftlVars, mainVars, queue
<1>6. HostIsServed'
  BY BoundsAssumption, SMTT(20) DEF IInv, Send, HostIsServed, CmdHandled, Types,
     TypeOK, ATA_SRST, queue, ftlVars, mainVars
<1>7. QED BY <1>1, <1>2, <1>3, <1>4, <1>5, <1>6 DEF IInv

\* The data of a command has moved.
LEMMA CompleteStep ==
  ASSUME IInv, Complete
  PROVE  IInv'
<1>1. Types'
  BY BoundsAssumption, SMTT(20) DEF IInv, Complete, Types, TypeOK, NoCmd, ATA_SRST,
     CmdIds, mainVars, queue, regs
<1>2. Arrivals'
  BY BoundsAssumption, SMTT(20) DEF IInv, Complete, Arrivals, HostWaitsForLast,
     HostWaitsForReset, ReceivedIsLast, EdgesSeen, OnlineFirst, ResetUnderWay, Cmds,
     NoCmd, ATA_SRST, regs, queue
<1>3. Moves'
  BY SMTT(20) DEF IInv, Complete, Moves, MovingExpected, WaitingExpected,
     DeferredIsQueued, Transfers, Expected, Cmds, NoCmd, queue
<1>4. Mailbox'
  BY BoundsAssumption, SMTT(20) DEF IInv, Complete, Mailbox, MailWanted, RunWanted,
     ReadsOneCommand, RunsWhole, Wanted, Expected, Moves, MovingExpected, Transfers,
     Cmds, ATA_SRST, mainVars
<1>5. IdleStays'
  BY SMTT(20) DEF IInv, Complete, IdleStays, mainVars, queue
<1>6. HostIsServed'
  BY SMTT(20) DEF Complete, HostIsServed
<1>7. QED BY <1>1, <1>2, <1>3, <1>4, <1>5, <1>6 DEF IInv

\* The host sets SRST, and gives up what it waits for.
LEMMA SetSrstStep ==
  ASSUME IInv, SetSrst
  PROVE  IInv'
<1>1. Types'
  BY BoundsAssumption, SMTT(20) DEF IInv, SetSrst, GiveUp, Types, TypeOK, NoCmd,
     ATA_SRST, CmdIds, mainVars, queue, Interrupts
<1>2. Arrivals'
  BY BoundsAssumption, SMTT(20) DEF IInv, SetSrst, GiveUp, Arrivals,
     HostWaitsForLast, HostWaitsForReset, ReceivedIsLast, EdgesSeen, OnlineFirst,
     ResetUnderWay, Cmds, ATA_SRST, queue
<1>3. Moves'
  BY BoundsAssumption, SMTT(20) DEF IInv, SetSrst, GiveUp, Moves, MovingExpected,
     WaitingExpected, DeferredIsQueued, Transfers, Expected, Types, TypeOK, Cmds,
     NoCmd, queue, mainVars
<1>4. Mailbox'
  BY BoundsAssumption, SMTT(20) DEF IInv, SetSrst, GiveUp, Mailbox, MailWanted,
     RunWanted, ReadsOneCommand, RunsWhole, Wanted, Expected, Types, TypeOK, Cmds,
     mainVars, queue
<1>5. IdleStays'
  BY SMTT(20) DEF IInv, SetSrst, GiveUp, IdleStays, mainVars, queue
<1>6. HostIsServed'
  BY SMTT(20) DEF SetSrst, GiveUp, HostIsServed, ResetUnderWay
<1>7. QED BY <1>1, <1>2, <1>3, <1>4, <1>5, <1>6 DEF IInv

\* The host clears SRST.
LEMMA ClearSrstStep ==
  ASSUME IInv, ClearSrst
  PROVE  IInv'
<1>1. Types'
  BY SMTT(20) DEF IInv, ClearSrst, Types, TypeOK, ftlVars, mainVars, queue, regs,
     Interrupts
<1>2. Arrivals'
  BY SMTT(20) DEF IInv, ClearSrst, Arrivals, HostWaitsForLast, HostWaitsForReset,
     ReceivedIsLast, EdgesSeen, OnlineFirst, ResetUnderWay, queue, regs
<1>3. Moves'
  BY SMTT(20) DEF IInv, ClearSrst, Moves, MovingExpected, WaitingExpected,
     DeferredIsQueued, Transfers, Expected, queue
<1>4. Mailbox'
  BY SMTT(20) DEF IInv, ClearSrst, Mailbox, MailWanted, RunWanted, ReadsOneCommand,
     RunsWhole, Wanted, Expected, mainVars
<1>5. IdleStays'
  BY SMTT(20) DEF IInv, ClearSrst, IdleStays, ftlVars, mainVars, queue
<1>6. HostIsServed'
  BY SMTT(20) DEF IInv, ClearSrst, HostIsServed, ResetUnderWay, Arrivals,
     HostWaitsForReset, regs
<1>7. QED BY <1>1, <1>2, <1>3, <1>4, <1>5, <1>6 DEF IInv

\* The link goes down.
LEMMA LinkDownStep ==
  ASSUME IInv, LinkDown
  PROVE  IInv'
<1>1. Types'
  <2>1. resets \in 0 .. MaxResets /\ resets' = resets + 1 /\ resets < MaxResets
    BY DEF IInv, LinkDown, GiveUp, Types, TypeOK, queue, mainVars
  <2>2. resets' \in 0 .. MaxResets
    BY <2>1, BoundsAssumption
  <2>3. aborted' \subseteq Cmds /\ irq' \subseteq Interrupts
    BY DEF IInv, LinkDown, GiveUp, Types, TypeOK, queue, mainVars
  <2>4. host' \in CmdIds
    BY BoundsAssumption DEF LinkDown, GiveUp, CmdIds, ATA_SRST, NoCmd
  <2>5. moving' \in NoCmd .. sent
    BY BoundsAssumption DEF LinkDown, IInv, Types, TypeOK, NoCmd
  <2>6. link' \in BOOLEAN /\ toggle' \in {"off", "on", "falling"}
    BY DEF LinkDown
  <2>7. /\ UNCHANGED <<kind, sent, int_enable, cfis, queue, srst, slow_cmd>>
        /\ UNCHANGED <<sata_cmd, tasks, mainVars, late>>
        /\ wbuf' \in Nat /\ lost' \subseteq CmdIds
    BY SMT DEF LinkDown, GiveUp, IInv, Types, TypeOK
  <2>8. QED BY <2>2, <2>3, <2>4, <2>5, <2>6, <2>7, SMTT(30)
            DEF IInv, Types, TypeOK, queue, mainVars
<1>2. Arrivals'
  BY BoundsAssumption, SMTT(20) DEF IInv, LinkDown, GiveUp, Arrivals,
     HostWaitsForLast, HostWaitsForReset, ReceivedIsLast, EdgesSeen, OnlineFirst,
     ResetUnderWay, Cmds, NoCmd, ATA_SRST, queue
<1>3. Moves'
  BY SMTT(20) DEF IInv, LinkDown, GiveUp, Moves, MovingExpected, WaitingExpected,
     DeferredIsQueued, Transfers, Expected, Cmds, NoCmd, queue
<1>4. Mailbox'
  BY BoundsAssumption, SMTT(20) DEF IInv, LinkDown, GiveUp, Mailbox, MailWanted,
     RunWanted, ReadsOneCommand, RunsWhole, Wanted, Expected, Types, TypeOK, Cmds,
     mainVars, queue
<1>5. IdleStays'
  BY SMTT(20) DEF IInv, LinkDown, GiveUp, IdleStays, mainVars, queue
<1>6. HostIsServed'
  BY SMTT(20) DEF LinkDown, GiveUp, HostIsServed, ResetUnderWay
<1>7. QED BY <1>1, <1>2, <1>3, <1>4, <1>5, <1>6 DEF IInv

\* The link is up again.
LEMMA LinkUpStep ==
  ASSUME IInv, LinkUp
  PROVE  IInv'
<1>1. Types'
  BY SMTT(20) DEF IInv, LinkUp, Types, TypeOK, hostVars, ftlVars, mainVars, queue,
     Interrupts
<1>2. Arrivals'
  BY SMTT(20) DEF IInv, LinkUp, Arrivals, HostWaitsForLast, HostWaitsForReset,
     ReceivedIsLast, EdgesSeen, OnlineFirst, ResetUnderWay, hostVars, queue
<1>3. Moves'
  BY SMTT(20) DEF IInv, LinkUp, Moves, MovingExpected, WaitingExpected,
     DeferredIsQueued, Transfers, Expected, hostVars, queue
<1>4. Mailbox'
  BY SMTT(20) DEF IInv, LinkUp, Mailbox, MailWanted, RunWanted, ReadsOneCommand,
     RunsWhole, Wanted, Expected, hostVars, mainVars
<1>5. IdleStays'
  BY SMTT(20) DEF IInv, LinkUp, IdleStays, ftlVars, mainVars, queue
<1>6. HostIsServed'
  BY SMTT(20) DEF IInv, LinkUp, HostIsServed, ResetUnderWay, Arrivals,
     HostWaitsForReset, hostVars
<1>7. QED BY <1>1, <1>2, <1>3, <1>4, <1>5, <1>6 DEF IInv

\* The handler refuses a command.
LEMMA RefuseStep ==
  ASSUME IInv, handle_got_cfis, RefuseCmd
  PROVE  IInv'
<1>1. Types'
  <2>1. cfis \in Cmds
    BY DEF IInv, handle_got_cfis, masked, Arrivals, ReceivedIsLast, regs
  <2>2. kind' \in [Cmds -> Kinds]
    BY <2>1 DEF IInv, RefuseCmd, Types, TypeOK, Kinds, queue
  <2>3. host' \in CmdIds
    BY BoundsAssumption DEF IInv, RefuseCmd, Types, TypeOK, CmdIds, NoCmd, ATA_SRST,
       queue
  <2>4. irq' \subseteq Interrupts
    BY DEF IInv, handle_got_cfis, masked, Types, TypeOK, regs, ftlVars, mainVars
  <2>5. QED BY <2>2, <2>3, <2>4, SMTT(20)
            DEF IInv, handle_got_cfis, masked, RefuseCmd, Types, TypeOK, ftlVars,
                mainVars, queue, regs
<1>2. Arrivals'
  BY BoundsAssumption, SMTT(20) DEF IInv, handle_got_cfis, masked, RefuseCmd,
     Arrivals, HostWaitsForLast, HostWaitsForReset, ReceivedIsLast, EdgesSeen,
     OnlineFirst, ResetUnderWay, Types, TypeOK, Cmds, NoCmd, ATA_SRST, CmdIds, regs,
     queue, ftlVars, mainVars
<1>3. Moves'
  BY SMTT(20) DEF IInv, handle_got_cfis, masked, RefuseCmd, Moves, MovingExpected,
     WaitingExpected, DeferredIsQueued, Transfers, Expected, queue, regs
<1>4. Mailbox'
  BY SMTT(20) DEF IInv, handle_got_cfis, masked, RefuseCmd, Mailbox, MailWanted,
     RunWanted, ReadsOneCommand, RunsWhole, Wanted, Expected, mainVars, regs
<1>5. IdleStays'
  BY SMTT(20) DEF IInv, handle_got_cfis, masked, RefuseCmd, IdleStays, ftlVars,
     mainVars, queue, regs
<1>6. HostIsServed'
  BY SMTT(20) DEF IInv, handle_got_cfis, masked, RefuseCmd, HostIsServed,
     ResetUnderWay, Arrivals, ReceivedIsLast, regs, queue
<1>7. QED BY <1>1, <1>2, <1>3, <1>4, <1>5, <1>6 DEF IInv

\* The handler queues a read or a write.
LEMMA QueueStep ==
  ASSUME IInv, handle_got_cfis, QueueCmd
  PROVE  IInv'
<1>1. Types'
  <2>1. cfis = sent /\ sent \in Cmds
    BY DEF IInv, handle_got_cfis, masked, Arrivals, ReceivedIsLast, regs
  <2>2. sent \in 1 .. sent
    BY <2>1 DEF Cmds
  <2>3. eq' \in Seq(1 .. sent) /\ eq' \in Seq(Cmds)
    BY <2>1, <2>2, SMT DEF IInv, QueueCmd, Types, TypeOK
  <2>4. late' \subseteq Cmds
    BY <2>1 DEF IInv, QueueCmd, Types, TypeOK
  <2>5. /\ eq_full' \in BOOLEAN /\ g_sata_action_flags' \in NoCmd .. sent
        /\ moving' \in NoCmd .. sent
    BY <2>1 DEF IInv, QueueCmd, Types, TypeOK
  <2>6. irq' \subseteq Interrupts
    BY DEF IInv, handle_got_cfis, masked, Types, TypeOK, regs, ftlVars, mainVars
  <2>7. QED BY <2>3, <2>4, <2>5, <2>6, SMTT(20)
            DEF IInv, handle_got_cfis, masked, QueueCmd, Types, TypeOK, ftlVars,
                mainVars, regs
<1>2. Arrivals'
  BY SMTT(20) DEF IInv, handle_got_cfis, masked, QueueCmd, Arrivals,
     HostWaitsForLast, HostWaitsForReset, ReceivedIsLast, EdgesSeen, OnlineFirst,
     ResetUnderWay, regs
<1>3. Moves'
  BY BoundsAssumption, SMTT(20) DEF IInv, handle_got_cfis, masked, QueueCmd, Moves,
     MovingExpected, WaitingExpected, DeferredIsQueued, Transfers, Expected,
     Arrivals, ReceivedIsLast, regs
<1>4. Mailbox'
  BY SMTT(20) DEF IInv, handle_got_cfis, masked, QueueCmd, Mailbox, MailWanted,
     RunWanted, ReadsOneCommand, RunsWhole, Wanted, Expected, mainVars, regs
<1>5. IdleStays'
  BY SMTT(20) DEF IInv, QueueCmd, handle_got_cfis, IdleStays, Types, TypeOK, ToSet,
     ftlVars, mainVars, regs
<1>6. HostIsServed'
  BY SMTT(20) DEF IInv, handle_got_cfis, masked, QueueCmd, HostIsServed, InMail,
     Runs, CmdHandled, ResetUnderWay, Arrivals, ReceivedIsLast, mainVars, regs
<1>7. QED BY <1>1, <1>2, <1>3, <1>4, <1>5, <1>6 DEF IInv

\* The handler puts a slow command into the mailbox.
LEMMA MailStep ==
  ASSUME IInv, handle_got_cfis, MailCmd
  PROVE  IInv'
<1>1. Types'
  BY BoundsAssumption, SMTT(20) DEF IInv, handle_got_cfis, masked, MailCmd, NewMail,
     Mail, Types, TypeOK, ATA_SRST, CmdIds, ftlVars, mainVars, queue, regs
<1>2. Arrivals'
  BY SMTT(20) DEF IInv, handle_got_cfis, masked, MailCmd, Arrivals,
     HostWaitsForLast, HostWaitsForReset, ReceivedIsLast, EdgesSeen, OnlineFirst,
     ResetUnderWay, regs, queue
<1>3. Moves'
  BY SMTT(20) DEF IInv, handle_got_cfis, masked, MailCmd, Moves, MovingExpected,
     WaitingExpected, DeferredIsQueued, Transfers, Expected, queue, regs
<1>4. Mailbox'
  BY SMTT(20) DEF IInv, handle_got_cfis, masked, MailCmd, NewMail, Mail, Mailbox,
     MailWanted, RunWanted, ReadsOneCommand, RunsWhole, Wanted, Expected, Arrivals,
     ReceivedIsLast, Cmds, mainVars, regs, queue
<1>5. IdleStays'
  BY SMTT(20) DEF IInv, handle_got_cfis, masked, MailCmd, IdleStays, ftlVars,
     mainVars, queue, regs
<1>6. HostIsServed'
  BY SMTT(20) DEF IInv, handle_got_cfis, masked, MailCmd, NewMail, Mail,
     HostIsServed, InMail, ResetUnderWay, Arrivals, ReceivedIsLast, regs, queue
<1>7. QED BY <1>1, <1>2, <1>3, <1>4, <1>5, <1>6 DEF IInv

\* The handler sees SRST rise or fall.
LEMMA SrstStep ==
  ASSUME IInv, handle_srst
  PROVE  IInv'
<1>1. Types'
  BY BoundsAssumption, SMTT(20) DEF IInv, handle_srst, NewMail, Mail, Types, TypeOK,
     NoCmd, ATA_SRST, CmdIds, ftlVars, mainVars, queue, regs
<1>a. /\ int_enable = Interrupts /\ "REG_FIS_RECV" \in irq /\ "CMD_RECV" \notin irq
      /\ host = ATA_SRST
  BY HandlerEnabled
     DEF IInv, handle_srst, Arrivals, EdgesSeen, HostWaitsForReset, masked
<1>2. Arrivals'
  <2>1. HostWaitsForLast' /\ HostWaitsForReset' /\ OnlineFirst'
    BY <1>a DEF IInv, handle_srst, Arrivals, HostWaitsForLast, HostWaitsForReset,
       OnlineFirst, regs
  <2>2. ReceivedIsLast'
    BY <1>a DEF handle_srst, ReceivedIsLast
  <2>3. EdgesSeen'
    BY <1>a DEF IInv, handle_srst, Arrivals, EdgesSeen, Types, TypeOK
  <2>4. QED BY <2>1, <2>2, <2>3 DEF Arrivals
<1>3. Moves'
  BY SMTT(20) DEF IInv, handle_srst, Moves, MovingExpected, WaitingExpected,
     DeferredIsQueued, Transfers, Expected, Cmds, NoCmd, queue
<1>4. Mailbox'
  BY <1>a, SMTT(20) DEF IInv, handle_srst, NewMail, Mail, Mailbox, MailWanted,
     RunWanted, ReadsOneCommand, RunsWhole, Wanted, Expected, Arrivals,
     HostWaitsForReset, ResetUnderWay, mainVars, regs
<1>5. IdleStays'
  BY SMTT(20) DEF IInv, handle_srst, IdleStays, ftlVars, mainVars, queue
<1>6. HostIsServed'
  <2>1. host' = ATA_SRST /\ lost' = lost
    BY <1>a DEF handle_srst
  <2>2. CASE toggle = "on"
    BY <2>1, <2>2 DEF handle_srst, HostIsServed, ResetUnderWay
  <2>3. CASE toggle = "falling" /\ srst
    BY <2>1, <2>3 DEF handle_srst, NewMail, Mail, HostIsServed, InMail
  <2>4. CASE toggle = "falling" /\ ~srst
    BY <2>1, <2>4 DEF IInv, Arrivals, EdgesSeen, HostIsServed
  <2>5. QED BY <1>a, <2>2, <2>3, <2>4 DEF IInv, Arrivals, EdgesSeen, Types, TypeOK
<1>7. QED BY <1>1, <1>2, <1>3, <1>4, <1>5, <1>6 DEF IInv

\* The handler sees the link come up.
LEMMA OnlineStep ==
  ASSUME IInv, phy_online
  PROVE  IInv'
<1>a. "PHY_ONLINE" \in irq /\ host = ATA_SRST
  BY DEF IInv, phy_online, Arrivals, HostWaitsForReset, masked
<1>b. toggle # "falling"
  BY DEF IInv, phy_online, Arrivals, EdgesSeen, OnlineFirst, masked, Interrupts
<1>1. Types'
  BY BoundsAssumption, SMTT(20) DEF IInv, phy_online, NewMail, Mail, Types, TypeOK,
     NoCmd, ATA_SRST, CmdIds, hostVars, ftlVars, mainVars, queue
<1>2. Arrivals'
  BY <1>a, <1>b, SMTT(20) DEF IInv, phy_online, Arrivals, HostWaitsForLast,
     HostWaitsForReset, ReceivedIsLast, EdgesSeen, OnlineFirst, ResetUnderWay,
     hostVars, queue
<1>3. Moves'
  BY SMTT(20) DEF IInv, phy_online, Moves, MovingExpected, WaitingExpected,
     DeferredIsQueued, Transfers, Expected, hostVars, queue
<1>4. Mailbox'
  BY <1>a, SMTT(20) DEF IInv, phy_online, NewMail, Mail, Mailbox, MailWanted,
     RunWanted, ReadsOneCommand, RunsWhole, Wanted, Expected, Arrivals,
     HostWaitsForReset, ResetUnderWay, hostVars, mainVars
<1>5. IdleStays'
  BY SMTT(20) DEF IInv, phy_online, IdleStays, ftlVars, mainVars, queue
<1>6. HostIsServed'
  BY <1>a, SMTT(20) DEF IInv, phy_online, NewMail, Mail, HostIsServed, InMail,
     ResetUnderWay, Arrivals, HostWaitsForReset, hostVars
<1>7. QED BY <1>1, <1>2, <1>3, <1>4, <1>5, <1>6 DEF IInv

\* The FTL takes a command from the queue.
LEMMA GetStep ==
  ASSUME IInv, irq = {}, eventq_get
  PROVE  IInv'
<1>1. Types'
  <2>1. Head(eq) \in 1 .. sent /\ eq' \in Seq(1 .. sent) /\ eq' \in Seq(Cmds)
    BY SMT DEF IInv, eventq_get, Types, TypeOK
  <2>2. sata_cmd' \in NoCmd .. sent
    BY <2>1 DEF eventq_get, NoCmd
  <2>3. moving' \in NoCmd .. sent /\ eq_full' \in BOOLEAN
    BY DEF IInv, eventq_get, FullAfterGet, Types, TypeOK
  <2>4. TypeOK'
    BY <2>1, <2>2, <2>3, SMTT(30)
       DEF IInv, eventq_get, Types, TypeOK, hostVars, regs, mainVars
  <2>5. sent' = sent
    BY DEF eventq_get, hostVars
  <2>6. QED BY <2>1, <2>4, <2>5 DEF Types
<1>2. Arrivals'
  BY SMTT(20) DEF IInv, eventq_get, Arrivals, HostWaitsForLast, HostWaitsForReset,
     ReceivedIsLast, EdgesSeen, OnlineFirst, ResetUnderWay, hostVars, regs
<1>3. Moves'
  BY SMTT(20) DEF IInv, eventq_get, Starts, FullAfterGet, Moves, MovingExpected,
     WaitingExpected, DeferredIsQueued, Transfers, Expected, hostVars, regs
<1>4. Mailbox'
  BY SMTT(20) DEF IInv, eventq_get, Mailbox, MailWanted, RunWanted, ReadsOneCommand,
     RunsWhole, Wanted, Expected, hostVars, mainVars
<1>5. IdleStays'
  BY SMTT(20) DEF eventq_get, IdleStays, mainVars
<1>6. HostIsServed'
  BY BoundsAssumption, SMTT(20) DEF IInv, eventq_get, Starts, HostIsServed, InMail,
     Runs, CmdHandled, ResetUnderWay, Arrivals, HostWaitsForLast, HostWaitsForReset,
     Moves, WaitingExpected, Types, TypeOK, Cmds, NoCmd, hostVars, regs, mainVars
<1>7. QED BY <1>1, <1>2, <1>3, <1>4, <1>5, <1>6 DEF IInv

\* The FTL accepts the command it has taken.
LEMMA AcceptStep ==
  ASSUME IInv, AcceptRead \/ AcceptWrite
  PROVE  IInv'
<1>a. PICK k \in {"read", "write"} : Accept(k)
  BY DEF AcceptRead, AcceptWrite
<1>b. pc = "ftl_main" /\ sata_cmd # NoCmd /\ wbuf' \in Nat
  BY <1>a, SMT DEF AcceptRead, AcceptWrite, Accept, IInv, Types, TypeOK
<1>1. Types'
  <2>1. sata_cmd \in 1 .. sent
    BY <1>b DEF IInv, Types, TypeOK, NoCmd
  <2>2. tasks' \subseteq 1 .. sent /\ sata_cmd' \in NoCmd .. sent
    BY <1>a, <2>1 DEF IInv, Accept, Types, TypeOK, NoCmd
  <2>3. Cardinality(tasks') <= MaxTasks
    <3>1. IsFiniteSet(tasks) /\ Cardinality(tasks) \in Nat
      BY TasksFinite DEF IInv
    <3>2. Cardinality(tasks') <= Cardinality(tasks) + 1
      BY <1>a, <3>1, FS_AddElement DEF Accept
    <3>3. Cardinality(tasks') \in Nat
      BY <1>a, <3>1, FS_AddElement, FS_CardinalityType DEF Accept
    <3>4. QED BY <1>a, <3>1, <3>2, <3>3, BoundsAssumption DEF Accept,
              thread_can_allocate
  <2>4. QED BY <1>a, <1>b, <2>2, <2>3, SMTT(30)
            DEF IInv, Accept, Types, TypeOK, hostVars, regs, queue, mainVars
<1>2. Arrivals'
  BY <1>a, SMTT(20) DEF IInv, Accept, Arrivals, HostWaitsForLast, HostWaitsForReset,
     ReceivedIsLast, EdgesSeen, OnlineFirst, ResetUnderWay, hostVars, regs, queue
<1>3. Moves'
  BY <1>a, SMTT(20) DEF IInv, Accept, Moves, MovingExpected, WaitingExpected,
     DeferredIsQueued, Transfers, Expected, hostVars, queue
<1>4. Mailbox'
  BY <1>a, SMTT(20) DEF IInv, Accept, Mailbox, MailWanted, RunWanted,
     ReadsOneCommand, RunsWhole, Wanted, Expected, hostVars, mainVars
<1>5. IdleStays'
  BY <1>a, <1>b DEF Accept, IdleStays, mainVars
<1>6. HostIsServed'
  BY <1>a, SMTT(20) DEF IInv, Accept, HostIsServed, InMail, Runs, CmdHandled,
     ResetUnderWay, hostVars, regs, queue, mainVars
<1>7. QED BY <1>1, <1>2, <1>3, <1>4, <1>5, <1>6 DEF IInv

\* The FTL finishes a command.
LEMMA FinishStep ==
  ASSUME IInv, NEW c \in Cmds, FinishTask(c)
  PROVE  IInv'
<1>1. Types'
  <2>1. IsFiniteSet(tasks) /\ Cardinality(tasks) \in Nat /\ Cardinality(tasks) <= MaxTasks
    BY TasksFinite DEF IInv, Types, TypeOK
  <2>2. tasks' \subseteq tasks
    BY DEF FinishTask
  <2>3. Cardinality(tasks') \in Nat /\ Cardinality(tasks') <= Cardinality(tasks)
    BY <2>1, <2>2, FS_Subset, FS_CardinalityType
  <2>4. Cardinality(tasks') <= MaxTasks
    BY <2>1, <2>3, BoundsAssumption
  <2>5. QED BY <2>2, <2>4, SMTT(20) DEF IInv, FinishTask, Types, TypeOK, hostVars,
            queue, regs, mainVars
<1>2. Arrivals'
  BY SMTT(20) DEF IInv, FinishTask, Arrivals, HostWaitsForLast, HostWaitsForReset,
     ReceivedIsLast, EdgesSeen, OnlineFirst, ResetUnderWay, hostVars, queue, regs
<1>3. Moves'
  BY SMTT(20) DEF IInv, FinishTask, Moves, MovingExpected, WaitingExpected,
     DeferredIsQueued, Transfers, Expected, hostVars, queue
<1>4. Mailbox'
  BY SMTT(20) DEF IInv, FinishTask, Mailbox, MailWanted, RunWanted, ReadsOneCommand,
     RunsWhole, Wanted, Expected, hostVars, mainVars
<1>5. IdleStays'
  BY SMTT(20) DEF FinishTask, IdleStays, queue, mainVars
<1>6. HostIsServed'
  BY SMTT(20) DEF IInv, FinishTask, HostIsServed, InMail, Runs, CmdHandled,
     ResetUnderWay, hostVars, queue, regs, mainVars
<1>7. QED BY <1>1, <1>2, <1>3, <1>4, <1>5, <1>6 DEF IInv

\* The loop looks whether the FTL is idle.
LEMMA MainStep ==
  ASSUME IInv, ftl_main
  PROVE  IInv'
<1>1. Types'
  BY SMTT(20) DEF IInv, ftl_main, AllDone, Types, TypeOK, hostVars, queue, regs,
     ftlVars
<1>2. Arrivals'
  BY SMTT(20) DEF IInv, ftl_main, Arrivals, HostWaitsForLast, HostWaitsForReset,
     ReceivedIsLast, EdgesSeen, OnlineFirst, ResetUnderWay, hostVars, queue, regs
<1>3. Moves'
  BY SMTT(20) DEF IInv, ftl_main, Moves, MovingExpected, WaitingExpected,
     DeferredIsQueued, Transfers, Expected, hostVars, queue
<1>4. Mailbox'
  BY SMTT(20) DEF IInv, ftl_main, Mailbox, MailWanted, RunWanted, ReadsOneCommand,
     RunsWhole, Wanted, Expected, hostVars
<1>5. IdleStays'
  <2>1. ToSet(<<>>) = {}
    BY DEF ToSet
  <2>2. pc' = "check" /\ (idle' => AllDone) /\ UNCHANGED <<tasks, sata_cmd, eq>>
    BY DEF ftl_main, queue, ftlVars
  <2>3. QED BY <2>1, <2>2 DEF IdleStays, AllDone
<1>6. HostIsServed'
  BY SMTT(20) DEF IInv, ftl_main, HostIsServed, InMail, Runs, CmdHandled,
     ResetUnderWay, hostVars, queue, regs
<1>7. QED BY <1>1, <1>2, <1>3, <1>4, <1>5, <1>6 DEF IInv

\* The loop looks into the mailbox.
LEMMA CheckStep ==
  ASSUME IInv, CheckSlow
  PROVE  IInv'
<1>1. Types'
  BY SMTT(20) DEF IInv, CheckSlow, Types, TypeOK, Kinds, Cmds, CmdIds, hostVars,
     ftlVars, queue, regs
<1>2. Arrivals'
  BY SMTT(20) DEF IInv, CheckSlow, Arrivals, HostWaitsForLast, HostWaitsForReset,
     ReceivedIsLast, EdgesSeen, OnlineFirst, ResetUnderWay, hostVars, queue, regs
<1>3. Moves'
  BY SMTT(20) DEF IInv, CheckSlow, Moves, MovingExpected, WaitingExpected,
     DeferredIsQueued, Transfers, Expected, hostVars, queue
<1>4. Mailbox'
  BY SMTT(20) DEF IInv, CheckSlow, Mailbox, MailWanted, RunWanted, ReadsOneCommand,
     RunsWhole, Wanted, Expected, Types, TypeOK, hostVars, regs, queue, ftlVars
<1>5. IdleStays'
  BY SMTT(20) DEF IInv, CheckSlow, IdleStays, queue, ftlVars
<1>6. HostIsServed'
  BY SMTT(20) DEF IInv, CheckSlow, HostIsServed, InMail, Runs, CmdHandled,
     ResetUnderWay, Types, TypeOK, hostVars, queue, regs, ftlVars
<1>7. QED BY <1>1, <1>2, <1>3, <1>4, <1>5, <1>6 DEF IInv

\* The loop reads the code.
LEMMA CodeStep ==
  ASSUME IInv, ReadCode
  PROVE  IInv'
<1>1. Types'
  <2>1. run' \in [code : CmdIds, lba : CmdIds]
    BY SMT DEF IInv, ReadCode, Types, TypeOK, hostVars, regs, queue, ftlVars
  <2>2. QED BY <2>1, SMT DEF IInv, ReadCode, Types, TypeOK, hostVars, queue, regs,
            ftlVars
<1>2. Arrivals'
  BY SMTT(20) DEF IInv, ReadCode, Arrivals, HostWaitsForLast, HostWaitsForReset,
     ReceivedIsLast, EdgesSeen, OnlineFirst, ResetUnderWay, hostVars, queue, regs
<1>3. Moves'
  BY SMTT(20) DEF IInv, ReadCode, Moves, MovingExpected, WaitingExpected,
     DeferredIsQueued, Transfers, Expected, hostVars, queue
<1>4. Mailbox'
  BY SMTT(20) DEF IInv, ReadCode, Mailbox, MailWanted, RunWanted, ReadsOneCommand,
     RunsWhole, Wanted, Expected, hostVars
<1>5. IdleStays'
  BY SMTT(20) DEF IInv, ReadCode, IdleStays, queue, ftlVars
<1>6. HostIsServed'
  BY SMTT(20) DEF IInv, ReadCode, HostIsServed, InMail, Runs, CmdHandled,
     ResetUnderWay, hostVars, queue, regs
<1>7. QED BY <1>1, <1>2, <1>3, <1>4, <1>5, <1>6 DEF IInv

\* The loop reads the lba.
LEMMA LbaStep ==
  ASSUME IInv, ReadLba
  PROVE  IInv'
<1>1. Types'
  <2>1. run' \in [code : CmdIds, lba : CmdIds]
    BY SMT DEF IInv, ReadLba, Types, TypeOK, hostVars, regs, queue, ftlVars
  <2>2. QED BY <2>1, SMT DEF IInv, ReadLba, Types, TypeOK, hostVars, queue, regs,
            ftlVars
<1>2. Arrivals'
  BY SMTT(20) DEF IInv, ReadLba, Arrivals, HostWaitsForLast, HostWaitsForReset,
     ReceivedIsLast, EdgesSeen, OnlineFirst, ResetUnderWay, hostVars, queue, regs
<1>3. Moves'
  BY SMTT(20) DEF IInv, ReadLba, Moves, MovingExpected, WaitingExpected,
     DeferredIsQueued, Transfers, Expected, hostVars, queue
<1>4. Mailbox'
  BY SMTT(20) DEF IInv, ReadLba, Mailbox, MailWanted, RunWanted, ReadsOneCommand,
     RunsWhole, Wanted, Expected, hostVars
<1>5. IdleStays'
  BY SMTT(20) DEF IInv, ReadLba, IdleStays, queue, ftlVars
<1>6. HostIsServed'
  BY SMTT(20) DEF IInv, ReadLba, HostIsServed, InMail, Runs, CmdHandled,
     ResetUnderWay, hostVars, queue, regs
<1>7. QED BY <1>1, <1>2, <1>3, <1>4, <1>5, <1>6 DEF IInv

\* The loop answers.
LEMMA AnswerStep ==
  ASSUME IInv, irq = {}, Answer
  PROVE  IInv'
<1>1. Types'
  BY BoundsAssumption, SMTT(20) DEF IInv, Answer, Types, TypeOK, NoCmd, ATA_SRST,
     CmdIds, queue, regs, ftlVars
<1>2. Arrivals'
  BY SMTT(20) DEF IInv, Answer, Arrivals, HostWaitsForLast, HostWaitsForReset,
     ReceivedIsLast, EdgesSeen, OnlineFirst, ResetUnderWay, Cmds, NoCmd, regs, queue
<1>3. Moves'
  BY BoundsAssumption, SMTT(20) DEF IInv, Answer, Moves, MovingExpected,
     WaitingExpected, DeferredIsQueued, Transfers, Expected, Types, TypeOK, Mailbox,
     RunWanted, Wanted, ATA_SRST, queue, regs, ftlVars
<1>4. Mailbox'
  BY SMTT(20) DEF IInv, Answer, Mailbox, MailWanted, RunWanted, ReadsOneCommand,
     RunsWhole
<1>5. IdleStays'
  BY SMTT(20) DEF IInv, Answer, IdleStays, queue, ftlVars
<1>6. HostIsServed'
  <2>1. CASE host' = NoCmd
    BY <2>1 DEF HostIsServed
  <2>2. CASE host' = host /\ (~link \/ toggle # "off" \/ host # run.code)
    <3>1. host = run.code => host = ATA_SRST /\ (ResetUnderWay \/ ATA_SRST \in lost)
      BY <2>2 DEF IInv, Arrivals, HostWaitsForReset, EdgesSeen, ResetUnderWay,
         Types, TypeOK
    <3>2. QED BY <2>2, <3>1 DEF IInv, Answer, HostIsServed, InMail, Runs,
              CmdHandled, ResetUnderWay, queue, regs
  <2>3. QED BY <2>1, <2>2 DEF Answer
<1>7. QED BY <1>1, <1>2, <1>3, <1>4, <1>5, <1>6 DEF IInv

\* The loop empties the mailbox.
LEMMA DoneStep ==
  ASSUME IInv, Done
  PROVE  IInv'
<1>1. Types'
  <2>1. run' \in [code : CmdIds, lba : CmdIds]
    BY BoundsAssumption DEF Done, CmdIds, NoCmd, ATA_SRST
  <2>2. slow_cmd' \in [status : {"NONE", "PENDING", "BUSY"}, code : CmdIds, lba : CmdIds]
    BY DEF IInv, Done, Types, TypeOK, hostVars, regs, queue, ftlVars
  <2>3. lost' \subseteq CmdIds
    BY DEF IInv, Done, Types, TypeOK
  <2>4. QED BY <2>1, <2>2, <2>3, SMTT(20) DEF IInv, Done, Types, TypeOK, hostVars,
            queue, regs, ftlVars
<1>2. Arrivals'
  BY SMTT(20) DEF IInv, Done, Arrivals, HostWaitsForLast, HostWaitsForReset,
     ReceivedIsLast, EdgesSeen, OnlineFirst, ResetUnderWay, hostVars, queue, regs
<1>3. Moves'
  BY SMTT(20) DEF IInv, Done, Moves, MovingExpected, WaitingExpected,
     DeferredIsQueued, Transfers, Expected, hostVars, queue
<1>4. Mailbox'
  BY SMTT(20) DEF IInv, Done, Mailbox, MailWanted, RunWanted, ReadsOneCommand,
     RunsWhole, hostVars
<1>5. IdleStays'
  BY SMTT(20) DEF Done, IdleStays, queue, ftlVars
<1>6. HostIsServed'
  BY SMTT(20) DEF IInv, Done, HostIsServed, InMail, Runs, CmdHandled, ResetUnderWay,
     Arrivals, HostWaitsForReset, Types, TypeOK, hostVars, queue, regs, ftlVars
<1>7. QED BY <1>1, <1>2, <1>3, <1>4, <1>5, <1>6 DEF IInv

(***************************************************************************)
(* All steps together.                                                     *)
(***************************************************************************)
LEMMA InitIInv == Init => IInv
<1>1. SUFFICES ASSUME Init PROVE IInv
  OBVIOUS
<1>2. Types
  <2>1. Cardinality({}) = 0
    BY FS_EmptySet
  <2>2. host \in CmdIds /\ run \in [code : CmdIds, lba : CmdIds]
        /\ slow_cmd \in [status : {"NONE", "PENDING", "BUSY"}, code : CmdIds, lba : CmdIds]
    BY <1>1, BoundsAssumption DEF Init, CmdIds, NoCmd, ATA_SRST
  <2>3. kind \in [Cmds -> Kinds]
    BY <1>1 DEF Init, Kinds
  <2>4. sent \in 0 .. MaxCmds /\ resets \in 0 .. MaxResets /\ Cardinality(tasks) <= MaxTasks
    BY <1>1, <2>1, BoundsAssumption DEF Init
  <2>5. eq \in Seq(Cmds) /\ eq \in Seq(1 .. sent)
    BY <1>1 DEF Init
  <2>6. cfis \in NoCmd .. sent /\ moving \in NoCmd .. sent
        /\ g_sata_action_flags \in NoCmd .. sent
        /\ sata_cmd \in NoCmd .. sent
    BY <1>1 DEF Init, NoCmd
  <2>7. QED BY <1>1, <2>2, <2>3, <2>4, <2>5, <2>6 DEF Init, Types, TypeOK, Interrupts
<1>3. Arrivals
  BY <1>1, BoundsAssumption
     DEF Init, Arrivals, HostWaitsForLast, HostWaitsForReset, ReceivedIsLast, EdgesSeen,
         OnlineFirst, Cmds, ATA_SRST
<1>4. Moves
  BY <1>1 DEF Init, Moves, MovingExpected, WaitingExpected, DeferredIsQueued
<1>5. Mailbox
  BY <1>1 DEF Init, Mailbox, MailWanted, RunWanted, ReadsOneCommand, RunsWhole
<1>6. IdleStays
  BY <1>1 DEF Init, IdleStays
<1>7. HostIsServed
  BY <1>1 DEF Init, HostIsServed, ResetUnderWay
<1>8. QED BY <1>2, <1>3, <1>4, <1>5, <1>6, <1>7 DEF IInv

LEMMA HostSteps == ASSUME IInv, Host PROVE IInv'
BY SendStep, CompleteStep, SetSrstStep, ClearSrstStep, LinkDownStep, LinkUpStep DEF Host

LEMMA HandlerSteps == ASSUME IInv, fiq_handler PROVE IInv'
<1>1. CASE handle_got_cfis
  <2>1. RefuseCmd \/ QueueCmd \/ MailCmd
    BY <1>1 DEF handle_got_cfis
  <2>2. QED BY <1>1, <2>1, RefuseStep, QueueStep, MailStep
<1>2. CASE handle_srst
  BY <1>2, SrstStep
<1>3. CASE phy_online
  BY <1>3, OnlineStep
<1>4. QED BY <1>1, <1>2, <1>3 DEF fiq_handler

LEMMA FtlSteps == ASSUME IInv, Ftl PROVE IInv'
BY HandlerEnabled, GetStep, AcceptStep, FinishStep DEF Ftl, IInv, Arrivals

LEMMA LoopSteps == ASSUME IInv, Loop PROVE IInv'
BY HandlerEnabled, MainStep, CheckStep, CodeStep, LbaStep, AnswerStep, DoneStep
   DEF Loop, IInv, Arrivals

LEMMA StutterStep == ASSUME IInv, UNCHANGED vars PROVE IInv'
<1>1. UNCHANGED <<host, kind, sent, resets, toggle, aborted, link, int_enable, cfis, irq>>
  BY DEF vars, hostVars, regs
<1>2. /\ UNCHANGED <<eq, eq_full, g_sata_action_flags, srst, slow_cmd, moving, late, lost>>
      /\ UNCHANGED <<wbuf, sata_cmd, tasks, pc, idle, run>>
  BY DEF vars, queue, ftlVars, mainVars
<1>3. Types'
  BY <1>1, <1>2 DEF IInv, Types, TypeOK
<1>4. Arrivals'
  BY <1>1, <1>2 DEF IInv, Arrivals, HostWaitsForLast, HostWaitsForReset, ReceivedIsLast,
                    EdgesSeen, OnlineFirst, ResetUnderWay
<1>5. Moves'
  BY <1>1, <1>2 DEF IInv, Moves, MovingExpected, WaitingExpected, DeferredIsQueued,
                    Transfers, Expected
<1>6. Mailbox'
  BY <1>1, <1>2 DEF IInv, Mailbox, MailWanted, RunWanted, ReadsOneCommand, RunsWhole,
                    Wanted, Expected
<1>7. IdleStays'
  BY <1>1, <1>2 DEF IInv, IdleStays
<1>8. HostIsServed'
  BY <1>1, <1>2 DEF IInv, HostIsServed, InMail, Runs, CmdHandled, ResetUnderWay
<1>9. QED BY <1>3, <1>4, <1>5, <1>6, <1>7, <1>8 DEF IInv

LEMMA IInvHolds == Spec => []IInv
<1>1. IInv /\ [Next]_vars => IInv'
  BY HostSteps, HandlerSteps, FtlSteps, LoopSteps, StutterStep DEF Next
<1>2. QED BY <1>1, InitIInv, PTL DEF Spec

(***************************************************************************)
(* The variables keep their types.                                         *)
(***************************************************************************)
THEOREM TypesKept == Spec => []TypeOK
<1>1. IInv => TypeOK
  BY DEF IInv, Types
<1>2. QED BY <1>1, IInvHolds, PTL

(***************************************************************************)
(* The hardware only moves data of the command the host waits for, or of   *)
(* one it has given up, though the handler (sata_isr.c:215-225) and the    *)
(* loop (eventq_get) both start transfers.                                 *)
(***************************************************************************)
THEOREM MovesOnlyForHost == Spec => []MovesForHost
<1>1. IInv => MovesForHost
  BY DEF IInv, Moves, MovingExpected, Expected, MovesForHost
<1>2. QED BY <1>1, IInvHolds, PTL

(***************************************************************************)
(* A transfer that waits for room in the queue finds the queue with        *)
(* entries, so that the loop will see its flag (sata_isr.c:219).           *)
(***************************************************************************)
THEOREM DeferredHasEntries == Spec => []DeferredIsQueued
<1>1. IInv => DeferredIsQueued
  BY DEF IInv, Moves
<1>2. QED BY <1>1, IInvHolds, PTL

(***************************************************************************)
(* A slow command runs alone (sata_main.c): from the moment ftl_main has   *)
(* found the FTL idle, commands only come into the queue.                  *)
(***************************************************************************)
THEOREM SlowAlone == Spec => []SlowRunsAlone
<1>1. IInv => SlowRunsAlone
  BY DEF IInv, IdleStays, SlowRunsAlone
<1>2. QED BY <1>1, IInvHolds, PTL

(***************************************************************************)
(* The function of a slow command gets the code and the lba of one         *)
(* command, or the host has reset the device (sata_handle_slow_cmd).       *)
(***************************************************************************)
THEOREM SlowWhole == Spec => []RunsWhole
<1>1. IInv => RunsWhole
  BY DEF IInv, Mailbox
<1>2. QED BY <1>1, IInvHolds, PTL

(***************************************************************************)
(* The host never waits for something the device has forgotten, but for a  *)
(* command that the loop wiped out of the mailbox (sata_main.c:167), or an *)
(* SRST that phy_online wiped out of SATA_INT_STAT (sata_isr.c:282).       *)
(***************************************************************************)
THEOREM NothingForgotten == Spec => []HostIsServed
<1>1. IInv => HostIsServed
  BY DEF IInv
<1>2. QED BY <1>1, IInvHolds, PTL
=============================================================================

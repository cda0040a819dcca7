------------------------------ MODULE SataEvents ------------------------------
(***************************************************************************)
(* The SATA front end of the firmware: the FIQ handler (sata_isr.c), which *)
(* takes what the host sends, and the main loop (sata_main.c, ftl_main),   *)
(* which runs read and write commands from the event queue and, when the   *)
(* FTL is idle, the one "slow" command of the mailbox.  The handler runs   *)
(* between any two steps of the loop, where the loop has not disabled it.  *)
(*                                                                         *)
(* A command stands for its code, its lba and its action flags, and a read *)
(* or write is of one page.  The host sends the next one when it has the   *)
(* answer to the last, or resets the device: it toggles SRST, or takes the *)
(* link down and up.                                                       *)
(***************************************************************************)
EXTENDS Naturals, FiniteSets, SequencesExt

CONSTANTS
    MaxCmds,      \* commands the host sends
    MaxResets,    \* resets of either kind
    EQ_LIMIT,     \* entries with which SATA_EQ_STATUS says full
    MaxTasks      \* commands the FTL works on at a time

ASSUME BoundsAssumption ==
    MaxCmds \in Nat /\ MaxResets \in Nat /\ EQ_LIMIT \in Nat \ {0} /\ MaxTasks \in Nat \ {0}

Cmds == 1 .. MaxCmds
NoCmd == 0

\* An SRST request is regarded as if it were a command.
ATA_SRST == MaxCmds + 1

CmdIds == NoCmd .. ATA_SRST
Kinds  == {"read", "write", "slow", "invalid"}

Interrupts == {"CMD_RECV", "REG_FIS_RECV", "PHY_ONLINE"}

VARIABLES
    host,             \* the command the host waits for
    kind,             \* kind[c], for the commands sent
    sent, resets,     \* how many so far
    link,             \* the phy is online
    toggle,           \* SRST of the host: "off", "on", or "falling"
    irq, int_enable,  \* SATA_INT_STAT and SATA_INT_ENABLE: subsets of Interrupts
    cfis,             \* the command in the SATA_FIS_H2D registers
    eq, eq_full, g_sata_action_flags,
    srst,             \* g_sata_context.srst
    slow_cmd,         \* the mailbox: status, and the command by code and by lba
    moving,           \* the command whose data the hardware transfers
    wbuf,             \* pages of written data that the FTL has not accepted yet
    sata_cmd,         \* the command taken from the queue and not accepted yet
    tasks,            \* commands accepted and not finished
    pc, idle, run,    \* main loop: its place, what ftl_main returned, what it runs
    late,             \* history: commands queued since ftl_main looked
    aborted,          \* history: commands given up by a reset
    lost              \* history: commands wiped out of the mailbox or SATA_INT_STAT

hostVars == <<host, kind, sent, resets, toggle, aborted>>
regs     == <<link, int_enable, cfis>>
queue    == <<eq, eq_full, g_sata_action_flags>>
ftlVars  == <<wbuf, sata_cmd, tasks>>
mainVars == <<pc, idle, run>>
vars     == <<hostVars, regs, irq, queue, srst, slow_cmd, moving, ftlVars, mainVars, late, lost>>

masked == irq \cap int_enable

(***************************************************************************)
(* The host.                                                               *)
(***************************************************************************)
Send(k) ==
    /\ host = NoCmd /\ link
    /\ sent < MaxCmds
    /\ sent' = sent + 1
    /\ kind' = [kind EXCEPT ![sent'] = k]
    /\ host' = sent' /\ cfis' = sent'
    /\ irq' = irq \cup {"CMD_RECV"}
    /\ UNCHANGED <<resets, toggle, aborted, link, int_enable, queue, srst, slow_cmd, moving,
                   ftlVars, mainVars, late, lost>>

\* The data has moved: a write needs the host only, a read what the FTL reads.
Complete ==
    /\ host \in Cmds /\ moving = host
    /\ kind[host] = "read" => host \notin tasks \cup {sata_cmd} \cup ToSet(eq)
    /\ wbuf' = IF kind[host] = "write" THEN wbuf + 1 ELSE wbuf
    /\ host' = NoCmd /\ moving' = NoCmd
    /\ UNCHANGED <<kind, sent, resets, toggle, aborted, regs, irq, queue, srst, slow_cmd,
                   sata_cmd, tasks, mainVars, late, lost>>

\* The data of a write that moves may have come, though the host does not know.
GiveUp ==
    /\ resets < MaxResets
    /\ resets' = resets + 1
    /\ host' = ATA_SRST
    /\ aborted' = aborted \cup ({host} \cap Cmds)
    /\ \/ UNCHANGED wbuf
       \/ host \in Cmds /\ moving = host /\ kind[host] = "write" /\ wbuf' = wbuf + 1
    /\ lost' = lost \ {ATA_SRST}
    /\ UNCHANGED <<kind, sent, int_enable, cfis, queue, srst, slow_cmd, sata_cmd, tasks,
                   mainVars, late>>

\* The host sets SRST, and clears it when that is no longer in SATA_INT_STAT.
SetSrst ==
    /\ link /\ toggle = "off"
    /\ GiveUp
    /\ toggle' = "on"
    /\ irq' = irq \cup {"REG_FIS_RECV"}
    /\ UNCHANGED <<link, moving>>

ClearSrst ==
    /\ link /\ toggle = "on"
    /\ "REG_FIS_RECV" \notin irq
    /\ toggle' = "falling"
    /\ irq' = irq \cup {"REG_FIS_RECV"}
    /\ UNCHANGED <<host, kind, sent, resets, aborted, regs, queue, srst, slow_cmd, moving,
                   ftlVars, mainVars, late, lost>>

LinkDown ==
    /\ link
    /\ GiveUp
    /\ link' = FALSE /\ toggle' = "off" /\ moving' = NoCmd
    /\ irq' = irq \ {"REG_FIS_RECV"}

LinkUp ==
    /\ ~link
    /\ link' = TRUE
    /\ irq' = irq \cup {"PHY_ONLINE"}
    /\ UNCHANGED <<hostVars, int_enable, cfis, queue, srst, slow_cmd, moving, ftlVars,
                   mainVars, late, lost>>

Host == (\E k \in Kinds : Send(k)) \/ Complete \/ SetSrst \/ ClearSrst \/ LinkDown \/ LinkUp

(***************************************************************************)
(* The FIQ handler.                                                        *)
(***************************************************************************)
Mail(c) == [status |-> "PENDING", code |-> c, lba |-> c]

\* Bug: the lba of the command before stays in the mailbox.
BugKeepsLba(c) == [slow_cmd EXCEPT !.status = "PENDING", !.code = c]

NewMail(c) == Mail(c)

\* Sectors past the end of the device: the answer is an error, and nobody asks for
\* the kind of the command any more.
RefuseCmd ==
    /\ kind[cfis] = "invalid"
    /\ kind' = [kind EXCEPT ![cfis] = "slow"]
    /\ host' = IF host = cfis THEN NoCmd ELSE host
    /\ UNCHANGED <<queue, moving, late, slow_cmd>>

\* A read or write: into the queue, and the transfer starts if that is not full.
QueueCmd ==
    /\ kind[cfis] \in {"read", "write"}
    /\ eq' = Append(eq, cfis)
    /\ late' = late \cup {cfis}
    /\ IF Len(eq') >= EQ_LIMIT
       THEN eq_full' = TRUE /\ g_sata_action_flags' = cfis /\ UNCHANGED moving
       ELSE moving' = cfis /\ UNCHANGED <<eq_full, g_sata_action_flags>>
    /\ UNCHANGED <<slow_cmd, host, kind>>

MailCmd ==
    /\ kind[cfis] = "slow"
    /\ slow_cmd' = NewMail(cfis)
    /\ UNCHANGED <<queue, moving, late, host, kind>>

handle_got_cfis ==
    /\ "CMD_RECV" \in masked
    /\ RefuseCmd \/ QueueCmd \/ MailCmd
    /\ irq' = irq \ {"CMD_RECV"}
    /\ UNCHANGED <<sent, resets, toggle, aborted, regs, srst, ftlVars, mainVars, lost>>

\* SRST rises, or falls again: then the reset goes into the mailbox.
handle_srst ==
    /\ "REG_FIS_RECV" \in masked /\ "CMD_RECV" \notin masked
    /\ irq' = irq \ {"REG_FIS_RECV"}
    /\ srst' = (toggle = "on")
    /\ toggle' = IF toggle = "falling" THEN "off" ELSE toggle
    /\ IF toggle = "falling" /\ srst
       THEN slow_cmd' = NewMail(ATA_SRST) /\ moving' = NoCmd
       ELSE UNCHANGED <<slow_cmd, moving>>
    /\ UNCHANGED <<host, kind, sent, resets, aborted, regs, queue, ftlVars, mainVars, late, lost>>

\* All of SATA_INT_STAT is wiped: an SRST too, that came while only PHY_ONLINE
\* was enabled.
phy_online ==
    /\ masked = {"PHY_ONLINE"}
    /\ irq' = {}
    /\ int_enable' = Interrupts
    /\ slow_cmd' = NewMail(ATA_SRST)
    /\ lost' = IF "REG_FIS_RECV" \in irq THEN lost \cup {ATA_SRST} ELSE lost
    /\ UNCHANGED <<hostVars, link, cfis, queue, srst, moving, ftlVars, mainVars, late>>

fiq_handler == handle_got_cfis \/ handle_srst \/ phy_online

(***************************************************************************)
(* The main loop.                                                          *)
(***************************************************************************)

\* Bug: the transfer of the last command that had to wait starts again.
BugStartsAgain(waits) == link

\* Bug: the transfer that had to wait never starts.
BugForgetsTransfer(waits) == FALSE

Starts(waits) == waits /\ link

\* Bug: the flag stays set.
BugKeepsFull(full) == full

FullAfterGet(full) == FALSE

thread_can_allocate(working) == Cardinality(working) < MaxTasks

\* eventq_get, with the handler disabled: a transfer that had to wait starts.
eventq_get ==
    /\ pc = "ftl_main"
    /\ thread_can_allocate(tasks)
    /\ sata_cmd = NoCmd /\ eq # <<>>
    /\ sata_cmd' = Head(eq) /\ eq' = Tail(eq)
    /\ eq_full' = FullAfterGet(eq_full)
    /\ moving' = IF Starts(eq_full) THEN g_sata_action_flags ELSE moving
    /\ UNCHANGED <<hostVars, regs, irq, g_sata_action_flags, srst, slow_cmd, wbuf, tasks,
                   mainVars, late, lost>>

\* A task for the command, where the SATA buffers allow it.
Accept(k) ==
    /\ pc = "ftl_main"
    /\ sata_cmd # NoCmd /\ kind[sata_cmd] = k
    /\ thread_can_allocate(tasks)
    /\ tasks' = tasks \cup {sata_cmd} /\ sata_cmd' = NoCmd
    /\ UNCHANGED <<hostVars, regs, irq, queue, srst, slow_cmd, moving, mainVars, late, lost>>

\* There is a free read buffer.
AcceptRead == Accept("read") /\ UNCHANGED wbuf

\* The next page of data has come, whether or not the host still wants the command.
AcceptWrite == Accept("write") /\ wbuf > 0 /\ wbuf' = wbuf - 1

FinishTask(c) ==
    /\ pc = "ftl_main"
    /\ c \in tasks
    /\ tasks' = tasks \ {c}
    /\ UNCHANGED <<hostVars, regs, irq, queue, srst, slow_cmd, moving, wbuf, sata_cmd,
                   mainVars, late, lost>>

\* Bug: the FTL is idle with commands in the queue.
BugIgnoresQueue == tasks = {} /\ sata_cmd = NoCmd

\* Bug: the FTL is not idle while the hardware transfers.
BugWaitsForTransfer == tasks = {} /\ sata_cmd = NoCmd /\ eq = <<>> /\ moving = NoCmd

AllDone == tasks = {} /\ sata_cmd = NoCmd /\ eq = <<>>

ftl_main ==
    /\ pc = "ftl_main"
    /\ idle' = AllDone
    /\ late' = {}
    /\ pc' = "check"
    /\ UNCHANGED <<hostVars, regs, irq, queue, srst, slow_cmd, moving, ftlVars, run, lost>>

\* sata_has_slow_cmd.
CheckSlow ==
    /\ pc = "check"
    /\ IF idle /\ slow_cmd.status = "PENDING"
       THEN slow_cmd' = [slow_cmd EXCEPT !.status = "BUSY"] /\ pc' = "code"
       ELSE pc' = "ftl_main" /\ UNCHANGED slow_cmd
    /\ UNCHANGED <<hostVars, regs, irq, queue, srst, moving, ftlVars, idle, run, late, lost>>

\* sata_handle_slow_cmd: the function is found by the code, then gets the lba.
ReadCode ==
    /\ pc = "code"
    /\ run' = [run EXCEPT !.code = slow_cmd.code]
    /\ pc' = "lba"
    /\ UNCHANGED <<hostVars, regs, irq, queue, srst, slow_cmd, moving, ftlVars, idle, late, lost>>

ReadLba ==
    /\ pc = "lba"
    /\ run' = [run EXCEPT !.lba = slow_cmd.lba]
    /\ pc' = "answer"
    /\ UNCHANGED <<hostVars, regs, irq, queue, srst, slow_cmd, moving, ftlVars, idle, late, lost>>

\* send_status_to_host.  A host that waits for the end of a reset may take the
\* answer to an earlier command for it.
Answer ==
    /\ pc = "answer"
    /\ pc' = "done"
    /\ \/ link /\ toggle = "off" /\ host \in {run.code, ATA_SRST} /\ host' = NoCmd
       \/ (~link \/ toggle # "off" \/ host # run.code) /\ UNCHANGED host
    /\ UNCHANGED <<kind, sent, resets, toggle, aborted, regs, irq, queue, srst, slow_cmd,
                   moving, ftlVars, idle, run, late, lost>>

\* The mailbox is marked empty, also when a new command has come into it.
Done ==
    /\ pc = "done"
    /\ slow_cmd' = [slow_cmd EXCEPT !.status = "NONE"]
    /\ lost' = IF slow_cmd.status = "PENDING" THEN lost \cup {slow_cmd.code} ELSE lost
    /\ run' = [code |-> NoCmd, lba |-> NoCmd]
    /\ pc' = "ftl_main"
    /\ UNCHANGED <<hostVars, regs, irq, queue, srst, moving, ftlVars, idle, late>>

\* The loop goes on when no interrupt is left to handle.
Loop == masked = {} /\ (ftl_main \/ CheckSlow \/ ReadCode \/ ReadLba \/ Answer \/ Done)

Ftl ==
    /\ masked = {}
    /\ eventq_get \/ AcceptRead \/ AcceptWrite \/ \E c \in Cmds : FinishTask(c)

\* sata_reset has seen the link come up, and has enabled that interrupt alone.
Init ==
    /\ host = ATA_SRST /\ kind = [c \in Cmds |-> "slow"] /\ sent = 0 /\ resets = 0
    /\ link = TRUE /\ toggle = "off" /\ cfis = NoCmd
    /\ irq = {"PHY_ONLINE"} /\ int_enable = {"PHY_ONLINE"}
    /\ eq = <<>> /\ eq_full = FALSE /\ g_sata_action_flags = NoCmd
    /\ srst = FALSE /\ slow_cmd = [status |-> "NONE", code |-> NoCmd, lba |-> NoCmd]
    /\ moving = NoCmd /\ wbuf = 0 /\ sata_cmd = NoCmd /\ tasks = {}
    /\ pc = "ftl_main" /\ idle = FALSE /\ run = [code |-> NoCmd, lba |-> NoCmd]
    /\ late = {} /\ aborted = {} /\ lost = {}

Next == Host \/ fiq_handler \/ Loop \/ Ftl

Spec == Init /\ [][Next]_vars

(***************************************************************************)
(* Fairness.  The loop and the handler never stop; the FTL takes, accepts  *)
(* and finishes commands (FtlThreads) before it looks at the queue for the *)
(* last time, so that it is not always found at work.  A read the host has *)
(* given up may wait for a free buffer for ever.  Nothing is asked of the  *)
(* host but that it takes part in the transfers it has started.            *)
(***************************************************************************)
FairSpec ==
    /\ Spec
    /\ WF_vars(Loop) /\ WF_vars(fiq_handler) /\ WF_vars(Complete)
    /\ SF_vars(masked = {} /\ eventq_get) /\ SF_vars(masked = {} /\ AcceptWrite)
    /\ SF_vars(masked = {} /\ sata_cmd \notin aborted /\ AcceptRead)
    /\ \A c \in Cmds : SF_vars(masked = {} /\ FinishTask(c))

(***************************************************************************)
(* Properties.                                                             *)
(***************************************************************************)

\* The variables have their types.
TypeOK ==
    /\ host \in CmdIds /\ kind \in [Cmds -> Kinds] /\ sent \in 0 .. MaxCmds
    /\ resets \in 0 .. MaxResets /\ link \in BOOLEAN /\ toggle \in {"off", "on", "falling"}
    /\ irq \subseteq Interrupts /\ int_enable \subseteq Interrupts
    /\ cfis \in NoCmd .. sent
    /\ eq \in Seq(Cmds) /\ eq_full \in BOOLEAN /\ g_sata_action_flags \in NoCmd .. sent
    /\ srst \in BOOLEAN
    /\ slow_cmd \in [status : {"NONE", "PENDING", "BUSY"}, code : CmdIds, lba : CmdIds]
    /\ moving \in NoCmd .. sent /\ wbuf \in Nat /\ sata_cmd \in NoCmd .. sent
    /\ tasks \subseteq 1 .. sent /\ Cardinality(tasks) <= MaxTasks
    /\ pc \in {"ftl_main", "check", "code", "lba", "answer", "done"} /\ idle \in BOOLEAN
    /\ run \in [code : CmdIds, lba : CmdIds]
    /\ late \subseteq Cmds /\ aborted \subseteq Cmds /\ lost \subseteq CmdIds

\* A transfer that waits for room in the queue is not forgotten: the queue has
\* entries, so the loop will take one and find the flag (sata_isr.c:219).
DeferredIsQueued == eq_full => Len(eq) >= EQ_LIMIT

\* The hardware only moves data of the command the host waits for, though the
\* handler and the loop both start transfers, with flags kept in between; or of
\* one that a reset has made the host give up.
MovesForHost == moving # NoCmd => moving = host \/ moving \in aborted

\* A slow command runs alone (FLUSH CACHE answers for the writes before it):
\* nothing is in the FTL, nothing queued but what came after ftl_main looked.
SlowRunsAlone ==
    pc \in {"code", "lba", "answer", "done"} =>
        tasks = {} /\ sata_cmd = NoCmd /\ ToSet(eq) \subseteq late

\* The function runs with the code and the lba of one command, though the handler
\* may store a new one between the two reads; unless the host has reset the
\* device and does not want the answer.
RunsWhole == pc = "answer" => run.code = run.lba \/ run.code \in aborted

InMail(c) == slow_cmd.status = "PENDING" /\ slow_cmd.code = c

Runs(c) ==
    \/ pc \in {"lba", "answer"} /\ run.code = c
    \/ pc = "code" /\ slow_cmd.code = c

CmdHandled(c) ==
    \/ "CMD_RECV" \in irq /\ cfis = c
    \/ moving = c
    \/ eq_full /\ g_sata_action_flags = c

ResetUnderWay ==
    ~link \/ "PHY_ONLINE" \in irq \/ "REG_FIS_RECV" \in irq \/ (toggle = "on" /\ srst)

\* The host never waits for something the device has forgotten: a command is still
\* to be handled, its data moves or will move, or it is in the mailbox or runs; a
\* reset is on its way to the mailbox, in it, or runs.  The exceptions are what
\* came while a slow command ran and the loop then wiped out of the mailbox
\* (sata_main.c:167), and an SRST before the first PHY_ONLINE (sata_isr.c:282).
HostIsServed ==
    \/ host = NoCmd \/ host \in lost
    \/ InMail(host) \/ Runs(host)
    \/ IF host = ATA_SRST THEN ResetUnderWay ELSE CmdHandled(host)

\* The command that the FTL has taken waits for a page that nobody will send, or for
\* a free buffer that nobody will empty: the host has given it up, or a write that
\* it gave up took the page.  No reset clears sata_cmd (ftl.c:107, ftl.c:211-216).
Starved ==
    /\ aborted # {}
    /\ sata_cmd \notin {NoCmd, host}
    /\ kind[sata_cmd] = "write" => wbuf = 0

\* A transfer that had to wait is started, or given up by a reset, unless the FTL is
\* starved for ever: then it takes nothing from the queue.
DeferredStarts == <>[]Starved \/ (eq_full ~> ~eq_full)

TakesOut(c) == pc = "code" /\ slow_cmd.status = "BUSY" /\ slow_cmd.code = c

\* What the host waits for is taken out of the mailbox to be run: the loop finds the
\* FTL idle.  Otherwise the host has an answer or resets again, or the loop has wiped
\* the command out of the mailbox, or the FTL is starved for ever.
MailIsRead ==
    \/ <>[]Starved
    \/ InMail(host) ~> TakesOut(host) \/ host = NoCmd \/ host \in lost \/ ResetUnderWay
=============================================================================

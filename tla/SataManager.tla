----------------------------- MODULE SataManager ------------------------------
(***************************************************************************)
(* sata_manager.c: the window of page tasks between the host and the       *)
(* threads, one for reads and one for writes.  Task ids are UINT32         *)
(* counters; a word of Window bits records the tasks that finished out of  *)
(* order; the data of a task lies in the SATA buffer of its id modulo the  *)
(* number of buffers, and the buffer manager of the controller (external)  *)
(* moves pages between these buffers and the host up to a limit that the   *)
(* firmware sets.                                                          *)
(***************************************************************************)
EXTENDS Integers, FiniteSets

CONSTANTS
    Window,        \* 32, bits of a status word
    Ids,           \* 2^32, values of a task id
    ReadBuffers,   \* NUM_SATA_RD_BUFFERS
    WriteBuffers,  \* NUM_SATA_WR_BUFFERS
    MaxTasks,      \* bound: tasks accepted in each direction
    NoData

ASSUME WidthAssumption ==
    /\ Window \in Nat \ {0} /\ Ids \in Nat /\ Ids % Window = 0 /\ Ids > Window
    /\ ReadBuffers \in Nat \ {0} /\ WriteBuffers \in Nat \ {0}
    /\ MaxTasks \in Nat
    /\ NoData \notin Int

VARIABLES
    rd, wr,              \* [accept, finish, status]: next ids, status word
    reading, writing,    \* ids of the tasks whose thread has not ended
    rdBuf, rdSet, rdPtr, \* read buffers, BM_STACK_RDSET, SATA_RBUF_PTR
    wrBuf, wrSet, wrPtr, \* write buffers, BM_STACK_WRSET, SATA_WBUF_PTR
    sent, received,      \* pages the host has got, and has sent
    halted               \* an ASSERT has failed

readVars  == <<rd, reading, rdBuf, rdSet, rdPtr, sent>>
writeVars == <<wr, writing, wrBuf, wrSet, wrPtr, received>>
vars      == <<readVars, writeVars, halted>>

(***************************************************************************)
(* One window.                                                             *)
(***************************************************************************)
Pending(w) == (w.accept - w.finish) % Ids

\* Bug: the window is not limited to the bits of the status word.
BugNoLimit(w) == TRUE

HasRoom(w) == Pending(w) < Window

Accepted(w) == [w EXCEPT !.accept = (@ + 1) % Ids]

\* Bug: only one task is released at a time.
BugReleasesOne(w, status, k) == k = IF w.finish % Window \in status THEN 1 ELSE 0

\* The loop that releases finished tasks stops after k tasks.
StopsAfter(w, status, k) ==
    /\ \A j \in 0 .. k - 1 : (w.finish + j) % Window \in status
    /\ k = Window \/ (w.finish + k) % Window \notin status

\* The window after k tasks are released.
Released(w, status, k) ==
    [w EXCEPT !.finish = (@ + k) % Ids,
              !.status = status \ {(w.finish + j) % Window : j \in 0 .. k - 1}]

\* The assertions at the head of the two finish functions.
InWindow(w, id) == id >= w.finish /\ id < w.accept

Halt == halted' = TRUE /\ UNCHANGED <<readVars, writeVars>>

(***************************************************************************)
(* Reads.  From its acceptance on, a task may write to its buffer.         *)
(***************************************************************************)
\* Bug: a buffer the host has not got yet is handed out again.
BugIgnoresHost == HasRoom(rd)

CanAcceptRead ==
    HasRoom(rd) /\ ((rd.accept + 1) % Ids) % ReadBuffers # rdPtr

AcceptRead ==
    /\ CanAcceptRead
    /\ sent + Pending(rd) < MaxTasks
    /\ IF rd.accept % Window \in rd.status
       THEN Halt
       ELSE /\ rd' = Accepted(rd)
            /\ reading' = reading \cup {rd.accept}
            /\ rdBuf' = [rdBuf EXCEPT ![rd.accept % ReadBuffers] = NoData]
            /\ UNCHANGED <<rdSet, rdPtr, sent, writeVars, halted>>

FinishRead(id) ==
    IF ~InWindow(rd, id) THEN Halt
    ELSE \E k \in 0 .. Window :
        LET status == rd.status \cup {id % Window} IN
        /\ StopsAfter(rd, status, k)
        /\ rd' = Released(rd, status, k)
        /\ reading' = reading \ {id}
        /\ rdBuf' = [rdBuf EXCEPT ![id % ReadBuffers] = id]
        /\ rdSet' = IF k = 0 THEN rdSet ELSE rd'.finish % ReadBuffers
        /\ UNCHANGED <<rdPtr, sent, writeVars, halted>>

\* The controller sends the next page to the host.
SendPage ==
    /\ rdPtr # rdSet
    /\ rdPtr' = (rdPtr + 1) % ReadBuffers
    /\ sent' = sent + 1
    /\ UNCHANGED <<rd, reading, rdBuf, rdSet, writeVars, halted>>

(***************************************************************************)
(* Writes.                                                                 *)
(***************************************************************************)

\* The controller puts the next page of the host in a free buffer.
ReceivePage ==
    /\ (wrPtr + 1) % WriteBuffers # wrSet
    /\ received < MaxTasks
    /\ wrBuf' = [wrBuf EXCEPT ![wrPtr] = received % Ids]
    /\ wrPtr' = (wrPtr + 1) % WriteBuffers
    /\ received' = received + 1
    /\ UNCHANGED <<wr, writing, wrSet, readVars, halted>>

\* Bug: a task is accepted before its page has arrived.
BugDoesNotWait == HasRoom(wr)

CanAcceptWrite == HasRoom(wr) /\ wr.accept % WriteBuffers # wrPtr

AcceptWrite ==
    /\ CanAcceptWrite
    /\ IF wr.accept % Window \in wr.status
       THEN Halt
       ELSE /\ wr' = Accepted(wr)
            /\ writing' = writing \cup {wr.accept}
            /\ UNCHANGED <<wrBuf, wrSet, wrPtr, received, readVars, halted>>

FinishWrite(id) ==
    IF ~InWindow(wr, id) THEN Halt
    ELSE \E k \in 0 .. Window :
        LET status == wr.status \cup {id % Window} IN
        /\ StopsAfter(wr, status, k)
        /\ wr' = Released(wr, status, k)
        /\ writing' = writing \ {id}
        /\ wrSet' = IF k = 0 THEN wrSet ELSE wr'.finish % WriteBuffers
        /\ UNCHANGED <<wrBuf, wrPtr, received, readVars, halted>>

EmptyWindow == [accept |-> 0, finish |-> 0, status |-> {}]

Init ==
    /\ rd = EmptyWindow /\ wr = EmptyWindow
    /\ reading = {} /\ writing = {}
    /\ rdBuf = [b \in 0 .. ReadBuffers - 1 |-> NoData] /\ rdSet = 0 /\ rdPtr = 0
    /\ wrBuf = [b \in 0 .. WriteBuffers - 1 |-> NoData] /\ wrSet = 0 /\ wrPtr = 0
    /\ sent = 0 /\ received = 0
    /\ halted = FALSE

Step ==
    \/ AcceptRead \/ SendPage \/ ReceivePage \/ AcceptWrite
    \/ \E id \in reading : FinishRead(id)
    \/ \E id \in writing : FinishWrite(id)

Next == ~halted /\ Step

Spec == Init /\ [][Next]_vars

(***************************************************************************)
(* Properties.                                                             *)
(***************************************************************************)
WindowOK(w) ==
    /\ w.accept \in 0 .. Ids - 1 /\ w.finish \in 0 .. Ids - 1
    /\ w.status \subseteq 0 .. Window - 1

\* Types, and as many tasks in the window as run or wait for an earlier one.
TypeOK ==
    /\ WindowOK(rd) /\ WindowOK(wr)
    /\ reading \subseteq 0 .. Ids - 1 /\ writing \subseteq 0 .. Ids - 1
    /\ rdSet \in 0 .. ReadBuffers - 1 /\ rdPtr \in 0 .. ReadBuffers - 1
    /\ wrSet \in 0 .. WriteBuffers - 1 /\ wrPtr \in 0 .. WriteBuffers - 1
    /\ sent \in Nat /\ received \in Nat
    /\ Pending(rd) = Cardinality(reading) + Cardinality(rd.status)
    /\ Pending(wr) = Cardinality(writing) + Cardinality(wr.status)

\* The host gets the page of every read, in the order of the reads, with the
\* data its thread has put there: no page leaves before its thread has ended,
\* and none is overwritten by a later task that got the same buffer.
ReadsSentInOrder == rdPtr # rdSet => rdBuf[rdPtr] = sent

\* The buffer of a write keeps the page the host sent for it for as long as
\* its thread runs.
WriteDataIntact == \A id \in writing : wrBuf[id % WriteBuffers] = id

\* The windows count the tasks that run or wait for an earlier one, and the
\* assertions of the four functions hold (sata_manager.c:47-48, 53-55, 61-62,
\* 82-83).
WindowsCoherent == TypeOK /\ ~halted

DoneIn(w) ==
    {id \in 0 .. w.accept - 1 : id < w.finish \/ id % Window \in w.status}

Reads  == INSTANCE OrderedTasks
             WITH accepted <- rd.accept, released <- rd.finish, done <- DoneIn(rd)
Writes == INSTANCE OrderedTasks
             WITH accepted <- wr.accept, released <- wr.finish, done <- DoneIn(wr)

\* The firmware's windows are ordered windows of tasks, for ids that have not
\* wrapped: tasks that end in any order are released in order, and none that has
\* ended is held back behind another one that has.
Refines == Reads!TasksSpec /\ Writes!TasksSpec
=============================================================================

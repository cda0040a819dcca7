----------------------------- MODULE MCPmtThread ------------------------------
EXTENDS PmtThread, TLC

OneOrTwo == {<<p>> : p \in PmtPages} \cup {<<p, q>> : p, q \in PmtPages}

Symmetric == Permutations(PmtPages) \cup Permutations(Threads) \cup Permutations(Banks)

(***************************************************************************)
(* A cache at work: pages 1 to 6 were written and pages 7 to 14 read, one  *)
(* by one, so that each pair of written pages was flushed to make room for *)
(* the next two; every time the same bank was idle.                        *)
(***************************************************************************)
FourteenPages == 1 .. 14

FlushedPages == 1 .. 6

ReadPages == 7 .. 14

UsedCache ==
    [EmptyCache EXCEPT
        !.stamp  = [p \in PmtPages |-> IF p \in ReadPages THEN p - 7 ELSE NULL_TIMESTAMP],
        !.free   = 0,
        !.now    = 8,
        !.last   = 14,
        !.before = {x \in ReadPages \X ReadPages : x[1] < x[2]}]

UsedInit(b) ==
    /\ turn = "pass"
    /\ cache = UsedCache
    /\ gtd = [p \in PmtPages |-> IF p \in FlushedPages THEN b ELSE NoBank]
    /\ pmt_req_queue = <<>> /\ next_pmt_idx = NULL_PMT_IDX
    /\ loads = [c \in Banks |-> NULL_PMT_IDX] /\ flushes = {} /\ buffers = 0
    /\ runnable = FALSE /\ wake = {} /\ loadedSig = FALSE /\ overflow = FALSE
    /\ idle = Banks /\ complete = {}
    /\ th = [t \in Threads |-> FreeThread] /\ accepts = 0
    /\ newest = [p \in PmtPages |-> IF p \in FlushedPages THEN {b}
                                    ELSE IF p \in ReadPages THEN {"cache", NoBank}
                                    ELSE {NoBank}]

UsedSpec == (\E b \in Banks : UsedInit(b)) /\ [][Next]_vars

PairsFlushed == {<<p, p + 1>> : p \in {1, 3, 5}}

ThreadsAlike == Permutations(Threads)
=============================================================================

------------------------------ MODULE PmtThread ------------------------------
(***************************************************************************)
(* The mapping table at work: the PMT thread (pmt_thread.c) serves the     *)
(* requests of the other threads (pmt.c) with the cache of PmtCache, loads *)
(* pages from flash where the GTD (gtd.c) says, and flushes dirty ones.    *)
(*                                                                         *)
(* A pass of the scheduler has three parts: StartPass looks at the banks,  *)
(* then the PMT thread, first in the list, runs if something has woken it, *)
(* then the other threads.  The handlers are cut at the rounds of their    *)
(* loops: a thread does one sub-page at a time (next), and no other thread *)
(* runs before the last.                                                   *)
(***************************************************************************)
EXTENDS PmtCache, Sequences

CONSTANTS
    Threads,      \* the read and write threads
    Banks,        \* flash banks
    Wants,        \* per thread, what it may need: sequences of PMT pages
    MaxWanted,    \* pages wanted at a time, (MAX_NUM_THREADS - 1) * SUB_PAGES_PER_PAGE
    MaxAccepts,   \* bound: threads accepted
    MAX_PMT_REQ_QUEUE_SIZE

ASSUME WantsAssumption ==
    \A w \in Wants : w \in Seq(PmtPages) /\ Len(w) \in 1 .. SUB_PAGES_PER_PAGE

ASSUME BanksAssumption ==
    /\ Banks # {} /\ IsFiniteSet(Banks) /\ IsFiniteSet(Threads)
    /\ "cache" \notin Banks /\ "no bank" \notin Banks

ASSUME BoundAssumption ==
    MaxAccepts \in Nat /\ MaxWanted \in Nat /\ MAX_PMT_REQ_QUEUE_SIZE \in Nat

VARIABLES
    turn,                \* "pass", "pmt", "requests" or "threads"
    cache,               \* pmt_cache.c
    gtd,                 \* bank of the flash page that holds a PMT page
    pmt_req_queue, next_pmt_idx,
    loads,               \* loading_pmt_idxes: page being loaded from a bank
    flushes,             \* banks with a flush_buf_id
    buffers,             \* managed buffers taken by the PMT thread
    runnable, wake,      \* state and wakeup_signals of the PMT thread
    loadedSig,           \* SIG_PMT_LOADED of this pass
    overflow,            \* the queue assertion has failed
    idle, complete,      \* banks (fla.c)
    th,                  \* th[t]: state of thread t
    accepts,             \* threads accepted so far
    newest               \* history: the places of the newest content of a page,
                         \* "cache", the bank it is flushed to, or NoBank (zeros)

thread == <<pmt_req_queue, next_pmt_idx, loads, flushes, buffers, runnable, wake>>
banks  == <<idle, complete>>
vars   == <<turn, cache, gtd, thread, loadedSig, overflow, banks, th, accepts, newest>>

\* The GTD entry 0: never written to flash.
NoBank == "no bank"

\* want: the PMT page of each sub-page; next: the sub-page whose turn it is in
\* the loop; fixed: the sub-pages that have their page fixed.
FreeThread ==
    [phase |-> "free", awake |-> FALSE, want |-> <<>>, next |-> 1, fixed |-> {},
     bank |-> NoBank]

ThreadState ==
    [phase : {"free", "load", "read", "hold", "update", "write"}, awake : BOOLEAN,
     want : Wants \cup {<<>>}, next : 1 .. SUB_PAGES_PER_PAGE,
     fixed : SUBSET (1 .. SUB_PAGES_PER_PAGE), bank : Banks \cup {NoBank}]

(***************************************************************************)
(* fla.c: a bank is complete in the pass in which its command has ended.   *)
(***************************************************************************)
StartPass ==
    /\ turn = "pass"
    /\ \E done \in SUBSET (Banks \ idle) :
         /\ complete' = done
         /\ idle' = idle \cup done
         /\ th' = [t \in Threads |->
                     IF th[t].phase = "write" /\ th[t].bank \in done
                     THEN [th[t] EXCEPT !.awake = TRUE] ELSE th[t]]
    /\ turn' = IF runnable \/ wake \cap idle' # {} THEN "pmt" ELSE "threads"
    /\ UNCHANGED <<cache, gtd, thread, loadedSig, overflow, newest, accepts>>

(***************************************************************************)
(* The PMT thread.                                                         *)
(***************************************************************************)

\* Bug: the buffer of the command is never given back.
BugKeepsBuffer(b) == buffers

\* buffer_free, of the buffer of the command that ended at bank b.
buffer_free(b) == buffers - 1

\* Page p now has in the cache what the GTD leads to.
Fetched(p) == [newest EXCEPT ![p] = IF gtd[p] \in @ THEN @ \cup {"cache"} ELSE @]

\* A flash read has ended: the page is copied from its buffer to the cache.
FinishLoad(b) ==
    /\ turn = "pmt"
    /\ loads[b] # NULL_PMT_IDX
    /\ b \in complete
    /\ cache' = pmt_cache_set_loaded(cache, loads[b])
    /\ newest' = Fetched(loads[b])
    /\ loads' = [loads EXCEPT ![b] = NULL_PMT_IDX]
    /\ buffers' = buffer_free(b)
    /\ loadedSig' = TRUE
    /\ UNCHANGED <<turn, gtd, pmt_req_queue, next_pmt_idx, flushes, runnable, wake,
                   overflow, banks, th, accepts>>

FinishFlush(b) ==
    /\ turn = "pmt"
    /\ b \in flushes
    /\ b \in complete
    /\ flushes' = flushes \ {b}
    /\ buffers' = buffer_free(b)
    /\ UNCHANGED <<turn, cache, gtd, pmt_req_queue, next_pmt_idx, loads, runnable, wake,
                   loadedSig, overflow, banks, th, newest, accepts>>

Unfinished == {b \in Banks : loads[b] # NULL_PMT_IDX \/ b \in flushes}

BeginRequests ==
    /\ turn = "pmt"
    /\ Unfinished \cap complete = {}
    /\ turn' = "requests"
    /\ UNCHANGED <<cache, gtd, thread, loadedSig, overflow, banks, th, newest, accepts>>

\* sleep: the threads that wait for SIG_PMT_LOADED run in this pass if it is set.
SleepOn(signals) ==
    /\ turn' = "threads"
    /\ runnable' = FALSE
    /\ wake' = signals
    /\ th' = [t \in Threads |->
                IF loadedSig /\ th[t].phase \in {"load", "read"} THEN [th[t] EXCEPT !.awake = TRUE]
                ELSE th[t]]

\* pop_pmt_req.
PopRequest ==
    /\ turn = "requests"
    /\ next_pmt_idx = NULL_PMT_IDX
    /\ pmt_req_queue # <<>>
    /\ next_pmt_idx' = Head(pmt_req_queue)
    /\ pmt_req_queue' = Tail(pmt_req_queue)
    /\ UNCHANGED <<turn, cache, gtd, loads, flushes, buffers, runnable, wake, loadedSig,
                   overflow, banks, th, newest, accepts>>

NoMoreRequests ==
    /\ turn = "requests"
    /\ next_pmt_idx = NULL_PMT_IDX
    /\ pmt_req_queue = <<>>
    /\ SleepOn(Unfinished)
    /\ UNCHANGED <<cache, gtd, pmt_req_queue, next_pmt_idx, loads, flushes, buffers,
                   loadedSig, overflow, banks, newest, accepts>>

Requested == turn = "requests" /\ next_pmt_idx # NULL_PMT_IDX

\* The page is loaded or being loaded: a duplicate request.
IgnoreDuplicate ==
    /\ Requested
    /\ Cached(cache, next_pmt_idx)
    /\ cache' = get_page(cache, next_pmt_idx)
    /\ next_pmt_idx' = NULL_PMT_IDX
    /\ UNCHANGED <<turn, gtd, pmt_req_queue, loads, flushes, buffers, runnable, wake,
                   loadedSig, overflow, banks, th, newest, accepts>>

Misses == Requested /\ ~Cached(cache, next_pmt_idx)

Gone(ps) == [p \in PmtPages |-> IF p \in ps THEN newest[p] \ {"cache"} ELSE newest[p]]

\* The cache is full; a clean page is evicted.
EvictClean ==
    /\ Misses
    /\ pmt_cache_is_full(cache)
    /\ LET c == pmt_cache_evict(cache) IN
         /\ ~MergeFull(c)
         /\ cache' = c
         /\ newest' = Gone(ToFree(cache))
    /\ UNCHANGED <<turn, gtd, thread, loadedSig, overflow, banks, th, accepts>>

\* Bug: the GTD entries are set when the write is over.
BugForgetsGtd(ps, b) == gtd

\* gtd_set_vsp: the pages are found where the flush puts them.
FlushedTo(ps, b) == [p \in PmtPages |-> IF p \in ps THEN b ELSE gtd[p]]

\* The merge buffer is full and goes to an idle bank.
Flush(b) ==
    /\ Misses
    /\ pmt_cache_is_full(cache)
    /\ b \in idle
    /\ LET c == pmt_cache_evict(cache) IN
         /\ MergeFull(c)
         /\ cache' = pmt_cache_flush(c)
         /\ gtd' = FlushedTo(c.merge, b)
         /\ newest' = [p \in PmtPages |->
                         IF p \notin c.merge THEN newest[p]
                         ELSE IF "cache" \in newest[p] THEN {b} ELSE {}]
    /\ flushes' = flushes \cup {b}
    /\ buffers' = buffers + 1
    /\ idle' = idle \ {b}
    /\ UNCHANGED <<turn, pmt_req_queue, next_pmt_idx, loads, runnable, wake, loadedSig,
                   overflow, complete, th, accepts>>

\* No bank is idle: the request waits, and the merge buffer with it.
WaitToFlush ==
    /\ Misses
    /\ pmt_cache_is_full(cache)
    /\ idle = {}
    /\ MergeFull(pmt_cache_evict(cache))
    /\ cache' = pmt_cache_evict(cache)
    /\ SleepOn(Banks)
    /\ UNCHANGED <<gtd, pmt_req_queue, next_pmt_idx, loads, flushes, buffers, loadedSig,
                   overflow, banks, newest, accepts>>

\* The page has never been written to flash.
LoadZeros ==
    /\ Misses
    /\ ~pmt_cache_is_full(cache)
    /\ gtd[next_pmt_idx] = NoBank
    /\ cache' = pmt_cache_set_loaded(pmt_cache_put(cache, next_pmt_idx), next_pmt_idx)
    /\ newest' = Fetched(next_pmt_idx)
    /\ loadedSig' = TRUE
    /\ next_pmt_idx' = NULL_PMT_IDX
    /\ UNCHANGED <<turn, gtd, pmt_req_queue, loads, flushes, buffers, runnable, wake,
                   overflow, banks, th, accepts>>

\* Bug: the load does not wait for the bank.
BugReadsAtOnce(b) == TRUE

CanRead(b) == b \in idle

IssueLoad ==
    /\ Misses
    /\ ~pmt_cache_is_full(cache)
    /\ LET p == next_pmt_idx
           b == gtd[p]
       IN  /\ b # NoBank
           /\ CanRead(b)
           /\ cache' = Asserted(pmt_cache_put(cache, p), b \in idle)
           /\ loads' = [loads EXCEPT ![b] = p]
           /\ idle' = idle \ {b}
    /\ buffers' = buffers + 1
    /\ next_pmt_idx' = NULL_PMT_IDX
    /\ UNCHANGED <<turn, gtd, pmt_req_queue, flushes, runnable, wake, loadedSig, overflow,
                   complete, th, newest, accepts>>

\* Bug: the thread sleeps on the bank of this page only.
BugSleepsOnOne(b) == {b}

WakeForLoad(b) == Unfinished \cup {b}

WaitToLoad ==
    /\ Misses
    /\ ~pmt_cache_is_full(cache)
    /\ LET b == gtd[next_pmt_idx] IN
         /\ b # NoBank
         /\ ~CanRead(b)
         /\ SleepOn(WakeForLoad(b))
    /\ UNCHANGED <<cache, gtd, pmt_req_queue, next_pmt_idx, loads, flushes, buffers,
                   loadedSig, overflow, banks, newest, accepts>>

(***************************************************************************)
(* pmt.c, called by the read and write threads.                            *)
(***************************************************************************)

\* What the threads want, as pairs of a thread and a sub-page.
Wanted == {x \in Threads \X (1 .. SUB_PAGES_PER_PAGE) : x[2] \in DOMAIN th[x[1]].want}

\* A new thread: one that writes, or one that reads a single page.
Accept(t, w, phase) ==
    /\ turn = "pass"
    /\ th[t].phase = "free"
    /\ accepts < MaxAccepts
    /\ accepts' = accepts + 1
    /\ Cardinality(Wanted) + Len(w) <= MaxWanted
    /\ phase = "read" => Len(w) = 1
    /\ th' = [th EXCEPT ![t] = [FreeThread EXCEPT !.phase = phase, !.awake = TRUE, !.want = w]]
    /\ UNCHANGED <<turn, cache, gtd, thread, loadedSig, overflow, banks, newest>>

\* Thread t runs: no other thread is in the middle of a loop.
Runs(t) ==
    /\ turn = "threads"
    /\ \A u \in Threads \ {t} : th[u].next = 1 /\ th[u].phase # "update"

\* The page of the sub-page whose turn it is.
Page(t) == th[t].want[th[t].next]

IsLast(t) == th[t].next = Len(th[t].want)

\* Bug: only the first request of a thread wakes the PMT thread.
BugNoWakeUp(t, asked) == runnable

\* pmt_thread_request_enqueue sets the state of the PMT thread.
WokenBy(t, asked) == runnable \/ asked

\* pmt_load, for page p: a request, unless the page is in the cache.
Request(t, p) ==
    LET asks == ~Cached(cache, p) IN
    /\ overflow' = (asks /\ Len(pmt_req_queue) = MAX_PMT_REQ_QUEUE_SIZE)
    /\ pmt_req_queue' = IF asks THEN Append(pmt_req_queue, p) ELSE pmt_req_queue
    /\ runnable' = WokenBy(t, asks)
    /\ UNCHANGED <<next_pmt_idx, loads, flushes, buffers, wake>>

\* The loop of PMT_LOAD goes on, or ends: the thread sleeps unless every
\* sub-page is fixed.
GoesOn(t, fixed) ==
    \/ /\ ~IsLast(t)
       /\ th' = [th EXCEPT ![t].fixed = fixed, ![t].next = @ + 1]
    \/ /\ IsLast(t)
       /\ fixed # DOMAIN th[t].want
       /\ th' = [th EXCEPT ![t] = [@ EXCEPT !.fixed = fixed, !.next = 1, !.awake = FALSE]]
    \/ /\ IsLast(t)
       /\ fixed = DOMAIN th[t].want
       /\ th' = [th EXCEPT ![t] = [@ EXCEPT !.fixed = fixed, !.next = 1, !.awake = FALSE,
                                            !.phase = "hold"]]

\* The sub-pages that the loop has passed without fixing their page.
Passed(t) == {j \in DOMAIN th[t].want \ th[t].fixed : j < th[t].next}

\* The shortcut: the last of these may be of the same logical page (which has one
\* PMT page; two logical pages may share theirs).
SameAsLast(t) ==
    \E j \in Passed(t) : (\A k \in Passed(t) : k <= j) /\ th[t].want[j] = Page(t)

\* PMT_LOAD of a write thread: pmt_is_loaded, pmt_fix or pmt_load for each
\* sub-page that is not fixed yet.
PmtLoad(t) ==
    /\ Runs(t)
    /\ th[t].phase = "load" /\ th[t].awake
    /\ \/ /\ th[t].next \in th[t].fixed \/ SameAsLast(t)
          /\ GoesOn(t, th[t].fixed)
          /\ UNCHANGED <<cache, thread, overflow>>
       \/ /\ th[t].next \notin th[t].fixed
          /\ Loaded(cache, Page(t))
          /\ cache' = pmt_cache_fix(cache, Page(t))
          /\ GoesOn(t, th[t].fixed \cup {th[t].next})
          /\ UNCHANGED <<thread, overflow>>
       \/ /\ th[t].next \notin th[t].fixed
          /\ ~Loaded(cache, Page(t))
          /\ cache' = get_page(cache, Page(t))
          /\ Request(t, Page(t))
          /\ GoesOn(t, th[t].fixed)
    /\ UNCHANGED <<turn, gtd, loadedSig, banks, newest, accepts>>

\* PMT_LOAD of a read thread: pmt_is_loaded, pmt_load, pmt_get_vp.
PmtRead(t) ==
    /\ Runs(t)
    /\ th[t].phase = "read" /\ th[t].awake
    /\ cache' = get_page(cache, Page(t))
    /\ Request(t, Page(t))
    /\ th' = [th EXCEPT ![t] = IF Loaded(cache, Page(t)) THEN FreeThread
                              ELSE [@ EXCEPT !.awake = FALSE]]
    /\ UNCHANGED <<turn, gtd, loadedSig, banks, newest, accepts>>

\* BANK of a write thread: an idle bank is taken for the data.
GetBank(t, b) ==
    /\ Runs(t)
    /\ th[t].phase = "hold"
    /\ b \in idle
    /\ th' = [th EXCEPT ![t].phase = "update", ![t].bank = b]
    /\ UNCHANGED <<turn, cache, gtd, thread, loadedSig, overflow, banks, newest, accepts>>

\* pmt_update_vp and pmt_unfix.
UpdateSubPage(p) ==
    pmt_cache_unfix(pmt_cache_set_dirty(Asserted(get_page(cache, p), Loaded(cache, p)), p), p)

\* PMT_UPDATE: the mapping of each sub-page; then the write is issued.
PmtUpdate(t) ==
    /\ Runs(t)
    /\ th[t].phase = "update"
    /\ cache' = UpdateSubPage(Page(t))
    /\ newest' = [newest EXCEPT ![Page(t)] = {"cache"}]
    /\ IF IsLast(t)
       THEN /\ idle' = idle \ {th[t].bank}
            /\ th' = [th EXCEPT ![t] = [FreeThread EXCEPT !.phase = "write", !.bank = th[t].bank]]
       ELSE /\ idle' = idle
            /\ th' = [th EXCEPT ![t].next = @ + 1, ![t].fixed = @ \ {th[t].next}]
    /\ UNCHANGED <<turn, gtd, thread, loadedSig, overflow, complete, accepts>>

\* The write has ended, and with it the thread.
EndWrite(t) ==
    /\ Runs(t)
    /\ th[t].phase = "write" /\ th[t].awake
    /\ th' = [th EXCEPT ![t] = FreeThread]
    /\ UNCHANGED <<turn, cache, gtd, thread, loadedSig, overflow, banks, newest, accepts>>

\* The end of the pass; the threads have put some more of the banks to use, for
\* reads of data, and what the pass has signalled is forgotten.
EndPass ==
    /\ turn = "threads"
    /\ \A t \in Threads : ~th[t].awake /\ th[t].phase # "update"
    /\ turn' = "pass"
    /\ \E busy \in SUBSET idle : idle' = idle \ busy
    /\ complete' = {} /\ loadedSig' = FALSE
    /\ UNCHANGED <<cache, gtd, thread, overflow, th, newest, accepts>>

Init ==
    /\ turn = "pass"
    /\ cache = EmptyCache
    /\ gtd = [p \in PmtPages |-> NoBank]
    /\ pmt_req_queue = <<>> /\ next_pmt_idx = NULL_PMT_IDX
    /\ loads = [b \in Banks |-> NULL_PMT_IDX] /\ flushes = {} /\ buffers = 0
    /\ runnable = TRUE /\ wake = {} /\ loadedSig = FALSE /\ overflow = FALSE
    /\ idle = Banks /\ complete = {}
    /\ th = [t \in Threads |-> FreeThread] /\ accepts = 0
    /\ newest = [p \in PmtPages |-> {NoBank}]

PmtStep ==
    \/ \E b \in Banks : FinishLoad(b) \/ FinishFlush(b) \/ Flush(b)
    \/ BeginRequests \/ PopRequest \/ NoMoreRequests \/ IgnoreDuplicate
    \/ EvictClean \/ WaitToFlush \/ LoadZeros \/ IssueLoad \/ WaitToLoad

Halted == cache.failed \/ overflow

Next ==
    /\ ~Halted
    /\ \/ StartPass \/ EndPass \/ PmtStep
       \/ \E t \in Threads : PmtLoad(t) \/ PmtRead(t) \/ PmtUpdate(t) \/ EndWrite(t)
       \/ \E t \in Threads, b \in Banks : GetBank(t, b)
       \/ \E t \in Threads, w \in Wants, phase \in {"load", "read"} : Accept(t, w, phase)

Spec == Init /\ [][Next]_vars

(***************************************************************************)
(* Properties.                                                             *)
(***************************************************************************)

\* The variables have their types.
TypeOK ==
    /\ turn \in {"pass", "pmt", "requests", "threads"}
    /\ CacheTypeOK(cache)
    /\ gtd \in [PmtPages -> Banks \cup {NoBank}]
    /\ pmt_req_queue \in Seq(PmtPages)
    /\ next_pmt_idx \in PmtPages \cup {NULL_PMT_IDX}
    /\ loads \in [Banks -> PmtPages \cup {NULL_PMT_IDX}] /\ flushes \subseteq Banks
    /\ buffers \in 0 .. Cardinality(Banks)
    /\ runnable \in BOOLEAN /\ wake \subseteq Banks
    /\ loadedSig \in BOOLEAN /\ overflow \in BOOLEAN
    /\ idle \subseteq Banks /\ complete \subseteq Banks
    /\ th \in [Threads -> ThreadState]
    /\ \A t \in Threads : th[t].fixed \subseteq DOMAIN th[t].want
    /\ accepts \in 0 .. MaxAccepts
    /\ newest \in [PmtPages -> SUBSET (Banks \cup {"cache", NoBank})]

\* The parallel tables of the cache stay in step through loads, fixes, evictions
\* and pages taken back from the merge buffer (pmt_cache.c:241); renumbering the
\* timestamps in place (pmt_cache.c:74) and the shortcut for repeated accesses
\* keep the least recently used page the one evicted.
TablesAgree == TypeOK /\ CacheAgrees(cache) /\ CacheIsLru(cache)

\* No ASSERT of pmt_cache.c, pmt.c, pmt_thread.c or fla.c fails: the cache always
\* has a page to evict though threads hold fixed pages while they wait for others
\* (pmt_cache.c:269), and no command goes to a busy bank.
AssertionsHold == ~cache.failed

\* No update of the mapping is lost: the newest content of a page is in the cache
\* if the page is loaded, else where the GTD says.
NewestKept ==
    \A p \in PmtPages :
        IF Loaded(cache, p) THEN "cache" \in newest[p] ELSE gtd[p] \in newest[p]

\* The sub-pages, as pairs of a thread and a sub-page, that have page p fixed.
Owners(p) == {x \in Threads \X (1 .. SUB_PAGES_PER_PAGE) :
                 x[2] \in th[x[1]].fixed /\ th[x[1]].want[x[2]] = p}

\* A page is fixed once for every sub-page that holds it (pmt.c): one thread's
\* unfix never makes a page evictable that another one relies on.
FixesMatchOwners == \A p \in PmtPages : cache.fixes[p] = Cardinality(Owners(p))

\* A completion is visible in one pass only (fla.c): the PMT thread is woken in
\* that pass for every load and flush, so no bank it uses is given to another
\* command first and no flush_buf_ids or loading_buf_ids entry is overwritten; a
\* page is marked as loading exactly while its read is on the way; and it holds
\* one managed buffer for each load and flush, at most one a bank (buffer.c).
NoMissedCompletion ==
    /\ turn \in {"pass", "threads"} => \A b \in Unfinished : b \in wake /\ b \notin idle
    /\ turn # "pmt" => Unfinished \cap idle = {}
    /\ {p \in PmtPages : Loading(cache, p)} = {loads[b] : b \in Banks} \ {NULL_PMT_IDX}
    /\ buffers = Cardinality({b \in Banks : loads[b] # NULL_PMT_IDX}) + Cardinality(flushes)

\* The pages that are asked for.
Requests == {pmt_req_queue[k] : k \in DOMAIN pmt_req_queue} \cup {next_pmt_idx}

\* No wake-up is lost.  Between passes each page a sleeping thread waits for is
\* being loaded or is requested, and the PMT thread will run for its requests.
SleepersAreServed ==
    turn = "pass" =>
        /\ \A t \in Threads : th[t].phase \in {"load", "read"} /\ ~th[t].awake =>
             \A i \in DOMAIN th[t].want \ th[t].fixed :
                 \/ Loading(cache, th[t].want[i])
                 \/ th[t].want[i] \in Requests
        /\ pmt_req_queue # <<>> \/ next_pmt_idx # NULL_PMT_IDX => runnable \/ wake # {}

\* The queue of requests has room for every request: what its size, sub-pages per
\* page for each thread, and the assertion of pmt_thread.c:41 say.
QueueHasRoom == ~overflow
=============================================================================

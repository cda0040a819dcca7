# A TLA+ model of TrustedSSD

TrustedSSD keeps the data of several users apart inside an SSD: a session key
travels from the application through a patched Linux kernel to the drive, and
the firmware, an FTL for the Jasmine OpenSSD board, remembers which user wrote
each page and gives other users zeros. This directory models the parts of the
system where its own logic lives, the firmware under
`src/OpenSSD/1.0.6/ftl_tssd` with its SATA front end
(`src/OpenSSD/1.0.6/sata`), and the block driver (`src/driver/tssd.c`); it
checks them with TLC and proves parts of them with TLAPS. Paths below are
relative to `src/OpenSSD/1.0.6/ftl_tssd` unless they start with `src/`.

## 1. The system

### Components, their state and their operations

| Component | State | Operations |
|---|---|---|
| Command acceptance (`ftl.c`) | the SATA command being split, task windows | `ftl_main`: takes commands, makes one thread per page, calls `schedule` |
| Scheduler (`scheduler.c`, `thread*.c`, `signal.h`) | FIFO of at most 16 threads, signals of the pass, state and wake-up signals of a thread | `schedule`, `enqueue`, `sleep`, `end` |
| Read thread (`ftl_read_thread.c`) | position, target sectors, segments | phases BUFFER, LOCK, PMT_LOAD, FLASH_READ, SATA |
| Write thread (`ftl_write_thread.c`) | position, flushed buffer, pages of its sub-pages, old and new virtual page | phases BUFFER, LOCK, PMT_LOAD, FLASH_READ, BANK, PMT_UPDATE, FLASH_WRITE, SATA |
| Page locks (`page_lock.c`) | slots: page and two bits per owner; count of slots | `page_lock`, `page_unlock` |
| Write buffer (`write_buffer.c`) | entries (page, mask, buffer), buffers (mask, size, user, memory), counters, head | `push`, `pull`, `drop`, `flush`, `is_full` |
| Mapping table (`pmt.c`, `pmt_cache.c`, `pmt_thread.c`, `gtd.c`) | LRU cache of mapping pages, fix counts, dirty bits, merge buffer, request queue, GTD | `pmt_load`, `pmt_fix`, `pmt_unfix`, `pmt_get_vp`, `pmt_update_vp`; the PMT thread loads, evicts and flushes |
| Flash access (`fla.c`) | idle and complete banks | `fla_update_bank_state`, `fla_read_page`, `fla_write_page`, `fla_get_idle_bank` |
| Page allocation (`gc.c`, `bad_blocks.c`) | next page of two streams, next free block, count, bad blocks | `gc_init`, `gc_allocate_new_vpn` |
| Access control (`acl.c`) | user of each virtual page | `acl_authorize`, `acl_authenticate` |
| SATA task windows (`sata_manager.c`) | next ids to accept and to finish, 32-bit status words | `can_accept`, `accept`, `finish`, for reads and writes |
| Managed buffers (`buffer.c`) | bit map of DRAM pages | `buffer_allocate`, `buffer_free` |
| SATA event loop (`src/OpenSSD/1.0.6/sata`) | event queue, slow-command mailbox, `eq_full` | `Main`, `eventq_get`, FIQ handler |
| Block driver (`src/driver/tssd.c`) | RAM disk, user of each sector, users, timer, media change | `open`, `release`, `transfer`, timer, revalidate |
| Kernel patch (`src/kernel-patch`) | session key of file, bio, request, taskfile | copies the key downwards, refuses merges of different keys |

### How they interact

Everything in the firmware but two interrupt handlers runs in one endless loop,
`Main` -> `ftl_main` -> `schedule`. There is no preemption between the threads.
A handler runs until it sleeps or ends, and a sleeping handler resumes at the
beginning of the phase it slept in. A pass of `schedule` first asks the
hardware which banks are idle, clears all signals, and then walks the list
once. A thread runs in the pass if it is runnable or one of its wake-up signals
is set *when its turn comes*. So a signal raised by a thread is seen by the
threads behind it in the list, in this pass, and by nobody else; a bank counts
as complete in exactly one pass. The PMT thread is always first in the list.

A read looks in the write buffer, then locks the page, waits for its mapping
page, unlocks, reads the virtual pages that hold the missing sectors (zeros
where the user has no access) and reports to `sata_manager`. A partial write
goes to the write buffer; if that is full the thread first takes out one buffer
and becomes the writer of *that* one: it locks its pages, fixes their mapping
pages, completes the sub-pages from flash, takes a new virtual page on an idle
bank, updates the mapping and programs the page. A whole-page write drops the
page from the write buffer and goes the same way.

### What is hard

* Interleaving at every `sleep`: a read passes through three sources of data
  (write buffer, threads that hold flushed buffers, flash) with sleeps between.
* Signals that last one pass, so that a wake-up can be lost by being in the
  wrong place of the list, and completions that must be seen in one pass.
* Resources at their limits: lock slots, buffers, entries, window bits, blocks.
* Redundant tables (write buffer, page locks, mapping cache, allocation counts)
  that must stay in step over long sequences of calls.
* An interrupt handler between any two steps of the main loop, with a mailbox and
  a flag that both write, and a host that resets the device at any moment.
* A driver whose open, release, timer and revalidation run on several
  processors, one of them without the lock.
* Counters that wrap and block arithmetic.
* Two users in one write buffer, with access control per sub-page.

There is nothing to recover after a crash: the firmware formats the flash when
it starts (`gc.c:43`), the GTD is not made durable (`gtd.c:14`).

`PROJECT.json` lists each hazard at its line with the properties that cover it.

### What makes each component correct

* Locks: incompatible locks are never held together; every slot in use can be
  given back; a request that could be granted is not asleep.
* Write buffer: the newest sectors, each once, with the user who wrote them;
  buffers never mix users; a flush makes room.
* Threads: a read returns exactly what was written before it was accepted;
  nothing is lost; every command ends.
* Mapping table: a page in use by a writer stays; nothing written is forgotten
  between cache, merge buffer and flash; a thread that sleeps for a page gets it.
* Allocation: each page once, in order, in good blocks.
* Task windows: in order towards the host, out of order inside.
* SATA front end: no command, transfer or reset is forgotten; slow commands run
  alone and whole.
* Driver: a user reads own sectors or zeros; the data is wiped after disuse, and
  never while the device is used.

## 2. The modules

| Module | What it is | Source |
|---|---|---|
| `PageLockTable` | abstract lock table, as `page_lock.h` promises it | `page_lock.h` |
| `PageLock` | slots and owner bits; refines `PageLockTable` | `page_lock.c` |
| `PageLock_proofs` | theorems about the slots and the locks of `PageLock`, and what it promises its clients | |
| `SectorStore` | abstract write buffer: newest sectors and their users | `write_buffer.h` |
| `WriteBuffer` | entries, masks, buffers, counters; refines `SectorStore` | `write_buffer.c` |
| `WriteBuffer_proofs` | theorems about `WriteBuffer`, the refinement included | |
| `OrderedTasks` | abstract window of tasks, released in order | `sata_manager.h` |
| `SataManager` | ids, status words, buffer rings; refines `OrderedTasks` twice | `sata_manager.c` |
| `SataManager_proofs` | theorems about `SataManager` | |
| `Gc` | page allocation of a bank | `gc.c`, `bad_blocks.c` |
| `PmtCache` | the cache of mapping pages: LRU, fixes, merge buffer (operators on a record) | `pmt_cache.c` |
| `PmtThread` | PMT thread, request queue, GTD and the threads that load, fix and update mapping pages, on `PmtCache` | `pmt_thread.c`, `pmt.c`, `gtd.c`, `fla.c` |
| `Mapping_proofs` | theorems about `PmtThread` and about `Gc` | |
| `FtlThreads` | scheduler, read and write threads, on `PageLockTable` and `SectorStore`, with mapping, banks and users | `scheduler.c`, `ftl*.c`, `fla.c`, `acl.c` |
| `FtlThreads_proofs` | theorems about the threads, the locks and the mapping pages of `FtlThreads` | |
| `FtlData_proofs` | theorems about the flash banks and the data of `FtlThreads`, on those | |
| `SataEvents` | FIQ handler, event queue, mailbox and main loop, with a host that resets | `src/OpenSSD/1.0.6/sata` |
| `SataEvents_proofs` | theorems about `SataEvents` | |
| `Driver` | open, release, timer, revalidation and bios of the block driver | `src/driver/tssd.c` |
| `Driver_proofs` | theorems about `Driver` | |
| `MC...` | values of the constants for TLC | |

The component modules stand on their own: each call is one action, because
nothing interrupts a call. `FtlThreads` composes the components by what they
promise. It uses the operators of `PageLockTable` and of `SectorStore`, and
that `PageLock` and `WriteBuffer` refine these two is checked separately, so
the threads are checked against the promises and the code against the same
promises. The mapping table appears twice: `FtlThreads` assumes a service that
loads what was asked for and evicts nothing that is fixed, and `PmtThread` is
that service in detail, with clients that use it as the handlers do.

### Correspondence

**PageLock.** `lpns[s]` and `owners_info[s][o]` are the DRAM arrays of the same
name, `num_locks` the counter. `asleep` is a history variable for the clients:
requests answered short and not yet signalled. An `ASSERT` that fails sets
`halted`, and nothing happens afterwards. Clients ask for the types in
`Requests` and keep at most `PerOwner` pages, the premise of
`MAX_NUM_LOCKS_PER_OWNER`.

**WriteBuffer.** `lp[i]` is the triple `lpns[i]`, `lp_masks[i]`,
`lp_buf_ids[i]`; `masks` is `buf_masks`, whose masks always cover whole
sub-pages; `managed` are the buffers with a `buf_managed_ids`. `buf_sizes` is
the number of sub-pages in the mask. A call passes a record of the buffers
through its steps, in the order of the code: other users' entries are cut, the
own entry is kept, moved or made, the sectors are copied. `data` of sectors
outside the mask is `Garbage`: a copy of too few sectors shows.

**SataManager.** `rd` and `wr` are the two windows; a status word is the set of
its bits. `SendPage` and `ReceivePage` are the controller's buffer manager,
modelled from the registers the firmware reads and writes: it moves a page and
advances `SATA_RBUF_PTR` or `SATA_WBUF_PTR` up to the limit the firmware has
set. Ids wrap at `Ids` in place of 2^32.

**Gc.** One bank. `allocated` records what was returned. A failed `BUG_ON` is
the action `Halt`; the runs assume `OPTION_UART_DEBUG`, the default.

**FtlThreads.** `queue` is the list of threads and `turn` the position in the
pass, 0 between passes. One action is one phase of the running handler;
`StartPass` is the head of `schedule` followed by the PMT thread; `Accept` is
one round of `ftl_main`. A sector's value is the number of the command that
wrote it, so that the model can say whose data a reader gets; virtual page `n`
is the one allocated by command `n` (`Gc!NeverTwice` is what justifies a fresh
one). `disk` is what the host has written so far and `want` the part of it that
was there when a read was accepted. The write buffer may be full at any time
and give out any buffer; which one is the business of `WriteBuffer`. The
mapping pages are loaded in any pass after the request, and any page not fixed
may be evicted in any pass. One mapping page is modelled per logical page;
pages that share a mapping page only see fewer loads.

**PmtCache.** The cache is a record. `stamp[p]` is the timestamp of the slot
that holds page `p`, with the special values for free, loading, fixed and
evicted slots; `free` counts the free slots, `merge` is the merge buffer, and
`last` the slot that repeated accesses take without a search. The operators are
the functions of the file; each takes a cache and returns a cache. `failed`
records an `ASSERT`. `before` is history: which evictable page was last used
before which other one, by which `CacheIsLru` judges the timestamps, which are
renumbered in place. The eviction loop is one step: the pages it moves to the
merge buffer are the dirty ones whose older pages are all dirty, as many as fit
(`ToMerge`).

**PmtThread.** A pass has the parts `pass`, `pmt`, `requests` and `threads`.
The handler of the PMT thread is cut where its loops turn: one action for each
ended load or flush, for each request it takes, and for each way it can deal
with that request. A client is in the phase `load` (a writer that needs all its
pages), `read` (a reader that needs one), `hold` (fixed, until it gets a bank),
`update` or `write`. The loops over sub-pages in `load` and `update` do one
sub-page a step, `next`, and no other thread runs before the last (`Runs`).
`SameAsLast` is the shortcut of `ftl_write_thread.c:134`, which asks only once
for sub-pages of one logical page. `newest[p]` is history: the places that hold
the newest content of page `p`, of which `NewestKept` demands that the code
looks in one. `accepts` counts the clients that have begun, up to the bound
`MaxAccepts`.

**SataEvents.** The handler's three branches and the steps of the main loop are
actions; a command stands for its code, its lba and its flags. `irq` is
`SATA_INT_STAT` and `int_enable` is `SATA_INT_ENABLE`: at the first bring-up only
`PHY_ONLINE` is enabled, and the handler of that wipes an SRST that came before.
The host, the link and the transfers are modelled from the registers the code
uses. A read or write is of one page: `eventq_get` takes it from the queue into
`sata_cmd` (`ftl.c:107`), `AcceptRead` and `AcceptWrite` make a task of it, and
`FinishTask` is the end of the task. A write is accepted when there is a page in
`wbuf`, the pages by which `SATA_WBUF_PTR` is ahead of `next_accept_wid`,
whoever they come from; the host adds one when the data of a write has moved, and
perhaps one when it breaks a write off. `late`, `aborted` and `lost` are history:
what was queued since `ftl_main` looked, what a reset gave up, and what was wiped
out of the mailbox with a new command in it (`sata_main.c:167`) or out of
`SATA_INT_STAT` at the first bring-up (`sata_isr.c:282`). `HostIsServed` excepts a
host that waits for one of these, and nothing else. A command with sectors past
the end of the device is refused by the handler itself.

A command that nobody will complete starves the FTL (`Starved`). When a reset
or the loss of the link breaks off a write, `sata_manager_can_accept_write_task`
waits for a page that never comes, and neither `handle_srst` nor `phy_online` nor
`ata_srst` clears `sata_cmd`, the queue or the windows. So `ftl_main` does not
become idle, and the reset that is in the mailbox is not run. The model shows
this, `DeferredStarts` and `MailIsRead` except it (`<>[]Starved`), and they hold
in all other behaviours: without a reset the exception cannot occur, and it takes
a command that is in `sata_cmd` for ever. The model also shows that a later write
may give its page to the one that was broken off, and then wait in its place.
Section 6 says what this assumes of the controller.

**Driver.** The critical sections of open, release and the timer are one step
each; that of a bio has a step for each segment, so that revalidation, which
takes no lock, comes between them. Whether the kernel calls open and release
one at a time is not for the driver to say: `serial` is either, and only
`TimerOnlyWhenUnused` depends on it. `first` is history: the device as it was
when the bio began.

## 3. The runs

| Run | Instance | Shows |
|---|---|---|
| `page_lock` | 3 owners with a page each, 3 slots, 4 pages; every request for a lock | `Exclusion`, `SlotAvailable`, `NoMissedRelease`, `Refines` |
| `write_buffer` | 2 pages, 2 users, 3 buffers of 2 x 2 sectors, 2 ranges, 2 values | `BuffersCoherent`, `UsersApart`, `FlushMakesRoom`, `Refines` |
| `sata_manager` | window 3, ids not wrapped, 5 buffers, 6 tasks each way | `ReadsSentInOrder`, `WriteDataIntact`, `WindowsCoherent`, `Refines` (both windows) |
| `gc` | 6 blocks of 3 pages, every set of bad blocks without block 0 | `OnlyGoodBlocks`, `PagesInOrder`, `CountsFreeBlocks`, `NeverTwice` |
| `gc_block_zero` | 4 blocks of 2 pages, block 0 bad | **violated**: `HaltsOnlyWhenFull`, it halts with a block left (`gc.c:59`) |
| `ftl_threads` | 3 threads, 2 pages of 2 x 2 sectors, 2 banks, 4 commands | `ThreadsCoherent`, `ReadsSnapshot`, `NothingLost`, `NoOvertaking` |
| `ftl_threads_live` | 2 threads, 3 commands, 1 bank, mapping pages evicted, the bank also taken by the PMT thread | `MappingStaysLoaded`, `NoMissedCompletion`, `EveryCommandFinishes` |
| `ftl_threads_users` | 2 users, a page each | **violated**: `OwnerReadsBack`, the owner reads zeros (`write_buffer.c:469`) |
| `pmt` | 4 mapping pages, 3 cache slots, merge buffer of 2, 2 threads, 5 clients in all, 2 banks, timestamps up to 4 | `TablesAgree`, `AssertionsHold`, `NewestKept`, `FixesMatchOwners`, `NoMissedCompletion`, `SleepersAreServed` |
| `pmt_queue` | 14 mapping pages, 8 slots, 3 threads, 1 bank, a cache already at work | **violated**: `QueueHasRoom`, the request queue overflows (`pmt_thread.c:41`) |
| `sata_events` | 3 commands, 1 reset, queue full with 2 entries, 2 tasks | `MovesForHost`, `SlowRunsAlone`, `RunsWhole`, `HostIsServed`, `DeferredStarts`, `MailIsRead` |
| `driver` | 3 processes, 2 sectors, bios of up to 2 sectors, 2 values, keys 0, 1, 2 | `MediaStaysWhileUsed`, `ReadsOneMoment`, `ReadsOwn`, `TimerOnlyWhenUnused`, `UnusedIsForgotten` |

The type invariant of a module is part of the first property of its run where a
mistake could break it (`BuffersCoherent`, `WindowsCoherent`,
`ThreadsCoherent`, `TablesAgree`); those of the other modules are proved
(section 4). Each property is also run against a model with one plausible slip,
the operators named `Bug...`, and fails there.

The three violated runs are disagreements of the code with its own text:

* `gc_block_zero`: a bank whose block 0 is bad is given one free block fewer
  than it has.
* `ftl_threads_users`: `write_buffer_flush` promises the owner of the data it
  returns (`write_buffer.h:66`), but the code that would return it is
  compiled only under a misspelt option. A flush caused by another user's write
  authorizes the page for that user.
* `pmt_queue`: the queue has a place for every sub-page of every thread, but a
  thread woken by another thread's page asks again for the pages it still
  misses while its first requests are queued. It takes three threads that miss
  two pages each, all of them on one busy bank.

### Bounds, and why they are enough

* Locks: the matrix relates two owners; a third shows that a release by one of
  several holders is signalled. There is one page more than slots, so that
  slots are recycled for other pages. Null requests take slots that no unlock
  gives back, so the run has clients that make none, as the handlers do;
  `PageLockSafe` is proved for any requests.
* Write buffer: three buffers are the fewest in which a page moves from one to
  another while a third belongs to another user; two sub-pages of two sectors
  distinguish a sector, its sub-page and the page. The ranges lie in a sub-page
  and cross the border.
* SATA windows: more buffers than the window holds, more tasks than buffers, so
  that both rings come round.
* Allocation: each stream takes several blocks, with bad blocks before, between
  and behind.
* Threads: the initial state holds two written pages. Four more commands fill a
  buffer with parts of two pages, flush it while a whole-page write or a read
  of the same page overtakes or waits, and reuse a thread. Three threads are
  the fewest with one ahead of and one behind a sleeper. Two banks let reads of
  one thread run in parallel. Liveness needs a thread that waits for another,
  and a third command that reuses a thread.
* Mapping table: one slot fewer than pages, and as few slots as the assumption
  of the module allows, so that misses evict, evictions flush, and pages come
  back from the merge buffer; the bound of the timestamps is reached at once.
  Five clients fill the cache, evict from it, flush what was evicted and load it
  again, with two of them at a time.
  The queue run needs more pages than the first run could hold, and begins in a
  state which that many accesses, one by one, lead to.
* SATA events: of three commands two fill the queue, so that a third is deferred,
  or slow and in the mailbox beside them; a reset can come at any point of that.
* Driver: two processes race, a third holds the device open; keys 0 and 2 are
  the same session, 1 another.
* `MaxCmds`, `MaxResets`, `MaxTasks` and `MaxAccepts` cap the counters. `CHECK_DEADLOCK FALSE`
  is set where the system stops: the end of the bank, `MaxTasks`.

### Fairness

`FairSpec` of `FtlThreads`: passes begin for ever and every handler runs to its
next sleep, because `Main` is an endless loop without preemption (weak fairness
of `StartPass`, `Skip` and the handlers). Flash commands end, and the PMT thread
does not keep a bank for ever: for each bank, there is some pass in which it is
idle when the handlers run. A requested mapping page is loaded in some pass.
Both are strong fairness of one outcome of `StartPass`, because that action has
many and the one in question is possible again and again while it is awaited.
The host need not send anything. That the PMT thread serves those who sleep is
what `PmtThread` shows by `SleepersAreServed` and `NoMissedCompletion`.

`FairSpec` of `SataEvents`: the loop and the handler go on, and the host takes
part in a transfer that moves. The FTL takes from the queue, accepts a write whose
page has come or a read that the host still wants, and finishes tasks, whenever it
is given the chance again and again. No page comes for a command that the host has
given up, and no buffer needs to become free for one: of the host no more is asked
than the transfers it takes part in.

`FairSpec` of `Driver`: an armed timer expires, its handler runs, and an open
that has begun gets the lock.

## 4. What is proved

`PageLock_proofs`, for every set of owners, pages and slots:

* `PageLockSafe`: `Spec => [](TypeOK /\ SlotsCoherent /\ Exclusion)`. The
  inductive invariant is the conjunction itself. `Exclusion` needs
  `SlotsCoherent`, because a slot that a new page takes must be free of owner
  bits, and the count needs the cardinality of the slots in use to change by
  one. The heart is the lemma on `FinalLock`: the answer to a request is
  compatible with the locks of all other owners, because the highest of them is
  taken and the matrix is monotone.
* `NoLeak`: if `PAGE_LOCK_NULL` is not among the requests, then
  `Spec => []NoSlotLeak`. A new slot gets the answer of a request on an
  unlocked page, which is the request itself; an answer never weakens to null a
  lock that is the only one.

What `PageLock` promises its clients builds on it. The lemmas `LockIsLocal` and
`UnlockIsLocal` say that a call changes the record of its own page and of no
other, also when a slot is taken or given back; they need the invariant above,
because the record is found by a search over the slots.

* `PageLockRefines`: `Spec => Refines`, every step is a step of
  `PageLockTable` or a stutter. The code compares numbers, the strongest other
  lock only; the lemma `FinalLockIsAnswer` shows that this gives the strongest
  lock that the matrix allows beside *all* others.
* `NoRequestMissed`: `Spec => []NoMissedRelease`. The answer to a request falls
  when others get stronger locks (`AnswerFalls`) and `page_lock` never weakens
  a lock (`LocksNeverWeaken`, which needs exclusion), so that only an unlock can
  make a sleeping request grantable, and an unlock wakes all.
* `SlotsSuffice`: `Spec => []SlotAvailable`, if there are finitely many owners,
  no null requests, and `MAX_NUM_LOCKS` is at least the number of owners times
  `PerOwner`, as `page_lock.c:5` defines it. Each slot in use is charged to one
  of its owners; this is an injection into the owners times `1..PerOwner` that
  leaves out a place of the owner who asks.

Assumptions: `NULL_LPN` is not a page, the requests are lock types, the slots
are finite, owners may keep at least one page.

`WriteBuffer_proofs`, for every set of pages and users, every finite number of
sub-pages, any sectors of a sub-page and any number of buffers:

* `BuffersAgree`: `Spec => []BuffersCoherent`, with type correctness, the
  counters and the assertions.
* `UsersShareNothing`: `Spec => []UsersApart`.
* `RoomAfterFlush`: `Spec => FlushMakesRoom`.
* `PackingInvisible`: `Spec => Refines`, every push, drop and flush is one of
  `SectorStore`.

The first two hold together or not at all: `IInv` says that the masks of the
buffers are what their entries take up, that entries of one buffer and entries
of one page do not overlap, and who owns a buffer. A call is a sequence of
changes that each keep this (`Coherent`, of the entries and the buffers it has
reached): `Shrink`, in which entries lose whole sub-pages and buffers that this
empties are freed, and `Grow`, in which a free entry gets sectors in a buffer
that fits. A drop and a flush are a `Shrink` to nothing; a push is a `Shrink` of
other users' entries (`CommonTaken`) and then a `Grow` (`NewStep`), or takes its
own entry out whole and lets it grow again with the new sectors, in its old
buffer or in a new one (`Stays`, `Moves`, `PutBack`). The lemmas on the fields
(`RemoveFields`, `AllocateFields`, `PutFields`) show that the code, which never
takes the entry out, ends with the same tables. Room after a flush needs that
the fullest buffer is not empty, which follows from the exact counters.

The refinement follows the data through the same sequence. `Holds` says that an
entry of a page has a sector, with this value and this user. By `IInv` no two
entries do (`OneEntry`), so that it determines the sector of the store
(`CellHeld`). `Written` is what a push does in these terms: its sectors hold the
new data, all others of the entries that were left hold what they held, and
nothing else is held. It needs that a move copies exactly the sectors that the
push does not overwrite, and that no sub-page in use by another entry is
touched (`RemoveData`, `PutData`, `MovesData`). A flush finds whole pages of one
user because a page has only one entry per user. `StoreInv` adds to `IInv` that
what is stored was written by some push, so that the store never takes a sector
for an absent one.

Assumptions: there is a sub-page and a buffer, partial writes are neither empty
nor whole pages, and the special values are none of the ordinary ones.

`Mapping_proofs`, first part, about `PmtThread`: for every number of threads,
banks and PMT pages, any sub-pages that threads need and any sizes of the cache,
the merge buffer, the timestamps and the request queue:

* `TablesStayInStep`: `Spec => []TablesAgree`.
* `MappingKept`: `Spec => []NewestKept`.
* `FixesAreOwned`: `Spec => []FixesMatchOwners`.
* `CompletionsMet`: `Spec => []NoMissedCompletion`.
* `SleepersServed`: `Spec => []SleepersAreServed`.
* `NoAssertionFails`: `Spec => []AssertionsHold`, if `CacheHasSlack`.

and `PmtTypes` for the types. One invariant, `IInv`, carries them all, because
they need each other: that an update is found again depends on the order in
which pages leave the cache, that on the fix counts, and that a sleeper is
served on the banks. Its parts:

* `CacheInv`: the tables agree, the timestamps are in the order of use and below
  the counter, and dirty pages are loaded. Each
  call of `PmtCache` has a lemma that it keeps this, built from few changes of
  one entry: an access (`update_timestamp`), a page that leaves the evictable
  ones (`Leave`), pages freed and pages merged. Renumbering keeps the order
  because a page's new timestamp is the number of older ones. The shortcut for
  the page accessed last is sound because that page already is the newest of
  the evictable ones.
* `ThreadInv`: which sub-pages a thread has fixed in each phase, and that at most
  one thread is within a loop.
* `FixesMatchOwners`: a step adds or removes one owner of one page, or none
  (`Owners` of all others stay), and the call changes that fix count alike.
* `NewestInv`: `NewestKept`, and that a loaded page that is not dirty is also
  where the GTD says, so that an eviction may forget it.
* `BankInv`: `NoMissedCompletion`, that a bank has one command at a time, and
  that within a pass a bank of the PMT thread is idle only while the end of its
  command is still to be dealt with.
* `SleepInv` and `WantInv`: a thread that sleeps for a page was put to sleep
  with the page in the cache as loading, or requested; a load that ends signals,
  and whoever is woken asks again. `Wanted` stays within its bound.

`NoAssertionFails` is by counting. When a request finds the cache full, some
page is evictable: each page that is not is fixed by a sub-page that is wanted,
or being loaded from a bank that loads no other, or in the merge buffer, and
these are fewer than the cache holds; and the least recently used ones are
merged until the buffer is full or a clean one is freed (`EvictFinds`).
`CacheHasSlack` is `MaxWanted + Cardinality(Banks) + SUB_PAGES_PER_PAGE <=
NUM_PC_SUB_PAGES`; the code has 15 threads with 8 sub-pages, 32 banks and a
merge buffer of 8 pages, 160 in all, and a cache of 512. The run `pmt` has a
cache that is smaller than that.

Assumptions: the wanted pages are sequences of one to `SUB_PAGES_PER_PAGE` PMT
pages, threads and banks are finite and there is a bank, the special timestamps
lie behind those that the cache needs, and the null values are none of the
ordinary ones.

Second part, about `Gc`, for every number of blocks and of pages in a block and
every set of bad blocks, block 0 included:

* `GcSafe`: `GcSpec => [](OnlyGoodBlocks /\ StreamsApart)`.
* `PagesOnce`: `GcSpec => NeverTwice`.
* `WrittenInOrder`: `GcSpec => []PagesInOrder`.
* `FreeBlocksExact`: `GcSpec => [](CountsFreeBlocks /\ HaltsOnlyWhenFull)`, if
  block 0 is good. This is the other side of the run `gc_block_zero`.

The inductive invariant adds two facts to these: the search for a block starts
behind every block taken (`BlocksTaken`), and a stream within a block gave out
the page before its next one and none behind it (`WithinBlock`). From the first,
a page in a new block is fresh; from the second, the next page of a block lies
in the stream's own block and behind all its pages. `DivMod` and `DivUnique`
are the arithmetic that relates a page to its block. The count is that of the
good blocks from `next_free_block` on; taking a block skips bad ones only, and
so removes one block from that set.

`Driver_proofs`, for every finite set of processes, every device size, every
length of bio and every set of keys:

* `NoMediaChangeInUse`: `Spec => []MediaStaysWhileUsed`.
* `BioReadsOneMoment`: `Spec => []ReadsOneMoment`.
* `SessionsReadTheirOwn`: `Spec => []ReadsOwn`.
* `TimerIsSafe`: `Spec => [](TimerOnlyWhenUnused /\ TimerNeedsDevice)`.
* `DriverTypes`: `Spec => []TypeOK`.

The inductive invariant adds that `users` is the number of processes that have
the device open (`UsersCounted`), that nobody is in a call of an unloaded driver
(`CallsNeedDevice`), that a sector with data belongs to the session that wrote
it (`OwnerWrote`), and that the device does not change while a bio reads
(`HeldStill`). The last one is where revalidation without the lock matters: it
wipes only if a media change is flagged, and none is while the process of the
bio is a user.

`SataManager_proofs`, for every width of the status word, every size of the two
rings of buffers and every number of tasks, as long as the ids do not wrap
(`NoWrap`, which the run meets too):

* `ReadsInOrder`: `Spec => []ReadsSentInOrder`.
* `WritesIntact`: `Spec => []WriteDataIntact`.
* `AssertionsHold`: `Spec => []~halted`.
* `WindowsCounted`: `Spec => []WindowsCoherent`, with the count of the tasks.
* `OrderedWindows`: `Spec => Refines`, both windows.

The inductive invariant says of one window (`WindowInv`) that at most `Window`
ids are open, so that each has a bit of its own (`OwnBit`), that exactly the
open tasks that have ended have theirs set, and that the first open task has
not ended. `AcceptWindow` and `FinishWindow` show that the two calls preserve
this, whichever task ends and however many are released; reads and writes
share them. `ReadInv` and `WriteInv` add that the ids in the ring are less than
its size apart, so that no two share a buffer. `ModSame` and `ModNext` are the
arithmetic of the rings. For the count (`TasksCounted`), the ended tasks are
matched with the bits of the status word one to one, and the open ones with the
numbers from `finish` to `accept`.

`FtlThreads_proofs` and `FtlData_proofs`, for every number of threads, pages,
banks, users and commands, any set of commands and any size of a page:

* `MappingStays`: `Spec => []MappingStaysLoaded`, the assertion of
  `ftl_write_thread.c:239`.
* `LocksGivenBack`: `Spec => []NoLockLeft`, a thread that has ended holds no
  page lock; its id goes to the next command.
* `ThreadsStayCoherent`: `Spec => []ThreadsCoherent`.
* `LocksInOrder`: `Spec => NoOvertaking`.
* `CompletionsSeen`: `Spec => []NoMissedCompletion`.
* `ReadsAreSnapshots`: `Spec => []ReadsSnapshot`, with one user.
* `NothingIsLost`: `Spec => []NothingLost`, with one user.

Each of the inductive invariants below rests on the ones before it.

1. `IInv` says, phase by phase, which mapping pages a handler has fixed, which of
   its flash reads are under way and which locks it may hold (`ReadState`,
   `WriteState`); a step of one thread leaves the state of the others alone
   (`LocalTo`), and the table evicts nothing that is fixed (`FixedIsLoaded`).
   That is enough for the first two theorems.
2. `SchedInv`: the list is that of the live threads in the order of their
   commands, and a thread that has not run yet is behind all that have. The
   lemmas `TurnStays`, `TurnMoves` and `TurnEnds` follow the turn through the
   three ways a handler can go on, the removal of the current thread included.
   With `Typed`, the type invariant, it gives `ThreadsStayCoherent`.
3. `LockInv`: a writer has the locks of the pages it carries once it has left
   `LOCK`; no thread has a lock of a page that an earlier writer carries, or that
   an earlier reader waits for if it writes itself (`PairLocks`); and a sleeper is
   behind a thread that has the page, or its wake-up is raised and its turn in
   this pass is still to come (`Blocked`). The last is what makes the second
   inductive: when a lock is given back the first in the list to want it is the
   first to be asked. Hence `LocksInOrder`.
4. `PageInv`: every place in the mapping table is a page that no thread has yet
   to write (`Settled`), or that of a writer that has stored it and is about to
   issue its flash command (`Placed`).
5. `BankInv`: a flash command under way has its bank busy, or its bank has ended
   in this pass and its thread is still to run; two commands share a bank only if
   one of them has ended. Hence `CompletionsSeen`.
6. `DataInv`: of each sector and each command number, where the newest write
   before that number is (`Expect`): in the write buffer, with a thread that
   carries it, or in the virtual page that the table names. A reader that has
   not run yet, a reader that looks through the three places one after the other
   and a writer that completes its sub-pages from an old page each have their
   part (`ReaderData`, `WriterData`), and each step is a lemma. The hard ones are
   the flush, in which a sector changes from the buffer to a thread (`DataFlush`),
   and the update, in which it changes from the thread to the table
   (`DataUpdatePmt`), each with readers on their way.

The hypothesis `OneUser` of the last two is what the firmware does: `eventq_get`
gives every command `DEFAULT_USER_ID`. With several users the two are false of
the code: a push drops other users' sectors of its sub-pages from the write
buffer, and a reader without access is given zeros.

Assumptions: sub-pages are numbered from 0, there is a bank, a user and a part of
a sub-page, the pages are `1..n` and written by the first `n` commands, some
command names each page, and the null values are none of the ordinary ones.

`SataEvents_proofs`, for every number of commands and resets, every length of
the event queue and every number of tasks:

* `TypesKept`: `Spec => []TypeOK`.
* `MovesOnlyForHost`: `Spec => []MovesForHost`.
* `DeferredHasEntries`: `Spec => []DeferredIsQueued`.
* `SlowAlone`: `Spec => []SlowRunsAlone`.
* `SlowWhole`: `Spec => []RunsWhole`.
* `NothingForgotten`: `Spec => []HostIsServed`.

The inductive invariant follows a command along its way. A command that has
arrived and is not handled is the last one sent, and newer than any that moves
or waits to, and until the handler has seen the link come up it sees nothing else
(`Arrivals`); what moves or waits is a transfer that the host
expects (`Moves`); what is in the mailbox or runs is a slow command or a reset
that it expects, and between the two reads of the mailbox the command is only
replaced after the host has given it up (`Mailbox`); and from the moment
`ftl_main` has found the FTL idle nothing but new commands comes into the queue
(`IdleStays`). Each of the twenty steps is a lemma with one part for each of
these. `NothingForgotten` names the command that was wiped (`lost`): a host that
waits for any other is served, also after a loss.

## 5. What is only model-checked

The liveness properties (`EveryCommandFinishes`, `DeferredStarts`,
`MailIsRead`, `UnusedIsForgotten`): liveness under fairness and `ENABLED` are
out of the prover's reach. They hold for the instances of section 3, the two of
`SataEvents` outside of `Starved`. Every safety property of a passing run is
proved.

## 6. Not modelled

* **Vendored code.** `src/OpenSSD` holds the firmware of the Jasmine board three
  times (`1.0.6`, `1.1.0`, `Cylde`): installers, target library and SATA code in
  each, and five sample FTLs in each of the last two. That is by far the most of
  the repository's lines. Only `1.0.6/ftl_tssd` is TrustedSSD's own, and of the
  rest it builds only on the SATA front end, hardware access and headers of
  `1.0.6`.
* **ATA protocol.** Native command queueing (not used by the firmware), the
  decoding of the lba from the FIS with its 32-bit wrap, PIO set-up, identify
  data, power modes and the answers of the slow commands. The FIQ handler is one
  step: an interrupt raised while `phy_online` runs is handled next, where the
  code would wipe it (`src/OpenSSD/1.0.6/sata/sata_isr.c:282`); the wipe of one
  raised before is modelled.
* **SATA buffers after a reset.** Which page is in which SATA buffer is the
  subject of `SataManager`, which has no resets. `SataEvents` counts the written
  pages that have come. It has no positions in the read buffers: pages that a host
  gave up may stay there, and a read of such a host need not be accepted. That the
  controller moves `SATA_WBUF_PTR` by whole pages, and empties neither its event
  queue nor the buffers at an SRST or a link loss, is assumed, because the code
  resets the pointers only in `sata_reset` (`sata_main.c:201`). Commands of several
  pages are not split: a write that breaks off after some of its pages waits for the
  next one as a write of one page does.
* **Session keys from the FIS.** `eventq_get` gives every command
  `DEFAULT_USER_ID` (a `FIXME` of the source); the model gives commands users
  of their own, which is what access control is there for.
* **Id wrap of `sata_manager.c`.** Ids are compared with `<`, which fails when
  they wrap after 2^32 tasks; the run stays below.
* **Managed buffers with their other users.** `PmtThread` counts the buffers the
  PMT thread holds; the write buffer and the flash access layer take them from
  the same pool, and no module has all three.
* **One firmware.** `FtlThreads` and `PmtThread` are not composed; the state
  space of the two together is out of reach, and the service that the one
  assumes is coarser than what the other does (whole pages, any order).
* **Pages never written.** `FtlThreads` starts with every page written, so the
  branches for sub-pages without a virtual page (a read of erased data, a write with
  nothing to complete it from) are in the model and are not taken.
* **Driver.** Failures of `kmalloc` in `setup_device`, hardware sectors other
  than 512 bytes, `vfree` of memory from `kmalloc`, the `ioctl` for the geometry.
* **Kernel patch.** It copies the key from file to bio to request to taskfile
  and forbids merges of different keys; each is an assignment or a comparison
  within a function of a kernel that is not here.
* **Hardware and start-up.** Flash commands, DRAM geometry, memory helpers,
  example programs, host tests. The firmware tests under `test_tssd` were read
  for what they expect.

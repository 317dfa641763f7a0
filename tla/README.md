# A TLA+ verification of mm-exper

mm-exper is a collection of experiments and tools around Linux memory
management. Most of its programs make a few system calls and print what the
kernel did; some keep state of their own, and those are what this project is
about. Line numbers refer to files under `src/`.

## 1. Inventory

| Component | State | Operations | Interacts with | What makes it correct |
|---|---|---|---|---|
| musl allocator, `musl/oldmalloc.c` | chunk headers in the heap, 64 free lists, `binmap`, statistics, `end`, `stored_brk` | `musl_malloc`, `musl_free` | `sbrk`, `mmap`, `munmap`, `madvise` | blocks never overlap, hold the bytes asked for and stay put; no call crashes or hangs |
| bitwise helpers, `include/bitwise.h` | none | alignment, bit masks | the allocator | agree with their comments |
| GUP pin device, `mad/kernel/mad.c`, `mad/mad.c` | `curr_page`, the pin on a page, registered devices | write to `gup_uaddr`, `gup_event`; load, unload | page cache, `msync`, users that die | the pin is neither lost nor doubled, and is released |
| query devices, `kernel/exper`, `kernel/vmaflags`, `kernel/vmainfo` and their readers in `read-pageflags`, `random/shared.c` | one global answer buffer each | write a question, re-open, read the answer | several processes | the answer read is the answer to the question written |
| pagestat | snapshots of `smaps`/`pagemap`, print abbreviation state | snapshot, print, diff, watch | a process that changes meanwhile | every mapping once, every page accounted for |
| read-pageflags | what `/proc` says of a page | read, decode, print; two threads that map one file | `pagemap`, `kpageflags`, the query devices | flags belong to the page printed |
| page sharing and copy-on-write experiments, `random/pagemap_tour.c`, `map_shared.c`, `private2.c`, `fork_shared_anon.c`, `uncow.c`, `forky2.c`, `shared_rss.c` | mappings of files, memfds and anonymous memory in up to three processes | map, read, write, fork, truncate, discard, print | kernel, `/proc` | a page printed is as the label beside it says |
| fault-around, `concepts/fault_around` | the threads that test | four versions of the window computation | - | the versions agree, the window stays in the VMA and the page table |
| userfaultfd examples | registered range, message queue, listener thread | register, fault, answer | kernel, faulting thread | every fault is answered once |
| socket | listening socket, passed descriptors | accept, receive, print | clients that die | no client that has sent its file is left waiting |
| shmem (fork, memfd, posix, sysv) | a shared page and a hand-shake | create, fill, wait, unlink | two processes | the reader sees the writer's data |
| procmap, and the mapping experiments (merge_cases, mremap_unmap and eighteen others) | expected VMA lists | mmap, mremap, munmap, query | kernel | the list found is the list expected |
| other kernel modules, small experiments, reproducers, tools | none that lasts | straight-line system calls | kernel | nothing to state beyond the kernel's behaviour |

What is hard here: long sequences of legal calls in the allocator, whose errors
show many calls later; size classes that meet at boundaries; a refused `sbrk`;
unlocked global state in the kernel modules, with users that interleave, die or
fail half way; parsers of `/proc` files that change under them; threads and
processes that wait for each other. The list, each hazard at its line, is in
`PROJECT.json`.

## 2. Modules

| Module | Models |
|---|---|
| `MuslBins` | constants, `adjust_size`, `bin_tab`, `bin_index`, `bin_index_up`, the bit helpers the allocator uses |
| `MuslMalloc` | the allocator, one action per path through `musl_malloc` and `musl_free` |
| `AbstractAllocator` | what `malloc` and `free` promise |
| `MCMuslMalloc` | instances for TLC |
| `MuslMallocProofs` | theorems about the allocator |
| `InductionProofs` | induction over the naturals; sums and powers of two, for the other proofs |
| `GupDevice`, `MCGupDevice`, `GupDeviceProofs` | the GUP pin device and its program, instances for TLC, theorems |
| `VmaSpace` (external) | the kernel's list of VMAs: map, unmap, protect, fault, move, with its rule for merging |
| `VmaExperiments`, `Procmap` | the mapping experiments and `procmap.c` as sequences of system calls |
| `VmaRunner`, `MCVma`, `VmaProofs` | runs them, one call a step; instances; theorems |
| `Pagestat`, `MCPagestat`, `PagestatProofs` | snapshots, printing, comparing and watching; small targets; theorems |
| `QueryDevice`, `Socket`, `Shmem`, `Userfaultfd` | the programs that talk to another process or thread |
| `MCTalk`, `TalkProofs` | an instance of these four, one of them in each behaviour; theorems |
| `PageWorld` (external) | frames, page caches, page tables, faults, copy-on-write, fork |
| `ReadPageflags` | what `read-pageflags.c` reads of a page and prints |
| `PagePrograms`, `PageTour` | the page experiments as steps of their processes, and their interleaving |
| `MapPrivate` | `map-private.cc`, two threads and a kernel that reclaims |
| `FaultAround` | `concepts/fault_around`: the computations and the program that compares them |
| `MCPages` | an instance of `PageTour`, `MapPrivate` and `FaultAround`, one of them in each behaviour |
| `PagesProofs` | lemmas about the operations on pages; theorems about `fault_around` and what is printed |

### MuslMalloc

The variable `h` is the memory the allocator keeps for itself. `psize` and
`csize` are the two words of each header, by chunk address; the lowest bit of
each (`C_INUSE`) is kept apart, in `pused` and `cused`. `bins` are the circular
lists and `binmap` the bits. Sizes and addresses are bytes, exactly as in the
code, and so is `bin_tab`. The statics `end` and `stored_brk` and the counters of
`stats` are variables of their own; `stats.free_block_bytes` always moves with
`free_bytes` and is not kept twice, and `reclaim` holds the range of the last
`madvise` instead of the sum `reclaimed_bytes`.

| Action | Code |
|---|---|
| `malloc_mmap` | requests above `MMAP_THRESHOLD`, 506-531 |
| `malloc_fast` | the head of the bin, if it need not be trimmed, 533-549 |
| `malloc_slow` | the first bin of the mask, unbin and trim, 551-564, 580-589 |
| `malloc_expand` | `expand_heap`, `__expand_heap` and trim, 275-400, 566-589 |
| `free_heap` | `__bin_chunk`: footer check, merge both ways, bin, reclaim, 592-684 |
| `free_mmap` | `unmap_chunk`, 686-701 |

`status` records the ways a call can fail to return: `abort` (`crash()`), `spin`
(the search loop at 552 discards the result of `clear_lowest_bit`, so an empty bin
whose bit is set would be looked at for ever) and `segv` (a footer written past
the break after a refused `sbrk`). The program frees only what it holds, once.

What the model leaves out, and why: the locks are empty in the code and there is
one thread; requests too large for `ptrdiff_t`, a failed `mmap` and `free(NULL)`
return without changing anything; the `mmap` branch of `__expand_heap` cannot be
reached, since `sbrk(n) >= 0` compares a pointer with zero and always holds;
nothing else moves the break (`stored_brk` is never re-read; another allocator in
the process is a listed hazard). Addresses are unbounded naturals: an
allocator that wrapped the address space would have been refused memory before.

### GupDevice

The state is the module (`out`, `in`, or `half` loaded when its second device could
not be registered), `curr_page`, the pins on the page of `test.txt` that every run
maps, whether the page is marked dirty and holds unsynced bytes, and each client's
place in `mad.c`. A handler's test of `curr_page` and its later uses are separate
steps, because no lock is held between them. A client can be killed between two
system calls; a handler it has entered is finished, and a module with an open
device file is not unloaded. stdio writes at `fclose`, whose result the program
ignores, so a refusal by the device does not stop it.

### VmaRunner

The mapping experiments keep no state but the address space, so a program is the
sequence of the calls its `main()` makes (`VmaExperiments`, `Procmap`), with the
pointer variables as registers, and `VmaRunner` has one action per system call.
Loops and helper functions of the programs are operators that build their part of
the sequence (`mmap_cases`, `do_move`, `init_mappings`, `iterate_cases`...).
Comments that draw memory at some point become `see` steps there. `VmaSpace` is the
part of Linux the programs rely on: which VMA an access faults in, which
neighbours merge (same protection, flags and object, offsets that continue, and
compatible `anon_vma`s), where `mmap` finds room. The address space holds other
mappings from the start, just above the area that is handed out, so a range that
is too long meets somebody else's memory. `random_unmap.c` draws at random: any
range may be drawn. A program maps only what still fits below `TOP` (`Room`, a bound).

### Pagestat

A world is what `/proc` shows of the target: mappings with their smaps fields and
pages. The target may change between any two reads of the tool, and in particular
between the smaps entry (the header and fields of one mapping, read together:
stdio fetches them in one buffer) and the page tables of the same range, which are
read later. `mode` is the program: `pagestat_snapshot(vaddr)`, the full print or the
watch loop. `find_header` (one entry, with the header of the next consumed at 154) and
`read_pagemap` are the two reads; the printer's static variables
(`last_seen_map` and the others, 480-529) are the record `printer`, kept from one
mapping, one print and one comparison to the next. `fds` counts the smaps streams
that `snapshot_all` leaves open. An unknown unit at 148-149 keeps the previous one.

### QueryDevice, Socket, Shmem, Userfaultfd

`QueryDevice` has the three modules, loaded one per behaviour (they share nothing),
with a handler's store of the answer's text and of its size as separate steps,
since nothing is locked; its users write, close, reopen and read as
`read-pageflags.c`, `random/shared.c` and a shell do. The buffers are statics of the
modules, so a load sets them to `"0"`, `"[]"` or the empty string (`exper.c:19-25`,
`vmaflags.c:17-18`, `vmainfo.c:17-18`); an unload and a load fit between a user's close
and its second open, when it holds no file. Questions are numbered. A text carries the
number of the question it answers (`id`, 0 for what a load brings) and of the last
question asked when it was stored (`seen`), so that staleness is visible and the two
promises can be told apart: nothing from before the question, and the user's own
answer. The size follows each of the handlers' paths: one more than the text in
`refcount_write_` and for a page without buffers, its length in `read_buffer_head`.

`Socket` is the server's loop (accept, receive, print, and every call whose failure
ends it) with clients that connect, send and end, and may die between any two
calls. Messages stay with the connection. Descriptors are counted against a limit.

`Shmem` has the four variants as call sequences of the two processes, over two
shared bytes; a segment exists, has pages and is cleared in separate steps.

`Userfaultfd` is `simple.c`: the main thread stopped in a fault, the queue of
messages and the listener, which polls, reads, copies. The second store of `main()`
comes after `mprotect(PROT_NONE)` and ends the process, so the fork after it is
unreachable and not modelled.

### PageTour, MapPrivate, FaultAround

`PageTour` keeps the kernel's pages `w` (`PageWorld`) and the place of each process in
its script. The processes of one program interleave after a fork. Each place where a
program prints a page carries what its label or comment says of that page; a line
printed is what `ReadPageflags` makes of the words read from `/proc`, any of which
may be unreadable, and without root the frame numbers are zero. The reads for one
line are one step. A line with a frame and flags also asks `/dev/refcount` and
`/dev/pagebuffers`, and `map_shared.c` asks `/dev/vmaflags` before each line: any of
these may end the program (`read-pageflags.c:177`, `:206`, `random/shared.c:140-158`).
What they answer is `QueryDevice`'s matter. `sleep()` orders nothing.

`MapPrivate` is the two threads of `map-private.cc` on the same pages, with a kernel
that reclaims a page at any point. The constructor of `page_state` is three steps, one
for each of pagemap, kpageflags and kpagecount; the other thread and the kernel may run
between them, and each may fail, after which the values that were not read are `~0`. An
exception or `exit` in one thread ends both. Which letter is stored matters to nothing,
so there is one.

`FaultAround` has the original computation, the two takes and the final version in
unsigned arithmetic, and `main()`'s threads with the handle they read before it is
stored (255) and the exit when a processor cannot be set (258).

## 3. Runs

| Run | Instance | Shows |
|---|---|---|
| `musl` | three request sizes, four blocks, a heap of two pages | `TypeOK`, `HeapTiled`, `TagsAgree`, `Coalesced`, `BinsExact`, `LiveBacked`, `NeverStuck` and the refinement `Implements` |
| `musl_large` | sizes of the last bins and above the mmap threshold | `LiveBacked`, `StatsConserved`, `ReclaimSafe`, `Implements` |
| `musl_brk_fail` | as `musl` | **violated**: `NeverFaults`. A refused `sbrk` is not noticed; the fallback to `mmap` announced at 276 and 323 is unreachable |
| `gup_single` | one client, three runs, two loads, kills anywhere | `TypeOK`, `PinBalanced`, `NoNullPage`, `UnloadReleases`, and the liveness property `Released` |
| `gup_pair` | two clients | `WritesTracked` |
| `gup_race` | two clients, one run each | **violated**: `EchoZeroUnpins`. A pin is overwritten or forgotten in `curr_page` and no echo 0 can drop it (`mad/kernel/mad.c:27`) |
| `vma` | all twenty mapping programs | `TypeOK`, `AsPictured` (the VMAs are those the comments draw), `NoCallFails`, `OthersUntouched`, `SpaceReturned`, `QueryExact` (`query_ptr` draws the right conclusion from one VMA) |
| `procmap_states` | procmap alone | **violated**: `StatesAsConfigured`. A DIFFERENT neighbour is faulted in only when both are (`random/procmap.c:208`) |
| `pagestat` | six targets, two changes | `FoundIfThere`, `PrintedOnce`, and the action properties `NoFalseAlarm` and `ChangeReported` |
| `pagestat_all` | targets that keep still | **violated**: `AllMappings`. Every second mapping is left out (`pagestat/pagestat.c:154`) |
| `talk` | two users of a device, three socket clients, the shared memory pairs, a fault | `NeverStale`, `OwnAnswer`, `OnlyConnectionsLeak`, `LettersStay`, and the liveness properties `SentIsServed`, `ServerEnds`, `FaultAnswered` |
| `pages` | the page experiments, `map-private.cc`, `fault_around` | `AsDescribed`, `PrintsWhatIs`, `SameWindow`, and the liveness property `ChangeSeen` |

Bounds. In `musl`, 700 bytes is a request of an exact bin and 1456 and 1500 share
bin 33, where the fast path depends on the head's size; four blocks give all
patterns of free and used neighbours on both sides of a block, and two pages let
the heap expand once in place and then be refused. In `musl_large`, two chunks of
100000 bytes merge above `RECLAIM`, and 229361 is just above the mmap threshold.
Deadlock is not checked: after a refused `sbrk` the process is dead, and a client
may have used up its runs. In `gup_single`, three runs let a run be killed with
the page pinned, a second find the pin and release it, and a third start afresh;
with two clients, two of the runs overlap and the third follows a finished one.
Clients are symmetric in `gup_pair`, which checks no liveness.

`vma` has no bound but the five pages
`random_unmap.c` works on (any order of any ranges of them); all loops of the
programs run in full. In `pagestat`, a mapping of three pages has runs of one, two
and three, which the printer treats differently; two mappings and an ignored one
between them show state carried over; five mappings overflow a list of `MAX_MAPS` = 3,
and four descriptors let the watch loop run out of them. Two changes allow one during a
snapshot and one between two of them. In `talk`, answers of two lengths
show a text cut by the size of another; three clients with a backlog of one and
three descriptors make one wait, one be served without its file and one find the
server gone; two questions let one user's come before, between or after the other's,
and loads are not bounded; three letters give a first, a middle and a last; four bytes a page
give faults at both ends and inside. In `pages`, ten pages are four (the halves of
`private2.c` stay apart), a round of ten is two, one page is reclaimed and one read of
`/proc` fails in `map-private.cc`, at any point, and the page table has eight
entries so that VMAs of two and ten pages lie inside one table, across one
boundary and across two, at file offsets smaller and larger than the difference.

Deadlock is off in `talk` and `pages` also: their programs end, and some processes
are left waiting, which is what the liveness properties are about.

Fairness. `FairSpec` of `GupDevice` has weak fairness on the steps of a run that
has started: the kernel schedules a runnable process and the calls it makes
(`msync`, the handlers) return. Nothing obliges anyone to start a run, to kill one
or to load the module. The allocator makes no liveness claim of its own: each call
is one step, and a call that would not return is the `spin` status that
`NeverStuck` excludes. In `talk`, the server, each client, each process of a shared
memory pair, the main thread and the listener are weakly fair for the same reason;
nobody has to die and no user has to ask. In `pages` only the private thread is: it
sleeps a fixed time in its loop and waits for nobody. Neither the storing thread nor the
reclaiming kernel is obliged to do anything.

Each property of a passing run has a mutant in `PROJECT.json`: a plausible slip in
the code, written as an operator next to the definition it replaces, which makes
TLC report that property.

## 4. Proofs

The theorems hold for every value of the constants that meets the named
assumptions of the modules; TLC evaluates these for the instances it runs.

### The allocator

For any set of requests, number of blocks, break and mmap addresses (natural
numbers; the initial break is not 0).

* `MuslMallocProofs`, the bins: `BinFits`. For all sizes, a chunk in a bin at or above
  `bin_index_up(n)` has room for `n` bytes. The slow path relies on it: it
  compares no sizes. `BinIndexUpType` bounds the index.
* `MuslMallocProofs`, the heap: what each operation on it preserves. `WF(hp, s, f, X)`
  says that headers tile the heap from `s` to the footer `f`, that tags agree, that
  no two free chunks are neighbours and that the bins hold the free chunks; `X` is
  the set of chunks in the middle of a merge, whose size the header after them
  does not yet repeat. There are lemmas for `unbin`, `bin_chunk`, `split`, `absorb`,
  `release` and `grow`, and for the compositions `trim`, the merges and a free.
* The inductive invariant `Inv` says that the heap is `WF` with no
  chunk in the middle of a merge, blocks are the used chunks and the mappings, each
  with room, mappings lie above the break, the last reclaimed range is inside a
  free chunk, and the status is `ok` or `segv`. None of
  the properties is inductive alone: that the tags agree needs the tiling, the
  search needs exact bins, and exact bins need `PREV_CHUNK` to find a header.
  `Invariance` proves it, one step per action; `TypeCorrect`, `Tiling`,
  `BoundaryTags`, `Coalescing`, `BinsCorrect`, `RoomForRequests`, `NoStuckCall` and
  `SafeReclaim` are the properties of the runs.
* `Refinement`, `Spec => Implements`: each step maps to a
  step of `AbstractAllocator` or a stutter, from tiling and room.
* `StatsAddUp`, `StatsConserved` after any calls and any answers of the kernel: free,
  heap, mapped and allocated bytes are the sums over free chunks, the heap, mappings and
  live blocks. `SumInv` has one sum a counter; that `free_bytes` is right also in the
  middle of a merge is a part of `WF` (`Counted`), and that the heap's length is the sum of
  its chunks telescopes along the tiling (`HeapLength`). The sums are folds over finite
  sets; `InductionProofs` shows what a fold does when an element is added, removed or
  changed.

### The GUP pin device

`GupDeviceProofs`, for any number of runs and loads. Under the hypothesis
`OneUser`, one client, the inductive invariant `Inv` ties the pin count and
`curr_page` to the place of the client in the handlers (`HandlerKnows`: what the
test of `curr_page` found is still so at every later use). It gives `GupTypeCorrect`
(no underflow of the pins), `PinsBalance`, `NoNullDereference`, `UnloadUnpins` and
`EchoZeroSuffices`. The hypothesis is needed: `gup_race` refutes the last of these
for two clients, because `HandlerKnows` is what a second client breaks between test
and use. `StoresTracked` needs no hypothesis and holds for any clients.

### The programs that talk

`TalkProofs`, for any users, clients, lengths, limits and rounds (`MCTalk`'s
assumptions: lengths and rounds are natural numbers, the server's own socket fits
its limit, and no client has the name that stands for nobody).

* `ConnectionsLeak`, by `SocketInv`: the descriptors held at each place of the
  server's loop.
* `ClientLettersStay`, by `ShmemInv`: with fork and memfd the client can only be
  past its start when the server is past its `memset` (`StartedAfterClear`).
* `AnswersFresh`: nobody takes for its answer what the buffer held before it asked,
  over any loads and unloads; on the VMA devices, which reset their buffer, even when
  the question was refused. `AnswersOwn`: a user gets its own whole answer unless another
  user writes the device or the module is loaded anew between its question and its read;
  in the code it then reads another's answer or `"0"`, `"[]"` or nothing, and the
  hypothesis is needed. Both by `QueryInv`. `InTime` says that the text in a buffer is no
  older than any question whose handler has reset or stored it; `Alone` that nobody else
  is in a handler of the device while a user's question stands undisturbed; `Buffered`
  how much of its answer text and size, stored apart, then hold.

### The programs on pages

`PagesProofs`:

* `WindowsAgree`: the original, both takes and the final version of the
  fault-around window are `Window`, for every page table of a power of two of entries
  (`TableAssumption`) and every VMA a page table's length away from the end of the word. The proof
  goes through division with remainder, the aligned start (`AlignDown`, including the
  wrap-around in `ALIGN_DOWN`) and the closed form `Answer`. That
  `rounddown_pow_of_two` gives a divisor of the table is `RoundDown`, from what
  `InductionProofs` shows of `2 ^ k`, counted as the number of subsets of `1 .. k`.
* `LinesTellTheTruth`, for any number of pages in the programs' buffers: a printed line
  says of a page what is so, or which file could not be read. `TourInv` says that the
  kernel's pages keep their shape (`Shape`: page tables and caches name frames that exist,
  only files are mapped shared), which takes one lemma per operation of `PageWorld`
  (`ReadShape`, `StoreShape`, `ForkShape`...). `PrintInv` says that a line on the screen
  was printed from the page as it still is; `PrintsRight` then goes through the reads that
  may fail. `ProgramsAssumption` says that each step of a script names processes,
  mappings, pages and files that exist; the scripts are concatenations, which the provers
  cannot index, so it is an assumption, evaluated by TLC for four pages.
  `InvalidAssumption` says that `~0` is none of the words read.

Proving found places where the model was wrong or ambiguous, all corrected: a
`CASE` had overlapping guards, which leaves the choice between them open
(`WriteFault`), a fork did not copy swapped entries, and a store
to a private page whose frame was swapped in one table and mapped in another was not
copied (`Sharers` counts both).

### pagestat

`PagestatProofs`, for any targets (mappings in address order, each with as many pages
as its range: `WorldsAssumption`), any number of changes, any length of the list
(`BoundsAssumption`) and at least two descriptors (`FdLimitAssumption`: smaps and
pagemap are open together; with one, the pages of no mapping can be read and
`FoundIfThere` fails, which is how the proof found the assumption). `Kept` says that
a snapshot of a target that has kept still is of the target as it is.

* `SnapshotFinds`: `SnapshotInv` ties the place of the reader to the mappings it has
  passed, none of which holds the address (`Passed`), and the result to the mapping found
  (`Found`). `ShotIs` says what an entry has of its mapping, `PagesRead` that the pages
  read are that mapping's.
* `WatchIsQuiet` and `WatchReports`: `WatchInv` says that both lists are the ones
  expected of their targets (`Expected`: entries of the mappings 1, 3, 5 and so on, or
  no list if these fill it). For that it must say where the reader is after each
  mapping (`At`): behind the header it has consumed, behind the mapping whose header
  is gone, or at the end of the file. Alone the properties are not inductive: the list
  compared was taken many steps before.
* `PrintsOnce`: every printed line is true of a mapping that is shown, and every page
  of such a mapping is on exactly one line, as itself or as one of a run. The printer
  is a loop over entries around a loop over pages, written as recursive functions, and
  the invariant goes with them: `Accounts` says which pages the lines so far stand for,
  `Seen` that inside a mapping the last run is told up to its first page, `Between` that
  after a mapping nothing is left to tell; `SeenNext` is one page, `PrintOne` a
  mapping, `PrintAll` a list. `PrintInv` carries the result through the run, with the entries
  in address order, because the reader only goes forward. Frame numbers are natural
  numbers, as a bit field of pagemap is.

The result of `pagestat_print_diff_all` does not depend on the printer's state, and
the model says so: it is a quantifier over the entries, and only the output is a loop.

### The mapping experiments

`VmaProofs`, for any programs made of such calls (`ProgramsAssumption`: the pointers exist
and lengths are positive; TLC evaluates it for the twenty), any `TOP` and any size of the area of
`random_unmap.c`.

* `NoTwoOverlap`, `VmaRunner`'s type invariant: `SpaceInv` says that pointers are addresses
  and the VMAs, each of them well formed, lie apart (`Space`). One lemma per kernel operation
  shows that it keeps `Space`: `UnmapSpace` (what is left are parts of what was there),
  `InsertSpace` (there is at most one VMA to merge with on either side, and the merged one
  meets nobody else), `PutSpace`, `FaultSpace`, `GrowSpace`, `MoveSpace`, and `ModifySpace` by induction
  over the addresses of the range. `GapIs` says that `mmap(NULL)` finds a free place.
* `RandomUnmapKeepsOthers`, `OthersUntouched` for `random_unmap.c`: `AreaInv` adds that the area
  is clear of the other mappings; `UnmapKeeps` and `PutKeeps` that a mapping outside the range
  of a call stays, alone or inside a larger one.
* `QueriesRight`, `QueryExact` whenever the VMA of the middle page lies within the three
  pages (`Bounded`), in any address space that calls can leave: it is the only one
  there, and its bounds leave four cases.

### Only model-checked

* Liveness (`Released`, `SentIsServed`, `ServerEnds`, `FaultAnswered`, `ChangeSeen`):
  fairness and `ENABLED` are out of the prover's reach.
* `AsDescribed`, `AsPictured`, `NoCallFails`, `SpaceReturned`, and `OthersUntouched` for the
  programs with fixed ranges: they say what particular programs see at particular steps,
  so their proofs would be their runs.

The library's induction theorems have an operator as a parameter, which the installed provers
cannot instantiate. `InductionProofs` therefore states induction of sets (`Least`, from the
well-foundedness of `<`, and `Induction`), and each recursive function is first shown to exist by it
(`SummingExists`, `PageLoopExists`, `ModifyLoopExists`) and then followed step by step. `RECURSIVE`
operators are out of reach; the proved modules use none.

## 5. Findings

The four runs that end in a violation are listed above; `PROJECT.json` quotes the
line each one refutes. Seen on the way, and without a run of their own, because no
line of the repository says otherwise or because nothing but output or an unused
case of a helper is affected:

* `include/bitwise.h:84`: `share_highest_bit(0b0100, 0b1100)` holds, though :74 says
  "Determine whether `a` and `b` share the highest bit." and the comment at 84 calls the
  test symmetric. The one caller passes the larger number first, for which it is right.
* `random/procmap.c:461`: `primary_populated` is not reset between pairs.
  `random/merge_split.c`: the blocks it means to join are populated separately, have
  different `anon_vma`s and stay apart.
* pagestat: differences in smaps fields alone are printed but not returned
  (`pagestat.h:55`); the smaps stream of each full snapshot stays open, so the watch
  loop runs out of descriptors; a comparison leaves the printer's static state
  behind, and the next abbreviation may index the flags of another mapping (490,
  714-716); the watch loop dereferences a NULL list (`watch-cmd.c:48-49`); the case
  marked "Should never happen." (482) happens on every first page; a run of two
  swapped pages loses its offset.
* query devices: two users at once may get each other's answer, and a load between
  question and answer erases it; a question that `exper` refuses leaves the answer before
  it in the buffer (131); `lookup_vma_flags`
  leaves its result uninitialised on an empty answer (`random/shared.c:155`); the reopening
  `fopen` is unchecked (`random/shared.c:153`, `read-pageflags.c:177`, `:206`); if the second device
  cannot be registered the first stays (`kernel/exper/exper.c:255-261`).
* socket: no accepted connection is closed (`server.c:74`); a client that dies
  before it sends ends the server.
* shmem: `posix_shmem_server.c:43` "Wait until client is done." waits for ever if the
  client was done before the `memset` at 35.
* userfaultfd: each fault answered leaves the source page mapped.
* page experiments: `private2.c` reads past its mappings once the file has grown
  (77, 137-139), and the comment at 53 says "2nd half" where the first is copied, as the function's name
  says (`AsDescribed` takes the name);
  `pagemap_tour.c:23` opens `/proc` files for writing, so only root can run it; `read.c`
  stores through pointers before it compares them with `MAP_FAILED` (41, 180, 193,
  215, 249), and labels `ptr4c` "not populated" (160) after it was written (136), so that
  `AsDescribed` takes only "CoW (modify)" of that label.
* `map-private.cc:113-116` leaves the fields of an absent page uninitialised, and
  calls a reclaim "PRIVATE write".
* `fault_around.cc`: threads read their handle before it is stored (255), and all
  256 are joined, started or not (265).

## 6. What is left

Proofs: liveness, and the properties of particular scripts (see section 4), stay with TLC.

Partly modelled: the bit helpers (only as the allocator uses them), `read-pageflags`
(not `print_flags_phys`, which prints a range of frames without any state, nor
`write-test.cc` and `readahead.c`, which write and read files without looking at a
page's state) and userfaultfd (the fork, remap and unmap events are only printed;
`client.c` and `server.c` there are stubs).

### Not modelled

* `repros/`: sequences of system calls that once crashed a kernel, most of them
  generated by a fuzzer. They keep no state, their interest is in the kernel, and
  nothing in them says what is to happen.
* The other modules under `kernel/` and `block_exper`: initialisers that allocate,
  print and free; `list_exper()` of `kernel/exper` demonstrates list macros.
* The other short programs under `random/`, `simple/` and `tools/`: a few calls and
  a print, with no claim beyond the kernel's behaviour.
* Vendored headers, build files and data.

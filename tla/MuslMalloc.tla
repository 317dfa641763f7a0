----------------------------- MODULE MuslMalloc -----------------------------
(***************************************************************************)
(* The allocator of musl/oldmalloc.c, driven by one thread (its locks are  *)
(* empty) that calls musl_malloc and musl_free in any legal order.         *)
(*                                                                         *)
(* The heap h is the memory the allocator keeps for itself:                *)
(*   psize, csize   the two size words of each chunk header, by chunk      *)
(*                  address, without their lowest bit;                     *)
(*   pused, cused   the chunks whose psize, csize word has C_INUSE set;    *)
(*   bins           the circular list of each bin, head first;             *)
(*   binmap         the set of bits set in mal.binmap;                     *)
(*   free_bytes     stats.free_bytes (stats.free_block_bytes is updated    *)
(*                  beside it, by the same amount, everywhere).            *)
(* The header of a chunk merged into its predecessor leaves the domain of  *)
(* psize and csize: the code never reads those words again.                *)
(***************************************************************************)
EXTENDS MuslBins, SequencesExt

CONSTANTS
  Requests,     \* byte counts the program asks for
  MaxLive,      \* bound: blocks the program holds at a time
  BrkStart,     \* program break, page aligned, before the first expansion
  BrkLimit,     \* where the kernel stops extending the break
  MmapBases     \* addresses at which mmap() may place a mapping

ASSUME RequestsAssumption == Requests \subseteq Nat
ASSUME BoundsAssumption == MaxLive \in Nat
ASSUME BrkAssumption == BrkStart \in Nat \ {0} /\ BrkLimit \in Nat
ASSUME MmapAssumption == MmapBases \subseteq Nat

VARIABLES
  h,            \* the heap, as above
  end,          \* expand_heap()'s static end, 0 before the first expansion
  stored_brk,   \* __expand_heap()'s static stored_brk
  stats,        \* stats.allocated_bytes, heap_bytes, mmap_bytes
  reclaim,      \* the range the last step gave to madvise(), <<a, b>>
  mmaps,        \* the mappings of mmapped chunks: chunk address -> length
  live,         \* the program's blocks: chunk address -> bytes requested
  status        \* "ok", "abort" (crash()), "spin" (endless loop), "segv"

vars == <<h, end, stored_brk, stats, reclaim, mmaps, live, status>>

NoRange == <<0, 0>>

Put(f, a, v) == [x \in DOMAIN f \cup {a} |-> IF x = a THEN v ELSE f[x]]
Drop(f, a) == [x \in DOMAIN f \ {a} |-> f[x]]

-----------------------------------------------------------------------------
(* Chunks and bins *)

NEXT_CHUNK(hp, c) == c + hp.csize[c]
PREV_CHUNK(hp, c) == c - hp.psize[c]

\* One element taken out of a list.
Unlink(s, c) ==
  IF \E k \in DOMAIN s : s[k] = c
  THEN RemoveAt(s, CHOOSE k \in DOMAIN s : s[k] = c)
  ELSE s

\* Faulty variants of unbin(), tests of the properties: the bit stays set; the
\* chunk is still counted as free.
unbin_bit_kept(hp, c, i) ==
  [hp EXCEPT
    !.bins = [k \in Bins |-> Unlink(hp.bins[k], c)],
    !.cused = @ \cup {c},
    !.pused = @ \cup {NEXT_CHUNK(hp, c)},
    !.free_bytes = @ - hp.csize[c]]

unbin_uncounted(hp, c, i) ==
  [hp EXCEPT
    !.binmap = IF \E k \in Bins : hp.bins[k] = <<c>> THEN @ \ {i} ELSE @,
    !.bins = [k \in Bins |-> Unlink(hp.bins[k], c)],
    !.cused = @ \cup {c},
    !.pused = @ \cup {NEXT_CHUNK(hp, c)}]

\* unbin(): c->prev == c->next exactly when c is alone in its list; the bit
\* that is cleared is the one of the bin the caller names.
unbin(hp, c, i) ==
  [hp EXCEPT
    !.binmap = IF \E k \in Bins : hp.bins[k] = <<c>> THEN @ \ {i} ELSE @,
    !.bins = [k \in Bins |-> Unlink(hp.bins[k], c)],
    !.cused = @ \cup {c},
    !.pused = @ \cup {NEXT_CHUNK(hp, c)},
    !.free_bytes = @ - hp.csize[c]]

\* bin_chunk(): append at the tail; the bit is set when the list was empty.
bin_chunk(hp, c, i) ==
  [hp EXCEPT
    !.bins[i] = Append(@, c),
    !.binmap = IF hp.bins[i] = <<>> THEN @ \cup {i} ELSE @,
    !.free_bytes = @ + hp.csize[c]]

\* Faulty variants of trim()'s header writes, tests of the properties: operands
\* swapped; the old size left in place; the next header not told.
split_swapped(hp, c, n) ==
  LET n1   == hp.csize[c]
      next == NEXT_CHUNK(hp, c)
  IN  [hp EXCEPT
        !.psize = Put([@ EXCEPT ![next] = n - n1], c + n, n),
        !.csize = Put([@ EXCEPT ![c] = n], c + n, n - n1),
        !.pused = (@ \cup {c + n}) \ {next},
        !.cused = (@ \cup {c}) \ {c + n}]

split_unshrunk(hp, c, n) ==
  LET n1   == hp.csize[c]
      next == NEXT_CHUNK(hp, c)
  IN  [hp EXCEPT
        !.psize = Put([@ EXCEPT ![next] = n1 - n], c + n, n),
        !.csize = Put(@, c + n, n1 - n),
        !.pused = (@ \cup {c + n}) \ {next},
        !.cused = (@ \cup {c}) \ {c + n}]

split_stale_psize(hp, c, n) ==
  [hp EXCEPT
    !.psize = Put(@, c + n, n),
    !.csize = Put([@ EXCEPT ![c] = n], c + n, hp.csize[c] - n),
    !.pused = (@ \cup {c + n}) \ {NEXT_CHUNK(hp, c)},
    !.cused = (@ \cup {c}) \ {c + n}]

\* trim()'s header writes: the used chunk c is cut down to n bytes.
split(hp, c, n) ==
  LET n1   == hp.csize[c]
      next == NEXT_CHUNK(hp, c)
  IN  [hp EXCEPT
        !.psize = Put([@ EXCEPT ![next] = n1 - n], c + n, n),
        !.csize = Put([@ EXCEPT ![c] = n], c + n, n1 - n),
        !.pused = (@ \cup {c + n}) \ {next},
        !.cused = (@ \cup {c}) \ {c + n}]

trim(hp, c, n) ==
  LET rest == hp.csize[c] - n
  IN  IF rest \in 0..DONTCARE THEN hp
      ELSE bin_chunk(split(hp, c, n), c + n, bin_index(rest))

-----------------------------------------------------------------------------
(* Growing the heap *)

\* The bytes __expand_heap() asks sbrk() for: the request and a sentinel.
expansion(n) == align64_up(n + SIZE_ALIGN, PAGE_SIZE)

\* Faulty variant, a test of the properties: the last expansion is forgotten.
brk_forgotten == BrkStart

\* __expand_heap(): where the new space starts.
brk_now == IF stored_brk = 0 THEN BrkStart ELSE stored_brk

\* expand_heap(): the chunk that covers the new space.
expanded_chunk == IF brk_now # end THEN brk_now + SIZE_ALIGN - OVERHEAD
                                   ELSE brk_now - OVERHEAD

\* expand_heap(): space that does not follow the old heap starts with a
\* zero-sized sentinel, whose only trace is the psize word of w.
sentinel(hp, w) == [hp EXCEPT !.psize = Put(@, w, 0), !.pused = @ \cup {w}]

\* expand_heap(): the chunk w reaches up to the new zero-sized footer.  In
\* place, w is the old footer and keeps its psize word.
grow(hp, w, footer) ==
  [hp EXCEPT
    !.psize = Put(@, footer, footer - w),
    !.pused = @ \cup {footer},
    !.csize = Put(Put(@, footer, 0), w, footer - w),
    !.cused = @ \cup {footer, w}]

expand_heap(hp, n) ==
  LET w == expanded_chunk
  IN  grow(IF brk_now # end THEN sentinel(hp, w) ELSE hp, w, brk_now + n - OVERHEAD)

-----------------------------------------------------------------------------
(* musl_malloc() *)

\* The bins the slow path may look at, from mask_high_bits(mal.binmap, i).
mask(n) == {j \in h.binmap : j >= bin_index_up(n)}

\* first_set(mask).
first_set(S) == CHOOSE j \in S : \A k \in S : j <= k

\* The fast path: the head of bin i, if it is small enough not to be trimmed.
FastFit(n) ==
  LET i == bin_index_up(n)
  IN  /\ i < 63
      /\ i \in h.binmap
      /\ h.bins[i] # <<>>
      /\ h.csize[Head(h.bins[i])] - n \in 0..DONTCARE

CanRequest(req) == status = "ok" /\ Cardinality(DOMAIN live) < MaxLive

\* A request above MMAP_THRESHOLD gets a mapping of its own.  mmap() gives
\* pages that nothing else uses; if it fails, NULL is returned and nothing
\* changes.
malloc_mmap(req) ==
  LET n   == adjust_size(req)
      len == align64_up(n + OVERHEAD, PAGE_SIZE)
  IN  /\ CanRequest(req)
      /\ n > MMAP_THRESHOLD
      /\ \E base \in MmapBases :
           LET c == base + SIZE_ALIGN - OVERHEAD
           IN  /\ base > BrkLimit
               /\ \A m \in DOMAIN mmaps :
                    base + len <= m - OVERHEAD \/ m - OVERHEAD + mmaps[m] <= base
               /\ mmaps' = Put(mmaps, c, len)
               /\ live' = Put(live, c, req)
               /\ stats' = [stats EXCEPT !.mmap_bytes = @ + len,
                                         !.allocated_bytes = @ + len - OVERHEAD]
      /\ reclaim' = NoRange
      /\ UNCHANGED <<h, end, stored_brk, status>>

malloc_fast(req) ==
  LET n == adjust_size(req)
      i == bin_index_up(n)
      c == Head(h.bins[i])
  IN  /\ CanRequest(req)
      /\ n <= MMAP_THRESHOLD
      /\ FastFit(n)
      /\ h' = unbin(h, c, i)
      /\ live' = Put(live, c, req)
      /\ stats' = [stats EXCEPT !.allocated_bytes = @ + h.csize[c]]
      /\ reclaim' = NoRange
      /\ UNCHANGED <<end, stored_brk, mmaps, status>>

\* The slow path takes the head of the first bin of the mask and trims it.
\* The loop discards the result of clear_lowest_bit(mask): if the first bin of
\* the mask is empty, it looks at that bin for ever.
malloc_slow(req) ==
  LET n == adjust_size(req)
      j == first_set(mask(n))
      c == Head(h.bins[j])
  IN  /\ CanRequest(req)
      /\ n <= MMAP_THRESHOLD
      /\ ~FastFit(n)
      /\ mask(n) # {}
      /\ IF h.bins[j] = <<>>
         THEN status' = "spin" /\ UNCHANGED <<h, live, stats>>
         ELSE LET h1 == trim(unbin(h, c, j), c, n)
              IN  /\ h' = h1
                  /\ live' = Put(live, c, req)
                  /\ stats' = [stats EXCEPT !.allocated_bytes = @ + h1.csize[c]]
                  /\ UNCHANGED status
      /\ reclaim' = NoRange
      /\ UNCHANGED <<end, stored_brk, mmaps>>

\* The slowest path expands the heap.  "sbrk(n) >= 0" compares an unsigned
\* pointer with zero and always holds, so a refused sbrk() is not noticed: the
\* footer is then written to memory that is not there.
malloc_expand(req) ==
  LET n == adjust_size(req)
      m == expansion(n)
      c == expanded_chunk
  IN  /\ CanRequest(req)
      /\ n <= MMAP_THRESHOLD
      /\ ~FastFit(n)
      /\ mask(n) = {}
      /\ \/ /\ brk_now + m <= BrkLimit
            /\ LET h1 == trim(expand_heap(h, m), c, n)
               IN  /\ h' = h1
                   /\ live' = Put(live, c, req)
                   /\ stats' = [stats EXCEPT !.heap_bytes = @ + m,
                                             !.allocated_bytes = @ + h1.csize[c]]
            /\ end' = brk_now + m
            /\ stored_brk' = brk_now + m
            /\ UNCHANGED status
         \/ /\ brk_now + m > BrkLimit
            /\ status' = "segv"
            /\ UNCHANGED <<h, live, stats, end, stored_brk>>
      /\ reclaim' = NoRange
      /\ UNCHANGED mmaps

-----------------------------------------------------------------------------
(* musl_free() *)

\* __bin_chunk(): the free chunks on either side, 0 when there is none.
prev_free(hp, c) == IF c \in hp.pused THEN 0 ELSE hp.psize[c]
next_free(hp, c) == LET n == NEXT_CHUNK(hp, c)
                    IN  IF n \in hp.cused THEN 0 ELSE hp.csize[n]

\* The chunk p grows over its successor c, whose header goes away.
absorb(hp, p, c) ==
  [hp EXCEPT !.csize = Drop([@ EXCEPT ![p] = hp.csize[p] + hp.csize[c]], c),
             !.psize = Drop(@, c),
             !.cused = @ \ {c},
             !.pused = @ \ {c}]

\* The previous chunk leaves its bin and absorbs c.
merge_prev(hp, c) ==
  LET p == PREV_CHUNK(hp, c)
  IN  absorb(unbin(hp, p, bin_index(hp.psize[c])), p, c)

\* The next chunk leaves its bin and is absorbed by c.
merge_next(hp, c) ==
  LET x == NEXT_CHUNK(hp, c)
  IN  absorb(unbin(hp, x, bin_index(hp.csize[x])), c, x)

\* The merged chunk is marked free on both sides and binned.
release(hp, c) ==
  LET size == hp.csize[c]
      next == NEXT_CHUNK(hp, c)
  IN  bin_chunk([hp EXCEPT !.cused = @ \ {c},
                           !.pused = @ \ {next},
                           !.psize = [@ EXCEPT ![next] = size]],
                c, bin_index(size))

freed_chunk(hp, c) == IF prev_free(hp, c) > 0 THEN PREV_CHUNK(hp, c) ELSE c

\* Faulty variant, a test of the properties: the next chunk is not merged.
coalesce_backward(hp, c) ==
  IF prev_free(hp, c) > 0 THEN merge_prev(hp, c) ELSE hp

\* Both neighbours are looked at first; then the previous one is merged, then
\* the next one.
coalesce(hp, c) ==
  LET h1 == IF prev_free(hp, c) > 0 THEN merge_prev(hp, c) ELSE hp
  IN  IF next_free(hp, c) > 0 THEN merge_next(h1, freed_chunk(hp, c)) ELSE h1

\* Faulty variant, a test of the properties: the end is rounded up.
reclaimed_past_end(c, size, osize) ==
  IF size > RECLAIM /\ ~share_highest_bit(size, size - osize)
  THEN <<align64_up(c + SIZE_ALIGN, PAGE_SIZE),
         align64_up(c + size - SIZE_ALIGN, PAGE_SIZE)>>
  ELSE NoRange

\* The pages inside a large free chunk that madvise(MADV_DONTNEED) empties.
reclaimed(c, size, osize) ==
  IF size > RECLAIM /\ ~share_highest_bit(size, size - osize)
  THEN <<align64_up(c + SIZE_ALIGN, PAGE_SIZE),
         align64(c + size - SIZE_ALIGN, PAGE_SIZE)>>
  ELSE NoRange

\* __bin_chunk(): the check of the footer, the merge and the binning.
free_heap(c) ==
  LET next  == NEXT_CHUNK(h, c)
      osize == h.csize[c]
      self  == freed_chunk(h, c)
      h1    == coalesce(h, c)
  IN  /\ status = "ok"
      /\ c \in DOMAIN live
      /\ c \in h.cused
      /\ live' = Drop(live, c)
      /\ stats' = [stats EXCEPT !.allocated_bytes = @ - osize]
      /\ IF h.psize[next] = osize /\ next \in h.pused
         THEN /\ h' = release(h1, self)
              /\ reclaim' = reclaimed(self, h1.csize[self], osize)
              /\ UNCHANGED status
         ELSE status' = "abort" /\ reclaim' = NoRange /\ UNCHANGED h
      /\ UNCHANGED <<end, stored_brk, mmaps>>

\* unmap_chunk(): a chunk whose csize word has no C_INUSE is a mapping.
free_mmap(c) ==
  /\ status = "ok"
  /\ c \in DOMAIN live
  /\ c \notin h.cused
  /\ live' = Drop(live, c)
  /\ IF c \in h.pused
     THEN status' = "abort" /\ UNCHANGED <<stats, mmaps>>
     ELSE /\ mmaps' = Drop(mmaps, c)
          /\ stats' = [stats EXCEPT !.mmap_bytes = @ - mmaps[c],
                                    !.allocated_bytes = @ - (mmaps[c] - OVERHEAD)]
          /\ UNCHANGED status
  /\ reclaim' = NoRange
  /\ UNCHANGED <<h, end, stored_brk>>

-----------------------------------------------------------------------------

Init ==
  /\ h = [psize |-> [a \in {} |-> 0], csize |-> [a \in {} |-> 0],
          pused |-> {}, cused |-> {}, bins |-> [i \in Bins |-> <<>>],
          binmap |-> {}, free_bytes |-> 0]
  /\ end = 0
  /\ stored_brk = 0
  /\ stats = [allocated_bytes |-> 0, heap_bytes |-> 0, mmap_bytes |-> 0]
  /\ reclaim = NoRange
  /\ mmaps = [a \in {} |-> 0]
  /\ live = [a \in {} |-> 0]
  /\ status = "ok"

Next ==
  \/ \E req \in Requests : malloc_mmap(req)
  \/ \E req \in Requests : malloc_fast(req)
  \/ \E req \in Requests : malloc_slow(req)
  \/ \E req \in Requests : malloc_expand(req)
  \/ \E c \in DOMAIN live : free_heap(c)
  \/ \E c \in DOMAIN live : free_mmap(c)

Spec == Init /\ [][Next]_vars

-----------------------------------------------------------------------------
(* Properties *)

\* The zero-sized chunk that ends the heap, and the chunks before it.
Footer == end - OVERHEAD
FirstChunk == BrkStart + OVERHEAD
Chunks == DOMAIN h.csize \ {Footer}
FreeChunks == Chunks \ h.cused

\* Types: sizes are byte counts, bins hold chunk addresses, and nothing of the
\* heap exists before the first expansion (expand_heap()'s end is NULL).
TypeOK ==
  /\ h \in [psize : [DOMAIN h.csize -> Nat], csize : [DOMAIN h.csize -> Nat],
            pused : SUBSET DOMAIN h.csize, cused : SUBSET DOMAIN h.csize,
            bins : [Bins -> Seq(DOMAIN h.csize)], binmap : SUBSET Bins,
            free_bytes : Int]
  /\ end \in Nat /\ stored_brk = end
  /\ end = 0 <=> DOMAIN h.csize = {}
  /\ stats \in [allocated_bytes : Int, heap_bytes : Int, mmap_bytes : Int]
  /\ reclaim \in Nat \X Nat
  /\ DOMAIN mmaps \subseteq Nat /\ mmaps \in [DOMAIN mmaps -> Nat]
  /\ live \in [DOMAIN live -> Requests]
  /\ status \in {"ok", "abort", "spin", "segv"}

\* Following csize words from chunk to chunk crosses the whole heap: every
\* chunk ends where another header starts, no header lies inside a chunk, and
\* every header but the first is where some chunk ends.
HeapTiled ==
  end # 0 =>
    /\ {FirstChunk, Footer} \subseteq DOMAIN h.csize
    /\ h.csize[Footer] = 0
    /\ \A a \in Chunks :
         /\ FirstChunk <= a /\ a < Footer
         /\ h.csize[a] >= SIZE_ALIGN /\ h.csize[a] % SIZE_ALIGN = 0
         /\ NEXT_CHUNK(h, a) \in DOMAIN h.csize
         /\ \A b \in DOMAIN h.csize : b <= a \/ NEXT_CHUNK(h, a) <= b
    /\ \A b \in DOMAIN h.csize \ {FirstChunk} :
         \E a \in Chunks : NEXT_CHUNK(h, a) = b

\* Boundary tags: what a header says of the previous chunk is what that chunk
\* says of itself, so the footer check of __bin_chunk() cannot fail and
\* PREV_CHUNK() finds a header whenever the previous chunk is free.
TagsAgree ==
  end # 0 =>
    /\ FirstChunk \in h.pused /\ Footer \in h.cused
    /\ \A a \in Chunks :
         /\ h.psize[NEXT_CHUNK(h, a)] = h.csize[a]
         /\ NEXT_CHUNK(h, a) \in h.pused <=> a \in h.cused

\* Two free chunks are never neighbours: __bin_chunk() merges both ways and
\* trim() only splits a chunk whose successor is in use.
Coalesced ==
  \A a \in FreeChunks : NEXT_CHUNK(h, a) \in h.cused

\* Every free chunk is in the bin of its size, once, and in no other; a bit of
\* binmap is set exactly when its bin is not empty.  The search of musl_malloc
\* depends on the second part: it never advances past an empty bin.
BinsExact ==
  /\ h.binmap = {i \in Bins : h.bins[i] # <<>>}
  /\ \A i \in Bins :
       /\ IsInjective(h.bins[i])
       /\ Range(h.bins[i]) = {a \in FreeChunks : bin_index(h.csize[a]) = i}

\* The program's blocks are the used chunks and the mappings, each with room
\* for the bytes requested behind its header.
LiveBacked ==
  status = "ok" =>
    /\ DOMAIN live = (h.cused \ {Footer}) \cup DOMAIN mmaps
    /\ \A c \in DOMAIN live :
         IF c \in DOMAIN mmaps
         THEN live[c] <= mmaps[c] - SIZE_ALIGN
         ELSE live[c] <= h.csize[c] - OVERHEAD

\* The bytes each block takes of the heap, or of its mapping.
BlockBytes ==
  [a \in DOMAIN live |-> IF a \in DOMAIN mmaps THEN mmaps[a] - OVERHEAD ELSE h.csize[a]]

\* The statistics musl_dump_bins() prints add up: nothing is leaked or counted
\* twice by a sequence of splits and merges.
StatsConserved ==
  status = "ok" =>
    /\ h.free_bytes = MapThenSumSet(LAMBDA a : h.csize[a], FreeChunks)
    /\ stats.heap_bytes = IF end = 0 THEN 0 ELSE
         MapThenSumSet(LAMBDA a : h.csize[a], Chunks) + SIZE_ALIGN
    /\ stats.mmap_bytes = MapThenSumSet(LAMBDA a : mmaps[a], DOMAIN mmaps)
    /\ stats.allocated_bytes = MapThenSumSet(LAMBDA a : BlockBytes[a], DOMAIN live)

\* A program that frees what it was given, once, never reaches crash() and
\* never hangs in the search for a free chunk.
NeverStuck == status \notin {"abort", "spin"}

\* musl_malloc() writes only to memory it obtained: when the break cannot be
\* extended, the heap is expanded by other means.
NeverFaults == status # "segv"

\* MADV_DONTNEED empties pages inside one free chunk, clear of that chunk's
\* header and links and of the header that follows it.
ReclaimSafe ==
  reclaim # NoRange =>
    \E a \in FreeChunks :
      /\ a + SIZE_ALIGN <= reclaim[1]
      /\ reclaim[1] <= reclaim[2]
      /\ reclaim[2] <= NEXT_CHUNK(h, a)

\* The blocks as the program sees them: CHUNK_TO_MEM() of the chunk.
Blocks == [p \in {c + OVERHEAD : c \in DOMAIN live} |-> live[p - OVERHEAD]]

Abstract == INSTANCE AbstractAllocator WITH live <- Blocks

\* Every step of the allocator is a step of malloc or free as the program
\* understands them: a new block is clear of all blocks held, and a held block
\* does not move, shrink or vanish.
Implements == Abstract!Spec

=============================================================================

------------------------------ MODULE MuslBins ------------------------------
(***************************************************************************)
(* The size classes of musl/oldmalloc.c: how a request becomes a chunk     *)
(* size, and which of the 64 bins a chunk size belongs to.  Sizes are in   *)
(* bytes, exactly as in the code.                                          *)
(***************************************************************************)
EXTENDS Integers, Sequences

PAGE_SIZE == 4096
SIZE_ALIGN == 32
OVERHEAD == 16
MMAP_THRESHOLD == 7168 * SIZE_ALIGN
DONTCARE == 16
RECLAIM == 163840

\* mal.bins[64], mal.binmap: one list and one bit per index.
Bins == 0..63

\* align64_up(): value + (-value & (align_to - 1)), align_to a power of two.
align64_up(value, align_to) == value + ((-value) % align_to)

\* align64(): clear the low bits.
align64(value, align_to) == value - (value % align_to)

\* Faulty variant of adjust_size(), a test of the properties: no OVERHEAD.
adjust_size_bare(n) == IF n = 0 THEN SIZE_ALIGN ELSE align64_up(n, SIZE_ALIGN)

\* adjust_size(): room for the header, rounded to SIZE_ALIGN; a request for 0
\* bytes wraps around in "*n - 1" and gets the smallest chunk.  Requests that
\* do not fit a ptrdiff_t are refused before any state changes.
adjust_size(n) == IF n = 0 THEN SIZE_ALIGN ELSE align64_up(n + OVERHEAD, SIZE_ALIGN)

bin_tab == <<
                32,33,34,35,36,36,37,37,38,38,39,39,
    40,40,40,40,41,41,41,41,42,42,42,42,43,43,43,43,
    44,44,44,44,44,44,44,44,45,45,45,45,45,45,45,45,
    46,46,46,46,46,46,46,46,47,47,47,47,47,47,47,47 >>

\* The bin a free chunk of this size is kept in.
bin_index(size) ==
  LET x == (size \div SIZE_ALIGN) - 1
  IN  IF x <= 32 THEN x
      ELSE IF x < 512 THEN bin_tab[(x \div 8) - 4 + 1]
      ELSE IF x > 7168 THEN 63
      ELSE bin_tab[(x \div 128) - 4 + 1] + 16

\* The first bin in which every chunk is large enough for a chunk of this size.
bin_index_up(size) ==
  LET x == (size \div SIZE_ALIGN) - 1
  IN  IF x <= 32 THEN x
      ELSE IF x - 1 < 512 THEN bin_tab[((x - 1) \div 8) - 4 + 1] + 1
      ELSE bin_tab[((x - 1) \div 128) - 4 + 1] + 17

\* share_highest_bit(): (a ^ b) <= b on words of Word bits.
Word == 24

share_highest_bit(a, b) ==
  LET bit(v, k) == (v \div 2^k) % 2
      xor[k \in 0..Word] ==
        IF k = 0 THEN 0
        ELSE xor[k - 1] + 2^(k - 1) * ((bit(a, k - 1) + bit(b, k - 1)) % 2)
  IN  xor[Word] <= b

=============================================================================

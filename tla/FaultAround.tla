---------------------------- MODULE FaultAround -----------------------------
(***************************************************************************)
(* src/concepts/fault_around: four versions of the computation of the      *)
(* pages to map around a fault, and the program that compares them in one  *)
(* thread per CPU.  Addresses are in pages, and the unsigned arithmetic of *)
(* the code is modulo Word.                                                *)
(***************************************************************************)
EXTENDS Integers, FiniteSets, FiniteSetsExt

CONSTANTS
  Cpus,           \* the CPUs
  PTRS_PER_PTE,   \* entries of a page table: 512 in the code, here a small power of two
  Word,           \* 2^64 in the code, here a power of two above all addresses
  Starts, Sizes, Offsets   \* where a VMA starts, its length and vm_pgoff

U(x) == x % Word
min(x, y) == IF x < y THEN x ELSE y
max(x, y) == IF x > y THEN x ELSE y
min3(x, y, z) == min(min(x, y), z)

\* The alignment is a power of two: its mask clears the remainder.
ALIGN_DOWN(x, a) == LET y == U(U(x - (a - 1)) + (a - 1)) IN y - (y % a)
pte_index(address) == address % PTRS_PER_PTE
rounddown_pow_of_two(n) == Max({2 ^ k : k \in {j \in 0 .. n : 2 ^ j <= n}})
vma_pages(vma) == U(vma.vm_end - vma.vm_start)

\* The kernel's version.
original_fault_around(vmf, nr_pages) ==
  LET address == max(vmf.address - (vmf.address % nr_pages), vmf.vma.vm_start)
      off == U(vmf.address - address) % PTRS_PER_PTE
      start == U(vmf.pgoff - off)
      table_end == U(start - pte_index(address) + PTRS_PER_PTE - 1)
  IN  <<start, min3(table_end, U(vma_pages(vmf.vma) + vmf.vma.vm_pgoff - 1), U(start + nr_pages - 1))>>

do_fault_around_take1(vmf, nr_pages) ==
  LET table == vmf.address - pte_index(vmf.address)
      from == max(max(table, vmf.vma.vm_start), ALIGN_DOWN(vmf.address, nr_pages))
      to == min3(table + PTRS_PER_PTE - 1, vmf.vma.vm_end - 1, from + nr_pages - 1)
  IN  <<U(vmf.pgoff + from - vmf.address), U(vmf.pgoff + to - vmf.address)>>

\* The second and the final version compute the same expressions.
do_fault_around_take2(vmf, nr_pages) ==
  LET pte_off == pte_index(vmf.address)
      vma_off == U(vmf.pgoff - vmf.vma.vm_pgoff)
      from_pte == max(ALIGN_DOWN(pte_off, nr_pages), pte_off - min(pte_off, vma_off))
      to_pte == min3(from_pte + nr_pages, PTRS_PER_PTE, U(pte_off + vma_pages(vmf.vma) - vma_off)) - 1
  IN  <<U(vmf.pgoff + from_pte - pte_off), U(vmf.pgoff + to_pte - pte_off)>>

do_fault_around_unclamped(vmf, nr_pages) ==
  LET pte_off == pte_index(vmf.address)
      vma_off == U(vmf.pgoff - vmf.vma.vm_pgoff)
      from_pte == max(ALIGN_DOWN(pte_off, nr_pages), U(pte_off - vma_off))
      to_pte == min3(from_pte + nr_pages, PTRS_PER_PTE, U(pte_off + vma_pages(vmf.vma) - vma_off)) - 1
  IN  <<U(vmf.pgoff + from_pte - pte_off), U(vmf.pgoff + to_pte - pte_off)>>

do_fault_around(vmf, nr_pages) ==
  LET pte_off == pte_index(vmf.address)
      vma_off == U(vmf.pgoff - vmf.vma.vm_pgoff)
      from_pte == max(ALIGN_DOWN(pte_off, nr_pages), pte_off - min(pte_off, vma_off))
      to_pte == min3(from_pte + nr_pages, PTRS_PER_PTE, U(pte_off + vma_pages(vmf.vma) - vma_off)) - 1
  IN  <<U(vmf.pgoff + from_pte - pte_off), U(vmf.pgoff + to_pte - pte_off)>>

-----------------------------------------------------------------------------

VARIABLES
  started,   \* the threads main() has created, in the order of the CPUs
  assigned,  \* those it has stored in threads[]
  worker,    \* "none", "starting", "testing", "tested" of each thread, or "dead"
  vmf,       \* fault_states[]: the fault each thread tests
  nr_pages,  \* its fault_around_bytes, in pages
  mismatch   \* the threads that have printed a mismatch

vars == <<started, assigned, worker, vmf, nr_pages, mismatch>>

NoFault == [address |-> 0, pgoff |-> 0, vma |-> [vm_start |-> 0, vm_end |-> 0, vm_pgoff |-> 0]]

Init ==
  /\ started = 0 /\ assigned = 0
  /\ worker = [c \in 1 .. Cpus |-> "none"]
  /\ vmf = [c \in 1 .. Cpus |-> NoFault]
  /\ nr_pages = [c \in 1 .. Cpus |-> 1]
  /\ mismatch = {}

\* std::thread(...) starts the thread; the assignment to threads[i] follows.
create ==
  /\ started = assigned /\ started < Cpus
  /\ started' = started + 1
  /\ worker' = [worker EXCEPT ![started + 1] = "starting"]
  /\ UNCHANGED <<assigned, vmf, nr_pages, mismatch>>

assign ==
  /\ assigned < started
  /\ assigned' = started
  /\ UNCHANGED <<started, worker, vmf, nr_pages, mismatch>>

\* The thread takes its own handle from threads[]: before the assignment that is
\* an empty one, and what becomes of the program is undefined: here it ends.  A call
\* that fails ends it, too.
setaffinity(c) ==
  /\ worker[c] = "starting"
  /\ \/ c <= assigned /\ worker' = [worker EXCEPT ![c] = "testing"]
     \/ worker' = [d \in 1 .. Cpus |-> "dead"]
  /\ UNCHANGED <<started, assigned, vmf, nr_pages, mismatch>>

\* A random VMA, a fault in it and a window below a page table's size.
gen_vmf(c) ==
  \E start \in Starts, size \in Sizes, vm_pgoff \in Offsets : \E address \in start .. start + size - 1 :
    vmf' = [vmf EXCEPT ![c] = [address |-> address, pgoff |-> vm_pgoff + (address - start),
              vma |-> [vm_start |-> start, vm_end |-> start + size, vm_pgoff |-> vm_pgoff]]]

\* The loop of a thread, one round of it: a round overwrites what the last one left.
do_test(c) ==
  /\ worker[c] = "testing"
  /\ worker' = [worker EXCEPT ![c] = "tested"]
  /\ gen_vmf(c)
  /\ \E pages \in 1 .. PTRS_PER_PTE - 1 : nr_pages' = [nr_pages EXCEPT ![c] = rounddown_pow_of_two(pages)]
  /\ mismatch' = IF original_fault_around(vmf'[c], nr_pages'[c]) = do_fault_around(vmf'[c], nr_pages'[c])
                 THEN mismatch ELSE mismatch \cup {c}
  /\ UNCHANGED <<started, assigned>>

Next == create \/ assign \/ \E c \in 1 .. Cpus : setaffinity(c) \/ do_test(c)

Spec == Init /\ [][Next]_vars

-----------------------------------------------------------------------------

\* The window as a set: the pages of the VMA and of the fault's page table among
\* the nr_pages pages from the first such page of the fault's aligned block.
Window(f, n) ==
  LET mine == {a \in f.vma.vm_start .. f.vma.vm_end - 1 : a \div PTRS_PER_PTE = f.address \div PTRS_PER_PTE}
      first == Min({a \in mine : a \div n = f.address \div n})
  IN  {a - f.vma.vm_start + f.vma.vm_pgoff : a \in {b \in mine : b >= first /\ b < first + n}}

\* No thread ever prints a mismatch: all versions give one window, which is the
\* file pages of the reference, for every place of the VMA against the page table,
\* of the fault in the VMA, and every wrap-around on the way.
SameWindow ==
  /\ mismatch = {}
  /\ \A c \in 1 .. Cpus : worker[c] = "tested" =>
       LET got == original_fault_around(vmf[c], nr_pages[c])
       IN  /\ do_fault_around_take1(vmf[c], nr_pages[c]) = got
           /\ do_fault_around_take2(vmf[c], nr_pages[c]) = got
           /\ got[1] .. got[2] = Window(vmf[c], nr_pages[c])
=============================================================================

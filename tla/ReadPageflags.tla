--------------------------- MODULE ReadPageflags ----------------------------
(***************************************************************************)
(* src/read-pageflags/read-pageflags.c: what is read of a page from /proc  *)
(* and what is printed of it.  A word read from /proc is the record of its *)
(* fields, or INVALID_VALUE when the read failed; what is printed is a     *)
(* record of what the line says.                                           *)
(***************************************************************************)
EXTENDS PageWorld

CONSTANT INVALID_VALUE   \* ~0, which no word of these files is

\* /proc/self/pagemap: without CAP_SYS_ADMIN the PFN reads as zero.
Pagemap(w, p, m, i, root) ==
  LET f == Pte(w, p, m, i)
  IN  [present |-> f > 0, swapped |-> f < 0, file |-> f > ZeroFrame /\ f \notin w.anon,
       exclusive |-> f > 0 /\ Mapcount(w, f) = 1, pfn |-> IF root /\ f > 0 THEN f ELSE 0]

\* /proc/kpageflags.  Bit 34 has one meaning for files and one for anonymous pages.
Kpageflags(w, f) ==
  (IF f = ZeroFrame THEN {"ZERO_PAGE"} ELSE {"LRU"})
    \cup (IF f \in w.anon THEN {"ANON", "SWAPBACKED"} ELSE {})
    \cup (IF f \in w.dirty THEN {"DIRTY"} ELSE {})
    \cup (IF Mapcount(w, f) > 0 THEN {"MMAP"} ELSE {})
    \cup (IF f \in w.anon => Mapcount(w, f) = 1 THEN {"MAPPEDTODISK"} ELSE {})

\* The file cannot be opened, sought or read when it is in fails.
read_u64(fails, path, value) == IF path \in fails THEN INVALID_VALUE ELSE value

extract_pfn_raw(val) == val.pfn

extract_pfn(val) ==
  IF val = INVALID_VALUE \/ val.swapped \/ ~val.present THEN INVALID_VALUE ELSE val.pfn

print_kpageflags(flags) ==
  IF "MAPPEDTODISK" \in flags /\ "ANON" \in flags
  THEN (flags \ {"MAPPEDTODISK"}) \cup {"ANON_EXCLUSIVE"} ELSE flags

print_pagemap_flags(val) == {f \in {"present", "swapped", "file", "exclusive"} : val[f]}

\* The /proc/self/maps line that covers the address, for its permissions.
read_mapdata(w, fails, p, m) ==
  IF "maps" \in fails \/ Vma(w, p, m) = NoMapping THEN "" ELSE IF Vma(w, p, m).shared THEN "s" ELSE "p"

Line(says, ok) == [says |-> says, ok |-> ok, perms |-> "", bits |-> {}, pfn |-> 0, flags |-> {},
                   mapcount |-> 0]

print_flags_virt_precalc(pagemap, pfn, kpageflags, mapcount, mapfields) ==
  LET bits == IF pagemap = INVALID_VALUE THEN {} ELSE print_pagemap_flags(pagemap)
      line == CASE pagemap = INVALID_VALUE -> Line("invalid pagemap", FALSE)
                [] pagemap # INVALID_VALUE /\ pfn = INVALID_VALUE -> Line("not present", TRUE)
                [] pfn = 0 -> Line("cannot retrieve PFN", FALSE)
                [] pfn \notin {INVALID_VALUE, 0} /\ kpageflags = INVALID_VALUE ->
                     Line("cannot retrieve kpageflags", FALSE)
                [] OTHER -> [Line("page", TRUE) EXCEPT !.pfn = pfn, !.mapcount = mapcount,
                                                       !.flags = print_kpageflags(kpageflags)]
  IN  [line EXCEPT !.perms = mapfields, !.bits = bits]

\* kpageflags and kpagecount are read by PFN, and only when there is one.
print_flags_virt(w, p, m, i, root, fails) ==
  LET pagemap == read_u64(fails, "pagemap", Pagemap(w, p, m, i, root))
      pfn == extract_pfn(pagemap)
      flags == IF pfn \in {INVALID_VALUE, 0} THEN INVALID_VALUE
               ELSE read_u64(fails, "kpageflags", Kpageflags(w, pfn))
      mapcount == IF flags = INVALID_VALUE THEN INVALID_VALUE
                  ELSE read_u64(fails, "kpagecount", Mapcount(w, pfn))
  IN  print_flags_virt_precalc(pagemap, pfn, flags, mapcount, read_mapdata(w, fails, p, m))
=============================================================================

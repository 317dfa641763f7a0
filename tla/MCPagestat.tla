----------------------------- MODULE MCPagestat -----------------------------
(* Small targets for Pagestat. *)
EXTENDS Pagestat

Page(pfn, kflags) == [present |-> TRUE, swapped |-> FALSE, pfn |-> pfn, kcount |-> 1, kflags |-> kflags]
Swapped(offset) == [present |-> FALSE, swapped |-> TRUE, pfn |-> offset, kcount |-> 0, kflags |-> 0]
Map(start, name, rss, pages) ==
  [start |-> start, end |-> start + Len(pages), name |-> name, attr |-> 0, rss |-> rss, ref |-> rss,
   pages |-> pages]

Heap == Map(5, "ignored", 1, <<Page(7, 1)>>)
File == Map(6, "file", 0, <<Absent, Absent, Absent>>)
Run == <<Page(10, 1), Page(11, 1), Page(12, 2)>>

\* No page; a run of three frames; the same with one swapped out, smaps behind; a
\* frame of the run flagged differently.
Base == <<File>>
Runs == <<Map(2, "anon", 3, Run), Heap, Map(6, "file", 2, <<Page(12, 2), Page(13, 2)>>)>>
Out == <<Map(2, "anon", 3, <<Page(10, 1), Swapped(3), Swapped(4)>>), Heap, Map(6, "file", 2, <<Page(12, 2), Page(13, 2)>>)>>
Aged == <<Map(2, "anon", 3, <<Page(10, 1), Page(11, 3), Page(12, 2)>>), Heap, Map(6, "file", 2, <<Page(12, 2), Page(13, 2)>>)>>
\* The first mapping is gone; and more mappings than the list has room for.
Less == <<Heap, Map(6, "file", 2, <<Page(12, 2), Absent>>)>>
Many == [i \in 1 .. 5 |-> Map(2 * i, "anon", 1, <<Page(20 + i, 1)>>)]

SmallWorlds == {Base, Runs, Out, Aged, Less, Many}
SomeAddresses == {1, 2, 5, 6, 8, 9}
=============================================================================

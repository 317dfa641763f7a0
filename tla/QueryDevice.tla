----------------------------- MODULE QueryDevice -----------------------------
(***************************************************************************)
(* The query devices: /dev/refcount and /dev/pagebuffers                   *)
(* (kernel/exper), /dev/vmaflags (kernel/vmaflags) and /dev/vmainfo        *)
(* (kernel/vmainfo), and their users: get_refcount() and                   *)
(* print_page_buffers() of read-pageflags.c, lookup_vma_flags() of         *)
(* random/shared.c, and a shell that echoes to a device and reads it.      *)
(*                                                                         *)
(* A user writes a question, closes the device, opens it again and reads.  *)
(* The answer waits in one buffer per device, a text and a size that the   *)
(* handlers set one after the other without a lock.  The buffers are       *)
(* statics of the modules: between the close and the second open the       *)
(* module may be unloaded and loaded, and they begin anew.  Questions are  *)
(* numbered; a text is the number of the question it answers (id), of the  *)
(* last question asked when it was stored (seen), and its length; a read   *)
(* returns as much of it as the size says.                                 *)
(***************************************************************************)
EXTENDS Integers, FiniteSets

CONSTANTS
  Users,
  Lengths,    \* lengths of answers
  MaxAsked    \* bound: questions asked in a run

VARIABLES
  module,     \* the module of this behaviour: they share nothing
  loaded,     \* its devices that are registered
  asked,      \* questions asked so far
  text, size, \* the buffer of each device
  at,         \* where each user is
  dev,        \* the device it uses
  ask,        \* its question: number, length of the answer, is it refused, and
              \* whether it is of a page without buffers
  got,        \* what it read last
  over        \* aux: has the device been written by another, or loaded anew,
              \* since the user's question

vars == <<module, loaded, asked, text, size, at, dev, ask, got, over>>

Exper == {"refcount", "pagebuffers"}
Devices == Exper \cup {"vmaflags", "vmainfo"}

\* What a buffer is set to when n questions have been asked: "0", "[]" and the
\* empty string.
refcount_buf(n) == [id |-> 0, seen |-> n, len |-> 1]
pagebuffers_buf(n) == [id |-> 0, seen |-> n, len |-> 2]
output_buf(n) == [id |-> 0, seen |-> n, len |-> 0]

initial_text(d, n) == CASE d = "refcount" -> refcount_buf(n)
                        [] d = "pagebuffers" -> pagebuffers_buf(n)
                        [] OTHER -> output_buf(n)

NoAnswer == output_buf(0)
NoQuestion == [id |-> 0, len |-> 0, refused |-> FALSE, bare |-> FALSE]

Init ==
  /\ module \in {"exper", "vmaflags", "vmainfo"}
  /\ loaded = {}
  /\ asked = 0
  /\ text = [d \in Devices |-> initial_text(d, 0)]
  /\ size = [d \in Devices |-> initial_text(d, 0).len + 1]
  /\ at = [u \in Users |-> "idle"]
  /\ dev = [u \in Users |-> "refcount"]
  /\ ask = [u \in Users |-> NoQuestion]
  /\ got = [u \in Users |-> NoAnswer]
  /\ over = [u \in Users |-> FALSE]

Goto(u, place) == at' = [at EXCEPT ![u] = place]

-----------------------------------------------------------------------------
(* The modules *)

InUse(d) == \E u \in Users : dev[u] = d /\ at[u] \in {"opened", "texting", "sizing", "written", "reopened"}

\* A user who has asked and not yet read.
Awaits(u) == at[u] \in {"texting", "sizing", "written", "closed", "reopened"}

\* A load brings the module's statics with it.
load(devices) ==
  /\ text' = [d \in Devices |-> IF d \in devices THEN initial_text(d, asked) ELSE text[d]]
  /\ size' = [d \in Devices |-> IF d \in devices THEN initial_text(d, asked).len + 1 ELSE size[d]]
  /\ over' = [u \in Users |-> over[u] \/ (Awaits(u) /\ dev[u] \in devices)]
  /\ UNCHANGED <<module, asked, at, dev, ask, got>>

\* When the second misc_register() fails the first device stays registered.
exper_init ==
  /\ module = "exper"
  /\ Exper \cap loaded = {}
  /\ loaded' \in {loaded, loaded \cup {"refcount"}, loaded \cup Exper}
  /\ load(Exper)

exper_exit ==
  /\ Exper \subseteq loaded /\ ~\E d \in Exper : InUse(d)
  /\ loaded' = loaded \ Exper
  /\ UNCHANGED <<module, asked, text, size, at, dev, ask, got, over>>

vmaflags_init ==
  /\ module = "vmaflags" /\ "vmaflags" \notin loaded
  /\ loaded' = loaded \cup {"vmaflags"}
  /\ load({"vmaflags"})

vmainfo_init ==
  /\ module = "vmainfo" /\ "vmainfo" \notin loaded
  /\ loaded' = loaded \cup {"vmainfo"}
  /\ load({"vmainfo"})

vmaflags_exit ==
  /\ "vmaflags" \in loaded /\ ~InUse("vmaflags")
  /\ loaded' = loaded \ {"vmaflags"}
  /\ UNCHANGED <<module, asked, text, size, at, dev, ask, got, over>>

vmainfo_exit ==
  /\ "vmainfo" \in loaded /\ ~InUse("vmainfo")
  /\ loaded' = loaded \ {"vmainfo"}
  /\ UNCHANGED <<module, asked, text, size, at, dev, ask, got, over>>

-----------------------------------------------------------------------------
(* The handlers.  A handler starts with what it does before it knows the      *)
(* answer, then sets the text, then the size.                                 *)

Others(u) == {v \in Users \ {u} : dev[v] = dev[u]}

\* A plausible slip: the buffer of the last answer is kept.
vmaflags_reset_none(d, n) == [text |-> text[d], size |-> size[d]]
vmaflags_reset(d, n) == [text |-> output_buf(n), size |-> 1]
vmainfo_reset(d, n) == [text |-> output_buf(n), size |-> 1]

\* The beginning of a write: a question is counted, the VMA devices empty their
\* buffer, and a question that cannot be answered (not a number; an address that
\* is not mapped) is refused, which the user's fflush() does not notice.
write_begin(u, len, bare, refused) ==
  LET d == dev[u]
      n == asked + 1
      empty == CASE d = "vmaflags" -> vmaflags_reset(d, n)
                 [] d = "vmainfo" -> vmainfo_reset(d, n)
                 [] OTHER -> [text |-> text[d], size |-> size[d]]
  IN  /\ asked' = n
      /\ ask' = [ask EXCEPT ![u] = [id |-> n, len |-> len, refused |-> refused, bare |-> bare]]
      /\ text' = [text EXCEPT ![d] = empty.text]
      /\ size' = [size EXCEPT ![d] = empty.size]
      /\ over' = [v \in Users |-> IF v = u THEN \E w \in Others(u) : at[w] \in {"texting", "sizing"}
                                  ELSE over[v] \/ (Awaits(v) /\ v \in Others(u))]
      /\ Goto(u, IF refused THEN "written" ELSE "texting")

Answer(u) == [id |-> ask[u].id, seen |-> asked, len |-> ask[u].len]

refcount_text(u) == Answer(u)
read_buffer_head(u) == Answer(u)
vmaflags_text(u) == Answer(u)
vmainfo_text(u) == Answer(u)

write_text(u) ==
  /\ at[u] = "texting"
  /\ text' = [text EXCEPT ![dev[u]] = CASE dev[u] = "refcount" -> refcount_text(u)
                                        [] dev[u] = "pagebuffers" -> read_buffer_head(u)
                                        [] dev[u] = "vmaflags" -> vmaflags_text(u)
                                        [] dev[u] = "vmainfo" -> vmainfo_text(u)]
  /\ Goto(u, "sizing")
  /\ UNCHANGED <<module, loaded, asked, size, dev, ask, got, over>>

\* A plausible slip: the length of the text is left out.
refcount_write_short(d, len) == 1
refcount_write_(d, len) == len + 1
\* read_buffer_head() does not count the end of the string, the other branch does.
pagebuffers_write_(d, len, bare) == IF bare THEN len + 1 ELSE len
vmaflags_write_(d, len) == size[d] + len
vmainfo_write_(d, len) == size[d] + len

write_size(u) ==
  /\ at[u] = "sizing"
  /\ LET d == dev[u]
         len == ask[u].len
     IN  size' = [size EXCEPT ![d] = CASE d = "refcount" -> refcount_write_(d, len)
                                       [] d = "pagebuffers" -> pagebuffers_write_(d, len, ask[u].bare)
                                       [] d = "vmaflags" -> vmaflags_write_(d, len)
                                       [] d = "vmainfo" -> vmainfo_write_(d, len)]
  /\ Goto(u, "written")
  /\ UNCHANGED <<module, loaded, asked, text, dev, ask, got, over>>

\* simple_read_from_buffer()
Readable(d) == [text[d] EXCEPT !.len = IF size[d] < @ THEN size[d] ELSE @]
refcount_read_ == Readable("refcount")
pagebuffers_read_ == Readable("pagebuffers")
vmaflags_read_ == Readable("vmaflags")
vmainfo_read_ == Readable("vmainfo")

-----------------------------------------------------------------------------
(* The users *)

\* fopen("r+"): a device that is not there is no error for the page tool and ends
\* the program for the others.  /dev/refcount of a module that was not loaded has
\* no handlers behind it.
open(u) ==
  /\ at[u] = "idle" /\ asked < MaxAsked
  /\ \E d \in loaded :
       /\ dev' = [dev EXCEPT ![u] = d]
       /\ Goto(u, IF loaded = {"refcount"} THEN "crashed" ELSE "opened")
  /\ UNCHANGED <<module, loaded, asked, text, size, ask, got, over>>

\* The tools ask for a frame or an address they have; a shell may ask anything.  A
\* page without buffers is answered with "[]".
asks(u, refused) ==
  \/ \E len \in Lengths : write_begin(u, len, FALSE, refused)
  \/ dev[u] = "pagebuffers" /\ write_begin(u, pagebuffers_buf(0).len, TRUE, refused)

get_refcount(u) == dev[u] = "refcount" /\ asks(u, FALSE)
print_page_buffers(u) == dev[u] = "pagebuffers" /\ asks(u, FALSE)
lookup_vma_flags(u) == dev[u] = "vmaflags" /\ \E refused \in BOOLEAN : asks(u, refused)
shell(u) == \E refused \in BOOLEAN : asks(u, refused)

write(u) ==
  /\ at[u] = "opened" /\ asked < MaxAsked
  /\ get_refcount(u) \/ print_page_buffers(u) \/ lookup_vma_flags(u) \/ shell(u)
  /\ UNCHANGED <<module, loaded, dev, got>>

\* fclose(); and the question that is never asked (bound MaxAsked).
close(u) ==
  /\ at[u] = "written" \/ (at[u] = "opened" /\ asked = MaxAsked)
  /\ Goto(u, IF at[u] = "written" THEN "closed" ELSE "idle")
  /\ UNCHANGED <<module, loaded, asked, text, size, dev, ask, got, over>>

\* fopen("r"), not checked: reading from NULL ends the user, and so does the device
\* of a module that was not loaded.
reopen(u) ==
  /\ at[u] = "closed"
  /\ Goto(u, IF dev[u] \in loaded /\ loaded # {"refcount"} THEN "reopened" ELSE "crashed")
  /\ UNCHANGED <<module, loaded, asked, text, size, dev, ask, got, over>>

read(u) ==
  /\ at[u] = "reopened"
  /\ got' = [got EXCEPT ![u] = CASE dev[u] = "refcount" -> refcount_read_
                                 [] dev[u] = "pagebuffers" -> pagebuffers_read_
                                 [] dev[u] = "vmaflags" -> vmaflags_read_
                                 [] dev[u] = "vmainfo" -> vmainfo_read_]
  /\ Goto(u, "answered")
  /\ UNCHANGED <<module, loaded, asked, text, size, dev, ask, over>>

\* The user forgets all but its device, and may ask again.
again(u) ==
  /\ at[u] = "answered"
  /\ Goto(u, "idle")
  /\ ask' = [ask EXCEPT ![u] = NoQuestion]
  /\ got' = [got EXCEPT ![u] = NoAnswer]
  /\ over' = [over EXCEPT ![u] = FALSE]
  /\ UNCHANGED <<module, loaded, asked, text, size, dev>>

Next ==
  \/ exper_init \/ exper_exit \/ vmaflags_init \/ vmaflags_exit \/ vmainfo_init \/ vmainfo_exit
  \/ \E u \in Users : \/ open(u) \/ write(u) \/ write_text(u) \/ write_size(u)
                      \/ close(u) \/ reopen(u) \/ read(u) \/ again(u)

-----------------------------------------------------------------------------
(* Properties *)

\* Nobody takes for its answer what was in the buffer before it asked, whoever else
\* uses the device and however often its module is loaded: "We always reset the output
\* buffer" holds the VMA devices to it even for questions they refuse, the others only
\* for those they accept.
NeverStale ==
  \A u \in Users :
    at[u] = "answered" /\ (dev[u] \in {"vmaflags", "vmainfo"} \/ ~ask[u].refused)
      => got[u].seen >= ask[u].id

\* A user whose device is neither written by another nor loaded anew between question
\* and answer gets the whole answer to its own question, whatever length the answers
\* before it had and whichever branch set the size.
OwnAnswer ==
  \A u \in Users :
    at[u] = "answered" /\ ~ask[u].refused /\ ~over[u]
      => got[u].id = ask[u].id /\ got[u].len = ask[u].len
=============================================================================

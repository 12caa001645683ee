-------------------------------- MODULE MCGem --------------------------------
(* Instances of Gem for TLC. *)
EXTENDS Gem, TLC

CONSTANTS t1, t2, f1, f2, o1, o2, b1, b2

\* Two objects made, named, opened and closed in two files.
NameWorld ==
  [ops |-> {"create", "close", "open", "flink", "release"},
   fail |-> {"idr"}, foreign |-> {}, files |-> {f1, f2},
   objects |-> {o1, o2}, handles |-> {1}]

\* Two handles of one object in one file, with framebuffers and mappings, and every
\* step of making a handle or a name failing.
UserWorld ==
  [NameWorld EXCEPT !.ops = @ \cup {"addfb", "getfb", "mmap"},
                    !.fail = {"idr", "allow", "open", "name"},
                    !.files = {f1}, !.objects = {o1}, !.handles = {1, 2}]

\* The framebuffers of two files.
FbWorld ==
  [NameWorld EXCEPT !.ops = {"create", "close", "release", "addfb", "getfb"},
                    !.fail = {"idr", "allow", "open"}, !.objects = {o1}]

\* PRIME sharing of one object between two files, and of a foreign dma-buf.
PrimeWorld ==
  [ops |-> {"create", "close", "release", "to_fd", "from_fd"},
   fail |-> {"export", "import", "member", "fd"}, foreign |-> {b2},
   files |-> {f1, f2}, objects |-> {o1}, handles |-> {1}]

\* Two objects in one file ...
PairWorld ==
  [PrimeWorld EXCEPT !.foreign = {}, !.files = {f1}, !.objects = {o1, o2},
                     !.handles = {1, 2}]

\* ... and several handles of one object in one file, by name and by PRIME.
ManyWorld ==
  [PairWorld EXCEPT !.ops = @ \cup {"open", "flink"}, !.objects = {o1}]

AllWorlds == {NameWorld, UserWorld, FbWorld, PrimeWorld, PairWorld, ManyWorld}

\* An import into a file, whose steps may fail.
ImportWorld == {[PrimeWorld EXCEPT !.files = {f1}]}

Symmetries ==
  Permutations({t1, t2}) \cup Permutations({f1, f2}) \cup Permutations({o1, o2})
==============================================================================

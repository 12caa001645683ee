-------------------------------- MODULE DrmMM --------------------------------
(***************************************************************************)
(* The range allocator of drm_mm.c.  An allocator is a record, and every   *)
(* function of the file an operator from one such record to the next:      *)
(*                                                                         *)
(*   list      the nodes behind the head, in the order of node_list        *)
(*   start, size, color    of each node                                    *)
(*   follows   the nodes with hole_follows                                 *)
(*   stack     hole_stack                                                  *)
(*   scanned   nodes on the scan list, with what they remember             *)
(*   hit       scan_hit_start and scan_hit_end                             *)
(*                                                                         *)
(* Addresses are unsigned, of a few bits.                                  *)
(***************************************************************************)
EXTENDS Integers, FiniteSets, Sequences, SequencesExt

CONSTANTS
  Nodes,
  HeadNode,   \* mm->head_node
  Total,      \* size of the address space
  Word,       \* addresses are computed modulo Word, more than 2 * Total
  Guard       \* what i915_gtt_color_adjust() keeps free, a page

\* A request has a size, an alignment, a colour, a range and the flags of the search.

\* drm_mm_init(): the size of the head wraps around to the start of the range.
MmInit ==
  [list |-> <<>>,
   start |-> [n \in Nodes \cup {HeadNode} |-> IF n = HeadNode THEN Total ELSE 0],
   size |-> [n \in Nodes \cup {HeadNode} |-> IF n = HeadNode THEN Word - Total ELSE 0],
   color |-> [n \in Nodes \cup {HeadNode} |-> 0],
   follows |-> {HeadNode}, stack |-> <<HeadNode>>, scanned |-> <<>>,
   hit |-> [start |-> 0, end |-> 0]]

Without(seq, n) == SelectSeq(seq, LAMBDA m : m # n)
Index(mm, n) == IF n = HeadNode THEN 0 ELSE CHOOSE i \in DOMAIN mm.list : mm.list[i] = n
NextNode(mm, n) ==
  IF Index(mm, n) = Len(mm.list) THEN HeadNode ELSE mm.list[Index(mm, n) + 1]
PrevNode(mm, n) == IF Index(mm, n) = 1 THEN HeadNode ELSE mm.list[Index(mm, n) - 1]
InsertAfter(mm, n, prev) == InsertAt(mm.list, Index(mm, prev) + 1, n)

\* drm_mm_hole_node_start(), drm_mm_hole_node_end()
HoleStart(mm, n) == (mm.start[n] + mm.size[n]) % Word
HoleEnd(mm, n) == mm.start[NextNode(mm, n)]

AlignUp(at, alignment) ==
  IF at % alignment = 0 THEN at ELSE at + (alignment - (at % alignment))

\* Faulty variant: the place is looked for before it is aligned.
check_free_hole_unaligned(start, end, req) == (end - start) % Word >= req.size

check_free_hole(start, end, req) ==
  /\ (end - start) % Word >= req.size
  /\ end >= AlignUp(start, req.alignment) + req.size

\* Faulty variant: the node behind the hole is forgotten.
ColorAdjustFirst(mm, n, req, start, end) ==
  [start |-> start + (IF req.colored /\ mm.color[n] # req.color THEN Guard ELSE 0),
   end |-> end]

\* mm->color_adjust(), where the driver has set it: i915_gtt_color_adjust()
ColorAdjust(mm, n, req, start, end) ==
  LET next == NextNode(mm, n) IN
  [start |-> start + (IF req.colored /\ mm.color[n] # req.color THEN Guard ELSE 0),
   end |-> end - (IF req.colored /\ next # HeadNode /\ mm.color[next] # req.color
                  THEN Guard ELSE 0)]

Greater(a, b) == IF a > b THEN a ELSE b
Smaller(a, b) == IF a < b THEN a ELSE b

\* The part of a hole that a request may use.
Usable(mm, n, req) ==
  ColorAdjust(mm, n, req, Greater(HoleStart(mm, n), req.start),
                          Smaller(HoleEnd(mm, n), req.end))

Suits(mm, n, req) ==
  LET room == Usable(mm, n, req) IN
  /\ req.colored => room.start < room.end
  /\ check_free_hole(room.start, room.end, req)

\* drm_mm_search_free_in_range_generic(): the suitable holes in the order of the
\* search, and the one it returns.  DRM_MM_SEARCH_BEST takes the first of the smallest.
Suitable(mm, req) ==
  SelectSeq(IF req.top THEN Reverse(mm.stack) ELSE mm.stack,
            LAMBDA n : Suits(mm, n, req))

HoleSize(mm, n) == HoleEnd(mm, n) - HoleStart(mm, n)

Search(mm, req) ==
  LET found == Suitable(mm, req)
      Best(i) == \A j \in DOMAIN found :
                   \/ HoleSize(mm, found[i]) < HoleSize(mm, found[j])
                   \/ HoleSize(mm, found[i]) = HoleSize(mm, found[j]) /\ i <= j
  IN IF req.best THEN found[CHOOSE i \in DOMAIN found : Best(i)] ELSE found[1]

CanInsert(mm, req) == Suitable(mm, req) # <<>>

\* A node takes the place at `at' in the hole behind `hole'.
\* Faulty variant: a hole that is used up stays on the stack.
PlaceKeepsHole(mm, n, hole, at, size, color) ==
  LET rest == at + size < HoleEnd(mm, hole)
  IN [mm EXCEPT !.list = InsertAfter(mm, n, hole),
        !.start[n] = at, !.size[n] = size, !.color[n] = color,
        !.follows = @ \cup (IF rest THEN {n} ELSE {}),
        !.stack = IF rest THEN <<n>> \o @ ELSE @]

Place(mm, n, hole, at, size, color) ==
  LET full == at = HoleStart(mm, hole)
      rest == at + size < HoleEnd(mm, hole)
  IN [mm EXCEPT !.list = InsertAfter(mm, n, hole),
        !.start[n] = at, !.size[n] = size, !.color[n] = color,
        !.follows = (IF full THEN @ \ {hole} ELSE @) \cup (IF rest THEN {n} ELSE {}),
        !.stack = (IF rest THEN <<n>> ELSE <<>>)
                  \o (IF full THEN Without(@, hole) ELSE @)]

\* drm_mm_insert_helper_range(): DRM_MM_CREATE_TOP counts from the end of the hole,
\* before the colours are looked at.
InsertHelper(mm, n, hole, req) ==
  LET start == Greater(HoleStart(mm, hole), req.start)
      end == Smaller(HoleEnd(mm, hole), req.end)
      adj == ColorAdjust(mm, hole, req, IF req.top THEN end - req.size ELSE start, end)
      at == IF req.top THEN adj.start - (adj.start % req.alignment)
            ELSE AlignUp(adj.start, req.alignment)
  IN Place(mm, n, hole, at, req.size, req.color)

\* drm_mm_insert_node_in_range_generic(), when there is a hole
InsertNode(mm, n, req) == InsertHelper(mm, n, Search(mm, req), req)

\* drm_mm_reserve_node()
Covering(mm, start, size) ==
  SelectSeq(mm.stack,
            LAMBDA n : HoleStart(mm, n) <= start /\ start + size <= HoleEnd(mm, n))

ReserveNode(mm, n, start, size) ==
  Place(mm, n, Covering(mm, start, size)[1], start, size, 0)

\* Faulty variant of RemoveNode: the hole before the node stays where it is.
RemoveNodeInPlace(mm, n) ==
  LET prev == PrevNode(mm, n) IN
  [mm EXCEPT !.list = Without(@, n),
             !.follows = (@ \ {n}) \cup {prev},
             !.stack = IF prev \in mm.follows THEN Without(@, n)
                       ELSE Without(@, n) \o <<prev>>]

\* drm_mm_remove_node(): the hole is now the first of the stack.
RemoveNode(mm, n) ==
  LET prev == PrevNode(mm, n) IN
  [mm EXCEPT !.list = Without(@, n),
             !.follows = (@ \ {n}) \cup {prev},
             !.stack = <<prev>> \o Without(Without(@, n), prev)]

\* drm_mm_replace_node()
ReplaceNode(mm, old, new) ==
  LET Swap(seq) == [i \in DOMAIN seq |-> IF seq[i] = old THEN new ELSE seq[i]] IN
  [mm EXCEPT !.list = Swap(@), !.stack = Swap(@),
             !.follows = (@ \ {old}) \cup (IF old \in @ THEN {new} ELSE {}),
             !.start[new] = mm.start[old], !.size[new] = mm.size[old],
             !.color[new] = mm.color[old]]

\* drm_mm_init_scan_with_range()
InitScan(mm) == [mm EXCEPT !.scanned = <<>>, !.hit = [start |-> 0, end |-> 0]]

\* Faulty variant of Hit: what the request may use, not the hole.
HitUsable(mm, prev, req) == Usable(mm, prev, req)
Hit(mm, prev, req) == [start |-> HoleStart(mm, prev), end |-> HoleEnd(mm, prev)]

\* drm_mm_scan_add_block(): the node leaves the list, as if it were free.
ScanAddBlock(mm, n, req) ==
  LET prev == PrevNode(mm, n)
      next == [mm EXCEPT !.list = Without(@, n), !.follows = @ \cup {prev},
                 !.scanned = Append(@, [node |-> n, prev |-> prev,
                                        hole |-> prev \in mm.follows])]
      room == Usable(next, prev, req)
  IN IF check_free_hole(room.start, room.end, req)
     THEN [next EXCEPT !.hit = Hit(next, prev, req)]
     ELSE next

Found(mm) == mm.hit.end # 0

\* drm_mm_scan_remove_block()
ScanRemoveBlock(mm, s) ==
  [mm EXCEPT !.list = InsertAfter(mm, s.node, s.prev),
             !.follows = IF s.hole THEN @ \cup {s.prev} ELSE @ \ {s.prev},
             !.scanned = SelectSeq(@, LAMBDA r : r.node # s.node)]

\* ... and its verdict, on the allocator it leaves
MustEvict(mm, n) == HoleEnd(mm, n) > mm.hit.start /\ mm.start[n] < mm.hit.end

------------------------------------------------------------------------------
\* The addresses of a node, and those of none.
Extent(mm, n) == mm.start[n] .. mm.start[n] + mm.size[n] - 1
Free(mm) == (0 .. Total - 1) \ UNION {Extent(mm, n) : n \in Range(mm.list)}

\* Outside of a scan the nodes are sorted, disjoint and inside the space; hole_follows
\* is set where there is a hole, and hole_stack holds just these, once each.
MmOk(mm) ==
  /\ \A i, j \in DOMAIN mm.list :
       i < j => mm.start[mm.list[i]] + mm.size[mm.list[i]] <= mm.start[mm.list[j]]
  /\ \A n \in Range(mm.list) : mm.start[n] + mm.size[n] <= Total /\ mm.size[n] > 0
  /\ mm.follows = {n \in Range(mm.list) \cup {HeadNode} : HoleStart(mm, n) < HoleEnd(mm, n)}
  /\ Range(mm.stack) = mm.follows
  /\ Len(mm.stack) = Cardinality(mm.follows)

\* Whether a request has a place, by the addresses alone: in its range, aligned, and a
\* guard away from neighbours of another colour.
HasPlace(mm, req) ==
  \E at \in req.start .. req.end - req.size :
    /\ at % req.alignment = 0
    /\ at .. at + req.size - 1 \subseteq Free(mm)
    /\ req.colored =>
         /\ req.color # mm.color[HeadNode] => at >= Guard
         /\ \A n \in Range(mm.list) :
              mm.color[n] # req.color =>
                Extent(mm, n) \cap (at - Guard .. at + req.size - 1 + Guard) = {}
==============================================================================

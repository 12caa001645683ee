------------------------------- MODULE I915Gtt -------------------------------
(***************************************************************************)
(* Binding objects into an address space: i915_gem_object_bind_to_vm()     *)
(* with i915_gem_evict_something() on top of drm_mm.c, and the plain use   *)
(* of the same allocator by ttm_bo_manager.c.  Every call runs under one   *)
(* lock (struct_mutex, rman->lock), which an eviction keeps from its first *)
(* step to its last.                                                       *)
(***************************************************************************)
EXTENDS DrmMM

CONSTANTS Worlds   \* the requests made, what else happens and what may fail

VARIABLES
  world,
  mm,         \* vm->mm
  inactive,   \* vm->inactive_list
  active,     \* vm->active_list
  pinned,     \* nodes with a pin_count
  call        \* the call under way

vars == <<world, mm, inactive, active, pinned, call>>
lists == <<inactive, active, pinned>>

\* pc: idle, scan, unwind, evict, retry.  `before' is the allocator before the scan.
Idle == [pc |-> "idle"]

TypeOK ==
  /\ world \in Worlds
  /\ Range(mm.list) \subseteq Nodes /\ mm.follows \subseteq Nodes \cup {HeadNode}
  /\ {n.node : n \in Range(mm.scanned)} \cap Range(mm.list) = {}
  /\ Range(inactive) \cap Range(active) = {} /\ pinned \subseteq Nodes
  /\ call.pc \in {"idle", "scan", "unwind", "evict", "retry"}

\* The address space, after the firmware's objects were reserved in it.
Init ==
  /\ world \in Worlds
  /\ inactive = world.reserved
  /\ mm = LET Step(m, n) == ReserveNode(m, n, world.at[n], 1)
          IN FoldLeft(Step, MmInit, world.reserved)
  /\ active = <<>> /\ pinned = {}
  /\ call = Idle

Allocated(n) == n \in Range(mm.list) \cup {s.node : s \in Range(mm.scanned)}
\* The node of a new vma.
Fresh == CHOOSE n \in world.nodes : ~Allocated(n)

Does(what) == call.pc = "idle" /\ what \in world.ops

------------------------------------------------------------------------------
(* Binding. *)

\* i915_gem_object_bind_to_vm(), ttm_bo_man_get_node(): the search ...
Bind ==
  /\ call.pc = "idle" /\ \E n \in world.nodes : ~Allocated(n)
  /\ \E req \in world.requests :
       LET n == Fresh IN
       IF CanInsert(mm, req)
       THEN /\ mm' = InsertNode(mm, n, req)
            /\ inactive' = Append(inactive, n)
            /\ UNCHANGED call
       ELSE /\ "evict" \in world.ops
            /\ \E nonblock \in world.nonblock :
                 call' = [pc |-> "scan", node |-> n, req |-> req, nonblock |-> nonblock,
                          todo |-> inactive \o (IF nonblock THEN <<>> ELSE active),
                          pass |-> 0, evict |-> <<>>, before |-> mm]
            /\ mm' = InitScan(mm)
            /\ UNCHANGED inactive
  /\ UNCHANGED <<world, active, pinned>>

\* ... and what follows it when something was evicted.
Retry ==
  /\ call.pc = "retry"
  /\ IF CanInsert(mm, call.req)
     THEN /\ mm' = InsertNode(mm, call.node, call.req)
          /\ inactive' = Append(inactive, call.node)
          /\ call' = Idle
     ELSE /\ call' = [call EXCEPT !.pc = "scan", !.before = mm, !.pass = 0,
                        !.todo = inactive \o (IF call.nonblock THEN <<>> ELSE active)]
          /\ mm' = InitScan(mm)
          /\ UNCHANGED inactive
  /\ UNCHANGED <<world, active, pinned>>

\* mark_free(), for the next node of the lists
MarkFree ==
  /\ call.pc = "scan" /\ call.todo # <<>>
  /\ LET n == Head(call.todo)
         next == IF n \in pinned THEN mm ELSE ScanAddBlock(mm, n, call.req)
     IN /\ mm' = next
        /\ call' = [call EXCEPT !.todo = Tail(@),
                      !.pc = IF Found(next) THEN "unwind" ELSE "scan"]
  /\ UNCHANGED <<world, lists>>

\* Both lists are through without a hole.
NoneFound ==
  /\ call.pc = "scan" /\ call.todo = <<>>
  /\ call' = [call EXCEPT !.pc = "unwind"]
  /\ UNCHANGED <<world, mm, lists>>

\* Nodes are put back in the reverse order: list_add() put the last one first.
Unwound == mm.scanned[Len(mm.scanned)]

\* One round of either loop over unwind_list.  list_move() reverses the order.
Unwind ==
  /\ call.pc = "unwind" /\ mm.scanned # <<>>
  /\ LET s == Unwound
         next == ScanRemoveBlock(mm, s)
     IN /\ mm' = next
        /\ call' = IF MustEvict(next, s.node)
                   THEN [call EXCEPT !.evict = <<s.node>> \o @] ELSE call
  /\ UNCHANGED <<world, lists>>

\* The end of the loop that found nothing: the GPU is idled once, which retires all
\* that is active, and the search repeated.
GiveUp ==
  /\ call.pc = "unwind" /\ mm.scanned = <<>> /\ ~Found(mm)
  /\ \/ /\ call.nonblock \/ call.pass = 1 \/ "signal" \in world.fail
        /\ call' = Idle
        /\ UNCHANGED <<inactive, active>>
     \/ /\ ~call.nonblock /\ call.pass = 0
        /\ inactive' = inactive \o active
        /\ active' = <<>>
        /\ call' = [call EXCEPT !.pc = "scan", !.pass = 1, !.todo = inactive']
  /\ UNCHANGED <<world, mm, pinned>>

\* The end of the loop after a hit.
ScanDone ==
  /\ call.pc = "unwind" /\ mm.scanned = <<>> /\ Found(mm)
  /\ call' = [call EXCEPT !.pc = "evict"]
  /\ UNCHANGED <<world, mm, lists>>

\* The node goes, and its memory with it.
Destroy(m, n) ==
  [RemoveNode(m, n) EXCEPT !.start[n] = 0, !.size[n] = 0, !.color[n] = 0]

\* i915_vma_unbind()
Unbound(n) ==
  /\ mm' = Destroy(mm, n)
  /\ inactive' = Without(inactive, n) /\ active' = Without(active, n)

\* The nodes chosen are unbound one by one; after an error the others stay.
EvictNext ==
  /\ call.pc = "evict"
  /\ \/ /\ call.evict = <<>>
        /\ call' = [call EXCEPT !.pc = "retry"]
        /\ UNCHANGED <<mm, inactive, active>>
     \/ /\ call.evict # <<>> /\ Unbound(Head(call.evict))
        /\ call' = [call EXCEPT !.evict = Tail(@)]
     \/ /\ call.evict # <<>> /\ "signal" \in world.fail
        /\ call' = Idle
        /\ UNCHANGED <<mm, inactive, active>>
  /\ UNCHANGED <<world, pinned>>

------------------------------------------------------------------------------
(* What else happens to bound objects. *)

\* i915_vma_move_to_active() and i915_gem_object_move_to_inactive()
Use(n) ==
  /\ Does("use") /\ Allocated(n)
  /\ active' = Append(Without(active, n), n)
  /\ inactive' = Without(inactive, n)
  /\ UNCHANGED <<world, mm, pinned, call>>

Retire ==
  /\ Does("use") /\ active # <<>>
  /\ active' = Tail(active)
  /\ inactive' = Append(inactive, Head(active))
  /\ UNCHANGED <<world, mm, pinned, call>>

Pin(n) ==
  /\ Does("pin") /\ Allocated(n)
  /\ pinned' = IF n \in pinned THEN pinned \ {n} ELSE pinned \cup {n}
  /\ UNCHANGED <<world, mm, inactive, active, call>>

\* i915_vma_unbind() by others, ttm_bo_man_put_node()
Unbind(n) ==
  /\ Does("unbind") /\ Allocated(n) /\ n \notin pinned
  /\ Unbound(n)
  /\ UNCHANGED <<world, pinned, call>>

\* i915_gem_evict_vm(), which may idle the GPU first
EvictVm ==
  /\ Does("evict_vm")
  /\ \E idle \in BOOLEAN :
       LET all == inactive \o (IF idle THEN active ELSE <<>>)
           gone == SelectSeq(all, LAMBDA n : n \notin pinned)
       IN /\ mm' = FoldLeft(Destroy, mm, gone)
          /\ inactive' = SelectSeq(all, LAMBDA n : n \in pinned)
          /\ active' = IF idle THEN <<>> ELSE active
  /\ UNCHANGED <<world, pinned, call>>

\* i915_gem_valid_gtt_space()
ValidGttSpace(n, color) ==
  LET prev == PrevNode(mm, n)
      next == NextNode(mm, n)
  IN /\ prev = HeadNode \/ prev \in mm.follows \/ mm.color[prev] = color
     /\ next = HeadNode \/ n \in mm.follows \/ mm.color[next] = color

\* Faulty variant: a new colour is always taken where the node is.
SetCacheLevelInPlace(n) ==
  /\ Does("color") /\ Allocated(n) /\ n \notin pinned
  /\ mm' = [mm EXCEPT !.color[n] = 1 - @]
  /\ UNCHANGED <<world, inactive, active, pinned, call>>

\* i915_gem_object_set_cache_level(): the object is unbound if its new neighbours do
\* not suit it.
SetCacheLevel(n) ==
  /\ Does("color") /\ Allocated(n) /\ n \notin pinned
  /\ IF ValidGttSpace(n, 1 - mm.color[n])
     THEN mm' = [mm EXCEPT !.color[n] = 1 - @] /\ UNCHANGED <<inactive, active>>
     ELSE Unbound(n)
  /\ UNCHANGED <<world, pinned, call>>

\* drm_mm_replace_node()
Replace(old) ==
  LET new == Fresh
      Swap(seq) == [i \in DOMAIN seq |-> IF seq[i] = old THEN new ELSE seq[i]]
  IN
  /\ Does("replace") /\ Allocated(old) /\ \E n \in world.nodes : ~Allocated(n)
  /\ old \notin pinned
  /\ mm' = ReplaceNode(mm, old, new)
  /\ inactive' = Swap(inactive) /\ active' = Swap(active)
  /\ UNCHANGED <<world, pinned, call>>

Next ==
  \/ \E n \in Nodes : Use(n) \/ Pin(n) \/ Unbind(n) \/ SetCacheLevel(n) \/ Replace(n)
  \/ Bind \/ Retry \/ MarkFree \/ NoneFound \/ Unwind \/ GiveUp \/ ScanDone \/ EvictNext
  \/ Retire \/ EvictVm

Spec == Init /\ [][Next]_vars

------------------------------------------------------------------------------
(* Properties. *)

\* The allocator's nodes, its hole flags and its hole stack agree whenever no scan is
\* under way, whatever was inserted, reserved, removed, replaced and evicted before
\* (the BUG_ONs of drm_mm_remove_node(), and that no two objects share an address).
MmExact == mm.scanned = <<>> => MmOk(mm)

\* Objects of different colours are never next to each other, so that the prefetcher
\* does not cross from one to the other (the WARN_ON of i915_gem_object_bind_to_vm()).
ColoursApart ==
  mm.scanned = <<>> /\ (\A req \in world.requests : req.colored) =>
    \A n \in Range(mm.list) : ValidGttSpace(n, mm.color[n])

\* A search fails only if there is no place: the holes it looks at are all there are,
\* and the place it takes in one is the right one.
SearchComplete ==
  call.pc = "idle" =>
    \A req \in world.requests :
      (req.colored => req.start = 0 /\ req.end = Total) =>
        (CanInsert(mm, req) <=> HasPlace(mm, req))

\* A scan leaves the allocator as it was, once all nodes were taken off it again.
ScanRestores ==
  call.pc = "unwind" /\ mm.scanned = <<>> =>
    [mm EXCEPT !.hit = call.before.hit] = call.before

\* When the nodes a scan chose are gone the request fits, and it gets the place that
\* was just freed ("An immediately following drm_mm_search_free ... will then return
\* the just freed block"): i915_gem_object_bind_to_vm() does not evict a second time.
RoomMade ==
  call.pc = "retry" =>
    /\ CanInsert(mm, call.req)
    /\ Search(mm, call.req) = Head(mm.stack)

\* Only nodes in the hole that was hit are evicted.
OnlyHit ==
  call.pc \in {"unwind", "evict"} =>
    \A n \in Range(call.evict) :
      Extent(mm, n) \subseteq mm.hit.start .. mm.hit.end - 1

\* A scan that finds no hole has tried everything: with all nodes gone that are neither
\* pinned nor, for a caller that may not wait, active, there is still no place.
ScanComplete ==
  call.pc = "scan" /\ call.todo = <<>>
    /\ (call.req.colored => call.req.start = 0 /\ call.req.end = Total)
    => ~HasPlace(mm, call.req)
==============================================================================

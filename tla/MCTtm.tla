-------------------------------- MODULE MCTtm --------------------------------
(***************************************************************************)
(* Components of TTM for TLC, side by side: buffer objects, command        *)
(* submissions and the fences of vmwgfx.                                   *)
(* A behaviour is one of the part chosen in its initial state, the others  *)
(* do not move.                                                            *)
(***************************************************************************)
EXTENDS Naturals, Sequences, FiniteSets, TLC

CONSTANTS t1, t2, t3, b1, b2, b3, e1, e2, None

VARIABLES
  part,
  bo_world, bo_users, bo_life, bo_list_kref, bo_resv, bo_lru, bo_sys_lru, bo_swap_lru,
  bo_ddestroy, bo_mem, bo_no_evict, bo_ttm, bo_busy, bo_mapped, bo_nodes, bo_wq, bo_pc,
  bo_loc,
  exec_world, exec_resv, exec_tickets, exec_on_lru, exec_busy, exec_cpu_writers,
  exec_left, exec_th,
  vmw_world, vmw_emitted, vmw_passed, vmw_goal, vmw_status, vmw_mask,
  vmw_last_read_seqno, vmw_fence_queue_waiters, vmw_cmdbuf_mutex, vmw_goal_irq_mutex,
  vmw_seqno_valid, vmw_goal_irq_on, vmw_fence_list, vmw_signaled, vmw_refs,
  vmw_handles, vmw_freed, vmw_seq_passed_actions, vmw_cleanup_list, vmw_act, vmw_upd,
  vmw_irq, vmw_work, vmw_th

\* Two clients that create, place (also pinned) and evict two objects; "dev" is
\* fixed and holds one object.
PlaceWorld ==
  [clients |-> {t1, t2}, bos |-> 1..2, ops |-> {"create", "validate", "evict_mm"},
   fixed |-> TRUE, room |-> 1,
   places |-> {<<"dev", FALSE>>, <<"dev", TRUE>>, <<"sys", FALSE>>}]

\* Objects that are mapped and swapped out; "dev" is not fixed.
SwapWorld ==
  [PlaceWorld EXCEPT !.fixed = FALSE, !.places = @ \ {<<"dev", TRUE>>},
                     !.ops = {"create", "validate", "fault", "swapout"}]

\* Three objects that die while the GPU uses them.
DelayWorld ==
  [PlaceWorld EXCEPT !.clients = {t1}, !.bos = 1..3, !.room = 3,
                     !.ops = {"create", "validate"}, !.places = {<<"dev", FALSE>>}]

\* Objects that several clients hold and map.
ShareWorld ==
  [PlaceWorld EXCEPT !.ops = {"create", "share", "fault"},
                     !.places = @ \ {<<"dev", TRUE>>}]

BoWorlds == {PlaceWorld, SwapWorld, DelayWorld, ShareWorld}

\* Three submissions whose lists overlap in different orders, one with a duplicate.
OrderWorld ==
  [lists |-> {<<b1, b2, b3>>, <<b3, b1, b1, b2>>, <<b2, b3>>}, ops |-> {"exec"},
   fail |-> {}, dups |-> TRUE, shared |-> {}, calls |-> 1, threads |-> {t1, t2, t3}]

\* Submissions, CPU access and the validation of single resources, interrupted.
AccessWorld ==
  [OrderWorld EXCEPT !.lists = {<<b1, b2>>, <<b2, b1, b2>>}, !.dups = FALSE,
                     !.ops = {"exec", "grab", "resource"}, !.fail = {"signal"}]

\* Repeated submissions that share a buffer and run out of memory.
SharedWorld ==
  [OrderWorld EXCEPT !.lists = {<<b1, b2>>, <<b2, b1>>}, !.dups = FALSE,
                     !.fail = {"memory"}, !.shared = {b2}, !.calls = 2,
                     !.threads = {t1, t2}]

\* Repeated submissions and CPU access that may not wait.
TryWorld ==
  [SharedWorld EXCEPT !.lists = {<<b1>>, <<b2>>}, !.ops = {"exec", "grab", "try_grab"},
                      !.fail = {}, !.shared = {}]

ExecWorlds == {OrderWorld, AccessWorld, SharedWorld, TryWorld}

\* One thread submits, another asks for events of what it submitted.
EventWorld ==
  [ops |-> (t1 :> {"submit"} @@ t2 :> {"event"}), last |-> 2, actions |-> {e1, e2},
   fail |-> {}, cmdbuf |-> TRUE]

\* Two threads submit and wait, and may wait in vain.
SubmitWorld ==
  [EventWorld EXCEPT
     !.ops = (t1 :> {"submit", "wait"} @@ t2 :> {"submit", "wait", "query"}),
     !.fail = {"timeout"}]

\* Files that are closed while their events are outstanding.
CloseWorld ==
  [EventWorld EXCEPT !.ops = (t1 :> {"submit"} @@ t2 :> {"event", "close"}),
                     !.actions = {e1}]
UnrefWorld ==
  [CloseWorld EXCEPT !.ops = (t1 :> {"submit", "event", "close", "unref"} @@ t2 :> {})]

\* Fences created by vmw_fence_event_ioctl(), without cmdbuf_mutex.
CreateWorld ==
  [CloseWorld EXCEPT !.ops = (t1 :> {"submit", "event"} @@ t2 :> {"submit"}),
                     !.cmdbuf = FALSE]

\* Waits and events.
BothWorld ==
  [CloseWorld EXCEPT !.ops = (t1 :> {"submit"} @@ t2 :> {"event", "wait"})]

VmwWorlds ==
  {EventWorld, SubmitWorld, CloseWorld, UnrefWorld, CreateWorld, BothWorld}

\* The first two threads are alike, and so are the events of vmwgfx.
Alike == Permutations({t1, t2}) \cup Permutations({e1, e2})

B == INSTANCE TtmBo WITH
       Clients <- {t1, t2}, Worker <- t3, Worlds <- BoWorlds, NoBo <- None,
       world <- bo_world, users <- bo_users, life <- bo_life,
       list_kref <- bo_list_kref, resv <- bo_resv, lru <- bo_lru,
       sys_lru <- bo_sys_lru, swap_lru <- bo_swap_lru, ddestroy <- bo_ddestroy,
       mem <- bo_mem, no_evict <- bo_no_evict, ttm <- bo_ttm, busy <- bo_busy,
       mapped <- bo_mapped, nodes <- bo_nodes, wq <- bo_wq, pc <- bo_pc, loc <- bo_loc

E == INSTANCE TtmExecbuf WITH
       Threads <- {t1, t2, t3}, Bos <- {b1, b2, b3}, Worlds <- ExecWorlds,
       NoBo <- None, world <- exec_world, resv <- exec_resv, tickets <- exec_tickets,
       on_lru <- exec_on_lru, busy <- exec_busy, cpu_writers <- exec_cpu_writers,
       left <- exec_left, th <- exec_th

W == INSTANCE VmwFence WITH
       Threads <- {t1, t2}, Actions <- {e1, e2}, Worlds <- VmwWorlds, Irq <- t3,
       Word <- 8, First <- 6, MaxFence <- 3, world <- vmw_world,
       emitted <- vmw_emitted, passed <- vmw_passed, goal <- vmw_goal,
       status <- vmw_status, mask <- vmw_mask, last_read_seqno <- vmw_last_read_seqno,
       fence_queue_waiters <- vmw_fence_queue_waiters,
       cmdbuf_mutex <- vmw_cmdbuf_mutex, goal_irq_mutex <- vmw_goal_irq_mutex,
       seqno_valid <- vmw_seqno_valid, goal_irq_on <- vmw_goal_irq_on,
       fence_list <- vmw_fence_list, signaled <- vmw_signaled, refs <- vmw_refs,
       handles <- vmw_handles, freed <- vmw_freed,
       seq_passed_actions <- vmw_seq_passed_actions, cleanup_list <- vmw_cleanup_list,
       act <- vmw_act, upd <- vmw_upd, irq <- vmw_irq, work <- vmw_work, th <- vmw_th

ASSUME E!ExecbufConstants

bo_vars == <<bo_world, bo_users, bo_life, bo_list_kref, bo_resv, bo_lru, bo_sys_lru,
             bo_swap_lru, bo_ddestroy, bo_mem, bo_no_evict, bo_ttm, bo_busy, bo_mapped,
             bo_nodes, bo_wq, bo_pc, bo_loc>>
exec_vars == <<exec_world, exec_resv, exec_tickets, exec_on_lru, exec_busy,
               exec_cpu_writers, exec_left, exec_th>>
vmw_vars == <<vmw_world, vmw_emitted, vmw_passed, vmw_goal, vmw_status, vmw_mask,
              vmw_last_read_seqno, vmw_fence_queue_waiters, vmw_cmdbuf_mutex,
              vmw_goal_irq_mutex, vmw_seqno_valid, vmw_goal_irq_on, vmw_fence_list,
              vmw_signaled, vmw_refs, vmw_handles, vmw_freed, vmw_seq_passed_actions,
              vmw_cleanup_list, vmw_act, vmw_upd, vmw_irq, vmw_work, vmw_th>>
vars == <<part, bo_vars, exec_vars, vmw_vars>>

Parts == {"bo", "exec", "vmw"}

\* The parts that are not chosen have no state.
Init ==
  /\ part \in Parts
  /\ IF part = "bo" THEN B!Init ELSE
        /\ bo_world = None /\ bo_users = None /\ bo_life = None /\ bo_list_kref = None
        /\ bo_resv = None /\ bo_lru = None /\ bo_sys_lru = None /\ bo_swap_lru = None
        /\ bo_ddestroy = None /\ bo_mem = None /\ bo_no_evict = None /\ bo_ttm = None
        /\ bo_busy = None /\ bo_mapped = None /\ bo_nodes = None /\ bo_wq = None
        /\ bo_pc = None /\ bo_loc = None
  /\ IF part = "exec" THEN E!Init ELSE
        /\ exec_world = None /\ exec_resv = None /\ exec_tickets = None
        /\ exec_on_lru = None /\ exec_busy = None /\ exec_cpu_writers = None
        /\ exec_left = None /\ exec_th = None
  /\ IF part = "vmw" THEN W!Init ELSE
        /\ vmw_world = None /\ vmw_emitted = None /\ vmw_passed = None /\ vmw_goal = None
        /\ vmw_status = None /\ vmw_mask = None /\ vmw_last_read_seqno = None
        /\ vmw_fence_queue_waiters = None /\ vmw_cmdbuf_mutex = None
        /\ vmw_goal_irq_mutex = None /\ vmw_seqno_valid = None
        /\ vmw_goal_irq_on = None /\ vmw_fence_list = None /\ vmw_signaled = None
        /\ vmw_refs = None /\ vmw_handles = None /\ vmw_freed = None
        /\ vmw_seq_passed_actions = None /\ vmw_cleanup_list = None /\ vmw_act = None
        /\ vmw_upd = None /\ vmw_irq = None /\ vmw_work = None /\ vmw_th = None

\* The other parts do not move.
Others ==
  /\ UNCHANGED part
  /\ IF part = "bo" THEN TRUE ELSE UNCHANGED bo_vars
  /\ IF part = "exec" THEN TRUE ELSE UNCHANGED exec_vars
  /\ IF part = "vmw" THEN TRUE ELSE UNCHANGED vmw_vars

TtmBoStep == part = "bo" /\ B!Next /\ Others

TtmExecbufStep == part = "exec" /\ E!Next /\ Others

VmwFenceStep == part = "vmw" /\ W!Next /\ Others

Next ==
  \/ TtmBoStep
  \/ TtmExecbufStep
  \/ VmwFenceStep

Spec == Init /\ [][Next]_vars

------------------------------------------------------------------------------
\* A buffer object lives exactly as long as somebody needs it.
LifetimeExact == part = "bo" => B!LifetimeExact

\* Memory of a device is given to one object at a time, and given back once.
MemoryExact == part = "bo" => B!MemoryExact

\* Dying objects are queued as long as there is something to be done about them.
QueueServed == part = "bo" => B!QueueServed

\* What is in use, by the GPU or pinned, stays where it is.
UsedStays ==
  [][part = "bo" => B!GpuKeepsMemory /\ B!PinnedStays]_vars

\* A submission has reserved its whole list, and gives all of it back.
ListReserved == part = "exec" => E!ListReserved

\* No fence of vmwgfx is taken for passed too early, no action of one that passed is
\* left behind, and references, actions and interrupts are counted exactly.
VmwFencesExact ==
  part = "vmw" =>
    /\ W!TypeOK
    /\ W!NeverEarly
    /\ W!FenceRefExact
    /\ W!ActionsExact
    /\ W!NothingMissed
    /\ W!IrqsExact

==============================================================================

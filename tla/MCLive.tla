------------------------------- MODULE MCLive --------------------------------
(***************************************************************************)
(* Small instances on which liveness is checked, side by side: a behaviour *)
(* is one of the part chosen in its initial state, the others do not move. *)
(* Actors stand for the threads, the files or the dma-bufs of a part.      *)
(***************************************************************************)
EXTENDS Naturals, Sequences, FiniteSets

CONSTANTS a1, a2, a3, o1, o2, o3, b1, conn, None

VARIABLES
  part,
  gem_world, gem_refcount, gem_handle_count, gem_name, gem_dma_buf, gem_import,
  gem_name_idr, gem_table, gem_cache, gem_prime_lock, gem_allowed, gem_maps, gem_fbs,
  gem_bufref, gem_live, gem_priv, gem_fds, gem_th,
  modeset_load, modeset_mutex, modeset_owner, modeset_lock_ctx, modeset_tickets,
  modeset_ctx, modeset_config_ctx, modeset_crtc_ctx, modeset_th,
  bo_world, bo_users, bo_life, bo_list_kref, bo_resv, bo_lru, bo_sys_lru, bo_swap_lru,
  bo_ddestroy, bo_mem, bo_no_evict, bo_ttm, bo_busy, bo_mapped, bo_nodes, bo_wq, bo_pc,
  bo_loc,
  object_world, object_open, object_tfile_ref, object_creator, object_life,
  object_base_ref, object_ref, object_cpu_writers, object_dma_buf, object_f_count,
  object_priv, object_th,
  exec_world, exec_resv, exec_tickets, exec_on_lru, exec_busy, exec_cpu_writers,
  exec_left, exec_th,
  hwlock_world, hwlock_global_mutex, hwlock_minor_master, hwlock_open, hwlock_hw_lock,
  hwlock_held, hwlock_ctx, hwlock_cont, hwlock_lock_file, hwlock_lock_count,
  hwlock_user_waiters, hwlock_kernel_waiters, hwlock_idle_has_lock, hwlock_th,
  fence_world, fence_sync_seq, fence_emitting, fence_gpu, fence_last_seq,
  fence_pending, fence_signaled, fence_enabled, fence_armed, fence_ring_int,
  fence_needs_reset, fence_lock, fence_qlock, fence_awake, fence_th,
  vmw_world, vmw_emitted, vmw_passed, vmw_goal, vmw_status, vmw_mask,
  vmw_last_read_seqno, vmw_fence_queue_waiters, vmw_cmdbuf_mutex, vmw_goal_irq_mutex,
  vmw_seqno_valid, vmw_goal_irq_on, vmw_fence_list, vmw_signaled, vmw_refs,
  vmw_handles, vmw_freed, vmw_seq_passed_actions, vmw_cleanup_list, vmw_act, vmw_upd,
  vmw_irq, vmw_work, vmw_th

Actors == {a1, a2, a3}

\* PRIME calls of two files on one object; no call fails on which a call
\* may hang.
GemWorld ==
  [ops |-> {"create", "close", "to_fd", "from_fd"},
   fail |-> {"idr", "export", "fd"}, foreign |-> {}, files |-> {a1, a2},
   objects |-> {o1}, handles |-> {1}]

\* Three threads that take all locks, a crtc's or a plane's.
Workload == [ops |-> {"all", "crtc", "plane"}, further |-> {}, alloc_fails |-> FALSE]

\* Objects that die while the GPU uses them.
BoWorld ==
  [clients |-> {a1}, bos |-> 1..2, ops |-> {"create", "validate"}, fixed |-> TRUE,
   room |-> 2, places |-> {<<"dev", FALSE>>}]

\* Base objects of two files, and of one file with PRIME.
ObjectWorlds ==
  {[ops |-> {"create", "reference", "close"}, fail |-> {},
    shareable |-> {o1}, threads |-> {a1, a2}, files |-> {a1, a2}, bases |-> {o1}],
   [ops |-> {"create", "to_fd", "from_fd", "close"}, fail |-> {"fd"},
    shareable |-> {o1}, threads |-> {a1, a2}, files |-> {a1}, bases |-> {o1}]}

\* Three submissions whose lists overlap in different orders, one with a duplicate.
ExecWorld ==
  [lists |-> {<<o1, o2>>, <<o2, o1, o2>>}, ops |-> {"exec"},
   fail |-> {}, dups |-> TRUE, shared |-> {}, calls |-> 1, threads |-> Actors]

\* Clients of the hardware lock that may die, of drivers with and without the idle
\* lock.
HwLockWorlds ==
  {[drop |-> FALSE, reclaim |-> r, signals |-> FALSE] : r \in {"never", "always"}}

\* One fence and a GPU that hangs; two fences and interrupts that are lost.
HangWorld ==
  [ops |-> {"wait", "fence_wait"}, fail |-> {"hang"}, waiters |-> {a1}, last |-> 3]
LostWorld ==
  [ops |-> {"fence_wait"}, fail |-> {"irq"}, waiters |-> {a1}, last |-> 4]
FenceWorlds == {HangWorld, LostWorld}

\* One thread of vmwgfx that submits, and asks for an event or waits.
EventWorld ==
  [ops |-> [t \in {a1} |-> {"submit", "event"}], last |-> 2, actions |-> {o1},
   fail |-> {}, cmdbuf |-> TRUE]
WaitWorld == [EventWorld EXCEPT !.ops = [t \in {a1} |-> {"submit", "wait"}]]
VmwWorlds == {EventWorld, WaitWorld}

G == INSTANCE Gem WITH
       Threads <- {a1, a2}, Files <- {a1, a2}, Objects <- {o1}, Bufs <- {b1},
       Handles <- {1}, Names <- {1}, Worlds <- {GemWorld}, world <- gem_world,
       refcount <- gem_refcount, handle_count <- gem_handle_count, name <- gem_name,
       dma_buf <- gem_dma_buf, import <- gem_import, name_idr <- gem_name_idr,
       table <- gem_table, cache <- gem_cache, prime_lock <- gem_prime_lock,
       allowed <- gem_allowed, maps <- gem_maps, fbs <- gem_fbs, bufref <- gem_bufref,
       live <- gem_live, priv <- gem_priv, fds <- gem_fds, th <- gem_th

M == INSTANCE ModesetLock WITH
       Threads <- Actors, Conn <- conn, CrtcList <- <<o1>>, PlaneList <- <<o2>>,
       CrtcPlanes <- {<<o1, o2>>}, Workloads <- {Workload}, load <- modeset_load,
       mutex <- modeset_mutex, owner <- modeset_owner, lock_ctx <- modeset_lock_ctx,
       tickets <- modeset_tickets, ctx <- modeset_ctx,
       config_ctx <- modeset_config_ctx, crtc_ctx <- modeset_crtc_ctx, th <- modeset_th

B == INSTANCE TtmBo WITH
       Clients <- {a1}, Worker <- a2, Worlds <- {BoWorld}, NoBo <- None,
       world <- bo_world, users <- bo_users, life <- bo_life,
       list_kref <- bo_list_kref, resv <- bo_resv, lru <- bo_lru,
       sys_lru <- bo_sys_lru, swap_lru <- bo_swap_lru, ddestroy <- bo_ddestroy,
       mem <- bo_mem, no_evict <- bo_no_evict, ttm <- bo_ttm, busy <- bo_busy,
       mapped <- bo_mapped, nodes <- bo_nodes, wq <- bo_wq, pc <- bo_pc, loc <- bo_loc

O == INSTANCE TtmObject WITH
       Threads <- {a1, a2}, Files <- {a1, a2}, Bases <- {o1}, Bufs <- {a1},
       Worlds <- ObjectWorlds, MaxRef <- 2, world <- object_world, open <- object_open,
       tfile_ref <- object_tfile_ref, creator <- object_creator, life <- object_life,
       base_ref <- object_base_ref, ref <- object_ref,
       cpu_writers <- object_cpu_writers, dma_buf <- object_dma_buf,
       f_count <- object_f_count, priv <- object_priv, th <- object_th

E == INSTANCE TtmExecbuf WITH
       Threads <- Actors, Bos <- {o1, o2}, Worlds <- {ExecWorld}, NoBo <- None,
       world <- exec_world, resv <- exec_resv, tickets <- exec_tickets,
       on_lru <- exec_on_lru, busy <- exec_busy, cpu_writers <- exec_cpu_writers,
       left <- exec_left, th <- exec_th

H == INSTANCE HwLock WITH
       Files <- Actors, Master <- a1, Kernel <- None, Worlds <- HwLockWorlds,
       world <- hwlock_world, global_mutex <- hwlock_global_mutex,
       minor_master <- hwlock_minor_master, open <- hwlock_open,
       hw_lock <- hwlock_hw_lock, held <- hwlock_held, ctx <- hwlock_ctx,
       cont <- hwlock_cont, lock_file <- hwlock_lock_file,
       lock_count <- hwlock_lock_count, user_waiters <- hwlock_user_waiters,
       kernel_waiters <- hwlock_kernel_waiters, idle_has_lock <- hwlock_idle_has_lock,
       th <- hwlock_th

R == INSTANCE RadeonFence WITH
       Waiters <- {a1}, Irq <- a2, Work <- a3, Word <- 4, First <- 2, MaxSeq <- 4,
       MaxLoops <- 10, MaxHangs <- 1, Worlds <- FenceWorlds, world <- fence_world,
       sync_seq <- fence_sync_seq, emitting <- fence_emitting, gpu <- fence_gpu,
       last_seq <- fence_last_seq, pending <- fence_pending,
       signaled <- fence_signaled, enabled <- fence_enabled, armed <- fence_armed,
       ring_int <- fence_ring_int, needs_reset <- fence_needs_reset,
       lock <- fence_lock, qlock <- fence_qlock, awake <- fence_awake, th <- fence_th

W == INSTANCE VmwFence WITH
       Threads <- {a1}, Actions <- {o1}, Worlds <- VmwWorlds, Irq <- a2, Word <- 8,
       First <- 6, MaxFence <- 2, world <- vmw_world, emitted <- vmw_emitted,
       passed <- vmw_passed, goal <- vmw_goal, status <- vmw_status, mask <- vmw_mask,
       last_read_seqno <- vmw_last_read_seqno,
       fence_queue_waiters <- vmw_fence_queue_waiters,
       cmdbuf_mutex <- vmw_cmdbuf_mutex, goal_irq_mutex <- vmw_goal_irq_mutex,
       seqno_valid <- vmw_seqno_valid, goal_irq_on <- vmw_goal_irq_on,
       fence_list <- vmw_fence_list, signaled <- vmw_signaled, refs <- vmw_refs,
       handles <- vmw_handles, freed <- vmw_freed,
       seq_passed_actions <- vmw_seq_passed_actions, cleanup_list <- vmw_cleanup_list,
       act <- vmw_act, upd <- vmw_upd, irq <- vmw_irq, work <- vmw_work, th <- vmw_th

gem_vars == <<gem_world, gem_refcount, gem_handle_count, gem_name, gem_dma_buf,
              gem_import, gem_name_idr, gem_table, gem_cache, gem_prime_lock,
              gem_allowed, gem_maps, gem_fbs, gem_bufref, gem_live, gem_priv, gem_fds,
              gem_th>>
modeset_vars == <<modeset_load, modeset_mutex, modeset_owner, modeset_lock_ctx,
                  modeset_tickets, modeset_ctx, modeset_config_ctx, modeset_crtc_ctx,
                  modeset_th>>
bo_vars == <<bo_world, bo_users, bo_life, bo_list_kref, bo_resv, bo_lru, bo_sys_lru,
             bo_swap_lru, bo_ddestroy, bo_mem, bo_no_evict, bo_ttm, bo_busy, bo_mapped,
             bo_nodes, bo_wq, bo_pc, bo_loc>>
object_vars == <<object_world, object_open, object_tfile_ref, object_creator,
                 object_life, object_base_ref, object_ref, object_cpu_writers,
                 object_dma_buf, object_f_count, object_priv, object_th>>
exec_vars == <<exec_world, exec_resv, exec_tickets, exec_on_lru, exec_busy,
               exec_cpu_writers, exec_left, exec_th>>
hwlock_vars == <<hwlock_world, hwlock_global_mutex, hwlock_minor_master, hwlock_open,
                 hwlock_hw_lock, hwlock_held, hwlock_ctx, hwlock_cont,
                 hwlock_lock_file, hwlock_lock_count, hwlock_user_waiters,
                 hwlock_kernel_waiters, hwlock_idle_has_lock, hwlock_th>>
fence_vars == <<fence_world, fence_sync_seq, fence_emitting, fence_gpu, fence_last_seq,
                fence_pending, fence_signaled, fence_enabled, fence_armed,
                fence_ring_int, fence_needs_reset, fence_lock, fence_qlock,
                fence_awake, fence_th>>
vmw_vars == <<vmw_world, vmw_emitted, vmw_passed, vmw_goal, vmw_status, vmw_mask,
              vmw_last_read_seqno, vmw_fence_queue_waiters, vmw_cmdbuf_mutex,
              vmw_goal_irq_mutex, vmw_seqno_valid, vmw_goal_irq_on, vmw_fence_list,
              vmw_signaled, vmw_refs, vmw_handles, vmw_freed, vmw_seq_passed_actions,
              vmw_cleanup_list, vmw_act, vmw_upd, vmw_irq, vmw_work, vmw_th>>
vars == <<part, gem_vars, modeset_vars, bo_vars, object_vars, exec_vars, hwlock_vars,
          fence_vars, vmw_vars>>

Parts == {"gem", "modeset", "bo", "object", "exec", "hwlock", "fence", "vmw"}

\* The parts that are not chosen have no state.
Init ==
  /\ part \in Parts
  /\ IF part = "gem" THEN G!Init ELSE
        /\ gem_world = None /\ gem_refcount = None /\ gem_handle_count = None
        /\ gem_name = None /\ gem_dma_buf = None /\ gem_import = None
        /\ gem_name_idr = None /\ gem_table = None /\ gem_cache = None
        /\ gem_prime_lock = None /\ gem_allowed = None /\ gem_maps = None
        /\ gem_fbs = None /\ gem_bufref = None /\ gem_live = None /\ gem_priv = None
        /\ gem_fds = None /\ gem_th = None
  /\ IF part = "modeset" THEN M!Init ELSE
        /\ modeset_load = None /\ modeset_mutex = None /\ modeset_owner = None
        /\ modeset_lock_ctx = None /\ modeset_tickets = None /\ modeset_ctx = None
        /\ modeset_config_ctx = None /\ modeset_crtc_ctx = None /\ modeset_th = None
  /\ IF part = "bo" THEN B!Init ELSE
        /\ bo_world = None /\ bo_users = None /\ bo_life = None /\ bo_list_kref = None
        /\ bo_resv = None /\ bo_lru = None /\ bo_sys_lru = None /\ bo_swap_lru = None
        /\ bo_ddestroy = None /\ bo_mem = None /\ bo_no_evict = None /\ bo_ttm = None
        /\ bo_busy = None /\ bo_mapped = None /\ bo_nodes = None /\ bo_wq = None
        /\ bo_pc = None /\ bo_loc = None
  /\ IF part = "object" THEN O!Init ELSE
        /\ object_world = None /\ object_open = None /\ object_tfile_ref = None
        /\ object_creator = None /\ object_life = None /\ object_base_ref = None
        /\ object_ref = None /\ object_cpu_writers = None /\ object_dma_buf = None
        /\ object_f_count = None /\ object_priv = None /\ object_th = None
  /\ IF part = "exec" THEN E!Init ELSE
        /\ exec_world = None /\ exec_resv = None /\ exec_tickets = None
        /\ exec_on_lru = None /\ exec_busy = None /\ exec_cpu_writers = None
        /\ exec_left = None /\ exec_th = None
  /\ IF part = "hwlock" THEN H!Init ELSE
        /\ hwlock_world = None /\ hwlock_global_mutex = None
        /\ hwlock_minor_master = None /\ hwlock_open = None /\ hwlock_hw_lock = None
        /\ hwlock_held = None /\ hwlock_ctx = None /\ hwlock_cont = None
        /\ hwlock_lock_file = None /\ hwlock_lock_count = None
        /\ hwlock_user_waiters = None /\ hwlock_kernel_waiters = None
        /\ hwlock_idle_has_lock = None /\ hwlock_th = None
  /\ IF part = "fence" THEN R!Init ELSE
        /\ fence_world = None /\ fence_sync_seq = None /\ fence_emitting = None
        /\ fence_gpu = None /\ fence_last_seq = None /\ fence_pending = None
        /\ fence_signaled = None /\ fence_enabled = None /\ fence_armed = None
        /\ fence_ring_int = None /\ fence_needs_reset = None /\ fence_lock = None
        /\ fence_qlock = None /\ fence_awake = None /\ fence_th = None
  /\ IF part = "vmw" THEN W!Init ELSE
        /\ vmw_world = None /\ vmw_emitted = None /\ vmw_passed = None /\ vmw_goal = None
        /\ vmw_status = None /\ vmw_mask = None /\ vmw_last_read_seqno = None
        /\ vmw_fence_queue_waiters = None /\ vmw_cmdbuf_mutex = None
        /\ vmw_goal_irq_mutex = None /\ vmw_seqno_valid = None
        /\ vmw_goal_irq_on = None /\ vmw_fence_list = None /\ vmw_signaled = None
        /\ vmw_refs = None /\ vmw_handles = None /\ vmw_freed = None
        /\ vmw_seq_passed_actions = None /\ vmw_cleanup_list = None /\ vmw_act = None
        /\ vmw_upd = None /\ vmw_irq = None /\ vmw_work = None /\ vmw_th = None

\* The other parts do not move.
Others ==
  /\ UNCHANGED part
  /\ IF part = "gem" THEN TRUE ELSE UNCHANGED gem_vars
  /\ IF part = "modeset" THEN TRUE ELSE UNCHANGED modeset_vars
  /\ IF part = "bo" THEN TRUE ELSE UNCHANGED bo_vars
  /\ IF part = "object" THEN TRUE ELSE UNCHANGED object_vars
  /\ IF part = "exec" THEN TRUE ELSE UNCHANGED exec_vars
  /\ IF part = "hwlock" THEN TRUE ELSE UNCHANGED hwlock_vars
  /\ IF part = "fence" THEN TRUE ELSE UNCHANGED fence_vars
  /\ IF part = "vmw" THEN TRUE ELSE UNCHANGED vmw_vars

GemStep == part = "gem" /\ G!Next /\ Others

ModesetLockStep == part = "modeset" /\ M!Next /\ Others

TtmBoStep == part = "bo" /\ B!Next /\ Others

TtmObjectStep == part = "object" /\ O!Next /\ Others

TtmExecbufStep == part = "exec" /\ E!Next /\ Others

HwLockStep == part = "hwlock" /\ H!Next /\ Others

RadeonFenceStep == part = "fence" /\ R!Next /\ Others

VmwFenceStep == part = "vmw" /\ W!Next /\ Others

Next ==
  \/ GemStep
  \/ ModesetLockStep
  \/ TtmBoStep
  \/ TtmObjectStep
  \/ TtmExecbufStep
  \/ HwLockStep
  \/ RadeonFenceStep
  \/ VmwFenceStep

Spec == Init /\ [][Next]_vars

\* An actor is in a GEM call, in a modeset call or in a command submission, sleeps
\* on the hardware lock, or waits for a fence of radeon or of vmwgfx.
Calling(a) ==
  CASE part = "gem" -> a # a3 /\ gem_th[a].pc # "idle"
    [] part = "modeset" -> modeset_th[a].pc # "idle"
    [] part = "exec" -> exec_th[a].pc # "idle"
    [] part = "hwlock" -> ~H!Awake(a)
    [] part = "fence" -> a = a1 /\ ~R!Returned(a)
    [] part = "vmw" -> a = a1 /\ ~W!Returned(a)
    [] OTHER -> FALSE

\* The fairness of the parts.  As a behaviour is of one part only, one formula may
\* speak of the actions of all parts.
Runs(a) ==
  /\ \/ part = "gem" /\ a # a3 /\ G!Continue(a)
     \/ part = "modeset" /\ M!Run(a)
     \/ part = "bo" /\ a # a3 /\ B!Inside(a)
     \/ part = "object" /\ a # a3 /\ O!Inside(a)
     \/ part = "exec" /\ E!Inside(a)
     \/ part = "hwlock" /\ (H!IdleRelease(a) \/ H!CloseMaster(a))
     \/ part = "fence" /\ \/ a = a1 /\ (R!Continue(a) \/ R!Activity(a))
                          \/ a = a2 /\ (R!Interrupt \/ R!Activity(a))
                          \/ a = a3 /\ (R!Check \/ R!Activity(a))
     \/ part = "vmw" /\ \/ a = a1 /\ W!Continue(a)
                        \/ a = a2 /\ (W!IrqRead \/ W!IrqAck \/ W!IrqUpdate)
                        \/ a = a3 /\ (W!WorkTake \/ W!WorkGoal \/ W!WorkCleanup)
  /\ Others

Obtains(a) ==
  /\ \/ part = "gem" /\ a # a3 /\ G!LockPrime(a)
     \/ part = "modeset" /\ M!Acquire(a)
     \/ part = "object" /\ a = a1 /\ \E t \in {a1, a2} : O!DmaBufRelease(t, a)
     \/ part = "hwlock" /\ H!Leave(a)
     \/ part = "fence" /\ a = a1 /\ R!Reset(a)
  /\ Others

Happens(n) ==
  /\ \/ part = "bo" /\ B!Signal(n)
     \/ part = "exec" /\ E!Signal(<<o1, o2>>[n])
     \/ part = "hwlock" /\ n = 1 /\ H!CloseLast
     \/ part = "fence" /\ ((n = 1 /\ R!Complete) \/ (n = 2 /\ R!Emit))
     \/ part = "vmw" /\ ((n = 1 /\ W!Pass) \/ (n = 2 /\ (W!Walk \/ W!Reread)))
  /\ Others

FairSpec ==
  /\ Spec
  /\ \A a \in Actors : WF_vars(Runs(a)) /\ SF_vars(Obtains(a))
  /\ \A n \in 1..2 : WF_vars(Happens(n))
  /\ WF_vars(part = "bo" /\ (B!DelayedDelete \/ B!DelayedNext) /\ Others)

------------------------------------------------------------------------------
\* Every GEM and PRIME call, every modeset call and every command submission returns,
\* no client sleeps for ever on the hardware lock, and every wait for a fence returns: of
\* radeon, although interrupts are lost and the GPU hangs, and of vmwgfx, whose
\* interrupts are off whenever nobody waits.
CallsReturn == \A a \in Actors : []<>~Calling(a)

\* A buffer object of TTM nobody refers to is freed, and so are the base objects when all
\* files are closed.
AllFreed ==
  []<>(/\ part = "bo" => B!NoneDead
       /\ part = "object" => O!NoneLeft)

\* Every event asked for on a fence of vmwgfx is sent (vmw_fence_obj_add_action()).
EventsSent == []<>(part = "vmw" => W!Answered(o1))

==============================================================================

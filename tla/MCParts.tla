------------------------------- MODULE MCParts -------------------------------
(***************************************************************************)
(* Components for TLC, side by side: a behaviour is one of the part chosen *)
(* in its initial state, the others do not move.                           *)
(***************************************************************************)
EXTENDS Naturals, Sequences, FiniteSets, TLC

CONSTANTS t1, t2, t3, f1, f2, f3, b1, b2, b3, d1, None

VARIABLES
  part,
  file_world, file_global_mutex, file_ref, file_driver, file_unplugged, file_plug,
  file_registered, file_open_count, file_minor_master, file_refcount, file_magiclist,
  file_sequence, file_file, file_th, file_pending,
  hwlock_world, hwlock_global_mutex, hwlock_minor_master, hwlock_open, hwlock_hw_lock,
  hwlock_held, hwlock_ctx, hwlock_cont, hwlock_lock_file, hwlock_lock_count,
  hwlock_user_waiters, hwlock_kernel_waiters, hwlock_idle_has_lock, hwlock_th,
  fb_world, fb_refcount, fb_registered, fb_list, fb_shown, fb_lock, fb_th, fb_late,
  fb_lost,
  gtt_world, gtt_mm, gtt_inactive, gtt_active, gtt_pinned, gtt_call,
  fence_world, fence_sync_seq, fence_emitting, fence_gpu, fence_last_seq,
  fence_pending, fence_signaled, fence_enabled, fence_armed, fence_ring_int,
  fence_needs_reset, fence_lock, fence_qlock, fence_awake, fence_th,
  pay_world, pay_plugged, pay_payload_mask, pay_vcpi_mask, pay_proposed_vcpis,
  pay_payloads, pay_vcpi, pay_lit, pay_call, pay_sink, pay_remote,
  object_world, object_open, object_tfile_ref, object_creator, object_life,
  object_base_ref, object_ref, object_cpu_writers, object_dma_buf, object_f_count,
  object_priv, object_th

\* Drivers with and without the idle lock, whose clients may be interrupted.
HwLockWorlds ==
  {[drop |-> FALSE, reclaim |-> "mastered", signals |-> TRUE],
   [drop |-> TRUE, reclaim |-> "always", signals |-> TRUE],
   [drop |-> FALSE, reclaim |-> "never", signals |-> FALSE]}

\* Files that take over and drop the role of master.
RoleWorld ==
  [fail |-> {}, root |-> {f1, f2}, files |-> {f1, f2, f3}, minors |-> {"primary"},
   ioctls |-> {"setmaster", "dropmaster"}, unplug |-> FALSE, wrap |-> FALSE]

\* A device that fails to load and to open, and is unplugged under its users.
UnplugWorld ==
  [RoleWorld EXCEPT !.fail = {"load", "open", "setup", "master_set"},
                    !.minors = {"primary", "render"}, !.unplug = TRUE,
                    !.ioctls = {"setmaster"}]

\* Clients that authenticate each other; numbers that run out and come back.
MagicWorld == [RoleWorld EXCEPT !.root = {f1}, !.ioctls = {"getmagic", "authmagic"}]
WrapWorld ==
  [MagicWorld EXCEPT !.root = {}, !.wrap = TRUE, !.files = {f1, f2}, !.fail = {"magic"}]

FileWorlds == {RoleWorld, UnplugWorld, MagicWorld, WrapWorld}

\* Two threads of one file that show framebuffers and remove them.
ShowWorld ==
  [file |-> [t \in {t1, t2} |-> f1], planes |-> {b1, d1}, fail |-> {},
   ops |-> {"addfb", "rmfb", "setcrtc", "setplane", "flip", "getfb"}]

\* Two files, one of which may be closed, and a driver that refuses.
RefuseWorld ==
  [ShowWorld EXCEPT !.file = (t1 :> f1 @@ t2 :> f2), !.fail = {"driver"},
                    !.ops = {"addfb", "release", "setcrtc", "flip"}]

\* Cursors on universal planes; planes set on a crtc that does not exist.
CursorWorld == [RefuseWorld EXCEPT !.ops = {"cursor", "release", "rmfb"}]
AbsentWorld ==
  [RefuseWorld EXCEPT !.planes = {d1}, !.fail = {"crtc"},
                      !.ops = {"addfb", "release", "setplane"}]

FbWorlds == {ShowWorld, RefuseWorld, CursorWorld, AbsentWorld}

\* Requests of i915 anywhere in the global GTT, and of TTM, which uses no colours.
Request(size, alignment, color) ==
  [size |-> size, alignment |-> alignment, color |-> color, colored |-> TRUE,
   start |-> 0, end |-> 7, top |-> FALSE, best |-> FALSE]
Plain(size, alignment) == [Request(size, alignment, 0) EXCEPT !.colored = FALSE]
Within(req, start, end) == [req EXCEPT !.start = start, !.end = end]
Top(req) == [req EXCEPT !.top = TRUE]
Best(req) == [req EXCEPT !.best = TRUE]

\* Objects whose cache level changes.
ColorWorld ==
  [requests |-> {Request(1, 1, 0), Request(3, 2, 1)}, nodes |-> {b1, b2, b3},
   nonblock |-> {FALSE}, reserved |-> <<>>, at |-> <<>>, ops |-> {"evict", "color"},
   fail |-> {}]

\* Requests in a part of the address space, around a node reserved at start.
RangeWorld ==
  [ColorWorld EXCEPT
     !.requests = {Within(Request(2, 1, 0), 0, 5), Within(Request(2, 2, 1), 2, 7),
                   Request(3, 1, 0)},
     !.nodes = {b1, b2, b3, d1}, !.reserved = <<b1>>, !.at = (b1 :> 3),
     !.ops = {"evict", "unbind"}, !.fail = {"signal"}]

\* Objects in use and pinned, evicted one by one and all at once.
ActiveWorld ==
  [RangeWorld EXCEPT !.requests = {Plain(2, 2)}, !.nodes = {b1, b2, b3},
                     !.nonblock = BOOLEAN, !.fail = {},
                     !.ops = {"evict", "use", "pin", "evict_vm"}]

\* The ways in which TTM looks for a place.
PlaceWorld ==
  [ColorWorld EXCEPT
     !.requests = {Top(Plain(2, 2)), Best(Plain(1, 1)),
                   Best(Within(Plain(3, 2), 2, 7)), Top(Within(Plain(1, 1), 0, 5))},
     !.ops = {"unbind", "replace"}]

GttWorlds == {ColorWorld, RangeWorld, ActiveWorld, PlaceWorld}

\* One thread waits for two fences, of which the interrupts may be lost.
WaitWorld == [ops |-> {"wait"}, fail |-> {"irq"}, waiters |-> {t1}, last |-> 4]
CallbackWorld == [WaitWorld EXCEPT !.ops = {"fence_wait"}]

\* Two threads wait for one fence.
MeetWorld ==
  [ops |-> {"wait", "fence_wait"}, fail |-> {}, waiters |-> {t1, t2}, last |-> 3]

\* The GPU hangs, and cannot be reset.
HangWorld == [MeetWorld EXCEPT !.fail = {"hang", "reset", "memory"}, !.waiters = {t1}]
ResetWorld == [MeetWorld EXCEPT !.fail = HangWorld.fail, !.ops = {"fence_wait"}]

FenceWorlds == {WaitWorld, CallbackWorld, MeetWorld, HangWorld, ResetWorld}

\* More ports than channels; streams of different sizes; everything that may fail.
PayloadWorlds ==
  {[pbn |-> {3}, ports |-> {b1, b2, b3, d1}, fail |-> {}],
   [pbn |-> {1, 3}, ports |-> {b1, b2, b3}, fail |-> {}],
   [pbn |-> {3}, ports |-> {b1, b2}, fail |-> {"message"}],
   [pbn |-> {1}, ports |-> {b1, b2}, fail |-> {"write"}],
   [pbn |-> {1, 20}, ports |-> {b1, b2}, fail |-> {"unplug"}]}

\* Base objects used and referenced by two files that may be closed.
RefWorld ==
  [ops |-> {"create", "use", "reference", "unref", "close"}, fail |-> {},
   shareable |-> {b1}, threads |-> {t1, t2}, files |-> {f1, f2}, bases |-> {b1}]

\* The same through PRIME, every allocation failing.
ExportWorld ==
  [RefWorld EXCEPT !.ops = {"create", "to_fd", "from_fd", "unref", "close"},
                   !.fail = {"ref", "hash", "export", "fd"}]

\* References of CPU access.
SyncWorld == [RefWorld EXCEPT !.ops = {"create", "synccpu", "reference", "close"}]
SyncFailWorld == [SyncWorld EXCEPT !.files = {f1}, !.fail = {"ref"}]

\* An object that may not be shared.
PrivateWorld ==
  [RefWorld EXCEPT !.bases = {b2}, !.ops = {"create", "to_fd", "reference", "close"}]

ObjectWorlds == {RefWorld, ExportWorld, SyncWorld, SyncFailWorld, PrivateWorld}

\* The first two threads are alike.
Alike == Permutations({t1, t2})

F == INSTANCE DrmFile WITH
       Files <- {f1, f2, f3}, Masters <- {b1, b2, b3}, MaxMagic <- 3,
       Worlds <- FileWorlds, world <- file_world, global_mutex <- file_global_mutex,
       ref <- file_ref, driver <- file_driver, unplugged <- file_unplugged,
       plug <- file_plug, registered <- file_registered, open_count <- file_open_count,
       minor_master <- file_minor_master, refcount <- file_refcount,
       magiclist <- file_magiclist, sequence <- file_sequence, file <- file_file,
       th <- file_th, pending <- file_pending

H == INSTANCE HwLock WITH
       Files <- {f1, f2, f3}, Master <- f1, Kernel <- t3, Worlds <- HwLockWorlds,
       world <- hwlock_world, global_mutex <- hwlock_global_mutex,
       minor_master <- hwlock_minor_master, open <- hwlock_open,
       hw_lock <- hwlock_hw_lock, held <- hwlock_held, ctx <- hwlock_ctx,
       cont <- hwlock_cont, lock_file <- hwlock_lock_file,
       lock_count <- hwlock_lock_count, user_waiters <- hwlock_user_waiters,
       kernel_waiters <- hwlock_kernel_waiters, idle_has_lock <- hwlock_idle_has_lock,
       th <- hwlock_th

K == INSTANCE Framebuffers WITH
       Threads <- {t1, t2}, Files <- {f1, f2}, Fbs <- {b2, b3}, Crtcs <- {b1, t3},
       Overlays <- {d1}, Worlds <- FbWorlds, MaxLost <- 1, world <- fb_world,
       refcount <- fb_refcount, registered <- fb_registered, list <- fb_list,
       shown <- fb_shown, lock <- fb_lock, th <- fb_th, late <- fb_late,
       lost <- fb_lost

G == INSTANCE I915Gtt WITH
       Nodes <- {b1, b2, b3, d1}, HeadNode <- None, Total <- 7, Word <- 32, Guard <- 1,
       Worlds <- GttWorlds, world <- gtt_world, mm <- gtt_mm, inactive <- gtt_inactive,
       active <- gtt_active, pinned <- gtt_pinned, call <- gtt_call

R == INSTANCE RadeonFence WITH
       Waiters <- {t1, t2}, Irq <- f1, Work <- f2, Word <- 4, First <- 2, MaxSeq <- 4,
       MaxLoops <- 10, MaxHangs <- 1, Worlds <- FenceWorlds, world <- fence_world,
       sync_seq <- fence_sync_seq, emitting <- fence_emitting, gpu <- fence_gpu,
       last_seq <- fence_last_seq, pending <- fence_pending,
       signaled <- fence_signaled, enabled <- fence_enabled, armed <- fence_armed,
       ring_int <- fence_ring_int, needs_reset <- fence_needs_reset,
       lock <- fence_lock, qlock <- fence_qlock, awake <- fence_awake, th <- fence_th

P == INSTANCE DpPayload WITH
       Ports <- {b1, b2, b3, d1}, Worlds <- PayloadWorlds, MaxPayloads <- 3,
       TotalSlots <- 6, PbnDiv <- 2, world <- pay_world, plugged <- pay_plugged,
       payload_mask <- pay_payload_mask, vcpi_mask <- pay_vcpi_mask,
       proposed_vcpis <- pay_proposed_vcpis, payloads <- pay_payloads,
       vcpi <- pay_vcpi, lit <- pay_lit, call <- pay_call, sink <- pay_sink,
       remote <- pay_remote

O == INSTANCE TtmObject WITH
       Threads <- {t1, t2}, Files <- {f1, f2}, Bases <- {b1, b2}, Bufs <- {d1, b3},
       Worlds <- ObjectWorlds, MaxRef <- 2, world <- object_world, open <- object_open,
       tfile_ref <- object_tfile_ref, creator <- object_creator, life <- object_life,
       base_ref <- object_base_ref, ref <- object_ref,
       cpu_writers <- object_cpu_writers, dma_buf <- object_dma_buf,
       f_count <- object_f_count, priv <- object_priv, th <- object_th

ASSUME H!HwLockConstants

file_vars == <<file_world, file_global_mutex, file_ref, file_driver, file_unplugged,
               file_plug, file_registered, file_open_count, file_minor_master,
               file_refcount, file_magiclist, file_sequence, file_file, file_th,
               file_pending>>
hwlock_vars == <<hwlock_world, hwlock_global_mutex, hwlock_minor_master, hwlock_open,
                 hwlock_hw_lock, hwlock_held, hwlock_ctx, hwlock_cont,
                 hwlock_lock_file, hwlock_lock_count, hwlock_user_waiters,
                 hwlock_kernel_waiters, hwlock_idle_has_lock, hwlock_th>>
fb_vars == <<fb_world, fb_refcount, fb_registered, fb_list, fb_shown, fb_lock, fb_th,
             fb_late, fb_lost>>
gtt_vars == <<gtt_world, gtt_mm, gtt_inactive, gtt_active, gtt_pinned, gtt_call>>
fence_vars == <<fence_world, fence_sync_seq, fence_emitting, fence_gpu, fence_last_seq,
                fence_pending, fence_signaled, fence_enabled, fence_armed,
                fence_ring_int, fence_needs_reset, fence_lock, fence_qlock,
                fence_awake, fence_th>>
pay_vars == <<pay_world, pay_plugged, pay_payload_mask, pay_vcpi_mask,
              pay_proposed_vcpis, pay_payloads, pay_vcpi, pay_lit, pay_call, pay_sink,
              pay_remote>>
object_vars == <<object_world, object_open, object_tfile_ref, object_creator,
                 object_life, object_base_ref, object_ref, object_cpu_writers,
                 object_dma_buf, object_f_count, object_priv, object_th>>
vars == <<part, file_vars, hwlock_vars, fb_vars, gtt_vars, fence_vars, pay_vars,
          object_vars>>

Parts == {"file", "hwlock", "fb", "gtt", "fence", "pay", "object"}

\* The parts that are not chosen have no state.
Init ==
  /\ part \in Parts
  /\ IF part = "file" THEN F!Init ELSE
        /\ file_world = None /\ file_global_mutex = None /\ file_ref = None
        /\ file_driver = None /\ file_unplugged = None /\ file_plug = None
        /\ file_registered = None /\ file_open_count = None /\ file_minor_master = None
        /\ file_refcount = None /\ file_magiclist = None /\ file_sequence = None
        /\ file_file = None /\ file_th = None /\ file_pending = None
  /\ IF part = "hwlock" THEN H!Init ELSE
        /\ hwlock_world = None /\ hwlock_global_mutex = None
        /\ hwlock_minor_master = None /\ hwlock_open = None /\ hwlock_hw_lock = None
        /\ hwlock_held = None /\ hwlock_ctx = None /\ hwlock_cont = None
        /\ hwlock_lock_file = None /\ hwlock_lock_count = None
        /\ hwlock_user_waiters = None /\ hwlock_kernel_waiters = None
        /\ hwlock_idle_has_lock = None /\ hwlock_th = None
  /\ IF part = "fb" THEN K!Init ELSE
        /\ fb_world = None /\ fb_refcount = None /\ fb_registered = None
        /\ fb_list = None /\ fb_shown = None /\ fb_lock = None /\ fb_th = None
        /\ fb_late = None /\ fb_lost = None
  /\ IF part = "gtt" THEN G!Init ELSE
        /\ gtt_world = None /\ gtt_mm = None /\ gtt_inactive = None /\ gtt_active = None
        /\ gtt_pinned = None /\ gtt_call = None
  /\ IF part = "fence" THEN R!Init ELSE
        /\ fence_world = None /\ fence_sync_seq = None /\ fence_emitting = None
        /\ fence_gpu = None /\ fence_last_seq = None /\ fence_pending = None
        /\ fence_signaled = None /\ fence_enabled = None /\ fence_armed = None
        /\ fence_ring_int = None /\ fence_needs_reset = None /\ fence_lock = None
        /\ fence_qlock = None /\ fence_awake = None /\ fence_th = None
  /\ IF part = "pay" THEN P!Init ELSE
        /\ pay_world = None /\ pay_plugged = None /\ pay_payload_mask = None
        /\ pay_vcpi_mask = None /\ pay_proposed_vcpis = None /\ pay_payloads = None
        /\ pay_vcpi = None /\ pay_lit = None /\ pay_call = None /\ pay_sink = None
        /\ pay_remote = None
  /\ IF part = "object" THEN O!Init ELSE
        /\ object_world = None /\ object_open = None /\ object_tfile_ref = None
        /\ object_creator = None /\ object_life = None /\ object_base_ref = None
        /\ object_ref = None /\ object_cpu_writers = None /\ object_dma_buf = None
        /\ object_f_count = None /\ object_priv = None /\ object_th = None

\* The other parts do not move.
Others ==
  /\ UNCHANGED part
  /\ IF part = "file" THEN TRUE ELSE UNCHANGED file_vars
  /\ IF part = "hwlock" THEN TRUE ELSE UNCHANGED hwlock_vars
  /\ IF part = "fb" THEN TRUE ELSE UNCHANGED fb_vars
  /\ IF part = "gtt" THEN TRUE ELSE UNCHANGED gtt_vars
  /\ IF part = "fence" THEN TRUE ELSE UNCHANGED fence_vars
  /\ IF part = "pay" THEN TRUE ELSE UNCHANGED pay_vars
  /\ IF part = "object" THEN TRUE ELSE UNCHANGED object_vars

DrmFileStep == part = "file" /\ F!Next /\ Others

HwLockStep == part = "hwlock" /\ H!Next /\ Others

FramebuffersStep == part = "fb" /\ K!Next /\ Others

I915GttStep == part = "gtt" /\ G!Next /\ Others

RadeonFenceStep == part = "fence" /\ R!Next /\ Others

DpPayloadStep == part = "pay" /\ P!Next /\ Others

TtmObjectStep == part = "object" /\ O!Next /\ Others

Next ==
  \/ DrmFileStep
  \/ HwLockStep
  \/ FramebuffersStep
  \/ I915GttStep
  \/ RadeonFenceStep
  \/ DpPayloadStep
  \/ TtmObjectStep

Spec == Init /\ [][Next]_vars

------------------------------------------------------------------------------
\* The hardware lock has one holder, which the kernel knows, and nobody misses its
\* release.
HardwareLock == part = "hwlock" => H!HardwareLock

\* There is one master at a time, counted exactly, and its magic numbers are those of
\* its clients.
MastersExact ==
  part = "file" =>
    /\ F!TypeOK
    /\ F!MasterRefExact
    /\ F!OneMaster
    /\ F!MagicValid
    /\ F!MagicUsable

\* A device and its driver stay as long as they have users, and no longer.
DeviceStays ==
  part = "file" =>
    /\ F!DevRefExact
    /\ F!DriverStays
    /\ F!UnpluggedFreed

\* References on framebuffers are counted exactly, and an id and a file's list keep one
\* each.
FramebuffersExact ==
  part = "fb" =>
    /\ K!TypeOK
    /\ K!FbRefExact
    /\ K!RegisteredListed

\* A framebuffer that was removed is shown nowhere.
RemovedUnused == part = "fb" => K!RemovedUnused

\* Nodes and holes of the range allocator fill the address space, and the search finds
\* a place whenever there is one.
AllocatorExact ==
  part = "gtt" =>
    /\ G!TypeOK
    /\ G!MmExact
    /\ G!ColoursApart
    /\ G!SearchComplete

\* A scan that is given up changes nothing, and one that succeeds makes room by
\* evicting what it must.
EvictionMakesRoom ==
  part = "gtt" =>
    /\ G!ScanRestores
    /\ G!RoomMade
    /\ G!OnlyHit
    /\ G!ScanComplete

\* No fence of radeon is taken for passed too early, and none that passed goes
\* unnoticed.
FencesNoticed ==
  part = "fence" =>
    /\ R!TypeOK
    /\ R!NeverEarly
    /\ R!IrqBalanced
    /\ R!Noticed

\* The source, the sink and the branch devices agree about the channels of DisplayPort
\* streams, whose numbers are neither lost nor given twice.
PayloadsAgree ==
  part = "pay" =>
    /\ P!TypeOK
    /\ P!NumbersExact
    /\ P!SinkAgrees
    /\ P!RemoteExact
    /\ P!PortKnown

\* References on base objects, on their files and the CPU access to buffers are counted
\* exactly, and a shared object's dma-buf is alive.
ObjectsExact ==
  part = "object" =>
    /\ O!TypeOK
    /\ O!BaseRefExact
    /\ O!TfileExact
    /\ O!CpuWritersExact
    /\ O!DmaBufValid
    /\ O!NotShared

==============================================================================

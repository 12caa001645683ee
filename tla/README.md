# DRM core: TLA+ specifications, model checking and proofs

This directory specifies and verifies parts of the DRM subsystem in `src/`
(Linux 3.19): the code in which several threads, an interrupt handler, a timer
or another device meet on shared state, where the order of steps matters and
tests seldom choose it.

| module | source | about |
|---|---|---|
| `TtmLock` | `ttm/ttm_lock.c` | the read/write/VT/suspend lock of TTM and its wait queue |
| `TtmLockProofs` | theorems about `TtmLock` | exclusion, counting, no lost wakeup, for any number of threads |
| `Gem` | `drm_gem.c`, `drm_prime.c`, the permission list of `drm_vma_manager.c` | objects, handles, flink names, dma-buf sharing |
| `ModesetLock` | `drm_modeset_lock.c` and its callers | acquire contexts, back-off, lock-all, per-crtc locks |
| `Vblank` | `drm_irq.c` | vblank counting, references, events |
| `MCTtmLock`, `MCGem`, `MCModesetLock`, `MCVblank` | | the small instances TLC checks |

`PROJECT.json` lists every component, run, theorem and hazard, and maps each
definition to the lines it translates.

Run `tlc -config X.cfg M` for a row of the tables below, and
`tlapm TtmLockProofs.tla` for the proofs.

## 1. The system

`src/` is a library of mechanisms (the `drm_*.c` files and `ttm/`) and the
drivers that use them.  What is shared, and who meets there:

| part | state | operations | who meets |
|---|---|---|---|
| TTM lock | `rw`, five flag bits, a wait queue, `kill_takers` | read, try-read, write, vt, suspend, their unlocks, set_kill | ioctls, master change, power management, signals |
| TTM buffer objects | reservation, LRU lists, delayed-destroy list, placement | reserve, validate, evict, cleanup_refs, destroy work | command submission, faults, eviction, a worker |
| TTM memory, base objects, page pools | zone counters; hash table and ref objects; pools | alloc/free, shrink work; lookup, ref add/del; get/put pages | allocations, worker; file release; shrinker |
| GEM | object refcount and handle_count, per-file idr, name idr | create, close, flink, open, mmap, release | ioctls of several files, VMAs, framebuffers |
| PRIME | per-file cache, obj->dma_buf, dma-buf file count | handle_to_fd, fd_to_handle, dma-buf release | the same, other devices, deferred fput |
| VMA manager, drm_mm | offset tree and permission list; holes | add, remove, lookup, allow, revoke; insert, remove, evict scan | ioctls, mmap |
| Modeset locks | ww_mutexes, acquire contexts and their stashes | lock_all, lock_crtc, back-off, drop, unlock | ioctls, fbdev, panic handler, atomic helpers |
| KMS objects, atomic | mode-object idr, framebuffer lists, properties, `*_state` | addfb/rmfb, setcrtc, duplicate/check/swap | ioctls, file release, commit workers |
| Vblank | count, last, time ring, refcount, enabled, event list | get, put, off, on, pre/post_modeset, wait ioctl, handler, timer | ioctls, interrupt, timer, modesets |
| Masters, hardware lock, files | master refcounts, magic hash, lock word | open, set/drop master, auth, lock, release | processes sharing a minor |
| DisplayPort MST | branch and port trees, sideband queue, payload table | probe work, tx/reply, timeouts, hot-plug | workers, interrupt |
| Drivers | fences, rings, address spaces | emit, signal, wait, reset | command submission, interrupts |

Interactions: a GEM object is kept by handles, by VMAs (`drm_gem_mmap`), by
framebuffers (`drm_crtc.c`) and by its own dma-buf; the TTM lock is held
around command submission by vmwgfx and taken exclusively by its suspend and
master hooks; modeset locks are held while drivers call `drm_vblank_off()` and
`drm_vblank_on()`; `drm_release()` walks GEM, framebuffers, events and masters.

The hard behaviours of the modelled parts are the hazards of `PROJECT.json`:
racing closes of a handle, handles and names reused while something still
refers to them, reference cycles, error paths inside a lock, retries with the
same ticket, shared pending bits cleared by an interrupted waiter, wakeups that
are skipped as an optimisation, a counter that must look continuous while
nobody watches it, lock-free readers, and calls that come out of turn.

## 2. The modules

A module's VARIABLES are the fields of the C structures it names, plus the
local state of the threads (`th`, or `pc` and `call`).  One action is one
critical section or one atomic operation; between two actions anything else
may happen.  A definition whose comment says "Faulty variant" is the same
definition with a plausible mistake, used to see that a property notices it;
no specification uses it.

Where a run has to look at several configurations, a rigid variable (`world`
in `Gem`, `load` in `ModesetLock`, `dev` in `Vblank`) is chosen in `Init` from
a constant set and never changes.

### TtmLock

State: `rw`, `flags`, `kill_takers` of `struct ttm_lock`, and for each thread
its call, its place and whether a signal is pending.  `Begin` enters a call,
`Attempt` evaluates the `wait_event` condition under the spinlock
(`__ttm_read_lock`, `__ttm_read_trylock`, `__ttm_write_lock`, `__ttm_vt_lock`,
`__ttm_suspend_lock`) and grants the lock, fails or goes to sleep, `SignalWake`
and `Interrupted` are the `-ERESTARTSYS` path with its clean-up of the pending
bit, `VtRegister` is `ttm_base_object_init()` with its error path, `Unlock` the
four unlocks, `SetKill` the kill switch.  `prepare_to_wait_event()` samples
signals before the condition is evaluated, so a kill from inside the condition
is noticed one round later, as in the code.

`ttm_vt_lock()` is called under `dev->master_mutex` and `ttm_suspend_lock()`
from the power-management notifier, so at most one of each is under way.

### Gem

State: per object `refcount`, `handle_count`, `name`, `dma_buf`, `import` and
the permission counts; per file the handle table, the PRIME cache and
`prime.lock`; the name idr; VMAs and framebuffers; per dma-buf its file count,
`priv` and whether userspace has a descriptor.  A call is a chain of places
(`Places`): for example close is `Close` (number removed from the idr),
`RemovePrimeHandles`, `Revoke`, `HandleUnreference`, `HandleDrop`, which is
exactly where `drm_gem_handle_delete()` leaves one lock and takes the next.
`object_name_lock` and `table_lock` are never held across actions;
`prime.lock` is.  `BufRelease` is the deferred `fput()`.  Drivers enter through
`Create` (radeon's create ioctl), `GetFb` and the CMA helper's free function.

### ModesetLock

State: the owner of each ww_mutex and of `mode_config.mutex`, the acquire
contexts (list of locks, contended lock, trylock flag), the tickets in age
order, and the two places a context is stashed in.  `Lock` has the four
outcomes of `ww_mutex_lock()` (granted, `-EALREADY`, `-EDEADLK`, or not enabled
while it sleeps); `Backoff`, `BackoffDrop` (one per lock) and `SlowLock` are
`drm_modeset_backoff()`.  Callers: `drm_modeset_lock_all()`, the panic path's
trylock, `drm_modeset_lock_crtc()`, i915's load detection,
`drm_mode_getconnector/getencoder/getplane`, and the atomic helpers that ask
for a lock again inside a section.  The ww_mutex itself is outside `src/`:
`Older`, `MustBackOff` and `Grab` state what the callers rely on.

### Vblank

State: the hardware (frame counter, interrupt line, whether the crtc scans
out), `struct drm_vblank_crtc`, the file's events, the one critical section in
progress, and the threads in the WAIT_VBLANK ioctl.  `Tick` is a vblank;
`HandleVblank` the interrupt handler; `DisableFn`, `DisableVblank` and `Save`
`vblank_disable_and_save()`, cut where the hardware or a lock-free reader can
intervene; `Off`/`OffDone`, `On`/`OnEnable`, `PreModeset`/`PostModeset` the
modeset calls; `Get`, `Request`, `Queue`, `WaitOver`, `ReadCount`, `ReadSlot`,
`Recheck`, `Done` the ioctl.  Publishing a count is two steps, timestamp first.

Assumptions: one crtc; interrupt latency and a section under a spinlock are
shorter than a frame, so at most one vblank begins in either; the frame counter
increments where the vblank interrupt is raised (the code's FIXME about
hardware where it does not is left out); the timestamp tells which interval it
was taken in, which is all the 1 ms comparison asks; `DRM_VBLANKTIME_RBSIZE` is
2, from the header outside `src/`; the `wmb`/barrier pairs do what they are
for.

## 3. What is checked

Every property is stated and explained in its module.  "pass" runs explore
every reachable state of the instance; a "violation" run shows one statement of
the repository that the code does not keep.

| run | configuration | result | distinct states |
|---|---|---|---|
| `ttm_lock_all` | `TtmLock_all.cfg` | pass | 68,760 |
| `ttm_lock_reservation` | `TtmLock_reservation.cfg` | pass | 5,928 |
| `ttm_lock_write` | `TtmLock_write.cfg` | violation of `WriterExcludes` | |
| `gem_safety` | `Gem_safety.cfg` | pass | 476,086 |
| `gem_return` | `Gem_return.cfg` | pass | 30,645 |
| `gem_import_fails` | `Gem_import_fails.cfg` | violation of `NoSelfDeadlock` | |
| `modeset_mixed` | `ModesetLock_mixed.cfg` | pass | 115,151 |
| `modeset_live` | `ModesetLock_live.cfg` | pass | 10,044 |
| `modeset_trylock` | `ModesetLock_trylock.cfg` | violation of `UnlockAllDropsAll` | |
| `vblank_safety` | `Vblank_safety.cfg` | pass | 1,495,368 |
| `vblank_live` | `Vblank_live.cfg` | pass | 480,167 |
| `vblank_wrap` | `Vblank_wrap.cfg` | violation of `CountFollowsTime` | |

**ttm_lock_all** Three threads, every entry point in its interruptible form,
signals at any time, the kill switch.  Three threads are the fewest with a
holder, a waiter that is interrupted and another of its kind that must not
lose its pending bit for good.  `WriterExcludes`, `ModesExclude` and
`RwCounts` say that the two words agree about who is inside; `PendingHasOwner`
and `HeldBitsHaveOwner` that no flag bit is orphaned; `NoLostWakeup` that the
skipped `wake_up_all()` calls are never needed; `SuspendGranted` that readers
do not starve a suspend; `InterruptibleReturns` that a signalled taker gets
out.  **ttm_lock_reservation** adds the uninterruptible writers of
`vmw_private.reservation_sem`; queue and pending bits are still right.

**gem_safety** Two threads in six situations (`AllWorlds`): names of two
objects in two files; two handles of one object with framebuffers and mappings
and every failure on the way; framebuffers of two files; an object shared by
PRIME between two files while a foreign dma-buf is imported; two objects in one
PRIME cache; many handles of one object by name and by PRIME.  `RefcountExact`,
`HandleCountExact` and `BufRefExact` account for every reference at every
step, so neither a use after free nor a leak is reachable; `NamesBacked`,
`CycleBroken` and `CacheBacked` say that what holds no reference goes in time;
`OneBufPerObject` that an object is one dma-buf.  Two threads suffice for the
races the code guards against, which are between two calls; two handles, names
and dma-bufs let a number be reused while its old use is being taken down.
**gem_return**: every call returns, without the two failures that hang.

**modeset_mixed** Three threads, two crtcs with their planes and the
connection lock, in every blocking call, with further lock requests inside
lock-all sections; and, as a second workload, the panic path's trylock with
failing allocations.  Three threads give a chain in which one backs off from
another that is itself waiting.  `ContextTracksLocks` and `ContendedBacksOff`
hold in both workloads; `SectionHoldsLocks`, `StashOwned`, `IdleHoldsNothing`,
`AllSectionKept` and `SomebodyRuns` (no circular wait) in the first.
**modeset_live**: every call returns (one crtc and its plane, three threads).

**vblank_safety** Two threads and one event on five kinds of device (`AllKinds`:
the usual off/on driver, pre/post modeset with and without a failing enable, no
disable delay with an extra `drm_vblank_on()`, and a failing enable in
`drm_vblank_on()`).  The cooked count starts two below its wrap and four vblanks
pass, so it wraps; the hardware counter is larger than the time bound here and
does not.  `CountFollowsTime` says that no vblank is lost or counted twice
however interrupts, the disable path and the hardware counter share the work;
`UpToDate` and `TimeMatchesCount` that count and timestamp belong together,
also for the lock-free reader; `NewCountAfterModeset`, `RefcountExact`,
`ReferenceKeepsEnabled`, `NoStrandedEvent` and `EventsNotEarly` are the
promises of the kernel-doc.  **vblank_live**: a queued event leaves the queue
through any number of modesets (time and counters run in a circle).

Bounds: the sizes of the constant sets; `TimeMod` (vblanks), `MaxModesets`,
`CountMod`, `Window` and `MaxHw` in `Vblank`.  Deadlock is not checked where
time is bounded (`vblank_safety`) or where the code really leaves everybody
waiting (`gem_safety`, `modeset_mixed`, `ttm_lock_reservation`, each because of
a finding below).

### Fairness

* `TtmLock`: a runnable thread runs (`WF Progress`), and a holder gives the lock
  back (`WF Unlock`): holders are ioctls and power-management callbacks that
  return.  Nothing is assumed about a sleeper.
* `Gem`: a call that needs no lock goes on (`WF Continue`); a thread waiting for
  `prime.lock` is not overtaken for ever (`SF LockPrime`): kernel mutexes hand
  over to their waiters in order.
* `ModesetLock`: the same (`WF Run`, `SF Acquire`); ww_mutex waiters are queued.
* `Vblank`: vblanks keep coming while the crtc scans out (`WF Tick`), interrupts
  are handled (`WF Irq`), sections under a spinlock end (`WF Section`).  The
  ioctl threads, the timer and modesets need not make progress.

### Findings

1. `ttm_lock_write`: `ttm_write_lock(lock, false)` waits for
   `__ttm_read_lock()` (`ttm/ttm_lock.c:183`), so an uninterruptible writer
   enters as a reader, beside other readers and writers, and its unlock stores
   `rw = 0` over their count.
2. `gem_import_fails`: when `drm_prime_add_buf_handle()` fails,
   `drm_gem_prime_fd_to_handle()` deletes the handle with `prime.lock` held
   (`drm_prime.c:615`), and `drm_gem_remove_prime_handles()` takes it again.
3. `modeset_trylock`: locks taken with `trylock_only` are on no list
   (`drm_modeset_lock.c:336`), so `drm_modeset_unlock_all()` does not drop them.
4. `vblank_wrap`: after a wrap `drm_update_vblank_count()` adds
   `max_vblank_count`, which is one less than the number of values of the
   register (`drm_irq.c:120`).

### Deviations

Properties that are stated in the modules, that the code does not satisfy, and
that no run checks.  Each is reproduced by the change given.

| property | change | what happens |
|---|---|---|
| `ExportRight` | `gem_safety` | `drm_gem_handle_delete()` frees the number before `drm_gem_remove_prime_handles()` removes the cache member made under it: a new object under that number is exported as the old object's dma-buf |
| `AllowedBacked` | `gem_safety` | a close overtakes the `drm_vma_node_allow()` of the call that made the handle: the revoke finds nothing and the permission stays |
| `OneBufPerObject`, `ImportConsistent` | `"addfb"` and `"getfb"` added to a PRIME world | an object kept by a framebuffer loses `obj->dma_buf` with its last handle, gets a new handle from GETFB and is exported again while the first dma-buf is alive: `WARN_ON(obj->dma_buf != dma_buf)` fires |
| `CacheBacked` | the same, with a foreign dma-buf | the object won back by GETFB is exported from `import_attach`; its cache member is looked for under `obj->dma_buf`, which is NULL, and stays |
| `StashFree` | `further = {"crtc"}` | `drm_atomic_legacy_backoff()` inside a crtc section drops the crtc's lock with `crtc->acquire_ctx` still set; another thread stashes over it |
| `NobodyElseUnlocks` | `alloc_fails = TRUE` with `Blocked` | a `drm_modeset_lock_all()` that returned without locks is followed by an unlock that drops somebody else's |
| `CountFollowsTime` | `unbalanced = {"off"}`, `MaxModesets = 2` | `drm_update_vblank_count()` never advances `vblank->last`, so a second `drm_vblank_off()` adds the same vblanks again |
| `NewCountAfterModeset` | `HwReset = 0` | a counter that restarts at 0 and `(0 - 1) & max` make the wrap case of `drm_update_vblank_count()` find nothing missed (finding 4) |
| `PutHasReference` | `on_fails = TRUE` | `drm_vblank_enable()` failing in `drm_vblank_on()` drops a reference that belongs to a waiter |
| `TimeMatchesCount` | without its `pre_post` condition | after `drm_vblank_on()` a count can move by a multiple of the ring size, so the slot a lock-free reader looks at is rewritten before the count changes |

Two more observations that no definition states:
`drm_gem_cma_create_with_handle()` frees the object by hand when the handle could
not be made, though others may have seen the handle by then; and
`vmwgfx_fb.c:388` takes `reservation_sem` in write mode while lines 405 and 410
release `fbdev_master.lock`.

## 4. What is proved

`TtmLockProofs`, for every finite set of threads and every set of calls that
`CallsAssumption` admits (calls that exist; only interruptible ones once the
kill switch is used):

* **TtmLockSafe** If no call is the uninterruptible write lock,
  `Spec => [](TypeOK /\ RwCounts /\ WriterExcludes /\ ModesExclude /\ HeldBitsHaveOwner)`.
  The hypothesis is needed: finding 1 is its counterexample.
* **TtmLockQueue** `Spec => [](NoLostWakeup /\ PendingHasOwner)`, for all calls,
  the uninterruptible write lock included.

Exclusion is not inductive by itself, since a step sees only `rw` and `flags`.
`IInv` therefore says what these tell about the threads: `Counted` (`rw` is the
cardinality of the readers, or -1 with exactly one writer), `HeldBitsHaveOwner`,
`ModesIdle` (`rw` is 0 under a held bit), with `CallShape` and `Serial` for the
threads' places.  The induction step is split by what an action does: `TypeStep`
and `Frame` (other threads are at most woken), `RwStep` and `CountedStep` (the
cardinality of the readers, with the finite-set theorems), `ModeStep` and
`HeldBitsStep` (the flag bits), `ModesIdleStep`.  The second theorem has its own
invariant `QInv`, which says nothing about exclusion: whoever sleeps found its
condition false or has a signal coming (`FallsAsleep`), and a step that makes a
condition true either wakes everybody or enables nothing for a sleeper
(`WakesOrEnablesNothing`).

Only model-checked: the liveness properties (`SuspendGranted`,
`InterruptibleReturns`, `CallsReturn`, `EventsLeaveQueue`) and `SomebodyRuns`,
because fairness and ENABLED are out of the prover's reach, as are RECURSIVE
definitions and induction over data; and the safety properties of `Gem`,
`ModesetLock` and `Vblank`, whose proofs are planned.

## 5. What is not modelled

Left out of the modelled parts: page backing, fake offsets, scatter tables and
vmaps of GEM; `drm_irq_install/uninstall`, `drm_vblank_cleanup`,
`drm_wait_one_vblank` and the scan-out position arithmetic of `drm_irq.c`;
interruptible modeset locks (no caller in `src/`); permission checks and
argument copying of the ioctls; memory ordering.

Not modelled at all, with the reason, in `PROJECT.json`: parsers of fixed
layouts (EDID), bus and sysfs registration, and the drivers' register
programming have no protocol to check; the others are planned.

## 6. Plan

In this order:

1. `TtmBo`: reservation, LRU, eviction and delayed destruction
   (`ttm_bo.c`, `ttm_execbuf_util.c`), with `TtmObject` (base and ref objects)
   and `TtmMemory` (zones and the shrink work).
2. `FileMaster`: `drm_open`/`drm_release`, masters, magic authentication and the
   hardware lock (`drm_fops.c`, `drm_auth.c`, `drm_drv.c`, `drm_lock.c`),
   composed with `Gem`'s release.
3. `DrmMM` and `VmaManager`: hole bookkeeping and the eviction scan against a
   reference definition (a set of disjoint intervals), and the offset tree.
4. `DpMst`: sideband transactions with lost and late replies, payload table.
5. `Atomic` and `Framebuffers`: duplicate, check, swap and the reference counts
   of states and framebuffers, composed with `ModesetLock`.
6. Fences of the drivers (radeon, nouveau, vmwgfx): sequence numbers against
   wrap, late interrupts and resets.
7. Pure algorithms as operators: rectangle clipping (`drm_rect.c`), plane
   checks, mode comparison.
8. Abstract specifications: a reader/writer lock that `TtmLock` implements, an
   atomic reference table that `Gem` implements, a continuous vblank counter that
   `Vblank` implements.
9. Proofs: `NamesBacked` and `CycleBroken` of `Gem`, `ContextTracksLocks` of
   `ModesetLock`, `RefcountExact` of `Gem` and `Vblank`, the refinement of
   `TtmLock`.

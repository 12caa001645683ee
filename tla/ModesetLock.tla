---------------------------- MODULE ModesetLock ----------------------------
(***************************************************************************)
(* The modeset locks (drm_modeset_lock.c) and the calls that take them:    *)
(* drm_modeset_lock_all(), its trylock form for the panic handler,         *)
(* drm_modeset_lock_crtc(), the on-stack acquire contexts of load          *)
(* detection, the single locks taken without a context, and the back-off   *)
(* of the atomic helpers inside a section (drm_atomic_legacy_backoff()).   *)
(*                                                                         *)
(* A modeset lock is a ww_mutex.  A call that takes several of them works  *)
(* through an acquire context, which has a ticket: who finds a lock held   *)
(* by an older context while holding locks itself is told -EDEADLK, drops  *)
(* everything, sleeps for that one lock, and starts again with the same    *)
(* ticket.  A thread has at most one context, so a context is named by the *)
(* thread that allocated it.                                               *)
(***************************************************************************)
EXTENDS Naturals, FiniteSets, Sequences

CONSTANTS
  Threads,      \* threads of execution that enter the modeset code
  Conn,         \* mode_config.connection_mutex
  CrtcList,     \* mode_config.crtc_list: the crtc locks in list order
  PlaneList,    \* mode_config.plane_list: the plane locks in list order
  CrtcPlanes,   \* pairs <<crtc, plane>>: crtc->primary and crtc->cursor, None for a missing cursor plane
  Workloads,    \* the workloads that are considered
  None

\* The members of a list.
Elements(list) == {list[i] : i \in DOMAIN list}

Crtcs == Elements(CrtcList)
Planes == Elements(PlaneList)
Locks == {Conn} \cup Crtcs \cup Planes

\* ops: the calls that happen; further: the sections in which the atomic helpers ask
\* for locks again; alloc_fails: kzalloc() of an acquire context may fail.  Helpers
\* inside a section that somebody else may have unlocked are not considered.
Workload ==
  [ops : SUBSET {"all", "try", "crtc", "detect", "connector", "encoder", "plane"},
   further : SUBSET {"all", "crtc"}, alloc_fails : BOOLEAN]

ASSUME ModesetAssumption ==
  /\ Workloads \subseteq Workload
  /\ \A w \in Workloads : w.alloc_fails => w.further = {}
  /\ CrtcList \in Seq(Crtcs) /\ PlaneList \in Seq(Planes)
  /\ CrtcPlanes \subseteq Crtcs \X (Planes \cup {None})
  /\ None \notin Threads \cup Locks
  /\ Conn \notin Crtcs \cup Planes
  /\ Crtcs \cap Planes = {}

VARIABLES
  load,      \* the workload, the same throughout
  mutex,     \* mode_config.mutex: its owner or None
  owner,     \* owner[l]: the thread holding lock l, or None
  lock_ctx,  \* lock_ctx[l]: the acquire context l was taken with, or None
  tickets,   \* the live acquire contexts, oldest first
  ctx,       \* ctx[t]: the acquire context allocated by t
  config_ctx, \* mode_config.acquire_ctx
  crtc_ctx,  \* crtc_ctx[c]: crtc->acquire_ctx
  th         \* th[t]: where thread t is

vars == <<load, mutex, owner, lock_ctx, tickets, ctx, config_ctx, crtc_ctx, th>>

\* Where a thread is.  todo: locks still to be taken, plan: the locks to restart
\* with, want: the lock a back-off sleeps for, drop: the context an unlock works on,
\* lap: "further" when it is already inside its section.
At(pc, op, crtc, plane, todo, plan) ==
  [pc |-> pc, op |-> op, crtc |-> crtc, plane |-> plane, todo |-> todo,
   plan |-> plan, want |-> None, drop |-> None, lap |-> "first"]

\* A thread outside the modeset code.
Idle == At("idle", "none", None, None, <<>>, <<>>)

NoCtx == [locked |-> <<>>, contended |-> None]

AllLocks == <<Conn>> \o CrtcList \o PlaneList

Init ==
  /\ load \in Workloads
  /\ mutex = None
  /\ owner = [l \in Locks |-> None]
  /\ lock_ctx = [l \in Locks |-> None]
  /\ tickets = <<>>
  /\ ctx = [t \in Threads |-> NoCtx]
  /\ config_ctx = None
  /\ crtc_ctx = [c \in Crtcs |-> None]
  /\ th = [t \in Threads |-> Idle]

Held(t) == {l \in Locks : owner[l] = t}

\* The acquire context of t exists.
Live(t) == t \in Elements(tickets)

Set(t, local) == th' = [th EXCEPT ![t] = local]

(***************************************************************************)
(* Acquire contexts and the locks themselves.                              *)
(***************************************************************************)

\* drm_modeset_acquire_init(): an empty context with the youngest ticket.
AcquireInit(t) ==
  /\ tickets' = Append(tickets, t)
  /\ ctx' = [ctx EXCEPT ![t] = NoCtx]

Remove(list, i) == SubSeq(list, 1, i - 1) \o SubSeq(list, i + 1, Len(list))

\* drm_modeset_acquire_fini() and the kfree() of the context of u.
AcquireFini(u) ==
  /\ tickets' = IF Live(u) THEN Remove(tickets, CHOOSE i \in DOMAIN tickets : tickets[i] = u)
                ELSE tickets
  /\ ctx' = [ctx EXCEPT ![u] = NoCtx]

\* The context of u is older than the one of t: ww_mutex compares the tickets.
Older(u, t) ==
  \E i, j \in DOMAIN tickets : i < j /\ tickets[i] = u /\ tickets[j] = t

\* ww_mutex answers a locker that holds other locks with -EDEADLK when an older
\* context holds the lock it asks for.
MustBackOff(t, l) ==
  /\ ctx[t].locked # <<>>
  /\ lock_ctx[l] \notin {None, t}
  /\ Older(lock_ctx[l], t)

\* ww_mutex_lock() of a free lock with the context of t.
Grab(t, l) ==
  /\ owner[l] = None
  /\ owner' = [owner EXCEPT ![l] = t]
  /\ lock_ctx' = [lock_ctx EXCEPT ![l] = t]

\* drm_modeset_unlock().
Release(l) ==
  /\ owner' = [owner EXCEPT ![l] = None]
  /\ lock_ctx' = [lock_ctx EXCEPT ![l] = None]

\* Lock l is done.  drm_modeset_lock_crtc() then looks at plane->crtc, which for a
\* primary or cursor plane is NULL or the crtc itself (possible_crtcs has one bit).
Advance(t, l) ==
  \E more \in IF th[t].op = "crtc" /\ th[t].lap = "first" /\ l = th[t].plane
              THEN {<<>>, <<th[t].crtc>>} ELSE {Tail(th[t].todo)} :
    Set(t, [th[t] EXCEPT !.todo = more])

\* list_add() of l to the locks of the context.
Listed(t, l) == [ctx EXCEPT ![t].locked = <<l>> \o @]

\* The lock l is contended: it is remembered for the back-off.
Contend(t, l) ==
  /\ ctx' = [ctx EXCEPT ![t].contended = l]
  /\ Set(t, [th[t] EXCEPT !.pc = "contended"])
  /\ UNCHANGED <<owner, lock_ctx>>

\* Faulty variant: a lock found to be held already is put on the list again.
AlreadyListed(t, l) ==
  lock_ctx[l] = t /\ Advance(t, l) /\ ctx' = Listed(t, l) /\ UNCHANGED <<owner, lock_ctx>>

\* Faulty variant: -EALREADY is treated like -EDEADLK.
AlreadyContended(t, l) == lock_ctx[l] = t /\ Contend(t, l)

\* Faulty variant: a lock held already is asked for without the context, and never got.
AlreadySleeps(t, l) == FALSE

\* -EALREADY: the context holds l, which counts as success.
Already(t, l) == lock_ctx[l] = t /\ Advance(t, l) /\ UNCHANGED <<owner, lock_ctx, ctx>>

\* Faulty variant: -EDEADLK is treated like -EALREADY.
DeadlkIgnored(t, l) ==
  MustBackOff(t, l) /\ Advance(t, l) /\ UNCHANGED <<owner, lock_ctx, ctx>>

\* -EDEADLK: the context must back off.
Deadlk(t, l) == MustBackOff(t, l) /\ Contend(t, l)

\* drm_modeset_lock() with a context.
Lock(t) ==
  /\ th[t].pc = "lock" /\ th[t].todo # <<>> /\ th[t].op \in {"all", "crtc", "detect"}
  /\ LET l == Head(th[t].todo) IN
     \/ Grab(t, l) /\ ctx' = Listed(t, l) /\ Advance(t, l)
     \/ Already(t, l)
     \/ Deadlk(t, l)
  /\ UNCHANGED <<mutex, tickets, config_ctx, crtc_ctx>>

\* drm_modeset_lock() without a context: sleeps until the lock is free.
LockPlain(t) ==
  /\ th[t].pc = "lock" /\ th[t].op \in {"connector", "encoder", "plane"} /\ th[t].todo # <<>>
  /\ LET l == Head(th[t].todo) IN
     /\ owner[l] = None
     /\ owner' = [owner EXCEPT ![l] = t]
  /\ Set(t, [th[t] EXCEPT !.pc = "in"])
  /\ UNCHANGED <<mutex, lock_ctx, tickets, ctx, config_ctx, crtc_ctx>>

\* modeset_lock() with ctx->trylock_only: the lock is taken without the context and
\* is not put on its list.  A busy lock makes __drm_modeset_lock_all() return -EBUSY
\* with mode_config.mutex, the locks taken so far and the context left behind.  The
\* ticket of that context goes: it holds no lock, so nobody compares with it.
TryLock(t) ==
  /\ th[t].pc = "lock" /\ th[t].todo # <<>> /\ th[t].op = "try"
  /\ LET l == Head(th[t].todo) IN
     \/ /\ owner[l] = None
        /\ owner' = [owner EXCEPT ![l] = t]
        /\ Advance(t, l)
        /\ UNCHANGED <<tickets, ctx>>
     \/ /\ owner[l] # None
        /\ Set(t, Idle)
        /\ AcquireFini(t)
        /\ UNCHANGED owner
  /\ UNCHANGED <<mutex, lock_ctx, config_ctx, crtc_ctx>>

(***************************************************************************)
(* Backing off.                                                            *)
(***************************************************************************)

\* The locks to start again with: those of the call, but drm_atomic_legacy_backoff(),
\* which backs off inside a section, takes every lock.
Restart(t) == IF th[t].lap = "further" THEN AllLocks ELSE th[t].plan

\* Faulty variant: ctx->contended is not reset.
KeepContended(t) == UNCHANGED ctx

ResetContended(t) == ctx' = [ctx EXCEPT ![t].contended = None]

\* drm_modeset_backoff() is entered: ctx->contended is reset and remembered.
Backoff(t) ==
  /\ th[t].pc = "contended"
  /\ ResetContended(t)
  /\ Set(t, [th[t] EXCEPT !.pc = "backoff", !.want = ctx[t].contended,
                          !.todo = Restart(t)])
  /\ UNCHANGED <<mutex, owner, lock_ctx, tickets, config_ctx, crtc_ctx>>

\* drm_modeset_drop_locks() drops the most recently taken lock of the context first.
DropOne(u) ==
  /\ ctx[u].locked # <<>>
  /\ Release(Head(ctx[u].locked))
  /\ ctx' = [ctx EXCEPT ![u].locked = Tail(@)]

\* One lock dropped by the back-off.
BackoffDrop(t) ==
  /\ th[t].pc = "backoff"
  /\ DropOne(t)
  /\ UNCHANGED <<mutex, tickets, config_ctx, crtc_ctx, th>>

\* Everything is dropped: ww_mutex_lock_slow() sleeps for the contended lock.
SlowLock(t) ==
  /\ th[t].pc = "backoff" /\ ctx[t].locked = <<>>
  /\ Grab(t, th[t].want)
  /\ ctx' = [ctx EXCEPT ![t].locked = <<th[t].want>>]
  /\ Set(t, [th[t] EXCEPT !.pc = "lock", !.want = None])
  /\ UNCHANGED <<mutex, tickets, config_ctx, crtc_ctx>>

(***************************************************************************)
(* The calls.                                                              *)
(***************************************************************************)

\* The caller of drm_modeset_lock_all() or drm_modeset_lock_crtc() whose context
\* could not be allocated goes on as if it held the locks: both return nothing.
Unallocated(t, op, c, p) ==
  /\ load.alloc_fails
  /\ Set(t, At("in", op, c, p, <<>>, <<>>))

\* drm_modeset_lock_all() is called.
LockAll(t) ==
  /\ "all" \in load.ops /\ th[t].pc = "idle"
  /\ \/ Unallocated(t, "all", None, None)
     \/ Set(t, At("mutex", "all", None, None, <<>>, AllLocks))
  /\ UNCHANGED <<mutex, owner, lock_ctx, tickets, ctx, config_ctx, crtc_ctx>>

\* drm_fb_helper_force_kernel_mode() calls __drm_modeset_lock_all(dev, true).  When
\* mutex_trylock() or the allocation fails, nothing but the context is left behind.
TryLockAll(t) ==
  /\ "try" \in load.ops /\ th[t].pc = "idle" /\ mutex = None
  /\ mutex' = t
  /\ AcquireInit(t)
  /\ Set(t, At("lock", "try", None, None, AllLocks, <<>>))
  /\ UNCHANGED <<owner, lock_ctx, config_ctx, crtc_ctx>>

\* drm_modeset_lock_crtc() is called for the primary or cursor plane of a crtc.
LockCrtc(t) ==
  /\ "crtc" \in load.ops /\ th[t].pc = "idle"
  /\ \E cp \in CrtcPlanes :
       LET c == cp[1]
           p == cp[2]
           plan == IF p = None THEN <<c>> ELSE <<c, p>>
       IN \/ Unallocated(t, "crtc", c, p) /\ UNCHANGED <<tickets, ctx>>
          \/ Set(t, At("lock", "crtc", c, p, plan, plan)) /\ AcquireInit(t)
  /\ UNCHANGED <<mutex, owner, lock_ctx, config_ctx, crtc_ctx>>

\* Connector probing under mode_config.mutex detects a load with a context of its
\* own: the connection lock, then a crtc and its primary plane unless every crtc
\* is in use.
Detect(t) ==
  /\ "detect" \in load.ops /\ th[t].pc = "idle"
  /\ \E plan \in {<<Conn>>} \cup {<<Conn, cp[1], cp[2]>> : cp \in {x \in CrtcPlanes : x[2] # None}} :
       Set(t, At("mutex", "detect", None, None, <<>>, plan))
  /\ UNCHANGED <<mutex, owner, lock_ctx, tickets, ctx, config_ctx, crtc_ctx>>

\* drm_mode_getconnector() takes mode_config.mutex and then the connection lock.
GetConnector(t) ==
  /\ "connector" \in load.ops /\ th[t].pc = "idle"
  /\ Set(t, At("mutex", "connector", None, None, <<>>, <<Conn>>))
  /\ UNCHANGED <<mutex, owner, lock_ctx, tickets, ctx, config_ctx, crtc_ctx>>

\* drm_mode_getencoder() takes the connection lock.
GetEncoder(t) ==
  /\ "encoder" \in load.ops /\ th[t].pc = "idle"
  /\ Set(t, At("lock", "encoder", None, None, <<Conn>>, <<>>))
  /\ UNCHANGED <<mutex, owner, lock_ctx, tickets, ctx, config_ctx, crtc_ctx>>

\* drm_mode_getplane() takes the lock of a plane.
GetPlane(t) ==
  /\ "plane" \in load.ops /\ th[t].pc = "idle"
  /\ \E p \in Planes :
       Set(t, At("lock", "plane", None, None, <<p>>, <<>>))
  /\ UNCHANGED <<mutex, owner, lock_ctx, tickets, ctx, config_ctx, crtc_ctx>>

\* mutex_lock(&config->mutex) succeeds.
MutexLock(t) ==
  /\ th[t].pc = "mutex" /\ mutex = None
  /\ mutex' = t
  /\ Set(t, [th[t] EXCEPT !.pc = "lock", !.todo = th[t].plan])
  /\ IF th[t].op = "connector" THEN UNCHANGED <<tickets, ctx>> ELSE AcquireInit(t)
  /\ UNCHANGED <<owner, lock_ctx, config_ctx, crtc_ctx>>

\* All locks are taken.  drm_modeset_lock_all() and drm_modeset_lock_crtc() stash the
\* context for the unlock; after further locks the section just goes on.
Enter(t) ==
  /\ th[t].pc = "lock" /\ th[t].todo = <<>>
  /\ Set(t, [th[t] EXCEPT !.pc = "in", !.plan = <<>>])
  /\ config_ctx' = IF th[t].op \in {"all", "try"} /\ th[t].lap = "first" THEN t ELSE config_ctx
  /\ crtc_ctx' = IF th[t].op = "crtc" /\ th[t].lap = "first"
                 THEN [crtc_ctx EXCEPT ![th[t].crtc] = t] ELSE crtc_ctx
  /\ UNCHANGED <<mutex, owner, lock_ctx, tickets, ctx>>

\* drm_modeset_legacy_acquire_ctx(): the context stashed in the crtc, else the global one.
LegacyAcquireCtx(c) == IF crtc_ctx[c] # None THEN crtc_ctx[c] ELSE config_ctx

\* Inside a section the atomic helpers ask for a lock through the context that
\* drm_modeset_legacy_acquire_ctx() finds: for any lock under drm_modeset_lock_all(),
\* for the crtc and the plane in a page flip or cursor update.  The model goes on only
\* while the context is the thread's own, see StashOwned.
Further(t) ==
  /\ th[t].pc = "in" /\ th[t].op \in load.further /\ th[t].lap = "first"
  /\ \E c \in IF th[t].op = "crtc" THEN {th[t].crtc} ELSE Crtcs : LegacyAcquireCtx(c) = t
  /\ \E l \in IF th[t].op = "crtc" THEN {th[t].crtc, th[t].plane} \ {None} ELSE Locks :
       Set(t, [th[t] EXCEPT !.pc = "lock", !.todo = <<l>>, !.lap = "further"])
  /\ UNCHANGED <<load, mutex, owner, lock_ctx, tickets, ctx, config_ctx, crtc_ctx>>

\* Faulty variant: drm_modeset_unlock_crtc() leaves the context in its stash.
UnlockKeepsStash(t) ==
  /\ th[t].pc = "in" /\ th[t].op \in {"all", "try", "crtc", "detect"}
  /\ LET u == CASE th[t].op = "crtc" -> crtc_ctx[th[t].crtc]
                [] th[t].op = "detect" -> t
                [] OTHER -> config_ctx
     IN Set(t, IF u = None THEN Idle
               ELSE [At("drop", th[t].op, None, None, <<>>, <<>>) EXCEPT !.drop = u])
  /\ config_ctx' = IF th[t].op \in {"all", "try"} THEN None ELSE config_ctx
  /\ UNCHANGED <<mutex, owner, lock_ctx, tickets, ctx, crtc_ctx>>

\* drm_modeset_unlock_all() and drm_modeset_unlock_crtc() take the context out of its
\* stash (and return at once if there is none); load detection drops its own.
Unlock(t) ==
  /\ th[t].pc = "in" /\ th[t].op \in {"all", "try", "crtc", "detect"}
  /\ LET u == CASE th[t].op = "crtc" -> crtc_ctx[th[t].crtc]
                [] th[t].op = "detect" -> t
                [] OTHER -> config_ctx
     IN Set(t, IF u = None THEN Idle
               ELSE [At("drop", th[t].op, None, None, <<>>, <<>>) EXCEPT !.drop = u])
  /\ config_ctx' = IF th[t].op \in {"all", "try"} THEN None ELSE config_ctx
  /\ crtc_ctx' = IF th[t].op = "crtc" THEN [crtc_ctx EXCEPT ![th[t].crtc] = None] ELSE crtc_ctx
  /\ UNCHANGED <<mutex, owner, lock_ctx, tickets, ctx>>

\* One lock dropped by the unlock.
UnlockDrop(t) ==
  /\ th[t].pc = "drop"
  /\ DropOne(th[t].drop)
  /\ UNCHANGED <<mutex, tickets, config_ctx, crtc_ctx, th>>

\* Faulty variant: drm_modeset_unlock_all() forgets mode_config.mutex.
FinishKeepsMutex(t) ==
  /\ th[t].pc = "drop" /\ ctx[th[t].drop].locked = <<>>
  /\ AcquireFini(th[t].drop)
  /\ Set(t, Idle)
  /\ UNCHANGED <<mutex, owner, lock_ctx, config_ctx, crtc_ctx>>

\* The context is finished and freed, and mode_config.mutex released.
Finish(t) ==
  /\ th[t].pc = "drop" /\ ctx[th[t].drop].locked = <<>>
  /\ AcquireFini(th[t].drop)
  /\ mutex' = IF th[t].op = "crtc" THEN mutex ELSE None
  /\ Set(t, Idle)
  /\ UNCHANGED <<owner, lock_ctx, config_ctx, crtc_ctx>>

\* drm_modeset_unlock() of a lock taken without a context.
UnlockPlain(t) ==
  /\ th[t].pc = "in" /\ th[t].op \in {"connector", "encoder", "plane"}
  /\ Release(Head(th[t].todo))
  /\ Set(t, IF th[t].op = "connector" THEN At("mutexed", "none", None, None, <<>>, <<>>) ELSE Idle)
  /\ UNCHANGED <<mutex, tickets, ctx, config_ctx, crtc_ctx>>

\* Faulty variant: the connection lock is unlocked on the way out as well.
MutexUnlockBoth(t) ==
  /\ th[t].pc = "mutexed"
  /\ mutex' = None
  /\ Release(Conn)
  /\ Set(t, Idle)
  /\ UNCHANGED <<tickets, ctx, config_ctx, crtc_ctx>>

\* drm_mode_getconnector() releases mode_config.mutex when it returns.
MutexUnlock(t) ==
  /\ th[t].pc = "mutexed"
  /\ mutex' = None
  /\ Set(t, Idle)
  /\ UNCHANGED <<owner, lock_ctx, tickets, ctx, config_ctx, crtc_ctx>>

\* A thread calls into the modeset code.  One whose context is left behind calls no
\* more: a context is named by its thread.
Call(t) ==
  /\ UNCHANGED load /\ ~Live(t)
  /\ \/ LockAll(t) \/ TryLockAll(t) \/ LockCrtc(t) \/ Detect(t)
     \/ GetConnector(t) \/ GetEncoder(t) \/ GetPlane(t)

\* Steps that sleep for a lock.
Acquire(t) ==
  /\ UNCHANGED load
  /\ MutexLock(t) \/ Lock(t) \/ LockPlain(t) \/ SlowLock(t)

\* Steps of a running thread, but for the choice to take further locks.
Run(t) ==
  /\ UNCHANGED load
  /\ \/ TryLock(t) \/ Backoff(t) \/ BackoffDrop(t) \/ Enter(t) \/ Unlock(t)
     \/ UnlockDrop(t) \/ Finish(t) \/ UnlockPlain(t) \/ MutexUnlock(t)

Next == \E t \in Threads : Call(t) \/ Acquire(t) \/ Run(t) \/ Further(t)

Spec == Init /\ [][Next]_vars

\* A running thread goes on, and a thread asking for a lock is not overtaken for ever:
\* the kernel's mutexes queue their waiters and hand over to the first.
FairSpec ==
  /\ Spec
  /\ \A t \in Threads : WF_vars(Run(t)) /\ SF_vars(Acquire(t))

(***************************************************************************)
(* Properties.                                                             *)
(***************************************************************************)

\* No allocation fails and no trylock is made: both leave locks behind, or callers
\* without their locks.
Blocking == ~load.alloc_fails /\ "try" \notin load.ops

Locals ==
  [pc : {"idle", "mutex", "lock", "contended", "backoff", "in", "drop", "mutexed"},
   op : {"none", "all", "try", "crtc", "detect", "connector", "encoder", "plane"},
   crtc : Crtcs \cup {None}, plane : Planes \cup {None},
   todo : Seq(Locks), plan : Seq(Locks), want : Locks \cup {None},
   drop : Threads \cup {None}, lap : {"first", "further"}]

\* Every variable has its type.
TypeOK ==
  /\ load \in Workloads
  /\ mutex \in Threads \cup {None}
  /\ owner \in [Locks -> Threads \cup {None}]
  /\ lock_ctx \in [Locks -> Threads \cup {None}]
  /\ tickets \in Seq(Threads)
  /\ \A i, j \in DOMAIN tickets : tickets[i] = tickets[j] => i = j
  /\ ctx \in [Threads -> [locked : Seq(Locks), contended : Locks \cup {None}]]
  /\ th \in [Threads -> Locals]
  /\ config_ctx \in Threads \cup {None}
  /\ crtc_ctx \in [Crtcs -> Threads \cup {None}]

\* The list of an acquire context is exactly what it holds: drm_modeset_drop_locks()
\* leaves no lock behind and drops no lock of somebody else, however often the
\* context backed off or met a lock it held already.
ContextTracksLocks ==
  /\ \A t \in Threads : Elements(ctx[t].locked) = {l \in Locks : lock_ctx[l] = t}
  /\ \A l \in Locks : lock_ctx[l] # None => owner[l] = lock_ctx[l]

\* A thread that is outside the modeset code holds none of its locks.
\* (drm_modeset_unlock_all: "This function drop all modeset locks taken by
\* drm_modeset_lock_all".)
UnlockAllDropsAll ==
  \A t \in Threads : th[t].pc = "idle" => mutex # t /\ Held(t) = {}

\* The same where no call is a trylock and no allocation fails.
IdleHoldsNothing == Blocking => UnlockAllDropsAll

\* The lists of the contexts, the owners of the locks and the idle threads agree.
LocksTracked == TypeOK /\ ContextTracksLocks /\ IdleHoldsNothing

\* Between drm_modeset_lock_all() and drm_modeset_unlock_all() the caller holds every
\* modeset lock, and between drm_modeset_lock_crtc() and drm_modeset_unlock_crtc() the
\* crtc and the plane: what drm_warn_on_modeset_not_all_locked() warns about.
SectionHoldsLocks ==
  Blocking => \A t \in Threads : th[t].pc = "in" =>
    /\ th[t].op \in {"all", "try"} => mutex = t /\ Held(t) = Locks
    /\ th[t].op = "crtc" => {th[t].crtc, th[t].plane} \ {None} \subseteq Held(t)

\* A stashed context belongs to the thread that holds the lock protecting the stash,
\* and that thread has not left its section: WARN_ON(crtc->acquire_ctx) never fires
\* when a context is stashed, nor WARN_ON(!ctx) when it is taken out again, and
\* drm_modeset_legacy_acquire_ctx() never hands out the context of somebody else.
StashOwned ==
  Blocking =>
  /\ config_ctx # None => owner[Conn] = config_ctx /\ th[config_ctx].op \in {"all", "try"}
  /\ \A c \in Crtcs : crtc_ctx[c] # None =>
       owner[c] = crtc_ctx[c] /\ th[crtc_ctx[c]].op = "crtc" /\ th[crtc_ctx[c]].crtc = c
  /\ \A t \in Threads : th[t].pc = "in" =>
       /\ th[t].op \in {"all", "try"} => config_ctx = t
       /\ th[t].op = "crtc" => crtc_ctx[th[t].crtc] = t

\* The locks of a thread inside its section are dropped by nobody else.
\* (drm_modeset_unlock_all: "This function drop all modeset locks taken by
\* drm_modeset_lock_all".)
NobodyElseUnlocks ==
  [][Blocking => \A t \in Threads : th[t].pc = "in" /\ th'[t] = th[t] =>
       \A l \in Held(t) : owner'[l] = t]_vars

\* Whoever holds every lock never has to back off when the atomic helpers ask for one
\* of them again: drm_atomic_helper_set_config() relies on it to keep its section.
AllSectionKept ==
  \A t \in Threads : th[t].op = "all" /\ th[t].lap = "further" => Held(t) = Locks

\* A section keeps the locks and the stashed context it was entered with.
SectionsKept == SectionHoldsLocks /\ AllSectionKept /\ StashOwned

\* A context that was told to back off takes and drops no lock before it does:
\* WARN_ON(ctx->contended) in modeset_lock() and drm_modeset_drop_locks().
ContendedBacksOff ==
  \A t \in Threads : ctx[t].contended # None => th[t].pc = "contended"

\* The threads never wait for each other in a circle: while one of them is in a
\* blocking call, some thread can go on without a new call being made.
SomebodyRuns ==
  Blocking /\ (\E t \in Threads : th[t].pc # "idle") =>
    \E t \in Threads : ENABLED (Acquire(t) \/ Run(t))

=============================================================================

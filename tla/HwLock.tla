-------------------------------- MODULE HwLock -------------------------------
(***************************************************************************)
(* The hardware lock of the legacy drivers, drm_lock.c: a word in memory   *)
(* that is shared with the clients, who lock and unlock it with cmpxchg    *)
(* and enter the kernel only under contention; the idle lock the kernel    *)
(* takes when it reclaims the buffers of a file (via, sis, savage, i810);  *)
(* and what drm_release() does with the lock of a file that goes away.     *)
(*                                                                         *)
(* The ioctls and drm_release() run under drm_global_mutex, so that only   *)
(* the cmpxchg of a client falls between two steps of them.  The files of  *)
(* one master are modelled; each has one thread and one context, and       *)
(* unlocks only what it has locked.                                        *)
(***************************************************************************)
EXTENDS Naturals, FiniteSets

CONSTANTS
  Files,        \* drm_files of the master
  Master,       \* the one that is_master
  Kernel,       \* DRM_KERNEL_CONTEXT
  None,
  Worlds

VARIABLES
  world,           \* drop: the master may drop its role; signals: waiters may be
                   \* interrupted; reclaim: does preclose() take the idle lock,
                   \* "never", "mastered" (via, sis), "always" (savage, i810)
  global_mutex,    \* drm_global_mutex while a close is under way
  minor_master,    \* minor->master is set
  open,            \* files that are open
  hw_lock,         \* master->lock.hw_lock is set
  held, ctx, cont, \* the lock word: _DRM_LOCK_HELD, the context, _DRM_LOCK_CONT
  lock_file,       \* lock.file_priv
  lock_count,      \* file_priv->lock_count is not zero
  user_waiters, kernel_waiters, idle_has_lock,
  th               \* of a file: out, asleep or awake (in drm_legacy_lock()),
                   \* inside (it has the lock), release, closing, closed

\* What is assumed of the constants: the master is one of finitely many files, and
\* neither the kernel's context nor None is one.
HwLockConstants ==
  /\ IsFiniteSet(Files) /\ Master \in Files
  /\ Kernel \notin Files /\ None \notin Files

word == <<held, ctx, cont>>
vars == <<world, global_mutex, minor_master, open, hw_lock, word, lock_file,
          lock_count, user_waiters, kernel_waiters, idle_has_lock, th>>

TypeOK ==
  /\ world \in Worlds
  /\ global_mutex \in Files \cup {None}
  /\ minor_master \in BOOLEAN /\ hw_lock \in BOOLEAN
  /\ open \subseteq Files
  /\ held \in BOOLEAN /\ cont \in BOOLEAN
  /\ ctx \in Files \cup {Kernel}
  /\ lock_file \in Files \cup {None}
  /\ lock_count \in [Files -> BOOLEAN]
  /\ user_waiters \in 0..Cardinality(Files)
  /\ kernel_waiters \in 0..1
  /\ idle_has_lock \in BOOLEAN
  /\ th \in [Files -> {"out", "asleep", "awake", "inside", "release", "closing", "closed"}]

Init ==
  /\ world \in Worlds
  /\ global_mutex = None
  /\ minor_master = TRUE
  /\ open = Files
  /\ hw_lock = TRUE
  /\ held = FALSE /\ ctx = Kernel /\ cont = FALSE
  /\ lock_file = None
  /\ lock_count = [f \in Files |-> FALSE]
  /\ user_waiters = 0 /\ kernel_waiters = 0 /\ idle_has_lock = FALSE
  /\ th = [f \in Files |-> "out"]

------------------------------------------------------------------------------
(* The lock word. *)

Word(h, c, k) == held' = h /\ ctx' = c /\ cont' = k
Goto(f, place) == th' = [th EXCEPT ![f] = place]

\* wake_up_interruptible(): the waiters are not exclusive, all wake.
Woken == [f \in Files |-> IF th[f] = "asleep" THEN "awake" ELSE th[f]]

\* Faulty variant of LockTake: the contended flag is left alone.
LockTakeSilent(c, waiters) ==
  IF held THEN UNCHANGED word ELSE Word(TRUE, c, waiters > 1)

\* drm_lock_take(): mark the lock contended, or take it.
LockTake(c, waiters) ==
  IF held THEN Word(TRUE, ctx, TRUE) ELSE Word(TRUE, c, waiters > 1)

\* drm_legacy_lock_free(): the word keeps the context.  All who would wait in the
\* kernel for the lock hold drm_global_mutex, so kernel_waiters is zero here.
LockFree(wait) ==
  IF kernel_waiters # 0
  THEN /\ Word(TRUE, Kernel, FALSE)
       /\ lock_file' = None
       /\ idle_has_lock' = TRUE
       /\ th' = wait
  ELSE /\ Word(FALSE, ctx, FALSE)
       /\ th' = [f \in Files |-> IF wait[f] = "asleep" THEN "awake" ELSE wait[f]]
       /\ UNCHANGED <<lock_file, idle_has_lock>>

------------------------------------------------------------------------------
(* Clients. *)

\* DRM_LIGHT_LOCK of the client library: the last holder takes the lock again.
FastLock(f) ==
  /\ th[f] = "out" /\ hw_lock
  /\ ~held /\ ctx = f
  /\ Word(TRUE, f, FALSE)
  /\ Goto(f, "inside")
  /\ UNCHANGED <<world, global_mutex, minor_master, open, hw_lock, lock_file, lock_count,
                 user_waiters, kernel_waiters, idle_has_lock>>

\* DRM_UNLOCK of the client library, when nobody waits.
FastUnlock(f) ==
  /\ th[f] = "inside" /\ hw_lock
  /\ held /\ ctx = f /\ ~cont
  /\ Word(FALSE, f, FALSE)
  /\ Goto(f, "out")
  /\ UNCHANGED <<world, global_mutex, minor_master, open, hw_lock, lock_file, lock_count,
                 user_waiters, kernel_waiters, idle_has_lock>>

\* Faulty variant of Taken: the holder is not recorded.
TakenUnrecorded(f, waiters) ==
  /\ Goto(f, "inside")
  /\ user_waiters' = waiters - 1
  /\ UNCHANGED lock_file

Taken(f, waiters) ==
  /\ Goto(f, "inside")
  /\ lock_file' = f
  /\ user_waiters' = waiters - 1

\* drm_legacy_lock(): one turn of its loop, on entry or after schedule().
Lock(f) ==
  LET waiters == IF th[f] = "out" THEN user_waiters + 1 ELSE user_waiters IN
  /\ global_mutex = None
  /\ th[f] \in {"out", "awake"} /\ f \in open
  /\ th[f] = "out" => hw_lock
  /\ lock_count' = [lock_count EXCEPT ![f] = TRUE]
  /\ \/ /\ hw_lock
        /\ LockTake(f, waiters + kernel_waiters)
        /\ IF ~held THEN Taken(f, waiters)
           ELSE /\ Goto(f, "asleep")
                /\ user_waiters' = waiters
                /\ UNCHANGED lock_file
     \/ /\ ~hw_lock
        /\ user_waiters' = waiters - 1
        /\ Goto(f, "out")
        /\ UNCHANGED <<word, lock_file>>
  /\ UNCHANGED <<world, global_mutex, minor_master, open, hw_lock, kernel_waiters,
                 idle_has_lock>>

\* A signal ends the wait with -EINTR.
Interrupted(f) ==
  /\ global_mutex = None
  /\ world.signals /\ th[f] \in {"asleep", "awake"}
  /\ user_waiters' = user_waiters - 1
  /\ Goto(f, "out")
  /\ UNCHANGED <<world, global_mutex, minor_master, open, hw_lock, word, lock_file,
                 lock_count, kernel_waiters, idle_has_lock>>

\* drm_legacy_unlock(), when the contended flag sends the client to the kernel.
Unlock(f) ==
  /\ global_mutex = None
  /\ th[f] = "inside" /\ hw_lock
  /\ LockFree([th EXCEPT ![f] = "out"])
  /\ UNCHANGED <<world, global_mutex, minor_master, open, hw_lock, lock_count,
                 user_waiters, kernel_waiters>>

------------------------------------------------------------------------------
(* The kernel. *)

\* drm_dropmaster_ioctl()
DropMaster ==
  /\ global_mutex = None
  /\ world.drop /\ minor_master /\ Master \in open
  /\ minor_master' = FALSE
  /\ UNCHANGED <<world, global_mutex, open, hw_lock, word, lock_file, lock_count,
                 user_waiters, kernel_waiters, idle_has_lock, th>>

\* drm_setmaster_ioctl() by the file that dropped its role.
SetMaster ==
  /\ global_mutex = None
  /\ ~minor_master /\ Master \in open
  /\ minor_master' = TRUE
  /\ UNCHANGED <<world, global_mutex, open, hw_lock, word, lock_file, lock_count,
                 user_waiters, kernel_waiters, idle_has_lock, th>>

\* drm_release() of a file whose calls have returned, which may have died with the
\* lock held.  preclose() takes the idle lock, drm_legacy_idlelock_take().
CloseBegin(f) ==
  /\ global_mutex = None
  /\ f \in open /\ th[f] \in {"out", "inside"}
  /\ open' = open \ {f}
  /\ global_mutex' = f
  /\ IF \/ world.reclaim = "always" /\ hw_lock
        \/ world.reclaim = "mastered" /\ minor_master /\ hw_lock
     THEN /\ kernel_waiters' = kernel_waiters + 1
          /\ LockTake(Kernel, user_waiters + kernel_waiters + 1)
          /\ idle_has_lock' = ~held
          /\ Goto(f, "release")
     ELSE /\ Goto(f, "closing")
          /\ UNCHANGED <<word, kernel_waiters, idle_has_lock>>
  /\ UNCHANGED <<world, minor_master, hw_lock, lock_file, lock_count, user_waiters>>

\* Faulty variant of IdleRelease: the lock is freed whoever has it.
IdleReleaseAlways(f) ==
  /\ th[f] = "release"
  /\ kernel_waiters' = 0
  /\ Word(FALSE, Kernel, FALSE)
  /\ th' = [Woken EXCEPT ![f] = "closing"]
  /\ idle_has_lock' = FALSE
  /\ UNCHANGED <<world, global_mutex, minor_master, open, hw_lock, lock_file, lock_count,
                 user_waiters>>

\* drm_legacy_idlelock_release()
IdleRelease(f) ==
  /\ th[f] = "release"
  /\ kernel_waiters' = kernel_waiters - 1
  /\ IF kernel_waiters = 1 /\ idle_has_lock
     THEN /\ Word(FALSE, Kernel, FALSE)
          /\ th' = [Woken EXCEPT ![f] = "closing"]
          /\ idle_has_lock' = FALSE
     ELSE /\ Goto(f, "closing")
          /\ UNCHANGED <<word, idle_has_lock>>
  /\ UNCHANGED <<world, global_mutex, minor_master, open, hw_lock, lock_file, lock_count,
                 user_waiters>>

\* drm_legacy_i_have_hw_lock()
HasHwLock(f) == lock_count[f] /\ hw_lock /\ held /\ lock_file = f

\* drm_master_release() of a holder, if the minor still has a master.
CloseMaster(f) ==
  /\ th[f] = "closing" /\ global_mutex = f
  /\ IF minor_master /\ HasHwLock(f)
     THEN LockFree([th EXCEPT ![f] = "closed"])
     ELSE Goto(f, "closed") /\ UNCHANGED <<word, lock_file, idle_has_lock>>
  /\ IF f # Master THEN global_mutex' = None ELSE UNCHANGED global_mutex
  /\ UNCHANGED <<world, minor_master, open, hw_lock, lock_count, user_waiters,
                 kernel_waiters>>

\* Faulty variant of CloseLast: the waiters are left asleep.
CloseLastQuiet ==
  /\ th[Master] = "closed" /\ global_mutex = Master
  /\ global_mutex' = None
  /\ hw_lock' = IF minor_master THEN FALSE ELSE hw_lock
  /\ minor_master' = FALSE
  /\ UNCHANGED <<world, open, word, lock_file, lock_count, user_waiters, kernel_waiters,
                 idle_has_lock, th>>

\* The rest of drm_release(): the file that is_master takes the lock with it.
CloseLast ==
  /\ th[Master] = "closed" /\ global_mutex = Master
  /\ global_mutex' = None
  /\ IF minor_master
     THEN /\ hw_lock' = FALSE
          /\ lock_file' = None
          /\ th' = Woken
          /\ minor_master' = FALSE
     ELSE UNCHANGED <<hw_lock, lock_file, th, minor_master>>
  /\ UNCHANGED <<world, open, word, lock_count, user_waiters, kernel_waiters,
                 idle_has_lock>>

------------------------------------------------------------------------------

Kernels(f) == Lock(f) \/ Interrupted(f) \/ CloseBegin(f) \/ IdleRelease(f) \/ CloseMaster(f)
Leave(f) == FastUnlock(f) \/ Unlock(f)

Next ==
  \/ \E f \in Files : FastLock(f) \/ Leave(f) \/ Kernels(f)
  \/ DropMaster \/ SetMaster \/ CloseLast

Spec == Init /\ [][Next]_vars

\* A holder unlocks or dies, a close that has begun ends.
Fairness ==
  /\ \A f \in Files : SF_vars(Leave(f)) /\ WF_vars(IdleRelease(f) \/ CloseMaster(f))
  /\ WF_vars(CloseLast)

FairSpec == Spec /\ Fairness

------------------------------------------------------------------------------
(* Properties. *)

\* The lock excludes: one client at most is inside, and none while the kernel has
\* the idle lock, though clients take and free the lock without the kernel.
LockExcludes ==
  hw_lock =>
    /\ \A f, g \in Files : th[f] = "inside" /\ th[g] = "inside" => f = g
    /\ idle_has_lock => \A f \in Files : th[f] # "inside"

\* Who can take the lock without the kernel, or has it, is the file the kernel has
\* recorded, so that drm_release() finds the lock of a client that died.
HolderRecorded == hw_lock /\ ctx # Kernel => lock_file = ctx

\* A client sleeps only while an open file or the kernel has the lock and the
\* contended flag brings its holder to the kernel to wake the sleepers.  (When no
\* master is set drm_release() leaves the lock of the file alone.)
NoLostWakeup ==
  ~world.drop =>
    \A f \in Files : th[f] = "asleep" =>
      \/ /\ held
         /\ idle_has_lock \/ (cont /\ (ctx \in open \/ global_mutex = ctx))
      \/ global_mutex = Master

\* The lock has one holder, which the kernel knows, and nobody misses its release.
HardwareLock == TypeOK /\ LockExcludes /\ HolderRecorded /\ NoLostWakeup

\* A client does not sleep in drm_legacy_lock().
Awake(f) == ~world.drop => th[f] # "asleep"

\* Nobody sleeps for ever: the holder unlocks or its file is closed.
SleepersWake == \A f \in Files : []<>Awake(f)

==============================================================================

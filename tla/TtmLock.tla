------------------------------- MODULE TtmLock -------------------------------
(***************************************************************************)
(* The TTM lock of ttm/ttm_lock.c: one word `rw' (readers, or -1 for a     *)
(* writer), a set of flags (three "pending" bits, two "held" bits) and a   *)
(* wait queue, all guarded by one spinlock.  Every critical section of     *)
(* that spinlock is one action here; between two critical sections the     *)
(* calling thread may be preempted, put to sleep or sent a signal.         *)
(*                                                                         *)
(* A thread is in one of these places:                                     *)
(*   idle        outside the lock's functions                              *)
(*   ready       about to evaluate the condition of its wait_event loop    *)
(*   asleep      on the wait queue                                         *)
(*   interrupted left the loop with -ERESTARTSYS, cleanup still to come    *)
(*   register    owns TTM_VT_LOCK, ttm_base_object_init() not yet called   *)
(*   holds       returned 0 to its caller                                  *)
(***************************************************************************)
EXTENDS Integers, FiniteSets

CONSTANTS
  Threads,      \* the threads that use this lock
  Calls,        \* the calls <<operation, interruptible>> its users make
  KillAllowed   \* whether its users call ttm_lock_set_kill()

Ops == {"read", "tryread", "write", "vt", "suspend"}

\* ttm_suspend_lock() has no interruptible variant.  Users that arm the
\* kill switch only make interruptible calls: the switch wakes nobody, so an
\* uninterruptible taker would sleep on it.
ASSUME CallsAssumption ==
  /\ IsFiniteSet(Threads)
  /\ Calls \subseteq (Ops \X BOOLEAN) \ {<<"suspend", TRUE>>}
  /\ KillAllowed \in BOOLEAN
  /\ KillAllowed => \A c \in Calls : c[1] \in {"vt", "suspend"} \/ c[2]

WritePending   == "WRITE_LOCK_PENDING"
VtPending      == "VT_LOCK_PENDING"
SuspendPending == "SUSPEND_LOCK_PENDING"
VtLock         == "VT_LOCK"
SuspendLock    == "SUSPEND_LOCK"

Flags == {WritePending, VtPending, SuspendPending, VtLock, SuspendLock}

VARIABLES
  rw,           \* lock->rw
  flags,        \* lock->flags
  kill_takers,  \* lock->kill_takers
  call,         \* the call each thread is making
  pc,           \* where it is
  sig           \* the threads with a signal pending

vars == <<rw, flags, kill_takers, call, pc, sig>>

NoCall == <<"none", FALSE>>

op(t) == call[t][1]
interruptible(t) == call[t][2]

TypeOK ==
  /\ rw \in Nat \cup {-1}
  /\ flags \in SUBSET Flags
  /\ kill_takers \in BOOLEAN
  /\ call \in [Threads -> Calls \cup {NoCall}]
  /\ pc \in [Threads ->
               {"idle", "ready", "asleep", "interrupted", "register", "holds"}]
  /\ sig \in SUBSET Threads

Init ==
  /\ rw = 0
  /\ flags = {}
  /\ kill_takers = FALSE
  /\ call = [t \in Threads |-> NoCall]
  /\ pc = [t \in Threads |-> "idle"]
  /\ sig = {}

------------------------------------------------------------------------------
(* The wait queue. *)

\* wake_up_all(): every sleeper goes round its loop again.
WokenPc == [u \in Threads |-> IF pc[u] = "asleep" THEN "ready" ELSE pc[u]]

Goto(t, place) == pc' = [pc EXCEPT ![t] = place]
WakeAllAndGoto(t, place) == pc' = [WokenPc EXCEPT ![t] = place]

\* Faulty variant of Blocked: the wait ignores signals.
BlockedIgnoringSignals(t) == Goto(t, "asleep")

\* The condition was false.  prepare_to_wait_event() sampled signal_pending()
\* before the condition was evaluated: a signal seen then ends an
\* interruptible wait, anything later only keeps it from sleeping for long.
Blocked(t) ==
  Goto(t, IF interruptible(t) /\ t \in sig THEN "interrupted" ELSE "asleep")

\* Back to the caller's caller; a pending signal is delivered on the way.
Return(t) ==
  /\ call' = [call EXCEPT ![t] = NoCall]
  /\ sig' = sig \ {t}

\* lock->kill_takers: the would-be taker is sent lock->signal.
Kill(t) ==
  /\ kill_takers
  /\ sig' = sig \cup {t}
  /\ Blocked(t)
  /\ UNCHANGED <<rw, flags, kill_takers, call>>

------------------------------------------------------------------------------
(* The conditions the wait_event loops evaluate. *)

\* Faulty variant: a writer that looks at the flags only.
CanWriteBesideReaders == rw >= 0 /\ flags \ {WritePending} = {}

CanRead == rw >= 0 /\ flags = {}
CanWrite == rw = 0 /\ flags \ {WritePending} = {}
CanVt == rw = 0
CanSuspend == rw = 0

\* __ttm_read_lock()
ReadLock(t) ==
  \/ Kill(t)
  \/ /\ ~kill_takers
     /\ CanRead
     /\ rw' = rw + 1
     /\ Goto(t, "holds")
     /\ UNCHANGED <<flags, kill_takers, call, sig>>
  \/ /\ ~kill_takers
     /\ ~CanRead
     /\ Blocked(t)
     /\ UNCHANGED <<rw, flags, kill_takers, call, sig>>

\* __ttm_read_trylock(): with no flag set a writer makes it fail (-EBUSY)
\* instead of sleep.
ReadTrylock(t) ==
  \/ Kill(t)
  \/ /\ ~kill_takers
     /\ CanRead
     /\ rw' = rw + 1
     /\ Goto(t, "holds")
     /\ UNCHANGED <<flags, kill_takers, call, sig>>
  \/ /\ ~kill_takers
     /\ rw < 0
     /\ flags = {}
     /\ Goto(t, "idle")
     /\ Return(t)
     /\ UNCHANGED <<rw, flags, kill_takers>>
  \/ /\ ~kill_takers
     /\ flags # {}
     /\ Blocked(t)
     /\ UNCHANGED <<rw, flags, kill_takers, call, sig>>

\* __ttm_write_lock()
WriteLock(t) ==
  \/ Kill(t)
  \/ /\ ~kill_takers
     /\ CanWrite
     /\ rw' = -1
     /\ flags' = flags \ {WritePending}
     /\ Goto(t, "holds")
     /\ UNCHANGED <<kill_takers, call, sig>>
  \/ /\ ~kill_takers
     /\ ~CanWrite
     /\ flags' = flags \cup {WritePending}
     /\ Blocked(t)
     /\ UNCHANGED <<rw, kill_takers, call, sig>>

\* __ttm_vt_lock(): neither the kill switch nor any other flag stops it.
VtTake(t) ==
  \/ /\ CanVt
     /\ flags' = (flags \ {VtPending}) \cup {VtLock}
     /\ Goto(t, "register")
     /\ UNCHANGED <<rw, kill_takers, call, sig>>
  \/ /\ ~CanVt
     /\ flags' = flags \cup {VtPending}
     /\ Blocked(t)
     /\ UNCHANGED <<rw, kill_takers, call, sig>>

\* Faulty variant of SuspendTake: waits without announcing itself.
SuspendTakeUnannounced(t) ==
  \/ /\ CanSuspend
     /\ flags' = flags \cup {SuspendLock}
     /\ Goto(t, "holds")
     /\ UNCHANGED <<rw, kill_takers, call, sig>>
  \/ /\ ~CanSuspend
     /\ Blocked(t)
     /\ UNCHANGED <<rw, flags, kill_takers, call, sig>>

\* __ttm_suspend_lock()
SuspendTake(t) ==
  \/ /\ CanSuspend
     /\ flags' = (flags \ {SuspendPending}) \cup {SuspendLock}
     /\ Goto(t, "holds")
     /\ UNCHANGED <<rw, kill_takers, call, sig>>
  \/ /\ ~CanSuspend
     /\ flags' = flags \cup {SuspendPending}
     /\ Blocked(t)
     /\ UNCHANGED <<rw, kill_takers, call, sig>>

------------------------------------------------------------------------------
(* The operations. *)

\* A call begins.  ttm_vt_lock() is only called under dev->master_mutex and
\* ttm_suspend_lock() only from the PM notifier chain, so of each kind at most
\* one call is under way or successful at a time.
Begin(t) ==
  /\ pc[t] = "idle"
  /\ \E c \in Calls :
       /\ c[1] \in {"vt", "suspend"} => \A u \in Threads : op(u) # c[1]
       /\ call' = [call EXCEPT ![t] = c]
  /\ Goto(t, "ready")
  /\ UNCHANGED <<rw, flags, kill_takers, sig>>

\* One evaluation of the wait_event condition.  The uninterruptible branch of
\* ttm_write_lock() waits for __ttm_read_lock(), not __ttm_write_lock().
Attempt(t) ==
  /\ pc[t] = "ready"
  /\ \/ op(t) = "read" /\ ReadLock(t)
     \/ op(t) = "tryread" /\ ReadTrylock(t)
     \/ op(t) = "write" /\ interruptible(t) /\ WriteLock(t)
     \/ op(t) = "write" /\ ~interruptible(t) /\ ReadLock(t)
     \/ op(t) = "vt" /\ VtTake(t)
     \/ op(t) = "suspend" /\ SuspendTake(t)

\* A pending signal takes an interruptible sleeper off the queue.
SignalWake(t) ==
  /\ pc[t] = "asleep"
  /\ interruptible(t)
  /\ t \in sig
  /\ Goto(t, "ready")
  /\ UNCHANGED <<rw, flags, kill_takers, call, sig>>

\* Faulty variant of Interrupted: the pending bit stays behind.
InterruptedNoCleanup(t) ==
  /\ pc[t] = "interrupted"
  /\ Goto(t, "idle")
  /\ Return(t)
  /\ UNCHANGED <<rw, flags, kill_takers>>

\* The -ERESTARTSYS returns.  ttm_write_lock() and ttm_vt_lock() first take
\* back the pending bit, whoever else may have set it too, and wake everybody.
Interrupted(t) ==
  /\ pc[t] = "interrupted"
  /\ CASE op(t) = "write" -> /\ flags' = flags \ {WritePending}
                             /\ WakeAllAndGoto(t, "idle")
       [] op(t) = "vt"    -> /\ flags' = flags \ {VtPending}
                             /\ WakeAllAndGoto(t, "idle")
       [] OTHER           -> /\ UNCHANGED flags
                             /\ Goto(t, "idle")
  /\ Return(t)
  /\ UNCHANGED <<rw, kill_takers>>

\* Faulty variant of VtRegister: the error path keeps TTM_VT_LOCK.
VtRegisterNoUnlock(t) ==
  /\ pc[t] = "register"
  /\ \/ /\ Goto(t, "holds")
        /\ UNCHANGED <<call, sig>>
     \/ /\ WakeAllAndGoto(t, "idle")
        /\ Return(t)
  /\ UNCHANGED <<rw, flags, kill_takers>>

\* ttm_vt_lock() after the wait: ttm_base_object_init() ties the lock to the
\* client's file, or fails and the lock is given back.
VtRegister(t) ==
  /\ pc[t] = "register"
  /\ \/ /\ Goto(t, "holds")
        /\ UNCHANGED <<flags, call, sig>>
     \/ /\ flags' = flags \ {VtLock}
        /\ WakeAllAndGoto(t, "idle")
        /\ Return(t)
  /\ UNCHANGED <<rw, kill_takers>>

\* Faulty variants: a last reader that wakes nobody, a reader that stores 0, a writer
\* that decrements.
ReadUnlockNoWake(t) ==
  /\ rw' = rw - 1
  /\ Goto(t, "idle")
  /\ UNCHANGED flags

ReadUnlockStoresZero(t) ==
  /\ rw' = 0
  /\ WakeAllAndGoto(t, "idle")
  /\ UNCHANGED flags

WriteUnlockDecrement(t) ==
  /\ rw' = rw - 1
  /\ WakeAllAndGoto(t, "idle")
  /\ UNCHANGED flags

\* ttm_read_unlock(): only the last reader out wakes the queue.
ReadUnlock(t) ==
  /\ rw' = rw - 1
  /\ IF rw' = 0 THEN WakeAllAndGoto(t, "idle") ELSE Goto(t, "idle")
  /\ UNCHANGED flags

\* ttm_write_unlock()
WriteUnlock(t) ==
  /\ rw' = 0
  /\ WakeAllAndGoto(t, "idle")
  /\ UNCHANGED flags

\* ttm_vt_unlock(), or the release of the client's file: the last reference
\* on the base object runs ttm_vt_lock_remove().
VtUnlock(t) ==
  /\ flags' = flags \ {VtLock}
  /\ WakeAllAndGoto(t, "idle")
  /\ UNCHANGED rw

\* ttm_suspend_unlock()
SuspendUnlock(t) ==
  /\ flags' = flags \ {SuspendLock}
  /\ WakeAllAndGoto(t, "idle")
  /\ UNCHANGED rw

Unlock(t) ==
  /\ pc[t] = "holds"
  /\ \/ op(t) \in {"read", "tryread"} /\ ReadUnlock(t)
     \/ op(t) = "write" /\ WriteUnlock(t)
     \/ op(t) = "vt" /\ VtUnlock(t)
     \/ op(t) = "suspend" /\ SuspendUnlock(t)
  /\ Return(t)
  /\ UNCHANGED kill_takers

\* ttm_lock_set_kill(), an inline of ttm_lock.h: sets the field, wakes nobody.
SetKill ==
  /\ KillAllowed
  /\ kill_takers' = ~kill_takers
  /\ UNCHANGED <<rw, flags, call, pc, sig>>

\* Anything else may send a thread inside the lock's functions a signal.
Signal(t) ==
  /\ pc[t] \in {"ready", "asleep"}
  /\ interruptible(t)
  /\ sig' = sig \cup {t}
  /\ UNCHANGED <<rw, flags, kill_takers, call, pc>>

Progress(t) == Attempt(t) \/ SignalWake(t) \/ Interrupted(t) \/ VtRegister(t)

Next ==
  \/ \E t \in Threads : Begin(t) \/ Progress(t) \/ Unlock(t) \/ Signal(t)
  \/ SetKill

Spec == Init /\ [][Next]_vars

\* A runnable thread is scheduled, and every holder gives the lock back.
Fairness == \A t \in Threads : WF_vars(Progress(t)) /\ WF_vars(Unlock(t))

FairSpec == Spec /\ Fairness

------------------------------------------------------------------------------
(* Properties. *)

Holds(t, o) == pc[t] = "holds" /\ op(t) = o
Reads(t) == Holds(t, "read") \/ Holds(t, "tryread")
Writes(t) == Holds(t, "write")
OwnsVt(t) == op(t) = "vt" /\ pc[t] \in {"register", "holds"}
Suspends(t) == Holds(t, "suspend")

\* ttm_write_lock() takes the lock "in write mode" (vmwgfx_dmabuf.c): while a
\* writer holds it no other thread reads or writes.
WriterExcludes ==
  \A t, u \in Threads : t # u /\ Writes(t) => ~Reads(u) /\ ~Writes(u)

\* The VT lock and the suspend lock keep out readers and writers, although
\* both are taken whatever flags are set: rw and flags have to agree.
ModesExclude ==
  \A t, u \in Threads : OwnsVt(t) \/ Suspends(t) => ~Reads(u) /\ ~Writes(u)

\* The mode a thread is inside in.  A VT lock counts from the moment TTM_VT_LOCK is
\* set, before ttm_vt_lock() has returned.
modes ==
  [t \in Threads |-> CASE Reads(t) -> "read"
                       [] Writes(t) -> "write"
                       [] OwnsVt(t) -> "vt"
                       [] Suspends(t) -> "suspend"
                       [] OTHER -> "none"]

Promise == INSTANCE LockModes WITH mode <- modes

\* Where every write lock is interruptible, the counter, the flags and the queue of
\* ttm_lock.c implement the four modes its users rely on: no thread is let in beside
\* one it is not compatible with, whatever signals and the kill switch do.
Implements == Promise!Spec

\* rw counts the readers, or is -1 for the writer: ttm_write_unlock() storing
\* 0 and ttm_read_unlock() decrementing never disagree about who is inside.
RwCounts ==
  \/ /\ rw = Cardinality({t \in Threads : Reads(t)})
     /\ \A t \in Threads : ~Writes(t)
  \/ /\ rw = -1
     /\ \A t \in Threads : ~Reads(t)
     /\ \E t \in Threads : Writes(t)

\* A pending bit stops every new reader, so it may only be set while the
\* thread it was set for is still in its wait loop: an interrupted or granted
\* taker never leaves one behind.
PendingHasOwner ==
  \A f \in {<<WritePending, "write">>, <<VtPending, "vt">>,
            <<SuspendPending, "suspend">>} :
    f[1] \in flags =>
      \E t \in Threads :
        op(t) = f[2] /\ pc[t] \in {"ready", "asleep", "interrupted"}

\* BUG_ON(ret != 0) in ttm_vt_lock_remove() never fires, and the two "held"
\* bits are set exactly while somebody owns them.
HeldBitsHaveOwner ==
  /\ VtLock \in flags <=> \E t \in Threads : OwnsVt(t)
  /\ SuspendLock \in flags <=> \E t \in Threads : Suspends(t)

\* rw and the flags say exactly who is inside and who waits to get in.
OwnersExact == TypeOK /\ RwCounts /\ PendingHasOwner /\ HeldBitsHaveOwner

Grantable(t) ==
  \/ op(t) \in {"read", "tryread"} /\ CanRead
  \/ op(t) = "write" /\ interruptible(t) /\ CanWrite
  \/ op(t) = "write" /\ ~interruptible(t) /\ CanRead
  \/ op(t) = "vt" /\ CanVt
  \/ op(t) = "suspend" /\ CanSuspend

\* No lost wakeup: a thread sleeps only while the condition it waits for is
\* false, unless a signal is about to take it off the queue.  Not every change
\* of rw or flags calls wake_up_all(); the ones that matter must.
NoLostWakeup ==
  \A t \in Threads :
    pc[t] = "asleep" /\ Grantable(t) => interruptible(t) /\ t \in sig

\* ttm_suspend_lock(): the pending bit stops new readers and writers, so the
\* suspend is granted once the current ones have left.
SuspendGranted ==
  \A t \in Threads : op(t) = "suspend" ~> Suspends(t)

\* A thread killed or interrupted inside an interruptible wait gets out of it,
\* with the lock or without.
InterruptibleReturns ==
  \A t \in Threads :
    pc[t] = "asleep" /\ interruptible(t) /\ t \in sig ~>
      pc[t] \in {"idle", "register", "holds"}
==============================================================================

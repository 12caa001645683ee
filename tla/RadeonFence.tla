----------------------------- MODULE RadeonFence -----------------------------
(***************************************************************************)
(* The fences of one ring of radeon_fence.c, with the lockup work and      *)
(* radeon_gpu_reset().  The GPU writes the low bits of a sequence number;  *)
(* radeon_fence_activity() extends it and publishes it in last_seq without *)
(* a lock, from the interrupt, the lockup work and every waiter at once.   *)
(*                                                                         *)
(* Places of a thread:                                                     *)
(*   idle                                                                  *)
(*   read, xchg, wake                 radeon_fence_activity()              *)
(*   asked, prepare, test, sleep, finish     radeon_fence_wait()           *)
(*   enable, arm, look, doze          radeon_fence_default_wait()          *)
(*   lockup                           radeon_fence_check_lockup()          *)
(*   reset, restore, tests            radeon_gpu_reset()                   *)
(***************************************************************************)
EXTENDS Integers, FiniteSets

CONSTANTS
  Waiters, Irq, Work,   \* the threads
  Word,      \* the GPU writes sequence numbers modulo Word, 2^32 in the code
  First,     \* fences emitted and completed before
  MaxSeq,    \* a bound on the fences emitted
  MaxLoops,  \* 10 in the code
  MaxHangs,  \* bound on the times the GPU hangs
  Worlds,    \* who makes which calls, what may go wrong, the last fence emitted
  None

Threads == Waiters \cup {Irq, Work}
Seqs == First .. MaxSeq

VARIABLES
  world,
  sync_seq,    \* emitted
  emitting,    \* where radeon_fence_emit() is
  gpu,         \* [hw, done, state, hangs]: the value written, and the truth
  last_seq,
  pending,     \* [irq, work]: raised and not yet handled
  signaled,    \* fences with FENCE_FLAG_SIGNALED_BIT
  enabled,     \* with FENCE_FLAG_ENABLE_SIGNAL_BIT
  armed,       \* fences whose callback is in fence_queue
  ring_int,    \* users of the software interrupt
  needs_reset,
  lock,        \* [writer, readers] of exclusive_lock
  qlock,       \* the holder of the lock of fence_queue
  awake,       \* threads woken since they prepared to sleep
  th           \* place and local variables of each thread

ring == <<sync_seq, emitting>>
fences == <<signaled, enabled, armed, ring_int>>
sync == <<needs_reset, lock, qlock>>
vars == <<world, ring, gpu, last_seq, pending, fences, sync, awake, th>>

Idle == [pc |-> "idle", seq |-> First, last |-> MaxSeq, emitted |-> First,
         wake |-> FALSE, loops |-> 0, back |-> "idle"]

TypeOK ==
  /\ world \in Worlds /\ {sync_seq, last_seq, gpu.done} \subseteq Seqs
  /\ emitting \in {"no", "ring", "check"}
  /\ gpu.state \in {"ok", "hung", "dead"} /\ gpu.hw \in 0 .. Word - 1
  /\ signaled \cup enabled \cup armed \subseteq Seqs
  /\ ring_int \in Nat /\ awake \subseteq Waiters
  /\ lock.writer \in Waiters \cup {None} /\ lock.readers \subseteq Threads
  /\ qlock \in Threads \cup {None}

Init ==
  /\ world \in Worlds
  /\ sync_seq = First /\ emitting = "no" /\ last_seq = First
  /\ gpu = [hw |-> First % Word, done |-> First, state |-> "ok", hangs |-> 0]
  /\ pending = [irq |-> FALSE, work |-> FALSE]
  /\ signaled = {} /\ enabled = {} /\ armed = {} /\ ring_int = 0
  /\ needs_reset = FALSE /\ lock = [writer |-> None, readers |-> {}] /\ qlock = None
  /\ awake = {} /\ th = [t \in Threads |-> Idle]

MayFail(what) == what \in world.fail
At(t, pc) == th[t].pc = pc
Goto(t, pc) == th' = [th EXCEPT ![t].pc = pc]
Passed(t) == last_seq >= th[t].seq

\* Enter radeon_fence_activity(), with its first two reads, and go on at `back' after it.
Poll(t, back) ==
  th' = [th EXCEPT ![t] = [@ EXCEPT !.pc = "read", !.last = last_seq,
                                    !.emitted = sync_seq, !.back = back]]

\* down_read_trylock(), up_read()
ReadLockable == lock.writer = None
ReadLock(t) == lock' = [lock EXCEPT !.readers = @ \cup {t}]
ReadUnlock(t) == lock' = [lock EXCEPT !.readers = @ \ {t}]

ScheduleCheck == pending' = [pending EXCEPT !.work = TRUE]

------------------------------------------------------------------------------
(* The ring and the GPU. *)

\* radeon_fence_emit(): the number is taken, then the fence put on the ring, then the
\* lockup check scheduled.  Less than Word fences are under way, and less than Word
\* are emitted between two steps of a poll.
EmitBegin ==
  /\ emitting = "no" /\ sync_seq < world.last /\ gpu.state # "dead"
  /\ lock.writer = None
  /\ \A t \in Threads : sync_seq + 1 - th[t].last < Word
  /\ sync_seq + 1 - last_seq < Word
  /\ sync_seq' = sync_seq + 1
  /\ emitting' = "ring"
  /\ UNCHANGED <<world, gpu, last_seq, pending, fences, sync, awake, th>>

EmitRing ==
  /\ emitting = "ring"
  /\ emitting' = "check"
  /\ UNCHANGED <<world, sync_seq, gpu, last_seq, pending, fences, sync, awake, th>>

EmitCheck ==
  /\ emitting = "check"
  /\ emitting' = "no" /\ ScheduleCheck
  /\ UNCHANGED <<world, sync_seq, gpu, last_seq, fences, sync, awake, th>>

\* The last fence on the ring.
OnRing == IF emitting = "ring" THEN sync_seq - 1 ELSE sync_seq

\* The GPU passes the next fence and raises an interrupt, which may be lost.
Complete ==
  /\ gpu.state = "ok" /\ gpu.done < OnRing
  /\ gpu' = [gpu EXCEPT !.done = @ + 1, !.hw = (gpu.done + 1) % Word]
  /\ \/ pending' = [pending EXCEPT !.irq = @ \/ ring_int > 0]
     \/ MayFail("irq") /\ UNCHANGED pending
  /\ UNCHANGED <<world, ring, last_seq, fences, sync, awake, th>>

Hang ==
  /\ MayFail("hang") /\ gpu.state = "ok" /\ gpu.done < OnRing /\ gpu.hangs < MaxHangs
  /\ gpu' = [gpu EXCEPT !.state = "hung", !.hangs = @ + 1]
  /\ UNCHANGED <<world, ring, last_seq, pending, fences, sync, awake, th>>

------------------------------------------------------------------------------
(* radeon_fence_activity() *)

\* Faulty variant: the upper bits are always those of last_seq.
ExtendLast(value, last, emitted) == last - (last % Word) + value

\* The upper bits come from last_seq, or from the last fence emitted when the lower
\* ones have wrapped around.
Extend(value, last, emitted) ==
  LET seq == last - (last % Word) + value
  IN IF seq < last THEN emitted - (emitted % Word) + value ELSE seq

Return(t, place) ==
  th' = [th EXCEPT ![t] = [Idle EXCEPT !.pc = place, !.seq = th[t].seq]]

\* After the loop: the lockup check is scheduled if fences are left, and sleepers are
\* woken if there was activity.
\* Faulty variant: it is scheduled by radeon_fence_emit() alone.
LeaveUnscheduled(t, seq, wake) ==
  /\ UNCHANGED pending
  /\ IF wake THEN Goto(t, "wake") ELSE Return(t, IF t = Work THEN "lockup" ELSE th[t].back)

Leave(t, seq, wake) ==
  /\ IF seq < th[t].emitted THEN ScheduleCheck ELSE UNCHANGED pending
  /\ IF wake THEN Goto(t, "wake") ELSE Return(t, IF t = Work THEN "lockup" ELSE th[t].back)

\* The loop up to the exchange.
ReadFence(t) ==
  LET l == th[t]
      seq == Extend(gpu.hw, l.last, l.emitted)
  IN
  /\ At(t, "read")
  /\ \/ /\ seq <= l.last \/ seq > l.emitted
        /\ Leave(t, seq, l.wake)
     \/ /\ l.last < seq /\ seq <= l.emitted
        /\ IF l.loops > MaxLoops THEN Leave(t, seq, TRUE)
           ELSE /\ th' = [th EXCEPT ![t] = [l EXCEPT !.last = seq, !.wake = TRUE,
                                                    !.loops = @ + 1, !.pc = "xchg"]]
                /\ UNCHANGED pending
  /\ UNCHANGED <<world, ring, gpu, last_seq, fences, sync, awake>>

\* Faulty variant of Again: an older number is left in place of a newer one.
AgainNever(old, seq) == FALSE

\* Somebody else has published a newer number, which is gone now.
Again(old, seq) == old > seq

\* The exchange, and the next round of the loop.
Xchg(t) ==
  /\ At(t, "xchg")
  /\ last_seq' = th[t].last
  /\ IF Again(last_seq, th[t].last)
     THEN /\ th' = [th EXCEPT ![t].emitted = sync_seq, ![t].pc = "read"]
          /\ UNCHANGED pending
     ELSE Leave(t, th[t].last, TRUE)
  /\ UNCHANGED <<world, ring, gpu, fences, sync, awake>>

\* wake_up_all(): sleepers wake, and radeon_fence_check_signaled() is called for each
\* fence in the queue.
WakeAll ==
  LET passed == {s \in armed : last_seq >= s} IN
  /\ awake' = Waiters
  /\ signaled' = signaled \cup passed
  /\ armed' = armed \ passed
  /\ ring_int' = ring_int - Cardinality(passed)

Wake(t) ==
  /\ At(t, "wake") /\ qlock \in {None, t}
  /\ WakeAll
  /\ Return(t, th[t].back)
  /\ UNCHANGED <<world, ring, gpu, last_seq, pending, enabled, sync>>

------------------------------------------------------------------------------
(* The interrupt and the lockup work. *)

Interrupt ==
  /\ At(Irq, "idle") /\ pending.irq
  /\ pending' = [pending EXCEPT !.irq = FALSE]
  /\ Poll(Irq, "idle")
  /\ UNCHANGED <<world, ring, gpu, last_seq, fences, sync, awake>>

\* radeon_fence_check_lockup(), which is scheduled again while there is a reset
CheckLockup ==
  /\ At(Work, "idle") /\ pending.work /\ ReadLockable
  /\ ReadLock(Work)
  /\ pending' = [pending EXCEPT !.work = FALSE]
  /\ Poll(Work, "up")
  /\ UNCHANGED <<world, ring, gpu, last_seq, fences, needs_reset, qlock, awake>>

\* Faulty variant: the sleepers are not told of the lockup.
LockupSilent ==
  /\ At(Work, "lockup")
  /\ needs_reset' = (needs_reset \/ gpu.state = "hung")
  /\ ReadUnlock(Work)
  /\ th' = [th EXCEPT ![Work] = Idle]
  /\ UNCHANGED <<world, ring, gpu, last_seq, pending, fences, qlock, awake>>

\* ... without activity
Lockup ==
  /\ At(Work, "lockup")
  /\ IF gpu.state = "hung"
     THEN /\ qlock = None /\ needs_reset' = TRUE
          /\ WakeAll /\ UNCHANGED enabled
     ELSE UNCHANGED <<needs_reset, fences, awake>>
  /\ ReadUnlock(Work)
  /\ th' = [th EXCEPT ![Work] = Idle]
  /\ UNCHANGED <<world, ring, gpu, last_seq, pending, qlock>>

\* ... after some
Checked ==
  /\ At(Work, "up")
  /\ ReadUnlock(Work)
  /\ th' = [th EXCEPT ![Work] = Idle]
  /\ UNCHANGED <<world, ring, gpu, last_seq, pending, fences, needs_reset, qlock, awake>>

------------------------------------------------------------------------------
(* radeon_fence_wait(), called with exclusive_lock held. *)

Emitted == First + 1 .. OnRing

\* fence_signal() and the return of the caller.
Succeed(t) ==
  /\ signaled' = signaled \cup {th[t].seq}
  /\ ReadUnlock(t)
  /\ th' = [th EXCEPT ![t] = Idle]

\* radeon_fence_seq_signaled() looks at last_seq, and polls ...
Wait(t) ==
  /\ At(t, "idle") /\ t \in world.waiters /\ "wait" \in world.ops
  /\ ReadLockable /\ ReadLock(t)
  /\ \E s \in Emitted \ signaled :
       th' = [th EXCEPT ![t] =
                IF last_seq >= s THEN [Idle EXCEPT !.pc = "asked", !.seq = s]
                ELSE [Idle EXCEPT !.pc = "read", !.seq = s, !.last = last_seq,
                                  !.emitted = sync_seq, !.back = "asked"]]
  /\ UNCHANGED <<world, ring, gpu, last_seq, pending, fences, needs_reset, qlock, awake>>

\* ... and radeon_irq_kms_sw_irq_get()
Asked(t) ==
  /\ At(t, "asked")
  /\ IF Passed(t) THEN Succeed(t) /\ UNCHANGED ring_int
     ELSE ring_int' = ring_int + 1 /\ Goto(t, "prepare") /\ UNCHANGED <<signaled, lock>>
  /\ UNCHANGED <<world, ring, gpu, last_seq, pending, enabled, armed, needs_reset, qlock,
                 awake>>

\* wait_event_timeout(): prepare_to_wait() before the condition, which polls.
Prepare(t) ==
  /\ At(t, "prepare")
  /\ awake' = awake \ {t}
  /\ IF Passed(t) THEN Goto(t, "finish") ELSE Poll(t, "test")
  /\ UNCHANGED <<world, ring, gpu, last_seq, pending, fences, sync>>

Test(t) ==
  /\ At(t, "test")
  /\ Goto(t, IF Passed(t) \/ needs_reset THEN "finish" ELSE "sleep")
  /\ UNCHANGED <<world, ring, gpu, last_seq, pending, fences, sync, awake>>

Sleep(t) ==
  /\ At(t, "sleep") /\ t \in awake
  /\ Goto(t, "prepare")
  /\ UNCHANGED <<world, ring, gpu, last_seq, pending, fences, sync, awake>>

\* Faulty variant: the lockup is not looked at after the wait.
FinishBlind(t) ==
  /\ At(t, "finish")
  /\ ring_int' = ring_int - 1
  /\ Succeed(t)
  /\ UNCHANGED <<world, ring, gpu, last_seq, pending, enabled, armed, needs_reset, qlock,
                 awake>>

\* -EDEADLK if there was a lockup: the caller resets the GPU.
Finish(t) ==
  /\ At(t, "finish")
  /\ ring_int' = ring_int - 1
  /\ IF needs_reset
     THEN ReadUnlock(t) /\ Goto(t, "reset") /\ UNCHANGED signaled
     ELSE Succeed(t)
  /\ UNCHANGED <<world, ring, gpu, last_seq, pending, enabled, armed, needs_reset, qlock,
                 awake>>

------------------------------------------------------------------------------
(* fence_wait(), that is radeon_fence_default_wait(), without exclusive_lock. *)

FenceWait(t) ==
  /\ At(t, "idle") /\ t \in world.waiters /\ "fence_wait" \in world.ops
  /\ \E s \in Emitted \ signaled :
       th' = [th EXCEPT ![t] =
                [Idle EXCEPT !.pc = IF s \in enabled THEN "look" ELSE "enable", !.seq = s]]
  /\ UNCHANGED <<world, ring, gpu, last_seq, pending, fences, sync, awake>>

\* radeon_fence_enable_signaling(), under the lock of the queue
Enable(t) ==
  LET s == th[t].seq IN
  /\ At(t, "enable") /\ qlock = None
  /\ \/ /\ s \in enabled \cup signaled
        /\ Goto(t, "look")
        /\ UNCHANGED <<pending, fences, lock, qlock>>
     \/ /\ s \notin enabled \cup signaled
        /\ enabled' = enabled \cup {s}
        /\ \/ /\ Passed(t)
              /\ signaled' = signaled \cup {s}
              /\ Goto(t, "look")
              /\ UNCHANGED <<pending, armed, ring_int, lock, qlock>>
           \/ /\ ~Passed(t) /\ ReadLockable
              /\ ring_int' = ring_int + 1
              /\ ReadLock(t) /\ qlock' = t
              /\ Poll(t, "arm")
              /\ UNCHANGED <<pending, signaled, armed>>
           \/ /\ ~Passed(t) /\ ~ReadLockable
              /\ ring_int' = ring_int + 1
              /\ ScheduleCheck
              /\ armed' = armed \cup {s}
              /\ Goto(t, "look")
              /\ UNCHANGED <<signaled, lock, qlock>>
  /\ UNCHANGED <<world, ring, gpu, last_seq, needs_reset, awake>>

\* Faulty variant: a fence that passed while the interrupt was enabled is missed.
ArmAlways(t) ==
  /\ At(t, "arm")
  /\ armed' = armed \cup {th[t].seq}
  /\ ReadUnlock(t) /\ qlock' = None
  /\ Goto(t, "look")
  /\ UNCHANGED <<world, ring, gpu, last_seq, pending, signaled, ring_int, enabled,
                 needs_reset, awake>>

Arm(t) ==
  /\ At(t, "arm")
  /\ IF Passed(t)
     THEN /\ signaled' = signaled \cup {th[t].seq}
          /\ ring_int' = ring_int - 1 /\ UNCHANGED armed
     ELSE armed' = armed \cup {th[t].seq} /\ UNCHANGED <<signaled, ring_int>>
  /\ ReadUnlock(t) /\ qlock' = None
  /\ Goto(t, "look")
  /\ UNCHANGED <<world, ring, gpu, last_seq, pending, enabled, needs_reset, awake>>

\* wait_event_timeout() again
Look(t) ==
  /\ At(t, "look")
  /\ awake' = awake \ {t}
  /\ \/ th[t].seq \in signaled /\ th' = [th EXCEPT ![t] = Idle]
     \/ th[t].seq \notin signaled /\ Goto(t, IF needs_reset THEN "reset" ELSE "doze")
  /\ UNCHANGED <<world, ring, gpu, last_seq, pending, fences, sync>>

Doze(t) ==
  /\ At(t, "doze") /\ t \in awake
  /\ Goto(t, "look")
  /\ UNCHANGED <<world, ring, gpu, last_seq, pending, fences, sync, awake>>

------------------------------------------------------------------------------
(* radeon_gpu_reset() *)

\* down_write(), and radeon_ring_backup(), which polls
Reset(t) ==
  /\ At(t, "reset") /\ lock = [writer |-> None, readers |-> {}]
  /\ IF needs_reset
     THEN lock' = [lock EXCEPT !.writer = t] /\ Poll(t, "restore")
     ELSE th' = [th EXCEPT ![t] = Idle] /\ UNCHANGED lock
  /\ UNCHANGED <<world, ring, gpu, last_seq, pending, fences, needs_reset, qlock, awake>>

\* radeon_fence_driver_force_completion() waits for the lockup work, and cancels it.
ForceCompletion(state) ==
  /\ At(Work, "idle")
  /\ gpu' = [gpu EXCEPT !.hw = sync_seq % Word, !.done = sync_seq, !.state = state]
  /\ pending' = [pending EXCEPT !.work = FALSE]

\* The GPU is reset; radeon_fence_driver_start_ring() writes last_seq again and what
\* was left on the ring is restored.  Without anything to restore, and if the reset
\* fails, all fences are completed by force.
Restore(t) ==
  /\ At(t, "restore")
  /\ \/ /\ last_seq # sync_seq
        /\ gpu' = [gpu EXCEPT !.hw = last_seq % Word, !.state = "ok"]
        /\ UNCHANGED pending
     \/ (last_seq = sync_seq \/ MayFail("memory")) /\ ForceCompletion("ok")
     \/ MayFail("reset") /\ ForceCompletion("dead")
  /\ needs_reset' = FALSE
  /\ lock' = [writer |-> None, readers |-> {t}]
  /\ Goto(t, "tests")
  /\ UNCHANGED <<world, ring, last_seq, fences, qlock, awake>>

\* radeon_ib_ring_tests(), which may find that another reset is needed
Tests(t) ==
  /\ At(t, "tests")
  /\ needs_reset' = (gpu.state = "hung")
  /\ ReadUnlock(t)
  /\ th' = [th EXCEPT ![t] = Idle]
  /\ UNCHANGED <<world, ring, gpu, last_seq, pending, fences, qlock, awake>>

------------------------------------------------------------------------------
Activity(t) ==
  ReadFence(t) \/ Xchg(t) \/ Wake(t)

Begin(t) == Wait(t) \/ FenceWait(t)

Continue(t) ==
  \/ Asked(t) \/ Prepare(t) \/ Test(t) \/ Sleep(t) \/ Finish(t)
  \/ Enable(t) \/ Arm(t) \/ Look(t) \/ Doze(t)
  \/ Reset(t) \/ Restore(t) \/ Tests(t)

Emit == EmitRing \/ EmitCheck
Check == CheckLockup \/ Lockup \/ Checked

Next ==
  \/ EmitBegin \/ Emit \/ Complete \/ Hang \/ Interrupt \/ Check
  \/ \E t \in Threads : Activity(t)
  \/ \E t \in Waiters : Begin(t) \/ Continue(t)

\* Threads run, the GPU works unless it hangs, and exclusive_lock is granted in turn.
Fairness ==
  /\ WF_vars(Emit) /\ WF_vars(Complete) /\ WF_vars(Interrupt) /\ WF_vars(Check)
  /\ \A t \in Threads : WF_vars(Activity(t))
  /\ \A t \in Waiters : WF_vars(Continue(t)) /\ SF_vars(Reset(t))

Spec == Init /\ [][Next]_vars
FairSpec == Spec /\ Fairness

------------------------------------------------------------------------------
(* Properties. *)

\* No fence is taken for passed before the GPU passed it, or a reset completed it by
\* force: last_seq, which several threads extend and exchange without a lock, is
\* never ahead of the GPU, and a successful wait means what it says.
NeverEarly == last_seq <= gpu.done /\ \A s \in signaled : s <= gpu.done

\* The software interrupt is enabled exactly as long as somebody waits or a callback
\* is armed.
IrqBalanced ==
  ring_int = Cardinality(armed)
    + Cardinality({t \in Waiters :
        \/ th[t].pc \in {"prepare", "test", "sleep", "finish", "arm"}
        \/ th[t].back \in {"test", "arm"}})

\* Unless a poll is under way, what the GPU has passed is known, or the interrupt or
\* the lockup work will find out.
Noticed ==
  last_seq < gpu.done /\ ~MayFail("reset") /\ ~MayFail("memory") =>
    \/ pending.irq \/ pending.work \/ emitting = "check"
    \/ \E t \in Threads : th[t].pc \in {"read", "xchg", "wake"}

Returned(t) == At(t, "idle")

\* Every wait returns, although interrupts are lost and the GPU hangs.
WaitsReturn == \A t \in Waiters : []<>Returned(t)
==============================================================================

----------------------------- MODULE TtmExecbuf ------------------------------
(***************************************************************************)
(* Reserving a list of buffers for a command submission,                   *)
(* ttm/ttm_execbuf_util.c, against the threads that mark a buffer for CPU  *)
(* access in ttm_bo_synccpu_write_grab().  Reservations are ww_mutexes: a  *)
(* submission carries a ticket, and one that meets a buffer of an older    *)
(* ticket gives up all it has and starts again with that buffer.           *)
(*                                                                         *)
(* A step is one operation on a reservation or one critical section of     *)
(* glob->lru_lock.  Unlocking several reservations in a row is one step,   *)
(* since unlocking only enables the other threads.                         *)
(***************************************************************************)
EXTENDS Naturals, Sequences, FiniteSets

CONSTANTS Threads, Bos, Worlds, NoBo

VARIABLES
  world,        \* lists: the lists submitted; ops: the calls made; fail: what
                \* may go wrong; dups: the caller accepts duplicates; shared:
                \* the buffers that get a shared fence; threads: those that make
                \* calls, and calls: how many each
  resv,         \* owner of bo->resv->lock
  tickets,      \* threads with a ww_acquire_ctx, oldest first
  on_lru,       \* the buffer is on its lru lists
  busy,         \* an unsignalled fence is attached
  cpu_writers,  \* bo->cpu_writers, as the threads that have grabbed the buffer
  left,         \* calls each thread may still make
  th            \* what each thread is doing

\* What the constants are: the lists of a world are lists of buffers.
ExecbufConstants ==
  /\ "nobody" \notin Threads
  /\ NoBo \notin Bos
  /\ \A w \in Worlds : w.lists \subseteq Seq(Bos) /\ w.calls \in Nat

vars == <<world, resv, tickets, on_lru, busy, cpu_writers, left, th>>

Nobody == "nobody"

Elements(list) == {list[j] : j \in DOMAIN list}

\* want: the buffers of the call; list: the list as the call reorders it; i: the
\* entry in turn; slow: the buffer reserved by ww_mutex_lock_slow().
Idle == [op |-> "none", pc |-> "idle", want |-> {}, list |-> <<>>, i |-> 1,
         slow |-> NoBo]

Called(op, pc, list) ==
  [op |-> op, pc |-> pc, want |-> Elements(list), list |-> list, i |-> 1, slow |-> NoBo]

Places == {"idle", "reserve", "slow", "reserved",
           "grab", "grab_del_lru", "grab_wait"}

Locals ==
  [op : {"none", "exec", "resource", "grab", "try_grab"}, pc : Places,
   want : SUBSET Bos, list : Seq(Bos), i : Nat, slow : Bos \cup {NoBo}]

TypeOK ==
  /\ world \in Worlds
  /\ resv \in [Bos -> Threads \cup {Nobody}]
  /\ tickets \in Seq(Threads)
  /\ \A j, k \in DOMAIN tickets : tickets[j] = tickets[k] => j = k
  /\ on_lru \in [Bos -> BOOLEAN]
  /\ busy \in [Bos -> BOOLEAN]
  /\ cpu_writers \in [Bos -> SUBSET Threads]
  /\ left \in [Threads -> 0..world.calls]
  /\ th \in [Threads -> Locals]
  /\ \A t \in Threads : th[t].i \in 1..Len(th[t].list) + 1

Init ==
  /\ world \in Worlds
  /\ resv = [b \in Bos |-> Nobody]
  /\ tickets = <<>>
  /\ on_lru = [b \in Bos |-> TRUE]
  /\ busy = [b \in Bos |-> FALSE]
  /\ cpu_writers = [b \in Bos |-> {}]
  /\ left = [t \in Threads |-> IF t \in world.threads THEN world.calls ELSE 0]
  /\ th = [t \in Threads |-> Idle]

------------------------------------------------------------------------------
(* The ww_mutex of a reservation (kernel/locking/mutex.c). *)

Set(t, local) == th' = [th EXCEPT ![t] = local]
Held(t) == {b \in Bos : resv[b] = t}
HasTicket(t) == t \in Elements(tickets)

Older(t, u) ==
  \E j, k \in DOMAIN tickets : j < k /\ tickets[j] = t /\ tickets[k] = u

\* What locking b does now: it succeeds, finds that the ticket holds b, finds b
\* with an older ticket while holding others, fails at once, or waits.
Outcome(t, b, try) ==
  CASE resv[b] = Nobody -> "ok"
    [] try -> "busy"
    [] resv[b] = t -> "already"
    [] HasTicket(t) /\ Held(t) # {} /\ Older(resv[b], t) -> "deadlock"
    [] OTHER -> "wait"

Lock(t, b) == resv' = [resv EXCEPT ![b] = t]
UnlockAll(B) == resv' = [b \in Bos |-> IF b \in B THEN Nobody ELSE resv[b]]

Remove(list, i) == SubSeq(list, 1, i - 1) \o SubSeq(list, i + 1, Len(list))

\* ww_acquire_fini()
Fini(t) ==
  tickets' = IF HasTicket(t)
             THEN Remove(tickets, CHOOSE j \in DOMAIN tickets : tickets[j] = t) ELSE tickets

------------------------------------------------------------------------------
(* ttm_eu_reserve_buffers() *)

Enter(t, op) ==
  /\ th[t].pc = "idle" /\ op \in world.ops /\ left[t] > 0
  /\ left' = [left EXCEPT ![t] = @ - 1]

\* A submission with a ticket.
Exec(t) ==
  /\ Enter(t, "exec")
  /\ tickets' = Append(tickets, t)
  /\ \E list \in world.lists : Set(t, Called("exec", "reserve", list))
  /\ UNCHANGED <<world, resv, on_lru, busy, cpu_writers>>

\* vmw_resource_check_buffer(): one buffer, without a ticket.
Resource(t) ==
  /\ Enter(t, "resource")
  /\ \E b \in Bos : Set(t, Called("resource", "reserve", <<b>>))
  /\ UNCHANGED <<world, resv, tickets, on_lru, busy, cpu_writers>>

\* Faulty variant of Before: the reservations are kept.
BeforeNone(t) == {}

\* ttm_eu_backoff_reservation_reverse(): the buffers of the entries before this.
Before(t) == {th[t].list[j] : j \in 1..th[t].i - 1}

\* The call returns an error.
Fail(t, dropped) ==
  /\ UnlockAll(dropped)
  /\ Fini(t)
  /\ Set(t, Idle)

\* Faulty variant of CpuAccess.
CpuAccessIgnored(b) == FALSE

CpuAccess(b) == cpu_writers[b] # {}

\* reservation_object_reserve_shared() may fail.
ShareFails(b) == b \in world.shared /\ "memory" \in world.fail

\* One round of the loop for an entry: it is reserved, or a duplicate, or the call
\* backs off and fails or tries the slow way.
Reserve(t) ==
  LET l == th[t]
      b == l.list[l.i]
      res == Outcome(t, b, l.op = "resource")
  IN
  /\ l.pc = "reserve" /\ l.i <= Len(l.list)
  /\ \/ /\ res = "ok" /\ ~CpuAccess(b)
        /\ Lock(t, b)
        /\ Set(t, [l EXCEPT !.i = @ + 1])
        /\ UNCHANGED tickets
     \/ /\ res = "ok" /\ ~CpuAccess(b) /\ ShareFails(b) /\ l.op = "exec"
        /\ resv' = [c \in Bos |-> IF c = b THEN t
                                  ELSE IF c \in Before(t) THEN Nobody ELSE resv[c]]
        /\ Fini(t) /\ Set(t, Idle)
     \/ /\ res = "already" /\ world.dups
        /\ Set(t, [l EXCEPT !.list = Remove(@, l.i)])
        /\ UNCHANGED <<resv, tickets>>
     \/ /\ res = "deadlock"
        /\ UnlockAll(Before(t))
        /\ Set(t, [l EXCEPT !.pc = "slow"])
        /\ UNCHANGED tickets
     \/ /\ \/ res = "ok" /\ CpuAccess(b)
           \/ res = "already" /\ ~world.dups
           \/ res = "busy"
           \/ res = "wait" /\ "signal" \in world.fail
        /\ Fail(t, Before(t))
  /\ UNCHANGED <<world, on_lru, busy, cpu_writers, left>>

\* Faulty variant of Restart: the entry is not moved and the loop goes on.
RestartAfter(l) == [l EXCEPT !.pc = "reserve", !.i = @ + 1, !.slow = l.list[l.i]]

\* The entry goes to the front of the list, and the loop goes over all others.
Restart(l) ==
  [l EXCEPT !.pc = "reserve", !.list = <<l.list[l.i]>> \o Remove(@, l.i), !.i = 2,
            !.slow = l.list[l.i]]

\* ww_mutex_lock_slow(), holding nothing; and the shared slot of the buffer.
ReserveSlow(t) ==
  LET l == th[t]
      b == l.list[l.i]
  IN
  /\ l.pc = "slow"
  /\ \/ /\ resv[b] = Nobody
        /\ Lock(t, b)
        /\ \/ Set(t, Restart(l)) /\ UNCHANGED tickets
           \/ ShareFails(b) /\ Set(t, Idle) /\ Fini(t)
     \/ /\ resv[b] # Nobody /\ "signal" \in world.fail
        /\ Fail(t, {})
  /\ UNCHANGED <<world, on_lru, busy, cpu_writers, left>>

\* ttm_eu_del_from_lru_locked(): all entries are reserved.
DelFromLru(t) ==
  /\ th[t].pc = "reserve" /\ th[t].i > Len(th[t].list)
  /\ on_lru' = [b \in Bos |-> on_lru[b] /\ b \notin Elements(th[t].list)]
  /\ Set(t, [th[t] EXCEPT !.pc = "reserved"])
  /\ UNCHANGED <<world, resv, tickets, busy, cpu_writers, left>>

\* Faulty variant of Return: the buffers stay off the lists.
ReturnOffLru(t) ==
  /\ UnlockAll(Elements(th[t].list))
  /\ Fini(t)
  /\ Set(t, Idle)
  /\ UNCHANGED on_lru

\* The buffers of a list go back to the lru lists and are unreserved.
Return(t) ==
  /\ on_lru' = [b \in Bos |-> on_lru[b] \/ b \in Elements(th[t].list)]
  /\ UnlockAll(Elements(th[t].list))
  /\ Fini(t)
  /\ Set(t, Idle)

\* ttm_eu_fence_buffer_objects() after the commands have been submitted.
FenceObjects(t) ==
  /\ th[t].pc = "reserved" /\ th[t].op = "exec"
  /\ busy' = [b \in Bos |-> busy[b] \/ b \in Elements(th[t].list)]
  /\ Return(t)
  /\ UNCHANGED <<world, cpu_writers, left>>

\* ttm_eu_backoff_reservation(), when the driver fails later, or of one buffer.
BackoffReservation(t) ==
  /\ th[t].pc = "reserved"
  /\ Return(t)
  /\ UNCHANGED <<world, busy, cpu_writers, left>>

------------------------------------------------------------------------------
(* ttm_bo_synccpu_write_grab() and ttm_bo_synccpu_write_release() *)

GrabBegin(t) ==
  \E op \in {"grab", "try_grab"}, b \in Bos :
    /\ Enter(t, op)
    /\ t \notin cpu_writers[b]
    /\ Set(t, Called(op, "grab", <<b>>))
    /\ UNCHANGED <<world, resv, tickets, on_lru, busy, cpu_writers>>

\* __ttm_bo_reserve(): may fail at once, or be interrupted.
GrabReserve(t) ==
  LET l == th[t]
      b == l.list[1]
      res == Outcome(t, b, l.op = "try_grab")
  IN
  /\ l.pc = "grab"
  /\ \/ /\ res = "ok"
        /\ Lock(t, b)
        /\ Set(t, [l EXCEPT !.pc = "grab_del_lru"])
     \/ /\ res = "busy" \/ (res = "wait" /\ "signal" \in world.fail)
        /\ Set(t, Idle)
        /\ UNCHANGED resv
  /\ UNCHANGED <<world, tickets, on_lru, busy, cpu_writers, left>>

\* ttm_bo_reserve() takes the buffer off the lru lists.
GrabDelFromLru(t) ==
  /\ th[t].pc = "grab_del_lru"
  /\ on_lru' = [on_lru EXCEPT ![th[t].list[1]] = FALSE]
  /\ Set(t, [th[t] EXCEPT !.pc = "grab_wait"])
  /\ UNCHANGED <<world, resv, tickets, busy, cpu_writers, left>>

\* ttm_bo_wait() for the GPU, then the grab, then ttm_bo_unreserve().
GrabWait(t) ==
  LET b == th[t].list[1] IN
  /\ th[t].pc = "grab_wait"
  /\ \/ /\ ~busy[b]
        /\ cpu_writers' = [cpu_writers EXCEPT ![b] = @ \cup {t}]
     \/ /\ busy[b]
        /\ th[t].op = "try_grab" \/ "signal" \in world.fail
        /\ UNCHANGED cpu_writers
  /\ Return(t)
  /\ UNCHANGED <<world, busy, left>>

\* ttm_bo_synccpu_write_release()
GrabRelease(t, b) ==
  /\ th[t].pc = "idle" /\ t \in cpu_writers[b]
  /\ cpu_writers' = [cpu_writers EXCEPT ![b] = @ \ {t}]
  /\ UNCHANGED <<world, resv, tickets, on_lru, busy, left, th>>

\* The GPU passes the fences of a buffer.
Signal(b) ==
  /\ busy[b]
  /\ busy' = [busy EXCEPT ![b] = FALSE]
  /\ UNCHANGED <<world, resv, tickets, on_lru, cpu_writers, left, th>>

------------------------------------------------------------------------------

Inside(t) ==
  \/ Reserve(t) \/ ReserveSlow(t) \/ DelFromLru(t) \/ FenceObjects(t)
  \/ BackoffReservation(t) \/ GrabReserve(t) \/ GrabDelFromLru(t) \/ GrabWait(t)

Next ==
  \/ \E t \in Threads : Exec(t) \/ Resource(t) \/ GrabBegin(t) \/ Inside(t)
  \/ \E t \in Threads, b \in Bos : GrabRelease(t, b)
  \/ \E b \in Bos : Signal(b)

Spec == Init /\ [][Next]_vars

\* Threads inside a call are scheduled, a mutex is granted in the end, fences signal.
Fairness ==
  /\ \A t \in Threads : WF_vars(Inside(t))
  /\ \A b \in Bos : WF_vars(Signal(b))

FairSpec == Spec /\ Fairness

------------------------------------------------------------------------------
(* Properties. *)

\* reservation_object_reserve_shared() does not fail: when it does, the buffer stays
\* reserved by a thread that has returned.
NoLeak == "memory" \notin world.fail

\* A submission that got through holds every buffer it named, however often it had
\* to back off and whatever order the list has now.  (A caller that accepts duplicates
\* also takes a buffer left behind by its last call for one.)
AllReserved ==
  NoLeak \/ ~world.dups =>
    \A t \in Threads :
      th[t].pc = "reserved" => \A b \in th[t].want : resv[b] = t /\ ~on_lru[b]

\* "If a buffer in the list is marked for CPU access, we back off": a submission
\* reserves no buffer that a thread has grabbed.  This is checked for the buffers
\* reserved in the loop; ww_mutex_lock_slow() is not followed by the check, so that
\* only without the slow way does the GPU never use a buffer the CPU writes.
CpuExcluded ==
  NoLeak =>
    /\ \A t \in Threads : th[t].op \in {"exec", "resource"} =>
         \A b \in Held(t) \ {th[t].slow} : cpu_writers[b] = {}
    /\ (\A list \in world.lists : Len(list) = 1) =>
         \A b \in Bos : busy[b] => cpu_writers[b] = {}

\* A call that has failed, like one that has returned, holds no reservation and no
\* ticket, and a call that waits in ww_mutex_lock_slow() holds no reservation.
HoldsNothing ==
  /\ \A t \in Threads : th[t].pc = "idle" => ~HasTicket(t)
  /\ NoLeak => \A t \in Threads : th[t].pc \in {"idle", "slow"} => Held(t) = {}

\* A buffer that nobody has reserved is on the lru lists, where eviction finds it.
LruComplete == \A b \in Bos : ~on_lru[b] => resv[b] # Nobody

\* A submission has reserved its whole list, and gives all of it back.
ListReserved == TypeOK /\ AllReserved /\ HoldsNothing /\ LruComplete /\ CpuExcluded

==============================================================================

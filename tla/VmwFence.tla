------------------------------ MODULE VmwFence ------------------------------
(***************************************************************************)
(* Fences of vmwgfx (vmwgfx_fence.c, vmwgfx_irq.c): sequence numbers the   *)
(* device writes back, fence objects, waiters, events that are sent when a *)
(* fence has passed, and the two interrupts, ANY_FENCE and FENCE_GOAL,     *)
(* which are only on while somebody needs them.                            *)
(*                                                                         *)
(* A thread is the one user of its file.  Its places:                      *)
(*   sent      its fence command is in the fifo                            *)
(*   init      about to make the fence object                              *)
(*   copy      about to return the handle                                  *)
(*   add       in vmw_event_fence_action_queue(), the action made          *)
(*   goal      in vmw_fence_obj_add_action(), the goal changed             *)
(*   added     before the last lines of vmw_fence_obj_add_action()         *)
(*   asked     in vmw_fence_obj_signaled(), after the update               *)
(*   enter     in vmw_fence_wait(), about to count itself                  *)
(*   lock      about to take the lock and look again                       *)
(*   look      has the lock, the fences are up to date                     *)
(*   asleep    in schedule_timeout()                                       *)
(*   out       about to leave vmw_fence_wait()                             *)
(*   put       about to drop its reference on the fence                    *)
(*   gone      in vmw_event_fence_fpriv_gone()                             *)
(***************************************************************************)
EXTENDS Naturals, FiniteSets, SequencesExt

CONSTANTS Threads, Actions, None, Worlds,
  Irq,       \* the interrupt handler, beside Threads
  Word,      \* sequence numbers are taken modulo Word, 2^32 in the code
  First,     \* the sequence number at start
  MaxFence   \* bound: fences that are submitted

\* A world: the calls each thread makes, the fences and the actions there are, what may
\* fail, and whether fences are submitted under cmdbuf_mutex, as execbuf does it, or
\* not, as vmw_fence_event_ioctl() does.
VARIABLES
  world,
  emitted, passed,      \* fences sent to the device, and passed by it
  goal, status, mask,   \* its FENCE_GOAL, its pending and its enabled interrupts
  last_read_seqno, fence_queue_waiters,
  cmdbuf_mutex, goal_irq_mutex, seqno_valid, goal_irq_on,
  fence_list, signaled, refs, handles, freed,
  seq_passed_actions,   \* of each fence
  cleanup_list, act,    \* actions: the fence, the file and what became of the event
  upd,                  \* the holder of fman->lock, and where __vmw_fences_update() is
  irq, work, th

device == <<emitted, passed, goal, status, mask>>
sync == <<cmdbuf_mutex, goal_irq_mutex, seqno_valid, goal_irq_on>>
fences == <<fence_list, signaled, refs, handles, freed, seq_passed_actions>>
events == <<cleanup_list, act>>
vars == <<world, device, last_read_seqno, fence_queue_waiters, sync, fences, events, upd,
          irq, work, th>>

Fences == 1..MaxFence
Idle == [pc |-> "idle", f |-> 0, a |-> None, ok |-> FALSE]
NoAction == [fence |-> 0, file |-> None, event |-> "none"]
Unlocked == [by |-> None, pc |-> "none", seqno |-> 0]
Places == {"idle", "sent", "init", "copy", "add", "goal", "added", "asked", "enter", "lock",
           "look", "asleep", "out", "put", "gone", "closed"}

TypeOK ==
  /\ world \in Worlds
  /\ emitted \in 0..MaxFence /\ passed \in 0..emitted
  /\ goal \in 0..Word - 1 /\ last_read_seqno \in 0..Word - 1
  /\ status \subseteq {"any", "goal"} /\ mask \subseteq {"any", "goal"}
  /\ fence_queue_waiters \in 0..Cardinality(Threads)
  /\ cmdbuf_mutex \in Threads \cup {None}
  /\ goal_irq_mutex \in Threads \cup {"work", None}
  /\ seqno_valid \in BOOLEAN /\ goal_irq_on \in BOOLEAN
  /\ fence_list \in Seq(Fences) /\ signaled \subseteq Fences /\ freed \subseteq Fences
  /\ refs \in [Fences -> Nat] /\ handles \subseteq Threads \X Fences
  /\ seq_passed_actions \in [Fences -> Seq(Actions)] /\ cleanup_list \in Seq(Actions)
  /\ act \in [Actions -> [fence : 0..MaxFence, file : Threads \cup {None},
                          event : {"none", "pending", "sent", "destroyed"}]]
  /\ upd \in [by : Threads \cup {Irq, None}, pc : {"none", "walk", "reread", "done"},
              seqno : 0..Word - 1]
  /\ irq \in [pc : {"none", "ack", "update"}, status : SUBSET {"any", "goal"},
              masked : BOOLEAN]
  /\ work \in [pending : BOOLEAN, pc : {"none", "goal", "cleanup"}, list : Seq(Actions),
               valid : BOOLEAN]
  /\ th \in [Threads -> [pc : Places, f : 0..MaxFence, a : Actions \cup {None},
                         ok : BOOLEAN]]

\* The number of the n-th fence: atomic_add_return() goes on until it is not 0.
Seqno(n) == IF First + n < Word THEN First + n ELSE (First + n + 1) % Word

Init ==
  /\ world \in Worlds
  /\ emitted = 0 /\ passed = 0 /\ goal = 0 /\ status = {} /\ mask = {}
  /\ last_read_seqno = First /\ fence_queue_waiters = 0
  /\ cmdbuf_mutex = None /\ goal_irq_mutex = None
  /\ seqno_valid = FALSE /\ goal_irq_on = FALSE
  /\ fence_list = <<>> /\ signaled = {} /\ freed = {} /\ handles = {}
  /\ refs = [f \in Fences |-> 0] /\ seq_passed_actions = [f \in Fences |-> <<>>]
  /\ cleanup_list = <<>> /\ act = [a \in Actions |-> NoAction]
  /\ upd = Unlocked
  /\ irq = [pc |-> "none", status |-> {}, masked |-> FALSE]
  /\ work = [pending |-> FALSE, pc |-> "none", list |-> <<>>, valid |-> FALSE]
  /\ th = [t \in Threads |-> Idle]

Set(t, r) == th' = [th EXCEPT ![t] = r]
Goto(t, pc) == th' = [th EXCEPT ![t].pc = pc]
At(t, pc) == th[t].pc = pc /\ upd.by # t
MayCall(t, op) == op \in world.ops[t] /\ At(t, "idle")
Locked == upd.by # None

\* Faulty variant of Reached: the numbers are compared as they are.
ReachedPlain(seqno, other) == seqno >= other

\* seqno - fence->base.seqno < VMW_FENCE_WRAP
Reached(seqno, other) == (seqno + Word - other) % Word < Word \div 2

------------------------------------------------------------------------------
(* The device. *)

\* It passes the next fence and raises both interrupts, FENCE_GOAL only for the goal.
Pass ==
  /\ passed < emitted
  /\ passed' = passed + 1
  /\ status' = status \cup {"any"} \cup (IF Seqno(passed + 1) = goal THEN {"goal"} ELSE {})
  /\ UNCHANGED <<world, emitted, goal, mask, last_read_seqno, fence_queue_waiters, sync,
                 fences, events, upd, irq, work, th>>

\* vmw_seqno_waiter_add() and vmw_goal_waiter_add() for the first waiter: what is
\* pending from before is cleared.
Enable(bit) == mask' = mask \cup {bit} /\ status' = status \ {bit}

------------------------------------------------------------------------------
(* vmw_fences_update() *)

\* Its caller gets the lock and reads SVGA_FIFO_FENCE.
Update(by) ==
  /\ ~Locked
  /\ upd' = [by |-> by, pc |-> "walk", seqno |-> Seqno(passed)]

\* vmw_fences_perform_actions() for a list: events that are still wanted are sent.
Performed(list) ==
  [a \in Actions |->
     IF (\E i \in DOMAIN list : list[i] = a) /\ act[a].event = "pending"
     THEN [act[a] EXCEPT !.event = "sent"] ELSE act[a]]

\* The lock is given back, unless the caller is about to look at its fence under it.
Done(pending) ==
  /\ work' = IF pending THEN [work EXCEPT !.pending = TRUE] ELSE work
  /\ upd' = IF upd.by \in Threads /\ th[upd.by].pc = "look"
            THEN [upd EXCEPT !.pc = "done"] ELSE Unlocked

\* The fences at the front that were reached.
ReachedFront(seqno) ==
  CHOOSE n \in 0..Len(fence_list) :
    /\ \A i \in 1..n : Reached(seqno, Seqno(fence_list[i]))
    /\ n < Len(fence_list) => ~Reached(seqno, Seqno(fence_list[n + 1]))

\* vmw_fence_goal_new_locked(): the current goal was reached.
GoalReached(seqno) == seqno_valid /\ Reached(seqno, goal)

\* They are signaled, their waiters woken, their actions performed; then the goal is set
\* to the next fence that has actions, if there is one.
Walk ==
  LET s == upd.seqno
      n == ReachedFront(s)
      front == SubSeq(fence_list, 1, n)
      rest == SubSeq(fence_list, n + 1, Len(fence_list))
      in == {front[i] : i \in 1..n}
      acted == FlattenSeq([i \in 1..n |-> seq_passed_actions[front[i]]])
      next == {i \in DOMAIN rest : seq_passed_actions[rest[i]] # <<>>} IN
  /\ upd.pc = "walk"
  /\ fence_list' = rest /\ signaled' = signaled \cup in
  /\ seq_passed_actions' =
       [f \in Fences |-> IF f \in in THEN <<>> ELSE seq_passed_actions[f]]
  /\ act' = Performed(acted) /\ cleanup_list' = cleanup_list \o acted
  /\ th' = [t \in Threads |-> IF th[t].pc = "asleep" /\ th[t].f \in in
                              THEN [th[t] EXCEPT !.pc = "lock"] ELSE th[t]]
  /\ IF GoalReached(s)
     THEN /\ seqno_valid' = (next # {})
          /\ goal' = IF next = {} THEN goal
                     ELSE Seqno(rest[CHOOSE i \in next : \A j \in next : i <= j])
          /\ upd' = [upd EXCEPT !.pc = "reread"]
          /\ UNCHANGED work
     ELSE Done(cleanup_list' # <<>>) /\ UNCHANGED <<seqno_valid, goal>>
  /\ UNCHANGED <<world, emitted, passed, status, mask, last_read_seqno,
                 fence_queue_waiters, cmdbuf_mutex, goal_irq_mutex, goal_irq_on, refs,
                 handles, freed, irq>>

\* Once the goal was changed SVGA_FIFO_FENCE is read again.
Reread ==
  /\ upd.pc = "reread"
  /\ IF Seqno(passed) # upd.seqno
     THEN upd' = [upd EXCEPT !.pc = "walk", !.seqno = Seqno(passed)] /\ UNCHANGED work
     ELSE Done(cleanup_list # <<>>)
  /\ UNCHANGED <<world, device, last_read_seqno, fence_queue_waiters, sync, fences, events,
                 irq, th>>

------------------------------------------------------------------------------
(* vmw_irq_handler() *)

IrqRead ==
  /\ irq.pc = "none" /\ upd.by # Irq /\ status \cap mask # {}
  /\ irq' = [pc |-> "ack", status |-> status, masked |-> status \cap mask # {}]
  /\ UNCHANGED <<world, device, last_read_seqno, fence_queue_waiters, sync, fences, events,
                 upd, work, th>>

IrqAck ==
  /\ irq.pc = "ack"
  /\ status' = status \ irq.status
  /\ irq' = [irq EXCEPT !.pc = IF irq.masked THEN "update" ELSE "none"]
  /\ UNCHANGED <<world, emitted, passed, goal, mask, last_read_seqno, fence_queue_waiters,
                 sync, fences, events, upd, work, th>>

IrqUpdate ==
  /\ irq.pc = "update"
  /\ Update(Irq)
  /\ irq' = [irq EXCEPT !.pc = "none"]
  /\ UNCHANGED <<world, device, last_read_seqno, fence_queue_waiters, sync, fences, events,
                 work, th>>

------------------------------------------------------------------------------
(* vmw_fence_work_func() *)

\* The work starts, or has cleaned up and starts over.
WorkTake ==
  /\ \/ work.pc = "none" /\ work.pending
     \/ work.pc = "cleanup" /\ work.list = <<>>
  /\ goal_irq_mutex = None /\ ~Locked
  /\ goal_irq_mutex' = "work"
  /\ work' = [pending |-> work.pending /\ work.pc = "cleanup", pc |-> "goal",
              list |-> cleanup_list, valid |-> seqno_valid]
  /\ cleanup_list' = <<>>
  /\ UNCHANGED <<world, device, last_read_seqno, fence_queue_waiters, cmdbuf_mutex,
                 seqno_valid, goal_irq_on, fences, act, upd, irq, th>>

\* Faulty variant: the interrupt is turned off although there is a goal.
WorkGoalAlways ==
  /\ work.pc = "goal"
  /\ goal_irq_mutex' = None /\ goal_irq_on' = FALSE /\ mask' = mask \ {"goal"}
  /\ work' = [work EXCEPT !.pc = IF work.list = <<>> THEN "none" ELSE "cleanup"]
  /\ UNCHANGED <<world, emitted, passed, goal, status, last_read_seqno,
                 fence_queue_waiters, cmdbuf_mutex, seqno_valid, fences, events, upd, irq,
                 th>>

\* Without a goal the interrupt is turned off.
WorkGoal ==
  /\ work.pc = "goal"
  /\ goal_irq_mutex' = None
  /\ IF ~work.valid /\ goal_irq_on
     THEN goal_irq_on' = FALSE /\ mask' = mask \ {"goal"}
     ELSE UNCHANGED <<goal_irq_on, mask>>
  /\ work' = [work EXCEPT !.pc = IF work.list = <<>> THEN "none" ELSE "cleanup"]
  /\ UNCHANGED <<world, emitted, passed, goal, status, last_read_seqno,
                 fence_queue_waiters, cmdbuf_mutex, seqno_valid, fences, events, upd, irq,
                 th>>

\* Faulty variant: the reference of the action is not dropped.
WorkCleanupKeeps ==
  /\ work.pc = "cleanup" /\ work.list # <<>> /\ ~Locked
  /\ act' = [act EXCEPT ![Head(work.list)] = NoAction]
  /\ work' = [work EXCEPT !.list = Tail(@)]
  /\ UNCHANGED <<world, device, last_read_seqno, fence_queue_waiters, sync, fences,
                 cleanup_list, upd, irq, th>>

\* vmw_event_fence_action_cleanup() for the first action of the list.
WorkCleanup ==
  LET a == Head(work.list) IN
  /\ work.pc = "cleanup" /\ work.list # <<>> /\ ~Locked
  /\ act' = [act EXCEPT ![a] = NoAction]
  /\ refs' = [refs EXCEPT ![act[a].fence] = @ - 1]
  /\ work' = [work EXCEPT !.list = Tail(@)]
  /\ UNCHANGED <<world, device, last_read_seqno, fence_queue_waiters, sync, fence_list,
                 signaled, handles, freed, seq_passed_actions, cleanup_list, upd, irq, th>>

------------------------------------------------------------------------------
(* Submission: vmw_execbuf_fence_commands() *)

\* vmw_fifo_send_fence() as far as vmw_fifo_commit().
SendFence(t) ==
  /\ MayCall(t, "submit") /\ emitted < world.last
  /\ world.cmdbuf => cmdbuf_mutex = None
  /\ cmdbuf_mutex' = IF world.cmdbuf THEN t ELSE cmdbuf_mutex
  /\ emitted' = emitted + 1
  /\ Set(t, [Idle EXCEPT !.pc = "sent", !.f = emitted + 1])
  /\ UNCHANGED <<world, passed, goal, status, mask, last_read_seqno, fence_queue_waiters,
                 goal_irq_mutex, seqno_valid, goal_irq_on, fences, events, upd, irq, work>>

\* vmw_update_seqno(), after which the thread is at that place.
UpdateSeqno(t, pc) ==
  /\ \/ last_read_seqno = Seqno(passed) /\ UNCHANGED <<last_read_seqno, upd>>
     \/ /\ last_read_seqno # Seqno(passed)
        /\ last_read_seqno' = Seqno(passed)
        /\ Update(t)
  /\ Goto(t, pc)

Sent(t) ==
  /\ At(t, "sent")
  /\ UpdateSeqno(t, "init")
  /\ UNCHANGED <<world, device, fence_queue_waiters, sync, fences, events, irq, work>>

\* vmw_user_fence_create() with vmw_fence_obj_init(): one reference for the caller and
\* one for the base object behind the handle.
FenceInit(t) ==
  /\ At(t, "init") /\ ~Locked
  /\ fence_list' = Append(fence_list, th[t].f)
  /\ refs' = [refs EXCEPT ![th[t].f] = 2]
  /\ handles' = handles \cup {<<t, th[t].f>>}
  /\ Goto(t, "copy")
  /\ UNCHANGED <<world, device, last_read_seqno, fence_queue_waiters, sync, signaled, freed,
                 seq_passed_actions, events, upd, irq, work>>

\* vmw_execbuf_copy_fence_user()
CopyFenceUser(t) ==
  /\ At(t, "copy")
  /\ UpdateSeqno(t, "put")
  /\ UNCHANGED <<world, device, fence_queue_waiters, sync, fences, events, irq, work>>

\* The call ends: vmw_fence_obj_unreference(), and execbuf unlocks.
Put(t) ==
  /\ At(t, "put")
  /\ refs' = [refs EXCEPT ![th[t].f] = @ - 1]
  /\ cmdbuf_mutex' = IF cmdbuf_mutex = t THEN None ELSE cmdbuf_mutex
  /\ Set(t, Idle)
  /\ UNCHANGED <<world, device, last_read_seqno, fence_queue_waiters, goal_irq_mutex,
                 seqno_valid, goal_irq_on, fence_list, signaled, handles, freed,
                 seq_passed_actions, events, upd, irq, work>>

\* vmw_fence_obj_destroy(), after the last reference.
Destroy(f) ==
  /\ f <= emitted /\ refs[f] = 0 /\ f \notin freed /\ ~Locked
  /\ \A t \in Threads : ~(th[t].pc \in {"sent", "init"} /\ th[t].f = f)
  /\ fence_list' = SelectSeq(fence_list, LAMBDA g : g # f)
  /\ freed' = freed \cup {f}
  /\ UNCHANGED <<world, device, last_read_seqno, fence_queue_waiters, sync, signaled, refs,
                 handles, seq_passed_actions, events, upd, irq, work, th>>

\* vmw_fence_obj_unref_ioctl(): the last handle takes the base object along.
Unref(t, f) ==
  /\ MayCall(t, "unref") /\ <<t, f>> \in handles
  /\ handles' = handles \ {<<t, f>>}
  /\ refs' = [refs EXCEPT ![f] = @ - 1]
  /\ UNCHANGED <<world, device, last_read_seqno, fence_queue_waiters, sync, fence_list,
                 signaled, freed, seq_passed_actions, events, upd, irq, work, th>>

------------------------------------------------------------------------------
(* Events: vmw_fence_event_ioctl() for a handle *)

HasHandle(f) == \E t \in Threads : <<t, f>> \in handles

\* vmw_event_fence_action_create() and vmw_event_fence_action_queue() as far as the list
\* of the file; one reference for the caller and one for the action.
EventQueue(t, f, a) ==
  /\ MayCall(t, "event") /\ HasHandle(f) /\ a \in world.actions /\ act[a] = NoAction
  /\ ~Locked
  /\ act' = [act EXCEPT ![a] = [fence |-> f, file |-> t, event |-> "pending"]]
  /\ refs' = [refs EXCEPT ![f] = @ + 2]
  /\ Set(t, [Idle EXCEPT !.pc = "add", !.f = f, !.a = a])
  /\ UNCHANGED <<world, device, last_read_seqno, fence_queue_waiters, sync, fence_list,
                 signaled, handles, freed, seq_passed_actions, cleanup_list, upd, irq,
                 work>>

\* vmw_fence_goal_check_locked() replaces the goal.
NewGoal(f) == ~(seqno_valid /\ Reached(goal, Seqno(f)))

\* vmw_fence_obj_add_action() as far as its first spin_unlock_irqrestore().
AddAction(t) ==
  LET f == th[t].f
      a == th[t].a IN
  /\ At(t, "add") /\ goal_irq_mutex = None /\ ~Locked
  /\ goal_irq_mutex' = t
  /\ IF f \in signaled
     THEN /\ act' = Performed(<<a>>) /\ cleanup_list' = Append(cleanup_list, a)
          /\ Goto(t, "added")
          /\ UNCHANGED <<seq_passed_actions, goal, seqno_valid>>
     ELSE /\ seq_passed_actions' = [seq_passed_actions EXCEPT ![f] = Append(@, a)]
          /\ goal' = IF NewGoal(f) THEN Seqno(f) ELSE goal
          /\ seqno_valid' = (seqno_valid \/ NewGoal(f))
          /\ Goto(t, IF NewGoal(f) THEN "goal" ELSE "added")
          /\ UNCHANGED events
  /\ UNCHANGED <<world, emitted, passed, status, mask, last_read_seqno,
                 fence_queue_waiters, cmdbuf_mutex, goal_irq_on, fence_list, signaled, refs,
                 handles, freed, upd, irq, work>>

\* run_update: the interrupt is turned on, and what passed before then is looked for.
GoalIrq(t) ==
  /\ At(t, "goal") /\ ~goal_irq_on
  /\ goal_irq_on' = TRUE
  /\ Enable("goal")
  /\ UNCHANGED <<world, emitted, passed, goal, last_read_seqno, fence_queue_waiters,
                 cmdbuf_mutex, goal_irq_mutex, seqno_valid, fences, events, upd, irq, work,
                 th>>

\* Faulty variant: no update after the interrupt was turned on.
RunUpdateNot(t) ==
  /\ At(t, "goal") /\ goal_irq_on
  /\ Goto(t, "added")
  /\ UNCHANGED <<world, device, last_read_seqno, fence_queue_waiters, sync, fences, events,
                 upd, irq, work>>

RunUpdate(t) ==
  /\ At(t, "goal") /\ goal_irq_on
  /\ Update(t)
  /\ Goto(t, "added")
  /\ UNCHANGED <<world, device, last_read_seqno, fence_queue_waiters, sync, fences, events,
                 irq, work>>

Added(t) ==
  /\ At(t, "added")
  /\ goal_irq_mutex' = None
  /\ Goto(t, "put")
  /\ UNCHANGED <<world, device, last_read_seqno, fence_queue_waiters, cmdbuf_mutex,
                 seqno_valid, goal_irq_on, fences, events, upd, irq, work>>

------------------------------------------------------------------------------
(* Waits: vmw_fence_obj_wait_ioctl() and vmw_fence_obj_signaled_ioctl() *)

\* vmw_fence_obj_signaled() without the flag updates the fences and looks again.  The
\* reference of the base object is counted as the caller's.
Ask(t, f, op) ==
  /\ MayCall(t, op) /\ <<t, f>> \in handles
  /\ refs' = [refs EXCEPT ![f] = @ + 1]
  /\ \/ f \in signaled /\ Set(t, [Idle EXCEPT !.pc = "put", !.f = f]) /\ UNCHANGED upd
     \/ /\ f \notin signaled /\ Update(t)
        /\ Set(t, [Idle EXCEPT !.pc = "asked", !.f = f, !.ok = (op = "wait")])
  /\ UNCHANGED <<world, device, last_read_seqno, fence_queue_waiters, sync, fence_list,
                 signaled, handles, freed, seq_passed_actions, events, irq, work>>

Asked(t) ==
  /\ At(t, "asked")
  /\ Goto(t, IF th[t].ok /\ th[t].f \notin signaled THEN "enter" ELSE "put")
  /\ UNCHANGED <<world, device, last_read_seqno, fence_queue_waiters, sync, fences, events,
                 upd, irq, work>>

\* Faulty variant: the second waiter turns the interrupt on.
EnterSecond(t) ==
  /\ At(t, "enter")
  /\ fence_queue_waiters' = fence_queue_waiters + 1
  /\ IF fence_queue_waiters = 1 THEN Enable("any") ELSE UNCHANGED <<mask, status>>
  /\ Goto(t, "lock")
  /\ UNCHANGED <<world, emitted, passed, goal, last_read_seqno, sync, fences, events, upd,
                 irq, work>>

\* vmw_seqno_waiter_add()
Enter(t) ==
  /\ At(t, "enter")
  /\ fence_queue_waiters' = fence_queue_waiters + 1
  /\ IF fence_queue_waiters = 0 THEN Enable("any") ELSE UNCHANGED <<mask, status>>
  /\ Goto(t, "lock")
  /\ UNCHANGED <<world, emitted, passed, goal, last_read_seqno, sync, fences, events, upd,
                 irq, work>>

\* A turn of the loop of vmw_fence_wait(), from the first line under the lock ...
Turn(t) ==
  /\ At(t, "lock")
  /\ Update(t)
  /\ Goto(t, "look")
  /\ UNCHANGED <<world, device, last_read_seqno, fence_queue_waiters, sync, fences, events,
                 irq, work>>

\* ... to the last.
Look(t) ==
  /\ th[t].pc = "look" /\ upd.by = t /\ upd.pc = "done"
  /\ upd' = Unlocked
  /\ Goto(t, IF th[t].f \in signaled THEN "out" ELSE "asleep")
  /\ UNCHANGED <<world, device, last_read_seqno, fence_queue_waiters, sync, fences, events,
                 irq, work>>

\* The wait times out or meets a signal.
Interrupted(t) ==
  /\ "timeout" \in world.fail /\ th[t].pc \in {"lock", "asleep"} /\ ~Locked
  /\ Goto(t, "out")
  /\ UNCHANGED <<world, device, last_read_seqno, fence_queue_waiters, sync, fences, events,
                 upd, irq, work>>

\* vmw_seqno_waiter_remove()
Out(t) ==
  /\ At(t, "out")
  /\ fence_queue_waiters' = fence_queue_waiters - 1
  /\ mask' = IF fence_queue_waiters = 1 THEN mask \ {"any"} ELSE mask
  /\ Goto(t, "put")
  /\ UNCHANGED <<world, emitted, passed, goal, status, last_read_seqno, sync, fences,
                 events, upd, irq, work>>

------------------------------------------------------------------------------
(* The file is closed: vmw_preclose() and vmw_postclose() *)

Close(t) ==
  /\ MayCall(t, "close")
  /\ Goto(t, "gone")
  /\ UNCHANGED <<world, device, last_read_seqno, fence_queue_waiters, sync, fences, events,
                 upd, irq, work>>

FileEvents(t) == {a \in Actions : act[a].file = t /\ act[a].event = "pending"}

\* A turn of the loop of vmw_event_fence_fpriv_gone().
FprivGone(t) ==
  /\ At(t, "gone") /\ ~Locked
  /\ \E a \in FileEvents(t) : act' = [act EXCEPT ![a].event = "destroyed"]
  /\ UNCHANGED <<world, device, last_read_seqno, fence_queue_waiters, sync, fences,
                 cleanup_list, upd, irq, work, th>>

\* ttm_object_file_release() drops the handles.
PostClose(t) ==
  /\ At(t, "gone") /\ FileEvents(t) = {}
  /\ handles' = {h \in handles : h[1] # t}
  /\ refs' = [f \in Fences |-> IF <<t, f>> \in handles THEN refs[f] - 1 ELSE refs[f]]
  /\ Goto(t, "closed")
  /\ UNCHANGED <<world, device, last_read_seqno, fence_queue_waiters, sync, fence_list,
                 signaled, freed, seq_passed_actions, events, upd, irq, work>>

Call(t) ==
  \/ SendFence(t) \/ Close(t)
  \/ \E f \in Fences :
       \/ Unref(t, f)
       \/ \E a \in Actions : EventQueue(t, f, a)
       \/ \E op \in {"wait", "query"} : Ask(t, f, op)

Continue(t) ==
  \/ Sent(t) \/ FenceInit(t) \/ CopyFenceUser(t) \/ Put(t)
  \/ AddAction(t) \/ GoalIrq(t) \/ RunUpdate(t) \/ Added(t)
  \/ Asked(t) \/ Enter(t) \/ Turn(t) \/ Look(t) \/ Out(t)
  \/ FprivGone(t) \/ PostClose(t)

Kernel ==
  \/ Walk \/ Reread
  \/ IrqRead \/ IrqAck \/ IrqUpdate
  \/ WorkTake \/ WorkGoal \/ WorkCleanup

Next ==
  \/ Pass
  \/ Kernel
  \/ \E f \in Fences : Destroy(f)
  \/ \E t \in Threads : Call(t) \/ Continue(t) \/ Interrupted(t)

Spec == Init /\ [][Next]_vars

------------------------------------------------------------------------------
(* Properties. *)

\* No fence is signaled, and no event sent, before the device has passed the fence,
\* however the numbers wrap around.
NeverEarly ==
  /\ \A f \in signaled : f <= passed
  /\ \A a \in Actions : act[a].event = "sent" => act[a].fence <= passed

Count(S) == Cardinality(S)
InList(s, x) == \E i \in DOMAIN s : s[i] = x

\* References are counted exactly, and nothing leads to a fence that was freed.
FenceRefExact ==
  \A f \in Fences :
    /\ refs[f] =
         Count({a \in Actions : act[a].fence = f}) + Count({h \in handles : h[2] = f})
           + Count({t \in Threads : th[t].f = f /\ th[t].pc \notin {"sent", "init"}})
    /\ f \in freed => refs[f] = 0 /\ ~InList(fence_list, f)

\* An action is on exactly one list until it is freed, and its event is still wanted as
\* long as its fence has not passed.
ActionsExact ==
  \A a \in Actions :
    LET on == Count({f \in Fences : InList(seq_passed_actions[f], a)})
                + (IF InList(cleanup_list, a) THEN 1 ELSE 0)
                + (IF InList(work.list, a) THEN 1 ELSE 0)
                + Count({t \in Threads : th[t].pc = "add" /\ th[t].a = a}) IN
    /\ on = (IF act[a] = NoAction THEN 0 ELSE 1)
    /\ InList(cleanup_list, a) \/ InList(work.list, a) => act[a].event # "pending"

\* Nobody is about to update the fences.
Quiet ==
  /\ ~Locked /\ irq.pc = "none" /\ status \cap mask = {}
  /\ \A t \in Threads : th[t].pc \notin {"goal", "lock"}

\* A fence that has passed does not keep its waiters back: somebody is about to update
\* the fences, or an interrupt is on its way.  Its events wait for the goal at most,
\* which is a fence still to pass.
NothingMissed ==
  Quiet /\ world.cmdbuf =>
    /\ \A t \in Threads : th[t].pc = "asleep" => th[t].f > passed
    /\ \A f \in Fences : seq_passed_actions[f] # <<>> =>
         \E g \in Fences : goal = Seqno(g) /\ g > passed

\* The interrupts are on while they are needed, and off when they are not.
IrqsExact ==
  /\ fence_queue_waiters =
       Count({t \in Threads : th[t].pc \in {"lock", "look", "asleep", "out"}})
  /\ ("any" \in mask) = (fence_queue_waiters > 0)
  /\ ("goal" \in mask) = goal_irq_on
  /\ (\E f \in Fences : seq_passed_actions[f] # <<>>) => seqno_valid
  /\ seqno_valid /\ goal_irq_mutex = None => goal_irq_on
  /\ goal_irq_on /\ ~seqno_valid /\ ~Locked =>
       work.pending \/ work.pc # "none"

\* The device goes on, and threads, interrupt and work come to run.
Fairness ==
  /\ WF_vars(Pass) /\ WF_vars(Walk \/ Reread)
  /\ WF_vars(IrqRead \/ IrqAck \/ IrqUpdate)
  /\ WF_vars(WorkTake \/ WorkGoal \/ WorkCleanup)
  /\ \A t \in Threads : WF_vars(Continue(t))

FairSpec == Spec /\ Fairness

Returned(t) == th[t].pc \in {"idle", "closed"}
Answered(a) == act[a].event # "pending"

\* Every event that was asked for is sent, unless its file is closed, although the
\* interrupts are off whenever nobody waits.
EventsSent == \A a \in Actions : []<>Answered(a)

\* Every wait, and every other call, returns.
WaitsEnd == \A t \in Threads : []<>Returned(t)
=============================================================================

------------------------------- MODULE Vblank -------------------------------
(***************************************************************************)
(* Vertical-blank accounting of one crtc (drm_irq.c).                      *)
(*                                                                         *)
(* The hardware counts vblanks in hw, a register of MaxHw + 1 values, and  *)
(* raises an interrupt for each while irq_on.  The driver core keeps a     *)
(* cooked count that must look as if it had ticked all along, although the *)
(* interrupt is off whenever nobody holds a reference, and although the    *)
(* register restarts when the crtc is reprogrammed.  Every vblank carries  *)
(* a timestamp; the one of count c is kept in slot c % RbSize of a ring,   *)
(* which drm_vblank_count_and_time() reads without a lock.                 *)
(*                                                                         *)
(* n is the index of the vblank interval the display is in and stands for  *)
(* the time: the 1 ms threshold of the code only asks whether two          *)
(* timestamps belong to the same interval, so timestamps are compared for  *)
(* equality.                                                               *)
(*                                                                         *)
(* Every writer of count holds vblank_time_lock, and all but the interrupt *)
(* handler also hold vbl_lock: sect is the one critical section in         *)
(* progress, cut where a lock-free reader or the hardware can be seen to   *)
(* intervene.  drm_vblank_put() and the readers take no lock.  The delayed *)
(* and the immediate disable are one action: vblank_disable_fn() looks at  *)
(* refcount again under vbl_lock in both.                                  *)
(***************************************************************************)
EXTENDS Integers, FiniteSets

CONSTANTS
    Threads,     \* threads in the WAIT_VBLANK ioctl, all of one drm_file
    Events,      \* event_space of the file, in events
    MaxHw,       \* dev->max_vblank_count
    HwReset,     \* the register's value when the crtc comes up
    CountMod,    \* count is an unsigned integer modulo this (2^32)
    Window,      \* a sequence number up to this far back has passed (1 << 23)
    RbSize,      \* DRM_VBLANKTIME_RBSIZE
    TimeMod,     \* bound on n
    Wraps,       \* whether n starts again at the bound
    InitCount,   \* count at the start
    Requests,    \* sequence numbers asked for, relative to the current one
    Devices,     \* the kinds of device that are considered
    TimesOut,    \* whether a wait may reach its limit of 3 seconds
    MaxModesets, \* bound on the calls of drm_vblank_off, unless n starts again
    None

\* precise: the driver has get_vblank_timestamp; off_delay: FALSE when
\* drm_vblank_offdelay is 0; style: the pair of calls the driver makes around
\* a modeset; unbalanced: which of "off" and "on" it also calls out of turn;
\* get_fails, on_fails: enable_vblank may fail in drm_vblank_get, in
\* drm_vblank_on.
DeviceKind == [precise : BOOLEAN, off_delay : BOOLEAN, style : {"off_on", "pre_post"},
               unbalanced : SUBSET {"off", "on"}, get_fails : BOOLEAN,
               on_fails : BOOLEAN]

ASSUME VblankAssumption ==
    /\ MaxHw \in Nat \ {0} /\ HwReset \in 0 .. MaxHw
    /\ CountMod \in Nat \ {0} /\ InitCount \in 0 .. CountMod - 1
    /\ Window \in Nat /\ 2 * Window < CountMod
    /\ RbSize \in Nat \ {0} /\ CountMod % RbSize = 0
    /\ TimeMod \in Nat /\ TimeMod > 1 /\ MaxModesets \in Nat
    /\ Requests \subseteq Int
    /\ {Wraps, TimesOut} \subseteq BOOLEAN
    /\ Devices \subseteq DeviceKind
    /\ None \notin Threads
    /\ IsFiniteSet(Threads) /\ IsFiniteSet(Events)

VARIABLES
    dev,        \* the device: its driver and module parameters never change
    n,          \* the vblank interval the display is in
    running,    \* whether the crtc scans out
    hw,         \* the hardware frame counter
    irq_on,     \* whether the hardware raises vblank interrupts
    pending,    \* an interrupt raised and not handled yet
    count,      \* vblank->count
    last,       \* vblank->last
    time,       \* vblank->time
    enabled,    \* vblank->enabled
    refcount,   \* vblank->refcount
    inmodeset,  \* vblank->inmodeset
    allowed,    \* dev->vblank_disable_allowed
    timer,      \* vblank->disable_timer is armed
    ev,         \* the file's events
    sect,       \* the critical section in progress
    th,         \* the threads
    stamp,      \* history: the timestamp published with count
    fresh,      \* history: no count published since drm_vblank_on
    off_count,  \* history: count when drm_vblank_off last returned
    modesets    \* calls of drm_vblank_off, up to MaxModesets

hardware == <<dev, n, running, hw, irq_on, pending>>
refs == <<refcount, timer, ev>>
mode == <<inmodeset, allowed>>
history == <<stamp, fresh, off_count, modesets>>
vars == <<hardware, count, last, time, enabled, refs, mode, sect, th, history>>

Counts == 0 .. CountMod - 1
NoSect == [op |-> "none", step |-> "none", by |-> None, cnt |-> 0, late |-> FALSE]
Idle == [pc |-> "idle", seq |-> 0, miss |-> FALSE, cur |-> 0, ts |-> None]
FreeEvent == [st |-> "free", seq |-> 0]

\* Faulty variant: every count uses the same slot.
SlotSingle(c) == 0

Slot(c) == c % RbSize

\* (c - s) <= (1 << 23) in unsigned arithmetic.
Passed(c, s) == (c - s) % CountMod <= Window

Init ==
    /\ dev \in Devices
    /\ n = 1 /\ running = TRUE /\ hw = HwReset
    /\ irq_on = FALSE /\ pending = FALSE
    /\ count = InitCount /\ time = [i \in 0 .. RbSize - 1 |-> 0]
    /\ last = IF dev.style = "off_on" THEN (HwReset - 1) % (MaxHw + 1) ELSE 0
    /\ enabled = FALSE /\ refcount = 0 /\ inmodeset = 0
    /\ allowed = (dev.style = "off_on") /\ timer = FALSE
    /\ ev = [e \in Events |-> FreeEvent]
    /\ sect = NoSect /\ th = [t \in Threads |-> Idle]
    /\ stamp = 0 /\ fresh = TRUE /\ off_count = None
    /\ modesets = 0

-----------------------------------------------------------------------------
(* The hardware.                                                           *)

\* A vblank begins.  Interrupt latency is below a frame, so the handler of the
\* previous one has run, and so is the length of a section under a spinlock,
\* so at most one vblank begins in it.
Tick ==
    /\ running /\ ~pending /\ ~sect.late
    /\ sect' = IF sect = NoSect THEN sect ELSE [sect EXCEPT !.late = TRUE]
    /\ Wraps \/ n + 1 < TimeMod
    /\ n' = (n + 1) % TimeMod
    /\ hw' = (hw + 1) % (MaxHw + 1)
    /\ pending' = irq_on
    /\ UNCHANGED <<dev, running, irq_on, count, last, time, enabled, refs,
                   mode, th, history>>

\* The driver stops the crtc after drm_vblank_off.
CrtcDisable ==
    /\ dev.style = "off_on" /\ running /\ inmodeset # 0 /\ sect = NoSect
    /\ running' = FALSE
    /\ UNCHANGED <<dev, n, hw, irq_on, pending, count, last, time, enabled,
                   refs, mode, sect, th, history>>

\* Reprogramming the crtc restarts the counter: while it is off, or under
\* drm_vblank_pre_modeset.
CrtcReset ==
    /\ sect = NoSect
    /\ ~running \/ (dev.style = "pre_post" /\ inmodeset # 0)
    /\ running' = TRUE /\ hw' = HwReset
    /\ UNCHANGED <<dev, n, irq_on, pending, count, last, time, enabled, refs,
                   mode, sect, th, history>>

-----------------------------------------------------------------------------
(* Publishing a count: its timestamp first, then the count.                *)

\* Where a section goes on once the count is up to date.
After(op) ==
    IF op = "off"
    THEN [NoSect EXCEPT !.op = "off", !.step = "done", !.late = sect.late]
    ELSE NoSect

Publish(op, by, cnt, stamped) ==
    /\ time' = IF stamped THEN [time EXCEPT ![Slot(cnt)] = n] ELSE time
    /\ sect' = [op |-> op, step |-> "commit", by |-> by, cnt |-> cnt, late |-> sect.late]

\* Faulty variant: the vblank the display is in is left to the interrupt.
MissedButCurrent == IF hw = last THEN 0 ELSE hw - last - 1

Missed == IF hw < last THEN hw - last + MaxHw ELSE hw - last

\* drm_update_vblank_count
UpdateCount(op, by) ==
    IF Missed = 0
    THEN sect' = After(op) /\ UNCHANGED time
    ELSE Publish(op, by, (count + Missed) % CountMod, dev.precise)

\* Faulty variant: the filter of redundant interrupts is left out.
NewIntervalAlways == TRUE

\* The stored timestamp of the current count is of an earlier interval.
NewInterval == n # time[Slot(count)]

\* References that k calls of drm_vblank_put leave of r.
Dropped(r, k) == IF r \in 0 .. k THEN 0 ELSE r - k

\* drm_vblank_put, k times, starting from r references.
Put(r, k) ==
    /\ refcount' = Dropped(r, k)
    /\ timer' = (timer \/ (r \in 1 .. k /\ dev.off_delay))

Queued == {e \in Events : ev[e].st = "queued"}

\* Faulty variant: sent events keep their references.
HeldByNone(es) == 0

\* References held by the events es.
HeldBy(es) == Cardinality(es)

\* Hand the events es to the file and drop their references.
Send(es, r) ==
    /\ ev' = [e \in Events |-> IF e \in es THEN [FreeEvent EXCEPT !.st = "sent"]
                               ELSE ev[e]]
    /\ Put(r, HeldBy(es))

-----------------------------------------------------------------------------
(* The interrupt handler.                                                  *)

\* Faulty variant: the sequence numbers are not looked at.
HandleAllEvents(c) == Send(Queued, refcount)

\* Faulty variant: no event is ever sent.
HandleNoEvents(c) == UNCHANGED refs

\* drm_handle_vblank_events at count c
HandleEvents(c) == Send({e \in Queued : Passed(c, ev[e].seq)}, refcount)

\* drm_handle_vblank up to the new timestamp, or all of it when there is none.
HandleVblank ==
    /\ sect = NoSect
    /\ pending' = FALSE
    /\ \/ /\ enabled /\ NewInterval
          /\ Publish("irq", None, (count + 1) % CountMod, TRUE)
          /\ UNCHANGED refs
       \/ /\ enabled /\ ~NewInterval
          /\ HandleEvents(count)
          /\ UNCHANGED <<sect, time>>
       \/ /\ ~enabled
          /\ UNCHANGED <<sect, time, refs>>
    /\ UNCHANGED <<dev, n, running, hw, irq_on, count, last, enabled, mode, th,
                   history>>

Irq == pending /\ HandleVblank
SpuriousIrq == ~pending /\ irq_on /\ HandleVblank

\* The count becomes visible; the interrupt handler then sends events.
Commit ==
    /\ sect.step = "commit"
    /\ count' = sect.cnt
    /\ sect' = After(sect.op)
    /\ IF sect.op = "irq" THEN HandleEvents(sect.cnt)
                          ELSE UNCHANGED refs
    /\ stamp' = time[Slot(sect.cnt)]
    /\ fresh' = FALSE
    /\ UNCHANGED <<hardware, last, time, enabled, mode, th, off_count,
                   modesets>>

-----------------------------------------------------------------------------
(* Turning the interrupt off and on.                                       *)

\* vblank_disable_and_save up to the end of interrupt processing.
DisableVblank(op) ==
    /\ irq_on' = FALSE /\ enabled' = FALSE
    /\ sect' = [NoSect EXCEPT !.op = op, !.step = "save"]

\* Faulty variant: the cooked count is saved in place of the hardware's.
SampledCooked == count

\* The hardware count that is kept in vblank->last.
Sampled == hw

\* vblank_disable_and_save from sampling the hardware counter.
Save ==
    /\ sect.step = "save"
    /\ last' = Sampled
    /\ IF dev.precise /\ NewInterval
       THEN Publish(sect.op, None, (count + 1) % CountMod, TRUE)
       ELSE sect' = After(sect.op) /\ UNCHANGED time
    /\ UNCHANGED <<hardware, count, enabled, refs, mode, th, history>>

\* Faulty variant: refcount is not looked at again.
UnusedUnchecked == allowed /\ enabled

\* Nobody needs the interrupt.
Unused == allowed /\ refcount = 0 /\ enabled

\* vblank_disable_fn, from the timer or from the last drm_vblank_put.
DisableFn ==
    /\ timer /\ sect = NoSect
    /\ timer' = FALSE
    /\ IF Unused
       THEN DisableVblank("disable")
       ELSE UNCHANGED <<irq_on, enabled, sect>>
    /\ UNCHANGED <<dev, n, running, hw, pending, count, last, time, refcount,
                   mode, ev, th, history>>

\* drm_vblank_enable when enable_vblank succeeds.
EnableVblank(op, by) ==
    /\ irq_on' = TRUE /\ enabled' = TRUE
    /\ UpdateCount(op, by)

\* drm_vblank_get succeeds.
Acquire(by) ==
    /\ refcount' = refcount + 1
    /\ \/ refcount = 0 /\ ~enabled /\ EnableVblank("get", by)
       \/ enabled /\ UNCHANGED <<irq_on, enabled, sect, time>>

\* drm_vblank_get fails: the crtc is off, or enable_vblank failed.
Refused == ~enabled /\ (refcount # 0 \/ dev.get_fails)

-----------------------------------------------------------------------------
(* Modesets.                                                               *)

\* drm_vblank_off: vblank_disable_and_save
Off ==
    /\ dev.style = "off_on" /\ sect = NoSect
    /\ "off" \in dev.unbalanced \/ inmodeset = 0
    /\ Wraps \/ modesets < MaxModesets
    /\ IF ~enabled /\ dev.precise
       THEN UpdateCount("off", None) /\ UNCHANGED <<irq_on, enabled>>
       ELSE DisableVblank("off") /\ UNCHANGED time
    /\ UNCHANGED <<dev, n, running, hw, pending, count, last, refs, mode, th,
                   history>>

\* drm_vblank_off: the reference that keeps drm_vblank_get out, and the
\* events sent early.
OffDone ==
    /\ sect.op = "off" /\ sect.step = "done"
    /\ sect' = NoSect
    /\ inmodeset' = 1
    /\ Send(Queued, IF inmodeset = 0 THEN refcount + 1 ELSE refcount)
    /\ off_count' = count
    /\ modesets' = IF Wraps THEN modesets ELSE modesets + 1
    /\ UNCHANGED <<hardware, count, last, time, enabled, allowed, th, stamp,
                   fresh>>

\* Faulty variant: the counter is not sampled again.
ResampleNot == last

\* The counter value drm_vblank_on takes as already accounted for.
Resample == (hw - 1) % (MaxHw + 1)

\* drm_vblank_on: the private reference is dropped and the counter sampled.
On ==
    /\ dev.style = "off_on" /\ sect = NoSect /\ running
    /\ "on" \in dev.unbalanced \/ inmodeset # 0
    /\ refcount' = IF inmodeset # 0 THEN refcount - 1 ELSE refcount
    /\ inmodeset' = 0
    /\ last' = Resample
    /\ sect' = IF refcount' # 0 \/ ~dev.off_delay
               THEN [NoSect EXCEPT !.op = "on", !.step = "enable"] ELSE NoSect
    /\ fresh' = TRUE
    /\ UNCHANGED <<hardware, count, time, enabled, allowed, timer, ev, th,
                   stamp, off_count, modesets>>

\* drm_vblank_on: drm_vblank_enable for the users that are left.
OnEnable ==
    /\ sect.step = "enable"
    /\ \/ /\ ~enabled /\ EnableVblank("on", None)
          /\ UNCHANGED refcount
       \/ /\ ~enabled /\ dev.on_fails
          /\ refcount' = refcount - 1
          /\ sect' = NoSect
          /\ UNCHANGED <<irq_on, enabled, time>>
       \/ /\ enabled
          /\ sect' = NoSect
          /\ UNCHANGED <<irq_on, enabled, time, refcount>>
    /\ UNCHANGED <<dev, n, running, hw, pending, count, last, mode, timer, ev,
                   th, history>>

\* drm_vblank_pre_modeset
PreModeset ==
    /\ dev.style = "pre_post" /\ sect = NoSect /\ inmodeset = 0
    /\ \/ inmodeset' = 3 /\ Acquire(None)
       \/ /\ Refused
          /\ inmodeset' = 1
          /\ UNCHANGED <<refcount, irq_on, enabled, sect, time>>
    /\ UNCHANGED <<dev, n, running, hw, pending, count, last, allowed, timer,
                   ev, th, history>>

\* The reference drm_vblank_pre_modeset took.
Temporary == IF inmodeset = 3 THEN 1 ELSE 0

\* drm_vblank_post_modeset
PostModeset ==
    /\ dev.style = "pre_post" /\ sect = NoSect /\ inmodeset # 0
    /\ allowed' = TRUE
    /\ Put(refcount, Temporary)
    /\ inmodeset' = 0
    /\ UNCHANGED <<hardware, count, last, time, enabled, ev, sect, th,
                   history>>

-----------------------------------------------------------------------------
(* The WAIT_VBLANK ioctl.                                                  *)

core == <<dev, n, running, hw, pending, count, last, inmodeset, allowed,
          history>>

\* drm_wait_vblank takes its reference; a failure ends the call.
Get(t) ==
    /\ th[t].pc = "idle" /\ sect = NoSect
    /\ Acquire(t)
    /\ th' = [th EXCEPT ![t].pc = "got"]
    /\ UNCHANGED <<core, timer, ev>>

\* The sequence number asked for, made absolute.
Request(t) ==
    /\ th[t].pc = "got" /\ sect.by # t
    /\ \E r \in Requests, miss \in BOOLEAN :
         LET seq == (count + r) % CountMod
             next == IF miss /\ Passed(count, seq) THEN (count + 1) % CountMod ELSE seq
         IN  \/ th' = [th EXCEPT ![t].pc = "queue", ![t].seq = seq, ![t].miss = miss]
             \/ th' = [th EXCEPT ![t].pc = "wait", ![t].seq = next]
    /\ UNCHANGED <<core, irq_on, time, enabled, refs, sect>>

\* Faulty variant: drm_vblank_off since drm_vblank_get is not noticed.
UnqueueableUnchecked(room) == room = {}

\* drm_queue_vblank_event fails: -EINVAL or -EBUSY.
Unqueueable(room) == ~enabled \/ room = {}

\* drm_queue_vblank_event.  Its error paths drop the reference.
Queue(t) ==
    LET seq == IF th[t].miss /\ Passed(count, th[t].seq)
               THEN (count + 1) % CountMod ELSE th[t].seq
        room == {e \in Events : ev[e].st = "free"}
    IN  /\ th[t].pc = "queue" /\ sect = NoSect
        /\ \/ /\ Unqueueable(room)
              /\ Put(refcount, 1)
              /\ UNCHANGED ev
           \/ /\ ~Unqueueable(room)
              /\ \E e \in room :
                   IF Passed(count, seq)
                   THEN Send({e}, refcount)
                   ELSE /\ ev' = [ev EXCEPT ![e] = [st |-> "queued", seq |-> seq]]
                        /\ UNCHANGED <<refcount, timer>>
        /\ th' = [th EXCEPT ![t] = Idle]
        /\ UNCHANGED <<core, irq_on, time, enabled, sect>>

\* DRM_WAIT_ON ends by its condition, its time limit or a signal.
WaitOver(t) ==
    /\ th[t].pc = "wait"
    /\ Passed(count, th[t].seq) \/ ~enabled \/ TimesOut
    /\ th' = [th EXCEPT ![t] = [Idle EXCEPT !.pc = "read"]]
    /\ UNCHANGED <<core, irq_on, time, enabled, refs, sect>>

WaitInterrupted(t) ==
    /\ th[t].pc = "wait"
    /\ th' = [th EXCEPT ![t] = [Idle EXCEPT !.pc = "put"]]
    /\ UNCHANGED <<core, irq_on, time, enabled, refs, sect>>

\* drm_vblank_count_and_time: count, slot, count again.
ReadCount(t) ==
    /\ th[t].pc = "read"
    /\ th' = [th EXCEPT ![t].pc = "slot", ![t].cur = count]
    /\ UNCHANGED <<core, irq_on, time, enabled, refs, sect>>

ReadSlot(t) ==
    /\ th[t].pc = "slot"
    /\ th' = [th EXCEPT ![t].pc = "check", ![t].ts = time[Slot(th[t].cur)]]
    /\ UNCHANGED <<core, irq_on, time, enabled, refs, sect>>

Recheck(t) ==
    /\ th[t].pc = "check"
    /\ th' = [th EXCEPT ![t] = [Idle EXCEPT !.pc = IF th[t].cur = count
                                                   THEN "put" ELSE "read"]]
    /\ UNCHANGED <<core, irq_on, time, enabled, refs, sect>>

\* The end of drm_wait_vblank: drm_vblank_put, which takes no lock.
Done(t) ==
    /\ th[t].pc = "put"
    /\ Put(refcount, 1)
    /\ th' = [th EXCEPT ![t] = Idle]
    /\ UNCHANGED <<core, irq_on, time, enabled, ev, sect>>

\* drm_read returns one event.
ReadEvent(e) ==
    /\ ev[e].st = "sent"
    /\ ev' = [ev EXCEPT ![e] = FreeEvent]
    /\ UNCHANGED <<core, irq_on, time, enabled, refcount, timer, sect, th>>

\* drm_events_release, when the file is closed; another open follows.
ReleaseEvents ==
    /\ sect = NoSect /\ \A t \in Threads : th[t].pc = "idle"
    /\ \E e \in Events : ev[e] # FreeEvent
    /\ ev' = [e \in Events |-> FreeEvent]
    /\ Put(refcount, Cardinality(Queued))
    /\ UNCHANGED <<core, irq_on, time, enabled, sect, th>>

-----------------------------------------------------------------------------
\* Steps that finish a critical section.
Section == Commit \/ Save \/ OffDone \/ OnEnable

Call(t) ==
    \/ Get(t) \/ Request(t) \/ Queue(t) \/ WaitOver(t) \/ WaitInterrupted(t)
    \/ ReadCount(t) \/ ReadSlot(t) \/ Recheck(t) \/ Done(t)

Next ==
    \/ Tick \/ CrtcDisable \/ CrtcReset
    \/ Irq \/ SpuriousIrq \/ Section \/ DisableFn
    \/ Off \/ On \/ PreModeset \/ PostModeset
    \/ \E t \in Threads : Call(t)
    \/ \E e \in Events : ReadEvent(e)
    \/ ReleaseEvents

Spec == Init /\ [][Next]_vars

\* The display keeps scanning out, interrupts are handled, and a section under
\* a spinlock comes to its end.
FairSpec == Spec /\ WF_vars(Tick) /\ WF_vars(Irq) /\ WF_vars(Section)

-----------------------------------------------------------------------------
(* Properties.                                                             *)

Holders == {t \in Threads : th[t].pc # "idle"}

\* The reference a modeset holds.
ModesetReference ==
    IF inmodeset = 3 \/ (dev.style = "off_on" /\ inmodeset = 1) THEN 1 ELSE 0

Quiet == sect = NoSect

\* enable_vblank does not fail in drm_vblank_on: when it does,
\* drm_vblank_enable drops a reference that is not drm_vblank_on's.
OnWorks == ~dev.on_fails

\* The count can be kept: timestamps tell vblanks apart, and no modeset went
\* without the reference drm_vblank_pre_modeset asks for.
Counting == dev.precise /\ OnWorks /\ ~(dev.style = "pre_post" /\ dev.get_fails)

\* Every variable keeps the range of the field it stands for.
TypeOK ==
    /\ dev \in Devices
    /\ n \in 0 .. TimeMod - 1 /\ hw \in 0 .. MaxHw /\ last \in 0 .. MaxHw
    /\ running \in BOOLEAN /\ irq_on \in BOOLEAN /\ pending \in BOOLEAN
    /\ enabled \in BOOLEAN /\ allowed \in BOOLEAN /\ timer \in BOOLEAN
    /\ fresh \in BOOLEAN
    /\ count \in Counts
    /\ time \in [0 .. RbSize - 1 -> 0 .. TimeMod - 1]
    /\ refcount \in Int /\ inmodeset \in {0, 1, 3}
    /\ ev \in [Events -> [st : {"free", "queued", "sent"}, seq : Counts]]
    /\ sect \in [op : {"none", "irq", "get", "disable", "off", "on"},
                 step : {"none", "commit", "save", "done", "enable"},
                 by : Threads \cup {None}, cnt : Counts, late : BOOLEAN]
    /\ th \in [Threads -> [pc : {"idle", "got", "queue", "wait", "read", "slot",
                                 "check", "put"},
                            seq : Counts, miss : BOOLEAN, cur : Counts,
                            ts : 0 .. TimeMod - 1 \cup {None}]]
    /\ stamp \in 0 .. TimeMod - 1
    /\ off_count \in Counts \cup {None} /\ modesets \in 0 .. MaxModesets

\* vblank->refcount is exactly the calls in progress, the queued events and the
\* modeset's own reference, however drm_vblank_get, drm_vblank_put, the
\* interrupt, drm_vblank_off and the closing of the file interleave.
RefcountExact ==
    OnWorks => refcount = Cardinality(Holders) + Cardinality(Queued) + ModesetReference

\* The assertion of drm_vblank_put: a caller that took a reference and comes to
\* give it back finds refcount other than 0.
PutHasReference == \A t \in Threads : th[t].pc = "put" => refcount # 0

\* drm_vblank_get: a reference keeps the vblank interrupt from being disabled
\* while in use; only drm_vblank_off may turn it off under a holder, and
\* drm_vblank_on restores it.
ReferenceKeepsEnabled ==
    OnWorks /\ Quiet /\ inmodeset = 0 /\ refcount > 0 => enabled /\ irq_on

\* References are counted, and the interrupt is on for them.
ReferencesServed == TypeOK /\ RefcountExact /\ ReferenceKeepsEnabled

\* An event waits in the list only while the interrupt that will send it is
\* on, and never beyond the vblank it asked for: drm_queue_vblank_event
\* against drm_vblank_off, drm_vblank_on and drm_handle_vblank.
NoStrandedEvent ==
    OnWorks /\ Quiet => \A e \in Queued :
        enabled /\ (~pending => ~Passed(count, ev[e].seq))

\* With the interrupt on and handled, the count is up to date: its timestamp is
\* that of the interval the display is in (precise timestamps).
UpToDate ==
    Counting /\ Quiet /\ enabled /\ ~pending => time[Slot(count)] = n

\* The count advances by as many vblanks as went by between the timestamps
\* of the two counts, whether they were counted by interrupts, by
\* vblank_disable_and_save or from the hardware counter; drm_vblank_on
\* starts afresh.
CountFollowsTime ==
    [][Counting /\ count' # count /\ ~fresh =>
         (count' - count) % CountMod = stamp' - stamp]_vars

\* What drm_vblank_count_and_time is about to return to a caller without a
\* lock is a count with the timestamp published for that count.
TimeMatchesCount ==
    Counting /\ dev.style = "pre_post" => \A t \in Threads :
        th[t].pc = "check" /\ th[t].cur = count => th[t].ts = stamp

\* Once interrupts are on again after drm_vblank_on, the count differs from
\* the one drm_vblank_off left behind.
NewCountAfterModeset ==
    Counting /\ Quiet /\ inmodeset = 0 /\ enabled => count # off_count

\* The count the interrupts keep and the readers see is that of the display.
CountCurrent == UpToDate /\ TimeMatchesCount /\ NewCountAfterModeset

\* An event is sent when its vblank has come; only drm_vblank_off sends it
\* early.
EventsNotEarly ==
    [][\A e \in Events : ev[e].st = "queued" /\ ev'[e].st = "sent" =>
         Passed(count', ev[e].seq) \/ sect.op = "off"]_vars

Dequeued(e) == ev[e].st # "queued"

\* A queued event does not stay queued: its vblank comes, or drm_vblank_off
\* or the closing of the file takes it from the list.
EventsLeaveQueue == \A e \in Events : []<>Dequeued(e)

=============================================================================

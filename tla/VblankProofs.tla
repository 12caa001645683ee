---------------------------- MODULE VblankProofs ----------------------------
(***************************************************************************)
(* What drm_irq.c keeps for any number of threads and events, any counter  *)
(* widths and any kind of driver: the references are counted, the          *)
(* interrupt is on for whoever holds one, no event is stranded in the list *)
(* and none is sent early.                                                 *)
(*                                                                         *)
(* The inductive invariant IInv says, besides, at which step a critical    *)
(* section can be and what holds in the middle of it, where the            *)
(* properties, which are about the time between sections, say nothing.     *)
(***************************************************************************)
EXTENDS Vblank, FiniteSetTheorems, TLAPS

\* The steps of each section.
Sections ==
    \/ sect = NoSect
    \/ sect.step = "commit" /\ sect.op \in {"irq", "get", "disable", "off", "on"}
    \/ sect.step = "save" /\ sect.op \in {"disable", "off"}
    \/ sect.step = "done" /\ sect.op = "off"
    \/ sect.step = "enable" /\ sect.op = "on"

\* drm_vblank_off and drm_vblank_on belong to one style of driver, which never
\* takes the reference of drm_vblank_pre_modeset.
Styles ==
    /\ sect.op = "off" => dev.style = "off_on" /\ (Wraps \/ modesets < MaxModesets)
    /\ sect.op = "on" => dev.style = "off_on"
    /\ dev.style = "off_on" => inmodeset \in {0, 1}

\* vblank->enabled says what was asked of the hardware.
SwitchedTogether == irq_on = enabled

\* Whoever holds a reference has the interrupt: only drm_vblank_off takes it
\* away, until drm_vblank_on has come to its end.
UsersServed ==
    /\ dev.style = "pre_post" \/ inmodeset = 0
    /\ refcount > 0 /\ sect.op # "off" /\ sect.step # "enable"
    => enabled

\* vblank_disable_fn found nobody, and nobody comes while it works.
DisableUnused == sect.op = "disable" => refcount = 0

\* An event in the list has the interrupt on, except where drm_vblank_off is
\* about to send it; a section that moves the count and sends nothing finds
\* no event.
EventsServed ==
    Queued # {} => \/ sect.op = "off"
                   \/ enabled /\ (sect.op \in {"none", "irq"} \/ sect.step = "enable")

\* An event whose vblank has come is in the list only until the pending
\* interrupt is handled.
EventsWait ==
    sect.op \in {"none", "on"} /\ ~pending =>
        \A e \in Queued : ~Passed(count, ev[e].seq)

Served == OnWorks => UsersServed /\ DisableUnused /\ EventsServed /\ EventsWait

Shape == Sections /\ Styles /\ SwitchedTogether

IInv == TypeOK /\ Shape /\ RefcountExact /\ Served

-----------------------------------------------------------------------------
(* Numbers and sets.                                                       *)

\* Unsigned arithmetic stays in the range of the counter it is for.
LEMMA Wrapped ==
    /\ \A x \in Int : x % CountMod \in Counts
    /\ \A x \in Int : x % TimeMod \in 0 .. TimeMod - 1
    /\ \A x \in Int : x % (MaxHw + 1) \in 0 .. MaxHw
    /\ \A x \in Int : Slot(x) \in 0 .. RbSize - 1
BY VblankAssumption DEF Counts, Slot

\* A count and the steps to the next ones are numbers.
LEMMA Numbers ==
    ASSUME TypeOK
    PROVE  /\ count \in Int /\ count + 1 \in Int /\ n + 1 \in Int
           /\ hw + 1 \in Int /\ hw - 1 \in Int
           /\ \A r \in Requests : count + r \in Int
BY VblankAssumption DEF TypeOK, Counts

\* drm_vblank_put by as many as hold references.
LEMMA DroppedRefs ==
    ASSUME NEW r \in Int, NEW k \in Nat, k <= r
    PROVE  Dropped(r, k) = r - k
BY DEF Dropped

\* Sets of threads and of events are finite.
LEMMA Sizes ==
    /\ \A S \in SUBSET Threads : IsFiniteSet(S) /\ Cardinality(S) \in Nat
    /\ \A S \in SUBSET Events : IsFiniteSet(S) /\ Cardinality(S) \in Nat
BY VblankAssumption, FS_Subset, FS_CardinalityType

\* A call that takes a reference is one more holder.
LEMMA HolderEnters ==
    ASSUME TypeOK, NEW t \in Threads, th[t].pc = "idle",
           th' = [th EXCEPT ![t].pc = "got"]
    PROVE  Cardinality(Holders') = Cardinality(Holders) + 1
<1>1. Holders' = Holders \cup {t} /\ t \notin Holders
  BY DEF TypeOK, Holders
<1>2. IsFiniteSet(Holders) /\ Cardinality(Holders) \in Nat
  BY Sizes DEF Holders
<1> QED
  BY Zenon, <1>1, <1>2, FS_AddElement

\* A call that returns is one holder less.
LEMMA HolderLeaves ==
    ASSUME TypeOK, NEW t \in Threads, th[t].pc # "idle",
           th' = [th EXCEPT ![t] = Idle]
    PROVE  Cardinality(Holders') = Cardinality(Holders) - 1
<1>1. Holders' = Holders \ {t} /\ t \in Holders
  BY DEF TypeOK, Holders, Idle
<1>2. IsFiniteSet(Holders) /\ Cardinality(Holders) \in Nat
  BY Sizes DEF Holders
<1> QED
  BY Zenon, <1>1, <1>2, FS_RemoveElement

\* Events that are sent leave the list, and as many references are dropped.
LEMMA EventsLeave ==
    ASSUME TypeOK, NEW S \in SUBSET Queued, NEW r \in Int,
           Cardinality(Queued) <= r, Send(S, r)
    PROVE  /\ Queued' = Queued \ S
           /\ \A e \in Queued' : ev'[e] = ev[e]
           /\ Cardinality(S) \in Nat
           /\ refcount' = r - Cardinality(S)
           /\ Cardinality(Queued') = Cardinality(Queued) - Cardinality(S)
<1>1. Queued \in SUBSET Events /\ S \in SUBSET Events
  BY DEF Queued
<1>2. /\ IsFiniteSet(Queued) /\ Cardinality(Queued) \in Nat
      /\ IsFiniteSet(S) /\ Cardinality(S) \in Nat
  BY <1>1, Sizes
<1>3. Queued' = Queued \ S /\ \A e \in Queued' : ev'[e] = ev[e]
  BY DEF Queued, Send, FreeEvent, TypeOK
<1>4. Queued \cap S = S
  OBVIOUS
<1>5. Cardinality(Queued') = Cardinality(Queued) - Cardinality(S)
  <2>1. Cardinality(Queued \ S) = Cardinality(Queued) - Cardinality(Queued \cap S)
    BY Zenon, <1>2, FS_Difference
  <2> QED
    BY Zenon, <1>3, <1>4, <2>1
<1>6. Cardinality(S) <= Cardinality(Queued)
  BY <1>2, FS_Subset
<1>7. refcount' = r - Cardinality(S)
  BY <1>2, <1>6, DroppedRefs DEF Send, Put, HeldBy
<1> QED
  BY <1>2, <1>3, <1>5, <1>7

\* Who counts: every reference is somebody's.
LEMMA Counted ==
    ASSUME TypeOK, RefcountExact, OnWorks
    PROVE  /\ Cardinality(Holders) \in Nat /\ IsFiniteSet(Holders)
           /\ Cardinality(Queued) \in Nat /\ IsFiniteSet(Queued)
           /\ ModesetReference \in {0, 1}
           /\ refcount \in Nat
           /\ refcount = Cardinality(Holders) + Cardinality(Queued) + ModesetReference
           /\ refcount = 0 => Holders = {} /\ Queued = {}
<1>1. /\ Cardinality(Holders) \in Nat /\ IsFiniteSet(Holders)
      /\ Cardinality(Queued) \in Nat /\ IsFiniteSet(Queued)
  BY Sizes DEF Holders, Queued
<1>2. ModesetReference \in {0, 1}
  BY DEF ModesetReference
<1>3. refcount = Cardinality(Holders) + Cardinality(Queued) + ModesetReference
  BY DEF RefcountExact
<1>4. refcount = 0 => Cardinality(Holders) = 0 /\ Cardinality(Queued) = 0
  BY <1>1, <1>2, <1>3
<1>5. refcount = 0 => Holders = {} /\ Queued = {}
  BY Zenon, <1>1, <1>4, FS_EmptySet
<1>6. refcount \in Nat
  BY <1>1, <1>2, <1>3
<1> QED
  BY <1>1, <1>2, <1>3, <1>5, <1>6

-----------------------------------------------------------------------------
(* Types.                                                                  *)

SectRecord == [op : {"none", "irq", "get", "disable", "off", "on"},
               step : {"none", "commit", "save", "done", "enable"},
               by : Threads \cup {None}, cnt : Counts, late : BOOLEAN]

Ring == [0 .. RbSize - 1 -> 0 .. TimeMod - 1]

\* Where a section goes on after its count is up to date.
LEMMA AfterIs ==
    ASSUME TypeOK, NEW op
    PROVE  /\ After(op) \in SectRecord
           /\ op = "off" => After(op).op = "off" /\ After(op).step = "done"
           /\ op # "off" => After(op) = NoSect
<1>1. 0 \in Counts /\ sect.late \in BOOLEAN
  BY VblankAssumption DEF TypeOK, Counts
<1>2. CASE op = "off"
  <2>1. After(op) = [op |-> "off", step |-> "done", by |-> None, cnt |-> 0, late |-> sect.late]
    BY Zenon, <1>2 DEF After, NoSect
  <2> QED
    BY <1>1, <1>2, <2>1 DEF SectRecord
<1>3. CASE op # "off"
  BY <1>1, <1>3 DEF After, NoSect, SectRecord
<1> QED
  BY <1>2, <1>3

\* Publishing a count.
LEMMA PublishIs ==
    ASSUME TypeOK, NEW op \in {"irq", "get", "disable", "off", "on"},
           NEW by \in Threads \cup {None}, NEW x \in Int, NEW stamped \in BOOLEAN,
           Publish(op, by, x % CountMod, stamped)
    PROVE  /\ time' \in Ring /\ sect' \in SectRecord
           /\ sect'.op = op /\ sect'.step = "commit"
<1>1. x % CountMod \in Counts
  BY Wrapped
<1>2. Slot(x % CountMod) \in 0 .. RbSize - 1
  BY <1>1, Wrapped, VblankAssumption DEF Counts
<1>3. time' \in Ring
  BY <1>2 DEF Publish, Ring, TypeOK
<1>4. sect.late \in BOOLEAN
  BY DEF TypeOK
<1>5. sect' \in SectRecord /\ sect'.op = op /\ sect'.step = "commit"
  BY <1>1, <1>4 DEF Publish, SectRecord
<1> QED
  BY <1>3, <1>5

\* drm_update_vblank_count publishes a count or has nothing to do.
LEMMA UpdateIs ==
    ASSUME TypeOK, NEW op \in {"get", "off", "on"}, NEW by \in Threads \cup {None},
           UpdateCount(op, by)
    PROVE  /\ time' \in Ring /\ sect' \in SectRecord
           /\ \/ sect' = After(op)
              \/ sect'.op = op /\ sect'.step = "commit"
<1>1. CASE Missed = 0
  BY <1>1, AfterIs DEF UpdateCount, TypeOK, Ring
<1>2. CASE Missed # 0
  <2>1. count + Missed \in Int /\ dev.precise \in BOOLEAN
    BY VblankAssumption DEF TypeOK, Missed, Counts, DeviceKind
  <2>2. Publish(op, by, (count + Missed) % CountMod, dev.precise)
    BY <1>2 DEF UpdateCount
  <2> QED
    BY <2>1, <2>2, PublishIs
<1> QED
  BY <1>1, <1>2

\* drm_vblank_put keeps the types.
LEMMA PutIs ==
    ASSUME TypeOK, NEW r \in Int, NEW k \in Int, Put(r, k)
    PROVE  refcount' \in Int /\ timer' \in BOOLEAN
<1>1. refcount' \in Int
  BY DEF Put, Dropped
<1>2. timer' \in BOOLEAN
  BY Zenon DEF Put
<1> QED
  BY <1>1, <1>2

EventTable == [Events -> [st : {"free", "queued", "sent"}, seq : Counts]]

\* Sending events keeps the types.
LEMMA SendIs ==
    ASSUME TypeOK, NEW S \in SUBSET Events, NEW r \in Int, Send(S, r)
    PROVE  refcount' \in Int /\ timer' \in BOOLEAN /\ ev' \in EventTable
<1>1. Cardinality(S) \in Int
  BY Sizes
<1>2. Put(r, Cardinality(S))
  BY DEF Send, HeldBy
<1>3. refcount' \in Int /\ timer' \in BOOLEAN
  BY <1>1, <1>2, PutIs
<1>4. 0 \in Counts
  BY VblankAssumption DEF Counts
<1>5. ev' \in EventTable
  BY <1>4 DEF Send, FreeEvent, EventTable, TypeOK
<1> QED
  BY <1>3, <1>5

\* drm_vblank_get keeps the types.
LEMMA AcquireIs ==
    ASSUME TypeOK, NEW by \in Threads \cup {None}, Acquire(by)
    PROVE  /\ refcount' \in Int /\ irq_on' \in BOOLEAN /\ enabled' \in BOOLEAN
           /\ time' \in Ring /\ sect' \in SectRecord
<1>1. refcount' \in Int
  BY DEF Acquire, TypeOK
<1>2. CASE EnableVblank("get", by)
  BY <1>1, <1>2, UpdateIs DEF EnableVblank
<1>3. CASE UNCHANGED <<irq_on, enabled, sect, time>>
  BY <1>1, <1>3 DEF TypeOK, Ring, SectRecord
<1> QED
  BY <1>2, <1>3 DEF Acquire

Local == [pc : {"idle", "got", "queue", "wait", "read", "slot", "check", "put"},
          seq : Counts, miss : BOOLEAN, cur : Counts, ts : 0 .. TimeMod - 1 \cup {None}]

ThreadTable == [Threads -> Local]

\* What drm_wait_vblank keeps of a request.
LEMMA RequestRecord ==
    ASSUME NEW P, NEW C, NEW M, NEW T, NEW p \in P, NEW s \in C, NEW m \in M,
           NEW l \in [pc : P, seq : C, miss : M, cur : C, ts : T]
    PROVE  [l EXCEPT !.pc = p, !.seq = s, !.miss = m] \in
              [pc : P, seq : C, miss : M, cur : C, ts : T]
BY Zenon

\* What drm_vblank_count_and_time reads.
LEMMA ReadRecord ==
    ASSUME NEW P, NEW C, NEW M, NEW T, NEW p \in P, NEW c \in C, NEW s \in T,
           NEW l \in [pc : P, seq : C, miss : M, cur : C, ts : T]
    PROVE  /\ [l EXCEPT !.pc = p, !.cur = c] \in
                 [pc : P, seq : C, miss : M, cur : C, ts : T]
           /\ [l EXCEPT !.pc = p, !.ts = s] \in
                 [pc : P, seq : C, miss : M, cur : C, ts : T]
BY Zenon

\* The steps of the WAIT_VBLANK ioctl that touch only the thread.
Reading(t) ==
    \/ Request(t) \/ WaitOver(t) \/ WaitInterrupted(t)
    \/ ReadCount(t) \/ ReadSlot(t) \/ Recheck(t)

\* They leave the rest alone, and a thread that holds a reference keeps it.
LEMMA ReadingKeeps ==
    ASSUME TypeOK, NEW t \in Threads, Reading(t)
    PROVE  /\ UNCHANGED <<core, irq_on, time, enabled, refs, sect>>
           /\ th' \in ThreadTable
           /\ Holders' = Holders
<1> USE DEF Reading
<1>1. UNCHANGED <<core, irq_on, time, enabled, refs, sect>>
  BY Zenon DEF Request, WaitOver, WaitInterrupted, ReadCount, ReadSlot, Recheck
<1>2. th \in ThreadTable /\ count \in Counts /\ 0 \in Counts
  BY VblankAssumption DEF TypeOK, ThreadTable, Local, Counts
<1>4. /\ th[t] \in Local
      /\ {"queue", "slot", "check"} \subseteq
            {"idle", "got", "queue", "wait", "read", "slot", "check", "put"}
  BY <1>2 DEF ThreadTable, Local
<1>3. th' \in ThreadTable /\ th[t].pc # "idle" /\ th'[t].pc # "idle"
      /\ \A u \in Threads \ {t} : th'[u] = th[u]
  <2>1. CASE Request(t)
    <3>1. PICK r \in Requests, miss \in BOOLEAN, seq \in Counts, next \in Counts :
             \/ th' = [th EXCEPT ![t].pc = "queue", ![t].seq = seq, ![t].miss = miss]
             \/ th' = [th EXCEPT ![t].pc = "wait", ![t].seq = next]
      <4>1. \A r \in Requests : (count + r) % CountMod \in Counts
        BY Zenon, Numbers, Wrapped
      <4>2. (count + 1) % CountMod \in Counts
        BY Zenon, Numbers, Wrapped
      <4> QED
        BY Zenon, <2>1, <4>1, <4>2 DEF Request
    <3>2. CASE th' = [th EXCEPT ![t].pc = "queue", ![t].seq = seq, ![t].miss = miss]
      <4>1. th' \in ThreadTable
        <5> DEFINE l == [th[t] EXCEPT !.pc = "queue", !.seq = seq, !.miss = miss]
        <5>1. th' = [th EXCEPT ![t] = l]
          BY Zenon, <3>2
        <5>2. l \in Local
          BY Zenon, <1>2, <1>4, RequestRecord DEF Local
        <5> HIDE DEF l
        <5> QED
          BY <1>2, <5>1, <5>2 DEF ThreadTable, Local
      <4> QED
        BY Zenon, <1>2, <2>1, <3>2, <4>1 DEF ThreadTable, Local, Request
    <3>3. CASE th' = [th EXCEPT ![t].pc = "wait", ![t].seq = next]
      <4>1. th' \in ThreadTable
        BY Zenon, <1>2, <3>3 DEF ThreadTable, Local
      <4> QED
        BY Zenon, <1>2, <2>1, <3>3, <4>1 DEF ThreadTable, Local, Request
    <3> QED
      BY <3>1, <3>2, <3>3
  <2>2. CASE WaitOver(t)
    BY Zenon, <1>2, <2>2 DEF WaitOver, ThreadTable, Local, Idle
  <2>3. CASE WaitInterrupted(t)
    BY Zenon, <1>2, <2>3 DEF WaitInterrupted, ThreadTable, Local, Idle
  <2>4. CASE ReadCount(t)
    <3> DEFINE l == [th[t] EXCEPT !.pc = "slot", !.cur = count]
    <3>1. th' = [th EXCEPT ![t] = l] /\ th[t].pc = "read"
      BY Zenon, <2>4 DEF ReadCount
    <3>2. l \in Local
      BY Zenon, <1>2, <1>4, ReadRecord DEF Local
    <3>3. l.pc = "slot"
      BY Zenon, <1>4 DEF Local
    <3> HIDE DEF l
    <3> QED
      BY <1>2, <3>1, <3>2, <3>3 DEF ThreadTable
  <2>5. CASE ReadSlot(t)
    <3> DEFINE s == time[Slot(th[t].cur)]
               l == [th[t] EXCEPT !.pc = "check", !.ts = s]
    <3>1. s \in 0 .. TimeMod - 1
      <4>1. th[t].cur \in Int
        BY <1>2, VblankAssumption DEF ThreadTable, Local, Counts
      <4> QED
        BY Zenon, <4>1, Wrapped DEF TypeOK
    <3>2. th' = [th EXCEPT ![t] = l] /\ th[t].pc = "slot"
      BY Zenon, <2>5 DEF ReadSlot
    <3> HIDE DEF s
    <3>3. l \in Local
      BY Zenon, <1>2, <1>4, <3>1, ReadRecord DEF Local
    <3>4. l.pc = "check"
      BY Zenon, <1>4 DEF Local
    <3> HIDE DEF l
    <3> QED
      BY <1>2, <3>2, <3>3, <3>4 DEF ThreadTable
  <2>6. CASE Recheck(t)
    BY Zenon, <1>2, <2>6 DEF Recheck, ThreadTable, Local, Idle
  <2> QED
    BY <2>1, <2>2, <2>3, <2>4, <2>5, <2>6
<1>5. Holders' = Holders
  BY <1>3 DEF Holders
<1> QED
  BY <1>1, <1>3, <1>5

\* Every step keeps the types.
LEMMA TypeKept ==
    ASSUME TypeOK, Shape, Next
    PROVE  TypeOK'
<1> USE DEF hardware, refs, mode, history, core
<1>z. 0 \in Counts
  BY VblankAssumption DEF Counts
<1>w. count + 1 \in Int /\ (count + 1) % CountMod \in Counts
  BY Zenon, Numbers, Wrapped
<1>1. CASE Tick
  <2>1. n' \in 0 .. TimeMod - 1 /\ hw' \in 0 .. MaxHw
    BY Zenon, <1>1, Numbers, Wrapped DEF Tick
  <2>2. sect' \in SectRecord
    BY Zenon, <1>1 DEF Tick, TypeOK, SectRecord
  <2> QED
    BY <1>1, <2>1, <2>2 DEF Tick, TypeOK, SectRecord
<1>2. CASE CrtcDisable
  <2>1. running' \in BOOLEAN
    BY Zenon, <1>2 DEF CrtcDisable
  <2>2. UNCHANGED <<dev, n, hw, irq_on, pending, count, last, time, enabled,
                    refs, mode, sect, th, history>>
    BY <1>2 DEF CrtcDisable
  <2> QED
    BY <2>1, <2>2 DEF TypeOK
<1>3. CASE CrtcReset
  BY <1>3, VblankAssumption DEF CrtcReset, TypeOK
<1>4. CASE Irq \/ SpuriousIrq
  <2>0. HandleVblank
    BY <1>4 DEF Irq, SpuriousIrq
  <2>p. pending' \in BOOLEAN
    BY Zenon, <2>0 DEF HandleVblank
  <2>u. UNCHANGED <<dev, n, running, hw, irq_on, count, last, enabled, mode, th, history>>
    BY <2>0 DEF HandleVblank
  <2>1. CASE Publish("irq", None, (count + 1) % CountMod, TRUE) /\ UNCHANGED refs
    <3>1. time' \in Ring /\ sect' \in SectRecord
      BY Zenon, <1>w, <2>1, PublishIs
    <3> QED
      BY <2>1, <2>p, <2>u, <3>1 DEF TypeOK, Ring, SectRecord
  <2>2. CASE HandleEvents(count) /\ UNCHANGED <<sect, time>>
    <3>1. refcount' \in Int /\ timer' \in BOOLEAN /\ ev' \in EventTable
      BY <2>2, SendIs DEF HandleEvents, Queued, TypeOK
    <3> QED
      BY <2>2, <2>p, <2>u, <3>1 DEF TypeOK, EventTable
  <2>3. CASE UNCHANGED <<sect, time, refs>>
    BY <2>3, <2>p, <2>u DEF TypeOK
  <2> QED
    BY Zenon, <2>0, <2>1, <2>2, <2>3 DEF HandleVblank
<1>5. CASE Commit
  <2>1. sect.cnt \in Counts /\ time[Slot(sect.cnt)] \in 0 .. TimeMod - 1
    <3>1. sect.cnt \in Counts /\ sect.cnt \in Int
      BY VblankAssumption DEF TypeOK, Counts
    <3> QED
      BY <3>1, Wrapped DEF TypeOK
  <2>2. sect' \in SectRecord
    BY <1>5, AfterIs DEF Commit
  <2>3. refcount' \in Int /\ timer' \in BOOLEAN /\ ev' \in EventTable
    <3>1. CASE HandleEvents(sect.cnt)
      BY <3>1, SendIs DEF HandleEvents, Queued, TypeOK
    <3>2. CASE UNCHANGED refs
      BY <3>2 DEF TypeOK, EventTable
    <3> QED
      BY <1>5, <3>1, <3>2 DEF Commit
  <2> QED
    BY Zenon, <1>5, <2>1, <2>2, <2>3 DEF Commit, TypeOK, SectRecord, EventTable
<1>6. CASE Save
  <2>1. sect.op \in {"disable", "off"}
    BY <1>6 DEF Save, Shape, Sections, NoSect
  <2>2. time' \in Ring /\ sect' \in SectRecord
    <3>1. CASE Publish(sect.op, None, (count + 1) % CountMod, TRUE)
      <4>1. sect.op \in {"irq", "get", "disable", "off", "on"}
        BY <2>1
      <4> QED
        BY Zenon, <1>w, <3>1, <4>1, PublishIs
    <3>2. CASE sect' = After(sect.op) /\ UNCHANGED time
      BY <3>2, AfterIs DEF TypeOK, Ring
    <3> QED
      BY Zenon, <1>6, <3>1, <3>2 DEF Save
  <2>3. last' \in 0 .. MaxHw
    BY <1>6 DEF Save, Sampled, TypeOK
  <2> QED
    BY <1>6, <2>2, <2>3 DEF Save, TypeOK, Ring, SectRecord
<1>7. CASE OffDone
  <2>1. modesets' \in 0 .. MaxModesets
    BY <1>7, VblankAssumption DEF OffDone, TypeOK, Shape, Styles
  <2>2. refcount' \in Int /\ timer' \in BOOLEAN /\ ev' \in EventTable
    BY <1>7, SendIs DEF OffDone, Queued, TypeOK
  <2>3. sect' \in SectRecord
    BY <1>7, <1>z DEF OffDone, NoSect, SectRecord
  <2> QED
    BY <1>7, <2>1, <2>2, <2>3 DEF OffDone, TypeOK, EventTable, SectRecord
<1>8. CASE OnEnable
  <2>1. /\ refcount' \in Int /\ irq_on' \in BOOLEAN /\ enabled' \in BOOLEAN
        /\ time' \in Ring /\ sect' \in SectRecord
    <3>1. CASE EnableVblank("on", None) /\ UNCHANGED refcount
      BY <3>1, UpdateIs DEF EnableVblank, TypeOK
    <3>2. CASE refcount' \in {refcount, refcount - 1} /\ sect' = NoSect
               /\ UNCHANGED <<irq_on, enabled, time>>
      BY <1>z, <3>2 DEF TypeOK, Ring, SectRecord, NoSect
    <3> QED
      BY <1>8, <3>1, <3>2 DEF OnEnable
  <2> QED
    BY <1>8, <2>1 DEF OnEnable, TypeOK, Ring, SectRecord
<1>9. CASE DisableFn
  <2>1. irq_on' \in BOOLEAN /\ enabled' \in BOOLEAN /\ sect' \in SectRecord
    <3>1. CASE DisableVblank("disable")
      BY Zenon, <1>z, <3>1 DEF DisableVblank, NoSect, SectRecord
    <3>2. CASE UNCHANGED <<irq_on, enabled, sect>>
      BY <3>2 DEF TypeOK, SectRecord
    <3> QED
      BY <1>9, <3>1, <3>2 DEF DisableFn
  <2> QED
    BY Zenon, <1>9, <2>1 DEF DisableFn, TypeOK, SectRecord
<1>10. CASE Off
  <2>1. irq_on' \in BOOLEAN /\ enabled' \in BOOLEAN /\ sect' \in SectRecord
        /\ time' \in Ring
    <3>1. CASE UpdateCount("off", None) /\ UNCHANGED <<irq_on, enabled>>
      BY <3>1, UpdateIs DEF TypeOK
    <3>2. CASE DisableVblank("off") /\ UNCHANGED time
      BY Zenon, <1>z, <3>2 DEF DisableVblank, NoSect, SectRecord, TypeOK, Ring
    <3> QED
      BY <1>10, <3>1, <3>2 DEF Off
  <2> QED
    BY <1>10, <2>1 DEF Off, TypeOK, SectRecord, Ring
<1>11. CASE On
  <2>1. last' \in 0 .. MaxHw
    BY Zenon, <1>11, Numbers, Wrapped DEF On, Resample
  <2>2. refcount' \in Int
    BY <1>11 DEF On, TypeOK
  <2>3. sect' \in SectRecord
    BY Zenon, <1>11, <1>z DEF On, NoSect, SectRecord
  <2> QED
    BY <1>11, <2>1, <2>2, <2>3 DEF On, TypeOK, SectRecord
<1>12. CASE PreModeset
  <2>1. /\ refcount' \in Int /\ irq_on' \in BOOLEAN /\ enabled' \in BOOLEAN
        /\ time' \in Ring /\ sect' \in SectRecord
    <3>1. CASE Acquire(None)
      BY <3>1, AcquireIs
    <3>2. CASE UNCHANGED <<refcount, irq_on, enabled, sect, time>>
      BY <3>2 DEF TypeOK, Ring, SectRecord
    <3> QED
      BY <1>12, <3>1, <3>2 DEF PreModeset
  <2>2. inmodeset' \in {0, 1, 3}
    BY <1>12 DEF PreModeset
  <2> QED
    BY <1>12, <2>1, <2>2 DEF PreModeset, TypeOK, Ring, SectRecord
<1>13. CASE PostModeset
  <2>1. refcount' \in Int /\ timer' \in BOOLEAN
    BY <1>13, PutIs DEF PostModeset, Temporary, TypeOK
  <2> QED
    BY <1>13, <2>1 DEF PostModeset, TypeOK
<1>14. ASSUME NEW t \in Threads, Get(t)
       PROVE  TypeOK'
  <2>1. /\ refcount' \in Int /\ irq_on' \in BOOLEAN /\ enabled' \in BOOLEAN
        /\ time' \in Ring /\ sect' \in SectRecord
    BY <1>14, AcquireIs DEF Get
  <2>2. th' \in ThreadTable
    BY <1>14 DEF Get, TypeOK, ThreadTable, Local
  <2> QED
    BY <1>14, <2>1, <2>2 DEF Get, TypeOK, Ring, SectRecord, ThreadTable, Local
<1>15. ASSUME NEW t \in Threads, Queue(t)
       PROVE  TypeOK'
  <2>1. th' \in ThreadTable
    BY <1>15, <1>z DEF Queue, TypeOK, ThreadTable, Local, Idle
  <2>2. refcount' \in Int /\ timer' \in BOOLEAN /\ ev' \in EventTable
    <3>1. CASE Put(refcount, 1) /\ UNCHANGED ev
      BY <3>1, PutIs DEF TypeOK, EventTable
    <3>2. ASSUME NEW e \in Events, Send({e}, refcount)
          PROVE  refcount' \in Int /\ timer' \in BOOLEAN /\ ev' \in EventTable
      BY <3>2, SendIs DEF TypeOK
    <3>3. ASSUME NEW e \in Events, NEW seq \in Counts,
                 ev' = [ev EXCEPT ![e] = [st |-> "queued", seq |-> seq]],
                 UNCHANGED <<refcount, timer>>
          PROVE  refcount' \in Int /\ timer' \in BOOLEAN /\ ev' \in EventTable
      BY <3>3 DEF TypeOK, EventTable
    <3>4. th[t].seq \in Counts /\ (count + 1) % CountMod \in Counts
      BY <1>w DEF TypeOK
    <3> QED
      BY Zenon, <1>15, <3>1, <3>2, <3>3, <3>4 DEF Queue
  <2> QED
    BY <1>15, <2>1, <2>2 DEF Queue, TypeOK, ThreadTable, Local, EventTable
<1>16. ASSUME NEW t \in Threads, Reading(t)
       PROVE  TypeOK'
  BY <1>16, ReadingKeeps DEF TypeOK, ThreadTable, Local
<1>17. ASSUME NEW t \in Threads, Done(t)
       PROVE  TypeOK'
  <2>1. refcount' \in Int /\ timer' \in BOOLEAN
    BY <1>17, PutIs DEF Done, TypeOK
  <2>2. th' \in ThreadTable
    BY <1>17, <1>z DEF Done, TypeOK, ThreadTable, Local, Idle
  <2> QED
    BY <1>17, <2>1, <2>2 DEF Done, TypeOK, ThreadTable, Local
<1>18. ASSUME NEW e \in Events, ReadEvent(e)
       PROVE  TypeOK'
  BY <1>18, <1>z DEF ReadEvent, FreeEvent, TypeOK
<1>19. CASE ReleaseEvents
  <2>1. refcount' \in Int /\ timer' \in BOOLEAN
    <3>1. Cardinality(Queued) \in Int
      BY Sizes DEF Queued
    <3> QED
      BY <1>19, <3>1, PutIs DEF ReleaseEvents, TypeOK
  <2>2. ev' \in EventTable
    BY <1>19, <1>z DEF ReleaseEvents, FreeEvent, EventTable
  <2> QED
    BY <1>19, <2>1, <2>2 DEF ReleaseEvents, TypeOK, EventTable
<1> QED
  BY <1>1, <1>2, <1>3, <1>4, <1>5, <1>6, <1>7, <1>8, <1>9, <1>10, <1>11, <1>12,
     <1>13, <1>14, <1>15, <1>16, <1>17, <1>18, <1>19
  DEF Next, Section, Call, Reading

-----------------------------------------------------------------------------
(* Sections.                                                               *)

\* The kind of device never changes.
LEMMA DeviceStays ==
    Next => dev' = dev
BY Zenon DEF Next, Section, Call, Tick, CrtcDisable, CrtcReset, Irq, SpuriousIrq, HandleVblank,
       Commit, Save, OffDone, OnEnable, DisableFn, Off, On, PreModeset, PostModeset, Get,
       Request, Queue, WaitOver, WaitInterrupted, ReadCount, ReadSlot, Recheck, Done,
       ReadEvent, ReleaseEvents, hardware, core

\* Steps outside the sections.
LEMMA ShapeFrame ==
    ASSUME Shape, UNCHANGED <<dev, sect, irq_on, enabled, inmodeset, modesets>>
    PROVE  Shape'
BY DEF Shape, Sections, Styles, SwitchedTogether

\* Every step leaves a section where it goes on.
LEMMA ShapeKept ==
    ASSUME TypeOK, Shape, Next
    PROVE  Shape'
<1> USE DEF hardware, refs, mode, history, core
<1>d. dev' = dev
  BY DeviceStays
<1>n. sect = NoSect => sect.op = "none"
  BY DEF NoSect
<1>a. ASSUME NEW by \in Threads \cup {None}, Acquire(by), sect = NoSect,
             UNCHANGED modesets, inmodeset' = inmodeset \/ dev.style = "pre_post"
      PROVE  Shape'
  <2>1. Styles' /\ Sections'
    <3>1. sect' = NoSect \/ (sect'.op = "get" /\ sect'.step = "commit")
      BY <1>a, UpdateIs, AfterIs DEF Acquire, EnableVblank
    <3>2. sect'.op \notin {"off", "on"}
      BY <3>1 DEF NoSect
    <3> QED
      BY <1>a, <1>d, <3>1, <3>2 DEF Shape, Sections, Styles
  <2>2. SwitchedTogether'
    BY Zenon, <1>a DEF Acquire, EnableVblank, Shape, SwitchedTogether
  <2> QED
    BY <2>1, <2>2 DEF Shape
<1>1. CASE Tick
  <2>1. \/ sect' = sect
        \/ sect # NoSect /\ sect'.op = sect.op /\ sect'.step = sect.step
    BY <1>1 DEF Tick, TypeOK
  <2> QED
    BY <1>1, <1>d, <2>1 DEF Tick, Shape, Sections, Styles, SwitchedTogether
<1>2. CASE CrtcDisable
  BY <1>2, ShapeFrame DEF CrtcDisable
<1>3. CASE CrtcReset
  BY <1>3, ShapeFrame DEF CrtcReset
<1>4. CASE Irq \/ SpuriousIrq
  <2>0. HandleVblank
    BY <1>4 DEF Irq, SpuriousIrq
  <2>1. CASE Publish("irq", None, (count + 1) % CountMod, TRUE)
    <3>1. sect'.op = "irq" /\ sect'.step = "commit"
      BY <2>1 DEF Publish
    <3> QED
      BY <2>0, <3>1, <1>d DEF HandleVblank, Shape, Sections, Styles, SwitchedTogether
  <2>2. CASE UNCHANGED sect
    BY <2>0, <2>2, ShapeFrame DEF HandleVblank
  <2> QED
    BY Zenon, <2>0, <2>1, <2>2 DEF HandleVblank
<1>5. CASE Commit
  <2>1. sect' = After(sect.op)
    BY <1>5 DEF Commit
  <2>2. \/ sect' = NoSect
        \/ sect.op = "off" /\ sect'.op = "off" /\ sect'.step = "done"
    BY <2>1, AfterIs
  <2> QED
    BY <1>5, <1>d, <2>2 DEF Commit, Shape, Sections, Styles, SwitchedTogether, NoSect
<1>6. CASE Save
  <2>1. sect.op \in {"disable", "off"}
    BY <1>6 DEF Save, Shape, Sections, NoSect
  <2>2. \/ sect' = NoSect
        \/ sect'.op = sect.op /\ sect'.step = "commit"
        \/ sect.op = "off" /\ sect'.op = "off" /\ sect'.step = "done"
    BY <1>6, <2>1, AfterIs DEF Save, Publish
  <2> QED
    BY <1>6, <1>d, <2>1, <2>2 DEF Save, Shape, Sections, Styles, SwitchedTogether, NoSect
<1>7. CASE OffDone
  BY <1>7, <1>d DEF OffDone, Shape, Sections, Styles, SwitchedTogether, NoSect
<1>8. CASE OnEnable
  <2>1. sect.op = "on"
    BY <1>8 DEF OnEnable, Shape, Sections, NoSect
  <2>2. \/ sect' = NoSect
        \/ sect'.op = "on" /\ sect'.step = "commit"
    BY <1>8, UpdateIs, AfterIs DEF OnEnable, EnableVblank
  <2>3. irq_on' = enabled'
    BY Zenon, <1>8 DEF OnEnable, EnableVblank, Shape, SwitchedTogether
  <2> QED
    BY <1>8, <1>d, <2>1, <2>2, <2>3
    DEF OnEnable, Shape, Sections, Styles, SwitchedTogether, NoSect
<1>9. CASE DisableFn
  <2>1. CASE DisableVblank("disable")
    <3>1. sect'.op = "disable" /\ sect'.step = "save"
      BY <2>1 DEF DisableVblank, NoSect
    <3> QED
      BY Zenon, <1>9, <1>d, <2>1, <3>1
      DEF DisableFn, DisableVblank, Shape, Sections, Styles, SwitchedTogether
  <2>2. CASE UNCHANGED <<irq_on, enabled, sect>>
    BY <1>9, <2>2, ShapeFrame DEF DisableFn
  <2> QED
    BY <1>9, <2>1, <2>2 DEF DisableFn
<1>10. CASE Off
  <2>1. sect'.op = "off" /\ sect'.step \in {"done", "commit", "save"}
    <3>1. CASE UpdateCount("off", None)
      BY <3>1, UpdateIs, AfterIs
    <3>2. CASE DisableVblank("off")
      BY <3>2 DEF DisableVblank, NoSect
    <3> QED
      BY <1>10, <3>1, <3>2 DEF Off
  <2>2. irq_on' = enabled'
    BY Zenon, <1>10 DEF Off, DisableVblank, Shape, SwitchedTogether
  <2> QED
    BY <1>10, <1>d, <2>1, <2>2 DEF Off, Shape, Sections, Styles, SwitchedTogether
<1>11. CASE On
  <2>1. \/ sect' = NoSect
        \/ sect'.op = "on" /\ sect'.step = "enable"
    BY <1>11 DEF On, NoSect
  <2> QED
    BY <1>11, <1>d, <2>1 DEF On, Shape, Sections, Styles, SwitchedTogether, NoSect
<1>12. CASE PreModeset
  <2>1. CASE Acquire(None)
    BY <1>12, <2>1, <1>a DEF PreModeset
  <2>2. CASE UNCHANGED <<refcount, irq_on, enabled, sect, time>>
    BY <1>12, <1>d, <1>n, <2>2 DEF PreModeset, Shape, Sections, Styles, SwitchedTogether
  <2> QED
    BY <1>12, <2>1, <2>2 DEF PreModeset
<1>13. CASE PostModeset
  BY <1>13, <1>d, <1>n DEF PostModeset, Shape, Sections, Styles, SwitchedTogether
<1>14. ASSUME NEW t \in Threads, Get(t)
       PROVE  Shape'
  BY <1>14, <1>a DEF Get
<1>15. ASSUME NEW t \in Threads, Queue(t) \/ Done(t)
       PROVE  Shape'
  BY <1>15, ShapeFrame DEF Queue, Done
<1>16. ASSUME NEW t \in Threads, Reading(t)
       PROVE  Shape'
  BY <1>16, ReadingKeeps, ShapeFrame
<1>17. ASSUME NEW e \in Events, ReadEvent(e)
       PROVE  Shape'
  BY <1>17, ShapeFrame DEF ReadEvent
<1>18. CASE ReleaseEvents
  BY <1>18, ShapeFrame DEF ReleaseEvents
<1> QED
  BY <1>1, <1>2, <1>3, <1>4, <1>5, <1>6, <1>7, <1>8, <1>9, <1>10, <1>11, <1>12,
     <1>13, <1>14, <1>15, <1>16, <1>17, <1>18
  DEF Next, Section, Call, Reading

-----------------------------------------------------------------------------
(* References.                                                             *)

\* Steps that touch no reference.
LEMMA CountFrame ==
    ASSUME RefcountExact, UNCHANGED <<dev, refcount, inmodeset>>,
           Holders' = Holders, Queued' = Queued
    PROVE  RefcountExact'
BY DEF RefcountExact, OnWorks, ModesetReference

\* Sending events at an interrupt.
LEMMA CountAfterSend ==
    ASSUME TypeOK, RefcountExact, NEW c, HandleEvents(c),
           UNCHANGED <<dev, inmodeset, th>>
    PROVE  RefcountExact'
<1> SUFFICES ASSUME OnWorks
             PROVE  RefcountExact'
  BY DEF RefcountExact, OnWorks
<1> DEFINE S == {e \in Queued : Passed(c, ev[e].seq)}
<1>1. Cardinality(Queued) <= refcount /\ refcount \in Int
  BY Counted
<1>2. S \in SUBSET Queued /\ Send(S, refcount)
  BY DEF HandleEvents
<1> HIDE DEF S
<1>3. /\ refcount' = refcount - Cardinality(S) /\ Cardinality(S) \in Nat
      /\ Cardinality(Queued') = Cardinality(Queued) - Cardinality(S)
  BY <1>1, <1>2, EventsLeave
<1>4. Holders' = Holders /\ ModesetReference' = ModesetReference
  BY DEF Holders, ModesetReference
<1> QED
  BY <1>3, <1>4, Counted DEF RefcountExact

\* Every step keeps the count of the references.
LEMMA CountKept ==
    ASSUME TypeOK, Shape, RefcountExact, Next
    PROVE  RefcountExact'
<1> USE DEF hardware, refs, mode, history, core
<1>d. dev' = dev
  BY DeviceStays
<1> SUFFICES ASSUME OnWorks
             PROVE  RefcountExact'
  BY <1>d DEF RefcountExact, OnWorks
<1>c. /\ Cardinality(Holders) \in Nat /\ IsFiniteSet(Holders)
      /\ Cardinality(Queued) \in Nat /\ IsFiniteSet(Queued)
      /\ ModesetReference \in {0, 1}
      /\ refcount \in Nat
      /\ refcount = Cardinality(Holders) + Cardinality(Queued) + ModesetReference
  BY Counted
<1>t. th' = th => Holders' = Holders
  BY DEF Holders
<1>e. ev' = ev => Queued' = Queued
  BY DEF Queued
<1>m. inmodeset' = inmodeset => ModesetReference' = ModesetReference
  BY <1>d DEF ModesetReference
<1>h. \A t \in Threads : th[t].pc # "idle" => refcount >= 1
  <2> SUFFICES ASSUME NEW t \in Threads, th[t].pc # "idle"
               PROVE  refcount >= 1
    OBVIOUS
  <2>1. Holders # {}
    BY DEF Holders
  <2>2. Cardinality(Holders) # 0
    BY <1>c, <2>1, FS_EmptySet
  <2> QED
    BY <1>c, <2>2
<1>1. CASE Tick \/ CrtcDisable \/ CrtcReset \/ Save \/ DisableFn \/ Off
  BY Zenon, <1>1, <1>t, <1>e, CountFrame DEF Tick, CrtcDisable, CrtcReset, Save, DisableFn, Off
<1>2. CASE Irq \/ SpuriousIrq
  BY Zenon, <1>2, <1>t, <1>e, CountFrame, CountAfterSend DEF Irq, SpuriousIrq, HandleVblank
<1>3. CASE Commit
  BY <1>3, <1>t, <1>e, CountFrame, CountAfterSend DEF Commit
<1>4. CASE OffDone
  <2> DEFINE r == IF inmodeset = 0 THEN refcount + 1 ELSE refcount
  <2>1. dev.style = "off_on" /\ inmodeset \in {0, 1}
    BY <1>4 DEF OffDone, Shape, Styles
  <2>2. ModesetReference = inmodeset /\ ModesetReference' = 1
    BY <1>4, <1>d, <2>1 DEF OffDone, ModesetReference
  <2>3. r = Cardinality(Holders) + Cardinality(Queued) + 1
    BY <1>c, <2>1, <2>2
  <2>4. Send(Queued, r)
    BY <1>4 DEF OffDone
  <2> HIDE DEF r
  <2>5. r \in Int /\ Cardinality(Queued) <= r
    BY <1>c, <2>3
  <2>6. /\ refcount' = r - Cardinality(Queued)
        /\ Cardinality(Queued') = Cardinality(Queued) - Cardinality(Queued)
    BY <2>4, <2>5, EventsLeave
  <2>7. Holders' = Holders
    BY <1>4, <1>t DEF OffDone
  <2> QED
    BY <1>c, <2>2, <2>3, <2>6, <2>7 DEF RefcountExact
<1>5. CASE OnEnable
  <2>1. refcount' = refcount
    BY <1>5 DEF OnEnable, OnWorks
  <2> QED
    BY <1>5, <2>1, <1>t, <1>e, CountFrame DEF OnEnable
<1>6. CASE On
  <2>1. dev.style = "off_on" /\ inmodeset \in {0, 1}
    BY <1>6 DEF On, Shape, Styles
  <2>2. ModesetReference = inmodeset /\ ModesetReference' = 0
    BY <1>6, <1>d, <2>1 DEF On, ModesetReference
  <2>3. refcount' = refcount - inmodeset
    BY <1>6, <1>c, <2>1 DEF On
  <2>4. Holders' = Holders /\ Queued' = Queued
    BY <1>6, <1>t, <1>e DEF On
  <2> QED
    BY <1>c, <2>1, <2>2, <2>3, <2>4 DEF RefcountExact
<1>7. CASE PreModeset
  <2>1. Holders' = Holders /\ Queued' = Queued
    BY <1>7, <1>t, <1>e DEF PreModeset
  <2>2. ModesetReference = 0
    BY <1>7 DEF PreModeset, ModesetReference
  <2>3. refcount' = refcount + ModesetReference' /\ ModesetReference' \in Nat
    BY <1>7, <1>c, <1>d DEF PreModeset, Acquire, ModesetReference
  <2> QED
    BY <1>c, <2>1, <2>2, <2>3 DEF RefcountExact
<1>8. CASE PostModeset
  <2>1. Holders' = Holders /\ Queued' = Queued
    BY <1>8, <1>t, <1>e DEF PostModeset
  <2>2. ModesetReference = Temporary /\ ModesetReference' = 0
    BY <1>8, <1>d DEF PostModeset, ModesetReference, Temporary
  <2>3. refcount' = refcount - Temporary
    <3>1. Temporary \in Nat /\ Temporary <= refcount
      BY <1>c, <2>2
    <3> QED
      BY <1>8, <1>c, <3>1, DroppedRefs DEF PostModeset, Put
  <2> QED
    BY <1>c, <2>1, <2>2, <2>3 DEF RefcountExact
<1>9. ASSUME NEW t \in Threads, Get(t)
      PROVE  RefcountExact'
  <2>1. Cardinality(Holders') = Cardinality(Holders) + 1
    BY Zenon, <1>9, HolderEnters DEF Get
  <2>2. refcount' = refcount + 1
    BY <1>9 DEF Get, Acquire
  <2>3. Queued' = Queued /\ ModesetReference' = ModesetReference
    BY <1>9, <1>e, <1>m DEF Get
  <2> QED
    BY <1>c, <2>1, <2>2, <2>3 DEF RefcountExact
<1>10. ASSUME NEW t \in Threads, Queue(t)
       PROVE  RefcountExact'
  <2>1. Cardinality(Holders') = Cardinality(Holders) - 1 /\ refcount >= 1
    BY Zenon, <1>10, <1>h, HolderLeaves DEF Queue
  <2>2. ModesetReference' = ModesetReference
    BY <1>10, <1>m DEF Queue
  <2>3. CASE Put(refcount, 1) /\ Queued' = Queued
    <3>1. refcount' = refcount - 1
      BY <1>c, <2>1, <2>3, DroppedRefs DEF Put
    <3> QED
      BY <1>c, <2>1, <2>2, <2>3, <3>1 DEF RefcountExact
  <2>4. ASSUME NEW e \in Events, ev[e].st = "free", Send({e}, refcount)
        PROVE  RefcountExact'
    <3>1. Queued' = Queued
      BY <2>4 DEF Send, Queued, FreeEvent
    <3>2. Put(refcount, 1)
      BY <2>4, FS_Singleton DEF Send, HeldBy
    <3> QED
      BY <2>3, <3>1, <3>2
  <2>5. ASSUME NEW e \in Events, NEW seq, ev[e].st = "free",
               ev' = [ev EXCEPT ![e] = [st |-> "queued", seq |-> seq]],
               UNCHANGED refcount
        PROVE  RefcountExact'
    <3>1. Queued' = Queued \cup {e} /\ e \notin Queued
      BY <2>5 DEF Queued, TypeOK
    <3>2. Cardinality(Queued') = Cardinality(Queued) + 1
      BY Zenon, <1>c, <3>1, FS_AddElement
    <3> QED
      BY <1>c, <2>1, <2>2, <2>5, <3>2 DEF RefcountExact
  <2> QED
    BY Zenon, <1>10, <1>e, <2>3, <2>4, <2>5 DEF Queue
<1>11. ASSUME NEW t \in Threads, Reading(t)
       PROVE  RefcountExact'
  BY <1>11, <1>e, ReadingKeeps, CountFrame
<1>12. ASSUME NEW t \in Threads, Done(t)
       PROVE  RefcountExact'
  <2>1. Cardinality(Holders') = Cardinality(Holders) - 1 /\ refcount >= 1
    BY Zenon, <1>12, <1>h, HolderLeaves DEF Done
  <2>2. Queued' = Queued /\ ModesetReference' = ModesetReference
    BY <1>12, <1>e, <1>m DEF Done
  <2>3. refcount' = refcount - 1
    BY <1>12, <1>c, <2>1, DroppedRefs DEF Done, Put
  <2> QED
    BY <1>c, <2>1, <2>2, <2>3 DEF RefcountExact
<1>13. ASSUME NEW e \in Events, ReadEvent(e)
       PROVE  RefcountExact'
  <2>1. Queued' = Queued
    BY <1>13 DEF ReadEvent, Queued, FreeEvent, TypeOK
  <2> QED
    BY <1>13, <1>t, <2>1, CountFrame DEF ReadEvent
<1>14. CASE ReleaseEvents
  <2>1. Queued' = {}
    BY <1>14 DEF ReleaseEvents, Queued, FreeEvent
  <2>2. refcount' = refcount - Cardinality(Queued)
    <3>1. Cardinality(Queued) <= refcount /\ refcount \in Int
      BY <1>c
    <3> QED
      BY Zenon, <1>14, <1>c, <3>1, DroppedRefs DEF ReleaseEvents, Put
  <2>3. Holders' = Holders /\ ModesetReference' = ModesetReference
    BY <1>14, <1>t, <1>m DEF ReleaseEvents
  <2> QED
    BY <1>c, <2>1, <2>2, <2>3, FS_EmptySet DEF RefcountExact
<1> QED
  BY <1>1, <1>2, <1>3, <1>4, <1>5, <1>6, <1>7, <1>8, <1>9, <1>10, <1>11, <1>12,
     <1>13, <1>14
  DEF Next, Section, Call, Reading

-----------------------------------------------------------------------------
(* The interrupt is on for its users.                                      *)

\* Steps after which there are no more references and events than before.
LEMMA ServedFewer ==
    ASSUME Served, UNCHANGED <<dev, inmodeset, enabled, sect, count, pending>>,
           refcount' > 0 => refcount > 0, refcount = 0 => refcount' = 0,
           \A e \in Queued' : e \in Queued /\ ev'[e] = ev[e]
    PROVE  Served'
<1> SUFFICES ASSUME OnWorks
             PROVE  UsersServed' /\ DisableUnused' /\ EventsServed' /\ EventsWait'
  BY DEF Served, OnWorks
<1>1. UsersServed' /\ DisableUnused'
  BY DEF Served, UsersServed, DisableUnused
<1>2. Queued' # {} => Queued # {}
  OBVIOUS
<1>3. EventsServed'
  BY <1>2 DEF Served, EventsServed
<1>4. EventsWait'
  BY DEF Served, EventsWait
<1> QED
  BY <1>1, <1>3, <1>4

\* In drm_vblank_off nothing is promised until it returns.
LEMMA ServedInOff ==
    ASSUME sect'.op = "off"
    PROVE  Served'
BY DEF Served, UsersServed, DisableUnused, EventsServed, EventsWait

\* drm_vblank_put leaves no reference where there was none.
LEMMA DroppedLess ==
    ASSUME NEW r \in Int, NEW k \in Nat
    PROVE  (Dropped(r, k) > 0 => r > 0) /\ (r = 0 => Dropped(r, k) = 0)
BY DEF Dropped

\* Events are sent at an interrupt with count c.
LEMMA ServedAfterSend ==
    ASSUME TypeOK, RefcountExact, OnWorks, NEW c, HandleEvents(c)
    PROVE  /\ refcount' > 0 => refcount > 0
           /\ \A e \in Queued' : e \in Queued /\ ev'[e] = ev[e] /\ ~Passed(c, ev[e].seq)
<1> DEFINE S == {e \in Queued : Passed(c, ev[e].seq)}
<1>1. Cardinality(Queued) <= refcount /\ refcount \in Nat
  BY Counted
<1>2. S \in SUBSET Queued /\ Send(S, refcount)
  BY DEF HandleEvents
<1>3. \A e \in Queued \ S : ~Passed(c, ev[e].seq)
  OBVIOUS
<1> HIDE DEF S
<1>4. /\ Queued' = Queued \ S /\ \A e \in Queued' : ev'[e] = ev[e]
      /\ refcount' = refcount - Cardinality(S) /\ Cardinality(S) \in Nat
  BY <1>1, <1>2, EventsLeave
<1> QED
  BY <1>1, <1>3, <1>4

\* drm_vblank_get turns the interrupt on where it is off, and then there is no
\* event whose vblank the new count could pass.
LEMMA ServedAcquire ==
    ASSUME TypeOK, RefcountExact, Served, NEW by \in Threads \cup {None}, Acquire(by),
           sect = NoSect, UNCHANGED <<dev, count, pending, ev>>
    PROVE  Served'
<1> SUFFICES ASSUME OnWorks
             PROVE  UsersServed' /\ DisableUnused' /\ EventsServed' /\ EventsWait'
  BY DEF Served, OnWorks
<1>1. Queued' = Queued
  BY DEF Queued
<1>2. CASE refcount = 0 /\ EnableVblank("get", by)
  <2>1. Queued' = {} /\ enabled'
    BY <1>1, <1>2, Counted DEF EnableVblank
  <2>2. sect' = NoSect \/ (sect'.op = "get" /\ sect'.step = "commit")
    BY <1>2, UpdateIs, AfterIs DEF EnableVblank
  <2>3. sect'.op # "disable"
    BY <2>2 DEF NoSect
  <2> QED
    BY <2>1, <2>3 DEF UsersServed, DisableUnused, EventsServed, EventsWait
<1>3. CASE enabled /\ UNCHANGED <<irq_on, enabled, sect, time>>
  <2>1. sect'.op = "none"
    BY <1>3 DEF NoSect
  <2>2. sect.op = "none"
    BY DEF NoSect
  <2>3. UsersServed' /\ DisableUnused' /\ EventsServed'
    BY <1>3, <2>1 DEF UsersServed, DisableUnused, EventsServed
  <2>4. EventsWait'
    BY <1>1, <2>2 DEF Served, EventsWait
  <2> QED
    BY <2>3, <2>4
<1> QED
  BY <1>2, <1>3 DEF Acquire

\* Every step leaves the interrupt on for the users and no event behind.
LEMMA ServedKept ==
    ASSUME IInv, Next
    PROVE  Served'
<1> USE DEF hardware, refs, mode, history, core
<1>d. dev' = dev
  BY DeviceStays
<1>i. TypeOK /\ Shape /\ RefcountExact /\ Served
  BY DEF IInv
<1> SUFFICES ASSUME OnWorks
             PROVE  Served'
  BY <1>d DEF Served, OnWorks
<1>s. UsersServed /\ DisableUnused /\ EventsServed /\ EventsWait
  BY <1>i DEF Served
<1>c. refcount \in Nat /\ (refcount = 0 => Queued = {})
  BY <1>i, Counted
<1>e. ev' = ev => Queued' = Queued
  BY DEF Queued
<1>n. sect = NoSect => sect.op = "none" /\ sect.step = "none"
  BY DEF NoSect
<1>m. sect' = NoSect => sect'.op = "none" /\ sect'.step = "none"
  BY DEF NoSect
<1> USE DEF UsersServed, DisableUnused, EventsServed, EventsWait
<1>1. CASE Tick
  <2>1. sect'.op = sect.op /\ sect'.step = sect.step
    BY <1>1, <1>i DEF Tick, TypeOK
  <2>2. UNCHANGED <<inmodeset, refcount, enabled, count, ev>> /\ Queued' = Queued
    BY <1>1, <1>e DEF Tick
  <2>3. UsersServed' /\ DisableUnused' /\ EventsServed'
    BY <1>d, <1>s, <2>1, <2>2
  <2>4. EventsWait'
    <3> SUFFICES ASSUME sect.op \in {"none", "on"}, ~pending'
                 PROVE  Queued = {}
      BY <2>1, <2>2
    <3>1. ~enabled
      BY <1>1, <1>i DEF Tick, Shape, SwitchedTogether
    <3> QED
      BY <1>s, <3>1
  <2> QED
    BY <2>3, <2>4 DEF Served
<1>2. CASE CrtcDisable \/ CrtcReset
  BY <1>2, <1>e, <1>i, ServedFewer DEF CrtcDisable, CrtcReset
<1>3. CASE Irq \/ SpuriousIrq
  <2>0. HandleVblank
    BY <1>3 DEF Irq, SpuriousIrq
  <2>1. CASE enabled /\ Publish("irq", None, (count + 1) % CountMod, TRUE) /\ UNCHANGED refs
    <3>1. sect'.op = "irq"
      BY <2>1 DEF Publish
    <3> QED
      BY <2>0, <2>1, <3>1 DEF HandleVblank, Served
  <2>2. CASE enabled /\ HandleEvents(count) /\ UNCHANGED <<sect, time>>
    <3>1. \A e \in Queued' : ev'[e] = ev[e] /\ ~Passed(count, ev[e].seq)
      BY <1>i, <2>2, ServedAfterSend
    <3>2. sect'.op = "none"
      BY <1>n, <2>0, <2>2 DEF HandleVblank
    <3> QED
      BY <2>0, <2>2, <3>1, <3>2 DEF HandleVblank, Served
  <2>3. CASE ~enabled /\ UNCHANGED <<sect, time, refs>>
    <3>1. Queued = {} /\ Queued' = {}
      BY <1>e, <1>n, <1>s, <2>0, <2>3 DEF HandleVblank
    <3> QED
      BY <1>d, <1>s, <2>0, <2>3, <3>1 DEF HandleVblank, Served
  <2> QED
    BY Zenon, <2>0, <2>1, <2>2, <2>3 DEF HandleVblank
<1>4. CASE Commit
  <2>0. sect' = After(sect.op) /\ sect.step = "commit"
        /\ UNCHANGED <<inmodeset, enabled, pending>> /\ count' = sect.cnt
    BY <1>4 DEF Commit
  <2>1. CASE sect.op = "off"
    BY <1>i, <2>0, <2>1, AfterIs, ServedInOff
  <2>2. CASE sect.op = "irq"
    <3>1. sect' = NoSect
      BY <1>i, <2>0, <2>2, AfterIs
    <3>2. /\ refcount' > 0 => refcount > 0
          /\ \A e \in Queued' : e \in Queued /\ ev'[e] = ev[e] /\ ~Passed(sect.cnt, ev[e].seq)
      BY <1>4, <1>i, <2>2, ServedAfterSend DEF Commit
    <3>3. UsersServed' /\ DisableUnused'
      BY <1>d, <1>m, <1>s, <2>0, <2>2, <3>1, <3>2
    <3>4. EventsServed'
      <4>1. Queued' # {} => enabled
        BY <1>s, <2>2, <3>2
      <4> QED
        BY <1>m, <2>0, <3>1, <4>1
    <3>5. EventsWait'
      BY <2>0, <3>2
    <3> QED
      BY <3>3, <3>4, <3>5 DEF Served
  <2>3. CASE sect.op \notin {"off", "irq"}
    <3>1. sect' = NoSect
      BY <1>i, <2>0, <2>3, AfterIs
    <3>2. sect.op \in {"get", "disable", "on"}
      BY <1>i, <2>0, <2>3 DEF Shape, Sections, NoSect
    <3>3. Queued = {} /\ Queued' = {} /\ refcount' = refcount
      BY <1>4, <1>e, <1>s, <2>0, <3>2 DEF Commit
    <3> QED
      BY <1>d, <1>m, <1>s, <2>0, <3>1, <3>2, <3>3 DEF Served
  <2> QED
    BY <2>1, <2>2, <2>3
<1>5. CASE Save
  <2>1. sect.op \in {"disable", "off"} /\ sect.step = "save"
    BY <1>5, <1>i DEF Save, Shape, Sections, NoSect
  <2>2. sect' = After(sect.op) \/ sect'.op = sect.op
    BY <1>5 DEF Save, Publish
  <2>3. CASE sect.op = "off"
    BY <1>i, <2>2, <2>3, AfterIs, ServedInOff
  <2>4. CASE sect.op = "disable"
    <3>1. refcount = 0 /\ refcount' = 0 /\ Queued' = {}
      BY <1>5, <1>c, <1>e, <1>s, <2>4 DEF Save
    <3> QED
      BY <3>1 DEF Served
  <2> QED
    BY <2>1, <2>3, <2>4
<1>6. CASE OffDone
  <2>1. Queued' = {}
    BY <1>6 DEF OffDone, Send, Queued, FreeEvent
  <2>2. dev'.style = "off_on" /\ inmodeset' = 1
    BY <1>6, <1>d, <1>i DEF OffDone, Shape, Styles
  <2>3. sect'.op = "none"
    BY <1>6, <1>m DEF OffDone
  <2> QED
    BY <2>1, <2>2, <2>3 DEF Served
<1>7. CASE OnEnable
  <2>0. sect.op = "on" /\ sect.step = "enable"
    BY <1>7, <1>i DEF OnEnable, Shape, Sections, NoSect
  <2>1. UNCHANGED <<inmodeset, count, pending, ev, refcount>> /\ Queued' = Queued
    BY <1>7, <1>e DEF OnEnable, OnWorks
  <2>2. CASE ~enabled /\ EnableVblank("on", None)
    <3>1. Queued' = {} /\ enabled'
      BY <1>s, <2>0, <2>1, <2>2 DEF EnableVblank
    <3>2. sect' = NoSect \/ sect'.op = "on"
      BY <1>i, <2>2, UpdateIs, AfterIs DEF EnableVblank
    <3>3. sect'.op # "disable"
      BY <1>m, <3>2
    <3> QED
      BY <3>1, <3>3 DEF Served
  <2>3. CASE enabled /\ sect' = NoSect /\ enabled' = enabled
    BY <1>m, <1>s, <2>0, <2>1, <2>3 DEF Served
  <2> QED
    BY <1>7, <2>2, <2>3 DEF OnEnable, OnWorks
<1>8. CASE DisableFn
  <2>1. CASE Unused /\ DisableVblank("disable")
    <3>1. refcount' = 0 /\ Queued' = {}
      BY <1>8, <1>c, <1>e, <2>1 DEF DisableFn, Unused
    <3> QED
      BY <3>1 DEF Served
  <2>2. CASE UNCHANGED <<irq_on, enabled, sect>>
    BY <1>8, <1>e, <1>i, <2>2, ServedFewer DEF DisableFn
  <2> QED
    BY <1>8, <2>1, <2>2 DEF DisableFn
<1>9. CASE Off
  <2>1. sect'.op = "off"
    <3>1. CASE UpdateCount("off", None)
      BY <1>i, <3>1, UpdateIs, AfterIs
    <3>2. CASE DisableVblank("off")
      BY <3>2 DEF DisableVblank, NoSect
    <3> QED
      BY Zenon, <1>9, <3>1, <3>2 DEF Off
  <2> QED
    BY <2>1, ServedInOff
<1>10. CASE On
  <2>0. UNCHANGED <<enabled, count, pending, ev>> /\ Queued' = Queued /\ sect.op = "none"
    BY <1>10, <1>e, <1>n DEF On
  <2>1. \/ sect' = NoSect /\ refcount' = 0
        \/ sect'.op = "on" /\ sect'.step = "enable"
    BY <1>10 DEF On, NoSect
  <2>2. UsersServed' /\ DisableUnused' /\ EventsServed'
    BY <1>m, <1>n, <1>s, <2>0, <2>1
  <2>3. EventsWait'
    BY <1>s, <2>0
  <2> QED
    BY <2>2, <2>3 DEF Served
<1>11. CASE PreModeset
  <2>1. CASE Acquire(None)
    BY <1>11, <1>i, <2>1, ServedAcquire DEF PreModeset
  <2>2. CASE UNCHANGED <<refcount, irq_on, enabled, sect, time>>
    <3>1. dev.style = "pre_post" /\ UNCHANGED <<count, pending>> /\ Queued' = Queued /\ ev' = ev
      BY <1>11, <1>e DEF PreModeset
    <3> QED
      BY <1>11, <1>d, <1>s, <2>2, <3>1 DEF PreModeset, Served
  <2> QED
    BY <1>11, <2>1, <2>2 DEF PreModeset
<1>12. CASE PostModeset
  <2>1. dev.style = "pre_post" /\ Queued' = Queued
        /\ UNCHANGED <<count, pending, ev, sect, enabled>>
    BY <1>12, <1>e DEF PostModeset
  <2>2. (refcount' > 0 => refcount > 0) /\ (refcount = 0 => refcount' = 0)
    BY <1>12, <1>c, DroppedLess DEF PostModeset, Put, Temporary
  <2>3. UsersServed' /\ DisableUnused' /\ EventsServed'
    BY <1>d, <1>s, <2>1, <2>2
  <2>4. EventsWait'
    BY <1>s, <2>1
  <2> QED
    BY <2>3, <2>4 DEF Served
<1>13. ASSUME NEW t \in Threads, Get(t)
       PROVE  Served'
  BY <1>13, <1>i, ServedAcquire DEF Get
<1>14. ASSUME NEW t \in Threads, Queue(t)
       PROVE  Served'
  <2>0. UNCHANGED <<inmodeset, enabled, sect, count, pending>> /\ sect.op = "none"
    BY <1>14, <1>n DEF Queue
  <2>1. CASE Put(refcount, 1) /\ UNCHANGED ev
    <3>1. (refcount' > 0 => refcount > 0) /\ (refcount = 0 => refcount' = 0)
      BY <1>c, <2>1, DroppedLess DEF Put
    <3> QED
      BY <1>d, <1>e, <1>i, <2>0, <2>1, <3>1, ServedFewer
  <2>2. ASSUME NEW e \in Events, ev[e].st = "free", Send({e}, refcount)
        PROVE  Served'
    <3>1. \A f \in Queued' : f \in Queued /\ ev'[f] = ev[f]
      BY <2>2 DEF Send, Queued, FreeEvent
    <3>2. (refcount' > 0 => refcount > 0) /\ (refcount = 0 => refcount' = 0)
      <4>1. Cardinality({e}) = 1
        BY Zenon, FS_Singleton
      <4>2. refcount' = Dropped(refcount, 1)
        BY Zenon, <2>2, <4>1 DEF Send, HeldBy, Put
      <4> QED
        BY <1>c, <4>2, DroppedLess
    <3> QED
      BY <1>d, <1>i, <2>0, <3>1, <3>2, ServedFewer
  <2>3. ASSUME NEW e \in Events, NEW seq, ev[e].st = "free", enabled,
               ~Passed(count, seq),
               ev' = [ev EXCEPT ![e] = [st |-> "queued", seq |-> seq]],
               UNCHANGED refcount
        PROVE  Served'
    <3>1. \A f \in Queued' : \/ f \in Queued /\ ev'[f] = ev[f]
                            \/ ev'[f].seq = seq
      BY <1>i, <2>3 DEF Queued, TypeOK
    <3>2. UsersServed' /\ DisableUnused' /\ EventsServed'
      BY <2>0, <2>3
    <3>3. EventsWait'
      BY <1>s, <2>0, <2>3, <3>1
    <3> QED
      BY <3>2, <3>3 DEF Served
  <2> QED
    BY Zenon, <1>14, <2>1, <2>2, <2>3 DEF Queue, Unqueueable
<1>15. ASSUME NEW t \in Threads, Reading(t)
       PROVE  Served'
  BY <1>15, <1>e, <1>i, ReadingKeeps, ServedFewer
<1>16. ASSUME NEW t \in Threads, Done(t)
       PROVE  Served'
  <2>1. (refcount' > 0 => refcount > 0) /\ (refcount = 0 => refcount' = 0)
    BY <1>16, <1>c, DroppedLess DEF Done, Put
  <2> QED
    BY <1>16, <1>e, <1>i, <2>1, ServedFewer DEF Done
<1>17. ASSUME NEW e \in Events, ReadEvent(e)
       PROVE  Served'
  <2>1. \A f \in Queued' : f \in Queued /\ ev'[f] = ev[f]
    BY <1>17, <1>i DEF ReadEvent, Queued, FreeEvent, TypeOK
  <2> QED
    BY <1>17, <1>i, <2>1, ServedFewer DEF ReadEvent
<1>18. CASE ReleaseEvents
  <2>1. Queued' = {}
    BY Zenon, <1>18 DEF ReleaseEvents, Queued, FreeEvent
  <2>2. (refcount' > 0 => refcount > 0) /\ (refcount = 0 => refcount' = 0)
    <3>1. Cardinality(Queued) \in Nat /\ refcount \in Int
      BY <1>c, <1>i, Counted
    <3>2. refcount' = Dropped(refcount, Cardinality(Queued))
      BY <1>18 DEF ReleaseEvents, Put
    <3> QED
      BY Zenon, <3>1, <3>2, DroppedLess
  <2> QED
    BY Zenon, <1>18, <1>i, <2>1, <2>2, ServedFewer DEF ReleaseEvents
<1> QED
  BY <1>1, <1>2, <1>3, <1>4, <1>5, <1>6, <1>7, <1>8, <1>9, <1>10, <1>11, <1>12,
     <1>13, <1>14, <1>15, <1>16, <1>17, <1>18
  DEF Next, Section, Call, Reading

-----------------------------------------------------------------------------
(* The invariant and what follows from it.                                 *)

\* drm_vblank_init leaves the interrupt off, no reference and no event.
LEMMA InitInv ==
    Init => IInv
<1> SUFFICES ASSUME Init
             PROVE  IInv
  OBVIOUS
<1> USE DEF Init
<1>1. Holders = {} /\ Queued = {}
  BY DEF Holders, Queued, Idle, FreeEvent
<1>2. sect.op = "none"
  BY DEF NoSect
<1>3. TypeOK
  <2>1. last \in 0 .. MaxHw
    BY Wrapped, VblankAssumption
  <2>2. sect \in SectRecord /\ th \in ThreadTable /\ ev \in EventTable
    <3>1. 0 \in Counts
      BY VblankAssumption DEF Counts
    <3>2. sect \in SectRecord
      BY <3>1 DEF NoSect, SectRecord
    <3>3. th \in ThreadTable
      BY <3>1 DEF Idle, ThreadTable, Local
    <3>4. ev \in EventTable
      BY <3>1 DEF FreeEvent, EventTable
    <3> QED
      BY <3>2, <3>3, <3>4
  <2>3. n \in 0 .. TimeMod - 1 /\ hw \in 0 .. MaxHw /\ count \in Counts /\ stamp \in 0 .. TimeMod - 1
        /\ time \in [0 .. RbSize - 1 -> 0 .. TimeMod - 1] /\ refcount \in Int
        /\ modesets \in 0 .. MaxModesets
    BY VblankAssumption DEF Counts
  <2>4. allowed \in BOOLEAN
    BY Zenon
  <2> QED
    BY Zenon, <2>1, <2>2, <2>3, <2>4 DEF TypeOK, SectRecord, ThreadTable, Local, EventTable
<1>4. Shape
  BY Zenon, <1>2 DEF Shape, Sections, Styles, SwitchedTogether
<1>5. RefcountExact
  BY <1>1, FS_EmptySet DEF RefcountExact, ModesetReference
<1>6. Served
  BY <1>1, <1>2 DEF Served, UsersServed, DisableUnused, EventsServed, EventsWait
<1> QED
  BY <1>3, <1>4, <1>5, <1>6 DEF IInv

\* Every step of drm_irq.c keeps the invariant.
LEMMA NextInv ==
    IInv /\ [Next]_vars => IInv'
<1> SUFFICES ASSUME IInv, [Next]_vars
             PROVE  IInv'
  OBVIOUS
<1>1. CASE Next
  BY <1>1, TypeKept, ShapeKept, CountKept, ServedKept DEF IInv
<1>2. CASE UNCHANGED vars
  <2> USE <1>2 DEF vars, hardware, refs, mode, history
  <2>1. TypeOK'
    BY DEF IInv, TypeOK
  <2>2. Shape'
    BY ShapeFrame DEF IInv
  <2>3. Holders' = Holders /\ Queued' = Queued
    BY DEF Holders, Queued
  <2>4. RefcountExact'
    BY <2>3, CountFrame DEF IInv
  <2>5. Served'
    BY <2>3, ServedFewer DEF IInv
  <2> QED
    BY <2>1, <2>2, <2>4, <2>5 DEF IInv
<1> QED
  BY <1>1, <1>2

\* The invariant always holds.
LEMMA Invariant ==
    Spec => []IInv
BY InitInv, NextInv, PTL DEF Spec

\* However drm_vblank_get, drm_vblank_put, vblank_disable_fn, the interrupt, the
\* modeset calls and the closing of the file interleave, vblank->refcount is
\* exactly the calls in progress, the queued events and the modeset's own
\* reference, and outside a modeset the interrupt is on while it is not 0.
THEOREM VblankReferencesServed ==
    Spec => []ReferencesServed
<1>1. IInv => ReferencesServed
  BY DEF IInv, ReferencesServed, ReferenceKeepsEnabled, Served, UsersServed, Shape,
     SwitchedTogether, Quiet, NoSect
<1> QED
  BY <1>1, Invariant, PTL

\* Between sections an event is in the list only with the interrupt on, and
\* beyond its vblank only until the pending interrupt is handled:
\* drm_queue_vblank_event against drm_vblank_off, drm_vblank_on and
\* drm_handle_vblank.
THEOREM VblankNoStrandedEvent ==
    Spec => []NoStrandedEvent
<1>1. IInv => NoStrandedEvent
  <2> SUFFICES ASSUME IInv, OnWorks, sect = NoSect, NEW e \in Queued
               PROVE  enabled /\ (~pending => ~Passed(count, ev[e].seq))
    BY DEF NoStrandedEvent, Quiet
  <2>1. sect.op = "none"
    BY DEF NoSect
  <2>2. EventsServed /\ EventsWait
    BY DEF IInv, Served
  <2> QED
    BY <2>1, <2>2 DEF EventsServed, EventsWait
<1> QED
  BY <1>1, Invariant, PTL

\* drm_handle_vblank_events sends an event once its vblank has come;
\* only drm_vblank_off sends one before.
THEOREM VblankEventsNotEarly ==
    Spec => EventsNotEarly
<1> DEFINE Early == \A e \in Events : ev[e].st = "queued" /\ ev'[e].st = "sent" =>
                        Passed(count', ev[e].seq) \/ sect.op = "off"
<1>1. IInv /\ [Next]_vars => [Early]_vars
  <2> SUFFICES ASSUME IInv, Next, NEW e \in Events, ev[e].st = "queued", ev'[e].st = "sent"
               PROVE  Passed(count', ev[e].seq) \/ sect.op = "off"
    OBVIOUS
  <2> USE DEF hardware, refs, mode, history, core
  <2>1. ev' # ev
    OBVIOUS
  <2>2. ASSUME NEW c, HandleEvents(c)
        PROVE  Passed(c, ev[e].seq)
    BY <2>2 DEF HandleEvents, Send, FreeEvent
  <2>3. CASE Irq \/ SpuriousIrq
    BY Zenon, <2>1, <2>2, <2>3 DEF Irq, SpuriousIrq, HandleVblank
  <2>4. CASE Commit
    BY Zenon, <2>1, <2>2, <2>4 DEF Commit
  <2>5. CASE OffDone
    BY Zenon, <2>5 DEF OffDone
  <2>6. ASSUME NEW t \in Threads, Queue(t)
        PROVE  FALSE
    BY Zenon, <2>1, <2>6 DEF Queue, Send, FreeEvent, IInv, TypeOK
  <2>7. ASSUME NEW f \in Events, ReadEvent(f)
        PROVE  FALSE
    BY <2>7 DEF ReadEvent, FreeEvent, IInv, TypeOK
  <2>8. CASE ReleaseEvents
    BY Zenon, <2>8 DEF ReleaseEvents, FreeEvent
  <2>9. ASSUME NEW t \in Threads, Reading(t)
        PROVE  FALSE
    BY Zenon, <2>1, <2>9, ReadingKeeps DEF IInv
  <2> QED
    BY Zenon, <2>1, <2>3, <2>4, <2>5, <2>6, <2>7, <2>8, <2>9
    DEF Next, Section, Call, Reading, Tick, CrtcDisable, CrtcReset, Save, OnEnable, DisableFn,
        Off, On, PreModeset, PostModeset, Get, Done
<1> QED
  BY <1>1, Invariant, PTL DEF Spec, EventsNotEarly

=============================================================================

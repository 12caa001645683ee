---------------------------- MODULE TtmLockProofs ----------------------------
(***************************************************************************)
(* Proofs about TtmLock for any set of threads.                            *)
(*                                                                         *)
(* TtmLockSafe: where every write lock is interruptible, the lock excludes *)
(* what it says it excludes.  TtmLockImplements: it then implements        *)
(* LockModes.  TtmLockQueue: no wake-up is lost and every pending bit      *)
(* belongs to a thread that waits, whatever the calls.  They rest on two   *)
(* inductive invariants; a step is reduced to what it does to lock->rw, to *)
(* the flags and to the other threads.                                     *)
(***************************************************************************)
EXTENDS TtmLock, FiniteSetTheorems, TLAPS

\* The threads that hold the lock to read, and to write.
Readers == {t \in Threads : Reads(t)}
Writers == {t \in Threads : Writes(t)}

\* A thread has a call exactly while it is not idle, and only a vt call
\* registers a ref object.
CallShape ==
  \A t \in Threads :
    /\ op(t) = "none" <=> pc[t] = "idle"
    /\ pc[t] = "register" => op(t) = "vt"

\* The vt and the suspend call are each made by one thread at a time.
Serial ==
  \A t, u \in Threads :
    op(t) \in {"vt", "suspend"} /\ op(u) = op(t) => t = u

\* lock->rw counts the readers, or is -1 for the one writer: this is what the
\* tests of rw in __ttm_read_lock and __ttm_write_lock rely on.
Counted ==
  \/ rw = Cardinality(Readers) /\ Writers = {}
  \/ rw = -1 /\ Readers = {} /\ \E w \in Threads : Writers = {w}

\* Under the vt and the suspend lock nobody reads or writes.
ModesIdle == VtLock \in flags \/ SuspendLock \in flags => rw = 0

\* The inductive invariant behind the safety theorem.  Mutual exclusion alone
\* is not inductive: a step only sees rw and flags, so the invariant says what
\* they tell of the threads.
IInv ==
  /\ TypeOK
  /\ CallShape
  /\ Serial
  /\ Counted
  /\ HeldBitsHaveOwner
  /\ ModesIdle

\* A lock from ttm_lock_init has no holders and nothing set.
LEMMA InitIInv == Init => IInv
<1> SUFFICES ASSUME Init PROVE IInv
  OBVIOUS
<1>1. TypeOK
  BY DEF Init, TypeOK, Flags
<1>2. CallShape
  BY DEF Init, CallShape, op, NoCall
<1>3. Serial
  BY DEF Init, Serial, op, NoCall
<1>4. Readers = {} /\ Writers = {}
  BY DEF Init, Readers, Writers, Reads, Writes, Holds
<1>5. Counted
  BY <1>4, FS_EmptySet DEF Init, Counted
<1>6. HeldBitsHaveOwner
  BY DEF Init, HeldBitsHaveOwner, OwnsVt, Suspends, Holds, VtLock, SuspendLock
<1>7. ModesIdle
  BY DEF Init, ModesIdle
<1> QED
  BY <1>1, <1>2, <1>3, <1>5, <1>6, <1>7 DEF IInv


\* Everything of TypeOK but the range of rw, which Counted gives.
TypeRest ==
  /\ flags \in SUBSET Flags
  /\ kill_takers \in BOOLEAN
  /\ call \in [Threads -> Calls \cup {NoCall}]
  /\ pc \in [Threads ->
               {"idle", "ready", "asleep", "interrupted", "register", "holds"}]
  /\ sig \in SUBSET Threads

\* What a step of t leaves of another thread: its call, and its place up to a
\* wakeup.
Frame(t) ==
  \A u \in Threads \ {t} :
    /\ call'[u] = call[u]
    /\ pc'[u] = pc[u] \/ (pc[u] = "asleep" /\ pc'[u] = "ready")

\* Every step keeps the types, and touches no other thread but to wake it.
LEMMA TypeStep ==
  ASSUME TypeRest, NEW t \in Threads,
         Begin(t) \/ Progress(t) \/ Unlock(t) \/ Signal(t)
  PROVE  TypeRest' /\ Frame(t)
<1> USE DEF TypeRest, Frame, Goto, WakeAllAndGoto, WokenPc, Return
<1>1. CASE Begin(t)
  BY <1>1 DEF Begin
<1>2. CASE Attempt(t)
  <2> USE DEF Blocked, Flags, WritePending, VtPending, SuspendPending, VtLock,
              SuspendLock
  <2>1. CASE ReadLock(t)
    BY <2>1 DEF ReadLock, Kill
  <2>2. CASE ReadTrylock(t)
    BY <2>2 DEF ReadTrylock, Kill
  <2>3. CASE WriteLock(t)
    BY <2>3 DEF WriteLock, Kill
  <2>4. CASE VtTake(t)
    BY <2>4 DEF VtTake
  <2>5. CASE SuspendTake(t)
    BY <2>5 DEF SuspendTake
  <2> QED
    BY <1>2, <2>1, <2>2, <2>3, <2>4, <2>5 DEF Attempt
<1>3. CASE SignalWake(t)
  BY <1>3 DEF SignalWake
<1>4. CASE Interrupted(t)
  BY <1>4 DEF Interrupted
<1>5. CASE VtRegister(t)
  BY <1>5 DEF VtRegister
<1>6. CASE Unlock(t)
  BY <1>6 DEF Unlock, ReadUnlock, WriteUnlock, VtUnlock, SuspendUnlock
<1>7. CASE Signal(t)
  BY <1>7 DEF Signal
<1> QED
  BY <1>1, <1>2, <1>3, <1>4, <1>5, <1>6, <1>7 DEF Progress

\* The roles of the other threads do not change in a step of t.
LEMMA OthersKeepRoles ==
  ASSUME TypeRest, TypeRest', NEW t \in Threads, Frame(t),
         NEW u \in Threads, u # t
  PROVE  /\ op(u)' = op(u)
         /\ interruptible(u)' = interruptible(u)
         /\ Reads(u)' <=> Reads(u)
         /\ Writes(u)' <=> Writes(u)
         /\ OwnsVt(u)' <=> OwnsVt(u)
         /\ Suspends(u)' <=> Suspends(u)
BY DEF Frame, op, interruptible, Reads, Writes, OwnsVt, Suspends, Holds

\* How rw and the place of t change together, in the five ways there are.
KeepsRw(t) ==
  rw' = rw /\ (Reads(t)' <=> Reads(t)) /\ (Writes(t)' <=> Writes(t))
\* A read lock or a successful read trylock.
StartsReading(t) ==
  /\ rw >= 0 /\ rw' = rw + 1
  /\ VtLock \notin flags' /\ SuspendLock \notin flags'
  /\ ~Reads(t) /\ ~Writes(t) /\ Reads(t)' /\ ~Writes(t)'
\* A write lock.
StartsWriting(t) ==
  /\ rw = 0 /\ rw' = -1
  /\ VtLock \notin flags' /\ SuspendLock \notin flags'
  /\ ~Reads(t) /\ ~Writes(t) /\ ~Reads(t)' /\ Writes(t)'
\* ttm_read_unlock, and ttm_write_unlock.
StopsReading(t) == rw' = rw - 1 /\ Reads(t) /\ ~Reads(t)' /\ ~Writes(t)'
StopsWriting(t) == rw' = 0 /\ Writes(t) /\ ~Reads(t)' /\ ~Writes(t)'

\* Each of the five ways to treat rw keeps the count right.
LEMMA CountedStep ==
  ASSUME TypeOK, TypeRest', Counted, NEW t \in Threads, Frame(t),
         \/ KeepsRw(t) \/ StartsReading(t) \/ StartsWriting(t)
         \/ StopsReading(t) \/ StopsWriting(t)
  PROVE  Counted'
<1>1. IsFiniteSet(Readers) /\ Cardinality(Readers) \in Nat
  BY CallsAssumption, FS_Subset, FS_CardinalityType DEF Readers
<1>2. /\ Readers' \ {t} = Readers \ {t}
      /\ Writers' \ {t} = Writers \ {t}
  BY OthersKeepRoles DEF Readers, Writers, TypeOK, TypeRest
<1>3. /\ t \in Readers <=> Reads(t)
      /\ t \in Writers <=> Writes(t)
      /\ t \in Readers' <=> Reads(t)'
      /\ t \in Writers' <=> Writes(t)'
  BY DEF Readers, Writers
<1>4. CASE KeepsRw(t)
  <2>1. Readers' = Readers /\ Writers' = Writers
    BY <1>2, <1>3, <1>4 DEF KeepsRw
  <2> QED
    BY <2>1, <1>4 DEF KeepsRw, Counted
<1>5. CASE StartsReading(t)
  <2>1. Readers' = Readers \cup {t} /\ t \notin Readers /\ Writers' = Writers
    BY <1>2, <1>3, <1>5 DEF StartsReading
  <2>2. Cardinality(Readers') = Cardinality(Readers) + 1
    BY <1>1, <2>1, FS_AddElement
  <2> QED
    BY <2>1, <2>2, <1>5 DEF StartsReading, Counted
<1>6. CASE StartsWriting(t)
  <2>1. Readers = {} /\ Writers = {}
    BY <1>1, <1>6, FS_EmptySet DEF StartsWriting, Counted
  <2>2. Readers' = {} /\ Writers' = {t}
    BY <1>2, <1>3, <1>6, <2>1 DEF StartsWriting
  <2> QED
    BY <2>2, <1>6 DEF StartsWriting, Counted
<1>7. CASE StopsReading(t)
  <2>1. /\ Readers' = Readers \ {t} /\ t \in Readers
        /\ rw = Cardinality(Readers) /\ Writers = {}
    BY <1>2, <1>3, <1>7 DEF StopsReading, Counted
  <2>2. Cardinality(Readers') = Cardinality(Readers) - 1
    BY <1>1, <2>1, FS_RemoveElement
  <2>3. Writers' = {}
    BY <1>2, <1>3, <1>7, <2>1 DEF StopsReading
  <2> QED
    BY <1>1, <2>1, <2>2, <2>3, <1>7 DEF StopsReading, Counted
<1>8. CASE StopsWriting(t)
  <2>1. Readers' = {} /\ Writers' = {}
    BY <1>2, <1>3, <1>8 DEF StopsWriting, Counted
  <2> QED
    BY <2>1, <1>8, FS_EmptySet DEF StopsWriting, Counted
<1> QED
  BY <1>4, <1>5, <1>6, <1>7, <1>8

\* Where no uninterruptible ttm_write_lock() call is made, a writer is
\* interruptible.
LEMMA InterruptibleWriters ==
  ASSUME TypeOK, <<"write", FALSE>> \notin Calls, NEW t \in Threads,
         op(t) = "write"
  PROVE  interruptible(t) = TRUE
<1>1. call[t] \in Calls /\ call[t][1] = "write"
  <2>1. call[t][1] = "write"
    BY DEF op
  <2>2. NoCall[1] = "none"
    BY DEF NoCall
  <2>3. call[t] # NoCall
    BY <2>1, <2>2
  <2> QED
    BY <2>1, <2>3 DEF TypeOK
<1>2. call[t] \in Ops \X BOOLEAN
  BY <1>1, CallsAssumption
<1>3. PICK o \in Ops, b \in BOOLEAN : call[t] = <<o, b>>
  BY <1>2
<1>4. o = "write"
  BY <1>1, <1>3
<1>5. b = TRUE
  BY <1>1, <1>3, <1>4
<1>6. call[t][2] = b
  BY <1>3
<1> QED
  BY <1>5, <1>6 DEF interruptible

\* Every step treats rw in one of the five ways.
LEMMA RwStep ==
  ASSUME IInv, <<"write", FALSE>> \notin Calls, NEW t \in Threads,
         Begin(t) \/ Progress(t) \/ Unlock(t) \/ Signal(t)
  PROVE  \/ KeepsRw(t) \/ StartsReading(t) \/ StartsWriting(t)
         \/ StopsReading(t) \/ StopsWriting(t)
<1> USE DEF IInv, TypeOK, Goto, WakeAllAndGoto, WokenPc, Return, op,
            Reads, Writes, Holds, VtLock, SuspendLock, WritePending
<1>1. CASE Begin(t)
  BY <1>1 DEF Begin, KeepsRw
<1>2. CASE Attempt(t)
  <2> USE DEF Blocked, CanRead, CanWrite
  <2>0. op(t) = "write" => interruptible(t)
    BY InterruptibleWriters
  <2>1. CASE op(t) = "read" /\ ReadLock(t)
    BY <1>2, <2>1 DEF ReadLock, Kill, Attempt, KeepsRw, StartsReading
  <2>2. CASE op(t) = "tryread" /\ ReadTrylock(t)
    BY <1>2, <2>2 DEF ReadTrylock, Kill, Attempt, KeepsRw, StartsReading, NoCall
  <2>3. CASE op(t) = "write" /\ WriteLock(t)
    BY <1>2, <2>3 DEF WriteLock, Kill, Attempt, KeepsRw, StartsWriting
  <2>4. CASE op(t) = "vt" /\ VtTake(t)
    BY <1>2, <2>4 DEF VtTake, Attempt, KeepsRw
  <2>5. CASE op(t) = "suspend" /\ SuspendTake(t)
    BY <1>2, <2>5 DEF SuspendTake, Attempt, KeepsRw
  <2> QED
    BY <1>2, <2>0, <2>1, <2>2, <2>3, <2>4, <2>5 DEF Attempt
<1>3. CASE SignalWake(t)
  BY <1>3 DEF SignalWake, KeepsRw
<1>4. CASE Interrupted(t)
  BY <1>4 DEF Interrupted, KeepsRw, NoCall
<1>5. CASE VtRegister(t)
  BY <1>5 DEF VtRegister, KeepsRw, CallShape, NoCall
<1>6. CASE Unlock(t)
  BY <1>6 DEF Unlock, ReadUnlock, WriteUnlock, VtUnlock, SuspendUnlock,
              KeepsRw, StopsReading, StopsWriting, NoCall
<1>7. CASE Signal(t)
  BY <1>7 DEF Signal, KeepsRw
<1> QED
  BY <1>1, <1>2, <1>3, <1>4, <1>5, <1>6, <1>7 DEF Progress

\* A place is left or entered with the call it belongs to.
LEMMA CallShapeStep ==
  ASSUME IInv, NEW t \in Threads, TypeRest', Frame(t),
         Begin(t) \/ Progress(t) \/ Unlock(t) \/ Signal(t)
  PROVE  CallShape' /\ Serial'
<1> USE DEF IInv, TypeOK, TypeRest, CallShape, Serial, Goto, WakeAllAndGoto,
            WokenPc, Return, op
<1>0. NoCall[1] = "none" /\ \A c \in Calls : c[1] \in Ops
  BY CallsAssumption DEF NoCall
<1>a. ASSUME call' = call,
             pc'[t] = pc[t] \/ (pc[t] # "idle" /\ pc'[t] # "idle"),
             pc'[t] = "register" => op(t) = "vt"
      PROVE  CallShape' /\ Serial'
  BY <1>a DEF Frame
<1>b. ASSUME call' = [call EXCEPT ![t] = NoCall], pc'[t] = "idle"
      PROVE  CallShape' /\ Serial'
  BY <1>b, <1>0 DEF Frame
<1>1. CASE Begin(t)
  <2>1. PICK c \in Calls :
          /\ c[1] \in {"vt", "suspend"} => \A u \in Threads : op(u) # c[1]
          /\ call' = [call EXCEPT ![t] = c]
    BY <1>1 DEF Begin
  <2>2. pc'[t] = "ready" /\ op(t)' = c[1] /\ c[1] # "none"
    BY <1>1, <2>1, <1>0 DEF Begin, Ops
  <2>3. CallShape'
    BY <2>1, <2>2 DEF Frame
  <2>4. Serial'
    BY <2>1, <2>2 DEF Frame
  <2> QED
    BY <2>3, <2>4
<1>2. CASE Attempt(t)
  <2> USE DEF Blocked
  <2>1. CASE ReadLock(t)
    BY <1>2, <2>1, <1>a DEF ReadLock, Kill, Attempt
  <2>2. CASE ReadTrylock(t)
    BY <1>2, <2>2, <1>a, <1>b DEF ReadTrylock, Kill, Attempt
  <2>3. CASE WriteLock(t)
    BY <1>2, <2>3, <1>a DEF WriteLock, Kill, Attempt
  <2>4. CASE op(t) = "vt" /\ VtTake(t)
    BY <1>2, <2>4, <1>a DEF VtTake, Attempt
  <2>5. CASE SuspendTake(t)
    BY <1>2, <2>5, <1>a DEF SuspendTake, Attempt
  <2> QED
    BY <1>2, <2>1, <2>2, <2>3, <2>4, <2>5 DEF Attempt
<1>3. CASE SignalWake(t)
  BY <1>3, <1>a DEF SignalWake
<1>4. CASE Interrupted(t)
  BY <1>4, <1>b DEF Interrupted
<1>5. CASE VtRegister(t)
  BY <1>5, <1>a, <1>b DEF VtRegister
<1>6. CASE Unlock(t)
  BY <1>6, <1>b DEF Unlock, ReadUnlock, WriteUnlock, VtUnlock, SuspendUnlock
<1>7. CASE Signal(t)
  BY <1>7, <1>a DEF Signal
<1> QED
  BY <1>1, <1>2, <1>3, <1>4, <1>5, <1>6, <1>7 DEF Progress

\* How the two "held" bits and the role of t change together.
KeepsModes(t) ==
  /\ VtLock \in flags' <=> VtLock \in flags
  /\ SuspendLock \in flags' <=> SuspendLock \in flags
  /\ OwnsVt(t)' <=> OwnsVt(t)
  /\ Suspends(t)' <=> Suspends(t)
\* t gets the vt or the suspend lock, which needs rw = 0.
TakesMode(t) ==
  /\ rw = 0
  /\ rw' = 0
  /\ \/ /\ VtLock \in flags' /\ OwnsVt(t)' /\ ~Suspends(t) /\ ~Suspends(t)'
        /\ SuspendLock \in flags' <=> SuspendLock \in flags
     \/ /\ SuspendLock \in flags' /\ Suspends(t)' /\ ~OwnsVt(t) /\ ~OwnsVt(t)'
        /\ VtLock \in flags' <=> VtLock \in flags
\* t gives the vt or the suspend lock back.
LeavesMode(t) ==
  /\ rw' = rw
  /\ ~OwnsVt(t)' /\ ~Suspends(t)'
  /\ \/ /\ OwnsVt(t) /\ VtLock \notin flags'
        /\ SuspendLock \in flags' <=> SuspendLock \in flags
     \/ /\ Suspends(t) /\ SuspendLock \notin flags'
        /\ VtLock \in flags' <=> VtLock \in flags

\* Every step keeps the two modes, takes one or leaves one.
LEMMA ModeStep ==
  ASSUME IInv, NEW t \in Threads, TypeRest', Frame(t),
         Begin(t) \/ Progress(t) \/ Unlock(t) \/ Signal(t)
  PROVE  KeepsModes(t) \/ TakesMode(t) \/ LeavesMode(t)
<1> USE DEF IInv, TypeOK, TypeRest, Goto, WakeAllAndGoto, WokenPc, Return, op,
            OwnsVt, Suspends, Holds, CallShape, WritePending, VtPending,
            SuspendPending, VtLock, SuspendLock
<1>0. NoCall[1] = "none"
  BY DEF NoCall
<1>1. CASE Begin(t)
  BY <1>1 DEF Begin, KeepsModes
<1>2. CASE Attempt(t)
  <2> USE DEF Blocked
  <2>1. CASE op(t) \in {"read", "tryread", "write"} /\ ReadLock(t)
    BY <1>2, <2>1 DEF ReadLock, Kill, Attempt, KeepsModes
  <2>2. CASE op(t) = "tryread" /\ ReadTrylock(t)
    BY <1>0, <1>2, <2>2 DEF ReadTrylock, Kill, Attempt, KeepsModes
  <2>3. CASE op(t) = "write" /\ WriteLock(t)
    BY <1>2, <2>3 DEF WriteLock, Kill, Attempt, KeepsModes
  <2>4. CASE op(t) = "vt" /\ VtTake(t)
    BY <1>2, <2>4 DEF VtTake, Attempt, KeepsModes, TakesMode, CanVt
  <2>5. CASE op(t) = "suspend" /\ SuspendTake(t)
    BY <1>2, <2>5 DEF SuspendTake, Attempt, KeepsModes, TakesMode, CanSuspend
  <2> QED
    BY <1>2, <2>1, <2>2, <2>3, <2>4, <2>5 DEF Attempt
<1>3. CASE SignalWake(t)
  BY <1>3 DEF SignalWake, KeepsModes
<1>4. CASE Interrupted(t)
  BY <1>0, <1>4 DEF Interrupted, KeepsModes
<1>5. CASE VtRegister(t)
  BY <1>0, <1>5 DEF VtRegister, KeepsModes, LeavesMode
<1>6. CASE Unlock(t)
  BY <1>0, <1>6 DEF Unlock, ReadUnlock, WriteUnlock, VtUnlock, SuspendUnlock,
              KeepsModes, LeavesMode
<1>7. CASE Signal(t)
  BY <1>7 DEF Signal, KeepsModes
<1> QED
  BY <1>1, <1>2, <1>3, <1>4, <1>5, <1>6, <1>7 DEF Progress

\* Every step keeps an owner for the vt and suspend bits.
LEMMA HeldBitsStep ==
  ASSUME IInv, NEW t \in Threads, TypeRest', Frame(t),
         Begin(t) \/ Progress(t) \/ Unlock(t) \/ Signal(t)
  PROVE  HeldBitsHaveOwner'
<1>1. /\ \A u \in Threads \ {t} : OwnsVt(u)' <=> OwnsVt(u)
      /\ \A u \in Threads \ {t} : Suspends(u)' <=> Suspends(u)
  BY OthersKeepRoles DEF IInv, TypeOK, TypeRest
<1>2. /\ \A u \in Threads \ {t} : OwnsVt(t) => ~OwnsVt(u)
      /\ \A u \in Threads \ {t} : Suspends(t) => ~Suspends(u)
  BY DEF IInv, Serial, OwnsVt, Suspends, Holds
<1>3. CASE KeepsModes(t)
  BY <1>1, <1>3 DEF KeepsModes, IInv, HeldBitsHaveOwner
<1>4. CASE TakesMode(t)
  BY <1>1, <1>4 DEF TakesMode, IInv, HeldBitsHaveOwner
<1>5. CASE LeavesMode(t)
  <2>1. ~(OwnsVt(t) /\ Suspends(t))
    BY DEF OwnsVt, Suspends, Holds
  <2> QED
    BY <1>1, <1>2, <1>5, <2>1 DEF LeavesMode, IInv, HeldBitsHaveOwner
<1> QED
  BY <1>3, <1>4, <1>5, ModeStep

\* No step starts to read or write under the vt or the suspend lock.
LEMMA ModesIdleStep ==
  ASSUME IInv, <<"write", FALSE>> \notin Calls, NEW t \in Threads,
         TypeRest', Frame(t),
         Begin(t) \/ Progress(t) \/ Unlock(t) \/ Signal(t)
  PROVE  ModesIdle'
<1> USE DEF IInv, ModesIdle
<1>1. CASE StartsReading(t) \/ StartsWriting(t)
  BY <1>1 DEF StartsReading, StartsWriting
<1>2. CASE StopsWriting(t)
  BY <1>2 DEF StopsWriting
<1>3. CASE KeepsRw(t)
  BY <1>3, ModeStep DEF KeepsRw, KeepsModes, TakesMode, LeavesMode
<1>4. CASE StopsReading(t)
  <2>1. t \in Readers /\ Readers \subseteq Threads
    BY <1>4 DEF StopsReading, Readers
  <2>2. IsFiniteSet(Readers)
    BY <2>1, CallsAssumption, FS_Subset
  <2>3. rw = Cardinality(Readers) /\ Cardinality(Readers) # 0
    BY <2>1, <2>2, FS_EmptySet DEF Counted
  <2>4. VtLock \notin flags /\ SuspendLock \notin flags
    BY <2>3
  <2> QED
    BY <1>4, <2>3, <2>4, ModeStep
       DEF KeepsModes, TakesMode, LeavesMode, OwnsVt, Suspends, Reads, Holds,
           StopsReading
<1> QED
  BY <1>1, <1>2, <1>3, <1>4, RwStep

\* The inductive invariant is preserved by every step.
LEMMA NextIInv ==
  ASSUME <<"write", FALSE>> \notin Calls, IInv, [Next]_vars
  PROVE  IInv'
<1>1. ASSUME NEW t \in Threads,
             Begin(t) \/ Progress(t) \/ Unlock(t) \/ Signal(t)
      PROVE  IInv'
  <2>1. TypeRest' /\ Frame(t)
    BY <1>1, TypeStep DEF IInv, TypeOK, TypeRest
  <2>2. Counted'
    BY <1>1, <2>1, RwStep, CountedStep DEF IInv
  <2>3. TypeOK'
    <3>1. IsFiniteSet(Readers')
      BY CallsAssumption, FS_Subset DEF Readers
    <3>2. Cardinality(Readers') \in Nat
      BY <3>1, FS_CardinalityType
    <3> QED
      BY <2>1, <2>2, <3>2 DEF Counted, TypeOK, TypeRest
  <2> QED
    BY <1>1, <2>1, <2>2, <2>3, CallShapeStep, HeldBitsStep, ModesIdleStep
       DEF IInv
<1>2. CASE SetKill
  BY <1>2 DEF SetKill, IInv, TypeOK, CallShape, Serial, Counted, ModesIdle,
              HeldBitsHaveOwner, Readers, Writers, Reads, Writes, OwnsVt,
              Suspends, Holds, op
<1>3. CASE UNCHANGED vars
  BY <1>3 DEF vars, IInv, TypeOK, CallShape, Serial, Counted, ModesIdle,
              HeldBitsHaveOwner, Readers, Writers, Reads, Writes, OwnsVt,
              Suspends, Holds, op
<1> QED
  BY <1>1, <1>2, <1>3 DEF Next

\* Exclusion follows from the count: with a writer inside there is no reader
\* and no second writer, and a held mode means that rw is 0.
LEMMA Exclusion ==
  ASSUME IInv
  PROVE  RwCounts /\ WriterExcludes /\ ModesExclude
<1> USE DEF IInv
<1>1. RwCounts
  BY DEF Counted, RwCounts, Readers, Writers
<1>2. WriterExcludes
  BY DEF Counted, WriterExcludes, Readers, Writers
<1>3. ModesExclude
  <2> SUFFICES ASSUME NEW t \in Threads, NEW u \in Threads,
                      OwnsVt(t) \/ Suspends(t)
               PROVE  ~Reads(u) /\ ~Writes(u)
    BY DEF ModesExclude
  <2>1. rw = 0
    BY DEF HeldBitsHaveOwner, ModesIdle
  <2>2. IsFiniteSet(Readers)
    BY CallsAssumption, FS_Subset DEF Readers
  <2>3. Readers = {} /\ Writers = {}
    BY <2>1, <2>2, FS_EmptySet DEF Counted
  <2> QED
    BY <2>3 DEF Readers, Writers
<1> QED
  BY <1>1, <1>2, <1>3

\* Where every ttm_write_lock() call is interruptible, ttm_lock.c keeps rw a
\* count of the readers or -1 for the one writer, keeps writers alone, keeps
\* readers and writers out of the VT and suspend modes, and never loses track
\* of who set a "held" bit, for any number of threads and any set of calls.
THEOREM TtmLockSafe ==
  ASSUME <<"write", FALSE>> \notin Calls
  PROVE  Spec => [](TypeOK /\ RwCounts /\ WriterExcludes /\ ModesExclude
                      /\ HeldBitsHaveOwner)
<1>1. IInv /\ [Next]_vars => IInv'
  BY NextIInv
<1>2. IInv => TypeOK /\ RwCounts /\ WriterExcludes /\ ModesExclude
                /\ HeldBitsHaveOwner
  BY Exclusion DEF IInv
<1> QED
  BY InitIInv, <1>1, <1>2, PTL DEF Spec

------------------------------------------------------------------------------
(* The lock implements the four modes of LockModes. *)

\* The modes of a thread exclude each other, so its mode is the one it holds.
LEMMA ModeOf ==
  ASSUME NEW t \in Threads
  PROVE  /\ modes[t] \in Promise!Modes \cup {"none"}
         /\ modes[t] = "read" <=> Reads(t)
         /\ modes[t] = "write" <=> Writes(t)
         /\ modes[t] = "vt" <=> OwnsVt(t)
         /\ modes[t] = "suspend" <=> Suspends(t)
BY DEF modes, Reads, Writes, OwnsVt, Suspends, Holds, Promise!Modes

\* A thread goes from one mode to another only through none: ttm_lock.c has no
\* upgrade and no downgrade.
LEMMA NoUpgrade ==
  ASSUME IInv, NEW t \in Threads, TypeRest',
         Begin(t) \/ Progress(t) \/ Unlock(t) \/ Signal(t)
  PROVE  modes'[t] = modes[t] \/ modes[t] = "none" \/ modes'[t] = "none"
<1> USE DEF IInv, TypeOK, TypeRest, Goto, WakeAllAndGoto, WokenPc, CallShape, op,
            modes, Reads, Writes, OwnsVt, Suspends, Holds
<1>1. CASE pc[t] \notin {"register", "holds"}
  BY <1>1
<1>2. CASE pc'[t] \notin {"register", "holds"}
  BY <1>2
<1>3. CASE pc[t] \in {"register", "holds"} /\ pc'[t] \in {"register", "holds"}
  BY <1>3 DEF Begin, Progress, Unlock, Signal, Attempt, SignalWake, Interrupted,
              VtRegister, ReadUnlock, WriteUnlock, VtUnlock, SuspendUnlock
<1> QED
  BY <1>1, <1>2, <1>3

\* Threads inside together are in compatible modes.
InsideCompatible ==
  \A t, u \in Threads :
    t # u /\ modes[t] # "none" /\ modes[u] # "none" =>
      Promise!Compatible(modes[t], modes[u])

\* The compatibility table is what the exclusion properties say.
LEMMA CompatibleModes == IInv => InsideCompatible
<1> SUFFICES ASSUME IInv, NEW t \in Threads, NEW u \in Threads, t # u,
                    modes[t] # "none", modes[u] # "none"
             PROVE  Promise!Compatible(modes[t], modes[u])
  BY DEF InsideCompatible
<1>1. WriterExcludes /\ ModesExclude
  BY Exclusion
<1>2. ~(OwnsVt(t) /\ OwnsVt(u)) /\ ~(Suspends(t) /\ Suspends(u))
  BY DEF IInv, Serial, OwnsVt, Suspends, Holds
<1> QED
  BY <1>1, <1>2, ModeOf
     DEF WriterExcludes, ModesExclude, Promise!Compatible, Promise!Modes

\* A step of the lock is a step of LockModes, or none.
LEMMA StepImplements ==
  ASSUME <<"write", FALSE>> \notin Calls, IInv, [Next]_vars
  PROVE  [Promise!Next]_modes
<1>1. InsideCompatible'
  <2>1. IInv'
    BY NextIInv
  <2> QED
    BY <2>1, CompatibleModes, PTL
<1>2. ASSUME NEW t \in Threads,
             Begin(t) \/ Progress(t) \/ Unlock(t) \/ Signal(t)
      PROVE  [Promise!Next]_modes
  <2>1. TypeRest' /\ Frame(t)
    BY <1>2, TypeStep DEF IInv, TypeOK, TypeRest
  <2>2. \A u \in Threads \ {t} : modes'[u] = modes[u]
    BY <2>1, OthersKeepRoles DEF modes, IInv, TypeOK, TypeRest
  <2>3. /\ modes = [u \in Threads |-> modes[u]]
        /\ modes' = [u \in Threads |-> modes'[u]]
    BY DEF modes
  <2>4. CASE modes'[t] = modes[t]
    BY <2>2, <2>3, <2>4
  <2>5. CASE modes[t] # "none" /\ modes'[t] = "none"
    <3>1. modes' = [modes EXCEPT ![t] = "none"]
      BY <2>2, <2>3, <2>5
    <3> QED
      BY <2>5, <3>1 DEF Promise!Next, Promise!Leave
  <2>6. CASE modes[t] = "none" /\ modes'[t] # "none"
    <3>1. modes' = [modes EXCEPT ![t] = modes'[t]]
      BY <2>2, <2>3
    <3>2. modes'[t] \in Promise!Modes
      BY <2>6 DEF modes, Promise!Modes
    <3>3. \A u \in Threads \ {t} : modes'[u] # "none" =>
            Promise!Compatible(modes'[t], modes'[u])
      BY <1>1, <2>6 DEF InsideCompatible
    <3>4. \A u \in Threads : modes[u] # "none" =>
            Promise!Compatible(modes'[t], modes[u])
      BY <2>2, <2>6, <3>3
    <3> QED
      BY <2>6, <3>1, <3>2, <3>4 DEF Promise!Next, Promise!Enter
  <2> QED
    BY <1>2, <2>1, <2>4, <2>5, <2>6, NoUpgrade
<1>3. CASE SetKill
  BY <1>3 DEF SetKill, modes, Reads, Writes, OwnsVt, Suspends, Holds, op
<1>4. CASE UNCHANGED vars
  BY <1>4 DEF vars, modes, Reads, Writes, OwnsVt, Suspends, Holds, op
<1> QED
  BY <1>2, <1>3, <1>4 DEF Next

\* Where every ttm_write_lock() call is interruptible, ttm_lock.c implements the
\* modes of LockModes, for any number of threads and any set of calls.
THEOREM TtmLockImplements ==
  ASSUME <<"write", FALSE>> \notin Calls
  PROVE  Spec => Implements
<1>1. Init => Promise!Init
  BY DEF Init, Promise!Init, modes, Reads, Writes, OwnsVt, Suspends, Holds, op,
         NoCall
<1>2. IInv /\ [Next]_vars => IInv'
  BY NextIInv
<1>3. IInv /\ [Next]_vars => [Promise!Next]_modes
  BY StepImplements
<1> QED
  BY InitIInv, <1>1, <1>2, <1>3, PTL DEF Spec, Implements, Promise!Spec

------------------------------------------------------------------------------
(* The wait queue.  These hold for every set of calls, the uninterruptible *)
(* ttm_write_lock() included: they need much less of rw.                   *)

\* The threads inside one of the wait loops.
Waiting(t) == pc[t] \in {"ready", "asleep", "interrupted"}

\* PendingHasOwner names any waiting writer; the one that set the bit is an
\* interruptible one, and the invariant has to say so: an uninterruptible
\* writer leaves without touching the bit.
PendingOwned ==
  /\ WritePending \in flags =>
       \E t \in Threads : op(t) = "write" /\ interruptible(t) /\ Waiting(t)
  /\ VtPending \in flags => \E t \in Threads : op(t) = "vt" /\ Waiting(t)
  /\ SuspendPending \in flags =>
       \E t \in Threads : op(t) = "suspend" /\ Waiting(t)

\* Only an interruptible wait is left by a signal.
InterruptedShape ==
  \A t \in Threads : pc[t] = "interrupted" => interruptible(t)

\* The inductive invariant behind the theorem on the wait queue; it needs
\* nothing of the counts.
QInv ==
  /\ TypeRest
  /\ rw \in Int
  /\ kill_takers => KillAllowed
  /\ InterruptedShape
  /\ PendingOwned
  /\ NoLostWakeup

\* A lock from ttm_lock_init has no pending bit and no sleeper.
LEMMA InitQInv == Init => QInv
<1> SUFFICES ASSUME Init PROVE QInv
  OBVIOUS
<1>1. TypeRest
  BY DEF Init, TypeRest
<1>2. InterruptedShape /\ PendingOwned /\ NoLostWakeup
  BY DEF Init, InterruptedShape, PendingOwned, NoLostWakeup
<1> QED
  BY <1>1, <1>2 DEF Init, QInv

\* ttm_suspend_lock() is never interrupted.
LEMMA SuspendUninterruptible ==
  ASSUME TypeRest, NEW t \in Threads, op(t) = "suspend"
  PROVE  ~interruptible(t)
<1>1. call[t] \in Calls /\ call[t][1] = "suspend"
  <2>1. call[t][1] = "suspend"
    BY DEF op
  <2>2. NoCall[1] = "none"
    BY DEF NoCall
  <2>3. call[t] # NoCall
    BY <2>1, <2>2
  <2> QED
    BY <2>1, <2>3 DEF TypeRest
<1>2. call[t] \in Ops \X BOOLEAN /\ call[t] # <<"suspend", TRUE>>
  BY <1>1, CallsAssumption
<1>3. PICK o \in Ops, b \in BOOLEAN : call[t] = <<o, b>>
  BY <1>2
<1>4. o = "suspend"
  BY <1>1, <1>3
<1>5. b = FALSE
  BY <1>2, <1>3, <1>4
<1>6. call[t][2] = b
  BY <1>3
<1> QED
  BY <1>5, <1>6 DEF interruptible

\* Whoever the kill switch hits is in an interruptible wait.
LEMMA KilledInterruptible ==
  ASSUME QInv, NEW t \in Threads, kill_takers,
         op(t) \in {"read", "tryread", "write"}
  PROVE  interruptible(t)
<1>1. call[t][1] \in {"read", "tryread", "write"} /\ NoCall[1] = "none"
  BY DEF op, NoCall
<1>2. call[t] # NoCall
  BY <1>1
<1>3. call[t] \in Calls
  BY <1>2 DEF QInv, TypeRest
<1>4. call[t][1] \in {"vt", "suspend"} \/ call[t][2]
  BY <1>3, CallsAssumption DEF QInv
<1> QED
  BY <1>1, <1>4 DEF interruptible

\* Every step keeps lock->rw an integer.
LEMMA RwInteger ==
  ASSUME QInv, NEW t \in Threads,
         Begin(t) \/ Progress(t) \/ Unlock(t) \/ Signal(t)
  PROVE  rw' \in Int /\ kill_takers' = kill_takers
BY DEF QInv, Begin, Progress, Unlock, Signal, Attempt, ReadLock, ReadTrylock,
       WriteLock, VtTake, SuspendTake, Kill, SignalWake, Interrupted,
       VtRegister, ReadUnlock, WriteUnlock, VtUnlock, SuspendUnlock

\* Every step keeps signals to the interruptible waits.
LEMMA InterruptedStep ==
  ASSUME QInv, NEW t \in Threads, TypeRest', Frame(t),
         Begin(t) \/ Progress(t) \/ Unlock(t) \/ Signal(t)
  PROVE  InterruptedShape'
<1> USE DEF QInv, TypeRest, InterruptedShape, Goto, WakeAllAndGoto, WokenPc
<1>1. pc'[t] = "interrupted" => interruptible(t)'
  <2>1. CASE Begin(t)
    BY <2>1 DEF Begin
  <2>2. CASE Attempt(t)
    BY <2>2 DEF Attempt, ReadLock, ReadTrylock, WriteLock, VtTake, SuspendTake,
                Kill, Blocked, interruptible
  <2>3. CASE SignalWake(t) \/ Interrupted(t) \/ VtRegister(t) \/ Unlock(t)
    BY <2>3 DEF SignalWake, Interrupted, VtRegister, Unlock, ReadUnlock,
                WriteUnlock, VtUnlock, SuspendUnlock
  <2>4. CASE Signal(t)
    BY <2>4 DEF Signal, interruptible
  <2> QED
    BY <2>1, <2>2, <2>3, <2>4 DEF Progress
<1>2. \A u \in Threads \ {t} : pc'[u] = "interrupted" => interruptible(u)'
  BY DEF Frame, interruptible
<1> QED
  BY <1>1, <1>2

\* Who may have set a pending bit.
MayOwn(t, bit) ==
  \/ bit = WritePending /\ op(t) = "write" /\ interruptible(t)
  \/ bit = VtPending /\ op(t) = "vt"
  \/ bit = SuspendPending /\ op(t) = "suspend"

\* A step of t sets a pending bit only by staying in its wait, and leaves its
\* wait only with the bit it waits under cleared.
LEMMA PendingBits ==
  ASSUME QInv, NEW t \in Threads, TypeRest', Frame(t),
         Begin(t) \/ Progress(t) \/ Unlock(t) \/ Signal(t),
         NEW bit \in {WritePending, VtPending, SuspendPending}
  PROVE  /\ bit \in flags' => bit \in flags \/ (Waiting(t)' /\ MayOwn(t, bit)')
         /\ Waiting(t) /\ MayOwn(t, bit) /\ bit \in flags'
              => Waiting(t)' /\ MayOwn(t, bit)'
<1> USE DEF QInv, TypeRest, Goto, WakeAllAndGoto, WokenPc, Return, Waiting,
            MayOwn, op, interruptible, WritePending, VtPending,
            SuspendPending, VtLock, SuspendLock
<1>1. CASE Begin(t)
  BY <1>1 DEF Begin
<1>2. CASE Attempt(t)
  <2> USE DEF Blocked
  <2>1. CASE op(t) \in {"read", "tryread"} /\ ReadLock(t)
    BY <1>2, <2>1 DEF ReadLock, Kill, Attempt
  <2>2. CASE op(t) = "tryread" /\ ReadTrylock(t)
    BY <1>2, <2>2 DEF ReadTrylock, Kill, Attempt
  <2>3. CASE op(t) = "write" /\ interruptible(t) /\ WriteLock(t)
    BY <1>2, <2>3 DEF WriteLock, Kill, Attempt
  <2>4. CASE op(t) = "write" /\ ~interruptible(t) /\ ReadLock(t)
    BY <1>2, <2>4 DEF ReadLock, Kill, Attempt
  <2>5. CASE op(t) = "vt" /\ VtTake(t)
    BY <1>2, <2>5 DEF VtTake, Attempt
  <2>6. CASE op(t) = "suspend" /\ SuspendTake(t)
    BY <1>2, <2>6 DEF SuspendTake, Attempt
  <2> QED
    BY <1>2, <2>1, <2>2, <2>3, <2>4, <2>5, <2>6 DEF Attempt
<1>3. CASE SignalWake(t)
  BY <1>3 DEF SignalWake
<1>4. CASE Interrupted(t)
  <2>1. op(t) # "suspend"
    BY <1>4, SuspendUninterruptible DEF Interrupted, InterruptedShape
  <2> QED
    BY <1>4, <2>1 DEF Interrupted
<1>5. CASE VtRegister(t)
  BY <1>5 DEF VtRegister
<1>6. CASE Unlock(t)
  BY <1>6 DEF Unlock, ReadUnlock, WriteUnlock, VtUnlock, SuspendUnlock
<1>7. CASE Signal(t)
  BY <1>7 DEF Signal
<1> QED
  BY <1>1, <1>2, <1>3, <1>4, <1>5, <1>6, <1>7 DEF Progress

\* Every step keeps a waiting owner behind each pending bit.
LEMMA PendingStep ==
  ASSUME QInv, NEW t \in Threads, TypeRest', Frame(t),
         Begin(t) \/ Progress(t) \/ Unlock(t) \/ Signal(t)
  PROVE  PendingOwned'
<1>1. \A u \in Threads \ {t} : \A b \in {WritePending, VtPending, SuspendPending} :
        (Waiting(u)' <=> Waiting(u)) /\ (MayOwn(u, b)' <=> MayOwn(u, b))
  BY DEF Frame, Waiting, MayOwn, op, interruptible, QInv, TypeRest
<1>2. ASSUME NEW b \in {WritePending, VtPending, SuspendPending}, b \in flags',
             b \in flags => \E u \in Threads : Waiting(u) /\ MayOwn(u, b)
      PROVE  \E u \in Threads : Waiting(u)' /\ MayOwn(u, b)'
  <2>1. CASE b \notin flags
    BY <1>2, <2>1, PendingBits
  <2>2. CASE b \in flags
    <3>1. PICK u \in Threads : Waiting(u) /\ MayOwn(u, b)
      BY <1>2, <2>2
    <3>2. CASE u = t
      BY <1>2, <3>1, <3>2, PendingBits
    <3>3. CASE u # t
      BY <1>1, <3>1, <3>3
    <3> QED
      BY <3>2, <3>3
  <2> QED
    BY <2>1, <2>2
<1>3. WritePending # VtPending /\ WritePending # SuspendPending
        /\ VtPending # SuspendPending
  BY DEF WritePending, VtPending, SuspendPending
<1>4. /\ WritePending \in flags => \E u \in Threads : Waiting(u) /\ MayOwn(u, WritePending)
      /\ VtPending \in flags => \E u \in Threads : Waiting(u) /\ MayOwn(u, VtPending)
      /\ SuspendPending \in flags => \E u \in Threads : Waiting(u) /\ MayOwn(u, SuspendPending)
  BY DEF QInv, PendingOwned, MayOwn
<1>5. /\ WritePending \in flags' => \E u \in Threads : Waiting(u)' /\ MayOwn(u, WritePending)'
      /\ VtPending \in flags' => \E u \in Threads : Waiting(u)' /\ MayOwn(u, VtPending)'
      /\ SuspendPending \in flags' => \E u \in Threads : Waiting(u)' /\ MayOwn(u, SuspendPending)'
  BY <1>2, <1>4
<1> QED
  BY <1>3, <1>5 DEF PendingOwned, MayOwn

\* A step that does not wake the queue makes no wait condition true.
EnablesNothing ==
  /\ CanRead' => CanRead
  /\ CanWrite' => CanWrite
  /\ rw' = 0 => rw = 0

\* A step that lets some wait end also wakes the queue.
LEMMA WakesOrEnablesNothing ==
  ASSUME QInv, NEW t \in Threads, TypeRest',
         Begin(t) \/ Progress(t) \/ Unlock(t) \/ Signal(t)
  PROVE  EnablesNothing \/ (\A u \in Threads \ {t} : pc'[u] # "asleep")
<1> USE DEF QInv, TypeRest, EnablesNothing, CanRead, CanWrite, Goto,
            WakeAllAndGoto, WokenPc, WritePending, VtPending, SuspendPending,
            VtLock, SuspendLock
<1>1. CASE Begin(t) \/ SignalWake(t) \/ Signal(t)
  BY <1>1 DEF Begin, SignalWake, Signal
<1>2. CASE Attempt(t)
  <2>1. CASE ReadLock(t)
    BY <2>1 DEF ReadLock, Kill
  <2>2. CASE ReadTrylock(t)
    BY <2>2 DEF ReadTrylock, Kill
  <2>3. CASE WriteLock(t)
    BY <2>3 DEF WriteLock, Kill
  <2>4. CASE VtTake(t)
    BY <2>4 DEF VtTake, CanVt
  <2>5. CASE SuspendTake(t)
    BY <2>5 DEF SuspendTake, CanSuspend
  <2> QED
    BY <1>2, <2>1, <2>2, <2>3, <2>4, <2>5 DEF Attempt
<1>3. CASE Interrupted(t)
  BY <1>3 DEF Interrupted
<1>4. CASE VtRegister(t)
  BY <1>4 DEF VtRegister
<1>5. CASE Unlock(t)
  <2>1. CASE ReadUnlock(t) /\ rw' = 0
    BY <2>1 DEF ReadUnlock
  <2>2. CASE ReadUnlock(t) /\ rw' # 0
    BY <2>2 DEF ReadUnlock
  <2>3. CASE WriteUnlock(t) \/ VtUnlock(t) \/ SuspendUnlock(t)
    BY <2>3 DEF WriteUnlock, VtUnlock, SuspendUnlock
  <2> QED
    BY <1>5, <2>1, <2>2, <2>3 DEF Unlock
<1> QED
  BY <1>1, <1>2, <1>3, <1>4, <1>5 DEF Progress

\* Whoever goes to sleep saw its condition false, or has a signal to wake it.
LEMMA FallsAsleep ==
  ASSUME QInv, NEW t \in Threads, TypeRest',
         Begin(t) \/ Progress(t) \/ Unlock(t) \/ Signal(t),
         pc'[t] = "asleep", Grantable(t)'
  PROVE  interruptible(t)' /\ t \in sig'
<1> USE DEF QInv, TypeRest, Goto, WakeAllAndGoto, WokenPc
<1>1. CASE Begin(t) \/ SignalWake(t) \/ Interrupted(t) \/ VtRegister(t) \/ Unlock(t)
  BY <1>1 DEF Begin, SignalWake, Interrupted, VtRegister, Unlock, ReadUnlock,
              WriteUnlock, VtUnlock, SuspendUnlock
<1>2. CASE Signal(t)
  BY <1>2 DEF Signal, interruptible
<1>3. CASE Attempt(t)
  <2>0. CASE Kill(t) /\ op(t) \in {"read", "tryread", "write"}
    BY <2>0, KilledInterruptible DEF Kill, interruptible
  <2> USE DEF Grantable, CanRead, CanWrite, CanVt, CanSuspend, op,
              interruptible, Return, WritePending, VtPending, SuspendPending
  <2>1. CASE op(t) = "read" /\ ReadLock(t)
    BY <2>0, <2>1 DEF ReadLock
  <2>2. CASE op(t) = "tryread" /\ ReadTrylock(t)
    BY <2>0, <2>2 DEF ReadTrylock
  <2>3. CASE op(t) = "write" /\ interruptible(t) /\ WriteLock(t)
    BY <2>0, <2>3 DEF WriteLock
  <2>4. CASE op(t) = "write" /\ ~interruptible(t) /\ ReadLock(t)
    BY <2>0, <2>4 DEF ReadLock
  <2>5. CASE op(t) = "vt" /\ VtTake(t)
    BY <2>5 DEF VtTake
  <2>6. CASE op(t) = "suspend" /\ SuspendTake(t)
    BY <2>6 DEF SuspendTake
  <2> QED
    BY <1>3, <2>1, <2>2, <2>3, <2>4, <2>5, <2>6 DEF Attempt
<1> QED
  BY <1>1, <1>2, <1>3 DEF Progress

\* A signal is only taken from the thread that returns.
LEMMA SignalsStay ==
  ASSUME NEW t \in Threads, NEW u \in Threads, u # t, u \in sig,
         Begin(t) \/ Progress(t) \/ Unlock(t) \/ Signal(t)
  PROVE  u \in sig'
BY DEF Begin, Progress, Unlock, Signal, Attempt, ReadLock, ReadTrylock,
       WriteLock, VtTake, SuspendTake, Kill, SignalWake, Interrupted,
       VtRegister, Return

\* No step leaves a sleeper behind whose condition has come true.
LEMMA NoLostWakeupStep ==
  ASSUME QInv, NEW t \in Threads, TypeRest', Frame(t),
         Begin(t) \/ Progress(t) \/ Unlock(t) \/ Signal(t)
  PROVE  NoLostWakeup'
<1>0. EnablesNothing \/ (\A v \in Threads \ {t} : pc'[v] # "asleep")
  BY WakesOrEnablesNothing
<1> SUFFICES ASSUME NEW u \in Threads, pc'[u] = "asleep", Grantable(u)'
             PROVE  interruptible(u)' /\ u \in sig'
  BY DEF NoLostWakeup
<1>1. CASE u = t
  BY <1>1, FallsAsleep
<1>2. CASE u # t
  <2>1. EnablesNothing
    BY <1>0, <1>2
  <2>2. pc[u] = "asleep" /\ op(u)' = op(u) /\ interruptible(u)' = interruptible(u)
    BY <1>2 DEF Frame, op, interruptible
  <2>3. Grantable(u)
    BY <2>1, <2>2 DEF Grantable, EnablesNothing, CanVt, CanSuspend
  <2>4. interruptible(u) /\ u \in sig
    BY <2>2, <2>3 DEF QInv, NoLostWakeup
  <2> QED
    BY <1>2, <2>2, <2>4, SignalsStay
<1> QED
  BY <1>1, <1>2

\* The queue invariant is inductive.
LEMMA NextQInv == QInv /\ [Next]_vars => QInv'
<1> SUFFICES ASSUME QInv, [Next]_vars PROVE QInv'
  OBVIOUS
<1>1. ASSUME NEW t \in Threads,
             Begin(t) \/ Progress(t) \/ Unlock(t) \/ Signal(t)
      PROVE  QInv'
  <2>1. TypeRest' /\ Frame(t)
    BY <1>1, TypeStep DEF QInv
  <2> QED
    BY <1>1, <2>1, RwInteger, InterruptedStep, PendingStep, NoLostWakeupStep
       DEF QInv
<1>2. CASE SetKill
  BY <1>2 DEF SetKill, QInv, TypeRest, InterruptedShape, PendingOwned, Waiting,
              NoLostWakeup, Grantable, CanRead, CanWrite, CanVt, CanSuspend,
              op, interruptible
<1>3. CASE UNCHANGED vars
  BY <1>3 DEF vars, QInv, TypeRest, InterruptedShape, PendingOwned, Waiting,
              NoLostWakeup, Grantable, CanRead, CanWrite, CanVt, CanSuspend,
              op, interruptible
<1> QED
  BY <1>1, <1>2, <1>3 DEF Next

\* rw and the flags say exactly who is inside and who waits, for any number of
\* threads, where every ttm_write_lock() call is interruptible.
THEOREM TtmLockOwners ==
  ASSUME <<"write", FALSE>> \notin Calls
  PROVE  Spec => []OwnersExact
<1>1. IInv /\ [Next]_vars => IInv'
  BY NextIInv
<1>2. IInv => TypeOK /\ RwCounts /\ HeldBitsHaveOwner
  BY Exclusion DEF IInv
<1>3. QInv => PendingHasOwner
  BY DEF QInv, PendingOwned, PendingHasOwner, Waiting
<1>4. TypeOK /\ RwCounts /\ HeldBitsHaveOwner /\ PendingHasOwner => OwnersExact
  BY DEF OwnersExact
<1> QED
  BY InitIInv, InitQInv, NextQInv, <1>1, <1>2, <1>3, <1>4, PTL DEF Spec

\* No sleeper of ttm_lock.c misses its wakeup and no pending bit outlives its
\* taker, for any number of threads making any calls.
THEOREM TtmLockQueue == Spec => [](NoLostWakeup /\ PendingHasOwner)
<1>1. QInv => NoLostWakeup /\ PendingHasOwner
  BY DEF QInv, PendingOwned, PendingHasOwner, Waiting
<1> QED
  BY InitQInv, NextQInv, <1>1, PTL DEF Spec
==============================================================================

---------------------------- MODULE HwLockProofs -----------------------------
(***************************************************************************)
(* Proofs about HwLock for any set of files.                               *)
(*                                                                         *)
(* HwLockSafe: the hardware lock excludes, the kernel knows its holder,    *)
(* and no client sleeps on it unnoticed.  The three do not hold by         *)
(* themselves: a step sees the lock word, the counters of waiters and      *)
(* drm_global_mutex, and the inductive invariant says what these tell of   *)
(* the clients.                                                            *)
(***************************************************************************)
EXTENDS HwLock, FiniteSetTheorems, TLAPS

\* The clients inside drm_legacy_lock().
Waiting == {f \in Files : th[f] \in {"asleep", "awake"}}

\* user_waiters counts the clients inside drm_legacy_lock().
WaitersCounted == user_waiters = Cardinality(Waiting)

\* A file is open until drm_release() begins.
OpenShape ==
  \A f \in Files : f \in open <=> th[f] \in {"out", "asleep", "awake", "inside"}

\* drm_global_mutex belongs to the file that is being closed, whose preclose() is the
\* only one to wait in the kernel for the lock.
CloseShape ==
  /\ \A f \in Files : th[f] \in {"release", "closing"} => global_mutex = f
  /\ global_mutex # None =>
       \/ th[global_mutex] = "release" /\ kernel_waiters = 1
       \/ th[global_mutex] = "closing" /\ kernel_waiters = 0
       \/ th[global_mutex] = "closed" /\ kernel_waiters = 0 /\ global_mutex = Master
  /\ global_mutex = None => kernel_waiters = 0

\* While there is a lock, the word tells who is inside.
WordTells ==
  /\ hw_lock => \A f \in Files : th[f] = "inside" => held /\ ctx = f
  /\ idle_has_lock => kernel_waiters = 1 /\ held /\ ctx = Kernel

\* A lock that is held has somebody to free it: the kernel, or a file that is open or
\* being closed.
HolderAlive ==
  /\ held /\ ctx = Kernel => idle_has_lock
  /\ ~world.drop /\ hw_lock /\ held /\ ctx # Kernel => ctx \in open \/ global_mutex = ctx

\* The recorded file has called drm_legacy_lock().
HolderCounted == \A f \in Files : lock_file = f => lock_count[f]

\* Only the close of the master takes the lock away, and wakes all who sleep on it.
LockGone ==
  /\ ~hw_lock => Master \notin open /\ \A f \in Files : th[f] # "asleep"
  /\ ~world.drop => (minor_master <=> hw_lock)

\* Everything of TypeOK but the range of user_waiters, which WaitersCounted gives.
Booleans ==
  /\ minor_master \in BOOLEAN /\ hw_lock \in BOOLEAN /\ idle_has_lock \in BOOLEAN
  /\ held \in BOOLEAN /\ cont \in BOOLEAN
  /\ lock_count \in [Files -> BOOLEAN]

Types ==
  /\ world \in Worlds
  /\ global_mutex \in Files \cup {None}
  /\ open \subseteq Files
  /\ ctx \in Files \cup {Kernel}
  /\ lock_file \in Files \cup {None}
  /\ kernel_waiters \in 0..1
  /\ th \in [Files -> {"out", "asleep", "awake", "inside", "release", "closing", "closed"}]

\* The inductive invariant.
Shape ==
  /\ Booleans
  /\ Types
  /\ OpenShape
  /\ CloseShape
  /\ WordTells
  /\ HolderAlive
  /\ HolderRecorded
  /\ HolderCounted
  /\ LockGone
  /\ NoLostWakeup

IInv == WaitersCounted /\ Shape

------------------------------------------------------------------------------
(* Counting the waiters. *)

\* user_waiters is a natural number, and at most one per file.
LEMMA WaitersBounded ==
  ASSUME HwLockConstants, WaitersCounted
  PROVE  /\ IsFiniteSet(Waiting)
         /\ user_waiters \in Nat
         /\ user_waiters \in 0..Cardinality(Files)
<1>1. Waiting \subseteq Files /\ IsFiniteSet(Files)
  BY DEF Waiting, HwLockConstants
<1>2. IsFiniteSet(Waiting) /\ Cardinality(Waiting) <= Cardinality(Files)
  BY <1>1, FS_Subset
<1>3. Cardinality(Waiting) \in Nat /\ Cardinality(Files) \in Nat
  BY <1>1, <1>2, FS_CardinalityType
<1> QED
  BY <1>2, <1>3 DEF WaitersCounted

\* What WaitersCounted becomes when no client enters or leaves drm_legacy_lock(), when
\* one enters, and when one leaves.
LEMMA WaitersSame ==
  ASSUME WaitersCounted, Waiting' = Waiting, user_waiters' = user_waiters
  PROVE  WaitersCounted'
BY DEF WaitersCounted

LEMMA WaiterEnters ==
  ASSUME HwLockConstants, WaitersCounted, NEW f, f \notin Waiting,
         Waiting' = Waiting \cup {f}, user_waiters' = user_waiters + 1
  PROVE  WaitersCounted'
BY WaitersBounded, FS_AddElement DEF WaitersCounted

LEMMA WaiterLeaves ==
  ASSUME HwLockConstants, WaitersCounted, NEW f, f \in Waiting,
         Waiting' = Waiting \ {f}, user_waiters' = user_waiters - 1
  PROVE  WaitersCounted'
BY WaitersBounded, FS_RemoveElement DEF WaitersCounted

------------------------------------------------------------------------------
(* The invariant holds in every state. *)

LEMMA InitIInv == ASSUME HwLockConstants, Init PROVE IInv
<1>1. Waiting = {}
  BY DEF Init, Waiting
<1>2. WaitersCounted
  BY <1>1, FS_EmptySet DEF Init, WaitersCounted
<1>3. Booleans
  BY Zenon DEF HwLockConstants, Init, Booleans
<1>4. Types
  BY DEF HwLockConstants, Init, Types
<1>5. OpenShape
  BY DEF HwLockConstants, Init, OpenShape
<1>6. CloseShape
  BY DEF HwLockConstants, Init, CloseShape
<1>7. WordTells
  BY DEF HwLockConstants, Init, WordTells
<1>8. HolderAlive
  BY DEF HwLockConstants, Init, HolderAlive
<1>9. HolderRecorded
  BY DEF HwLockConstants, Init, HolderRecorded
<1>10. HolderCounted
  BY DEF HwLockConstants, Init, HolderCounted
<1>11. LockGone
  BY DEF HwLockConstants, Init, LockGone
<1>12. NoLostWakeup
  BY DEF HwLockConstants, Init, NoLostWakeup
<1> QED
  BY <1>2, <1>3, <1>4, <1>5, <1>6, <1>7, <1>8, <1>9, <1>10, <1>11, <1>12 DEF IInv, Shape

\* The last holder takes a free lock again.
LEMMA FastLockKeeps == ASSUME HwLockConstants, IInv, NEW f \in Files, FastLock(f) PROVE IInv'
<1>1. Booleans'
  BY DEF HwLockConstants, IInv, Shape, FastLock, Word, Goto, Booleans
<1>2. Types'
  BY DEF HwLockConstants, IInv, Shape, FastLock, Word, Goto, Types, CloseShape
<1>3. OpenShape'
  BY DEF HwLockConstants, IInv, Shape, FastLock, Word, Goto, OpenShape, Types
<1>4. CloseShape'
  BY DEF HwLockConstants, IInv, Shape, FastLock, Word, Goto, CloseShape, Types
<1>5. WordTells'
  BY DEF HwLockConstants, IInv, Shape, FastLock, Word, Goto, WordTells, Types, CloseShape,
     OpenShape, HolderRecorded
<1>6. HolderAlive'
  BY DEF HwLockConstants, IInv, Shape, FastLock, Word, Goto, HolderAlive, Types, OpenShape,
     CloseShape, WordTells, HolderRecorded, HolderCounted, LockGone
<1>7. HolderRecorded'
  BY DEF HwLockConstants, IInv, Shape, FastLock, Word, Goto, HolderRecorded, Types,
     CloseShape, WordTells
<1>8. HolderCounted'
  BY DEF HwLockConstants, IInv, Shape, FastLock, Word, Goto, HolderCounted, Booleans, Types
<1>9. LockGone'
  BY DEF HwLockConstants, IInv, Shape, FastLock, Word, Goto, LockGone, Types, OpenShape,
     CloseShape
<1>10. NoLostWakeup'
  BY DEF HwLockConstants, IInv, Shape, FastLock, Word, Goto, NoLostWakeup, Types,
     HolderAlive, OpenShape, CloseShape, WordTells, HolderRecorded, HolderCounted,
     LockGone
<1>11. WaitersCounted'
  BY WaitersSame DEF HwLockConstants, IInv, Shape, Types, Waiting, FastLock, Word, Goto
<1> QED
  BY <1>1, <1>2, <1>3, <1>4, <1>5, <1>6, <1>7, <1>8, <1>9, <1>10, <1>11 DEF IInv, Shape

\* Nobody sleeps on a lock that is not contended.
LEMMA FastUnlockKeeps == ASSUME HwLockConstants, IInv, NEW f \in Files, FastUnlock(f) PROVE IInv'
<1>1. Booleans'
  BY DEF HwLockConstants, IInv, Shape, FastUnlock, Word, Goto, Booleans
<1>2. Types'
  BY DEF HwLockConstants, IInv, Shape, FastUnlock, Word, Goto, Types, CloseShape
<1>3. OpenShape'
  BY DEF HwLockConstants, IInv, Shape, FastUnlock, Word, Goto, OpenShape, Types
<1>4. CloseShape'
  BY DEF HwLockConstants, IInv, Shape, FastUnlock, Word, Goto, CloseShape, Types
<1>5. WordTells'
  BY DEF HwLockConstants, IInv, Shape, FastUnlock, Word, Goto, WordTells, Types,
     CloseShape, OpenShape, HolderRecorded
<1>6. HolderAlive'
  BY DEF HwLockConstants, IInv, Shape, FastUnlock, Word, Goto, HolderAlive, Types,
     OpenShape, CloseShape, WordTells, HolderRecorded, HolderCounted, LockGone
<1>7. HolderRecorded'
  BY DEF HwLockConstants, IInv, Shape, FastUnlock, Word, Goto, HolderRecorded, Types,
     CloseShape, WordTells
<1>8. HolderCounted'
  BY DEF HwLockConstants, IInv, Shape, FastUnlock, Word, Goto, HolderCounted, Booleans,
     Types
<1>9. LockGone'
  BY DEF HwLockConstants, IInv, Shape, FastUnlock, Word, Goto, LockGone, Types, OpenShape,
     CloseShape
<1>10. NoLostWakeup'
  BY DEF HwLockConstants, IInv, Shape, FastUnlock, Word, Goto, NoLostWakeup, Types,
     HolderAlive, OpenShape, CloseShape, WordTells, HolderRecorded, HolderCounted,
     LockGone
<1>11. WaitersCounted'
  BY WaitersSame DEF HwLockConstants, IInv, Shape, Types, Waiting, FastUnlock, Word, Goto
<1> QED
  BY <1>1, <1>2, <1>3, <1>4, <1>5, <1>6, <1>7, <1>8, <1>9, <1>10, <1>11 DEF IInv, Shape

\* A turn of drm_legacy_lock(): who is put to sleep has marked the lock contended.
LEMMA LockKeeps == ASSUME HwLockConstants, IInv, NEW f \in Files, Lock(f) PROVE IInv'
<1>1. Booleans'
  <2>1. \A x : (x > 1) \in BOOLEAN
    OBVIOUS
  <2> QED
    BY <2>1, Zenon DEF Lock, LockTake, Word, word, Goto, IInv, Shape, Booleans
<1>2. Types'
  BY DEF HwLockConstants, IInv, Shape, Lock, Taken, LockTake, Word, word, Goto, Types,
     CloseShape
<1>3. OpenShape'
  BY DEF HwLockConstants, IInv, Shape, Lock, Taken, LockTake, Word, word, Goto, OpenShape,
     Types
<1>4. CloseShape'
  BY DEF HwLockConstants, IInv, Shape, Lock, Taken, LockTake, Word, word, Goto, CloseShape,
     Types
<1>5. WordTells'
  BY DEF HwLockConstants, IInv, Shape, Lock, Taken, LockTake, Word, word, Goto, WordTells,
     Types, CloseShape, OpenShape, HolderRecorded
<1>6. HolderAlive'
  BY DEF HwLockConstants, IInv, Shape, Lock, Taken, LockTake, Word, word, Goto,
     HolderAlive, Types, OpenShape, CloseShape, WordTells, HolderRecorded,
     HolderCounted, LockGone
<1>7. HolderRecorded'
  BY DEF HwLockConstants, IInv, Shape, Lock, Taken, LockTake, Word, word, Goto,
     HolderRecorded, Types, CloseShape, WordTells
<1>8. HolderCounted'
  BY DEF HwLockConstants, IInv, Shape, Lock, Taken, LockTake, Word, word, Goto,
     HolderCounted, Booleans, Types
<1>9. LockGone'
  BY DEF HwLockConstants, IInv, Shape, Lock, Taken, LockTake, Word, word, Goto, LockGone,
     Types, OpenShape, CloseShape
<1>10. NoLostWakeup'
  BY DEF HwLockConstants, IInv, Shape, Lock, Taken, LockTake, Word, word, Goto,
     NoLostWakeup, Types, HolderAlive, OpenShape, CloseShape, WordTells,
     HolderRecorded, HolderCounted, LockGone
<1>11. WaitersCounted'
  <2>1. user_waiters \in Nat
    BY WaitersBounded DEF IInv
  <2>2. CASE th[f] = "out" /\ th'[f] = "asleep"
    <3>1. f \notin Waiting /\ Waiting' = Waiting \cup {f} /\ user_waiters' = user_waiters + 1
      BY <2>1, <2>2 DEF Lock, Taken, Goto, IInv, Shape, Types, Waiting
    <3> QED
      BY <3>1, WaiterEnters DEF IInv
  <2>3. CASE (th[f] = "out") = (th'[f] # "asleep")
    <3>1. Waiting' = Waiting /\ user_waiters' = user_waiters
      BY <2>1, <2>3 DEF Lock, Taken, Goto, IInv, Shape, Types, Waiting
    <3> QED
      BY <3>1, WaitersSame DEF IInv
  <2>4. CASE th[f] = "awake" /\ th'[f] # "asleep"
    <3>1. f \in Waiting /\ Waiting' = Waiting \ {f} /\ user_waiters' = user_waiters - 1
      BY <2>1, <2>4 DEF Lock, Taken, Goto, IInv, Shape, Types, Waiting
    <3> QED
      BY <3>1, WaiterLeaves DEF IInv
  <2> QED
    BY <2>2, <2>3, <2>4 DEF Lock
<1> QED
  BY <1>1, <1>2, <1>3, <1>4, <1>5, <1>6, <1>7, <1>8, <1>9, <1>10, <1>11 DEF IInv, Shape

\* drm_legacy_unlock() wakes all sleepers.
LEMMA UnlockKeeps == ASSUME HwLockConstants, IInv, NEW f \in Files, Unlock(f) PROVE IInv'
<1>1. Booleans'
  BY DEF HwLockConstants, IInv, Shape, Unlock, LockFree, Word, Goto, Booleans
<1>2. Types'
  BY DEF HwLockConstants, IInv, Shape, Unlock, LockFree, Word, Goto, Types, CloseShape
<1>3. OpenShape'
  BY DEF HwLockConstants, IInv, Shape, Unlock, LockFree, Word, Goto, OpenShape, Types
<1>4. CloseShape'
  BY DEF HwLockConstants, IInv, Shape, Unlock, LockFree, Word, Goto, CloseShape, Types
<1>5. WordTells'
  BY DEF HwLockConstants, IInv, Shape, Unlock, LockFree, Word, Goto, WordTells, Types,
     CloseShape, OpenShape, HolderRecorded
<1>6. HolderAlive'
  BY DEF HwLockConstants, IInv, Shape, Unlock, LockFree, Word, Goto, HolderAlive, Types,
     OpenShape, CloseShape, WordTells, HolderRecorded, HolderCounted, LockGone
<1>7. HolderRecorded'
  BY DEF HwLockConstants, IInv, Shape, Unlock, LockFree, Word, Goto, HolderRecorded, Types,
     CloseShape, WordTells
<1>8. HolderCounted'
  BY DEF HwLockConstants, IInv, Shape, Unlock, LockFree, Word, Goto, HolderCounted,
     Booleans, Types
<1>9. LockGone'
  BY DEF HwLockConstants, IInv, Shape, Unlock, LockFree, Word, Goto, LockGone, Types,
     OpenShape, CloseShape
<1>10. NoLostWakeup'
  BY DEF HwLockConstants, IInv, Shape, Unlock, LockFree, Word, Goto, NoLostWakeup, Types,
     HolderAlive, OpenShape, CloseShape, WordTells, HolderRecorded, HolderCounted,
     LockGone
<1>11. WaitersCounted'
  BY WaitersSame DEF HwLockConstants, IInv, Shape, Types, Waiting, Unlock, LockFree, Word, Goto
<1> QED
  BY <1>1, <1>2, <1>3, <1>4, <1>5, <1>6, <1>7, <1>8, <1>9, <1>10, <1>11 DEF IInv, Shape

\* A signal only takes the client off the queue.
LEMMA InterruptedKeeps == ASSUME HwLockConstants, IInv, NEW f \in Files, Interrupted(f) PROVE IInv'
<1>1. Booleans'
  BY DEF HwLockConstants, IInv, Shape, Interrupted, word, Goto, Booleans
<1>2. Types'
  BY DEF HwLockConstants, IInv, Shape, Interrupted, word, Goto, Types, CloseShape
<1>3. OpenShape'
  BY DEF HwLockConstants, IInv, Shape, Interrupted, word, Goto, OpenShape, Types
<1>4. CloseShape'
  BY DEF HwLockConstants, IInv, Shape, Interrupted, word, Goto, CloseShape, Types
<1>5. WordTells'
  BY DEF HwLockConstants, IInv, Shape, Interrupted, word, Goto, WordTells, Types,
     CloseShape, OpenShape, HolderRecorded
<1>6. HolderAlive'
  BY DEF HwLockConstants, IInv, Shape, Interrupted, word, Goto, HolderAlive, Types,
     OpenShape, CloseShape, WordTells, HolderRecorded, HolderCounted, LockGone
<1>7. HolderRecorded'
  BY DEF HwLockConstants, IInv, Shape, Interrupted, word, Goto, HolderRecorded, Types,
     CloseShape, WordTells
<1>8. HolderCounted'
  BY DEF HwLockConstants, IInv, Shape, Interrupted, word, Goto, HolderCounted, Booleans,
     Types
<1>9. LockGone'
  BY DEF HwLockConstants, IInv, Shape, Interrupted, word, Goto, LockGone, Types, OpenShape,
     CloseShape
<1>10. NoLostWakeup'
  BY DEF HwLockConstants, IInv, Shape, Interrupted, word, Goto, NoLostWakeup, Types,
     HolderAlive, OpenShape, CloseShape, WordTells, HolderRecorded, HolderCounted,
     LockGone
<1>11. WaitersCounted'
  <2>1. f \in Waiting /\ Waiting' = Waiting \ {f}
    BY DEF Interrupted, Goto, IInv, Shape, Types, Waiting
  <2> QED
    BY <2>1, WaiterLeaves DEF Interrupted, IInv
<1> QED
  BY <1>1, <1>2, <1>3, <1>4, <1>5, <1>6, <1>7, <1>8, <1>9, <1>10, <1>11 DEF IInv, Shape

\* A file that holds drm_global_mutex may take the idle lock, or leaves it to the holder.
LEMMA CloseBeginKeeps == ASSUME HwLockConstants, IInv, NEW f \in Files, CloseBegin(f) PROVE IInv'
<1>1. kernel_waiters = 0 /\ ~idle_has_lock
  BY DEF HwLockConstants, IInv, Shape, Types, CloseShape, WordTells, CloseBegin
<1>2. \/ /\ th' = [th EXCEPT ![f] = "release"] /\ kernel_waiters' = 1 /\ held'
         /\ IF held THEN ctx' = ctx /\ ~idle_has_lock' ELSE ctx' = Kernel /\ idle_has_lock'
      \/ /\ th' = [th EXCEPT ![f] = "closing"] /\ kernel_waiters' = 0
         /\ held' = held /\ ctx' = ctx /\ ~idle_has_lock'
  <2> DEFINE reclaims ==
        \/ world.reclaim = "always" /\ hw_lock
        \/ world.reclaim = "mastered" /\ minor_master /\ hw_lock
  <2>1. CASE reclaims
    <3>1. kernel_waiters' = 1
      BY <1>1, <2>1 DEF CloseBegin
    <3> QED
      BY <2>1, <3>1, Zenon DEF CloseBegin, LockTake, Word, Goto
  <2>2. CASE ~reclaims
    BY <1>1, <2>2, Zenon DEF CloseBegin, word, Goto
  <2> QED
    BY <2>1, <2>2
<1>3. Booleans'
  <2>1. \A x : (x > 1) \in BOOLEAN
    OBVIOUS
  <2> QED
    BY <2>1, Zenon DEF CloseBegin, LockTake, Word, word, Goto, IInv, Shape, Booleans
<1>4. Types'
  BY <1>1, <1>2 DEF HwLockConstants, IInv, Shape, CloseBegin, LockTake, Word, word, Goto,
     Types, CloseShape
<1>5. OpenShape'
  BY <1>1, <1>2 DEF HwLockConstants, IInv, Shape, CloseBegin, LockTake, Word, word, Goto,
     OpenShape, Types
<1>6. CloseShape'
  BY <1>1, <1>2 DEF HwLockConstants, IInv, Shape, CloseBegin, LockTake, Word, word, Goto,
     CloseShape, Types
<1>7. WordTells'
  BY <1>1, <1>2 DEF HwLockConstants, IInv, Shape, CloseBegin, LockTake, Word, word, Goto,
     WordTells, Types, CloseShape, OpenShape, HolderRecorded
<1>8. HolderAlive'
  BY <1>1, <1>2 DEF HwLockConstants, IInv, Shape, CloseBegin, LockTake, Word, word, Goto,
     HolderAlive, Types, OpenShape, CloseShape, WordTells, HolderRecorded,
     HolderCounted, LockGone
<1>9. HolderRecorded'
  BY <1>1, <1>2 DEF HwLockConstants, IInv, Shape, CloseBegin, LockTake, Word, word, Goto,
     HolderRecorded, Types, CloseShape, WordTells
<1>10. HolderCounted'
  BY <1>1, <1>2 DEF HwLockConstants, IInv, Shape, CloseBegin, LockTake, Word, word, Goto,
     HolderCounted, Booleans, Types
<1>11. LockGone'
  BY <1>1, <1>2 DEF HwLockConstants, IInv, Shape, CloseBegin, LockTake, Word, word, Goto,
     LockGone, Types, OpenShape, CloseShape
<1>12. NoLostWakeup'
  BY <1>1, <1>2 DEF HwLockConstants, IInv, Shape, CloseBegin, LockTake, Word, word, Goto,
     NoLostWakeup, Types, HolderAlive, OpenShape, CloseShape, WordTells,
     HolderRecorded, HolderCounted, LockGone
<1>13. WaitersCounted'
  BY WaitersSame DEF HwLockConstants, IInv, Shape, Types, Waiting, CloseBegin, LockTake, Word, word, Goto
<1> QED
  BY <1>3, <1>4, <1>5, <1>6, <1>7, <1>8, <1>9, <1>10, <1>11, <1>12, <1>13 DEF IInv, Shape

\* The idle lock is given back only if the kernel has got it, and all sleepers wake.
LEMMA IdleReleaseKeeps == ASSUME HwLockConstants, IInv, NEW f \in Files, IdleRelease(f) PROVE IInv'
<1>1. kernel_waiters = 1 /\ global_mutex = f
  BY DEF HwLockConstants, IInv, Shape, Types, CloseShape, IdleRelease
<1>2. th' = [g \in Files |-> IF g = f THEN "closing"
                           ELSE IF idle_has_lock /\ th[g] = "asleep" THEN "awake" ELSE th[g]]
  BY <1>1 DEF IInv, Shape, Types, IdleRelease, Woken, Goto
<1>3. Booleans'
  BY <1>1, <1>2 DEF HwLockConstants, IInv, Shape, IdleRelease, Woken, Word, word, Goto,
     Booleans
<1>4. Types'
  BY <1>1, <1>2 DEF HwLockConstants, IInv, Shape, IdleRelease, Woken, Word, word, Goto,
     Types, CloseShape
<1>5. OpenShape'
  BY <1>1, <1>2 DEF HwLockConstants, IInv, Shape, IdleRelease, Woken, Word, word, Goto,
     OpenShape, Types
<1>6. CloseShape'
  BY <1>1, <1>2 DEF HwLockConstants, IInv, Shape, IdleRelease, Woken, Word, word, Goto,
     CloseShape, Types
<1>7. WordTells'
  BY <1>1, <1>2 DEF HwLockConstants, IInv, Shape, IdleRelease, Woken, Word, word, Goto,
     WordTells, Types, CloseShape, OpenShape, HolderRecorded
<1>8. HolderAlive'
  BY <1>1, <1>2 DEF HwLockConstants, IInv, Shape, IdleRelease, Woken, Word, word, Goto,
     HolderAlive, Types, OpenShape, CloseShape, WordTells, HolderRecorded,
     HolderCounted, LockGone
<1>9. HolderRecorded'
  BY <1>1, <1>2 DEF HwLockConstants, IInv, Shape, IdleRelease, Woken, Word, word, Goto,
     HolderRecorded, Types, CloseShape, WordTells
<1>10. HolderCounted'
  BY <1>1, <1>2 DEF HwLockConstants, IInv, Shape, IdleRelease, Woken, Word, word, Goto,
     HolderCounted, Booleans, Types
<1>11. LockGone'
  BY <1>1, <1>2 DEF HwLockConstants, IInv, Shape, IdleRelease, Woken, Word, word, Goto,
     LockGone, Types, OpenShape, CloseShape
<1>12. NoLostWakeup'
  BY <1>1, <1>2 DEF HwLockConstants, IInv, Shape, IdleRelease, Woken, Word, word, Goto,
     NoLostWakeup, Types, HolderAlive, OpenShape, CloseShape, WordTells,
     HolderRecorded, HolderCounted, LockGone
<1>13. WaitersCounted'
  BY <1>2, WaitersSame DEF HwLockConstants, IInv, Shape, Types, Waiting, IdleRelease, Woken, Word, word, Goto
<1> QED
  BY <1>3, <1>4, <1>5, <1>6, <1>7, <1>8, <1>9, <1>10, <1>11, <1>12, <1>13 DEF IInv, Shape

\* The lock of a file that died is found and freed.
LEMMA CloseMasterKeeps == ASSUME HwLockConstants, IInv, NEW f \in Files, CloseMaster(f) PROVE IInv'
<1>1. Booleans'
  BY Zenon DEF HwLockConstants, IInv, Shape, CloseMaster, LockFree, HasHwLock, Word, word,
     Goto, Booleans
<1>2. Types'
  BY DEF HwLockConstants, IInv, Shape, CloseMaster, LockFree, HasHwLock, Word, word, Goto,
     Types, CloseShape
<1>3. OpenShape'
  BY DEF HwLockConstants, IInv, Shape, CloseMaster, LockFree, HasHwLock, Word, word, Goto,
     OpenShape, Types
<1>4. CloseShape'
  BY DEF HwLockConstants, IInv, Shape, CloseMaster, LockFree, HasHwLock, Word, word, Goto,
     CloseShape, Types
<1>5. WordTells'
  BY DEF HwLockConstants, IInv, Shape, CloseMaster, LockFree, HasHwLock, Word, word, Goto,
     WordTells, Types, CloseShape, OpenShape, HolderRecorded
<1>6. HolderAlive'
  BY DEF HwLockConstants, IInv, Shape, CloseMaster, LockFree, HasHwLock, Word, word, Goto,
     HolderAlive, Types, OpenShape, CloseShape, WordTells, HolderRecorded,
     HolderCounted, LockGone
<1>7. HolderRecorded'
  BY DEF HwLockConstants, IInv, Shape, CloseMaster, LockFree, HasHwLock, Word, word, Goto,
     HolderRecorded, Types, CloseShape, WordTells
<1>8. HolderCounted'
  BY DEF HwLockConstants, IInv, Shape, CloseMaster, LockFree, HasHwLock, Word, word, Goto,
     HolderCounted, Booleans, Types
<1>9. LockGone'
  BY DEF HwLockConstants, IInv, Shape, CloseMaster, LockFree, HasHwLock, Word, word, Goto,
     LockGone, Types, OpenShape, CloseShape
<1>10. NoLostWakeup'
  BY DEF HwLockConstants, IInv, Shape, CloseMaster, LockFree, HasHwLock, Word, word, Goto,
     NoLostWakeup, Types, HolderAlive, OpenShape, CloseShape, WordTells,
     HolderRecorded, HolderCounted, LockGone
<1>11. WaitersCounted'
  BY WaitersSame DEF HwLockConstants, IInv, Shape, Types, Waiting, CloseMaster, LockFree, HasHwLock, Word, word, Goto
<1> QED
  BY <1>1, <1>2, <1>3, <1>4, <1>5, <1>6, <1>7, <1>8, <1>9, <1>10, <1>11 DEF IInv, Shape

\* Where masters may be dropped nothing is said of the sleepers.
LEMMA DropMasterKeeps == ASSUME HwLockConstants, IInv, DropMaster PROVE IInv'
<1>1. Booleans'
  BY DEF HwLockConstants, IInv, Shape, DropMaster, word, Goto, Booleans
<1>2. Types'
  BY DEF HwLockConstants, IInv, Shape, DropMaster, word, Goto, Types, CloseShape
<1>3. OpenShape'
  BY DEF HwLockConstants, IInv, Shape, DropMaster, word, Goto, OpenShape, Types
<1>4. CloseShape'
  BY DEF HwLockConstants, IInv, Shape, DropMaster, word, Goto, CloseShape, Types
<1>5. WordTells'
  BY DEF HwLockConstants, IInv, Shape, DropMaster, word, Goto, WordTells, Types,
     CloseShape, OpenShape, HolderRecorded
<1>6. HolderAlive'
  BY DEF HwLockConstants, IInv, Shape, DropMaster, word, Goto, HolderAlive, Types,
     OpenShape, CloseShape, WordTells, HolderRecorded, HolderCounted, LockGone
<1>7. HolderRecorded'
  BY DEF HwLockConstants, IInv, Shape, DropMaster, word, Goto, HolderRecorded, Types,
     CloseShape, WordTells
<1>8. HolderCounted'
  BY DEF HwLockConstants, IInv, Shape, DropMaster, word, Goto, HolderCounted, Booleans,
     Types
<1>9. LockGone'
  BY DEF HwLockConstants, IInv, Shape, DropMaster, word, Goto, LockGone, Types, OpenShape,
     CloseShape
<1>10. NoLostWakeup'
  BY DEF HwLockConstants, IInv, Shape, DropMaster, word, Goto, NoLostWakeup, Types,
     HolderAlive, OpenShape, CloseShape, WordTells, HolderRecorded, HolderCounted,
     LockGone
<1>11. WaitersCounted'
  BY WaitersSame DEF HwLockConstants, IInv, Shape, Types, Waiting, DropMaster, word, Goto
<1> QED
  BY <1>1, <1>2, <1>3, <1>4, <1>5, <1>6, <1>7, <1>8, <1>9, <1>10, <1>11 DEF IInv, Shape

\* The same for the way back.
LEMMA SetMasterKeeps == ASSUME HwLockConstants, IInv, SetMaster PROVE IInv'
<1>1. Booleans'
  BY DEF HwLockConstants, IInv, Shape, SetMaster, word, Goto, Booleans
<1>2. Types'
  BY DEF HwLockConstants, IInv, Shape, SetMaster, word, Goto, Types, CloseShape
<1>3. OpenShape'
  BY DEF HwLockConstants, IInv, Shape, SetMaster, word, Goto, OpenShape, Types
<1>4. CloseShape'
  BY DEF HwLockConstants, IInv, Shape, SetMaster, word, Goto, CloseShape, Types
<1>5. WordTells'
  BY DEF HwLockConstants, IInv, Shape, SetMaster, word, Goto, WordTells, Types, CloseShape,
     OpenShape, HolderRecorded
<1>6. HolderAlive'
  BY DEF HwLockConstants, IInv, Shape, SetMaster, word, Goto, HolderAlive, Types,
     OpenShape, CloseShape, WordTells, HolderRecorded, HolderCounted, LockGone
<1>7. HolderRecorded'
  BY DEF HwLockConstants, IInv, Shape, SetMaster, word, Goto, HolderRecorded, Types,
     CloseShape, WordTells
<1>8. HolderCounted'
  BY DEF HwLockConstants, IInv, Shape, SetMaster, word, Goto, HolderCounted, Booleans,
     Types
<1>9. LockGone'
  BY DEF HwLockConstants, IInv, Shape, SetMaster, word, Goto, LockGone, Types, OpenShape,
     CloseShape
<1>10. NoLostWakeup'
  BY DEF HwLockConstants, IInv, Shape, SetMaster, word, Goto, NoLostWakeup, Types,
     HolderAlive, OpenShape, CloseShape, WordTells, HolderRecorded, HolderCounted,
     LockGone
<1>11. WaitersCounted'
  BY WaitersSame DEF HwLockConstants, IInv, Shape, Types, Waiting, SetMaster, word, Goto
<1> QED
  BY <1>1, <1>2, <1>3, <1>4, <1>5, <1>6, <1>7, <1>8, <1>9, <1>10, <1>11 DEF IInv, Shape

\* The lock goes with the master, and all sleepers wake.
LEMMA CloseLastKeeps == ASSUME HwLockConstants, IInv, CloseLast PROVE IInv'
<1>1. Booleans'
  BY DEF HwLockConstants, IInv, Shape, CloseLast, Woken, word, Goto, Booleans
<1>2. Types'
  BY DEF HwLockConstants, IInv, Shape, CloseLast, Woken, word, Goto, Types, CloseShape
<1>3. OpenShape'
  BY DEF HwLockConstants, IInv, Shape, CloseLast, Woken, word, Goto, OpenShape, Types
<1>4. CloseShape'
  BY DEF HwLockConstants, IInv, Shape, CloseLast, Woken, word, Goto, CloseShape, Types
<1>5. WordTells'
  BY DEF HwLockConstants, IInv, Shape, CloseLast, Woken, word, Goto, WordTells, Types,
     CloseShape, OpenShape, HolderRecorded
<1>6. HolderAlive'
  BY DEF HwLockConstants, IInv, Shape, CloseLast, Woken, word, Goto, HolderAlive, Types,
     OpenShape, CloseShape, WordTells, HolderRecorded, HolderCounted, LockGone
<1>7. HolderRecorded'
  BY DEF HwLockConstants, IInv, Shape, CloseLast, Woken, word, Goto, HolderRecorded, Types,
     CloseShape, WordTells
<1>8. HolderCounted'
  BY DEF HwLockConstants, IInv, Shape, CloseLast, Woken, word, Goto, HolderCounted,
     Booleans, Types
<1>9. LockGone'
  BY DEF HwLockConstants, IInv, Shape, CloseLast, Woken, word, Goto, LockGone, Types,
     OpenShape, CloseShape
<1>10. NoLostWakeup'
  BY DEF HwLockConstants, IInv, Shape, CloseLast, Woken, word, Goto, NoLostWakeup, Types,
     HolderAlive, OpenShape, CloseShape, WordTells, HolderRecorded, HolderCounted,
     LockGone
<1>11. WaitersCounted'
  BY WaitersSame DEF HwLockConstants, IInv, Shape, Types, Waiting, CloseLast, Woken, word, Goto
<1> QED
  BY <1>1, <1>2, <1>3, <1>4, <1>5, <1>6, <1>7, <1>8, <1>9, <1>10, <1>11 DEF IInv, Shape

\* The invariant holds in every state.
LEMMA IInvAlways == ASSUME HwLockConstants PROVE Spec => []IInv
<1>1. Init => IInv
  BY InitIInv
<1>2. ASSUME IInv, [Next]_vars PROVE IInv'
  <2>1. ASSUME UNCHANGED vars PROVE IInv'
    BY <1>2, <2>1 DEF vars, word, IInv, WaitersCounted, Waiting, Shape, Booleans, Types,
       OpenShape, CloseShape, WordTells, HolderAlive, HolderRecorded, HolderCounted,
       LockGone, NoLostWakeup
  <2>2. ASSUME NEW f \in Files, FastLock(f) \/ Leave(f) \/ Kernels(f) PROVE IInv'
    BY <1>2, <2>2, FastLockKeeps, FastUnlockKeeps, LockKeeps, UnlockKeeps, InterruptedKeeps,
       CloseBeginKeeps, IdleReleaseKeeps, CloseMasterKeeps DEF Leave, Kernels
  <2>3. ASSUME DropMaster \/ SetMaster \/ CloseLast PROVE IInv'
    BY <1>2, <2>3, DropMasterKeeps, SetMasterKeeps, CloseLastKeeps
  <2> QED
    BY <1>2, <2>1, <2>2, <2>3 DEF Next
<1> QED
  BY <1>1, <1>2, PTL DEF Spec

\* The hardware lock has one holder at most, the client or the kernel; the file that
\* has it or can take it without the kernel is the one drm_release() will look for; and
\* while masters are not dropped no client sleeps in drm_legacy_lock() unless somebody
\* has the lock, is alive and will come to the kernel to free it.  This holds for any
\* number of files, for drivers with and without the idle lock and with any signals.
THEOREM HwLockSafe == ASSUME HwLockConstants PROVE Spec => []HardwareLock
<1>1. IInv => HardwareLock
  <2> SUFFICES ASSUME IInv PROVE HardwareLock
    OBVIOUS
  <2>1. user_waiters \in 0..Cardinality(Files)
    BY WaitersBounded DEF IInv
  <2>2. TypeOK
    BY <2>1 DEF IInv, Shape, Booleans, Types, TypeOK
  <2>3. LockExcludes
    BY DEF HwLockConstants, IInv, Shape, WordTells, LockExcludes
  <2> QED
    BY <2>2, <2>3 DEF IInv, Shape, HardwareLock
<1> QED
  BY <1>1, IInvAlways, PTL

==============================================================================

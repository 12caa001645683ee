---------------------------- MODULE Framebuffers -----------------------------
(***************************************************************************)
(* Framebuffers of drm_crtc.c: reference counts, identifiers, the list of  *)
(* each file and the planes that show them.  Lookups run under fb_lock     *)
(* only, changes of a plane under the modeset locks, removal takes the     *)
(* identifier first and clears the planes later.  A thread is between two  *)
(* critical sections in one of the places below.                           *)
(*                                                                         *)
(*   idle      in no call                                                  *)
(*   list      framebuffer published, not yet on the list of its file      *)
(*   cursor    the same in drm_mode_cursor_universal()                     *)
(*   set       in drm_mode_setcrtc(), all locks held                       *)
(*   plane     in drm_mode_setplane(), the locks still to take             *)
(*   flip      in drm_mode_page_flip_ioctl(), the lock of one crtc held    *)
(*   move      in drm_mode_cursor_universal(), about to update the plane   *)
(*   remove    in drm_framebuffer_remove()                                 *)
(*   clear     the same, about to take all locks                           *)
(*   unref     about to drop its reference                                 *)
(*   free      dropped the last one, in drm_framebuffer_free()             *)
(*   release   in drm_fb_release(), between two framebuffers               *)
(***************************************************************************)
EXTENDS Naturals, FiniteSets

CONSTANTS Threads, Files, Fbs, Crtcs, Overlays, Worlds, None,
  MaxLost     \* bound on the references nobody will drop

\* A world: the file each thread uses, the calls made, the planes used, and what may
\* fail.
Ops == {"addfb", "rmfb", "release", "getfb", "setcrtc", "setplane", "flip", "cursor"}

VARIABLES
  world,
  refcount,   \* fb->refcount
  registered, \* framebuffers with an identifier
  list,       \* the file on whose list each framebuffer is
  shown,      \* plane->fb; a crtc stands for its primary plane
  lock,       \* who holds the lock of each crtc and its planes
  th,         \* what each thread does, with which framebuffer, in which plane
  late,       \* framebuffers in use by another thread when they were removed
  lost        \* references nobody will drop

vars == <<world, refcount, registered, list, shown, lock, th, late, lost>>
objects == <<refcount, registered, list>>
history == <<late, lost>>

Planes == Crtcs \cup Overlays
Idle == [pc |-> "idle", fb |-> None, at |-> None, op |-> "none"]

TypeOK ==
  /\ world \in Worlds
  /\ refcount \in [Fbs -> Nat] /\ registered \subseteq Fbs
  /\ list \in [Fbs -> Files \cup {None}]
  /\ shown \in [Planes -> Fbs \cup {None}]
  /\ lock \in [Crtcs -> Threads \cup {None}]
  /\ th \in [Threads ->
       [pc : {"idle", "list", "cursor", "set", "plane", "flip", "move", "remove",
              "clear", "unref", "free", "release"},
        fb : Fbs \cup {None}, at : Planes \cup {None}, op : Ops \cup {"none"}]]
  /\ late \subseteq Fbs /\ lost \in [Fbs -> Nat]

Init ==
  /\ world \in Worlds
  /\ refcount = [fb \in Fbs |-> 0] /\ registered = {}
  /\ list = [fb \in Fbs |-> None]
  /\ shown = [p \in Planes |-> None]
  /\ lock = [c \in Crtcs |-> None]
  /\ th = [t \in Threads |-> Idle]
  /\ late = {} /\ lost = [fb \in Fbs |-> 0]

MayFail(what) == what \in world.fail
FileOf(t) == world.file[t]
Goto(t, place) == th' = [th EXCEPT ![t].pc = place]
AllFree == \A c \in Crtcs : lock[c] = None
LockAll(t) == AllFree /\ lock' = [c \in Crtcs |-> t]
Unlocked(t) == [c \in Crtcs |-> IF lock[c] = t THEN None ELSE lock[c]]
Ref(fb) == [refcount EXCEPT ![fb] = @ + 1]

Call(t, op) == th[t].pc = "idle" /\ op \in world.ops
Enter(t, op, place, fb, at) ==
  th' = [th EXCEPT ![t] = [pc |-> place, fb |-> fb, at |-> at, op |-> op]]

------------------------------------------------------------------------------
(* Creation and lookup. *)

\* drm_framebuffer_init(), called by fb_create(): the framebuffer is published.
FramebufferInit(fb) ==
  /\ refcount[fb] = 0 /\ lost[fb] = 0
  /\ \A t \in Threads : th[t].fb # fb
  /\ refcount' = [refcount EXCEPT ![fb] = 1]
  /\ registered' = registered \cup {fb}

\* drm_mode_addfb2() ...
AddFb(t) ==
  /\ Call(t, "addfb")
  /\ \E fb \in Fbs : FramebufferInit(fb) /\ Enter(t, "addfb", "list", fb, None)
  /\ UNCHANGED <<world, list, shown, lock, history>>

\* ... and the end of add_framebuffer_internal(), where the list takes over the first
\* reference.  Only the cursor code goes on with the framebuffer.
AddToList(t) ==
  /\ th[t].pc = "list"
  /\ list' = [list EXCEPT ![th[t].fb] = FileOf(t)]
  /\ IF th[t].op = "cursor" THEN Goto(t, "cursor") ELSE th' = [th EXCEPT ![t] = Idle]
  /\ UNCHANGED <<world, refcount, registered, shown, lock, history>>

\* drm_framebuffer_lookup()
Lookup(fb) == fb \in registered /\ refcount[fb] > 0

\* drm_mode_getfb() and drm_mode_dirtyfb_ioctl()
GetFb(t) ==
  /\ Call(t, "getfb")
  /\ \E fb \in Fbs :
       Lookup(fb) /\ refcount' = Ref(fb) /\ Enter(t, "getfb", "unref", fb, None)
  /\ UNCHANGED <<world, registered, list, shown, lock, history>>

------------------------------------------------------------------------------
(* Use. *)

\* drm_mode_setcrtc() up to the framebuffer: the one asked for, the current one, or
\* none to turn the crtc off.
SetCrtc(t) ==
  /\ Call(t, "setcrtc")
  /\ LockAll(t)
  /\ \E c \in Crtcs :
       \/ \E fb \in Fbs :
            /\ Lookup(fb) \/ shown[c] = fb
            /\ refcount' = Ref(fb)
            /\ Enter(t, "setcrtc", "set", fb, c)
       \/ UNCHANGED refcount /\ Enter(t, "setcrtc", "set", None, c)
  /\ UNCHANGED <<world, registered, list, shown, history>>

\* The references of the planes after a change from `old' to `new'.
Uses(planes, fb) == Cardinality({p \in Planes : planes[p] = fb})

\* Faulty variant of Rereferenced: only the crtc that was asked for is looked at.
RereferencedOne(old, new, c) ==
  [fb \in Fbs |-> refcount[fb] + (IF new[c] = fb THEN 1 ELSE 0)
                  - (IF old[c] = fb THEN 1 ELSE 0)]

\* The second loop of drm_mode_set_config_internal(), over all crtcs.
Rereferenced(old, new, c) ==
  [fb \in Fbs |-> refcount[fb] + Uses(new, fb) - Uses(old, fb)]

\* drm_mode_set_config_internal().  The driver may turn off other crtcs whose
\* connectors it takes.  A mode that does not fit, or a driver that fails, changes
\* nothing.
SetConfig(t) ==
  LET c == th[t].at IN
  /\ th[t].pc = "set"
  /\ \/ \E off \in SUBSET (Crtcs \ {c}) :
          LET new == [p \in Planes |-> IF p = c THEN th[t].fb
                                       ELSE IF p \in off THEN None ELSE shown[p]]
          IN /\ th[t].fb = None => off = {}
             /\ shown' = new
             /\ refcount' = Rereferenced(shown, new, c)
     \/ MayFail("driver") /\ UNCHANGED <<shown, refcount>>
  /\ late' = {fb \in late : refcount'[fb] > 0}
  /\ Goto(t, "unref")
  /\ UNCHANGED <<world, registered, list, lock, lost>>

\* drm_mode_setplane() up to the locks.  When the crtc is not found the reference is
\* not given back.
SetPlane(t) ==
  /\ Call(t, "setplane")
  /\ \/ \E fb \in Fbs, p \in world.planes :
          /\ Lookup(fb) /\ refcount' = Ref(fb)
          /\ \/ Enter(t, "setplane", "plane", fb, p) /\ UNCHANGED lost
             \/ /\ MayFail("crtc") /\ lost[fb] < MaxLost
                /\ lost' = [lost EXCEPT ![fb] = @ + 1]
                /\ UNCHANGED th
     \/ /\ \E p \in world.planes : Enter(t, "setplane", "plane", None, p)
        /\ UNCHANGED <<refcount, lost>>
  /\ UNCHANGED <<world, registered, list, shown, lock, late>>

\* The framebuffer whose reference the call still has to drop.
\* Faulty variant: always the one that was shown before.
LeftOld(old, new, ok) == old
Left(old, new, ok) == IF ok THEN old ELSE new

\* What __setplane_internal() and the page flip do with a plane: it takes over the
\* reference of the call, which is left with that of the framebuffer shown before.
Show(t, ok) ==
  LET p == th[t].at IN
  /\ shown' = IF ok THEN [shown EXCEPT ![p] = th[t].fb] ELSE shown
  /\ th' = [th EXCEPT ![t].pc = "unref", ![t].fb = Left(shown[p], @, ok)]

\* setplane_internal()
UpdatePlane(t) ==
  /\ th[t].pc = "plane"
  /\ LockAll(t)
  /\ Show(t, TRUE) \/ (MayFail("driver") /\ Show(t, FALSE))
  /\ UNCHANGED <<world, objects, history>>

\* drm_mode_page_flip_ioctl(): nothing happens on a crtc that shows nothing.
PageFlip(t) ==
  /\ Call(t, "flip")
  /\ \E c \in Crtcs, fb \in Fbs :
       /\ lock[c] = None /\ shown[c] # None
       /\ lock' = [lock EXCEPT ![c] = t]
       /\ Lookup(fb) /\ refcount' = Ref(fb)
       /\ Enter(t, "flip", "flip", fb, c)
  /\ UNCHANGED <<world, registered, list, shown, history>>

Flip(t) ==
  /\ th[t].pc = "flip"
  /\ Show(t, TRUE) \/ (MayFail("driver") /\ Show(t, FALSE))
  /\ UNCHANGED <<world, objects, lock, history>>

\* drm_mode_cursor_universal() under the locks of the crtc: a new framebuffer for the
\* cursor's buffer, the current one, or none.
Cursor(t) ==
  /\ Call(t, "cursor")
  /\ \E c \in Crtcs, p \in Overlays :
       /\ lock[c] = None /\ lock' = [lock EXCEPT ![c] = t]
       /\ \/ \E fb \in Fbs : FramebufferInit(fb) /\ Enter(t, "cursor", "list", fb, p)
          \/ /\ shown[p] = None
             /\ Enter(t, "cursor", "move", None, p)
             /\ UNCHANGED <<refcount, registered>>
          \/ /\ shown[p] # None
             /\ \/ Enter(t, "cursor", "move", shown[p], p) /\ refcount' = Ref(shown[p])
                \/ Enter(t, "cursor", "move", None, p) /\ UNCHANGED refcount
             /\ UNCHANGED registered
  /\ UNCHANGED <<world, list, shown, history>>

CursorReference(t) ==
  /\ th[t].pc = "cursor"
  /\ refcount' = Ref(th[t].fb)
  /\ Goto(t, "move")
  /\ UNCHANGED <<world, registered, list, shown, lock, history>>

MoveCursor(t) ==
  /\ th[t].pc = "move"
  /\ Show(t, TRUE) \/ (MayFail("driver") /\ Show(t, FALSE))
  /\ UNCHANGED <<world, objects, lock, history>>

------------------------------------------------------------------------------
(* Removal. *)

\* A framebuffer loses its identifier and leaves the list, whose reference the thread
\* now holds.
Reap(t, fb, op) ==
  /\ registered' = registered \ {fb}
  /\ list' = [list EXCEPT ![fb] = None]
  /\ late' = IF \E u \in Threads \ {t} : th[u].fb = fb THEN late \cup {fb} ELSE late
  /\ Enter(t, op, "remove", fb, None)

\* drm_mode_rmfb() up to drm_framebuffer_remove()
RmFb(t) ==
  /\ Call(t, "rmfb")
  /\ \E fb \in registered : list[fb] = FileOf(t) /\ Reap(t, fb, "rmfb")
  /\ UNCHANGED <<world, refcount, shown, lock, lost>>

\* drm_fb_release(), when no other call uses the file.
Release(t) ==
  /\ Call(t, "release")
  /\ \A u \in Threads : FileOf(u) = FileOf(t) => th[u].pc = "idle"
  /\ \E fb \in Fbs : list[fb] = FileOf(t)
  /\ Enter(t, "release", "release", None, None)
  /\ UNCHANGED <<world, objects, shown, lock, history>>

ReleaseNext(t) ==
  /\ th[t].pc = "release"
  /\ \/ /\ \E fb \in Fbs : list[fb] = FileOf(t) /\ Reap(t, fb, "release")
        /\ UNCHANGED <<refcount, shown, lock, lost>>
     \/ /\ \A fb \in Fbs : list[fb] # FileOf(t)
        /\ th' = [th EXCEPT ![t] = Idle]
        /\ UNCHANGED <<objects, shown, lock, history>>
  /\ UNCHANGED world

\* Faulty variant of LastHolder: takes the reference of a plane for one of its own.
LastHolderTwo(fb) == refcount[fb] <= 2

\* The planes need not be looked at: nobody else holds a reference.
LastHolder(fb) == refcount[fb] <= 1

\* drm_framebuffer_remove(): the test of the count is made without a lock.
Remove(t) ==
  /\ th[t].pc = "remove"
  /\ Goto(t, IF LastHolder(th[t].fb) THEN "unref" ELSE "clear")
  /\ UNCHANGED <<world, objects, shown, lock, history>>

\* Faulty variant of Cleared: overlays are forgotten.
ClearedCrtcs(fb) == {p \in Crtcs : shown[p] = fb}
Cleared(fb) == {p \in Planes : shown[p] = fb}

\* The rest of it under all locks: crtcs and planes that show the framebuffer are
\* turned off, unless the driver fails to.
Clear(t) ==
  LET fb == th[t].fb IN
  /\ th[t].pc = "clear" /\ AllFree
  /\ \E off \in SUBSET Cleared(fb) :
       /\ off # Cleared(fb) => MayFail("driver")
       /\ shown' = [p \in Planes |-> IF p \in off THEN None ELSE shown[p]]
       /\ refcount' = [refcount EXCEPT ![fb] = @ - Cardinality(off)]
  /\ Goto(t, "unref")
  /\ UNCHANGED <<world, registered, list, lock, history>>

\* The end of a call: what it locked is unlocked.
Done(t) ==
  /\ lock' = Unlocked(t)
  /\ th' = [th EXCEPT ![t] = IF th[t].op = "release"
                             THEN [Idle EXCEPT !.pc = "release", !.op = "release"]
                             ELSE Idle]

\* drm_framebuffer_unreference()
Unreference(t) ==
  LET fb == th[t].fb IN
  /\ th[t].pc = "unref"
  /\ \/ fb = None /\ Done(t) /\ UNCHANGED refcount
     \/ /\ fb # None
        /\ refcount' = [refcount EXCEPT ![fb] = @ - 1]
        /\ IF refcount[fb] = 1 THEN Goto(t, "free") /\ UNCHANGED lock ELSE Done(t)
  /\ UNCHANGED <<world, registered, list, shown, history>>

\* drm_framebuffer_free()
Free(t) ==
  /\ th[t].pc = "free"
  /\ registered' = registered \ {th[t].fb}
  /\ late' = late \ {th[t].fb}
  /\ Done(t)
  /\ UNCHANGED <<world, refcount, list, shown, lost>>

------------------------------------------------------------------------------
Inside(t) ==
  \/ AddToList(t) \/ SetConfig(t) \/ UpdatePlane(t) \/ Flip(t) \/ CursorReference(t)
  \/ MoveCursor(t) \/ ReleaseNext(t) \/ Remove(t) \/ Clear(t) \/ Unreference(t)
  \/ Free(t)

Begin(t) ==
  \/ AddFb(t) \/ GetFb(t) \/ SetCrtc(t) \/ SetPlane(t) \/ PageFlip(t) \/ Cursor(t)
  \/ RmFb(t) \/ Release(t)

Next == \E t \in Threads : Begin(t) \/ Inside(t)

Spec == Init /\ [][Next]_vars

------------------------------------------------------------------------------
(* Properties. *)

\* References a thread holds: not in the two places where the list has taken over the
\* first one, nor after the last was dropped.
HeldBy(t, fb) == th[t].fb = fb /\ th[t].pc \notin {"cursor", "free"}

\* fb->refcount is that of the planes that show the framebuffer, of the list of its
\* file and of the calls under way, whichever of them ends first: no plane shows a
\* freed framebuffer, and BUG() in drm_framebuffer_free_bug() is not reached.
FbRefExact ==
  \A fb \in Fbs :
    refcount[fb] = Uses(shown, fb) + (IF list[fb] = None THEN 0 ELSE 1)
                   + Cardinality({t \in Threads : HeldBy(t, fb)}) + lost[fb]

\* "drm ABI mandates that we remove any deleted framebuffers from active useage":
\* once the removal is past its clearing of the planes, none of them shows the
\* framebuffer, unless a call that had looked it up before shows it again.
RemovedUnused ==
  ~MayFail("driver") =>
    \A p \in Planes :
      LET fb == shown[p] IN
      fb # None /\ fb \notin registered =>
        \/ fb \in late
        \/ \E t \in Threads : th[t].fb = fb /\ th[t].pc \in {"remove", "clear"}

\* A framebuffer is found by its identifier only as long as a file lists it or is
\* about to: drm_framebuffer_free() finds the identifier gone.
RegisteredListed ==
  \A fb \in registered :
    list[fb] # None \/ \E t \in Threads : th[t].fb = fb /\ th[t].pc = "list"
==============================================================================

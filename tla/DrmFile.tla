------------------------------- MODULE DrmFile -------------------------------
(***************************************************************************)
(* Opening and closing a DRM device, its masters and magic numbers, and    *)
(* what happens when the device is unplugged meanwhile: drm_fops.c,        *)
(* drm_auth.c, drm_drv.c and the permission check of drm_ioctl.c.          *)
(*                                                                         *)
(* Open, close and the ioctls here run under drm_global_mutex, one action  *)
(* each.  What falls between them: minors are unregistered without that    *)
(* mutex, an ioctl is checked for permission before it takes it, and the   *)
(* reference on the device is dropped after it is released.                *)
(***************************************************************************)
EXTENDS Naturals, FiniteSets

CONSTANTS
  Files,       \* files that may be opened, and opened again
  Masters,     \* memory for the drm_masters
  MaxMagic,    \* the largest drm_magic_t
  Worlds,      \* configurations, one fixed in the initial state
  None

VARIABLES
  world,          \* fail: what may fail; root: the files opened with CAP_SYS_ADMIN;
                  \* files, minors, ioctls: those used; unplug: the device may go
                  \* away; wrap: the sequence of magic numbers may start again
  global_mutex,   \* drm_global_mutex while an open is under way
  ref,            \* dev->ref
  driver,         \* allocated, loaded or unloaded
  unplugged,      \* drm_device_is_unplugged()
  plug,           \* progress of drm_unplug_dev(): in, render, lock or out
  registered,     \* the minors in drm_minors_idr
  open_count,     \* dev->open_count
  minor_master,   \* minor->master of the primary minor
  refcount,       \* master->refcount
  magiclist,      \* master->magiclist: the file of each magic number
  sequence,       \* of drm_getmagic()
  file,           \* the drm_file
  th,             \* of a file: closed, stub (in drm_stub_open()), opened and failed
                  \* (about to leave it), open, put (leaving drm_release()) or leaked
  pending         \* ioctls <<file, name>> that drm_ioctl() has permitted

masters == <<minor_master, refcount, magiclist>>
device == <<ref, driver, unplugged, plug, registered>>
vars == <<world, global_mutex, device, open_count, masters, sequence, file, th, pending>>

Minors == {"primary", "render"}
Ioctls == {"getmagic", "authmagic", "setmaster", "dropmaster"}
Magics == 1..MaxMagic

NoFile == [minor |-> None, master |-> None, is_master |-> FALSE,
           authenticated |-> FALSE, magic |-> 0]

TypeOK ==
  /\ world \in Worlds
  /\ global_mutex \in Files \cup {None}
  /\ ref \in 0..2 + Cardinality(Files)
  /\ driver \in {"allocated", "loaded", "unloaded"}
  /\ unplugged \in BOOLEAN
  /\ plug \in {"in", "render", "lock", "out"}
  /\ registered \subseteq Minors
  /\ open_count \in 0..Cardinality(Files)
  /\ minor_master \in Masters \cup {None}
  /\ refcount \in [Masters -> 0..Cardinality(Files) + 1]
  /\ magiclist \in [Masters -> [Magics -> Files \cup {None}]]
  /\ sequence \in 0..MaxMagic
  /\ file \in [Files -> [minor : Minors \cup {None}, master : Masters \cup {None},
                         is_master : BOOLEAN, authenticated : BOOLEAN,
                         magic : 0..MaxMagic]]
  /\ th \in [Files -> {"closed", "stub", "opened", "failed", "open", "put", "leaked"}]
  /\ pending \subseteq Files \X Ioctls

Init ==
  /\ world \in Worlds
  /\ global_mutex = None
  /\ ref = 1 /\ driver = "allocated" /\ unplugged = FALSE /\ plug = "in"
  /\ registered = {}
  /\ open_count = 0
  /\ minor_master = None
  /\ refcount = [m \in Masters |-> 0]
  /\ magiclist = [m \in Masters |-> [k \in Magics |-> None]]
  /\ sequence = 0
  /\ file = [f \in Files |-> NoFile]
  /\ th = [f \in Files |-> "closed"]
  /\ pending = {}

MayFail(what) == what \in world.fail
Goto(f, place) == th' = [th EXCEPT ![f] = place]

\* drm_master_put(): the last one destroys the table of magic numbers too.
MasterPut(counts, m) == [counts EXCEPT ![m] = @ - 1]
Surviving(counts) ==
  [m \in Masters |-> IF counts[m] = 0 THEN [k \in Magics |-> None] ELSE magiclist[m]]

------------------------------------------------------------------------------
(* The device. *)

\* drm_dev_register(); when the driver does not load the minors go away again and
\* the caller drops its reference.
Register ==
  /\ driver = "allocated" /\ global_mutex = None
  /\ \/ driver' = "loaded" /\ registered' = world.minors /\ UNCHANGED ref
     \/ /\ MayFail("load")
        /\ driver' = "unloaded" /\ registered' = {} /\ ref' = ref - 1
  /\ UNCHANGED <<world, global_mutex, unplugged, plug, open_count, masters, sequence,
                 file, th, pending>>

\* drm_put_dev(): drm_dev_unregister() unloads the driver, then the first reference
\* is dropped.  `others' is the count without it.
PutDev(others) == driver' = "unloaded" /\ registered' = {} /\ ref' = others

\* drm_unplug_dev(): the minors are unregistered one after the other...
UnregisterMinors ==
  /\ world.unplug /\ driver = "loaded"
  /\ \/ plug = "in" /\ plug' = "render" /\ registered' = registered \ {"primary"}
     \/ plug = "render" /\ plug' = "lock" /\ registered' = registered \ {"render"}
  /\ UNCHANGED <<world, global_mutex, ref, driver, unplugged, open_count, masters,
                 sequence, file, th, pending>>

\* Faulty variant of Unplug: the driver is unloaded at once.
UnplugNow ==
  /\ plug = "lock" /\ global_mutex = None
  /\ plug' = "out" /\ unplugged' = TRUE
  /\ PutDev(ref - 1)
  /\ UNCHANGED <<world, global_mutex, open_count, masters, sequence, file, th, pending>>

\* ... and under drm_global_mutex the device is marked, and put if nobody has it open.
Unplug ==
  /\ plug = "lock" /\ global_mutex = None
  /\ plug' = "out" /\ unplugged' = TRUE
  /\ IF open_count = 0 THEN PutDev(ref - 1) ELSE UNCHANGED <<driver, registered, ref>>
  /\ UNCHANGED <<world, global_mutex, open_count, masters, sequence, file, th, pending>>

------------------------------------------------------------------------------
(* Open. *)

\* drm_stub_open(): drm_minor_acquire() finds the minor and references its device.
StubOpen(f, minor) ==
  /\ th[f] = "closed" /\ global_mutex = None
  /\ minor \in registered /\ ~unplugged
  /\ ref' = ref + 1
  /\ global_mutex' = f
  /\ file' = [file EXCEPT ![f].minor = minor]
  /\ Goto(f, "stub")
  /\ UNCHANGED <<world, driver, unplugged, plug, registered, open_count, masters,
                 sequence, pending>>

\* The master part of drm_open_helper(): the file creates a master, or joins it.
OpenMaster(f) ==
  CASE file[f].minor # "primary" ->
         /\ file' = file
         /\ UNCHANGED <<minor_master, refcount>>
    [] minor_master = None ->
         LET m == CHOOSE x \in Masters : refcount[x] = 0 IN
         /\ minor_master' = m
         /\ refcount' = [refcount EXCEPT ![m] = 2]
         /\ file' = [file EXCEPT ![f].master = m, ![f].is_master = TRUE,
                                 ![f].authenticated = TRUE]
    [] OTHER ->
         /\ file' = [file EXCEPT ![f].master = minor_master,
                                 ![f].authenticated = f \in world.root]
         /\ refcount' = [refcount EXCEPT ![minor_master] = @ + 1]
         /\ UNCHANGED minor_master

\* drm_open() acquires the minor again, which fails if it was unregistered, and runs
\* drm_open_helper(); whatever fails there is undone, the two references on a new
\* master included.  Then drm_setup() of the first open, after whose failure the
\* drm_file and its references on the master are left behind.
Open(f) ==
  /\ th[f] = "stub"
  /\ \/ /\ file[f].minor \notin registered \/ MayFail("open")
        /\ file' = [file EXCEPT ![f] = NoFile]
        /\ Goto(f, "failed")
        /\ UNCHANGED <<ref, open_count, minor_master, refcount>>
     \/ /\ file[f].minor \in registered
        /\ OpenMaster(f)
        /\ \/ ref' = ref + 1 /\ open_count' = open_count + 1 /\ Goto(f, "opened")
           \/ /\ open_count = 0 /\ MayFail("setup")
              /\ Goto(f, "leaked")
              /\ UNCHANGED <<ref, open_count>>
  /\ UNCHANGED <<world, global_mutex, driver, unplugged, plug, registered, magiclist,
                 sequence, pending>>

\* Faulty variant of StubDone: an open that failed keeps its reference.
StubDoneFailed(f) ==
  /\ global_mutex = f /\ th[f] \in {"opened", "failed", "leaked"}
  /\ ref' = IF th[f] = "opened" THEN ref - 1 ELSE ref
  /\ global_mutex' = None
  /\ th' = [th EXCEPT ![f] = CASE @ = "opened" -> "open" [] @ = "failed" -> "closed"
                               [] OTHER -> "leaked"]
  /\ UNCHANGED <<world, driver, unplugged, plug, registered, open_count, masters,
                 sequence, file, pending>>

\* The end of drm_stub_open(), which drops its own reference.
StubDone(f) ==
  /\ global_mutex = f /\ th[f] \in {"opened", "failed", "leaked"}
  /\ ref' = ref - 1
  /\ global_mutex' = None
  /\ th' = [th EXCEPT ![f] = CASE @ = "opened" -> "open" [] @ = "failed" -> "closed"
                               [] OTHER -> "leaked"]
  /\ UNCHANGED <<world, driver, unplugged, plug, registered, open_count, masters,
                 sequence, file, pending>>

------------------------------------------------------------------------------
(* Close. *)

\* drm_remove_magic()
RemoveMagic(lists, m, k) == [lists EXCEPT ![m][k] = None]

\* Faulty variant of ReleaseMagic: the token of the file stays.
ReleaseMagicKept(f, lists) == lists

ReleaseMagic(f, lists) ==
  IF file[f].magic # 0 THEN RemoveMagic(lists, file[f].master, file[f].magic) ELSE lists

\* Faulty variant of ReleaseMaster: the reference of the minor is forgotten.
ReleaseMasterOnce(f) ==
  LET m == file[f].master
      counts == IF m = None THEN refcount ELSE MasterPut(refcount, m)
  IN /\ minor_master' = IF file[f].is_master THEN None ELSE minor_master
     /\ refcount' = counts
     /\ magiclist' = ReleaseMagic(f, Surviving(counts))

\* Under master_mutex: a master takes the minor's reference with it, then the
\* reference of the file is dropped.
ReleaseMaster(f) ==
  LET m == file[f].master
      last == file[f].is_master /\ minor_master = m
      after == IF last THEN MasterPut(refcount, m) ELSE refcount
      counts == IF m = None THEN after ELSE MasterPut(after, m)
  IN /\ minor_master' = IF last THEN None ELSE minor_master
     /\ refcount' = counts
     /\ magiclist' = ReleaseMagic(f, Surviving(counts))

\* Faulty variant of LastClose: a device unplugged while it was open is not put.
LastCloseUnput(f) ==
  /\ open_count' = open_count - 1
  /\ UNCHANGED <<driver, registered, ref>>

\* The last file of a device that was unplugged puts it.
LastClose(f) ==
  /\ open_count' = open_count - 1
  /\ IF open_count = 1 /\ unplugged THEN PutDev(ref - 1)
     ELSE UNCHANGED <<driver, registered, ref>>

\* drm_release(), when no ioctl on the file is left, up to the end of its mutex.
Release(f) ==
  /\ th[f] = "open" /\ global_mutex = None
  /\ \A p \in pending : p[1] # f
  /\ ReleaseMaster(f)
  /\ LastClose(f)
  /\ file' = [file EXCEPT ![f] = NoFile]
  /\ Goto(f, "put")
  /\ UNCHANGED <<world, global_mutex, unplugged, plug, sequence, pending>>

\* drm_minor_release() at its end.
ReleaseMinor(f) ==
  /\ th[f] = "put"
  /\ ref' = ref - 1
  /\ Goto(f, "closed")
  /\ UNCHANGED <<world, global_mutex, driver, unplugged, plug, registered, open_count,
                 masters, sequence, file, pending>>

------------------------------------------------------------------------------
(* Ioctls. *)

\* drm_ioctl_permit() for the flags of the four ioctls: none, DRM_AUTH|DRM_MASTER and
\* twice DRM_ROOT_ONLY; a render client may call none of them.
Permit(f, ioctl) ==
  /\ file[f].minor = "primary"
  /\ ioctl = "authmagic" => file[f].authenticated /\ file[f].is_master
  /\ ioctl \in {"setmaster", "dropmaster"} => f \in world.root

\* drm_ioctl() before it takes drm_global_mutex.
Ioctl(f, ioctl) ==
  /\ th[f] = "open" /\ <<f, ioctl>> \notin pending
  /\ ~unplugged /\ Permit(f, ioctl)
  /\ pending' = pending \cup {<<f, ioctl>>}
  /\ UNCHANGED <<world, global_mutex, device, open_count, masters, sequence, file, th>>

Returns(f, ioctl) ==
  /\ <<f, ioctl>> \in pending /\ global_mutex = None
  /\ pending' = pending \ {<<f, ioctl>>}

\* The first number that no file of the master waits with.
NextMagic(m) ==
  LET age(k) == (k + MaxMagic + 1 - sequence) % (MaxMagic + 1)
      free == {k \in Magics : magiclist[m][k] = None}
  IN CHOOSE k \in free : \A j \in free : age(k) <= age(j)

\* drm_getmagic(): a file has one magic number.  When drm_add_magic() fails nobody
\* notices.
GetMagic(f) ==
  LET m == file[f].master
      k == NextMagic(m)
  IN
  /\ Returns(f, "getmagic")
  /\ \/ /\ file[f].magic # 0
        /\ UNCHANGED <<sequence, file, magiclist>>
     \/ /\ file[f].magic = 0
        /\ world.wrap \/ (k >= sequence /\ k < MaxMagic)
        /\ sequence' = (k + 1) % (MaxMagic + 1)
        /\ file' = [file EXCEPT ![f].magic = k]
        /\ \/ magiclist' = [magiclist EXCEPT ![m][k] = f]
           \/ MayFail("magic") /\ UNCHANGED magiclist
  /\ UNCHANGED <<world, global_mutex, device, open_count, minor_master, refcount, th>>

\* Faulty variant of AuthMagic: the caller's own flag is set.
AuthMagicSelf(f, k) ==
  /\ Returns(f, "authmagic")
  /\ magiclist' = RemoveMagic(magiclist, file[f].master, k)
  /\ file' = [file EXCEPT ![f].authenticated = TRUE]
  /\ UNCHANGED <<world, global_mutex, device, open_count, minor_master, refcount,
                 sequence, th>>

\* drm_authmagic(), of which nobody checks again that the caller is_master.
AuthMagic(f, k) ==
  LET m == file[f].master
      g == magiclist[m][k]
  IN
  /\ Returns(f, "authmagic")
  /\ IF g = None THEN UNCHANGED <<file, magiclist>>
     ELSE /\ file' = [file EXCEPT ![g].authenticated = TRUE]
          /\ magiclist' = RemoveMagic(magiclist, m, k)
  /\ UNCHANGED <<world, global_mutex, device, open_count, minor_master, refcount,
                 sequence, th>>

\* drm_setmaster_ioctl(); the driver's master_set() may refuse.
SetMaster(f) ==
  LET m == file[f].master IN
  /\ Returns(f, "setmaster")
  /\ \/ /\ ~file[f].is_master /\ minor_master = None
        /\ minor_master' = m
        /\ refcount' = [refcount EXCEPT ![m] = @ + 1]
        /\ file' = [file EXCEPT ![f].is_master = TRUE]
     \/ /\ file[f].is_master \/ minor_master # None \/ MayFail("master_set")
        /\ UNCHANGED <<minor_master, refcount, file>>
  /\ UNCHANGED <<world, global_mutex, device, open_count, magiclist, sequence, th>>

\* Faulty variant of DropMaster: the flag of the file stays.
DropMasterFlag(f) ==
  /\ Returns(f, "dropmaster")
  /\ IF file[f].is_master /\ minor_master # None
     THEN /\ refcount' = MasterPut(refcount, minor_master)
          /\ minor_master' = None
     ELSE UNCHANGED <<minor_master, refcount>>
  /\ UNCHANGED <<world, global_mutex, device, open_count, magiclist, sequence, file, th>>

\* drm_dropmaster_ioctl()
DropMaster(f) ==
  /\ Returns(f, "dropmaster")
  /\ IF file[f].is_master /\ minor_master # None
     THEN /\ refcount' = MasterPut(refcount, minor_master)
          /\ magiclist' = Surviving(refcount')
          /\ minor_master' = None
          /\ file' = [file EXCEPT ![f].is_master = FALSE]
     ELSE UNCHANGED <<masters, file>>
  /\ UNCHANGED <<world, global_mutex, device, open_count, sequence, th>>

------------------------------------------------------------------------------
Next ==
  \/ Register \/ UnregisterMinors \/ Unplug
  \/ \E f \in world.files :
       \/ \E minor \in world.minors : StubOpen(f, minor)
       \/ Open(f) \/ StubDone(f) \/ Release(f) \/ ReleaseMinor(f)
       \/ \E ioctl \in world.ioctls : Ioctl(f, ioctl)
       \/ GetMagic(f) \/ SetMaster(f) \/ DropMaster(f)
       \/ \E k \in Magics : AuthMagic(f, k)

Spec == Init /\ [][Next]_vars

------------------------------------------------------------------------------
(* Properties. *)

\* A master is counted once by each of its files and once by the minor it rules, so
\* that it is destroyed with the last of them, whoever opens, closes, drops or takes
\* the role, and whatever fails.
MasterRefExact ==
  \A m \in Masters :
    refcount[m] = Cardinality({f \in Files : file[f].master = m})
                  + (IF minor_master = m THEN 1 ELSE 0)

\* minor->master is the master of the one file that is_master; there is such a file
\* whenever it is set.
OneMaster ==
  /\ \A f \in Files : file[f].is_master =>
       /\ minor_master # None /\ minor_master = file[f].master
       /\ \A g \in Files \ {f} : ~file[g].is_master
  /\ minor_master # None => \E f \in Files : file[f].is_master

\* A magic number leads to an open file of the same master, which drm_authmagic()
\* writes to; it is gone when the file is, even if the numbers have wrapped around.
MagicValid ==
  \A m \in Masters, k \in Magics :
    LET f == magiclist[m][k] IN
    f # None => file[f].master = m /\ file[f].magic = k

\* As long as a client is not authenticated, the magic number it was given works.
\* (Not when drm_add_magic() failed, nor after 2^32 numbers: a file that was
\* authenticated keeps its number, and takes away that of another when it closes.)
MagicUsable ==
  ~world.wrap /\ ~MayFail("magic") =>
    \A f \in Files : file[f].magic # 0 /\ ~file[f].authenticated =>
      magiclist[file[f].master][file[f].magic] = f

\* The device is counted by its registration, by each open file and by the opens under
\* way, so that it is freed after the last of them.
DevRefExact ==
  ref = (IF driver = "unloaded" THEN 0 ELSE 1)
        + Cardinality({f \in Files : th[f] \in {"opened", "open", "put"}})
        + (IF global_mutex = None THEN 0 ELSE 1)

\* The driver is not unloaded under an open file or an ioctl, although unplugging does
\* not wait for them.
DriverStays ==
  \A f \in Files : th[f] \in {"opened", "open"} => driver = "loaded"

\* An unplugged device is freed once its files are closed.
UnpluggedFreed ==
  plug = "out" /\ (\A f \in Files : th[f] \in {"closed", "leaked"}) /\ global_mutex = None
    => ref = 0
==============================================================================

--------------------------------- MODULE Gem ---------------------------------
(***************************************************************************)
(* GEM objects, their handles, flink names, mmap permissions and PRIME     *)
(* sharing: drm_gem.c, drm_prime.c and the permission list of              *)
(* drm_vma_manager.c, with the driver glue that creates objects and        *)
(* framebuffers.                                                           *)
(*                                                                         *)
(* Threads run ioctls on open files.  One action is one critical section   *)
(* (table_lock, object_name_lock, struct_mutex, a node's vm_lock) or one   *)
(* atomic reference count operation; prime.lock is held across several of  *)
(* them and is a variable.  object_name_lock is never held across actions. *)
(* fput() defers the release of a dma-buf, so that is an action of its own.*)
(***************************************************************************)
EXTENDS Integers, FiniteSets, Sequences

CONSTANTS
  Threads, Files, Objects, Bufs,
  Handles, Names, \* the idr's numbers, 1..n
  Worlds,         \* the situations that are considered
  None

\* ops: the calls userspace makes; fail: the calls that may fail; foreign: the
\* dma-bufs another device exports; files, objects, handles: those in use.
World ==
  [ops : SUBSET {"create", "close", "open", "flink", "release", "addfb",
                 "getfb", "mmap", "to_fd", "from_fd"},
   fail : SUBSET {"idr", "allow", "open", "name", "export", "import",
                  "member", "fd"},
   foreign : SUBSET Bufs, files : SUBSET Files, objects : SUBSET Objects,
   handles : SUBSET Handles]

ASSUME GemAssumption ==
  /\ IsFiniteSet(Threads) /\ IsFiniteSet(Files) /\ IsFiniteSet(Objects)
  /\ IsFiniteSet(Bufs)
  /\ IsFiniteSet(Handles) /\ Handles \subseteq Nat \ {0}
  /\ IsFiniteSet(Names) /\ Names \subseteq Nat \ {0}
  /\ Worlds \subseteq World
  /\ None \notin Threads \cup Files \cup Objects \cup Bufs

VARIABLES
  world,          \* the situation, the same throughout
  refcount,       \* obj->refcount, 0 once freed
  handle_count,   \* obj->handle_count
  name,           \* obj->name
  dma_buf,        \* obj->dma_buf
  import,         \* obj->import_attach->dmabuf
  name_idr,       \* dev->object_name_idr
  table,          \* file_priv->object_idr
  cache,          \* file_priv->prime.head, newest first
  prime_lock,     \* who holds file_priv->prime.lock
  allowed,        \* obj->vma_node.vm_files: how often each file was allowed
  maps,           \* the VMAs of an object, by file
  fbs,            \* the objects framebuffers hold, by file
  bufref,         \* file count of a dma-buf
  live,           \* dma-bufs not yet released
  priv,           \* dma_buf->priv
  fds,            \* the dma-bufs userspace has a file descriptor of
  th              \* the threads and their local variables

names == <<name, name_idr>>
bufs == <<live, priv, fds>>
users == <<maps, fbs>>
vars == <<world, refcount, handle_count, dma_buf, import, names, table, cache,
          prime_lock, allowed, users, bufref, bufs, th>>

\* o and b: the object and the dma-buf the call holds a reference on;
\* v: the object whose handle is being taken down, with the handle's reference.
Idle == [op |-> "none", pc |-> "idle", f |-> None, h |-> 0, o |-> None,
         v |-> None, b |-> None, err |-> FALSE]

Places == {"idle", "create", "allow", "drop", "delete", "prime", "revoke",
           "unhandle", "unref", "flink", "export", "fd", "done", "import",
           "lookup", "cache", "put", "release"}

TypeOK ==
  /\ world \in Worlds
  /\ refcount \in [Objects -> Nat]
  /\ handle_count \in [Objects -> Nat]
  /\ name \in [Objects -> Names \cup {0}]
  /\ dma_buf \in [Objects -> Bufs \cup {None}]
  /\ import \in [Objects -> Bufs \cup {None}]
  /\ name_idr \in [Names -> Objects \cup {None}]
  /\ table \in [Files -> [Handles -> Objects \cup {None}]]
  /\ cache \in [Files -> Seq(Bufs \X Handles)]
  /\ prime_lock \in [Files -> Threads \cup {None}]
  /\ allowed \in [Objects -> [Files -> Nat]]
  /\ maps \in SUBSET (Files \X Objects)
  /\ fbs \in SUBSET (Files \X Objects)
  /\ bufref \in [Bufs -> Nat]
  /\ live \in SUBSET Bufs
  /\ priv \in [Bufs -> Objects \cup {None}]
  /\ fds \in SUBSET Bufs
  /\ th \in [Threads ->
       [op : world.ops \cup {"none"}, pc : Places, f : Files \cup {None},
        h : Handles \cup {0}, o : Objects \cup {None},
        v : Objects \cup {None}, b : Bufs \cup {None}, err : BOOLEAN]]

Init ==
  /\ world \in Worlds
  /\ refcount = [o \in Objects |-> 0]
  /\ handle_count = [o \in Objects |-> 0]
  /\ name = [o \in Objects |-> 0]
  /\ dma_buf = [o \in Objects |-> None]
  /\ import = [o \in Objects |-> None]
  /\ name_idr = [n \in Names |-> None]
  /\ table = [f \in Files |-> [h \in Handles |-> None]]
  /\ cache = [f \in Files |-> <<>>]
  /\ prime_lock = [f \in Files |-> None]
  /\ allowed = [o \in Objects |-> [f \in Files |-> 0]]
  /\ maps = {}
  /\ fbs = {}
  /\ bufref = [b \in Bufs |-> IF b \in world.foreign THEN 1 ELSE 0]
  /\ live = world.foreign
  /\ priv = [b \in Bufs |-> None]
  /\ fds = world.foreign
  /\ th = [t \in Threads |-> Idle]

------------------------------------------------------------------------------
(* Helpers. *)

\* idr_alloc(): the lowest free number.
LowestFree(idr) ==
  {n \in DOMAIN idr : /\ idr[n] = None
                      /\ \A m \in DOMAIN idr : m < n => idr[m] # None}

Set(t, local) == th' = [th EXCEPT ![t] = local]
Goto(t, place) == Set(t, [th[t] EXCEPT !.pc = place])

Up(counts, x) == [counts EXCEPT ![x] = @ + 1]
Down(counts, x) == [counts EXCEPT ![x] = @ - 1]

\* An ioctl on f may begin: f is not being released.
MayCall(t, op, f) ==
  /\ op \in world.ops /\ f \in world.files
  /\ th[t].pc = "idle"
  /\ \A u \in Threads : ~(th[u].op = "release" /\ th[u].f = f)

\* gem_free_object(): drm_prime_gem_destroy() for an imported object, and the
\* memory goes.  What else still points to it is left alone.
Free(o) ==
  /\ import' = [import EXCEPT ![o] = None]
  /\ bufref' = IF import[o] = None THEN bufref ELSE Down(bufref, import[o])
  /\ allowed' = [allowed EXCEPT ![o] = [f \in Files |-> 0]]

\* drm_gem_object_unreference_unlocked(): the last reference is only dropped
\* under struct_mutex, and the object freed under it.
Unreference(o) ==
  /\ refcount' = Down(refcount, o)
  /\ IF refcount[o] = 1 THEN Free(o) ELSE UNCHANGED <<import, bufref, allowed>>

------------------------------------------------------------------------------
(* Creating a handle. *)

\* The number idr_alloc() gives a new handle of file f.
FreeHandle(f) == LowestFree(table[f]) \cap world.handles

\* The critical section of drm_gem_handle_create_tail().  A failed idr_alloc()
\* still counts the handle, and takes it down again.
HandleCreateTail(t, l, refs) ==
  /\ refcount' = Up(refs, l.o)
  /\ handle_count' = Up(handle_count, l.o)
  /\ \/ \E h \in FreeHandle(l.f) :
          /\ table' = [table EXCEPT ![l.f][h] = l.o]
          /\ Set(t, [l EXCEPT !.h = h, !.pc = "allow"])
     \/ /\ "idr" \in world.fail \/ FreeHandle(l.f) = {}
        /\ Set(t, [l EXCEPT !.v = l.o, !.err = TRUE, !.pc = "unhandle"])
        /\ UNCHANGED table

\* A driver's create ioctl allocates an object with one reference ...
Create(t, f) ==
  /\ MayCall(t, "create", f)
  /\ \E o \in world.objects :
       /\ refcount[o] = 0
       /\ refcount' = [refcount EXCEPT ![o] = 1]
       /\ Set(t, [Idle EXCEPT !.op = "create", !.pc = "create", !.f = f, !.o = o])
  /\ UNCHANGED <<handle_count, dma_buf, import, names, table, cache, prime_lock,
                 allowed, users, bufref, bufs>>

\* ... drm_mode_getfb() takes one from the framebuffer ...
GetFb(t, f) ==
  /\ MayCall(t, "getfb", f)
  /\ \E fb \in fbs :
       /\ refcount' = Up(refcount, fb[2])
       /\ Set(t, [Idle EXCEPT !.op = "getfb", !.pc = "create", !.f = f, !.o = fb[2]])
  /\ UNCHANGED <<handle_count, dma_buf, import, names, table, cache, prime_lock,
                 allowed, users, bufref, bufs>>

\* ... and both call drm_gem_handle_create().
HandleCreate(t) ==
  /\ th[t].pc = "create"
  /\ HandleCreateTail(t, th[t], refcount)
  /\ UNCHANGED <<dma_buf, import, names, cache, prime_lock, allowed, users,
                 bufref, bufs>>

\* Faulty variant of NameLookup: no reference of its own on the object.
NameLookupBare(o) == refcount

\* The reference drm_gem_open_ioctl() takes.
NameLookup(o) == Up(refcount, o)

\* drm_gem_open_ioctl() looks the name up in the same critical section.
OpenName(t, f) ==
  /\ MayCall(t, "open", f)
  /\ \E n \in Names :
       /\ name_idr[n] # None
       /\ HandleCreateTail(t, [Idle EXCEPT !.op = "open", !.f = f, !.o = name_idr[n]],
                           NameLookup(name_idr[n]))
  /\ UNCHANGED <<dma_buf, import, names, cache, prime_lock, allowed, users,
                 bufref, bufs>>

\* drm_vma_node_allow()
NodeAllow(o, f) == allowed' = [allowed EXCEPT ![o][f] = @ + 1]

\* The rest of drm_gem_handle_create_tail(): drm_vma_node_allow() and
\* gem_open_object(), with the handle already visible to other threads.
Allow(t) ==
  LET l == th[t]
      delete == [l EXCEPT !.err = TRUE, !.pc = "delete"] IN
  /\ l.pc = "allow"
  /\ \/ /\ "allow" \in world.fail
        /\ Set(t, delete)
        /\ UNCHANGED allowed
     \/ /\ NodeAllow(l.o, l.f)
        /\ \/ Goto(t, "drop")
           \/ "open" \in world.fail /\ Set(t, delete)
  /\ UNCHANGED <<refcount, handle_count, dma_buf, import, names, table, cache,
                 prime_lock, users, bufref, bufs>>

\* The caller's own reference goes, whether the handle was created or not.
Drop(t) ==
  LET l == th[t] IN
  /\ l.pc = "drop"
  /\ Unreference(l.o)
  /\ Set(t, IF l.op = "from_fd"
            THEN [l EXCEPT !.o = None, !.pc = IF l.err THEN "put" ELSE "cache"]
            ELSE Idle)
  /\ UNCHANGED <<handle_count, dma_buf, names, table, cache, prime_lock, users,
                 bufs>>

------------------------------------------------------------------------------
(* Deleting a handle: drm_gem_handle_delete(), drm_gem_release(). *)

\* The handle number is free from here on, its reference moves to the thread.
TakeOut(t, l) ==
  /\ table' = [table EXCEPT ![l.f][l.h] = None]
  /\ Set(t, [l EXCEPT !.v = table[l.f][l.h], !.pc = "prime"])

Close(t, f, h) ==
  /\ MayCall(t, "close", f)
  /\ table[f][h] # None
  /\ TakeOut(t, [Idle EXCEPT !.op = "close", !.f = f, !.h = h])
  /\ UNCHANGED <<refcount, handle_count, dma_buf, import, names, cache,
                 prime_lock, allowed, users, bufref, bufs>>

\* An error path deletes the handle it made, or what the number now stands for.
Delete(t) ==
  LET l == th[t] IN
  /\ l.pc = "delete"
  /\ IF table[l.f][l.h] # None THEN TakeOut(t, l)
     ELSE Goto(t, IF l.o # None THEN "drop" ELSE "put") /\ UNCHANGED table
  /\ UNCHANGED <<refcount, handle_count, dma_buf, import, names, cache,
                 prime_lock, allowed, users, bufref, bufs>>

\* drm_release(): the last reference on the file is gone, so no call and no
\* VMA uses it any more.
Release(t, f) ==
  /\ MayCall(t, "release", f)
  /\ \A u \in Threads : th[u].f # f
  /\ \A o \in Objects : <<f, o>> \notin maps
  /\ Set(t, [Idle EXCEPT !.op = "release", !.f = f, !.pc = "release"])
  /\ UNCHANGED <<refcount, handle_count, dma_buf, import, names, table, cache,
                 prime_lock, allowed, users, bufref, bufs>>

\* drm_fb_release(), then drm_gem_release() handle by handle.
ReleaseFb(t) ==
  /\ th[t].pc = "release"
  /\ \E fb \in fbs :
       /\ fb[1] = th[t].f
       /\ fbs' = fbs \ {fb}
       /\ Unreference(fb[2])
  /\ UNCHANGED <<handle_count, dma_buf, names, table, cache, prime_lock, maps,
                 bufs, th>>

ReleaseHandle(t) ==
  LET l == th[t]
      used == {h \in Handles : table[l.f][h] # None} IN
  /\ l.pc = "release"
  /\ \A fb \in fbs : fb[1] # l.f
  /\ IF used = {} THEN Set(t, Idle) /\ UNCHANGED table
     ELSE \E h \in used : /\ \A k \in used : h <= k
                          /\ TakeOut(t, [l EXCEPT !.h = h])
  /\ UNCHANGED <<refcount, handle_count, dma_buf, import, names, cache,
                 prime_lock, allowed, users, bufref, bufs>>

\* Faulty variant of Kept: the members stay.
KeptAll(f, o) == cache[f]

\* The members of the cache of f that are not of the object's dma-buf.
Kept(f, o) == SelectSeq(cache[f], LAMBDA m : m[1] # dma_buf[o])

\* drm_gem_remove_prime_handles(): every member with the object's dma-buf.
RemovePrimeHandles(t) ==
  LET l == th[t] IN
  /\ l.pc = "prime"
  /\ prime_lock[l.f] = None
  /\ cache' = [cache EXCEPT ![l.f] = Kept(l.f, l.v)]
  /\ bufref' = IF dma_buf[l.v] = None THEN bufref
               ELSE [bufref EXCEPT ![dma_buf[l.v]] =
                       @ - (Len(cache[l.f]) - Len(cache'[l.f]))]
  /\ Goto(t, "revoke")
  /\ UNCHANGED <<refcount, handle_count, dma_buf, import, names, table,
                 prime_lock, allowed, users, bufs>>

\* Faulty variants of Revoked: takes the file to be on the list, takes it off the
\* list at once.
RevokedUnchecked(k) == k - 1
RevokedAll(k) == 0

Revoked(k) == IF k = 0 THEN 0 ELSE k - 1

\* drm_vma_node_revoke()
Revoke(t) ==
  LET l == th[t] IN
  /\ l.pc = "revoke"
  /\ allowed' = [allowed EXCEPT ![l.v][l.f] = Revoked(@)]
  /\ Goto(t, "unhandle")
  /\ UNCHANGED <<refcount, handle_count, dma_buf, import, names, table, cache,
                 prime_lock, users, bufref, bufs>>

\* Faulty variant of HandlesLeft: the handle is not taken off the count.
HandlesLeftAll(o) == handle_count

HandlesLeft(o) == Down(handle_count, o)

\* Faulty variant of BreaksCycle: the exported dma-buf is forgotten.
BreaksCycleNever(o) == FALSE

\* drm_gem_object_exported_dma_buf_free() drops a dma-buf.
BreaksCycle(o) == handle_count[o] = 1 /\ dma_buf[o] # None

\* drm_gem_object_handle_unreference_unlocked(): the last handle takes the
\* name with it and breaks the reference cycle with the exported dma-buf.
HandleUnreference(t) ==
  LET o == th[t].v
      last == handle_count[o] = 1 IN
  /\ th[t].pc = "unhandle"
  /\ handle_count' = HandlesLeft(o)
  /\ name' = IF last THEN [name EXCEPT ![o] = 0] ELSE name
  /\ name_idr' = IF last /\ name[o] # 0
                 THEN [name_idr EXCEPT ![name[o]] = None] ELSE name_idr
  /\ dma_buf' = IF BreaksCycle(o) THEN [dma_buf EXCEPT ![o] = None] ELSE dma_buf
  /\ bufref' = IF BreaksCycle(o) THEN Down(bufref, dma_buf[o]) ELSE bufref
  /\ Goto(t, "unref")
  /\ UNCHANGED <<refcount, import, table, cache, prime_lock, allowed, users, bufs>>

HandleDrop(t) ==
  LET l == th[t] IN
  /\ l.pc = "unref"
  /\ Unreference(l.v)
  /\ Set(t, CASE l.op = "close"   -> Idle
              [] l.op = "release" -> [l EXCEPT !.v = None, !.pc = "release"]
              [] OTHER -> [l EXCEPT !.v = None,
                                    !.pc = IF l.o # None THEN "drop" ELSE "put"])
  /\ UNCHANGED <<handle_count, dma_buf, names, table, cache, prime_lock, users,
                 bufs>>
------------------------------------------------------------------------------
(* Names, framebuffers and mappings. *)

\* drm_gem_flink_ioctl(): drm_gem_object_lookup(), then the name.
FlinkLookup(t, f, h) ==
  /\ MayCall(t, "flink", f)
  /\ table[f][h] # None
  /\ refcount' = Up(refcount, table[f][h])
  /\ Set(t, [Idle EXCEPT !.op = "flink", !.f = f, !.o = table[f][h], !.pc = "flink"])
  /\ UNCHANGED <<handle_count, dma_buf, import, names, table, cache, prime_lock,
                 allowed, users, bufref, bufs>>

\* Faulty variant of Nameable: no check that a racing close left a handle.
NameableAlways(o) == TRUE

Nameable(o) == handle_count[o] # 0

Flink(t) ==
  LET o == th[t].o IN
  /\ th[t].pc = "flink"
  /\ \/ /\ Nameable(o) /\ name[o] = 0
        /\ \E n \in LowestFree(name_idr) :
             /\ name' = [name EXCEPT ![o] = n]
             /\ name_idr' = [name_idr EXCEPT ![n] = o]
     \/ /\ \/ ~Nameable(o)
           \/ name[o] # 0
           \/ "name" \in world.fail
           \/ LowestFree(name_idr) = {}
        /\ UNCHANGED names
  /\ Goto(t, "drop")
  /\ UNCHANGED <<refcount, handle_count, dma_buf, import, table, cache,
                 prime_lock, allowed, users, bufref, bufs>>

\* A framebuffer keeps the reference of its lookup until it is removed.
AddFb(f, h) ==
  LET o == table[f][h] IN
  /\ "addfb" \in world.ops
  /\ o # None
  /\ <<f, o>> \notin fbs
  /\ \A u \in Threads : ~(th[u].op = "release" /\ th[u].f = f)
  /\ fbs' = fbs \cup {<<f, o>>}
  /\ refcount' = Up(refcount, o)
  /\ UNCHANGED <<handle_count, dma_buf, import, names, table, cache, prime_lock,
                 allowed, maps, bufref, bufs, th>>

RmFb(f, o) ==
  /\ <<f, o>> \in fbs
  /\ \A u \in Threads : ~(th[u].op = "release" /\ th[u].f = f)
  /\ fbs' = fbs \ {<<f, o>>}
  /\ Unreference(o)
  /\ UNCHANGED <<handle_count, dma_buf, names, table, cache, prime_lock, maps,
                 bufs, th>>

\* drm_gem_mmap(): the offset is looked up and the reference taken under
\* struct_mutex, so an object on its way out is not found.
Mmap(f, o) ==
  /\ "mmap" \in world.ops
  /\ refcount[o] > 0
  /\ allowed[o][f] > 0
  /\ <<f, o>> \notin maps
  /\ \A u \in Threads : ~(th[u].op = "release" /\ th[u].f = f)
  /\ maps' = maps \cup {<<f, o>>}
  /\ refcount' = Up(refcount, o)
  /\ UNCHANGED <<handle_count, dma_buf, import, names, table, cache, prime_lock,
                 allowed, fbs, bufref, bufs, th>>

\* drm_gem_vm_close()
Munmap(f, o) ==
  /\ <<f, o>> \in maps
  /\ maps' = maps \ {<<f, o>>}
  /\ Unreference(o)
  /\ UNCHANGED <<handle_count, dma_buf, names, table, cache, prime_lock, fbs,
                 bufs, th>>

------------------------------------------------------------------------------
(* PRIME. *)

\* drm_prime_lookup_buf_by_handle(), drm_prime_lookup_buf_handle(): the first
\* member that matches.
FirstByHandle(list, h) ==
  {i \in DOMAIN list : list[i][2] = h /\ \A j \in 1..(i - 1) : list[j][2] # h}
FirstByBuf(list, b) ==
  {i \in DOMAIN list : list[i][1] = b /\ \A j \in 1..(i - 1) : list[j][1] # b}

\* drm_prime_add_buf_handle()
AddMember(f, b, h) == cache' = [cache EXCEPT ![f] = <<<<b, h>>>> \o @]

\* drm_gem_prime_handle_to_fd() up to the cache lookup.
ToFd(t, f, h) ==
  LET l == [Idle EXCEPT !.op = "to_fd", !.f = f, !.h = h, !.o = table[f][h]]
      hit == FirstByHandle(cache[f], h) IN
  /\ MayCall(t, "to_fd", f)
  /\ prime_lock[f] = None
  /\ l.o # None
  /\ prime_lock' = [prime_lock EXCEPT ![f] = t]
  /\ refcount' = Up(refcount, l.o)
  /\ \/ \E i \in hit :
          /\ bufref' = Up(bufref, cache[f][i][1])
          /\ Set(t, [l EXCEPT !.b = cache[f][i][1], !.pc = "fd"])
     \/ hit = {} /\ Set(t, [l EXCEPT !.pc = "export"]) /\ UNCHANGED bufref
  /\ UNCHANGED <<handle_count, dma_buf, import, names, table, cache, allowed,
                 users, bufs>>

\* The dma-buf is there, with ref as the counts: cache it and go on to the
\* file descriptor, or give up and put it.
Exported(t, b, ref) ==
  LET l == th[t] IN
  \/ /\ AddMember(l.f, b, l.h)
     /\ bufref' = [ref EXCEPT ![b] = @ + 2]
     /\ Set(t, [l EXCEPT !.b = b, !.pc = "fd"])
  \/ /\ "member" \in world.fail
     /\ bufref' = ref
     /\ Goto(t, "done")
     /\ UNCHANGED cache

\* export_and_register_object(): the new dma-buf takes the caller's reference
\* on the object, which takes another.
ExportAndRegister(t, o) ==
  \/ /\ handle_count[o] # 0
     /\ \E b \in Bufs \ (live \cup world.foreign) :
          /\ live' = live \cup {b}
          /\ priv' = [priv EXCEPT ![b] = o]
          /\ dma_buf' = [dma_buf EXCEPT ![o] = b]
          /\ refcount' = Up(refcount, o)
          /\ Exported(t, b, [bufref EXCEPT ![b] = 1])
  \/ /\ handle_count[o] = 0 \/ "export" \in world.fail \/ Bufs = live \cup world.foreign
     /\ Goto(t, "done")
     /\ UNCHANGED <<refcount, dma_buf, live, priv, cache, bufref>>

\* Faulty variant of Known: an object that was exported is exported again.
KnownImport(o) == import[o]

\* The dma-buf the object was imported from or exported as.
Known(o) == IF import[o] # None THEN import[o] ELSE dma_buf[o]

\* ... under object_name_lock: the dma-buf it was imported from, the one it was
\* exported as, or a new one.
Export(t) ==
  LET o == th[t].o
      known == Known(o) IN
  /\ th[t].pc = "export"
  /\ \/ /\ known # None
        /\ Exported(t, known, bufref)
        /\ UNCHANGED <<refcount, dma_buf, live, priv>>
     \/ known = None /\ ExportAndRegister(t, o)
  /\ UNCHANGED <<handle_count, import, names, table, prime_lock, allowed, users,
                 fds>>

\* dma_buf_fd(): the descriptor takes the reference over.  One descriptor of a
\* dma-buf is enough here; a second one would only delay its release.
ToFdInstall(t) ==
  LET l == th[t] IN
  /\ l.pc = "fd"
  /\ \/ /\ l.b \notin fds
        /\ fds' = fds \cup {l.b}
        /\ UNCHANGED bufref
     \/ /\ "fd" \in world.fail \/ l.b \in fds
        /\ bufref' = Down(bufref, l.b)
        /\ UNCHANGED fds
  /\ Set(t, [l EXCEPT !.b = None, !.pc = "done"])
  /\ UNCHANGED <<refcount, handle_count, dma_buf, import, names, table, cache,
                 prime_lock, allowed, users, live, priv>>

ToFdDone(t) ==
  /\ th[t].pc = "done"
  /\ Unreference(th[t].o)
  /\ prime_lock' = [prime_lock EXCEPT ![th[t].f] = None]
  /\ Set(t, Idle)
  /\ UNCHANGED <<handle_count, dma_buf, names, table, cache, users, bufs>>

\* drm_gem_prime_fd_to_handle(): dma_buf_get(), then the cache under prime.lock.
FromFd(t, f) ==
  /\ MayCall(t, "from_fd", f)
  /\ \E b \in fds :
       /\ bufref' = Up(bufref, b)
       /\ Set(t, [Idle EXCEPT !.op = "from_fd", !.f = f, !.b = b, !.pc = "import"])
  /\ UNCHANGED <<refcount, handle_count, dma_buf, import, names, table, cache,
                 prime_lock, allowed, users, bufs>>

FromFdLookup(t) ==
  LET l == th[t]
      hit == FirstByBuf(cache[l.f], l.b) IN
  /\ l.pc = "import"
  /\ prime_lock[l.f] = None
  /\ prime_lock' = [prime_lock EXCEPT ![l.f] = t]
  /\ \/ \E i \in hit : Set(t, [l EXCEPT !.h = cache[l.f][i][2], !.pc = "put"])
     \/ hit = {} /\ Goto(t, "lookup")
  /\ UNCHANGED <<refcount, handle_count, dma_buf, import, names, table, cache,
                 allowed, users, bufref, bufs>>

\* drm_gem_prime_import(): the object that was exported, or a new one attached
\* to a foreign dma-buf.
PrimeImport(b, o) ==
  IF priv[b] = None
  THEN refcount[o] = 0 /\ import' = [import EXCEPT ![o] = b]
  ELSE priv[b] = o /\ UNCHANGED import

\* The reference an attachment holds on a foreign dma-buf.
Attached(b) == IF priv[b] = None THEN 1 ELSE 0

\* Faulty variant of Gets: obj->dma_buf is set without get_dma_buf().
GetsAttached(b, o) == Attached(b)

\* The references on b that importing it as o takes.
Gets(b, o) == Attached(b) + (IF dma_buf[o] = None THEN 1 ELSE 0)

\* "Never seen this one": obj->dma_buf is set if it was not, and the handle
\* made, all under object_name_lock.
Import(t) ==
  LET l == th[t] IN
  /\ l.pc = "lookup"
  /\ \/ \E o \in world.objects :
          /\ PrimeImport(l.b, o)
          /\ bufref' = [bufref EXCEPT ![l.b] = @ + Gets(l.b, o)]
          /\ dma_buf' = [dma_buf EXCEPT ![o] = IF @ = None THEN l.b ELSE @]
          /\ HandleCreateTail(t, [l EXCEPT !.o = o], Up(refcount, o))
     \/ /\ priv[l.b] = None
        /\ "import" \in world.fail \/ \A o \in world.objects : refcount[o] > 0
        /\ Set(t, [l EXCEPT !.err = TRUE, !.pc = "put"])
        /\ UNCHANGED <<refcount, handle_count, import, dma_buf, bufref, table>>
  /\ UNCHANGED <<names, cache, prime_lock, allowed, users, bufs>>

\* The handle goes into the cache; failing that it is deleted, with prime.lock
\* still held.
FromFdCache(t) ==
  LET l == th[t] IN
  /\ l.pc = "cache"
  /\ \/ /\ AddMember(l.f, l.b, l.h)
        /\ bufref' = Up(bufref, l.b)
        /\ Goto(t, "put")
     \/ /\ "member" \in world.fail
        /\ Set(t, [l EXCEPT !.err = TRUE, !.pc = "delete"])
        /\ UNCHANGED <<cache, bufref>>
  /\ UNCHANGED <<refcount, handle_count, dma_buf, import, names, table,
                 prime_lock, allowed, users, bufs>>

FromFdPut(t) ==
  LET l == th[t] IN
  /\ l.pc = "put"
  /\ bufref' = Down(bufref, l.b)
  /\ prime_lock' = [prime_lock EXCEPT ![l.f] = None]
  /\ Set(t, Idle)
  /\ UNCHANGED <<refcount, handle_count, dma_buf, import, names, table, cache,
                 allowed, users, bufs>>

\* close() of a dma-buf's descriptor.
CloseFd(b) ==
  /\ b \in fds
  /\ fds' = fds \ {b}
  /\ bufref' = Down(bufref, b)
  /\ UNCHANGED <<refcount, handle_count, dma_buf, import, names, table, cache,
                 prime_lock, allowed, users, live, priv, th>>

\* The deferred release after the last dma_buf_put(): drm_gem_dmabuf_release()
\* drops the reference the dma-buf has on the object.
BufRelease(b) ==
  /\ b \in live
  /\ bufref[b] = 0
  /\ live' = live \ {b}
  /\ priv' = [priv EXCEPT ![b] = None]
  /\ IF priv[b] = None
     THEN UNCHANGED <<refcount, import, bufref, allowed>>
     ELSE Unreference(priv[b])
  /\ UNCHANGED <<handle_count, dma_buf, names, table, cache, prime_lock, users,
                 fds, th>>
------------------------------------------------------------------------------
Begin(t) ==
  UNCHANGED world /\ \E f \in Files :
    \/ Create(t, f) \/ GetFb(t, f) \/ OpenName(t, f) \/ FromFd(t, f)
    \/ Release(t, f)
    \/ \E h \in Handles : Close(t, f, h) \/ FlinkLookup(t, f, h) \/ ToFd(t, f, h)

\* A call under way goes on; only prime.lock can stop it.
Continue(t) ==
  /\ UNCHANGED world
  /\ \/ HandleCreate(t) \/ Allow(t) \/ Drop(t) \/ Delete(t)
     \/ ReleaseFb(t) \/ ReleaseHandle(t)
     \/ Revoke(t) \/ HandleUnreference(t) \/ HandleDrop(t)
     \/ Flink(t) \/ Export(t) \/ ToFdInstall(t) \/ ToFdDone(t)
     \/ Import(t) \/ FromFdCache(t) \/ FromFdPut(t)
LockPrime(t) == UNCHANGED world /\ (RemovePrimeHandles(t) \/ FromFdLookup(t))

Userspace ==
  /\ UNCHANGED world
  /\ \/ \E f \in Files, o \in Objects : RmFb(f, o) \/ Mmap(f, o) \/ Munmap(f, o)
     \/ \E f \in Files, h \in Handles : AddFb(f, h)
     \/ \E b \in Bufs : CloseFd(b)

Next ==
  \/ \E t \in Threads : Begin(t) \/ Continue(t) \/ LockPrime(t)
  \/ Userspace
  \/ UNCHANGED world /\ \E b \in Bufs : BufRelease(b)

Spec == Init /\ [][Next]_vars

\* A call keeps running, and a mutex is handed to its waiters in turn.
Fairness ==
  \A t \in Threads : WF_vars(Continue(t)) /\ SF_vars(LockPrime(t))

FairSpec == Spec /\ Fairness

------------------------------------------------------------------------------
(* Properties. *)

HandlesOf(o) == {p \in Files \X Handles : table[p[1]][p[2]] = o}
Members(b) ==
  UNION {{<<f, i>> : i \in {j \in DOMAIN cache[f] : cache[f][j][1] = b}} : f \in Files}

\* Every reference on an object is accounted for: by a handle, by a call under
\* way, by a mapping, a framebuffer or an unreleased dma-buf.  So nothing is
\* used after drm_gem_object_free() and nothing keeps an object for ever.
RefcountExact ==
  \A o \in Objects :
    refcount[o] = Cardinality(HandlesOf(o))
                  + Cardinality({t \in Threads : th[t].o = o})
                  + Cardinality({t \in Threads : th[t].v = o})
                  + Cardinality({m \in maps : m[2] = o})
                  + Cardinality({fb \in fbs : fb[2] = o})
                  + Cardinality({b \in live : priv[b] = o})

\* The same for dma-bufs: descriptors, obj->dma_buf, import attachments, cache
\* members and calls under way.
BufRefExact ==
  \A b \in Bufs :
    bufref[b] = Cardinality({b} \cap fds)
                + Cardinality({o \in Objects : dma_buf[o] = b})
                + Cardinality({o \in Objects : import[o] = b})
                + Cardinality(Members(b))
                + Cardinality({t \in Threads : th[t].b = b})

\* handle_count counts the handles and the handles being taken down, so
\* WARN_ON(obj->handle_count == 0) never fires although it is read unlocked.
HandleCountExact ==
  \A o \in Objects :
    handle_count[o] =
      Cardinality(HandlesOf(o))
      + Cardinality({t \in Threads :
          th[t].v = o /\ th[t].pc \in {"prime", "revoke", "unhandle"}})

\* The three counts are exact, so no object or dma-buf is freed early or kept.
CountsExact == TypeOK /\ RefcountExact /\ HandleCountExact /\ BufRefExact

\* A flink name holds no reference: it has to go with the last handle, and
\* obj->name and object_name_idr have to agree, or drm_gem_open_ioctl() would
\* take a reference on a freed object.
NamesBacked ==
  /\ \A o \in Objects :
       name[o] # 0 => handle_count[o] > 0 /\ name_idr[name[o]] = o
  /\ \A n \in Names : name_idr[n] # None => name[name_idr[n]] = n

\* obj->dma_buf and dma_buf->priv refer to each other; the cycle only lasts
\* while there is a handle, and WARN_ON(obj->dma_buf) in
\* drm_gem_object_release() never fires.
CycleBroken ==
  \A o \in Objects : dma_buf[o] # None => handle_count[o] > 0

\* "drm_gem_release should've made sure the list is empty": a member of a
\* file's PRIME cache is always of an object that still has a handle in that
\* file, or a close on its way to remove the member.
CacheBacked ==
  \A f \in Files : \A i \in DOMAIN cache[f] : \E o \in Objects :
    /\ dma_buf[o] = cache[f][i][1]
    /\ \/ \E h \in Handles : table[f][h] = o
       \/ \E t \in Threads : th[t].f = f /\ th[t].v = o /\ th[t].pc = "prime"

\* An object is exported as one dma-buf at a time: while one of its dma-bufs is
\* alive obj->dma_buf is that one or, with no handle left, NULL.
OneBufPerObject ==
  \A b \in live : priv[b] # None => dma_buf[priv[b]] \in {None, b}

\* An object is one dma-buf, and what PRIME remembers of an export does not outlive the
\* handles it was made of: neither the cycle nor the members of the caches.
PrimeExact == OneBufPerObject /\ CycleBroken /\ CacheBacked

\* drm_gem_prime_handle_to_fd() hands out the dma-buf of the very object the
\* handle stands for.
ExportRight ==
  \A t \in Threads :
    th[t].pc = "fd" =>
      \/ priv[th[t].b] = th[t].o
      \/ import[th[t].o] = th[t].b

\* WARN_ON(obj->dma_buf != dma_buf) in drm_gem_prime_fd_to_handle().
ImportConsistent ==
  \A t \in Threads :
    th[t].pc = "lookup" /\ priv[th[t].b] # None =>
      dma_buf[priv[th[t].b]] \in {None, th[t].b}

\* drm_vma_node_allow(): "You must remove all open-files the same number of
\* times as you added them": a file may map an object only while it has a
\* handle, or a call is creating or deleting one.
AllowedBacked ==
  \A o \in Objects, f \in Files :
    allowed[o][f] > 0 =>
      \/ \E h \in Handles : table[f][h] = o
      \/ \E t \in Threads : th[t].f = f /\ o \in {th[t].o, th[t].v}

\* A handle a call returned can be mapped: with no call on the file under way, the
\* file is on the permission list of the object at least as often as it has handles
\* of it, although handles are published before drm_vma_node_allow() and closed by
\* other threads meanwhile.  (A failing drm_vma_node_allow() revokes what another
\* handle was granted.)
HandlesMappable ==
  \A o \in Objects, f \in Files :
    "allow" \notin world.fail /\ (\A t \in Threads : th[t].pc # "idle" => th[t].f # f) =>
      allowed[o][f] >= Cardinality({h \in Handles : table[f][h] = o})

\* No thread waits for the prime.lock it holds itself.
NoSelfDeadlock ==
  \A t \in Threads : th[t].pc = "prime" => prime_lock[th[t].f] # t
==============================================================================

------------------------------ MODULE TtmObject ------------------------------
(***************************************************************************)
(* Base objects and reference objects of ttm/ttm_object.c, the handles of  *)
(* vmwgfx: creation, the lock-free lookups, references taken and dropped   *)
(* by several threads of several files, dma-bufs exported from an object   *)
(* and, from vmwgfx/vmwgfx_resource.c, the references that mark a buffer   *)
(* as being written by the CPU.                                            *)
(*                                                                         *)
(* A step is one critical section of tfile->lock, tdev->object_lock or     *)
(* prime->mutex, one lookup in a hash table or one reference count         *)
(* operation.  Memory of dead objects is freed by RCU, so that a thread    *)
(* that found one may still look at its count.                             *)
(***************************************************************************)
EXTENDS Naturals, FiniteSets

CONSTANTS
  Threads, Files, Bases, Bufs,   \* Bufs: the dma-bufs
  Worlds,                        \* configurations, one fixed in the initial state
  MaxRef,                        \* bound on ref->kref and on the file descriptors
  None

VARIABLES
  world,        \* ops: the calls made; fail: the allocations that may fail;
                \* shareable: the objects created with that flag; threads,
                \* files, bases: those in use
  open,         \* files that are open
  tfile_ref,    \* tfile->refcount
  creator,      \* base->tfile
  life,         \* of a base object: none, live (in object_hash) or freed
  base_ref,     \* base->refcount
  ref,          \* kref of the reference object in tfile->ref_hash, 0 if none
  cpu_writers,  \* bo->cpu_writers of the buffer
  dma_buf,      \* prime->dma_buf
  f_count,      \* file count of a dma-buf: its descriptors and users
  priv,         \* dma_buf->priv
  th            \* what each thread is doing

counts == <<tfile_ref, base_ref, ref>>
vars == <<world, open, tfile_ref, creator, life, base_ref, ref, cpu_writers,
          dma_buf, f_count, priv, th>>

RefTypes == {"usage", "synccpu"}

\* rt: the type of the reference object the call adds or drops; found: the
\* lookup has found a reference object that is still in the hash table;
\* err: an error is to be returned; d: the dma-buf.
Idle == [op |-> "none", pc |-> "idle", f |-> None, b |-> None, d |-> None,
         rt |-> "usage", found |-> FALSE, err |-> FALSE]

Places == {"idle", "find", "get", "insert", "added", "grab", "unref", "release_base",
           "ref_release", "export", "fd", "put", "file_release", "lookup_get"}

TypeOK ==
  /\ world \in Worlds
  /\ open \subseteq Files
  /\ tfile_ref \in [Files -> Nat]
  /\ creator \in [Bases -> Files \cup {None}]
  /\ life \in [Bases -> {"none", "live", "freed"}]
  /\ base_ref \in [Bases -> Nat]
  /\ ref \in [Files -> [Bases -> [RefTypes -> 0..MaxRef]]]
  /\ cpu_writers \in [Bases -> Nat]
  /\ dma_buf \in [Bases -> Bufs \cup {None}]
  /\ f_count \in [Bufs -> 0..MaxRef + Cardinality(Threads)]
  /\ priv \in [Bufs -> Bases \cup {None}]
  /\ th \in [Threads ->
       [op : world.ops \cup {"none"}, pc : Places, f : Files \cup {None},
        b : Bases \cup {None}, d : Bufs \cup {None}, rt : RefTypes,
        found : BOOLEAN, err : BOOLEAN]]

Init ==
  /\ world \in Worlds
  /\ open = world.files
  /\ tfile_ref = [f \in Files |-> IF f \in world.files THEN 1 ELSE 0]
  /\ creator = [b \in Bases |-> None]
  /\ life = [b \in Bases |-> "none"]
  /\ base_ref = [b \in Bases |-> 0]
  /\ ref = [f \in Files |-> [b \in Bases |-> [rt \in RefTypes |-> 0]]]
  /\ cpu_writers = [b \in Bases |-> 0]
  /\ dma_buf = [b \in Bases |-> None]
  /\ f_count = [d \in Bufs |-> 0]
  /\ priv = [d \in Bufs |-> None]
  /\ th = [t \in Threads |-> Idle]

------------------------------------------------------------------------------
(* Helpers. *)

Set(t, local) == th' = [th EXCEPT ![t] = local]
Goto(t, place) == Set(t, [th[t] EXCEPT !.pc = place])
Done(t) == Set(t, Idle)
Up(c, x) == [c EXCEPT ![x] = @ + 1]
Down(c, x) == [c EXCEPT ![x] = @ - 1]

\* A call on a file that is open and not being closed.
Call(t, op, f, b) ==
  /\ th[t].pc = "idle" /\ t \in world.threads
  /\ op \in world.ops
  /\ f \in open /\ b \in world.bases

\* The release of a reference object takes it out of the hash table; whoever has
\* found it there before sees its count at zero.
Stale(t, l, f, b, rt) ==
  [u \in Threads |->
     IF u = t THEN l
     ELSE IF th[u].pc = "get" /\ th[u].f = f /\ th[u].b = b /\ th[u].rt = rt
          THEN [th[u] EXCEPT !.found = FALSE] ELSE th[u]]

\* Where ttm_ref_object_add() returns to.
AfterAdd(t, err) ==
  Set(t, [th[t] EXCEPT !.pc = CASE th[t].op = "from_fd" -> "put"
                                [] th[t].op = "create" /\ err -> "added"
                                [] th[t].op = "synccpu" -> "added"
                                [] OTHER -> "unref",
                       !.found = FALSE, !.err = err])

------------------------------------------------------------------------------
(* Creation and lookup. *)

\* ttm_base_object_init() up to the reference object.  When the table of names is
\* full the caller frees the object; nobody drops the reference on the file.
BaseInit(t, f, b) ==
  /\ Call(t, "create", f, b)
  /\ life[b] = "none"
  /\ creator' = [creator EXCEPT ![b] = f]
  /\ tfile_ref' = Up(tfile_ref, f)
  /\ \/ /\ life' = [life EXCEPT ![b] = "live"]
        /\ base_ref' = [base_ref EXCEPT ![b] = 1]
        /\ Set(t, [Idle EXCEPT !.op = "create", !.pc = "find", !.f = f, !.b = b])
     \/ /\ "hash" \in world.fail
        /\ life' = [life EXCEPT ![b] = "freed"]
        /\ UNCHANGED <<base_ref, th>>
  /\ UNCHANGED <<world, open, ref, cpu_writers, dma_buf, f_count, priv>>

\* The call failed: out_err1 takes the object out of the table and the caller
\* frees it, whoever has found it meanwhile.
InitFailed(t) ==
  LET b == th[t].b IN
  /\ th[t].pc = "added" /\ th[t].op = "create"
  /\ life' = [life EXCEPT ![b] = "freed"]
  /\ base_ref' = Down(base_ref, b)
  /\ Done(t)
  /\ UNCHANGED <<world, open, tfile_ref, creator, ref, cpu_writers, dma_buf, f_count, priv>>

\* ttm_base_object_lookup(): the reference object is found first, the count of its
\* base object is tried afterwards.  Any call that works on a handle starts so.
Lookup(t, f, b) ==
  /\ \E op \in {"use", "to_fd", "synccpu"} :
       /\ Call(t, op, f, b)
       /\ ref[f][b]["usage"] > 0
       /\ Set(t, [Idle EXCEPT !.op = op, !.pc = "lookup_get", !.f = f, !.b = b])
  /\ UNCHANGED <<world, open, counts, creator, life, cpu_writers, dma_buf, f_count, priv>>

\* ttm_base_object_lookup_for_ref() in the object_hash of the device.
LookupForRef(t, f, b) ==
  /\ Call(t, "reference", f, b)
  /\ life[b] = "live"
  /\ Set(t, [Idle EXCEPT !.op = "reference", !.pc = "lookup_get", !.f = f, !.b = b])
  /\ UNCHANGED <<world, open, counts, creator, life, cpu_writers, dma_buf, f_count, priv>>

\* Faulty variant of LookupGet: kref_get() of whatever was found.
LookupGetAlways(t) ==
  LET b == th[t].b IN
  /\ th[t].pc = "lookup_get"
  /\ base_ref' = Up(base_ref, b)
  /\ Goto(t, CASE th[t].op = "use" -> "unref" [] th[t].op = "to_fd" -> "export"
               [] th[t].op = "synccpu" -> "unref" [] OTHER -> "find")
  /\ UNCHANGED <<world, open, tfile_ref, ref, creator, life, cpu_writers, dma_buf,
                 f_count, priv>>

\* kref_get_unless_zero() of the base object.  vmw_user_dmabuf_lookup(), which
\* vmw_user_dmabuf_synccpu_ioctl() calls, exchanges the reference for one on the
\* buffer.
LookupGet(t) ==
  LET b == th[t].b IN
  /\ th[t].pc = "lookup_get"
  /\ \/ /\ base_ref[b] > 0
        /\ base_ref' = Up(base_ref, b)
        /\ Goto(t, CASE th[t].op = "use" -> "unref" [] th[t].op = "to_fd" -> "export"
                     [] th[t].op = "synccpu" -> "unref" [] OTHER -> "find")
     \/ /\ base_ref[b] = 0
        /\ Done(t)
        /\ UNCHANGED base_ref
  /\ UNCHANGED <<world, open, tfile_ref, ref, creator, life, cpu_writers, dma_buf,
                 f_count, priv>>

------------------------------------------------------------------------------
(* ttm_ref_object_add() *)

\* Faulty variant of MayRefer: any file may refer to any object.
MayReferAlways(f, b) == TRUE

MayRefer(f, b) == creator[b] = f \/ b \in world.shareable

\* The check of the caller, and the search for an existing reference object.
Find(t) ==
  LET l == th[t] IN
  /\ l.pc = "find"
  /\ IF ~MayRefer(l.f, l.b) THEN AfterAdd(t, TRUE)
     ELSE Set(t, [l EXCEPT !.pc = IF ref[l.f][l.b][l.rt] > 0 THEN "get" ELSE "insert",
                           !.found = ref[l.f][l.b][l.rt] > 0])
  /\ UNCHANGED <<world, open, counts, creator, life, cpu_writers, dma_buf, f_count, priv>>

\* kref_get_unless_zero() of the reference object found.  `existed' is true.
RefGet(t) ==
  LET l == th[t] IN
  /\ l.pc = "get"
  /\ IF l.found
     THEN /\ ref[l.f][l.b][l.rt] < MaxRef
          /\ ref' = [ref EXCEPT ![l.f][l.b][l.rt] = @ + 1]
          /\ AfterAdd(t, l.op = "synccpu")
     ELSE Goto(t, "insert") /\ UNCHANGED ref
  /\ UNCHANGED <<world, open, tfile_ref, base_ref, creator, life, cpu_writers, dma_buf,
                 f_count, priv>>

\* A new reference object, unless memory is short or another thread was faster.
Insert(t) ==
  LET l == th[t] IN
  /\ l.pc = "insert"
  /\ \/ /\ ref[l.f][l.b][l.rt] = 0
        /\ ref' = [ref EXCEPT ![l.f][l.b][l.rt] = 1]
        /\ base_ref' = Up(base_ref, l.b)
        /\ AfterAdd(t, FALSE)
     \/ /\ ref[l.f][l.b][l.rt] > 0
        /\ Goto(t, "find")
        /\ UNCHANGED <<ref, base_ref>>
     \/ /\ "ref" \in world.fail
        /\ AfterAdd(t, TRUE)
        /\ UNCHANGED <<ref, base_ref>>
  /\ UNCHANGED <<world, open, tfile_ref, creator, life, cpu_writers, dma_buf, f_count, priv>>

------------------------------------------------------------------------------
(* Dropping references. *)

\* What follows once a reference on the base object has been given back.
AfterUnref(t) ==
  IF th[t].op = "synccpu" /\ th[t].rt = "usage" THEN Goto(t, "grab")
  ELSE IF th[t].op = "close" THEN Goto(t, "file_release")
  ELSE Done(t)

\* ttm_base_object_unref()
BaseUnref(t) ==
  LET b == th[t].b IN
  /\ th[t].pc = "unref"
  /\ base_ref' = Down(base_ref, b)
  /\ IF base_ref[b] = 1 THEN Goto(t, "release_base") ELSE AfterUnref(t)
  /\ UNCHANGED <<world, open, tfile_ref, ref, creator, life, cpu_writers, dma_buf,
                 f_count, priv>>

\* Faulty variant of ReleaseBase: the reference on the file is kept.
ReleaseBaseKeepsFile(t) ==
  /\ th[t].pc = "release_base"
  /\ life' = [life EXCEPT ![th[t].b] = "freed"]
  /\ AfterUnref(t)
  /\ UNCHANGED <<world, open, counts, creator, cpu_writers, dma_buf, f_count, priv>>

\* ttm_release_base(): the object leaves the table of the device and gives up its
\* reference on the file of its creator; refcount_release() follows.
ReleaseBase(t) ==
  LET b == th[t].b IN
  /\ th[t].pc = "release_base"
  /\ life' = [life EXCEPT ![b] = "freed"]
  /\ tfile_ref' = Down(tfile_ref, creator[b])
  /\ AfterUnref(t)
  /\ UNCHANGED <<world, open, base_ref, ref, creator, cpu_writers, dma_buf, f_count, priv>>

\* Faulty variant of RefUnref: the reference object is not looked up.
RefUnrefMissing(t, f, b) ==
  \E rt \in RefTypes :
    /\ Call(t, IF rt = "usage" THEN "unref" ELSE "synccpu", f, b)
    /\ ref' = [ref EXCEPT ![f][b][rt] = @ - 1]
    /\ th' = Stale(t, [Idle EXCEPT !.pc = "ref_release", !.f = f, !.b = b, !.rt = rt],
                   f, b, rt)
    /\ UNCHANGED <<world, open, tfile_ref, base_ref, creator, life, cpu_writers,
                   dma_buf, f_count, priv>>

\* ttm_ref_object_base_unref(): under tfile->lock the last reference takes the
\* reference object out of the hash table.
RefUnref(t, f, b) ==
  \E rt \in RefTypes :
    /\ Call(t, IF rt = "usage" THEN "unref" ELSE "synccpu", f, b)
    /\ ref[f][b][rt] > 0
    /\ ref' = [ref EXCEPT ![f][b][rt] = @ - 1]
    /\ IF ref[f][b][rt] > 1 THEN UNCHANGED th
       ELSE th' = Stale(t, [Idle EXCEPT !.pc = "ref_release", !.f = f, !.b = b,
                                        !.rt = rt], f, b, rt)
    /\ UNCHANGED <<world, open, tfile_ref, base_ref, creator, life, cpu_writers,
                   dma_buf, f_count, priv>>

\* The rest of ttm_ref_object_release(), outside the lock: ref_obj_release() of the
\* driver (vmw_user_dmabuf_ref_obj_release()), then the base object's reference.
RefRelease(t) ==
  LET l == th[t] IN
  /\ l.pc = "ref_release"
  /\ cpu_writers' = IF l.rt = "synccpu" THEN Down(cpu_writers, l.b) ELSE cpu_writers
  /\ Goto(t, "unref")
  /\ UNCHANGED <<world, open, counts, creator, life, dma_buf, f_count, priv>>

\* The last close of a file calls ttm_object_file_release(); calls on the file
\* have returned.
Close(t, f) ==
  /\ th[t].pc = "idle" /\ t \in world.threads
  /\ "close" \in world.ops /\ f \in open
  /\ \A u \in Threads : th[u].f # f
  /\ open' = open \ {f}
  /\ Set(t, [Idle EXCEPT !.op = "close", !.pc = "file_release", !.f = f])
  /\ UNCHANGED <<world, counts, creator, life, cpu_writers, dma_buf, f_count, priv>>

\* Faulty variant of FileRelease: a reference object counted twice survives.
FileReleaseOnce(t) ==
  LET f == th[t].f
      left == {p \in Bases \X RefTypes : ref[f][p[1]][p[2]] = 1}
  IN
  /\ th[t].pc = "file_release"
  /\ \/ \E p \in left :
          /\ ref' = [ref EXCEPT ![f][p[1]][p[2]] = 0]
          /\ Set(t, [th[t] EXCEPT !.pc = "ref_release", !.b = p[1], !.rt = p[2]])
          /\ UNCHANGED tfile_ref
     \/ /\ left = {}
        /\ tfile_ref' = Down(tfile_ref, f)
        /\ Done(t)
        /\ UNCHANGED ref
  /\ UNCHANGED <<world, open, base_ref, creator, life, cpu_writers, dma_buf, f_count, priv>>

\* One round of its loop: the first of the remaining reference objects goes,
\* whatever its count; at the end the file's own reference.
FileRelease(t) ==
  LET f == th[t].f
      left == {p \in Bases \X RefTypes : ref[f][p[1]][p[2]] > 0}
  IN
  /\ th[t].pc = "file_release"
  /\ \/ \E p \in left :
          /\ ref' = [ref EXCEPT ![f][p[1]][p[2]] = 0]
          /\ Set(t, [th[t] EXCEPT !.pc = "ref_release", !.b = p[1], !.rt = p[2]])
          /\ UNCHANGED tfile_ref
     \/ /\ left = {}
        /\ tfile_ref' = Down(tfile_ref, f)
        /\ Done(t)
        /\ UNCHANGED ref
  /\ UNCHANGED <<world, open, base_ref, creator, life, cpu_writers, dma_buf, f_count, priv>>

------------------------------------------------------------------------------
(* CPU access: vmw_user_dmabuf_synccpu_grab(). *)

\* ttm_bo_synccpu_write_grab(), which TtmExecbuf models, succeeds or fails.
Grab(t) ==
  LET b == th[t].b IN
  /\ th[t].pc = "grab"
  /\ \/ /\ cpu_writers' = Up(cpu_writers, b)
        /\ Set(t, [th[t] EXCEPT !.pc = "find", !.rt = "synccpu"])
     \/ /\ Done(t)
        /\ UNCHANGED cpu_writers
  /\ UNCHANGED <<world, open, counts, creator, life, dma_buf, f_count, priv>>

\* Faulty variant of Grabbed: the grab is kept when the file had one before.
GrabbedTwice(t) ==
  /\ th[t].pc = "added" /\ th[t].op = "synccpu"
  /\ Done(t)
  /\ UNCHANGED <<world, open, counts, creator, life, cpu_writers, dma_buf, f_count, priv>>

\* The grab is given back when its reference object existed or could not be made.
Grabbed(t) ==
  /\ th[t].pc = "added" /\ th[t].op = "synccpu"
  /\ cpu_writers' = IF th[t].err THEN Down(cpu_writers, th[t].b) ELSE cpu_writers
  /\ Done(t)
  /\ UNCHANGED <<world, open, counts, creator, life, dma_buf, f_count, priv>>

------------------------------------------------------------------------------
(* dma-bufs. *)

\* ttm_prime_handle_to_fd() under prime->mutex.  A dma-buf whose last user is gone
\* is replaced by a new one, which takes over the call's reference on the object.
\* Either the object may not be shared, the dma-buf is found, made, or an
\* allocation fails.
Export(t) ==
  LET b == th[t].b
      alive == dma_buf[b] # None /\ f_count[dma_buf[b]] > 0
  IN
  /\ th[t].pc = "export"
  /\ \/ /\ b \notin world.shareable \/ (~alive /\ "export" \in world.fail)
        /\ Goto(t, "unref")
        /\ UNCHANGED <<dma_buf, f_count, priv>>
     \/ /\ b \in world.shareable /\ alive
        /\ f_count[dma_buf[b]] < MaxRef
        /\ f_count' = Up(f_count, dma_buf[b])
        /\ Set(t, [th[t] EXCEPT !.pc = "fd", !.d = dma_buf[b]])
        /\ UNCHANGED <<dma_buf, priv>>
     \/ /\ b \in world.shareable /\ ~alive
        /\ \E d \in {e \in Bufs : priv[e] = None} :
             /\ f_count' = [f_count EXCEPT ![d] = 1]
             /\ priv' = [priv EXCEPT ![d] = b]
             /\ dma_buf' = [dma_buf EXCEPT ![b] = d]
             /\ Set(t, [Idle EXCEPT !.op = "to_fd", !.pc = "fd", !.f = th[t].f, !.d = d])
  /\ UNCHANGED <<world, open, counts, creator, life, cpu_writers>>

\* dma_buf_fd(), after which the descriptor is the user's, or dma_buf_put(); and
\* the reference on the object, if the dma-buf did not take it over.
Fd(t) ==
  LET l == th[t] IN
  /\ l.pc = "fd"
  /\ \/ UNCHANGED f_count
     \/ "fd" \in world.fail /\ f_count' = Down(f_count, l.d)
  /\ IF l.b = None THEN Done(t) ELSE Set(t, [l EXCEPT !.pc = "unref", !.d = None])
  /\ UNCHANGED <<world, open, counts, creator, life, cpu_writers, dma_buf, priv>>

\* ttm_prime_fd_to_handle(): dma_buf_get(), ttm_ref_object_add(), dma_buf_put().
FdToHandle(t, f, d) ==
  /\ f_count[d] \in 1..MaxRef
  /\ Call(t, "from_fd", f, priv[d])
  /\ f_count' = Up(f_count, d)
  /\ Set(t, [Idle EXCEPT !.op = "from_fd", !.pc = "find", !.f = f, !.b = priv[d], !.d = d])
  /\ UNCHANGED <<world, open, counts, creator, life, cpu_writers, dma_buf, priv>>

\* dma_buf_put(), by that call or by a user who closes a descriptor.
DmaBufPut(t, d) ==
  /\ f_count[d] > 0
  /\ \/ th[t].pc = "put" /\ d = th[t].d
     \/ /\ th[t].pc = "idle" /\ t \in world.threads
        /\ f_count[d] > Cardinality({u \in Threads : th[u].d = d})
  /\ f_count' = Down(f_count, d)
  /\ Done(t)
  /\ UNCHANGED <<world, open, counts, creator, life, cpu_writers, dma_buf, priv>>

\* Faulty variant of DmaBufRelease: the pointer of the object stays.
DmaBufReleaseKeeps(t, d) ==
  /\ th[t].pc = "idle" /\ t \in world.threads
  /\ f_count[d] = 0 /\ priv[d] # None
  /\ priv' = [priv EXCEPT ![d] = None]
  /\ Set(t, [Idle EXCEPT !.pc = "unref", !.b = priv[d]])
  /\ UNCHANGED <<world, open, counts, creator, life, cpu_writers, dma_buf, f_count>>

\* ttm_prime_dmabuf_release(), which fput() leaves to a thread on its way out of
\* the kernel: a newer dma-buf of the object stays.
DmaBufRelease(t, d) ==
  LET b == priv[d] IN
  /\ th[t].pc = "idle" /\ t \in world.threads
  /\ f_count[d] = 0 /\ b # None
  /\ dma_buf' = IF dma_buf[b] = d THEN [dma_buf EXCEPT ![b] = None] ELSE dma_buf
  /\ priv' = [priv EXCEPT ![d] = None]
  /\ Set(t, [Idle EXCEPT !.pc = "unref", !.b = b])
  /\ UNCHANGED <<world, open, counts, creator, life, cpu_writers, f_count>>

------------------------------------------------------------------------------

\* What a thread does once it is inside a call.
Inside(t) ==
  \/ InitFailed(t) \/ LookupGet(t) \/ Find(t) \/ RefGet(t) \/ Insert(t)
  \/ BaseUnref(t) \/ ReleaseBase(t) \/ RefRelease(t) \/ FileRelease(t)
  \/ Grab(t) \/ Grabbed(t) \/ Export(t) \/ Fd(t)
  \/ th[t].pc = "put" /\ DmaBufPut(t, th[t].d)

Enter(t, f, b) ==
  \/ BaseInit(t, f, b) \/ Lookup(t, f, b) \/ LookupForRef(t, f, b) \/ RefUnref(t, f, b)

Next ==
  \E t \in Threads :
    \/ Inside(t)
    \/ \E f \in open, b \in world.bases : Enter(t, f, b)
    \/ \E f \in open : Close(t, f) \/ \E d \in Bufs : FdToHandle(t, f, d)
    \/ \E d \in Bufs : DmaBufRelease(t, d) \/ (th[t].pc = "idle" /\ DmaBufPut(t, d))

Spec == Init /\ [][Next]_vars

\* Calls run to their end, and deferred releases of dma-bufs are carried out.
Fairness ==
  /\ \A t \in Threads : WF_vars(Inside(t))
  /\ \A d \in Bufs : SF_vars(\E t \in Threads : DmaBufRelease(t, d))

FairSpec == Spec /\ Fairness

------------------------------------------------------------------------------
(* Properties. *)

\* Two calls break the counting, see README.md: ttm_base_object_init() frees an
\* object that another file has found, when it cannot make the first reference
\* object; and a synccpu grab holds the buffer but not its base object, whose
\* handle another thread may close.
Counted ==
  /\ ~({"ref", "hash"} \cap world.fail # {} /\ "reference" \in world.ops)
  /\ ~({"synccpu", "unref"} \subseteq world.ops)

Holders(b) ==
  Cardinality({p \in Files \X RefTypes : ref[p[1]][b][p[2]] > 0})
    + Cardinality({d \in Bufs : priv[d] = b})
    + Cardinality({t \in Threads : th[t].b = b
                      /\ \/ th[t].pc \in {"unref", "ref_release", "export", "fd"}
                         \/ /\ th[t].pc \in {"find", "get", "insert", "added"}
                            /\ th[t].op \in {"create", "reference"}})

\* The count of a base object is the number of its reference objects, dma-bufs and
\* calls at work on it; so it is freed exactly when the last of them is gone, and
\* what a reference object or a dma-buf points at is never freed, through lookups
\* without a lock, calls that race to make the same reference object, and calls
\* that fail half-way.
BaseRefExact ==
  Counted =>
    \A b \in Bases :
      /\ base_ref[b] = Holders(b)
      /\ life[b] = "freed" => base_ref[b] = 0
      /\ life[b] = "live" /\ base_ref[b] = 0 =>
           \E t \in Threads : th[t].pc = "release_base" /\ th[t].b = b

\* prime->dma_buf never points at a dma-buf that has been freed or that belongs to
\* another object, so that get_dma_buf_unless_doomed() is safe; nor, as a dma-buf
\* holds the object, is an object released that points at one, which is the BUG_ON()
\* of ttm_prime_refcount_release().  A second dma-buf may be made while the first is
\* being released.
DmaBufValid == \A b \in Bases : dma_buf[b] # None => priv[dma_buf[b]] = b

\* The structure of a file outlives the file while objects it created remain.
TfileExact ==
  {"hash", "ref"} \cap world.fail = {} /\ Counted =>
    \A f \in Files :
      tfile_ref[f] = Cardinality({b \in Bases : creator[b] = f /\ life[b] # "freed"})
                       + Cardinality({f} \cap open)
                       + Cardinality({t \in Threads : th[t].op = "close" /\ th[t].f = f})

\* An object that is not shareable is referenced by the file of its creator only,
\* by whatever way its name or its dma-buf came to another file.
NotShared ==
  \A f \in Files, b \in Bases, rt \in RefTypes :
    ref[f][b][rt] > 0 => creator[b] = f \/ b \in world.shareable

\* bo->cpu_writers counts the files that have grabbed the buffer, once each, and
\* the calls that are about to grab or to let go.
CpuWritersExact ==
  \A b \in Bases :
    cpu_writers[b] =
      Cardinality({f \in Files : ref[f][b]["synccpu"] > 0})
        + Cardinality({t \in Threads : th[t].b = b /\ th[t].rt = "synccpu"
                        /\ \/ th[t].pc \in {"find", "get", "insert", "ref_release"}
                           \/ th[t].pc = "added" /\ th[t].err})

\* No object is left of files that are closed and dma-bufs that are gone.
NoneLeft ==
  Counted /\ open = {} /\ (\A d \in Bufs : f_count[d] = 0) =>
    \A b \in Bases : life[b] # "live"

\* When all files are closed and the dma-bufs are gone every object is freed
\* (ttm_object_file_release()).
AllFreed == []<>NoneLeft

==============================================================================

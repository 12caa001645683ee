-------------------------------- MODULE TtmBo --------------------------------
(***************************************************************************)
(* Life of the buffer objects of ttm/ttm_bo.c: validation with eviction,   *)
(* page faults, swap-out, the last unreference and the delayed destruction *)
(* of objects that are still reserved or that the GPU still uses.          *)
(*                                                                         *)
(* A step is one critical section of glob->lru_lock, one operation on the  *)
(* reservation (a ww_mutex) or one reference count operation.  The device  *)
(* has one managed memory type, "dev", beside system memory.  Following    *)
(* the ast, cirrus, mgag200, qxl and vmwgfx drivers evict_flags() chooses  *)
(* system memory and moves are copies by the CPU.                          *)
(***************************************************************************)
EXTENDS Naturals, Sequences, FiniteSets, FiniteSetsExt

CONSTANTS
  Clients,    \* threads that create, validate, fault and drop objects
  Worker,     \* the thread that runs bdev->wq
  Worlds,     \* configurations, one of which is fixed in the initial state
  NoBo

Threads == Clients \cup {Worker}

VARIABLES
  world,        \* the configuration: clients, bos, ops, places (memory type
                \* and NO_EVICT flag asked for), fixed (whether "dev" is TTM_MEMTYPE_FLAG_FIXED)
                \* and room (how many objects fit in it)
  users,        \* bo->kref: the clients that hold a reference
  life,         \* new, live or freed
  list_kref,    \* bo->list_kref
  resv,         \* owner of bo->resv->lock
  lru,          \* man["dev"].lru
  sys_lru,      \* man[0].lru; nobody walks it, so it has no order
  swap_lru,     \* glob->swap_lru
  ddestroy,     \* bdev->ddestroy
  mem,          \* bo->mem.mem_type
  no_evict,     \* TTM_PL_FLAG_NO_EVICT in bo->mem.placement
  ttm,          \* bo->ttm: none, empty (tt_unpopulated), pages or swapped
  busy,         \* an unsignalled fence is attached
  mapped,       \* what the user mappings of the object point at
  nodes,        \* nodes allocated from the range manager of "dev"
  wq,           \* bdev->wq is pending
  pc,        \* where each thread is
  loc        \* its local variables

lists == <<lru, sys_lru, swap_lru>>
placement == <<mem, no_evict, ttm, nodes>>
vars == <<world, users, life, list_kref, resv, lists, ddestroy, placement,
             busy, mapped, wq, pc, loc>>

Bos == world.bos
AllBos == UNION {w.bos : w \in Worlds}
NoThread == "nobody"

\* bo: the object a client works on; vic: the object being evicted, swapped or
\* cleaned up; next: nentry of the worker; put: put_count; want, pin: the
\* placement asked for; ret: an error is to be returned; op: the entry point.
Idle == [bo |-> NoBo, vic |-> NoBo, next |-> NoBo, put |-> 0, want |-> "sys",
         pin |-> FALSE, ret |-> FALSE, op |-> "none"]

TypeOK ==
  /\ world \in Worlds
  /\ users \in [Bos -> SUBSET Clients]
  /\ life \in [Bos -> {"new", "live", "freed"}]
  /\ list_kref \in [Bos -> Nat]
  /\ resv \in [Bos -> Threads \cup {NoThread}]
  /\ lru \in Seq(Bos) /\ swap_lru \in Seq(Bos) /\ ddestroy \in Seq(Bos)
  /\ sys_lru \subseteq Bos
  /\ mem \in [Bos -> {"sys", "dev"}]
  /\ no_evict \in [Bos -> BOOLEAN]
  /\ ttm \in [Bos -> {"none", "empty", "pages", "swapped"}]
  /\ busy \in [Bos -> BOOLEAN]
  /\ mapped \in [Bos -> {"none", "node", "pages"}]
  /\ nodes \in Nat
  /\ wq \in BOOLEAN
  /\ loc \in [Threads ->
       [bo : Bos \cup {NoBo}, vic : Bos \cup {NoBo}, next : Bos \cup {NoBo},
        put : 0..3, want : {"sys", "dev"}, pin : BOOLEAN, ret : BOOLEAN,
        op : {"none", "create", "validate", "fault", "swapout", "evict_mm",
              "delete"}]]

Init ==
  /\ world \in Worlds
  /\ users = [b \in Bos |-> {}]
  /\ life = [b \in Bos |-> "new"]
  /\ list_kref = [b \in Bos |-> 0]
  /\ resv = [b \in Bos |-> NoThread]
  /\ lru = <<>> /\ sys_lru = {} /\ swap_lru = <<>> /\ ddestroy = <<>>
  /\ mem = [b \in Bos |-> "sys"]
  /\ no_evict = [b \in Bos |-> FALSE]
  /\ ttm = [b \in Bos |-> "none"]
  /\ busy = [b \in Bos |-> FALSE]
  /\ mapped = [b \in Bos |-> "none"]
  /\ nodes = 0
  /\ wq = FALSE
  /\ pc = [t \in Threads |-> "idle"]
  /\ loc = [t \in Threads |-> Idle]

------------------------------------------------------------------------------
(* Lists and reference counts. *)

On(s, b) == \E i \in DOMAIN s : s[i] = b
Without(s, b) == SelectSeq(s, LAMBDA x : x # b)
Count(p) == IF p THEN 1 ELSE 0

OnLru(b) == On(lru, b) \/ b \in sys_lru

\* ttm_bo_del_from_lru() and the number of references it leaves to be put.
PutCount(b) == Count(OnLru(b)) + Count(On(swap_lru, b))
DelFromLru(b) ==
  /\ lru' = Without(lru, b)
  /\ sys_lru' = sys_lru \ {b}
  /\ swap_lru' = Without(swap_lru, b)

\* An object joins the lists of its memory type and, if it has pages, of the
\* swapper; `extra' further references are taken under the lock.
ListAdd(b, extra) ==
  /\ lru' = IF mem[b] = "dev" THEN Append(lru, b) ELSE lru
  /\ sys_lru' = IF mem[b] = "sys" THEN sys_lru \cup {b} ELSE sys_lru
  /\ swap_lru' = IF ttm[b] # "none" THEN Append(swap_lru, b) ELSE swap_lru
  /\ list_kref' = [list_kref EXCEPT ![b] = @ + 1 + Count(ttm[b] # "none") + extra]

\* ttm_bo_add_to_lru()
AddToLru(b, extra) ==
  IF no_evict[b]
  THEN /\ UNCHANGED lists
       /\ list_kref' = [list_kref EXCEPT ![b] = @ + extra]
  ELSE ListAdd(b, extra)

\* kref_put(&bo->list_kref, ttm_bo_release_list).
ListPut(b, n) ==
  /\ list_kref' = [list_kref EXCEPT ![b] = @ - n]
  /\ life' = IF list_kref'[b] = 0 THEN [life EXCEPT ![b] = "freed"] ELSE life

Lock(t, b) == resv[b] = NoThread /\ resv' = [resv EXCEPT ![b] = t]
Unlock(b) == resv' = [resv EXCEPT ![b] = NoThread]

Goto(t, place) == pc' = [pc EXCEPT ![t] = place]
GotoWith(t, place, l) ==
  /\ pc' = [pc EXCEPT ![t] = place]
  /\ loc' = [loc EXCEPT ![t] = l]

\* The first object of a list that __ttm_bo_reserve(no_wait) can reserve.
FirstFree(s) ==
  LET I == {i \in DOMAIN s : resv[s[i]] = NoThread}
  IN IF I = {} THEN NoBo ELSE s[CHOOSE i \in I : \A j \in I : i <= j]

------------------------------------------------------------------------------
(* Moves.  Each leaves mem, ttm, no_evict, nodes and mapped as the code does. *)

\* ttm_bo_unmap_virtual_locked() in ttm_bo_handle_move_mem(): called when either
\* side is PCI memory.  Pages keep their user mappings when they are only bound.
Unmap(b) == mapped' = IF world.fixed THEN [mapped EXCEPT ![b] = "none"] ELSE mapped

\* ttm_bo_handle_move_mem() from system memory into an allocated node.
MoveToDev(b, pin) ==
  /\ Unmap(b)
  /\ mem' = [mem EXCEPT ![b] = "dev"]
  /\ no_evict' = [no_evict EXCEPT ![b] = pin]
  /\ ttm' = [ttm EXCEPT ![b] = IF world.fixed THEN "none" ELSE "pages"]
  /\ UNCHANGED nodes

\* Faulty variant of MoveToDevFails: callee and caller give the node back.
MoveToDevFailsTwice(b) ==
  /\ Unmap(b)
  /\ nodes' = nodes - 2
  /\ UNCHANGED <<mem, no_evict, ttm>>

\* The same call failing: ttm_tt_bind(), the copy or the swap-in it needs.  The
\* caller gives the node back.
MoveToDevFails(b) ==
  /\ Unmap(b)
  /\ nodes' = nodes - 1
  /\ UNCHANGED <<mem, no_evict, ttm>>

\* Faulty variant of MoveToSys: the old node stays allocated.
MoveToSysKeepsNode(b, pin) ==
  /\ Unmap(b)
  /\ mem' = [mem EXCEPT ![b] = "sys"]
  /\ no_evict' = [no_evict EXCEPT ![b] = pin]
  /\ ttm' = [ttm EXCEPT ![b] = "pages"]
  /\ UNCHANGED nodes

\* Faulty variant of MoveToSys: user mappings survive the move.
MoveToSysMapped(b, pin) ==
  /\ UNCHANGED mapped
  /\ mem' = [mem EXCEPT ![b] = "sys"]
  /\ no_evict' = [no_evict EXCEPT ![b] = pin]
  /\ ttm' = [ttm EXCEPT ![b] = "pages"]
  /\ nodes' = nodes - 1

\* ttm_bo_handle_move_mem() to system memory: a ttm is created if the object had
\* none, filled by the copy, and the old node is freed.
MoveToSys(b, pin) ==
  /\ Unmap(b)
  /\ mem' = [mem EXCEPT ![b] = "sys"]
  /\ no_evict' = [no_evict EXCEPT ![b] = pin]
  /\ ttm' = [ttm EXCEPT ![b] = "pages"]
  /\ nodes' = nodes - 1

\* Its failure: ttm_bo_add_ttm() or the copy.  The out_err label destroys the
\* new ttm, the object stays where it was.
MoveToSysFails(b) ==
  /\ world.fixed
  /\ Unmap(b)
  /\ UNCHANGED placement

------------------------------------------------------------------------------
(* ttm_bo_cleanup_refs_and_unlock(), with vic reserved or about to be. *)

\* Faulty variant of CleanupTail: the reservation ends before the memory is given up.
CleanupTailUnlocked(t, b, l) ==
  /\ Unlock(b)
  /\ IF On(ddestroy, b)
     THEN /\ DelFromLru(b)
          /\ ddestroy' = Without(ddestroy, b)
          /\ GotoWith(t, "memtype_use", [l EXCEPT !.put = PutCount(b) + 1])
     ELSE /\ GotoWith(t, "put", l)
          /\ UNCHANGED <<lists, ddestroy>>

\* The tail of the function: the object leaves every list, and the memory is
\* given up outside the lock.  `listed' is !list_empty(&bo->ddestroy).
CleanupTail(t, b, l) ==
  IF On(ddestroy, b)
  THEN /\ DelFromLru(b)
       /\ ddestroy' = Without(ddestroy, b)
       /\ resv' = [resv EXCEPT ![b] = t]
       /\ GotoWith(t, "memtype_use", [l EXCEPT !.put = PutCount(b) + 1])
  ELSE /\ Unlock(b)
       /\ GotoWith(t, "put", l)
       /\ UNCHANGED <<lists, ddestroy>>

\* The head, in the critical section that found vic and reserved it.
CleanupHead(t, b, l, no_wait) ==
  \/ /\ ~busy[b]
     /\ CleanupTail(t, b, l)
  \/ /\ busy[b]
     /\ GotoWith(t, IF no_wait THEN "put" ELSE "cleanup_wait",
                 [l EXCEPT !.ret = no_wait])
     /\ UNCHANGED <<resv, lists, ddestroy>>

\* Faulty variant of CleanupWait: a timeout is taken for success.
CleanupWaitIgnored(t) ==
  /\ pc[t] = "cleanup_wait"
  /\ Goto(t, "cleanup_again")
  /\ UNCHANGED <<world, users, life, list_kref, resv, lists, ddestroy, placement,
                 busy, mapped, wq, loc>>

\* reservation_object_wait_timeout_rcu() on an object nobody has reserved: all
\* fences signalled, or a timeout or a signal.
CleanupWait(t) ==
  /\ pc[t] = "cleanup_wait"
  /\ \/ ~busy[loc[t].vic] /\ Goto(t, "cleanup_again") /\ UNCHANGED loc
     \/ busy[loc[t].vic] /\ GotoWith(t, "put", [loc[t] EXCEPT !.ret = TRUE])
  /\ UNCHANGED <<world, users, life, list_kref, resv, lists, ddestroy, placement,
                 busy, mapped, wq>>

\* Faulty variant of CleanupAgain: the reservation is not taken again.
CleanupAgainUnreserved(t) ==
  LET b == loc[t].vic IN
  /\ pc[t] = "cleanup_again"
  /\ DelFromLru(b)
  /\ ddestroy' = Without(ddestroy, b)
  /\ resv' = [resv EXCEPT ![b] = t]
  /\ GotoWith(t, "memtype_use", [loc[t] EXCEPT !.put = PutCount(b) + 1])
  /\ UNCHANGED <<world, users, life, list_kref, placement, busy, mapped, wq>>

\* The lock is taken again.  Somebody else may have reserved the object
\* meanwhile (return 0), or may have cleaned it up.
CleanupAgain(t) ==
  LET b == loc[t].vic IN
  /\ pc[t] = "cleanup_again"
  /\ \/ /\ resv[b] # NoThread
        /\ Goto(t, "put")
        /\ UNCHANGED <<resv, lists, ddestroy, loc>>
     \/ /\ resv[b] = NoThread
        /\ CleanupTail(t, b, loc[t])
  /\ UNCHANGED <<world, users, life, list_kref, placement, busy, mapped, wq>>

\* Faulty variant of MemtypeUse: the pages are not given up.
MemtypeUseKeepsPages(t) ==
  LET b == loc[t].vic IN
  /\ pc[t] = "memtype_use"
  /\ mem' = [mem EXCEPT ![b] = "sys"]
  /\ nodes' = nodes - Count(mem[b] = "dev")
  /\ Unlock(b)
  /\ Goto(t, "sub")
  /\ UNCHANGED <<world, users, life, list_kref, lists, ddestroy, no_evict, busy,
                 mapped, ttm, wq, loc>>

\* ttm_bo_cleanup_memtype_use(): node and ttm are freed, the reservation ends.
MemtypeUse(t) ==
  LET b == loc[t].vic IN
  /\ pc[t] = "memtype_use"
  /\ ttm' = [ttm EXCEPT ![b] = "none"]
  /\ mem' = [mem EXCEPT ![b] = "sys"]
  /\ nodes' = nodes - Count(mem[b] = "dev")
  /\ Unlock(b)
  /\ Goto(t, "sub")
  /\ UNCHANGED <<world, users, life, list_kref, lists, ddestroy, no_evict, busy,
                 mapped, wq, loc>>

\* ttm_bo_list_ref_sub(bo, put_count, true).
ListRefSub(t) ==
  /\ pc[t] = "sub"
  /\ ListPut(loc[t].vic, loc[t].put)
  /\ GotoWith(t, "put", [loc[t] EXCEPT !.put = 0])
  /\ UNCHANGED <<world, users, resv, lists, ddestroy, placement, busy, mapped, wq>>

------------------------------------------------------------------------------
(* Eviction. *)

\* ttm_mem_evict_first(): the first unreserved object of the list is cleaned up
\* if it is queued for destruction, and taken off the lists otherwise.
EvictFirst(t) ==
  LET b == FirstFree(lru)
      l == [loc[t] EXCEPT !.vic = b]
  IN
  /\ pc[t] = "evict"
  /\ \/ /\ b = NoBo
        /\ GotoWith(t, "evicted", [loc[t] EXCEPT !.ret = TRUE])
        /\ UNCHANGED <<list_kref, resv, lists, ddestroy>>
     \/ /\ b # NoBo
        /\ On(ddestroy, b)
        /\ list_kref' = [list_kref EXCEPT ![b] = @ + 1]
        /\ CleanupHead(t, b, l, FALSE)
     \/ /\ b # NoBo
        /\ ~On(ddestroy, b)
        /\ DelFromLru(b)
        /\ resv' = [resv EXCEPT ![b] = t]
        /\ list_kref' = [list_kref EXCEPT ![b] = @ + 1 - PutCount(b)]
        /\ GotoWith(t, "evict_wait", l)
        /\ UNCHANGED ddestroy
  /\ UNCHANGED <<world, users, life, placement, busy, mapped, wq>>

\* Faulty variant of Evict: moves an object the GPU still uses.
EvictNoWait(t) ==
  LET b == loc[t].vic IN
  /\ pc[t] = "evict_wait"
  /\ MoveToSys(b, FALSE)
  /\ Goto(t, "evict_unreserve")
  /\ UNCHANGED <<world, users, life, list_kref, resv, lists, ddestroy, busy, wq, loc>>

\* ttm_bo_evict(): wait for the GPU, then move to system memory; the wait may
\* time out or be interrupted, the move may fail.
Evict(t) ==
  LET b == loc[t].vic IN
  /\ pc[t] = "evict_wait"
  /\ \/ /\ ~busy[b]
        /\ MoveToSys(b, FALSE)
        /\ UNCHANGED loc
     \/ /\ ~busy[b]
        /\ MoveToSysFails(b)
        /\ loc' = [loc EXCEPT ![t].ret = TRUE]
     \/ /\ busy[b]
        /\ loc' = [loc EXCEPT ![t].ret = TRUE]
        /\ UNCHANGED <<placement, mapped>>
  /\ Goto(t, "evict_unreserve")
  /\ UNCHANGED <<world, users, life, list_kref, resv, lists, ddestroy, busy, wq>>

\* ttm_bo_unreserve(bo) at the end of ttm_mem_evict_first().
EvictUnreserve(t) ==
  /\ pc[t] = "evict_unreserve"
  /\ AddToLru(loc[t].vic, 0)
  /\ Unlock(loc[t].vic)
  /\ Goto(t, "put")
  /\ UNCHANGED <<world, users, life, ddestroy, placement, busy, mapped, wq, loc>>

\* ttm_bo_swapout(): like an eviction, from glob->swap_lru.
SwapoutFirst(t) ==
  LET b == FirstFree(swap_lru)
      l == [loc[t] EXCEPT !.vic = b]
  IN
  /\ pc[t] = "swapout"
  /\ \/ /\ b = NoBo
        /\ GotoWith(t, "idle", Idle)
        /\ UNCHANGED <<list_kref, resv, lists, ddestroy>>
     \/ /\ b # NoBo
        /\ On(ddestroy, b)
        /\ list_kref' = [list_kref EXCEPT ![b] = @ + 1]
        /\ CleanupHead(t, b, l, FALSE)
     \/ /\ b # NoBo
        /\ ~On(ddestroy, b)
        /\ DelFromLru(b)
        /\ resv' = [resv EXCEPT ![b] = t]
        /\ list_kref' = [list_kref EXCEPT ![b] = @ + 1 - PutCount(b)]
        /\ GotoWith(t, "swap_wait", l)
        /\ UNCHANGED ddestroy
  /\ UNCHANGED <<world, users, life, placement, busy, mapped, wq>>

\* The rest of ttm_bo_swapout(): wait, move to system memory, zap the mappings,
\* write the pages out, or fail on the way; then __ttm_bo_unreserve(), which
\* leaves a swapped object off the lists.
Swapout(t) ==
  LET b == loc[t].vic IN
  /\ pc[t] = "swap_wait"
  /\ \/ /\ ~busy[b]
        /\ mem' = [mem EXCEPT ![b] = "sys"]
        /\ nodes' = nodes - Count(mem[b] = "dev")
        /\ mapped' = [mapped EXCEPT ![b] = "none"]
        /\ ttm' = [ttm EXCEPT ![b] = "swapped"]
        /\ UNCHANGED no_evict
     \/ /\ ~busy[b]
        /\ mem' = [mem EXCEPT ![b] = "sys"]
        /\ nodes' = nodes - Count(mem[b] = "dev")
        /\ mapped' = [mapped EXCEPT ![b] = "none"]
        /\ UNCHANGED <<no_evict, ttm>>
     \/ /\ busy[b]
        /\ UNCHANGED <<placement, mapped>>
  /\ Unlock(b)
  /\ Goto(t, "put")
  /\ UNCHANGED <<world, users, life, list_kref, lists, ddestroy, busy, wq, loc>>

\* Where a thread goes when it is done with vic.
Resume(t, l) ==
  CASE l.op \in {"create", "validate"} ->
         GotoWith(t, IF l.ret THEN "unreserve" ELSE "space", [l EXCEPT !.vic = NoBo])
    [] l.op = "evict_mm" ->
         IF l.ret THEN GotoWith(t, "idle", Idle)
                  ELSE GotoWith(t, "evict_mm", [l EXCEPT !.vic = NoBo])
    [] l.op = "delete" -> GotoWith(t, "next", [l EXCEPT !.vic = NoBo])
    [] OTHER -> GotoWith(t, "idle", Idle)

\* kref_put(&bo->list_kref, ttm_bo_release_list) of the caller's own reference.
VicPut(t) ==
  /\ pc[t] = "put"
  /\ ListPut(loc[t].vic, 1)
  /\ Resume(t, loc[t])
  /\ UNCHANGED <<world, users, resv, lists, ddestroy, placement, busy, mapped, wq>>

\* ttm_mem_evict_first() found nothing.
NothingEvicted(t) ==
  /\ pc[t] = "evicted"
  /\ Resume(t, loc[t])
  /\ UNCHANGED <<world, users, life, list_kref, resv, lists, ddestroy, placement,
                 busy, mapped, wq>>

\* ttm_bo_force_list_clean(): until the list is empty.
EvictMm(t) ==
  /\ pc[t] = "evict_mm"
  /\ IF lru = <<>> THEN GotoWith(t, "idle", Idle) ELSE Goto(t, "evict") /\ UNCHANGED loc
  /\ UNCHANGED <<world, users, life, list_kref, resv, lists, ddestroy, placement,
                 busy, mapped, wq>>

------------------------------------------------------------------------------
(* Clients. *)

\* ttm_bo_init(): a new object in system memory, reserved by its creator.
Create(t, b) ==
  /\ "create" \in world.ops
  /\ pc[t] = "idle"
  /\ life[b] = "new"
  /\ \A c \in Bos : life[c] = "new" => b <= c
  /\ life' = [life EXCEPT ![b] = "live"]
  /\ users' = [users EXCEPT ![b] = {t}]
  /\ list_kref' = [list_kref EXCEPT ![b] = 1]
  /\ resv' = [resv EXCEPT ![b] = t]
  /\ \E p \in world.places :
       GotoWith(t, "validate",
                [Idle EXCEPT !.bo = b, !.op = "create", !.want = p[1], !.pin = p[2]])
  /\ UNCHANGED <<world, lists, ddestroy, placement, busy, mapped, wq>>

\* ttm_bo_reference(), or ttm_bo_mmap(): ttm_bo_vm_lookup() refuses an object
\* whose count is zero, and driver->verify_access() one that its creator has not
\* given out yet.
Reference(t, b) ==
  /\ "share" \in world.ops
  /\ pc[t] = "idle"
  /\ users[b] # {} /\ t \notin users[b]
  /\ \A u \in Clients : loc[u].op = "create" => loc[u].bo # b
  /\ users' = [users EXCEPT ![b] = @ \cup {t}]
  /\ UNCHANGED <<world, life, list_kref, resv, lists, ddestroy, placement, busy,
                 mapped, wq, pc, loc>>

\* An operation on an object the client holds a reference on, or on none.
Begin(t) ==
  /\ pc[t] = "idle"
  /\ \/ \E b \in Bos, p \in world.places :
          /\ "validate" \in world.ops
          /\ t \in users[b]
          /\ GotoWith(t, "reserve",
               [Idle EXCEPT !.bo = b, !.op = "validate", !.want = p[1], !.pin = p[2]])
     \/ \E b \in Bos :
          /\ "fault" \in world.ops
          /\ t \in users[b]
          /\ GotoWith(t, "reserve", [Idle EXCEPT !.bo = b, !.op = "fault"])
     \/ \E o \in {"swapout", "evict_mm"} \cap world.ops :
          GotoWith(t, o, [Idle EXCEPT !.op = o])
  /\ UNCHANGED <<world, users, life, list_kref, resv, lists, ddestroy, placement,
                 busy, mapped, wq>>

\* ttm_bo_reserve(): sleeping for a validation, a trylock for a fault (which is
\* then retried).
Reserve(t) ==
  LET b == loc[t].bo IN
  /\ pc[t] = "reserve"
  /\ \/ Lock(t, b) /\ Goto(t, "del_lru") /\ UNCHANGED loc
     \/ /\ resv[b] # NoThread
        /\ loc[t].op = "fault"
        /\ GotoWith(t, "idle", Idle)
        /\ UNCHANGED resv
  /\ UNCHANGED <<world, users, life, list_kref, lists, ddestroy, placement, busy,
                 mapped, wq>>

\* ttm_bo_del_sub_from_lru() at the end of ttm_bo_reserve().
DelSubFromLru(t) ==
  LET b == loc[t].bo IN
  /\ pc[t] = "del_lru"
  /\ DelFromLru(b)
  /\ ListPut(b, PutCount(b))
  /\ Goto(t, loc[t].op)
  /\ UNCHANGED <<world, users, resv, ddestroy, placement, busy, mapped, wq, loc>>

\* ttm_bo_vm_fault(): io memory is mapped as it is, pages are populated (swapped
\* in if need be) first, which may fail.
Fault(t) ==
  LET b == loc[t].bo
      io == mem[b] = "dev" /\ world.fixed
  IN
  /\ pc[t] = "fault"
  /\ \/ /\ mapped' = [mapped EXCEPT ![b] = IF io THEN "node" ELSE "pages"]
        /\ ttm' = IF io THEN ttm ELSE [ttm EXCEPT ![b] = "pages"]
     \/ ~io /\ UNCHANGED <<mapped, ttm>>
  /\ Goto(t, "unreserve")
  /\ UNCHANGED <<world, users, life, list_kref, resv, lists, ddestroy, mem, no_evict,
                 nodes, busy, wq, loc>>

\* Faulty variant of Validate: a system object gets no ttm.
ValidateNoTtm(t) ==
  LET b == loc[t].bo
      compat == mem[b] = loc[t].want
  IN
  /\ pc[t] = "validate"
  /\ \/ /\ compat
        /\ no_evict' = [no_evict EXCEPT ![b] = loc[t].pin]
        /\ Goto(t, "unreserve")
        /\ UNCHANGED loc
     \/ /\ ~compat
        /\ IF busy[b]
           THEN GotoWith(t, "unreserve", [loc[t] EXCEPT !.ret = TRUE])
           ELSE Goto(t, "space") /\ UNCHANGED loc
        /\ UNCHANGED no_evict
  /\ UNCHANGED <<world, users, life, list_kref, resv, lists, ddestroy, mem, ttm, nodes,
                 busy, mapped, wq>>

\* ttm_bo_validate() before it looks for space: nothing to move, or wait for the
\* GPU.  A system object without pages gets its ttm here.
Validate(t) ==
  LET b == loc[t].bo
      compat == mem[b] = loc[t].want
      add == mem[b] = "sys" /\ ttm[b] = "none"
  IN
  /\ pc[t] = "validate"
  /\ \/ /\ compat
        /\ no_evict' = [no_evict EXCEPT ![b] = loc[t].pin]
        /\ ttm' = IF add THEN [ttm EXCEPT ![b] = "empty"] ELSE ttm
        /\ Goto(t, "unreserve")
        /\ UNCHANGED loc
     \/ /\ compat /\ add
        /\ no_evict' = [no_evict EXCEPT ![b] = loc[t].pin]
        /\ GotoWith(t, "unreserve", [loc[t] EXCEPT !.ret = TRUE])
        /\ UNCHANGED ttm
     \/ /\ ~compat
        /\ IF busy[b]
           THEN GotoWith(t, "unreserve", [loc[t] EXCEPT !.ret = TRUE])
           ELSE Goto(t, "space") /\ UNCHANGED loc
        /\ UNCHANGED <<no_evict, ttm>>
  /\ UNCHANGED <<world, users, life, list_kref, resv, lists, ddestroy, mem, nodes,
                 busy, mapped, wq>>

\* ttm_bo_mem_space() and the loop of ttm_bo_mem_force_space(): a node, or the
\* next eviction.
MemSpace(t) ==
  LET wanted == loc[t].want = "dev" IN
  /\ pc[t] = "space"
  /\ IF wanted /\ nodes >= world.room
     THEN Goto(t, "evict") /\ UNCHANGED nodes
     ELSE Goto(t, "move") /\ nodes' = nodes + Count(wanted)
  /\ UNCHANGED <<world, users, life, list_kref, resv, lists, ddestroy, mem, no_evict,
                 ttm, busy, mapped, wq, loc>>

\* ttm_bo_handle_move_mem() for the validated object.
Move(t) ==
  LET b == loc[t].bo
      toDev == loc[t].want = "dev"
  IN
  /\ pc[t] = "move"
  /\ \/ toDev /\ MoveToDev(b, loc[t].pin) /\ UNCHANGED loc
     \/ toDev /\ MoveToDevFails(b) /\ loc' = [loc EXCEPT ![t].ret = TRUE]
     \/ ~toDev /\ MoveToSys(b, loc[t].pin) /\ UNCHANGED loc
     \/ ~toDev /\ MoveToSysFails(b) /\ loc' = [loc EXCEPT ![t].ret = TRUE]
  /\ Goto(t, "unreserve")
  /\ UNCHANGED <<world, users, life, list_kref, resv, lists, ddestroy, busy, wq>>

\* ttm_bo_unreserve().  A driver that validated for the GPU has attached a fence.
\* ttm_bo_init() drops the object it could not validate.
Unreserve(t) ==
  LET b == loc[t].bo
      l == loc[t]
  IN
  /\ pc[t] = "unreserve"
  /\ AddToLru(b, 0)
  /\ Unlock(b)
  /\ \/ UNCHANGED busy
     \/ /\ l.op = "validate" /\ ~l.ret /\ mem[b] = "dev"
        /\ busy' = [busy EXCEPT ![b] = TRUE]
  /\ IF l.op = "create" /\ l.ret THEN Goto(t, "unref") /\ UNCHANGED loc
                                 ELSE GotoWith(t, "idle", Idle)
  /\ UNCHANGED <<world, users, life, ddestroy, placement, mapped, wq>>

\* ttm_bo_unref().  The user mappings hold references, so that they are gone
\* with the last one.
Unref(t, b) ==
  /\ \/ pc[t] = "idle" /\ t \in users[b]
     \/ pc[t] = "unref" /\ b = loc[t].bo
  /\ users' = [users EXCEPT ![b] = @ \ {t}]
  /\ IF users'[b] = {}
     THEN /\ mapped' = [mapped EXCEPT ![b] = "none"]
          /\ GotoWith(t, "release", [Idle EXCEPT !.vic = b])
     ELSE GotoWith(t, "idle", Idle) /\ UNCHANGED mapped
  /\ UNCHANGED <<world, life, list_kref, resv, lists, ddestroy, placement, busy, wq>>

\* Faulty variant of Release: a pinned object queued for destruction keeps its
\* flag, and the delayed work is not scheduled.
ReleaseUnscheduled(t) ==
  LET b == loc[t].vic IN
  /\ pc[t] = "release"
  /\ \/ /\ resv[b] = NoThread /\ ~busy[b]
        /\ resv' = [resv EXCEPT ![b] = t]
        /\ DelFromLru(b)
        /\ GotoWith(t, "memtype_use", [loc[t] EXCEPT !.put = PutCount(b)])
        /\ UNCHANGED <<list_kref, no_evict, ddestroy>>
     \/ /\ resv[b] # NoThread \/ busy[b]
        /\ list_kref' = [list_kref EXCEPT ![b] = @ + 1]
        /\ ddestroy' = Append(ddestroy, b)
        /\ Goto(t, "put")
        /\ UNCHANGED <<resv, lists, no_evict, loc>>
  /\ UNCHANGED <<world, users, life, mem, ttm, nodes, busy, mapped, wq>>

\* ttm_bo_release() up to its kref_put(): ttm_bo_cleanup_refs_or_queue() gives
\* up the memory of an idle object at once and queues any other; a pinned one
\* becomes evictable on the way.
Release(t) ==
  LET b == loc[t].vic
      unpin == resv[b] = NoThread /\ no_evict[b]
  IN
  /\ pc[t] = "release"
  /\ \/ /\ resv[b] = NoThread /\ ~busy[b]
        /\ resv' = [resv EXCEPT ![b] = t]
        /\ DelFromLru(b)
        /\ GotoWith(t, "memtype_use", [loc[t] EXCEPT !.put = PutCount(b)])
        /\ UNCHANGED <<list_kref, no_evict, ddestroy, wq>>
     \/ /\ resv[b] # NoThread \/ busy[b]
        /\ no_evict' = [no_evict EXCEPT ![b] = @ /\ ~unpin]
        /\ IF unpin
           THEN ListAdd(b, 1)
           ELSE /\ UNCHANGED lists
                /\ list_kref' = [list_kref EXCEPT ![b] = @ + 1]
        /\ ddestroy' = Append(ddestroy, b)
        /\ wq' = TRUE
        /\ Goto(t, "put")
        /\ UNCHANGED <<resv, loc>>
  /\ UNCHANGED <<world, users, life, mem, ttm, nodes, busy, mapped>>

------------------------------------------------------------------------------
(* The delayed work: ttm_bo_delayed_delete(bdev, false). *)

Following(b) ==
  LET i == CHOOSE i \in DOMAIN ddestroy : ddestroy[i] = b
  IN IF i = Len(ddestroy) THEN NoBo ELSE ddestroy[i + 1]

\* One round of the loop: take a reference on the next entry, try to reserve
\* this one and clean it up without waiting.  `first' is the reference taken
\* before the loop.
DeleteEntry(b, first) ==
  LET n == Following(b)
      l == [Idle EXCEPT !.op = "delete", !.vic = b, !.next = n]
  IN
  /\ list_kref' = [c \in Bos |-> list_kref[c] + Count(c = b /\ first) + Count(c = n)]
  /\ \/ /\ resv[b] = NoThread
        /\ CleanupHead(Worker, b, l, TRUE)
     \/ /\ resv[b] # NoThread
        /\ GotoWith(Worker, "put", [l EXCEPT !.ret = TRUE])
        /\ UNCHANGED <<resv, lists, ddestroy>>

DelayedDelete ==
  /\ pc[Worker] = "idle"
  /\ wq
  /\ wq' = FALSE
  /\ IF ddestroy = <<>> THEN UNCHANGED <<list_kref, resv, lists, ddestroy, pc, loc>>
                        ELSE DeleteEntry(Head(ddestroy), TRUE)
  /\ UNCHANGED <<world, users, life, placement, busy, mapped>>

\* Faulty variant of DelayedNext: an error ends the work for good.
DelayedNextNoRetry ==
  LET l == loc[Worker] IN
  /\ pc[Worker] = "next"
  /\ \/ /\ l.next # NoBo
        /\ ListPut(l.next, 1)
     \/ /\ l.next = NoBo
        /\ UNCHANGED <<list_kref, life>>
  /\ GotoWith(Worker, "idle", Idle)
  /\ UNCHANGED <<world, users, resv, lists, ddestroy, placement, busy, mapped, wq>>

\* On to the next entry.  The work ends after an error (and is scheduled again),
\* at the end of the list, or when the next entry has left the list meanwhile.
DelayedNext ==
  LET l == loc[Worker] IN
  /\ pc[Worker] = "next"
  /\ \/ /\ l.ret \/ l.next = NoBo \/ ~On(ddestroy, l.next)
        /\ IF l.next = NoBo THEN UNCHANGED <<list_kref, life>> ELSE ListPut(l.next, 1)
        /\ wq' = (wq \/ l.ret)
        /\ GotoWith(Worker, "idle", Idle)
        /\ UNCHANGED <<resv, lists, ddestroy>>
     \/ /\ ~l.ret /\ l.next # NoBo /\ On(ddestroy, l.next)
        /\ DeleteEntry(l.next, FALSE)
        /\ UNCHANGED <<life, wq>>
  /\ UNCHANGED <<world, users, placement, busy, mapped>>

\* The GPU passes the last fence attached to an object.
Signal(b) ==
  /\ busy[b]
  /\ busy' = [busy EXCEPT ![b] = FALSE]
  /\ UNCHANGED <<world, users, life, list_kref, resv, lists, ddestroy, placement,
                 mapped, wq, pc, loc>>

\* What a thread does once it is inside a function.
Inside(t) ==
  \/ Reserve(t) \/ DelSubFromLru(t) \/ Validate(t) \/ MemSpace(t) \/ Move(t)
  \/ Unreserve(t) \/ Fault(t) \/ Release(t)
  \/ EvictMm(t) \/ EvictFirst(t) \/ Evict(t) \/ EvictUnreserve(t) \/ NothingEvicted(t)
  \/ SwapoutFirst(t) \/ Swapout(t)
  \/ CleanupWait(t) \/ CleanupAgain(t) \/ MemtypeUse(t) \/ ListRefSub(t) \/ VicPut(t)
  \/ pc[t] = "unref" /\ Unref(t, loc[t].bo)

Next ==
  \/ \E t \in world.clients : Begin(t) \/ \E b \in Bos : Create(t, b) \/ Reference(t, b)
  \/ \E t \in world.clients, b \in Bos : pc[t] = "idle" /\ Unref(t, b)
  \/ \E t \in Threads : Inside(t)
  \/ DelayedDelete \/ DelayedNext
  \/ \E b \in Bos : Signal(b)

Spec == Init /\ [][Next]_vars

\* Threads inside a function are scheduled, queued work runs, fences signal.
Fairness ==
  /\ \A t \in Threads : WF_vars(Inside(t))
  /\ WF_vars(DelayedDelete \/ DelayedNext)
  /\ \A b \in AllBos : WF_vars(b \in Bos /\ Signal(b))

FairSpec == Spec /\ Fairness

------------------------------------------------------------------------------
(* Properties. *)

\* References on the list count that a thread holds: its own on vic (in
\* ttm_bo_release() the one of the reference count), the worker's on nentry, and
\* those of the lists it has just emptied.
HeldBy(t, b) ==
  Count(loc[t].vic = b) + Count(loc[t].next = b)
    + (IF loc[t].vic = b /\ pc[t] \in {"memtype_use", "sub"} THEN loc[t].put ELSE 0)

\* bo->list_kref counts the lists an object is on, its users' one reference and
\* the threads that work on it, through every race between eviction, swap-out,
\* release and the delayed work: ttm_bo_ref_bug() is never reached, and nobody
\* frees an object another thread still looks at.
ListRefExact ==
  \A b \in Bos :
    list_kref[b] = Count(users[b] # {}) + PutCount(b) + Count(On(ddestroy, b))
                     + MapThenSumSet(LAMBDA t : HeldBy(t, b), Threads)

\* The BUG_ON()s of ttm_bo_release_list(): an object is freed without users,
\* lists, node or reservation.
FreedClean ==
  \A b \in Bos : life[b] = "freed" =>
    /\ users[b] = {} /\ resv[b] = NoThread
    /\ ~OnLru(b) /\ ~On(swap_lru, b) /\ ~On(ddestroy, b)
    /\ mem[b] = "sys" /\ ttm[b] = "none"

\* Whoever gives up the memory of a dead object in ttm_bo_cleanup_memtype_use()
\* owns its reservation, although ttm_bo_cleanup_refs_and_unlock() had to drop it
\* to wait: no two threads clean up the same object.
CleanerOwns ==
  \A t \in Threads : pc[t] = "memtype_use" => resv[loc[t].vic] = t

\* WARN_ON(ret) in ttm_bo_cleanup_refs_and_unlock(): nobody attached a new fence
\* while the reservation was dropped.
NoNewFence == \A t \in Threads : pc[t] = "cleanup_again" => ~busy[loc[t].vic]

\* Nobody frees, cleans up or uses again an object that somebody else still works
\* on or cleans up.
LifetimeExact ==
  TypeOK /\ ListRefExact /\ FreedClean /\ CleanerOwns /\ NoNewFence

\* Every node of the managed memory belongs to one object or to a move under
\* way, whatever step of an eviction or a validation failed.
NodesExact ==
  /\ nodes = Cardinality({b \in Bos : mem[b] = "dev"})
               + Cardinality({t \in Clients : pc[t] = "move" /\ loc[t].want = "dev"})
  /\ nodes <= world.room

\* A user mapping points at the memory the object is in: moves and swap-out zap
\* it before the memory is given up (ttm_bo_unmap_virtual()).
MappingCurrent ==
  \A b \in Bos :
    /\ mapped[b] = "node" => mem[b] = "dev"
    /\ mapped[b] = "pages" => ttm[b] = "pages"

\* ttm_bo_vm_fault() dereferences bo->ttm of every object outside io memory.
FaultHasTtm ==
  \A t \in Clients :
    pc[t] = "fault" /\ ~(mem[loc[t].bo] = "dev" /\ world.fixed) =>
      ttm[loc[t].bo] # "none"

\* Nodes, pages and mappings say where the objects are.
MemoryExact == NodesExact /\ MappingCurrent /\ FaultHasTtm

\* Without evictions the delayed work is pending or running as long as objects
\* are queued for it.  (An eviction that removes the worker's next entry ends
\* the work early, see ttm_bo_delayed_delete().)
QueueServed ==
  world.ops \cap {"swapout", "evict_mm"} = {} /\ world.room >= Cardinality(Bos) =>
    (ddestroy # <<>> => wq \/ pc[Worker] # "idle")

\* Memory the GPU still uses is neither moved nor freed: every path waits for
\* the fences, or leaves the object alone.
GpuKeepsMemory ==
  \A b \in Bos :
    busy[b] => mem'[b] = mem[b] /\ (ttm[b] = "pages" => ttm'[b] = "pages")

\* A pinned object (TTM_PL_FLAG_NO_EVICT) in use only moves when a client
\* validates it somewhere else.
PinnedStays ==
  \A b \in Bos :
    no_evict[b] /\ users[b] # {} /\ mem'[b] # mem[b] =>
      \E t \in Clients : pc[t] = "move" /\ loc[t].bo = b

\* What is in use, by the GPU or pinned, stays where it is.
UsedStays == [][GpuKeepsMemory /\ PinnedStays]_vars

\* No object without users is left.
NoneDead ==
  world.ops \cap {"swapout", "evict_mm"} = {} /\ world.room >= Cardinality(Bos) =>
    \A b \in Bos : life[b] = "live" => users[b] # {}

\* An object without users is freed in the end (ttm_bo_delayed_delete()).
DeadFreed == []<>NoneDead

=============================================================================

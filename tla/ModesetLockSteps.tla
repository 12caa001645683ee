-------------------------- MODULE ModesetLockSteps --------------------------
(***************************************************************************)
(* The steps in which a thread takes its modeset locks, backs off or goes  *)
(* away keep the inductive invariant of ModesetLockInvariant.              *)
(***************************************************************************)
EXTENDS ModesetLockInvariant

------------------------------------------------------------------------------
(* Taking the locks. *)

\* mutex_lock(&config->mutex) of a call that needs no context.
LEMMA MutexLockKeeps ==
  ASSUME IInv, NEW t \in Threads, load' = load, MutexLock(t)
  PROVE  Step(t)
<1>1. /\ TypeOK /\ Tracked /\ TicketsOK /\ OnePlace /\ th[t] \in Locals /\ Shape(th[t])
      /\ Context(t) /\ (~load.alloc_fails => Sure(t)) /\ (Blocking => Clean(t))
  BY Parts
<1> DEFINE x == [th[t] EXCEPT !.pc = "lock", !.todo = th[t].plan]
<1>2. /\ x \in Locals /\ x.pc = "lock" /\ x.todo = th[t].plan
      /\ x.op = th[t].op /\ x.crtc = th[t].crtc /\ x.plane = th[t].plane /\ x.plan = th[t].plan
      /\ x.want = th[t].want /\ x.drop = th[t].drop /\ x.lap = th[t].lap
  BY Zenon, <1>1 DEF Locals
<1>3. /\ th[t].pc = "mutex" /\ th[t].op \in {"all", "detect", "connector"} /\ th[t].drop = None
      /\ th[t].lap = "first" /\ ~Live(t) /\ mutex = None /\ mutex' = t /\ Set(t, x)
      /\ (th[t].op = "connector" => Len(th[t].plan) = 1)
  BY <1>1 DEF MutexLock, Shape, Context, Locals
<1> HIDE DEF x
<1>4. Shape(x)
  BY Zenon, <1>1, <1>2, <1>3 DEF Shape, PlainOps, CtxOps
<1>5. ASSUME ~load.alloc_fails PROVE Covers(x, Mine(t))
  <2>1. th[t].op = "all" => th[t].plan = AllLocks
    BY Zenon, <1>1, <1>3, <1>5 DEF Sure, Covers, CoversAll
  <2> QED BY Zenon, <1>2, <1>3, <2>1, AllElements DEF Covers, CoversAll
<1>6. CASE th[t].op # "connector"
  <2>1. AcquireInit(t) /\ UNCHANGED <<owner, lock_ctx, config_ctx, crtc_ctx>>
    BY <1>6 DEF MutexLock
  <2>2. x.op \in CtxOps /\ x.op # "try" /\ x.op # "crtc"
    BY <1>2, <1>3, <1>6 DEF CtxOps
  <2> QED BY Zenon, <1>2, <1>3, <1>4, <1>5, <2>1, <2>2, StartKeeps
<1>7. CASE th[t].op = "connector"
  <2>1. UNCHANGED <<tickets, ctx, owner, lock_ctx, config_ctx, crtc_ctx>>
    BY <1>7 DEF MutexLock
  <2>2. /\ th' \in [Threads -> Locals] /\ th'[t] = x
        /\ \A u \in Threads \ {t} : th'[u] = th[u]
    BY <1>1, <1>2, <1>3, SetSets
  <2>3. Tracked' /\ \A u \in Threads : SameLocks(u)
    BY Zenon, <1>1, <2>1, LocksSame DEF Tracked
  <2>4. \A u \in Threads : SameCtx(u) /\ SameStash(u) /\ (Live(u)' <=> Live(u))
    BY <2>1 DEF SameCtx, SameStash, Live
  <2>5. TypeOK'
    BY Zenon, <1>1, <1>3, <2>1, <2>2, <2>3, Typed DEF TicketsOK, TypeOK
  <2>6. OnePlace'
    <3>1. \A u \in Threads : th'[u].drop = th[u].drop
      BY <1>2, <2>2
    <3>2. \A u \in Threads : Owns(u)' => Owns(u) \/ ~Live(u)
      BY Zenon, <1>3, <2>2 DEF Owns
    <3>3. \A u \in Threads : Stashed(u) \/ Dropped(u) => Live(u)'
      BY <1>1, <2>4 DEF OnePlace
    <3> QED BY Zenon, <3>1, <3>2, <3>3, <2>1, <1>1, PlaceKeeps
  <2>7. Context(t)'
    BY Zenon, <1>1, <1>2, <1>3, <1>7, <2>2, <2>4 DEF Context, Owns, SameCtx, CtxOps
  <2>8. Plain(t)'
    BY <1>2, <2>2 DEF Plain
  <2>9. ASSUME ~load.alloc_fails PROVE Sure(t)'
    <3>1. config_ctx' # t /\ \A c \in Crtcs : crtc_ctx'[c] # t
      BY Zenon, <1>1, <1>3, <2>1, NotStashed
    <3>2. ~InSection(t)' /\ th'[t].pc # "drop"
      BY <1>2, <1>3, <2>2 DEF InSection
    <3>3. Covers(th'[t], Mine(t)')
      BY <1>2, <1>7, <2>2 DEF Covers
    <3> QED BY Zenon, <3>1, <3>2, <3>3, <1>3 DEF Sure, OwnStash
  <2>10. ASSUME Blocking PROVE Clean(t)'
    <3>1. Held(t)' \ Mine(t)' = {}
      BY <1>1, <1>3, <2>3, <2>10 DEF SameLocks, Clean
    <3>2. ~Live(t)' /\ HasMutex(t)' /\ th'[t].op # "try"
      BY <1>2, <1>3, <1>7, <2>2, <2>4 DEF HasMutex
    <3> QED BY <3>1, <3>2 DEF Clean
  <2>11. \A u \in Threads \ {t} : mutex' = u <=> mutex = u
    BY <1>3, ModesetAssumption
  <2> QED BY <1>4, <2>2, <2>3, <2>4, <2>5, <2>6, <2>7, <2>8, <2>9, <2>10, <2>11, StepKeeps
<1> QED BY <1>6, <1>7

\* A step of t that changes nothing but its place, its own locks and what its context
\* remembers.  The stashes, the tickets and mode_config.mutex stay as they are.
LEMMA WorkKeeps ==
  ASSUME IInv, NEW t \in Threads, load' = load, NEW x \in Locals,
         th' = [th EXCEPT ![t] = x], Shape(x), x.op = th[t].op, x.lap = th[t].lap,
         x.drop = th[t].drop, x.crtc = th[t].crtc, x.op # "none", x.pc # "mutex",
         th[t].pc # "mutex", Owns(t)' => Owns(t),
         x.op \in CtxOps => (InSection(t)' <=> InSection(t)),
         Tracked', \A u \in Threads \ {t} : SameLocks(u) /\ ctx'[u] = ctx[u],
         x.pc = "contended" <=> ctx'[t].contended # None,
         ~Live(t) => ctx'[t] = NoCtx,
         x.op = "try" /\ x.pc = "lock" => ctx'[t] = NoCtx,
         Plain(t)',
         ~load.alloc_fails => Covers(x, Mine(t)'),
         Blocking => \A l \in Held(t)' \ Mine(t)' : x.pc = "in" /\ x.op \in PlainOps /\ l = x.todo[1],
         UNCHANGED <<mutex, tickets, config_ctx, crtc_ctx>>
  PROVE  Step(t)
<1>1. /\ TypeOK /\ Tracked /\ TicketsOK /\ OnePlace /\ th[t] \in Locals /\ Shape(th[t])
      /\ Context(t) /\ (~load.alloc_fails => Sure(t)) /\ (Blocking => Clean(t))
  BY Zenon, Parts
<1>2. /\ th' \in [Threads -> Locals] /\ th'[t] = x
      /\ \A u \in Threads \ {t} : th'[u] = th[u]
  BY Zenon, <1>1 DEF TypeOK
<1>3. \A u \in Threads : SameStash(u) /\ (Live(u)' <=> Live(u)) /\ (u # t => SameCtx(u))
  BY Zenon DEF SameCtx, SameStash, Live
<1>4. TypeOK'
  BY Zenon, <1>1, <1>2, Typed DEF TicketsOK, TypeOK
<1>5. OnePlace'
  <2>1. \A u \in Threads : th'[u].drop = th[u].drop
    BY Zenon, <1>2
  <2>2. \A u \in Threads : Owns(u)' => Owns(u) \/ ~Live(u)
    BY Zenon, <1>2 DEF Owns
  <2>3. \A u \in Threads : Stashed(u) \/ Dropped(u) => Live(u)'
    BY Zenon, <1>1, <1>3 DEF OnePlace
  <2> QED BY Zenon, <2>1, <2>2, <2>3, <1>1, PlaceKeeps
<1>6. Context(t)'
  BY Zenon, <1>1, <1>2, <1>3 DEF Context
<1>7. ASSUME ~load.alloc_fails PROVE Sure(t)'
  <2>1. Sure(t) /\ (HasMutex(t)' <=> HasMutex(t)) /\ (x.pc = "drop" <=> th[t].pc = "drop")
    BY Zenon, <1>1, <1>2, <1>7 DEF HasMutex, Shape
  <2> QED BY Zenon, <1>2, <1>7, <2>1 DEF Sure, OwnStash, CtxOps
<1>8. ASSUME Blocking PROVE Clean(t)'
  <2>1. Clean(t) /\ (HasMutex(t)' <=> HasMutex(t))
    BY Zenon, <1>1, <1>2, <1>8 DEF HasMutex, Shape
  <2> QED BY Zenon, <1>2, <1>3, <1>8, <2>1 DEF Clean
<1> QED BY Zenon, <1>1, <1>2, <1>3, <1>4, <1>5, <1>6, <1>7, <1>8, StepKeeps

\* What is left of the list of drm_modeset_lock_crtc().
LEMMA CrtcTodo ==
  ASSUME NEW r \in Locals, r.crtc \in Crtcs, r.todo # <<>>,
         r.todo \in {<<>>, <<r.crtc>>, <<r.plane>>, CrtcPlan(r)}
  PROVE  \/ Head(r.todo) = r.crtc /\ Tail(r.todo) \in {<<>>, <<r.plane>>}
         \/ Head(r.todo) = r.plane /\ r.todo = <<r.plane>>
<1>1. CASE r.todo = <<r.crtc>>
  BY <1>1
<1>2. CASE r.todo = <<r.plane>>
  BY <1>2
<1>3. CASE r.todo = <<r.crtc, r.plane>>
  BY <1>3
<1>4. CrtcPlan(r) = <<r.crtc>> \/ CrtcPlan(r) = <<r.crtc, r.plane>>
  BY DEF CrtcPlan
<1> QED BY <1>1, <1>2, <1>3, <1>4

\* Locks asked for again inside a section are already held.
LEMMA FurtherHeld ==
  ASSUME IInv, NEW t \in Threads, th[t].pc = "lock", th[t].lap = "further", th[t].todo # <<>>
  PROVE  Head(th[t].todo) \in Mine(t)
<1>1. /\ th[t] \in Locals /\ Shape(th[t]) /\ Sure(t)
  BY Parts DEF Context
<1>2. th[t].todo \in Seq(Locks)
  BY <1>1 DEF Locals
<1>3. Head(th[t].todo) \in Locks /\ Head(th[t].todo) \in Elements(th[t].todo)
  BY <1>2, HeadTail
<1> QED BY <1>1, <1>3 DEF Shape, Sure, Covers, CoversAll, CoversCrtc

\* Lock l is done: what is left to take.
LEMMA AdvanceCovers ==
  ASSUME IInv, NEW t \in Threads, th[t].pc = "lock", th[t].todo # <<>>,
         th[t].op \in CtxOps, Advance(t, Head(th[t].todo)),
         NEW held, Mine(t) \subseteq held, Head(th[t].todo) \in held
  PROVE  \E x \in Locals :
           /\ th' = [th EXCEPT ![t] = x]
           /\ x.pc = "lock" /\ x.op = th[t].op /\ x.crtc = th[t].crtc
           /\ x.drop = th[t].drop /\ x.lap = th[t].lap
           /\ Shape(x) /\ (~load.alloc_fails => Covers(x, held))
<1> DEFINE r == th[t]
           l == Head(r.todo)
<1>1. /\ r \in Locals /\ Shape(r) /\ (~load.alloc_fails => Sure(t))
  BY Parts
<1>2. r.todo \in Seq(Locks) /\ (r.op = "crtc" => r.crtc \in Crtcs) /\ r.plane \in Planes \cup {None}
  BY <1>1 DEF Locals, Shape
<1>3. PICK more : /\ more \in IF r.op = "crtc" /\ r.lap = "first" /\ l = r.plane
                              THEN {<<>>, <<r.crtc>>} ELSE {Tail(r.todo)}
                  /\ th' = [th EXCEPT ![t] = [r EXCEPT !.todo = more]]
  BY Zenon DEF Advance, Set
<1>4. /\ l \in Locks /\ Tail(r.todo) \in Seq(Locks)
      /\ Elements(r.todo) = {l} \cup Elements(Tail(r.todo))
  BY <1>2, HeadTail
<1>5. more \in Seq(Locks)
  <2>1. r.op = "crtc" => <<r.crtc>> \in Seq(Locks)
    BY <1>2 DEF Locks
  <2>2. \/ r.op = "crtc" /\ (more = <<>> \/ more = <<r.crtc>>)
        \/ more = Tail(r.todo)
    BY <1>3, Zenon
  <2>3. CASE more = <<>>
    BY <2>3
  <2>4. CASE r.op = "crtc" /\ more = <<r.crtc>>
    BY <2>1, <2>4
  <2>5. CASE more = Tail(r.todo)
    BY <1>4, <2>5
  <2> QED BY <2>2, <2>3, <2>4, <2>5
<1> DEFINE x == [r EXCEPT !.todo = more]
<1>6. /\ x \in Locals /\ x.pc = r.pc /\ x.op = r.op /\ x.crtc = r.crtc /\ x.plane = r.plane
      /\ x.todo = more /\ x.plan = r.plan /\ x.want = r.want /\ x.drop = r.drop /\ x.lap = r.lap
  BY Zenon, <1>1, <1>5 DEF Locals
<1>7. th' = [th EXCEPT ![t] = x]
  BY <1>3
<1> HIDE DEF x
<1>8. Shape(x)
  BY <1>1, <1>6 DEF Shape, CtxOps, PlainOps
<1>9. ASSUME ~load.alloc_fails, r.op = "all" PROVE CoversAll(x, held)
  <2>1. CoversAll(r, Mine(t))
    BY <1>1, <1>9 DEF Sure, Covers
  <2>2. more = Tail(r.todo)
    BY <1>3, <1>9
  <2> QED BY <1>4, <1>6, <2>1, <2>2 DEF CoversAll
<1>10. ASSUME ~load.alloc_fails, r.op = "crtc" PROVE CoversCrtc(x, held)
  <2>1. CoversCrtc(r, Mine(t)) /\ r.crtc \in Crtcs
    BY <1>1, <1>2, <1>10 DEF Sure, Covers
  <2>2. CrtcPlan(x) = CrtcPlan(r) /\ CrtcLocks(x) = CrtcLocks(r)
    BY <1>6 DEF CrtcPlan, CrtcLocks
  <2>3. CASE r.lap = "further"
    <3>1. more = Tail(r.todo)
      BY <1>3, <2>3
    <3> QED BY <1>4, <1>6, <2>1, <2>2, <2>3, <3>1 DEF CoversCrtc
  <2>4. CASE r.lap = "first"
    <3>1. /\ r.todo \in {<<>>, <<r.crtc>>, <<r.plane>>, CrtcPlan(r)}
          /\ CrtcLocks(r) \subseteq Mine(t) \cup Elements(r.todo)
          /\ r.plan = CrtcPlan(r)
      BY <2>1, <2>4 DEF CoversCrtc
    <3>2. \/ l = r.crtc /\ Tail(r.todo) \in {<<>>, <<r.plane>>}
          \/ l = r.plane /\ r.todo = <<r.plane>>
      BY <1>1, <2>1, <3>1, CrtcTodo
    <3>3. r.crtc # r.plane
      BY <1>2, <2>1, ModesetAssumption DEF Locks
    <3>4. more \in {<<>>, <<r.crtc>>, <<r.plane>>, CrtcPlan(r)}
      <4>1. CASE l = r.crtc /\ Tail(r.todo) \in {<<>>, <<r.plane>>}
        <5>1. more = Tail(r.todo)
          BY <1>3, <3>3, <4>1
        <5> QED BY <4>1, <5>1, Zenon
      <4>2. CASE l = r.plane
        <5>1. more \in {<<>>, <<r.crtc>>}
          BY <1>3, <2>4, <4>2, <1>10, Zenon
        <5> QED BY <5>1, Zenon
      <4> QED BY <3>2, <4>1, <4>2
    <3>5. CrtcLocks(r) \subseteq held \cup Elements(more)
      <4>1. CASE l = r.crtc
        <5>1. more = Tail(r.todo)
          BY <1>3, <3>3, <4>1
        <5> QED BY <5>1, <1>4, <3>1
      <4>2. CASE l = r.plane /\ r.todo = <<r.plane>>
        <5>1. CrtcLocks(r) \subseteq held
          BY <4>2, <3>1, OneElement
        <5> QED BY <5>1
      <4> QED BY <3>2, <4>1, <4>2
    <3> QED BY <1>6, <2>2, <2>4, <3>1, <3>4, <3>5 DEF CoversCrtc
  <2> QED BY <1>1, <2>3, <2>4 DEF Locals
<1>11. ~load.alloc_fails => Covers(x, held)
  BY <1>6, <1>9, <1>10 DEF Covers
<1> QED BY Zenon, <1>6, <1>7, <1>8, <1>11

\* A thread that is taking its locks holds nothing but what its context has.
LEMMA NothingPlain ==
  ASSUME IInv, NEW t \in Threads, Blocking, th[t].pc # "in"
  PROVE  Held(t) \ Mine(t) = {}
BY Parts DEF Clean

\* ww_mutex_lock() takes a free lock.
LEMMA LockFree ==
  ASSUME IInv, NEW t \in Threads, load' = load,
         th[t].pc = "lock", th[t].todo # <<>>, th[t].op \in {"all", "crtc", "detect"},
         Grab(t, Head(th[t].todo)), ctx' = Listed(t, Head(th[t].todo)),
         Advance(t, Head(th[t].todo)),
         UNCHANGED <<mutex, tickets, config_ctx, crtc_ctx>>
  PROVE  Step(t)
<1> DEFINE l == Head(th[t].todo)
<1>1. /\ TypeOK /\ Tracked /\ TicketsOK /\ th[t] \in Locals /\ Shape(th[t]) /\ Context(t)
      /\ Listing(t)
  BY Parts
<1>2. l \in Locks
  <2>1. th[t].todo \in Seq(Locks)
    BY <1>1 DEF Locals
  <2> QED BY <2>1, HeadTail
<1>3. th[t].lap = "first"
  <2>1. l \notin Mine(t)
    BY <1>1, <1>2, ModesetAssumption DEF Grab, Listing, Held
  <2> QED BY <1>1, <2>1, FurtherHeld DEF Locals
<1>4. Live(t) /\ ctx[t].contended = None /\ th[t].op \in CtxOps
  BY <1>1, <1>3 DEF Context, Owns, CtxOps
<1>5. /\ ctx' \in [Threads -> [locked : Seq(Locks), contended : Locks \cup {None}]]
      /\ ctx'[t].locked = <<l>> \o ctx[t].locked /\ ctx'[t].contended = ctx[t].contended
      /\ \A u \in Threads \ {t} : ctx'[u] = ctx[u]
  <2>1. ctx[t].locked \in Seq(Locks) /\ <<l>> \in Seq(Locks)
    BY <1>1, <1>2 DEF Tracked
  <2> HIDE DEF l
  <2>2. <<l>> \o ctx[t].locked \in Seq(Locks)
    BY <2>1, ConcatLocks, Zenon
  <2>3. ctx' = [ctx EXCEPT ![t].locked = <<l>> \o ctx[t].locked]
    BY DEF Listed, l
  <2> DEFINE s == <<l>> \o ctx[t].locked
  <2> HIDE DEF s
  <2>4. s \in Seq(Locks) /\ ctx' = [ctx EXCEPT ![t].locked = s]
    BY Zenon, <2>2, <2>3 DEF s
  <2>5. /\ ctx' \in [Threads -> [locked : Seq(Locks), contended : Locks \cup {None}]]
        /\ ctx'[t].locked = s /\ ctx'[t].contended = ctx[t].contended
        /\ \A u \in Threads \ {t} : ctx'[u] = ctx[u]
    BY Zenon, <1>1, <2>4 DEF Tracked
  <2> QED BY <2>5, Zenon DEF s, l
<1>6. /\ Tracked' /\ Mine(t)' = Mine(t) \cup {l} /\ Held(t)' = Held(t) \cup {l}
      /\ \A u \in Threads \ {t} : SameLocks(u)
  <2>1. \A u \in Threads \ {t} : ctx'[u].locked = ctx[u].locked
    BY Zenon, <1>5
  <2> HIDE DEF l
  <2>2. Grab(t, l)
    BY DEF l
  <2> QED BY Zenon, <1>1, <1>2, <1>5, <2>1, <2>2, GrabAdds
<1>7. PICK x \in Locals :
        /\ th' = [th EXCEPT ![t] = x]
        /\ x.pc = "lock" /\ x.op = th[t].op /\ x.crtc = th[t].crtc
        /\ x.drop = th[t].drop /\ x.lap = th[t].lap
        /\ Shape(x) /\ (~load.alloc_fails => Covers(x, Mine(t)'))
  <2>1. Mine(t) \subseteq Mine(t)' /\ l \in Mine(t)'
    BY <1>6
  <2> QED BY <1>4, <2>1, AdvanceCovers
<1>8. th'[t] = x
  BY <1>1, <1>7 DEF TypeOK
<1>9. Plain(t)' /\ (Owns(t)' => Owns(t)) /\ (InSection(t)' <=> InSection(t))
  BY <1>4, <1>7, <1>8 DEF Plain, Owns, InSection, PlainOps, CtxOps
<1>10. Blocking => Held(t)' \ Mine(t)' = {}
  BY <1>6, NothingPlain
<1>11. x.pc = "contended" <=> ctx'[t].contended # None
  BY Zenon, <1>4, <1>5, <1>7
<1>12. /\ x.op # "none" /\ x.pc # "mutex" /\ x.op # "try"
       /\ \A u \in Threads \ {t} : SameLocks(u) /\ ctx'[u] = ctx[u]
  BY Zenon, <1>5, <1>6, <1>7
<1> HIDE DEF l
<1> QED BY Zenon, <1>4, <1>6, <1>7, <1>9, <1>10, <1>11, <1>12, WorkKeeps

\* -EALREADY.
LEMMA LockAlready ==
  ASSUME IInv, NEW t \in Threads, load' = load,
         th[t].pc = "lock", th[t].todo # <<>>, th[t].op \in {"all", "crtc", "detect"},
         Already(t, Head(th[t].todo)), UNCHANGED <<mutex, tickets, config_ctx, crtc_ctx>>
  PROVE  Step(t)
<1> DEFINE l == Head(th[t].todo)
<1>1. /\ TypeOK /\ Tracked /\ th[t] \in Locals /\ Shape(th[t]) /\ Context(t)
  BY Parts
<1>2. l \in Mine(t)
  <2>1. th[t].todo \in Seq(Locks)
    BY <1>1 DEF Locals
  <2>2. l \in Locks
    BY <2>1, HeadTail
  <2> QED BY <2>2 DEF Already, Mine
<1>3. Tracked' /\ \A u \in Threads : SameLocks(u) /\ ctx'[u] = ctx[u]
  BY <1>1, LocksSame DEF Already, Tracked
<1>4. PICK x \in Locals :
        /\ th' = [th EXCEPT ![t] = x]
        /\ x.pc = "lock" /\ x.op = th[t].op /\ x.crtc = th[t].crtc
        /\ x.drop = th[t].drop /\ x.lap = th[t].lap
        /\ Shape(x) /\ (~load.alloc_fails => Covers(x, Mine(t)))
  BY <1>2, AdvanceCovers DEF Already, CtxOps
<1>5. th'[t] = x
  BY <1>1, <1>4 DEF TypeOK
<1>6. Plain(t)' /\ (Owns(t)' => Owns(t)) /\ (InSection(t)' <=> InSection(t))
  BY <1>4, <1>5 DEF Plain, Owns, InSection, PlainOps, CtxOps
<1>7. Blocking => Held(t)' \ Mine(t)' = {}
  BY <1>3, NothingPlain DEF SameLocks
<1>8. /\ x.pc = "contended" <=> ctx'[t].contended # None
      /\ ~Live(t) => ctx'[t] = NoCtx
      /\ x.op # "none" /\ x.pc # "mutex" /\ x.op # "try"
  BY <1>1, <1>3, <1>4 DEF Context
<1>9. Mine(t)' = Mine(t)
  BY <1>3 DEF SameLocks
<1> QED BY Zenon, <1>3, <1>4, <1>6, <1>7, <1>8, <1>9, WorkKeeps

\* -EDEADLK.
LEMMA LockDeadlk ==
  ASSUME IInv, NEW t \in Threads, load' = load,
         th[t].pc = "lock", th[t].todo # <<>>, th[t].op \in {"all", "crtc", "detect"},
         Deadlk(t, Head(th[t].todo)), UNCHANGED <<mutex, tickets, config_ctx, crtc_ctx>>
  PROVE  Step(t)
<1> DEFINE l == Head(th[t].todo)
<1>1. /\ TypeOK /\ Tracked /\ th[t] \in Locals /\ Shape(th[t]) /\ Context(t)
      /\ (~load.alloc_fails => Sure(t))
  BY Parts
<1>2. l \in Locks
  <2>1. th[t].todo \in Seq(Locks)
    BY <1>1 DEF Locals
  <2> QED BY <2>1, HeadTail
<1>3. th[t].lap = "first"
  <2>1. l \notin Mine(t)
    BY DEF Deadlk, MustBackOff, Mine
  <2> QED BY <1>1, <2>1, FurtherHeld DEF Locals
<1>4. Owns(t) /\ Live(t)
  BY <1>1, <1>3 DEF Context, Owns, CtxOps
<1>5. /\ ctx' = [ctx EXCEPT ![t].contended = l] /\ UNCHANGED <<owner, lock_ctx>>
      /\ th' = [th EXCEPT ![t] = [th[t] EXCEPT !.pc = "contended"]]
  BY DEF Deadlk, Contend, Set
<1> HIDE DEF l
<1>6. /\ ctx' \in [Threads -> [locked : Seq(Locks), contended : Locks \cup {None}]]
      /\ ctx'[t].locked = ctx[t].locked /\ ctx'[t].contended = l
      /\ \A u \in Threads \ {t} : ctx'[u] = ctx[u]
  BY Zenon, <1>1, <1>2, <1>5 DEF Tracked
<1>7. Tracked' /\ \A u \in Threads : SameLocks(u)
  BY <1>1, <1>5, <1>6, LocksSame
<1> DEFINE x == [th[t] EXCEPT !.pc = "contended"]
<1>8. /\ x \in Locals /\ x.pc = "contended" /\ x.op = th[t].op /\ x.crtc = th[t].crtc
      /\ x.plane = th[t].plane /\ x.todo = th[t].todo /\ x.plan = th[t].plan
      /\ x.want = th[t].want /\ x.drop = th[t].drop /\ x.lap = th[t].lap
  BY <1>1 DEF Locals
<1>9. th' = [th EXCEPT ![t] = x] /\ th'[t] = x
  BY <1>1, <1>5 DEF TypeOK
<1> HIDE DEF x
<1>10. Shape(x)
  BY <1>1, <1>3, <1>8 DEF Shape, PlainOps
<1>11. ASSUME ~load.alloc_fails PROVE Covers(x, Mine(t)')
  <2>1. Covers(th[t], Mine(t)') /\ CrtcPlan(x) = CrtcPlan(th[t]) /\ CrtcLocks(x) = CrtcLocks(th[t])
    BY <1>1, <1>7, <1>8, <1>11 DEF Sure, SameLocks, CrtcPlan, CrtcLocks
  <2> QED BY <1>3, <1>8, <2>1 DEF Covers, CoversAll, CoversCrtc
<1>12. Plain(t)' /\ (InSection(t)' <=> InSection(t))
  BY <1>8, <1>9 DEF Plain, InSection
<1>13. Blocking => Held(t)' \ Mine(t)' = {}
  BY <1>7, NothingPlain DEF SameLocks
<1>14. x.op # "none" /\ x.op # "try" /\ l # None
  BY <1>2, <1>8, ModesetAssumption
<1> QED BY Zenon, <1>4, <1>6, <1>7, <1>8, <1>9, <1>10, <1>11, <1>12, <1>13, <1>14, WorkKeeps

LEMMA LockKeeps ==
  ASSUME IInv, NEW t \in Threads, load' = load, Lock(t)
  PROVE  Step(t)
BY LockFree, LockAlready, LockDeadlk DEF Lock

\* drm_modeset_lock() without a context.
LEMMA LockPlainKeeps ==
  ASSUME IInv, NEW t \in Threads, load' = load, LockPlain(t)
  PROVE  Step(t)
<1> DEFINE l == Head(th[t].todo)
<1>1. /\ TypeOK /\ Tracked /\ th[t] \in Locals /\ Shape(th[t]) /\ Context(t)
  BY Parts
<1>2. th[t].todo \in Seq(Locks)
  BY <1>1 DEF Locals
<1>3. l \in Locks /\ l = th[t].todo[1] /\ owner[l] = None /\ owner' = [owner EXCEPT ![l] = t]
  BY <1>2, HeadTail DEF LockPlain
<1>4. th[t].op \in PlainOps /\ th[t].pc = "lock" /\ UNCHANGED <<lock_ctx, ctx>>
  BY DEF LockPlain, PlainOps
<1> HIDE DEF l
<1>5. /\ Tracked' /\ lock_ctx'[l] = None /\ owner'[l] = t
      /\ Mine(t)' = Mine(t) /\ Held(t)' = Held(t) \cup {l}
      /\ \A u \in Threads \ {t} : SameLocks(u)
  BY Zenon, <1>1, <1>3, <1>4, PlainAdds
<1> DEFINE x == [th[t] EXCEPT !.pc = "in"]
<1>6. /\ x \in Locals /\ x.pc = "in" /\ x.op = th[t].op /\ x.crtc = th[t].crtc
      /\ x.plane = th[t].plane /\ x.todo = th[t].todo /\ x.plan = th[t].plan
      /\ x.want = th[t].want /\ x.drop = th[t].drop /\ x.lap = th[t].lap
  BY <1>1 DEF Locals
<1>7. th' = [th EXCEPT ![t] = x] /\ th'[t] = x
  BY <1>1 DEF TypeOK, LockPlain, Set
<1> HIDE DEF x
<1>8. Shape(x)
  BY <1>1, <1>4, <1>6 DEF Shape, PlainOps
<1>9. Covers(x, Mine(t)') /\ x.op \notin CtxOps /\ x.op # "none" /\ x.op # "try"
  BY <1>4, <1>6 DEF Covers, PlainOps, CtxOps
<1>10. Plain(t)' /\ ~Owns(t)'
  BY <1>3, <1>5, <1>6, <1>7, <1>9 DEF Plain, Owns
<1>11. Blocking => \A k \in Held(t)' \ Mine(t)' : x.pc = "in" /\ x.op \in PlainOps /\ k = x.todo[1]
  BY <1>3, <1>4, <1>5, <1>6, NothingPlain
<1>12. /\ x.pc = "contended" <=> ctx'[t].contended # None
       /\ ~Live(t) => ctx'[t] = NoCtx
       /\ \A u \in Threads \ {t} : SameLocks(u) /\ ctx'[u] = ctx[u]
  BY <1>1, <1>4, <1>5, <1>6 DEF Context
<1> QED BY Zenon, <1>4, <1>5, <1>6, <1>7, <1>8, <1>9, <1>10, <1>11, <1>12, WorkKeeps DEF LockPlain

\* modeset_lock() with ctx->trylock_only takes a free lock.
LEMMA TryLockFree ==
  ASSUME IInv, NEW t \in Threads, load' = load,
         th[t].pc = "lock", th[t].todo # <<>>, th[t].op = "try",
         owner[Head(th[t].todo)] = None,
         owner' = [owner EXCEPT ![Head(th[t].todo)] = t], Advance(t, Head(th[t].todo)),
         UNCHANGED <<mutex, lock_ctx, tickets, ctx, config_ctx, crtc_ctx>>
  PROVE  Step(t)
<1> DEFINE l == Head(th[t].todo)
<1>1. /\ TypeOK /\ Tracked /\ th[t] \in Locals /\ Shape(th[t]) /\ Context(t)
      /\ (Blocking => Clean(t))
  BY Parts
<1>2. l \in Locks
  <2>1. th[t].todo \in Seq(Locks)
    BY <1>1 DEF Locals
  <2> QED BY <2>1, HeadTail
<1>3. /\ Tracked' /\ Mine(t)' = Mine(t)
      /\ \A u \in Threads \ {t} : SameLocks(u)
  <2> HIDE DEF l
  <2>1. owner[l] = None /\ owner' = [owner EXCEPT ![l] = t]
    BY DEF l
  <2> QED BY Zenon, <1>1, <1>2, <2>1, PlainAdds
<1>4. PICK x \in Locals :
        /\ th' = [th EXCEPT ![t] = x]
        /\ x.pc = "lock" /\ x.op = th[t].op /\ x.crtc = th[t].crtc
        /\ x.drop = th[t].drop /\ x.lap = th[t].lap
        /\ Shape(x) /\ (~load.alloc_fails => Covers(x, Mine(t) \cup {l}))
  BY AdvanceCovers DEF CtxOps
<1>5. th'[t] = x
  BY <1>1, <1>4 DEF TypeOK
<1>6. Plain(t)' /\ (Owns(t)' => Owns(t)) /\ (InSection(t)' <=> InSection(t))
  BY <1>4, <1>5 DEF Plain, Owns, InSection, PlainOps, CtxOps
<1>7. ~Blocking
  BY <1>1 DEF Clean
<1>8. Covers(x, Mine(t)') /\ x.op # "none" /\ x.pc # "mutex"
  BY <1>4 DEF Covers
<1>9. /\ x.pc = "contended" <=> ctx'[t].contended # None
      /\ ctx'[t] = NoCtx
      /\ \A u \in Threads \ {t} : SameLocks(u) /\ ctx'[u] = ctx[u]
  BY <1>1, <1>3, <1>4 DEF Context
<1> QED BY Zenon, <1>3, <1>4, <1>6, <1>7, <1>8, <1>9, WorkKeeps

------------------------------------------------------------------------------
(* Backing off. *)

LEMMA BackoffKeeps ==
  ASSUME IInv, NEW t \in Threads, load' = load, Backoff(t)
  PROVE  Step(t)
<1>1. /\ TypeOK /\ Tracked /\ th[t] \in Locals /\ Shape(th[t]) /\ Context(t)
      /\ (~load.alloc_fails => Sure(t))
  BY Parts
<1>2. /\ th[t].pc = "contended" /\ th[t].op \in {"all", "crtc", "detect"} /\ th[t].lap = "first"
      /\ th[t].plan \in Seq(Locks)
  BY <1>1 DEF Backoff, Shape, Locals
<1>3. Owns(t) /\ Live(t) /\ ctx[t].contended \in Locks
  BY <1>1, <1>2 DEF Context, Owns, CtxOps, Tracked
<1>4. /\ ctx' = [ctx EXCEPT ![t].contended = None]
      /\ th' = [th EXCEPT ![t] = [th[t] EXCEPT !.pc = "backoff", !.want = ctx[t].contended,
                                               !.todo = th[t].plan]]
      /\ UNCHANGED <<mutex, owner, lock_ctx, tickets, config_ctx, crtc_ctx>>
  BY <1>2 DEF Backoff, ResetContended, Set, Restart
<1>5. /\ ctx' \in [Threads -> [locked : Seq(Locks), contended : Locks \cup {None}]]
      /\ ctx'[t].locked = ctx[t].locked /\ ctx'[t].contended = None
      /\ \A u \in Threads \ {t} : ctx'[u] = ctx[u]
  BY Zenon, <1>1, <1>4 DEF Tracked
<1>6. Tracked' /\ \A u \in Threads : SameLocks(u)
  BY <1>1, <1>4, <1>5, LocksSame
<1> DEFINE x == [th[t] EXCEPT !.pc = "backoff", !.want = ctx[t].contended, !.todo = th[t].plan]
<1>7. /\ x \in Locals /\ x.pc = "backoff" /\ x.op = th[t].op /\ x.crtc = th[t].crtc
      /\ x.plane = th[t].plane /\ x.todo = th[t].plan /\ x.plan = th[t].plan
      /\ x.want \in Locks /\ x.drop = th[t].drop /\ x.lap = "first"
  BY Zenon, <1>1, <1>2, <1>3 DEF Locals
<1>8. th' = [th EXCEPT ![t] = x] /\ th'[t] = x
  BY <1>1, <1>4 DEF TypeOK
<1> HIDE DEF x
<1>9. Shape(x)
  BY <1>1, <1>2, <1>7 DEF Shape, PlainOps
<1>10. ASSUME ~load.alloc_fails PROVE Covers(x, Mine(t)')
  <2>1. Covers(th[t], Mine(t)) /\ CrtcPlan(x) = CrtcPlan(th[t])
    BY <1>1, <1>7, <1>10 DEF Sure, CrtcPlan
  <2> QED BY <1>2, <1>7, <2>1 DEF Covers, CoversAll, CoversCrtc
<1>11. Plain(t)' /\ (InSection(t)' <=> InSection(t))
  BY <1>2, <1>7, <1>8 DEF Plain, InSection
<1>12. Blocking => Held(t)' \ Mine(t)' = {}
  BY <1>2, <1>6, NothingPlain DEF SameLocks
<1>13. x.op # "none" /\ x.op # "try"
  BY <1>2, <1>7
<1>14. /\ x.lap = th[t].lap /\ x.pc # "mutex" /\ th[t].pc # "mutex"
       /\ x.pc = "contended" <=> ctx'[t].contended # None
       /\ \A u \in Threads \ {t} : SameLocks(u) /\ ctx'[u] = ctx[u]
  BY <1>2, <1>5, <1>6, <1>7
<1>15. UNCHANGED <<mutex, tickets, config_ctx, crtc_ctx>>
  BY Zenon, <1>4
<1>16. \A l \in Held(t)' \ Mine(t)' : Blocking => x.pc = "in" /\ x.op \in PlainOps /\ l = x.todo[1]
  BY Zenon, <1>12
<1> QED BY Zenon, <1>3, <1>6, <1>7, <1>8, <1>9, <1>10, <1>11, <1>13, <1>14, <1>15, <1>16, WorkKeeps

\* A thread drops a lock of its own context.
LEMMA DropOwn ==
  ASSUME IInv, NEW t \in Threads, load' = load, th[t].pc \in {"backoff", "drop"}, Live(t),
         DropOne(t), UNCHANGED <<mutex, tickets, config_ctx, crtc_ctx, th>>
  PROVE  Step(t)
<1>1. /\ TypeOK /\ Tracked /\ th[t] \in Locals /\ Shape(th[t]) /\ Context(t)
      /\ (~load.alloc_fails => Sure(t))
  BY Parts
<1>2. /\ Tracked' /\ ctx'[t].contended = ctx[t].contended
      /\ \A u \in Threads \ {t} : ctx'[u] = ctx[u] /\ SameLocks(u)
      /\ Held(t)' \ Mine(t)' \subseteq Held(t) \ Mine(t)
  BY <1>1, DropDrops
<1> DEFINE x == th[t]
<1>3. th' = [th EXCEPT ![t] = x] /\ th'[t] = x
  BY <1>1 DEF TypeOK
<1>4. /\ Plain(t)' /\ (InSection(t)' <=> InSection(t)) /\ (Owns(t)' <=> Owns(t))
      /\ x.op # "none" /\ x.pc # "mutex" /\ ~(x.op = "try" /\ x.pc = "lock")
  BY <1>1, <1>3 DEF Plain, InSection, Owns, Shape
<1>5. ASSUME ~load.alloc_fails PROVE Covers(x, Mine(t)')
  <2>1. Covers(x, Mine(t)) /\ x.lap = "first"
    BY <1>1, <1>5 DEF Sure, Shape, Locals
  <2> QED BY <2>1 DEF Covers, CoversAll, CoversCrtc
<1>6. Blocking => Held(t)' \ Mine(t)' = {}
  BY <1>2, NothingPlain
<1>7. x.pc = "contended" <=> ctx'[t].contended # None
  BY <1>1, <1>2 DEF Context
<1> HIDE DEF x
<1> QED BY Zenon, <1>1, <1>2, <1>3, <1>4, <1>5, <1>6, <1>7, WorkKeeps DEF x

LEMMA BackoffDropKeeps ==
  ASSUME IInv, NEW t \in Threads, load' = load, BackoffDrop(t)
  PROVE  Step(t)
<1>1. Shape(th[t]) /\ Context(t) /\ th[t] \in Locals
  BY Parts
<1>2. Live(t)
  BY <1>1 DEF BackoffDrop, Shape, Context, Owns, CtxOps, Locals
<1> QED BY <1>2, DropOwn DEF BackoffDrop

\* ww_mutex_lock_slow() takes the contended lock.
LEMMA SlowLockKeeps ==
  ASSUME IInv, NEW t \in Threads, load' = load, SlowLock(t)
  PROVE  Step(t)
<1> DEFINE l == th[t].want
<1>1. /\ TypeOK /\ Tracked /\ th[t] \in Locals /\ Shape(th[t]) /\ Context(t)
      /\ (~load.alloc_fails => Sure(t))
  BY Parts
<1>2. /\ th[t].pc = "backoff" /\ th[t].op \in {"all", "crtc", "detect"} /\ th[t].lap = "first"
      /\ l \in Locks /\ ctx[t].locked = <<>> /\ Grab(t, l)
      /\ ctx' = [ctx EXCEPT ![t].locked = <<l>>]
      /\ th' = [th EXCEPT ![t] = [th[t] EXCEPT !.pc = "lock", !.want = None]]
      /\ UNCHANGED <<mutex, tickets, config_ctx, crtc_ctx>>
  BY <1>1 DEF SlowLock, Shape, Locals, Set
<1>3. Owns(t) /\ Live(t) /\ ctx[t].contended = None
  BY <1>1, <1>2 DEF Context, Owns, CtxOps
<1> HIDE DEF l
<1>4. /\ ctx' \in [Threads -> [locked : Seq(Locks), contended : Locks \cup {None}]]
      /\ ctx'[t].locked = <<l>> /\ ctx'[t].contended = None
      /\ \A u \in Threads \ {t} : ctx'[u] = ctx[u]
  <2> DEFINE s == <<l>>
  <2>1. s \in Seq(Locks) /\ ctx' = [ctx EXCEPT ![t].locked = s]
    BY <1>2
  <2> HIDE DEF s
  <2>2. /\ ctx' \in [Threads -> [locked : Seq(Locks), contended : Locks \cup {None}]]
        /\ ctx'[t].locked = s /\ ctx'[t].contended = None
        /\ \A u \in Threads \ {t} : ctx'[u] = ctx[u]
    BY <1>1, <1>3, <2>1 DEF Tracked
  <2> QED BY <2>2, Zenon DEF s
<1>5. /\ Tracked' /\ Mine(t)' = Mine(t) \cup {l} /\ Held(t)' = Held(t) \cup {l}
      /\ \A u \in Threads \ {t} : SameLocks(u)
  <2>1. <<l>> = <<l>> \o ctx[t].locked
    BY <1>2
  <2>2. ctx'[t].locked = <<l>> \o ctx[t].locked
    BY <1>4, <2>1, Zenon
  <2>3. \A u \in Threads \ {t} : ctx'[u].locked = ctx[u].locked
    BY <1>4
  <2> QED BY Zenon, <1>1, <1>2, <1>4, <2>2, <2>3, GrabAdds
<1> DEFINE x == [th[t] EXCEPT !.pc = "lock", !.want = None]
<1>6. /\ x \in Locals /\ x.pc = "lock" /\ x.op = th[t].op /\ x.crtc = th[t].crtc
      /\ x.plane = th[t].plane /\ x.todo = th[t].todo /\ x.plan = th[t].plan
      /\ x.want = None /\ x.drop = th[t].drop /\ x.lap = "first"
  BY Zenon, <1>1, <1>2 DEF Locals
<1>7. th' = [th EXCEPT ![t] = x] /\ th'[t] = x
  BY <1>1, <1>2 DEF TypeOK
<1> HIDE DEF x
<1>8. Shape(x)
  BY <1>1, <1>2, <1>6 DEF Shape, PlainOps
<1>9. ASSUME ~load.alloc_fails PROVE Covers(x, Mine(t)')
  <2>1. /\ Covers(th[t], Mine(t)) /\ CrtcPlan(x) = CrtcPlan(th[t])
        /\ CrtcLocks(x) = CrtcLocks(th[t])
    BY <1>1, <1>6, <1>9 DEF Sure, CrtcPlan, CrtcLocks
  <2>2. x.op = "all" => Elements(x.todo) = Locks
    BY <1>2, <1>6, <2>1, AllElements DEF Covers, CoversAll
  <2>3. x.op = "crtc" => x.todo = CrtcPlan(x) /\ Elements(x.todo) = CrtcLocks(x)
    <3>1. x.op = "crtc" => x.crtc \in Crtcs /\ x.plane \in Planes \cup {None}
      BY <1>6, <1>8 DEF Shape, Locals
    <3>2. x.op = "crtc" => x.todo = CrtcPlan(x)
      BY <1>2, <1>6, <2>1 DEF Covers, CoversCrtc
    <3> QED BY <3>1, <3>2, PlanElements
  <2> QED BY <1>2, <1>6, <2>1, <2>2, <2>3 DEF Covers, CoversAll, CoversCrtc
<1>10. Plain(t)' /\ (InSection(t)' <=> InSection(t))
  BY <1>2, <1>6, <1>7 DEF Plain, InSection
<1>11. Blocking => Held(t)' \ Mine(t)' = {}
  BY <1>2, <1>5, NothingPlain
<1>12. x.op # "none" /\ x.op # "try" /\ \A u \in Threads \ {t} : SameLocks(u) /\ ctx'[u] = ctx[u]
  BY <1>2, <1>4, <1>5, <1>6
<1> QED BY Zenon, <1>2, <1>3, <1>4, <1>5, <1>6, <1>7, <1>8, <1>9, <1>10, <1>11, <1>12, WorkKeeps

------------------------------------------------------------------------------
(* Sections, and leaving the modeset code. *)

LEMMA IdleIsLocal ==
  /\ Idle \in Locals /\ Shape(Idle) /\ Idle.pc = "idle" /\ Idle.op = "none"
  /\ Idle.drop = None /\ Idle.lap = "first"
BY EmptyLists DEF Idle, At, Locals, Shape, PlainOps, CtxOps

\* A thread frees its own context, which is empty, and is done.
LEMMA LeaveKeeps ==
  ASSUME IInv, NEW t \in Threads, load' = load, th[t].pc \in {"lock", "drop"},
         th' = [th EXCEPT ![t] = Idle], AcquireFini(t), ctx[t].locked = <<>>,
         th[t].drop \in {None, t}, ~Stashed(t), \A u \in Threads \ {t} : th[u].drop # t,
         mutex' \in Threads \cup {None},
         ~load.alloc_fails => mutex' = mutex \/ (mutex = t /\ mutex' = None),
         Blocking => mutex' # t,
         UNCHANGED <<owner, lock_ctx, config_ctx, crtc_ctx>>
  PROVE  Step(t)
<1>1. /\ TypeOK /\ Tracked /\ TicketsOK /\ OnePlace
  BY Parts
<1>2. /\ th' \in [Threads -> Locals] /\ th'[t] = Idle
      /\ \A u \in Threads \ {t} : th'[u] = th[u]
  BY <1>1, IdleIsLocal DEF TypeOK
<1>3. /\ ctx' \in [Threads -> [locked : Seq(Locks), contended : Locks \cup {None}]]
      /\ ctx'[t] = NoCtx /\ \A u \in Threads \ {t} : ctx'[u] = ctx[u]
  <2>1. NoCtx \in [locked : Seq(Locks), contended : Locks \cup {None}]
    BY EmptyLists DEF NoCtx
  <2>2. ctx' = [ctx EXCEPT ![t] = NoCtx]
    BY DEF AcquireFini
  <2> QED BY <1>1, <2>1, <2>2 DEF Tracked
<1>4. \A u \in Threads : ctx'[u].locked = ctx[u].locked
  BY Zenon, <1>3, EmptyCtx
<1>5. Tracked' /\ \A u \in Threads : SameLocks(u)
  BY <1>1, <1>3, <1>4, LocksSame
<1>6. TicketsOK' /\ \A u \in Threads : Live(u)' <=> Live(u) /\ u # t
  BY <1>1, FiniDrops
<1>7. TypeOK'
  BY Zenon, <1>1, <1>2, <1>5, <1>6, Typed DEF TypeOK
<1>8. \A u \in Threads : SameStash(u) /\ (u # t => SameCtx(u))
  BY <1>3, <1>6 DEF SameStash, SameCtx
<1>9. OnePlace'
  <2>1. \A u \in Threads : Stashed(u)' <=> Stashed(u)
    BY DEF Stashed
  <2>2. \A u \in Threads : Dropped(u)' <=> Dropped(u) /\ u # t
    BY <1>2, IdleIsLocal, ModesetAssumption DEF Dropped
  <2>3. \A u \in Threads : Owns(u)' => Owns(u)
    BY <1>2, IdleIsLocal DEF Owns
  <2>4. \A u \in Threads : th'[u].drop # None => th'[u].drop = th[u].drop
    BY <1>2, IdleIsLocal
  <2>5. \A u \in Threads : Stashed(u)' \/ Dropped(u)' => Live(u)' /\ ~Owns(u)'
    BY Zenon, <1>1, <1>6, <2>1, <2>2, <2>3 DEF OnePlace
  <2>6. \A u \in Threads : ~(Stashed(u)' /\ Dropped(u)')
    BY <1>1, <2>1, <2>2 DEF OnePlace
  <2>7. /\ \A c \in Crtcs : crtc_ctx'[c] # None => config_ctx' # crtc_ctx'[c]
        /\ \A c, d \in Crtcs : crtc_ctx'[c] # None /\ crtc_ctx'[c] = crtc_ctx'[d] => c = d
    BY <1>1 DEF OnePlace
  <2>8. ASSUME NEW u \in Threads, NEW v \in Threads,
               th'[u].drop # None, th'[u].drop = th'[v].drop
        PROVE  u = v
    <3>1. th[u].drop = th'[u].drop /\ th[v].drop = th'[v].drop
      BY <2>4, <2>8
    <3> QED BY Zenon, <1>1, <2>8, <3>1 DEF OnePlace
  <2> QED BY Zenon, <2>5, <2>6, <2>7, <2>8 DEF OnePlace
<1>10. Context(t)' /\ Plain(t)'
  <2>1. ctx'[t] = NoCtx /\ ctx'[t].contended = None /\ th'[t] = Idle /\ ~Live(t)'
    BY <1>2, <1>3, <1>6, EmptyCtx
  <2>2. th'[t].pc = "idle" /\ th'[t].op = "none" /\ th'[t].lap = "first"
    BY Zenon, <2>1, IdleIsLocal
  <2>3. Context(t)'
    BY <2>1, <2>2 DEF Context, Owns
  <2>4. Plain(t)'
    BY <2>2 DEF Plain
  <2> QED BY <2>3, <2>4
<1>11. ASSUME ~load.alloc_fails PROVE Sure(t)'
  <2>1. config_ctx' # t /\ \A c \in Crtcs : crtc_ctx'[c] # t
    BY DEF Stashed
  <2>2. ~InSection(t)' /\ th'[t].pc # "drop" /\ ~HasMutex(t)'
    BY <1>2, IdleIsLocal DEF InSection, HasMutex
  <2>3. Covers(th'[t], Mine(t)')
    BY <1>2, IdleIsLocal DEF Covers
  <2> QED BY <2>1, <2>2, <2>3 DEF Sure, OwnStash
<1>12. ASSUME Blocking PROVE Clean(t)'
  <2>1. Held(t)' \ Mine(t)' = {}
    BY <1>5, <1>12, NothingPlain DEF SameLocks
  <2> QED BY <1>2, <1>6, <1>12, <2>1, IdleIsLocal DEF Clean
<1>13. ~load.alloc_fails => \A u \in Threads \ {t} : SameStash(u) /\ (mutex' = u <=> mutex = u)
  BY Zenon, <1>8, ModesetAssumption
<1>14. Shape(th'[t])
  BY <1>2, IdleIsLocal
<1> QED BY Zenon, <1>2, <1>5, <1>7, <1>8, <1>9, <1>10, <1>11, <1>12, <1>13, <1>14, StepKeeps

\* modeset_lock() with ctx->trylock_only meets a busy lock.
LEMMA TryLockKeeps ==
  ASSUME IInv, NEW t \in Threads, load' = load, TryLock(t)
  PROVE  Step(t)
<1> DEFINE l == Head(th[t].todo)
<1>1. /\ th[t].pc = "lock" /\ th[t].todo # <<>> /\ th[t].op = "try"
      /\ UNCHANGED <<mutex, lock_ctx, config_ctx, crtc_ctx>>
  BY DEF TryLock
<1>2. CASE owner[l] = None /\ owner' = [owner EXCEPT ![l] = t] /\ Advance(t, l) /\ UNCHANGED <<tickets, ctx>>
  BY Zenon, <1>1, <1>2, TryLockFree
<1>3. CASE owner[l] # None /\ Set(t, Idle) /\ AcquireFini(t) /\ UNCHANGED owner
  <2>1. /\ TypeOK /\ OnePlace /\ th[t] \in Locals /\ Shape(th[t]) /\ Context(t)
        /\ (Blocking => Clean(t))
    BY Parts
  <2>2. th[t].lap = "first" /\ th[t].drop = None
    BY <1>1, <2>1 DEF Shape, Locals
  <2>3. Owns(t) /\ ctx[t].locked = <<>> /\ ~Blocking
    <3>1. Owns(t) /\ ~Blocking
      BY <1>1, <2>1, <2>2 DEF Owns, CtxOps, Clean
    <3>2. ctx[t] = NoCtx
      BY <1>1, <2>1 DEF Context
    <3> QED BY <3>1, <3>2, EmptyCtx
  <2>4. ~Stashed(t) /\ \A u \in Threads : th[u].drop # t
    BY <2>1, <2>3, NotStashed DEF Stashed
  <2> QED BY Zenon, <1>1, <1>3, <2>1, <2>2, <2>3, <2>4, LeaveKeeps DEF Set, TypeOK
<1> QED BY <1>2, <1>3 DEF TryLock

\* Lemmas about sections: the context goes into its stash.
LEMMA EnterPlaces ==
  ASSUME IInv, NEW t \in Threads, Enter(t),
         th'[t].pc = "in", th'[t].op = th[t].op, th'[t].lap = th[t].lap,
         \A u \in Threads : th'[u].drop = th[u].drop,
         \A u \in Threads \ {t} : th'[u] = th[u]
  PROVE  OnePlace'
<1>1. /\ TypeOK /\ OnePlace /\ th[t] \in Locals /\ Shape(th[t]) /\ Context(t)
  BY Parts
<1>2. \A u \in Threads : (Live(u)' <=> Live(u)) /\ (Dropped(u)' <=> Dropped(u))
  BY DEF Enter, Live, Dropped
<1>3. CASE th[t].lap = "further" \/ th[t].op \notin {"all", "try", "crtc"}
  <2>1. UNCHANGED <<config_ctx, crtc_ctx>>
    BY <1>3 DEF Enter
  <2>2. \A u \in Threads : Owns(u)' => Owns(u) \/ ~Live(u)
    BY <1>3 DEF Owns, CtxOps, Enter
  <2>3. \A u \in Threads : Stashed(u) \/ Dropped(u) => Live(u)'
    BY Zenon, <1>1, <1>2 DEF OnePlace
  <2> QED BY <1>1, <2>1, <2>2, <2>3, PlaceKeeps
<1>4. CASE th[t].lap = "first" /\ th[t].op \in {"all", "try", "crtc"}
  <2>1. Owns(t) /\ ~Owns(t)' /\ Live(t)
    BY <1>1, <1>4 DEF Owns, CtxOps, Context, Enter
  <2>2. config_ctx # t /\ (\A c \in Crtcs : crtc_ctx[c] # t) /\ \A u \in Threads : th[u].drop # t
    BY <1>1, <2>1, NotStashed
  <2>3. \A u \in Threads : Owns(u)' => Owns(u)
    BY <2>1 DEF Owns
  <2>4. CASE th[t].op \in {"all", "try"}
    <3>1. config_ctx' = t /\ crtc_ctx' = crtc_ctx
      BY <1>4, <2>4 DEF Enter
    <3>2. \A u \in Threads : Stashed(u)' => Stashed(u) \/ u = t
      BY <3>1 DEF Stashed
    <3>3. \A u \in Threads : Stashed(u)' \/ Dropped(u)' => Live(u)' /\ ~Owns(u)'
      BY <1>1, <1>2, <2>1, <2>3, <3>2 DEF OnePlace
    <3>4. \A u \in Threads : ~(Stashed(u)' /\ Dropped(u)')
      BY <1>1, <1>2, <2>2, <3>2 DEF OnePlace, Dropped
    <3>5. /\ \A c \in Crtcs : crtc_ctx'[c] # None => config_ctx' # crtc_ctx'[c]
          /\ \A c, d \in Crtcs : crtc_ctx'[c] # None /\ crtc_ctx'[c] = crtc_ctx'[d] => c = d
      BY <1>1, <2>2, <3>1 DEF OnePlace
    <3>6. \A u, v \in Threads : th'[u].drop # None /\ th'[u].drop = th'[v].drop => u = v
      BY Zenon, <1>1 DEF OnePlace
    <3> QED BY Zenon, <3>3, <3>4, <3>5, <3>6 DEF OnePlace
  <2>5. CASE th[t].op = "crtc"
    <3>1. /\ config_ctx' = config_ctx /\ th[t].crtc \in Crtcs /\ crtc_ctx'[th[t].crtc] = t
          /\ \A c \in Crtcs \ {th[t].crtc} : crtc_ctx'[c] = crtc_ctx[c]
      BY <1>1, <1>4, <2>5 DEF Enter, Shape, TypeOK
    <3>2. \A u \in Threads : Stashed(u)' => Stashed(u) \/ u = t
      BY <3>1 DEF Stashed
    <3>3. \A u \in Threads : Stashed(u)' \/ Dropped(u)' => Live(u)' /\ ~Owns(u)'
      BY Zenon, <1>1, <1>2, <2>1, <2>3, <3>2 DEF OnePlace
    <3>4. \A u \in Threads : ~(Stashed(u)' /\ Dropped(u)')
      BY Zenon, <1>1, <1>2, <2>2, <3>2 DEF OnePlace, Dropped
    <3>5. /\ \A c \in Crtcs : crtc_ctx'[c] # None => config_ctx' # crtc_ctx'[c]
          /\ \A c, d \in Crtcs : crtc_ctx'[c] # None /\ crtc_ctx'[c] = crtc_ctx'[d] => c = d
      BY <1>1, <2>2, <3>1 DEF OnePlace
    <3>6. \A u, v \in Threads : th'[u].drop # None /\ th'[u].drop = th'[v].drop => u = v
      BY Zenon, <1>1 DEF OnePlace
    <3> QED BY Zenon, <3>3, <3>4, <3>5, <3>6 DEF OnePlace
  <2> QED BY <1>4, <2>4, <2>5
<1> QED BY <1>1, <1>3, <1>4 DEF Locals

=============================================================================

-------------------------- MODULE ModesetLockProofs --------------------------
(***************************************************************************)
(* The steps that enter, leave and undo a section of the modeset locks     *)
(* keep the inductive invariant too, and what follows from it.             *)
(***************************************************************************)
EXTENDS ModesetLockSteps

LEMMA EnterKeeps ==
  ASSUME IInv, NEW t \in Threads, load' = load, Enter(t)
  PROVE  Step(t)
<1>1. /\ TypeOK /\ Tracked /\ TicketsOK /\ OnePlace /\ th[t] \in Locals /\ Shape(th[t])
      /\ Context(t) /\ (~load.alloc_fails => Sure(t)) /\ (Blocking => Clean(t))
  BY Parts
<1> DEFINE x == [th[t] EXCEPT !.pc = "in", !.plan = <<>>]
<1>2. /\ x \in Locals /\ x.pc = "in" /\ x.op = th[t].op /\ x.crtc = th[t].crtc
      /\ x.plane = th[t].plane /\ x.todo = <<>> /\ x.plan = <<>>
      /\ x.want = th[t].want /\ x.drop = th[t].drop /\ x.lap = th[t].lap
  BY Zenon, <1>1, EmptyLists DEF Locals, Enter
<1>3. Set(t, x) /\ th[t].pc = "lock" /\ th[t].todo = <<>>
      /\ UNCHANGED <<mutex, owner, lock_ctx, tickets, ctx>>
  BY DEF Enter
<1> HIDE DEF x
<1>4. /\ th' \in [Threads -> Locals] /\ th'[t] = x
      /\ \A u \in Threads \ {t} : th'[u] = th[u]
  BY <1>1, <1>2, <1>3, SetSets
<1>5. th[t].op \in CtxOps /\ x.drop = None
  BY <1>1, <1>2, <1>3 DEF Shape, CtxOps, PlainOps, Locals
<1>6. Shape(x)
  BY <1>1, <1>2, <1>3, <1>5 DEF Shape, CtxOps, PlainOps
<1>7. Tracked' /\ \A u \in Threads : SameLocks(u)
  BY <1>1, <1>3, LocksSame DEF Tracked
<1>8. \A u \in Threads : SameCtx(u) /\ (Live(u)' <=> Live(u))
  BY <1>3 DEF SameCtx, Live
<1>9. /\ config_ctx' \in Threads \cup {None} /\ crtc_ctx' \in [Crtcs -> Threads \cup {None}]
  BY Zenon, <1>1 DEF Enter, TypeOK
<1>10. TypeOK'
  BY <1>1, <1>3, <1>4, <1>7, <1>9, Typed DEF TicketsOK, TypeOK
<1>11. OnePlace'
  BY <1>2, <1>4, EnterPlaces
<1>12. Context(t)'
  BY <1>1, <1>2, <1>3, <1>4, <1>5, <1>8 DEF Context, Owns, SameCtx, CtxOps
<1>13. Plain(t)'
  BY <1>2, <1>4, <1>5 DEF Plain, CtxOps, PlainOps
<1>14. ASSUME ~load.alloc_fails
       PROVE  Sure(t)' /\ \A u \in Threads \ {t} : SameStash(u)
  <2>1. \A u \in Threads : Sure(u)
    BY <1>14, Parts
  <2>2. /\ th[t].op = "all" => Locks \subseteq Mine(t)
        /\ th[t].op = "crtc" => CrtcLocks(th[t]) \subseteq Mine(t)
    <3>1. Elements(th[t].todo) = {} /\ th[t].lap \in {"first", "further"}
      BY <1>1, <1>3, NoElement DEF Locals
    <3> QED BY <1>3, <2>1, <3>1 DEF Sure, Covers, CoversAll, CoversCrtc
  <2>3. CrtcLocks(x) = CrtcLocks(th[t])
    BY <1>2 DEF CrtcLocks
  <2>4. Covers(th'[t], Mine(t)')
    BY <1>2, <1>3, <1>4, <1>7, <2>2, <2>3, NoElement DEF Covers, CoversAll, CoversCrtc, SameLocks
  <2>5. HasMutex(t)' => mutex' = t
    BY <1>2, <1>3, <1>4, <2>1 DEF Sure, HasMutex
  <2>6. CASE th[t].lap = "further" \/ th[t].op = "detect"
    <3>1. UNCHANGED <<config_ctx, crtc_ctx>>
      BY <2>6 DEF Enter
    <3>2. OwnStash(t)'
      BY <1>2, <1>3, <1>4, <2>1, <2>6, <3>1 DEF Sure, OwnStash, InSection
    <3> QED BY <2>4, <2>5, <3>1, <3>2 DEF Sure, SameStash
  <2>7. CASE th[t].lap = "first" /\ th[t].op \in {"all", "try"}
    <3>1. config_ctx' = t /\ crtc_ctx' = crtc_ctx
      BY <2>7 DEF Enter
    <3>2. config_ctx = None
      <4>1. ASSUME NEW u \in Threads, config_ctx = u PROVE FALSE
        <5>1. InSection(u) /\ th[u].op \in {"all", "try"} /\ Shape(th[u])
          BY <2>1, <4>1, Parts DEF Sure, OwnStash
        <5>2. HasMutex(u) /\ HasMutex(t)
          BY <1>3, <2>7, <5>1 DEF HasMutex, InSection, Shape
        <5>3. u = t
          BY <2>1, <5>2 DEF Sure
        <5> QED BY <1>3, <2>7, <5>1, <5>3 DEF InSection
      <4> QED BY <1>1, <4>1 DEF TypeOK
    <3>3. \A c \in Crtcs : crtc_ctx[c] # t
      BY <2>1, <2>7 DEF Sure, OwnStash
    <3>4. OwnStash(t)'
      BY <1>2, <1>4, <2>7, <3>1, <3>3 DEF OwnStash, InSection
    <3>5. \A u \in Threads \ {t} : SameStash(u)
      BY <3>1, <3>2, ModesetAssumption DEF SameStash
    <3> QED BY <2>4, <2>5, <3>4, <3>5 DEF Sure
  <2>8. CASE th[t].lap = "first" /\ th[t].op = "crtc"
    <3> DEFINE c == th[t].crtc
    <3>1. /\ config_ctx' = config_ctx /\ c \in Crtcs /\ crtc_ctx'[c] = t
          /\ \A d \in Crtcs \ {c} : crtc_ctx'[d] = crtc_ctx[d]
      BY <1>1, <1>3, <2>8 DEF Enter, Shape, TypeOK
    <3>2. c \in Mine(t)
      BY <2>2, <2>8, <3>1, ModesetAssumption DEF CrtcLocks, Locks
    <3>3. crtc_ctx[c] = None
      <4>1. ASSUME NEW u \in Threads, crtc_ctx[c] = u PROVE FALSE
        <5>1. InSection(u) /\ th[u].op = "crtc" /\ th[u].crtc = c
          BY <2>1, <3>1, <4>1 DEF Sure, OwnStash
        <5>2. c \in Mine(u)
          BY <2>1, <3>1, <5>1, ModesetAssumption
             DEF Sure, Covers, CoversCrtc, CrtcLocks, InSection, Locks
        <5>3. u = t
          BY <3>2, <5>2 DEF Mine
        <5> QED BY <1>3, <2>8, <5>1, <5>3 DEF InSection
      <4> QED BY <1>1, <3>1, <4>1 DEF TypeOK
    <3>4. config_ctx # t /\ \A d \in Crtcs : crtc_ctx[d] = t => d = c
      BY <2>1, <2>8 DEF Sure, OwnStash
    <3>5. OwnStash(t)'
      BY <1>2, <1>4, <2>8, <3>1, <3>4 DEF OwnStash, InSection
    <3>6. \A u \in Threads \ {t} : SameStash(u)
      BY <3>1, <3>3, ModesetAssumption DEF SameStash
    <3> QED BY <2>4, <2>5, <3>5, <3>6 DEF Sure
  <2> QED BY <1>1, <1>5, <2>6, <2>7, <2>8 DEF Locals, CtxOps
<1>15. ASSUME Blocking PROVE Clean(t)'
  <2>1. Held(t)' \ Mine(t)' = {} /\ Clean(t)
    BY <1>1, <1>3, <1>7, <1>15, NothingPlain DEF SameLocks
  <2>2. HasMutex(t)' <=> HasMutex(t)
    BY <1>2, <1>3, <1>4 DEF HasMutex
  <2> QED BY <1>2, <1>3, <1>4, <1>8, <2>1, <2>2 DEF Clean
<1> QED BY <1>3, <1>4, <1>6, <1>7, <1>8, <1>10, <1>11, <1>12, <1>13, <1>14, <1>15, StepKeeps

\* The atomic helpers ask for locks inside a section.
LEMMA FurtherKeeps ==
  ASSUME IInv, NEW t \in Threads, Further(t)
  PROVE  Step(t)
<1>1. /\ TypeOK /\ Tracked /\ TicketsOK /\ OnePlace /\ th[t] \in Locals /\ Shape(th[t])
      /\ Context(t) /\ (~load.alloc_fails => Sure(t)) /\ (Blocking => Clean(t))
  BY Parts
<1>2. PICK l \in IF th[t].op = "crtc" THEN {th[t].crtc, th[t].plane} \ {None} ELSE Locks :
        Set(t, [th[t] EXCEPT !.pc = "lock", !.todo = <<l>>, !.lap = "further"])
  BY Zenon DEF Further
<1>3. /\ th[t].pc = "in" /\ th[t].op \in load.further /\ th[t].lap = "first" /\ load' = load
      /\ UNCHANGED <<mutex, owner, lock_ctx, tickets, ctx, config_ctx, crtc_ctx>>
  BY DEF Further
<1>4. ~load.alloc_fails /\ th[t].op \in {"all", "crtc"}
  <2>1. load \in Workload /\ (load.alloc_fails => load.further = {})
    BY <1>1, ModesetAssumption DEF TypeOK
  <2> QED BY <1>3, <2>1 DEF Workload
<1>5. l \in Locks /\ (th[t].op = "crtc" => l \in CrtcLocks(th[t]))
  BY <1>1, <1>2, <1>3 DEF Shape, Locals, Locks, CrtcLocks
<1> DEFINE s == <<l>>
           x == [th[t] EXCEPT !.pc = "lock", !.todo = s, !.lap = "further"]
<1>6. s \in Seq(Locks) /\ Elements(s) = {l}
  BY <1>5, OneElement
<1>7. Set(t, x)
  BY <1>2
<1> HIDE DEF s
<1>8. /\ x \in Locals /\ x.pc = "lock" /\ x.op = th[t].op /\ x.crtc = th[t].crtc
      /\ x.plane = th[t].plane /\ x.todo = s /\ x.plan = th[t].plan
      /\ x.want = th[t].want /\ x.drop = th[t].drop /\ x.lap = "further"
  BY Zenon, <1>1, <1>6 DEF Locals
<1> HIDE DEF x
<1>9. /\ th' \in [Threads -> Locals] /\ th'[t] = x
      /\ \A u \in Threads \ {t} : th'[u] = th[u]
  BY <1>1, <1>7, <1>8, SetSets
<1>10. Shape(x)
  BY <1>1, <1>3, <1>4, <1>8 DEF Shape, CtxOps, PlainOps
<1>11. Tracked' /\ \A u \in Threads : SameLocks(u)
  BY <1>1, <1>3, LocksSame DEF Tracked
<1>12. \A u \in Threads : SameCtx(u) /\ SameStash(u) /\ (Live(u)' <=> Live(u))
  BY <1>3 DEF SameCtx, SameStash, Live
<1>13. TypeOK'
  BY <1>1, <1>3, <1>9, <1>11, Typed DEF TicketsOK, TypeOK
<1>14. OnePlace'
  <2>1. \A u \in Threads : th'[u].drop = th[u].drop
    BY <1>8, <1>9
  <2>2. \A u \in Threads : Owns(u)' => Owns(u) \/ ~Live(u)
    BY <1>8, <1>9 DEF Owns
  <2>3. \A u \in Threads : Stashed(u) \/ Dropped(u) => Live(u)'
    BY <1>1, <1>12 DEF OnePlace
  <2> QED BY <1>1, <1>3, <2>1, <2>2, <2>3, PlaceKeeps
<1>15. Context(t)' /\ Plain(t)'
  BY <1>1, <1>3, <1>4, <1>8, <1>9, <1>12 DEF Context, Owns, SameCtx, Plain
<1>16. Sure(t)'
  <2>1. Sure(t) /\ CrtcLocks(x) = CrtcLocks(th[t])
    BY <1>1, <1>4, <1>8 DEF CrtcLocks
  <2>2. Covers(th'[t], Mine(t)')
    BY <1>3, <1>4, <1>5, <1>6, <1>8, <1>9, <1>11, <2>1
       DEF Sure, Covers, CoversAll, CoversCrtc, SameLocks
  <2>3. InSection(t) /\ InSection(t)' /\ (HasMutex(t)' <=> HasMutex(t))
    BY <1>3, <1>8, <1>9 DEF InSection, HasMutex
  <2> QED BY <1>3, <1>8, <1>9, <2>1, <2>2, <2>3 DEF Sure, OwnStash
<1>17. ASSUME Blocking PROVE Clean(t)'
  <2>1. Clean(t) /\ (HasMutex(t)' <=> HasMutex(t))
    BY <1>1, <1>3, <1>8, <1>9, <1>17 DEF HasMutex
  <2>2. Held(t)' \ Mine(t)' = {}
    BY <1>4, <1>11, <2>1 DEF Clean, SameLocks, PlainOps
  <2> QED BY <1>3, <1>8, <1>9, <1>12, <2>1, <2>2 DEF Clean
<1> QED BY <1>3, <1>9, <1>10, <1>11, <1>12, <1>13, <1>14, <1>15, <1>16, <1>17, StepKeeps

\* The context is taken out of its stash: it is now in the hands of the unlock.
LEMMA UnlockPlaces ==
  ASSUME IInv, NEW t \in Threads, th[t].pc = "in", th[t].op \in CtxOps,
         NEW u \in Threads \cup {None},
         u = CASE th[t].op = "crtc" -> crtc_ctx[th[t].crtc]
               [] th[t].op = "detect" -> t
               [] OTHER -> config_ctx,
         config_ctx' = IF th[t].op \in {"all", "try"} THEN None ELSE config_ctx,
         crtc_ctx' = IF th[t].op = "crtc" THEN [crtc_ctx EXCEPT ![th[t].crtc] = None] ELSE crtc_ctx,
         tickets' = tickets,
         th'[t].drop = u, th'[t].pc \in {"idle", "drop"},
         \A v \in Threads \ {t} : th'[v] = th[v]
  PROVE  OnePlace'
<1>1. /\ TypeOK /\ OnePlace /\ th[t] \in Locals /\ Shape(th[t]) /\ Context(t)
  BY Parts
<1>2. th[t].drop = None /\ (th[t].op = "crtc" => th[t].crtc \in Crtcs)
  BY <1>1 DEF Shape
<1>3. \A v \in Threads : (Live(v)' <=> Live(v)) /\ (Owns(v)' => Owns(v) /\ v # t)
  BY DEF Live, Owns
<1>4. \A v \in Threads : Dropped(v)' <=> Dropped(v) \/ v = u
  BY <1>2, ModesetAssumption DEF Dropped
<1>5. /\ config_ctx' # None => config_ctx' = config_ctx
      /\ \A c \in Crtcs : crtc_ctx'[c] # None => crtc_ctx'[c] = crtc_ctx[c]
      /\ u # None => config_ctx' # u /\ \A c \in Crtcs : crtc_ctx'[c] # u
  <2>1. CASE th[t].op = "detect"
    <3>1. u = t /\ config_ctx' = config_ctx /\ crtc_ctx' = crtc_ctx
      BY <2>1
    <3>2. Owns(t) \/ ~Live(t)
      BY <1>1, <2>1 DEF Owns, CtxOps, Shape, Locals
    <3> QED BY <1>1, <3>1, <3>2, NotStashed
  <2>2. CASE th[t].op = "crtc"
    <3>1. /\ u = crtc_ctx[th[t].crtc] /\ config_ctx' = config_ctx /\ crtc_ctx'[th[t].crtc] = None
          /\ \A c \in Crtcs \ {th[t].crtc} : crtc_ctx'[c] = crtc_ctx[c]
      BY <1>1, <1>2, <2>2 DEF TypeOK
    <3> QED BY <1>1, <1>2, <2>2, <3>1 DEF OnePlace
  <2>3. CASE th[t].op \in {"all", "try"}
    <3>1. u = config_ctx /\ config_ctx' = None /\ crtc_ctx' = crtc_ctx
      BY <2>3
    <3> QED BY <1>1, <3>1 DEF OnePlace
  <2> QED BY <2>1, <2>2, <2>3 DEF CtxOps
<1>6. u # None => Live(u) /\ ~Owns(u)' /\ ~Dropped(u)
  <2>1. CASE th[t].op = "detect"
    <3>1. u = t /\ Owns(t)
      BY <1>1, <2>1 DEF Owns, CtxOps, Shape, Locals
    <3> QED BY <1>1, <1>3, <3>1, NotStashed DEF Context, Dropped
  <2>2. CASE th[t].op # "detect"
    <3>1. u # None => Stashed(u)
      BY <1>2, <2>2 DEF Stashed, CtxOps
    <3> QED BY <1>1, <1>3, <3>1 DEF OnePlace
  <2> QED BY <2>1, <2>2
<1>7. \A v \in Threads : Stashed(v)' => Stashed(v) /\ v # u
  BY <1>5, ModesetAssumption DEF Stashed
<1>8. \A v \in Threads : Stashed(v)' \/ Dropped(v)' => Live(v)' /\ ~Owns(v)'
  BY <1>1, <1>3, <1>4, <1>6, <1>7, ModesetAssumption DEF OnePlace
<1>9. \A v \in Threads : ~(Stashed(v)' /\ Dropped(v)')
  BY <1>1, <1>4, <1>7 DEF OnePlace
<1>10. \A v, w \in Threads : th'[v].drop # None /\ th'[v].drop = th'[w].drop => v = w
  <2>1. \A v \in Threads \ {t} : u # None => th'[v].drop # u
    BY <1>6 DEF Dropped
  <2> QED BY <1>1, <2>1 DEF OnePlace
<1>11. /\ \A c \in Crtcs : crtc_ctx'[c] # None => config_ctx' # crtc_ctx'[c]
       /\ \A c, d \in Crtcs : crtc_ctx'[c] # None /\ crtc_ctx'[c] = crtc_ctx'[d] => c = d
  BY <1>1, <1>5 DEF OnePlace
<1> QED BY <1>8, <1>9, <1>10, <1>11 DEF OnePlace

LEMMA UnlockKeeps ==
  ASSUME IInv, NEW t \in Threads, load' = load, Unlock(t)
  PROVE  Step(t)
<1>1. /\ TypeOK /\ Tracked /\ TicketsOK /\ OnePlace /\ th[t] \in Locals /\ Shape(th[t])
      /\ Context(t) /\ (~load.alloc_fails => Sure(t)) /\ (Blocking => Clean(t))
  BY Parts
<1> DEFINE u == CASE th[t].op = "crtc" -> crtc_ctx[th[t].crtc]
                  [] th[t].op = "detect" -> t
                  [] OTHER -> config_ctx
           a == At("drop", th[t].op, None, None, <<>>, <<>>)
           x == IF u = None THEN Idle ELSE [a EXCEPT !.drop = u]
<1>2. /\ th[t].pc = "in" /\ th[t].op \in CtxOps /\ Set(t, x)
      /\ UNCHANGED <<mutex, owner, lock_ctx, tickets, ctx>>
      /\ config_ctx' = IF th[t].op \in {"all", "try"} THEN None ELSE config_ctx
      /\ crtc_ctx' = IF th[t].op = "crtc" THEN [crtc_ctx EXCEPT ![th[t].crtc] = None] ELSE crtc_ctx
  BY DEF Unlock, CtxOps
<1>3. u \in Threads \cup {None}
  <2>1. th[t].op = "crtc" => th[t].crtc \in Crtcs
    BY <1>1, <1>2 DEF Shape
  <2>2. CASE th[t].op = "crtc"
    BY <1>1, <2>1, <2>2 DEF TypeOK
  <2>3. CASE th[t].op = "detect"
    BY <2>3
  <2>4. CASE th[t].op \notin {"crtc", "detect"}
    BY <1>1, <2>4 DEF TypeOK
  <2> QED BY <2>2, <2>3, <2>4
<1> HIDE DEF u
<1>4. /\ a \in Locals /\ a.pc = "drop" /\ a.op = th[t].op /\ a.lap = "first"
  BY <1>1, EmptyLists DEF At, Locals
<1> HIDE DEF a
<1>5. /\ x \in Locals /\ x.drop = u /\ x.lap = "first"
      /\ u = None => x = Idle
      /\ u # None => x.pc = "drop" /\ x.op = th[t].op
  BY <1>3, <1>4, IdleIsLocal DEF Locals
<1> HIDE DEF x
<1>6. /\ Shape(x) /\ x.pc \in {"idle", "drop"}
  <2>1. CASE u = None
    BY <1>5, <2>1, IdleIsLocal
  <2>2. CASE u # None
    BY <1>2, <1>5, <2>2 DEF Shape, PlainOps, CtxOps
  <2> QED BY <2>1, <2>2
<1>7. /\ th' \in [Threads -> Locals] /\ th'[t] = x
      /\ \A v \in Threads \ {t} : th'[v] = th[v]
  BY <1>1, <1>2, <1>5, SetSets
<1>8. Tracked' /\ \A v \in Threads : SameLocks(v)
  BY <1>1, <1>2, LocksSame DEF Tracked
<1>9. \A v \in Threads : SameCtx(v) /\ (Live(v)' <=> Live(v))
  BY <1>2 DEF SameCtx, Live
<1>10. /\ config_ctx' \in Threads \cup {None} /\ crtc_ctx' \in [Crtcs -> Threads \cup {None}]
  BY Zenon, <1>1, <1>2 DEF TypeOK
<1>11. TypeOK'
  BY <1>1, <1>2, <1>7, <1>8, <1>10, Typed DEF TicketsOK, TypeOK
<1>12. OnePlace'
  BY <1>2, <1>3, <1>5, <1>6, <1>7, UnlockPlaces DEF u
<1>13. Context(t)'
  BY <1>1, <1>2, <1>5, <1>6, <1>7, <1>9 DEF Context, Owns, SameCtx
<1>14. Plain(t)'
  BY <1>6, <1>7 DEF Plain
<1>15. CASE load.alloc_fails
  <2>1. ASSUME NEW v \in Threads PROVE Shape(th'[v]) /\ Context(v)' /\ Plain(v)'
    <3>1. CASE v = t
      BY <1>6, <1>7, <1>13, <1>14, <3>1
    <3>2. CASE v # t
      <4>1. th[v] \in Locals /\ Shape(th[v]) /\ Context(v) /\ Plain(v)
        BY Parts
      <4>2. th'[v] = th[v] /\ SameCtx(v) /\ SameLocks(v)
        BY <1>7, <1>8, <1>9, <3>2
      <4> QED BY <1>1, <1>8, <4>1, <4>2, ContextFrame, PlainFrame DEF SameLocks
    <3> QED BY <3>1, <3>2
  <2> QED BY <1>8, <1>11, <1>12, <1>15, <2>1, ForeignKeeps
<1>16. CASE ~load.alloc_fails
  <2>1. Sure(t) /\ InSection(t)
    BY <1>1, <1>2, <1>16 DEF InSection
  <2>2. u = t
    BY <1>2, <2>1 DEF u, Sure, OwnStash, CtxOps
  <2>3. x.pc = "drop" /\ x.op = th[t].op /\ x.drop = t
    BY <1>5, <2>2, ModesetAssumption
  <2>4. config_ctx' # t /\ \A c \in Crtcs : crtc_ctx'[c] # t
    <3>1. CASE th[t].op = "detect"
      BY <1>2, <2>1, <3>1 DEF Sure, OwnStash
    <3>2. CASE th[t].op = "crtc"
      <4>1. th[t].crtc \in Crtcs
        BY <1>1, <1>2, <3>2 DEF Shape
      <4>2. /\ config_ctx' = config_ctx /\ crtc_ctx'[th[t].crtc] = None
            /\ \A c \in Crtcs \ {th[t].crtc} : crtc_ctx'[c] = crtc_ctx[c]
        BY <1>1, <1>2, <3>2, <4>1 DEF TypeOK
      <4> QED BY <2>1, <3>2, <4>2, ModesetAssumption DEF Sure, OwnStash
    <3>3. CASE th[t].op \in {"all", "try"}
      BY <1>2, <2>1, <3>3, ModesetAssumption DEF Sure, OwnStash
    <3> QED BY <1>2, <3>1, <3>2, <3>3 DEF CtxOps
  <2>5. \A v \in Threads \ {t} : SameStash(v)
    <3>1. CASE th[t].op = "detect"
      BY <1>2, <3>1 DEF SameStash
    <3>2. CASE th[t].op = "crtc"
      <4>1. th[t].crtc \in Crtcs /\ crtc_ctx[th[t].crtc] = t
        BY Zenon, <1>1, <1>2, <2>1, <3>2 DEF Shape, Sure, OwnStash
      <4>2. /\ config_ctx' = config_ctx /\ crtc_ctx'[th[t].crtc] = None
            /\ \A c \in Crtcs \ {th[t].crtc} : crtc_ctx'[c] = crtc_ctx[c]
        BY <1>1, <1>2, <3>2, <4>1 DEF TypeOK
      <4> QED BY <4>1, <4>2, ModesetAssumption DEF SameStash
    <3>3. CASE th[t].op \in {"all", "try"}
      <4>1. config_ctx = t /\ config_ctx' = None /\ crtc_ctx' = crtc_ctx
        BY <1>2, <2>1, <3>3 DEF Sure, OwnStash
      <4> QED BY <4>1, ModesetAssumption DEF SameStash
    <3> QED BY <1>2, <3>1, <3>2, <3>3 DEF CtxOps
  <2>6. Sure(t)'
    <3>1. ~InSection(t)' /\ (HasMutex(t)' <=> HasMutex(t))
      BY <1>2, <1>5, <1>7, <2>3 DEF InSection, HasMutex
    <3>2. Covers(th'[t], Mine(t)')
      BY <1>5, <1>7, <2>3 DEF Covers, CoversAll, CoversCrtc
    <3> QED BY <1>2, <1>7, <2>1, <2>3, <2>4, <3>1, <3>2 DEF Sure, OwnStash
  <2>7. ASSUME Blocking PROVE Clean(t)'
    <3>1. Clean(t) /\ (HasMutex(t)' <=> HasMutex(t))
      BY <1>1, <1>2, <1>7, <2>3, <2>7 DEF HasMutex
    <3>2. Held(t)' \ Mine(t)' = {}
      BY <1>2, <1>8, <3>1 DEF Clean, SameLocks, PlainOps, CtxOps
    <3> QED BY <1>2, <1>7, <1>9, <2>3, <3>1, <3>2 DEF Clean
  <2> QED BY <1>2, <1>6, <1>7, <1>8, <1>9, <1>11, <1>12, <1>13, <1>14, <2>5, <2>6, <2>7, StepKeeps
<1> QED BY <1>15, <1>16

\* One lock dropped by an unlock, perhaps of the context of somebody else.
LEMMA UnlockDropKeeps ==
  ASSUME IInv, NEW t \in Threads, load' = load, UnlockDrop(t)
  PROVE  Step(t)
<1>1. /\ TypeOK /\ Tracked /\ TicketsOK /\ OnePlace /\ th[t] \in Locals /\ Shape(th[t])
      /\ (~load.alloc_fails => Sure(t))
  BY Parts
<1>2. th[t].pc = "drop" /\ UNCHANGED <<mutex, tickets, config_ctx, crtc_ctx, th>>
  BY DEF UnlockDrop
<1>3. PICK u \in Threads : u = th[t].drop /\ DropOne(u)
  BY <1>1 DEF UnlockDrop, Shape, Locals
<1>4. Dropped(u) /\ Live(u) /\ ~Owns(u)
  BY <1>1, <1>3 DEF OnePlace, Dropped
<1>5. CASE u = t
  BY <1>2, <1>3, <1>4, <1>5, DropOwn
<1>6. CASE u # t
  <2>1. load.alloc_fails
    BY <1>1, <1>2, <1>3, <1>6 DEF Sure, OwnStash
  <2>2. /\ Tracked' /\ ctx'[u].contended = ctx[u].contended
        /\ \A v \in Threads \ {u} : ctx'[v] = ctx[v] /\ SameLocks(v)
        /\ Held(u) \ Mine(u) \subseteq Held(u)' /\ Mine(u)' \subseteq Mine(u)
    <3> DEFINE l == Head(ctx[u].locked)
    <3>1. /\ Tracked' /\ ctx'[u].contended = ctx[u].contended
          /\ \A v \in Threads \ {u} : ctx'[v] = ctx[v] /\ SameLocks(v)
          /\ l \in Mine(u) /\ Mine(u)' = Mine(u) \ {l} /\ Held(u)' = Held(u) \ {l}
      BY <1>1, <1>2, <1>3, DropDrops
    <3> HIDE DEF l
    <3> QED BY <3>1
  <2>3. TypeOK'
    BY Zenon, <1>1, <1>2, <2>2, Typed DEF TicketsOK, TypeOK
  <2>4. \A v \in Threads : Live(v)' <=> Live(v)
    BY <1>2 DEF Live
  <2>5. OnePlace'
    <3>1. \A v \in Threads : Owns(v)' => Owns(v) \/ ~Live(v)
      BY <1>2 DEF Owns
    <3>2. \A v \in Threads : Stashed(v) \/ Dropped(v) => Live(v)'
      BY <1>1, <2>4 DEF OnePlace
    <3> QED BY <1>1, <1>2, <3>1, <3>2, PlaceKeeps
  <2>6. ASSUME NEW v \in Threads PROVE Shape(th'[v]) /\ Context(v)' /\ Plain(v)'
    <3>1. /\ th[v] \in Locals /\ Shape(th[v]) /\ Context(v) /\ Plain(v) /\ th'[v] = th[v]
      BY <1>2, Parts
    <3>2. Plain(v)'
      <4>1. Held(v) \ Mine(v) \subseteq Held(v)' /\ Mine(v)' \subseteq Mine(v)
        BY <2>2 DEF SameLocks
      <4> QED BY <1>1, <2>2, <3>1, <4>1, PlainFrame
    <3>3. CASE v # u
      <4>1. SameCtx(v)
        BY <2>2, <2>4, <3>3 DEF SameCtx
      <4> QED BY <3>1, <3>2, <4>1, ContextFrame
    <3>4. CASE v = u
      <4>1. ~(th[u].op = "try" /\ th[u].pc = "lock")
        BY <1>4, <3>1, <3>4 DEF Owns, CtxOps, Shape, Locals
      <4>2. Context(v)'
        BY Zenon, <1>4, <2>2, <2>4, <3>1, <3>4, <4>1 DEF Context, Owns
      <4> QED BY <3>1, <3>2, <4>2
    <3> QED BY <3>3, <3>4
  <2> QED BY <2>1, <2>2, <2>3, <2>5, <2>6, ForeignKeeps
<1> QED BY <1>5, <1>6

\* The context is freed, perhaps that of somebody else.
LEMMA FinishKeeps ==
  ASSUME IInv, NEW t \in Threads, load' = load, Finish(t)
  PROVE  Step(t)
<1> DEFINE u == th[t].drop
<1>1. /\ TypeOK /\ Tracked /\ TicketsOK /\ OnePlace /\ th[t] \in Locals /\ Shape(th[t])
      /\ Context(t) /\ (~load.alloc_fails => Sure(t)) /\ (Blocking => Clean(t))
  BY Parts
<1>2. /\ th[t].pc = "drop" /\ ctx[u].locked = <<>> /\ AcquireFini(u)
      /\ th' = [th EXCEPT ![t] = Idle] /\ mutex' = (IF th[t].op = "crtc" THEN mutex ELSE None)
      /\ UNCHANGED <<owner, lock_ctx, config_ctx, crtc_ctx>>
  BY DEF Finish, Set
<1>3. u \in Threads /\ th[t].op \in CtxOps
  BY <1>1, <1>2 DEF Shape, Locals
<1>4. Dropped(u) /\ Live(u) /\ ~Owns(u) /\ ~Stashed(u)
  BY <1>1, <1>3 DEF OnePlace, Dropped
<1>5. mutex' \in Threads \cup {None}
  BY <1>1, <1>2 DEF TypeOK
<1>6. \A v \in Threads \ {t} : th[v].drop # u
  BY <1>1, <1>3, ModesetAssumption DEF OnePlace
<1>7. CASE ~load.alloc_fails
  <2>1. u = t /\ Sure(t)
    BY Zenon, <1>1, <1>2, <1>7 DEF Sure, OwnStash
  <2>2. th[t].op # "crtc" => mutex = t
    BY <1>2, <1>3, <2>1 DEF Sure, HasMutex, CtxOps
  <2>3. Blocking => mutex' # t
    BY Zenon, <1>1, <1>2, ModesetAssumption DEF Clean, HasMutex
  <2> QED BY Zenon, <1>2, <1>3, <1>4, <1>5, <1>6, <2>1, <2>2, <2>3, LeaveKeeps
<1>8. CASE load.alloc_fails
  <2> HIDE DEF u
  <2>1. /\ th' \in [Threads -> Locals] /\ th'[t] = Idle
        /\ \A v \in Threads \ {t} : th'[v] = th[v]
    BY <1>1, <1>2, IdleIsLocal DEF TypeOK
  <2>2. /\ ctx' \in [Threads -> [locked : Seq(Locks), contended : Locks \cup {None}]]
        /\ ctx'[u] = NoCtx /\ \A v \in Threads \ {u} : ctx'[v] = ctx[v]
    <3>1. NoCtx \in [locked : Seq(Locks), contended : Locks \cup {None}]
      BY EmptyLists DEF NoCtx
    <3>2. ctx' = [ctx EXCEPT ![u] = NoCtx]
      BY <1>2 DEF AcquireFini
    <3> QED BY <1>1, <1>3, <3>1, <3>2 DEF Tracked
  <2>3. \A v \in Threads : ctx'[v].locked = ctx[v].locked
    BY <1>2, <2>2 DEF NoCtx
  <2>4. Tracked' /\ \A v \in Threads : SameLocks(v)
    BY <1>1, <1>2, <2>2, <2>3, LocksSame
  <2>5. TicketsOK' /\ \A v \in Threads : Live(v)' <=> Live(v) /\ v # u
    BY <1>1, <1>2, <1>3, FiniDrops
  <2>6. TypeOK'
    BY Zenon, <1>1, <1>2, <1>5, <2>1, <2>4, <2>5, Typed DEF TypeOK
  <2>7. OnePlace'
    <3>1. \A v \in Threads : Stashed(v)' <=> Stashed(v)
      BY <1>2 DEF Stashed
    <3>2. \A v \in Threads : Dropped(v)' => Dropped(v) /\ v # u
      BY <1>6, <2>1, IdleIsLocal, ModesetAssumption DEF Dropped
    <3>3. \A v \in Threads : Owns(v)' => Owns(v)
      BY <2>1, IdleIsLocal DEF Owns, CtxOps
    <3>4. \A v \in Threads : th'[v].drop # None => th'[v].drop = th[v].drop
      BY <2>1, IdleIsLocal
    <3> QED BY Zenon, <1>1, <1>2, <1>4, <2>5, <3>1, <3>2, <3>3, <3>4 DEF OnePlace
  <2>8. ASSUME NEW v \in Threads PROVE Shape(th'[v]) /\ Context(v)' /\ Plain(v)'
    <3>1. /\ th[v] \in Locals /\ Shape(th[v]) /\ Context(v) /\ Plain(v)
      BY Parts
    <3>2. v = u => ctx'[v].contended = None
      BY <2>2 DEF NoCtx
    <3>3. CASE v = t
      <4>1. ctx'[t].contended = None /\ (~Live(t)' => ctx'[t] = NoCtx)
        BY <1>1, <1>2, <2>2, <2>5, <3>2, <3>3 DEF Context
      <4> QED BY <2>1, <3>3, <4>1, IdleIsLocal DEF Context, Owns, Plain, CtxOps, PlainOps
    <3>4. CASE v # t
      <4>1. th'[v] = th[v] /\ Plain(v)'
        BY <1>1, <2>1, <2>4, <3>1, <3>4, PlainFrame DEF SameLocks
      <4>2. CASE v # u
        <5>1. SameCtx(v)
          BY <2>2, <2>5, <4>2 DEF SameCtx
        <5> QED BY <3>1, <4>1, <5>1, ContextFrame
      <4>3. CASE v = u
        <5>1. th[v].pc # "contended"
          BY <1>4, <3>1, <4>3 DEF Owns, CtxOps, Shape, Locals
        <5>2. Context(v)'
          BY Zenon, <1>4, <2>2, <2>5, <3>1, <3>2, <4>1, <4>3, <5>1 DEF Context, Owns
        <5> QED BY <3>1, <4>1, <5>2
      <4> QED BY <4>2, <4>3
    <3> QED BY <3>3, <3>4
  <2> QED BY <1>8, <2>4, <2>6, <2>7, <2>8, ForeignKeeps
<1> QED BY <1>7, <1>8

\* A thread that uses no context leaves, or has only mode_config.mutex left to release.
LEMMA QuitKeeps ==
  ASSUME IInv, NEW t \in Threads, load' = load, th[t].pc \in {"in", "mutexed"},
         th[t].op \notin CtxOps, NEW x \in Locals, th' = [th EXCEPT ![t] = x], Shape(x),
         x.op = "none", x.drop = None, x.lap = "first",
         Tracked', \A u \in Threads \ {t} : SameLocks(u),
         mutex' \in Threads \cup {None},
         ~load.alloc_fails => \A u \in Threads \ {t} : mutex' = u <=> mutex = u,
         ~load.alloc_fails => (x.pc = "mutexed" => mutex' = t),
         Blocking => Held(t)' \ Mine(t)' = {} /\ (mutex' = t => x.pc = "mutexed"),
         UNCHANGED <<ctx, tickets, config_ctx, crtc_ctx>>
  PROVE  Step(t)
<1>1. /\ TypeOK /\ Tracked /\ TicketsOK /\ OnePlace /\ th[t] \in Locals /\ Shape(th[t])
      /\ Context(t) /\ (~load.alloc_fails => Sure(t)) /\ (Blocking => Clean(t))
  BY Zenon, Parts
<1>2. /\ th' \in [Threads -> Locals] /\ th'[t] = x
      /\ \A u \in Threads \ {t} : th'[u] = th[u]
  BY <1>1 DEF TypeOK
<1>3. th[t].drop = None /\ x.pc \in {"idle", "mutexed"}
  BY Zenon, <1>1 DEF Shape
<1>4. \A u \in Threads : SameCtx(u) /\ SameStash(u) /\ (Live(u)' <=> Live(u))
  BY Zenon DEF SameCtx, SameStash, Live
<1>5. TypeOK'
  BY Zenon, <1>1, <1>2, Typed DEF TicketsOK, TypeOK
<1>6. OnePlace'
  <2>1. \A u \in Threads : th'[u].drop = th[u].drop
    BY <1>2, <1>3
  <2>2. \A u \in Threads : Owns(u)' => Owns(u) \/ ~Live(u)
    BY <1>2 DEF Owns, CtxOps
  <2>3. \A u \in Threads : Stashed(u) \/ Dropped(u) => Live(u)'
    BY Zenon, <1>1, <1>4 DEF OnePlace
  <2> QED BY Zenon, <1>1, <2>1, <2>2, <2>3, PlaceKeeps
<1>7. Context(t)' /\ Plain(t)'
  BY Zenon, <1>1, <1>2, <1>3, <1>4 DEF Context, Owns, SameCtx, Plain, PlainOps, CtxOps
<1>8. ASSUME ~load.alloc_fails PROVE Sure(t)'
  <2>1. config_ctx' # t /\ \A c \in Crtcs : crtc_ctx'[c] # t
    BY Zenon, <1>1, <1>8 DEF Sure, OwnStash, CtxOps
  <2>2. ~InSection(t)' /\ (HasMutex(t)' => x.pc = "mutexed") /\ Covers(th'[t], Mine(t)')
    BY <1>2, <1>3 DEF InSection, HasMutex, Covers
  <2> QED BY Zenon, <1>2, <1>3, <1>8, <2>1, <2>2 DEF Sure, OwnStash
<1>9. ASSUME Blocking PROVE Clean(t)'
  <2>1. ~Live(t)'
    BY <1>1, <1>4, <1>9 DEF Clean, CtxOps
  <2> QED BY <1>2, <1>9, <2>1 DEF Clean, HasMutex
<1> QED BY <1>2, <1>4, <1>5, <1>6, <1>7, <1>8, <1>9, StepKeeps

LEMMA UnlockPlainKeeps ==
  ASSUME IInv, NEW t \in Threads, load' = load, UnlockPlain(t)
  PROVE  Step(t)
<1>1. /\ TypeOK /\ Tracked /\ th[t] \in Locals /\ Shape(th[t]) /\ Plain(t)
      /\ (~load.alloc_fails => Sure(t)) /\ (Blocking => Clean(t))
  BY Parts
<1>2. /\ th[t].pc = "in" /\ th[t].op \in PlainOps /\ th[t].op \notin CtxOps
      /\ Release(Head(th[t].todo)) /\ UNCHANGED <<mutex, tickets, ctx, config_ctx, crtc_ctx>>
  BY DEF UnlockPlain, PlainOps, CtxOps
<1> DEFINE l == th[t].todo[1]
           x == IF th[t].op = "connector" THEN At("mutexed", "none", None, None, <<>>, <<>>) ELSE Idle
<1>3. l \in Locks /\ Release(l)
  <2>1. th[t].todo \in Seq(Locks) /\ Len(th[t].todo) = 1
    BY <1>1, <1>2 DEF Locals, Shape
  <2>2. th[t].todo # <<>>
    <3>1. Len(<<>>) = 0
      OBVIOUS
    <3>2. ASSUME th[t].todo = <<>> PROVE 1 = 0
      BY <2>1, <3>1, <3>2, Zenon
    <3> QED BY <3>2
  <2> QED BY <1>2, <2>1, <2>2, HeadTail
<1>4. owner[l] = t /\ lock_ctx[l] = None
  BY <1>1, <1>2 DEF Plain
<1>5. /\ x \in Locals /\ Shape(x) /\ x.op = "none" /\ x.drop = None /\ x.lap = "first"
      /\ x.pc = "mutexed" <=> th[t].op = "connector"
  <2>1. CASE th[t].op = "connector"
    BY Zenon, <2>1, EmptyLists DEF At, Locals, Shape, PlainOps, CtxOps
  <2>2. CASE th[t].op # "connector"
    BY <2>2, IdleIsLocal
  <2> QED BY Zenon, <2>1, <2>2
<1>6. th' = [th EXCEPT ![t] = x]
  BY DEF UnlockPlain, Set
<1> HIDE DEF l, x
<1>7. /\ Tracked' /\ Mine(t)' = Mine(t) /\ Held(t)' = Held(t) \ {l}
      /\ \A u \in Threads \ {t} : SameLocks(u)
  BY <1>1, <1>2, <1>3, <1>4, PlainDrops
<1>8. Blocking => Held(t)' \ Mine(t)' = {} /\ (mutex' = t => x.pc = "mutexed")
  BY Zenon, <1>1, <1>2, <1>5, <1>7 DEF Clean, HasMutex, PlainOps, l
<1>9. ~load.alloc_fails => (x.pc = "mutexed" => mutex' = t)
  BY Zenon, <1>1, <1>2, <1>5 DEF Sure, HasMutex
<1>10. mutex' \in Threads \cup {None}
  BY <1>1, <1>2 DEF TypeOK
<1> QED BY Zenon, <1>2, <1>5, <1>6, <1>7, <1>8, <1>9, <1>10, QuitKeeps

LEMMA MutexUnlockKeeps ==
  ASSUME IInv, NEW t \in Threads, load' = load, MutexUnlock(t)
  PROVE  Step(t)
<1>1. /\ TypeOK /\ Tracked /\ th[t] \in Locals /\ Shape(th[t])
      /\ (~load.alloc_fails => Sure(t)) /\ (Blocking => Clean(t))
  BY Parts
<1>2. /\ th[t].pc = "mutexed" /\ th[t].op \notin CtxOps /\ mutex' = None
      /\ th' = [th EXCEPT ![t] = Idle]
      /\ UNCHANGED <<owner, lock_ctx, tickets, ctx, config_ctx, crtc_ctx>>
  BY <1>1 DEF MutexUnlock, Set, Shape, CtxOps
<1>3. Tracked' /\ \A u \in Threads : SameLocks(u)
  BY Zenon, <1>1, <1>2, LocksSame DEF Tracked
<1>4. ~load.alloc_fails => mutex = t
  BY <1>1, <1>2 DEF Sure, HasMutex
<1>5. Blocking => Held(t)' \ Mine(t)' = {}
  BY <1>2, <1>3, NothingPlain DEF SameLocks
<1>6. ~load.alloc_fails => \A u \in Threads \ {t} : mutex' = u <=> mutex = u
  BY <1>2, <1>4, ModesetAssumption
<1>7. mutex' \in Threads \cup {None} /\ mutex' # t
  BY <1>2, ModesetAssumption
<1> QED BY Zenon, <1>2, <1>3, <1>5, <1>6, <1>7, IdleIsLocal, QuitKeeps

------------------------------------------------------------------------------
(* The theorems. *)

LEMMA InitIInv == Init => IInv
<1> SUFFICES ASSUME Init PROVE IInv
  OBVIOUS
<1>1. NoCtx \in [locked : Seq(Locks), contended : Locks \cup {None}] /\ NoCtx.locked = <<>> /\ NoCtx.contended = None
  BY EmptyLists DEF NoCtx
<1>2. /\ load \in Workloads /\ mutex = None /\ tickets = <<>> /\ config_ctx = None
      /\ owner = [l \in Locks |-> None] /\ lock_ctx = [l \in Locks |-> None]
      /\ ctx = [t \in Threads |-> NoCtx] /\ crtc_ctx = [c \in Crtcs |-> None]
      /\ th = [t \in Threads |-> Idle]
  BY DEF Init
<1>3. TypeOK
  BY <1>1, <1>2, IdleIsLocal DEF TypeOK
<1>4. \A t \in Threads : /\ Mine(t) = {} /\ Held(t) = {} /\ ~Live(t) /\ th[t] = Idle /\ ctx[t] = NoCtx
  BY <1>2, NoElement, ModesetAssumption DEF Mine, Held, Live
<1>5. OnePlace
  BY <1>2, <1>4, IdleIsLocal, ModesetAssumption DEF OnePlace, Stashed, Dropped
<1>6. ASSUME NEW t \in Threads PROVE Local(t)
  <2>1. Listing(t)
    <3>1. ctx[t].locked = <<>> /\ DOMAIN <<>> = {}
      BY <1>1, <1>4
    <3> QED BY Zenon, <1>4, <3>1, NoElement DEF Listing
  <2>2. Context(t) /\ Plain(t) /\ Shape(th[t])
    BY <1>1, <1>4, IdleIsLocal DEF Context, Owns, Plain, CtxOps, PlainOps
  <2> QED BY <2>1, <2>2 DEF Local
<1>7. ASSUME NEW t \in Threads PROVE Sure(t) /\ Clean(t)
  <2>1. ~InSection(t) /\ ~HasMutex(t) /\ Covers(th[t], Mine(t)) /\ mutex # t
    BY Zenon, <1>2, <1>4, IdleIsLocal, ModesetAssumption DEF InSection, HasMutex, Covers
  <2>2. config_ctx # t /\ \A c \in Crtcs : crtc_ctx[c] # t
    BY <1>2, ModesetAssumption
  <2>3. OwnStash(t)
    BY <1>4, <2>1, <2>2, IdleIsLocal DEF OwnStash
  <2> QED BY <1>4, <2>1, <2>3, IdleIsLocal DEF Sure, Clean
<1> QED BY <1>3, <1>5, <1>6, <1>7 DEF IInv

\* A step of a thread keeps the invariant and the locks of the others.
LEMMA StepIInv ==
  ASSUME IInv, NEW t \in Threads, Call(t) \/ Acquire(t) \/ Run(t) \/ Further(t)
  PROVE  Step(t)
<1>1. CASE Call(t)
  <2>1. load' = load /\ ~Live(t)
    BY <1>1 DEF Call
  <2>2. CASE LockAll(t) BY <2>1, <2>2, LockAllKeeps
  <2>3. CASE TryLockAll(t) BY <2>1, <2>3, TryLockAllKeeps
  <2>4. CASE LockCrtc(t) BY <2>1, <2>4, LockCrtcKeeps
  <2>5. CASE Detect(t) BY <2>1, <2>5, DetectKeeps
  <2>6. CASE GetConnector(t) BY <2>1, <2>6, GetConnectorKeeps
  <2>7. CASE GetEncoder(t) BY <2>1, <2>7, GetEncoderKeeps
  <2>8. CASE GetPlane(t) BY <2>1, <2>8, GetPlaneKeeps
  <2> QED BY <1>1, <2>2, <2>3, <2>4, <2>5, <2>6, <2>7, <2>8 DEF Call
<1>2. CASE Acquire(t)
  BY <1>2, MutexLockKeeps, LockKeeps, LockPlainKeeps, SlowLockKeeps DEF Acquire
<1>3. CASE Run(t)
  <2>1. load' = load
    BY <1>3 DEF Run
  <2>2. CASE TryLock(t) BY <2>1, <2>2, TryLockKeeps
  <2>3. CASE Backoff(t) BY <2>1, <2>3, BackoffKeeps
  <2>4. CASE BackoffDrop(t) BY <2>1, <2>4, BackoffDropKeeps
  <2>5. CASE Enter(t) BY <2>1, <2>5, EnterKeeps
  <2>6. CASE Unlock(t) BY <2>1, <2>6, UnlockKeeps
  <2>7. CASE UnlockDrop(t) BY <2>1, <2>7, UnlockDropKeeps
  <2>8. CASE Finish(t) BY <2>1, <2>8, FinishKeeps
  <2>9. CASE UnlockPlain(t) BY <2>1, <2>9, UnlockPlainKeeps
  <2>10. CASE MutexUnlock(t) BY <2>1, <2>10, MutexUnlockKeeps
  <2> QED BY <1>3, <2>2, <2>3, <2>4, <2>5, <2>6, <2>7, <2>8, <2>9, <2>10 DEF Run
<1>4. CASE Further(t)
  BY <1>4, FurtherKeeps
<1> QED BY <1>1, <1>2, <1>3, <1>4

LEMMA NextIInv == IInv /\ [Next]_vars => IInv'
<1> SUFFICES ASSUME IInv, [Next]_vars PROVE IInv'
  OBVIOUS
<1>1. CASE Next
  BY <1>1, StepIInv DEF Next, Step
<1>2. CASE UNCHANGED vars
  <2>1. UNCHANGED <<load, mutex, owner, lock_ctx, tickets, ctx, config_ctx, crtc_ctx, th>>
    BY <1>2 DEF vars
  <2>2. TypeOK /\ Tracked /\ OnePlace
    BY Parts
  <2>3. Tracked' /\ \A u \in Threads : SameLocks(u)
    BY Zenon, <2>1, <2>2, LocksSame DEF Tracked
  <2>4. \A u \in Threads : SameCtx(u) /\ SameStash(u) /\ (Live(u)' <=> Live(u)) /\ (Owns(u)' <=> Owns(u))
    BY <2>1 DEF SameCtx, SameStash, Live, Owns
  <2>5. TypeOK'
    BY <2>1, <2>2 DEF TypeOK
  <2>6. OnePlace'
    <3>1. \A u \in Threads : Stashed(u) \/ Dropped(u) => Live(u)'
      BY <2>2, <2>4 DEF OnePlace
    <3> QED BY <2>1, <2>2, <2>4, <3>1, PlaceKeeps
  <2>7. ASSUME NEW u \in Threads PROVE Local(u)'
    <3>1. th[u] \in Locals /\ Shape(th[u]) /\ Context(u) /\ Plain(u)
      BY Parts
    <3>2. Context(u)' /\ Plain(u)'
      BY <2>1, <2>2, <2>3, <2>4, <3>1, ContextFrame, PlainFrame DEF SameLocks
    <3> QED BY <2>1, <2>3, <3>1, <3>2 DEF Local, Tracked
  <2>8. ASSUME NEW u \in Threads PROVE (Sure(u) => Sure(u)') /\ (Clean(u) => Clean(u)')
    BY <2>1, <2>3, <2>4, Parts, SureFrame, CleanFrame
  <2>9. Blocking' <=> Blocking
    BY <2>1 DEF Blocking
  <2> QED BY <2>1, <2>5, <2>6, <2>7, <2>8, <2>9 DEF IInv
<1> QED BY <1>1, <1>2

\* Along every behaviour of the modeset lock calls, whatever fails: an acquire
\* context lists exactly the locks it has taken and its thread owns them, so that
\* drm_modeset_drop_locks() drops all of them and none of somebody else; and without
\* trylocks and failing allocations a thread outside the modeset code holds nothing.
THEOREM ModesetLocksTracked == Spec => []LocksTracked
<1>1. IInv => LocksTracked
  <2> SUFFICES ASSUME IInv PROVE LocksTracked
    OBVIOUS
  <2>1. TypeOK /\ Tracked
    BY Parts
  <2>2. ContextTracksLocks
    <3>1. \A t \in Threads : Elements(ctx[t].locked) = {l \in Locks : lock_ctx[l] = t}
      BY <2>1 DEF Tracked, Listing, Mine
    <3>2. \A l \in Locks : lock_ctx[l] # None => owner[l] = lock_ctx[l]
      BY <2>1 DEF Tracked, Listing, Mine, Held
    <3> QED BY <3>1, <3>2 DEF ContextTracksLocks
  <2>3. ASSUME Blocking, NEW t \in Threads, th[t].pc = "idle"
        PROVE  mutex # t /\ Held(t) = {}
    <3>1. Clean(t) /\ Shape(th[t]) /\ Context(t) /\ Listing(t)
      BY <2>3, Parts
    <3>2. th[t].op = "none" /\ mutex # t /\ ~Live(t)
      BY <2>3, <3>1 DEF Shape, Clean, HasMutex
    <3>3. Mine(t) = {}
      <4>1. ctx[t].locked = <<>>
        BY <3>1, <3>2, EmptyCtx DEF Context
      <4> QED BY <3>1, <4>1, NoElement DEF Listing
    <3>4. Held(t) \ Mine(t) = {}
      BY <2>3, NothingPlain
    <3> QED BY <3>2, <3>3, <3>4
  <2> QED BY <2>1, <2>2, <2>3 DEF LocksTracked, IdleHoldsNothing, UnlockAllDropsAll
<1> QED BY <1>1, InitIInv, NextIInv, PTL DEF Spec

\* A section keeps what it was entered with: between drm_modeset_lock_all() and
\* drm_modeset_unlock_all() every lock, between drm_modeset_lock_crtc() and its unlock
\* the crtc and the plane; whoever holds everything never backs off when helpers ask
\* for a lock again; and a stashed context is that of the thread in the section.
THEOREM ModesetSectionsKept == Spec => []SectionsKept
<1>1. IInv => SectionsKept
  <2> SUFFICES ASSUME IInv PROVE SectionsKept
    OBVIOUS
  <2>1. \A t \in Threads : Mine(t) \subseteq Held(t) /\ Held(t) \subseteq Locks
    BY Parts DEF Listing, Held
  <2>2. SectionHoldsLocks
    <3> SUFFICES ASSUME Blocking, NEW t \in Threads, th[t].pc = "in"
                 PROVE  /\ th[t].op \in {"all", "try"} => mutex = t /\ Held(t) = Locks
                        /\ th[t].op = "crtc" => {th[t].crtc, th[t].plane} \ {None} \subseteq Held(t)
      BY DEF SectionHoldsLocks
    <3>1. Sure(t) /\ Clean(t)
      BY Parts
    <3>2. th[t].op = "all" => mutex = t /\ Locks \subseteq Mine(t)
      BY <3>1 DEF Sure, HasMutex, Covers, CoversAll
    <3>3. th[t].op = "crtc" => CrtcLocks(th[t]) \subseteq Mine(t)
      BY Zenon, <3>1 DEF Sure, Covers, CoversCrtc
    <3> QED BY Zenon, <2>1, <3>1, <3>2, <3>3 DEF Clean, CrtcLocks
  <2>3. AllSectionKept
    <3> SUFFICES ASSUME NEW t \in Threads, th[t].op = "all", th[t].lap = "further"
                 PROVE  Held(t) = Locks
      BY DEF AllSectionKept
    <3>1. Sure(t)
      BY Parts DEF Context
    <3> QED BY Zenon, <2>1, <3>1 DEF Sure, Covers, CoversAll
  <2>4. StashOwned
    <3> SUFFICES ASSUME Blocking
                 PROVE  /\ config_ctx # None => owner[Conn] = config_ctx /\ th[config_ctx].op \in {"all", "try"}
                        /\ \A c \in Crtcs : crtc_ctx[c] # None =>
                             owner[c] = crtc_ctx[c] /\ th[crtc_ctx[c]].op = "crtc" /\ th[crtc_ctx[c]].crtc = c
                        /\ \A t \in Threads : th[t].pc = "in" =>
                             /\ th[t].op \in {"all", "try"} => config_ctx = t
                             /\ th[t].op = "crtc" => crtc_ctx[th[t].crtc] = t
      BY DEF StashOwned
    <3>1. TypeOK /\ \A t \in Threads : Sure(t) /\ Clean(t)
      BY Parts
    <3>2. ASSUME config_ctx # None
          PROVE  owner[Conn] = config_ctx /\ th[config_ctx].op \in {"all", "try"}
      <4>1. config_ctx \in Threads
        BY <3>1, <3>2 DEF TypeOK
      <4>2. InSection(config_ctx) /\ th[config_ctx].op = "all"
        BY Zenon, <3>1, <4>1 DEF Sure, OwnStash, Clean
      <4>3. Locks \subseteq Mine(config_ctx)
        BY Zenon, <3>1, <4>1, <4>2 DEF Sure, Covers, CoversAll, InSection
      <4>4. Conn \in Held(config_ctx)
        BY <2>1, <4>1, <4>3 DEF Locks
      <4> QED BY <4>2, <4>4 DEF Held
    <3>3. ASSUME NEW c \in Crtcs, crtc_ctx[c] # None
          PROVE  owner[c] = crtc_ctx[c] /\ th[crtc_ctx[c]].op = "crtc" /\ th[crtc_ctx[c]].crtc = c
      <4> DEFINE u == crtc_ctx[c]
      <4>1. u \in Threads
        BY <3>1, <3>3 DEF TypeOK
      <4>2. InSection(u) /\ th[u].op = "crtc" /\ th[u].crtc = c
        BY <3>1, <4>1 DEF Sure, OwnStash
      <4>3. CrtcLocks(th[u]) \subseteq Mine(u)
        BY Zenon, <3>1, <4>1, <4>2 DEF Sure, Covers, CoversCrtc, InSection
      <4>4. c \in Held(u)
        BY Zenon, <2>1, <4>1, <4>2, <4>3, ModesetAssumption DEF CrtcLocks, Locks
      <4> QED BY <4>2, <4>4 DEF Held
    <3>4. \A t \in Threads : th[t].pc = "in" =>
            /\ th[t].op \in {"all", "try"} => config_ctx = t
            /\ th[t].op = "crtc" => crtc_ctx[th[t].crtc] = t
      BY <3>1 DEF Sure, OwnStash, InSection
    <3> QED BY <3>2, <3>3, <3>4
  <2> QED BY <2>2, <2>3, <2>4 DEF SectionsKept
<1> QED BY <1>1, InitIInv, NextIInv, PTL DEF Spec

\* Whatever fails, a context that was told to back off takes and drops no lock before
\* it does: WARN_ON(ctx->contended) never fires.
THEOREM ModesetContendedBacksOff == Spec => []ContendedBacksOff
<1>1. IInv => ContendedBacksOff
  BY Zenon, Parts DEF Context, ContendedBacksOff
<1> QED BY <1>1, InitIInv, NextIInv, PTL DEF Spec

\* Without trylocks and failing allocations no step of anybody drops a lock of a thread
\* that is inside its section.
THEOREM ModesetNobodyElseUnlocks == Spec => NobodyElseUnlocks
<1> DEFINE Kept == Blocking => \A t \in Threads : th[t].pc = "in" /\ th'[t] = th[t] =>
                     \A l \in Held(t) : owner'[l] = t
<1>1. IInv /\ [Next]_vars => [Kept]_vars
  <2> SUFFICES ASSUME IInv, Next, Blocking, NEW t \in Threads, th[t].pc = "in", th'[t] = th[t],
                      NEW l \in Held(t)
               PROVE  owner'[l] = t
    OBVIOUS
  <2>1. PICK u \in Threads : Call(u) \/ Acquire(u) \/ Run(u) \/ Further(u)
    BY Zenon DEF Next
  <2>2. CASE u # t
    <3>1. Step(u) /\ ~load.alloc_fails
      BY Zenon, <2>1, StepIInv DEF Blocking
    <3>2. Held(t)' = Held(t)
      BY <2>2, <3>1 DEF Step
    <3> QED BY <3>2 DEF Held
  <2>3. CASE u = t
    <3>1. /\ th[t] \in Locals /\ Sure(t) /\ TypeOK
      BY Parts
    <3>2. Unlock(t) \/ UnlockPlain(t) \/ Further(t)
      BY Zenon, <2>1, <2>3 DEF Call, LockAll, TryLockAll, LockCrtc, Detect, GetConnector, GetEncoder,
         GetPlane, Acquire, MutexLock, Lock, LockPlain, SlowLock, Run, TryLock, Backoff, BackoffDrop,
         Enter, UnlockDrop, Finish, MutexUnlock
    <3>3. th'[t].pc # "in"
      <4>1. CASE Unlock(t)
        BY Zenon, <3>1, <4>1, IdleIsLocal DEF Unlock, Set, At, TypeOK
      <4>2. CASE UnlockPlain(t)
        BY <3>1, <4>2, IdleIsLocal DEF UnlockPlain, Set, At, TypeOK
      <4>3. CASE Further(t)
        <5>1. PICK s : th' = [th EXCEPT ![t] = [th[t] EXCEPT !.pc = "lock", !.todo = s, !.lap = "further"]]
          BY Zenon, <4>3 DEF Further, Set
        <5> QED BY Zenon, <3>1, <5>1 DEF TypeOK, Locals
      <4> QED BY <3>2, <4>1, <4>2, <4>3
    <3> QED BY <3>3
  <2> QED BY <2>2, <2>3
<1> QED BY <1>1, InitIInv, NextIInv, PTL DEF Spec, NobodyElseUnlocks

=============================================================================

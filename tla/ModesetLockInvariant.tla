------------------------ MODULE ModesetLockInvariant ------------------------
(***************************************************************************)
(* Proofs about the modeset locks, drm_modeset_lock.c, for any number of   *)
(* threads, crtcs and planes and for every workload.                       *)
(*                                                                         *)
(* IInv is inductive.  Its first half holds whatever fails: the list of an *)
(* acquire context has each of its locks once, and a context is in one     *)
(* place at a time, so that it is never freed while somebody works on it.  *)
(* Without failing allocations a section also keeps its locks and its      *)
(* stash (Sure); without trylocks nothing is left behind (Clean).          *)
(***************************************************************************)
EXTENDS ModesetLock, TLAPS

\* The calls that take their locks through an acquire context, and the others.
CtxOps == {"all", "try", "crtc", "detect"}
PlainOps == {"connector", "encoder", "plane"}

\* The locks that the context of t holds.
Mine(t) == {l \in Locks : lock_ctx[l] = t}

\* The context of t is known to t only.
Owns(t) ==
  /\ th[t].op \in CtxOps /\ th[t].lap = "first"
  /\ th[t].pc \in {"lock", "contended", "backoff"} \/ (th[t].pc = "in" /\ th[t].op = "detect")

InSection(t) == th[t].pc = "in" \/ th[t].lap = "further"

Stashed(t) == config_ctx = t \/ \E c \in Crtcs : crtc_ctx[c] = t
Dropped(t) == \E u \in Threads : th[u].drop = t

\* The fields of a thread's record fit the place where it is.
Shape(r) ==
  /\ r.op = "none" <=> r.pc \in {"idle", "mutexed"}
  /\ r.pc = "mutex" => r.op \in {"all", "detect", "connector"}
  /\ r.pc \in {"contended", "backoff"} => r.op \in {"all", "crtc", "detect"}
  /\ r.pc = "drop" => r.op \in CtxOps
  /\ r.pc = "drop" <=> r.drop # None
  /\ r.lap = "further" => r.op \in {"all", "crtc"} /\ r.pc \in {"lock", "in"}
  /\ r.op \in PlainOps => r.pc \in {"mutex", "lock", "in"}
  /\ r.op \in PlainOps /\ r.pc \in {"lock", "in"} => Len(r.todo) = 1
  /\ r.pc = "mutex" /\ r.op = "connector" => Len(r.plan) = 1
  /\ r.pc = "backoff" => r.want \in Locks
  /\ r.op = "crtc" /\ r.pc # "drop" => r.crtc \in Crtcs

\* The context of t and the place where t is.
Context(t) ==
  /\ Owns(t) => Live(t)
  /\ th[t].pc = "mutex" => ~Live(t)
  /\ ~Live(t) => ctx[t] = NoCtx
  /\ th[t].op = "try" /\ th[t].pc = "lock" => ctx[t] = NoCtx
  /\ th[t].pc = "contended" <=> ctx[t].contended # None
  /\ th[t].lap = "further" => ~load.alloc_fails

\* A lock taken without a context.
Plain(t) ==
  th[t].op \in PlainOps /\ th[t].pc = "in" =>
    owner[th[t].todo[1]] = t /\ lock_ctx[th[t].todo[1]] = None

\* The list of a context has each of its locks once, and t owns them.
Listing(t) ==
  /\ Elements(ctx[t].locked) = Mine(t)
  /\ \A i, j \in DOMAIN ctx[t].locked : ctx[t].locked[i] = ctx[t].locked[j] => i = j
  /\ Mine(t) \subseteq Held(t)

\* A context is in one place at a time: its thread's, a stash, or an unlock.
OnePlace ==
  /\ \A t \in Threads : Stashed(t) \/ Dropped(t) => Live(t) /\ ~Owns(t)
  /\ \A t \in Threads : ~(Stashed(t) /\ Dropped(t))
  /\ \A c \in Crtcs : crtc_ctx[c] # None => config_ctx # crtc_ctx[c]
  /\ \A c, d \in Crtcs : crtc_ctx[c] # None /\ crtc_ctx[c] = crtc_ctx[d] => c = d
  /\ \A u, v \in Threads : th[u].drop # None /\ th[u].drop = th[v].drop => u = v

\* Stashes are emptied by those who filled them.
OwnStash(t) ==
  /\ InSection(t) /\ th[t].op \in {"all", "try"} => config_ctx = t
  /\ InSection(t) /\ th[t].op = "crtc" => crtc_ctx[th[t].crtc] = t
  /\ config_ctx = t => InSection(t) /\ th[t].op \in {"all", "try"}
  /\ \A c \in Crtcs :
       crtc_ctx[c] = t => InSection(t) /\ th[t].op = "crtc" /\ th[t].crtc = c
  /\ th[t].pc = "drop" => th[t].drop = t

HasMutex(t) ==
  \/ th[t].op \in {"all", "try", "detect", "connector"} /\ th[t].pc # "mutex"
  \/ th[t].pc = "mutexed"

CrtcLocks(r) == {r.crtc, r.plane} \ {None}
CrtcPlan(r) == IF r.plane = None THEN <<r.crtc>> ELSE <<r.crtc, r.plane>>

\* What a call still has to take is on its list; held: the locks of its context.
CoversAll(r, held) ==
  /\ r.lap = "first" /\ r.pc \in {"mutex", "lock", "contended", "backoff"} => r.plan = AllLocks
  /\ r.pc \in {"lock", "contended"} => Locks \subseteq held \cup Elements(r.todo)
  /\ r.pc = "backoff" => r.todo = AllLocks
  /\ r.pc = "in" \/ r.lap = "further" => Locks \subseteq held

CoversCrtc(r, held) ==
  /\ r.lap = "first" /\ r.pc \in {"lock", "contended", "backoff"} => r.plan = CrtcPlan(r)
  /\ r.lap = "first" /\ r.pc \in {"lock", "contended"} =>
       /\ r.todo \in {<<>>, <<r.crtc>>, <<r.plane>>, CrtcPlan(r)}
       /\ CrtcLocks(r) \subseteq held \cup Elements(r.todo)
  /\ r.pc = "backoff" => r.todo = CrtcPlan(r)
  /\ r.pc = "in" \/ r.lap = "further" => CrtcLocks(r) \subseteq held
  /\ r.lap = "further" => Elements(r.todo) \subseteq held

Covers(r, held) ==
  /\ r.op = "all" => CoversAll(r, held)
  /\ r.op = "crtc" => CoversCrtc(r, held)

\* What holds of a thread when no allocation fails.
Sure(t) == OwnStash(t) /\ Covers(th[t], Mine(t)) /\ (HasMutex(t) => mutex = t)

\* Nothing is left behind by calls that wait for their locks.
Clean(t) ==
  /\ th[t].op # "try"
  /\ Live(t) => th[t].op \in {"all", "crtc", "detect"} /\ th[t].pc # "mutex"
  /\ \A l \in Held(t) \ Mine(t) : th[t].pc = "in" /\ th[t].op \in PlainOps /\ l = th[t].todo[1]
  /\ mutex = t => HasMutex(t)

Local(t) == Shape(th[t]) /\ Context(t) /\ Plain(t) /\ Listing(t)

\* The inductive invariant.
IInv ==
  /\ TypeOK /\ OnePlace
  /\ \A t \in Threads : Local(t)
  /\ ~load.alloc_fails => \A t \in Threads : Sure(t)
  /\ Blocking => \A t \in Threads : Clean(t)

-----------------------------------------------------------------------------
\* Lists.

\* A list is a function on the numbers up to its length.
LEMMA ListLen ==
  ASSUME NEW S, NEW s \in Seq(S)
  PROVE  Len(s) \in Nat /\ DOMAIN s = 1..Len(s) /\ s \in [1..Len(s) -> S]
  OBVIOUS

LEMMA ListEmpty ==
  ASSUME NEW S
  PROVE  /\ <<>> \in Seq(S) /\ Len(<<>>) = 0
         /\ \A s \in Seq(S) : s # <<>> => Len(s) \in Nat \ {0}
  OBVIOUS

LEMMA ListConcat ==
  ASSUME NEW S, NEW a \in Seq(S), NEW b \in Seq(S)
  PROVE  /\ a \o b \in Seq(S) /\ Len(a \o b) = Len(a) + Len(b)
         /\ \A j \in 1..Len(a) + Len(b) :
              (a \o b)[j] = IF j <= Len(a) THEN a[j] ELSE b[j - Len(a)]
  OBVIOUS

LEMMA ListPart ==
  ASSUME NEW S, NEW s, NEW m \in Nat, NEW n \in Nat, \A j \in m..n : s[j] \in S
  PROVE  /\ SubSeq(s, m, n) \in Seq(S)
         /\ Len(SubSeq(s, m, n)) = IF m <= n THEN n - m + 1 ELSE 0
         /\ \A j \in 1..n - m + 1 : SubSeq(s, m, n)[j] = s[m + j - 1]
  OBVIOUS

LEMMA ListTail ==
  ASSUME NEW S, NEW s \in Seq(S), s # <<>>
  PROVE  /\ Head(s) \in S /\ Tail(s) \in Seq(S) /\ Len(Tail(s)) = Len(s) - 1
         /\ \A j \in 1..Len(Tail(s)) : Tail(s)[j] = s[j + 1]
  OBVIOUS

LEMMA ListAppend ==
  ASSUME NEW S, NEW s \in Seq(S), NEW e \in S
  PROVE  /\ Append(s, e) \in Seq(S) /\ Len(Append(s, e)) = Len(s) + 1
         /\ \A j \in 1..Len(s) : Append(s, e)[j] = s[j]
         /\ Append(s, e)[Len(s) + 1] = e
  OBVIOUS

------------------------------------------------------------------------------
(* Sequences and tickets. *)

TicketsOK ==
  /\ tickets \in Seq(Threads)
  /\ \A i, j \in DOMAIN tickets : tickets[i] = tickets[j] => i = j

\* The elements of a list are its head and those of the rest.
LEMMA HeadTail ==
  ASSUME NEW S, NEW s \in Seq(S), s # <<>>
  PROVE  /\ Head(s) \in S /\ Head(s) = s[1] /\ Tail(s) \in Seq(S) /\ Head(s) \in Elements(s)
         /\ Elements(s) = {Head(s)} \cup Elements(Tail(s))
<1>1. /\ Head(s) = s[1] /\ Head(s) \in S /\ Tail(s) \in Seq(S) /\ Len(s) \in Nat \ {0}
      /\ Len(Tail(s)) = Len(s) - 1 /\ \A i \in 1..Len(Tail(s)) : Tail(s)[i] = s[i + 1]
  BY ListTail, ListEmpty, ListLen
<1>2. DOMAIN s = 1..Len(s) /\ DOMAIN Tail(s) = 1..Len(s) - 1
  BY <1>1, ListLen
<1>3. ASSUME NEW i \in 1..Len(s) PROVE s[i] = Head(s) \/ \E j \in 1..Len(s) - 1 : Tail(s)[j] = s[i]
  <2>1. CASE i = 1
    BY <2>1, <1>1
  <2>2. CASE i # 1
    <3>1. i - 1 \in 1..Len(s) - 1 /\ Tail(s)[i - 1] = s[i]
      <4>1. i - 1 \in 1..Len(s) - 1 /\ (i - 1) + 1 = i
        BY <2>2, <1>1
      <4>2. Tail(s)[i - 1] = s[(i - 1) + 1]
        BY <4>1, <1>1
      <4> QED BY <4>1, <4>2
    <3> QED BY Zenon, <3>1
  <2> QED BY <2>1, <2>2
<1>4. ASSUME NEW j \in 1..Len(s) - 1 PROVE Tail(s)[j] = s[j + 1] /\ j + 1 \in 1..Len(s)
  BY <1>1
<1>5. Elements(s) = {s[i] : i \in 1..Len(s)} /\ Elements(Tail(s)) = {Tail(s)[i] : i \in 1..Len(s) - 1}
  BY Zenon, <1>2 DEF Elements
<1>6. 1 \in 1..Len(s)
  BY <1>1
<1>7. Elements(s) = {Head(s)} \cup Elements(Tail(s))
  BY <1>1, <1>3, <1>4, <1>5, <1>6
<1> QED BY <1>1, <1>7

\* Dropping the head of a list without duplicates drops that element.
LEMMA TailDrops ==
  ASSUME NEW S, NEW s \in Seq(S), s # <<>>,
         \A i, j \in DOMAIN s : s[i] = s[j] => i = j
  PROVE  /\ Elements(Tail(s)) = Elements(s) \ {Head(s)}
         /\ \A i, j \in DOMAIN Tail(s) : Tail(s)[i] = Tail(s)[j] => i = j
<1>1. /\ Head(s) = s[1] /\ Tail(s) \in Seq(S) /\ Len(s) \in Nat \ {0}
      /\ Len(Tail(s)) = Len(s) - 1 /\ \A i \in 1..Len(Tail(s)) : Tail(s)[i] = s[i + 1]
  BY ListTail, ListEmpty, ListLen
<1>2. DOMAIN s = 1..Len(s) /\ DOMAIN Tail(s) = 1..Len(s) - 1
  BY <1>1, ListLen
<1>3. ASSUME NEW i \in 1..Len(s) - 1
      PROVE  Tail(s)[i] = s[i + 1] /\ i + 1 \in 1..Len(s) /\ i + 1 # 1
  BY <1>1
<1>4. \A i \in 1..Len(s) - 1 : Tail(s)[i] # Head(s)
  <2> TAKE i \in 1..Len(s) - 1
  <2>1. 1 \in 1..Len(s)
    BY <1>1
  <2> QED BY <2>1, <1>1, <1>2, <1>3
<1>5. Head(s) \notin Elements(Tail(s))
  BY <1>2, <1>4 DEF Elements
<1>6. ASSUME NEW i \in 1..Len(s) - 1, NEW j \in 1..Len(s) - 1, Tail(s)[i] = Tail(s)[j]
      PROVE  i = j
  <2>1. i + 1 = j + 1
    BY <1>2, <1>3, <1>6
  <2> QED BY <2>1
<1> QED BY <1>2, <1>5, <1>6, HeadTail

\* Adding an element in front of a list without duplicates.
LEMMA FrontAdds ==
  ASSUME NEW S, NEW s \in Seq(S), NEW l \in S, l \notin Elements(s),
         \A i, j \in DOMAIN s : s[i] = s[j] => i = j
  PROVE  /\ <<l>> \o s \in Seq(S)
         /\ Elements(<<l>> \o s) = Elements(s) \cup {l}
         /\ \A i, j \in DOMAIN (<<l>> \o s) : (<<l>> \o s)[i] = (<<l>> \o s)[j] => i = j
<1> DEFINE r == <<l>> \o s
           n == Len(s)
<1>1. /\ n \in Nat /\ DOMAIN s = 1..n /\ r \in Seq(S) /\ DOMAIN r = 1..n + 1
      /\ r[1] = l /\ \A j \in 2..n + 1 : r[j] = s[j - 1]
  <2>1. <<l>> \in Seq(S) /\ Len(<<l>>) = 1 /\ <<l>>[1] = l
    OBVIOUS
  <2>2. /\ r \in Seq(S) /\ Len(r) = 1 + n
        /\ \A j \in 1..1 + n : r[j] = IF j <= 1 THEN <<l>>[j] ELSE s[j - 1]
    BY <2>1, ListConcat
  <2>3. n \in Nat /\ DOMAIN s = 1..n /\ DOMAIN r = 1..n + 1
    BY <2>2, ListLen
  <2> HIDE DEF r, n
  <2>4. \A j \in 2..n + 1 : r[j] = s[j - 1]
    BY <2>2, <2>3
  <2>5. r[1] = l
    BY <2>1, <2>2, <2>3
  <2> QED BY <2>2, <2>3, <2>4, <2>5
<1> HIDE DEF r, n
<1>2. \A i \in 1..n : s[i] # l
  BY <1>1 DEF Elements
<1>3. \A j \in 2..n + 1 : r[j] = s[j - 1] /\ j - 1 \in 1..n
  BY <1>1
<1>4. ASSUME NEW i \in 1..n PROVE r[i + 1] = s[i] /\ i + 1 \in 1..n + 1
  <2>1. i + 1 \in 2..n + 1 /\ (i + 1) - 1 = i
    BY <1>1
  <2>2. r[i + 1] = s[(i + 1) - 1]
    BY <2>1, <1>1
  <2> QED BY <2>1, <2>2, <1>1
<1>5. 1 \in 1..n + 1 /\ 1..n + 1 = {1} \cup 2..n + 1
  BY <1>1
<1>6. Elements(r) = Elements(s) \cup {l}
  <2>1. Elements(r) = {r[j] : j \in 1..n + 1} /\ Elements(s) = {s[j] : j \in 1..n}
    BY <1>1 DEF Elements
  <2>2. \A j \in 1..n + 1 : r[j] \in Elements(s) \cup {l}
    BY <2>1, <1>1, <1>3, <1>5
  <2>3. \A j \in 1..n : s[j] \in Elements(r)
    BY <2>1, <1>4
  <2>4. l \in Elements(r)
    BY <2>1, <1>1, <1>5
  <2> QED BY <2>1, <2>2, <2>3, <2>4
<1>7. ASSUME NEW i \in 1..n + 1, NEW j \in 1..n + 1, r[i] = r[j] PROVE i = j
  <2>1. CASE i = 1
    BY <2>1, <1>1, <1>2, <1>3, <1>5, <1>7
  <2>2. CASE j = 1
    BY <2>2, <1>1, <1>2, <1>3, <1>5, <1>7
  <2>3. CASE i \in 2..n + 1 /\ j \in 2..n + 1
    <3>1. i - 1 = j - 1
      BY Zenon, <2>3, <1>1, <1>3, <1>7
    <3> QED BY <3>1, <2>3, <1>1
  <2> QED BY <2>1, <2>2, <2>3, <1>5
<1> QED BY <1>1, <1>6, <1>7 DEF r

\* The elements of two lists, one after the other.
LEMMA ConcatElements ==
  ASSUME NEW S, NEW a \in Seq(S), NEW b \in Seq(S)
  PROVE  a \o b \in Seq(S) /\ Elements(a \o b) = Elements(a) \cup Elements(b)
<1> DEFINE r == a \o b
           n == Len(a)
           m == Len(b)
<1>1. /\ n \in Nat /\ m \in Nat /\ DOMAIN a = 1..n /\ DOMAIN b = 1..m
      /\ r \in Seq(S) /\ DOMAIN r = 1..n + m
      /\ \A j \in 1..n + m : r[j] = IF j <= n THEN a[j] ELSE b[j - n]
  BY ListConcat, ListLen
<1> HIDE DEF r, n, m
<1>2. /\ Elements(r) = {r[j] : j \in 1..n + m}
      /\ Elements(a) = {a[j] : j \in 1..n} /\ Elements(b) = {b[j] : j \in 1..m}
  BY <1>1 DEF Elements
<1>3. ASSUME NEW j \in 1..n + m PROVE r[j] \in Elements(a) \cup Elements(b)
  <2>1. CASE j <= n
    BY <2>1, <1>1, <1>2
  <2>2. CASE ~(j <= n)
    <3>1. j - n \in 1..m /\ r[j] = b[j - n]
      BY <2>2, <1>1
    <3> QED BY <3>1, <1>2
  <2> QED BY <2>1, <2>2
<1>4. ASSUME NEW j \in 1..n PROVE a[j] \in Elements(r)
  <2>1. j \in 1..n + m /\ r[j] = a[j]
    BY <1>1
  <2> QED BY <2>1, <1>2
<1>5. ASSUME NEW j \in 1..m PROVE b[j] \in Elements(r)
  <2>1. j + n \in 1..n + m /\ ~(j + n <= n) /\ (j + n) - n = j
    BY <1>1
  <2>2. r[j + n] = b[(j + n) - n]
    BY <2>1, <1>1
  <2>3. r[j + n] = b[j]
    BY <2>1, <2>2
  <2> QED BY <2>1, <2>3, <1>2
<1>6. Elements(r) = Elements(a) \cup Elements(b)
  BY <1>2, <1>3, <1>4, <1>5
<1> QED BY <1>1, <1>6 DEF r

\* Removing an entry keeps the others, in their order.
LEMMA RemoveKeeps ==
  ASSUME NEW S, NEW s \in Seq(S), NEW i \in 1..Len(s)
  PROVE  /\ Remove(s, i) \in Seq(S)
         /\ Len(Remove(s, i)) = Len(s) - 1
         /\ \A j \in 1..i - 1 : Remove(s, i)[j] = s[j]
         /\ \A j \in i..Len(s) - 1 : Remove(s, i)[j] = s[j + 1]
<1> DEFINE a == SubSeq(s, 1, i - 1)
           b == SubSeq(s, i + 1, Len(s))
<1>1. a \in Seq(S) /\ Len(a) = i - 1 /\ \A j \in 1..i - 1 : a[j] = s[j]
  <2>1. 1 \in Nat /\ i - 1 \in Nat /\ \A j \in 1..i - 1 : s[j] \in S
    OBVIOUS
  <2> QED BY <2>1, ListPart
<1>2. b \in Seq(S) /\ Len(b) = Len(s) - i /\ \A j \in 1..Len(s) - i : b[j] = s[i + j]
  <2>1. /\ i + 1 \in Nat /\ Len(s) \in Nat
        /\ \A j \in i + 1..Len(s) : s[j] \in S
    OBVIOUS
  <2>2. /\ b \in Seq(S)
        /\ Len(b) = IF i + 1 <= Len(s) THEN Len(s) - (i + 1) + 1 ELSE 0
        /\ \A j \in 1..Len(s) - (i + 1) + 1 : b[j] = s[i + 1 + j - 1]
    BY <2>1, ListPart
  <2> HIDE DEF b
  <2>3. Len(b) = Len(s) - i
    BY <2>1, <2>2
  <2>4. ASSUME NEW j \in 1..Len(s) - i
        PROVE  b[j] = s[i + j]
    <3>1. j \in 1..Len(s) - (i + 1) + 1 /\ i + 1 + j - 1 = i + j
      BY <2>1
    <3> QED BY <2>2, <3>1
  <2> QED BY <2>2, <2>3, <2>4
<1> HIDE DEF a, b
<1>3. /\ a \o b \in Seq(S)
      /\ Len(a \o b) = Len(s) - 1
      /\ \A j \in 1..Len(s) - 1 :
           (a \o b)[j] = IF j <= i - 1 THEN a[j] ELSE b[j - (i - 1)]
  <2>1. Len(a) + Len(b) = Len(s) - 1
    BY <1>1, <1>2
  <2>2. /\ a \o b \in Seq(S) /\ Len(a \o b) = Len(a) + Len(b)
        /\ \A j \in 1..Len(a) + Len(b) :
             (a \o b)[j] = IF j <= Len(a) THEN a[j] ELSE b[j - Len(a)]
    BY Zenon, <1>1, <1>2, ListConcat
  <2> QED BY <1>1, <2>1, <2>2
<1>4. \A j \in i..Len(s) - 1 : (a \o b)[j] = s[j + 1]
  <2> TAKE j \in i..Len(s) - 1
  <2>1. /\ j - (i - 1) \in 1..Len(s) - i /\ ~(j <= i - 1) /\ j \in 1..Len(s) - 1
        /\ i + (j - (i - 1)) = j + 1
    OBVIOUS
  <2>2. (a \o b)[j] = b[j - (i - 1)]
    BY <2>1, <1>3
  <2>3. b[j - (i - 1)] = s[i + (j - (i - 1))]
    BY <2>1, <1>2
  <2> QED BY <2>1, <2>2, <2>3
<1>5. \A j \in 1..i - 1 : (a \o b)[j] = s[j]
  BY <1>1, <1>3
<1>6. Remove(s, i) = a \o b
  BY DEF Remove, a, b
<1> QED BY <1>3, <1>4, <1>5, <1>6

\* The elements of what is left when an entry is removed.
LEMMA RemoveElements ==
  ASSUME NEW S, NEW s \in Seq(S), NEW i \in 1..Len(s)
  PROVE  Elements(Remove(s, i)) = {s[j] : j \in (1..Len(s)) \ {i}}
<1> DEFINE r == Remove(s, i)
<1>1. /\ r \in Seq(S) /\ Len(r) = Len(s) - 1
      /\ \A j \in 1..i - 1 : r[j] = s[j]
      /\ \A j \in i..Len(s) - 1 : r[j] = s[j + 1]
  BY RemoveKeeps
<1> HIDE DEF r
<1>2. DOMAIN r = 1..Len(s) - 1
  BY <1>1
<1>3. ASSUME NEW j \in 1..Len(s) - 1
      PROVE  r[j] \in {s[k] : k \in (1..Len(s)) \ {i}}
  <2>1. CASE j < i
    <3>1. r[j] = s[j] /\ j \in (1..Len(s)) \ {i}
      BY <2>1, <1>1
    <3> QED BY <3>1
  <2>2. CASE j >= i
    <3>1. r[j] = s[j + 1] /\ j + 1 \in (1..Len(s)) \ {i}
      BY <2>2, <1>1
    <3> QED BY <3>1
  <2> QED BY <2>1, <2>2
<1>4. ASSUME NEW k \in (1..Len(s)) \ {i}
      PROVE  \E j \in 1..Len(s) - 1 : r[j] = s[k]
  <2>1. CASE k < i
    <3>1. k \in 1..Len(s) - 1 /\ r[k] = s[k]
      BY <2>1, <1>1
    <3> QED BY <3>1
  <2>2. CASE k > i
    <3>1. k - 1 \in 1..Len(s) - 1 /\ r[k - 1] = s[k]
      <4>1. k - 1 \in i..Len(s) - 1 /\ (k - 1) + 1 = k
        BY <2>2
      <4>2. r[k - 1] = s[(k - 1) + 1]
        BY <1>1, <4>1
      <4> QED BY <4>1, <4>2
    <3> QED BY <3>1
  <2> QED BY <2>1, <2>2
<1>5. Elements(r) = {r[j] : j \in 1..Len(s) - 1}
  BY <1>2 DEF Elements
<1>6. Elements(r) = {s[j] : j \in (1..Len(s)) \ {i}}
  BY Zenon, <1>3, <1>4, <1>5
<1> QED BY <1>6 DEF r

\* ww_acquire_fini() takes away the ticket of the thread and no other.
LEMMA FiniDrops ==
  ASSUME TicketsOK, NEW t \in Threads, AcquireFini(t)
  PROVE  TicketsOK' /\ \A u \in Threads : Live(u)' <=> Live(u) /\ u # t
<1>1. CASE ~Live(t)
  BY <1>1 DEF AcquireFini, TicketsOK, Live
<1>2. CASE Live(t)
  <2> DEFINE i == CHOOSE j \in DOMAIN tickets : tickets[j] = t
             n == Len(tickets)
  <2>1. i \in 1..n /\ tickets[i] = t /\ n \in Nat
    BY <1>2 DEF Live, Elements, TicketsOK
  <2>2. tickets' = Remove(tickets, i)
    BY <1>2 DEF AcquireFini
  <2> HIDE DEF i
  <2>3. /\ tickets' \in Seq(Threads) /\ Len(tickets') = n - 1
        /\ \A j \in 1..i - 1 : tickets'[j] = tickets[j]
        /\ \A j \in i..n - 1 : tickets'[j] = tickets[j + 1]
    BY Zenon, <2>1, <2>2, RemoveKeeps DEF TicketsOK
  <2>4. Elements(tickets') = {tickets[j] : j \in (1..n) \ {i}}
    BY <2>1, <2>2, RemoveElements DEF TicketsOK
  <2>5. DOMAIN tickets = 1..n /\ DOMAIN tickets' = 1..n - 1
    BY <2>1, <2>3 DEF TicketsOK
  <2>6. ASSUME NEW j \in 1..n - 1, NEW k \in 1..n - 1, tickets'[j] = tickets'[k]
        PROVE  j = k
    <3>1. PICK a \in 1..n : tickets'[j] = tickets[a] /\ a = (IF j < i THEN j ELSE j + 1)
      BY <2>1, <2>3
    <3>2. PICK b \in 1..n : tickets'[k] = tickets[b] /\ b = (IF k < i THEN k ELSE k + 1)
      BY <2>1, <2>3
    <3>3. a = b
      BY <3>1, <3>2, <2>6, <2>5 DEF TicketsOK
    <3> QED BY <3>1, <3>2, <3>3, <2>1
  <2>7. ASSUME NEW u \in Threads
        PROVE  Live(u)' <=> Live(u) /\ u # t
    <3>1. Live(u)' <=> \E j \in (1..n) \ {i} : tickets[j] = u
      BY <2>4 DEF Live
    <3>2. Live(u) <=> \E j \in 1..n : tickets[j] = u
      BY <2>5 DEF Live, Elements
    <3>3. \A j \in 1..n : tickets[j] = t => j = i
      BY <2>1, <2>5 DEF TicketsOK
    <3> QED BY <3>1, <3>2, <3>3, <2>1
  <2> QED BY <2>3, <2>5, <2>6, <2>7 DEF TicketsOK
<1> QED BY <1>1, <1>2

\* ww_acquire_init() adds one.
LEMMA InitAdds ==
  ASSUME TicketsOK, NEW t \in Threads, ~Live(t), tickets' = Append(tickets, t)
  PROVE  TicketsOK' /\ \A u \in Threads : Live(u)' <=> Live(u) \/ u = t
<1> DEFINE n == Len(tickets)
<1>1. /\ n \in Nat /\ DOMAIN tickets = 1..n
      /\ tickets' \in Seq(Threads) /\ DOMAIN tickets' = 1..n + 1
      /\ tickets'[n + 1] = t /\ \A j \in 1..n : tickets'[j] = tickets[j]
  BY ListAppend DEF TicketsOK
<1>2. \A j \in 1..n : tickets[j] # t
  BY <1>1 DEF Live, Elements
<1> HIDE DEF n
<1>3. \A u : Live(u) <=> \E j \in 1..n : tickets[j] = u
  BY <1>1 DEF Live, Elements
<1>4. \A u : Live(u)' <=> \E j \in 1..n + 1 : tickets'[j] = u
  BY <1>1 DEF Live, Elements
<1>5. \A u : Live(u)' <=> Live(u) \/ u = t
  BY <1>1, <1>3, <1>4
<1>6. \A j, k \in 1..n + 1 : tickets'[j] = tickets'[k] => j = k
  <2> SUFFICES ASSUME NEW j \in 1..n + 1, NEW k \in 1..n + 1, tickets'[j] = tickets'[k]
               PROVE  j = k
    BY Zenon
  <2>1. CASE j = n + 1 \/ k = n + 1
    BY <2>1, <1>1, <1>2
  <2>2. CASE j \in 1..n /\ k \in 1..n
    BY <2>2, <1>1 DEF TicketsOK
  <2> QED BY <2>1, <2>2, <1>1
<1> QED BY <1>1, <1>5, <1>6 DEF TicketsOK

------------------------------------------------------------------------------
(* The locks and the lists of the contexts. *)

LEMMA ConcatLocks ==
  \A x, y \in Seq(Locks) :
    x \o y \in Seq(Locks) /\ Elements(x \o y) = Elements(x) \cup Elements(y)
BY ConcatElements

LEMMA FrontLocks ==
  \A s \in Seq(Locks), l \in Locks :
    l \notin Elements(s) /\ (\A i, j \in DOMAIN s : s[i] = s[j] => i = j) =>
      /\ Elements(<<l>> \o s) = Elements(s) \cup {l}
      /\ \A i, j \in DOMAIN (<<l>> \o s) : (<<l>> \o s)[i] = (<<l>> \o s)[j] => i = j
<1> TAKE s \in Seq(Locks), l \in Locks
<1> HAVE l \notin Elements(s) /\ (\A i, j \in DOMAIN s : s[i] = s[j] => i = j)
<1> QED BY FrontAdds

\* drm_modeset_lock_all() works through every lock.
LEMMA AllElements == AllLocks \in Seq(Locks) /\ Elements(AllLocks) = Locks
<1>1. CrtcList \in Seq(Locks) /\ PlaneList \in Seq(Locks)
  <2>1. Crtcs \subseteq Locks /\ Planes \subseteq Locks
    BY DEF Locks
  <2> QED BY <2>1, ModesetAssumption
<1>2. <<Conn>> \in Seq(Locks) /\ Elements(<<Conn>>) = {Conn}
  BY DEF Locks, Elements
<1>3. <<Conn>> \o CrtcList \in Seq(Locks) /\ Elements(<<Conn>> \o CrtcList) = {Conn} \cup Crtcs
  BY <1>1, <1>2, ConcatLocks, Zenon DEF Crtcs
<1>4. /\ (<<Conn>> \o CrtcList) \o PlaneList \in Seq(Locks)
      /\ Elements((<<Conn>> \o CrtcList) \o PlaneList) = ({Conn} \cup Crtcs) \cup Planes
  BY <1>1, <1>3, ConcatLocks, Zenon DEF Planes
<1> QED BY <1>4 DEF AllLocks, Locks

LEMMA OneElement == ASSUME NEW l PROVE Elements(<<l>>) = {l}
BY DEF Elements

LEMMA NoElement == Elements(<<>>) = {}
BY DEF Elements

\* drm_modeset_lock_crtc() works through the crtc and, if there is one, the plane.
LEMMA PlanElements ==
  ASSUME NEW r, r.crtc \in Crtcs, r.plane \in Planes \cup {None}
  PROVE  CrtcPlan(r) \in Seq(Locks) /\ Elements(CrtcPlan(r)) = CrtcLocks(r)
<1>1. r.crtc \in Locks /\ r.crtc # None
  BY ModesetAssumption DEF Locks
<1>2. CASE r.plane = None
  <2>1. CrtcPlan(r) = <<r.crtc>>
    BY <1>1, <1>2 DEF CrtcPlan
  <2> QED BY <2>1, <1>1, <1>2, OneElement DEF CrtcLocks
<1>3. CASE r.plane # None
  <2>1. r.plane \in Locks
    BY <1>3 DEF Locks
  <2>2. CrtcPlan(r) = <<r.crtc, r.plane>>
    BY <1>3 DEF CrtcPlan
  <2>3. <<r.crtc, r.plane>> \in Seq(Locks) /\ DOMAIN <<r.crtc, r.plane>> = {1, 2}
    BY <1>1, <2>1
  <2>4. Elements(<<r.crtc, r.plane>>) = {r.crtc, r.plane}
    BY <2>3 DEF Elements
  <2> QED BY <2>2, <2>3, <2>4, <1>1, <1>3 DEF CrtcLocks
<1> QED BY <1>2, <1>3

\* The locks and the lists that track them.
Tracked ==
  /\ owner \in [Locks -> Threads \cup {None}]
  /\ lock_ctx \in [Locks -> Threads \cup {None}]
  /\ ctx \in [Threads -> [locked : Seq(Locks), contended : Locks \cup {None}]]
  /\ \A u \in Threads : Listing(u)

\* A step that leaves the locks of u alone.
SameLocks(u) == Mine(u)' = Mine(u) /\ Held(u)' = Held(u)

\* A lock that nobody owns is on no list.
LEMMA FreeUnlisted ==
  ASSUME Tracked, NEW l \in Locks, owner[l] = None
  PROVE  lock_ctx[l] = None
<1>1. \A t \in Threads : lock_ctx[l] # t
  BY ModesetAssumption DEF Tracked, Listing, Mine, Held
<1> QED BY <1>1 DEF Tracked

\* The locks do not change, nor do the lists.
LEMMA LocksSame ==
  ASSUME Tracked, UNCHANGED <<owner, lock_ctx>>,
         ctx' \in [Threads -> [locked : Seq(Locks), contended : Locks \cup {None}]],
         \A u \in Threads : ctx'[u].locked = ctx[u].locked
  PROVE  Tracked' /\ \A u \in Threads : SameLocks(u)
<1>1. \A u \in Threads : SameLocks(u)
  BY DEF SameLocks, Mine, Held
<1>2. \A u \in Threads : Listing(u)'
  <2> TAKE u \in Threads
  <2>1. Listing(u) /\ SameLocks(u)
    BY <1>1 DEF Tracked
  <2> QED BY <2>1 DEF Listing, SameLocks
<1> QED BY <1>1, <1>2 DEF Tracked

\* A free lock is taken and put on the list of the context.
LEMMA GrabAdds ==
  ASSUME Tracked, NEW t \in Threads, NEW l \in Locks, Grab(t, l),
         ctx' \in [Threads -> [locked : Seq(Locks), contended : Locks \cup {None}]],
         ctx'[t].locked = <<l>> \o ctx[t].locked,
         \A u \in Threads \ {t} : ctx'[u].locked = ctx[u].locked
  PROVE  /\ Tracked'
         /\ Mine(t)' = Mine(t) \cup {l} /\ Held(t)' = Held(t) \cup {l}
         /\ \A u \in Threads \ {t} : SameLocks(u)
<1>1. owner[l] = None /\ lock_ctx[l] = None
  BY FreeUnlisted DEF Grab
<1>2. owner' = [owner EXCEPT ![l] = t] /\ lock_ctx' = [lock_ctx EXCEPT ![l] = t]
  BY DEF Grab
<1>3. /\ owner' \in [Locks -> Threads \cup {None}] /\ lock_ctx' \in [Locks -> Threads \cup {None}]
      /\ owner'[l] = t /\ lock_ctx'[l] = t
      /\ \A k \in Locks \ {l} : owner'[k] = owner[k] /\ lock_ctx'[k] = lock_ctx[k]
  BY <1>2 DEF Tracked
<1>4. Mine(t)' = Mine(t) \cup {l} /\ Held(t)' = Held(t) \cup {l}
  BY <1>3 DEF Mine, Held
<1>5. \A u \in Threads \ {t} : SameLocks(u)
  BY <1>1, <1>3, ModesetAssumption DEF SameLocks, Mine, Held
<1>6. ASSUME NEW u \in Threads PROVE Listing(u)'
  <2>1. CASE u # t
    <3>1. Listing(u) /\ SameLocks(u) /\ ctx'[u].locked = ctx[u].locked
      BY <2>1, <1>5 DEF Tracked
    <3> QED BY <3>1 DEF Listing, SameLocks
  <2>2. CASE u = t
    <3>1. Listing(t) /\ ctx[t].locked \in Seq(Locks)
      BY DEF Tracked
    <3>2. l \notin Elements(ctx[t].locked)
      BY <3>1, <1>1, ModesetAssumption DEF Listing, Mine
    <3>3. /\ Elements(ctx'[t].locked) = Elements(ctx[t].locked) \cup {l}
          /\ \A i, j \in DOMAIN ctx'[t].locked : ctx'[t].locked[i] = ctx'[t].locked[j] => i = j
      <4> DEFINE s == ctx[t].locked
      <4>1. s \in Seq(Locks) /\ l \notin Elements(s) /\ \A i, j \in DOMAIN s : s[i] = s[j] => i = j
        BY <3>1, <3>2 DEF Listing
      <4> HIDE DEF s
      <4>2. /\ Elements(<<l>> \o s) = Elements(s) \cup {l}
            /\ \A i, j \in DOMAIN (<<l>> \o s) : (<<l>> \o s)[i] = (<<l>> \o s)[j] => i = j
        BY <4>1, FrontLocks, Zenon
      <4>3. ctx'[t].locked = <<l>> \o s
        BY DEF s
      <4> QED BY <4>2, <4>3, Zenon DEF s
    <3> QED BY Zenon, <2>2, <3>1, <3>3, <1>4 DEF Listing
  <2> QED BY <2>1, <2>2
<1> QED BY <1>3, <1>4, <1>5, <1>6 DEF Tracked

\* drm_modeset_drop_locks() drops a lock of the context.
LEMMA DropDrops ==
  ASSUME Tracked, NEW t \in Threads, DropOne(t)
  PROVE  LET l == Head(ctx[t].locked) IN
         /\ Tracked'
         /\ ctx'[t].contended = ctx[t].contended
         /\ \A u \in Threads \ {t} : ctx'[u] = ctx[u] /\ SameLocks(u)
         /\ l \in Mine(t) /\ Mine(t)' = Mine(t) \ {l} /\ Held(t)' = Held(t) \ {l}
<1> DEFINE l == Head(ctx[t].locked)
<1>1. /\ Listing(t) /\ ctx[t].locked \in Seq(Locks) /\ ctx[t].locked # <<>>
      /\ Release(l) /\ ctx' = [ctx EXCEPT ![t].locked = Tail(@)]
  BY DEF Tracked, DropOne
<1>2. l \in Locks /\ l \in Mine(t) /\ l \in Held(t) /\ Tail(ctx[t].locked) \in Seq(Locks)
  BY <1>1, HeadTail DEF Listing
<1>3. /\ Elements(Tail(ctx[t].locked)) = Elements(ctx[t].locked) \ {l}
      /\ \A i, j \in DOMAIN Tail(ctx[t].locked) :
           Tail(ctx[t].locked)[i] = Tail(ctx[t].locked)[j] => i = j
  BY <1>1, TailDrops DEF Listing
<1> HIDE DEF l
<1>4. /\ owner' \in [Locks -> Threads \cup {None}] /\ lock_ctx' \in [Locks -> Threads \cup {None}]
      /\ owner'[l] = None /\ lock_ctx'[l] = None
      /\ \A k \in Locks \ {l} : owner'[k] = owner[k] /\ lock_ctx'[k] = lock_ctx[k]
  BY <1>1, <1>2 DEF Release, Tracked
<1>5. /\ ctx' \in [Threads -> [locked : Seq(Locks), contended : Locks \cup {None}]]
      /\ ctx'[t].locked = Tail(ctx[t].locked) /\ ctx'[t].contended = ctx[t].contended
      /\ \A u \in Threads \ {t} : ctx'[u] = ctx[u]
  BY Zenon, <1>1, <1>2 DEF Tracked
<1>6. Mine(t)' = Mine(t) \ {l} /\ Held(t)' = Held(t) \ {l}
  BY <1>4, ModesetAssumption DEF Mine, Held
<1>7. \A u \in Threads \ {t} : SameLocks(u)
  BY <1>2, <1>4, ModesetAssumption DEF SameLocks, Mine, Held
<1>8. ASSUME NEW u \in Threads PROVE Listing(u)'
  <2>1. CASE u # t
    <3>1. Listing(u) /\ SameLocks(u) /\ ctx'[u] = ctx[u]
      BY <2>1, <1>5, <1>7 DEF Tracked
    <3> QED BY <3>1 DEF Listing, SameLocks
  <2>2. CASE u = t
    BY <2>2, <1>1, <1>3, <1>5, <1>6 DEF Listing
  <2> QED BY <2>1, <2>2
<1>9. Tracked'
  BY <1>4, <1>5, <1>8 DEF Tracked
<1> QED BY <1>2, <1>5, <1>6, <1>7, <1>9 DEF l

\* A free lock is taken without a context: no list changes.
LEMMA PlainAdds ==
  ASSUME Tracked, NEW t \in Threads, NEW l \in Locks, owner[l] = None,
         owner' = [owner EXCEPT ![l] = t], UNCHANGED <<lock_ctx, ctx>>
  PROVE  /\ Tracked' /\ lock_ctx'[l] = None /\ owner'[l] = t
         /\ Mine(t)' = Mine(t) /\ Held(t)' = Held(t) \cup {l}
         /\ \A u \in Threads \ {t} : SameLocks(u)
<1>1. lock_ctx[l] = None
  BY FreeUnlisted
<1>2. /\ owner' \in [Locks -> Threads \cup {None}] /\ owner'[l] = t
      /\ \A k \in Locks \ {l} : owner'[k] = owner[k]
  BY DEF Tracked
<1>3. Mine(t)' = Mine(t) /\ Held(t)' = Held(t) \cup {l}
  BY <1>2 DEF Mine, Held
<1>4. \A u \in Threads \ {t} : SameLocks(u)
  BY <1>2, ModesetAssumption DEF SameLocks, Mine, Held
<1>5. ASSUME NEW u \in Threads PROVE Listing(u)'
  <2>1. Listing(u) /\ Mine(u)' = Mine(u) /\ Held(u) \subseteq Held(u)'
    BY <1>3, <1>4 DEF Tracked, SameLocks
  <2> QED BY <2>1 DEF Listing
<1> QED BY <1>1, <1>2, <1>3, <1>4, <1>5 DEF Tracked

\* A lock taken without a context is released: no list changes.
LEMMA PlainDrops ==
  ASSUME Tracked, NEW t \in Threads, NEW l \in Locks, owner[l] = t, lock_ctx[l] = None,
         Release(l), UNCHANGED ctx
  PROVE  /\ Tracked'
         /\ Mine(t)' = Mine(t) /\ Held(t)' = Held(t) \ {l}
         /\ \A u \in Threads \ {t} : SameLocks(u)
<1>1. /\ owner' \in [Locks -> Threads \cup {None}] /\ owner'[l] = None
      /\ lock_ctx' \in [Locks -> Threads \cup {None}]
      /\ \A k \in Locks \ {l} : owner'[k] = owner[k]
      /\ \A k \in Locks : lock_ctx'[k] = lock_ctx[k]
  BY DEF Tracked, Release
<1>2. Mine(t)' = Mine(t) /\ Held(t)' = Held(t) \ {l}
  BY <1>1, ModesetAssumption DEF Mine, Held
<1>3. \A u \in Threads \ {t} : SameLocks(u)
  BY <1>1, ModesetAssumption DEF SameLocks, Mine, Held
<1>4. ASSUME NEW u \in Threads PROVE Listing(u)'
  <2>1. Listing(u) /\ Mine(u)' = Mine(u)
    BY <1>2, <1>3 DEF Tracked, SameLocks
  <2>2. l \notin Mine(u)
    BY ModesetAssumption DEF Mine
  <2>3. Held(u) \ {l} \subseteq Held(u)'
    BY <1>2, <1>3 DEF SameLocks
  <2> QED BY <2>1, <2>2, <2>3 DEF Listing
<1> QED BY <1>1, <1>2, <1>3, <1>4 DEF Tracked

------------------------------------------------------------------------------
(* What the step of a thread leaves alone. *)

SameCtx(u) == (Live(u)' <=> Live(u)) /\ ctx'[u] = ctx[u]

SameStash(u) ==
  /\ config_ctx' = u <=> config_ctx = u
  /\ \A c \in Crtcs : crtc_ctx'[c] = u <=> crtc_ctx[c] = u

\* What is shown of every step of t: the invariant is kept and, unless allocations
\* fail, nobody else loses a lock.
Step(t) ==
  IInv' /\ (~load.alloc_fails => \A u \in Threads \ {t} : Held(u)' = Held(u))

\* The parts of the invariant.
LEMMA Parts ==
  ASSUME IInv
  PROVE  /\ TypeOK /\ Tracked /\ TicketsOK /\ OnePlace
         /\ \A t \in Threads :
              /\ th[t] \in Locals /\ Shape(th[t]) /\ Context(t) /\ Plain(t) /\ Listing(t)
              /\ ~load.alloc_fails => Sure(t)
              /\ Blocking => Clean(t) /\ Sure(t)
BY DEF IInv, Local, TypeOK, Tracked, TicketsOK, Blocking

\* The types after a step.
LEMMA Typed ==
  ASSUME TypeOK, load' = load, mutex' \in Threads \cup {None}, Tracked', TicketsOK',
         th' \in [Threads -> Locals], config_ctx' \in Threads \cup {None},
         crtc_ctx' \in [Crtcs -> Threads \cup {None}]
  PROVE  TypeOK'
BY DEF TypeOK, Tracked, TicketsOK

LEMMA SetSets ==
  ASSUME TypeOK, NEW t \in Threads, NEW x \in Locals, Set(t, x)
  PROVE  /\ th' \in [Threads -> Locals] /\ th'[t] = x
         /\ \A u \in Threads \ {t} : th'[u] = th[u]
BY DEF TypeOK, Set

LEMMA ContextFrame ==
  ASSUME NEW u \in Threads, load' = load, th'[u] = th[u], SameCtx(u), Context(u)
  PROVE  Context(u)' /\ (Owns(u)' <=> Owns(u))
BY DEF Context, Owns, SameCtx

LEMMA PlainFrame ==
  ASSUME NEW u \in Threads, Tracked, Tracked', th[u] \in Locals, Shape(th[u]), Plain(u),
         th'[u] = th[u], Held(u) \ Mine(u) \subseteq Held(u)', Mine(u)' \subseteq Mine(u)
  PROVE  Plain(u)'
<1> SUFFICES ASSUME th[u].op \in PlainOps, th[u].pc = "in"
             PROVE  owner'[th[u].todo[1]] = u /\ lock_ctx'[th[u].todo[1]] = None
  BY DEF Plain
<1> DEFINE l == th[u].todo[1]
<1>1. l \in Locks
  <2>1. th[u].todo \in Seq(Locks) /\ Len(th[u].todo) = 1
    BY DEF Locals, Shape
  <2> QED BY <2>1
<1>2. owner[l] = u /\ lock_ctx[l] = None
  BY DEF Plain
<1>3. l \in Held(u)' /\ l \notin Mine(u)'
  <2>1. l \in Held(u) \ Mine(u)
    BY <1>1, <1>2, ModesetAssumption DEF Held, Mine
  <2> QED BY <2>1
<1>4. owner'[l] = u /\ lock_ctx'[l] # u
  BY <1>1, <1>3 DEF Held, Mine
<1>5. \A v \in Threads : lock_ctx'[l] = v => owner'[l] = v
  <2> TAKE v \in Threads
  <2>1. (Mine(v) \subseteq Held(v))'
    BY DEF Tracked, Listing
  <2> QED BY <2>1, <1>1 DEF Mine, Held
<1> QED BY <1>1, <1>4, <1>5 DEF Tracked

LEMMA SureFrame ==
  ASSUME NEW u \in Threads, Shape(th[u]), Sure(u), th'[u] = th[u], SameLocks(u), SameStash(u),
         mutex' = u <=> mutex = u
  PROVE  Sure(u)'
<1>1. (InSection(u)' <=> InSection(u)) /\ (HasMutex(u)' <=> HasMutex(u))
  BY DEF InSection, HasMutex
<1>2. th[u].op = "crtc" /\ InSection(u) => th[u].crtc \in Crtcs
  BY DEF Shape, InSection
<1> QED BY <1>1, <1>2 DEF Sure, OwnStash, SameStash, SameLocks

LEMMA CleanFrame ==
  ASSUME NEW u \in Threads, Clean(u), th'[u] = th[u], SameLocks(u), SameCtx(u),
         mutex' = u <=> mutex = u
  PROVE  Clean(u)'
BY DEF Clean, HasMutex, SameLocks, SameCtx

\* A step of t that leaves the contexts and locks of the others alone.
LEMMA StepKeeps ==
  ASSUME IInv, NEW t \in Threads, load' = load, TypeOK', Tracked', OnePlace',
         \A u \in Threads \ {t} : th'[u] = th[u] /\ SameLocks(u) /\ SameCtx(u),
         ~load.alloc_fails =>
           \A u \in Threads \ {t} : SameStash(u) /\ (mutex' = u <=> mutex = u),
         Shape(th'[t]), Context(t)', Plain(t)',
         ~load.alloc_fails => Sure(t)',
         Blocking => Clean(t)'
  PROVE  Step(t)
<1>1. ASSUME NEW u \in Threads PROVE Local(u)'
  <2>1. Listing(u)'
    BY DEF Tracked
  <2>2. CASE u = t
    BY <2>1, <2>2 DEF Local
  <2>3. CASE u # t
    <3>1. th'[u] = th[u] /\ SameLocks(u) /\ SameCtx(u)
      BY <2>3
    <3>2. Tracked /\ th[u] \in Locals /\ Shape(th[u]) /\ Context(u) /\ Plain(u)
      BY Parts
    <3>3. Context(u)'
      BY <3>1, <3>2, ContextFrame
    <3>4. Plain(u)'
      BY <3>1, <3>2, PlainFrame DEF SameLocks
    <3>5. Shape(th'[u])
      BY <3>1, <3>2
    <3> QED BY <2>1, <3>3, <3>4, <3>5 DEF Local
  <2> QED BY <2>2, <2>3
<1>2. ASSUME NEW u \in Threads, ~load.alloc_fails PROVE Sure(u)'
  <2>1. CASE u # t
    <3>1. th'[u] = th[u] /\ SameLocks(u) /\ SameStash(u) /\ (mutex' = u <=> mutex = u)
      BY <1>2, <2>1
    <3>2. Shape(th[u]) /\ Sure(u)
      BY <1>2, Parts
    <3> QED BY <3>1, <3>2, SureFrame
  <2> QED BY <1>2, <2>1
<1>3. ASSUME NEW u \in Threads, Blocking PROVE Clean(u)'
  <2>1. CASE u # t
    <3>0. ~load.alloc_fails
      BY <1>3 DEF Blocking
    <3>1. th'[u] = th[u] /\ SameLocks(u) /\ SameCtx(u) /\ (mutex' = u <=> mutex = u)
      BY <3>0, <2>1
    <3>2. Clean(u)
      BY <1>3, Parts
    <3> QED BY <3>1, <3>2, CleanFrame
  <2> QED BY <1>3, <2>1
<1>4. (Blocking' <=> Blocking) /\ load'.alloc_fails = load.alloc_fails
  BY DEF Blocking
<1>5. IInv'
  BY <1>1, <1>2, <1>3, <1>4 DEF IInv
<1> QED BY <1>5 DEF Step, SameLocks

\* The same when allocations fail: t may work on the context of somebody else.
LEMMA ForeignKeeps ==
  ASSUME IInv, load.alloc_fails, NEW t \in Threads, load' = load, TypeOK', Tracked', OnePlace',
         \A u \in Threads : Shape(th'[u]) /\ Context(u)' /\ Plain(u)'
  PROVE  Step(t)
<1>1. \A u \in Threads : Local(u)'
  BY DEF Local, Tracked
<1>2. load'.alloc_fails /\ ~Blocking'
  BY DEF Blocking
<1> QED BY <1>1, <1>2 DEF IInv, Step

\* The stashes and the unlocks do not change.
LEMMA PlaceKeeps ==
  ASSUME OnePlace, UNCHANGED <<config_ctx, crtc_ctx>>,
         \A u \in Threads : th'[u].drop = th[u].drop,
         \A u \in Threads : Stashed(u) \/ Dropped(u) => Live(u)',
         \A u \in Threads : Owns(u)' => Owns(u) \/ ~Live(u)
  PROVE  OnePlace'
<1>1. \A u \in Threads : (Stashed(u)' <=> Stashed(u)) /\ (Dropped(u)' <=> Dropped(u))
  BY DEF Stashed, Dropped
<1> QED BY <1>1 DEF OnePlace

\* A thread that knows its context alone has not stashed it.
LEMMA NotStashed ==
  ASSUME OnePlace, NEW t \in Threads, Owns(t) \/ ~Live(t)
  PROVE  config_ctx # t /\ (\A c \in Crtcs : crtc_ctx[c] # t) /\ \A u \in Threads : th[u].drop # t
BY DEF OnePlace, Stashed, Dropped

------------------------------------------------------------------------------
(* The calls. *)

LEMMA EmptyCtx == NoCtx.locked = <<>> /\ NoCtx.contended = None
BY DEF NoCtx

\* A call that has only begun, or goes on without its context.
LEMMA BeginKeeps ==
  ASSUME IInv, NEW t \in Threads, load' = load, th[t].pc = "idle", ~Live(t),
         NEW x \in Locals, Set(t, x), Shape(x), x.drop = None, x.lap = "first",
         \/ x.pc = "mutex"
         \/ x.pc = "lock" /\ x.op \in {"encoder", "plane"}
         \/ x.pc = "in" /\ x.op \in {"all", "crtc"} /\ load.alloc_fails,
         ~load.alloc_fails => Covers(x, Mine(t)),
         UNCHANGED <<mutex, owner, lock_ctx, tickets, ctx, config_ctx, crtc_ctx>>
  PROVE  Step(t)
<1>1. /\ TypeOK /\ Tracked /\ TicketsOK /\ OnePlace /\ Shape(th[t]) /\ Context(t)
      /\ Blocking => Clean(t)
  BY Zenon, Parts
<1>2. /\ th' \in [Threads -> Locals] /\ th'[t] = x
      /\ \A u \in Threads \ {t} : th'[u] = th[u]
  BY <1>1, SetSets
<1>3. Tracked' /\ \A u \in Threads : SameLocks(u)
  BY Zenon, <1>1, LocksSame DEF Tracked
<1>4. \A u \in Threads : SameCtx(u) /\ SameStash(u) /\ (Live(u)' <=> Live(u))
  BY DEF SameCtx, SameStash, Live
<1>5. TicketsOK' /\ TypeOK'
  BY Zenon, <1>1, <1>2, <1>3, Typed DEF TicketsOK, TypeOK
<1>6. th[t].drop = None /\ ctx[t] = NoCtx /\ ctx[t].contended = None
  <2>1. ctx[t] = NoCtx
    BY <1>1 DEF Context
  <2>2. th[t].drop = None
    BY <1>1 DEF Shape
  <2> QED BY Zenon, <2>1, <2>2, EmptyCtx
<1>7. OnePlace'
  <2>1. \A u \in Threads : th'[u].drop = th[u].drop
    BY Zenon, <1>2, <1>6
  <2>2. \A u \in Threads : Owns(u)' => Owns(u) \/ ~Live(u)
    BY <1>2 DEF Owns
  <2>3. \A u \in Threads : Stashed(u) \/ Dropped(u) => Live(u)'
    BY Zenon, <1>1, <1>4 DEF OnePlace
  <2> QED BY Zenon, <2>1, <2>2, <2>3, <1>1, PlaceKeeps
<1>8. Context(t)'
  BY <1>2, <1>4, <1>6 DEF Context, Owns, SameCtx, PlainOps, CtxOps
<1>9. Plain(t)'
  BY <1>2 DEF Plain, PlainOps
<1>10. ASSUME ~load.alloc_fails PROVE Sure(t)'
  <2>1. config_ctx' # t /\ \A c \in Crtcs : crtc_ctx'[c] # t
    BY Zenon, <1>1, NotStashed
  <2>2. ~InSection(t)' /\ ~HasMutex(t)' /\ th'[t].pc # "drop"
    BY <1>2, <1>10 DEF InSection, HasMutex
  <2>3. Covers(th'[t], Mine(t)')
    BY <1>2, <1>3, <1>10 DEF SameLocks
  <2> QED BY <2>1, <2>2, <2>3 DEF Sure, OwnStash
<1>11. ASSUME Blocking PROVE Clean(t)'
  <2>1. ~HasMutex(t)
    BY Zenon, <1>1 DEF HasMutex, Shape
  <2>2. Held(t)' \ Mine(t)' = {} /\ mutex' # t
    BY Zenon, <1>1, <1>3, <1>11, <2>1 DEF SameLocks, Clean
  <2>3. ~Live(t)'
    BY <1>4
  <2>4. th'[t].op # "try"
    BY <1>2 DEF Shape
  <2> QED BY <2>2, <2>3, <2>4 DEF Clean
<1> QED BY <1>2, <1>3, <1>4, <1>5, <1>7, <1>8, <1>9, <1>10, <1>11, StepKeeps

\* A call that has got its context.
LEMMA StartKeeps ==
  ASSUME IInv, NEW t \in Threads, load' = load, th[t].pc \in {"idle", "mutex"}, ~Live(t),
         NEW x \in Locals, Set(t, x), Shape(x), x.drop = None, x.lap = "first",
         x.pc = "lock", x.op \in CtxOps, AcquireInit(t),
         Blocking => x.op # "try",
         \/ UNCHANGED mutex /\ x.op = "crtc"
         \/ mutex = None /\ mutex' = t /\ x.op # "crtc",
         ~load.alloc_fails => Covers(x, Mine(t)),
         UNCHANGED <<owner, lock_ctx, config_ctx, crtc_ctx>>
  PROVE  Step(t)
<1>1. /\ TypeOK /\ Tracked /\ TicketsOK /\ OnePlace /\ Shape(th[t]) /\ Context(t)
      /\ Blocking => Clean(t)
  BY Zenon, Parts
<1>2. /\ th' \in [Threads -> Locals] /\ th'[t] = x
      /\ \A u \in Threads \ {t} : th'[u] = th[u]
  BY <1>1, SetSets
<1>3. ctx[t] = NoCtx /\ ctx' = ctx /\ tickets' = Append(tickets, t)
  BY Zenon, <1>1 DEF Context, AcquireInit, Tracked
<1>4. Tracked' /\ \A u \in Threads : SameLocks(u)
  BY Zenon, <1>1, <1>3, LocksSame DEF Tracked
<1>5. TicketsOK' /\ \A u \in Threads : Live(u)' <=> Live(u) \/ u = t
  BY Zenon, <1>1, <1>3, InitAdds
<1>6. \A u \in Threads : SameStash(u) /\ (u # t => SameCtx(u))
  BY <1>3, <1>5 DEF SameCtx, SameStash
<1>7. TypeOK'
  BY Zenon, <1>1, <1>2, <1>4, <1>5, Typed DEF TypeOK
<1>8. th[t].drop = None /\ ctx'[t].contended = None
  <2>1. th[t].drop = None
    BY <1>1 DEF Shape
  <2> QED BY Zenon, <1>3, <2>1, EmptyCtx
<1>9. OnePlace'
  <2>1. \A u \in Threads : th'[u].drop = th[u].drop
    BY <1>2, <1>8
  <2>2. \A u \in Threads : Owns(u)' => Owns(u) \/ ~Live(u)
    BY Zenon, <1>2 DEF Owns
  <2>3. \A u \in Threads : Stashed(u) \/ Dropped(u) => Live(u)'
    BY <1>1, <1>5 DEF OnePlace
  <2> QED BY Zenon, <2>1, <2>2, <2>3, <1>1, PlaceKeeps
<1>10. Context(t)'
  BY <1>2, <1>3, <1>5, <1>8 DEF Context
<1>11. Plain(t)'
  BY Zenon, <1>2 DEF Plain
<1>12. ASSUME ~load.alloc_fails PROVE Sure(t)'
  <2>1. config_ctx' # t /\ \A c \in Crtcs : crtc_ctx'[c] # t
    BY <1>1, NotStashed
  <2>2. ~InSection(t)' /\ th'[t].pc # "drop" /\ (HasMutex(t)' => mutex' = t)
    BY <1>2 DEF InSection, HasMutex
  <2>3. Covers(th'[t], Mine(t)')
    BY <1>2, <1>4, <1>12 DEF SameLocks
  <2> QED BY <2>1, <2>2, <2>3 DEF Sure, OwnStash
<1>13. ASSUME Blocking PROVE Clean(t)'
  <2>1. ~HasMutex(t) /\ Clean(t)
    BY Zenon, <1>1, <1>13 DEF HasMutex, Shape
  <2>2. Held(t)' \ Mine(t)' = {} /\ mutex # t
    BY Zenon, <1>4, <2>1 DEF SameLocks, Clean
  <2>3. mutex' = t => HasMutex(t)'
    BY Zenon, <1>2, <2>2 DEF HasMutex, CtxOps
  <2>4. th'[t].op \in {"all", "crtc", "detect"} /\ th'[t].pc # "mutex"
    BY Zenon, <1>2, <1>13 DEF CtxOps
  <2> QED BY <2>2, <2>3, <2>4 DEF Clean
<1>14. \A u \in Threads \ {t} : mutex' = u <=> mutex = u
  BY ModesetAssumption
<1> QED BY Zenon, <1>2, <1>4, <1>6, <1>7, <1>9, <1>10, <1>11, <1>12, <1>13, <1>14, StepKeeps

LEMMA EmptyLists == <<>> \in Seq(Locks) /\ \A l \in Locks : <<l>> \in Seq(Locks) /\ Len(<<l>>) = 1
OBVIOUS

LEMMA LockAllKeeps ==
  ASSUME IInv, NEW t \in Threads, load' = load, ~Live(t), LockAll(t)
  PROVE  Step(t)
<1>1. PICK x : /\ Set(t, x)
               /\ \/ x = At("in", "all", None, None, <<>>, <<>>) /\ load.alloc_fails
                  \/ x = At("mutex", "all", None, None, <<>>, AllLocks)
  BY DEF LockAll, Unallocated
<1>2. x \in Locals /\ Shape(x) /\ x.drop = None /\ x.lap = "first" /\ x.op = "all" /\ x.pc \in {"in", "mutex"}
  <2>1. CASE x = At("in", "all", None, None, <<>>, <<>>)
    BY <2>1, EmptyLists DEF At, Locals, Shape, PlainOps, CtxOps
  <2>2. CASE x = At("mutex", "all", None, None, <<>>, AllLocks)
    BY <2>2, AllElements, EmptyLists DEF At, Locals, Shape, PlainOps, CtxOps
  <2> QED BY <1>1, <2>1, <2>2
<1>3. ~load.alloc_fails => Covers(x, Mine(t)) /\ x.pc = "mutex"
  BY <1>1 DEF Covers, CoversAll, At
<1>4. x.pc = "in" => load.alloc_fails
  BY <1>1 DEF At
<1> QED BY Zenon, <1>1, <1>2, <1>3, <1>4, BeginKeeps DEF LockAll

LEMMA TryLockAllKeeps ==
  ASSUME IInv, NEW t \in Threads, load' = load, ~Live(t), TryLockAll(t)
  PROVE  Step(t)
<1> DEFINE x == At("lock", "try", None, None, AllLocks, <<>>)
<1>1. x \in Locals /\ Shape(x) /\ x.drop = None /\ x.lap = "first" /\ x.pc = "lock" /\ x.op = "try"
  BY Zenon, AllElements, EmptyLists DEF At, Locals, Shape, PlainOps, CtxOps
<1>2. Covers(x, Mine(t))
  BY <1>1 DEF Covers
<1>3. Set(t, x)
  BY DEF TryLockAll
<1> HIDE DEF x
<1>4. ~Blocking /\ x.op \in CtxOps
  BY Zenon, <1>1 DEF TryLockAll, Blocking, CtxOps
<1> QED BY <1>1, <1>2, <1>3, <1>4, StartKeeps DEF TryLockAll

LEMMA LockCrtcKeeps ==
  ASSUME IInv, NEW t \in Threads, load' = load, ~Live(t), LockCrtc(t)
  PROVE  Step(t)
<1>1. PICK cp \in CrtcPlanes :
        LET c == cp[1]
            p == cp[2]
            plan == IF p = None THEN <<c>> ELSE <<c, p>>
        IN \/ Unallocated(t, "crtc", c, p) /\ UNCHANGED <<tickets, ctx>>
           \/ Set(t, At("lock", "crtc", c, p, plan, plan)) /\ AcquireInit(t)
  BY Zenon DEF LockCrtc
<1> DEFINE c == cp[1]
           p == cp[2]
           plan == IF p = None THEN <<c>> ELSE <<c, p>>
<1>2. c \in Crtcs /\ p \in Planes \cup {None}
  BY ModesetAssumption
<1>3. CASE Unallocated(t, "crtc", c, p) /\ UNCHANGED <<tickets, ctx>>
  <2> DEFINE x == At("in", "crtc", c, p, <<>>, <<>>)
  <2>1. x \in Locals /\ Shape(x) /\ x.drop = None /\ x.lap = "first" /\ x.pc = "in" /\ x.op = "crtc"
    BY Zenon, <1>2, EmptyLists DEF At, Locals, Shape, PlainOps, CtxOps
  <2>2. Set(t, x) /\ load.alloc_fails
    BY <1>3 DEF Unallocated
  <2> HIDE DEF x
  <2> QED BY <1>3, <2>1, <2>2, BeginKeeps DEF LockCrtc
<1>4. CASE Set(t, At("lock", "crtc", c, p, plan, plan)) /\ AcquireInit(t)
  <2> DEFINE x == At("lock", "crtc", c, p, plan, plan)
  <2>1. x.crtc = c /\ x.plane = p /\ x.todo = plan /\ x.plan = plan /\ x.pc = "lock" /\ x.op = "crtc"
        /\ x.drop = None /\ x.lap = "first"
    BY DEF At
  <2>2. plan = CrtcPlan(x)
    BY Zenon, <2>1 DEF CrtcPlan
  <2>3. plan \in Seq(Locks) /\ Elements(plan) = CrtcLocks(x)
    BY Zenon, <1>2, <2>1, <2>2, PlanElements
  <2>4. x \in Locals
    <3> HIDE DEF c, p, plan
    <3> QED BY <1>2, <2>3 DEF At, Locals
  <2> HIDE DEF x, c, p, plan
  <2>5. Shape(x)
    BY <1>2, <2>1 DEF Shape, PlainOps, CtxOps
  <2>6. Covers(x, Mine(t))
    BY <2>1, <2>2, <2>3 DEF Covers, CoversCrtc
  <2>7. Set(t, x)
    BY <1>4 DEF x
  <2>8. x.op \in CtxOps
    BY <2>1 DEF CtxOps
  <2> QED BY Zenon, <1>4, <2>1, <2>4, <2>5, <2>6, <2>7, <2>8, StartKeeps DEF LockCrtc
<1> QED BY <1>1, <1>3, <1>4

LEMMA DetectKeeps ==
  ASSUME IInv, NEW t \in Threads, load' = load, ~Live(t), Detect(t)
  PROVE  Step(t)
<1>1. PICK plan \in {<<Conn>>} \cup {<<Conn, cp[1], cp[2]>> : cp \in {x \in CrtcPlanes : x[2] # None}} :
        Set(t, At("mutex", "detect", None, None, <<>>, plan))
  BY DEF Detect
<1>2. plan \in Seq(Locks)
  <2>1. CASE plan = <<Conn>>
    BY <2>1 DEF Locks
  <2>2. CASE plan # <<Conn>>
    <3>1. PICK cp \in CrtcPlanes : cp[2] # None /\ plan = <<Conn, cp[1], cp[2]>>
      BY <2>2
    <3>2. Conn \in Locks /\ cp[1] \in Locks /\ cp[2] \in Locks
      BY <3>1, ModesetAssumption DEF Locks
    <3> QED BY <3>1, <3>2
  <2> QED BY <2>1, <2>2
<1> DEFINE x == At("mutex", "detect", None, None, <<>>, plan)
<1>3. x \in Locals /\ Shape(x) /\ x.drop = None /\ x.lap = "first" /\ x.pc = "mutex" /\ x.op = "detect"
  BY Zenon, <1>2, EmptyLists DEF At, Locals, Shape, PlainOps, CtxOps
<1> HIDE DEF x
<1>4. Covers(x, Mine(t)) /\ Set(t, x)
  BY Zenon, <1>1, <1>3 DEF Covers, x
<1> QED BY <1>3, <1>4, BeginKeeps DEF Detect

LEMMA GetConnectorKeeps ==
  ASSUME IInv, NEW t \in Threads, load' = load, ~Live(t), GetConnector(t)
  PROVE  Step(t)
<1> DEFINE x == At("mutex", "connector", None, None, <<>>, <<Conn>>)
<1>1. x \in Locals /\ Shape(x) /\ x.drop = None /\ x.lap = "first" /\ x.pc = "mutex" /\ x.op = "connector"
  BY Zenon, EmptyLists DEF At, Locals, Shape, PlainOps, CtxOps, Locks
<1>2. Set(t, x)
  BY DEF GetConnector
<1> HIDE DEF x
<1>3. Covers(x, Mine(t))
  BY <1>1 DEF Covers
<1> QED BY Zenon, <1>1, <1>2, <1>3, BeginKeeps DEF GetConnector

LEMMA GetEncoderKeeps ==
  ASSUME IInv, NEW t \in Threads, load' = load, ~Live(t), GetEncoder(t)
  PROVE  Step(t)
<1> DEFINE x == At("lock", "encoder", None, None, <<Conn>>, <<>>)
<1>1. x \in Locals /\ Shape(x) /\ x.drop = None /\ x.lap = "first" /\ x.pc = "lock" /\ x.op = "encoder"
  BY Zenon, EmptyLists DEF At, Locals, Shape, PlainOps, CtxOps, Locks
<1>2. Set(t, x)
  BY DEF GetEncoder
<1> HIDE DEF x
<1>3. Covers(x, Mine(t))
  BY <1>1 DEF Covers
<1> QED BY <1>1, <1>2, <1>3, BeginKeeps DEF GetEncoder

LEMMA GetPlaneKeeps ==
  ASSUME IInv, NEW t \in Threads, load' = load, ~Live(t), GetPlane(t)
  PROVE  Step(t)
<1>0. PICK p \in Planes : Set(t, At("lock", "plane", None, None, <<p>>, <<>>))
  BY DEF GetPlane
<1> DEFINE x == At("lock", "plane", None, None, <<p>>, <<>>)
<1>1. x \in Locals /\ Shape(x) /\ x.drop = None /\ x.lap = "first" /\ x.pc = "lock" /\ x.op = "plane"
  BY Zenon, EmptyLists DEF At, Locals, Shape, PlainOps, CtxOps, Locks
<1> HIDE DEF x
<1>3. Covers(x, Mine(t)) /\ Set(t, x)
  BY <1>0, <1>1 DEF Covers, x
<1> QED BY <1>1, <1>3, BeginKeeps DEF GetPlane

=============================================================================

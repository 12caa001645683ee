-------------------------- MODULE TtmExecbufProofs ---------------------------
(***************************************************************************)
(* Proof that a submission through ttm/ttm_execbuf_util.c reserves its     *)
(* whole list and gives all of it back, for any number of threads, buffers *)
(* and lists.                                                              *)
(*                                                                         *)
(* The inductive invariant says of every thread, at each of its places,    *)
(* which buffers it has reserved and which of them it has taken off the    *)
(* lru lists.                                                              *)
(***************************************************************************)
EXTENDS TtmExecbuf, SequenceTheorems, TLAPS

\* What a thread is in the middle of fits the place where it is.
Shape(t) ==
  /\ th[t].op = "none" <=> th[t].pc = "idle"
  /\ th[t].op \in {"exec", "resource"} <=> th[t].pc \in {"reserve", "slow", "reserved"}
  /\ th[t].op \in {"grab", "try_grab"} => Len(th[t].list) = 1
  /\ th[t].pc = "slow" => th[t].op = "exec" /\ th[t].i <= Len(th[t].list)
  /\ HasTicket(t) <=> th[t].op = "exec"

\* Reordering the list and dropping duplicates lose no buffer.
ListKept(t) == NoLeak \/ ~world.dups => th[t].want = Elements(th[t].list)

\* The buffers that the call of t has reserved, by its place.
Got(t) ==
  IF th[t].pc = "reserve" THEN Before(t)
  ELSE IF th[t].pc \in {"reserved", "grab_del_lru", "grab_wait"}
       THEN Elements(th[t].list) ELSE {}

\* The buffers that the call of t has taken off the lru lists.
Off(t) == IF th[t].pc \in {"reserved", "grab_wait"} THEN Elements(th[t].list) ELSE {}

HeldExact(t) == Got(t) \subseteq Held(t) /\ (NoLeak => Held(t) \subseteq Got(t))

LruExact == \A b \in Bos : ~on_lru[b] <=> \E t \in Threads : b \in Off(t)

OneBuffer == NoLeak /\ \A list \in world.lists : Len(list) = 1

\* With one buffer at a time nobody takes the slow way.
NoSlow(t) == OneBuffer => th[t].slow = NoBo /\ th[t].pc # "slow" /\ Len(th[t].list) <= 1

\* No writer has what t has reserved in the loop.
CpuFree(t) ==
  NoLeak /\ th[t].op \in {"exec", "resource"} =>
    \A b \in Held(t) \ {th[t].slow} : cpu_writers[b] = {}

BusyFree == OneBuffer => \A b \in Bos : busy[b] => cpu_writers[b] = {}

Local(t) == Shape(t) /\ ListKept(t) /\ HeldExact(t) /\ NoSlow(t)

IInv ==
  /\ TypeOK
  /\ \A t \in Threads : Local(t) /\ CpuFree(t)
  /\ LruExact /\ BusyFree

------------------------------------------------------------------------------
(* Sequences. *)

\* Removing an entry keeps the others, in their order.
LEMMA RemoveKeeps ==
  ASSUME NEW S, NEW s \in Seq(S), NEW i \in 1..Len(s)
  PROVE  /\ Remove(s, i) \in Seq(S)
         /\ Len(Remove(s, i)) = Len(s) - 1
         /\ \A j \in 1..i - 1 : Remove(s, i)[j] = s[j]
         /\ \A j \in i..Len(s) - 1 : Remove(s, i)[j] = s[j + 1]
<1> DEFINE a == SubSeq(s, 1, i - 1)
           b == SubSeq(s, i + 1, Len(s))
<1>1. a \in Seq(S) /\ Len(a) = i - 1 /\ \A j \in 1..i - 1 : a[j] = s[j]
  BY SubSeqProperties
<1>2. b \in Seq(S) /\ Len(b) = Len(s) - i /\ \A j \in 1..Len(s) - i : b[j] = s[i + j]
  BY SubSeqProperties
<1> HIDE DEF a, b
<1>3. /\ a \o b \in Seq(S)
      /\ Len(a \o b) = Len(s) - 1
      /\ \A j \in 1..Len(s) - 1 :
           (a \o b)[j] = IF j <= i - 1 THEN a[j] ELSE b[j - (i - 1)]
  BY <1>1, <1>2, ConcatProperties
<1>4. \A j \in i..Len(s) - 1 : (a \o b)[j] = s[j + 1]
  <2> TAKE j \in i..Len(s) - 1
  <2>1. j - (i - 1) \in 1..Len(s) - i /\ ~(j <= i - 1) /\ j \in 1..Len(s) - 1
    OBVIOUS
  <2> QED BY <2>1, <1>2, <1>3
<1>5. \A j \in 1..i - 1 : (a \o b)[j] = s[j]
  BY <1>1, <1>3
<1>6. Remove(s, i) = a \o b
  BY DEF Remove, a, b
<1> QED BY <1>3, <1>4, <1>5, <1>6

\* The elements of what is left when an entry is removed.
LEMMA RemoveElements ==
  ASSUME NEW S, NEW s \in Seq(S), NEW i \in 1..Len(s)
  PROVE  Elements(Remove(s, i)) = {s[j] : j \in (1..Len(s)) \ {i}}
<1> DEFINE r == Remove(s, i)
<1>1. /\ r \in Seq(S) /\ Len(r) = Len(s) - 1
      /\ \A j \in 1..i - 1 : r[j] = s[j]
      /\ \A j \in i..Len(s) - 1 : r[j] = s[j + 1]
  BY RemoveKeeps
<1> HIDE DEF r
<1>2. DOMAIN r = 1..Len(s) - 1
  BY <1>1
<1>3. ASSUME NEW j \in 1..Len(s) - 1
      PROVE  r[j] \in {s[k] : k \in (1..Len(s)) \ {i}}
  <2>1. CASE j < i
    <3>1. r[j] = s[j] /\ j \in (1..Len(s)) \ {i}
      BY <2>1, <1>1
    <3> QED BY <3>1
  <2>2. CASE j >= i
    <3>1. r[j] = s[j + 1] /\ j + 1 \in (1..Len(s)) \ {i}
      BY <2>2, <1>1
    <3> QED BY <3>1
  <2> QED BY <2>1, <2>2
<1>4. ASSUME NEW k \in (1..Len(s)) \ {i}
      PROVE  \E j \in 1..Len(s) - 1 : r[j] = s[k]
  <2>1. CASE k < i
    <3>1. k \in 1..Len(s) - 1 /\ r[k] = s[k]
      BY <2>1, <1>1
    <3> QED BY <3>1
  <2>2. CASE k > i
    <3>1. k - 1 \in 1..Len(s) - 1 /\ r[k - 1] = s[k]
      <4>1. k - 1 \in i..Len(s) - 1 /\ (k - 1) + 1 = k
        BY <2>2
      <4>2. r[k - 1] = s[(k - 1) + 1]
        BY <1>1, <4>1
      <4> QED BY <4>1, <4>2
    <3> QED BY <3>1
  <2> QED BY <2>1, <2>2
<1>5. Elements(r) = {r[j] : j \in 1..Len(s) - 1}
  BY <1>2 DEF Elements
<1>6. Elements(r) = {s[j] : j \in (1..Len(s)) \ {i}}
  BY <1>3, <1>4, <1>5
<1> QED BY <1>6 DEF r

\* The reordering of ttm_eu_reserve_buffers(): the entry goes to the front.
LEMMA ToFront ==
  ASSUME NEW S, NEW s \in Seq(S), NEW i \in 1..Len(s)
  PROVE  LET f == <<s[i]>> \o Remove(s, i)
         IN  f \in Seq(S) /\ Len(f) = Len(s) /\ f[1] = s[i] /\ Elements(f) = Elements(s)
<1> DEFINE a == <<s[i]>>
           r == Remove(s, i)
           f == a \o r
<1>1. a \in Seq(S) /\ Len(a) = 1 /\ a[1] = s[i]
  <2>1. s[i] \in S
    OBVIOUS
  <2> QED BY <2>1
<1>2. r \in Seq(S) /\ Len(r) = Len(s) - 1
  BY RemoveKeeps
<1>3. Elements(r) = {s[j] : j \in (1..Len(s)) \ {i}}
  BY RemoveElements
<1> HIDE DEF a, r
<1>4. /\ f \in Seq(S) /\ Len(f) = Len(s)
      /\ f[1] = s[i]
      /\ \A j \in 2..Len(s) : f[j] = r[j - 1]
  <2>1. /\ f \in Seq(S) /\ Len(f) = Len(a) + Len(r)
        /\ \A j \in 1..Len(a) + Len(r) :
             f[j] = IF j <= Len(a) THEN a[j] ELSE r[j - Len(a)]
    BY <1>1, <1>2, ConcatProperties
  <2>2. Len(s) \in Nat /\ 1 + Len(r) = Len(s) /\ 1 <= Len(s)
    BY <1>2
  <2> QED BY <2>1, <2>2, <1>1
<1>5. Elements(f) = {s[i]} \cup Elements(r)
  <2>1. DOMAIN f = 1..Len(s) /\ DOMAIN r = 1..Len(s) - 1
    <3> HIDE DEF f
    <3> QED BY <1>2, <1>4
  <2> HIDE DEF f
  <2>2. \A j \in 2..Len(s) : f[j] = r[j - 1] /\ j - 1 \in 1..Len(s) - 1
    BY <1>4
  <2>3. \A k \in 1..Len(s) - 1 : k + 1 \in 1..Len(s) /\ f[k + 1] = r[k]
    BY <2>2
  <2>4. Elements(f) \subseteq {s[i]} \cup Elements(r)
    BY <2>1, <2>2, <1>4 DEF Elements
  <2>5. Elements(r) \subseteq Elements(f)
    BY <2>1, <2>3 DEF Elements
  <2>6. s[i] \in Elements(f)
    <3>1. 1 \in 1..Len(s)
      BY <1>2
    <3> QED BY <3>1, <2>1, <1>4 DEF Elements
  <2> QED BY <2>4, <2>5, <2>6
<1>6. Elements(s) = {s[i]} \cup Elements(r)
  <2>1. Elements(s) = {s[j] : j \in 1..Len(s)}
    BY DEF Elements
  <2> QED BY <2>1, <1>3
<1> QED BY <1>4, <1>5, <1>6 DEF a, r

\* A duplicate may go.
LEMMA DropDuplicate ==
  ASSUME NEW S, NEW s \in Seq(S), NEW i \in 1..Len(s), NEW j \in 1..i - 1, s[j] = s[i]
  PROVE  Elements(Remove(s, i)) = Elements(s)
<1>1. Elements(Remove(s, i)) = {s[k] : k \in (1..Len(s)) \ {i}}
  BY RemoveElements
<1>2. j \in (1..Len(s)) \ {i}
  OBVIOUS
<1>3. Elements(s) = {s[k] : k \in 1..Len(s)}
  BY DEF Elements
<1>4. \A k \in 1..Len(s) : s[k] \in {s[m] : m \in (1..Len(s)) \ {i}}
  BY <1>2
<1> QED BY <1>1, <1>3, <1>4

\* Tickets: each thread has at most one.
TicketsOK ==
  /\ tickets \in Seq(Threads)
  /\ \A j, k \in DOMAIN tickets : tickets[j] = tickets[k] => j = k

\* ww_acquire_fini() takes away the ticket of the thread and no other.
LEMMA FiniDrops ==
  ASSUME TicketsOK, NEW t \in Threads, Fini(t)
  PROVE  TicketsOK' /\ \A u \in Threads : HasTicket(u)' <=> HasTicket(u) /\ u # t
<1>1. CASE ~HasTicket(t)
  BY <1>1 DEF Fini, TicketsOK, HasTicket
<1>2. CASE HasTicket(t)
  <2> DEFINE i == CHOOSE j \in DOMAIN tickets : tickets[j] = t
             n == Len(tickets)
  <2>1. i \in 1..n /\ tickets[i] = t /\ n \in Nat
    BY <1>2 DEF HasTicket, Elements, TicketsOK
  <2>2. tickets' = Remove(tickets, i)
    BY <1>2 DEF Fini
  <2> HIDE DEF i
  <2>3. /\ tickets' \in Seq(Threads) /\ Len(tickets') = n - 1
        /\ \A j \in 1..i - 1 : tickets'[j] = tickets[j]
        /\ \A j \in i..n - 1 : tickets'[j] = tickets[j + 1]
    BY <2>1, <2>2, RemoveKeeps DEF TicketsOK
  <2>4. Elements(tickets') = {tickets[j] : j \in (1..n) \ {i}}
    BY <2>1, <2>2, RemoveElements DEF TicketsOK
  <2>5. DOMAIN tickets = 1..n /\ DOMAIN tickets' = 1..n - 1
    BY <2>1, <2>3 DEF TicketsOK
  <2>6. ASSUME NEW j \in 1..n - 1, NEW k \in 1..n - 1, tickets'[j] = tickets'[k]
        PROVE  j = k
    <3>1. PICK a \in 1..n : tickets'[j] = tickets[a] /\ a = (IF j < i THEN j ELSE j + 1)
      BY <2>1, <2>3
    <3>2. PICK b \in 1..n : tickets'[k] = tickets[b] /\ b = (IF k < i THEN k ELSE k + 1)
      BY <2>1, <2>3
    <3>3. a = b
      BY <3>1, <3>2, <2>6, <2>5 DEF TicketsOK
    <3> QED BY <3>1, <3>2, <3>3, <2>1
  <2>7. ASSUME NEW u \in Threads
        PROVE  HasTicket(u)' <=> HasTicket(u) /\ u # t
    <3>1. HasTicket(u)' <=> \E j \in (1..n) \ {i} : tickets[j] = u
      BY <2>4 DEF HasTicket
    <3>2. HasTicket(u) <=> \E j \in 1..n : tickets[j] = u
      BY <2>5 DEF HasTicket, Elements
    <3>3. \A j \in 1..n : tickets[j] = t => j = i
      BY <2>1, <2>5 DEF TicketsOK
    <3> QED BY <3>1, <3>2, <3>3, <2>1
  <2> QED BY <2>3, <2>5, <2>6, <2>7 DEF TicketsOK
<1> QED BY <1>1, <1>2

\* ww_acquire_init() adds one.
LEMMA InitAdds ==
  ASSUME TicketsOK, NEW t \in Threads, ~HasTicket(t), tickets' = Append(tickets, t)
  PROVE  TicketsOK' /\ \A u \in Threads : HasTicket(u)' <=> HasTicket(u) \/ u = t
<1> DEFINE n == Len(tickets)
<1>1. /\ n \in Nat /\ DOMAIN tickets = 1..n
      /\ tickets' \in Seq(Threads) /\ DOMAIN tickets' = 1..n + 1
      /\ tickets'[n + 1] = t /\ \A j \in 1..n : tickets'[j] = tickets[j]
  BY AppendProperties DEF TicketsOK
<1>2. \A j \in 1..n : tickets[j] # t
  BY <1>1 DEF HasTicket, Elements
<1> HIDE DEF n
<1>3. \A u : HasTicket(u) <=> \E j \in 1..n : tickets[j] = u
  BY <1>1 DEF HasTicket, Elements
<1>4. \A u : HasTicket(u)' <=> \E j \in 1..n + 1 : tickets'[j] = u
  BY <1>1 DEF HasTicket, Elements
<1>5. \A u : HasTicket(u)' <=> HasTicket(u) \/ u = t
  BY <1>1, <1>3, <1>4
<1>6. \A j, k \in 1..n + 1 : tickets'[j] = tickets'[k] => j = k
  <2> SUFFICES ASSUME NEW j \in 1..n + 1, NEW k \in 1..n + 1, tickets'[j] = tickets'[k]
               PROVE  j = k
    OBVIOUS
  <2>1. CASE j = n + 1 \/ k = n + 1
    BY <2>1, <1>1, <1>2
  <2>2. CASE j \in 1..n /\ k \in 1..n
    BY <2>2, <1>1 DEF TicketsOK
  <2> QED BY <2>1, <2>2, <1>1
<1> QED BY <1>1, <1>5, <1>6 DEF TicketsOK

------------------------------------------------------------------------------
(* Reservations, and what the step of a thread leaves alone. *)

\* Reserving a free buffer adds it to what the thread holds.
LEMMA LockHolds ==
  ASSUME ExecbufConstants, TypeOK, NEW t \in Threads, NEW b \in Bos,
         resv[b] = Nobody, Lock(t, b)
  PROVE  /\ resv' \in [Bos -> Threads \cup {Nobody}]
         /\ Held(t)' = Held(t) \cup {b}
         /\ \A u \in Threads \ {t} : Held(u)' = Held(u)
<1>1. Nobody \notin Threads
  BY DEF ExecbufConstants, Nobody
<1>2. resv \in [Bos -> Threads \cup {Nobody}] /\ resv' = [resv EXCEPT ![b] = t]
  BY DEF TypeOK, Lock
<1> QED BY <1>1, <1>2 DEF Held

\* A thread that drops some of what it holds takes nothing from the others.
LEMMA UnlockDrops ==
  ASSUME ExecbufConstants, TypeOK, NEW t \in Threads, NEW B \in SUBSET Held(t),
         UnlockAll(B)
  PROVE  /\ resv' \in [Bos -> Threads \cup {Nobody}]
         /\ Held(t)' = Held(t) \ B
         /\ \A u \in Threads \ {t} : Held(u)' = Held(u)
<1>1. Nobody \notin Threads
  BY DEF ExecbufConstants, Nobody
<1>2. /\ resv \in [Bos -> Threads \cup {Nobody}]
      /\ resv' = [b \in Bos |-> IF b \in B THEN Nobody ELSE resv[b]]
  BY DEF TypeOK, UnlockAll
<1> QED BY <1>1, <1>2 DEF Held

\* What is off the lru lists is reserved by the thread that took it off.
LEMMA OffHeld ==
  ASSUME NEW t \in Threads, HeldExact(t)
  PROVE  Off(t) \subseteq Held(t)
BY DEF HeldExact, Off, Got

\* A step of t keeps the invariant when it keeps what the invariant says of t, when
\* the lru lists follow what t takes off and puts back, and when t neither lets a
\* writer have what others reserved nor makes busy what a writer has.
LEMMA StepKeeps ==
  ASSUME IInv, NEW t \in Threads, TypeOK', UNCHANGED world,
         \A u \in Threads \ {t} : th'[u] = th[u] /\ Held(u)' = Held(u)
                                  /\ (HasTicket(u)' <=> HasTicket(u)),
         Local(t)', CpuFree(t)',
         \A b \in Bos : ~on_lru'[b] <=> (~on_lru[b] /\ b \notin Off(t)) \/ b \in Off(t)',
         \A b \in Bos : cpu_writers'[b] # {} =>
                          cpu_writers[b] # {} \/ (b \in Held(t) /\ ~busy'[b]),
         \A b \in Bos : busy'[b] => busy[b] \/ (OneBuffer => cpu_writers[b] = {})
  PROVE  IInv'
<1>1. ASSUME NEW u \in Threads \ {t}
      PROVE  Local(u)' /\ CpuFree(u)' /\ Off(u)' = Off(u) /\ Off(u) \subseteq Held(u)
  <2>1. th'[u] = th[u] /\ Held(u)' = Held(u) /\ (HasTicket(u)' <=> HasTicket(u))
    OBVIOUS
  <2>2. (NoLeak' <=> NoLeak) /\ (OneBuffer' <=> OneBuffer)
    BY DEF NoLeak, OneBuffer
  <2>3. Got(u)' = Got(u) /\ Off(u)' = Off(u)
    BY <2>1 DEF Got, Off, Before
  <2>4. Local(u) /\ CpuFree(u)
    BY DEF IInv
  <2>5. Shape(u)'
    BY <2>1, <2>4 DEF Local, Shape
  <2>6. ListKept(u)'
    BY <2>1, <2>2, <2>4 DEF Local, ListKept
  <2>7. HeldExact(u)'
    BY <2>1, <2>2, <2>3, <2>4 DEF Local, HeldExact
  <2>8. NoSlow(u)'
    BY <2>1, <2>2, <2>4 DEF Local, NoSlow
  <2>9. CpuFree(u)'
    <3>1. \A b \in Held(u) : b \in Bos /\ b \notin Held(t)
      BY DEF Held
    <3> QED BY <2>1, <2>2, <2>4, <3>1 DEF CpuFree
  <2> QED BY <2>3, <2>4, <2>5, <2>6, <2>7, <2>8, <2>9, OffHeld DEF Local
<1>2. LruExact'
  <2>1. Off(t) \subseteq Held(t)
    BY OffHeld DEF IInv, Local
  <2>2. \A u \in Threads \ {t} : Off(u) \cap Off(t) = {}
    BY <1>1, <2>1 DEF Held
  <2>3. \A b \in Bos : ~on_lru[b] <=> \E u \in Threads : b \in Off(u)
    BY DEF IInv, LruExact
  <2>4. ASSUME NEW b \in Bos
        PROVE  ~on_lru'[b] <=> \E u \in Threads : b \in Off(u)'
    <3>1. (\E u \in Threads : b \in Off(u)')
            <=> b \in Off(t)' \/ \E u \in Threads \ {t} : b \in Off(u)
      BY <1>1
    <3>2. (~on_lru[b] /\ b \notin Off(t)) <=> \E u \in Threads \ {t} : b \in Off(u)
      BY <2>2, <2>3
    <3> QED BY <3>1, <3>2
  <2> QED BY <2>4 DEF LruExact
<1>3. BusyFree'
  <2>1. OneBuffer' <=> OneBuffer
    BY DEF NoLeak, OneBuffer
  <2> QED BY <2>1 DEF BusyFree, IInv
<1> QED BY <1>1, <1>2, <1>3 DEF IInv

\* A step of t changes only the locals of t.
LEMMA SetSets ==
  ASSUME TypeOK, NEW t \in Threads, NEW l \in Locals, l.i \in 1..Len(l.list) + 1, Set(t, l)
  PROVE  /\ th' \in [Threads -> Locals]
         /\ \A u \in Threads : th'[u].i \in 1..Len(th'[u].list) + 1
         /\ th'[t] = l /\ \A u \in Threads \ {t} : th'[u] = th[u]
BY DEF TypeOK, Set

\* The locals of a thread between two calls.
LEMMA IdleIsLocal ==
  /\ Idle \in Locals /\ Idle.i \in 1..Len(Idle.list) + 1
  /\ Idle.op = "none" /\ Idle.pc = "idle" /\ Idle.want = {} /\ Idle.list = <<>>
  /\ Idle.i = 1 /\ Idle.slow = NoBo
BY DEF Idle, Locals, Places

\* There is nothing in an empty list, and one buffer in a list of one.
LEMMA ShortLists ==
  /\ Elements(<<>>) = {}
  /\ \A b : Elements(<<b>>) = {b}
BY DEF Elements

\* A thread that has returned leaves nothing behind.
LEMMA Rests ==
  ASSUME NEW t \in Threads, th'[t] = Idle, ~HasTicket(t)', NoLeak' => Held(t)' = {}
  PROVE  Local(t)' /\ CpuFree(t)' /\ Off(t)' = {}
<1>1. Shape(t)'
  BY IdleIsLocal DEF Shape
<1>2. ListKept(t)'
  BY IdleIsLocal, ShortLists DEF ListKept
<1>3. HeldExact(t)'
  BY IdleIsLocal DEF HeldExact, Got
<1>4. NoSlow(t)'
  BY IdleIsLocal DEF NoSlow
<1> QED BY <1>1, <1>2, <1>3, <1>4, IdleIsLocal DEF Local, CpuFree, Off

------------------------------------------------------------------------------
(* A call begins. *)

\* left counts down.
LEMMA EnterLeft ==
  ASSUME ExecbufConstants, TypeOK, NEW t \in Threads, NEW op, Enter(t, op), UNCHANGED world
  PROVE  left' \in [Threads -> 0..world'.calls]
BY DEF Enter, TypeOK, ExecbufConstants

\* A submission begins with a ticket and holds nothing.
LEMMA ExecKeeps ==
  ASSUME ExecbufConstants, IInv, NEW t \in Threads, Exec(t)
  PROVE  IInv'
<1> USE DEF IInv
<1>1. PICK list \in world.lists : Set(t, Called("exec", "reserve", list))
  BY DEF Exec
<1> DEFINE l == Called("exec", "reserve", list)
<1>2. list \in Seq(Bos) /\ Elements(list) \subseteq Bos
  BY DEF ExecbufConstants, TypeOK, Elements
<1>3. /\ l \in Locals /\ l.i \in 1..Len(l.list) + 1
      /\ l.op = "exec" /\ l.pc = "reserve" /\ l.list = list /\ l.want = Elements(list)
      /\ l.i = 1 /\ l.slow = NoBo
  BY <1>2 DEF Called, Locals, Places
<1> HIDE DEF l
<1>4. /\ th' \in [Threads -> Locals]
      /\ \A u \in Threads : th'[u].i \in 1..Len(th'[u].list) + 1
      /\ th'[t] = l /\ \A u \in Threads \ {t} : th'[u] = th[u]
  BY <1>1, <1>3, SetSets DEF l
<1>5. th[t].pc = "idle" /\ ~HasTicket(t) /\ Local(t)
  BY DEF Exec, Enter, Local, Shape
<1>6. TicketsOK' /\ \A u \in Threads : HasTicket(u)' <=> HasTicket(u) \/ u = t
  BY <1>5, InitAdds DEF Exec, TypeOK, TicketsOK
<1>7. UNCHANGED <<world, resv, on_lru, busy, cpu_writers>> /\ Enter(t, "exec")
  BY DEF Exec
<1>8. TypeOK'
  BY <1>4, <1>6, <1>7, EnterLeft DEF TypeOK, TicketsOK
<1>9. Held(t)' = Held(t) /\ Got(t) = {} /\ Got(t)' = {} /\ Off(t) = {} /\ Off(t)' = {}
  BY <1>3, <1>4, <1>5, <1>7 DEF Held, Got, Off, Before
<1>10. Local(t)'
  <2>1. Shape(t)' /\ ListKept(t)'
    BY <1>3, <1>4, <1>6 DEF Shape, ListKept
  <2>2. HeldExact(t)'
    BY <1>5, <1>7, <1>9 DEF Local, HeldExact, NoLeak
  <2>3. NoSlow(t)'
    <3>1. OneBuffer' => Len(list) = 1
      BY <1>7 DEF OneBuffer
    <3>2. Len(list) = 1 => Len(th'[t].list) <= 1
      <4>1. th'[t].list = list
        BY <1>3, <1>4
      <4> QED BY <1>2, <4>1
    <3>3. th'[t].slow = NoBo /\ th'[t].pc # "slow"
      BY <1>3, <1>4
    <3> QED BY <3>1, <3>2, <3>3 DEF NoSlow
  <2> QED BY <2>1, <2>2, <2>3 DEF Local
<1>11. CpuFree(t)'
  BY <1>5, <1>7, <1>9 DEF CpuFree, Local, HeldExact, NoLeak
<1> QED BY <1>4, <1>6, <1>7, <1>8, <1>9, <1>10, <1>11, StepKeeps DEF Held

\* A call for one buffer begins without a ticket.
LEMMA OneBegins ==
  ASSUME ExecbufConstants, IInv, NEW t \in Threads, NEW b \in Bos,
         NEW op \in {"resource", "grab", "try_grab"}, NEW pc \in {"reserve", "grab"},
         op = "resource" <=> pc = "reserve", Enter(t, op),
         Set(t, Called(op, pc, <<b>>)),
         UNCHANGED <<world, resv, tickets, on_lru, busy, cpu_writers>>
  PROVE  IInv'
<1> USE DEF IInv
<1> DEFINE l == Called(op, pc, <<b>>)
<1>1. /\ l \in Locals /\ l.i \in 1..Len(l.list) + 1
      /\ l.op = op /\ l.pc = pc /\ l.list = <<b>> /\ l.want = Elements(<<b>>)
      /\ l.i = 1 /\ l.slow = NoBo
  BY ShortLists DEF Called, Locals, Places
<1> HIDE DEF l
<1>2. /\ th' \in [Threads -> Locals]
      /\ \A u \in Threads : th'[u].i \in 1..Len(th'[u].list) + 1
      /\ th'[t] = l /\ \A u \in Threads \ {t} : th'[u] = th[u]
  BY <1>1, SetSets DEF l
<1>3. th[t].pc = "idle" /\ ~HasTicket(t) /\ Local(t)
  BY DEF Enter, Local, Shape
<1>4. TypeOK'
  BY <1>2, EnterLeft DEF TypeOK
<1>5. Held(t)' = Held(t) /\ Got(t) = {} /\ Got(t)' = {} /\ Off(t) = {} /\ Off(t)' = {}
  BY <1>1, <1>2, <1>3 DEF Held, Got, Off, Before
<1>6. \A u \in Threads : HasTicket(u)' <=> HasTicket(u)
  BY DEF HasTicket
<1>7. Local(t)'
  <2>1. Shape(t)'
    BY <1>1, <1>2, <1>3, <1>6 DEF Shape
  <2>2. ListKept(t)'
    BY <1>1, <1>2, ShortLists DEF ListKept
  <2>3. HeldExact(t)'
    BY <1>3, <1>5 DEF Local, HeldExact, NoLeak
  <2>4. NoSlow(t)'
    <3>1. Len(<<b>>) <= 1
      OBVIOUS
    <3> QED BY <1>1, <1>2, <3>1 DEF NoSlow
  <2> QED BY <2>1, <2>2, <2>3, <2>4 DEF Local
<1>8. CpuFree(t)'
  BY <1>3, <1>5 DEF CpuFree, Local, HeldExact, NoLeak
<1> QED BY <1>2, <1>4, <1>5, <1>6, <1>7, <1>8, StepKeeps DEF Held

\* vmw_resource_check_buffer() and ttm_bo_synccpu_write_grab() begin.
LEMMA ResourceKeeps ==
  ASSUME ExecbufConstants, IInv, NEW t \in Threads, Resource(t) \/ GrabBegin(t)
  PROVE  IInv'
<1>1. CASE Resource(t)
  BY <1>1, OneBegins DEF Resource
<1>2. CASE GrabBegin(t)
  BY <1>2, OneBegins DEF GrabBegin
<1> QED BY <1>1, <1>2

------------------------------------------------------------------------------
(* A call ends. *)

\* A call that gives back what it has got, and puts what it took off the lru lists
\* back on them, leaves the invariant as it was.
LEMMA EndKeeps ==
  ASSUME ExecbufConstants, IInv, NEW t \in Threads,
         UnlockAll(Got(t)), Fini(t), Set(t, Idle), UNCHANGED <<world, left>>,
         on_lru' \in [Bos -> BOOLEAN], busy' \in [Bos -> BOOLEAN],
         cpu_writers' \in [Bos -> SUBSET Threads],
         \A b \in Bos : ~on_lru'[b] <=> ~on_lru[b] /\ b \notin Off(t),
         \A b \in Bos : cpu_writers'[b] # {} =>
                          cpu_writers[b] # {} \/ (b \in Held(t) /\ ~busy'[b]),
         \A b \in Bos : busy'[b] => busy[b] \/ (OneBuffer => cpu_writers[b] = {})
  PROVE  IInv'
<1>1. TypeOK /\ TicketsOK /\ HeldExact(t)
  BY DEF IInv, TypeOK, TicketsOK, Local
<1>2. /\ resv' \in [Bos -> Threads \cup {Nobody}]
      /\ Held(t)' = Held(t) \ Got(t)
      /\ \A u \in Threads \ {t} : Held(u)' = Held(u)
  BY <1>1, UnlockDrops DEF HeldExact
<1>3. TicketsOK' /\ \A u \in Threads : HasTicket(u)' <=> HasTicket(u) /\ u # t
  BY <1>1, FiniDrops
<1>4. /\ th' \in [Threads -> Locals]
      /\ \A u \in Threads : th'[u].i \in 1..Len(th'[u].list) + 1
      /\ th'[t] = Idle /\ \A u \in Threads \ {t} : th'[u] = th[u]
  BY <1>1, SetSets, IdleIsLocal
<1>5. NoLeak' => Held(t)' = {}
  BY <1>1, <1>2 DEF NoLeak, HeldExact
<1>6. Local(t)' /\ CpuFree(t)' /\ Off(t)' = {}
  BY <1>3, <1>4, <1>5, Rests
<1>7. TypeOK'
  BY <1>1, <1>2, <1>3, <1>4 DEF TypeOK, TicketsOK
<1> QED BY <1>2, <1>3, <1>4, <1>6, <1>7, StepKeeps

\* reservation_object_reserve_shared() fails: the call returns with b reserved.
LEMMA LeakKeeps ==
  ASSUME ExecbufConstants, IInv, NEW t \in Threads, NEW b \in Bos, ShareFails(b),
         resv[b] = Nobody, Off(t) = {}, Fini(t), Set(t, Idle),
         resv' = [c \in Bos |-> IF c = b THEN t
                                ELSE IF c \in Got(t) THEN Nobody ELSE resv[c]],
         UNCHANGED <<world, left, on_lru, busy, cpu_writers>>
  PROVE  IInv'
<1>1. TypeOK /\ TicketsOK /\ HeldExact(t)
  BY DEF IInv, TypeOK, TicketsOK, Local
<1>2. /\ resv' \in [Bos -> Threads \cup {Nobody}]
      /\ \A u \in Threads \ {t} : Held(u)' = Held(u)
  <2>1. Nobody \notin Threads /\ resv \in [Bos -> Threads \cup {Nobody}]
    BY <1>1 DEF TypeOK, ExecbufConstants, Nobody
  <2>2. \A c \in Got(t) : resv[c] = t
    BY <1>1 DEF HeldExact, Held
  <2> QED BY <2>1, <2>2 DEF Held
<1>3. TicketsOK' /\ \A u \in Threads : HasTicket(u)' <=> HasTicket(u) /\ u # t
  BY <1>1, FiniDrops
<1>4. /\ th' \in [Threads -> Locals]
      /\ \A u \in Threads : th'[u].i \in 1..Len(th'[u].list) + 1
      /\ th'[t] = Idle /\ \A u \in Threads \ {t} : th'[u] = th[u]
  BY <1>1, SetSets, IdleIsLocal
<1>5. ~NoLeak'
  BY DEF NoLeak, ShareFails
<1>6. Local(t)' /\ CpuFree(t)' /\ Off(t)' = {}
  BY <1>3, <1>4, <1>5, Rests
<1>7. TypeOK'
  BY <1>1, <1>2, <1>3, <1>4 DEF TypeOK, TicketsOK
<1> QED BY <1>2, <1>3, <1>4, <1>6, <1>7, StepKeeps

\* Return, of a list or of one buffer that was grabbed.
LEMMA ReturnKeeps ==
  ASSUME ExecbufConstants, IInv, NEW t \in Threads,
         th[t].pc \in {"reserved", "grab_wait"}, Return(t), UNCHANGED <<world, left>>,
         busy' \in [Bos -> BOOLEAN], cpu_writers' \in [Bos -> SUBSET Threads],
         \A b \in Bos : cpu_writers'[b] # {} =>
                          cpu_writers[b] # {} \/ (b \in Held(t) /\ ~busy'[b]),
         \A b \in Bos : busy'[b] => busy[b] \/ (OneBuffer => cpu_writers[b] = {})
  PROVE  IInv'
<1>1. Got(t) = Elements(th[t].list) /\ Off(t) = Elements(th[t].list)
  BY DEF Got, Off
<1>2. on_lru' \in [Bos -> BOOLEAN]
  BY Zenon DEF Return
<1>3. \A b \in Bos : ~on_lru'[b] <=> ~on_lru[b] /\ b \notin Off(t)
  BY <1>1 DEF Return
<1>4. UnlockAll(Got(t)) /\ Fini(t) /\ Set(t, Idle)
  BY <1>1 DEF Return
<1> QED BY <1>2, <1>3, <1>4, EndKeeps

\* ttm_eu_fence_buffer_objects(): the buffers of the list become busy.
LEMMA FenceObjectsKeeps ==
  ASSUME ExecbufConstants, IInv, NEW t \in Threads, FenceObjects(t)
  PROVE  IInv'
<1>1. busy' \in [Bos -> BOOLEAN]
  BY Zenon DEF FenceObjects
<1>2. ASSUME NEW b \in Bos, busy'[b]
      PROVE  busy[b] \/ (OneBuffer => cpu_writers[b] = {})
  <2>1. b \in Elements(th[t].list) => b \in Held(t)
    BY DEF IInv, Local, HeldExact, Got, FenceObjects
  <2>2. OneBuffer => NoLeak /\ th[t].slow = NoBo
    BY DEF IInv, Local, NoSlow, OneBuffer
  <2>3. OneBuffer /\ b \in Held(t) => cpu_writers[b] = {}
    BY <2>2 DEF IInv, CpuFree, FenceObjects, ExecbufConstants
  <2>4. busy[b] \/ b \in Elements(th[t].list)
    BY <1>2 DEF FenceObjects
  <2> QED BY <2>1, <2>3, <2>4
<1> QED BY <1>1, <1>2, ReturnKeeps DEF FenceObjects, IInv, TypeOK

\* ttm_eu_backoff_reservation() changes no fence.
LEMMA BackoffReservationKeeps ==
  ASSUME ExecbufConstants, IInv, NEW t \in Threads, BackoffReservation(t)
  PROVE  IInv'
BY ReturnKeeps DEF BackoffReservation, IInv, TypeOK

\* ttm_bo_synccpu_write_grab() takes the buffer for the CPU only when it is not busy,
\* while it has it reserved.
LEMMA GrabWaitKeeps ==
  ASSUME ExecbufConstants, IInv, NEW t \in Threads, GrabWait(t)
  PROVE  IInv'
<1> DEFINE b == th[t].list[1]
<1>1. b \in Bos /\ b \in Elements(th[t].list)
  <2>1. Len(th[t].list) = 1 /\ th[t].list \in Seq(Bos)
    BY DEF IInv, Local, Shape, GrabWait, TypeOK, Locals, Places
  <2> QED BY <2>1 DEF Elements
<1>2. b \in Held(t)
  BY <1>1 DEF IInv, Local, HeldExact, Got, GrabWait
<1>3. /\ Return(t) /\ UNCHANGED <<world, busy, left>>
      /\ \/ ~busy[b] /\ cpu_writers' = [cpu_writers EXCEPT ![b] = @ \cup {t}]
         \/ UNCHANGED cpu_writers
  BY DEF GrabWait
<1> HIDE DEF b
<1>4. cpu_writers \in [Bos -> SUBSET Threads] /\ busy \in [Bos -> BOOLEAN]
  BY DEF IInv, TypeOK
<1>5. /\ cpu_writers' \in [Bos -> SUBSET Threads]
      /\ \A c \in Bos : cpu_writers'[c] # {} => cpu_writers[c] # {} \/ (c = b /\ ~busy[c])
  BY <1>3, <1>4
<1> QED BY <1>2, <1>3, <1>4, <1>5, ReturnKeeps DEF GrabWait

------------------------------------------------------------------------------
(* The loop of ttm_eu_reserve_buffers(). *)

\* A thread in the loop has a list, of which it has reserved what is before i.
LEMMA InLoop ==
  ASSUME IInv, NEW t \in Threads, th[t].pc \in {"reserve", "slow"}, th[t].i <= Len(th[t].list)
  PROVE  /\ TypeOK /\ TicketsOK /\ Local(t) /\ th[t] \in Locals
         /\ th[t].op \in {"exec", "resource"} /\ th[t].list \in Seq(Bos)
         /\ th[t].i \in 1..Len(th[t].list) /\ th[t].list[th[t].i] \in Bos
         /\ Off(t) = {}
         /\ th[t].pc = "reserve" => Got(t) = Before(t)
         /\ th[t].pc = "slow" => Got(t) = {}
<1>1. TypeOK /\ TicketsOK /\ Local(t)
  BY DEF IInv, TypeOK, TicketsOK
<1>2. th[t] \in Locals /\ th[t].list \in Seq(Bos)
  BY <1>1 DEF TypeOK, Locals
<1>3. th[t].i \in 1..Len(th[t].list)
  BY <1>1, <1>2 DEF TypeOK
<1>4. th[t].list[th[t].i] \in Bos
  BY <1>2, <1>3
<1> QED BY <1>1, <1>2, <1>3, <1>4 DEF Local, Shape, Off, Got

\* An entry is reserved.
LEMMA ReserveOk ==
  ASSUME ExecbufConstants, IInv, NEW t \in Threads,
         th[t].pc = "reserve", th[t].i <= Len(th[t].list),
         resv[th[t].list[th[t].i]] = Nobody, ~CpuAccess(th[t].list[th[t].i]),
         Lock(t, th[t].list[th[t].i]), Set(t, [th[t] EXCEPT !.i = @ + 1]),
         UNCHANGED <<world, tickets, on_lru, busy, cpu_writers, left>>
  PROVE  IInv'
<1> DEFINE b == th[t].list[th[t].i]
           l == [th[t] EXCEPT !.i = @ + 1]
<1>1. /\ TypeOK /\ TicketsOK /\ Local(t) /\ th[t] \in Locals
      /\ th[t].op \in {"exec", "resource"} /\ th[t].list \in Seq(Bos)
      /\ th[t].i \in 1..Len(th[t].list) /\ b \in Bos /\ Off(t) = {} /\ Got(t) = Before(t)
  BY InLoop
<1>2. /\ l \in Locals /\ l.i = th[t].i + 1 /\ l.op = th[t].op /\ l.pc = th[t].pc
      /\ l.want = th[t].want /\ l.list = th[t].list /\ l.slow = th[t].slow
  BY <1>1 DEF Locals
<1>3. l.i \in 1..Len(l.list) + 1
  BY <1>1, <1>2
<1>4. /\ th' \in [Threads -> Locals]
      /\ \A u \in Threads : th'[u].i \in 1..Len(th'[u].list) + 1
      /\ th'[t] = l /\ \A u \in Threads \ {t} : th'[u] = th[u]
  BY <1>1, <1>2, <1>3, SetSets
<1>5. /\ resv' \in [Bos -> Threads \cup {Nobody}]
      /\ Held(t)' = Held(t) \cup {b}
      /\ \A u \in Threads \ {t} : Held(u)' = Held(u)
  BY <1>1, LockHolds
<1>6. cpu_writers[b] = {}
  BY DEF CpuAccess
<1>7. Before(t)' = Before(t) \cup {b}
  <2>1. Before(t)' = {th[t].list[j] : j \in 1..th[t].i}
    BY <1>1, <1>2, <1>4 DEF Before
  <2>2. Before(t) = {th[t].list[j] : j \in 1..th[t].i - 1}
    BY DEF Before
  <2>3. 1..th[t].i = (1..th[t].i - 1) \cup {th[t].i}
    BY <1>1
  <2> QED BY <2>1, <2>2, <2>3
<1> HIDE DEF l, b
<1>8. Got(t)' = Got(t) \cup {b} /\ Off(t)' = {}
  BY <1>1, <1>2, <1>4, <1>7 DEF Got, Off
<1>9. \A u \in Threads : HasTicket(u)' <=> HasTicket(u)
  BY DEF HasTicket
<1>10. Local(t)'
  <2>1. Shape(t)'
    BY <1>1, <1>2, <1>4, <1>9 DEF Shape, Local
  <2>2. ListKept(t)' /\ NoSlow(t)'
    BY <1>1, <1>2, <1>4 DEF ListKept, NoSlow, Local, OneBuffer, NoLeak
  <2>3. HeldExact(t)'
    BY <1>1, <1>5, <1>8 DEF HeldExact, Local, NoLeak
  <2> QED BY <2>1, <2>2, <2>3 DEF Local
<1>11. CpuFree(t)'
  BY <1>2, <1>4, <1>5, <1>6 DEF CpuFree, IInv, NoLeak
<1>12. TypeOK'
  BY <1>1, <1>4, <1>5 DEF TypeOK
<1> QED BY <1>1, <1>4, <1>5, <1>8, <1>9, <1>10, <1>11, <1>12, StepKeeps

\* An entry is found to be a duplicate and goes.
LEMMA ReserveDuplicate ==
  ASSUME ExecbufConstants, IInv, NEW t \in Threads,
         th[t].pc = "reserve", th[t].i <= Len(th[t].list),
         resv[th[t].list[th[t].i]] = t, world.dups,
         Set(t, [th[t] EXCEPT !.list = Remove(@, th[t].i)]),
         UNCHANGED <<world, resv, tickets, on_lru, busy, cpu_writers, left>>
  PROVE  IInv'
<1> DEFINE i == th[t].i
           s == th[t].list
           r == Remove(s, i)
           l == [th[t] EXCEPT !.list = r]
<1>1. /\ TypeOK /\ TicketsOK /\ Local(t) /\ th[t] \in Locals
      /\ th[t].op \in {"exec", "resource"} /\ s \in Seq(Bos)
      /\ i \in 1..Len(s) /\ s[i] \in Bos /\ Off(t) = {} /\ Got(t) = Before(t)
  BY InLoop
<1>2. r \in Seq(Bos) /\ Len(r) = Len(s) - 1 /\ \A j \in 1..i - 1 : r[j] = s[j]
  BY <1>1, RemoveKeeps
<1> HIDE DEF r
<1>3. /\ l \in Locals /\ l.i = i /\ l.op = th[t].op /\ l.pc = th[t].pc
      /\ l.want = th[t].want /\ l.list = r /\ l.slow = th[t].slow
  BY <1>1, <1>2 DEF Locals
<1>4. l.i \in 1..Len(l.list) + 1
  BY <1>1, <1>2, <1>3
<1>5. Set(t, l)
  BY DEF r
<1> HIDE DEF l
<1>6. /\ th' \in [Threads -> Locals]
      /\ \A u \in Threads : th'[u].i \in 1..Len(th'[u].list) + 1
      /\ th'[t] = l /\ \A u \in Threads \ {t} : th'[u] = th[u]
  BY <1>1, <1>3, <1>4, <1>5, SetSets
<1>7. Before(t)' = Before(t)
  <2>1. Before(t)' = {r[j] : j \in 1..i - 1}
    BY <1>3, <1>6 DEF Before
  <2>2. Before(t) = {s[j] : j \in 1..i - 1}
    BY DEF Before
  <2> HIDE DEF s, i
  <2> QED BY <1>2, <2>1, <2>2
<1>8. Got(t)' = Got(t) /\ Off(t)' = {} /\ \A u \in Threads : Held(u)' = Held(u)
  BY <1>1, <1>3, <1>6, <1>7 DEF Got, Off, Held
<1>9. \A u \in Threads : HasTicket(u)' <=> HasTicket(u)
  BY DEF HasTicket
<1>10. Local(t)'
  <2>1. Shape(t)'
    BY <1>1, <1>3, <1>6, <1>9 DEF Shape, Local
  <2>2. ListKept(t)'
    <3>1. CASE NoLeak
      <4>1. s[i] \in Before(t)
        BY <1>1, <3>1 DEF Local, HeldExact, Held
      <4>2. PICK j \in 1..i - 1 : s[j] = s[i]
        BY <4>1 DEF Before
      <4>3. Elements(r) = Elements(s)
        BY <1>1, <4>2, DropDuplicate DEF r
      <4> QED BY <1>1, <1>3, <1>6, <3>1, <4>3 DEF ListKept, Local
    <3>2. CASE ~NoLeak
      BY <3>2 DEF ListKept, NoLeak
    <3> QED BY <3>1, <3>2
  <2>3. HeldExact(t)'
    BY <1>1, <1>8 DEF HeldExact, Local, NoLeak
  <2>4. NoSlow(t)'
    <3>1. (OneBuffer' <=> OneBuffer) /\ NoSlow(t)
      BY <1>1 DEF OneBuffer, NoLeak, Local
    <3>2. Len(s) <= 1 => Len(th'[t].list) <= 1
      BY <1>1, <1>2, <1>3, <1>6
    <3> QED BY <1>3, <1>6, <3>1, <3>2 DEF NoSlow
  <2> QED BY <2>1, <2>2, <2>3, <2>4 DEF Local
<1>11. CpuFree(t)'
  BY <1>3, <1>6, <1>8 DEF CpuFree, IInv, NoLeak
<1>12. TypeOK'
  BY <1>1, <1>6 DEF TypeOK
<1> QED BY <1>1, <1>6, <1>8, <1>9, <1>10, <1>11, <1>12, StepKeeps

\* An older submission has the entry: everything is given back.
LEMMA ReserveDeadlock ==
  ASSUME ExecbufConstants, IInv, NEW t \in Threads,
         th[t].pc = "reserve", th[t].i <= Len(th[t].list), HasTicket(t), Held(t) # {},
         UnlockAll(Before(t)), Set(t, [th[t] EXCEPT !.pc = "slow"]),
         UNCHANGED <<world, tickets, on_lru, busy, cpu_writers, left>>
  PROVE  IInv'
<1> DEFINE l == [th[t] EXCEPT !.pc = "slow"]
<1>1. /\ TypeOK /\ TicketsOK /\ Local(t) /\ th[t] \in Locals /\ th[t].list \in Seq(Bos)
      /\ th[t].i \in 1..Len(th[t].list) /\ Off(t) = {} /\ Got(t) = Before(t)
  BY InLoop
<1>2. /\ l \in Locals /\ l.i = th[t].i /\ l.op = th[t].op /\ l.pc = "slow"
      /\ l.want = th[t].want /\ l.list = th[t].list /\ l.slow = th[t].slow
  BY <1>1 DEF Locals, Places
<1>3. l.i \in 1..Len(l.list) + 1
  BY <1>1, <1>2
<1>4. /\ th' \in [Threads -> Locals]
      /\ \A u \in Threads : th'[u].i \in 1..Len(th'[u].list) + 1
      /\ th'[t] = l /\ \A u \in Threads \ {t} : th'[u] = th[u]
  BY <1>1, <1>2, <1>3, SetSets
<1>5. /\ resv' \in [Bos -> Threads \cup {Nobody}]
      /\ Held(t)' = Held(t) \ Before(t)
      /\ \A u \in Threads \ {t} : Held(u)' = Held(u)
  BY <1>1, UnlockDrops DEF Local, HeldExact
<1> HIDE DEF l
<1>6. Got(t)' = {} /\ Off(t)' = {}
  BY <1>2, <1>4 DEF Got, Off
<1>7. \A u \in Threads : HasTicket(u)' <=> HasTicket(u)
  BY DEF HasTicket
<1>8. NoLeak' => NoLeak /\ Held(t)' = {}
  BY <1>1, <1>5 DEF Local, HeldExact, NoLeak
<1>9. Local(t)'
  <2>1. Shape(t)'
    BY <1>1, <1>2, <1>4, <1>7 DEF Shape, Local
  <2>2. ListKept(t)'
    BY <1>1, <1>2, <1>4 DEF ListKept, Local, NoLeak
  <2>3. HeldExact(t)'
    BY <1>6, <1>8 DEF HeldExact
  <2>4. ~OneBuffer'
    <3>1. OneBuffer' => OneBuffer /\ NoLeak
      BY DEF OneBuffer, NoLeak
    <3>2. OneBuffer => Len(th[t].list) <= 1
      BY <1>1 DEF Local, NoSlow
    <3>3. NoLeak => Before(t) # {}
      BY <1>1 DEF Local, HeldExact
    <3>4. Before(t) # {} => th[t].i > 1
      BY <1>1 DEF Before
    <3> QED BY <1>1, <3>1, <3>2, <3>3, <3>4
  <2> QED BY <2>1, <2>2, <2>3, <2>4 DEF Local, NoSlow
<1>10. CpuFree(t)'
  BY <1>8 DEF CpuFree
<1>11. TypeOK'
  BY <1>1, <1>4, <1>5 DEF TypeOK
<1> QED BY <1>1, <1>4, <1>5, <1>6, <1>7, <1>9, <1>10, <1>11, StepKeeps

\* One round of the loop.
LEMMA ReserveKeeps ==
  ASSUME ExecbufConstants, IInv, NEW t \in Threads, Reserve(t)
  PROVE  IInv'
<1> DEFINE b == th[t].list[th[t].i]
           res == Outcome(t, b, th[t].op = "resource")
<1>1. /\ th[t].pc = "reserve" /\ th[t].i <= Len(th[t].list)
      /\ UNCHANGED <<world, on_lru, busy, cpu_writers, left>>
  BY DEF Reserve
<1>2. /\ TypeOK /\ th[t] \in Locals /\ b \in Bos /\ Off(t) = {} /\ Got(t) = Before(t)
  BY <1>1, InLoop
<1>3. /\ res = "ok" => resv[b] = Nobody
      /\ res = "already" => resv[b] = t
      /\ res = "deadlock" => HasTicket(t) /\ Held(t) # {}
  BY DEF Outcome
<1>4. CASE /\ res = "ok" /\ ~CpuAccess(b)
           /\ Lock(t, b)
           /\ Set(t, [th[t] EXCEPT !.i = @ + 1])
           /\ UNCHANGED tickets
  BY <1>1, <1>3, <1>4, ReserveOk
<1>5. CASE /\ res = "ok" /\ ~CpuAccess(b) /\ ShareFails(b) /\ th[t].op = "exec"
           /\ resv' = [c \in Bos |-> IF c = b THEN t
                                     ELSE IF c \in Before(t) THEN Nobody ELSE resv[c]]
           /\ Fini(t) /\ Set(t, Idle)
  BY <1>1, <1>2, <1>3, <1>5, LeakKeeps
<1>6. CASE /\ res = "already" /\ world.dups
           /\ Set(t, [th[t] EXCEPT !.list = Remove(@, th[t].i)])
           /\ UNCHANGED <<resv, tickets>>
  BY <1>1, <1>3, <1>6, ReserveDuplicate
<1>7. CASE /\ res = "deadlock"
           /\ UnlockAll(Before(t))
           /\ Set(t, [th[t] EXCEPT !.pc = "slow"])
           /\ UNCHANGED tickets
  BY <1>1, <1>3, <1>7, ReserveDeadlock
<1>8. CASE Fail(t, Before(t))
  <2>1. UnlockAll(Got(t)) /\ Fini(t) /\ Set(t, Idle)
    BY <1>2, <1>8 DEF Fail
  <2>2. on_lru \in [Bos -> BOOLEAN] /\ busy \in [Bos -> BOOLEAN]
        /\ cpu_writers \in [Bos -> SUBSET Threads]
    BY <1>2 DEF TypeOK
  <2> QED BY <1>1, <1>2, <2>1, <2>2, EndKeeps
<1> QED BY <1>4, <1>5, <1>6, <1>7, <1>8 DEF Reserve

\* ww_mutex_lock_slow(): the entry goes to the front.
LEMMA SlowOk ==
  ASSUME ExecbufConstants, IInv, NEW t \in Threads, th[t].pc = "slow",
         resv[th[t].list[th[t].i]] = Nobody, Lock(t, th[t].list[th[t].i]),
         Set(t, Restart(th[t])),
         UNCHANGED <<world, tickets, on_lru, busy, cpu_writers, left>>
  PROVE  IInv'
<1> DEFINE i == th[t].i
           s == th[t].list
           f == <<s[i]>> \o Remove(s, i)
           l == Restart(th[t])
<1>1. Local(t) /\ th[t].op = "exec" /\ th[t].i <= Len(th[t].list)
  BY DEF IInv, Local, Shape
<1>2. /\ TypeOK /\ TicketsOK /\ th[t] \in Locals /\ s \in Seq(Bos)
      /\ i \in 1..Len(s) /\ s[i] \in Bos /\ Off(t) = {} /\ Got(t) = {}
  BY <1>1, InLoop
<1>3. f \in Seq(Bos) /\ Len(f) = Len(s) /\ f[1] = s[i] /\ Elements(f) = Elements(s)
  BY <1>2, ToFront
<1>4. l = [th[t] EXCEPT !.pc = "reserve", !.list = f, !.i = 2, !.slow = s[i]]
  BY DEF Restart
<1> HIDE DEF f, l
<1>5. /\ l \in Locals /\ l.i = 2 /\ l.op = "exec" /\ l.pc = "reserve"
      /\ l.want = th[t].want /\ l.list = f /\ l.slow = s[i]
  BY <1>1, <1>2, <1>3, <1>4 DEF Locals, Places
<1>6. l.i \in 1..Len(l.list) + 1
  BY <1>2, <1>3, <1>5
<1>7. /\ th' \in [Threads -> Locals]
      /\ \A u \in Threads : th'[u].i \in 1..Len(th'[u].list) + 1
      /\ th'[t] = l /\ \A u \in Threads \ {t} : th'[u] = th[u]
  BY <1>2, <1>5, <1>6, SetSets DEF l
<1>8. /\ resv' \in [Bos -> Threads \cup {Nobody}]
      /\ Held(t)' = Held(t) \cup {s[i]}
      /\ \A u \in Threads \ {t} : Held(u)' = Held(u)
  BY <1>2, LockHolds
<1>9. Got(t)' = {s[i]} /\ Off(t)' = {}
  <2>1. Before(t)' = {f[j] : j \in 1..2 - 1}
    BY <1>5, <1>7 DEF Before
  <2>2. 1..2 - 1 = {1}
    OBVIOUS
  <2>3. Before(t)' = {s[i]}
    BY <1>3, <2>1, <2>2
  <2> QED BY <1>5, <1>7, <2>3 DEF Got, Off
<1>10. \A u \in Threads : HasTicket(u)' <=> HasTicket(u)
  BY DEF HasTicket
<1>11. NoLeak' => NoLeak /\ Held(t)' = {s[i]}
  BY <1>1, <1>2, <1>8 DEF Local, HeldExact, NoLeak
<1>12. Local(t)'
  <2>1. Shape(t)'
    BY <1>1, <1>5, <1>7, <1>10 DEF Shape, Local
  <2>2. ListKept(t)'
    BY <1>1, <1>3, <1>5, <1>7 DEF ListKept, Local, NoLeak
  <2>3. HeldExact(t)'
    BY <1>8, <1>9, <1>11 DEF HeldExact
  <2>4. ~OneBuffer'
    BY <1>1 DEF Local, NoSlow, OneBuffer, NoLeak
  <2> QED BY <2>1, <2>2, <2>3, <2>4 DEF Local, NoSlow
<1>13. CpuFree(t)'
  BY <1>5, <1>7, <1>11 DEF CpuFree
<1>14. TypeOK'
  BY <1>2, <1>7, <1>8 DEF TypeOK
<1> QED BY <1>2, <1>7, <1>8, <1>9, <1>10, <1>12, <1>13, <1>14, StepKeeps

\* ww_mutex_lock_slow() and what follows it.
LEMMA ReserveSlowKeeps ==
  ASSUME ExecbufConstants, IInv, NEW t \in Threads, ReserveSlow(t)
  PROVE  IInv'
<1> DEFINE b == th[t].list[th[t].i]
<1>1. th[t].pc = "slow" /\ UNCHANGED <<world, on_lru, busy, cpu_writers, left>>
  BY DEF ReserveSlow
<1>2. th[t].i <= Len(th[t].list)
  BY <1>1 DEF IInv, Local, Shape
<1>3. TypeOK /\ b \in Bos /\ Off(t) = {} /\ Got(t) = {}
  BY <1>1, <1>2, InLoop
<1>4. CASE resv[b] = Nobody /\ Lock(t, b) /\ Set(t, Restart(th[t])) /\ UNCHANGED tickets
  BY <1>1, <1>4, SlowOk
<1>5. CASE /\ resv[b] = Nobody /\ Lock(t, b)
           /\ ShareFails(b) /\ Set(t, Idle) /\ Fini(t)
  <2>1. resv' = [c \in Bos |-> IF c = b THEN t
                               ELSE IF c \in Got(t) THEN Nobody ELSE resv[c]]
    BY <1>3, <1>5 DEF Lock, TypeOK
  <2> QED BY <1>1, <1>3, <1>5, <2>1, LeakKeeps
<1>6. CASE Fail(t, {})
  <2>1. UnlockAll(Got(t)) /\ Fini(t) /\ Set(t, Idle)
    BY <1>3, <1>6 DEF Fail
  <2>2. on_lru \in [Bos -> BOOLEAN] /\ busy \in [Bos -> BOOLEAN]
        /\ cpu_writers \in [Bos -> SUBSET Threads]
    BY <1>3 DEF TypeOK
  <2> QED BY <1>1, <1>3, <2>1, <2>2, EndKeeps
<1> QED BY <1>4, <1>5, <1>6 DEF ReserveSlow

------------------------------------------------------------------------------
(* The other steps. *)

\* ttm_eu_del_from_lru_locked() takes the whole list off the lru lists.
LEMMA DelFromLruKeeps ==
  ASSUME ExecbufConstants, IInv, NEW t \in Threads, DelFromLru(t)
  PROVE  IInv'
<1> DEFINE l == [th[t] EXCEPT !.pc = "reserved"]
<1>1. /\ TypeOK /\ Local(t) /\ th[t] \in Locals /\ th[t].list \in Seq(Bos)
      /\ th[t].i = Len(th[t].list) + 1 /\ th[t].pc = "reserve"
  BY DEF DelFromLru, IInv, TypeOK, Locals
<1>2. /\ l \in Locals /\ l.i = th[t].i /\ l.op = th[t].op /\ l.pc = "reserved"
      /\ l.want = th[t].want /\ l.list = th[t].list /\ l.slow = th[t].slow
  BY <1>1 DEF Locals, Places
<1>3. l.i \in 1..Len(l.list) + 1 /\ Set(t, l)
  BY <1>1, <1>2 DEF DelFromLru
<1> HIDE DEF l
<1>4. /\ th' \in [Threads -> Locals]
      /\ \A u \in Threads : th'[u].i \in 1..Len(th'[u].list) + 1
      /\ th'[t] = l /\ \A u \in Threads \ {t} : th'[u] = th[u]
  BY <1>1, <1>2, <1>3, SetSets
<1>5. UNCHANGED <<world, resv, tickets, busy, cpu_writers, left>>
  BY DEF DelFromLru
<1>6. on_lru' \in [Bos -> BOOLEAN]
  BY Zenon DEF DelFromLru
<1>7. \A b \in Bos : ~on_lru'[b] <=> ~on_lru[b] \/ b \in Elements(th[t].list)
  BY DEF DelFromLru
<1>8. Before(t) = Elements(th[t].list)
  BY <1>1 DEF Before, Elements
<1>9. /\ Got(t) = Got(t)' /\ Off(t) = {} /\ Off(t)' = Elements(th[t].list)
      /\ \A u \in Threads : Held(u)' = Held(u) /\ (HasTicket(u)' <=> HasTicket(u))
  BY <1>1, <1>2, <1>4, <1>5, <1>8 DEF Got, Off, Held, HasTicket
<1>10. Local(t)'
  <2>1. Shape(t)'
    BY <1>1, <1>2, <1>4, <1>9 DEF Shape, Local
  <2>2. ListKept(t)' /\ NoSlow(t)'
    BY <1>1, <1>2, <1>4, <1>5 DEF ListKept, NoSlow, Local, OneBuffer, NoLeak
  <2>3. HeldExact(t)'
    BY <1>1, <1>5, <1>9 DEF HeldExact, Local, NoLeak
  <2> QED BY <2>1, <2>2, <2>3 DEF Local
<1>11. CpuFree(t)'
  BY <1>2, <1>4, <1>5, <1>9 DEF CpuFree, IInv, NoLeak
<1>12. TypeOK'
  BY <1>1, <1>4, <1>5, <1>6 DEF TypeOK
<1> QED BY <1>4, <1>5, <1>7, <1>9, <1>10, <1>11, <1>12, StepKeeps

\* A thread that grabs a buffer for the CPU names one, and has no ticket.
LEMMA Grabbing ==
  ASSUME IInv, NEW t \in Threads, th[t].pc \in {"grab", "grab_del_lru", "grab_wait"}
  PROVE  /\ TypeOK /\ TicketsOK /\ Local(t) /\ th[t] \in Locals
         /\ th[t].op \in {"grab", "try_grab"} /\ ~HasTicket(t)
         /\ th[t].list[1] \in Bos /\ Elements(th[t].list) = {th[t].list[1]}
<1>1. TypeOK /\ TicketsOK /\ Local(t)
  BY DEF IInv, TypeOK, TicketsOK
<1>2. th[t] \in Locals /\ th[t].op \in {"grab", "try_grab"} /\ ~HasTicket(t)
      /\ th[t].list \in Seq(Bos) /\ Len(th[t].list) = 1
  BY <1>1 DEF TypeOK, Local, Shape, Locals
<1>3. DOMAIN th[t].list = {1} /\ th[t].list[1] \in Bos
  BY <1>2
<1> QED BY <1>1, <1>2, <1>3 DEF Elements

\* A step of ttm_bo_synccpu_write_grab() that goes on to the place pc.
LEMMA GrabGoesOn ==
  ASSUME ExecbufConstants, IInv, NEW t \in Threads,
         NEW pc \in {"grab_del_lru", "grab_wait"},
         th[t].pc = (IF pc = "grab_wait" THEN "grab_del_lru" ELSE "grab"),
         Set(t, [th[t] EXCEPT !.pc = pc]),
         resv' \in [Bos -> Threads \cup {Nobody}],
         Held(t)' = Held(t) \cup {th[t].list[1]},
         \A u \in Threads \ {t} : Held(u)' = Held(u),
         on_lru' \in [Bos -> BOOLEAN],
         \A b \in Bos : ~on_lru'[b] <=>
                          ~on_lru[b] \/ (b = th[t].list[1] /\ pc = "grab_wait"),
         UNCHANGED <<world, tickets, busy, cpu_writers, left>>
  PROVE  IInv'
<1> DEFINE l == [th[t] EXCEPT !.pc = pc]
<1>1. /\ TypeOK /\ Local(t) /\ th[t] \in Locals
      /\ th[t].op \in {"grab", "try_grab"} /\ Elements(th[t].list) = {th[t].list[1]}
  BY Grabbing
<1>2. /\ l \in Locals /\ l.i = th[t].i /\ l.op = th[t].op /\ l.pc = pc
      /\ l.want = th[t].want /\ l.list = th[t].list /\ l.slow = th[t].slow
  BY <1>1 DEF Locals, Places
<1>3. l.i \in 1..Len(l.list) + 1
  BY <1>1, <1>2 DEF TypeOK
<1>4. /\ th' \in [Threads -> Locals]
      /\ \A u \in Threads : th'[u].i \in 1..Len(th'[u].list) + 1
      /\ th'[t] = l /\ \A u \in Threads \ {t} : th'[u] = th[u]
  BY <1>1, <1>2, <1>3, SetSets
<1> HIDE DEF l
<1>5. /\ Got(t)' = {th[t].list[1]} /\ Got(t) \subseteq {th[t].list[1]} /\ Off(t) = {}
      /\ Off(t)' = IF pc = "grab_wait" THEN {th[t].list[1]} ELSE {}
      /\ \A u \in Threads : HasTicket(u)' <=> HasTicket(u)
  BY <1>1, <1>2, <1>4 DEF Got, Off, HasTicket
<1>6. Local(t)'
  <2>1. Shape(t)'
    BY <1>1, <1>2, <1>4, <1>5 DEF Shape, Local
  <2>2. ListKept(t)' /\ NoSlow(t)'
    BY <1>1, <1>2, <1>4 DEF ListKept, NoSlow, Local, OneBuffer, NoLeak
  <2>3. HeldExact(t)'
    BY <1>1, <1>5 DEF HeldExact, Local, NoLeak
  <2> QED BY <2>1, <2>2, <2>3 DEF Local
<1>7. CpuFree(t)'
  BY <1>1, <1>2, <1>4 DEF CpuFree
<1>8. TypeOK'
  BY <1>1, <1>4 DEF TypeOK
<1> QED BY <1>4, <1>5, <1>6, <1>7, <1>8, StepKeeps

\* __ttm_bo_reserve() and ttm_bo_del_from_lru() of ttm_bo_synccpu_write_grab().
LEMMA GrabKeeps ==
  ASSUME ExecbufConstants, IInv, NEW t \in Threads, GrabReserve(t) \/ GrabDelFromLru(t)
  PROVE  IInv'
<1> DEFINE b == th[t].list[1]
<1>1. th[t].pc \in {"grab", "grab_del_lru"}
  BY DEF GrabReserve, GrabDelFromLru
<1>2. TypeOK /\ TicketsOK /\ Local(t) /\ ~HasTicket(t) /\ b \in Bos
      /\ Elements(th[t].list) = {b}
  BY <1>1, Grabbing
<1>3. on_lru \in [Bos -> BOOLEAN] /\ busy \in [Bos -> BOOLEAN]
      /\ cpu_writers \in [Bos -> SUBSET Threads] /\ resv \in [Bos -> Threads \cup {Nobody}]
  BY <1>2 DEF TypeOK
<1>4. CASE GrabDelFromLru(t)
  <2>1. /\ th[t].pc = "grab_del_lru" /\ Set(t, [th[t] EXCEPT !.pc = "grab_wait"])
        /\ on_lru' = [on_lru EXCEPT ![b] = FALSE]
        /\ UNCHANGED <<world, resv, tickets, busy, cpu_writers, left>>
    BY <1>4 DEF GrabDelFromLru
  <2>2. b \in Held(t)
    BY <1>2, <2>1 DEF Local, HeldExact, Got
  <2>3. \A u \in Threads : Held(u)' = Held(u)
    BY <2>1 DEF Held
  <2>4. /\ on_lru' \in [Bos -> BOOLEAN]
        /\ \A c \in Bos : ~on_lru'[c] <=> ~on_lru[c] \/ c = b
    BY <1>2, <1>3, <2>1
  <2> HIDE DEF b
  <2>5. Held(t)' = Held(t) \cup {b} /\ resv' \in [Bos -> Threads \cup {Nobody}]
    BY <1>3, <2>1, <2>2, <2>3
  <2> QED BY <2>1, <2>3, <2>4, <2>5, GrabGoesOn DEF b
<1>5. CASE GrabReserve(t)
  <2>1. th[t].pc = "grab" /\ UNCHANGED <<world, tickets, on_lru, busy, cpu_writers, left>>
    BY <1>5 DEF GrabReserve
  <2>2. CASE /\ resv[b] = Nobody /\ Lock(t, b)
             /\ Set(t, [th[t] EXCEPT !.pc = "grab_del_lru"])
    <3>1. /\ resv' \in [Bos -> Threads \cup {Nobody}]
          /\ Held(t)' = Held(t) \cup {b}
          /\ \A u \in Threads \ {t} : Held(u)' = Held(u)
      BY <1>2, <2>2, LockHolds
    <3> QED BY <1>3, <2>1, <2>2, <3>1, GrabGoesOn
  <2>3. CASE Set(t, Idle) /\ UNCHANGED resv
    <3>1. Got(t) = {} /\ Off(t) = {}
      BY <2>1 DEF Got, Off
    <3>2. UnlockAll(Got(t)) /\ Fini(t)
      BY <1>2, <1>3, <2>1, <2>3, <3>1 DEF UnlockAll, Fini
    <3> QED BY <1>3, <2>1, <2>3, <3>1, <3>2, EndKeeps
  <2> QED BY <1>5, <2>2, <2>3 DEF GrabReserve, Outcome
<1> QED BY <1>4, <1>5

\* ttm_bo_synccpu_write_release() and the GPU only take away.
LEMMA TakeAwayKeeps ==
  ASSUME IInv, UNCHANGED <<world, resv, tickets, on_lru, left, th>>,
         cpu_writers' \in [Bos -> SUBSET Threads], busy' \in [Bos -> BOOLEAN],
         \A b \in Bos : cpu_writers'[b] \subseteq cpu_writers[b] /\ (busy'[b] => busy[b])
  PROVE  IInv'
<1>1. TypeOK'
  BY DEF IInv, TypeOK
<1>2. (NoLeak' <=> NoLeak) /\ (OneBuffer' <=> OneBuffer)
  BY DEF NoLeak, OneBuffer
<1>3. ASSUME NEW t \in Threads
      PROVE  Local(t)' /\ CpuFree(t)' /\ Off(t)' = Off(t)
  <2>1. /\ Held(t)' = Held(t) /\ (HasTicket(t)' <=> HasTicket(t))
        /\ Got(t)' = Got(t) /\ Off(t)' = Off(t)
    BY DEF Held, HasTicket, Got, Off, Before
  <2>2. Local(t) /\ CpuFree(t)
    BY DEF IInv
  <2>3. Shape(t)' /\ ListKept(t)' /\ NoSlow(t)'
    BY <1>2, <2>1, <2>2 DEF Local, Shape, ListKept, NoSlow
  <2>4. HeldExact(t)'
    BY <1>2, <2>1, <2>2 DEF Local, HeldExact
  <2>5. CpuFree(t)'
    <3>1. \A b \in Held(t) : b \in Bos
      BY DEF Held
    <3> QED BY <1>2, <2>1, <2>2, <3>1 DEF CpuFree
  <2> QED BY <2>1, <2>3, <2>4, <2>5 DEF Local
<1>4. LruExact'
  BY <1>3 DEF IInv, LruExact
<1>5. BusyFree'
  BY <1>2 DEF IInv, BusyFree
<1> QED BY <1>1, <1>3, <1>4, <1>5 DEF IInv

\* ttm_bo_synccpu_write_release()
LEMMA GrabReleaseKeeps ==
  ASSUME IInv, NEW t \in Threads, NEW b \in Bos, GrabRelease(t, b)
  PROVE  IInv'
<1>1. cpu_writers \in [Bos -> SUBSET Threads] /\ busy \in [Bos -> BOOLEAN]
  BY DEF IInv, TypeOK
<1>2. /\ cpu_writers' \in [Bos -> SUBSET Threads]
      /\ \A c \in Bos : cpu_writers'[c] \subseteq cpu_writers[c]
  BY <1>1 DEF GrabRelease
<1> QED BY <1>1, <1>2, TakeAwayKeeps DEF GrabRelease

\* The GPU passes a fence.
LEMMA SignalKeeps ==
  ASSUME IInv, NEW b \in Bos, Signal(b)
  PROVE  IInv'
<1>1. cpu_writers \in [Bos -> SUBSET Threads] /\ busy \in [Bos -> BOOLEAN]
  BY DEF IInv, TypeOK
<1>2. busy' \in [Bos -> BOOLEAN] /\ \A c \in Bos : busy'[c] => busy[c]
  BY <1>1 DEF Signal
<1> QED BY <1>1, <1>2, TakeAwayKeeps DEF Signal

------------------------------------------------------------------------------

\* At first nothing is reserved.
LEMMA InitIInv ==
  ASSUME ExecbufConstants, Init
  PROVE  IInv
<1>1. TypeOK
  <2>1. tickets \in Seq(Threads) /\ DOMAIN tickets = {}
    BY DEF Init
  <2>2. left \in [Threads -> 0..world.calls]
    BY DEF Init, ExecbufConstants
  <2>3. on_lru \in [Bos -> BOOLEAN] /\ busy \in [Bos -> BOOLEAN]
    BY DEF Init
  <2>4. th \in [Threads -> Locals] /\ \A t \in Threads : th[t].i \in 1..Len(th[t].list) + 1
    BY IdleIsLocal DEF Init
  <2> QED BY <2>1, <2>2, <2>3, <2>4 DEF Init, TypeOK
<1>2. ASSUME NEW t \in Threads
      PROVE  Local(t) /\ CpuFree(t) /\ Off(t) = {}
  <2>1. th[t] = Idle /\ ~HasTicket(t)
    BY ShortLists DEF Init, HasTicket
  <2>2. Held(t) = {}
    BY DEF Init, Held, ExecbufConstants, Nobody
  <2>3. Shape(t)
    BY <2>1, IdleIsLocal DEF Shape
  <2>4. ListKept(t) /\ NoSlow(t)
    BY <2>1, IdleIsLocal, ShortLists DEF ListKept, NoSlow
  <2>5. HeldExact(t) /\ Off(t) = {}
    BY <2>1, <2>2, IdleIsLocal DEF HeldExact, Got, Off
  <2> QED BY <2>2, <2>3, <2>4, <2>5 DEF Local, CpuFree
<1>3. LruExact
  BY <1>2 DEF Init, LruExact
<1>4. BusyFree
  BY DEF Init, BusyFree
<1> QED BY <1>1, <1>2, <1>3, <1>4 DEF IInv

\* The invariant is inductive.
LEMMA NextIInv ==
  ASSUME ExecbufConstants, IInv, [Next]_vars
  PROVE  IInv'
<1>1. ASSUME NEW t \in Threads, Exec(t) \/ Resource(t) \/ GrabBegin(t) \/ Inside(t)
      PROVE  IInv'
  BY <1>1, ExecKeeps, ResourceKeeps, ReserveKeeps, ReserveSlowKeeps, DelFromLruKeeps,
     FenceObjectsKeeps, BackoffReservationKeeps, GrabKeeps, GrabWaitKeeps DEF Inside
<1>2. CASE UNCHANGED vars
  <2>1. cpu_writers \in [Bos -> SUBSET Threads] /\ busy \in [Bos -> BOOLEAN]
    BY DEF IInv, TypeOK
  <2> QED BY <1>2, <2>1, TakeAwayKeeps DEF vars
<1> QED BY <1>1, <1>2, GrabReleaseKeeps, SignalKeeps DEF Next

\* What the invariant says of a list.
LEMMA IInvListReserved ==
  ASSUME ExecbufConstants, IInv
  PROVE  ListReserved
<1>1. TypeOK
  BY DEF IInv
<1>2. ASSUME NEW t \in Threads
      PROVE  Local(t) /\ CpuFree(t) /\ Off(t) \subseteq Held(t)
  BY OffHeld DEF IInv, Local
<1>3. AllReserved
  <2> SUFFICES ASSUME NoLeak \/ ~world.dups, NEW t \in Threads, th[t].pc = "reserved",
                      NEW b \in th[t].want
               PROVE  resv[b] = t /\ ~on_lru[b]
    BY DEF AllReserved
  <2>1. b \in Off(t) /\ b \in Bos
    BY <1>1, <1>2 DEF Local, ListKept, Off, TypeOK, Locals
  <2>2. resv[b] = t
    BY <1>2, <2>1 DEF Held
  <2> QED BY <2>1, <2>2 DEF IInv, LruExact
<1>4. HoldsNothing
  <2>1. \A t \in Threads : th[t].pc = "idle" => ~HasTicket(t)
    BY <1>2 DEF Local, Shape
  <2>2. NoLeak => \A t \in Threads : th[t].pc \in {"idle", "slow"} => Held(t) = {}
    BY <1>2 DEF Local, HeldExact, Got
  <2> QED BY <2>1, <2>2 DEF HoldsNothing
<1>5. LruComplete
  <2> SUFFICES ASSUME NEW b \in Bos, ~on_lru[b]
               PROVE  resv[b] # Nobody
    BY DEF LruComplete
  <2>1. PICK t \in Threads : b \in Off(t)
    BY DEF IInv, LruExact
  <2>2. resv[b] = t
    BY <1>2, <2>1 DEF Held
  <2> QED BY <2>2 DEF ExecbufConstants, Nobody
<1>6. CpuExcluded
  BY <1>2 DEF IInv, CpuFree, BusyFree, OneBuffer, CpuExcluded
<1> QED BY <1>1, <1>3, <1>4, <1>5, <1>6 DEF ListReserved

\* A submission that got through ttm_eu_reserve_buffers() holds every buffer of its
\* list off the lru lists, however it backed off, reordered its list and dropped
\* duplicates; one that failed or is over holds nothing and has put everything back;
\* and it shares no buffer reserved in the loop with a CPU writer.
THEOREM TtmExecbufSafe ==
  ASSUME ExecbufConstants
  PROVE  Spec => []ListReserved
<1>1. Init => IInv
  BY InitIInv
<1>2. IInv /\ [Next]_vars => IInv'
  BY NextIInv
<1>3. IInv => ListReserved
  BY IInvListReserved
<1> QED BY <1>1, <1>2, <1>3, PTL DEF Spec

==============================================================================

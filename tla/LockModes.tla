------------------------------ MODULE LockModes ------------------------------
(***************************************************************************)
(* What the TTM lock promises its users: a thread enters a mode only if    *)
(* every thread inside is in a mode compatible with it, and leaves when it *)
(* likes.  Nothing is said of how it waits.                                *)
(***************************************************************************)
CONSTANT Threads
VARIABLE mode     \* the mode each thread is inside in, or "none"

Modes == {"read", "write", "vt", "suspend"}

\* Readers share the lock with readers; a VT switch and a suspend exclude
\* readers and writers, not each other.
Compatible(m, n) == (m = "read" /\ n = "read") \/ {m, n} = {"vt", "suspend"}

Init == mode = [t \in Threads |-> "none"]

Enter(t) ==
  /\ mode[t] = "none"
  /\ \E m \in Modes :
       /\ \A u \in Threads : mode[u] # "none" => Compatible(m, mode[u])
       /\ mode' = [mode EXCEPT ![t] = m]

Leave(t) ==
  /\ mode[t] # "none"
  /\ mode' = [mode EXCEPT ![t] = "none"]

Next == \E t \in Threads : Enter(t) \/ Leave(t)

Spec == Init /\ [][Next]_mode
==============================================================================

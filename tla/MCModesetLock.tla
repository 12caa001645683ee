--------------------------- MODULE MCModesetLock ---------------------------
(***************************************************************************)
(* Small instances of ModesetLock: two crtcs with a primary plane each and *)
(* the connection lock.                                                    *)
(***************************************************************************)
EXTENDS ModesetLock, TLC

CONSTANTS t1, t2, t3, conn, c1, c2, p1, p2

MCCrtcs == <<c1, c2>>
MCPlanes == <<p1, p2>>
MCCrtcPlanes == {<<c1, p1>>, <<c2, p2>>, <<c2, None>>}

\* One crtc with a primary plane.
OneCrtc == <<c1>>
OnePlane == <<p1>>
OneCrtcPlanes == {<<c1, p1>>}

\* Every blocking call, and helpers that ask for locks again.
Blocked == [ops |-> {"all", "crtc", "detect", "connector", "encoder", "plane"},
            further |-> {"all", "crtc"}, alloc_fails |-> FALSE]

\* The panic path's trylock, and allocations that fail.
Panic == [ops |-> {"all", "try", "crtc"}, further |-> {}, alloc_fails |-> TRUE]

MCWorkloads == {Blocked, Panic}
TryOnly == {[Panic EXCEPT !.ops = {"all", "try"}, !.alloc_fails = FALSE]}

\* The threads are interchangeable.
Symmetry == Permutations(Threads)

=============================================================================

------------------------------ MODULE MCTtmLock ------------------------------
(* Instances of TtmLock for TLC: one per lock the vmwgfx driver keeps. *)
EXTENDS TtmLock, TLC

CONSTANTS t1, t2, t3

\* vmw_private.reservation_sem, with the interruptible writers only.
ReservationCalls == {<<"read", TRUE>>, <<"write", TRUE>>, <<"suspend", FALSE>>}

\* The same lock with the callers that pass interruptible = FALSE
\* (vmw_fb_create_bo(), the kms and fb paths of vmw_dmabuf_to_placement()).
AllReservationCalls == ReservationCalls \cup {<<"write", FALSE>>}

\* Every entry point of ttm_lock.c in its interruptible form.
InterruptibleCalls ==
  {<<"read", TRUE>>, <<"tryread", TRUE>>, <<"write", TRUE>>, <<"vt", TRUE>>,
   <<"suspend", FALSE>>}
==============================================================================

------------------------------ MODULE MCVblank ------------------------------
(***************************************************************************)
(* Small instances of Vblank.                                              *)
(***************************************************************************)
EXTENDS Vblank, TLC

CONSTANTS t1, t2, e1

\* Requests for the current vblank, the next ones, and one that has passed.
Around == {-1, 1}

\* The usual driver: precise timestamps, drm_vblank_off and drm_vblank_on.
Usual == [precise |-> TRUE, off_delay |-> TRUE, style |-> "off_on",
          unbalanced |-> {}, get_fails |-> FALSE, on_fails |-> FALSE]

UsualOnly == {Usual}
ImpreciseOnly == {[Usual EXCEPT !.precise = FALSE]}
AllKinds ==
    {Usual,
     [Usual EXCEPT !.style = "pre_post"],
     [Usual EXCEPT !.style = "pre_post", !.get_fails = TRUE],
     [Usual EXCEPT !.off_delay = FALSE, !.unbalanced = {"on"}],
     [Usual EXCEPT !.on_fails = TRUE]}

\* Threads of one file, and its events, are interchangeable.
Symmetry == Permutations(Threads) \cup Permutations(Events)

=============================================================================

----------------------------- MODULE MCFrameSync -----------------------------
(***************************************************************************)
(* Instances of FrameSync for TLC: a window that is minimized or not, and  *)
(* one that keeps its size.                                                *)
(***************************************************************************)
EXTENDS FrameSync

MCExtents == {<<0, 0>>, <<1, 1>>}
MCFixedExtent == {<<1, 1>>}

=============================================================================

-------------------------- MODULE MCPresentObjects --------------------------
(***************************************************************************)
(* Instances of PresentObjects for TLC: a window that can be minimized,    *)
(* squeezed to no height, or have one of two proper sizes.                 *)
(***************************************************************************)
EXTENDS PresentObjects

MCExtents == {<<0, 0>>, <<2, 0>>, <<2, 1>>, <<3, 2>>}

=============================================================================

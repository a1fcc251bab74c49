------------------------------ MODULE MCAppRun ------------------------------
(***************************************************************************)
(* Instances of AppRun for TLC: a window that is minimized or not.         *)
(***************************************************************************)
EXTENDS AppRun

MCExtents == {<<0, 0>>, <<1, 1>>}

=============================================================================

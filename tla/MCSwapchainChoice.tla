-------------------------- MODULE MCSwapchainChoice --------------------------
(***************************************************************************)
(* Instances of SwapchainChoice for TLC: FIFO, which each surface has to   *)
(* offer, among other modes in every order, no mode twice; and the empty   *)
(* list of a query that failed.                                            *)
(***************************************************************************)
EXTENDS SwapchainChoice, FiniteSets

Distinct(s) == Cardinality({s[k] : k \in DOMAIN s}) = Len(s)

MCModeLists ==
  {s \in UNION {[1 .. n -> Modes] : n \in 1 .. Cardinality(Modes)} :
     Distinct(s) /\ \E k \in DOMAIN s : s[k] = "FIFO"} \cup {<<>>}

=============================================================================

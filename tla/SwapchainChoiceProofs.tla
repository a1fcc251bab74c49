------------------------ MODULE SwapchainChoiceProofs ------------------------
(***************************************************************************)
(* What SwapchainChoice asks for, proved for every list of present modes   *)
(* and every limits of the surface.                                        *)
(***************************************************************************)
EXTENDS SwapchainChoice, TLAPS

\* While the loop runs no mailbox was seen, and the mode is the last one seen.
LoopInvariant ==
  /\ pc = "request" => i = 1
  /\ pc # "create" =>
       /\ \A k \in 1 .. (i - 1) : surface_present_modes[k] # "MAILBOX"
       /\ presentMode = IF i = 1 THEN ZeroedMode ELSE surface_present_modes[i - 1]

Invariant == TypeOK /\ LoopInvariant /\ MailboxElseLast /\ RequestWithinLimits

\* A list of modes is a sequence.
LEMMA ListsAreSequences == ModeLists \subseteq Seq(Modes)
BY ModeListsAssumption

\* The clamp in the request stays within limits that are in order, and gives
\* two when two is within them.
LEMMA RequestIsClamped ==
  ASSUME NEW caps \in SurfaceCaps
  PROVE  /\ RequestedImages(caps) \in Nat
         /\ caps.maxImageCount # 0 =>
              /\ caps.minImageCount <= RequestedImages(caps)
              /\ RequestedImages(caps) <= caps.maxImageCount
              /\ caps.minImageCount <= 2 /\ caps.maxImageCount >= 2 =>
                   RequestedImages(caps) = 2
<1>1. /\ caps.minImageCount \in Nat /\ caps.maxImageCount \in Nat
      /\ caps.maxImageCount = 0 \/ caps.minImageCount <= caps.maxImageCount
  BY LimitsAssumption DEF SurfaceCaps
<1>2. QED
  BY <1>1 DEF RequestedImages, min, max

\* The invariant holds initially.
LEMMA InvariantInit == Init => Invariant
<1> SUFFICES ASSUME Init PROVE Invariant
  OBVIOUS
<1>1. surface_present_modes \in Seq(Modes)
  BY ListsAreSequences DEF Init
<1>2. Len(surface_present_modes) \in Nat
  BY <1>1
<1>3. TypeOK
  BY <1>2 DEF Init, TypeOK, ZeroedMode, Modes
<1>4. QED
  BY <1>3 DEF Init, Invariant, LoopInvariant, MailboxElseLast, RequestWithinLimits

\* Each step keeps it.
LEMMA InvariantStep == Invariant /\ [Next]_vars => Invariant'
<1> SUFFICES ASSUME Invariant, [Next]_vars PROVE Invariant'
  OBVIOUS
<1> USE DEF Invariant, TypeOK, LoopInvariant, MailboxElseLast,
            RequestWithinLimits, Offered, surfaceVars
<1>1. /\ surface_present_modes \in Seq(Modes)
      /\ Len(surface_present_modes) \in Nat
      /\ DOMAIN surface_present_modes = 1 .. Len(surface_present_modes)
  BY ListsAreSequences
<1>2. \A k \in DOMAIN surface_present_modes : surface_present_modes[k] \in Modes
  BY <1>1
<1>3. CASE RequestImages
  BY <1>3, RequestIsClamped DEF RequestImages
<1>4. CASE TakeMailbox
  BY <1>1, <1>4 DEF TakeMailbox, Candidate, AfterMailbox, Modes
<1>5. CASE TakeFifo
  BY <1>1, <1>5 DEF TakeFifo, Candidate, Modes
<1>6. CASE SettleForLess
  BY <1>1, <1>6 DEF SettleForLess, Candidate, Modes
<1>7. CASE EndOfModes
  <2>1. i = Len(surface_present_modes) + 1
    BY <1>1, <1>7 DEF EndOfModes
  <2>2. ~Offered("MAILBOX")
    BY <1>1, <1>7, <2>1 DEF EndOfModes
  <2>3. surface_present_modes = <<>> <=> i = 1
    BY <1>1, <2>1
  <2>4. MailboxElseLast'
    BY <1>1, <1>7, <2>1, <2>2, <2>3 DEF EndOfModes, ZeroedMode
  <2>5. QED
    BY <1>7, <2>4 DEF EndOfModes
<1>8. CASE Created \/ UNCHANGED vars
  BY <1>8 DEF Created, vars
<1>9. QED
  BY <1>3, <1>4, <1>5, <1>6, <1>7, <1>8 DEF Next

\* The inductive invariant is an invariant.
LEMMA InvariantHolds == Spec => []Invariant
BY InvariantInit, InvariantStep, PTL DEF Spec

\* The loop over the present modes chooses mailbox if it is in the list, and
\* otherwise the last mode of the list.
THEOREM ChoosesMailboxElseLast == Spec => []MailboxElseLast
<1>1. Invariant => MailboxElseLast
  BY DEF Invariant
<1>2. QED
  BY <1>1, InvariantHolds, PTL

\* Under an upper limit, the image count asked for keeps the surface's limits.
THEOREM RequestsWithinLimits == Spec => []RequestWithinLimits
<1>1. Invariant => RequestWithinLimits
  BY DEF Invariant
<1>2. QED
  BY <1>1, InvariantHolds, PTL

\* The loop index, the chosen mode and the image count keep their types: the mode
\* is always one of the enumeration (app.c:206-223).
THEOREM ChoiceTypeCorrect == Spec => []TypeOK
<1>1. Invariant => TypeOK
  BY DEF Invariant
<1>2. QED
  BY <1>1, InvariantHolds, PTL

=============================================================================

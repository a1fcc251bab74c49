--------------------------- MODULE SwapchainChoice ---------------------------
(***************************************************************************)
(* What vulkan_create_swapchain asks the driver for: how many images, from *)
(* the limits of the surface, and which present mode, from a walk through  *)
(* the list of the modes the surface offers.                               *)
(***************************************************************************)
EXTENDS Naturals, Sequences

CONSTANTS
  Limits,    \* the image counts a surface can name as its limits
  ModeLists  \* the lists of present modes a surface can offer

\* The two modes the code tells apart, and two of those it does not.
Modes == {"IMMEDIATE", "MAILBOX", "FIFO", "FIFO_RELAXED"}

ASSUME LimitsAssumption == Limits \subseteq Nat
ASSUME ModeListsAssumption == ModeLists \subseteq Seq(Modes)

VARIABLES
  pc,
  surface_caps,            \* VkSurfaceCapabilitiesKHR, its two image counts
  surface_present_modes,
  i,                       \* the next mode to look at, counted from one
  minImageCount,           \* of swapchain_ci, zero until it is set
  presentMode              \* of swapchain_ci

surfaceVars == <<surface_caps, surface_present_modes>>
vars == <<pc, surfaceVars, i, minImageCount, presentMode>>

-----------------------------------------------------------------------------

min(a, b) == IF a < b THEN a ELSE b
max(a, b) == IF a > b THEN a ELSE b

\* The limits a surface can have.  A maxImageCount of zero means that there
\* is no upper limit.
SurfaceCaps ==
  {c \in [minImageCount : Limits, maxImageCount : Limits] :
     /\ c.minImageCount > 0
     /\ c.maxImageCount = 0 \/ c.minImageCount <= c.maxImageCount}

\* Mutant: swapchain_ci without an initializer.
ZeroedMode_Garbage == "garbage"

\* Zero initialization of swapchain_ci makes the mode IMMEDIATE.
ZeroedMode == "IMMEDIATE"

Init ==
  /\ pc = "request"
  /\ surface_caps \in SurfaceCaps
  /\ surface_present_modes \in ModeLists
  /\ i = 1
  /\ minImageCount = 0
  /\ presentMode = ZeroedMode

\* Mutant: the surface's own minimum forgotten.
RequestedImages_NoMinimum(caps) == min(2, caps.maxImageCount)

RequestedImages(caps) == min(max(caps.minImageCount, 2), caps.maxImageCount)

RequestImages ==
  /\ pc = "request"
  /\ minImageCount' = RequestedImages(surface_caps)
  /\ pc' = "select"
  /\ UNCHANGED <<surfaceVars, i, presentMode>>

\* The loop looks at one more mode.
Candidate(m) ==
  /\ pc = "select"
  /\ i <= Len(surface_present_modes)
  /\ m = surface_present_modes[i]

\* Mutant: the break after mailbox forgotten.
AfterMailbox_NoBreak == "select"

\* Taking mailbox breaks out of the loop.
AfterMailbox == "create"

TakeMailbox ==
  /\ Candidate("MAILBOX")
  /\ presentMode' = "MAILBOX"
  /\ pc' = AfterMailbox
  /\ i' = i + 1
  /\ UNCHANGED <<surfaceVars, minImageCount>>

TakeFifo ==
  /\ Candidate("FIFO")
  /\ presentMode' = "FIFO"
  /\ i' = i + 1
  /\ UNCHANGED <<pc, surfaceVars, minImageCount>>

\* Any other mode is taken too, whatever was taken before.
SettleForLess ==
  /\ \E m \in Modes \ {"MAILBOX", "FIFO"} :
       /\ Candidate(m)
       /\ presentMode' = m
  /\ i' = i + 1
  /\ UNCHANGED <<pc, surfaceVars, minImageCount>>

EndOfModes ==
  /\ pc = "select"
  /\ i > Len(surface_present_modes)
  /\ pc' = "create"
  /\ UNCHANGED <<surfaceVars, i, minImageCount, presentMode>>

\* vkCreateSwapchainKHR is called.
Created ==
  /\ pc = "create"
  /\ UNCHANGED vars

Next ==
  \/ RequestImages \/ TakeMailbox \/ TakeFifo \/ SettleForLess \/ EndOfModes
  \/ Created

Spec == Init /\ [][Next]_vars

-----------------------------------------------------------------------------

TypeOK ==
  /\ pc \in {"request", "select", "create"}
  /\ surface_caps \in SurfaceCaps
  /\ surface_present_modes \in ModeLists
  /\ i \in 1 .. Len(surface_present_modes) + 1
  /\ minImageCount \in Nat
  /\ presentMode \in Modes

Offered(m) == \E k \in DOMAIN surface_present_modes : surface_present_modes[k] = m

\* Mailbox is chosen whenever it is offered.  Otherwise the order of the list
\* decides alone: the last mode is chosen, be it better or worse than FIFO.
MailboxElseLast ==
  pc = "create" =>
    presentMode =
      IF Offered("MAILBOX") THEN "MAILBOX"
      ELSE IF surface_present_modes = <<>> THEN "IMMEDIATE"
      ELSE surface_present_modes[Len(surface_present_modes)]

\* If the surface has an upper limit, the number of images asked for is within
\* its limits and two unless those rule it out.
RequestWithinLimits ==
  pc # "request" /\ surface_caps.maxImageCount # 0 =>
    /\ surface_caps.minImageCount <= minImageCount
    /\ minImageCount <= surface_caps.maxImageCount
    /\ surface_caps.minImageCount <= 2 /\ surface_caps.maxImageCount >= 2 =>
         minImageCount = 2

\* app.c:194: "want double buffering".  Two images or more are asked for if the
\* surface allows it.
DoubleBuffering ==
  pc # "request" /\ surface_caps.maxImageCount # 1 => minImageCount >= 2

\* app.c:216: "FIFO is the next best".  If mailbox is not offered, but FIFO is,
\* FIFO is chosen.
FifoIsNextBest ==
  pc = "create" /\ ~Offered("MAILBOX") /\ Offered("FIFO") => presentMode = "FIFO"

=============================================================================

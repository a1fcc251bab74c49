------------------------ MODULE PresentObjectsProofs ------------------------
(***************************************************************************)
(* The safety properties of PresentObjects, proved for every set of window *)
(* sizes and of image counts.                                              *)
(***************************************************************************)
EXTENDS PresentObjects, TLAPS

-----------------------------------------------------------------------------
(* The inductive invariant.  The handle of the swapchain tells the state   *)
(* of everything else: nothing was created yet, all of it is live, or all  *)
(* of it but the command buffers is destroyed.                             *)

\* Nothing but the empty sync-object arrays of a vulkan_init that found the
\* window without area.
WhenNull ==
  /\ IsEmpty(swapchain_extent)
  /\ pc \notin {"recreate"}
  /\ pc # "done" => \A a \in FreedArrays : heap[a] # "freed"

WhenLive ==
  /\ HasArea(swapchain_extent)
  /\ \A a \in Arrays : heap[a] = "live"
  /\ buffer_strategy > 0
  /\ pc \notin {"init", "create", "done"}

WhenDestroyed ==
  /\ \A a \in FreedArrays : heap[a] = "freed"
  /\ pc \notin {"init", "recreate"}
  /\ pc \in {"loop", "pump", "draw", "exit"} => IsEmpty(swapchain_extent)
  /\ pc = "done" => HasArea(swapchain_extent)

Lifecycle ==
  /\ swapchain = "null" => WhenNull
  /\ swapchain = "live" => WhenLive
  /\ swapchain = "destroyed" => WhenDestroyed
  /\ pc = "exit" => quit_to_desktop_requested
  /\ fault = "freed_objects" =>
       /\ pc = "undefined"
       /\ quit_to_desktop_requested
       /\ IsEmpty(swapchain_extent)

Invariant == TypeOK /\ Lifecycle

-----------------------------------------------------------------------------
(* Lemmas.                                                                 *)

\* The two tests of a size that app.c writes are each other's negation.
LEMMA SizeTests ==
  ASSUME NEW e \in Nat \X Nat
  PROVE  IsEmpty(e) <=> ~HasArea(e)
BY DEF IsEmpty, HasArea

\* A window size, or the initial zero, is a pair of naturals.
LEMMA ExtentsArePairs ==
  /\ \A e \in Extents : e \in Nat \X Nat
  /\ TypeOK => swapchain_extent \in Nat \X Nat /\ client_rect \in Nat \X Nat
BY ExtentsAssumption DEF TypeOK

\* The type invariant is kept by each step.
LEMMA TypeStep == TypeOK /\ [Next]_vars => TypeOK'
<1> SUFFICES ASSUME TypeOK, [Next]_vars PROVE TypeOK'
  OBVIOUS
<1> USE DEF TypeOK, presentVars, Labels, Terminal, Faults, HandleStates
<1>1. ASSUME NEW S \in SUBSET Arrays, Malloc(S)
      PROVE  heap' \in [Arrays -> BlockStates] /\ leaked' \in SUBSET Arrays
  BY <1>1 DEF Malloc, BlockStates
<1>2. ASSUME vulkan_create_swapchain
      PROVE  /\ swapchain_extent' \in Extents \cup {<<0, 0>>}
             /\ buffer_strategy' \in ImageCounts \cup {0}
             /\ swapchain' \in HandleStates
  BY <1>2 DEF vulkan_create_swapchain, RecordedExtent, ArrayLengths
<1>3. SwapchainArrays \cup FrameArrays \in SUBSET Arrays
  BY DEF SwapchainArrays, FrameArrays, ImageArrays, Arrays
<1>4. CASE VulkanInit
  BY <1>1, <1>2, <1>3, <1>4 DEF VulkanInit
<1>5. CASE CreatePresentObjects
  <2>1. SwapchainArrays
          \cup (IF HasArea(swapchain_extent') THEN FrameArrays ELSE {})
        \in SUBSET Arrays
    BY <1>3
  <2>2. QED
    BY <1>1, <1>2, <1>5, <2>1 DEF CreatePresentObjects
<1>6. CASE SwapchainFails
  BY <1>6 DEF SwapchainFails, Undefined
<1>7. ASSUME NEW next \in {"create", "done"}, DestroyObjects(next)
      PROVE  TypeOK'
  BY <1>7 DEF DestroyObjects, Undefined, BlockStates
<1>8. CASE DestroyPresentObjects \/ TeardownPresentObjects
  BY <1>7, <1>8 DEF DestroyPresentObjects, TeardownPresentObjects
<1>9. CASE DrawNothing
  BY <1>9 DEF DrawNothing, AfterDrawNothing
<1>10. CASE DrawOutOfBounds \/ DrawImageUnset
  BY <1>10 DEF DrawOutOfBounds, DrawImageUnset, Undefined
<1>11. CASE DrawOutOfDate
  BY <1>11 DEF DrawOutOfDate
<1>12. CASE DrawPresented
  <2>1. buffer_strategy \in Nat \ {0}
    BY <1>12, ImageCountsAssumption DEF DrawPresented, FrameIndexValid
  <2>2. NextFrame \in Nat
    BY <2>1 DEF NextFrame
  <2>3. QED
    BY <1>12, <2>2 DEF DrawPresented
<1>13. CASE EnterPump \/ HandleClose \/ LeavePump \/ LeaveLoop
  BY <1>13 DEF EnterPump, HandleClose, LeavePump, LeaveLoop
<1>14. CASE ResizeWindow
  BY <1>14 DEF ResizeWindow
<1>15. CASE Terminated \/ UNCHANGED vars
  BY <1>15 DEF Terminated, vars
<1>16. QED
  BY <1>4, <1>5, <1>6, <1>8, <1>9, <1>10, <1>11, <1>12, <1>13, <1>14, <1>15
  DEF Next, Program

\* The invariant holds initially.
LEMMA InvariantInit == Init => Invariant
<1> SUFFICES ASSUME Init PROVE Invariant
  OBVIOUS
<1>1. TypeOK
  BY DEF Init, TypeOK, Labels, Terminal, Faults, HandleStates, BlockStates
<1>2. Lifecycle
  BY DEF Init, Lifecycle, WhenNull, WhenLive, WhenDestroyed, IsEmpty,
         FreedArrays, Arrays, FrameArrays
<1>3. QED
  BY <1>1, <1>2 DEF Invariant

\* Each step keeps the part of the invariant that is not about types.
LEMMA LifecycleStep == Invariant /\ [Next]_vars => Lifecycle'
<1> SUFFICES ASSUME TypeOK, Lifecycle, [Next]_vars PROVE Lifecycle'
  BY DEF Invariant
<1> USE DEF Lifecycle, WhenNull, WhenLive, WhenDestroyed, presentVars
<1>1. swapchain \in {"null", "live", "destroyed"}
  BY DEF TypeOK, HandleStates
<1>2. /\ IsEmpty(swapchain_extent) <=> ~HasArea(swapchain_extent)
      /\ IsEmpty(client_rect) <=> ~HasArea(client_rect)
  BY SizeTests, ExtentsArePairs
<1>3. FreedArrays \subseteq Arrays /\ Arrays = ImageArrays \cup FrameArrays
  BY DEF FreedArrays, Arrays, FrameArrays
<1>4. ASSUME vulkan_create_swapchain
      PROVE  \/ /\ IsEmpty(swapchain_extent')
                /\ ~HasArea(swapchain_extent')
                /\ SwapchainArrays = {}
                /\ UNCHANGED <<buffer_strategy, swapchain>>
             \/ /\ HasArea(swapchain_extent')
                /\ ~IsEmpty(swapchain_extent')
                /\ SwapchainArrays = ImageArrays
                /\ buffer_strategy' > 0
                /\ swapchain' = "live"
  <2>1. swapchain_extent' = client_rect
    BY <1>4 DEF vulkan_create_swapchain, RecordedExtent
  <2>2. /\ IsEmpty(swapchain_extent') <=> IsEmpty(client_rect)
        /\ HasArea(swapchain_extent') <=> HasArea(client_rect)
    BY <2>1 DEF IsEmpty, HasArea
  <2>3. CASE IsEmpty(client_rect)
    BY <1>2, <1>4, <2>2, <2>3 DEF vulkan_create_swapchain, SwapchainArrays
  <2>4. CASE ~IsEmpty(client_rect)
    <3>1. buffer_strategy' > 0 /\ swapchain' = "live"
      <4>1. buffer_strategy' \in ImageCounts /\ swapchain' = "live"
        BY <1>4, <2>4 DEF vulkan_create_swapchain, ArrayLengths
      <4>2. \A n \in ImageCounts : n > 0
        BY ImageCountsAssumption
      <4>3. QED
        BY <4>1, <4>2
    <3>2. QED
      BY <1>2, <2>2, <2>4, <3>1 DEF SwapchainArrays
  <2>5. QED
    BY <2>3, <2>4
<1>5. CASE VulkanInit
  <2>1. swapchain = "null" /\ pc = "init" /\ pc' = "loop" /\ fault' = fault
    BY <1>1, <1>5 DEF VulkanInit
  <2>2. CASE IsEmpty(swapchain_extent')
    <3>1. swapchain' = "null" /\ \A a \in FreedArrays : heap'[a] # "freed"
      BY <1>3, <1>4, <1>5, <2>1, <2>2 DEF VulkanInit, Malloc
    <3>2. QED
      BY <2>1, <2>2, <3>1
  <2>3. CASE ~IsEmpty(swapchain_extent')
    <3>1. swapchain' = "live" /\ \A a \in Arrays : heap'[a] = "live"
      BY <1>3, <1>4, <1>5, <2>3 DEF VulkanInit, Malloc
    <3>2. QED
      BY <1>4, <1>5, <2>1, <2>3, <3>1 DEF VulkanInit
  <2>4. QED
    BY <2>2, <2>3
<1>6. CASE CreatePresentObjects
  <2>1. swapchain # "live" /\ pc = "create" /\ pc' = "loop" /\ fault' = fault
    BY <1>6 DEF CreatePresentObjects
  <2>2. CASE IsEmpty(swapchain_extent')
    <3>1. UNCHANGED <<swapchain, heap>>
      <4>1. UNCHANGED swapchain /\ Malloc({})
        BY <1>4, <1>6, <2>2 DEF CreatePresentObjects
      <4>2. heap' = heap
        BY <4>1 DEF Malloc, TypeOK
      <4>3. QED
        BY <4>1, <4>2
    <3>2. QED
      BY <1>1, <2>1, <2>2, <3>1
  <2>3. CASE ~IsEmpty(swapchain_extent')
    <3>1. swapchain' = "live" /\ \A a \in Arrays : heap'[a] = "live"
      BY <1>3, <1>4, <1>6, <2>3 DEF CreatePresentObjects, Malloc
    <3>2. QED
      BY <1>4, <1>6, <2>1, <2>3, <3>1 DEF CreatePresentObjects
  <2>4. QED
    BY <2>2, <2>3
<1>7. CASE SwapchainFails
  BY <1>7 DEF SwapchainFails, Undefined
<1>8. CASE DestroyPresentObjects
  <2>1. swapchain = "live" /\ \A a \in FreedArrays : heap[a] = "live"
    BY <1>1, <1>3, <1>8 DEF DestroyPresentObjects
  <2>2. /\ swapchain' = "destroyed" /\ pc' = "create" /\ fault' = fault
        /\ \A a \in FreedArrays : heap'[a] = "freed"
    BY <1>3, <1>8, <2>1 DEF DestroyPresentObjects, DestroyObjects
  <2>3. QED
    BY <1>8, <2>2 DEF DestroyPresentObjects
<1>9. CASE TeardownPresentObjects
  <2>1. CASE swapchain = "destroyed"
    <3>1. Undefined("freed_objects")
      BY <1>9, <2>1 DEF TeardownPresentObjects, DestroyObjects
    <3>2. QED
      BY <1>9, <2>1, <3>1 DEF TeardownPresentObjects, Undefined
  <2>2. CASE swapchain # "destroyed"
    <3>1. \A a \in FreedArrays : heap[a] # "freed"
      BY <1>1, <1>3, <1>9, <2>2 DEF TeardownPresentObjects
    <3>2. /\ \A a \in FreedArrays : heap'[a] = "freed"
          /\ swapchain' = IF swapchain = "live" THEN "destroyed" ELSE "null"
          /\ pc' = "done"
          /\ UNCHANGED <<fault, swapchain_extent>>
      BY <1>1, <1>3, <1>9, <2>2, <3>1 DEF TeardownPresentObjects, DestroyObjects
    <3>3. QED
      BY <1>1, <1>9, <2>2, <3>2 DEF TeardownPresentObjects
  <2>3. QED
    BY <2>1, <2>2
<1>10. CASE DrawNothing
  BY <1>1, <1>2, <1>10 DEF DrawNothing, AfterDrawNothing
<1>11. CASE DrawOutOfBounds \/ DrawImageUnset
  BY <1>11 DEF DrawOutOfBounds, DrawImageUnset, Drawing, Undefined
<1>12. CASE DrawOutOfDate
  BY <1>1, <1>2, <1>12 DEF DrawOutOfDate, Drawing
<1>13. CASE DrawPresented
  BY <1>13 DEF DrawPresented, Drawing
<1>14. CASE EnterPump \/ HandleClose \/ LeavePump
  BY <1>14 DEF EnterPump, HandleClose, LeavePump
<1>15. CASE LeaveLoop
  BY <1>15 DEF LeaveLoop
<1>16. CASE ResizeWindow
  BY <1>16 DEF ResizeWindow
<1>17. CASE Terminated \/ UNCHANGED vars
  BY <1>17 DEF Terminated, vars
<1>18. QED
  BY <1>5, <1>6, <1>7, <1>8, <1>9, <1>10, <1>11, <1>12, <1>13, <1>14, <1>15,
     <1>16, <1>17
  DEF Next, Program

\* The inductive invariant is an invariant.
LEMMA InvariantHolds == Spec => []Invariant
<1>1. Invariant /\ [Next]_vars => Invariant'
  BY TypeStep, LifecycleStep DEF Invariant
<1>2. QED
  BY <1>1, InvariantInit, PTL DEF Spec

\* Only a presented frame moves current_frame.
LEMMA FrameMoves == [Next]_vars /\ ~DrawPresented => UNCHANGED current_frame
BY DEF Next, Program, VulkanInit, CreatePresentObjects, SwapchainFails,
       DestroyPresentObjects, TeardownPresentObjects, DestroyObjects,
       DrawNothing, DrawOutOfBounds, DrawImageUnset, DrawOutOfDate,
       EnterPump, HandleClose, LeavePump, LeaveLoop, ResizeWindow, Terminated,
       Undefined, vars, presentVars

-----------------------------------------------------------------------------
(* Theorems.                                                               *)

\* Every variable keeps to its type: the handles and blocks of app.c have no
\* state but those the destroying code distinguishes.
THEOREM TypeCorrect == Spec => []TypeOK
<1>1. Invariant => TypeOK
  BY DEF Invariant
<1>2. QED
  BY <1>1, InvariantHolds, PTL

\* Whenever draw_frame goes past its size test, or the recreation starts to
\* destroy, the present objects are all live.
THEOREM DrawsOnlyLive == Spec => []DrawsOnlyWithLiveObjects
<1>1. Invariant => DrawsOnlyWithLiveObjects
  <2> SUFFICES ASSUME Invariant, Drawing \/ pc = "recreate"
               PROVE  PresentObjectsLive /\ buffer_strategy > 0
    BY DEF DrawsOnlyWithLiveObjects
  <2>1. swapchain \in {"null", "live", "destroyed"}
    BY DEF Invariant, TypeOK, HandleStates
  <2>2. swapchain = "live"
    BY <2>1 DEF Invariant, Lifecycle, WhenNull, WhenDestroyed, Drawing
  <2>3. QED
    BY <2>2 DEF Invariant, Lifecycle, WhenLive, PresentObjectsLive
<1>2. QED
  BY <1>1, InvariantHolds, PTL

\* Destroying what is destroyed already happens at most in the teardown of a
\* program that was told to quit while its window had no area.
THEOREM DoubleDestroyOnlyHidden == Spec => []DoubleDestroyOnlyWhenQuitHidden
<1>1. Invariant => DoubleDestroyOnlyWhenQuitHidden
  <2> SUFFICES ASSUME Invariant PROVE DoubleDestroyOnlyWhenQuitHidden
    OBVIOUS
  <2>1. swapchain \in {"null", "live", "destroyed"}
    BY DEF Invariant, TypeOK, HandleStates
  <2>2. QED
    BY <2>1 DEF Invariant, Lifecycle, WhenNull, WhenLive, WhenDestroyed,
                DoubleDestroyOnlyWhenQuitHidden
<1>2. QED
  BY <1>1, InvariantHolds, PTL

\* current_frame leaves the range of the per-frame arrays only where a
\* recreated swapchain has fewer images than the one before.
THEOREM FrameIndexLeftBehind == Spec => FrameIndexLeftBehindOnlyByShrinking
<1>1. TypeOK /\ [Next]_vars =>
        [FrameIndexValid /\ ~FrameIndexValid' =>
           buffer_strategy' < buffer_strategy]_vars
  <2> SUFFICES ASSUME TypeOK, TypeOK', Next, FrameIndexValid, ~FrameIndexValid'
               PROVE  buffer_strategy' < buffer_strategy
    BY TypeStep
  <2> USE DEF FrameIndexValid, presentVars
  <2>1. /\ buffer_strategy \in Nat \ {0} /\ buffer_strategy' \in Nat
        /\ current_frame \in Nat /\ current_frame' \in Nat
    BY ImageCountsAssumption DEF TypeOK
  <2>2. current_frame' = current_frame => buffer_strategy' < buffer_strategy
    BY <2>1
  <2>3. CASE DrawPresented
    <3>1. NextFrame < buffer_strategy
      BY <2>1 DEF NextFrame
    <3>2. QED
      BY <2>3, <3>1 DEF DrawPresented
  <2>4. CASE ~DrawPresented
    <3>1. UNCHANGED current_frame
      BY <2>4, FrameMoves
    <3>2. QED
      BY <2>2, <3>1
  <2>5. QED
    BY <2>3, <2>4
<1>2. QED
  BY <1>1, TypeCorrect, PTL DEF Spec, FrameIndexLeftBehindOnlyByShrinking

\* A swapchain of the greatest number of images has a frame for every value
\* that current_frame can have.
THEOREM GreatestCountKeepsIndex == Spec => []FrameIndexInRange
<1> DEFINE InSomeRange == \E n \in ImageCounts : current_frame < n
<1>1. Init => InSomeRange
  <2> SUFFICES ASSUME Init PROVE InSomeRange
    OBVIOUS
  <2>1. PICK n \in ImageCounts : n \in Nat \ {0}
    BY ImageCountsAssumption
  <2>2. current_frame < n
    BY <2>1 DEF Init
  <2>3. QED
    BY <2>2
<1>2. TypeOK /\ InSomeRange /\ [Next]_vars => InSomeRange'
  <2> SUFFICES ASSUME TypeOK, InSomeRange, [Next]_vars PROVE InSomeRange'
    OBVIOUS
  <2>1. CASE DrawPresented
    <3>1. /\ buffer_strategy \in ImageCounts \cup {0}
          /\ current_frame \in Nat /\ current_frame < buffer_strategy
      BY <2>1 DEF TypeOK, DrawPresented, FrameIndexValid
    <3>2. buffer_strategy \in ImageCounts /\ buffer_strategy \in Nat \ {0}
      BY <3>1, ImageCountsAssumption
    <3>3. current_frame' < buffer_strategy
      BY <2>1, <3>1, <3>2 DEF DrawPresented, NextFrame
    <3>4. QED
      BY <3>2, <3>3
  <2>2. CASE ~DrawPresented
    BY <2>2, FrameMoves
  <2>3. QED
    BY <2>1, <2>2
<1>3. TypeOK /\ InSomeRange => FrameIndexInRange
  <2> SUFFICES ASSUME TypeOK, \A n \in ImageCounts : n <= buffer_strategy,
                      NEW m \in ImageCounts, current_frame < m
               PROVE  FrameIndexValid
    BY DEF FrameIndexInRange
  <2>1. /\ m \in Nat /\ m <= buffer_strategy
        /\ buffer_strategy \in Nat /\ current_frame \in Nat
    BY ImageCountsAssumption DEF TypeOK
  <2>2. QED
    BY <2>1 DEF FrameIndexValid
<1>4. QED
  BY <1>1, <1>2, <1>3, TypeCorrect, PTL DEF Spec

\* A recreation overwrites no live block but the array of command buffers.
THEOREM RecreationLeaks == Spec => OnlyCommandBuffersLeak
<1>1. Invariant /\ [Next]_vars =>
        [leaked' \ leaked \subseteq {"command_buffers"} \/ swapchain = "null"]_vars
  <2> SUFFICES ASSUME Invariant, Next, swapchain # "null"
               PROVE  leaked' \ leaked \subseteq {"command_buffers"}
    OBVIOUS
  <2> USE DEF presentVars
  <2>1. CASE VulkanInit
    BY <2>1 DEF VulkanInit, Invariant, TypeOK, HandleStates, Lifecycle,
                WhenLive, WhenDestroyed
  <2>2. CASE CreatePresentObjects
    <3>1. \A a \in FreedArrays : heap[a] = "freed"
      BY <2>2 DEF CreatePresentObjects, Invariant, TypeOK, HandleStates,
                  Lifecycle, WhenLive, WhenDestroyed
    <3>2. PICK S \in SUBSET Arrays : Malloc(S)
      BY <2>2 DEF CreatePresentObjects, SwapchainArrays, Arrays, FrameArrays
    <3>3. \A a \in Arrays : a = "command_buffers" \/ a \in FreedArrays
      BY DEF Arrays, FrameArrays, FreedArrays
    <3>4. QED
      BY <3>1, <3>2, <3>3 DEF Malloc
  <2>3. CASE ~VulkanInit /\ ~CreatePresentObjects
    <3>1. UNCHANGED leaked
      BY <2>3 DEF Next, Program, SwapchainFails, DestroyPresentObjects,
                  TeardownPresentObjects, DestroyObjects, DrawNothing,
                  DrawOutOfBounds, DrawImageUnset, DrawOutOfDate,
                  DrawPresented, EnterPump, HandleClose, LeavePump, LeaveLoop,
                  ResizeWindow, Terminated, Undefined, vars
    <3>2. QED
      BY <3>1
  <2>4. QED
    BY <2>1, <2>2, <2>3
<1>2. QED
  BY <1>1, InvariantHolds, PTL DEF Spec, OnlyCommandBuffersLeak

=============================================================================

--------------------------- MODULE PresentObjects ---------------------------
(***************************************************************************)
(* The life of the objects app.c needs to present: the swapchain with its  *)
(* images and views, and the per-frame command buffers, semaphores and     *)
(* fences.  They are created by vulkan_init, destroyed and created again   *)
(* whenever the surface goes out of date, left destroyed while the window  *)
(* has no area, and destroyed a last time by app_run.                      *)
(*                                                                         *)
(* The module follows the one thread of the program.  A call of draw_frame *)
(* is one step up to its outcome; FrameSync refines that step with the GPU *)
(* and the presentation engine.  The client area of the window belongs to  *)
(* the window system and may change between any two steps of the program.  *)
(***************************************************************************)
EXTENDS Naturals

CONSTANTS
  Extents,           \* the <<width, height>> pairs the client area can take
  ImageCounts,       \* the numbers of images a driver may give a swapchain
  SwapchainMayFail,  \* whether vkCreateSwapchainKHR may return an error
  AcquireMayFail     \* whether vkAcquireNextImageKHR may return an error
                     \* other than VK_ERROR_OUT_OF_DATE_KHR

ASSUME ExtentsAssumption == Extents \subseteq Nat \X Nat /\ Extents # {}
ASSUME ImageCountsAssumption ==
  ImageCounts \subseteq Nat \ {0} /\ ImageCounts # {}
ASSUME MayFailAssumption ==
  SwapchainMayFail \in BOOLEAN /\ AcquireMayFail \in BOOLEAN

VARIABLES
  pc,                 \* where the program is
  fault,              \* why its behaviour became undefined, "none" before
  client_rect,        \* the size GetClientRect would report now
  quit_to_desktop_requested,
  swapchain_extent,   \* <<swapchain_width, swapchain_height>>
  buffer_strategy,    \* length of every present-object array
  current_frame,
  swapchain,          \* the VkSwapchainKHR handle
  heap,               \* the state of the block each array pointer names
  leaked              \* arrays of which a live block was overwritten

presentVars == <<swapchain_extent, buffer_strategy, swapchain, heap, leaked>>
vars == <<pc, fault, client_rect, quit_to_desktop_requested, current_frame,
          presentVars>>

-----------------------------------------------------------------------------
(* State.                                                                  *)

ImageArrays == {"swapchain_images", "swapchain_image_views"}
SyncArrays == {"available_semaphores", "finished_semaphores", "fences"}
FrameArrays == SyncArrays \cup {"command_buffers"}
Arrays == ImageArrays \cup FrameArrays

\* Mutant: free(fences) forgotten.
FreedArrays_NoFences == ImageArrays \cup (SyncArrays \ {"fences"})

\* The arrays that vulkan_destroy_present_objects and app_run free.
FreedArrays == ImageArrays \cup SyncArrays

BlockStates == {"null", "live", "freed"}
HandleStates == {"null", "live", "destroyed"}
Faults == {"none", "frame_index", "image_index", "freed_objects", "swapchain"}
Terminal == {"done", "undefined"}
Labels ==
  {"init", "loop", "pump", "draw", "recreate", "create", "exit"} \cup Terminal

\* Mutant: && for ||.
IsEmpty_And(e) == e[1] = 0 /\ e[2] = 0

\* width <= 0 || height <= 0, of unsigned sizes
IsEmpty(e) == e[1] = 0 \/ e[2] = 0
\* width > 0 && height > 0
HasArea(e) == e[1] > 0 /\ e[2] > 0

Init ==
  /\ pc = "init"
  /\ fault = "none"
  /\ client_rect \in Extents
  /\ quit_to_desktop_requested = FALSE
  /\ swapchain_extent = <<0, 0>>
  /\ buffer_strategy = 0
  /\ current_frame = 0
  /\ swapchain = "null"
  /\ heap = [a \in Arrays |-> "null"]
  /\ leaked = {}

\* The program continues from here with no defined behaviour.
Undefined(why) ==
  /\ pc' = "undefined"
  /\ fault' = why
  /\ UNCHANGED <<client_rect, quit_to_desktop_requested, current_frame,
                 presentVars>>

-----------------------------------------------------------------------------
(* Creating and destroying the present objects.                            *)

\* The pointer variables of S receive fresh blocks.
Malloc(S) ==
  /\ heap' = [a \in Arrays |-> IF a \in S THEN "live" ELSE heap[a]]
  /\ leaked' = leaked \cup {a \in S : heap[a] = "live"}

\* Mutant: the size is recorded only after the early return for an empty one.
RecordedExtent_Late ==
  IF IsEmpty(client_rect) THEN swapchain_extent ELSE client_rect

\* swapchain_width and swapchain_height are set before the early return.
RecordedExtent == client_rect

\* Mutant: the arrays are given the requested count, one off the real one.
ArrayLengths_OffByOne == {n + 1 : n \in ImageCounts}

\* buffer_strategy is the count the driver chose.
ArrayLengths == ImageCounts

\* vulkan_create_swapchain, without its allocations: an empty size is
\* recorded and the rest of the function skipped.
vulkan_create_swapchain ==
  /\ swapchain_extent' = RecordedExtent
  /\ \/ /\ IsEmpty(client_rect)
        /\ UNCHANGED <<buffer_strategy, swapchain>>
     \/ /\ ~IsEmpty(client_rect)
        /\ buffer_strategy' \in ArrayLengths
        /\ swapchain' = "live"

SwapchainArrays == IF IsEmpty(client_rect) THEN {} ELSE ImageArrays

\* The end of vulkan_init: command buffers and sync objects are created
\* whether or not there is a swapchain.  Without one their number is zero, which
\* Vulkan does not allow for command buffers; that call is taken to make none.
VulkanInit ==
  /\ pc = "init"
  /\ vulkan_create_swapchain
  /\ Malloc(SwapchainArrays \cup FrameArrays)
  /\ pc' = "loop"
  /\ UNCHANGED <<fault, client_rect, quit_to_desktop_requested, current_frame>>

\* vulkan_create_present_objects, called with the old objects destroyed.
CreatePresentObjects ==
  /\ pc = "create"
  /\ vulkan_create_swapchain
  /\ Malloc(SwapchainArrays
              \cup (IF HasArea(swapchain_extent') THEN FrameArrays ELSE {}))
  /\ pc' = "loop"
  /\ UNCHANGED <<fault, client_rect, quit_to_desktop_requested, current_frame>>

\* The error of vkCreateSwapchainKHR is printed; the images of whatever the
\* handle now holds are queried all the same.
SwapchainFails ==
  /\ SwapchainMayFail
  /\ pc \in {"init", "create"}
  /\ ~IsEmpty(client_rect)
  /\ Undefined("swapchain")

\* The loop over buffer_strategy, vkDestroySwapchainKHR and the five frees.
\* Doing any of it to what is already destroyed is undefined.
DestroyObjects(next) ==
  \/ /\ \A a \in FreedArrays : heap[a] # "freed"
     /\ swapchain # "destroyed"
     /\ heap' = [a \in Arrays |-> IF a \in FreedArrays THEN "freed" ELSE heap[a]]
     /\ swapchain' = IF swapchain = "live" THEN "destroyed" ELSE swapchain
     /\ pc' = next
     /\ UNCHANGED <<fault, client_rect, quit_to_desktop_requested,
                    current_frame, swapchain_extent, buffer_strategy, leaked>>
  \/ /\ \/ \E a \in FreedArrays : heap[a] = "freed"
        \/ swapchain = "destroyed"
     /\ Undefined("freed_objects")

\* The first half of vulkan_recreate_present_objects.  current_frame keeps
\* its value.
DestroyPresentObjects == pc = "recreate" /\ DestroyObjects("create")

\* The teardown at the end of app_run.
TeardownPresentObjects == pc = "exit" /\ DestroyObjects("done")

-----------------------------------------------------------------------------
(* draw_frame, by outcome.                                                 *)

\* Mutant: the swapchain is left to the recreation path.
AfterDrawNothing_NoCreate == "loop"

AfterDrawNothing == IF HasArea(client_rect) THEN "create" ELSE "loop"

\* There is no swapchain to draw to: look whether there can be one again.
DrawNothing ==
  /\ pc = "draw"
  /\ IsEmpty(swapchain_extent)
  /\ pc' = AfterDrawNothing
  /\ UNCHANGED <<fault, client_rect, quit_to_desktop_requested, current_frame,
                 presentVars>>

\* draw_frame goes on to fences[current_frame].
Drawing == pc = "draw" /\ ~IsEmpty(swapchain_extent)
FrameIndexValid == current_frame < buffer_strategy

DrawOutOfBounds ==
  /\ Drawing
  /\ ~FrameIndexValid
  /\ Undefined("frame_index")

\* An acquire error other than out-of-date leaves image_index unset.
DrawImageUnset ==
  /\ AcquireMayFail
  /\ Drawing
  /\ FrameIndexValid
  /\ Undefined("image_index")

\* Acquire or present reported the surface out of date or suboptimal.
DrawOutOfDate ==
  /\ Drawing
  /\ FrameIndexValid
  /\ pc' = "recreate"
  /\ UNCHANGED <<fault, client_rect, quit_to_desktop_requested, current_frame,
                 presentVars>>

\* Mutant: wraps one frame late.
NextFrame_LateWrap == (current_frame + 1) % (buffer_strategy + 1)

NextFrame == (current_frame + 1) % buffer_strategy

DrawPresented ==
  /\ Drawing
  /\ FrameIndexValid
  /\ current_frame' = NextFrame
  /\ pc' = "loop"
  /\ UNCHANGED <<fault, client_rect, quit_to_desktop_requested, presentVars>>

-----------------------------------------------------------------------------
(* begin_loop and the window.                                              *)

EnterPump ==
  /\ pc = "loop"
  /\ ~quit_to_desktop_requested
  /\ pc' = "pump"
  /\ UNCHANGED <<fault, client_rect, quit_to_desktop_requested, current_frame,
                 presentVars>>

\* A message is dispatched, and it is WM_CLOSE.
HandleClose ==
  /\ pc = "pump"
  /\ quit_to_desktop_requested' = TRUE
  /\ UNCHANGED <<pc, fault, client_rect, current_frame, presentVars>>

\* PeekMessage finds no more messages.  draw_frame follows even if WM_CLOSE was
\* handled.
LeavePump ==
  /\ pc = "pump"
  /\ pc' = "draw"
  /\ UNCHANGED <<fault, client_rect, quit_to_desktop_requested, current_frame,
                 presentVars>>

\* The loop ends and DestroyWindow is called.
LeaveLoop ==
  /\ pc = "loop"
  /\ quit_to_desktop_requested
  /\ pc' = "exit"
  /\ UNCHANGED <<fault, client_rect, quit_to_desktop_requested, current_frame,
                 presentVars>>

\* The user or the window system resizes, minimizes or restores the window.
ResizeWindow ==
  /\ pc \notin {"exit"} \cup Terminal
  /\ client_rect' \in Extents \ {client_rect}
  /\ UNCHANGED <<pc, fault, quit_to_desktop_requested, current_frame,
                 presentVars>>

Terminated ==
  /\ pc \in Terminal
  /\ UNCHANGED vars

Program ==
  \/ VulkanInit \/ CreatePresentObjects \/ SwapchainFails
  \/ DestroyPresentObjects \/ TeardownPresentObjects
  \/ DrawNothing \/ DrawOutOfBounds \/ DrawImageUnset
  \/ DrawOutOfDate \/ DrawPresented
  \/ EnterPump \/ LeavePump \/ LeaveLoop

Next == Program \/ HandleClose \/ ResizeWindow \/ Terminated

Spec == Init /\ [][Next]_vars

\* The operating system keeps scheduling the program's thread; nothing is
\* assumed of the user.
FairSpec == Spec /\ WF_vars(Program)

-----------------------------------------------------------------------------
(* Properties.                                                             *)

TypeOK ==
  /\ pc \in Labels
  /\ fault \in Faults
  /\ client_rect \in Extents
  /\ quit_to_desktop_requested \in BOOLEAN
  /\ swapchain_extent \in Extents \cup {<<0, 0>>}
  /\ buffer_strategy \in ImageCounts \cup {0}
  /\ current_frame \in Nat
  /\ swapchain \in HandleStates
  /\ heap \in [Arrays -> BlockStates]
  /\ leaked \in SUBSET Arrays

PresentObjectsLive ==
  /\ swapchain = "live"
  /\ \A a \in Arrays : heap[a] = "live"

\* draw_frame decides by swapchain_width and swapchain_height alone whether
\* it may use the present objects.  Whenever it goes past that test, or
\* vulkan_recreate_present_objects starts to destroy, all of them are live
\* and a swapchain with images is behind them.
DrawsOnlyWithLiveObjects ==
  Drawing \/ pc = "recreate" => PresentObjectsLive /\ buffer_strategy > 0

\* Recreation never finds its objects already destroyed.  The teardown in
\* app_run does exactly if the program is told to quit while the window has
\* no area and a swapchain existed before.
DoubleDestroyOnlyWhenQuitHidden ==
  /\ fault = "freed_objects" =>
       quit_to_desktop_requested /\ IsEmpty(swapchain_extent)
  /\ pc = "done" => HasArea(swapchain_extent) \/ swapchain = "null"

\* current_frame survives recreation.  It leaves the range of the arrays
\* only in the step that creates a swapchain of fewer images than the last.
FrameIndexLeftBehindOnlyByShrinking ==
  [][FrameIndexValid /\ ~FrameIndexValid' => buffer_strategy' < buffer_strategy]_vars

\* With a swapchain of the most images that any swapchain can have, draw_frame
\* does not index the per-frame arrays out of their bounds, through however many
\* recreations and minimizations it keeps current_frame.  If all swapchains have
\* the same number of images, each is such a swapchain.
FrameIndexInRange ==
  Drawing /\ (\A n \in ImageCounts : n <= buffer_strategy) => FrameIndexValid

\* Recreation loses no block but the array of command buffers.  Another array
\* is lost only where the first swapchain comes after vulkan_init, which has
\* then made empty sync-object arrays without one.
OnlyCommandBuffersLeak ==
  [][leaked' \ leaked \subseteq {"command_buffers"} \/ swapchain = "null"]_vars

\* app.c:539 on a window without area: "everything will have been destroyed
\* already".  What is destroyed already is not destroyed once more.
NothingDestroyedTwice == fault # "freed_objects"

\* However the window is resized, if it has an area from some time on then
\* the program keeps getting past the size test of draw_frame until it ends.
RestoredWindowIsDrawn ==
  <>[]HasArea(client_rect) => []<>(Drawing \/ pc \in Terminal)

=============================================================================

--------------------------- MODULE FrameSyncProofs ---------------------------
(***************************************************************************)
(* FrameSync, proved for every set of window sizes and of image counts and *)
(* for any number of failed submissions: it implements PresentObjects, and *)
(* the fence of a frame vouches for the semaphore that is acquired with.   *)
(***************************************************************************)
EXTENDS FrameSync, PresentObjectsProofs, SequenceTheorems

-----------------------------------------------------------------------------
(* The steps of PresentObjects within those of FrameSync.                  *)

\* A step of host, GPU or presentation engine is a step of the present objects'
\* life, or leaves all of its variables alone.
LEMMA FrameStep == [FrameNext]_allVars => [Next]_vars
<1> SUFFICES ASSUME [FrameNext]_allVars PROVE [Next]_vars
  OBVIOUS
<1>1. CASE FrameVulkanInit \/ FrameCreate \/ FrameDestroy \/ FrameTeardown
  BY <1>1 DEF FrameVulkanInit, FrameCreate, FrameDestroy, FrameTeardown, Next,
              Program
<1>2. CASE Around
  BY <1>2 DEF Around, Next, Program
<1>3. CASE WaitForFence \/ (\E i \in Images : AcquireImage(i)) \/ RecordAndSubmit
  BY <1>3 DEF WaitForFence, AcquireImage, RecordAndSubmit
<1>4. CASE QueuePresent \/ WaitIdle
  BY <1>4 DEF QueuePresent, WaitIdle, Next, Program
<1>5. CASE AcquireOutOfDate \/ AcquireFails \/ SubmitFails
  BY <1>5 DEF AcquireOutOfDate, AcquireFails, SubmitFails, Next, Program
<1>6. CASE ClearImage \/ CompleteSubmission \/ Signal \/ PresentImage
  BY <1>6 DEF ClearImage, CompleteSubmission, Signal, SignalAvailable,
              PresentImage
<1>7. CASE HandleClose \/ ResizeWindow \/ Terminated
  BY <1>7 DEF Next
<1>8. CASE UNCHANGED allVars
  BY <1>8 DEF allVars
<1>9. QED
  BY <1>1, <1>2, <1>3, <1>4, <1>5, <1>6, <1>7, <1>8 DEF FrameNext, Host

\* Whatever is proved of the present objects holds with draw_frame taken apart
\* and with the GPU and the presentation engine at work.
THEOREM FrameSyncImplementsPresentObjects == FrameSpec => Spec
<1>1. FrameInit => Init
  BY DEF FrameInit
<1>2. QED
  BY <1>1, FrameStep, PTL DEF FrameSpec, Spec

\* The invariant of PresentObjects, of FrameSync.
LEMMA FrameInvariant == FrameSpec => []Invariant
BY FrameSyncImplementsPresentObjects, InvariantHolds, PTL

-----------------------------------------------------------------------------
(* The inductive invariant.  A signaled fence says that nothing of the     *)
(* frame is left on the GPU and that its available semaphore was waited    *)
(* for.  An unsignaled one is explained by a submission, by a submission   *)
(* that failed, or by where the host is.                                   *)

Submitted(f) == \E k \in DOMAIN gpu_queue : gpu_queue[k].frame = f

SyncTypes ==
  /\ fences \in [Frames -> {"signaled", "unsignaled"}]
  /\ available_semaphores \in [Frames -> {"signaled", "unsignaled", "pending"}]
  /\ gpu_queue \in Seq(Submissions)
  /\ unsubmitted \subseteq Frames
  /\ pc = "init" => buffer_strategy = 0
  /\ image_index \in Nat

\* draw_frame is within its walk only when it draws.
Place ==
  /\ step # "wait" => pc \in {"draw", "undefined"}
  /\ pc = "draw" /\ step # "wait" => Drawing /\ FrameIndexValid
  /\ pc = "recreate" \/ swapchain # "live" => gpu_queue = <<>>

\* The frames on the GPU are all different ones.
QueueOrder ==
  /\ \A k \in DOMAIN gpu_queue :
       gpu_queue[k].frame \in Frames \ unsubmitted
  /\ \A j, k \in DOMAIN gpu_queue :
       gpu_queue[j].frame = gpu_queue[k].frame => j = k

Signaled ==
  \A f \in Frames : fences[f] = "signaled" =>
    /\ available_semaphores[f] = "unsignaled"
    /\ ~Submitted(f)
    /\ f \notin unsubmitted

\* The frame is between the reset of its fence and its submission, or the
\* recreation put an end to that.
Reset(f) ==
  /\ f = current_frame
  /\ step \in {"acquire", "record", "idle"} \/ pc = "recreate"

Unsignaled ==
  \A f \in Frames : fences[f] = "unsignaled" =>
    Submitted(f) \/ f \in unsubmitted \/ Reset(f)

\* What the host knows of current_frame between reset and submission.
Held ==
  /\ step \in {"acquire", "record"} =>
       /\ fences[current_frame] = "unsignaled"
       /\ ~Submitted(current_frame)
       /\ current_frame \notin unsubmitted
  /\ step = "acquire" => available_semaphores[current_frame] = "unsignaled"

FenceInv ==
  SyncTypes /\ Place /\ QueueOrder /\ Signaled /\ Unsignaled /\ Held

-----------------------------------------------------------------------------
(* Lemmas.                                                                 *)

\* draw_frame, past its size test, has the frame it indexes.
LEMMA CurrentFrameIsFrame ==
  Invariant /\ Drawing /\ FrameIndexValid =>
    swapchain = "live" /\ current_frame \in Frames
<1> SUFFICES ASSUME Invariant, Drawing, FrameIndexValid
             PROVE  swapchain = "live" /\ current_frame \in Frames
  OBVIOUS
<1>1. swapchain \in {"null", "live", "destroyed"}
  BY DEF Invariant, TypeOK, HandleStates
<1>2. swapchain = "live"
  BY <1>1 DEF Invariant, Lifecycle, WhenNull, WhenDestroyed, Drawing
<1>3. buffer_strategy \in Nat /\ current_frame \in Nat
  BY ImageCountsAssumption DEF Invariant, TypeOK
<1>4. QED
  BY <1>2, <1>3 DEF Frames, FrameIndexValid

LEMMA FenceInit == FrameInit => FenceInv
<1> SUFFICES ASSUME FrameInit PROVE FenceInv
  OBVIOUS
<1>1. /\ Frames = {} /\ gpu_queue = <<>> /\ unsubmitted = {}
      /\ fences = NoFrames /\ available_semaphores = NoFrames
      /\ step = "wait" /\ pc = "init" /\ buffer_strategy = 0 /\ image_index = 0
  BY DEF FrameInit, Init, Frames
<1>2. NoFrames \in [{} -> {"signaled", "unsignaled"}]
      /\ NoFrames \in [{} -> {"signaled", "unsignaled", "pending"}]
  BY DEF NoFrames
<1>3. SyncTypes
  BY <1>1, <1>2 DEF SyncTypes
<1>4. QED
  BY <1>1, <1>3 DEF FenceInv, Place, QueueOrder, Signaled, Unsignaled, Reset, Held

\* Where there are no frames, and nothing on the GPU, there is nothing to show.
LEMMA NoFramesLeft ==
  ASSUME swapchain' # "live", pc' # "init", step' = "wait",
         fences' = NoFrames, available_semaphores' = NoFrames,
         gpu_queue' = <<>>, unsubmitted' = {}, image_index' \in Nat
  PROVE  FenceInv'
<1>1. Frames' = {}
  BY DEF Frames
<1>2. /\ NoFrames \in [{} -> {"signaled", "unsignaled"}]
      /\ NoFrames \in [{} -> {"signaled", "unsignaled", "pending"}]
  BY DEF NoFrames
<1>3. SyncTypes'
  BY <1>1, <1>2 DEF SyncTypes
<1>4. QED
  BY <1>1, <1>3 DEF FenceInv, Place, QueueOrder, Signaled, Unsignaled, Reset, Held

\* New sync objects make the invariant true.
LEMMA NewFrames ==
  ASSUME CreateSyncObjects, Frames' = CreatedFrames(buffer_strategy'),
         pc' = "loop", step' = "wait", gpu_queue' = <<>>, image_index' \in Nat
  PROVE  FenceInv'
<1>1. /\ fences' = [f \in Frames' |-> "signaled"]
      /\ available_semaphores' = [f \in Frames' |-> "unsignaled"]
      /\ unsubmitted' = {}
  BY DEF CreateSyncObjects, FenceCreated
<1>2. SyncTypes'
  BY <1>1 DEF SyncTypes
<1>3. QED
  BY <1>1, <1>2 DEF FenceInv, Place, QueueOrder, Signaled, Unsignaled, Reset, Held,
                    Submitted

\* A step that leaves the frames, the fences, the semaphores of the acquires and
\* the GPU alone keeps the invariant if it leaves draw_frame where it was.
LEMMA SyncUnchanged ==
  ASSUME FenceInv, UNCHANGED <<swapchain, buffer_strategy, current_frame, step,
                               image_index, fences, available_semaphores,
                               unsubmitted, gpu_queue>>,
         pc' = "init" => pc = "init", pc' = "recreate" <=> pc = "recreate",
         \/ step = "wait"
         \/ pc' = "undefined"
         \/ pc' = pc /\ UNCHANGED swapchain_extent
  PROVE  FenceInv'
<1>1. Frames' = Frames /\ \A f : Submitted(f)' <=> Submitted(f)
  BY DEF Frames, Submitted
<1>2. SyncTypes' /\ QueueOrder' /\ Signaled' /\ Unsignaled' /\ Held'
  BY <1>1 DEF FenceInv, SyncTypes, QueueOrder, Signaled, Unsignaled, Reset, Held
<1>3. Place'
  BY DEF FenceInv, Place, Drawing, FrameIndexValid
<1>4. QED
  BY <1>2, <1>3 DEF FenceInv

-----------------------------------------------------------------------------
(* The steps.                                                              *)

\* Creating and destroying.
LEMMA ObjectsStep ==
  ASSUME Invariant, Invariant', FenceInv,
         FrameVulkanInit \/ FrameCreate \/ FrameDestroy \/ FrameTeardown
  PROVE  FenceInv'
<1>1. /\ buffer_strategy' \in Nat /\ image_index \in Nat
      /\ swapchain \in HandleStates
  BY ImageCountsAssumption DEF Invariant, TypeOK, FenceInv, SyncTypes
<1>2. CASE FrameVulkanInit
  <2>1. /\ pc = "init" /\ pc' = "loop" /\ step = "wait" /\ step' = "wait"
        /\ CreateSyncObjects /\ vulkan_create_swapchain
        /\ UNCHANGED <<image_index, gpu_queue>>
    BY <1>2 DEF FrameVulkanInit, VulkanInit, hostVars, queueVars, FenceInv, Place
  <2>2. swapchain # "live" /\ gpu_queue = <<>> /\ buffer_strategy = 0
    BY <2>1 DEF Invariant, Lifecycle, WhenLive, FenceInv, Place, SyncTypes
  <2>3. Frames' = CreatedFrames(buffer_strategy')
    BY <1>1, <2>1, <2>2 DEF vulkan_create_swapchain, Frames, CreatedFrames
  <2>4. QED
    BY <1>1, <2>1, <2>2, <2>3, NewFrames
<1>3. CASE FrameCreate
  <2>1. /\ pc = "create" /\ pc' = "loop" /\ step = "wait" /\ step' = "wait"
        /\ vulkan_create_swapchain
        /\ swapchain_extent' = client_rect
        /\ UNCHANGED <<image_index, gpu_queue, current_frame>>
    BY <1>3 DEF FrameCreate, CreatePresentObjects, hostVars, queueVars, FenceInv,
                Place, vulkan_create_swapchain, RecordedExtent
  <2>2. swapchain # "live" /\ gpu_queue = <<>>
    BY <2>1 DEF Invariant, Lifecycle, WhenLive, FenceInv, Place
  <2>3. client_rect \in Nat \X Nat
    BY ExtentsArePairs DEF Invariant
  <2>4. CASE IsEmpty(client_rect)
    <3>1. ~HasArea(swapchain_extent')
      BY <2>1, <2>3, <2>4, SizeTests
    <3>2. /\ UNCHANGED <<fences, available_semaphores, unsubmitted>>
          /\ UNCHANGED <<swapchain, buffer_strategy>>
      BY <1>3, <2>1, <2>3, <2>4, <3>1, SizeTests
      DEF FrameCreate, syncVars, vulkan_create_swapchain
    <3>3. /\ UNCHANGED <<swapchain, buffer_strategy, current_frame, step,
                         image_index, fences, available_semaphores,
                         unsubmitted, gpu_queue>>
          /\ pc' = "init" => pc = "init"
          /\ pc' = "recreate" <=> pc = "recreate"
          /\ step = "wait"
      BY <2>1, <3>2
    <3>4. QED
      BY <3>3, SyncUnchanged
  <2>5. CASE ~IsEmpty(client_rect)
    <3>1. HasArea(swapchain_extent')
      BY <2>1, <2>3, <2>5, SizeTests
    <3>2. CreateSyncObjects
      BY <1>3, <3>1 DEF FrameCreate
    <3>3. Frames' = CreatedFrames(buffer_strategy')
      BY <2>1, <2>5 DEF vulkan_create_swapchain, Frames, CreatedFrames
    <3>4. QED
      BY <1>1, <2>1, <2>2, <3>2, <3>3, NewFrames
  <2>6. QED
    BY <2>4, <2>5
<1>4. CASE FrameDestroy
  <2>1. pc = "recreate" /\ step = "wait" /\ gpu_queue = <<>>
    BY <1>4 DEF FrameDestroy, DestroyPresentObjects, FenceInv, Place
  <2>2. swapchain = "live" /\ \A a \in FreedArrays : heap[a] = "live"
    BY <1>1, <2>1 DEF Invariant, HandleStates, Lifecycle, WhenNull, WhenLive,
                      WhenDestroyed, FreedArrays, Arrays, FrameArrays
  <2>3. swapchain' = "destroyed" /\ pc' = "create"
    BY <1>4, <2>2 DEF FrameDestroy, DestroyPresentObjects, DestroyObjects
  <2>4. QED
    BY <1>1, <1>4, <2>1, <2>3, NoFramesLeft
    DEF FrameDestroy, SyncObjectsGone, hostVars
<1>5. CASE FrameTeardown
  <2>1. /\ pc = "exit" /\ step = "wait" /\ gpu_queue = <<>>
        /\ UNCHANGED <<step, image_index>>
    BY <1>5 DEF FrameTeardown, TeardownPresentObjects, DeviceIdle, hostVars,
                FenceInv, Place
  <2>2. CASE pc' = "done"
    <3>1. swapchain' # "live"
      BY <1>5, <2>2 DEF FrameTeardown, TeardownPresentObjects, DestroyObjects,
                        Undefined
    <3>2. QED
      BY <1>1, <1>5, <2>1, <2>2, <3>1, NoFramesLeft
      DEF FrameTeardown, SyncObjectsGone
  <2>3. CASE pc' # "done"
    <3>1. Undefined("freed_objects") /\ UNCHANGED <<syncVars, queueVars>>
      BY <1>5, <2>3 DEF FrameTeardown, TeardownPresentObjects, DestroyObjects
    <3>2. QED
      BY <2>1, <3>1, SyncUnchanged DEF Undefined, presentVars, syncVars, queueVars
  <2>4. QED
    BY <2>2, <2>3
<1>6. QED
  BY <1>2, <1>3, <1>4, <1>5

\* The program around draw_frame, the window, the presentation of images, and
\* steps that do not return from an acquire.
LEMMA AroundStep ==
  ASSUME FenceInv,
         \/ Around \/ AcquireFails \/ PresentImage
         \/ (HandleClose \/ ResizeWindow \/ Terminated) /\ UNCHANGED frameVars
         \/ UNCHANGED allVars
  PROVE  FenceInv'
<1> USE DEF frameVars, hostVars, syncVars, queueVars, presentVars
<1>1. CASE Around
  <2>1. /\ UNCHANGED frameVars
        /\ UNCHANGED <<swapchain, buffer_strategy, current_frame>>
    BY <1>1 DEF Around, DrawNothing, DrawOutOfBounds, SwapchainFails, Undefined,
                EnterPump, LeavePump, LeaveLoop
  <2>2. /\ pc' = "init" => pc = "init"
        /\ pc' # "recreate" /\ pc # "recreate"
        /\ step = "wait" \/ pc' = "undefined"
    BY <1>1 DEF Around, DrawNothing, AfterDrawNothing, DrawOutOfBounds,
                SwapchainFails, Undefined, EnterPump, LeavePump, LeaveLoop,
                FenceInv, Place, Drawing
  <2>3. UNCHANGED <<swapchain, buffer_strategy, current_frame, step,
                    image_index, fences, available_semaphores,
                    unsubmitted, gpu_queue>>
    BY <2>1
  <2>4. QED
    BY <2>2, <2>3, SyncUnchanged
<1>2. CASE AcquireFails
  BY <1>2, SyncUnchanged DEF AcquireFails, DrawImageUnset, Drawing, Undefined
<1>3. CASE PresentImage
  BY <1>3, SyncUnchanged DEF PresentImage, vars
<1>4. CASE (HandleClose \/ ResizeWindow \/ Terminated) /\ UNCHANGED frameVars
  BY <1>4, SyncUnchanged DEF HandleClose, ResizeWindow, Terminated, vars
<1>5. CASE UNCHANGED allVars
  BY <1>5, SyncUnchanged DEF allVars, vars
<1>6. QED
  BY <1>1, <1>2, <1>3, <1>4, <1>5

\* draw_frame up to the acquire.
LEMMA AcquireStep ==
  ASSUME Invariant, FenceInv,
         WaitForFence \/ (\E i \in Images : AcquireImage(i)) \/ AcquireOutOfDate
  PROVE  FenceInv'
<1>1. /\ Drawing /\ FrameIndexValid /\ pc = "draw"
      /\ step \in {"wait", "acquire"}
      /\ UNCHANGED vars /\ UNCHANGED <<unsubmitted, gpu_queue>>
  BY DEF WaitForFence, AcquireImage, AcquireOutOfDate, At, Drawing, syncVars,
         queueVars
<1>2. current_frame \in Frames /\ swapchain = "live"
  BY <1>1, CurrentFrameIsFrame
<1>3. /\ Frames' = Frames /\ \A f : Submitted(f)' <=> Submitted(f)
      /\ UNCHANGED <<pc, current_frame, swapchain, buffer_strategy>>
      /\ Drawing' /\ FrameIndexValid'
  BY <1>1 DEF vars, presentVars, Frames, Submitted, Drawing, FrameIndexValid
<1>4. QueueOrder' /\ Place'
  BY <1>1, <1>2, <1>3 DEF FenceInv, QueueOrder, Place
<1>5. CASE WaitForFence
  <2>1. /\ fences[current_frame] = "signaled"
        /\ step = "wait" /\ step' = "acquire"
        /\ fences' = [fences EXCEPT ![current_frame] = "unsignaled"]
        /\ UNCHANGED <<image_index, available_semaphores>>
    BY <1>5 DEF WaitForFence, FenceWaited, At
  <2>2. SyncTypes'
    BY <1>1, <1>3, <2>1 DEF FenceInv, SyncTypes
  <2>3. /\ fences'[current_frame] = "unsignaled"
        /\ \A f \in Frames \ {current_frame} : fences'[f] = fences[f]
    BY <1>2, <2>1 DEF FenceInv, SyncTypes
  <2>4. Signaled' /\ Unsignaled'
    BY <1>1, <1>3, <2>1, <2>3 DEF FenceInv, Signaled, Unsignaled, Reset
  <2>5. Held'
    BY <1>1, <1>2, <1>3, <2>1, <2>3 DEF FenceInv, Signaled, Held
  <2>6. QED
    BY <1>4, <2>2, <2>4, <2>5 DEF FenceInv
<1>6. CASE \E i \in Images : AcquireImage(i)
  <2>1. PICK i \in Images : AcquireImage(i)
    BY <1>6
  <2>2. /\ step = "acquire" /\ step' \in {"record", "idle"} /\ image_index' = i
        /\ available_semaphores' =
             [available_semaphores EXCEPT ![current_frame] = "pending"]
        /\ fences' = fences
    BY <2>1 DEF AcquireImage, At
  <2>3. SyncTypes'
    <3>1. i \in Nat
      BY ImageCountsAssumption DEF Images, Invariant, TypeOK
    <3>2. QED
      BY <1>1, <1>3, <2>2, <3>1 DEF FenceInv, SyncTypes
  <2>4. \A f \in Frames \ {current_frame} :
          available_semaphores'[f] = available_semaphores[f]
    BY <2>2 DEF FenceInv, SyncTypes
  <2>5. fences[current_frame] = "unsignaled"
    BY <2>2 DEF FenceInv, Held
  <2>6. Signaled' /\ Unsignaled' /\ Held'
    BY <1>1, <1>3, <2>2, <2>4, <2>5
    DEF FenceInv, Signaled, Unsignaled, Reset, Held
  <2>7. QED
    BY <1>4, <2>3, <2>6 DEF FenceInv
<1>7. CASE AcquireOutOfDate
  <2>1. /\ step = "acquire" /\ step' = "idle"
        /\ UNCHANGED <<image_index, fences, available_semaphores>>
    BY <1>7 DEF AcquireOutOfDate, AfterOutOfDate, At, syncVars
  <2>2. SyncTypes' /\ Signaled' /\ Unsignaled' /\ Held'
    BY <1>1, <1>3, <2>1
    DEF FenceInv, SyncTypes, Signaled, Unsignaled, Reset, Held
  <2>3. QED
    BY <1>4, <2>2 DEF FenceInv
<1>8. QED
  BY <1>5, <1>6, <1>7

\* The submission, successful or not.
LEMMA SubmitStep ==
  ASSUME Invariant, FenceInv, RecordAndSubmit \/ SubmitFails
  PROVE  FenceInv'
<1>1. /\ Drawing /\ FrameIndexValid /\ pc = "draw"
      /\ step = "record" /\ step' = "present"
      /\ UNCHANGED vars
      /\ UNCHANGED <<image_index, fences, available_semaphores>>
  BY DEF RecordAndSubmit, SubmitFails, At, Drawing, syncVars
<1>2. current_frame \in Frames /\ swapchain = "live"
  BY <1>1, CurrentFrameIsFrame
<1>3. /\ Frames' = Frames
      /\ UNCHANGED <<pc, current_frame, swapchain, buffer_strategy>>
      /\ Drawing' /\ FrameIndexValid'
  BY <1>1 DEF vars, presentVars, Frames, Drawing, FrameIndexValid
<1>4. /\ fences[current_frame] = "unsignaled"
      /\ ~Submitted(current_frame) /\ current_frame \notin unsubmitted
  BY <1>1 DEF FenceInv, Held
<1>5. Place' /\ Held'
  BY <1>1, <1>2, <1>3 DEF Place, Held
<1>6. CASE RecordAndSubmit
  <2> DEFINE e == [frame |-> current_frame, image |-> image_index,
                   cleared |-> FALSE]
  <2>1. gpu_queue' = Append(gpu_queue, e) /\ unsubmitted' = unsubmitted
    BY <1>6 DEF RecordAndSubmit, SubmittedFrame, syncVars
  <2>2. e \in Submissions /\ e.frame = current_frame
    BY DEF Submissions, FenceInv, SyncTypes, Invariant, TypeOK
  <2> HIDE DEF e
  <2>3. /\ gpu_queue' \in Seq(Submissions)
        /\ DOMAIN gpu_queue' = 1 .. Len(gpu_queue) + 1
        /\ DOMAIN gpu_queue = 1 .. Len(gpu_queue) /\ Len(gpu_queue) \in Nat
        /\ \A k \in DOMAIN gpu_queue : gpu_queue'[k] = gpu_queue[k]
        /\ gpu_queue'[Len(gpu_queue) + 1].frame = current_frame
    BY <2>1, <2>2 DEF FenceInv, SyncTypes
  <2>4. \A f : Submitted(f)' <=> Submitted(f) \/ f = current_frame
    BY <2>3 DEF Submitted
  <2>5. SyncTypes'
    BY <1>1, <1>3, <2>1, <2>3 DEF FenceInv, SyncTypes
  <2>6. QueueOrder'
    <3>1. ASSUME NEW k \in DOMAIN gpu_queue'
          PROVE  gpu_queue'[k].frame \in Frames' \ unsubmitted'
      BY <1>2, <1>3, <1>4, <2>1, <2>3 DEF FenceInv, QueueOrder
    <3>2. \A k \in DOMAIN gpu_queue : gpu_queue[k].frame # current_frame
      BY <1>4 DEF Submitted
    <3>3. ASSUME NEW j \in DOMAIN gpu_queue', NEW k \in DOMAIN gpu_queue',
                 gpu_queue'[j].frame = gpu_queue'[k].frame
          PROVE  j = k
      <4>1. CASE j \in DOMAIN gpu_queue /\ k \in DOMAIN gpu_queue
        BY <2>3, <3>3, <4>1 DEF FenceInv, QueueOrder
      <4>2. CASE j \notin DOMAIN gpu_queue \/ k \notin DOMAIN gpu_queue
        BY <2>3, <3>2, <3>3, <4>2
      <4>3. QED
        BY <4>1, <4>2
    <3>4. QED
      BY <3>1, <3>3 DEF QueueOrder
  <2>7. Signaled' /\ Unsignaled'
    BY <1>1, <1>3, <1>4, <2>1, <2>4 DEF FenceInv, Signaled, Unsignaled, Reset
  <2>8. QED
    BY <1>5, <2>5, <2>6, <2>7 DEF FenceInv
<1>7. CASE SubmitFails
  <2>1. /\ unsubmitted' = unsubmitted \cup {current_frame}
        /\ gpu_queue' = gpu_queue
    BY <1>7 DEF SubmitFails, queueVars
  <2>2. \A f : Submitted(f)' <=> Submitted(f)
    BY <2>1 DEF Submitted
  <2>3. SyncTypes'
    BY <1>1, <1>2, <1>3, <2>1 DEF FenceInv, SyncTypes
  <2>4. QueueOrder'
    BY <1>3, <1>4, <2>1 DEF FenceInv, QueueOrder, Submitted
  <2>5. Signaled' /\ Unsignaled'
    BY <1>1, <1>3, <1>4, <2>1, <2>2 DEF FenceInv, Signaled, Unsignaled, Reset
  <2>6. QED
    BY <1>5, <2>3, <2>4, <2>5 DEF FenceInv
<1>8. QED
  BY <1>6, <1>7

\* The present, and the way to the recreation.
LEMMA PresentStep ==
  ASSUME Invariant, FenceInv, QueuePresent \/ WaitIdle
  PROVE  FenceInv'
<1>1. /\ Drawing /\ FrameIndexValid /\ pc = "draw"
      /\ UNCHANGED <<image_index, fences, available_semaphores, unsubmitted,
                     gpu_queue>>
  BY DEF QueuePresent, WaitIdle, At, Drawing, syncVars, queueVars
<1>2. UNCHANGED <<swapchain, buffer_strategy>>
  BY DEF QueuePresent, WaitIdle, DrawPresented, DrawOutOfDate, vars, presentVars
<1>3. swapchain = "live"
  BY <1>1, CurrentFrameIsFrame
<1>4. Frames' = Frames /\ \A f : Submitted(f)' <=> Submitted(f)
  BY <1>1, <1>2 DEF Frames, Submitted
<1>5. pc' # "init" /\ SyncTypes' /\ QueueOrder' /\ Signaled'
  <2>1. pc' # "init"
    BY <1>1 DEF QueuePresent, WaitIdle, DrawPresented, DrawOutOfDate, vars
  <2>2. QED
    BY <1>1, <1>4, <2>1 DEF FenceInv, SyncTypes, QueueOrder, Signaled
<1>6. CASE QueuePresent
  <2>1. step = "present"
    BY <1>6 DEF QueuePresent, At
  <2>2. \A f \in Frames : fences[f] = "unsignaled" =>
          Submitted(f) \/ f \in unsubmitted
    BY <1>1, <2>1 DEF FenceInv, Unsignaled, Reset
  <2>3. Unsignaled'
    BY <1>1, <1>4, <2>2 DEF Unsignaled, Reset
  <2>4. \/ step' = "wait" /\ pc' = "loop"
        \/ step' = "idle" /\ UNCHANGED vars
    BY <1>6 DEF QueuePresent, DrawPresented
  <2>5. Held'
    BY <2>4 DEF Held
  <2>6. Place'
    BY <1>1, <1>2, <1>3, <2>4
    DEF Place, vars, presentVars, Drawing, FrameIndexValid
  <2>7. QED
    BY <1>5, <2>3, <2>5, <2>6 DEF FenceInv
<1>7. CASE WaitIdle
  <2>1. /\ step = "idle" /\ step' = "wait" /\ pc' = "recreate"
        /\ gpu_queue' = <<>> /\ current_frame' = current_frame
    BY <1>1, <1>7 DEF WaitIdle, DeviceIdle, DrawOutOfDate, At
  <2>2. Unsignaled' /\ Held' /\ Place'
    BY <1>1, <1>4, <2>1 DEF FenceInv, Unsignaled, Reset, Held, Place
  <2>3. QED
    BY <1>5, <2>2 DEF FenceInv
<1>8. QED
  BY <1>6, <1>7

\* The commands of a submission.
LEMMA ClearStep == FenceInv /\ ClearImage => FenceInv'
<1> SUFFICES ASSUME FenceInv, ClearImage PROVE FenceInv'
  OBVIOUS
<1> DEFINE e == [frame |-> gpu_queue[1].frame, image |-> gpu_queue[1].image,
                 cleared |-> TRUE]
<1>1. /\ gpu_queue # <<>> /\ gpu_queue' = [gpu_queue EXCEPT ![1] = e]
      /\ UNCHANGED <<vars, hostVars, syncVars>>
  BY DEF ClearImage, CanClear
<1>2. /\ gpu_queue \in Seq(Submissions) /\ Len(gpu_queue) \in Nat \ {0}
      /\ DOMAIN gpu_queue = 1 .. Len(gpu_queue)
  BY <1>1 DEF FenceInv, SyncTypes
<1>3. e \in Submissions /\ e.frame = gpu_queue[1].frame
  <2>1. gpu_queue[1] \in Submissions
    BY <1>2
  <2>2. QED
    BY <2>1 DEF Submissions
<1> HIDE DEF e
<1>4. /\ gpu_queue' \in Seq(Submissions)
      /\ DOMAIN gpu_queue' = DOMAIN gpu_queue
      /\ \A k \in DOMAIN gpu_queue : gpu_queue'[k].frame = gpu_queue[k].frame
  BY <1>1, <1>2, <1>3, ExceptSeq
<1>5. /\ UNCHANGED <<pc, step, image_index, current_frame, swapchain,
                     buffer_strategy, swapchain_extent, fences,
                     available_semaphores, unsubmitted>>
      /\ Frames' = Frames
  BY <1>1 DEF vars, presentVars, hostVars, syncVars, Frames
<1>6. \A f : Submitted(f)' <=> Submitted(f)
  BY <1>4 DEF Submitted
<1>7. SyncTypes' /\ Signaled' /\ Unsignaled' /\ Held'
  BY <1>4, <1>5, <1>6 DEF FenceInv, SyncTypes, Signaled, Unsignaled, Reset, Held
<1>8. QueueOrder'
  BY <1>4, <1>5 DEF FenceInv, QueueOrder
<1>9. Place'
  BY <1>1, <1>5 DEF FenceInv, Place, Drawing, FrameIndexValid
<1>10. QED
  BY <1>7, <1>8, <1>9 DEF FenceInv

\* The end of a submission.
LEMMA CompleteStep == FenceInv /\ CompleteSubmission => FenceInv'
<1> SUFFICES ASSUME FenceInv, CompleteSubmission PROVE FenceInv'
  OBVIOUS
<1> DEFINE h == gpu_queue[1].frame
<1>1. /\ gpu_queue # <<>> /\ gpu_queue' = Tail(gpu_queue)
      /\ UNCHANGED <<vars, hostVars, unsubmitted>>
  BY DEF CompleteSubmission, CanComplete
<1>2. /\ gpu_queue \in Seq(Submissions) /\ Len(gpu_queue) \in Nat \ {0}
      /\ DOMAIN gpu_queue = 1 .. Len(gpu_queue)
  BY <1>1 DEF FenceInv, SyncTypes
<1>3. h \in Frames /\ h \notin unsubmitted
  BY <1>2 DEF FenceInv, QueueOrder
<1>4. Oldest.frame = h
  BY <1>2 DEF Oldest
<1> HIDE DEF h
<1>5. /\ fences' = [fences EXCEPT ![h] = "signaled"]
      /\ available_semaphores' = [available_semaphores EXCEPT ![h] = "unsignaled"]
  BY <1>4 DEF CompleteSubmission
<1>6. /\ gpu_queue' \in Seq(Submissions)
      /\ DOMAIN gpu_queue' = 1 .. Len(gpu_queue) - 1
      /\ \A k \in DOMAIN gpu_queue' : gpu_queue'[k] = gpu_queue[k + 1]
  BY <1>1, <1>2, HeadTailProperties
<1>7. \A f : Submitted(f)' <=> Submitted(f) /\ f # h
  <2>1. ASSUME NEW k \in DOMAIN gpu_queue'
        PROVE  k + 1 \in DOMAIN gpu_queue /\ gpu_queue[k + 1].frame # h
    <3>1. k + 1 \in DOMAIN gpu_queue /\ k + 1 # 1
      BY <1>2, <1>6
    <3>2. QED
      BY <1>2, <3>1 DEF FenceInv, QueueOrder, h
  <2>2. ASSUME NEW f, Submitted(f)' PROVE Submitted(f) /\ f # h
    BY <1>6, <2>1, <2>2 DEF Submitted
  <2>3. ASSUME NEW f, Submitted(f), f # h PROVE Submitted(f)'
    <3>1. PICK k \in DOMAIN gpu_queue : gpu_queue[k].frame = f
      BY <2>3 DEF Submitted
    <3>2. k - 1 \in DOMAIN gpu_queue' /\ gpu_queue'[k - 1] = gpu_queue[k]
      BY <1>2, <1>6, <2>3, <3>1 DEF h
    <3>3. QED
      BY <3>1, <3>2 DEF Submitted
  <2>4. QED
    BY <2>2, <2>3
<1>8. /\ UNCHANGED <<pc, step, image_index, current_frame, swapchain,
                     buffer_strategy, swapchain_extent, unsubmitted>>
      /\ Frames' = Frames
  BY <1>1 DEF vars, presentVars, hostVars, Frames
<1>9. /\ fences'[h] = "signaled" /\ available_semaphores'[h] = "unsignaled"
      /\ \A f \in Frames \ {h} :
           /\ fences'[f] = fences[f]
           /\ available_semaphores'[f] = available_semaphores[f]
  BY <1>3, <1>5 DEF FenceInv, SyncTypes
<1>10. SyncTypes'
  BY <1>5, <1>6, <1>8 DEF FenceInv, SyncTypes
<1>11. QueueOrder'
  <2>1. ASSUME NEW k \in DOMAIN gpu_queue' PROVE k + 1 \in DOMAIN gpu_queue
    BY <1>2, <1>6
  <2>2. ASSUME NEW j \in DOMAIN gpu_queue', NEW k \in DOMAIN gpu_queue',
               gpu_queue'[j].frame = gpu_queue'[k].frame
        PROVE  j = k
    <3>1. j + 1 = k + 1
      BY <1>6, <2>1, <2>2 DEF FenceInv, QueueOrder
    <3>2. QED
      BY <1>2, <1>6, <3>1
  <2>3. QED
    BY <1>6, <1>8, <2>1, <2>2 DEF FenceInv, QueueOrder
<1>12. Signaled' /\ Unsignaled'
  BY <1>3, <1>7, <1>8, <1>9 DEF FenceInv, Signaled, Unsignaled, Reset
<1>13. swapchain = "live"
  BY <1>3 DEF Frames
<1>14. Place'
  <2>1. pc # "recreate"
    BY <1>1 DEF FenceInv, Place
  <2>2. QED
    BY <1>8, <1>13, <2>1 DEF FenceInv, Place, Drawing, FrameIndexValid
<1>15. Held'
  <2>1. Submitted(h)
    BY <1>2 DEF Submitted, h
  <2> SUFFICES ASSUME step \in {"acquire", "record"} PROVE Held'
    BY <1>8 DEF Held
  <2>2. current_frame # h /\ fences[current_frame] = "unsignaled"
    BY <2>1 DEF FenceInv, Held
  <2>3. fences'[current_frame] = fences[current_frame]
        /\ available_semaphores'[current_frame] = available_semaphores[current_frame]
    BY <1>5, <2>2 DEF FenceInv, SyncTypes
  <2>4. QED
    BY <1>7, <1>8, <2>3 DEF FenceInv, Held
<1>16. QED
  BY <1>10, <1>11, <1>12, <1>14, <1>15 DEF FenceInv

\* The signal of an available semaphore.
LEMMA SignalStep == FenceInv /\ Signal => FenceInv'
<1> SUFFICES ASSUME FenceInv, NEW f \in Frames, SignalAvailable(f)
             PROVE  FenceInv'
  BY DEF Signal
<1>1. /\ available_semaphores[f] = "pending"
      /\ available_semaphores' = [available_semaphores EXCEPT ![f] = "signaled"]
      /\ UNCHANGED <<vars, hostVars, fences, unsubmitted, queueVars>>
  BY DEF SignalAvailable, CanSignal
<1>2. /\ UNCHANGED <<pc, step, image_index, current_frame, swapchain, fences,
                     buffer_strategy, swapchain_extent, unsubmitted, gpu_queue>>
      /\ Frames' = Frames /\ \A g : Submitted(g)' <=> Submitted(g)
  BY <1>1 DEF vars, presentVars, hostVars, queueVars, Frames, Submitted
<1>3. \A g \in Frames \ {f} : available_semaphores'[g] = available_semaphores[g]
  BY <1>1 DEF FenceInv, SyncTypes
<1>4. fences[f] # "signaled"
  BY <1>1 DEF FenceInv, Signaled
<1>5. SyncTypes' /\ QueueOrder' /\ Signaled' /\ Unsignaled'
  BY <1>1, <1>2, <1>3, <1>4
  DEF FenceInv, SyncTypes, QueueOrder, Signaled, Unsignaled, Reset
<1>6. Place'
  BY <1>2 DEF FenceInv, Place, Drawing, FrameIndexValid
<1>7. Held'
  <2>1. step = "acquire" =>
          available_semaphores'[current_frame] = available_semaphores[current_frame]
    BY <1>1 DEF FenceInv, Held, SyncTypes
  <2>2. QED
    BY <1>2, <2>1 DEF FenceInv, Held
<1>8. QED
  BY <1>5, <1>6, <1>7 DEF FenceInv

\* The inductive invariant is an invariant.
LEMMA FenceInvHolds == FrameSpec => []FenceInv
<1>1. Invariant /\ Invariant' /\ FenceInv /\ [FrameNext]_allVars => FenceInv'
  BY ObjectsStep, AroundStep, AcquireStep, SubmitStep, PresentStep, ClearStep,
     CompleteStep, SignalStep
  DEF FrameNext, Host
<1>2. QED
  BY <1>1, FenceInit, FrameInvariant, PTL DEF FrameSpec

-----------------------------------------------------------------------------
(* The types of what the presents need.                                    *)

PresentTypes ==
  /\ step \in Steps
  /\ finished_semaphores \in [Frames -> {"signaled", "unsignaled"}]
  /\ ahead \in [Frames -> Nat]
  /\ present_queue \in Seq(Presents)

LEMMA PresentTypesInit == FrameInit => PresentTypes
<1> SUFFICES ASSUME FrameInit PROVE PresentTypes
  OBVIOUS
<1>1. Frames = {}
  BY DEF FrameInit, Init, Frames
<1>2. NoFrames \in [{} -> {"signaled", "unsignaled"}] /\ NoFrames \in [{} -> Nat]
  BY DEF NoFrames
<1>3. QED
  BY <1>1, <1>2 DEF FrameInit, PresentTypes, Steps

\* Creating and destroying.
LEMMA ObjectsKeepTypes ==
  ASSUME Invariant, Invariant', FenceInv, PresentTypes,
         FrameVulkanInit \/ FrameCreate \/ FrameDestroy \/ FrameTeardown
  PROVE  PresentTypes'
<1>1. step' \in Steps
  BY DEF FrameVulkanInit, FrameCreate, FrameDestroy, FrameTeardown, hostVars,
         PresentTypes
<1>2. buffer_strategy' \in Nat
  BY ImageCountsAssumption DEF Invariant, TypeOK
<1>3. ASSUME CreateSyncObjects, Frames' = CreatedFrames(buffer_strategy'),
             UNCHANGED present_queue
      PROVE  PresentTypes'
  BY <1>1, <1>3 DEF CreateSyncObjects, PresentTypes
<1>4. ASSUME SyncObjectsGone, swapchain' # "live"
      PROVE  PresentTypes'
  <2>1. Frames' = {}
    BY <1>4 DEF Frames
  <2>2. NoFrames \in [{} -> {"signaled", "unsignaled"}] /\ NoFrames \in [{} -> Nat]
    BY DEF NoFrames
  <2>3. QED
    BY <1>1, <1>4, <2>1, <2>2 DEF SyncObjectsGone, PresentTypes
<1>5. ASSUME UNCHANGED <<syncVars, present_queue, swapchain, buffer_strategy>>
      PROVE  PresentTypes'
  BY <1>1, <1>5 DEF syncVars, PresentTypes, Frames
<1>6. CASE FrameVulkanInit
  <2>1. /\ pc = "init" /\ vulkan_create_swapchain /\ CreateSyncObjects
        /\ UNCHANGED present_queue
    BY <1>6 DEF FrameVulkanInit, VulkanInit, queueVars
  <2>2. swapchain # "live" /\ buffer_strategy = 0
    BY <2>1 DEF Invariant, Lifecycle, WhenLive, FenceInv, SyncTypes
  <2>3. Frames' = CreatedFrames(buffer_strategy')
    BY <1>2, <2>1, <2>2 DEF vulkan_create_swapchain, Frames, CreatedFrames
  <2>4. QED
    BY <1>3, <2>1, <2>3
<1>7. CASE FrameCreate
  <2>1. vulkan_create_swapchain /\ UNCHANGED present_queue
    BY <1>7 DEF FrameCreate, CreatePresentObjects, queueVars
  <2>2. swapchain_extent' = client_rect /\ client_rect \in Nat \X Nat
    BY <2>1, ExtentsArePairs DEF Invariant, vulkan_create_swapchain, RecordedExtent
  <2>3. CASE HasArea(client_rect)
    <3>1. CreateSyncObjects
      BY <1>7, <2>2, <2>3 DEF FrameCreate
    <3>2. Frames' = CreatedFrames(buffer_strategy')
      BY <2>1, <2>2, <2>3, SizeTests
      DEF vulkan_create_swapchain, Frames, CreatedFrames
    <3>3. QED
      BY <1>3, <2>1, <3>1, <3>2
  <2>4. CASE ~HasArea(client_rect)
    <3>1. UNCHANGED syncVars
      BY <1>7, <2>2, <2>4 DEF FrameCreate
    <3>2. UNCHANGED <<swapchain, buffer_strategy>>
      BY <2>1, <2>2, <2>4, SizeTests DEF vulkan_create_swapchain
    <3>3. QED
      BY <1>5, <2>1, <3>1, <3>2
  <2>5. QED
    BY <2>3, <2>4
<1>8. CASE FrameDestroy
  <2>1. pc = "recreate" /\ SyncObjectsGone
    BY <1>8 DEF FrameDestroy, DestroyPresentObjects
  <2>2. swapchain = "live" /\ \A a \in FreedArrays : heap[a] = "live"
    BY <2>1 DEF Invariant, TypeOK, HandleStates, Lifecycle, WhenNull, WhenLive,
                WhenDestroyed, FreedArrays, Arrays, FrameArrays
  <2>3. swapchain' = "destroyed"
    BY <1>8, <2>2 DEF FrameDestroy, DestroyPresentObjects, DestroyObjects
  <2>4. QED
    BY <1>4, <2>1, <2>3
<1>9. CASE FrameTeardown
  <2>1. CASE pc' = "done"
    <3>1. SyncObjectsGone /\ swapchain' # "live"
      BY <1>9, <2>1 DEF FrameTeardown, TeardownPresentObjects, DestroyObjects,
                        Undefined
    <3>2. QED
      BY <1>4, <3>1
  <2>2. CASE pc' # "done"
    <3>1. Undefined("freed_objects") /\ UNCHANGED <<syncVars, queueVars>>
      BY <1>9, <2>2 DEF FrameTeardown, TeardownPresentObjects, DestroyObjects
    <3>2. QED
      BY <1>5, <3>1 DEF Undefined, presentVars, queueVars
  <2>3. QED
    BY <2>1, <2>2
<1>10. QED
  BY <1>6, <1>7, <1>8, <1>9

\* All other steps, which keep the frames.
LEMMA OthersKeepTypes ==
  ASSUME Invariant, FenceInv, PresentTypes,
         \/ Around \/ WaitForFence \/ (\E i \in Images : AcquireImage(i))
         \/ RecordAndSubmit \/ QueuePresent \/ WaitIdle
         \/ AcquireOutOfDate \/ AcquireFails \/ SubmitFails
         \/ ClearImage \/ CompleteSubmission \/ Signal \/ PresentImage
         \/ (HandleClose \/ ResizeWindow \/ Terminated) /\ UNCHANGED frameVars
         \/ UNCHANGED allVars
  PROVE  PresentTypes'
<1> USE DEF PresentTypes, Steps, frameVars, hostVars, syncVars, queueVars
<1>1. Frames' = Frames
  BY DEF Around, DrawNothing, DrawOutOfBounds, SwapchainFails, Undefined,
         EnterPump, LeavePump, LeaveLoop, WaitForFence, AcquireImage,
         RecordAndSubmit, QueuePresent, DrawPresented, WaitIdle, DrawOutOfDate,
         AcquireOutOfDate, AcquireFails, DrawImageUnset, SubmitFails, ClearImage,
         CompleteSubmission, Signal, SignalAvailable, PresentImage, HandleClose,
         ResizeWindow, Terminated, allVars, vars, presentVars, Frames
<1>2. CASE Around \/ AcquireFails \/ ClearImage \/ Signal \/ WaitIdle
  BY <1>1, <1>2 DEF Around, AcquireFails, ClearImage, Signal, SignalAvailable,
                    WaitIdle
<1>3. CASE \/ (HandleClose \/ ResizeWindow \/ Terminated) /\ UNCHANGED frameVars
           \/ UNCHANGED allVars
  BY <1>1, <1>3 DEF allVars
<1>4. CASE WaitForFence \/ AcquireOutOfDate \/ RecordAndSubmit \/ SubmitFails
  BY <1>1, <1>4 DEF WaitForFence, AcquireOutOfDate, AfterOutOfDate,
                    RecordAndSubmit, SubmitFails
<1>5. CASE \E i \in Images : AcquireImage(i)
  <2>1. PICK i \in Images, k \in 0 .. Len(present_queue) :
          /\ ahead' = [ahead EXCEPT ![current_frame] = k]
          /\ step' \in {"record", "idle"}
          /\ UNCHANGED <<finished_semaphores, present_queue>>
    BY <1>5 DEF AcquireImage
  <2>2. k \in Nat
    OBVIOUS
  <2>3. QED
    BY <1>1, <2>1, <2>2
<1>6. CASE QueuePresent
  <2> DEFINE e == [frame |-> current_frame, image |-> image_index]
  <2>1. /\ present_queue' = Append(present_queue, e)
        /\ step' \in {"wait", "idle"}
        /\ UNCHANGED <<finished_semaphores, ahead>>
    BY <1>6 DEF QueuePresent, PresentedFrame
  <2>2. e \in Presents
    BY DEF Presents, FenceInv, SyncTypes, Invariant, TypeOK
  <2> HIDE DEF e
  <2>3. QED
    BY <1>1, <2>1, <2>2
<1>7. CASE CompleteSubmission
  BY <1>1, <1>7 DEF CompleteSubmission
<1>8. CASE PresentImage
  <2>1. /\ present_queue # <<>> /\ present_queue' = Tail(present_queue)
        /\ ahead' = [f \in Frames |-> IF ahead[f] > 0 THEN ahead[f] - 1 ELSE 0]
        /\ step' = step
    BY <1>8 DEF PresentImage, CanPresent
  <2>2. ahead' \in [Frames -> Nat]
    BY <2>1
  <2>3. finished_semaphores' \in [Frames -> {"signaled", "unsignaled"}]
    BY <1>8 DEF PresentImage
  <2>4. present_queue' \in Seq(Presents)
    BY <2>1, HeadTailProperties
  <2>5. QED
    BY <1>1, <2>1, <2>2, <2>3, <2>4
<1>9. QED
  BY <1>2, <1>3, <1>4, <1>5, <1>6, <1>7, <1>8

LEMMA PresentTypesHold == FrameSpec => []PresentTypes
<1>1. Invariant /\ Invariant' /\ FenceInv /\ PresentTypes /\ [FrameNext]_allVars
        => PresentTypes'
  BY ObjectsKeepTypes, OthersKeepTypes DEF FrameNext, Host
<1>2. QED
  BY <1>1, PresentTypesInit, FrameInvariant, FenceInvHolds, PTL DEF FrameSpec

-----------------------------------------------------------------------------
(* Theorems.                                                               *)

\* Whatever fails, the semaphore draw_frame acquires an image with is unsignaled
\* and no submission waits for it.
THEOREM AcquiresWithFreeSemaphore == FrameSpec => []AcquireSemaphoreFree
<1>1. FenceInv => AcquireSemaphoreFree
  BY DEF FenceInv, Held, Submitted, AcquireSemaphoreFree, At
<1>2. QED
  BY <1>1, FenceInvHolds, PTL

\* The fence draw_frame waits for is signaled, or a submission will signal it, or
\* the submission that should have failed.
THEOREM AwaitsSubmittedFence == FrameSpec => []AwaitedFenceWillBeSignaled
<1>1. Invariant /\ FenceInv => AwaitedFenceWillBeSignaled
  <2> SUFFICES ASSUME Invariant, FenceInv, At("wait"),
                      fences[current_frame] = "unsignaled"
               PROVE  Submitted(current_frame) \/ current_frame \in unsubmitted
    BY DEF AwaitedFenceWillBeSignaled, Submitted
  <2>1. current_frame \in Frames
    BY CurrentFrameIsFrame DEF At
  <2>2. QED
    BY <2>1 DEF FenceInv, Unsignaled, Reset, At, Drawing
<1>2. QED
  BY <1>1, FrameInvariant, FenceInvHolds, PTL

\* Fences and semaphores exist for the frames of the swapchain, and the queues
\* hold what draw_frame puts into them.
THEOREM FrameTypeCorrect == FrameSpec => []FrameTypeOK
<1>1. Invariant /\ FenceInv /\ PresentTypes => FrameTypeOK
  BY DEF Invariant, FenceInv, SyncTypes, PresentTypes, FrameTypeOK
<1>2. QED
  BY <1>1, FrameInvariant, FenceInvHolds, PresentTypesHold, PTL

=============================================================================

--------------------------- MODULE FrameQueueProofs ---------------------------
(***************************************************************************)
(* FrameSync, proved further: what the two queues of the frame loop hold,  *)
(* and what follows for the command buffers, the finished semaphores and   *)
(* the destruction of the objects.  FrameSync is shown to be a             *)
(* FramePipeline as long as no submission fails.                           *)
(***************************************************************************)
EXTENDS FrameSyncProofs, FiniteSetTheorems, FunctionTheorems

-----------------------------------------------------------------------------
(* What the queues hold.  A frame that is submitted is as good as          *)
(* presented: nothing but its present can follow.                          *)

Current == [frame |-> current_frame, image |-> image_index]

\* The presents in progress and the one that is about to be queued.
Pending ==
  IF step = "present" THEN Append(present_queue, Current) ELSE present_queue

\* The frames and images of the submissions in progress.
Queued ==
  [k \in DOMAIN gpu_queue |-> [frame |-> gpu_queue[k].frame,
                               image |-> gpu_queue[k].image]]

\* The present that is to be queued next will be of this frame, if the host is
\* not on its way to a recreation.
NextIndex == IF step = "present" THEN NextFrame ELSE current_frame
Settled == step # "idle" /\ pc # "recreate"

\* No swapchain, no presents.
PresentsNeedSwapchain == swapchain # "live" => Pending = <<>>

-----------------------------------------------------------------------------
(* What a step does to them.                                               *)

Lasting == <<swapchain, buffer_strategy, unsubmitted>>
Semaphores == <<available_semaphores, finished_semaphores, ahead>>

\* Nothing moves in the queues.
Rests ==
  /\ UNCHANGED <<Pending, Queued, Semaphores, Lasting>>
  /\ Settled' => Settled /\ NextIndex' = NextIndex
  /\ step' = "record" => step = "record" /\ UNCHANGED Current

\* The pipeline is empty: just created, or gone.
Empties ==
  /\ swapchain # "live" \/ swapchain' # "live"
  /\ Queued = <<>>
  /\ Pending' = <<>>
  /\ Queued' = <<>>
  /\ unsubmitted' = {}
  /\ \A f \in Frames' : /\ finished_semaphores'[f] = "unsignaled"
                        /\ available_semaphores'[f] = "unsignaled"
  /\ step' = "wait"

Acquires ==
  /\ Drawing /\ FrameIndexValid
  /\ step = "acquire"
  /\ step' \in {"record", "idle"}
  /\ image_index' \in Images
  /\ available_semaphores' = [available_semaphores EXCEPT ![current_frame] = "pending"]
  /\ \E k \in 0 .. Len(Pending) :
       /\ ahead' = [ahead EXCEPT ![current_frame] = k]
       /\ \A j \in DOMAIN Pending : Pending[j].image = image_index' => j <= k
  /\ UNCHANGED <<Pending, Queued, finished_semaphores, Lasting, pc, current_frame>>

\* A present is added at the end.
Adds ==
  /\ Drawing /\ FrameIndexValid
  /\ step = "record"
  /\ step' = "present"
  /\ Pending' = Append(Pending, Current)
  /\ UNCHANGED <<Semaphores, swapchain, buffer_strategy, pc, Current>>

Submits == Adds /\ Queued' = Append(Queued, Current) /\ UNCHANGED unsubmitted

\* The submission failed.
Fails == Adds /\ unsubmitted' # {} /\ UNCHANGED Queued

Completes ==
  /\ Queued # <<>>
  /\ Queued' = Tail(Queued)
  /\ CanComplete
  /\ available_semaphores' =
       [available_semaphores EXCEPT ![Queued[1].frame] = "unsignaled"]
  /\ finished_semaphores' =
       [finished_semaphores EXCEPT ![Queued[1].frame] = "signaled"]
  /\ UNCHANGED <<Pending, ahead, Lasting, pc, step, Current>>

Signals ==
  /\ \E f \in Frames :
       /\ ahead[f] = 0
       /\ available_semaphores' = [available_semaphores EXCEPT ![f] = "signaled"]
  /\ UNCHANGED <<Pending, Queued, finished_semaphores, ahead, Lasting, pc, step,
                 Current>>

Shows ==
  /\ Pending # <<>>
  /\ Pending' = Tail(Pending)
  /\ finished_semaphores[Pending[1].frame] = "signaled"
  /\ finished_semaphores' =
       [finished_semaphores EXCEPT ![Pending[1].frame] = "unsignaled"]
  /\ ahead' = [f \in DOMAIN ahead |-> IF ahead[f] > 0 THEN ahead[f] - 1 ELSE 0]
  /\ UNCHANGED <<Queued, available_semaphores, Lasting, pc, step, Current>>

QueueNext ==
  \/ Rests \/ Empties \/ Acquires \/ Submits \/ Fails \/ Completes \/ Signals
  \/ Shows

\* The invariants proved so far, which every proof below starts from.
Known == Invariant /\ FenceInv /\ PresentTypes

-----------------------------------------------------------------------------
(* Lemmas.                                                                 *)

LEMMA KnownHolds == FrameSpec => []Known
BY FrameInvariant, FenceInvHolds, PresentTypesHold, PTL DEF Known

\* Both queues are sequences of presents.
LEMMA QueueTypes ==
  Known => /\ Current \in Presents
           /\ Pending \in Seq(Presents)
           /\ Queued \in Seq(Presents)
           /\ Len(Queued) = Len(gpu_queue)
           /\ DOMAIN Queued = DOMAIN gpu_queue
<1> SUFFICES ASSUME Known
             PROVE  /\ Current \in Presents
                    /\ Pending \in Seq(Presents)
                    /\ Queued \in Seq(Presents)
                    /\ Len(Queued) = Len(gpu_queue)
                    /\ DOMAIN Queued = DOMAIN gpu_queue
  OBVIOUS
<1>1. Current \in Presents
  BY DEF Current, Presents, Known, Invariant, TypeOK, FenceInv, SyncTypes
<1>2. present_queue \in Seq(Presents) /\ gpu_queue \in Seq(Submissions)
  BY DEF Known, PresentTypes, FenceInv, SyncTypes
<1>3. Pending \in Seq(Presents)
  BY <1>1, <1>2, AppendProperties DEF Pending
<1>4. ASSUME NEW k \in DOMAIN gpu_queue
      PROVE  [frame |-> gpu_queue[k].frame, image |-> gpu_queue[k].image]
               \in Presents
  <2>1. gpu_queue[k] \in Submissions
    BY <1>2
  <2>2. QED
    BY <2>1 DEF Submissions, Presents
<1>5. /\ Queued \in [1 .. Len(gpu_queue) -> Presents] /\ Len(gpu_queue) \in Nat
      /\ DOMAIN Queued = DOMAIN gpu_queue
  BY <1>2, <1>4 DEF Queued
<1>6. Queued \in Seq(Presents) /\ Len(Queued) = Len(gpu_queue)
  BY <1>5, SeqDef
<1>7. QED
  BY <1>1, <1>3, <1>5, <1>6

\* The frames on the GPU have a fence and are different ones, and the host does
\* not submit one of them.
LEMMA QueuedFrames ==
  Known => /\ \A k \in DOMAIN Queued : Queued[k].frame \in Frames
           /\ \A j, k \in DOMAIN Queued :
                Queued[j].frame = Queued[k].frame => j = k
           /\ step \in {"acquire", "record"} =>
                \A k \in DOMAIN Queued : Queued[k].frame # current_frame
<1>1. \A k \in DOMAIN Queued : k \in DOMAIN gpu_queue
                              /\ Queued[k].frame = gpu_queue[k].frame
  BY DEF Queued
<1>2. QED
  BY <1>1 DEF Known, FenceInv, QueueOrder, Held, Submitted

-----------------------------------------------------------------------------
(* Every step of FrameSync is one of those above.                          *)

\* A step that leaves the queues and the sync objects alone, and the host where
\* it was, or moves it around outside of draw_frame.
LEMMA RestsIfUnchanged ==
  ASSUME UNCHANGED <<Semaphores, Lasting, present_queue, gpu_queue, current_frame,
                     image_index, step>>,
         pc' = "recreate" <=> pc = "recreate"
  PROVE  Rests
<1>1. UNCHANGED <<Current, Pending, Queued, NextFrame>>
  BY DEF Lasting, Current, Pending, Queued, NextFrame
<1>2. QED
  BY <1>1 DEF Rests, Settled, NextIndex

\* Where the host goes without a submission or an image.
LEMMA HostRests ==
  ASSUME Known,
         \/ Around \/ AcquireFails \/ WaitForFence \/ AcquireOutOfDate \/ WaitIdle
         \/ QueuePresent
         \/ (HandleClose \/ ResizeWindow \/ Terminated) /\ UNCHANGED frameVars
         \/ UNCHANGED allVars
  PROVE  Rests
<1> USE DEF frameVars, hostVars, syncVars, queueVars, presentVars, Semaphores,
            Lasting
<1>1. CASE Around
  <2>1. pc' # "recreate" /\ pc # "recreate"
    BY <1>1 DEF Around, DrawNothing, AfterDrawNothing, DrawOutOfBounds,
                SwapchainFails, Undefined, EnterPump, LeavePump, LeaveLoop, Drawing
  <2>2. UNCHANGED <<frameVars, swapchain, buffer_strategy, current_frame>>
    BY <1>1 DEF Around, DrawNothing, DrawOutOfBounds, SwapchainFails, Undefined,
                EnterPump, LeavePump, LeaveLoop
  <2>3. QED
    BY <2>1, <2>2, RestsIfUnchanged
<1>2. CASE AcquireFails
  BY <1>2, RestsIfUnchanged DEF AcquireFails, DrawImageUnset, Drawing, Undefined
<1>3. CASE WaitForFence \/ AcquireOutOfDate
  <2>1. /\ step \in {"wait", "acquire"} /\ step' \in {"acquire", "idle"}
        /\ UNCHANGED <<vars, image_index, Semaphores, unsubmitted, queueVars>>
    BY <1>3 DEF WaitForFence, AcquireOutOfDate, AfterOutOfDate, At
  <2>2. pc = "draw"
    BY <1>3 DEF WaitForFence, AcquireOutOfDate, At, Drawing
  <2>3. UNCHANGED <<Pending, Queued>>
    BY <2>1 DEF Pending, Queued
  <2>4. QED
    BY <2>1, <2>2, <2>3 DEF Rests, Settled, NextIndex, vars
<1>4. CASE WaitIdle
  <2>1. /\ step = "idle" /\ step' = "wait" /\ pc' = "recreate"
        /\ UNCHANGED <<presentVars, Semaphores, unsubmitted, queueVars>>
    BY <1>4 DEF WaitIdle, At, DrawOutOfDate
  <2>2. UNCHANGED <<Pending, Queued>>
    BY <2>1 DEF Pending, Queued
  <2>3. QED
    BY <2>1, <2>2 DEF Rests, Settled
<1>5. CASE QueuePresent
  <2>1. /\ step = "present" /\ pc = "draw"
        /\ present_queue' = Append(present_queue, Current)
        /\ step' \in {"wait", "idle"}
        /\ step' = "wait" => current_frame' = NextFrame
        /\ UNCHANGED <<presentVars, syncVars, gpu_queue>>
    BY <1>5 DEF QueuePresent, At, Drawing, DrawPresented, PresentedFrame, Current,
                vars
  <2>2. UNCHANGED <<Pending, Queued>>
    BY <2>1 DEF Pending, Queued
  <2>3. QED
    BY <2>1, <2>2 DEF Rests, Settled, NextIndex
<1>6. CASE (HandleClose \/ ResizeWindow \/ Terminated) /\ UNCHANGED frameVars
  BY <1>6, RestsIfUnchanged DEF HandleClose, ResizeWindow, Terminated, vars
<1>7. CASE UNCHANGED allVars
  BY <1>7, RestsIfUnchanged DEF allVars, vars
<1>8. QED
  BY <1>1, <1>2, <1>3, <1>4, <1>5, <1>6, <1>7

\* Creating and destroying.
LEMMA ObjectsRestOrEmpty ==
  ASSUME Known, Invariant', PresentsNeedSwapchain,
         FrameVulkanInit \/ FrameCreate \/ FrameDestroy \/ FrameTeardown
  PROVE  Rests \/ Empties
<1> USE DEF hostVars, Semaphores, Lasting
<1>1. /\ step = "wait" /\ step' = "wait" /\ pc # "draw"
      /\ Pending = present_queue /\ Pending' = present_queue'
      /\ UNCHANGED image_index
  <2>1. step = "wait" /\ pc # "draw" /\ UNCHANGED <<step, image_index>>
    BY DEF FrameVulkanInit, FrameCreate, FrameDestroy, FrameTeardown, VulkanInit,
           CreatePresentObjects, DestroyPresentObjects, TeardownPresentObjects,
           Known, FenceInv, Place
  <2>2. QED
    BY <2>1 DEF Pending
<1>2. gpu_queue = <<>> /\ UNCHANGED gpu_queue => Queued = <<>> /\ Queued' = <<>>
  BY DEF Queued
<1>3. ASSUME CreateSyncObjects, Frames' = CreatedFrames(buffer_strategy'),
             swapchain # "live", gpu_queue = <<>>, UNCHANGED gpu_queue,
             present_queue' = <<>>
      PROVE  Empties
  BY <1>1, <1>2, <1>3 DEF Empties, CreateSyncObjects
<1>4. ASSUME SyncObjectsGone, swapchain' # "live", gpu_queue = <<>>
      PROVE  Empties
  BY <1>1, <1>2, <1>4 DEF Empties, SyncObjectsGone, Frames
<1>5. CASE FrameVulkanInit
  <2>1. /\ pc = "init" /\ vulkan_create_swapchain /\ CreateSyncObjects
        /\ UNCHANGED queueVars
    BY <1>5 DEF FrameVulkanInit, VulkanInit
  <2>2. swapchain # "live" /\ buffer_strategy = 0 /\ gpu_queue = <<>>
    BY <2>1 DEF Known, Invariant, Lifecycle, WhenLive, FenceInv, SyncTypes, Place
  <2>3. buffer_strategy' \in Nat /\ swapchain \in HandleStates
    BY ImageCountsAssumption DEF Known, Invariant, TypeOK
  <2>4. Frames' = CreatedFrames(buffer_strategy')
    BY <2>1, <2>2, <2>3 DEF vulkan_create_swapchain, Frames, CreatedFrames
  <2>5. QED
    BY <1>1, <1>3, <2>1, <2>2, <2>4 DEF queueVars, PresentsNeedSwapchain
<1>6. CASE FrameCreate
  <2>1. /\ pc = "create" /\ pc' = "loop" /\ vulkan_create_swapchain
        /\ UNCHANGED <<queueVars, current_frame>>
    BY <1>6 DEF FrameCreate, CreatePresentObjects
  <2>2. swapchain_extent' = client_rect /\ client_rect \in Nat \X Nat
    BY <2>1, ExtentsArePairs DEF Known, Invariant, vulkan_create_swapchain,
                                 RecordedExtent
  <2>3. swapchain # "live" /\ gpu_queue = <<>> /\ present_queue = <<>>
    BY <1>1, <2>1 DEF Known, Invariant, Lifecycle, WhenLive, FenceInv, Place,
                      PresentsNeedSwapchain
  <2>4. CASE HasArea(client_rect)
    <3>1. CreateSyncObjects
      BY <1>6, <2>2, <2>4 DEF FrameCreate
    <3>2. Frames' = CreatedFrames(buffer_strategy')
      BY <2>1, <2>2, <2>4, SizeTests
      DEF vulkan_create_swapchain, Frames, CreatedFrames
    <3>3. QED
      BY <1>3, <2>1, <2>3, <3>1, <3>2 DEF queueVars
  <2>5. CASE ~HasArea(client_rect)
    <3>1. UNCHANGED syncVars
      BY <1>6, <2>2, <2>5 DEF FrameCreate
    <3>2. UNCHANGED <<swapchain, buffer_strategy>>
      BY <2>1, <2>2, <2>5, SizeTests DEF vulkan_create_swapchain
    <3>3. QED
      BY <1>1, <2>1, <3>1, <3>2, RestsIfUnchanged DEF syncVars, queueVars
  <2>6. QED
    BY <2>4, <2>5
<1>7. CASE FrameDestroy
  <2>1. pc = "recreate" /\ SyncObjectsGone /\ DestroyObjects("create")
    BY <1>7 DEF FrameDestroy, DestroyPresentObjects
  <2>2. gpu_queue = <<>>
    BY <2>1 DEF Known, FenceInv, Place
  <2>3. swapchain = "live" /\ \A a \in FreedArrays : heap[a] = "live"
    BY <2>1 DEF Known, Invariant, TypeOK, HandleStates, Lifecycle, WhenNull,
                WhenLive, WhenDestroyed, FreedArrays, Arrays, FrameArrays
  <2>4. swapchain' = "destroyed"
    BY <2>1, <2>3 DEF DestroyObjects
  <2>5. QED
    BY <1>4, <2>1, <2>2, <2>4
<1>8. CASE FrameTeardown
  <2>1. pc = "exit" /\ gpu_queue = <<>> /\ DestroyObjects("done")
    BY <1>8 DEF FrameTeardown, TeardownPresentObjects, DeviceIdle
  <2>2. CASE pc' = "done"
    <3>1. SyncObjectsGone /\ swapchain' # "live"
      BY <1>8, <2>1, <2>2 DEF FrameTeardown, DestroyObjects, Undefined
    <3>2. QED
      BY <1>4, <2>1, <3>1
  <2>3. CASE pc' # "done"
    <3>1. Undefined("freed_objects") /\ UNCHANGED <<syncVars, queueVars>>
      BY <1>8, <2>1, <2>3 DEF FrameTeardown, DestroyObjects
    <3>2. QED
      BY <1>1, <2>1, <3>1, RestsIfUnchanged
      DEF Undefined, presentVars, syncVars, queueVars
  <2>4. QED
    BY <2>2, <2>3
<1>9. QED
  BY <1>5, <1>6, <1>7, <1>8

\* draw_frame from the acquire to the submission.
LEMMA DrawQueues ==
  ASSUME Known,
         (\E i \in Images : AcquireImage(i)) \/ RecordAndSubmit \/ SubmitFails
  PROVE  Acquires \/ Submits \/ Fails
<1>1. /\ Pending = present_queue /\ UNCHANGED vars
      /\ Drawing /\ FrameIndexValid
  BY DEF AcquireImage, RecordAndSubmit, SubmitFails, At, Pending
<1>2. UNCHANGED <<swapchain, buffer_strategy, pc, current_frame>>
  BY <1>1 DEF vars, presentVars
<1>3. CASE \E i \in Images : AcquireImage(i)
  <2>1. PICK i \in Images, k \in 0 .. Len(present_queue) :
          /\ step = "acquire" /\ step' \in {"record", "idle"} /\ image_index' = i
          /\ available_semaphores' =
               [available_semaphores EXCEPT ![current_frame] = "pending"]
          /\ LastPresentOf(k, i)
          /\ ahead' = [ahead EXCEPT ![current_frame] = k]
          /\ UNCHANGED <<finished_semaphores, unsubmitted, queueVars>>
    BY <1>3 DEF AcquireImage, At
  <2>2. UNCHANGED <<Pending, Queued>>
    BY <2>1 DEF Pending, Queued, queueVars
  <2>3. \A j \in DOMAIN Pending : Pending[j].image = image_index' => j <= k
    BY <1>1, <2>1 DEF LastPresentOf, PresentsOf
  <2>4. QED
    BY <1>1, <1>2, <2>1, <2>2, <2>3 DEF Acquires, Lasting
<1>4. CASE RecordAndSubmit
  <2>1. /\ step = "record" /\ step' = "present"
        /\ UNCHANGED <<image_index, syncVars, present_queue>>
        /\ gpu_queue' = Append(gpu_queue, [frame |-> current_frame,
                                           image |-> image_index,
                                           cleared |-> FALSE])
    BY <1>4 DEF RecordAndSubmit, At, SubmittedFrame
  <2>2. UNCHANGED Current /\ Pending' = Append(Pending, Current)
    BY <1>1, <1>2, <2>1 DEF Current, Pending
  <2>3. Queued' = Append(Queued, Current)
    <3>1. gpu_queue \in Seq(Submissions) /\ Len(gpu_queue) \in Nat
      BY DEF Known, FenceInv, SyncTypes
    <3>2. /\ DOMAIN gpu_queue' = 1 .. Len(gpu_queue) + 1
          /\ \A k \in 1 .. Len(gpu_queue) : gpu_queue'[k] = gpu_queue[k]
          /\ gpu_queue'[Len(gpu_queue) + 1].frame = current_frame
          /\ gpu_queue'[Len(gpu_queue) + 1].image = image_index
      BY <2>1, <3>1
    <3>3. Queued \in Seq(Presents) /\ Len(Queued) = Len(gpu_queue)
          /\ Current \in Presents
      BY QueueTypes
    <3>4. /\ DOMAIN Append(Queued, Current) = 1 .. Len(gpu_queue) + 1
          /\ \A k \in 1 .. Len(gpu_queue) : Append(Queued, Current)[k] = Queued[k]
          /\ Append(Queued, Current)[Len(gpu_queue) + 1] = Current
      BY <3>1, <3>3
    <3>5. /\ DOMAIN Queued' = 1 .. Len(gpu_queue) + 1
          /\ \A k \in 1 .. Len(gpu_queue) : Queued'[k] = Queued[k]
          /\ Queued'[Len(gpu_queue) + 1] = Current
      BY <3>1, <3>2 DEF Queued, Current
    <3>6. Queued' = [k \in DOMAIN Queued' |-> Queued'[k]]
      BY DEF Queued
    <3>7. Append(Queued, Current) \in [1 .. Len(gpu_queue) + 1 -> Presents]
      BY <3>3, <3>4, AppendProperties, LenProperties
    <3>8. \A k \in 1 .. Len(gpu_queue) + 1 :
            Queued'[k] = Append(Queued, Current)[k]
      BY <3>1, <3>4, <3>5
    <3>9. QED
      BY <3>4, <3>5, <3>6, <3>7, <3>8
  <2>4. QED
    BY <1>1, <1>2, <2>1, <2>2, <2>3 DEF Submits, Adds, Semaphores, syncVars
<1>5. CASE SubmitFails
  <2>1. /\ unsubmitted' # {}
        /\ step = "record" /\ step' = "present"
        /\ UNCHANGED <<image_index, Semaphores, queueVars>>
    BY <1>5 DEF SubmitFails, At, Semaphores
  <2>2. /\ Pending' = Append(Pending, Current)
        /\ UNCHANGED <<Queued, Current>>
    BY <1>1, <1>2, <2>1 DEF Current, Pending, Queued, queueVars
  <2>3. QED
    BY <1>1, <1>2, <2>1, <2>2 DEF Fails, Adds
<1>6. QED
  BY <1>3, <1>4, <1>5

\* The GPU, which takes its submissions in order.
LEMMA GpuQueues ==
  ASSUME Known, ClearImage \/ CompleteSubmission
  PROVE  Rests \/ Completes
<1>1. /\ gpu_queue \in Seq(Submissions) /\ gpu_queue # <<>>
      /\ Len(gpu_queue) \in Nat \ {0}
      /\ DOMAIN gpu_queue = 1 .. Len(gpu_queue)
  BY DEF Known, FenceInv, SyncTypes, ClearImage, CanClear, CompleteSubmission,
         CanComplete
<1>2. /\ Queued \in Seq(Presents) /\ Len(Queued) = Len(gpu_queue)
      /\ Queued # <<>>
  BY <1>1, QueueTypes
<1>3. UNCHANGED <<vars, hostVars, present_queue>>
  BY DEF ClearImage, CompleteSubmission
<1>4. /\ UNCHANGED <<swapchain, buffer_strategy, pc, step, current_frame,
                     image_index>>
      /\ UNCHANGED <<Pending, Current, NextIndex, Settled>>
  BY <1>3 DEF vars, presentVars, hostVars, Pending, Current, NextIndex,
              NextFrame, Settled
<1>5. CASE ClearImage
  <2> DEFINE e == [frame |-> gpu_queue[1].frame, image |-> gpu_queue[1].image,
                   cleared |-> TRUE]
  <2>1. gpu_queue' = [gpu_queue EXCEPT ![1] = e] /\ UNCHANGED syncVars
    BY <1>5 DEF ClearImage
  <2>2. /\ e.frame = gpu_queue[1].frame /\ e.image = gpu_queue[1].image
    OBVIOUS
  <2> HIDE DEF e
  <2>3. /\ DOMAIN gpu_queue' = DOMAIN gpu_queue
        /\ \A k \in DOMAIN gpu_queue :
             /\ gpu_queue'[k].frame = gpu_queue[k].frame
             /\ gpu_queue'[k].image = gpu_queue[k].image
    BY <1>1, <2>1, <2>2
  <2>4. UNCHANGED Queued
    BY <2>3 DEF Queued
  <2>5. QED
    BY <1>4, <2>1, <2>4 DEF Rests, Semaphores, Lasting, syncVars
<1>6. CASE CompleteSubmission
  <2>1. Oldest.frame = Queued[1].frame
    BY <1>1 DEF Oldest, Queued
  <2>2. gpu_queue' = Tail(gpu_queue)
    BY <1>6 DEF CompleteSubmission
  <2>3. Queued' = Tail(Queued)
    <3>1. /\ DOMAIN gpu_queue' = 1 .. Len(gpu_queue) - 1
          /\ \A k \in 1 .. Len(gpu_queue) - 1 : gpu_queue'[k] = gpu_queue[k + 1]
      BY <1>1, <2>2, HeadTailProperties
    <3>2. /\ DOMAIN Queued' = 1 .. Len(gpu_queue) - 1
          /\ \A k \in 1 .. Len(gpu_queue) - 1 : Queued'[k] = Queued[k + 1]
      <4>1. \A k \in 1 .. Len(gpu_queue) - 1 : k + 1 \in DOMAIN gpu_queue
        BY <1>1
      <4>2. QED
        BY <3>1, <4>1 DEF Queued
    <3>3. /\ Tail(Queued) \in Seq(Presents)
          /\ DOMAIN Tail(Queued) = 1 .. Len(gpu_queue) - 1
          /\ \A k \in 1 .. Len(gpu_queue) - 1 : Tail(Queued)[k] = Queued[k + 1]
      BY <1>1, <1>2, HeadTailProperties
    <3>4. Queued' = [k \in DOMAIN Queued' |-> Queued'[k]]
      BY DEF Queued
    <3>5. Tail(Queued) \in [1 .. Len(gpu_queue) - 1 -> Presents]
      BY <3>3, LenProperties
    <3>6. QED
      BY <3>2, <3>3, <3>4, <3>5
  <2>4. QED
    BY <1>2, <1>4, <1>6, <2>1, <2>3 DEF CompleteSubmission, Completes, Lasting
<1>7. QED
  BY <1>5, <1>6

\* The presentation engine.
LEMMA EngineQueues ==
  ASSUME Known, Signal \/ PresentImage
  PROVE  Signals \/ Shows
<1>1. UNCHANGED <<vars, hostVars, gpu_queue, unsubmitted>>
  BY DEF Signal, SignalAvailable, PresentImage, queueVars
<1>2. /\ UNCHANGED <<swapchain, buffer_strategy, pc, step, current_frame,
                     image_index>>
      /\ UNCHANGED <<Queued, Current>>
  BY <1>1 DEF vars, presentVars, hostVars, Queued, Current
<1>3. CASE Signal
  <2>1. UNCHANGED <<present_queue, finished_semaphores, ahead>>
    BY <1>3 DEF Signal, SignalAvailable, queueVars
  <2>2. UNCHANGED Pending
    BY <1>2, <2>1 DEF Pending
  <2>3. QED
    BY <1>1, <1>2, <1>3, <2>1, <2>2 DEF Signals, Signal, SignalAvailable, CanSignal,
                                           Lasting
<1>4. CASE PresentImage
  <2>1. /\ present_queue \in Seq(Presents) /\ present_queue # <<>>
        /\ present_queue' = Tail(present_queue)
        /\ finished_semaphores[Head(present_queue).frame] = "signaled"
        /\ finished_semaphores' =
             [finished_semaphores EXCEPT ![Head(present_queue).frame] = "unsignaled"]
        /\ ahead' = [f \in DOMAIN ahead |-> IF ahead[f] > 0 THEN ahead[f] - 1 ELSE 0]
        /\ UNCHANGED available_semaphores
    BY <1>4 DEF PresentImage, CanPresent, PresentMayProceed, Known, PresentTypes
  <2>2. Current \in Presents
    BY QueueTypes
  <2>3. Head(present_queue) = Pending[1] /\ Pending # <<>>
    BY <2>1, <2>2, AppendProperties DEF Pending
  <2>4. Pending' = Tail(Pending)
    BY <1>2, <2>1, HeadTailAppend DEF Pending
  <2>5. QED
    BY <1>1, <1>2, <2>1, <2>3, <2>4 DEF Shows, Lasting
<1>5. QED
  BY <1>3, <1>4

LEMMA QueueStep ==
  Known /\ Known' /\ PresentsNeedSwapchain /\ [FrameNext]_allVars => QueueNext
<1>1. Known' => Invariant'
  BY DEF Known
<1>2. QED
  BY <1>1, HostRests, ObjectsRestOrEmpty, DrawQueues, GpuQueues, EngineQueues
  DEF FrameNext, Host, QueueNext

\* Without a swapchain there is nothing to draw or to present.
LEMMA PresentsNeedSwapchainHolds == FrameSpec => []PresentsNeedSwapchain
<1>1. FrameInit => PresentsNeedSwapchain
  BY DEF FrameInit, PresentsNeedSwapchain, Pending
<1>2. Known /\ Known' /\ PresentsNeedSwapchain /\ [FrameNext]_allVars
        => PresentsNeedSwapchain'
  <2> SUFFICES ASSUME Known, PresentsNeedSwapchain, QueueNext,
                      swapchain' # "live", [FrameNext]_allVars
               PROVE  Pending' = <<>>
    BY QueueStep DEF PresentsNeedSwapchain
  <2>1. CASE Empties
    BY <2>1 DEF Empties
  <2>2. CASE Submits \/ Fails
    <3>1. swapchain = "live" /\ UNCHANGED swapchain
      BY <2>2, CurrentFrameIsFrame DEF Submits, Fails, Adds, Known
    <3>2. QED
      BY <3>1
  <2>3. CASE Rests \/ Acquires \/ Completes \/ Signals \/ Shows
    BY <2>3 DEF Rests, Acquires, Completes, Signals, Shows, Lasting,
                PresentsNeedSwapchain
  <2>4. QED
    BY <2>1, <2>2, <2>3 DEF QueueNext
<1>3. QED
  BY <1>1, <1>2, KnownHolds, PTL DEF FrameSpec

-----------------------------------------------------------------------------
(* Sequences that grow and shrink.                                         *)

LEMMA Pushed ==
  ASSUME NEW s \in Seq(Presents), NEW e \in Presents
  PROVE  /\ Len(s) \in Nat /\ DOMAIN s = 1 .. Len(s)
         /\ Append(s, e) \in Seq(Presents)
         /\ Len(Append(s, e)) = Len(s) + 1
         /\ DOMAIN Append(s, e) = 1 .. Len(s) + 1
         /\ \A k \in 1 .. Len(s) : Append(s, e)[k] = s[k]
         /\ Append(s, e)[Len(s) + 1] = e
BY AppendProperties, LenProperties

LEMMA Popped ==
  ASSUME NEW s \in Seq(Presents), s # <<>>
  PROVE  /\ Len(s) \in Nat \ {0} /\ DOMAIN s = 1 .. Len(s)
         /\ Tail(s) \in Seq(Presents)
         /\ Len(Tail(s)) = Len(s) - 1
         /\ DOMAIN Tail(s) = 1 .. Len(s) - 1
         /\ \A k \in 1 .. Len(s) - 1 : Tail(s)[k] = s[k + 1]
BY HeadTailProperties, LenProperties, EmptySeq

-----------------------------------------------------------------------------
(* What is on the GPU will be presented, and what the GPU has finished has *)
(* not been presented yet, whatever fails.                                 *)

\* The present of a submission is pending, and if its semaphore is signaled
\* already, it is signaled for an older present of the frame.
QueuedIsPending ==
  \A q \in DOMAIN Queued : \E k \in DOMAIN Pending :
    /\ Pending[k] = Queued[q]
    /\ finished_semaphores[Queued[q].frame] = "signaled" =>
         \E j \in 1 .. k - 1 : Pending[j].frame = Queued[q].frame

FinishedIsPending ==
  \A f \in Frames : finished_semaphores[f] = "signaled" =>
    \E k \in DOMAIN Pending : Pending[k].frame = f

TraceInv == QueuedIsPending /\ FinishedIsPending

LEMMA TraceInit == FrameInit => TraceInv
<1> SUFFICES ASSUME FrameInit PROVE TraceInv
  OBVIOUS
<1>1. Queued = <<>> /\ Frames = {}
  BY DEF FrameInit, Init, Queued, Frames
<1>2. QED
  BY <1>1 DEF TraceInv, QueuedIsPending, FinishedIsPending

\* A present is added at the end, for a submission or for one that failed.
LEMMA TraceAdd ==
  ASSUME Known, TraceInv, Submits \/ Fails
  PROVE  TraceInv'
<1>1. /\ Pending' = Append(Pending, Current)
      /\ Queued' \in {Queued, Append(Queued, Current)}
      /\ UNCHANGED <<finished_semaphores, Frames>>
      /\ current_frame \in Frames
  BY CurrentFrameIsFrame DEF Submits, Fails, Adds, Semaphores, Frames, Known
<1>2. /\ Pending \in Seq(Presents) /\ Queued \in Seq(Presents)
      /\ Current \in Presents /\ Current.frame = current_frame
  BY QueueTypes DEF Current
<1>3. /\ Len(Pending) \in Nat /\ DOMAIN Pending = 1 .. Len(Pending)
      /\ DOMAIN Pending' = 1 .. Len(Pending) + 1
      /\ \A k \in DOMAIN Pending : Pending'[k] = Pending[k]
      /\ Pending'[Len(Pending) + 1] = Current
  BY <1>1, <1>2, Pushed
<1>4. FinishedIsPending'
  BY <1>1, <1>3 DEF TraceInv, FinishedIsPending
<1>5. ASSUME NEW q \in DOMAIN Queued'
      PROVE  \/ q \in DOMAIN Queued /\ Queued'[q] = Queued[q]
             \/ Queued'[q] = Current
  BY <1>1, <1>2, Pushed
<1>6. ASSUME NEW q \in DOMAIN Queued'
      PROVE  \E k \in DOMAIN Pending' :
               /\ Pending'[k] = Queued'[q]
               /\ finished_semaphores'[Queued'[q].frame] = "signaled" =>
                    \E j \in 1 .. k - 1 : Pending'[j].frame = Queued'[q].frame
  <2>1. CASE q \in DOMAIN Queued /\ Queued'[q] = Queued[q]
    <3>1. PICK k \in DOMAIN Pending :
            /\ Pending[k] = Queued[q]
            /\ finished_semaphores[Queued[q].frame] = "signaled" =>
                 \E j \in 1 .. k - 1 : Pending[j].frame = Queued[q].frame
      BY <2>1 DEF TraceInv, QueuedIsPending
    <3>2. k \in DOMAIN Pending' /\ \A j \in 1 .. k : Pending'[j] = Pending[j]
      BY <1>3
    <3>3. k \in 1 .. k /\ \A j \in 1 .. k - 1 : j \in 1 .. k
      BY <1>3
    <3>4. QED
      BY <1>1, <2>1, <3>1, <3>2, <3>3
  <2>2. CASE Queued'[q] = Current
    <3>1. ASSUME finished_semaphores'[current_frame] = "signaled"
          PROVE  \E j \in 1 .. Len(Pending) : Pending'[j].frame = current_frame
      BY <1>1, <1>3, <3>1 DEF TraceInv, FinishedIsPending
    <3>2. /\ Len(Pending) + 1 \in DOMAIN Pending'
          /\ Len(Pending) + 1 - 1 = Len(Pending)
      BY <1>3
    <3>3. QED
      BY <1>2, <1>3, <2>2, <3>1, <3>2
  <2>3. QED
    BY <1>5, <2>1, <2>2
<1>7. QED
  BY <1>4, <1>6 DEF TraceInv, QueuedIsPending

\* The oldest submission ends and signals its finished semaphore.
LEMMA TraceComplete ==
  ASSUME Known, TraceInv, Completes
  PROVE  TraceInv'
<1> DEFINE h == Queued[1].frame
<1>1. /\ Queued # <<>> /\ Queued' = Tail(Queued)
      /\ finished_semaphores' = [finished_semaphores EXCEPT ![h] = "signaled"]
      /\ UNCHANGED <<Pending, Frames>>
      /\ Queued \in Seq(Presents)
  BY QueueTypes DEF Completes, Lasting, Frames
<1>2. /\ Len(Queued) \in Nat \ {0} /\ DOMAIN Queued = 1 .. Len(Queued)
      /\ DOMAIN Queued' = 1 .. Len(Queued) - 1
      /\ \A q \in DOMAIN Queued' : Queued'[q] = Queued[q + 1]
  BY <1>1, Popped
<1>3. 1 \in DOMAIN Queued /\ h \in Frames
  BY <1>2, QueuedFrames
<1> HIDE DEF h
<1>4. \A f \in Frames : f # h => finished_semaphores'[f] = finished_semaphores[f]
  BY <1>1 DEF Known, PresentTypes
<1>5. FinishedIsPending'
  <2>1. \E k \in DOMAIN Pending : Pending[k].frame = h
    BY <1>3 DEF TraceInv, QueuedIsPending, h
  <2>2. QED
    BY <1>1, <1>4, <2>1 DEF TraceInv, FinishedIsPending
<1>6. ASSUME NEW q \in DOMAIN Queued'
      PROVE  /\ q + 1 \in DOMAIN Queued /\ Queued'[q] = Queued[q + 1]
             /\ Queued[q + 1].frame \in Frames \ {h}
  <2>1. q + 1 \in DOMAIN Queued /\ q + 1 # 1
    BY <1>2
  <2>2. QED
    BY <1>2, <1>3, <2>1, QueuedFrames DEF h
<1>7. QueuedIsPending'
  BY <1>1, <1>4, <1>6 DEF TraceInv, QueuedIsPending
<1>8. QED
  BY <1>5, <1>7 DEF TraceInv

\* The oldest present is processed and consumes its finished semaphore.
LEMMA TraceShow ==
  ASSUME Known, TraceInv, Shows
  PROVE  TraceInv'
<1> DEFINE h == Pending[1].frame
<1>1. /\ Pending # <<>> /\ Pending' = Tail(Pending)
      /\ finished_semaphores[h] = "signaled"
      /\ finished_semaphores' = [finished_semaphores EXCEPT ![h] = "unsignaled"]
      /\ UNCHANGED <<Queued, Frames>>
      /\ Pending \in Seq(Presents)
  BY QueueTypes DEF Shows, Lasting, Frames
<1>2. /\ Len(Pending) \in Nat \ {0} /\ DOMAIN Pending = 1 .. Len(Pending)
      /\ DOMAIN Pending' = 1 .. Len(Pending) - 1
      /\ \A k \in DOMAIN Pending' : Pending'[k] = Pending[k + 1]
  BY <1>1, Popped
<1> HIDE DEF h
<1>3. \A f \in Frames : finished_semaphores'[f] = "signaled" =>
        f # h /\ finished_semaphores[f] = "signaled"
  BY <1>1 DEF Known, PresentTypes
\* A present of another frame than that of the oldest is still there.
<1>4. ASSUME NEW k \in DOMAIN Pending, Pending[k].frame # h
      PROVE  k - 1 \in DOMAIN Pending' /\ Pending'[k - 1] = Pending[k]
  <2>1. k # 1
    BY <1>4 DEF h
  <2>2. QED
    BY <1>2, <2>1
<1>5. FinishedIsPending'
  BY <1>1, <1>3, <1>4 DEF TraceInv, FinishedIsPending
<1>6. ASSUME NEW q \in DOMAIN Queued
      PROVE  \E k \in DOMAIN Pending' :
               /\ Pending'[k] = Queued[q]
               /\ finished_semaphores'[Queued[q].frame] = "signaled" =>
                    \E j \in 1 .. k - 1 : Pending'[j].frame = Queued[q].frame
  <2>1. PICK k \in DOMAIN Pending :
          /\ Pending[k] = Queued[q]
          /\ finished_semaphores[Queued[q].frame] = "signaled" =>
               \E j \in 1 .. k - 1 : Pending[j].frame = Queued[q].frame
    BY DEF TraceInv, QueuedIsPending
  <2>2. Queued[q].frame \in Frames
    BY QueuedFrames
  <2>3. k # 1
    <3>1. SUFFICES ASSUME k = 1 PROVE FALSE
      OBVIOUS
    <3>2. Queued[q].frame = h
      BY <2>1, <3>1 DEF h
    <3>3. \E j \in 1 .. k - 1 : Pending[j].frame = Queued[q].frame
      BY <1>1, <2>1, <3>2
    <3>4. QED
      BY <3>1, <3>3
  <2>4. k - 1 \in DOMAIN Pending' /\ Pending'[k - 1] = Queued[q]
    BY <1>2, <2>1, <2>3
  <2>5. ASSUME finished_semaphores'[Queued[q].frame] = "signaled"
        PROVE  \E j \in 1 .. (k - 1) - 1 : Pending'[j].frame = Queued[q].frame
    <3>1. Queued[q].frame # h /\ finished_semaphores[Queued[q].frame] = "signaled"
      BY <1>3, <2>2, <2>5
    <3>2. PICK j \in 1 .. k - 1 : Pending[j].frame = Queued[q].frame
      BY <2>1, <3>1
    <3>3. j \in DOMAIN Pending
      BY <1>2
    <3>4. Pending'[j - 1].frame = Queued[q].frame /\ j - 1 \in DOMAIN Pending'
      BY <1>4, <3>1, <3>2, <3>3
    <3>5. j - 1 \in 1 .. (k - 1) - 1
      BY <1>2, <3>4
    <3>6. QED
      BY <3>4, <3>5
  <2>6. QED
    BY <2>4, <2>5
<1>7. QED
  BY <1>1, <1>5, <1>6 DEF TraceInv, QueuedIsPending

LEMMA TraceHolds == FrameSpec => []TraceInv
<1>1. Known /\ Known' /\ PresentsNeedSwapchain /\ TraceInv /\ [FrameNext]_allVars
        => TraceInv'
  <2> SUFFICES ASSUME Known, TraceInv, QueueNext PROVE TraceInv'
    BY QueueStep
  <2>1. CASE Rests \/ Acquires \/ Signals
    BY <2>1 DEF Rests, Acquires, Signals, Semaphores, Lasting, Frames, TraceInv,
                QueuedIsPending, FinishedIsPending
  <2>2. CASE Empties
    BY <2>2 DEF Empties, TraceInv, QueuedIsPending, FinishedIsPending
  <2>3. QED
    BY <2>1, <2>2, TraceAdd, TraceComplete, TraceShow DEF QueueNext
<1>2. QED
  BY <1>1, TraceInit, KnownHolds, PresentsNeedSwapchainHolds, PTL DEF FrameSpec

\* draw_frame never waits for the last submission of the image it acquired, and
\* however calls fail, the command buffer it begins to record is pending only if
\* the image was handed out before its last present was processed.
THEOREM RecordsToIdleBuffer == FrameSpec => []RecordsIdleCommandBuffer
<1>1. Known /\ TraceInv => RecordsIdleCommandBuffer
  <2> SUFFICES ASSUME Known, TraceInv, step = "record",
                      image_index \notin Presenting, NEW q \in DOMAIN gpu_queue
               PROVE  gpu_queue[q].image # image_index
    BY DEF RecordsIdleCommandBuffer, At
  <2>1. q \in DOMAIN Queued /\ Queued[q].image = gpu_queue[q].image
    BY DEF Queued
  <2>2. \E k \in DOMAIN present_queue : present_queue[k] = Queued[q]
    BY <2>1 DEF TraceInv, QueuedIsPending, Pending
  <2>3. QED
    BY <2>1, <2>2 DEF Presenting
<1>2. QED
  BY <1>1, KnownHolds, TraceHolds, PTL

-----------------------------------------------------------------------------
(* The frames of the presents follow each other round the pipeline.        *)

\* The index d frames before the next.
Before(d) ==
  IF NextIndex >= d THEN NextIndex - d ELSE NextIndex - d + buffer_strategy

PendingInRange ==
  /\ \A k \in DOMAIN Pending : /\ Pending[k].frame \in Frames
                               /\ Pending[k].image \in Images
  /\ step = "record" => current_frame \in Frames /\ image_index \in Images

RoundRobin ==
  Settled => \A k \in DOMAIN Pending :
    LET d == Len(Pending) + 1 - k
    IN  d <= buffer_strategy => Pending[k].frame = Before(d)

\* Fewer than buffer_strategy apart, they are different frames.
WindowDistinct ==
  \A j, k \in DOMAIN Pending :
    j < k /\ k - j < buffer_strategy => Pending[j].frame # Pending[k].frame

OrderInv == PendingInRange /\ RoundRobin /\ WindowDistinct

LEMMA OrderInit == FrameInit => OrderInv
<1> SUFFICES ASSUME FrameInit PROVE OrderInv
  OBVIOUS
<1>1. Pending = <<>> /\ step = "wait"
  BY DEF FrameInit, Pending
<1>2. QED
  BY <1>1 DEF OrderInv, PendingInRange, RoundRobin, WindowDistinct

\* The successor of a frame, without the modulus.
LEMMA NextFrameIs ==
  ASSUME current_frame \in Nat, buffer_strategy \in Nat, FrameIndexValid
  PROVE  NextFrame =
           IF current_frame + 1 = buffer_strategy THEN 0 ELSE current_frame + 1
<1>1. buffer_strategy > 0 /\ current_frame + 1 <= buffer_strategy
  BY DEF FrameIndexValid
<1>2. CASE current_frame + 1 = buffer_strategy
  BY <1>1, <1>2 DEF NextFrame
<1>3. CASE current_frame + 1 < buffer_strategy
  BY <1>1, <1>3 DEF NextFrame
<1>4. QED
  BY <1>1, <1>2, <1>3

\* A present is added at the end.
LEMMA OrderAdd ==
  ASSUME Known, OrderInv, Adds
  PROVE  OrderInv'
<1> DEFINE L == Len(Pending)
<1>1. /\ Drawing /\ FrameIndexValid /\ step = "record" /\ step' = "present"
      /\ Pending' = Append(Pending, Current)
      /\ UNCHANGED <<swapchain, buffer_strategy, pc, Current>>
  BY DEF Adds
<1>2. /\ UNCHANGED <<Frames, Images, current_frame, image_index, NextFrame>>
      /\ Settled
  BY <1>1 DEF Frames, Images, Current, NextFrame, Settled, Drawing
<1>3. /\ current_frame \in Frames /\ swapchain = "live"
      /\ image_index \in Images
  BY <1>1, CurrentFrameIsFrame DEF Known, OrderInv, PendingInRange
<1>4. /\ current_frame \in Nat /\ buffer_strategy \in Nat
      /\ current_frame < buffer_strategy
  BY <1>1, ImageCountsAssumption DEF Known, Invariant, TypeOK, FrameIndexValid
<1>5. /\ Pending \in Seq(Presents) /\ Current \in Presents
      /\ Current.frame = current_frame /\ Current.image = image_index
  BY QueueTypes DEF Current
<1>6. /\ L \in Nat /\ DOMAIN Pending = 1 .. L
      /\ Len(Pending') = L + 1 /\ DOMAIN Pending' = 1 .. L + 1
      /\ \A k \in 1 .. L : Pending'[k] = Pending[k]
      /\ Pending'[L + 1] = Current
  BY <1>1, <1>5, Pushed
<1>7. NextIndex = current_frame
      /\ NextIndex' = IF current_frame + 1 = buffer_strategy
                        THEN 0 ELSE current_frame + 1
  BY <1>1, <1>2, <1>4, NextFrameIs DEF NextIndex
<1>8. ASSUME NEW k \in 1 .. L, L + 1 - k <= buffer_strategy
      PROVE  Pending[k].frame = Before(L + 1 - k)
  BY <1>2, <1>6, <1>8 DEF OrderInv, RoundRobin
<1> HIDE DEF L
<1>9. PendingInRange'
  BY <1>1, <1>2, <1>3, <1>5, <1>6 DEF OrderInv, PendingInRange
<1>10. RoundRobin'
  <2> SUFFICES ASSUME NEW k \in 1 .. L + 1, L + 2 - k <= buffer_strategy
               PROVE  Pending'[k].frame =
                        IF NextIndex' >= L + 2 - k
                          THEN NextIndex' - (L + 2 - k)
                          ELSE NextIndex' - (L + 2 - k) + buffer_strategy
    BY <1>1, <1>6 DEF RoundRobin, Before, L
  <2>1. CASE k = L + 1
    BY <1>4, <1>5, <1>6, <1>7, <2>1
  <2>2. CASE k \in 1 .. L
    <3>1. L + 1 - k <= buffer_strategy
      BY <1>4, <1>6, <2>2
    <3>2. Pending'[k].frame = Before(L + 1 - k)
      BY <1>6, <1>8, <2>2, <3>1
    <3>3. QED
      BY <1>4, <1>6, <1>7, <2>2, <3>1, <3>2 DEF Before
  <2>3. QED
    BY <1>6, <2>1, <2>2
<1>11. WindowDistinct'
  <2> SUFFICES ASSUME NEW j \in 1 .. L + 1, NEW k \in 1 .. L + 1, j < k,
                      k - j < buffer_strategy
               PROVE  Pending'[j].frame # Pending'[k].frame
    BY <1>1, <1>6 DEF WindowDistinct
  <2>1. CASE k = L + 1
    <3>1. j \in 1 .. L /\ L + 1 - j <= buffer_strategy
      BY <1>4, <1>6, <2>1
    <3>2. Pending'[j].frame = Before(L + 1 - j)
      BY <1>6, <1>8, <3>1
    <3>3. QED
      BY <1>4, <1>5, <1>6, <1>7, <2>1, <3>1, <3>2 DEF Before
  <2>2. CASE k \in 1 .. L
    BY <1>6, <2>2 DEF OrderInv, WindowDistinct
  <2>3. QED
    BY <1>6, <2>1, <2>2
<1>12. QED
  BY <1>9, <1>10, <1>11 DEF OrderInv

\* The oldest present is processed.
LEMMA OrderShow ==
  ASSUME Known, OrderInv, Shows
  PROVE  OrderInv'
<1> DEFINE L == Len(Pending)
<1>1. /\ Pending # <<>> /\ Pending' = Tail(Pending)
      /\ UNCHANGED <<swapchain, buffer_strategy, pc, step, Current>>
      /\ Pending \in Seq(Presents)
  BY QueueTypes DEF Shows, Lasting
<1>2. UNCHANGED <<Frames, Images, current_frame, image_index, NextIndex, Settled>>
  BY <1>1 DEF Frames, Images, Current, NextIndex, NextFrame, Settled
<1>3. /\ L \in Nat \ {0} /\ DOMAIN Pending = 1 .. L
      /\ Len(Pending') = L - 1 /\ DOMAIN Pending' = 1 .. L - 1
      /\ \A k \in 1 .. L - 1 : Pending'[k] = Pending[k + 1]
  BY <1>1, Popped
<1> HIDE DEF L
<1>4. \A k \in 1 .. L - 1 : k + 1 \in 1 .. L /\ L + 1 - (k + 1) = L - k
                            /\ (L - 1) + 1 - k = L - k
  BY <1>3
<1>5. PendingInRange'
  BY <1>1, <1>2, <1>3, <1>4 DEF OrderInv, PendingInRange
<1>6. RoundRobin'
  <2>1. \A d : Before(d)' = Before(d)
    BY <1>1, <1>2 DEF Before
  <2>2. ASSUME Settled, NEW k \in 1 .. L - 1, L - k <= buffer_strategy
        PROVE  Pending'[k].frame = Before(L - k)
    BY <1>3, <1>4, <2>2 DEF OrderInv, RoundRobin, L
  <2>3. ASSUME Settled', NEW k \in DOMAIN Pending',
               Len(Pending') + 1 - k <= buffer_strategy'
        PROVE  Pending'[k].frame =
                 IF NextIndex' >= Len(Pending') + 1 - k
                   THEN NextIndex' - (Len(Pending') + 1 - k)
                   ELSE NextIndex' - (Len(Pending') + 1 - k) + buffer_strategy'
    BY <1>1, <1>2, <1>3, <1>4, <2>2, <2>3 DEF Before
  <2>4. QED
    BY <2>3 DEF RoundRobin, Before
<1>7. WindowDistinct'
  <2> SUFFICES ASSUME NEW j \in 1 .. L - 1, NEW k \in 1 .. L - 1, j < k,
                      k - j < buffer_strategy
               PROVE  Pending'[j].frame # Pending'[k].frame
    BY <1>1, <1>3 DEF WindowDistinct
  <2>1. /\ j + 1 \in DOMAIN Pending /\ k + 1 \in DOMAIN Pending
        /\ j + 1 < k + 1 /\ (k + 1) - (j + 1) < buffer_strategy
    BY <1>3
  <2>2. Pending[j + 1].frame # Pending[k + 1].frame
    BY <2>1 DEF OrderInv, WindowDistinct
  <2>3. QED
    BY <1>3, <2>2
<1>8. QED
  BY <1>5, <1>6, <1>7 DEF OrderInv

LEMMA OrderHolds == FrameSpec => []OrderInv
<1>1. Known /\ Known' /\ PresentsNeedSwapchain /\ OrderInv /\ [FrameNext]_allVars
        => OrderInv'
  <2> SUFFICES ASSUME Known, OrderInv, QueueNext PROVE OrderInv'
    BY QueueStep
  <2>1. CASE Empties
    BY <2>1 DEF Empties, OrderInv, PendingInRange, RoundRobin, WindowDistinct
  <2>2. CASE Rests \/ Acquires \/ Completes \/ Signals
    <3>1. UNCHANGED <<Pending, swapchain, buffer_strategy, Frames, Images>>
      BY <2>2 DEF Rests, Acquires, Completes, Signals, Lasting, Frames, Images
    <3>2. Settled' => Settled /\ NextIndex' = NextIndex
      <4>1. CASE Rests
        BY <4>1 DEF Rests
      <4>2. CASE Acquires
        BY <4>2 DEF Acquires, Settled, NextIndex, Known, FenceInv, Place
      <4>3. CASE Completes \/ Signals
        BY <3>1, <4>3 DEF Completes, Signals, Settled, NextIndex, NextFrame, Current
      <4>4. QED
        BY <2>2, <4>1, <4>2, <4>3
    <3>3. PendingInRange'
      <4>1. Acquires => current_frame \in Frames
        BY CurrentFrameIsFrame DEF Acquires, Known
      <4>2. step' = "record" => current_frame' \in Frames /\ image_index' \in Images
        BY <2>2, <4>1 DEF Rests, Acquires, Completes, Signals, Current, OrderInv,
                          PendingInRange
      <4>3. QED
        BY <3>1, <4>2 DEF OrderInv, PendingInRange
    <3>4. RoundRobin' /\ WindowDistinct'
      BY <3>1, <3>2 DEF OrderInv, RoundRobin, Before, WindowDistinct
    <3>5. QED
      BY <3>3, <3>4 DEF OrderInv
  <2>3. QED
    BY <2>1, <2>2, OrderAdd, OrderShow DEF QueueNext, Submits, Fails
<1>2. QED
  BY <1>1, OrderInit, KnownHolds, PresentsNeedSwapchainHolds, PTL DEF FrameSpec

-----------------------------------------------------------------------------
(* As long as no submission fails, the pending presents are those whose    *)
(* submission is completed, followed by those on the GPU.                  *)

Completed == Len(Pending) - Len(Queued)

QueuedIsSuffix ==
  /\ Completed >= 0
  /\ \A q \in DOMAIN Queued : Queued[q] = Pending[Completed + q]

\* The signaled semaphores are those of the completed submissions, and these
\* have different images.
FinishedIsPrefix ==
  /\ Completed <= buffer_strategy
  /\ \A f \in Frames : finished_semaphores[f] = "signaled" <=>
       \E k \in 1 .. Completed : Pending[k].frame = f
  /\ \A j, k \in 1 .. Completed : Pending[j].image = Pending[k].image => j = k

\* A present that shows the image of a later submission is among those that
\* the presentation engine lets the submission wait for.
AheadInv ==
  /\ \A f \in Frames : available_semaphores[f] = "signaled" => ahead[f] = 0
  /\ \A q \in DOMAIN Queued : \A j \in 1 .. Completed + q - 1 :
       Pending[j].image = Queued[q].image => j <= ahead[Queued[q].frame]
  /\ step = "record" => \A j \in DOMAIN Pending :
       Pending[j].image = image_index => j <= ahead[current_frame]

CountInv ==
  unsubmitted = {} => QueuedIsSuffix /\ FinishedIsPrefix /\ AheadInv

LEMMA CountInit == FrameInit => CountInv
<1> SUFFICES ASSUME FrameInit PROVE CountInv
  OBVIOUS
<1>1. /\ Queued = <<>> /\ Pending = <<>> /\ Frames = {} /\ step = "wait"
      /\ buffer_strategy = 0
  BY DEF FrameInit, Init, Queued, Pending, Frames
<1>2. Completed = 0
  BY <1>1 DEF Completed
<1>3. QED
  BY <1>1, <1>2 DEF CountInv, QueuedIsSuffix, FinishedIsPrefix, AheadInv

LEMMA CompletedType ==
  ASSUME Known, QueuedIsSuffix
  PROVE  /\ Completed \in Nat
         /\ Len(Pending) \in Nat /\ DOMAIN Pending = 1 .. Len(Pending)
         /\ Len(Queued) \in Nat /\ DOMAIN Queued = 1 .. Len(Queued)
         /\ Len(Pending) = Completed + Len(Queued)
<1>1. Pending \in Seq(Presents) /\ Queued \in Seq(Presents)
  BY QueueTypes
<1>2. /\ Len(Pending) \in Nat /\ DOMAIN Pending = 1 .. Len(Pending)
      /\ Len(Queued) \in Nat /\ DOMAIN Queued = 1 .. Len(Queued)
  BY <1>1, LenProperties
<1>3. QED
  BY <1>2 DEF QueuedIsSuffix, Completed

\* When the oldest submission has got its image, no completed submission has
\* that image any more.  The images are as many as the frames, and so no
\* completed submission has its frame either.
LEMMA OldestIsNew ==
  ASSUME Known, OrderInv, CountInv, unsubmitted = {}, Queued # <<>>,
         available_semaphores[Queued[1].frame] = "signaled"
  PROVE  /\ Completed + 1 \in DOMAIN Pending
         /\ Pending[Completed + 1] = Queued[1]
         /\ Completed + 1 <= buffer_strategy
         /\ \A k \in 1 .. Completed : /\ Pending[k].image # Queued[1].image
                                      /\ Pending[k].frame # Queued[1].frame
<1> DEFINE C == Completed
           h == Queued[1]
<1>1. QueuedIsSuffix /\ FinishedIsPrefix /\ AheadInv
  BY DEF CountInv
<1>2. /\ C \in Nat /\ DOMAIN Pending = 1 .. Len(Pending)
      /\ Len(Pending) = C + Len(Queued) /\ Len(Pending) \in Nat
      /\ Len(Queued) \in Nat \ {0} /\ 1 \in DOMAIN Queued
  BY <1>1, CompletedType, QueueTypes, EmptySeq
<1>3. C + 1 \in DOMAIN Pending /\ Pending[C + 1] = h
  BY <1>1, <1>2 DEF QueuedIsSuffix
<1>4. h.frame \in Frames
  BY <1>2, QueuedFrames
<1>5. /\ buffer_strategy \in Nat /\ Images = 0 .. buffer_strategy - 1
  BY <1>4, ImageCountsAssumption DEF Frames, Images, Known, Invariant, TypeOK
<1>6. ASSUME NEW k \in 1 .. C PROVE Pending[k].image # h.image
  <2>1. ahead[h.frame] = 0
    BY <1>1, <1>4 DEF AheadInv
  <2>2. k \in 1 .. C + 1 - 1
    BY <1>2
  <2>3. Pending[k].image = h.image => k <= ahead[h.frame]
    BY <1>1, <1>2, <2>2 DEF AheadInv
  <2>4. QED
    BY <1>2, <2>1, <2>3
<1> HIDE DEF C, h
<1>7. C + 1 <= buffer_strategy
  <2> DEFINE shown == [k \in 1 .. C + 1 |-> Pending[k].image]
  <2>1. SUFFICES ASSUME C + 1 > buffer_strategy PROVE FALSE
    BY <1>2, <1>5
  <2>2. /\ IsFiniteSet(1 .. C + 1) /\ Cardinality(1 .. C + 1) = C + 1
    BY <1>2, FS_Interval
  <2>3. IsFiniteSet(Images) /\ Cardinality(Images) = buffer_strategy
    <3>1. /\ IsFiniteSet(0 .. buffer_strategy - 1)
          /\ Cardinality(0 .. buffer_strategy - 1) =
               IF 0 > buffer_strategy - 1 THEN 0 ELSE buffer_strategy - 1 - 0 + 1
      <4>1. buffer_strategy - 1 \in Int /\ 0 \in Int
        BY <1>5
      <4>2. QED
        BY <4>1, FS_Interval
    <3>2. QED
      BY <1>5, <3>1
  <2>4. \A k \in 1 .. C + 1 : k \in DOMAIN Pending
    BY <1>2, <1>3
  <2>5. shown \in [1 .. C + 1 -> Images]
    BY <2>4 DEF OrderInv, PendingInRange
  <2> HIDE DEF shown
  <2>6. Cardinality(Images) < Cardinality(1 .. C + 1)
    BY <2>1, <2>2, <2>3
  <2>7. \E j, k \in 1 .. C + 1 : j # k /\ shown[j] = shown[k]
    <3> DEFINE places == 1 .. C + 1
    <3>1. /\ IsFiniteSet(places) /\ IsFiniteSet(Images)
          /\ Cardinality(Images) < Cardinality(places)
          /\ shown \in [places -> Images]
      BY <2>2, <2>3, <2>5, <2>6
    <3> HIDE DEF places
    <3>2. \E j, k \in places : j # k /\ shown[j] = shown[k]
      BY <3>1, FS_PigeonHole
    <3>3. QED
      BY <3>2 DEF places
  <2>8. PICK j, k \in 1 .. C + 1 : j # k /\ Pending[j].image = Pending[k].image
    BY <2>7 DEF shown
  <2>9. CASE j = C + 1
    <3>1. k \in 1 .. C
      BY <1>2, <2>8, <2>9
    <3>2. QED
      BY <1>3, <1>6, <2>8, <2>9, <3>1
  <2>10. CASE k = C + 1
    <3>1. j \in 1 .. C
      BY <1>2, <2>8, <2>10
    <3>2. QED
      BY <1>3, <1>6, <2>8, <2>10, <3>1
  <2>11. CASE j \in 1 .. C /\ k \in 1 .. C
    BY <1>1, <2>8, <2>11 DEF FinishedIsPrefix, C
  <2>12. QED
    BY <1>2, <2>9, <2>10, <2>11
<1>8. ASSUME NEW k \in 1 .. C PROVE Pending[k].frame # h.frame
  <2> DEFINE m == C + 1
  <2>1. m \in DOMAIN Pending /\ Pending[m] = h
    BY <1>3
  <2>2. k \in DOMAIN Pending /\ k < m /\ m - k < buffer_strategy
    BY <1>2, <1>3, <1>5, <1>7
  <2> HIDE DEF m
  <2>3. Pending[k].frame # Pending[m].frame
    BY <2>1, <2>2 DEF OrderInv, WindowDistinct
  <2>4. QED
    BY <2>1, <2>3
<1>9. QED
  BY <1>3, <1>6, <1>7, <1>8 DEF C, h

\* A submission is queued together with its present.
LEMMA CountSubmit ==
  ASSUME Known, OrderInv, CountInv, unsubmitted = {}, Submits
  PROVE  QueuedIsSuffix' /\ FinishedIsPrefix' /\ AheadInv'
<1> DEFINE C == Completed
           G == Len(Queued)
           L == Len(Pending)
<1>1. QueuedIsSuffix /\ FinishedIsPrefix /\ AheadInv
  BY DEF CountInv
<1>2. /\ C \in Nat /\ G \in Nat /\ L \in Nat /\ L = C + G
      /\ DOMAIN Pending = 1 .. L /\ DOMAIN Queued = 1 .. G
  BY <1>1, CompletedType
<1>3. /\ Pending \in Seq(Presents) /\ Queued \in Seq(Presents)
      /\ Current \in Presents
      /\ Current.frame = current_frame /\ Current.image = image_index
  BY QueueTypes DEF Current
<1>4. /\ Pending' = Append(Pending, Current) /\ Queued' = Append(Queued, Current)
      /\ step = "record" /\ step' = "present"
      /\ UNCHANGED <<Frames, buffer_strategy, available_semaphores,
                     finished_semaphores, ahead>>
  BY DEF Submits, Adds, Semaphores, Frames
<1>5. /\ Len(Pending') = L + 1 /\ DOMAIN Pending' = 1 .. L + 1
      /\ \A k \in 1 .. L : Pending'[k] = Pending[k]
      /\ Pending'[L + 1] = Current
      /\ Len(Queued') = G + 1 /\ DOMAIN Queued' = 1 .. G + 1
      /\ \A q \in 1 .. G : Queued'[q] = Queued[q]
      /\ Queued'[G + 1] = Current
  BY <1>3, <1>4, Pushed
<1>6. Completed' = C
  BY <1>2, <1>5 DEF Completed
<1> HIDE DEF C, G, L
<1>7. QueuedIsSuffix'
  <2> SUFFICES ASSUME NEW q \in 1 .. G + 1
               PROVE  Queued'[q] = Pending'[C + q]
    BY <1>2, <1>5, <1>6 DEF QueuedIsSuffix
  <2>1. CASE q = G + 1
    BY <1>2, <1>5, <2>1
  <2>2. CASE q \in 1 .. G
    <3>1. C + q \in 1 .. L
      BY <1>2, <2>2
    <3>2. Queued[q] = Pending[C + q]
      BY <1>1, <1>2, <2>2 DEF QueuedIsSuffix, C
    <3>3. QED
      BY <1>5, <2>2, <3>1, <3>2
  <2>3. QED
    BY <1>2, <2>1, <2>2
<1>8. \A k \in 1 .. C : Pending'[k] = Pending[k]
  BY <1>2, <1>5
<1>9. FinishedIsPrefix'
  <2>1. Completed' <= buffer_strategy'
    BY <1>1, <1>4, <1>6 DEF FinishedIsPrefix, C
  <2>2. ASSUME NEW f \in Frames
        PROVE  finished_semaphores'[f] = "signaled" <=>
                 \E k \in 1 .. C : Pending'[k].frame = f
    <3>1. finished_semaphores[f] = "signaled" <=>
            \E k \in 1 .. C : Pending[k].frame = f
      BY <1>1 DEF FinishedIsPrefix, C
    <3>2. finished_semaphores'[f] = finished_semaphores[f]
      BY <1>4
    <3>3. QED
      BY <1>8, <3>1, <3>2
  <2>3. ASSUME NEW j \in 1 .. C, NEW k \in 1 .. C,
               Pending'[j].image = Pending'[k].image
        PROVE  j = k
    BY <1>1, <1>8, <2>3 DEF FinishedIsPrefix, C
  <2>4. QED
    BY <1>4, <1>6, <2>1, <2>2, <2>3 DEF FinishedIsPrefix
<1>10. AheadInv'
  <2> SUFFICES ASSUME NEW q \in 1 .. G + 1, NEW j \in 1 .. C + q - 1,
                      Pending'[j].image = Queued'[q].image
               PROVE  j <= ahead[Queued'[q].frame]
    BY <1>1, <1>4, <1>5, <1>6 DEF AheadInv
  <2>1. j \in 1 .. L /\ Pending'[j] = Pending[j]
    BY <1>2, <1>5
  <2>2. CASE q = G + 1
    BY <1>1, <1>2, <1>3, <1>4, <1>5, <2>1, <2>2 DEF AheadInv
  <2>3. CASE q \in 1 .. G
    <3>1. Queued'[q] = Queued[q]
      BY <1>5, <2>3
    <3>2. QED
      BY <1>1, <1>2, <2>1, <2>3, <3>1 DEF AheadInv, C
  <2>4. QED
    BY <1>2, <2>2, <2>3
<1>11. QED
  BY <1>7, <1>9, <1>10

\* The oldest submission is completed.
LEMMA CountComplete ==
  ASSUME Known, OrderInv, CountInv, unsubmitted = {}, Completes
  PROVE  QueuedIsSuffix' /\ FinishedIsPrefix' /\ AheadInv'
<1> DEFINE C == Completed
           G == Len(Queued)
           h == Queued[1].frame
<1>1. QueuedIsSuffix /\ FinishedIsPrefix /\ AheadInv
  BY DEF CountInv
<1>2. /\ Queued # <<>> /\ Queued' = Tail(Queued) /\ CanComplete
      /\ available_semaphores' = [available_semaphores EXCEPT ![h] = "unsignaled"]
      /\ finished_semaphores' = [finished_semaphores EXCEPT ![h] = "signaled"]
      /\ UNCHANGED <<Pending, ahead, step, Current, Frames, buffer_strategy>>
  BY DEF Completes, Lasting, Frames
<1>3. /\ C \in Nat /\ Len(Pending) \in Nat /\ Len(Pending) = C + G
      /\ DOMAIN Pending = 1 .. Len(Pending) /\ DOMAIN Queued = 1 .. G
  BY <1>1, CompletedType
<1>4. /\ G \in Nat \ {0} /\ Len(Queued') = G - 1 /\ DOMAIN Queued' = 1 .. G - 1
      /\ \A q \in 1 .. G - 1 : Queued'[q] = Queued[q + 1]
  BY <1>2, QueueTypes, Popped
<1>5. Completed' = C + 1
  BY <1>2, <1>3, <1>4 DEF Completed
<1>6. available_semaphores[h] = "signaled"
  <2>1. gpu_queue[1].frame = h /\ Oldest.frame = gpu_queue[1].frame
    <3>1. 1 \in DOMAIN Queued /\ gpu_queue \in Seq(Submissions)
      BY <1>3, <1>4 DEF Known, FenceInv, SyncTypes
    <3>2. 1 \in DOMAIN gpu_queue
      BY <3>1 DEF Queued
    <3>3. QED
      BY <3>1, <3>2 DEF Queued, Oldest
  <2>2. QED
    BY <1>2, <2>1 DEF CanComplete
<1>7. /\ C + 1 \in DOMAIN Pending /\ Pending[C + 1] = Queued[1]
      /\ C + 1 <= buffer_strategy
      /\ \A k \in 1 .. C : /\ Pending[k].image # Queued[1].image
                           /\ Pending[k].frame # h
  BY <1>2, <1>6, OldestIsNew
<1>8. h \in Frames
  BY <1>3, <1>4, QueuedFrames
<1> HIDE DEF C, G, h
<1>9. /\ \A f \in Frames : f # h =>
           /\ finished_semaphores'[f] = finished_semaphores[f]
           /\ available_semaphores'[f] = available_semaphores[f]
      /\ finished_semaphores'[h] = "signaled"
      /\ available_semaphores'[h] = "unsignaled"
  BY <1>2, <1>8 DEF Known, PresentTypes, FenceInv, SyncTypes
<1>10. \A q \in 1 .. G - 1 : /\ q + 1 \in DOMAIN Queued
                             /\ C + 1 + q = C + (q + 1)
                             /\ C + 1 + q - 1 = C + (q + 1) - 1
  BY <1>3, <1>4
<1>11. QueuedIsSuffix'
  <2>1. ASSUME NEW q \in 1 .. G - 1 PROVE Queued'[q] = Pending[C + 1 + q]
    BY <1>1, <1>4, <1>10 DEF QueuedIsSuffix, C
  <2>2. C + 1 >= 0
    BY <1>3
  <2>3. \A q \in DOMAIN Queued' : Queued'[q] = Pending'[C + 1 + q]
    BY <1>2, <1>4, <2>1
  <2>4. QED
    BY <1>5, <2>2, <2>3 DEF QueuedIsSuffix
<1>12. \A k \in 1 .. C + 1 : k \in 1 .. C \/ k = C + 1
  BY <1>3
<1>13. 1 .. C \subseteq 1 .. C + 1 /\ C + 1 \in 1 .. C + 1
  BY <1>3
<1>14. FinishedIsPrefix'
  <2>1. Completed' <= buffer_strategy'
    BY <1>2, <1>5, <1>7
  <2>2. ASSUME NEW f \in Frames
        PROVE  finished_semaphores'[f] = "signaled" <=>
                 \E k \in 1 .. C + 1 : Pending[k].frame = f
    <3>1. CASE f = h
      BY <1>7, <1>9, <1>13, <3>1 DEF h
    <3>2. CASE f # h
      <4>1. finished_semaphores[f] = "signaled" <=>
              \E k \in 1 .. C : Pending[k].frame = f
        BY <1>1 DEF FinishedIsPrefix, C
      <4>2. Pending[C + 1].frame # f
        BY <1>7, <3>2 DEF h
      <4>3. QED
        BY <1>9, <1>12, <1>13, <3>2, <4>1, <4>2
    <3>3. QED
      BY <3>1, <3>2
  <2>3. ASSUME NEW j \in 1 .. C + 1, NEW k \in 1 .. C + 1,
               Pending[j].image = Pending[k].image
        PROVE  j = k
    <3>1. CASE j \in 1 .. C /\ k \in 1 .. C
      BY <1>1, <2>3, <3>1 DEF FinishedIsPrefix, C
    <3>2. CASE j = C + 1 \/ k = C + 1
      BY <1>7, <1>12, <2>3, <3>2
    <3>3. QED
      BY <1>12, <3>1, <3>2
  <2>4. QED
    BY <1>2, <1>5, <2>1, <2>2, <2>3 DEF FinishedIsPrefix
<1>15. AheadInv'
  <2>1. \A f \in Frames : available_semaphores'[f] = "signaled" => ahead[f] = 0
    BY <1>1, <1>9 DEF AheadInv
  <2>2. ASSUME NEW q \in 1 .. G - 1, NEW j \in 1 .. C + 1 + q - 1,
               Pending[j].image = Queued'[q].image
        PROVE  j <= ahead[Queued'[q].frame]
    BY <1>1, <1>4, <1>10, <2>2 DEF AheadInv, C
  <2>3. step' = "record" => \A j \in DOMAIN Pending :
          Pending[j].image = image_index' => j <= ahead[current_frame']
    BY <1>1, <1>2 DEF AheadInv, Current
  <2>4. QED
    BY <1>2, <1>4, <1>5, <2>1, <2>2, <2>3 DEF AheadInv
<1>16. QED
  BY <1>11, <1>14, <1>15

\* The oldest present, which is that of a completed submission, is processed.
LEMMA CountShow ==
  ASSUME Known, OrderInv, CountInv, unsubmitted = {}, Shows
  PROVE  QueuedIsSuffix' /\ FinishedIsPrefix' /\ AheadInv'
<1> DEFINE C == Completed
           L == Len(Pending)
           h == Pending[1].frame
<1>1. QueuedIsSuffix /\ FinishedIsPrefix /\ AheadInv
  BY DEF CountInv
<1>2. /\ Pending # <<>> /\ Pending' = Tail(Pending)
      /\ finished_semaphores[h] = "signaled"
      /\ finished_semaphores' = [finished_semaphores EXCEPT ![h] = "unsignaled"]
      /\ ahead' = [f \in Frames |-> IF ahead[f] > 0 THEN ahead[f] - 1 ELSE 0]
      /\ UNCHANGED <<Queued, available_semaphores, step, Current, Frames,
                     buffer_strategy>>
      /\ ahead \in [Frames -> Nat]
  BY DEF Shows, Lasting, Frames, Known, PresentTypes
<1>3. /\ C \in Nat /\ Len(Queued) \in Nat /\ L = C + Len(Queued)
      /\ DOMAIN Queued = 1 .. Len(Queued)
  BY <1>1, CompletedType
<1>4. /\ L \in Nat \ {0} /\ DOMAIN Pending = 1 .. L
      /\ Len(Pending') = L - 1 /\ DOMAIN Pending' = 1 .. L - 1
      /\ \A k \in 1 .. L - 1 : Pending'[k] = Pending[k + 1]
  BY <1>2, QueueTypes, Popped
<1>5. h \in Frames
  BY <1>4 DEF OrderInv, PendingInRange
<1>6. C >= 1
  <2>1. \E k \in 1 .. C : Pending[k].frame = h
    BY <1>1, <1>2, <1>5 DEF FinishedIsPrefix
  <2>2. QED
    BY <1>3, <2>1
<1>7. Completed' = C - 1
  BY <1>2, <1>3, <1>4 DEF Completed
<1>8. buffer_strategy \in Nat
  BY ImageCountsAssumption DEF Known, Invariant, TypeOK
<1> HIDE DEF C, L, h
<1>9. ASSUME NEW k \in 1 .. C - 1
      PROVE  /\ k + 1 \in 1 .. C /\ k + 1 # 1
             /\ Pending'[k] = Pending[k + 1]
             /\ Pending[k + 1].frame # h
  <2>1. /\ k + 1 \in 1 .. C /\ k + 1 # 1
        /\ Pending'[k] = Pending[k + 1]
    BY <1>3, <1>4, <1>6
  <2>2. /\ 1 \in DOMAIN Pending /\ k + 1 \in DOMAIN Pending
        /\ 1 < k + 1 /\ (k + 1) - 1 < buffer_strategy
    BY <1>1, <1>3, <1>4, <1>6, <1>8, <2>1 DEF FinishedIsPrefix, C
  <2>3. Pending[1].frame # Pending[k + 1].frame
    BY <1>8, <2>2 DEF OrderInv, WindowDistinct
  <2>4. QED
    BY <2>1, <2>3 DEF h
<1>10. QueuedIsSuffix'
  <2>1. ASSUME NEW q \in DOMAIN Queued
        PROVE  Queued[q] = Pending'[C - 1 + q]
    <3>1. C - 1 + q \in 1 .. L - 1 /\ C - 1 + q + 1 = C + q
      BY <1>3, <1>4, <1>6
    <3>2. Pending'[C - 1 + q] = Pending[C + q]
      BY <1>4, <3>1
    <3>3. QED
      BY <1>1, <3>2 DEF QueuedIsSuffix, C
  <2>2. C - 1 >= 0
    BY <1>3, <1>6
  <2>3. QED
    BY <1>2, <1>7, <2>1, <2>2 DEF QueuedIsSuffix
<1>11. FinishedIsPrefix'
  <2>1. C - 1 <= buffer_strategy
    BY <1>1, <1>3, <1>8 DEF FinishedIsPrefix, C
  <2>2. ASSUME NEW f \in Frames
        PROVE  finished_semaphores'[f] = "signaled" <=>
                 \E k \in 1 .. C - 1 : Pending'[k].frame = f
    <3>1. CASE f = h
      <4>1. finished_semaphores'[f] = "unsignaled"
        BY <1>2, <1>5, <3>1 DEF Known, PresentTypes
      <4>2. QED
        BY <1>9, <3>1, <4>1
    <3>2. CASE f # h
      <4>1. finished_semaphores'[f] = finished_semaphores[f]
        BY <1>2, <3>2 DEF Known, PresentTypes
      <4>2. finished_semaphores[f] = "signaled" <=>
              \E k \in 1 .. C : Pending[k].frame = f
        BY <1>1 DEF FinishedIsPrefix, C
      <4>3. ASSUME NEW k \in 1 .. C, Pending[k].frame = f
            PROVE  k - 1 \in 1 .. C - 1 /\ Pending'[k - 1].frame = f
        <5>1. k # 1
          BY <3>2, <4>3 DEF h
        <5>2. k - 1 \in 1 .. C - 1 /\ (k - 1) + 1 = k
          BY <1>3, <5>1
        <5>3. QED
          BY <1>9, <4>3, <5>2
      <4>4. QED
        BY <1>9, <4>1, <4>2, <4>3
    <3>3. QED
      BY <3>1, <3>2
  <2>3. ASSUME NEW j \in 1 .. C - 1, NEW k \in 1 .. C - 1,
               Pending'[j].image = Pending'[k].image
        PROVE  j = k
    <3>1. j + 1 = k + 1
      BY <1>1, <1>9, <2>3 DEF FinishedIsPrefix, C
    <3>2. QED
      BY <1>3, <3>1
  <2>4. QED
    BY <1>2, <1>7, <2>1, <2>2, <2>3 DEF FinishedIsPrefix
<1>12. AheadInv'
  <2>1. ASSUME NEW f \in Frames, NEW j \in Nat, j + 1 <= ahead[f]
        PROVE  j <= ahead'[f]
    BY <1>2, <2>1
  <2>2. ASSUME NEW f \in Frames, available_semaphores'[f] = "signaled"
        PROVE  ahead'[f] = 0
    BY <1>1, <1>2, <2>2 DEF AheadInv
  <2>3. ASSUME NEW q \in DOMAIN Queued, NEW j \in 1 .. C - 1 + q - 1,
               Pending'[j].image = Queued[q].image
        PROVE  j <= ahead'[Queued[q].frame]
    <3>1. /\ j \in 1 .. L - 1 /\ j + 1 \in 1 .. C + q - 1 /\ j \in Nat
      BY <1>3, <1>4, <1>6
    <3>2. Pending[j + 1].image = Queued[q].image
      BY <1>4, <2>3, <3>1
    <3>3. j + 1 <= ahead[Queued[q].frame]
      BY <1>1, <3>1, <3>2 DEF AheadInv, C
    <3>4. QED
      BY <2>1, <3>1, <3>3, QueuedFrames
  <2>4. ASSUME step = "record", NEW j \in 1 .. L - 1,
               Pending'[j].image = image_index
        PROVE  j <= ahead'[current_frame]
    <3>1. j + 1 \in DOMAIN Pending /\ Pending[j + 1].image = image_index
      BY <1>4, <2>4
    <3>2. j + 1 <= ahead[current_frame]
      BY <1>1, <2>4, <3>1 DEF AheadInv
    <3>3. j \in Nat
      OBVIOUS
    <3>4. QED
      BY <2>1, <2>4, <3>2, <3>3 DEF OrderInv, PendingInRange
  <2>5. UNCHANGED <<image_index, current_frame>>
    BY <1>2 DEF Current
  <2>6. QED
    BY <1>2, <1>4, <1>7, <2>2, <2>3, <2>4, <2>5 DEF AheadInv
<1>13. QED
  BY <1>10, <1>11, <1>12

\* An image is acquired, behind the presents of it that are still pending.
LEMMA CountAcquire ==
  ASSUME Known, CountInv, unsubmitted = {}, Acquires
  PROVE  QueuedIsSuffix' /\ FinishedIsPrefix' /\ AheadInv'
<1>1. QueuedIsSuffix /\ FinishedIsPrefix /\ AheadInv
  BY DEF CountInv
<1>2. /\ UNCHANGED <<Pending, Queued, finished_semaphores, buffer_strategy,
                     Frames, Completed, current_frame>>
      /\ step = "acquire" /\ current_frame \in Frames
  BY CurrentFrameIsFrame DEF Acquires, Lasting, Frames, Completed, Known
<1>3. QueuedIsSuffix' /\ FinishedIsPrefix'
  BY <1>1, <1>2 DEF QueuedIsSuffix, FinishedIsPrefix
<1>4. PICK k \in 0 .. Len(Pending) :
        /\ ahead' = [ahead EXCEPT ![current_frame] = k]
        /\ \A j \in DOMAIN Pending : Pending[j].image = image_index' => j <= k
  BY DEF Acquires
<1>5. /\ ahead'[current_frame] = k
      /\ available_semaphores'[current_frame] = "pending"
      /\ \A f \in Frames : f # current_frame =>
           /\ ahead'[f] = ahead[f]
           /\ available_semaphores'[f] = available_semaphores[f]
  BY <1>2, <1>4 DEF Acquires, Known, PresentTypes, FenceInv, SyncTypes
<1>6. ASSUME NEW q \in DOMAIN Queued
      PROVE  ahead'[Queued[q].frame] = ahead[Queued[q].frame]
  BY <1>2, <1>5, QueuedFrames
<1>7. AheadInv'
  <2>1. \A f \in Frames : available_semaphores'[f] = "signaled" => ahead'[f] = 0
    BY <1>1, <1>5 DEF AheadInv
  <2>2. \A q \in DOMAIN Queued : \A j \in 1 .. Completed + q - 1 :
          Pending[j].image = Queued[q].image => j <= ahead'[Queued[q].frame]
    BY <1>1, <1>6 DEF AheadInv
  <2>3. QED
    BY <1>2, <1>4, <1>5, <2>1, <2>2 DEF AheadInv
<1>8. QED
  BY <1>3, <1>7

LEMMA CountHolds == FrameSpec => []CountInv
<1>1. Known /\ Known' /\ PresentsNeedSwapchain /\ OrderInv /\ CountInv
        /\ [FrameNext]_allVars => CountInv'
  <2> SUFFICES ASSUME Known, Known', OrderInv, CountInv, QueueNext
               PROVE  CountInv'
    BY QueueStep
  <2>1. CASE Empties
    <3>1. /\ Pending' = <<>> /\ Queued' = <<>> /\ step' = "wait"
          /\ \A f \in Frames' : finished_semaphores'[f] = "unsignaled"
                               /\ available_semaphores'[f] = "unsignaled"
      BY <2>1 DEF Empties
    <3>2. buffer_strategy' \in Nat
      BY ImageCountsAssumption DEF Known, Invariant, TypeOK
    <3>3. Completed' = 0
      BY <3>1 DEF Completed
    <3>4. QED
      BY <3>1, <3>2, <3>3
      DEF CountInv, QueuedIsSuffix, FinishedIsPrefix, AheadInv
  <2>2. CASE Fails
    BY <2>2 DEF Fails, CountInv
  <2> SUFFICES ASSUME ~Empties, ~Fails, unsubmitted = {}
               PROVE  QueuedIsSuffix' /\ FinishedIsPrefix' /\ AheadInv'
    <3>1. ~Empties /\ ~Fails => UNCHANGED unsubmitted
      BY DEF QueueNext, Rests, Acquires, Submits, Completes, Signals, Shows, Lasting
    <3>2. QED
      BY <2>1, <2>2, <3>1 DEF CountInv
  <2>3. CASE Rests
    <3>1. /\ UNCHANGED <<Pending, Queued, Semaphores, Frames, buffer_strategy,
                         Completed>>
          /\ step' = "record" =>
               step = "record" /\ UNCHANGED <<current_frame, image_index>>
      BY <2>3 DEF Rests, Lasting, Frames, Completed, Current
    <3>2. QED
      BY <3>1
      DEF CountInv, QueuedIsSuffix, FinishedIsPrefix, AheadInv, Semaphores
  <2>4. CASE Signals
    <3>1. PICK f \in Frames :
            /\ ahead[f] = 0
            /\ available_semaphores' = [available_semaphores EXCEPT ![f] = "signaled"]
      BY <2>4 DEF Signals
    <3>2. /\ UNCHANGED <<Pending, Queued, finished_semaphores, ahead, Frames,
                         buffer_strategy, Completed>>
          /\ UNCHANGED <<step, current_frame, image_index>>
      BY <2>4 DEF Signals, Lasting, Frames, Completed, Current
    <3>3. \A g \in Frames : available_semaphores'[g] = "signaled" =>
            ahead[g] = 0
      <4>1. \A g \in Frames : g # f =>
              available_semaphores'[g] = available_semaphores[g]
        BY <3>1 DEF Known, FenceInv, SyncTypes
      <4>2. QED
        BY <3>1, <4>1 DEF CountInv, AheadInv
    <3>4. QED
      BY <3>2, <3>3 DEF CountInv, QueuedIsSuffix, FinishedIsPrefix, AheadInv
  <2>5. QED
    BY <2>3, <2>4, CountSubmit, CountComplete, CountShow, CountAcquire
    DEF QueueNext
<1>2. QED
  BY <1>1, CountInit, KnownHolds, PresentsNeedSwapchainHolds, OrderHolds, PTL
  DEF FrameSpec

-----------------------------------------------------------------------------
(* What follows of the semaphores.                                         *)

\* The oldest submission, when it ends, as a present.
LEMMA OldestCompletes ==
  ASSUME Known, CanComplete
  PROVE  /\ Queued # <<>> /\ 1 \in DOMAIN Queued
         /\ Oldest.frame = Queued[1].frame
         /\ available_semaphores[Queued[1].frame] = "signaled"
<1>1. gpu_queue \in Seq(Submissions) /\ gpu_queue # <<>>
  BY DEF Known, FenceInv, SyncTypes, CanComplete
<1>2. 1 \in DOMAIN gpu_queue /\ Oldest = gpu_queue[1]
  BY <1>1 DEF Oldest
<1>3. 1 \in DOMAIN Queued /\ Oldest.frame = Queued[1].frame
  BY <1>2 DEF Queued
<1>4. Queued # <<>>
  BY <1>3
<1>5. QED
  BY <1>3, <1>4 DEF CanComplete

\* Whatever images the presentation engine hands out and in whatever order the
\* parties run, a submission that ends finds the finished semaphore of its frame
\* consumed, if no submission failed.  Neither a fence nor a semaphore says so.
THEOREM SignalsConsumedSemaphore == FrameSpec => []FinishedSemaphoreConsumed
<1>1. Known /\ OrderInv /\ CountInv => FinishedSemaphoreConsumed
  <2> SUFFICES ASSUME Known, OrderInv, CountInv, CanComplete, unsubmitted = {}
               PROVE  finished_semaphores[Oldest.frame] = "unsignaled"
    BY DEF FinishedSemaphoreConsumed
  <2>1. Oldest.frame \in Frames
    BY OldestCompletes, QueuedFrames
  <2>2. \A k \in 1 .. Completed : Pending[k].frame # Oldest.frame
    BY OldestCompletes, OldestIsNew
  <2>3. finished_semaphores[Oldest.frame] # "signaled"
    BY <2>1, <2>2 DEF CountInv, FinishedIsPrefix
  <2>4. QED
    BY <2>1, <2>3 DEF Known, PresentTypes
<1>2. QED
  BY <1>1, KnownHolds, OrderHolds, CountHolds, PTL

\* With nothing on the GPU and no failed submission, every pending present has
\* its semaphore signaled.
LEMMA PresentsWaitForNothing ==
  ASSUME Known, OrderInv, CountInv, unsubmitted = {}, gpu_queue = <<>>,
         step = "wait"
  PROVE  \A k \in DOMAIN present_queue :
           finished_semaphores[present_queue[k].frame] = "signaled"
<1>1. Pending = present_queue /\ Queued = <<>>
  BY DEF Pending, Queued
<1>2. /\ QueuedIsSuffix /\ FinishedIsPrefix
      /\ Len(Queued) = 0
  BY <1>1 DEF CountInv
<1>3. Completed = Len(Pending) /\ DOMAIN Pending = 1 .. Completed
  BY <1>2, CompletedType
<1>4. ASSUME NEW k \in DOMAIN Pending
      PROVE  finished_semaphores[Pending[k].frame] = "signaled"
  <2>1. Pending[k].frame \in Frames
    BY DEF OrderInv, PendingInRange
  <2>2. \E j \in 1 .. Completed : Pending[j].frame = Pending[k].frame
    BY <1>3
  <2>3. QED
    BY <1>2, <2>1, <2>2 DEF FinishedIsPrefix
<1>5. QED
  BY <1>1, <1>4

\* With nothing on the GPU and no failed submission, an acquire is outstanding at
\* most for a frame whose fence was reset without a submission.
LEMMA AcquiresAreOver ==
  ASSUME Known, unsubmitted = {}, gpu_queue = <<>>, step = "wait",
         NEW f \in Frames, f = current_frame => pc # "recreate"
  PROVE  available_semaphores[f] = "unsignaled"
<1>1. ~Submitted(f) /\ ~Reset(f)
  BY DEF Submitted, Reset
<1>2. fences[f] # "unsignaled"
  BY <1>1 DEF Known, FenceInv, Unsignaled
<1>3. fences[f] = "signaled"
  BY <1>2 DEF Known, FenceInv, SyncTypes
<1>4. QED
  BY <1>3 DEF Known, FenceInv, Signaled

\* vkDeviceWaitIdle, which waits neither for presents nor for acquires, is enough:
\* whenever the objects are destroyed the GPU is through with them, the presents
\* that remain wait for nothing, and no acquire is outstanding but that of the
\* frame in which the surface went out of date.
THEOREM DestroysIdleObjects == FrameSpec => DestroysNothingInUse
<1> DEFINE Safe ==
      swapchain = "live" /\ swapchain' # "live" =>
        /\ gpu_queue = <<>>
        /\ unsubmitted = {} =>
             OnlyPresentsRemain(IF pc = "recreate" THEN {current_frame} ELSE {})
<1>1. Known /\ Known' /\ PresentsNeedSwapchain /\ OrderInv /\ CountInv
        /\ [FrameNext]_allVars => Safe
  <2> SUFFICES ASSUME Known, Known', PresentsNeedSwapchain, OrderInv, CountInv,
                      [FrameNext]_allVars, swapchain = "live", swapchain' # "live"
               PROVE  /\ gpu_queue = <<>>
                      /\ unsubmitted = {} => OnlyPresentsRemain(
                           IF pc = "recreate" THEN {current_frame} ELSE {})
    OBVIOUS
  <2>1. FrameVulkanInit \/ FrameCreate \/ FrameDestroy \/ FrameTeardown
    <3>1. SUFFICES ASSUME ~(FrameVulkanInit \/ FrameCreate \/ FrameDestroy
                            \/ FrameTeardown)
                   PROVE  swapchain' = swapchain
      OBVIOUS
    <3>2. Rests \/ Acquires \/ Submits \/ Fails \/ Completes \/ Signals \/ Shows
      BY <3>1, HostRests, DrawQueues, GpuQueues, EngineQueues DEF FrameNext, Host
    <3>3. QED
      BY <3>2 DEF Rests, Acquires, Submits, Fails, Adds, Completes, Signals, Shows,
                  Lasting
  <2>2. step = "wait" /\ gpu_queue = <<>>
    <3>1. CASE FrameVulkanInit \/ FrameCreate
      BY <3>1 DEF FrameVulkanInit, FrameCreate, VulkanInit, CreatePresentObjects,
                  Known, Invariant, Lifecycle, WhenLive
    <3>2. CASE FrameDestroy
      BY <3>2 DEF FrameDestroy, DestroyPresentObjects, Known, FenceInv, Place
    <3>3. CASE FrameTeardown
      BY <3>3 DEF FrameTeardown, TeardownPresentObjects, DeviceIdle, Known,
                  FenceInv, Place
    <3>4. QED
      BY <2>1, <3>1, <3>2, <3>3
  <2>3. ASSUME unsubmitted = {}
        PROVE  OnlyPresentsRemain(
                 IF pc = "recreate" THEN {current_frame} ELSE {})
    <3>1. \A k \in DOMAIN present_queue :
            finished_semaphores[present_queue[k].frame] = "signaled"
      BY <2>2, <2>3, PresentsWaitForNothing
    <3>2. QED
      BY <2>2, <2>3, <3>1, AcquiresAreOver DEF OnlyPresentsRemain
  <2>4. QED
    BY <2>2, <2>3
<1>2. QED
  BY <1>1, KnownHolds, PresentsNeedSwapchainHolds, OrderHolds, CountHolds, PTL
  DEF FrameSpec, DestroysNothingInUse

-----------------------------------------------------------------------------
(* No wait of the host is in vain, as long as no submission fails.         *)

\* A submission is preceded by its acquire, and what the presentation engine lets
\* it wait for is a present of an older submission.
AcquiredInv ==
  unsubmitted = {} =>
    /\ \A q \in DOMAIN Queued :
         /\ available_semaphores[Queued[q].frame] # "unsignaled"
         /\ ahead[Queued[q].frame] <= Completed + q - 1
    /\ step = "record" =>
         /\ available_semaphores[current_frame] # "unsignaled"
         /\ ahead[current_frame] <= Len(Pending)

LEMMA AcquiredInit == FrameInit => AcquiredInv
<1> SUFFICES ASSUME FrameInit PROVE AcquiredInv
  OBVIOUS
<1>1. Queued = <<>> /\ step = "wait"
  BY DEF FrameInit, Init, Queued
<1>2. QED
  BY <1>1 DEF AcquiredInv

\* The frame whose image was acquired last is submitted.
LEMMA AcquiredSubmit ==
  ASSUME Known, CountInv, AcquiredInv, unsubmitted = {}, Submits
  PROVE  AcquiredInv'
<1> DEFINE C == Completed
           G == Len(Queued)
           L == Len(Pending)
<1>1. /\ C \in Nat /\ G \in Nat /\ L \in Nat /\ L = C + G
      /\ DOMAIN Queued = 1 .. G
  BY CompletedType DEF CountInv
<1>2. /\ Pending \in Seq(Presents) /\ Queued \in Seq(Presents)
      /\ Current \in Presents /\ Current.frame = current_frame
  BY QueueTypes DEF Current
<1>3. /\ Pending' = Append(Pending, Current) /\ Queued' = Append(Queued, Current)
      /\ step = "record" /\ step' = "present"
      /\ UNCHANGED <<available_semaphores, ahead>>
  BY DEF Submits, Adds, Semaphores
<1>4. /\ Len(Pending') = L + 1
      /\ Len(Queued') = G + 1 /\ DOMAIN Queued' = 1 .. G + 1
      /\ \A q \in 1 .. G : Queued'[q] = Queued[q]
      /\ Queued'[G + 1] = Current
  BY <1>2, <1>3, Pushed
<1>5. Completed' = C
  BY <1>1, <1>4 DEF Completed
<1>6. /\ \A q \in 1 .. G : /\ available_semaphores[Queued[q].frame] # "unsignaled"
                           /\ ahead[Queued[q].frame] <= C + q - 1
      /\ available_semaphores[current_frame] # "unsignaled"
      /\ ahead[current_frame] <= C + G
  BY <1>1, <1>3 DEF AcquiredInv
<1> HIDE DEF C, G, L
<1>7. ASSUME NEW q \in 1 .. G + 1
      PROVE  /\ available_semaphores[Queued'[q].frame] # "unsignaled"
             /\ ahead[Queued'[q].frame] <= C + q - 1
  <2>1. CASE q \in 1 .. G
    BY <1>4, <1>6, <2>1
  <2>2. CASE q = G + 1
    <3>1. Queued'[q].frame = current_frame /\ C + q - 1 = C + G
      BY <1>1, <1>2, <1>4, <2>2
    <3>2. QED
      BY <1>6, <3>1
  <2>3. QED
    BY <1>1, <2>1, <2>2
<1>8. QED
  BY <1>3, <1>4, <1>5, <1>7 DEF AcquiredInv

\* The oldest submission is completed.
LEMMA AcquiredComplete ==
  ASSUME Known, CountInv, AcquiredInv, unsubmitted = {}, Completes
  PROVE  AcquiredInv'
<1> DEFINE C == Completed
           G == Len(Queued)
           h == Queued[1].frame
<1>1. /\ Queued # <<>> /\ Queued' = Tail(Queued)
      /\ available_semaphores' = [available_semaphores EXCEPT ![h] = "unsignaled"]
      /\ UNCHANGED <<Pending, ahead, step, current_frame>>
  BY DEF Completes, Current
<1>2. /\ C \in Nat /\ G \in Nat /\ Len(Pending) = C + G
      /\ DOMAIN Queued = 1 .. G
  BY CompletedType DEF CountInv
<1>3. /\ G \in Nat \ {0} /\ Len(Queued') = G - 1 /\ DOMAIN Queued' = 1 .. G - 1
      /\ \A q \in 1 .. G - 1 : Queued'[q] = Queued[q + 1]
  BY <1>1, QueueTypes, Popped
<1>4. Completed' = C + 1
  BY <1>1, <1>2, <1>3 DEF Completed
<1> HIDE DEF C, G
<1>5. /\ \A q \in 1 .. G - 1 : Queued[q + 1].frame # h
      /\ step = "record" => current_frame # h
  <2>1. \A q \in 1 .. G - 1 : q + 1 \in DOMAIN Queued /\ q + 1 # 1
    BY <1>2, <1>3
  <2>2. 1 \in DOMAIN Queued
    BY <1>2, <1>3
  <2>3. QED
    BY <2>1, <2>2, QueuedFrames
<1> HIDE DEF h
<1>6. \A f : f # h => available_semaphores'[f] = available_semaphores[f]
  BY <1>1 DEF Known, FenceInv, SyncTypes
<1>7. ASSUME NEW q \in 1 .. G - 1
      PROVE  /\ available_semaphores'[Queued'[q].frame] # "unsignaled"
             /\ ahead[Queued'[q].frame] <= C + 1 + q - 1
  <2>1. /\ q + 1 \in DOMAIN Queued /\ Queued'[q] = Queued[q + 1]
        /\ C + (q + 1) - 1 = C + 1 + q - 1
    BY <1>2, <1>3
  <2>2. /\ available_semaphores[Queued[q + 1].frame] # "unsignaled"
        /\ ahead[Queued[q + 1].frame] <= C + (q + 1) - 1
    BY <2>1 DEF AcquiredInv, C
  <2>3. QED
    BY <1>5, <1>6, <2>1, <2>2
<1>8. step = "record" =>
        /\ available_semaphores'[current_frame] # "unsignaled"
        /\ ahead[current_frame] <= Len(Pending)
  BY <1>5, <1>6 DEF AcquiredInv
<1>9. QED
  BY <1>1, <1>3, <1>4, <1>7, <1>8 DEF AcquiredInv

\* The oldest present is processed: every submission waits for one less.
LEMMA AcquiredShow ==
  ASSUME Known, OrderInv, CountInv, AcquiredInv, unsubmitted = {}, Shows
  PROVE  AcquiredInv'
<1> DEFINE C == Completed
           L == Len(Pending)
<1>1. /\ Pending # <<>> /\ Pending' = Tail(Pending)
      /\ finished_semaphores[Pending[1].frame] = "signaled"
      /\ ahead' = [f \in Frames |-> IF ahead[f] > 0 THEN ahead[f] - 1 ELSE 0]
      /\ UNCHANGED <<Queued, available_semaphores, step, current_frame>>
      /\ ahead \in [Frames -> Nat]
  BY DEF Shows, Current, Known, PresentTypes
<1>2. /\ C \in Nat /\ Len(Queued) \in Nat /\ L = C + Len(Queued)
      /\ DOMAIN Queued = 1 .. Len(Queued)
  BY CompletedType DEF CountInv
<1>3. L \in Nat \ {0} /\ DOMAIN Pending = 1 .. L /\ Len(Pending') = L - 1
  BY <1>1, QueueTypes, Popped
<1>4. C >= 1
  <2>1. Pending[1].frame \in Frames
    BY <1>3 DEF OrderInv, PendingInRange
  <2>2. \E k \in 1 .. C : Pending[k].frame = Pending[1].frame
    BY <1>1, <2>1 DEF CountInv, FinishedIsPrefix
  <2>3. QED
    BY <1>2, <2>2
<1>5. Completed' = C - 1
  BY <1>1, <1>2, <1>3 DEF Completed
<1> HIDE DEF C, L
<1>6. ASSUME NEW f \in Frames, NEW n \in Nat, ahead[f] <= n, n >= 1
      PROVE  ahead'[f] <= n - 1
  <2>1. ahead[f] \in Nat /\ ahead'[f] = IF ahead[f] > 0 THEN ahead[f] - 1 ELSE 0
    BY <1>1
  <2>2. QED
    BY <1>6, <2>1
<1>7. ASSUME NEW q \in DOMAIN Queued
      PROVE  ahead'[Queued[q].frame] <= C - 1 + q - 1
  <2>1. /\ C + q - 1 \in Nat /\ C + q - 1 >= 1
        /\ (C + q - 1) - 1 = C - 1 + q - 1
    BY <1>2, <1>4
  <2>2. ahead[Queued[q].frame] <= C + q - 1
    BY DEF AcquiredInv, C
  <2>3. Queued[q].frame \in Frames
    BY QueuedFrames
  <2>4. ahead'[Queued[q].frame] <= (C + q - 1) - 1
    BY <1>6, <2>1, <2>2, <2>3
  <2>5. QED
    BY <2>1, <2>4
<1>8. step = "record" => ahead'[current_frame] <= L - 1
  <2> SUFFICES ASSUME step = "record" PROVE ahead'[current_frame] <= L - 1
    OBVIOUS
  <2>1. L \in Nat /\ L >= 1
    BY <1>3
  <2>2. ahead[current_frame] <= L
    BY DEF AcquiredInv, L
  <2>3. current_frame \in Frames
    BY DEF OrderInv, PendingInRange
  <2>4. QED
    BY <1>6, <2>1, <2>2, <2>3
<1>9. \A q \in DOMAIN Queued : available_semaphores[Queued[q].frame] # "unsignaled"
  BY DEF AcquiredInv
<1>10. step = "record" => available_semaphores[current_frame] # "unsignaled"
  BY DEF AcquiredInv
<1>11. QED
  BY <1>1, <1>3, <1>5, <1>7, <1>8, <1>9, <1>10 DEF AcquiredInv

\* An image is acquired.
LEMMA AcquiredAcquire ==
  ASSUME Known, AcquiredInv, unsubmitted = {}, Acquires
  PROVE  AcquiredInv'
<1>1. /\ UNCHANGED <<Pending, Queued, Completed, current_frame>>
      /\ step = "acquire" /\ current_frame \in Frames
  BY CurrentFrameIsFrame DEF Acquires, Completed, Known
<1>2. PICK k \in 0 .. Len(Pending) : ahead' = [ahead EXCEPT ![current_frame] = k]
  BY DEF Acquires
<1>3. /\ ahead'[current_frame] = k
      /\ available_semaphores'[current_frame] = "pending"
      /\ \A f \in Frames : f # current_frame =>
           /\ ahead'[f] = ahead[f]
           /\ available_semaphores'[f] = available_semaphores[f]
  BY <1>1, <1>2 DEF Acquires, Known, PresentTypes, FenceInv, SyncTypes
<1>4. ASSUME NEW q \in DOMAIN Queued
      PROVE  /\ ahead'[Queued[q].frame] = ahead[Queued[q].frame]
             /\ available_semaphores'[Queued[q].frame] =
                  available_semaphores[Queued[q].frame]
  BY <1>1, <1>3, QueuedFrames
<1>5. \A q \in DOMAIN Queued :
        /\ available_semaphores'[Queued[q].frame] # "unsignaled"
        /\ ahead'[Queued[q].frame] <= Completed + q - 1
  BY <1>4 DEF AcquiredInv
<1>6. k <= Len(Pending)
  BY QueueTypes, LenProperties
<1>7. QED
  BY <1>1, <1>3, <1>5, <1>6 DEF AcquiredInv

LEMMA AcquiredHolds == FrameSpec => []AcquiredInv
<1>1. Known /\ Known' /\ PresentsNeedSwapchain /\ OrderInv /\ CountInv
        /\ AcquiredInv /\ [FrameNext]_allVars => AcquiredInv'
  <2> SUFFICES ASSUME Known, OrderInv, CountInv, AcquiredInv, QueueNext
               PROVE  AcquiredInv'
    BY QueueStep
  <2>1. CASE Empties
    BY <2>1 DEF Empties, AcquiredInv
  <2>2. CASE Fails
    BY <2>2 DEF Fails, AcquiredInv
  <2> SUFFICES ASSUME ~Empties, ~Fails, unsubmitted = {}
               PROVE  AcquiredInv'
    <3>1. ~Empties /\ ~Fails => UNCHANGED unsubmitted
      BY DEF QueueNext, Rests, Acquires, Submits, Completes, Signals, Shows, Lasting
    <3>2. QED
      BY <2>1, <2>2, <3>1 DEF AcquiredInv
  <2>3. CASE Rests
    <3>1. /\ UNCHANGED <<Pending, Queued, Semaphores, Completed>>
          /\ step' = "record" => step = "record" /\ UNCHANGED current_frame
      BY <2>3 DEF Rests, Completed, Current
    <3>2. QED
      BY <3>1 DEF AcquiredInv, Semaphores
  <2>4. CASE Signals
    <3>1. PICK f \in Frames :
            available_semaphores' = [available_semaphores EXCEPT ![f] = "signaled"]
      BY <2>4 DEF Signals
    <3>2. UNCHANGED <<Pending, Queued, Completed, ahead, step, current_frame>>
      BY <2>4 DEF Signals, Completed, Current
    <3>3. \A g : available_semaphores[g] # "unsignaled" =>
                   available_semaphores'[g] # "unsignaled"
      BY <3>1 DEF Known, FenceInv, SyncTypes
    <3>4. QED
      BY <3>2, <3>3 DEF AcquiredInv
  <2>5. QED
    BY <2>3, <2>4, AcquiredSubmit, AcquiredComplete, AcquiredShow, AcquiredAcquire
    DEF QueueNext
<1>2. QED
  BY <1>1, AcquiredInit, KnownHolds, PresentsNeedSwapchainHolds, OrderHolds,
     CountHolds, PTL DEF FrameSpec

\* A present whose submission is completed can be processed as soon as it is
\* the oldest, and it is queued unless the host is just about to do so.
LEMMA FinishedPresentsMove ==
  ASSUME Known, OrderInv, CountInv, unsubmitted = {}, Completed >= 1,
         gpu_queue # <<>> \/ step # "present"
  PROVE  CanPresent
<1>1. /\ Completed \in Nat /\ Len(Pending) \in Nat
      /\ DOMAIN Pending = 1 .. Len(Pending)
      /\ Len(Queued) \in Nat /\ Len(Pending) = Completed + Len(Queued)
  BY CompletedType DEF CountInv
<1>2. /\ present_queue \in Seq(Presents) /\ Current \in Presents
      /\ gpu_queue \in Seq(Submissions) /\ Len(Queued) = Len(gpu_queue)
  BY QueueTypes DEF Known, PresentTypes, FenceInv, SyncTypes
<1>3. present_queue # <<>>
  <2>1. CASE step # "present"
    BY <1>1, <1>2, <2>1 DEF Pending
  <2>2. CASE gpu_queue # <<>> /\ step = "present"
    <3>1. Len(gpu_queue) >= 1
      BY <1>2, <2>2
    <3>2. Len(Pending) = Len(present_queue) + 1 /\ Len(present_queue) \in Nat
      BY <1>2, <2>2, Pushed DEF Pending
    <3>3. Len(present_queue) >= 1
      BY <1>1, <1>2, <3>1, <3>2
    <3>4. QED
      BY <3>3
  <2>3. QED
    BY <2>1, <2>2
<1>4. Pending[1] = Head(present_queue)
  BY <1>2, <1>3, AppendProperties DEF Pending
<1>5. 1 \in DOMAIN Pending /\ 1 \in 1 .. Completed
  BY <1>1
<1>6. finished_semaphores[Pending[1].frame] = "signaled"
  BY <1>5 DEF CountInv, FinishedIsPrefix, OrderInv, PendingInRange
<1>7. QED
  BY <1>3, <1>4, <1>6 DEF CanPresent, PresentMayProceed

\* A submission in progress always leaves somebody a step to take: the GPU, or
\* the presentation engine for the present it waits for.
LEMMA SubmissionsMove ==
  ASSUME Known, OrderInv, CountInv, AcquiredInv, unsubmitted = {},
         gpu_queue # <<>>
  PROVE  OthersCanMove
<1> DEFINE f == Queued[1].frame
<1>1. /\ Queued # <<>> /\ 1 \in DOMAIN Queued /\ 1 \in DOMAIN gpu_queue
      /\ Oldest = gpu_queue[1] /\ Oldest.frame = f
  <2>1. gpu_queue \in Seq(Submissions)
    BY DEF Known, FenceInv, SyncTypes
  <2>2. 1 \in DOMAIN gpu_queue /\ Oldest = gpu_queue[1]
    BY <2>1 DEF Oldest
  <2>3. 1 \in DOMAIN Queued /\ Queued[1].frame = gpu_queue[1].frame
    BY <2>2 DEF Queued
  <2>4. Queued # <<>>
    BY <2>3
  <2>5. QED
    BY <2>2, <2>3, <2>4
<1>2. f \in Frames
  BY <1>1, QueuedFrames
<1>3. available_semaphores[f] \in {"signaled", "pending"}
  BY <1>1, <1>2 DEF AcquiredInv, Known, FenceInv, SyncTypes
<1>4. ahead[f] \in Nat /\ ahead[f] <= Completed /\ Completed \in Nat
  <2>1. Completed \in Nat
    BY CompletedType DEF CountInv
  <2>2. ahead[f] <= Completed + 1 - 1
    BY <1>1 DEF AcquiredInv
  <2>3. ahead[f] \in Nat
    BY <1>2 DEF Known, PresentTypes
  <2>4. QED
    BY <2>1, <2>2, <2>3
<1> HIDE DEF f
<1>5. CASE ~Oldest.cleared
  BY <1>5 DEF OthersCanMove, CanClear, CommandStage, DstPipelineStage
<1>6. CASE Oldest.cleared /\ available_semaphores[f] = "signaled"
  BY <1>1, <1>6 DEF OthersCanMove, CanComplete
<1>7. CASE available_semaphores[f] = "pending" /\ ahead[f] = 0
  BY <1>2, <1>7 DEF OthersCanMove, CanSignal
<1>8. CASE ahead[f] # 0
  BY <1>4, <1>8, FinishedPresentsMove DEF OthersCanMove
<1>9. QED
  BY <1>3, <1>5, <1>6, <1>7, <1>8

\* Whatever draw_frame or the end of app_run waits for, somebody else can take a
\* step meanwhile, if no submission failed: the waits never form a circle.
THEOREM HostWaitsForOthers == FrameSpec => []WaitsOnlyForOthers
<1>1. Known /\ OrderInv /\ CountInv /\ AcquiredInv => WaitsOnlyForOthers
  <2> SUFFICES ASSUME Known, OrderInv, CountInv, AcquiredInv, HostWaits,
                      unsubmitted = {}
               PROVE  OthersCanMove
    BY DEF WaitsOnlyForOthers
  <2>1. CASE gpu_queue # <<>>
    BY <2>1, SubmissionsMove
  <2>2. CASE gpu_queue = <<>>
    <3>1. CASE At("wait") /\ ~FenceWaited
      <4>1. current_frame \in Frames
        BY <3>1, CurrentFrameIsFrame DEF At, Known
      <4>2. fences[current_frame] = "unsignaled"
        BY <3>1, <4>1 DEF FenceWaited, Known, FenceInv, SyncTypes
      <4>3. Submitted(current_frame)
        BY <3>1, <4>1, <4>2 DEF Known, FenceInv, Unsignaled, Reset, At, Drawing
      <4>4. QED
        BY <2>2, <4>3 DEF Submitted
    <3>2. CASE At("acquire") /\ Acquirable = {}
      <4>1. Images # {}
        <5>1. current_frame \in Frames
          BY <3>2, CurrentFrameIsFrame DEF At, Known
        <5>2. QED
          BY <5>1 DEF Frames, Images
      <4>2. present_queue # <<>> /\ step = "acquire"
        <5>1. Presenting # {}
          BY <3>2, <4>1 DEF Acquirable
        <5>2. QED
          BY <3>2, <5>1 DEF Presenting, At
      <4>3. Pending = present_queue /\ Queued = <<>>
        BY <2>2, <4>2 DEF Pending, Queued
      <4>4. Completed >= 1
        <5>1. Completed = Len(present_queue) /\ Completed \in Nat
          BY <4>3, CompletedType DEF CountInv, Completed
        <5>2. Len(present_queue) # 0
          BY <4>2, QueueTypes, <4>3
        <5>3. QED
          BY <5>1, <5>2
      <4>5. QED
        BY <4>2, <4>4, FinishedPresentsMove DEF OthersCanMove
    <3>3. CASE (At("idle") \/ pc = "exit") /\ ~DeviceIdle
      BY <2>2, <3>3 DEF DeviceIdle
    <3>4. QED
      BY <3>1, <3>2, <3>3 DEF HostWaits
  <2>3. QED
    BY <2>1, <2>2
<1>2. QED
  BY <1>1, KnownHolds, OrderHolds, CountHolds, AcquiredHolds, PTL

-----------------------------------------------------------------------------
(* How long the waits are.                                                 *)

Outstanding == {f \in Frames : available_semaphores[f] = "pending"}
Begun == IF gpu_queue # <<>> /\ Oldest.cleared THEN 1 ELSE 0

LEMMA FramesCount ==
  Known => /\ buffer_strategy \in Nat
           /\ IsFiniteSet(Frames) /\ Cardinality(Frames) <= buffer_strategy
<1> SUFFICES ASSUME Known
             PROVE  /\ buffer_strategy \in Nat
                    /\ IsFiniteSet(Frames) /\ Cardinality(Frames) <= buffer_strategy
  OBVIOUS
<1>1. buffer_strategy \in Nat
  BY ImageCountsAssumption DEF Known, Invariant, TypeOK
<1>2. IsFiniteSet({}) /\ Cardinality({}) = 0
  BY FS_EmptySet
<1>3. /\ IsFiniteSet(0 .. buffer_strategy - 1)
      /\ Cardinality(0 .. buffer_strategy - 1) =
           IF 0 > buffer_strategy - 1 THEN 0 ELSE buffer_strategy - 1 - 0 + 1
  <2>1. buffer_strategy - 1 \in Int /\ 0 \in Int
    BY <1>1
  <2>2. QED
    BY <2>1, FS_Interval
<1>4. Frames = {} \/ Frames = 0 .. buffer_strategy - 1
  BY DEF Frames
<1>5. QED
  BY <1>1, <1>2, <1>3, <1>4

\* The parts of the backlog are numbers.
BacklogParts ==
  /\ Len(present_queue) \in Nat /\ Len(gpu_queue) \in Nat /\ Begun \in 0 .. 1
  /\ IsFiniteSet(Outstanding)
  /\ Cardinality(Outstanding) \in Nat
  /\ Cardinality(Outstanding) <= buffer_strategy
  /\ Backlog = Len(present_queue) + 2 * Len(gpu_queue) - Begun
                 + Cardinality(Outstanding)
  /\ Backlog \in Nat

LEMMA BacklogTypes == Known => BacklogParts
<1> SUFFICES ASSUME Known PROVE BacklogParts
  OBVIOUS
<1>1. present_queue \in Seq(Presents) /\ gpu_queue \in Seq(Submissions)
  BY DEF Known, PresentTypes, FenceInv, SyncTypes
<1>2. /\ Len(present_queue) \in Nat /\ Len(gpu_queue) \in Nat
      /\ gpu_queue # <<>> => Len(gpu_queue) >= 1
  BY <1>1, LenProperties, EmptySeq
<1>3. Begun \in 0 .. 1 /\ (Begun = 1 => Len(gpu_queue) >= 1)
  BY <1>2 DEF Begun
<1>4. /\ buffer_strategy \in Nat
      /\ IsFiniteSet(Frames) /\ Cardinality(Frames) <= buffer_strategy
      /\ Cardinality(Frames) \in Nat
  BY FramesCount, FS_CardinalityType
<1>5. Outstanding \in SUBSET Frames
  BY DEF Outstanding
<1>6. IsFiniteSet(Outstanding) /\ Cardinality(Outstanding) <= Cardinality(Frames)
  BY <1>4, <1>5, FS_Subset
<1>7. Cardinality(Outstanding) \in Nat
  BY <1>6, FS_CardinalityType
<1>8. Cardinality(Outstanding) <= buffer_strategy
  BY <1>4, <1>6, <1>7
<1>9. Backlog = Len(present_queue) + 2 * Len(gpu_queue) - Begun
                  + Cardinality(Outstanding)
  BY DEF Backlog, Begun, Outstanding
<1>10. Backlog \in Nat
  BY <1>2, <1>3, <1>7, <1>9
<1>11. QED
  BY <1>2, <1>3, <1>6, <1>7, <1>8, <1>9, <1>10 DEF BacklogParts

LEMMA BacklogPartsHold == FrameSpec => []BacklogParts
BY BacklogTypes, KnownHolds, PTL

\* The submissions in progress are of different frames.
LEMMA QueuedAtMostFrames == Known => Len(gpu_queue) <= buffer_strategy
<1> SUFFICES ASSUME Known PROVE Len(gpu_queue) <= buffer_strategy
  OBVIOUS
<1> DEFINE G == Len(gpu_queue)
           S == 1 .. G
           g == [k \in S |-> gpu_queue[k].frame]
<1>1. G \in Nat /\ DOMAIN gpu_queue = S
  <2>1. gpu_queue \in Seq(Submissions)
    BY DEF Known, FenceInv, SyncTypes
  <2>2. QED
    BY <2>1, LenProperties
<1>2. IsFiniteSet(S) /\ Cardinality(S) = G
  <2>1. \A n \in Nat : IsFiniteSet(1 .. n) /\ Cardinality(1 .. n) = n
    BY FS_Interval
  <2>2. QED
    BY <1>1, <2>1
<1>3. g \in [S -> Frames] /\ \A j, k \in S : g[j] = g[k] => j = k
  BY <1>1 DEF Known, FenceInv, QueueOrder
<1>4. /\ buffer_strategy \in Nat
      /\ IsFiniteSet(Frames) /\ Cardinality(Frames) <= buffer_strategy
  BY FramesCount
<1>5. Cardinality(Frames) \in Nat
  BY <1>4, FS_CardinalityType
<1> HIDE DEF S, g
<1>6. ASSUME Cardinality(Frames) < Cardinality(S) PROVE FALSE
  <2>1. \E j, k \in S : j # k /\ g[j] = g[k]
    BY <1>2, <1>3, <1>4, <1>6, FS_PigeonHole
  <2>2. QED
    BY <1>3, <2>1
<1>7. QED
  BY <1>1, <1>2, <1>4, <1>5, <1>6

\* At most two rounds of frames are on their way, and each frame has at most one
\* acquire outstanding.
THEOREM BoundsBacklog == FrameSpec => []BacklogIsBounded
<1>1. Known /\ CountInv /\ BacklogParts => BacklogIsBounded
  <2> SUFFICES ASSUME Known, CountInv, BacklogParts, unsubmitted = {}
               PROVE  Backlog <= 5 * buffer_strategy
    BY DEF BacklogIsBounded
  <2> DEFINE P == Len(present_queue)
             G == Len(gpu_queue)
             O == Cardinality(Outstanding)
             C == Completed
  <2>1. buffer_strategy \in Nat
    BY FramesCount
  <2>2. /\ P \in Nat /\ G \in Nat /\ Begun \in 0 .. 1 /\ O \in Nat
        /\ O <= buffer_strategy /\ Backlog = P + 2 * G - Begun + O
    BY DEF BacklogParts
  <2>3. G <= buffer_strategy
    BY QueuedAtMostFrames
  <2>4. C \in Nat /\ C <= buffer_strategy /\ Len(Pending) = C + G
    BY CompletedType, QueueTypes DEF CountInv, FinishedIsPrefix
  <2>5. P <= Len(Pending)
    <3>1. present_queue \in Seq(Presents) /\ Current \in Presents
      BY QueueTypes DEF Known, PresentTypes
    <3>2. Len(Append(present_queue, Current)) = P + 1
      BY <3>1, Pushed
    <3>3. QED
      BY <2>2, <3>2 DEF Pending
  <2> HIDE DEF P, G, O, C
  <2>6. P <= 2 * buffer_strategy /\ 2 * G <= 2 * buffer_strategy
    BY <2>1, <2>2, <2>3, <2>4, <2>5
  <2>7. QED
    BY <2>1, <2>2, <2>6
<1>2. QED
  BY <1>1, KnownHolds, CountHolds, BacklogPartsHold, PTL

\* The steps that the waits of the host are for.
OthersStep == ClearImage \/ CompleteSubmission \/ Signal \/ PresentImage

\* Every step of the GPU and of the presentation engine uses up some of the
\* backlog.  With HostWaitsForOthers and BoundsBacklog: while the host waits, they
\* can take a step, and after as many as the backlog the wait is over.
THEOREM OthersUseUpBacklog ==
  FrameSpec => [][OthersStep => Backlog \in Nat /\ Backlog' \in Nat
                                /\ Backlog' < Backlog]_allVars
<1>1. Known /\ BacklogParts /\ BacklogParts' /\ OthersStep
        => Backlog \in Nat /\ Backlog' \in Nat /\ Backlog' < Backlog
  <2> SUFFICES ASSUME Known, BacklogParts, BacklogParts', OthersStep
               PROVE  Backlog \in Nat /\ Backlog' \in Nat /\ Backlog' < Backlog
    OBVIOUS
  <2>1. /\ Len(present_queue) \in Nat /\ Len(gpu_queue) \in Nat
        /\ Begun \in 0 .. 1 /\ Cardinality(Outstanding) \in Nat
        /\ IsFiniteSet(Outstanding)
        /\ Backlog = Len(present_queue) + 2 * Len(gpu_queue) - Begun
                       + Cardinality(Outstanding)
        /\ Backlog \in Nat
    BY DEF BacklogParts
  <2>2. /\ Len(present_queue') \in Nat /\ Len(gpu_queue') \in Nat
        /\ Begun' \in 0 .. 1 /\ Cardinality(Outstanding') \in Nat
        /\ Backlog' = Len(present_queue') + 2 * Len(gpu_queue') - Begun'
                        + Cardinality(Outstanding')
        /\ Backlog' \in Nat
    BY DEF BacklogParts
  <2>3. /\ present_queue \in Seq(Presents) /\ gpu_queue \in Seq(Submissions)
        /\ available_semaphores \in [Frames -> {"signaled", "unsignaled", "pending"}]
    BY DEF Known, PresentTypes, FenceInv, SyncTypes
  <2>4. UNCHANGED Frames
    BY DEF OthersStep, ClearImage, CompleteSubmission, Signal, SignalAvailable,
           PresentImage, vars, presentVars, Frames
  <2>5. CASE ClearImage
    <3>1. /\ UNCHANGED <<present_queue, available_semaphores>>
          /\ gpu_queue # <<>> /\ ~Oldest.cleared
          /\ gpu_queue' = [gpu_queue EXCEPT ![1] = [frame |-> @.frame,
                             image |-> @.image, cleared |-> TRUE]]
      BY <2>5 DEF ClearImage, CanClear, syncVars
    <3>2. Len(gpu_queue') = Len(gpu_queue)
      BY <2>3, <3>1
    <3>3. Begun = 0
      BY <3>1 DEF Begun
    <3>4. Begun' = 1
      <4>1. 1 \in DOMAIN gpu_queue
        BY <2>3, <3>1
      <4>2. gpu_queue' # <<>> /\ gpu_queue'[1].cleared = TRUE
        BY <2>3, <3>1, <4>1
      <4>3. Oldest' = gpu_queue'[1]
        BY DEF Oldest
      <4>4. QED
        BY <4>2, <4>3 DEF Begun
    <3>5. UNCHANGED Outstanding
      BY <2>4, <3>1 DEF Outstanding
    <3>6. QED
      BY <2>1, <2>2, <3>1, <3>2, <3>3, <3>4, <3>5
  <2>6. CASE CompleteSubmission
    <3>1. /\ UNCHANGED present_queue /\ gpu_queue # <<>>
          /\ gpu_queue' = Tail(gpu_queue)
          /\ available_semaphores[Oldest.frame] = "signaled"
          /\ available_semaphores' =
               [available_semaphores EXCEPT ![Oldest.frame] = "unsignaled"]
      BY <2>6 DEF CompleteSubmission, CanComplete
    <3>2. Len(gpu_queue') = Len(gpu_queue) - 1
      BY <2>3, <3>1, HeadTailProperties
    <3>3. \A f \in Frames : available_semaphores'[f] = "pending" <=>
                              available_semaphores[f] = "pending"
      BY <2>3, <3>1
    <3>4. UNCHANGED Outstanding
      BY <2>4, <3>3 DEF Outstanding
    <3>5. QED
      BY <2>1, <2>2, <3>1, <3>2, <3>4
  <2>7. CASE Signal
    <3>1. PICK f \in Frames : SignalAvailable(f)
      BY <2>7 DEF Signal
    <3>2. /\ UNCHANGED <<present_queue, gpu_queue>>
          /\ available_semaphores[f] = "pending"
          /\ available_semaphores' = [available_semaphores EXCEPT ![f] = "signaled"]
      BY <3>1 DEF SignalAvailable, CanSignal, queueVars
    <3>3. UNCHANGED Begun
      BY <3>2 DEF Begun, Oldest
    <3>4. \A h \in Frames : available_semaphores'[h] = "pending" <=>
                              h # f /\ available_semaphores[h] = "pending"
      BY <2>3, <3>2
    <3>5. f \in Outstanding /\ Outstanding' = Outstanding \ {f}
      BY <2>4, <3>2, <3>4 DEF Outstanding
    <3>6. Cardinality(Outstanding') = Cardinality(Outstanding) - 1
      BY <2>1, <3>5, FS_RemoveElement
    <3>7. QED
      BY <2>1, <2>2, <3>2, <3>3, <3>6
  <2>8. CASE PresentImage
    <3>1. /\ UNCHANGED <<gpu_queue, available_semaphores>>
          /\ present_queue # <<>> /\ present_queue' = Tail(present_queue)
      BY <2>8 DEF PresentImage, CanPresent
    <3>2. Len(present_queue') = Len(present_queue) - 1
      BY <2>3, <3>1, HeadTailProperties
    <3>3. UNCHANGED <<Begun, Outstanding>>
      BY <2>4, <3>1 DEF Begun, Oldest, Outstanding
    <3>4. QED
      BY <2>1, <2>2, <3>1, <3>2, <3>3
  <2>9. QED
    BY <2>5, <2>6, <2>7, <2>8 DEF OthersStep
<1>2. QED
  BY <1>1, KnownHolds, BacklogPartsHold, PTL DEF FrameSpec

-----------------------------------------------------------------------------
(* The frame loop as a FramePipeline: what is on the GPU is queued, and    *)
(* the presents whose submission is completed are rendered.                *)

FramesOf(s) == [k \in DOMAIN s |-> s[k].frame]

LEMMA FramesOfTypes ==
  ASSUME NEW s \in Seq(Presents)
  PROVE  /\ FramesOf(s) \in Seq(Nat)
         /\ Len(FramesOf(s)) = Len(s)
         /\ \A k \in 1 .. Len(s) : FramesOf(s)[k] = s[k].frame
<1>1. Len(s) \in Nat /\ DOMAIN s = 1 .. Len(s)
      /\ \A k \in DOMAIN s : s[k].frame \in Nat
  <2>1. Len(s) \in Nat /\ DOMAIN s = 1 .. Len(s)
    BY LenProperties
  <2>2. \A k \in DOMAIN s : s[k] \in Presents
    BY <2>1
  <2>3. QED
    BY <2>1, <2>2 DEF Presents
<1>2. FramesOf(s) \in [1 .. Len(s) -> Nat]
      /\ \A k \in 1 .. Len(s) : FramesOf(s)[k] = s[k].frame
  BY <1>1 DEF FramesOf
<1>3. QED
  BY <1>1, <1>2, SeqDef, LenProperties

LEMMA FramesOfPushed ==
  ASSUME NEW s \in Seq(Presents), NEW e \in Presents
  PROVE  FramesOf(Append(s, e)) = Append(FramesOf(s), e.frame)
<1> DEFINE t == FramesOf(Append(s, e))
           u == Append(FramesOf(s), e.frame)
<1>1. /\ Append(s, e) \in Seq(Presents) /\ Len(Append(s, e)) = Len(s) + 1
      /\ \A k \in 1 .. Len(s) : Append(s, e)[k] = s[k]
      /\ Append(s, e)[Len(s) + 1] = e
      /\ Len(s) \in Nat /\ e.frame \in Nat
  BY Pushed DEF Presents
<1>2. /\ t \in Seq(Nat) /\ Len(t) = Len(s) + 1
      /\ \A k \in 1 .. Len(s) + 1 : t[k] = Append(s, e)[k].frame
  BY <1>1, FramesOfTypes
<1>3. /\ u \in Seq(Nat) /\ Len(u) = Len(s) + 1
      /\ \A k \in 1 .. Len(s) : u[k] = s[k].frame
      /\ u[Len(s) + 1] = e.frame
  BY <1>1, FramesOfTypes, AppendProperties
<1> HIDE DEF t, u
<1>4. ASSUME NEW k \in 1 .. Len(s)
      PROVE  t[k] = u[k]
  <2>1. k \in 1 .. Len(s) + 1 /\ Append(s, e)[k] = s[k]
    BY <1>1
  <2>2. t[k] = s[k].frame
    BY <1>2, <2>1
  <2>3. QED
    BY <1>3, <2>2
<1>5. t[Len(s) + 1] = u[Len(s) + 1]
  BY <1>1, <1>2, <1>3
<1>6. \A k \in 1 .. Len(s) + 1 : t[k] = u[k]
  BY <1>1, <1>4, <1>5
<1>7. QED
  BY <1>2, <1>3, <1>6, SeqEqual DEF t, u

LEMMA FramesOfPopped ==
  ASSUME NEW s \in Seq(Presents), s # <<>>
  PROVE  /\ FramesOf(Tail(s)) = Tail(FramesOf(s))
         /\ Head(FramesOf(s)) = s[1].frame
         /\ FramesOf(s) # <<>>
<1> DEFINE t == FramesOf(Tail(s))
           u == Tail(FramesOf(s))
<1>1. /\ Tail(s) \in Seq(Presents) /\ Len(Tail(s)) = Len(s) - 1
      /\ \A k \in 1 .. Len(s) - 1 : Tail(s)[k] = s[k + 1]
      /\ Len(s) \in Nat \ {0}
  BY Popped
<1>2. /\ t \in Seq(Nat) /\ Len(t) = Len(s) - 1
      /\ \A k \in 1 .. Len(s) - 1 : t[k] = Tail(s)[k].frame
  BY <1>1, FramesOfTypes
<1>3. /\ FramesOf(s) \in Seq(Nat) /\ Len(FramesOf(s)) = Len(s)
      /\ \A k \in 1 .. Len(s) : FramesOf(s)[k] = s[k].frame
  BY FramesOfTypes
<1>4. FramesOf(s) # <<>>
  BY <1>1, <1>3
<1>5. /\ u \in Seq(Nat) /\ Len(u) = Len(s) - 1
      /\ \A k \in 1 .. Len(s) - 1 : u[k] = FramesOf(s)[k + 1]
  BY <1>1, <1>3, <1>4, HeadTailProperties
<1> HIDE DEF t, u
<1>6. \A k \in 1 .. Len(s) - 1 : t[k] = u[k]
  BY <1>1, <1>2, <1>3, <1>5
<1>7. t = u
  BY <1>2, <1>5, <1>6, SeqEqual
<1>8. QED
  BY <1>1, <1>3, <1>4, <1>7 DEF t, u

\* The first c elements, before and after a step.
LEMMA Prefix ==
  ASSUME NEW s \in Seq(Nat), NEW c \in 0 .. Len(s)
  PROVE  /\ SubSeq(s, 1, c) \in Seq(Nat) /\ Len(SubSeq(s, 1, c)) = c
         /\ \A k \in 1 .. c : SubSeq(s, 1, c)[k] = s[k]
<1>1. Len(s) \in Nat /\ c \in Nat /\ \A k \in 1 .. c : s[k] \in Nat
  BY LenProperties
<1>2. QED
  BY <1>1, SubSeqProperties

LEMMA PrefixOfPushed ==
  ASSUME NEW s \in Seq(Nat), NEW e \in Nat, NEW c \in 0 .. Len(s)
  PROVE  SubSeq(Append(s, e), 1, c) = SubSeq(s, 1, c)
<1>1. /\ Append(s, e) \in Seq(Nat) /\ Len(Append(s, e)) = Len(s) + 1
      /\ \A k \in 1 .. Len(s) : Append(s, e)[k] = s[k]
      /\ Len(s) \in Nat
  BY AppendProperties, LenProperties
<1>2. c \in 0 .. Len(Append(s, e)) /\ \A k \in 1 .. c : k \in 1 .. Len(s)
  BY <1>1
<1>3. \A k \in 1 .. c : SubSeq(Append(s, e), 1, c)[k] = SubSeq(s, 1, c)[k]
  BY <1>1, <1>2, Prefix
<1>4. QED
  BY <1>1, <1>2, <1>3, Prefix, SeqEqual

LEMMA PrefixGrown ==
  ASSUME NEW s \in Seq(Nat), NEW c \in Nat, c + 1 <= Len(s)
  PROVE  SubSeq(s, 1, c + 1) = Append(SubSeq(s, 1, c), s[c + 1])
<1> DEFINE t == SubSeq(s, 1, c)
           u == SubSeq(s, 1, c + 1)
           e == s[c + 1]
           v == Append(t, e)
<1>1. /\ Len(s) \in Nat /\ c \in 0 .. Len(s) /\ c + 1 \in 0 .. Len(s)
      /\ e \in Nat
  BY LenProperties
<1>2. /\ t \in Seq(Nat) /\ Len(t) = c /\ \A k \in 1 .. c : t[k] = s[k]
  BY <1>1, Prefix
<1>3. /\ u \in Seq(Nat) /\ Len(u) = c + 1 /\ \A k \in 1 .. c + 1 : u[k] = s[k]
      /\ u[c + 1] = e
  BY <1>1, Prefix
<1> HIDE DEF t, u, e
<1>4. /\ v \in Seq(Nat) /\ Len(v) = c + 1
      /\ \A k \in 1 .. c : v[k] = t[k]
      /\ v[c + 1] = e
  BY <1>1, <1>2, AppendProperties
<1> HIDE DEF v
<1>5. ASSUME NEW k \in 1 .. c + 1
      PROVE  u[k] = v[k]
  <2>1. CASE k = c + 1
    BY <1>3, <1>4, <2>1
  <2>2. CASE k \in 1 .. c
    BY <1>2, <1>3, <1>4, <2>2
  <2>3. QED
    BY <2>1, <2>2
<1>6. QED
  BY <1>3, <1>4, <1>5, SeqEqual DEF t, u, v, e

LEMMA PrefixOfPopped ==
  ASSUME NEW s \in Seq(Nat), NEW c \in 1 .. Len(s)
  PROVE  /\ SubSeq(s, 1, c) # <<>>
         /\ SubSeq(Tail(s), 1, c - 1) = Tail(SubSeq(s, 1, c))
<1> DEFINE t == SubSeq(s, 1, c)
           u == SubSeq(Tail(s), 1, c - 1)
           v == Tail(t)
<1>1. /\ Len(s) \in Nat \ {0} /\ c \in 0 .. Len(s) /\ c \in Nat \ {0} /\ s # <<>>
  BY LenProperties, EmptySeq
<1>2. /\ Tail(s) \in Seq(Nat) /\ Len(Tail(s)) = Len(s) - 1
      /\ \A k \in 1 .. Len(s) - 1 : Tail(s)[k] = s[k + 1]
  BY <1>1, HeadTailProperties
<1>3. c - 1 \in 0 .. Len(Tail(s))
  BY <1>1, <1>2
<1>4. /\ t \in Seq(Nat) /\ Len(t) = c /\ \A k \in 1 .. c : t[k] = s[k]
  BY <1>1, Prefix
<1>5. /\ u \in Seq(Nat) /\ Len(u) = c - 1
      /\ \A k \in 1 .. c - 1 : u[k] = Tail(s)[k]
  BY <1>2, <1>3, Prefix
<1> HIDE DEF t, u
<1>6. t # <<>>
  BY <1>1, <1>4
<1>7. /\ v \in Seq(Nat) /\ Len(v) = c - 1
      /\ \A k \in 1 .. c - 1 : v[k] = t[k + 1]
  BY <1>1, <1>4, <1>6, HeadTailProperties
<1> HIDE DEF v
<1>8. \A k \in 1 .. c - 1 : u[k] = v[k]
  BY <1>1, <1>2, <1>4, <1>5, <1>7
<1>9. u = v
  BY <1>5, <1>7, <1>8, SeqEqual
<1>10. QED
  BY <1>6, <1>9 DEF t, u, v

\* What is queued and what is shown, of the queues above.
LEMMA MappedQueues ==
  Known => /\ [k \in DOMAIN gpu_queue |-> gpu_queue[k].frame] = FramesOf(Queued)
           /\ Shown = FramesOf(Pending)
<1> SUFFICES ASSUME Known
             PROVE  /\ [k \in DOMAIN gpu_queue |-> gpu_queue[k].frame] = FramesOf(Queued)
                    /\ Shown = FramesOf(Pending)
  OBVIOUS
<1>1. [k \in DOMAIN gpu_queue |-> gpu_queue[k].frame] = FramesOf(Queued)
  BY DEF FramesOf, Queued
<1>2. present_queue \in Seq(Presents) /\ Current \in Presents
  BY QueueTypes DEF Known, PresentTypes
<1>3. FramesOf(present_queue) \in Seq(Nat) /\ Current.frame = current_frame
      /\ current_frame \in Nat
  BY <1>2, FramesOfTypes DEF Current, Known, Invariant, TypeOK
<1>4. Shown = FramesOf(present_queue) \o
                (IF step = "present" THEN <<current_frame>> ELSE <<>>)
  BY DEF Shown, FramesOf
<1>5. CASE step = "present"
  <2>1. Pending = Append(present_queue, Current)
    BY <1>5 DEF Pending
  <2>2. FramesOf(Pending) = Append(FramesOf(present_queue), current_frame)
    BY <1>2, <1>3, <2>1, FramesOfPushed
  <2>3. QED
    BY <1>1, <1>3, <1>4, <1>5, <2>2, AppendIsConcat
<1>6. CASE step # "present"
  BY <1>1, <1>3, <1>4, <1>6, ConcatEmptySeq DEF Pending
<1>7. QED
  BY <1>1, <1>5, <1>6

\* There are as many signaled semaphores as completed submissions: fewer than
\* buffer_strategy apart, their frames are different.
LEMMA FinishedCount ==
  ASSUME Known, OrderInv, CountInv, unsubmitted = {}
  PROVE  Cardinality(Finished) = Completed
<1> DEFINE C == Completed
           F == Finished
           g == [k \in 1 .. C |-> Pending[k].frame]
<1>1. QueuedIsSuffix /\ FinishedIsPrefix
  BY DEF CountInv
<1>2. C \in Nat /\ DOMAIN Pending = 1 .. Len(Pending) /\ Len(Pending) \in Nat
      /\ C <= Len(Pending) /\ buffer_strategy \in Nat
  BY <1>1, CompletedType, ImageCountsAssumption DEF Known, Invariant, TypeOK
<1>3. /\ C <= buffer_strategy
      /\ \A f \in F : \E k \in 1 .. C : Pending[k].frame = f
      /\ \A k \in 1 .. C : Pending[k].frame \in F
  BY <1>1, <1>2 DEF FinishedIsPrefix, Finished, OrderInv, PendingInRange
<1> HIDE DEF C, F
<1>4. g \in [1 .. C -> F]
  BY <1>3
<1>5. \A f \in F : \E k \in 1 .. C : g[k] = f
  BY <1>3
<1>6. ASSUME NEW j \in 1 .. C, NEW k \in 1 .. C, g[j] = g[k]
      PROVE  j = k
  <2>1. /\ j \in DOMAIN Pending /\ k \in DOMAIN Pending
        /\ j < k => k - j < buffer_strategy
        /\ k < j => j - k < buffer_strategy
    BY <1>2, <1>3
  <2>2. ~(j < k) /\ ~(k < j)
    BY <1>6, <2>1 DEF OrderInv, WindowDistinct
  <2>3. QED
    BY <1>2, <2>2
<1> HIDE DEF g
<1>7. g \in Bijection(1 .. C, F)
  BY <1>4, <1>5, <1>6, Fun_IsBij
<1>8. ExistsBijection(1 .. C, F)
  BY <1>7 DEF ExistsBijection
<1>9. IsFiniteSet(1 .. C) /\ Cardinality(1 .. C) = C
  BY <1>2, FS_Interval
<1>10. Cardinality(F) = C
  BY <1>8, <1>9, FS_Bijection
<1>11. QED
  BY <1>10 DEF C, F

SlotsQueued == [k \in DOMAIN gpu_queue |-> gpu_queue[k].frame]
SlotsRendered == SubSeq(Shown, 1, Cardinality(Finished))

Mapped ==
  /\ SlotsQueued = FramesOf(Queued)
  /\ Shown = FramesOf(Pending)
  /\ unsubmitted = {} => Cardinality(Finished) = Completed

LEMMA MappedHolds == FrameSpec => []Mapped
<1>1. Known /\ OrderInv /\ CountInv => Mapped
  BY MappedQueues, FinishedCount DEF Mapped, SlotsQueued
<1>2. QED
  BY <1>1, KnownHolds, OrderHolds, CountHolds, PTL

\* A step of the frame loop is one of the pipeline or none.
LEMMA PipelineStep ==
  Known /\ Known' /\ PresentsNeedSwapchain /\ OrderInv /\ CountInv /\ Mapped
    /\ Mapped' /\ [FrameNext]_allVars
    => (unsubmitted = {} => [Pipeline!Next]_(Pipeline!vars))
<1> SUFFICES ASSUME Known, Known', PresentsNeedSwapchain, OrderInv, CountInv,
                    Mapped, Mapped', [FrameNext]_allVars, unsubmitted = {}
             PROVE  [Pipeline!Next]_(Pipeline!vars)
  OBVIOUS
<1> DEFINE C == Completed
<1>1. /\ SlotsQueued = FramesOf(Queued)
      /\ SlotsRendered = SubSeq(FramesOf(Pending), 1, C)
      /\ Cardinality(Finished) = C
  BY DEF Mapped, SlotsRendered
<1>2. /\ SlotsQueued' = FramesOf(Queued')
      /\ Shown' = FramesOf(Pending')
  BY DEF Mapped, FramesOf
<1>3. ASSUME UNCHANGED unsubmitted \/ unsubmitted' = {}
      PROVE  SlotsRendered' = SubSeq(FramesOf(Pending'), 1, Completed')
  <2>1. Cardinality(Finished)' = Completed'
    BY <1>3 DEF Mapped
  <2>2. QED
    BY <1>2, <2>1 DEF SlotsRendered
<1>4. QueueNext
  BY QueueStep
<1>5. /\ Pending \in Seq(Presents) /\ Queued \in Seq(Presents)
      /\ Current \in Presents /\ Current.frame = current_frame
  BY QueueTypes DEF Current
<1>6. /\ QueuedIsSuffix /\ C \in Nat /\ C <= Len(Pending)
      /\ Len(Pending) \in Nat /\ Len(Pending) = C + Len(Queued)
      /\ Len(Queued) \in Nat
  BY CompletedType DEF CountInv
<1>7. CASE Rests \/ Acquires \/ Signals
  <2>1. UNCHANGED <<Pending, Queued, Frames, unsubmitted>>
    BY <1>7 DEF Rests, Acquires, Signals, Lasting, Frames
  <2>2. UNCHANGED Completed
    BY <2>1 DEF Completed
  <2>3. UNCHANGED <<Frames, SlotsQueued, SlotsRendered>>
    BY <1>1, <1>2, <1>3, <2>1, <2>2
  <2>4. QED
    BY <2>3 DEF Pipeline!vars, SlotsQueued, SlotsRendered
<1>8. CASE Empties
  <2>1. /\ Queued = <<>> /\ Pending' = <<>> /\ Queued' = <<>>
        /\ unsubmitted' = {}
        /\ swapchain # "live" \/ swapchain' # "live"
    BY <1>8 DEF Empties
  <2>2. Completed' = 0
    BY <2>1 DEF Completed
  <2>3. SlotsQueued = <<>> /\ SlotsQueued' = <<>>
    BY <1>1, <1>2, <2>1 DEF FramesOf
  <2>4. SlotsRendered' = <<>>
    BY <1>3, <2>1, <2>2, SubSeqEmpty
  <2>5. CASE swapchain' # "live"
    <3>1. Frames' = {}
      BY <2>5 DEF Frames
    <3>2. Pipeline!Stop
      BY <2>3, <2>4, <3>1 DEF Pipeline!Stop, SlotsQueued, SlotsRendered
    <3>3. QED
      BY <3>2 DEF Pipeline!Next
  <2>6. CASE swapchain # "live" /\ swapchain' = "live"
    <3>1. Frames = {} /\ Frames' = 0 .. (buffer_strategy' - 1)
      BY <2>6 DEF Frames
    <3>2. buffer_strategy' \in ImageCounts
      BY <2>6 DEF Known, Invariant, TypeOK, Lifecycle, WhenLive
    <3>3. Frames' \in Pipeline!Pipelines
      BY <3>1, <3>2 DEF Pipeline!Pipelines
    <3>4. Pending = <<>>
      BY <2>6 DEF PresentsNeedSwapchain
    <3>5. C = 0
      BY <2>1, <3>4 DEF Completed
    <3>6. SlotsRendered = <<>>
      BY <1>1, <3>5, SubSeqEmpty
    <3>7. Pipeline!Start
      BY <2>3, <2>4, <3>1, <3>3, <3>6
      DEF Pipeline!Start, SlotsQueued, SlotsRendered
    <3>8. QED
      BY <3>7 DEF Pipeline!Next
  <2>7. QED
    BY <2>1, <2>5, <2>6
<1>9. CASE Submits
  <2>1. /\ Pending' = Append(Pending, Current) /\ Queued' = Append(Queued, Current)
        /\ Drawing /\ FrameIndexValid /\ step = "record"
        /\ UNCHANGED <<Frames, unsubmitted>>
    BY <1>9 DEF Submits, Adds, Frames
  <2>2. UNCHANGED Completed
    BY <1>5, <2>1, Pushed DEF Completed
  <2>3. /\ SlotsQueued' = Append(SlotsQueued, current_frame)
        /\ FramesOf(Pending') = Append(FramesOf(Pending), current_frame)
    BY <1>1, <1>2, <1>5, <2>1, FramesOfPushed
  <2>4. UNCHANGED SlotsRendered
    <3>1. /\ FramesOf(Pending) \in Seq(Nat) /\ Len(FramesOf(Pending)) = Len(Pending)
          /\ C \in 0 .. Len(Pending) /\ current_frame \in Nat
      BY <1>5, <1>6, FramesOfTypes DEF Presents
    <3> HIDE DEF C
    <3>2. SubSeq(FramesOf(Pending'), 1, C) = SubSeq(FramesOf(Pending), 1, C)
      BY <2>3, <3>1, PrefixOfPushed
    <3>3. QED
      BY <1>1, <1>3, <2>1, <2>2, <3>2 DEF C
  <2>5. current_frame \in Frames
    BY <2>1, CurrentFrameIsFrame DEF Known
  <2>6. \A k \in DOMAIN SlotsQueued : SlotsQueued[k] # current_frame
    <3>1. \A k \in DOMAIN Queued : Queued[k].frame # current_frame
      BY <2>1, QueuedFrames
    <3>2. QED
      BY <1>1, <3>1 DEF FramesOf
  <2>7. \E f \in Frames : Pipeline!Submit(f)
    BY <2>1, <2>3, <2>4, <2>5, <2>6
    DEF Pipeline!Submit, SlotsQueued, SlotsRendered
  <2>8. QED
    BY <2>7 DEF Pipeline!Next
<1>10. CASE Fails
  <2>1. /\ Pending' = Append(Pending, Current)
        /\ UNCHANGED <<Queued, Frames, finished_semaphores>>
    BY <1>10 DEF Fails, Adds, Frames, Semaphores
  <2>2. UNCHANGED Finished
    BY <2>1 DEF Finished
  <2>3. FramesOf(Pending') = Append(FramesOf(Pending), current_frame)
    BY <1>5, <2>1, FramesOfPushed
  <2>4. UNCHANGED SlotsRendered
    <3>1. /\ FramesOf(Pending) \in Seq(Nat) /\ Len(FramesOf(Pending)) = Len(Pending)
          /\ C \in 0 .. Len(Pending) /\ current_frame \in Nat
      BY <1>5, <1>6, FramesOfTypes DEF Presents
    <3> HIDE DEF C
    <3>2. SubSeq(FramesOf(Pending'), 1, C) = SubSeq(FramesOf(Pending), 1, C)
      BY <2>3, <3>1, PrefixOfPushed
    <3>3. SlotsRendered' = SubSeq(FramesOf(Pending'), 1, C)
      BY <1>1, <1>2, <2>2 DEF SlotsRendered
    <3>4. QED
      BY <1>1, <3>2, <3>3
  <2>5. UNCHANGED <<Frames, SlotsQueued>>
    BY <1>1, <1>2, <2>1
  <2>6. QED
    BY <2>4, <2>5 DEF Pipeline!vars, SlotsQueued, SlotsRendered
<1>11. CASE Completes
  <2>1. /\ Queued # <<>> /\ Queued' = Tail(Queued) /\ CanComplete
        /\ UNCHANGED <<Pending, Frames, unsubmitted>>
    BY <1>11 DEF Completes, Lasting, Frames
  <2>2. Completed' = C + 1
    BY <1>5, <1>6, <2>1, Popped DEF Completed
  <2>3. /\ C + 1 \in DOMAIN Pending /\ Pending[C + 1] = Queued[1]
        /\ \A k \in 1 .. C : Pending[k].frame # Queued[1].frame
    BY <2>1, OldestCompletes, OldestIsNew
  <2>4. /\ SlotsQueued # <<>> /\ Head(SlotsQueued) = Queued[1].frame
        /\ SlotsQueued' = Tail(SlotsQueued)
    BY <1>1, <1>2, <1>5, <2>1, FramesOfPopped
  <2>5. /\ FramesOf(Pending) \in Seq(Nat) /\ Len(FramesOf(Pending)) = Len(Pending)
        /\ \A k \in 1 .. Len(Pending) : FramesOf(Pending)[k] = Pending[k].frame
        /\ C \in 0 .. Len(Pending) /\ C + 1 <= Len(Pending)
        /\ C + 1 \in 1 .. Len(Pending)
    <3>1. DOMAIN Pending = 1 .. Len(Pending)
      BY <1>5, LenProperties
    <3>2. /\ FramesOf(Pending) \in Seq(Nat) /\ Len(FramesOf(Pending)) = Len(Pending)
          /\ \A k \in 1 .. Len(Pending) : FramesOf(Pending)[k] = Pending[k].frame
      BY <1>5, FramesOfTypes
    <3> HIDE DEF C
    <3>3. /\ C \in 0 .. Len(Pending) /\ C + 1 <= Len(Pending)
          /\ C + 1 \in 1 .. Len(Pending)
      BY <1>6, <2>3, <3>1
    <3>4. QED
      BY <3>2, <3>3
  <2> HIDE DEF C
  <2>6. SlotsRendered' = Append(SlotsRendered, Queued[1].frame)
    <3>1. FramesOf(Pending)[C + 1] = Queued[1].frame
      BY <2>3, <2>5
    <3>2. SubSeq(FramesOf(Pending), 1, C + 1) = Append(SlotsRendered, Queued[1].frame)
      BY <1>1, <1>6, <2>5, <3>1, PrefixGrown
    <3>3. QED
      BY <1>3, <2>1, <2>2, <3>2
  <2>7. \A k \in DOMAIN SlotsRendered : SlotsRendered[k] # Queued[1].frame
    <3>1. /\ SlotsRendered \in Seq(Nat) /\ Len(SlotsRendered) = C
          /\ \A k \in 1 .. C : SlotsRendered[k] = FramesOf(Pending)[k]
      BY <1>1, <2>5, Prefix
    <3>2. DOMAIN SlotsRendered = 1 .. C /\ \A k \in 1 .. C : k \in 1 .. Len(Pending)
      BY <2>5, <3>1
    <3>3. ASSUME NEW k \in 1 .. C
          PROVE  SlotsRendered[k] # Queued[1].frame
      <4>1. SlotsRendered[k] = Pending[k].frame
        BY <2>5, <3>1, <3>2
      <4>2. QED
        BY <2>3, <4>1
    <3>4. QED
      BY <3>2, <3>3
  <2>8. Pipeline!Render
    BY <2>1, <2>4, <2>6, <2>7 DEF Pipeline!Render, SlotsQueued, SlotsRendered
  <2>9. QED
    BY <2>8 DEF Pipeline!Next
<1>12. CASE Shows
  <2>1. /\ Pending # <<>> /\ Pending' = Tail(Pending)
        /\ finished_semaphores[Pending[1].frame] = "signaled"
        /\ UNCHANGED <<Queued, Frames, unsubmitted>>
    BY <1>12 DEF Shows, Lasting, Frames
  <2>2. Completed' = C - 1
    BY <1>5, <1>6, <2>1, Popped DEF Completed
  <2>3. C \in 1 .. Len(Pending)
    <3>1. 1 \in DOMAIN Pending
      BY <1>5, <2>1, Popped
    <3>2. \E k \in 1 .. C : Pending[k].frame = Pending[1].frame
      BY <2>1, <3>1 DEF CountInv, FinishedIsPrefix, OrderInv, PendingInRange
    <3>3. QED
      BY <1>6, <3>2
  <2>4. /\ FramesOf(Pending) \in Seq(Nat) /\ Len(FramesOf(Pending)) = Len(Pending)
        /\ FramesOf(Pending') = Tail(FramesOf(Pending))
    BY <1>5, <2>1, FramesOfTypes, FramesOfPopped
  <2> HIDE DEF C
  <2>5. SlotsRendered # <<>> /\ SlotsRendered' = Tail(SlotsRendered)
    <3>1. /\ SlotsRendered # <<>>
          /\ SubSeq(Tail(FramesOf(Pending)), 1, C - 1) = Tail(SlotsRendered)
      BY <1>1, <2>3, <2>4, PrefixOfPopped
    <3>2. QED
      BY <1>3, <2>1, <2>2, <2>4, <3>1
  <2>6. UNCHANGED <<Frames, SlotsQueued>>
    BY <1>1, <1>2, <2>1
  <2>7. Pipeline!Show
    BY <2>5, <2>6 DEF Pipeline!Show, SlotsQueued, SlotsRendered
  <2>8. QED
    BY <2>7 DEF Pipeline!Next
<1>13. QED
  BY <1>4, <1>7, <1>8, <1>9, <1>10, <1>11, <1>12 DEF QueueNext

LEMMA PipelineInit == FrameInit => Pipeline!Init
<1> SUFFICES ASSUME FrameInit PROVE Pipeline!Init
  OBVIOUS
<1>1. /\ Frames = {} /\ gpu_queue = <<>> /\ present_queue = <<>> /\ step = "wait"
  BY DEF FrameInit, Init, Frames
<1>2. [k \in DOMAIN gpu_queue |-> gpu_queue[k].frame] = <<>>
  BY <1>1
<1>3. Finished = {} /\ Cardinality(Finished) = 0
  BY <1>1, FS_EmptySet DEF Finished
<1>4. SubSeq(Shown, 1, Cardinality(Finished)) = <<>>
  BY <1>3, SubSeqEmpty
<1>5. QED
  BY <1>1, <1>2, <1>4 DEF Pipeline!Init

\* As long as no submission failed since the objects were created, the frame loop
\* is a FramePipeline: no frame is lost, rendered twice, or shown out of order or
\* before it is rendered, and none is on the GPU when the objects are replaced.
THEOREM LoopIsPipeline ==
  FrameSpec => Pipeline!Init /\ [][unsubmitted = {} => [Pipeline!Next]_(Pipeline!vars)]_allVars
BY PipelineInit, PipelineStep, KnownHolds, PresentsNeedSwapchainHolds, OrderHolds,
   CountHolds, MappedHolds, PTL DEF FrameSpec

\* Where no submission can fail it is one in every step.
LEMMA NothingUnsubmitted ==
  FrameSpec => [](MaxFailedSubmits = 0 => unsubmitted = {})
<1> DEFINE None == MaxFailedSubmits = 0 => unsubmitted = {}
<1>1. FrameInit => None
  BY DEF FrameInit
<1>2. None /\ [FrameNext]_allVars => None'
  <2> SUFFICES ASSUME MaxFailedSubmits = 0, unsubmitted = {}, [FrameNext]_allVars
               PROVE  unsubmitted' = {}
    OBVIOUS
  <2>1. ~SubmitFails
    BY FS_EmptySet DEF SubmitFails
  <2>2. CASE FrameVulkanInit \/ FrameCreate \/ FrameDestroy \/ FrameTeardown
    BY <2>2 DEF FrameVulkanInit, FrameCreate, FrameDestroy, FrameTeardown,
                CreateSyncObjects, SyncObjectsGone, syncVars
  <2>3. CASE Around \/ WaitForFence \/ (\E i \in Images : AcquireImage(i))
               \/ RecordAndSubmit \/ QueuePresent \/ WaitIdle
    BY <2>3 DEF Around, WaitForFence, AcquireImage, RecordAndSubmit, QueuePresent,
                WaitIdle, frameVars, syncVars
  <2>4. CASE AcquireOutOfDate \/ AcquireFails \/ ClearImage \/ CompleteSubmission
               \/ Signal \/ PresentImage
    BY <2>4 DEF AcquireOutOfDate, AcquireFails, ClearImage, CompleteSubmission,
                Signal, SignalAvailable, PresentImage, frameVars, syncVars
  <2>5. CASE \/ (HandleClose \/ ResizeWindow \/ Terminated) /\ UNCHANGED frameVars
             \/ UNCHANGED allVars
    BY <2>5 DEF frameVars, syncVars, allVars
  <2>6. QED
    BY <2>1, <2>2, <2>3, <2>4, <2>5 DEF FrameNext, Host
<1>3. QED
  BY <1>1, <1>2, PTL DEF FrameSpec

\* The safety part of ImplementsFramePipeline, for every driver whose submissions
\* succeed.
THEOREM LoopImplementsPipeline ==
  ASSUME MaxFailedSubmits = 0
  PROVE  FrameSpec => Pipeline!Init /\ [][Pipeline!Next]_(Pipeline!vars)
<1>1. UNCHANGED allVars => UNCHANGED Pipeline!vars
  <2> SUFFICES ASSUME UNCHANGED allVars PROVE UNCHANGED Pipeline!vars
    OBVIOUS
  <2>1. UNCHANGED <<Frames, gpu_queue, Shown, Finished>>
    BY DEF allVars, vars, presentVars, frameVars, hostVars, syncVars, queueVars,
           Frames, Shown, Finished
  <2>2. QED
    BY <2>1 DEF Pipeline!vars
<1>2. QED
  BY <1>1, LoopIsPipeline, NothingUnsubmitted, PTL

=============================================================================

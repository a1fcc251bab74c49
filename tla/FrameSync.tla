------------------------------ MODULE FrameSync ------------------------------
(***************************************************************************)
(* draw_frame together with the two parties it runs against: the GPU,      *)
(* which executes the submitted command buffers, and the presentation      *)
(* engine, which hands out swapchain images and shows them.                *)
(*                                                                         *)
(* The host paces itself with one fence and two semaphores per frame, all  *)
(* indexed by current_frame, while command buffers are indexed by the      *)
(* acquired image.  PresentObjects supplies everything around draw_frame;  *)
(* a call of draw_frame, one step there, is a walk through "step" here.    *)
(*                                                                         *)
(* GPU and presentation engine are modelled from what the Vulkan calls in  *)
(* app.c rely on: submissions complete in order; presents are processed in *)
(* order, each waiting for its own semaphore and not for a queue.          *)
(***************************************************************************)
EXTENDS PresentObjects, Sequences, FiniteSets

CONSTANTS
  EarlyAcquire,     \* whether an image may be handed out again while an
                    \* earlier present of it still waits to be processed
  MaxFailedSubmits  \* bound: the errors vkQueueSubmit may return between two
                    \* recreations

ASSUME EarlyAcquireAssumption == EarlyAcquire \in BOOLEAN
ASSUME MaxFailedSubmitsAssumption == MaxFailedSubmits \in Nat

VARIABLES
  step,                  \* where the host is inside draw_frame
  image_index,
  fences,                \* per frame: "signaled" or "unsignaled"
  available_semaphores,  \* per frame: also "pending", between the acquire
                         \* and the signal of the presentation engine
  finished_semaphores,   \* per frame
  ahead,                 \* per frame: how many queued presents have to be
                         \* processed before the acquired image is free
  unsubmitted,           \* history: the frames whose submission failed
  gpu_queue,             \* submissions in progress, oldest first
  present_queue          \* presents in progress, oldest first

hostVars == <<step, image_index>>
syncVars == <<fences, available_semaphores, finished_semaphores, ahead,
              unsubmitted>>
queueVars == <<gpu_queue, present_queue>>
frameVars == <<hostVars, syncVars, queueVars>>
allVars == <<vars, frameVars>>

-----------------------------------------------------------------------------
(* State.                                                                  *)

Steps == {"wait", "acquire", "record", "present", "idle"}

\* Mutant: one image more than frames.
Images_OneMore == IF swapchain = "live" THEN 0 .. buffer_strategy ELSE {}

\* The images of the swapchain: buffer_strategy is their number.
Images == IF swapchain = "live" THEN 0 .. (buffer_strategy - 1) ELSE {}

\* The frames that have a fence and two semaphores.
Frames == IF swapchain = "live" THEN 0 .. (buffer_strategy - 1) ELSE {}

Submissions == [frame : Nat, image : Nat, cleared : BOOLEAN]
Presents == [frame : Nat, image : Nat]

NoFrames == [f \in {} |-> 0]

FrameInit ==
  /\ Init
  /\ step = "wait"
  /\ image_index = 0
  /\ fences = NoFrames
  /\ available_semaphores = NoFrames
  /\ finished_semaphores = NoFrames
  /\ ahead = NoFrames
  /\ unsubmitted = {}
  /\ gpu_queue = <<>>
  /\ present_queue = <<>>

-----------------------------------------------------------------------------
(* Creating and destroying: PresentObjects, with the state of the objects. *)

\* Mutant: VK_FENCE_CREATE_SIGNALED_BIT forgotten.
FenceCreated_Unsignaled == "unsignaled"

FenceCreated == "signaled"

\* Mutant: the loop that creates them ends one early.
CreatedFrames_OneLess(n) == 0 .. (n - 2)

CreatedFrames(n) == 0 .. (n - 1)

\* vulkan_create_sync_objects
CreateSyncObjects ==
  LET new == CreatedFrames(buffer_strategy')
  IN /\ fences' = [f \in new |-> FenceCreated]
     /\ available_semaphores' = [f \in new |-> "unsignaled"]
     /\ finished_semaphores' = [f \in new |-> "unsignaled"]
     /\ ahead' = [f \in new |-> 0]
     /\ unsubmitted' = {}

FrameVulkanInit ==
  /\ VulkanInit
  /\ CreateSyncObjects
  /\ UNCHANGED <<hostVars, queueVars>>

FrameCreate ==
  /\ CreatePresentObjects
  /\ IF HasArea(swapchain_extent') THEN CreateSyncObjects ELSE UNCHANGED syncVars
  /\ UNCHANGED <<hostVars, queueVars>>

\* Presents still in progress end with the swapchain.
SyncObjectsGone ==
  /\ fences' = NoFrames
  /\ available_semaphores' = NoFrames
  /\ finished_semaphores' = NoFrames
  /\ ahead' = NoFrames
  /\ unsubmitted' = {}
  /\ present_queue' = <<>>
  /\ UNCHANGED gpu_queue

FrameDestroy ==
  /\ DestroyPresentObjects
  /\ SyncObjectsGone
  /\ UNCHANGED hostVars

\* Mutant: the vkDeviceWaitIdle is forgotten.
DeviceIdle_NoWait == TRUE

\* vkDeviceWaitIdle returns: it waits for submissions, not for presents.
DeviceIdle == gpu_queue = <<>>

FrameTeardown ==
  /\ DeviceIdle
  /\ TeardownPresentObjects
  /\ IF pc' = "done" THEN SyncObjectsGone ELSE UNCHANGED <<syncVars, queueVars>>
  /\ UNCHANGED hostVars

-----------------------------------------------------------------------------
(* draw_frame, step by step.                                               *)

At(s) == Drawing /\ FrameIndexValid /\ step = s

\* Mutant: vkWaitForFences forgotten.
FenceWaited_NoWait == TRUE

FenceWaited == fences[current_frame] = "signaled"

\* vkWaitForFences and vkResetFences.
WaitForFence ==
  /\ At("wait")
  /\ FenceWaited
  /\ fences' = [fences EXCEPT ![current_frame] = "unsignaled"]
  /\ step' = "acquire"
  /\ UNCHANGED <<vars, image_index, available_semaphores, finished_semaphores,
                 ahead, unsubmitted, queueVars>>

Presenting == {present_queue[k].image : k \in DOMAIN present_queue}

\* The images the presentation engine may hand out.  The host holds none when
\* it asks.
Acquirable == IF EarlyAcquire THEN Images ELSE Images \ Presenting

PresentsOf(i) == {k \in DOMAIN present_queue : present_queue[k].image = i}

\* The first k presents in progress are all that show image i.
LastPresentOf(k, i) ==
  /\ k \in PresentsOf(i) \cup {0}
  /\ \A j \in PresentsOf(i) : j <= k

\* vkAcquireNextImageKHR gives image i, with VK_SUCCESS or VK_SUBOPTIMAL_KHR.
AcquireImage(i) ==
  /\ At("acquire")
  /\ i \in Acquirable
  /\ image_index' = i
  /\ available_semaphores' = [available_semaphores EXCEPT ![current_frame] = "pending"]
  /\ \E k \in 0 .. Len(present_queue) :
       /\ LastPresentOf(k, i)
       /\ ahead' = [ahead EXCEPT ![current_frame] = k]
  /\ step' \in {"record", "idle"}
  /\ UNCHANGED <<vars, fences, finished_semaphores, unsubmitted, queueVars>>

\* Mutant: draw_frame returns and tries again without recreating.
AfterOutOfDate_Retry == "wait"

AfterOutOfDate == "idle"

\* vkAcquireNextImageKHR gives VK_ERROR_OUT_OF_DATE_KHR and no image.
AcquireOutOfDate ==
  /\ At("acquire")
  /\ step' = AfterOutOfDate
  /\ UNCHANGED <<vars, image_index, syncVars, queueVars>>

\* vkAcquireNextImageKHR gives another error, which draw_frame ignores.
AcquireFails ==
  /\ At("acquire")
  /\ DrawImageUnset
  /\ UNCHANGED frameVars

\* The index of the semaphores and the fence handed to vkQueueSubmit.
SubmittedFrame == current_frame

\* vkBeginCommandBuffer to vkQueueSubmit, on command_buffers[image_index].
RecordAndSubmit ==
  /\ At("record")
  /\ gpu_queue' = Append(gpu_queue, [frame |-> SubmittedFrame,
                                     image |-> image_index,
                                     cleared |-> FALSE])
  /\ step' = "present"
  /\ UNCHANGED <<vars, image_index, syncVars, present_queue>>

\* vkQueueSubmit gives an error, which draw_frame ignores: nothing will wait
\* for the available semaphore or signal the finished one and the fence.
SubmitFails ==
  /\ Cardinality(unsubmitted) < MaxFailedSubmits
  /\ At("record")
  /\ unsubmitted' = unsubmitted \cup {current_frame}
  /\ step' = "present"
  /\ UNCHANGED <<vars, image_index, fences, available_semaphores,
                 finished_semaphores, ahead, queueVars>>

\* Mutant: the present waits for the semaphore of the next frame.
PresentedFrame_Next == NextFrame

\* The index of the semaphore handed to vkQueuePresentKHR.
PresentedFrame == current_frame

\* vkQueuePresentKHR waits for the semaphore whatever it returns.
QueuePresent ==
  /\ At("present")
  /\ present_queue' = Append(present_queue, [frame |-> PresentedFrame,
                                             image |-> image_index])
  /\ \/ /\ DrawPresented
        /\ step' = "wait"
     \/ /\ step' = "idle"
        /\ UNCHANGED vars
  /\ UNCHANGED <<image_index, syncVars, gpu_queue>>

\* vkDeviceWaitIdle before vulkan_recreate_present_objects.
WaitIdle ==
  /\ At("idle")
  /\ DeviceIdle
  /\ DrawOutOfDate
  /\ step' = "wait"
  /\ UNCHANGED <<image_index, syncVars, queueVars>>

-----------------------------------------------------------------------------
(* The GPU.                                                                *)

Running == pc \notin Terminal
Oldest == Head(gpu_queue)

\* The stage at which a submission waits for its semaphore, and the stage its
\* commands, a clear between two barriers, run in.
DstPipelineStage == "COLOR_ATTACHMENT_OUTPUT"
CommandStage == "TRANSFER"

\* The commands of the oldest submission wait for the semaphore only if that is
\* a wait at their stage.
CanClear ==
  /\ gpu_queue # <<>>
  /\ ~Oldest.cleared
  /\ CommandStage = DstPipelineStage =>
       available_semaphores[Oldest.frame] = "signaled"

\* They access the image.
ClearImage ==
  /\ Running
  /\ CanClear
  /\ gpu_queue' = [gpu_queue EXCEPT ![1] =
                      [frame |-> @.frame, image |-> @.image, cleared |-> TRUE]]
  /\ UNCHANGED <<vars, hostVars, syncVars, present_queue>>

CanComplete ==
  /\ gpu_queue # <<>>
  /\ Oldest.cleared
  /\ available_semaphores[Oldest.frame] = "signaled"

\* The oldest submission has waited and ends, signalling semaphore and fence.
CompleteSubmission ==
  /\ Running
  /\ CanComplete
  /\ available_semaphores' =
       [available_semaphores EXCEPT ![Oldest.frame] = "unsignaled"]
  /\ finished_semaphores' =
       [finished_semaphores EXCEPT ![Oldest.frame] = "signaled"]
  /\ fences' = [fences EXCEPT ![Oldest.frame] = "signaled"]
  /\ gpu_queue' = Tail(gpu_queue)
  /\ UNCHANGED <<vars, hostVars, ahead, unsubmitted, present_queue>>

-----------------------------------------------------------------------------
(* The presentation engine.                                                *)

CanSignal(f) == available_semaphores[f] = "pending" /\ ahead[f] = 0

\* It has stopped reading the image acquired for frame f.
SignalAvailable(f) ==
  /\ Running
  /\ CanSignal(f)
  /\ available_semaphores' = [available_semaphores EXCEPT ![f] = "signaled"]
  /\ UNCHANGED <<vars, hostVars, fences, finished_semaphores, ahead,
                 unsubmitted, queueVars>>

\* Mutant: presented with waitSemaphoreCount 0.
PresentMayProceed_NoWait(f) == TRUE

PresentMayProceed(f) == finished_semaphores[f] = "signaled"

CanPresent ==
  present_queue # <<>> /\ PresentMayProceed(Head(present_queue).frame)

\* The oldest present has waited for its semaphore and its image is shown.
PresentImage ==
  /\ Running
  /\ CanPresent
  /\ finished_semaphores' =
       [finished_semaphores EXCEPT ![Head(present_queue).frame] = "unsignaled"]
  /\ present_queue' = Tail(present_queue)
  /\ ahead' = [f \in DOMAIN ahead |-> IF ahead[f] > 0 THEN ahead[f] - 1 ELSE 0]
  /\ UNCHANGED <<vars, hostVars, fences, available_semaphores, unsubmitted,
                 gpu_queue>>

-----------------------------------------------------------------------------

\* The steps of the program outside of draw_frame's walk.
Around ==
  /\ \/ DrawNothing \/ DrawOutOfBounds \/ SwapchainFails
     \/ EnterPump \/ LeavePump \/ LeaveLoop
  /\ UNCHANGED frameVars

\* The steps the host must get to take.  That the surface goes out of date or a
\* call fails is left out: nothing may depend on it.
Host ==
  \/ FrameVulkanInit \/ FrameCreate \/ FrameDestroy \/ FrameTeardown \/ Around
  \/ WaitForFence \/ (\E i \in Images : AcquireImage(i))
  \/ RecordAndSubmit \/ QueuePresent \/ WaitIdle

Signal == \E f \in Frames : SignalAvailable(f)

FrameNext ==
  \/ Host \/ AcquireOutOfDate \/ AcquireFails \/ SubmitFails
  \/ ClearImage \/ CompleteSubmission
  \/ Signal \/ PresentImage
  \/ (HandleClose \/ ResizeWindow \/ Terminated) /\ UNCHANGED frameVars

\* The thread is scheduled, the GPU works, and the presentation engine, as
\* Vulkan requires of it, ends its reads and processes its presents.
FrameFairness ==
  /\ WF_allVars(Host)
  /\ WF_allVars(ClearImage)
  /\ WF_allVars(CompleteSubmission)
  /\ WF_allVars(Signal)
  /\ WF_allVars(PresentImage)

FrameSpec == FrameInit /\ [][FrameNext]_allVars /\ FrameFairness

-----------------------------------------------------------------------------
(* Properties.                                                             *)

FrameTypeOK ==
  /\ TypeOK
  /\ step \in Steps
  /\ image_index \in Nat
  /\ fences \in [Frames -> {"signaled", "unsignaled"}]
  /\ available_semaphores \in [Frames -> {"signaled", "unsignaled", "pending"}]
  /\ finished_semaphores \in [Frames -> {"signaled", "unsignaled"}]
  /\ ahead \in [Frames -> Nat]
  /\ unsubmitted \subseteq Frames
  /\ gpu_queue \in Seq(Submissions)
  /\ present_queue \in Seq(Presents)

\* The command buffer belongs to the image, the fence to the frame.  Although
\* draw_frame never waits for the image's last submission, the command buffer
\* it records is pending only if the presentation engine handed the image out
\* before it processed the image's last present.
RecordsIdleCommandBuffer ==
  At("record") /\ image_index \notin Presenting =>
    \A k \in DOMAIN gpu_queue : gpu_queue[k].image # image_index

\* The available semaphore handed to vkAcquireNextImageKHR is unsignaled and
\* nothing waits on it: the fence of the frame vouches for its last wait.
AcquireSemaphoreFree ==
  At("acquire") =>
    /\ available_semaphores[current_frame] = "unsignaled"
    /\ \A k \in DOMAIN gpu_queue : gpu_queue[k].frame # current_frame

\* No fence and no semaphore tells the host that a present has consumed its
\* finished semaphore.  Still a submission that signals it finds it consumed,
\* because there are as many frames as images and submissions end in order.  A
\* submission that failed is missing in that order.
FinishedSemaphoreConsumed ==
  CanComplete /\ unsubmitted = {} => finished_semaphores[Oldest.frame] = "unsignaled"

\* draw_frame resets the fence long before it submits, and returns in between
\* when the surface is out of date.  Still the fence it waits for is one that
\* a submission in progress will signal, unless the submission failed.
AwaitedFenceWillBeSignaled ==
  At("wait") /\ fences[current_frame] = "unsignaled" =>
    \/ \E k \in DOMAIN gpu_queue : gpu_queue[k].frame = current_frame
    \/ current_frame \in unsubmitted

\* The waits without timeout, of draw_frame and at the end of app_run, that are
\* not over yet.
HostWaits ==
  \/ At("wait") /\ ~FenceWaited
  \/ At("acquire") /\ Acquirable = {}
  \/ (At("idle") \/ pc = "exit") /\ ~DeviceIdle

OthersCanMove ==
  CanClear \/ CanComplete \/ (\E f \in Frames : CanSignal(f)) \/ CanPresent

\* The host never waits for itself, nor do the GPU and the presentation engine
\* wait for each other meanwhile, though a submission may wait for a present, a
\* present for a submission and the host for either: as long as it waits, one of
\* them can take a step, unless a submission failed.
WaitsOnlyForOthers == HostWaits /\ unsubmitted = {} => OthersCanMove

\* The steps the GPU and the presentation engine can take before they need the
\* host again: a present is one, a submission two, an acquire's signal one.
Backlog ==
  Len(present_queue)
    + 2 * Len(gpu_queue) - (IF gpu_queue # <<>> /\ Oldest.cleared THEN 1 ELSE 0)
    + Cardinality({f \in Frames : available_semaphores[f] = "pending"})

\* No fence covers a present, so nothing in the code limits how many are queued.
\* Still no more than two rounds of frames pile up between the host and the
\* screen, and that is how long a wait of draw_frame can be, because the next
\* submission of a frame completes only with an image that no other holds.
BacklogIsBounded == unsubmitted = {} => Backlog <= 5 * buffer_strategy

\* No signal or wait of a semaphore is outstanding that only the host or the GPU
\* could bring to an end, nor one on an available semaphore outside of S.
OnlyPresentsRemain(S) ==
  /\ \A f \in Frames \ S : available_semaphores[f] = "unsignaled"
  /\ \A k \in DOMAIN present_queue :
       finished_semaphores[present_queue[k].frame] = "signaled"

\* vkDeviceWaitIdle waits neither for presents nor for the semaphore of an
\* acquire.  When the objects are destroyed, the GPU has no use of them, and if no
\* submission failed the presents that remain wait for nothing any more.  The
\* semaphore of an acquire is outstanding at most for the frame in which the
\* objects are recreated, and for none at the teardown.
DestroysNothingInUse ==
  [][swapchain = "live" /\ swapchain' # "live" =>
       /\ gpu_queue = <<>>
       /\ unsubmitted = {} =>
            OnlyPresentsRemain(IF pc = "recreate" THEN {current_frame} ELSE {})
    ]_allVars

\* draw_frame waits without timeout for a fence, for an image and for the
\* device, and comes back from each: no wait is for something that only a
\* later step of the host would bring about.
DrawFrameReturns == pc = "draw" ~> pc # "draw"

\* The same where calls may fail, and for the wait at the end of app_run.  A
\* submission that failed is the one reason for which either may never return.
OnlyFailedSubmitBlocks ==
  /\ pc = "draw" ~> pc # "draw" \/ unsubmitted # {}
  /\ pc = "exit" ~> pc # "exit" \/ unsubmitted # {}

\* The frames on their way to the screen.  Presents are queued in the order of
\* submission; the frame being submitted is the last of them.
Shown ==
  [k \in DOMAIN present_queue |-> present_queue[k].frame]
    \o (IF step = "present" THEN <<current_frame>> ELSE <<>>)
Finished == {f \in Frames : finished_semaphores[f] = "signaled"}

Pipeline == INSTANCE FramePipeline WITH
  Depths <- ImageCounts,
  slots <- Frames,
  queued <- [k \in DOMAIN gpu_queue |-> gpu_queue[k].frame],
  rendered <- SubSeq(Shown, 1, Cardinality(Finished))

\* The frame loop is a FramePipeline of buffer_strategy slots: no frame is
\* lost, rendered twice or shown out of order or before it is rendered.
ImplementsFramePipeline == Pipeline!Spec

\* app.c:619, on available_semaphores + current_frame: "wait semaphore".  The
\* commands of a submission touch the image after the semaphore is signalled.
ClearsAfterWaitSemaphore ==
  \A k \in DOMAIN gpu_queue :
    gpu_queue[k].cleared => available_semaphores[gpu_queue[k].frame] = "signaled"

=============================================================================

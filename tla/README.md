# A verification of purist

`purist` is a small Vulkan program in C: it opens a window, picks a graphics
card, makes a swapchain and draws frames until it is told to quit.  All of its
logic is in `src/app.c`; `src/main.c` only calls `app_run`.  A batch file compiles
its shaders into headers and the sources into `main.exe`.  This directory
holds TLA+ models of that logic, the TLC configurations that check them, and
proofs for TLAPS.

Paths below are relative to the repository.  Line numbers are of `src/app.c`
unless another file is named.

## The system

| component | state it keeps | operations | what makes it correct |
|---|---|---|---|
| present objects (165-281, 497-530, 669-685) | `swapchain_width/height`, `swapchain`, `buffer_strategy`, six array pointers | `vulkan_create_swapchain`, `..._create_command_buffers`, `..._create_sync_objects`, create, destroy, recreate, teardown | drawing only ever meets live objects; nothing is destroyed twice, used after its destruction, or lost; a restored window is drawn to again |
| frame loop (532-642) | `current_frame`; per frame a fence and two semaphores; per image a command buffer | `draw_frame` | no command buffer is recorded while it is pending; no semaphore is used before it is free; frames are shown in order; every wait ends |
| swapchain parameters (166-227) | fields of `swapchain_ci` | the clamp of the image count, the loop over the present modes | the request is within the surface's limits; the best mode is chosen |
| physical device selection (334-397) | `best_score`, `best_index`, `best_gpuinfo`, `queue_count` | the loop over the devices | the selected device is eligible and the best; `gpuinfo` describes it (it is not where none is eligible) |
| logical device and queues (399-458) | `queues_ci`, `device`, `graphics_queue` | the loop over the queue families | the queue that is used was created; the array is large enough |
| instance, surface, pools (284-332, 460-495) | handles | creation, each result printed and ignored | later steps only use what was created |
| window and message pump (36-111, 644-655) | `hwnd`, `quit_to_desktop_requested` | `window_callback`, `window_create`, `window_get_size`, `begin_loop` | drawing is not starved; a quit request ends the loop |
| program start and end (658-690) | | `app_run` | objects are destroyed in the reverse order of their creation, once |
| debug callback, logging (15-23, 144-162) | | output | |
| sprite shaders (`src/sprite.vert`, `src/sprite.frag`) | | not loaded by the program yet | texture coordinates stay in the cell of the sprite |
| build scripts (`build_clean_win64.bat`; `build_clean_linux64.sh` exits in its first line) | `.spv` files, generated headers, `main.exe` | deletion, conversion, compilation, each judged by whether a file exists | success is reported only for what was built |

The program has one thread.  What runs beside it is the GPU, the presentation
engine and the window system.  They interact with it through Vulkan objects
(the fences and semaphores of `draw_frame`), through return values
(`VK_ERROR_OUT_OF_DATE_KHR`, `VK_SUBOPTIMAL_KHR`) and through the size that
`GetClientRect` reports.

What is hard in it:

* Two indices.  Fences and semaphores belong to `current_frame`, command
  buffers to the acquired image.  Nothing on the host waits for the image.
* No fence covers a present.  When a finished semaphore is signalled again is
  known to be right only by an argument over several frames and three parties.
* The size of the window decides whether the present objects exist, it is read
  in two places, and the window changes it at any time.
* The recreation happens on two paths of `draw_frame`, the creation on a third,
  and the teardown in `app_run` does not know which of them came last.
* Errors are printed or ignored, so the program continues without what it
  needs; after a submission that is refused it waits for a fence nobody signals.
* The family of the queue is decided on in three places: by the requests, by
  the fetch of the queue, and by the command pools.
* The pump drains the queue of messages, while the window system fills it, and
  while `DefWindowProc` drains it on its own.
* Build results outlive the build that made them.

## The modules

```
FramePipeline            what the frame loop promises, without Vulkan
     ^ implements
FrameSync                draw_frame against GPU and presentation engine
     | implements, extends
     v
PresentObjects           the life of the present objects, draw_frame by outcome
     ^ implements, extends
AppRun                   start, messages and end of the program

DeviceSelection          scores and the selected device
     ^ implements, extends
DeviceSetup              the device, its queue and its command pools

SwapchainChoice          image count and present mode
Build                    the build script
*Proofs                  theorems and proofs about the module of that name
FrameQueueProofs         more about FrameSync: what its two queues hold
MC*                      the sets TLC needs
```

`FrameSync` and `AppRun` each refine one side of `PresentObjects`: the inside of
`draw_frame`, and the pump with what surrounds the loop.  Both are proved to
implement it, so its theorems hold of both.

### PresentObjects

The state follows the globals at 130-141.  An array pointer is modelled by the
state of the block it names (`heap`: null, live, freed), the swapchain handle
likewise; `leaked` collects the arrays of which a live block was overwritten.
`pc` is where the thread is: `init` is the end of `vulkan_init`, `loop` the
head of `begin_loop`, `pump` its inner loop, `draw` a call of `draw_frame`, `recreate` and `create`
the two halves of `vulkan_recreate_present_objects`, `exit` the end of
`app_run`.  `create` is also where `draw_frame` goes when the window has an area
again.

| action | code |
|---|---|
| `VulkanInit` | 497-501: swapchain, command buffers, sync objects, the last two even without a swapchain |
| `CreatePresentObjects` | 504-510 |
| `SwapchainFails` | 229-252: the error is printed, the code goes on |
| `DestroyPresentObjects`, `TeardownPresentObjects` | 512-525, 669-689 |
| `DrawNothing` | 534-543 |
| `DrawOutOfBounds`, `DrawImageUnset` | the accesses at 547 and 567 with an index that is not valid |
| `DrawOutOfDate`, `DrawPresented` | 561-565 and 635-639; 641 |
| `EnterPump`, `LeavePump`, `LeaveLoop` | 645, 646-651, 645 and 654 |
| `HandleClose` | 48-52, called by `DispatchMessage` |
| `ResizeWindow` | the window system |

Where the C program has no defined behaviour any more, the model stops in
`undefined` and `fault` says why.  That is what a property can say about it:
the behaviours that lead there are known, and what comes after is anybody's
guess.

The window may change size between any two steps.  When the user drags it, that
happens within `DispatchMessage`, at `pump`; but another process, such
as a shell that snaps or tiles windows, changes the rectangle from outside.  The
model therefore does not rely on the size staying the same between the test at
538 and the use at 183.

### FrameSync

Extends `PresentObjects` and replaces the one step of `draw_frame` by a walk:
`WaitForFence` (547-548), `AcquireImage`, `AcquireOutOfDate` or `AcquireFails`
(552-565), `RecordAndSubmit` or `SubmitFails` (567-624), `QueuePresent` (626-641)
and `WaitIdle` (562, 636).  Every one of these steps is a step of `PresentObjects` or leaves
its variables alone.

The two other parties are external.  They are modelled from what the calls of
`app.c` rely on:

* The GPU takes submissions in order.  `ClearImage` is the execution of the
  recorded commands.  A submission completes after its semaphore wait and then
  signals its finished semaphore and its fence.
* The presentation engine hands out an image, and signals the available
  semaphore later (`SignalAvailable`): not before it has processed the presents
  of that image that were queued (`ahead`).  It processes presents in order,
  each after its finished semaphore.

`SubmitFails` is a `vkQueueSubmit` that returns an error, which the code does not
look at: the frame goes on to the present, with its fence reset and its available
semaphore signaled.  `unsubmitted` remembers the frame for the properties.

`EarlyAcquire` says whether the engine may hand out an image while an earlier
present of it still waits to be processed.  The extension does not rule this
out, engines in use wait.  One assumption of the program depends on it, see
below.

### FramePipeline

The abstract specification: slots, a queue of slots put in, a queue of slots
rendered.  `FrameSync` implements it under the mapping at the end of its module:
the slots are the frames, a slot is queued while its submission is on the GPU,
and rendered while its finished semaphore is signalled.  The abstract `Submit`
requires that the slot is not queued, and `Render` that it is not waiting to be
shown: these are the questions of the fence and of the finished semaphore.

### AppRun

Extends `PresentObjects` with everything around it.  `Start` lists what the start
creates, in the order of 663-495: window, instance, device, surface, command
pools.  `CreateHandle` makes the next of them, `CreationFails` does not and goes
on, as the code does, and `UseMissing` is the first call that is given a handle
that was never made, or the read of a physical device where there is none (394,
`NoDevice`).  `Parents` says what a creation is given, `Used` what is used on
the way to it.

The pump takes one message at a time.  `DispatchClose` sets the flag and nothing
else; `DispatchDrag` is a message that `DefWindowProc` answers with a message loop of
its own, which ends when the user lets go (`EndDrag`) and in which every other
message may be handled; `DispatchOther` is every message without effect on the
model.  `DispatchPaint` is `WM_PAINT`, which the window system does not post but makes up
whenever the queue is empty and a part of the window is invalid, until
`BeginPaint` validates it.  `AppLeavePump` is a `PeekMessage` that finds nothing.

Submissions that are refused are left to `FrameSync`: here every call of `draw_frame`
returns.

`AppLeaveLoop` destroys the window, `DestroyPools`, `AppTeardown` and `DestroyHandle` are
671-689.

### SwapchainChoice

The fields `minImageCount` and `presentMode` of `swapchain_ci`.  The walk over the
list of modes is one action per branch of the loop body (209-223).
`presentMode` starts as `IMMEDIATE`, which is the zero of its enumeration.

### DeviceSelection

The loop over the devices (347-393) and, within it, the loop over the queue
families (373-384).  `queue_count` is not initialized (372).  Its slot on the
stack holds either what the last device left there, which is what a compiler
without optimization like the one of the build script produces, or anything
from `Garbage`.  Scores are modulo `Word`, 2^32 in the code.

### DeviceSetup

Extends `DeviceSelection` with the walk over the queue families of the selected
device (418-434).  `RequestQueue` writes the next entry of `queues_ci`; beyond
`max_queue_count` entries the behaviour is undefined.  `CreateDevice` may fail, and is
not allowed without a queue.  `GetDeviceQueue` and `CreateCommandPools` are for
family zero, whatever was requested.  The code tests nothing at 457;
`QueueExists` is what Vulkan requires of the call, and without it the behaviour is
undefined.  Families are counted from one in the model.

### Build

One build is `StartBuild`, `Clean`, then for each shader `CompileShader` and `WriteHeader` or
`ConverterFails`, then `CompileProgram` and `EndProgram`.  A file is modelled by the version of
the source it was made from.  `valid` says whether the compiler accepts a source.
The script never looks at an exit code: `ShaderAccepted` (28-31) and the last test
(57-62) ask whether a file exists, and the test of the header (34) is always
true, because the redirection has made the file.

The user edits sources at any time (`Edit`), also while they are compiled, and
runs `main.exe` by hand (`RunByHand`), during which it can be neither deleted nor
written.  That a failing compiler leaves its output file alone, and that the
program cannot be written while it runs, is what the script relies on.

## The runs

| run | what it asks | bounds |
|---|---|---|
| `PresentObjects_lifecycle` | type, live objects at every use, the exact circumstances of a double destruction, of a stale `current_frame` and of a leak, drawing to a restored window | four window sizes: two proper ones, one flat, one zero; 2 or 3 images; calls may fail |
| `PresentObjects_destroyed_twice` | finding: the teardown after a minimize | 2 images |
| `FrameSync_late` | type, idle command buffers, no wait for oneself, nothing destroyed in use, every call of `draw_frame` returns, the refinement | 1, 2 or 3 images; `EarlyAcquire` off; no failing calls |
| `FrameSync_early` | idle command buffers, free and consumed semaphores, fences that will be signaled, no wait for oneself, how much is under way at most, nothing destroyed in use, endless waits only after a refused submission | 2 or 3 images; `EarlyAcquire` on; calls may fail, one submission between two recreations; the window keeps its size |
| `FrameSync_wait_semaphore` | finding: the stage mask at 616 | 2 images |
| `SwapchainChoice_lists` | the chosen mode against its definition, the limits of the request | every order of every set of modes with FIFO, the empty list; limits up to 3 |
| `SwapchainChoice_double_buffering`, `SwapchainChoice_fifo` | findings: the comments at 194 and 216 | the same |
| `DeviceSelection_best` | finding: the comment at 346 | up to three of four kinds of devices; `Word` = 4096; a stack that starts at zero |
| `DeviceSetup_families` | selection: `gpuinfo` is of the selected device, the default excepted, and what the default can be; setup: the families requested, and that suitable devices get through | lists of devices from `MCDeviceSetup`; `max_queue_count` = 3; three leftovers on the stack, one that wraps; `vkCreateDevice` may fail |
| `AppRun_messages` | what drawing needs exists; a crash at the start needs a failure or a machine without a physical device; order of destruction; the pump returns; a quit ends the program | two window sizes, 2 or 3 images, three pending messages; there may be no physical device, every creation and every acquire may fail, no submission is refused |
| `Build_rebuilds` | when a success message is about old files; the headers are of this build; building again repairs everything | two shaders, one of them included; two versions of each source |

Why the bounds are enough.  The state of `PresentObjects` is finite for finite
sizes and counts, so nothing is cut off; two proper sizes tell a recreation with
a new size from one with the old, and two image counts let the count grow and
shrink.  In `FrameSync` the queues bound themselves: a frame has at most one
submission in progress, and one present can wait only with its semaphore.  One
image is the degenerate case, with two every frame is a neighbour of every other,
with three it is not.  One refused submission between two recreations is enough
to block every later round of that frame; a second one would block another.

Three pending messages let a drag, a close within its loop and one more
message meet.  Three entries in `queues_ci` instead of eight keep the families
that just fit, and the one too many, short; the theorems are for every length.
Two versions of a source are an older and a newer one, each of which may be
broken; two shaders are one whose header the program includes and one whose
header it does not (11).  `Word` = 4096 is above every score that does not wrap.

What a mutant of the code does to each property is listed in `PROJECT.json`; the
mutants are the operators named `..._Something` before the definition they
change.

### What the runs show

* Drawing, recreating and destroying agree about when the objects exist.  The
  one exception is a quit while the window has no area.
* The two indices are sound: with as many frames as images, a finished semaphore
  is consumed before it is signalled again.  With one image more than frames it
  would not be, which is the mutant of `FinishedSemaphoreConsumed`.
* `RecordsIdleCommandBuffer` carries a condition: the image is not among those
  still queued for presentation.  Without the condition the property holds only
  if `EarlyAcquire` is off; with it on, TLC finds the host recording a command
  buffer that is still on the GPU.
* The available semaphore and the fence need no such condition, and hold after a
  refused submission too.  `FinishedSemaphoreConsumed` does not: a frame that was
  not submitted leaves its present waiting, so it is stated for recreations
  without one.
* A refused submission is the only way into an endless wait, of `draw_frame` as of
  the wait for the device at the end.
* While the host waits, the GPU or the presentation engine can always take a step
  (`WaitsOnlyForOthers`).  This is no matter of course: a submission waits for an
  acquire, the acquire for presents, and a present for its submission.
* Nothing in the code limits the presents that are queued, but the images do: at
  most two rounds of frames are under way, and a wait of the host is at most
  `5 * buffer_strategy` steps of the others long (`BacklogIsBounded`).  TLC
  reaches this bound with `EarlyAcquire` on; without it, it is never reached.
* The wait for the device does not wait for presents, but when the objects are
  destroyed the presents that remain wait for nothing any more.  The semaphore
  of a suboptimal acquire can still be outstanding.
* On devices whose family zero is universal, and which have no more than eight
  such families, only an error of `vkCreateDevice` stops the setup.  If the universal
  family is another one, the device is created and the queue that is fetched
  does not exist.
* `gpuinfo` is that of the selected device if the device was given a score above
  zero.  A device that is selected by default, because none is eligible or all
  scores wrapped to zero, is said to have no copy engine, whether or not it has.
* `QuitDestroysEverything` and `CrashesOnlyAfterFailure` name their exceptions: the end may
  be undefined behaviour, as after a quit while the window is hidden, and the
  start crashes without a failure where there is no physical device.
* A `WM_PAINT` that was not answered with `BeginPaint` would keep the program in its
  pump for ever; that is the mutant of `PumpReturns`.
* The build reports success for old files in three ways: a shader that no longer
  compiles but once did, a header that `xxd` left empty, a program that could
  not be deleted.  None of them survives a build of valid sources while the
  program is not running.
* The refinement is checked without failing calls: after a call whose failure
  leaves the program undefined nothing happens any more, and the abstract
  pipeline, which promises that what was put in is rendered, would be refuted by
  that alone.

### Findings

1. **674**: a program that is closed while it is minimized destroys and frees
   the present objects twice.
2. **616**: the wait for the available semaphore is at a stage that the recorded
   commands do not use, so the clear may overtake it.
3. **194**: `maxImageCount` zero means no limit; the code then asks for zero
   images.
4. **223**: FIFO is replaced by any mode that follows it.
5. **372**: the uninitialized `queue_count` lets a device collect the queues of
   those before it.

Three more disagreements between the code and its comments have no run of their
own, because a property that holds names them as its exception:

* **394**: "API version must be at 1.2 or higher!" (361), but where every device
  is older, the first is selected.  `OldDeviceOnlyByDefault` says that this is the
  only way an older device is.
* **457**: "only a graphics- and compute-capable queue is needed" (421), but it has
  to be of family zero, whichever family it was requested of: a premise of
  `SuitableDevicesSetUp`.
* **423**: the same comment does not name the transfer flag, which the test asks
  for and which a driver may leave out of such a family: the other premise.

## Fairness

`Spec` of `PresentObjects` has no fairness: it is what the other modules implement.
`FairSpec` adds weak fairness of the program's thread: the operating system
schedules it.  There this includes that the message pump comes to an end, which
is true as long as messages do not arrive faster than they are handled.  Nothing is assumed of the user, and `RestoredWindowIsDrawn` is about
behaviours in which the window has an area from some time on.

`FrameFairness` adds the GPU, which executes what was submitted, and the
presentation engine, which ends its reads and processes its presents.  The
extension promises this forward progress only if the program does not hold more
images than the surface allows; `draw_frame` holds none when it acquires.  That
the surface goes out of date is not fair: it may never happen, and nothing
depends on it.

`AppSpec` has the thread, and that the user lets go of a window he drags at some
time.  The properties about the pump and the end assume `Quiet`, that the user at
some time stops posting and resizing: without that the inner loop at 647 may
indeed never find the queue empty.

`Spec` of `Build` lets the tools and the program come to an end, and a next build
begin.  `RebuildRepairs` assumes what it says: from some time on valid sources that
are left alone, a converter that works, and no program in the way.

`Spec` of `SwapchainChoice` and `SetupSpec` of `DeviceSetup` need none: their
properties are invariants.

## Proofs

The proofs hold for all values of the constants that satisfy the named
assumptions of the modules: every set of window sizes, image counts, lists of
modes and of devices, every length of `queues_ci` and of the queue of messages,
every set of shaders, every number of refused submissions.  The assumptions say
that sizes and counts are naturals, that a swapchain has an image, that an array
has an entry, that lists are finite, and that the C sources are no shader.

| theorem | of the specification of | argument |
|---|---|---|
| `TypeCorrect` | `PresentObjects` | inductive with nothing else |
| `DrawsOnlyLive`, `DoubleDestroyOnlyHidden` | `PresentObjects` | from `Lifecycle` |
| `RecreationLeaks` | `PresentObjects` | from `Lifecycle`: at a recreation all freed arrays are freed |
| `FrameIndexLeftBehind` | `PresentObjects` | only a presented frame moves `current_frame` (lemma `FrameMoves`), and it wraps |
| `GreatestCountKeepsIndex` | `PresentObjects` | `current_frame` is below some image count |
| `ChoosesMailboxElseLast`, `RequestsWithinLimits` | `SwapchainChoice` | loop invariant: no mailbox so far, and the mode is the last one seen |
| `GpuinfoIsOfSelected`, `OldOnlyByDefault` | `DeviceSelection` | loop invariants for both loops; while no score was above zero, the best index is the first and `gpuinfo` empty |
| `ChoiceTypeCorrect`, `SelectionTypeCorrect` | `SwapchainChoice`, `DeviceSelection` | part of the same invariants |
| `SetupImplementsSelection` | `DeviceSetup` | every step is one of the selection or leaves its variables alone |
| `RequestsUniversalFamilies` | `DeviceSetup` | loop invariant: the requests so far are the universal families so far, in order |
| `AppRunImplementsPresentObjects` | `AppRun` | step by step |
| `AppTypeCorrect` | `AppRun` | inductive with the types of `PresentObjects` |
| `DrawsWithAll`, `CrashNeedsFailure`, `ParentsOutlive` | `AppRun` | from `HandlesInv` |
| `StaleNeedsFailure`, `HeadersOfThisBuild` | `Build` | from an invariant about the three generations of files |
| `FrameSyncImplementsPresentObjects` | `FrameSync` | step by step; a call of `draw_frame` is one step there |
| `FrameTypeCorrect`, `AcquiresWithFreeSemaphore`, `AwaitsSubmittedFence` | `FrameSync` | from `FenceInv` |
| `RecordsToIdleBuffer` | `FrameSync` | from `TraceInv` |
| `SignalsConsumedSemaphore` | `FrameSync` | from `OrderInv` and `CountInv`, by counting images |
| `DestroysIdleObjects` | `FrameSync` | from `CountInv` and `FenceInv`: with an empty GPU queue every pending present is a finished one |
| `HostWaitsForOthers` | `FrameSync` | from `CountInv`, `AcquiredInv` and `FenceInv` |
| `BoundsBacklog`, `OthersUseUpBacklog` | `FrameSync` | from `CountInv` and `QueueOrder`, by counting frames |
| `LoopIsPipeline`, `LoopImplementsPipeline` | `FrameSync` | step by step, with `OrderInv` and `CountInv` |
| `SuitableSetup` | `DeviceSetup` | from an invariant about why the setup stopped, and by counting the universal families |

`DrawsOnlyWithLiveObjects` is not inductive: it says nothing of the time between
a minimize and the restoring.  `Lifecycle` does.  The handle of the swapchain
stands for the state of everything else: null, and nothing was made but the
empty arrays of a start without area; live, and all blocks are live and the
recorded size has an area; destroyed, and all freed arrays are freed and the
program is either between the halves of a recreation or recorded an empty size.
TLC checked the same invariant on the instance of `PresentObjects_lifecycle`
before it was proved.

`FenceInv` is the argument of the fence.  A frame whose fence is signaled has no
submission on the queue, and its available semaphore is at rest (`Signaled`).  A
frame whose fence is not signaled is either the current one, between its reset
and its submission (`Held`), or on the queue, or was refused (`Unsignaled`).  No
frame is on the queue twice (`QueueOrder`), which is what lets a completing submission
speak for the frame.  `AcquireSemaphoreFree` alone is not inductive: it says
nothing of frames other than the current one, and the current one changes.

The theorems of `FrameQueueProofs` rest on what the two queues hold.  `Pending` is the queue
of presents with the one that the host is about to add, `Queued` the frames and images
on the GPU.  Every step of `FrameSync` is shown to be one of eight (`QueueNext`): nothing moves, the
pipeline is empty, an image is acquired, a submission is added, a submission fails, the
oldest one is completed, a semaphore is signaled, the oldest present is shown.
The invariants are proved for these.

* `TraceInv`, whatever fails: every submission on the GPU has its present in `Pending`, and if
  its finished semaphore is signaled, an older present of the same frame is
  there to consume it.  `RecordsIdleCommandBuffer` follows at once, as an image
  that is not in `Pending` is not on the GPU.  The second half is needed when a
  present is taken away.
* `OrderInv`, whatever fails: counted back from the end, the presents are of the frames
  before the next one, in turn, so that any `buffer_strategy` successive ones are of
  different frames.  The next one is not known on the way to a recreation
  (`Settled`): a present that finds the surface out of date leaves `current_frame` as it is.
* `CountInv`, if no submission failed since the objects were created: what is on the GPU is
  the end of `Pending` (`QueuedIsSuffix`).  The presents before that are the completed ones,
  and the signaled semaphores are theirs (`FinishedIsPrefix`), with as many different images.
  Every present of a submission's image that is older than the submission is
  among the `ahead` it waits for (`AheadInv`).

From these follows the argument of the finished semaphore (`OldestIsNew`).  When the oldest
submission has its semaphore signaled, nothing is `ahead` of it, so no completed present
has its image.  The completed presents and this one have different images, so they are at
most `buffer_strategy`; being successive they are of different frames; and so none of them
is still to consume the semaphore that the submission is about to signal.
None of the three invariants speaks of the presentation engine's choice of
images, and indeed it may be any.

`AcquiredInv` adds that a submission's acquire has been made, and that it waits for
presents of older submissions only.  Without this, the oldest submission could wait for
its own present.  With it, the oldest submission can run, or end, or be given its image,
or there is a completed present to be shown; and with no submission at all, the
fence is signaled, the device idle, and the presents all completed.  The measure
`Backlog` goes down with each of these steps (`OthersUseUpBacklog`) and is
bounded.  What these three theorems leave of the liveness of `draw_frame` is the step
from "can" to "will", which is fairness.

The refinement of `FramePipeline` is proved in its safety part: initial states are
mapped to initial states, and every step to a step or none.  After a submission that
failed, presents wait that no submission precedes, and the mapping means nothing;
`LoopIsPipeline` is therefore about the steps that are taken while none has, and
`LoopImplementsPipeline`, about all of them, assumes that `MaxFailedSubmits` is zero, as in the run.

`HandlesInv` describes what exists by the place of the program: at the start the
handles made so far, with what they were made from; in the loop all of them;
after it those not yet destroyed.  `DrawsWithEverything` says nothing of the start, where
the loop's handles come from.

The invariant of `Build` relates the files to the versions compiled in this
build: of a shader the loop has done, the header is of the `.spv` file, and that
is of the version read unless a tool failed.

`SuitableDevicesSetUp` is about the number of universal families, the loop about the length of
the requests so far.  The requests are as many as the universal families already
passed, because each is of another family; they are fewer than the array has entries
as long as one is still to come.

TLC checked the properties on the instances of the runs before they were proved, and the
invariants they rest on.

Only model-checked:

* All liveness, which is out of the reach of the proof system: `RestoredWindowIsDrawn`, `DrawFrameReturns`,
  `OnlyFailedSubmitBlocks`, `PumpReturns`, `QuitDestroysEverything`, `RebuildRepairs`, and the fairness in
  `ImplementsFramePipeline`.
* That the sum of the queues in `DeviceSelection` is what the loop adds up: it
  needs induction over data.
* The findings, which are counterexamples.

## Not modelled

* Logging, directories and the debug callback: output only.
* The sprite shaders: they have no state, their arithmetic is floating point
  (the cell of a sprite is found with a division and `floor` of floats), and the
  program creates no pipeline that would run them.  `Build` has them as files.
* The Linux build script: its first line is `exit`.
* Format, colour space, transform, layouts and access masks: constants of the
  code.  Of the barriers only the stage matters, in `CommandStage`.
* Command buffers of a start without area: `vkAllocateCommandBuffers` is then asked
  for none (260-266), which Vulkan does not allow; `VulkanInit` takes it to
  succeed.
* Memory exhaustion: no result of `malloc` is tested.
* A lost device: every call may then fail or return at once, and no result of
  those in the frame loop but two is looked at.
* Whether the queue's family can present to the surface: the code does not ask.
* The swapchain's images when the window was resized between the query at 167
  and the one at 183.
* The vendored headers (`lib/`), which declare Vulkan, Win32 and C and have no
  behaviour, the compiler and the tools, which are binaries.

## Plan

What could follow, in this order:

1. The frame loop with submissions that fail, as a pipeline: an abstract
   specification in which a frame may be lost and blocks those behind it.
2. `FrameSync` and `AppRun` composed: at present they share `PresentObjects`, which both
   implement, and a run of both would only interleave what does not interact.
3. `SpriteAtlas`, when a pipeline loads the shaders: the cell of a sprite in its
   texture, with the rounding of the division.

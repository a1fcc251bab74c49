---------------------------- MODULE AppRunProofs ----------------------------
(***************************************************************************)
(* AppRun, proved for every set of window sizes and of image counts and    *)
(* for a message queue of any length: it implements PresentObjects, and    *)
(* the handles around the present objects exist wherever they are used.    *)
(***************************************************************************)
EXTENDS AppRun, PresentObjectsProofs

-----------------------------------------------------------------------------
(* The steps of PresentObjects within those of AppRun.                     *)

\* A step of app_run is a step of the present objects' life, or leaves all of
\* its variables alone.
LEMMA AppStep == [AppNext]_appVars => [Next]_vars
<1> SUFFICES ASSUME [AppNext]_appVars PROVE [Next]_vars
  OBVIOUS
<1>1. CASE CreateHandle \/ CreationFails \/ UseMissing
  BY <1>1 DEF CreateHandle, CreationFails, UseMissing
<1>2. CASE AppVulkanInit
  BY <1>2 DEF AppVulkanInit, Next, Program
<1>3. CASE DispatchClose
  BY <1>3 DEF DispatchClose, Next
<1>4. CASE DispatchDrag \/ DispatchOther \/ DispatchPaint \/ EndDrag
  BY <1>4 DEF DispatchDrag, DispatchOther, DispatchPaint, EndDrag
<1>5. CASE AppLeavePump \/ AppLeaveLoop
  BY <1>5 DEF AppLeavePump, AppLeaveLoop, Next, Program
<1>6. CASE Drawn
  BY <1>6 DEF Drawn, Next, Program
<1>7. CASE DestroyPools \/ DestroyHandle
  BY <1>7 DEF DestroyPools, DestroyHandle
<1>8. CASE AppTeardown
  BY <1>8 DEF AppTeardown, Next, Program
<1>9. CASE PostMessage
  BY <1>9 DEF PostMessage
<1>10. CASE AppResizeWindow
  BY <1>10 DEF AppResizeWindow, Next
<1>11. CASE AppTerminated \/ UNCHANGED appVars
  BY <1>11 DEF AppTerminated, appVars
<1>12. QED
  BY <1>1, <1>2, <1>3, <1>4, <1>5, <1>6, <1>7, <1>8, <1>9, <1>10, <1>11
  DEF AppNext, AppProgram, User

\* Whatever is proved of the present objects holds within app_run, with its
\* failing start, its messages and its teardown.
THEOREM AppRunImplementsPresentObjects == AppSpec => Spec
<1>1. AppInit => Init
  BY DEF AppInit
<1>2. QED
  BY <1>1, AppStep, PTL DEF AppSpec, Spec

\* The invariant of PresentObjects, of AppRun.
LEMMA AppInvariant == AppSpec => []Invariant
BY AppRunImplementsPresentObjects, InvariantHolds, PTL

-----------------------------------------------------------------------------
(* The handles.  While vulkan_init runs, they appear in the order of Start *)
(* with gaps where a creation failed; from its end to the end of the loop  *)
(* there is no gap; after it they go in the opposite order, but for the    *)
(* window, which goes first.                                               *)

InLoop == {"loop", "pump", "draw", "recreate", "create"}

\* Every object is outlived by what it was made from, the window excepted if
\* it may be.
Closed(exempt) == \A h \in live : Parents[h] \subseteq live \cup exempt

WhileStarting ==
  /\ live \subseteq {Start[k] : k \in 1 .. started}
  /\ Closed({})
  /\ crashed => (\E k \in 1 .. started : Start[k] \notin live) \/ NoDevice

HandlesInv ==
  /\ started \in 0 .. 5
  /\ live \subseteq Handles
  /\ pc = "init" => WhileStarting
  /\ pc # "init" => ~crashed
  /\ pc \in InLoop => live = Handles
  /\ pc = "exit" => Handles \ {"window", "command_pools"} \subseteq live
  /\ pc = "undefined" => {"device", "surface"} \subseteq live
  /\ pc = "done" => "command_pools" \notin live
  /\ pc \in {"exit"} \cup Terminal => Closed({"window"})

\* What the sequence Start is, in the form the provers can use.
LEMMA StartFacts ==
  /\ Len(Start) = 5
  /\ Start[1] = "window" /\ Start[2] = "instance" /\ Start[3] = "device"
  /\ Start[4] = "surface" /\ Start[5] = "command_pools"
  /\ Handles = {"window", "instance", "device", "surface", "command_pools"}
<1>1. /\ Len(Start) = 5
      /\ Start[1] = "window" /\ Start[2] = "instance" /\ Start[3] = "device"
      /\ Start[4] = "surface" /\ Start[5] = "command_pools"
  BY DEF Start
<1>2. DOMAIN Start = {1, 2, 3, 4, 5}
  BY DEF Start
<1>3. QED
  BY <1>1, <1>2 DEF Handles

\* What a creation uses was created before.
LEMMA UsedFirst ==
  \A n \in 0 .. 4 :
    /\ Used(Start[n + 1]) \subseteq {Start[k] : k \in 1 .. n}
    /\ Parents[Start[n + 1]] \subseteq Used(Start[n + 1])
<1> SUFFICES ASSUME NEW n \in 0 .. 4
             PROVE  Used(Start[n + 1]) \subseteq {Start[k] : k \in 1 .. n}
  BY DEF Used
<1>1. CASE n = 0 \/ n = 1 \/ n = 2
  BY <1>1, StartFacts DEF Parents, Used
<1>2. CASE n = 3 \/ n = 4
  BY <1>2, StartFacts DEF Parents, Used
<1>3. QED
  BY <1>1, <1>2

\* What objects are made from, handle by handle.
LEMMA ParentsFacts ==
  /\ Parents["window"] = {} /\ Parents["instance"] = {}
  /\ Parents["device"] = {"instance"}
  /\ Parents["surface"] = {"instance", "window"}
  /\ Parents["command_pools"] = {"device"}
BY DEF Parents

LEMMA HandlesInit == AppInit => HandlesInv
BY DEF AppInit, Init, HandlesInv, WhileStarting, Closed, InLoop, Terminal

\* With everything created, everything has its parents.
LEMMA AllClosed == live = Handles => Closed({}) /\ Closed({"window"})
BY StartFacts, ParentsFacts DEF Closed

\* The steps of the start.
LEMMA StartStep ==
  ASSUME HandlesInv, CreateHandle \/ CreationFails \/ UseMissing \/ AppVulkanInit
  PROVE  HandlesInv'
<1>1. /\ pc = "init" /\ ~crashed /\ started \in 0 .. 5
      /\ live \subseteq {Start[k] : k \in 1 .. started} /\ Closed({})
      /\ live \subseteq Handles
  BY DEF HandlesInv, WhileStarting, Starting,
         CreateHandle, CreationFails, UseMissing, AppVulkanInit
<1>2. CASE CreateHandle
  <2>1. /\ started \in 0 .. 4 /\ started' = started + 1 /\ pc' = "init"
        /\ ~crashed' /\ live' = live \cup {Start[started + 1]}
        /\ Used(Start[started + 1]) \subseteq live
    BY <1>1, <1>2, StartFacts DEF CreateHandle, NextHandle, vars
  <2>2. live' \subseteq {Start[k] : k \in 1 .. started'}
    BY <1>1, <2>1
  <2>3. Start[started + 1] \in Handles
    BY <2>1, StartFacts DEF Handles
  <2>4. Closed({})'
    <3>1. Parents[Start[started + 1]] \subseteq live
      BY <2>1, UsedFirst
    <3>2. QED
      BY <1>1, <2>1, <3>1 DEF Closed
  <2>5. QED
    BY <1>1, <2>1, <2>2, <2>3, <2>4
    DEF HandlesInv, WhileStarting, InLoop, Terminal
<1>3. CASE CreationFails
  <2>1. /\ started \in 0 .. 4 /\ started' = started + 1 /\ pc' = "init"
        /\ ~crashed' /\ live' = live
    BY <1>1, <1>3, StartFacts DEF CreationFails, vars
  <2>2. live' \subseteq {Start[k] : k \in 1 .. started'}
    BY <1>1, <2>1
  <2>3. QED
    BY <1>1, <2>1, <2>2 DEF HandlesInv, WhileStarting, Closed, InLoop, Terminal
<1>4. CASE UseMissing
  <2>1. pc' = "init" /\ live' = live /\ started' = started
    BY <1>1, <1>4 DEF UseMissing, vars
  <2>2. (\E k \in 1 .. started : Start[k] \notin live) \/ NoDevice
    <3>1. CASE started < Len(Start) /\ ~(Used(NextHandle) \subseteq live)
      <4>1. /\ started \in 0 .. 4
            /\ ~(Used(Start[started + 1]) \subseteq live)
        BY <1>1, <3>1, StartFacts DEF NextHandle
      <4>2. QED
        BY <4>1, UsedFirst
    <3>2. CASE started = Len(Start) /\ live # Handles
      <4>1. started = 5 /\ live # Handles
        BY <3>2, StartFacts
      <4>2. PICK h \in Handles : h \notin live
        BY <1>1, <4>1
      <4>3. QED
        BY <4>1, <4>2, StartFacts
    <3>3. QED
      BY <1>4, <3>1, <3>2 DEF UseMissing
  <2>3. NoDevice' = NoDevice
    BY <2>1 DEF NoDevice, NextHandle
  <2>4. QED
    BY <1>1, <2>1, <2>2, <2>3
    DEF HandlesInv, WhileStarting, Closed, InLoop, Terminal
<1>5. CASE AppVulkanInit
  <2>1. /\ pc' \in {"loop", "undefined"} /\ live = Handles /\ live' = live
        /\ started' = started /\ ~crashed'
    BY <1>1, <1>5
    DEF AppVulkanInit, VulkanInit, SwapchainFails, Undefined, startVars
  <2>2. QED
    BY <1>1, <2>1, AllClosed, StartFacts
    DEF HandlesInv, Closed, InLoop, Terminal
<1>6. QED
  BY <1>2, <1>3, <1>4, <1>5

\* The steps of the loop before DestroyWindow.
LEMMA LoopStep ==
  ASSUME HandlesInv,
         \/ DispatchClose \/ DispatchDrag \/ DispatchOther \/ DispatchPaint
         \/ AppLeavePump \/ Drawn
  PROVE  HandlesInv'
<1>1. /\ pc \in InLoop /\ pc' \in InLoop \cup {"undefined"}
      /\ UNCHANGED <<started, crashed, live>>
  <2>1. CASE DispatchClose \/ DispatchDrag \/ DispatchOther \/ DispatchPaint
    BY <2>1 DEF DispatchClose, HandleClose, AfterClose, DispatchDrag,
                DispatchOther, DispatchPaint, InLoop, vars, startVars
  <2>2. CASE AppLeavePump
    BY <2>2 DEF AppLeavePump, LeavePump, InLoop, startVars
  <2>3. CASE Drawn
    <3>1. UNCHANGED <<started, crashed, live>>
      BY <2>3 DEF Drawn, startVars
    <3>2. CASE DestroyPresentObjects
      BY <3>1, <3>2
      DEF DestroyPresentObjects, DestroyObjects, Undefined, InLoop
    <3>3. CASE CreatePresentObjects \/ (SwapchainFails /\ pc = "create")
      BY <3>1, <3>3
      DEF CreatePresentObjects, SwapchainFails, Undefined, InLoop
    <3>4. CASE DrawNothing
      BY <3>1, <3>4 DEF DrawNothing, AfterDrawNothing, InLoop
    <3>5. CASE DrawOutOfBounds \/ DrawImageUnset \/ DrawOutOfDate
                 \/ DrawPresented
      BY <3>1, <3>5 DEF DrawOutOfBounds, DrawImageUnset, DrawOutOfDate,
                        DrawPresented, Drawing, Undefined, InLoop
    <3>6. CASE EnterPump
      BY <3>1, <3>6 DEF EnterPump, InLoop
    <3>7. \/ DestroyPresentObjects \/ CreatePresentObjects
          \/ SwapchainFails /\ pc = "create"
          \/ DrawNothing \/ DrawOutOfBounds \/ DrawImageUnset
          \/ DrawOutOfDate \/ DrawPresented \/ EnterPump
      BY <2>3 DEF Drawn
    <3>8. QED
      BY <3>2, <3>3, <3>4, <3>5, <3>6, <3>7
  <2>4. QED
    BY <2>1, <2>2, <2>3
<1>2. started \in 0 .. 5 /\ live = Handles /\ ~crashed
  BY <1>1 DEF HandlesInv, InLoop
<1>3. QED
  BY <1>1, <1>2, AllClosed, StartFacts DEF HandlesInv, Closed, InLoop, Terminal

\* The steps from DestroyWindow on.
LEMMA EndStep ==
  ASSUME HandlesInv,
         AppLeaveLoop \/ DestroyPools \/ AppTeardown \/ DestroyHandle
  PROVE  HandlesInv'
<1>1. /\ started \in 0 .. 5 /\ ~crashed /\ live \subseteq Handles
      /\ UNCHANGED <<started, crashed>>
  BY DEF HandlesInv, AppLeaveLoop, LeaveLoop, DestroyPools, AppTeardown,
         TeardownPresentObjects, DestroyHandle, startVars
<1>2. CASE AppLeaveLoop
  <2>1. pc' = "exit" /\ live = Handles /\ live' = live \ {"window"}
    BY <1>2 DEF AppLeaveLoop, LeaveLoop, HandlesInv, InLoop
  <2>2. Closed({"window"})'
    BY <2>1, StartFacts, ParentsFacts DEF Closed
  <2>3. QED
    BY <1>1, <2>1, <2>2, StartFacts DEF HandlesInv, InLoop, Terminal
<1>3. CASE DestroyPools
  <2>1. /\ pc = "exit" /\ pc' = "exit" /\ live' = live \ {"command_pools"}
        /\ Handles \ {"window", "command_pools"} \subseteq live
        /\ Closed({"window"})
    BY <1>3 DEF DestroyPools, HandlesInv, vars
  <2>2. Closed({"window"})'
    BY <1>1, <2>1, StartFacts, ParentsFacts DEF Closed
  <2>3. QED
    BY <1>1, <2>1, <2>2, StartFacts DEF HandlesInv, InLoop, Terminal
<1>4. CASE AppTeardown
  <2>1. /\ pc = "exit" /\ pc' \in {"done", "undefined"} /\ live' = live
        /\ "command_pools" \notin live
        /\ Handles \ {"window", "command_pools"} \subseteq live
        /\ Closed({"window"})
    BY <1>4 DEF AppTeardown, TeardownPresentObjects, DestroyObjects, Undefined,
                HandlesInv, startVars
  <2>2. QED
    BY <1>1, <2>1, StartFacts DEF HandlesInv, Closed, InLoop, Terminal
<1>5. CASE DestroyHandle
  <2>1. /\ pc = "done" /\ pc' = "done"
        /\ "command_pools" \notin live /\ Closed({"window"})
    BY <1>5 DEF DestroyHandle, HandlesInv, vars, Terminal
  <2>2. /\ Len(End) = 3 /\ DOMAIN End = {1, 2, 3}
        /\ End[1] = "surface" /\ End[2] = "device" /\ End[3] = "instance"
    BY DEF End
  <2>3. PICK k \in {1, 2, 3} : /\ live' = live \ {End[k]}
                              /\ \A j \in 1 .. k - 1 : End[j] \notin live
    BY <1>5, <2>2 DEF DestroyHandle
  <2>4. \/ live' = live \ {"surface"}
        \/ live' = live \ {"device"}
        \/ live' = live \ {"instance"} /\ {"surface", "device"} \cap live = {}
    BY <2>2, <2>3
  <2>5. Closed({"window"})'
    <3> SUFFICES ASSUME NEW h \in live'
                 PROVE  Parents[h] \subseteq live' \cup {"window"}
      BY DEF Closed
    <3>1. /\ h \in {"window", "instance", "device", "surface"} /\ h \in live
          /\ Parents[h] \subseteq live \cup {"window"}
      BY <1>1, <2>1, <2>4, StartFacts DEF Closed
    <3>2. CASE h \in {"window", "instance"}
      BY <3>2, ParentsFacts
    <3>3. CASE h = "device"
      BY <2>4, <3>1, <3>3, ParentsFacts
    <3>4. CASE h = "surface"
      BY <2>4, <3>1, <3>4, ParentsFacts
    <3>5. QED
      BY <3>1, <3>2, <3>3, <3>4
  <2>6. QED
    BY <1>1, <2>1, <2>4, <2>5 DEF HandlesInv, InLoop, Terminal
<1>6. QED
  BY <1>2, <1>3, <1>4, <1>5

\* The inductive invariant is an invariant.
LEMMA HandlesInvariant == AppSpec => []HandlesInv
<1>1. HandlesInv /\ [AppNext]_appVars => HandlesInv'
  <2> SUFFICES ASSUME HandlesInv, [AppNext]_appVars PROVE HandlesInv'
    OBVIOUS
  <2>1. CASE EndDrag \/ PostMessage \/ AppResizeWindow \/ AppTerminated
               \/ UNCHANGED appVars
    <3>1. UNCHANGED <<pc, started, crashed, live>>
      BY <2>1 DEF EndDrag, PostMessage, AppResizeWindow, ResizeWindow,
                  AppTerminated, appVars, vars, startVars
    <3>2. QED
      BY <3>1 DEF HandlesInv, WhileStarting, Closed, NoDevice, NextHandle
  <2>2. QED
    BY <2>1, StartStep, LoopStep, EndStep DEF AppNext, AppProgram, User
<1>2. QED
  BY <1>1, HandlesInit, PTL DEF AppSpec

-----------------------------------------------------------------------------
(* Theorems.                                                               *)

\* Between vulkan_init and DestroyWindow the window and every object of
\* vulkan_init exist, whatever messages the window receives.
THEOREM DrawsWithAll == AppSpec => []DrawsWithEverything
<1>1. HandlesInv => DrawsWithEverything
  BY DEF HandlesInv, InLoop, DrawsWithEverything
<1>2. QED
  BY <1>1, HandlesInvariant, PTL

\* A start in which nothing fails never uses a missing handle, if there is a
\* physical device.
THEOREM CrashNeedsFailure == AppSpec => []CrashesOnlyAfterFailure
<1>1. HandlesInv => CrashesOnlyAfterFailure
  BY DEF HandlesInv, WhileStarting, CrashesOnlyAfterFailure
<1>2. QED
  BY <1>1, HandlesInvariant, PTL

\* Through the whole of app_run every object but the surface, which survives
\* its window, is destroyed before what it was made from.
THEOREM ParentsOutlive == AppSpec => []OutlivedByParents
<1>1. Invariant /\ HandlesInv => OutlivedByParents
  <2> SUFFICES ASSUME Invariant, HandlesInv PROVE OutlivedByParents
    OBVIOUS
  <2>1. pc \in {"init", "exit"} \cup InLoop \cup Terminal
    BY DEF Invariant, TypeOK, Labels, InLoop, Terminal
  <2>2. swapchain = "live" => {"device", "surface"} \subseteq live
    <3>1. swapchain = "live" => pc \notin {"init", "done"}
      BY DEF Invariant, Lifecycle, WhenLive
    <3>2. QED
      BY <2>1, <3>1, StartFacts DEF HandlesInv, Terminal
  <2>3. pc \in {"init"} \cup InLoop => Closed({})
    BY AllClosed DEF HandlesInv, WhileStarting, InLoop
  <2>4. QED
    BY <2>1, <2>2, <2>3 DEF HandlesInv, Closed, OutlivedByParents, InLoop,
                            Terminal
<1>2. QED
  BY <1>1, AppInvariant, HandlesInvariant, PTL

\* What the handles and the pending messages can be.
HandleTypes ==
  /\ started \in 0 .. 5
  /\ crashed \in BOOLEAN
  /\ live \subseteq Handles
  /\ messages \in Seq({"close", "drag", "other"})
  /\ modal \in BOOLEAN
  /\ invalid \in BOOLEAN

\* Every step keeps the types of the handles and the messages.
LEMMA HandleTypesStep ==
  HandleTypes /\ TypeOK /\ [AppNext]_appVars => HandleTypes'
<1> SUFFICES ASSUME HandleTypes, TypeOK, [AppNext]_appVars PROVE HandleTypes'
  OBVIOUS
<1> USE StartFacts DEF HandleTypes, startVars, windowVars
<1>1. messages # <<>> => Tail(messages) \in Seq({"close", "drag", "other"})
  OBVIOUS
<1>2. CASE CreateHandle \/ CreationFails \/ UseMissing \/ AppVulkanInit
  <2>1. CASE CreateHandle
    <3>1. started < 5 => Start[started + 1] \in Handles
      BY DEF Handles
    <3>2. started < 5 /\ started' = started + 1
      BY <2>1 DEF CreateHandle
    <3>3. live' = live \cup {Start[started + 1]}
      BY <2>1, Zenon DEF CreateHandle, NextHandle
    <3>4. started' \in 0 .. 5 /\ live' \subseteq Handles
      <4>1. started' \in 0 .. 5
        BY <3>2
      <4>2. Start[started + 1] \in Handles /\ live \subseteq Handles
        BY <3>1, <3>2
      <4>3. QED
        BY <4>1, <4>2, <3>3, Zenon
    <3>5. invalid' \in BOOLEAN /\ UNCHANGED <<crashed, messages, modal>>
      BY <2>1, Zenon DEF CreateHandle
    <3>6. QED
      BY <3>4, <3>5
  <2>2. CASE CreationFails
    BY <2>2 DEF CreationFails
  <2>3. CASE UseMissing
    BY <2>3 DEF UseMissing
  <2>4. CASE AppVulkanInit
    BY <2>4 DEF AppVulkanInit
  <2>5. QED
    BY <1>2, <2>1, <2>2, <2>3, <2>4
<1>3. CASE DispatchClose \/ DispatchDrag \/ DispatchOther \/ DispatchPaint
  BY <1>1, <1>3 DEF DispatchClose, DispatchDrag, DispatchOther, DispatchPaint,
                    AfterClose, AfterPaint
<1>4. CASE AppLeavePump \/ AppLeaveLoop \/ Drawn
  <2>1. CASE AppLeavePump \/ Drawn
    BY <2>1 DEF AppLeavePump, Drawn
  <2>2. CASE AppLeaveLoop
    <3>1. <<>> \in Seq({"close", "drag", "other"})
      OBVIOUS
    <3>2. /\ messages' = <<>> /\ live' \subseteq live /\ invalid' = FALSE
          /\ UNCHANGED <<started, crashed, modal>>
      BY <2>2, Zenon DEF AppLeaveLoop
    <3>3. QED
      BY <3>1, <3>2
  <2>3. QED
    BY <1>4, <2>1, <2>2
<1>5. CASE DestroyPools \/ AppTeardown \/ DestroyHandle
  BY <1>5 DEF DestroyPools, AppTeardown, DestroyHandle
<1>6. CASE EndDrag \/ PostMessage
  <2>1. CASE EndDrag
    BY <2>1 DEF EndDrag
  <2>2. CASE PostMessage
    <3>1. PICK m \in {"close", "drag", "other"} : messages' = Append(messages, m)
      BY <2>2 DEF PostMessage
    <3>2. messages' \in Seq({"close", "drag", "other"})
      BY <3>1
    <3>3. QED
      BY <2>2, <3>2 DEF PostMessage
  <2>3. QED
    BY <1>6, <2>1, <2>2
<1>7. CASE AppResizeWindow
  BY <1>7, Zenon DEF AppResizeWindow, HasArea
<1>8. CASE AppTerminated \/ UNCHANGED appVars
  BY <1>8 DEF AppTerminated, appVars
<1>9. QED
  BY <1>2, <1>3, <1>4, <1>5, <1>6, <1>7, <1>8 DEF AppNext, AppProgram, User

\* Every variable keeps its type, the queue of messages among them, whatever
\* the user sends and whatever fails (app.c:644-690).
THEOREM AppTypeCorrect == AppSpec => []AppTypeOK
<1>1. AppInit => HandleTypes
  <2> SUFFICES ASSUME AppInit PROVE HandleTypes
    OBVIOUS
  <2>1. messages = <<>> /\ live = {} /\ started = 0
    BY DEF AppInit
  <2>2. crashed \in BOOLEAN /\ modal \in BOOLEAN /\ invalid \in BOOLEAN
    BY DEF AppInit
  <2>3. QED
    BY <2>1, <2>2 DEF HandleTypes
<1>2. AppSpec => []TypeOK
  BY AppRunImplementsPresentObjects, TypeCorrect, PTL
<1>3. HandleTypes /\ TypeOK => AppTypeOK
  BY StartFacts DEF HandleTypes, AppTypeOK
<1>4. QED
  BY <1>1, <1>2, <1>3, HandleTypesStep, PTL DEF AppSpec

=============================================================================

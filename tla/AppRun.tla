------------------------------- MODULE AppRun -------------------------------
(***************************************************************************)
(* app_run from its first call to its last: the window and the Vulkan      *)
(* objects around the present objects, made one after the other by steps   *)
(* whose errors are printed and passed over, the messages the pump takes   *)
(* from the queue, and the destruction at the end.  PresentObjects         *)
(* supplies what happens in between.                                       *)
(*                                                                         *)
(* The window system posts messages at any time.  Messages that are not    *)
(* handled go to DefWindowProc; one that starts a move or a resize makes   *)
(* it take further messages in a loop of its own, until the user lets go.  *)
(***************************************************************************)
EXTENDS PresentObjects, Sequences

CONSTANTS
  StartMayFail,  \* whether a creating call of the start may return an error
  MayLackDevice, \* whether the instance may enumerate no physical device
  MaxPending     \* bound: the messages that wait in the queue

ASSUME StartMayFailAssumption == StartMayFail \in BOOLEAN
ASSUME MayLackDeviceAssumption == MayLackDevice \in BOOLEAN
ASSUME MaxPendingAssumption == MaxPending \in Nat

VARIABLES
  started,   \* the number of steps of the start that were taken
  crashed,   \* a step used a handle that was never created
  live,      \* the handles of objects that exist
  messages,  \* posted messages, oldest first
  modal,     \* DefWindowProc runs its own message loop
  invalid    \* a part of the window has to be painted

startVars == <<started, crashed, live>>
windowVars == <<messages, modal, invalid>>
appVars == <<vars, startVars, windowVars>>

-----------------------------------------------------------------------------
(* Handles.                                                                *)

\* Mutant: vulkan_init is called before window_create.
Start_VulkanFirst ==
  <<"instance", "device", "surface", "command_pools", "window">>

\* The order in which app_run and vulkan_init create.
Start == <<"window", "instance", "device", "surface", "command_pools">>

Handles == {Start[k] : k \in DOMAIN Start}

\* What a creation is given, and what has to outlive what it creates.
Parents == [
  window        |-> {},
  instance      |-> {},
  device        |-> {"instance"},
  surface       |-> {"instance", "window"},
  command_pools |-> {"device"}]

\* Mutant: the instance is destroyed before the device.
End_InstanceFirst == <<"surface", "instance", "device">>

\* Mutant: vkDestroySurfaceKHR is forgotten.
End_NoSurface == <<"device", "instance">>

\* The order in which app_run destroys what the present objects needed.
End == <<"surface", "device", "instance">>

AppInit ==
  /\ Init
  /\ started = 0
  /\ crashed = FALSE
  /\ live = {}
  /\ messages = <<>>
  /\ modal = FALSE
  /\ invalid = FALSE

-----------------------------------------------------------------------------
(* The start.                                                              *)

Starting == pc = "init" /\ ~crashed
NextHandle == Start[started + 1]

\* What has to exist on the way to the creation of a handle: what it is made
\* from, and for the surface the device, whose queue is fetched before.
Used(h) == Parents[h] \cup (IF h = "surface" THEN {"device"} ELSE {})

\* A window that is visible has to be painted from the start.
CreateHandle ==
  /\ Starting
  /\ started < Len(Start)
  /\ Used(NextHandle) \subseteq live
  /\ started' = started + 1
  /\ live' = live \cup {NextHandle}
  /\ invalid' = (invalid \/ NextHandle = "window")
  /\ UNCHANGED <<vars, crashed, messages, modal>>

\* The error is printed, or not even that, and the handle stays null.
CreationFails ==
  /\ StartMayFail
  /\ Starting
  /\ started < Len(Start)
  /\ Used(NextHandle) \subseteq live
  /\ started' = started + 1
  /\ UNCHANGED <<vars, crashed, live, windowVars>>

\* The device is made from the first of the physical devices, and there is none.
NoDevice == MayLackDevice /\ started < Len(Start) /\ NextHandle = "device"

\* What is needed next, by the creation of a handle or of the present objects,
\* is missing.
UseMissing ==
  /\ Starting
  /\ \/ started < Len(Start) /\ ~(Used(NextHandle) \subseteq live)
     \/ started = Len(Start) /\ live # Handles
     \/ NoDevice
  /\ crashed' = TRUE
  /\ UNCHANGED <<vars, started, live, windowVars>>

\* The end of vulkan_init.
AppVulkanInit ==
  /\ Starting
  /\ started = Len(Start)
  /\ live = Handles
  /\ VulkanInit \/ SwapchainFails
  /\ UNCHANGED <<startVars, windowVars>>

-----------------------------------------------------------------------------
(* The pump and window_callback.                                           *)

\* Mutant: WM_CLOSE is passed on to DefWindowProc, which destroys the window.
AfterClose_Default == live \ {"window"}

\* WM_CLOSE is answered by the flag and by nothing else.
AfterClose == live

\* Mutant: WM_PAINT without BeginPaint and EndPaint.
AfterPaint_NotValidated == invalid

\* BeginPaint validates the window, although nothing is painted.
AfterPaint == FALSE

DispatchClose ==
  /\ messages # <<>>
  /\ Head(messages) = "close"
  /\ HandleClose
  /\ messages' = Tail(messages)
  /\ live' = AfterClose
  /\ UNCHANGED <<started, crashed, modal, invalid>>

\* DefWindowProc starts its loop, unless it is within it already.
DispatchDrag ==
  /\ pc = "pump"
  /\ messages # <<>>
  /\ Head(messages) = "drag"
  /\ messages' = Tail(messages)
  /\ modal' = TRUE
  /\ UNCHANGED <<vars, startVars, invalid>>

\* WM_SIZE, WM_ACTIVATEAPP, and what DefWindowProc handles at once.
DispatchOther ==
  /\ pc = "pump"
  /\ messages # <<>>
  /\ Head(messages) = "other"
  /\ messages' = Tail(messages)
  /\ UNCHANGED <<vars, startVars, modal, invalid>>

\* WM_PAINT is not posted: it is found whenever the queue is empty and the
\* window has an invalid part.
DispatchPaint ==
  /\ pc = "pump"
  /\ messages = <<>>
  /\ invalid
  /\ invalid' = AfterPaint
  /\ UNCHANGED <<vars, startVars, messages, modal>>

\* The user lets go of the window, and DefWindowProc returns.
EndDrag ==
  /\ modal
  /\ modal' = FALSE
  /\ UNCHANGED <<vars, startVars, messages, invalid>>

\* PeekMessage finds nothing.
AppLeavePump ==
  /\ LeavePump
  /\ ~modal
  /\ messages = <<>>
  /\ ~invalid
  /\ UNCHANGED <<startVars, windowVars>>

-----------------------------------------------------------------------------
(* The rest of the loop and the end.                                       *)

\* DestroyWindow, after which the window has no more messages.
AppLeaveLoop ==
  /\ LeaveLoop
  /\ live' = live \ {"window"}
  /\ messages' = <<>>
  /\ invalid' = FALSE
  /\ UNCHANGED <<started, crashed, modal>>

Drawn ==
  /\ \/ DestroyPresentObjects \/ CreatePresentObjects
     \/ SwapchainFails /\ pc = "create"
     \/ DrawNothing \/ DrawOutOfBounds \/ DrawImageUnset
     \/ DrawOutOfDate \/ DrawPresented
     \/ EnterPump
  /\ UNCHANGED <<startVars, windowVars>>

DestroyPools ==
  /\ pc = "exit"
  /\ "command_pools" \in live
  /\ live' = live \ {"command_pools"}
  /\ UNCHANGED <<vars, started, crashed, windowVars>>

AppTeardown ==
  /\ "command_pools" \notin live
  /\ TeardownPresentObjects
  /\ UNCHANGED <<startVars, windowVars>>

DestroyHandle ==
  /\ pc = "done"
  /\ \E k \in DOMAIN End :
       /\ End[k] \in live
       /\ \A j \in 1 .. k - 1 : End[j] \notin live
       /\ live' = live \ {End[k]}
  /\ UNCHANGED <<vars, started, crashed, windowVars>>

AppTerminated ==
  /\ \/ crashed
     \/ pc = "undefined"
     \/ pc = "done" /\ \A k \in DOMAIN End : End[k] \notin live
  /\ UNCHANGED appVars

-----------------------------------------------------------------------------
(* The window system.                                                      *)

HasWindow == "window" \in live

PostMessage ==
  /\ HasWindow
  /\ Len(messages) < MaxPending
  /\ \E m \in {"close", "drag", "other"} : messages' = Append(messages, m)
  /\ UNCHANGED <<vars, startVars, modal, invalid>>

\* The class has CS_HREDRAW and CS_VREDRAW: a new size makes the whole client
\* area invalid.
AppResizeWindow ==
  /\ HasWindow
  /\ ResizeWindow
  /\ invalid' = HasArea(client_rect')
  /\ UNCHANGED <<startVars, messages, modal>>

\* The thread of the program and the return of DefWindowProc.
AppProgram ==
  \/ CreateHandle \/ CreationFails \/ UseMissing \/ AppVulkanInit
  \/ DispatchClose \/ DispatchDrag \/ DispatchOther \/ DispatchPaint
  \/ AppLeavePump \/ AppLeaveLoop \/ Drawn
  \/ DestroyPools \/ AppTeardown \/ DestroyHandle

User == PostMessage \/ AppResizeWindow

AppNext == AppProgram \/ EndDrag \/ User \/ AppTerminated

\* The thread is scheduled, the user lets go of the window at some time, and
\* draw_frame returns: FrameSync says when it does not.
AppSpec ==
  /\ AppInit /\ [][AppNext]_appVars
  /\ WF_appVars(AppProgram) /\ WF_appVars(EndDrag)

-----------------------------------------------------------------------------
(* Properties.                                                             *)

AppTypeOK ==
  /\ TypeOK
  /\ started \in 0 .. Len(Start)
  /\ crashed \in BOOLEAN
  /\ live \subseteq Handles
  /\ messages \in Seq({"close", "drag", "other"})
  /\ modal \in BOOLEAN
  /\ invalid \in BOOLEAN

\* Whatever messages arrive and however often WM_CLOSE is among them, the program
\* draws, recreates and asks for the client area only while the window and all
\* the objects of vulkan_init exist.
DrawsWithEverything ==
  pc \in {"loop", "pump", "draw", "recreate", "create"} => live = Handles

\* The start uses what does not exist only after a creation failed, or where
\* there is no physical device to make the device from.
CrashesOnlyAfterFailure ==
  crashed => (\E k \in 1 .. started : Start[k] \notin live) \/ NoDevice

\* No object is destroyed before what it was made from.  The window is the one
\* exception: it is gone when the teardown begins.
OutlivedByParents ==
  /\ swapchain = "live" => {"device", "surface"} \subseteq live
  /\ \A h \in live :
       Parents[h] \subseteq live \cup (IF pc \in {"exit"} \cup Terminal
                                       THEN {"window"} ELSE {})

\* The user acts no more.
Quiet == <>[][~User]_appVars

\* However many messages were posted and whatever DefWindowProc did with them,
\* the pump returns to draw_frame if no more of them come.
PumpReturns == Quiet => []<>(pc # "pump")

\* A program that is told to quit ends, if the user then leaves it alone: with
\* every handle destroyed, or in undefined behaviour, such as that of the
\* teardown after a quit while the window has no area.  Every submission is
\* accepted here; FrameSync is about the wait that follows one that is not.
QuitDestroysEverything ==
  Quiet => (quit_to_desktop_requested ~> live = {} \/ pc = "undefined")

=============================================================================

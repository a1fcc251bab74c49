---------------------------- MODULE FramePipeline ----------------------------
(***************************************************************************)
(* What the frame loop of app.c promises, without fences, semaphores or    *)
(* images: a pipeline of numbered slots.  A frame is put into a slot,      *)
(* rendered, and shown; frames are rendered and shown in the order they    *)
(* were put in, each exactly once; a slot is never put in twice before it  *)
(* is rendered, nor rendered again before it is shown; and the slots are   *)
(* replaced by others only when no frame is being rendered.                *)
(***************************************************************************)
EXTENDS Naturals, Sequences

CONSTANT Depths  \* the numbers of slots a pipeline can have

VARIABLES
  slots,     \* the slots of the present pipeline, none between two pipelines
  queued,    \* the slots put in and not yet rendered, oldest first
  rendered   \* the slots rendered and not yet shown, oldest first

vars == <<slots, queued, rendered>>

Pipelines == {0 .. (n - 1) : n \in Depths}

Init ==
  /\ slots = {}
  /\ queued = <<>>
  /\ rendered = <<>>

Start ==
  /\ slots = {}
  /\ slots' \in Pipelines
  /\ UNCHANGED <<queued, rendered>>

Submit(s) ==
  /\ \A k \in DOMAIN queued : queued[k] # s
  /\ queued' = Append(queued, s)
  /\ UNCHANGED <<slots, rendered>>

Render ==
  /\ queued # <<>>
  /\ \A k \in DOMAIN rendered : rendered[k] # Head(queued)
  /\ rendered' = Append(rendered, Head(queued))
  /\ queued' = Tail(queued)
  /\ UNCHANGED slots

Show ==
  /\ rendered # <<>>
  /\ rendered' = Tail(rendered)
  /\ UNCHANGED <<slots, queued>>

\* Frames rendered and not yet shown are dropped.
Stop ==
  /\ queued = <<>>
  /\ slots' = {}
  /\ rendered' = <<>>
  /\ UNCHANGED queued

Next == Start \/ (\E s \in slots : Submit(s)) \/ Render \/ Show \/ Stop

\* What was put in is rendered, and shown unless the pipeline is stopped.
Spec == Init /\ [][Next]_vars /\ WF_vars(Render) /\ WF_vars(Show)

=============================================================================

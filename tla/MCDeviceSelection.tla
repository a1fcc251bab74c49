-------------------------- MODULE MCDeviceSelection --------------------------
(***************************************************************************)
(* Instances of DeviceSelection for TLC: up to three of a discrete device  *)
(* with a copy engine, a discrete one with more queues, an integrated one  *)
(* with a video decoder, and one too old to be eligible.                   *)
(***************************************************************************)
EXTENDS DeviceSelection

Universal(n) == [queueFlags |-> relevant_queue_flags, queueCount |-> n]
CopyEngine == [queueFlags |-> {"TRANSFER"}, queueCount |-> 2]
Decoder == [queueFlags |-> {"VIDEO_DECODE"}, queueCount |-> 1]

Discrete ==
  [version12 |-> TRUE, discrete |-> TRUE, families |-> <<Universal(1), CopyEngine>>]
Wide ==
  [version12 |-> TRUE, discrete |-> TRUE, families |-> <<Universal(16)>>]
Integrated ==
  [version12 |-> TRUE, discrete |-> FALSE, families |-> <<Decoder, Universal(1)>>]
Old ==
  [version12 |-> FALSE, discrete |-> TRUE, families |-> <<Universal(1), CopyEngine>>]

MCDeviceLists ==
  UNION {[1 .. n -> {Discrete, Wide, Integrated, Old}] : n \in 0 .. 3}

\* Nothing left on the stack, a plausible leftover, and one that wraps.
MCGarbage == {0, 40, 4093}

=============================================================================

---------------------------- MODULE MCDeviceSetup ----------------------------
(***************************************************************************)
(* Instances of DeviceSetup for TLC: up to two of the devices of           *)
(* MCDeviceSelection, one whose universal families just fit into           *)
(* queues_ci, one with a family too many, and one that does not report the *)
(* transfer flag of its graphics family.                                   *)
(***************************************************************************)
EXTENDS DeviceSetup

One(flags) == [queueFlags |-> flags, queueCount |-> 1]
All == One(relevant_queue_flags)
CopyEngine == One({"TRANSFER"})
Decoder == One({"VIDEO_DECODE"})

Card(old, fs) == [version12 |-> ~old, discrete |-> Len(fs) > 1, families |-> fs]

Cards ==
  {Card(FALSE, <<All, CopyEngine, All>>), Card(TRUE, <<All, CopyEngine>>),
   Card(FALSE, <<Decoder, All>>), Card(FALSE, <<All, All, All>>),
   Card(FALSE, <<All, All, All, All>>), Card(FALSE, <<One({"GRAPHICS", "COMPUTE"})>>),
   Card(FALSE, <<All>>)}

MCDeviceLists == UNION {[1 .. n -> Cards] : n \in 0 .. 3}

\* Nothing left on the stack, a plausible leftover, and one that wraps.
MCGarbage == {0, 40, 4093}

=============================================================================

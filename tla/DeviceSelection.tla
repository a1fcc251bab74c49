--------------------------- MODULE DeviceSelection ---------------------------
(***************************************************************************)
(* How vulkan_init chooses among the physical devices: each one of Vulkan  *)
(* 1.2 is given a score, and the first of the highest score is taken.  The *)
(* count of queues in the score is never initialized.                      *)
(***************************************************************************)
EXTENDS Naturals, Sequences, Functions

CONSTANTS
  DeviceLists,  \* the lists of devices the instance can enumerate
  Garbage,      \* what the variable queue_count may hold before it is set
  Word          \* 2^32: counts and scores are of type uint32_t

\* The flags the code tells apart, and one for those it does not look at.
Flags == {"GRAPHICS", "COMPUTE", "TRANSFER", "VIDEO_DECODE"}
Families == [queueFlags : SUBSET Flags, queueCount : Nat]
Devices == [version12 : BOOLEAN, discrete : BOOLEAN, families : Seq(Families)]

ASSUME DeviceListsAssumption == DeviceLists \subseteq Seq(Devices)
ASSUME WordAssumption == Word \in Nat /\ Word > 1000
ASSUME GarbageAssumption == Garbage \subseteq 0 .. Word - 1 /\ Garbage # {}

VARIABLES
  pc,
  devices,            \* physical_devices
  i,                  \* the next one to look at, counted from one
  qi,                 \* its next queue family, counted from one
  queue_count,        \* what the stack slot of the variable holds
  candidate_gpuinfo,  \* its has_dedicated_transfer
  best_score,
  best_index,         \* counted from one
  best_gpuinfo        \* its has_dedicated_transfer

candidateVars == <<qi, queue_count, candidate_gpuinfo>>
bestVars == <<best_score, best_index, best_gpuinfo>>
vars == <<pc, devices, i, candidateVars, bestVars>>

-----------------------------------------------------------------------------

relevant_queue_flags == {"GRAPHICS", "COMPUTE", "TRANSFER"}
Relevant(f) == f.queueFlags \cap relevant_queue_flags # {}

\* The family has the transfer flag and no other relevant one.
OnlyTransfer(f) == f.queueFlags \cap relevant_queue_flags = {"TRANSFER"}

Score(d, count) == ((IF d.discrete THEN 1000 ELSE 0) + count * 50) % Word

Init ==
  /\ pc = "device"
  /\ devices \in DeviceLists
  /\ i = 1
  /\ qi = 1
  /\ queue_count \in Garbage
  /\ candidate_gpuinfo = FALSE
  /\ best_score = 0
  /\ best_index = 1
  /\ best_gpuinfo = FALSE

\* Mutant: a device of an older version is scored like the others.
Eligible_AnyVersion(d) == TRUE

Eligible(d) == d.version12

SkipDevice ==
  /\ pc = "device"
  /\ i <= Len(devices)
  /\ ~Eligible(devices[i])
  /\ i' = i + 1
  /\ UNCHANGED <<pc, devices, candidateVars, bestVars>>

\* Mutant: candidate_gpuinfo declared outside of the loop.
FreshGpuinfo_Kept == candidate_gpuinfo

FreshGpuinfo == FALSE

\* The variables of the loop's body come to life.  Uninitialized, queue_count
\* starts at what the last device left behind, if the build keeps it in one
\* place, or at anything.
BeginDevice ==
  /\ pc = "device"
  /\ i <= Len(devices)
  /\ Eligible(devices[i])
  /\ pc' = "families"
  /\ qi' = 1
  /\ queue_count' \in Garbage \cup {queue_count}
  /\ candidate_gpuinfo' = FreshGpuinfo
  /\ UNCHANGED <<devices, i, bestVars>>

CountFamily ==
  LET f == devices[i].families[qi]
  IN /\ pc = "families"
     /\ qi <= Len(devices[i].families)
     /\ queue_count' = IF Relevant(f) THEN (queue_count + f.queueCount) % Word
                                      ELSE queue_count
     /\ candidate_gpuinfo' = (candidate_gpuinfo \/ OnlyTransfer(f))
     /\ qi' = qi + 1
     /\ UNCHANGED <<pc, devices, i, bestVars>>

\* Mutant: the index is taken after the increment.
ScoredIndex_Next == i + 1

ScoredIndex == i

ScoreDevice ==
  LET score == Score(devices[i], queue_count)
  IN /\ pc = "families"
     /\ qi > Len(devices[i].families)
     /\ IF score > best_score
        THEN /\ best_score' = score
             /\ best_index' = ScoredIndex
             /\ best_gpuinfo' = candidate_gpuinfo
        ELSE UNCHANGED bestVars
     /\ i' = i + 1
     /\ pc' = "device"
     /\ UNCHANGED <<devices, candidateVars>>

\* The entry at best_index is read; there is none if there is no device.
SelectDevice ==
  /\ pc = "device"
  /\ i > Len(devices)
  /\ pc' = IF devices = <<>> THEN "undefined" ELSE "selected"
  /\ UNCHANGED <<devices, i, candidateVars, bestVars>>

Terminated ==
  /\ pc \in {"selected", "undefined"}
  /\ UNCHANGED vars

Selection ==
  SkipDevice \/ BeginDevice \/ CountFamily \/ ScoreDevice \/ SelectDevice

Next == Selection \/ Terminated

Spec == Init /\ [][Next]_vars

-----------------------------------------------------------------------------

TypeOK ==
  /\ pc \in {"device", "families", "selected", "undefined"}
  /\ devices \in DeviceLists
  /\ i \in 1 .. Len(devices) + 1
  /\ pc = "families" =>
       /\ i \in DOMAIN devices
       /\ qi \in 1 .. Len(devices[i].families) + 1
  /\ pc = "selected" => best_index \in DOMAIN devices
  /\ queue_count \in 0 .. Word - 1
  /\ best_score \in 0 .. Word - 1
  /\ candidate_gpuinfo \in BOOLEAN
  /\ best_gpuinfo \in BOOLEAN

HasDedicatedTransfer(d) == \E k \in DOMAIN d.families : OnlyTransfer(d.families[k])

physical_device == devices[best_index]

\* gpuinfo tells whether the selected device has a copy engine of its own, never
\* whether one does that was looked at and passed over.  The exception is a
\* device selected by default, because no device was eligible or every score had
\* wrapped to zero: gpuinfo then denies the copy engine it may have.
GpuinfoOfSelected ==
  pc = "selected" =>
    best_gpuinfo = (best_score > 0 /\ HasDedicatedTransfer(physical_device))

\* app.c:361: "API version must be at 1.2 or higher!".  Of the selected device this
\* is not true where no device got a score: it is then the first of the list,
\* whatever its version, and gpuinfo claims nothing of it.  Otherwise it is.
OldDeviceOnlyByDefault ==
  pc = "selected" /\ ~physical_device.version12 =>
    best_score = 0 /\ best_index = 1 /\ ~best_gpuinfo

\* What a device is worth if the counting starts at zero.
Worth(d) ==
  Score(d, SumFunction([k \in DOMAIN d.families |->
                          IF Relevant(d.families[k])
                          THEN d.families[k].queueCount ELSE 0]) % Word)

\* app.c:346: "Assign a score to all physical devices and choose the best one".
BestIsChosen ==
  pc = "selected" =>
    \A k \in DOMAIN devices :
      devices[k].version12 => Worth(devices[k]) <= Worth(physical_device)

=============================================================================

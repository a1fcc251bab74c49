----------------------------- MODULE DeviceSetup -----------------------------
(***************************************************************************)
(* What vulkan_init makes of the device that DeviceSelection left: one     *)
(* queue is requested for each universal family, up to the length of an    *)
(* array that is not looked at, and the device is created.  The queue and  *)
(* the command pools are then those of the first family, whichever         *)
(* families were requested.                                                *)
(***************************************************************************)
EXTENDS DeviceSelection, FiniteSets

CONSTANTS
  max_queue_count,  \* the entries of queues_ci
  DeviceMayFail     \* whether vkCreateDevice may return an error

ASSUME MaxQueueCountAssumption == max_queue_count \in Nat \ {0}
ASSUME DeviceMayFailAssumption == DeviceMayFail \in BOOLEAN

VARIABLES
  setup,           \* where the setup is, once a device is selected
  family,          \* the next queue family to look at, counted from one
  queues_ci,       \* the families a queue was requested of, in order
  device,          \* the VkDevice handle
  graphics_queue,  \* the family of the queue, zero before it was fetched
  pool_family      \* the family of both command pools, zero before

requestVars == <<family, queues_ci>>
handleVars == <<device, graphics_queue, pool_family>>
setupVars == <<setup, requestVars, handleVars>>
deviceVars == <<vars, setupVars>>

-----------------------------------------------------------------------------

families == devices[best_index].families

Universal(f) == relevant_queue_flags \subseteq f.queueFlags

SetupInit ==
  /\ Init
  /\ setup = "families"
  /\ family = 1
  /\ queues_ci = <<>>
  /\ device = "null"
  /\ graphics_queue = 0
  /\ pool_family = 0

At(s) == pc = "selected" /\ setup = s

SkipFamily ==
  /\ At("families")
  /\ family <= Len(families)
  /\ ~Universal(families[family])
  /\ family' = family + 1
  /\ UNCHANGED <<vars, setup, queues_ci, handleVars>>

\* Mutant: queue_count is incremented before the entry is written.
WrittenEntry_Incremented == Len(queues_ci) + 2

\* queues_ci[queue_count], counted from one.
WrittenEntry == Len(queues_ci) + 1

\* Mutant: numbered by the requests made, not by the families seen.
RequestedFamily_Count == Len(queues_ci) + 1

RequestedFamily == family

RequestQueue ==
  /\ At("families")
  /\ family <= Len(families)
  /\ Universal(families[family])
  /\ IF WrittenEntry <= max_queue_count
     THEN /\ queues_ci' = Append(queues_ci, RequestedFamily)
          /\ family' = family + 1
          /\ UNCHANGED setup
     ELSE /\ setup' = "undefined"
          /\ UNCHANGED requestVars
  /\ UNCHANGED <<vars, handleVars>>

\* The error of vkCreateDevice is printed.  At least one queue is required.
CreateDevice ==
  /\ At("families")
  /\ family > Len(families)
  /\ \/ /\ queues_ci # <<>>
        /\ device' = "created"
        /\ setup' = "queue"
     \/ /\ queues_ci # <<>> /\ DeviceMayFail
        /\ setup' = "queue"
        /\ UNCHANGED device
     \/ /\ queues_ci = <<>>
        /\ setup' = "undefined"
        /\ UNCHANGED device
  /\ UNCHANGED <<vars, requestVars, graphics_queue, pool_family>>

Requested == {queues_ci[k] : k \in DOMAIN queues_ci}

\* What vkGetDeviceQueue, called for family zero, one here, requires: a device,
\* created with a queue of that family.  The code does not test it.
QueueExists == device = "created" /\ 1 \in Requested

\* The call is made in any case.  Without its queue, whatever it leaves in
\* graphics_queue, if it returns, is what the program goes on with.
GetDeviceQueue ==
  /\ At("queue")
  /\ \/ /\ QueueExists
        /\ graphics_queue' = 1
        /\ setup' = "pools"
     \/ /\ ~QueueExists
        /\ setup' = "undefined"
        /\ UNCHANGED graphics_queue
  /\ UNCHANGED <<vars, requestVars, device, pool_family>>

\* command_pool and command_pool_transient, for family zero.
CreateCommandPools ==
  /\ At("pools")
  /\ pool_family' = 1
  /\ setup' = "ready"
  /\ UNCHANGED <<vars, requestVars, device, graphics_queue>>

SetupTerminated ==
  /\ pc = "undefined" \/ setup \in {"ready", "undefined"}
  /\ UNCHANGED deviceVars

SetupNext ==
  \/ Selection /\ UNCHANGED setupVars
  \/ SkipFamily \/ RequestQueue \/ CreateDevice
  \/ GetDeviceQueue \/ CreateCommandPools
  \/ SetupTerminated

SetupSpec == SetupInit /\ [][SetupNext]_deviceVars

-----------------------------------------------------------------------------

SetupTypeOK ==
  /\ setup \in {"families", "queue", "pools", "ready", "undefined"}
  /\ family \in Nat \ {0}
  /\ queues_ci \in Seq(Nat)
  /\ Len(queues_ci) <= max_queue_count
  /\ device \in {"null", "created"}
  /\ graphics_queue \in {0, 1}
  /\ pool_family \in {0, 1}

UniversalOf(d) == {f \in DOMAIN d.families : Universal(d.families[f])}
UniversalFamilies == UniversalOf(devices[best_index])

\* When vkCreateDevice is called, queues_ci names exactly the universal
\* families, each once: two requests of one family are not allowed.
RequestsEachUniversalFamilyOnce ==
  At("families") /\ family > Len(families) =>
    /\ Requested = UniversalFamilies
    /\ \A j, k \in DOMAIN queues_ci : j < k => queues_ci[j] < queues_ci[k]

\* What the code relies on: graphics, compute and transfer together in the first
\* family, and no more such families than queues_ci has entries.  The comment in
\* the loop (app.c:421) names graphics and compute only, and in any family.
Suitable(d) ==
  /\ d.families # <<>>
  /\ Universal(d.families[1])
  /\ Cardinality(UniversalOf(d)) <= max_queue_count

\* On a machine with suitable devices only, whichever of them the uninitialized
\* queue_count made the best, undefined behaviour starts with an error of
\* vkCreateDevice and with nothing else.
SuitableDevicesSetUp ==
  devices # <<>> /\ (\A k \in DOMAIN devices : Suitable(devices[k])) =>
    /\ pc # "undefined"
    /\ setup = "undefined" =>
         DeviceMayFail /\ device = "null" /\ Requested = UniversalFamilies

=============================================================================

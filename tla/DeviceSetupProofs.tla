-------------------------- MODULE DeviceSetupProofs --------------------------
(***************************************************************************)
(* The setup leaves the selection alone, so that what is proved of the     *)
(* selection holds of both together; and it requests what it should, for   *)
(* every device, every number of families and every length of queues_ci.   *)
(***************************************************************************)
EXTENDS DeviceSetup, DeviceSelectionProofs, FiniteSetTheorems, FunctionTheorems

\* The universal families among those before the n-th.
UniversalBefore(n) == {f \in 1 .. (n - 1) : Universal(families[f])}

Increasing(s) == \A j, k \in DOMAIN s : j < k => s[j] < s[k]

\* Nothing is requested before a device is selected; from then on, the requests
\* are the universal families among those that were looked at.
RequestInvariant ==
  /\ pc # "selected" => setup = "families" /\ family = 1 /\ queues_ci = <<>>
  /\ pc = "selected" /\ setup # "undefined" =>
       /\ family \in 1 .. Len(families) + 1
       /\ Requested = UniversalBefore(family)
       /\ Increasing(queues_ci)
       /\ setup # "families" => family = Len(families) + 1

SetupInvariant == SetupTypeOK /\ RequestInvariant

\* What a request adds to the requested families, and in which order.
LEMMA RequestAppended ==
  ASSUME NEW q \in Seq(Nat), NEW f \in Nat, Increasing(q),
         \A k \in DOMAIN q : q[k] < f
  PROVE  /\ Append(q, f) \in Seq(Nat)
         /\ Len(Append(q, f)) = Len(q) + 1
         /\ {Append(q, f)[k] : k \in DOMAIN Append(q, f)}
              = {q[k] : k \in DOMAIN q} \cup {f}
         /\ Increasing(Append(q, f))
<1> DEFINE a == Append(q, f)
<1>1. /\ a \in Seq(Nat) /\ Len(a) = Len(q) + 1 /\ Len(q) \in Nat
      /\ DOMAIN q = 1 .. Len(q) /\ DOMAIN a = 1 .. (Len(q) + 1)
      /\ \A k \in 1 .. Len(q) : a[k] = q[k]
      /\ a[Len(q) + 1] = f
  OBVIOUS
<1>2. {a[k] : k \in DOMAIN a} = {q[k] : k \in DOMAIN q} \cup {f}
  <2>1. DOMAIN a = DOMAIN q \cup {Len(q) + 1}
    BY <1>1
  <2>2. \A k \in DOMAIN q : a[k] = q[k]
    BY <1>1
  <2> HIDE DEF a
  <2>3. QED
    BY <1>1, <2>1, <2>2
<1>3. Increasing(a)
  <2> HIDE DEF a
  <2> SUFFICES ASSUME NEW j \in DOMAIN a, NEW k \in DOMAIN a, j < k
               PROVE  a[j] < a[k]
    BY DEF Increasing
  <2>1. j \in DOMAIN q /\ a[j] = q[j]
    BY <1>1
  <2>2. CASE k = Len(q) + 1
    BY <1>1, <2>1, <2>2
  <2>3. CASE k # Len(q) + 1
    BY <1>1, <2>1, <2>3 DEF Increasing
  <2>4. QED
    BY <2>2, <2>3
<1>4. QED
  BY <1>1, <1>2, <1>3

\* The families of a selected device are a sequence.
LEMMA FamiliesTyped ==
  Invariant /\ pc = "selected" =>
    Len(families) \in Nat /\ DOMAIN families = 1 .. Len(families)
BY DevicesTyped DEF Invariant, TypeOK, families

\* A step of the setup is a step of the selection or leaves it alone.
LEMMA SetupStepsSelect == [SetupNext]_deviceVars => [Next]_vars
BY DEF SetupNext, deviceVars, Next, SkipFamily, RequestQueue, CreateDevice,
       GetDeviceQueue, CreateCommandPools, SetupTerminated

\* The selection of a device is implemented whatever the setup does with it.
THEOREM SetupImplementsSelection == SetupSpec => Spec
<1>1. SetupInit => Init
  BY DEF SetupInit
<1>2. QED
  BY <1>1, SetupStepsSelect, PTL DEF SetupSpec, Spec

LEMMA SetupInvariantInit == SetupInit => SetupInvariant
BY MaxQueueCountAssumption
   DEF SetupInit, Init, SetupInvariant, SetupTypeOK, RequestInvariant

\* A step of the selection is taken before the setup begins.
LEMMA SelectionKeepsSetup ==
  ASSUME Invariant', SetupInvariant, Selection, UNCHANGED setupVars
  PROVE  SetupInvariant'
<1>1. pc # "selected"
  BY DEF Selection, SkipDevice, BeginDevice, CountFamily, ScoreDevice, SelectDevice
<1>2. setup = "families" /\ family = 1 /\ queues_ci = <<>>
  BY <1>1 DEF SetupInvariant, RequestInvariant
<1>3. UNCHANGED <<setup, family, queues_ci, device, graphics_queue, pool_family>>
  BY DEF setupVars, requestVars, handleVars
<1>4. SetupTypeOK'
  BY <1>3 DEF SetupInvariant, SetupTypeOK
<1>5. pc' = "selected" => Len(families') \in Nat
  <2>1. devices' \in DeviceLists /\ (pc' = "selected" => best_index' \in DOMAIN devices')
    BY DEF Invariant, TypeOK
  <2>2. QED
    BY <2>1, DevicesTyped DEF families
<1>6. Requested' = {} /\ UniversalBefore(1)' = {} /\ Increasing(queues_ci)'
  BY <1>2, <1>3 DEF Requested, UniversalBefore, Increasing
<1>7. RequestInvariant'
  BY <1>2, <1>3, <1>5, <1>6 DEF RequestInvariant
<1>8. QED
  BY <1>4, <1>7 DEF SetupInvariant

\* Each step keeps the invariant.
LEMMA SetupInvariantStep ==
  Invariant /\ Invariant' /\ SetupInvariant /\ [SetupNext]_deviceVars
    => SetupInvariant'
<1> SUFFICES ASSUME Invariant, Invariant', SetupInvariant, [SetupNext]_deviceVars
             PROVE  SetupInvariant'
  OBVIOUS
<1> USE DEF SetupInvariant, SetupTypeOK, RequestInvariant
<1>1. CASE Selection /\ UNCHANGED setupVars
  BY <1>1, SelectionKeepsSetup
<1>2. ASSUME UNCHANGED <<vars, queues_ci>>
      PROVE  /\ UNCHANGED <<pc, devices, best_index, families, Requested>>
             /\ Increasing(queues_ci)' = Increasing(queues_ci)
             /\ \A n : UniversalBefore(n)' = UniversalBefore(n)
  BY <1>2 DEF vars, bestVars, families, Requested, UniversalBefore, Increasing
<1>3. pc = "selected" => Len(families) \in Nat
  BY FamiliesTyped
<1>4. CASE SkipFamily
  <2>1. /\ pc = "selected" /\ setup = "families" /\ family <= Len(families)
        /\ ~Universal(families[family]) /\ family' = family + 1
        /\ UNCHANGED <<vars, setup, queues_ci, handleVars>>
    BY <1>4 DEF SkipFamily, At
  <2>2. UniversalBefore(family + 1) = UniversalBefore(family)
    BY <2>1 DEF UniversalBefore
  <2>3. QED
    BY <1>2, <1>3, <2>1, <2>2 DEF handleVars
<1>5. CASE RequestQueue
  <2>1. /\ pc = "selected" /\ setup = "families" /\ family <= Len(families)
        /\ Universal(families[family])
        /\ UNCHANGED <<vars, handleVars>>
    BY <1>5 DEF RequestQueue, At
  <2>2. UNCHANGED <<pc, families>>
    BY <2>1 DEF vars, bestVars, families
  <2>3. CASE WrittenEntry <= max_queue_count
    <3>1. queues_ci' = Append(queues_ci, family) /\ family' = family + 1
          /\ UNCHANGED setup
      BY <1>5, <2>3 DEF RequestQueue, RequestedFamily
    <3>2. \A k \in DOMAIN queues_ci : queues_ci[k] < family
      <4>1. Requested = UniversalBefore(family) /\ family \in Nat
        BY <2>1
      <4>2. \A f \in UniversalBefore(family) : f < family
        BY <4>1 DEF UniversalBefore
      <4>3. \A k \in DOMAIN queues_ci : queues_ci[k] \in Requested
        BY DEF Requested
      <4>4. QED
        BY <4>1, <4>2, <4>3
    <3>3. /\ queues_ci' \in Seq(Nat)
          /\ Len(queues_ci') = Len(queues_ci) + 1
          /\ Requested' = Requested \cup {family}
          /\ Increasing(queues_ci')
      <4>1. queues_ci \in Seq(Nat) /\ family \in Nat /\ Increasing(queues_ci)
        BY <2>1
      <4> DEFINE a == Append(queues_ci, family)
      <4>2. /\ a \in Seq(Nat)
            /\ Len(a) = Len(queues_ci) + 1
            /\ {a[k] : k \in DOMAIN a}
                 = {queues_ci[k] : k \in DOMAIN queues_ci} \cup {family}
            /\ Increasing(a)
        BY <3>2, <4>1, RequestAppended
      <4>3. queues_ci' = a
        BY <3>1
      <4> HIDE DEF a
      <4>4. QED
        BY <4>2, <4>3 DEF Requested, Increasing
    <3>4. UniversalBefore(family)' = UniversalBefore(family) \cup {family}
      <4>1. 1 .. (family' - 1) = 1 .. (family - 1) \cup {family}
        BY <2>1, <3>1
      <4>2. UniversalBefore(family)' = {f \in 1 .. (family' - 1) : Universal(families[f])}
        BY <2>2 DEF UniversalBefore
      <4>3. QED
        BY <2>1, <4>1, <4>2 DEF UniversalBefore
    <3>5. Len(queues_ci') <= max_queue_count
      BY <2>3, <3>3 DEF WrittenEntry
    <3>6. Requested' = UniversalBefore(family)'
      BY <2>1, <3>3, <3>4
    <3>7. family' \in 1 .. Len(families') + 1
      BY <1>3, <2>1, <2>2, <3>1
    <3>8. QED
      BY <2>1, <2>2, <3>1, <3>3, <3>5, <3>6, <3>7 DEF handleVars, Increasing
  <2>4. CASE ~(WrittenEntry <= max_queue_count)
    <3>1. setup' = "undefined" /\ UNCHANGED requestVars
      BY <1>5, <2>4 DEF RequestQueue
    <3>2. QED
      BY <2>1, <2>2, <3>1 DEF requestVars, handleVars
  <2>5. QED
    BY <2>3, <2>4
<1>6. CASE CreateDevice
  <2>1. /\ pc = "selected" /\ setup = "families" /\ family > Len(families)
        /\ setup' \in {"queue", "undefined"} /\ device' \in {"null", "created"}
        /\ UNCHANGED <<vars, queues_ci, family, graphics_queue, pool_family>>
    BY <1>6 DEF CreateDevice, At, requestVars
  <2>2. QED
    BY <1>2, <1>3, <2>1
<1>7. CASE GetDeviceQueue
  <2>1. /\ pc = "selected" /\ setup = "queue"
        /\ UNCHANGED <<vars, queues_ci, family, device, pool_family>>
        /\ graphics_queue' \in {1, graphics_queue}
        /\ setup' \in {"pools", "undefined"}
    BY <1>7 DEF GetDeviceQueue, At, requestVars
  <2>2. QED
    BY <1>2, <2>1
<1>8. CASE CreateCommandPools
  <2>1. /\ pc = "selected" /\ setup = "pools" /\ setup' = "ready"
        /\ pool_family' = 1
        /\ UNCHANGED <<vars, queues_ci, family, device, graphics_queue>>
    BY <1>8 DEF CreateCommandPools, At, requestVars
  <2>2. QED
    BY <1>2, <2>1
<1>9. CASE SetupTerminated \/ UNCHANGED deviceVars
  <2>1. UNCHANGED <<vars, setup, family, queues_ci, handleVars>>
    BY <1>9 DEF SetupTerminated, deviceVars, setupVars, requestVars
  <2>2. QED
    BY <1>2, <2>1 DEF handleVars
<1>10. QED
  BY <1>1, <1>4, <1>5, <1>6, <1>7, <1>8, <1>9 DEF SetupNext

LEMMA SetupInvariantHolds == SetupSpec => [](Invariant /\ SetupInvariant)
<1>1. SetupSpec => []Invariant
  BY SetupImplementsSelection, InvariantHolds, PTL
<1>2. QED
  BY <1>1, SetupInvariantInit, SetupInvariantStep, PTL DEF SetupSpec

\* The families before the end are all of them.
LEMMA AllFamiliesSeen ==
  ASSUME Invariant, SetupInvariant, pc = "selected", setup # "undefined",
         family > Len(families)
  PROVE  Requested = UniversalFamilies
<1>1. Len(families) \in Nat /\ DOMAIN families = 1 .. Len(families)
  BY FamiliesTyped
<1>2. family = Len(families) + 1 /\ Requested = UniversalBefore(family)
  BY <1>1 DEF SetupInvariant, RequestInvariant
<1>3. 1 .. (family - 1) = DOMAIN families
  BY <1>1, <1>2
<1>4. QED
  BY <1>2, <1>3 DEF UniversalBefore, UniversalFamilies, UniversalOf, families

\* vkCreateDevice is asked for each universal family once and for no other.
THEOREM RequestsUniversalFamilies ==
  SetupSpec => []RequestsEachUniversalFamilyOnce
<1>1. Invariant /\ SetupInvariant => RequestsEachUniversalFamilyOnce
  BY AllFamiliesSeen
     DEF RequestsEachUniversalFamilyOnce, At, SetupInvariant, RequestInvariant,
         Increasing
<1>2. QED
  BY <1>1, SetupInvariantHolds, PTL

-----------------------------------------------------------------------------
(* Where undefined behaviour can start, on a suitable device.              *)

SuitableSelected == pc = "selected" /\ Suitable(devices[best_index])

CauseInvariant ==
  /\ pc = "undefined" => devices = <<>>
  /\ setup = "families" => device = "null"
  /\ setup = "queue" /\ device = "null" => DeviceMayFail
  /\ SuitableSelected /\ setup = "undefined" =>
       DeviceMayFail /\ device = "null" /\ Requested = UniversalFamilies

\* There are as many requests as requested families.
LEMMA RequestCount ==
  ASSUME NEW q \in Seq(Nat), Increasing(q)
  PROVE  /\ IsFiniteSet({q[k] : k \in DOMAIN q})
         /\ Cardinality({q[k] : k \in DOMAIN q}) = Len(q)
<1> DEFINE R == {q[k] : k \in DOMAIN q}
<1>1. Len(q) \in Nat /\ DOMAIN q = 1 .. Len(q) /\ \A k \in DOMAIN q : q[k] \in Nat
  OBVIOUS
<1>2. q \in [1 .. Len(q) -> R]
  BY <1>1
<1>3. \A f \in R : \E k \in 1 .. Len(q) : q[k] = f
  BY <1>1
<1> HIDE DEF R
<1>4. ASSUME NEW j \in 1 .. Len(q), NEW k \in 1 .. Len(q), q[j] = q[k]
      PROVE  j = k
  <2>1. ~(j < k) /\ ~(k < j)
    BY <1>1, <1>4 DEF Increasing
  <2>2. QED
    BY <1>1, <2>1
<1>5. q \in Bijection(1 .. Len(q), R)
  BY <1>2, <1>3, <1>4, Fun_IsBij
<1>6. ExistsBijection(1 .. Len(q), R)
  BY <1>5 DEF ExistsBijection
<1>7. IsFiniteSet(1 .. Len(q)) /\ Cardinality(1 .. Len(q)) = Len(q)
  <2>1. Len(q) \in Nat
    OBVIOUS
  <2>2. \A n \in Nat : IsFiniteSet(1 .. n) /\ Cardinality(1 .. n) = n
    BY FS_Interval
  <2>3. QED
    BY <2>1, <2>2
<1>8. IsFiniteSet(R) /\ Cardinality(R) = Len(q)
  BY <1>6, <1>7, FS_Bijection
<1>9. QED
  BY <1>8 DEF R

\* A suitable device does not get the requests past the end of queues_ci.
LEMMA RequestsFit ==
  ASSUME Invariant, SetupInvariant, SuitableSelected, setup = "families",
         family <= Len(families), Universal(families[family])
  PROVE  WrittenEntry <= max_queue_count
<1>1. /\ Len(families) \in Nat /\ DOMAIN families = 1 .. Len(families)
      /\ family \in DOMAIN families
  BY FamiliesTyped DEF SetupInvariant, SetupTypeOK, SuitableSelected
<1>2. /\ queues_ci \in Seq(Nat) /\ Len(queues_ci) \in Nat /\ Increasing(queues_ci)
      /\ Requested = UniversalBefore(family)
  BY DEF SetupInvariant, SetupTypeOK, RequestInvariant, SuitableSelected
<1>3. IsFiniteSet(Requested) /\ Cardinality(Requested) = Len(queues_ci)
  BY <1>2, RequestCount DEF Requested
<1>4. UniversalFamilies = {f \in DOMAIN families : Universal(families[f])}
  BY DEF UniversalFamilies, UniversalOf, families
<1>5. IsFiniteSet(UniversalFamilies)
  <2>1. IsFiniteSet(DOMAIN families)
    BY <1>1, FS_Interval
  <2>2. QED
    BY <1>4, <2>1, FS_Subset
<1>6. family \notin Requested /\ Requested \cup {family} \subseteq UniversalFamilies
  <2>1. \A f \in Requested : f \in 1 .. (family - 1) /\ Universal(families[f])
    BY <1>2 DEF UniversalBefore
  <2>2. \A f \in 1 .. (family - 1) : f \in DOMAIN families /\ f # family
    BY <1>1
  <2>3. QED
    BY <1>1, <1>4, <2>1, <2>2
<1>7. /\ IsFiniteSet(Requested \cup {family})
      /\ Cardinality(Requested \cup {family}) = Len(queues_ci) + 1
  BY <1>3, <1>6, FS_AddElement
<1>8. Len(queues_ci) + 1 <= Cardinality(UniversalFamilies)
  BY <1>5, <1>6, <1>7, FS_Subset
<1>9. /\ Cardinality(UniversalFamilies) <= max_queue_count
      /\ Cardinality(UniversalFamilies) \in Nat
  BY <1>5, FS_CardinalityType DEF SuitableSelected, Suitable, UniversalFamilies
<1>10. QED
  BY <1>2, <1>8, <1>9, MaxQueueCountAssumption DEF WrittenEntry

\* The first family of a suitable device is one of its universal families.
LEMMA FirstIsUniversal ==
  ASSUME Invariant, SuitableSelected
  PROVE  1 \in UniversalFamilies
<1>1. Len(families) \in Nat /\ DOMAIN families = 1 .. Len(families)
  BY FamiliesTyped DEF SuitableSelected
<1>2. families # <<>> /\ Universal(families[1])
  BY DEF SuitableSelected, Suitable, families
<1>3. families \in Seq(Families)
  <2>1. devices[best_index] \in Devices
    BY DevicesTyped DEF SuitableSelected, Invariant, TypeOK
  <2>2. QED
    BY <2>1 DEF families, Devices
<1>4. 1 \in DOMAIN families
  BY <1>1, <1>2, <1>3
<1>5. QED
  BY <1>2, <1>4 DEF UniversalFamilies, UniversalOf, families

LEMMA CauseInvariantStep ==
  Invariant /\ SetupInvariant /\ CauseInvariant /\ [SetupNext]_deviceVars
    => CauseInvariant'
<1> SUFFICES ASSUME Invariant, SetupInvariant, CauseInvariant,
                    [SetupNext]_deviceVars
             PROVE  CauseInvariant'
  OBVIOUS
<1>1. CASE Selection /\ UNCHANGED setupVars
  <2>1. UNCHANGED <<setup, device, devices>> /\ pc # "selected"
    BY <1>1 DEF setupVars, handleVars, Selection, SkipDevice, BeginDevice,
                CountFamily, ScoreDevice, SelectDevice
  <2>2. setup = "families"
    BY <2>1 DEF SetupInvariant, RequestInvariant
  <2>3. pc' = "undefined" => devices = <<>>
    BY <1>1 DEF Selection, SkipDevice, BeginDevice, CountFamily, ScoreDevice,
                SelectDevice
  <2>4. QED
    BY <2>1, <2>2, <2>3 DEF CauseInvariant
<1>2. ASSUME UNCHANGED <<vars, queues_ci>>
      PROVE  UNCHANGED <<pc, devices, SuitableSelected, UniversalFamilies, Requested>>
  BY <1>2 DEF vars, bestVars, SuitableSelected, UniversalFamilies, Requested
<1>3. CASE SkipFamily
  <2>1. UNCHANGED <<vars, setup, queues_ci, device>>
    BY <1>3 DEF SkipFamily, handleVars
  <2>2. QED
    BY <1>2, <2>1 DEF CauseInvariant
<1>4. CASE RequestQueue
  <2>1. /\ pc = "selected" /\ setup = "families" /\ family <= Len(families)
        /\ Universal(families[family]) /\ UNCHANGED <<vars, device>>
    BY <1>4 DEF RequestQueue, At, handleVars
  <2>2. UNCHANGED <<pc, devices, SuitableSelected>>
    BY <2>1 DEF vars, bestVars, SuitableSelected
  <2>3. SuitableSelected => UNCHANGED setup
    BY <1>4, <2>1, RequestsFit DEF RequestQueue
  <2>4. setup' \in {"families", "undefined"}
    BY <1>4, <2>1 DEF RequestQueue
  <2>5. QED
    BY <2>1, <2>2, <2>3, <2>4 DEF CauseInvariant
<1>5. CASE CreateDevice
  <2>1. /\ pc = "selected" /\ setup = "families" /\ family > Len(families)
        /\ UNCHANGED <<vars, queues_ci>>
    BY <1>5 DEF CreateDevice, At, requestVars
  <2>2. device = "null" /\ pc' = "selected"
    BY <1>2, <2>1 DEF CauseInvariant
  <2>3. SuitableSelected => queues_ci # <<>>
    <3>1. Requested = UniversalFamilies
      BY <2>1, AllFamiliesSeen
    <3>2. queues_ci = <<>> => Requested = {}
      BY DEF Requested
    <3>3. QED
      BY <3>1, <3>2, FirstIsUniversal
  <2>4. /\ setup' = "queue" => device' = "created" \/ DeviceMayFail
        /\ setup' \in {"queue", "undefined"}
        /\ setup' = "undefined" => queues_ci = <<>>
    BY <1>5 DEF CreateDevice
  <2>5. QED
    BY <1>2, <2>1, <2>2, <2>3, <2>4 DEF CauseInvariant
<1>6. CASE GetDeviceQueue
  <2>1. /\ pc = "selected" /\ setup = "queue"
        /\ UNCHANGED <<vars, queues_ci, device>>
        /\ setup' \in {"pools", "undefined"}
        /\ setup' = "undefined" => ~(device = "created" /\ 1 \in Requested)
    BY <1>6 DEF GetDeviceQueue, QueueExists, At, requestVars
  <2>2. Requested = UniversalFamilies
    <3>1. Len(families) \in Nat /\ family = Len(families) + 1
      BY <2>1, FamiliesTyped DEF SetupInvariant, RequestInvariant
    <3>2. QED
      BY <2>1, <3>1, AllFamiliesSeen
  <2>3. device \in {"null", "created"}
    BY DEF SetupInvariant, SetupTypeOK
  <2>4. SuitableSelected => 1 \in Requested
    BY <2>2, FirstIsUniversal
  <2>5. QED
    BY <1>2, <2>1, <2>2, <2>3, <2>4 DEF CauseInvariant
<1>7. CASE CreateCommandPools
  <2>1. UNCHANGED <<vars, queues_ci, device>> /\ setup' = "ready"
    BY <1>7 DEF CreateCommandPools, requestVars
  <2>2. QED
    BY <1>2, <2>1 DEF CauseInvariant
<1>8. CASE SetupTerminated \/ UNCHANGED deviceVars
  <2>1. UNCHANGED <<vars, setup, queues_ci, device>>
    BY <1>8 DEF SetupTerminated, deviceVars, setupVars, requestVars, handleVars
  <2>2. QED
    BY <1>2, <2>1 DEF CauseInvariant
<1>9. QED
  BY <1>1, <1>3, <1>4, <1>5, <1>6, <1>7, <1>8 DEF SetupNext

\* Where every device can do graphics, compute and transfer in its first family,
\* and has no more such families than queues_ci has entries, the setup gets into
\* undefined behaviour only after an error of vkCreateDevice, whatever the
\* uninitialized queue_count held and whichever device it made the best.
THEOREM SuitableSetup == SetupSpec => []SuitableDevicesSetUp
<1>1. SetupInit => CauseInvariant
  BY DEF SetupInit, Init, CauseInvariant, SuitableSelected
<1>2. Invariant /\ SetupInvariant /\ CauseInvariant => SuitableDevicesSetUp
  <2> SUFFICES ASSUME Invariant, SetupInvariant, CauseInvariant, devices # <<>>,
                      \A k \in DOMAIN devices : Suitable(devices[k]),
                      setup = "undefined"
               PROVE  DeviceMayFail /\ device = "null" /\ Requested = UniversalFamilies
    BY DEF SuitableDevicesSetUp, CauseInvariant
  <2>1. pc = "selected"
    BY DEF SetupInvariant, RequestInvariant
  <2>2. SuitableSelected
    BY <2>1 DEF SuitableSelected, Invariant, TypeOK
  <2>3. QED
    BY <2>2 DEF CauseInvariant
<1>3. QED
  BY <1>1, <1>2, CauseInvariantStep, SetupInvariantHolds, PTL DEF SetupSpec

=============================================================================

------------------------ MODULE DeviceSelectionProofs ------------------------
(***************************************************************************)
(* What the selection guarantees although queue_count is not initialized,  *)
(* proved for every list of devices and every content of the stack.        *)
(***************************************************************************)
EXTENDS DeviceSelection, TLAPS

\* The candidate under way was found eligible, and its gpuinfo tells of the
\* families counted so far.
CandidateInvariant ==
  pc = "families" =>
    /\ devices[i].version12
    /\ candidate_gpuinfo <=>
         \E k \in 1 .. (qi - 1) : OnlyTransfer(devices[i].families[k])

\* Once a score above zero was given, the best device is one of those before i,
\* eligible, and the one best_gpuinfo is about.
BestInvariant ==
  /\ best_score = 0 => best_index = 1 /\ best_gpuinfo = FALSE
  /\ best_score > 0 =>
       /\ best_index \in 1 .. (i - 1)
       /\ best_index \in DOMAIN devices
       /\ devices[best_index].version12
       /\ best_gpuinfo <=> HasDedicatedTransfer(devices[best_index])

Invariant == TypeOK /\ CandidateInvariant /\ BestInvariant

\* What the type of a list of devices says of its devices and their families.
LEMMA DevicesTyped ==
  ASSUME NEW ds \in DeviceLists
  PROVE  /\ Len(ds) \in Nat
         /\ DOMAIN ds = 1 .. Len(ds)
         /\ \A k \in DOMAIN ds :
              /\ ds[k] \in Devices
              /\ Len(ds[k].families) \in Nat
              /\ DOMAIN ds[k].families = 1 .. Len(ds[k].families)
              /\ \A q \in DOMAIN ds[k].families :
                   ds[k].families[q].queueCount \in Nat
<1>1. ds \in Seq(Devices)
  BY DeviceListsAssumption
<1>2. ASSUME NEW d \in Devices
      PROVE  /\ Len(d.families) \in Nat
             /\ DOMAIN d.families = 1 .. Len(d.families)
             /\ \A q \in DOMAIN d.families : d.families[q].queueCount \in Nat
  <2>1. d.families \in Seq(Families)
    BY DEF Devices
  <2>2. \A q \in DOMAIN d.families : d.families[q] \in Families
    BY <2>1
  <2>3. \A f \in Families : f.queueCount \in Nat
    BY DEF Families
  <2>4. QED
    BY <2>1, <2>2, <2>3
<1>3. QED
  BY <1>1, <1>2

\* A score is a word.
LEMMA ScoreIsWord ==
  ASSUME NEW d, NEW count \in Nat
  PROVE  Score(d, count) \in 0 .. Word - 1
<1>1. (IF d.discrete THEN 1000 ELSE 0) + count * 50 \in Nat
  OBVIOUS
<1>2. QED
  BY <1>1, WordAssumption DEF Score

\* The invariant holds initially.
LEMMA InvariantInit == Init => Invariant
<1> SUFFICES ASSUME Init PROVE Invariant
  OBVIOUS
<1>1. Len(devices) \in Nat
  BY DevicesTyped DEF Init
<1>2. queue_count \in 0 .. Word - 1 /\ 0 \in 0 .. Word - 1
  BY WordAssumption, GarbageAssumption DEF Init
<1>3. TypeOK
  <2>1. i \in 1 .. Len(devices) + 1
    BY <1>1 DEF Init
  <2>2. candidate_gpuinfo \in BOOLEAN /\ best_gpuinfo \in BOOLEAN
    BY DEF Init
  <2>3. QED
    BY <1>2, <2>1, <2>2 DEF Init, TypeOK
<1>4. QED
  BY <1>3 DEF Init, Invariant, CandidateInvariant, BestInvariant

\* Each step keeps it.
LEMMA InvariantStep == Invariant /\ [Next]_vars => Invariant'
<1> SUFFICES ASSUME Invariant, [Next]_vars PROVE Invariant'
  OBVIOUS
<1> USE DEF Invariant, TypeOK, CandidateInvariant, BestInvariant,
            candidateVars, bestVars
<1>1. /\ Len(devices) \in Nat
      /\ DOMAIN devices = 1 .. Len(devices)
      /\ \A k \in DOMAIN devices :
           /\ Len(devices[k].families) \in Nat
           /\ DOMAIN devices[k].families = 1 .. Len(devices[k].families)
           /\ \A q \in DOMAIN devices[k].families :
                devices[k].families[q].queueCount \in Nat
  BY DevicesTyped
<1>2. CASE SkipDevice
  BY <1>1, <1>2 DEF SkipDevice
<1>3. CASE BeginDevice
  <2>1. queue_count' \in 0 .. Word - 1
    BY <1>3, GarbageAssumption DEF BeginDevice
  <2>2. TypeOK'
    <3>1. i \in DOMAIN devices /\ qi' \in 1 .. Len(devices[i].families) + 1
      BY <1>1, <1>3 DEF BeginDevice
    <3>2. candidate_gpuinfo' \in BOOLEAN
      BY <1>3 DEF BeginDevice, FreshGpuinfo
    <3>3. QED
      BY <1>3, <2>1, <3>1, <3>2 DEF BeginDevice
  <2>3. CandidateInvariant'
    BY <1>3 DEF BeginDevice, Eligible, FreshGpuinfo
  <2>4. BestInvariant'
    BY <1>3 DEF BeginDevice
  <2>5. QED
    BY <2>2, <2>3, <2>4
<1>4. CASE CountFamily
  <2> DEFINE f == devices[i].families[qi]
  <2>1. /\ i \in DOMAIN devices
        /\ qi \in DOMAIN devices[i].families
        /\ f.queueCount \in Nat
    <3>1. pc = "families" /\ qi <= Len(devices[i].families)
      BY <1>4 DEF CountFamily
    <3>2. i \in DOMAIN devices /\ qi \in 1 .. Len(devices[i].families) + 1
      BY <3>1
    <3>3. qi \in DOMAIN devices[i].families
      BY <1>1, <3>1, <3>2
    <3>4. QED
      BY <1>1, <3>2, <3>3
  <2>2. queue_count' \in 0 .. Word - 1
    <3>1. (queue_count + f.queueCount) % Word \in 0 .. Word - 1
      <4>1. queue_count + f.queueCount \in Nat
        BY <2>1, WordAssumption
      <4>2. \A n \in Nat : n % Word \in 0 .. Word - 1
        BY WordAssumption
      <4>3. QED
        BY <4>1, <4>2
    <3>2. \/ queue_count' = (queue_count + f.queueCount) % Word
          \/ queue_count' = queue_count
      BY <1>4 DEF CountFamily
    <3>3. QED
      BY <3>1, <3>2
  <2>3. candidate_gpuinfo' <=>
          \E k \in 1 .. (qi' - 1) : OnlyTransfer(devices[i].families[k])
    <3>1. 1 .. (qi' - 1) = 1 .. (qi - 1) \cup {qi}
      BY <1>1, <1>4, <2>1 DEF CountFamily
    <3>2. candidate_gpuinfo' <=> candidate_gpuinfo \/ OnlyTransfer(f)
      BY <1>4 DEF CountFamily
    <3>3. pc = "families"
      BY <1>4 DEF CountFamily
    <3>4. QED
      BY <3>1, <3>2, <3>3
  <2>4. candidate_gpuinfo' \in BOOLEAN
    BY <1>4 DEF CountFamily
  <2>5. TypeOK'
    <3>1. /\ pc' = "families" /\ qi' = qi + 1 /\ qi <= Len(devices[i].families)
          /\ UNCHANGED <<devices, i, best_score, best_index, best_gpuinfo>>
      BY <1>4 DEF CountFamily
    <3>2. qi' \in 1 .. Len(devices[i].families) + 1
      BY <1>1, <2>1, <3>1
    <3>3. QED
      BY <2>1, <2>2, <2>4, <3>1, <3>2
  <2>6. CandidateInvariant'
    BY <1>4, <2>3 DEF CountFamily
  <2>7. BestInvariant'
    BY <1>4 DEF CountFamily
  <2>8. QED
    BY <2>5, <2>6, <2>7
<1>5. CASE ScoreDevice
  <2> DEFINE score == Score(devices[i], queue_count)
  <2>1. score \in 0 .. Word - 1
    BY ScoreIsWord, WordAssumption
  <2>2. /\ i \in DOMAIN devices /\ devices[i].version12
        /\ qi = Len(devices[i].families) + 1
    BY <1>1, <1>5 DEF ScoreDevice
  <2>3. candidate_gpuinfo <=> HasDedicatedTransfer(devices[i])
    <3>1. 1 .. (qi - 1) = DOMAIN devices[i].families
      BY <1>1, <2>2
    <3>2. QED
      BY <1>5, <3>1 DEF ScoreDevice, HasDedicatedTransfer
  <2>4. CASE score > best_score
    <3>1. /\ best_score' = score /\ best_index' = i
          /\ best_gpuinfo' = candidate_gpuinfo /\ i' = i + 1
          /\ pc' = "device" /\ UNCHANGED <<devices, candidateVars>>
      BY <1>5, <2>4 DEF ScoreDevice, ScoredIndex
    <3>2. best_score' > 0
      BY <2>1, <2>4, <3>1
    <3>3. BestInvariant'
      BY <1>1, <2>1, <2>2, <2>3, <3>1, <3>2
    <3>4. QED
      BY <1>1, <2>1, <2>2, <3>1, <3>3
  <2>5. CASE ~(score > best_score)
    BY <1>1, <1>5, <2>2, <2>5 DEF ScoreDevice
  <2>6. QED
    BY <2>4, <2>5
<1>6. CASE SelectDevice
  <2>1. devices # <<>> => 1 \in DOMAIN devices
    <3>1. devices \in Seq(Devices)
      BY DeviceListsAssumption
    <3>2. QED
      BY <1>1, <3>1
  <2>2. QED
    BY <1>1, <1>6, <2>1 DEF SelectDevice
<1>7. CASE Terminated \/ UNCHANGED vars
  BY <1>7 DEF Terminated, vars
<1>8. QED
  BY <1>2, <1>3, <1>4, <1>5, <1>6, <1>7 DEF Next, Selection

\* The inductive invariant is an invariant.
LEMMA InvariantHolds == Spec => []Invariant
BY InvariantInit, InvariantStep, PTL DEF Spec

\* gpuinfo is of the device that is selected if that device was given a score,
\* and denies a copy engine if it was selected by default.
THEOREM GpuinfoIsOfSelected == Spec => []GpuinfoOfSelected
<1>1. Invariant => GpuinfoOfSelected
  <2> SUFFICES ASSUME Invariant
               PROVE  best_gpuinfo = (best_score > 0
                                        /\ HasDedicatedTransfer(physical_device))
    BY DEF GpuinfoOfSelected
  <2>1. /\ HasDedicatedTransfer(physical_device) \in BOOLEAN
        /\ best_gpuinfo \in BOOLEAN
    BY DEF HasDedicatedTransfer, Invariant, TypeOK
  <2>2. CASE best_score = 0
    <3>1. best_gpuinfo = FALSE /\ ~(best_score > 0)
      BY <2>2 DEF Invariant, BestInvariant
    <3>2. QED
      BY <3>1
  <2>3. CASE best_score > 0
    <3>1. best_gpuinfo <=> HasDedicatedTransfer(physical_device)
      BY <2>3 DEF Invariant, BestInvariant, physical_device
    <3>2. QED
      BY <2>1, <2>3, <3>1
  <2>4. best_score = 0 \/ best_score > 0
    BY WordAssumption DEF Invariant, TypeOK
  <2>5. QED
    BY <2>2, <2>3, <2>4
<1>2. QED
  BY <1>1, InvariantHolds, PTL

\* A device before Vulkan 1.2 is selected only where no device got a score.
THEOREM OldOnlyByDefault == Spec => []OldDeviceOnlyByDefault
<1>1. Invariant => OldDeviceOnlyByDefault
  BY DEF Invariant, BestInvariant, TypeOK, OldDeviceOnlyByDefault, physical_device
<1>2. QED
  BY <1>1, InvariantHolds, PTL

\* The indices stay within the lists and the scores within their width, whatever
\* the uninitialized count holds (app.c:347-396).
THEOREM SelectionTypeCorrect == Spec => []TypeOK
<1>1. Invariant => TypeOK
  BY DEF Invariant
<1>2. QED
  BY <1>1, InvariantHolds, PTL

=============================================================================

----------------------------- MODULE BuildProofs -----------------------------
(***************************************************************************)
(* The safety properties of Build, proved for every set of shaders, of     *)
(* which any may be included, and for any number of versions.              *)
(***************************************************************************)
EXTENDS Build, TLAPS

-----------------------------------------------------------------------------
(* The inductive invariant: what a build knows of its files at each phase. *)

Types ==
  /\ version \in [Sources -> Int]
  /\ spv \in [Shaders -> Int]
  /\ headers \in [Shaders -> Int]
  /\ read \in [Sources -> Int]
  /\ shader \in Shaders
  /\ failed \subseteq Sources

\* A shader whose turn is over.
Converted(s) ==
  /\ spv[s] # Missing
  /\ headers[s] = spv[s] \/ (headers[s] = Empty /\ s \in failed)
  /\ headers[s] = read[s] \/ s \in failed

Converting == phase \in {"convert", "embed"}

Progress ==
  /\ phase = "clean" => todo = Shaders
  /\ Converting => \A s \in Shaders \ todo : Converted(s)
  /\ phase = "embed" =>
       /\ spv[shader] # Missing
       /\ spv[shader] = read[shader] \/ shader \in failed
  /\ Converting /\ ~kept => exe = NoProgram
  /\ Converting \/ phase = "clean" => message = "none" /\ Code \notin failed

Inv == Types /\ Progress /\ StaleOnlyAfterUnnoticedFailure

LEMMA InvInit == Init => Inv
BY DEF Init, Inv, Types, Progress, Converting, StaleOnlyAfterUnnoticedFailure,
       NoFile, Missing, Sources

LEMMA StartStep == Inv /\ (StartBuild \/ Clean) => Inv'
<1> SUFFICES ASSUME Inv, StartBuild \/ Clean PROVE Inv'
  OBVIOUS
<1>1. CASE StartBuild
  BY <1>1 DEF StartBuild, Inv, Types, Progress, Converting, sourceVars,
              fileVars, StaleOnlyAfterUnnoticedFailure
<1>2. CASE Clean
  <2>1. Types'
    BY <1>2 DEF Clean, Inv, Types, NoFile, Missing, sourceVars
  <2>2. Progress'
    <3>1. /\ phase' = "convert" /\ message = "none" /\ message' = "none"
          /\ Code \notin failed /\ failed' = failed
          /\ kept' = locked /\ exe' = AfterDelete
      BY <1>2 DEF Clean, Inv, Progress
    <3>2. \A s \in Shaders : s \in todo'
      BY <1>2 DEF Clean, Inv, Progress
    <3>3. QED
      BY <3>1, <3>2 DEF Progress, Converting, AfterDelete
  <2>3. StaleOnlyAfterUnnoticedFailure'
    BY <1>2 DEF Clean, Inv, Progress, StaleOnlyAfterUnnoticedFailure
  <2>4. QED
    BY <2>1, <2>2, <2>3 DEF Inv
<1>3. QED
  BY <1>1, <1>2

\* glslangValidator is run for a shader.
LEMMA CompileShaderStep ==
  ASSUME Inv, NEW s \in Shaders, CompileShader(s)
  PROVE  Inv'
<1>1. /\ phase = "convert" /\ s \in todo /\ todo' = todo /\ shader' = s
      /\ spv' = [spv EXCEPT ![s] = CompiledShader(s)]
      /\ read' = [read EXCEPT ![s] = version[s]]
      /\ failed' = IF valid[s] THEN failed ELSE failed \cup {s}
      /\ version' = version /\ headers' = headers /\ exe' = exe /\ kept' = kept
  BY DEF CompileShader, sourceVars
<1>2. \/ phase' = "embed" /\ message' = message /\ CompiledShader(s) # Missing
      \/ phase' = "idle" /\ message' = "failed"
  BY DEF CompileShader, ShaderAccepted
<1>3. message = "none" /\ Code \notin failed /\ (~kept => exe = NoProgram)
  BY <1>1 DEF Inv, Progress, Converting
<1>4. Types'
  BY <1>1 DEF Inv, Types, CompiledShader, Sources
<1>5. Progress'
  <2> SUFFICES ASSUME phase' = "embed" PROVE Progress'
    BY <1>2 DEF Progress, Converting
  <2>1. message' = "none" /\ Code \notin failed' /\ (~kept' => exe' = NoProgram)
    BY <1>1, <1>2, <1>3, SourcesAssumption
  <2>2. spv'[s] = CompiledShader(s) /\ read'[s] = version[s]
    BY <1>1 DEF Inv, Types, Sources
  <2>3. CompiledShader(s) # Missing
    BY <1>2
  <2>4. spv'[s] = read'[s] \/ s \in failed'
    BY <1>1, <2>2 DEF CompiledShader
  <2>5. ASSUME NEW r \in Shaders \ todo PROVE Converted(r)'
    <3>1. Converted(r) /\ r # s
      BY <1>1 DEF Inv, Progress, Converting
    <3>2. spv'[r] = spv[r] /\ read'[r] = read[r]
      BY <1>1, <3>1 DEF Inv, Types, Sources
    <3>3. QED
      BY <1>1, <3>1, <3>2 DEF Converted
  <2>6. QED
    BY <1>1, <2>1, <2>2, <2>3, <2>4, <2>5 DEF Progress, Converting
<1>6. StaleOnlyAfterUnnoticedFailure'
  BY <1>2, <1>3 DEF StaleOnlyAfterUnnoticedFailure
<1>7. QED
  BY <1>4, <1>5, <1>6 DEF Inv

\* xxd is run for the shader, and fails or not.
LEMMA EmbedStep ==
  ASSUME Inv, WriteHeader \/ ConverterFails
  PROVE  Inv'
<1>1. /\ phase = "embed" /\ phase' = "convert" /\ todo' = todo \ {shader}
      /\ UNCHANGED <<version, spv, exe, shader, message, read, kept>>
  BY DEF WriteHeader, ConverterFails, EmbeddedShader, sourceVars
<1>2. \E c \in {spv[shader], Empty} :
        /\ headers' = [headers EXCEPT ![shader] = c]
        /\ \/ c = spv[shader] /\ failed' = failed
           \/ c = Empty /\ failed' = failed \cup {shader}
  BY DEF WriteHeader, ConverterFails
<1>3. PICK c \in {spv[shader], Empty} :
        /\ headers' = [headers EXCEPT ![shader] = c]
        /\ \/ c = spv[shader] /\ failed' = failed
           \/ c = Empty /\ failed' = failed \cup {shader}
  BY <1>2
<1>4. /\ message = "none" /\ Code \notin failed /\ (~kept => exe = NoProgram)
      /\ spv[shader] # Missing
      /\ spv[shader] = read[shader] \/ shader \in failed
  BY <1>1 DEF Inv, Progress, Converting
<1>5. Types'
  BY <1>1, <1>3 DEF Inv, Types, Sources, Empty
<1>6. Progress'
  <2>1. shader # Code
    BY SourcesAssumption DEF Inv, Types
  <2>2. Converted(shader)'
    <3>1. headers'[shader] = c
      BY <1>3 DEF Inv, Types
    <3>2. QED
      BY <1>1, <1>3, <1>4, <3>1 DEF Converted
  <2>3. ASSUME NEW s \in Shaders \ todo', s # shader PROVE Converted(s)'
    <3>1. Converted(s)
      BY <1>1, <2>3 DEF Inv, Progress, Converting
    <3>2. headers'[s] = headers[s]
      BY <1>3, <2>3 DEF Inv, Types
    <3>3. QED
      BY <1>1, <1>3, <3>1, <3>2 DEF Converted
  <2>4. QED
    BY <1>1, <1>3, <1>4, <2>1, <2>2, <2>3 DEF Progress, Converting
<1>7. StaleOnlyAfterUnnoticedFailure'
  BY <1>1, <1>4 DEF StaleOnlyAfterUnnoticedFailure
<1>8. QED
  BY <1>5, <1>6, <1>7 DEF Inv

\* tcc is run.
LEMMA ProgramStep == Inv /\ CompileProgram => Inv'
<1> SUFFICES ASSUME Inv, CompileProgram PROVE Inv'
  OBVIOUS
<1>1. /\ phase = "convert" /\ todo = {}
      /\ exe' = IF Compiles THEN CompiledProgram ELSE exe
      /\ read' = [read EXCEPT ![Code] = version[Code]]
      /\ failed' = IF Compiles THEN failed ELSE failed \cup {Code}
      /\ UNCHANGED <<version, spv, headers, todo, shader, kept>>
  BY DEF CompileProgram, sourceVars
<1>2. \/ exe' # NoProgram /\ phase' = "run" /\ message' = "successful"
      \/ phase' = "idle" /\ message' = "failed"
  BY DEF CompileProgram
<1>3. Types'
  BY <1>1 DEF Inv, Types, Sources
<1>4. Progress'
  BY <1>2 DEF Progress, Converting
<1>5. StaleOnlyAfterUnnoticedFailure'
  <2> SUFFICES ASSUME message' = "successful", ~kept'
               PROVE  /\ Code \notin failed'
                      /\ \A p \in Parts : exe'[p] # read'[p] => p \in failed'
    BY DEF StaleOnlyAfterUnnoticedFailure
  <2>1. exe = NoProgram /\ Code \notin failed
    BY <1>1 DEF Inv, Progress, Converting
  <2>2. Compiles /\ exe' = CompiledProgram /\ failed' = failed
    BY <1>1, <1>2, <2>1
  <2>3. ASSUME NEW p \in Parts PROVE exe'[p] # read'[p] => p \in failed
    <3>1. CASE p = Code
      BY <1>1, <2>2, <3>1 DEF CompiledProgram, Inv, Types, Sources
    <3>2. CASE p # Code
      <4>1. p \in Shaders /\ p \in Shaders \ todo
        BY <1>1, <3>2, SourcesAssumption DEF Parts
      <4>2. headers[p] = read[p] \/ p \in failed
        BY <1>1, <4>1 DEF Inv, Progress, Converting, Converted
      <4>3. exe'[p] = headers[p] /\ read'[p] = read[p]
        BY <1>1, <2>2, <3>2, <4>1 DEF CompiledProgram, Inv, Types, Sources
      <4>4. QED
        BY <4>2, <4>3
    <3>3. QED
      BY <3>1, <3>2
  <2>4. QED
    BY <2>1, <2>2, <2>3
<1>6. QED
  BY <1>3, <1>4, <1>5 DEF Inv

\* The end of the program, and the user.
LEMMA OtherStep ==
  ASSUME Inv, EndProgram \/ EditAny \/ RunByHand \/ UNCHANGED vars
  PROVE  Inv'
<1>1. CASE EndProgram
  BY <1>1 DEF EndProgram, Inv, Types, Progress, Converting, Converted,
              StaleOnlyAfterUnnoticedFailure, sourceVars, fileVars, historyVars
<1>2. CASE EditAny \/ RunByHand \/ UNCHANGED vars
  <2>1. /\ version' \in [Sources -> Int]
        /\ UNCHANGED <<fileVars, scriptVars, historyVars>>
    BY <1>2 DEF EditAny, Edit, RunByHand, vars, sourceVars, Inv, Types
  <2>2. QED
    BY <2>1 DEF Inv, Types, Progress, Converting, Converted,
                StaleOnlyAfterUnnoticedFailure, fileVars, scriptVars, historyVars
<1>3. QED
  BY <1>1, <1>2

\* The inductive invariant is an invariant.
LEMMA InvHolds == Spec => []Inv
<1>1. Inv /\ [Next]_vars => Inv'
  BY StartStep, CompileShaderStep, EmbedStep, ProgramStep, OtherStep
  DEF Next, Script
<1>2. QED
  BY <1>1, InvInit, PTL DEF Spec

-----------------------------------------------------------------------------
(* Theorems.                                                               *)

\* A program said to be compiled successfully holds what was compiled in this
\* build, but for a main.exe that could not be deleted and for shaders of which
\* a failure went unnoticed.
THEOREM StaleNeedsFailure == Spec => []StaleOnlyAfterUnnoticedFailure
<1>1. Inv => StaleOnlyAfterUnnoticedFailure
  BY DEF Inv
<1>2. QED
  BY <1>1, InvHolds, PTL

\* No header of an earlier build reaches tcc.
THEOREM HeadersOfThisBuild == Spec => []CompilesWithHeaders
<1>1. Inv => CompilesWithHeaders
  BY DEF Inv, Progress, Converting, Converted, CompilesWithHeaders
<1>2. QED
  BY <1>1, InvHolds, PTL

=============================================================================

-------------------------------- MODULE Build --------------------------------
(***************************************************************************)
(* build_clean_win64.bat, run again and again while the sources are being  *)
(* edited.  Each shader is compiled to a .spv file, which is written into  *)
(* a C header, which may be included in the program.  The script does not  *)
(* look at the exit codes of its tools but at the files that exist.        *)
(*                                                                         *)
(* A file is modelled by the version of the source it was made from.  What *)
(* the tools do on success and on failure is taken from how the script     *)
(* calls them: a compiler that fails leaves its output file as it was.     *)
(***************************************************************************)
EXTENDS Integers

CONSTANTS
  Shaders,    \* the shader sources
  Included,   \* the shaders whose header is included in the program
  Code,       \* the C sources, taken as one
  MaxVersion  \* bound: the versions of a source

ASSUME SourcesAssumption == Included \subseteq Shaders /\ Code \notin Shaders
ASSUME MaxVersionAssumption == MaxVersion \in Nat \ {0}

Sources == Shaders \cup {Code}
Parts == Included \cup {Code}

VARIABLES
  version,  \* per source: a number from 1 on
  valid,    \* per source: its compiler accepts it
  spv,      \* per shader: the content of its .spv file
  headers,  \* per shader: the content of its .h file
  exe,      \* per part: what main.exe was made from
  locked,   \* main.exe is running outside of the script
  phase,    \* where the script is
  todo,     \* the shaders the loop has still to take
  shader,   \* the one it has taken
  message,  \* how the script ended, or is about to
  read,     \* history: per source, the version compiled in this build
  failed,   \* history: the sources for which a tool failed in this build
  kept      \* history: del could not delete main.exe in this build

sourceVars == <<version, valid>>
fileVars == <<spv, headers, exe>>
historyVars == <<read, failed, kept>>
scriptVars == <<phase, todo, shader, message>>
vars == <<sourceVars, fileVars, locked, scriptVars, historyVars>>

-----------------------------------------------------------------------------
(* Files.                                                                  *)

Missing == 0
Empty == -1

NoFile == [s \in Shaders |-> Missing]
NoProgram == [p \in Parts |-> Missing]

Init ==
  /\ version = [x \in Sources |-> 1]
  /\ valid \in [Sources -> BOOLEAN]
  /\ spv = NoFile
  /\ headers = NoFile
  /\ exe = NoProgram
  /\ locked = FALSE
  /\ phase = "idle"
  /\ todo = {}
  /\ shader \in Shaders
  /\ message = "none"
  /\ read = [x \in Sources |-> 0]
  /\ failed = {}
  /\ kept = FALSE

-----------------------------------------------------------------------------
(* The script.                                                             *)

StartBuild ==
  /\ phase = "idle"
  /\ phase' = "clean"
  /\ todo' = Shaders
  /\ message' = "none"
  /\ read' = [x \in Sources |-> 0]
  /\ failed' = {}
  /\ kept' = FALSE
  /\ UNCHANGED <<sourceVars, fileVars, locked, shader>>

\* Mutant: the script does not begin by deleting main.exe.
AfterDelete_Kept == exe

\* del fails on a program that is running, and the script goes on.
AfterDelete == IF locked THEN exe ELSE NoProgram

\* Headers are deleted, or their directory is made; .spv files stay.
Clean ==
  /\ phase = "clean"
  /\ exe' = AfterDelete
  /\ kept' = locked
  /\ headers' = NoFile
  /\ phase' = "convert"
  /\ UNCHANGED <<sourceVars, locked, spv, todo, shader, message, read, failed>>

\* Mutant: a shader is compiled only if it has no .spv file yet.
CompiledShader_Cached(s) ==
  IF valid[s] /\ spv[s] = Missing THEN version[s] ELSE spv[s]

CompiledShader(s) == IF valid[s] THEN version[s] ELSE spv[s]

\* Mutant: the test for the .spv file is forgotten.
ShaderAccepted_Always(s) == TRUE

\* if not exist ...\!compiledfilename!
ShaderAccepted(s) == CompiledShader(s) # Missing

\* glslangValidator, its output thrown away, and the test for its output file.
CompileShader(s) ==
  /\ phase = "convert"
  /\ s \in todo
  /\ shader' = s
  /\ spv' = [spv EXCEPT ![s] = CompiledShader(s)]
  /\ read' = [read EXCEPT ![s] = version[s]]
  /\ failed' = IF valid[s] THEN failed ELSE failed \cup {s}
  /\ IF ShaderAccepted(s)
     THEN phase' = "embed" /\ UNCHANGED message
     ELSE phase' = "idle" /\ message' = "failed"
  /\ UNCHANGED <<sourceVars, headers, exe, locked, todo, kept>>

\* The next shader.
EmbeddedShader ==
  /\ phase = "embed"
  /\ todo' = todo \ {shader}
  /\ phase' = "convert"
  /\ UNCHANGED <<sourceVars, spv, exe, locked, shader, message, read, kept>>

\* xxd writes the header.
WriteHeader ==
  /\ spv[shader] # Missing
  /\ headers' = [headers EXCEPT ![shader] = spv[shader]]
  /\ EmbeddedShader
  /\ UNCHANGED failed

\* The redirection makes the file before xxd runs, so the test for it cannot
\* tell that xxd failed.
ConverterFails ==
  /\ headers' = [headers EXCEPT ![shader] = Empty]
  /\ EmbeddedShader
  /\ failed' = failed \cup {shader}

\* tcc needs the headers the program includes, and a file it may write.
Compiles ==
  /\ valid[Code]
  /\ \A s \in Included : headers[s] # Missing
  /\ ~locked

CompiledProgram ==
  [p \in Parts |-> IF p = Code THEN version[Code] ELSE headers[p]]

\* tcc, the test for main.exe and the message; main.exe is started.
CompileProgram ==
  /\ phase = "convert"
  /\ todo = {}
  /\ exe' = IF Compiles THEN CompiledProgram ELSE exe
  /\ read' = [read EXCEPT ![Code] = version[Code]]
  /\ failed' = IF Compiles THEN failed ELSE failed \cup {Code}
  /\ IF exe' # NoProgram
     THEN phase' = "run" /\ message' = "successful"
     ELSE phase' = "idle" /\ message' = "failed"
  /\ UNCHANGED <<sourceVars, spv, headers, locked, todo, shader, kept>>

EndProgram ==
  /\ phase = "run"
  /\ phase' = "idle"
  /\ UNCHANGED <<sourceVars, fileVars, locked, todo, shader, message,
                 historyVars>>

-----------------------------------------------------------------------------
(* The user.                                                               *)

\* A source is changed, for better or for worse, during a build or not.
Edit(x) ==
  /\ version[x] < MaxVersion
  /\ version' = [version EXCEPT ![x] = @ + 1]
  /\ \E v \in BOOLEAN : valid' = [valid EXCEPT ![x] = v]
  /\ UNCHANGED <<fileVars, locked, scriptVars, historyVars>>

\* main.exe is started by hand, or what was started so ends.
RunByHand ==
  /\ locked \/ exe # NoProgram
  /\ locked' = ~locked
  /\ UNCHANGED <<sourceVars, fileVars, scriptVars, historyVars>>

EditAny == \E x \in Sources : Edit(x)

Script ==
  \/ StartBuild \/ Clean \/ (\E s \in Shaders : CompileShader(s))
  \/ WriteHeader \/ ConverterFails \/ CompileProgram \/ EndProgram

Next == Script \/ EditAny \/ RunByHand

\* The tools and the program end, and the user builds again and again.
Spec == Init /\ [][Next]_vars /\ WF_vars(Script)

-----------------------------------------------------------------------------
(* Properties.                                                             *)

\* "COMPILATION SUCCESSFUL" is said of a program that was not made from what was
\* compiled in this build only if main.exe could not be deleted, or a tool failed
\* for a shader of which an older build had left a .spv file or whose header was
\* left empty.
StaleOnlyAfterUnnoticedFailure ==
  message = "successful" /\ ~kept =>
    /\ Code \notin failed
    /\ \A p \in Parts : exe[p] # read[p] => p \in failed

\* tcc is given the headers of all shaders, each made in this build from the .spv
\* file beside it.  One made from anything else is empty.
CompilesWithHeaders ==
  phase = "convert" =>
    \A s \in Shaders \ todo :
      /\ spv[s] # Missing
      /\ headers[s] = spv[s] \/ (headers[s] = Empty /\ s \in failed)

UpToDate ==
  /\ spv = [s \in Shaders |-> version[s]]
  /\ headers = spv
  /\ exe = [p \in Parts |-> version[p]]

\* Whatever files earlier builds left, of broken sources, under a running
\* program or half done: once the sources are valid and left alone, no main.exe is
\* running and xxd works, building brings all files up to date.
RebuildRepairs ==
  /\ <>[]((\A x \in Sources : valid[x]) /\ ~locked)
  /\ <>[][~EditAny /\ ~ConverterFails]_vars
  => <>[](phase = "idle" => UpToDate)

=============================================================================

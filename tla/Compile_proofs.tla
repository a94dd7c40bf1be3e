--------------------------- MODULE Compile_proofs ---------------------------
(***************************************************************************)
(* Proofs about compile: its cache, for every number of processes, models, *)
(* circuits and addresses, with processes that are killed at any time and  *)
(* compilers and a disk that fail; and compile_code, for code, output,     *)
(* pipes and a limit of descriptors of any size, any number of calls one   *)
(* after the other, and calls that fail, signals that interrupt them and   *)
(* compilers that give up at any point.                                    *)
(***************************************************************************)
EXTENDS CompileCacheProps, CompilePipeProps, FiniteSetTheorems, TLAPS

-----------------------------------------------------------------------------
(***************************************************************************)
(* The parts of the state and their names.                                 *)
(***************************************************************************)
LEMMA WritersApart ==
    ASSUME NEW p \in Processes
    PROVE  /\ Child(p) \in Writers /\ Orphan(p) \in Writers
           /\ \A q \in Processes : /\ Child(p) # Orphan(q)
                                   /\ Child(p) = Child(q) => p = q
                                   /\ Orphan(p) = Orphan(q) => p = q
  BY DEF Writers, Child, Orphan

\* The null pointer is no compiler.
LEMMA NullWriter == Null \notin Writers
  BY NullAssumption DEF Writers

\* A circuit has a name.
LEMMA UuidTyped == \A c \in Circuits : Uuid[c] \in Uuids
  BY DEF Uuids

\* A model of a process is a model, and belongs to that process.
LEMMA ModelsTyped ==
    ASSUME NEW p \in Processes, NEW m \in ModelsOf(p)
    PROVE  m \in Models /\ ProcessOf[m] = p /\ m # Null
  BY NullAssumption DEF ModelsOf
-----------------------------------------------------------------------------
(***************************************************************************)
(* Types.                                                                  *)
(***************************************************************************)
LEMMA TypeInit == Init => TypeOK
  BY NullAssumption DEF Init, TypeOK, Pointers, Programs, EmptyCache, EmptyHeap, NoResult, Result,
         Results, NoFile

\* What compile returns or throws when it has not compiled.
Failures == {"false", "threwNoDirectory", "threwNotStarted", "threwNotLoaded"}

\* Returning from a call leaves the types.
LEMMA EndCallTyped ==
    ASSUME TypeOK, NEW p \in Processes, NEW m \in Models,
           NEW kind \in Failures \cup {"true"},
           EndCall(p, kind, m)
    PROVE  /\ at' \in [Processes -> {"idle", "mkdir", "compile", "wait", "load", "drop"}]
           /\ compiling' \in [Processes -> Models \cup {Null}]
           /\ \A q \in Processes : compiling'[q] = Null <=> at'[q] \in {"idle", "drop"}
           /\ result' \in [Processes -> Results]
  BY DEF EndCall, TypeOK, Result, Results, Failures

\* So does leaving a compiler to itself.
LEMMA AbandonTyped ==
    ASSUME TypeOK, NEW p \in Processes, Abandon(p)
    PROVE  /\ job' \in [Writers -> Programs]
           /\ phase' \in [Writers -> {"none", "reading", "writing", "ok", "failed"}]
           /\ so' \in [Uuids -> [writer : Writers \cup {Null},
                                content : Programs \cup {Truncated}]]
<1> USE WritersApart DEF TypeOK
<1>1. /\ job[Child(p)] \in Programs
      /\ phase[Child(p)] \in {"none", "reading", "writing", "ok", "failed"}
  OBVIOUS
<1>2. job' \in [Writers -> Programs]
  BY <1>1, NullAssumption DEF Abandon, Programs
<1>3. phase' \in [Writers -> {"none", "reading", "writing", "ok", "failed"}]
  BY <1>1 DEF Abandon
<1>4. so' \in [Uuids -> [writer : Writers \cup {Null},
                        content : Programs \cup {Truncated}]]
  BY DEF Abandon
<1> QED
  BY <1>2, <1>3, <1>4

\* What is being compiled while a process is busy.
LEMMA BusyModel ==
    ASSUME TypeOK, BusyInv, NEW p \in Processes,
           at[p] \in {"mkdir", "compile", "wait", "load"}
    PROVE  LET m == compiling[p]
           IN  /\ m \in Models /\ ProcessOf[m] = p /\ m # Null
               /\ circuit[m] \in Circuits /\ circuit[m] # Null
               /\ circuit[m] \in Compileable
               /\ Uuid[circuit[m]] \in Uuids
               /\ compiledModel[m] = Null
               /\ objects[p][Uuid[circuit[m]]] = Null
               /\ result[p] = NoResult
  BY ModelsTyped, UuidTyped, NullAssumption DEF BusyInv, TypeOK

\* A file that can be loaded is that of the circuit, and goes to a new object
\* that the map and the model then have.
LEMMA Loaded ==
    ASSUME TypeOK, BusyInv, FilesInv, NEW p \in Processes, Load(p)
    PROVE  LET m == compiling[p]
               c == circuit[m]
           IN  \E a \in Addresses :
                 /\ heap[p][a] = Null
                 /\ heap' = [heap EXCEPT ![p][a] = c]
                 /\ objects' = [objects EXCEPT ![p][Uuid[c]] = a]
                 /\ compiledModel' = [compiledModel EXCEPT ![m] = a]
<1> DEFINE m == compiling[p]
           c == circuit[m]
           u == Uuid[c]
<1>1. /\ m \in Models /\ c \in Circuits /\ u \in Uuids /\ objects[p][u] = Null
  BY BusyModel DEF Load
<1>2. so[u].content = c
  <2>1. so[u].content \in Circuits /\ Uuid[so[u].content] = u
    BY <1>1 DEF Load, FilesInv, TypeOK, Programs
  <2> QED
    BY <1>1, <2>1, UuidAssumption
<1>3. PICK a \in Addresses :
         /\ heap[p][a] = Null
         /\ heap' = [heap EXCEPT ![p][a] = c]
         /\ objects' = [objects EXCEPT ![p][u] = a]
  BY <1>1, <1>2 DEF Load
<1>4. objects'[p][u] = a
  BY <1>1, <1>3 DEF TypeOK
<1> QED
  BY <1>3, <1>4 DEF Load

\* What a step does to the types, one action at a time.
LEMMA TypeStep ==
    ASSUME TypeOK, BusyInv, JobsInv, FilesInv, [Next]_vars
    PROVE  TypeOK'
<1> USE DEF Failures
<1> USE OwnerAssumption, NullAssumption, UuidTyped, WritersApart
<1> USE DEF TypeOK, Pointers, Programs, Results, Result, NoResult, NoFile,
            modelVars, cacheVars, fileVars, compilerVars
<1>1. ASSUME NEW p \in Processes, CompileStep(p)
      PROVE  TypeOK'
  <2>1. CASE CreateDirectory(p)
    BY <2>1 DEF CreateDirectory
  <2>2. CASE CreateDirectoryFails(p)
    BY <2>2, EndCallTyped, ModelsTyped DEF CreateDirectoryFails, BusyInv
  <2>8. CASE StartFails(p)
    BY <2>8, EndCallTyped, ModelsTyped DEF StartFails, BusyInv
  <2>3. CASE StartCompiler(p)
    BY <2>3, ModelsTyped DEF StartCompiler, BusyInv
  <2>4. CASE CompilerFailed(p)
    BY <2>4, EndCallTyped, ModelsTyped DEF CompilerFailed, Collect, BusyInv
  <2>5. CASE CompilerSucceeded(p)
    BY <2>5 DEF CompilerSucceeded, Collect
  <2>6. CASE Load(p)
    <3>1. at[p] = "load" /\ EndCall(p, "true", compiling[p])
      BY <2>6 DEF Load
    <3>2. /\ objects' \in [Processes -> [Uuids -> Pointers]]
          /\ heap' \in [Processes -> [Addresses -> Programs]]
          /\ compiledModel' \in [Models -> Pointers]
      <4>1. PICK a \in Addresses :
               /\ heap' = [heap EXCEPT ![p][a] = circuit[compiling[p]]]
               /\ objects' = [objects EXCEPT ![p][Uuid[circuit[compiling[p]]]] = a]
               /\ compiledModel' = [compiledModel EXCEPT ![compiling[p]] = a]
        BY <2>6, Loaded
      <4> QED
        BY <3>1, <4>1, BusyModel
    <3> QED
      BY <2>6, <3>1, <3>2, BusyModel, EndCallTyped DEF Load
  <2>7. CASE LoadFails(p)
    BY <2>7, EndCallTyped, ModelsTyped DEF LoadFails, BusyInv
  <2> QED
    BY <1>1, <2>1, <2>2, <2>3, <2>4, <2>5, <2>6, <2>7, <2>8 DEF CompileStep
<1>2. ASSUME NEW p \in Processes, NEW m \in ModelsOf(p),
             \/ CompileImpossible(p, m) \/ CompileCached(p, m) \/ CompileMissed(p, m)
             \/ Execute(p, m) \/ DropCompiled(p, m)
      PROVE  TypeOK'
  <2> USE ModelsTyped
  <2>1. CASE CompileImpossible(p, m)
    BY <2>1, EndCallTyped DEF CompileImpossible
  <2>2. CASE CompileCached(p, m)
    BY <2>2, EndCallTyped DEF CompileCached
  <2>3. CASE CompileMissed(p, m)
    BY <2>3 DEF CompileMissed
  <2>4. CASE Execute(p, m)
    BY <2>4 DEF Execute, Computed
  <2>5. CASE DropCompiled(p, m)
    BY <2>5 DEF DropCompiled
  <2> QED
    BY <1>2, <2>1, <2>2, <2>3, <2>4, <2>5
<1>3. ASSUME NEW p \in Processes, NEW m \in ModelsOf(p), NEW n \in ModelsOf(p),
             Assign(p, m, n)
      PROVE  TypeOK'
  BY <1>3, ModelsTyped DEF Assign
<1>4. ASSUME NEW p \in Processes, DropAllObjects(p)
      PROVE  TypeOK'
  BY <1>4 DEF DropAllObjects, EmptyCache
<1>5. ASSUME NEW p \in Processes, Crash(p)
      PROVE  TypeOK'
  <2>1. /\ job' \in [Writers -> Circuits \cup {Null}]
        /\ phase' \in [Writers -> {"none", "reading", "writing", "ok", "failed"}]
        /\ so' \in [Uuids -> [writer : Writers \cup {Null},
                             content : Circuits \cup {Null} \cup {Truncated}]]
    BY <1>5, AbandonTyped DEF Crash
  <2>3. /\ objects' \in [Processes -> [Uuids -> Addresses \cup {Null}]]
        /\ heap' \in [Processes -> [Addresses -> Circuits \cup {Null}]]
        /\ compiledModel' \in [Models -> Addresses \cup {Null}]
    BY <1>5 DEF Crash, EmptyCache, EmptyHeap
  <2>4. /\ at' \in [Processes -> {"idle", "mkdir", "compile", "wait", "load", "drop"}]
        /\ compiling' \in [Processes -> Models \cup {Null}]
        /\ \A q \in Processes : compiling'[q] = Null <=> at'[q] \in {"idle", "drop"}
    BY <1>5 DEF Crash
  <2>5. result' \in [Processes -> Results]
    BY <1>5 DEF Crash
  <2> QED
    BY <1>5, <2>1, <2>3, <2>4, <2>5 DEF Crash
<1>9. ASSUME NEW p \in Processes, CollectInterrupted(p)
      PROVE  TypeOK'
  <2>1. /\ job' \in [Writers -> Circuits \cup {Null}]
        /\ phase' \in [Writers -> {"none", "reading", "writing", "ok", "failed"}]
        /\ so' \in [Uuids -> [writer : Writers \cup {Null},
                             content : Circuits \cup {Null} \cup {Truncated}]]
    BY <1>9, AbandonTyped DEF CollectInterrupted
  <2>2. CASE EndCall(p, "false", compiling[p])
    BY <1>9, <2>1, <2>2, EndCallTyped, ModelsTyped DEF CollectInterrupted, BusyInv
  <2>3. CASE at' = [at EXCEPT ![p] = "load"] /\ UNCHANGED <<compiling, result>>
    BY <1>9, <2>1, <2>3 DEF CollectInterrupted
  <2> QED
    BY <1>9, <2>2, <2>3 DEF CollectInterrupted
<1>6. ASSUME NEW p \in Processes, OrphanEnds(p)
      PROVE  TypeOK'
  BY <1>6 DEF OrphanEnds
<1>7. ASSUME NEW w \in Writers, CompilerStep(w)
      PROVE  TypeOK'
  <2>1. CASE CreateOutput(w)
    BY <2>1 DEF CreateOutput, FileBy, JobsInv
  <2>2. CASE FinishOutput(w)
    <3>1. Outputs(w) \subseteq Circuits \cup {Truncated}
      BY <2>2 DEF FinishOutput, Outputs, JobsInv
    <3>2. so' \in [Uuids -> [writer : Writers \cup {Null},
                           content : Circuits \cup {Null} \cup {Truncated}]]
      <4>1. PICK c \in Outputs(w) :
               so' = [so EXCEPT ![Uuid[job[w]]] =
                         IF @ = FileBy(w) THEN Written(w, c) ELSE @]
        BY <2>2 DEF FinishOutput
      <4>2. Written(w, c) \in [writer : Writers \cup {Null},
                              content : Circuits \cup {Null} \cup {Truncated}]
        BY <1>7, <3>1 DEF Written
      <4> QED
        BY <4>1, <4>2
    <3> QED
      BY <2>2, <3>2 DEF FinishOutput
  <2>3. CASE FailOutput(w)
    BY <2>3 DEF FailOutput, JobsInv
  <2> QED
    BY <1>7, <2>1, <2>2, <2>3 DEF CompilerStep
<1>8. CASE UNCHANGED vars
  BY <1>8 DEF vars
<1> QED
  BY <1>1, <1>2, <1>3, <1>4, <1>5, <1>6, <1>7, <1>8, <1>9 DEF Next, Call
-----------------------------------------------------------------------------
(***************************************************************************)
(* Files and compilers.                                                    *)
(***************************************************************************)
\* A compiler that is at work has a circuit.
LEMMA JobTyped ==
    ASSUME TypeOK, JobsInv, NEW w \in Writers, phase[w] # "none"
    PROVE  job[w] \in Circuits /\ job[w] # Null /\ Uuid[job[w]] \in Uuids
  BY UuidTyped DEF TypeOK, JobsInv, Programs

\* Every step keeps what is known of the compilers.
LEMMA JobsStep ==
    ASSUME TypeOK, BusyInv, JobsInv, [Next]_vars
    PROVE  JobsInv'
<1> USE DEF JobsInv, compilerVars
<1>1. CASE UNCHANGED compilerVars
  BY <1>1
<1>2. ASSUME NEW p \in Processes, StartCompiler(p)
      PROVE  JobsInv'
  BY <1>2, BusyModel DEF StartCompiler, TypeOK
<1>3. ASSUME NEW p \in Processes, CompilerFailed(p) \/ CompilerSucceeded(p)
      PROVE  JobsInv'
  BY <1>3 DEF CompilerFailed, CompilerSucceeded, Collect, TypeOK
<1>4. ASSUME NEW p \in Processes, OrphanEnds(p)
      PROVE  JobsInv'
  BY <1>4 DEF OrphanEnds, TypeOK
<1>5. ASSUME NEW p \in Processes, Crash(p) \/ CollectInterrupted(p)
      PROVE  JobsInv'
  <2>1. Abandon(p)
    BY <1>5 DEF Crash, CollectInterrupted
  <2> QED
    BY <2>1, WritersApart DEF Abandon, TypeOK
<1>6. ASSUME NEW w \in Writers, CompilerStep(w)
      PROVE  JobsInv'
  BY <1>6 DEF CompilerStep, CreateOutput, FinishOutput, FailOutput, TypeOK
<1>7. \/ UNCHANGED compilerVars
      \/ \E p \in Processes :
           \/ StartCompiler(p) \/ CompilerFailed(p) \/ CompilerSucceeded(p)
           \/ OrphanEnds(p) \/ Crash(p) \/ CollectInterrupted(p)
      \/ \E w \in Writers : CompilerStep(w)
  BY DEF Next, vars, CompileStep, Call, CreateDirectory, CreateDirectoryFails, StartFails, Load,
         LoadFails, CompileImpossible, CompileCached, CompileMissed, Execute,
         DropCompiled, Assign, DropAllObjects
<1> QED
  BY <1>1, <1>2, <1>3, <1>4, <1>5, <1>6, <1>7

\* Every step keeps what is known of the files.
LEMMA FilesStep ==
    ASSUME TypeOK, JobsInv, FilesInv, [Next]_vars
    PROVE  FilesInv'
<1> USE DEF FilesInv
<1>1. CASE UNCHANGED so
  BY <1>1
<1>2. ASSUME NEW p \in Processes, Crash(p) \/ CollectInterrupted(p)
      PROVE  FilesInv'
  <2>1. \A u \in Uuids : so'[u].content = so[u].content
    <3>1. Abandon(p)
      BY <1>2 DEF Crash, CollectInterrupted
    <3> QED
      BY <3>1 DEF Abandon, TypeOK
  <2> QED
    BY <2>1
<1>3. ASSUME NEW w \in Writers, CompilerStep(w)
      PROVE  FilesInv'
  <2> USE NullAssumption, TruncatedAssumption
  <2>1. CASE CreateOutput(w)
    BY <2>1, JobTyped DEF CreateOutput, FileBy, TypeOK
  <2>2. CASE FinishOutput(w)
    BY <2>2, JobTyped DEF FinishOutput, Outputs, Written, TypeOK
  <2>3. CASE FailOutput(w)
    BY <2>3, JobTyped DEF FailOutput, NoFile, TypeOK
  <2> QED
    BY <1>3, <2>1, <2>2, <2>3 DEF CompilerStep
<1>4. \/ UNCHANGED so
      \/ \E p \in Processes : Crash(p) \/ CollectInterrupted(p)
      \/ \E w \in Writers : CompilerStep(w)
  BY DEF Next, vars, fileVars, CompileStep, Call, CreateDirectory, CreateDirectoryFails,
         StartFails, StartCompiler, CompilerFailed, CompilerSucceeded, Load, LoadFails,
         CompileImpossible, CompileCached, CompileMissed, Execute, DropCompiled, Assign,
         DropAllObjects, OrphanEnds
<1> QED
  BY <1>1, <1>2, <1>3, <1>4
-----------------------------------------------------------------------------
(***************************************************************************)
(* Calls, the map and the pointers.                                        *)
(***************************************************************************)
processVars == <<modelVars, cacheVars, at, compiling, result>>

\* The compilers do not touch a process, and creating the directory and
\* waiting for the compiler only move it on.
LEMMA StepCases ==
    ASSUME [Next]_vars
    PROVE  \/ UNCHANGED processVars
           \/ \E p \in Processes :
                \/ /\ at[p] \in {"mkdir", "compile", "wait"}
                   /\ \E where \in {"compile", "wait", "load"} :
                         at' = [at EXCEPT ![p] = where]
                   /\ UNCHANGED <<modelVars, cacheVars, compiling, result>>
                \/ /\ at[p] \in {"mkdir", "compile", "wait", "load"}
                   /\ \E kind \in Failures :
                         EndCall(p, kind, compiling[p])
                   /\ UNCHANGED <<modelVars, cacheVars>>
                \/ Load(p)
                \/ \E m \in ModelsOf(p) :
                     \/ CompileImpossible(p, m) \/ CompileCached(p, m)
                     \/ CompileMissed(p, m) \/ Execute(p, m) \/ DropCompiled(p, m)
                \/ \E m, n \in ModelsOf(p) : Assign(p, m, n)
                \/ DropAllObjects(p)
                \/ Crash(p)
<1> USE DEF processVars, modelVars, cacheVars
<1>1. CASE UNCHANGED vars
  BY <1>1 DEF vars
<1>2. ASSUME NEW w \in Writers, CompilerStep(w)
      PROVE  UNCHANGED processVars
  BY <1>2 DEF CompilerStep, CreateOutput, FinishOutput, FailOutput
<1>3. ASSUME NEW p \in Processes, OrphanEnds(p)
      PROVE  UNCHANGED processVars
  BY <1>3 DEF OrphanEnds
<1>4. ASSUME NEW p \in Processes,
             CreateDirectory(p) \/ StartCompiler(p) \/ CompilerSucceeded(p)
      PROVE  /\ at[p] \in {"mkdir", "compile", "wait"}
             /\ \E where \in {"compile", "wait", "load"} : at' = [at EXCEPT ![p] = where]
             /\ UNCHANGED <<modelVars, cacheVars, compiling, result>>
  BY <1>4 DEF CreateDirectory, StartCompiler, CompilerSucceeded
<1>5. ASSUME NEW p \in Processes,
             \/ CreateDirectoryFails(p) \/ StartFails(p) \/ CompilerFailed(p)
             \/ LoadFails(p)
      PROVE  /\ at[p] \in {"mkdir", "compile", "wait", "load"}
             /\ \E kind \in Failures :
                   EndCall(p, kind, compiling[p])
             /\ UNCHANGED <<modelVars, cacheVars>>
  BY <1>5 DEF CreateDirectoryFails, StartFails, CompilerFailed, LoadFails, Failures
<1>6. ASSUME NEW p \in Processes, CollectInterrupted(p)
      PROVE  \/ /\ at[p] \in {"mkdir", "compile", "wait"}
                /\ \E where \in {"compile", "wait", "load"} :
                      at' = [at EXCEPT ![p] = where]
                /\ UNCHANGED <<modelVars, cacheVars, compiling, result>>
             \/ /\ at[p] \in {"mkdir", "compile", "wait", "load"}
                /\ \E kind \in Failures : EndCall(p, kind, compiling[p])
                /\ UNCHANGED <<modelVars, cacheVars>>
  BY <1>6 DEF CollectInterrupted, Failures
<1> HIDE DEF processVars, modelVars, cacheVars
<1> QED
  BY <1>1, <1>2, <1>3, <1>4, <1>5, <1>6 DEF Next, CompileStep, Call

\* Every step keeps what is known of the calls under way.
LEMMA BusyStep ==
    ASSUME TypeOK, BusyInv, FilesInv, [Next]_vars
    PROVE  BusyInv'
<1> USE OwnerAssumption, NullAssumption
<1> USE DEF BusyInv, ModelsOf
<1>1. CASE UNCHANGED processVars
  BY <1>1 DEF processVars, modelVars, cacheVars
<1>2. ASSUME NEW p \in Processes, at[p] \in {"mkdir", "compile", "wait"},
             NEW where \in {"compile", "wait", "load"}, at' = [at EXCEPT ![p] = where],
             UNCHANGED <<modelVars, cacheVars, compiling, result>>
      PROVE  BusyInv'
  BY <1>2 DEF modelVars, cacheVars, TypeOK
<1>3. ASSUME NEW p \in Processes, at[p] \in {"mkdir", "compile", "wait", "load"},
             NEW kind \in Failures,
             EndCall(p, kind, compiling[p]), UNCHANGED <<modelVars, cacheVars>>
      PROVE  BusyInv'
  BY <1>3 DEF EndCall, modelVars, cacheVars, TypeOK
<1>4. ASSUME NEW p \in Processes, Load(p)
      PROVE  BusyInv'
  <2>1. PICK a \in Addresses :
           /\ objects' = [objects EXCEPT ![p][Uuid[circuit[compiling[p]]]] = a]
           /\ compiledModel' = [compiledModel EXCEPT ![compiling[p]] = a]
    BY <1>4, Loaded
  <2> QED
    BY <1>4, <2>1, BusyModel DEF Load, EndCall, TypeOK
<1>5. ASSUME NEW p \in Processes, NEW m \in ModelsOf(p),
             CompileImpossible(p, m) \/ CompileCached(p, m)
      PROVE  BusyInv'
  BY <1>5 DEF CompileImpossible, CompileCached, EndCall, modelVars, cacheVars, TypeOK
<1>6. ASSUME NEW p \in Processes, NEW m \in ModelsOf(p), CompileMissed(p, m)
      PROVE  BusyInv'
  BY <1>6 DEF CompileMissed, cacheVars, TypeOK
<1>7. ASSUME NEW p \in Processes, NEW m \in ModelsOf(p),
             Execute(p, m) \/ DropCompiled(p, m)
      PROVE  BusyInv'
  BY <1>7 DEF Execute, DropCompiled, modelVars, cacheVars, TypeOK
<1>8. ASSUME NEW p \in Processes, NEW m \in ModelsOf(p), NEW n \in ModelsOf(p),
             Assign(p, m, n)
      PROVE  BusyInv'
  BY <1>8 DEF Assign, cacheVars, TypeOK
<1>9. ASSUME NEW p \in Processes, DropAllObjects(p)
      PROVE  BusyInv'
  BY <1>9 DEF DropAllObjects, modelVars, TypeOK
<1>10. ASSUME NEW p \in Processes, Crash(p)
       PROVE  BusyInv'
  BY <1>10 DEF Crash, TypeOK
<1> HIDE DEF BusyInv, ModelsOf
<1> QED
  BY StepCases, <1>1, <1>2, <1>3, <1>4, <1>5, <1>6, <1>7, <1>8, <1>9, <1>10

\* Every step keeps what is known of the circuits under compilation.
LEMMA CompileableStep ==
    ASSUME TypeOK, BusyInv, FilesInv, CompileableInv, [Next]_vars
    PROVE  CompileableInv'
<1> USE UuidTyped, CircuitsAssumption
<1> USE DEF CompileableInv
<1>1. CASE UNCHANGED cacheVars
  BY <1>1 DEF cacheVars
<1>2. ASSUME NEW p \in Processes, Load(p)
      PROVE  CompileableInv'
  <2>1. PICK a \in Addresses :
           objects' = [objects EXCEPT ![p][Uuid[circuit[compiling[p]]]] = a]
    BY <1>2, Loaded
  <2>2. circuit[compiling[p]] \in Compileable /\ Uuid[circuit[compiling[p]]] \in Uuids
    BY <1>2, BusyModel DEF Load
  <2> QED
    BY <2>1, <2>2, UuidAssumption DEF TypeOK
<1>3. ASSUME NEW p \in Processes, DropAllObjects(p) \/ Crash(p)
      PROVE  CompileableInv'
  <2>1. objects' = [objects EXCEPT ![p] = EmptyCache]
    BY <1>3 DEF DropAllObjects, Crash
  <2> QED
    BY <2>1 DEF EmptyCache, TypeOK
<1>4. \/ UNCHANGED cacheVars
      \/ \E p \in Processes : Load(p) \/ DropAllObjects(p) \/ Crash(p)
  BY StepCases DEF processVars, cacheVars, CompileImpossible, CompileCached, CompileMissed,
                   Execute, DropCompiled, Assign
<1> QED
  BY <1>1, <1>2, <1>3, <1>4

\* dropAllObjects frees what the models point to; they are told so, one by
\* one, before the process goes on.
LEMMA PointersStep ==
    ASSUME TypeOK, BusyInv, FilesInv, PointersInv, Disciplined, [Next]_vars
    PROVE  PointersInv'
<1> USE OwnerAssumption, NullAssumption, UuidTyped
<1> USE DEF PointersInv, ModelsOf
<1>1. CASE UNCHANGED processVars
  BY <1>1 DEF processVars, modelVars, cacheVars
<1>2. ASSUME NEW p \in Processes, at[p] \in {"mkdir", "compile", "wait"},
             NEW where \in {"compile", "wait", "load"}, at' = [at EXCEPT ![p] = where],
             UNCHANGED <<modelVars, cacheVars, compiling, result>>
      PROVE  PointersInv'
  BY <1>2 DEF modelVars, cacheVars, TypeOK
<1>3. ASSUME NEW p \in Processes, at[p] \in {"mkdir", "compile", "wait", "load"},
             NEW kind \in Failures,
             EndCall(p, kind, compiling[p]), UNCHANGED <<modelVars, cacheVars>>
      PROVE  PointersInv'
  BY <1>3 DEF EndCall, modelVars, cacheVars, TypeOK
<1>4. ASSUME NEW p \in Processes, Load(p)
      PROVE  PointersInv'
  <2> DEFINE m == compiling[p]
             u == Uuid[circuit[m]]
  <2>1. PICK a \in Addresses :
           /\ objects' = [objects EXCEPT ![p][u] = a]
           /\ compiledModel' = [compiledModel EXCEPT ![m] = a]
    BY <1>4, Loaded
  <2>2. /\ m \in Models /\ ProcessOf[m] = p /\ u \in Uuids /\ objects[p][u] = Null
        /\ at[p] = "load" /\ at' = [at EXCEPT ![p] = "idle"] /\ circuit' = circuit
    BY <1>4, BusyModel DEF Load, EndCall
  <2>3. ASSUME NEW n \in Models, at'[ProcessOf[n]] # "drop"
        PROVE  compiledModel'[n] \in {Null, objects'[ProcessOf[n]][Uuid[circuit'[n]]]}
    <3>1. at[ProcessOf[n]] # "drop"
      BY <2>2, <2>3 DEF TypeOK
    <3>2. CASE ProcessOf[n] = p /\ Uuid[circuit[n]] = u
      BY <2>1, <2>2, <3>1, <3>2 DEF TypeOK
    <3>3. CASE ~(ProcessOf[n] = p /\ Uuid[circuit[n]] = u)
      BY <2>1, <2>2, <3>1, <3>3 DEF TypeOK
    <3> QED
      BY <3>2, <3>3
  <2> QED
    BY <2>3
<1>5. ASSUME NEW p \in Processes, NEW m \in ModelsOf(p),
             CompileImpossible(p, m) \/ CompileCached(p, m)
      PROVE  PointersInv'
  <2>1. CASE CompileImpossible(p, m)
    BY <2>1 DEF CompileImpossible, EndCall, modelVars, cacheVars, TypeOK
  <2>2. CASE CompileCached(p, m)
    BY <2>2 DEF CompileCached, EndCall, cacheVars, TypeOK
  <2> QED
    BY <1>5, <2>1, <2>2
<1>6. ASSUME NEW p \in Processes, NEW m \in ModelsOf(p), CompileMissed(p, m)
      PROVE  PointersInv'
  BY <1>6 DEF CompileMissed, cacheVars, TypeOK
<1>7. ASSUME NEW p \in Processes, NEW m \in ModelsOf(p), Execute(p, m)
      PROVE  PointersInv'
  BY <1>7 DEF Execute, modelVars, cacheVars, TypeOK
<1>8. ASSUME NEW p \in Processes, NEW m \in ModelsOf(p), DropCompiled(p, m)
      PROVE  PointersInv'
  BY <1>8 DEF DropCompiled, cacheVars, TypeOK
<1>9. ASSUME NEW p \in Processes, NEW m \in ModelsOf(p), NEW n \in ModelsOf(p),
             Assign(p, m, n)
      PROVE  PointersInv'
  BY <1>9 DEF Assign, cacheVars, TypeOK
<1>10. ASSUME NEW p \in Processes, DropAllObjects(p)
       PROVE  PointersInv'
  BY <1>10 DEF DropAllObjects, modelVars, TypeOK
<1>11. ASSUME NEW p \in Processes, Crash(p)
       PROVE  PointersInv'
  BY <1>11 DEF Crash, TypeOK
<1> HIDE DEF PointersInv, ModelsOf
<1> QED
  BY StepCases, <1>1, <1>2, <1>3, <1>4, <1>5, <1>6, <1>7, <1>8, <1>9, <1>10, <1>11
\* The result of a call is about a model of the process that has called, and
\* is forgotten when the next one begins.
LEMMA ResultsStep ==
    ASSUME TypeOK, BusyInv, ResultsInv, [Next]_vars
    PROVE  ResultsInv'
<1> USE DEF Failures
<1> USE NullAssumption
<1> USE DEF ResultsInv, ModelsOf, Result, NoResult
<1>1. CASE UNCHANGED processVars
  BY <1>1 DEF processVars
<1>2. ASSUME NEW p \in Processes, at[p] \in {"mkdir", "compile", "wait"},
             NEW where \in {"compile", "wait", "load"}, at' = [at EXCEPT ![p] = where],
             UNCHANGED <<modelVars, cacheVars, compiling, result>>
      PROVE  ResultsInv'
  BY <1>2, BusyModel DEF TypeOK
<1>3. ASSUME NEW p \in Processes, NEW m \in ModelsOf(p),
             NEW kind \in Failures \cup {"true"},
             EndCall(p, kind, m)
      PROVE  ResultsInv'
  BY <1>3 DEF EndCall, TypeOK
<1>4. ASSUME NEW p \in Processes, NEW m \in ModelsOf(p), Execute(p, m)
      PROVE  ResultsInv'
  BY <1>4 DEF Execute, Computed, TypeOK
<1>5. ASSUME NEW p \in Processes, result' = [result EXCEPT ![p] = NoResult],
             \A q \in Processes : q # p => at'[q] = at[q]
      PROVE  ResultsInv'
  BY <1>5 DEF TypeOK
<1>6. ASSUME NEW p \in Processes, NEW m \in ModelsOf(p),
             CompileMissed(p, m) \/ DropCompiled(p, m)
      PROVE  ResultsInv'
  <2>1. /\ result' = [result EXCEPT ![p] = NoResult]
        /\ \A q \in Processes : q # p => at'[q] = at[q]
    BY <1>6 DEF CompileMissed, DropCompiled, TypeOK
  <2> QED
    BY <1>5, <2>1
<1>7. ASSUME NEW p \in Processes, NEW m \in ModelsOf(p), NEW n \in ModelsOf(p),
             Assign(p, m, n)
      PROVE  ResultsInv'
  BY <1>5, <1>7 DEF Assign
<1>8. ASSUME NEW p \in Processes, DropAllObjects(p) \/ Crash(p)
      PROVE  ResultsInv'
  <2>1. /\ result' = [result EXCEPT ![p] = NoResult]
        /\ \A q \in Processes : q # p => at'[q] = at[q]
    BY <1>8 DEF DropAllObjects, Crash, TypeOK
  <2> QED
    BY <1>5, <2>1
<1>9. ASSUME NEW p \in Processes, at[p] \in {"mkdir", "compile", "wait", "load"}
      PROVE  compiling[p] \in ModelsOf(p)
  BY <1>9 DEF BusyInv
<1>10. ASSUME NEW p \in Processes, Load(p)
       PROVE  ResultsInv'
  BY <1>3, <1>9, <1>10 DEF Load
<1>11. ASSUME NEW p \in Processes, NEW m \in ModelsOf(p),
              CompileImpossible(p, m) \/ CompileCached(p, m)
       PROVE  ResultsInv'
  BY <1>3, <1>11 DEF CompileImpossible, CompileCached
<1>12. ASSUME NEW p \in Processes, at[p] \in {"mkdir", "compile", "wait", "load"},
              NEW kind \in Failures,
              EndCall(p, kind, compiling[p])
       PROVE  ResultsInv'
  BY <1>3, <1>9, <1>12
<1> HIDE DEF ResultsInv, ModelsOf, Result, NoResult
<1> QED
  BY StepCases, <1>1, <1>2, <1>4, <1>6, <1>7, <1>8, <1>10, <1>11, <1>12

\* An object is put where there is none, and the map is emptied together with
\* the heap.
LEMMA HeapStep ==
    ASSUME TypeOK, BusyInv, FilesInv, CacheMatchesHeap, [Next]_vars
    PROVE  CacheMatchesHeap'
<1> USE NullAssumption, UuidTyped
<1> USE DEF CacheMatchesHeap
<1>1. CASE UNCHANGED cacheVars
  BY <1>1 DEF cacheVars
<1>2. ASSUME NEW p \in Processes, Load(p)
      PROVE  CacheMatchesHeap'
  <2> DEFINE c == circuit[compiling[p]]
             u == Uuid[c]
  <2>1. PICK a \in Addresses :
           /\ heap[p][a] = Null
           /\ heap' = [heap EXCEPT ![p][a] = c]
           /\ objects' = [objects EXCEPT ![p][u] = a]
    BY <1>2, Loaded
  <2>2. c \in Circuits /\ c # Null /\ u \in Uuids /\ objects[p][u] = Null
    BY <1>2, BusyModel DEF Load
  <2>3. /\ heap'[p] = [heap[p] EXCEPT ![a] = c]
        /\ objects'[p] = [objects[p] EXCEPT ![u] = a]
        /\ heap[p] \in [Addresses -> Programs]
        /\ objects[p] \in [Uuids -> Pointers]
        /\ \A q \in Processes \ {p} : heap'[q] = heap[q] /\ objects'[q] = objects[q]
    BY <2>1 DEF TypeOK
  <2>4. {b \in Addresses : heap'[p][b] # Null} = {objects'[p][v] : v \in Uuids} \ {Null}
    <3>1. {b \in Addresses : heap'[p][b] # Null}
            = {b \in Addresses : heap[p][b] # Null} \cup {a}
      BY <2>1, <2>2, <2>3
    <3>2. {objects'[p][v] : v \in Uuids} \ {Null}
            = ({objects[p][v] : v \in Uuids} \ {Null}) \cup {a}
      BY <2>1, <2>2, <2>3
    <3> QED
      BY <3>1, <3>2
  <2>5. \A d \in Circuits : objects'[p][Uuid[d]] # Null => heap'[p][objects'[p][Uuid[d]]] = d
    <3>1. ASSUME NEW d \in Circuits, d # c, objects'[p][Uuid[d]] # Null
          PROVE  heap'[p][objects'[p][Uuid[d]]] = d
      <4>1. Uuid[d] # u /\ objects'[p][Uuid[d]] = objects[p][Uuid[d]]
        BY <2>2, <2>3, <3>1, UuidAssumption
      <4>2. heap[p][objects[p][Uuid[d]]] = d /\ d # Null
        BY <3>1, <4>1
      <4>3. objects[p][Uuid[d]] # a /\ objects[p][Uuid[d]] \in Addresses
        BY <2>1, <2>3, <3>1, <4>1, <4>2 DEF Pointers
      <4> QED
        BY <2>3, <4>1, <4>2, <4>3
    <3>2. heap'[p][objects'[p][u]] = c
      BY <2>1, <2>2, <2>3
    <3> QED
      BY <3>1, <3>2
  <2> QED
    BY <2>3, <2>4, <2>5
<1>3. ASSUME NEW p \in Processes, DropAllObjects(p)
      PROVE  CacheMatchesHeap'
  <2>1. heap'[p] = EmptyHeap
    <3>1. heap'[p] = [a \in Addresses |->
                        IF \E u \in Uuids : objects[p][u] = a THEN Null ELSE heap[p][a]]
      BY <1>3 DEF DropAllObjects, TypeOK
    <3>2. \A a \in Addresses : heap[p][a] # Null => \E u \in Uuids : objects[p][u] = a
      OBVIOUS
    <3> QED
      BY <3>1, <3>2 DEF EmptyHeap
  <2>2. objects'[p] = EmptyCache
    BY <1>3 DEF DropAllObjects, TypeOK
  <2>3. \A q \in Processes \ {p} : heap'[q] = heap[q] /\ objects'[q] = objects[q]
    BY <1>3 DEF DropAllObjects, TypeOK
  <2> QED
    BY <2>1, <2>2, <2>3 DEF EmptyHeap, EmptyCache
<1>4. ASSUME NEW p \in Processes, Crash(p)
      PROVE  CacheMatchesHeap'
  <2>1. /\ heap'[p] = EmptyHeap /\ objects'[p] = EmptyCache
        /\ \A q \in Processes \ {p} : heap'[q] = heap[q] /\ objects'[q] = objects[q]
    BY <1>4 DEF Crash, TypeOK
  <2> QED
    BY <2>1 DEF EmptyHeap, EmptyCache
<1>5. \/ UNCHANGED cacheVars
      \/ \E p \in Processes : Load(p) \/ DropAllObjects(p) \/ Crash(p)
  BY StepCases DEF processVars, cacheVars, CompileImpossible, CompileCached, CompileMissed,
                   Execute, DropCompiled, Assign
<1> QED
  BY <1>1, <1>2, <1>3, <1>4, <1>5-----------------------------------------------------------------------------
(***************************************************************************)
(* Results.                                                                *)
(***************************************************************************)
\* What a step of process p leaves of the others.
Others(p) ==
    /\ \A q \in Processes \ {p} : result'[q] = result[q] /\ objects'[q] = objects[q]
    /\ \A m \in Models \ ModelsOf(p) :
          compiledModel'[m] = compiledModel[m] /\ circuit'[m] = circuit[m]

\* The results of the other processes stay right.
LEMMA OthersMatch ==
    ASSUME ResultsInv, ResultMatchesModel, ExecutesItsCircuit,
           NEW p \in Processes, Others(p)
    PROVE  \A q \in Processes \ {p} :
              LET m == result'[q].model
              IN  /\ result'[q].kind = "true" =>
                        /\ compiledModel'[m] # Null
                        /\ compiledModel'[m] = objects'[q][Uuid[circuit'[m]]]
                  /\ result'[q].kind \in Failures
                        => compiledModel'[m] = Null
                  /\ result'[q].kind = "executed" => result'[q].with = circuit'[m]
<1> USE DEF Failures
<1> SUFFICES ASSUME NEW q \in Processes \ {p}, result[q].kind # "none"
             PROVE  LET m == result[q].model
                    IN  /\ circuit'[m] = circuit[m]
                        /\ compiledModel'[m] = compiledModel[m]
                        /\ objects'[q] = objects[q] /\ result'[q] = result[q]
  BY DEF Others, ResultMatchesModel, ExecutesItsCircuit
<1>1. result[q].model \in Models \ ModelsOf(p)
  BY DEF ResultsInv, ModelsOf
<1> QED
  BY <1>1 DEF Others

\* What the steps of a process do to its own result.
LEMMA OwnResult ==
    ASSUME TypeOK, BusyInv, FilesInv, PointersInv, CompileableInv, [Next]_vars
    PROVE  \/ UNCHANGED <<circuit, compiledModel, objects, result>>
           \/ \E p \in Processes :
                /\ Others(p)
                /\ LET m == result'[p].model
                   IN  \/ result'[p] = NoResult
                       \/ /\ result'[p].kind = "true"
                          /\ compiledModel'[m] # Null
                          /\ compiledModel'[m] = objects'[p][Uuid[circuit'[m]]]
                       \/ /\ result'[p].kind \in Failures
                          /\ compiledModel'[m] = Null
                       \/ \E n \in ModelsOf(p) : Execute(p, n)
<1> USE DEF Failures
<1> USE NullAssumption, UuidTyped
<1> DEFINE Fine(p) ==
             LET m == result'[p].model
             IN  \/ result'[p] = NoResult
                 \/ /\ result'[p].kind = "true"
                    /\ compiledModel'[m] # Null
                    /\ compiledModel'[m] = objects'[p][Uuid[circuit'[m]]]
                 \/ /\ result'[p].kind \in Failures
                    /\ compiledModel'[m] = Null
                 \/ \E n \in ModelsOf(p) : Execute(p, n)
<1>1. ASSUME UNCHANGED processVars
      PROVE  UNCHANGED <<circuit, compiledModel, objects, result>>
  BY <1>1 DEF processVars, modelVars, cacheVars
<1>2. ASSUME NEW p \in Processes, at[p] \in {"mkdir", "compile", "wait"},
             NEW where \in {"compile", "wait", "load"}, at' = [at EXCEPT ![p] = where],
             UNCHANGED <<modelVars, cacheVars, compiling, result>>
      PROVE  UNCHANGED <<circuit, compiledModel, objects, result>>
  BY <1>2 DEF modelVars, cacheVars
<1>3. ASSUME NEW p \in Processes, at[p] \in {"mkdir", "compile", "wait", "load"},
             NEW kind \in Failures,
             EndCall(p, kind, compiling[p]), UNCHANGED <<modelVars, cacheVars>>
      PROVE  Others(p) /\ Fine(p)
  BY <1>3, BusyModel DEF EndCall, Others, Result, TypeOK, modelVars, cacheVars
<1>4. ASSUME NEW p \in Processes, Load(p)
      PROVE  Others(p) /\ Fine(p)
  <2> DEFINE m == compiling[p]
             u == Uuid[circuit[m]]
  <2>1. PICK a \in Addresses :
           /\ objects' = [objects EXCEPT ![p][u] = a]
           /\ compiledModel' = [compiledModel EXCEPT ![m] = a]
    BY <1>4, Loaded
  <2>2. m \in ModelsOf(p) /\ m \in Models /\ u \in Uuids
    BY <1>4, BusyModel DEF Load, ModelsOf
  <2>3. /\ result' = [result EXCEPT ![p] = Result("true", m)]
        /\ circuit' = circuit
    BY <1>4 DEF Load, EndCall
  <2>4. Others(p)
    BY <2>1, <2>2, <2>3 DEF Others, TypeOK
  <2>5. compiledModel'[m] = a /\ objects'[p][u] = a /\ result'[p] = Result("true", m)
    BY <2>1, <2>2, <2>3 DEF TypeOK
  <2> QED
    BY <2>3, <2>4, <2>5 DEF Result
<1>5. ASSUME NEW p \in Processes, NEW m \in ModelsOf(p), CompileImpossible(p, m)
      PROVE  Others(p) /\ Fine(p)
  <2>1. m \in Models /\ ProcessOf[m] = p
    BY ModelsTyped
  <2>2. compiledModel[m] = Null
    BY <1>5, <2>1 DEF CompileImpossible, PointersInv, CompileableInv, TypeOK
  <2> QED
    BY <1>5, <2>2 DEF CompileImpossible, EndCall, Others, Result, TypeOK, modelVars, cacheVars
<1>6. ASSUME NEW p \in Processes, NEW m \in ModelsOf(p), CompileCached(p, m)
      PROVE  Others(p) /\ Fine(p)
  BY <1>6, ModelsTyped DEF CompileCached, EndCall, Others, Result, TypeOK, cacheVars
<1>7. ASSUME NEW p \in Processes, NEW m \in ModelsOf(p),
             CompileMissed(p, m) \/ DropCompiled(p, m)
      PROVE  Others(p) /\ Fine(p)
  BY <1>7, ModelsTyped DEF CompileMissed, DropCompiled, Others, TypeOK, cacheVars
<1>8. ASSUME NEW p \in Processes, NEW m \in ModelsOf(p), Execute(p, m)
      PROVE  Others(p) /\ Fine(p)
  BY <1>8 DEF Execute, Others, TypeOK, modelVars, cacheVars
<1>9. ASSUME NEW p \in Processes, NEW m \in ModelsOf(p), NEW n \in ModelsOf(p),
             Assign(p, m, n)
      PROVE  Others(p) /\ Fine(p)
  BY <1>9, ModelsTyped DEF Assign, Others, TypeOK, cacheVars
<1>10. ASSUME NEW p \in Processes, DropAllObjects(p)
       PROVE  Others(p) /\ Fine(p)
  BY <1>10 DEF DropAllObjects, Others, TypeOK, modelVars
<1>11. ASSUME NEW p \in Processes, Crash(p)
       PROVE  Others(p) /\ Fine(p)
  BY <1>11 DEF Crash, Others, TypeOK, ModelsOf
<1> HIDE DEF Fine
<1>12. \/ UNCHANGED <<circuit, compiledModel, objects, result>>
       \/ \E p \in Processes : Others(p) /\ Fine(p)
  BY StepCases, <1>1, <1>2, <1>3, <1>4, <1>5, <1>6, <1>7, <1>8, <1>9, <1>10, <1>11
<1> QED
  BY <1>12 DEF Fine

\* An object a model points to computes its circuit.
LEMMA ExecutedRight ==
    ASSUME TypeOK, PointersInv, CacheMatchesHeap,
           NEW p \in Processes, NEW m \in ModelsOf(p), Execute(p, m)
    PROVE  /\ result'[p] = Computed(m, circuit[m])
           /\ circuit' = circuit
<1>1. m \in Models /\ ProcessOf[m] = p
  BY ModelsTyped
<1>2. ASSUME compiledModel[m] # Null
      PROVE  heap[p][compiledModel[m]] = circuit[m]
  <2>1. compiledModel[m] = objects[p][Uuid[circuit[m]]]
    BY <1>1, <1>2 DEF Execute, PointersInv
  <2> QED
    BY <1>1, <1>2, <2>1 DEF CacheMatchesHeap, TypeOK
<1> QED
  BY <1>2 DEF Execute, TypeOK, modelVars

\* Every step keeps what is known of the values returned.
LEMMA ResultStep ==
    ASSUME TypeOK, BusyInv, FilesInv, PointersInv, CompileableInv, ResultsInv,
           CacheExact, ExecutesItsCircuit, [Next]_vars
    PROVE  ResultMatchesModel' /\ ExecutesItsCircuit'
<1> USE DEF Failures
<1>1. CASE UNCHANGED <<circuit, compiledModel, objects, result>>
  BY <1>1 DEF CacheExact, ResultMatchesModel, ExecutesItsCircuit
<1>2. ASSUME NEW p \in Processes, Others(p), result'[p] = NoResult
      PROVE  ResultMatchesModel' /\ ExecutesItsCircuit'
  BY <1>2, OthersMatch DEF CacheExact, ResultMatchesModel, ExecutesItsCircuit, NoResult, Result
<1>3. ASSUME NEW p \in Processes, Others(p),
             LET m == result'[p].model
             IN  \/ /\ result'[p].kind = "true"
                    /\ compiledModel'[m] # Null
                    /\ compiledModel'[m] = objects'[p][Uuid[circuit'[m]]]
                 \/ /\ result'[p].kind \in Failures
                    /\ compiledModel'[m] = Null
      PROVE  ResultMatchesModel' /\ ExecutesItsCircuit'
  BY <1>3, OthersMatch DEF CacheExact, ResultMatchesModel, ExecutesItsCircuit
<1>4. ASSUME NEW p \in Processes, Others(p), NEW m \in ModelsOf(p), Execute(p, m)
      PROVE  ResultMatchesModel' /\ ExecutesItsCircuit'
  <2>1. result'[p] = Computed(m, circuit[m]) /\ circuit' = circuit
    BY <1>4, ExecutedRight DEF CacheExact
  <2>2. /\ result'[p].kind = "executed"
        /\ result'[p].with = circuit'[result'[p].model]
    BY <2>1 DEF Computed
  <2> QED
    BY <1>4, <2>2, OthersMatch DEF CacheExact, ResultMatchesModel, ExecutesItsCircuit
<1> QED
  BY OwnResult, <1>1, <1>2, <1>3, <1>4
-----------------------------------------------------------------------------
(***************************************************************************)
(* The theorems.                                                           *)
(***************************************************************************)
LEMMA InvInit == Init => IInv
<1> SUFFICES ASSUME Init
             PROVE  IInv
  OBVIOUS
<1> USE NullAssumption DEF Init
<1>1. FilesInv /\ JobsInv
  BY DEF FilesInv, JobsInv, NoFile
<1>2. BusyInv /\ ResultsInv /\ ResultMatchesModel /\ ExecutesItsCircuit
  BY DEF BusyInv, ResultsInv, ResultMatchesModel, ExecutesItsCircuit, NoResult, Result
<1>3. CompileableInv /\ PointersInv
  BY UuidTyped, CircuitsAssumption DEF CompileableInv, PointersInv, EmptyCache
<1>4. CacheMatchesHeap
  BY UuidTyped DEF CacheMatchesHeap, EmptyCache, EmptyHeap
<1> QED
  BY <1>1, <1>2, <1>3, <1>4 DEF IInv, CacheExact

\* The inductive invariant, in an application that drops the models' pointers
\* after dropAllObjects: the files, the compilers, the calls that are under
\* way, the maps, the pointers and the results agree, whatever is called,
\* killed or refused by the disk.
THEOREM InvariantCorrect ==
    ASSUME Disciplined
    PROVE  Spec => [](TypeOK /\ IInv)
<1>1. TypeOK /\ IInv /\ [Next]_vars => (TypeOK /\ IInv)'
  BY TypeStep, FilesStep, JobsStep, BusyStep, CompileableStep, PointersStep, ResultsStep,
     HeapStep, ResultStep
     DEF IInv, CacheExact
<1> QED
  BY <1>1, TypeInit, InvInit, PTL DEF Spec

\* The files, the calls under way and the types do not depend on how the
\* application uses dropAllObjects.
THEOREM FilesCorrect ==
    Spec => [](TypeOK /\ FilesInv /\ JobsInv /\ BusyInv /\ CompileableInv)
<1> DEFINE Inv == TypeOK /\ FilesInv /\ JobsInv /\ BusyInv /\ CompileableInv
<1>1. Init => Inv
  BY TypeInit, InvInit DEF IInv
<1>2. Inv /\ [Next]_vars => Inv'
  BY TypeStep, FilesStep, JobsStep, BusyStep, CompileableStep
<1> QED
  BY <1>1, <1>2, PTL DEF Spec

\* Every spectrum is computed from the circuit of the model it was asked of,
\* compiled or not: never through a pointer to an object that is freed or that
\* is another circuit's.
THEOREM ExecutionCorrect ==
    ASSUME Disciplined
    PROVE  Spec => []ExecutesItsCircuit
  BY InvariantCorrect, PTL DEF IInv

\* Map, heap, pointers and the values returned by compile agree.
THEOREM CacheCorrect ==
    ASSUME Disciplined
    PROVE  Spec => []CacheExact
  BY InvariantCorrect, PTL DEF IInv
\* No circuit is compiled that the process has in its cache, and an object in
\* the cache is never replaced by another one: only dropAllObjects and the end
\* of the process take it out.
THEOREM OnceCorrect == Spec => [][CompiledOnce]_vars
<1> DEFINE Inv == TypeOK /\ FilesInv /\ JobsInv /\ BusyInv /\ CompileableInv
<1>1. Inv /\ [Next]_vars => [CompiledOnce]_vars
  <2> SUFFICES ASSUME Inv, Next, NEW p \in Processes
               PROVE  /\ phase[Child(p)] = "none" /\ phase'[Child(p)] = "reading"
                           => objects[p][Uuid[job'[Child(p)]]] = Null
                      /\ \A u \in Uuids :
                           objects[p][u] # Null => objects'[p][u] \in {objects[p][u], Null}
    BY DEF CompiledOnce
  <2>1. ASSUME phase[Child(p)] = "none", phase'[Child(p)] = "reading"
        PROVE  objects[p][Uuid[job'[Child(p)]]] = Null
    <3> USE WritersApart
    <3>1. ASSUME NEW q \in Processes, StartCompiler(q)
          PROVE  objects[p][Uuid[job'[Child(p)]]] = Null
      BY <2>1, <3>1, BusyModel DEF StartCompiler, TypeOK
    <3>2. ASSUME NEW q \in Processes,
                 CompilerFailed(q) \/ CompilerSucceeded(q) \/ OrphanEnds(q) \/ Crash(q) \/ CollectInterrupted(q)
          PROVE  FALSE
      BY <2>1, <3>2 DEF CompilerFailed, CompilerSucceeded, Collect, OrphanEnds, Crash,
                        CollectInterrupted, Abandon, TypeOK
    <3>3. ASSUME NEW w \in Writers, CompilerStep(w)
          PROVE  FALSE
      BY <2>1, <3>3 DEF CompilerStep, CreateOutput, FinishOutput, FailOutput, TypeOK
    <3>4. ~UNCHANGED compilerVars
      BY <2>1 DEF compilerVars
    <3>5. \/ UNCHANGED compilerVars
          \/ \E q \in Processes :
               \/ StartCompiler(q) \/ CompilerFailed(q) \/ CompilerSucceeded(q)
               \/ OrphanEnds(q) \/ Crash(q) \/ CollectInterrupted(q)
          \/ \E w \in Writers : CompilerStep(w)
      BY DEF Next, CompileStep, Call, CreateDirectory, CreateDirectoryFails, StartFails, Load, LoadFails,
             CompileImpossible, CompileCached, CompileMissed, Execute, DropCompiled, Assign,
             DropAllObjects
    <3> QED
      BY <3>1, <3>2, <3>3, <3>4, <3>5
  <2>2. ASSUME NEW u \in Uuids, objects[p][u] # Null
        PROVE  objects'[p][u] \in {objects[p][u], Null}
    <3>1. CASE UNCHANGED cacheVars
      BY <3>1 DEF cacheVars
    <3>2. ASSUME NEW q \in Processes, Load(q)
          PROVE  objects'[p][u] \in {objects[p][u], Null}
      <4>1. PICK a \in Addresses :
               objects' = [objects EXCEPT ![q][Uuid[circuit[compiling[q]]]] = a]
        BY <3>2, Loaded
      <4>2. objects[q][Uuid[circuit[compiling[q]]]] = Null
        BY <3>2, BusyModel DEF Load
      <4> QED
        BY <2>2, <4>1, <4>2 DEF TypeOK
    <3>3. ASSUME NEW q \in Processes, DropAllObjects(q) \/ Crash(q)
          PROVE  objects'[p][u] \in {objects[p][u], Null}
      <4>1. objects' = [objects EXCEPT ![q] = EmptyCache]
        BY <3>3 DEF DropAllObjects, Crash
      <4> QED
        BY <4>1 DEF EmptyCache, TypeOK
    <3>4. \/ UNCHANGED cacheVars
          \/ \E q \in Processes : Load(q) \/ DropAllObjects(q) \/ Crash(q)
      BY StepCases DEF processVars, cacheVars, CompileImpossible, CompileCached,
                       CompileMissed, Execute, DropCompiled, Assign
    <3> QED
      BY <3>1, <3>2, <3>3, <3>4
  <2> QED
    BY <2>1, <2>2
<1> QED
  BY <1>1, FilesCorrect, PTL DEF Spec

\* Map, heap, pointers and results agree, and what is in the map is used instead
\* of compiling the circuit again.
THEOREM CacheKeptCorrect ==
    ASSUME Disciplined
    PROVE  Spec => CacheKept
  BY CacheCorrect, OnceCorrect, PTL DEF CacheKept
-----------------------------------------------------------------------------
(***************************************************************************)
(* A process that has the directory to itself.                             *)
(***************************************************************************)
\* Its compiler is there while it waits, has the circuit that is compiled, and
\* finds its own file; the directory is made after it has been looked for.
AloneInv ==
    \A p \in Processes :
        /\ phase[Orphan(p)] = "none"
        /\ phase[Child(p)] # "none" => at[p] = "wait"
        /\ at[p] = "wait" => job[Child(p)] = circuit[compiling[p]]
        /\ phase[Child(p)] = "writing" => so[Uuid[job[Child(p)]]] = FileBy(Child(p))
        /\ phase[Child(p)] = "ok" => so[Uuid[job[Child(p)]]].content \in Circuits
        /\ at[p] = "load" => so[Uuid[circuit[compiling[p]]]].content \in Circuits
        /\ at[p] = "mkdir" => ~dir
        /\ result[p].kind # "threwNotLoaded"
        /\ result[p].kind = "threwNoDirectory" => ~dir

\* Every step keeps what is known of a process that is alone.
LEMMA AloneStep ==
    ASSUME TypeOK, BusyInv, JobsInv, FilesInv, AloneInv, [Next]_vars,
           ~CrashesHappen, ~Signals, NEW p, Processes = {p}
    PROVE  AloneInv'
<1> USE NullAssumption, WritersApart
<1> USE DEF AloneInv
<1> DEFINE w == Child(p)
<1>1. p \in Processes /\ w \in Writers /\ Writers = {w, Orphan(p)}
  BY DEF Writers, Child, Orphan
<1>2. CASE UNCHANGED vars
  BY <1>2 DEF vars, modelVars, fileVars, compilerVars
<1>3. CASE CreateDirectory(p)
  BY <1>1, <1>3, BusyModel DEF CreateDirectory, TypeOK, NoResult, Result, modelVars, compilerVars
<1>4. CASE CreateDirectoryFails(p)
  BY <1>1, <1>4 DEF CreateDirectoryFails, EndCall, TypeOK, Result, modelVars, fileVars,
                    compilerVars
<1>18. CASE StartFails(p)
  BY <1>1, <1>18 DEF StartFails, EndCall, TypeOK, Result, modelVars, fileVars, compilerVars
<1>5. CASE StartCompiler(p)
  BY <1>1, <1>5 DEF StartCompiler, TypeOK, modelVars, fileVars
<1>6. CASE CompilerFailed(p)
  BY <1>1, <1>6 DEF CompilerFailed, Collect, EndCall, TypeOK, Result, modelVars, fileVars
<1>7. CASE CompilerSucceeded(p)
  BY <1>1, <1>7 DEF CompilerSucceeded, Collect, TypeOK, modelVars, fileVars
<1>8. CASE Load(p)
  <2>1. /\ at[p] = "load" /\ at' = [at EXCEPT ![p] = "idle"]
        /\ result' = [result EXCEPT ![p] = Result("true", compiling[p])]
        /\ UNCHANGED <<fileVars, compilerVars>>
    BY <1>8 DEF Load, EndCall
  <2> QED
    BY <1>1, <2>1 DEF TypeOK, Result, fileVars, compilerVars
<1>9. CASE LoadFails(p)
  BY <1>1, <1>9 DEF LoadFails
<1>10. ASSUME NEW m \in ModelsOf(p), CompileImpossible(p, m) \/ CompileCached(p, m)
       PROVE  AloneInv'
  <2>1. \E kind \in {"false", "true"} :
           /\ at[p] = "idle" /\ at' = [at EXCEPT ![p] = "idle"]
           /\ result' = [result EXCEPT ![p] = Result(kind, m)]
           /\ UNCHANGED <<fileVars, compilerVars>>
    BY <1>10 DEF CompileImpossible, CompileCached, EndCall
  <2> QED
    BY <1>1, <2>1 DEF TypeOK, Result, fileVars, compilerVars
<1>11. ASSUME NEW m \in ModelsOf(p), CompileMissed(p, m)
       PROVE  AloneInv'
  BY <1>1, <1>11 DEF CompileMissed, TypeOK, NoResult, Result, fileVars, compilerVars
<1>12. ASSUME at[p] \in {"idle", "drop"}, at'[p] \in {"idle", "drop"},
              result'[p].kind \in {"none", "executed"}, UNCHANGED <<fileVars, compilerVars>>
       PROVE  AloneInv'
  BY <1>1, <1>12 DEF fileVars, compilerVars
<1>13. ASSUME NEW m \in ModelsOf(p), Execute(p, m) \/ DropCompiled(p, m)
       PROVE  AloneInv'
  BY <1>1, <1>12, <1>13 DEF Execute, DropCompiled, Computed, NoResult, Result, TypeOK
<1>14. ASSUME NEW m \in ModelsOf(p), NEW n \in ModelsOf(p), Assign(p, m, n)
       PROVE  AloneInv'
  BY <1>1, <1>12, <1>14 DEF Assign, NoResult, Result, TypeOK
<1>15. CASE DropAllObjects(p)
  BY <1>1, <1>12, <1>15 DEF DropAllObjects, NoResult, Result, TypeOK
<1>16. ~Crash(p) /\ ~OrphanEnds(p) /\ ~CollectInterrupted(p)
  BY <1>1 DEF Crash, OrphanEnds, CollectInterrupted
<1>17. ASSUME NEW v \in Writers, CompilerStep(v)
       PROVE  AloneInv'
  <2>1. v = w /\ phase[w] \in {"reading", "writing"}
    BY <1>1, <1>17 DEF CompilerStep, CreateOutput, FinishOutput, FailOutput
  <2>2. job[w] \in Circuits /\ job[w] # Null /\ Uuid[job[w]] \in Uuids /\ at[p] = "wait"
    BY <1>1, <2>1, JobTyped
  <2>3. CASE CreateOutput(w)
    BY <1>1, <2>2, <2>3 DEF CreateOutput, TypeOK, modelVars
  <2>4. CASE FinishOutput(w)
    <3>1. Outputs(w) = {job[w]}
      BY DEF Outputs, Child
    <3> QED
      BY <1>1, <2>2, <2>4, <3>1 DEF FinishOutput, Written, TypeOK, modelVars
  <2>5. CASE FailOutput(w)
    BY <1>1, <2>2, <2>5 DEF FailOutput, TypeOK, modelVars
  <2> QED
    BY <1>17, <2>1, <2>3, <2>4, <2>5 DEF CompilerStep
<1> QED
  BY <1>1, <1>2, <1>3, <1>4, <1>5, <1>6, <1>7, <1>8, <1>9, <1>10, <1>11, <1>13, <1>14,
     <1>15, <1>16, <1>17, <1>18
     DEF Next, CompileStep, Call

\* A process that is alone in the directory, is not killed and handles no
\* signals loads the file that its compiler has just finished, and finds the
\* directory missing only if the disk fails.
THEOREM AloneCorrect ==
    ASSUME IsFiniteSet(Processes)
    PROVE  Spec => []AloneLoadsItsFile
<1>1. CASE Cardinality(Processes) = 1 /\ ~CrashesHappen /\ ~Signals
  <2>1. PICK p : Processes = {p}
    BY <1>1, FS_Singleton
  <2>2. Init => AloneInv
    <3> SUFFICES ASSUME Init, NEW q \in Processes
                 PROVE  /\ phase[Orphan(q)] = "none" /\ phase[Child(q)] = "none"
                        /\ at[q] = "idle" /\ result[q].kind = "none"
      BY DEF AloneInv
    <3> QED
      BY WritersApart DEF Init, NoResult, Result
  <2>3. TypeOK /\ FilesInv /\ JobsInv /\ BusyInv /\ CompileableInv /\ AloneInv /\ [Next]_vars
           => AloneInv'
    BY <1>1, <2>1, AloneStep
  <2>4. AloneInv => AloneLoadsItsFile
    BY DEF AloneInv, AloneLoadsItsFile
  <2> QED
    BY <2>2, <2>3, <2>4, FilesCorrect, PTL DEF Spec
<1>2. CASE ~(Cardinality(Processes) = 1 /\ ~CrashesHappen /\ ~Signals)
  <2>1. AloneLoadsItsFile
    BY <1>2 DEF AloneLoadsItsFile
  <2> QED
    BY <2>1, PTL
<1> QED
  BY <1>1, <1>2
-----------------------------------------------------------------------------
(***************************************************************************)
(* Several processes at work on the same files.                            *)
(***************************************************************************)
\* A compiler that is left to itself keeps what it is writing.
LEMMA AbandonWriters ==
    ASSUME TypeOK, JobsInv, WritersInv, NEW p \in Processes, Abandon(p)
    PROVE  \A w \in Writers, u \in Uuids :
              so'[u] = FileBy(w) => phase'[w] = "writing" /\ Uuid[job'[w]] = u
<1> USE WritersApart, NullAssumption DEF TypeOK
<1> SUFFICES ASSUME NEW w \in Writers, NEW u \in Uuids, so'[u] = FileBy(w)
             PROVE  phase'[w] = "writing" /\ Uuid[job'[w]] = u
  OBVIOUS
<1>1. phase[Orphan(p)] = "none"
  BY DEF Abandon, JobsInv
<1>2. CASE so[u].writer = Child(p)
  <2>1. so'[u].writer = Orphan(p) /\ so'[u].content = so[u].content
    BY <1>2 DEF Abandon
  <2>2. w = Orphan(p) /\ so[u].content = Null
    BY <2>1 DEF FileBy
  <2>3. so[u] = FileBy(Child(p))
    BY <1>2, <2>2 DEF FileBy
  <2>4. phase[Child(p)] = "writing" /\ Uuid[job[Child(p)]] = u
    BY <2>3 DEF WritersInv
  <2> QED
    BY <2>2, <2>4 DEF Abandon
<1>3. CASE so[u].writer # Child(p)
  <2>1. so[u] = FileBy(w) /\ w # Child(p)
    BY <1>3 DEF Abandon, FileBy
  <2>2. phase[w] = "writing" /\ Uuid[job[w]] = u
    BY <2>1 DEF WritersInv
  <2>3. w # Orphan(p)
    BY <1>1, <2>2
  <2> QED
    BY <2>1, <2>2, <2>3 DEF Abandon
<1> QED
  BY <1>2, <1>3

\* A process with a compiler waits for it.
LEMMA WaitingStep ==
    ASSUME TypeOK, WritersInv, [Next]_vars, NEW p \in Processes, phase'[Child(p)] # "none"
    PROVE  at'[p] = "wait"
<1> USE WritersApart DEF TypeOK, WritersInv
<1>1. ASSUME NEW q \in Processes, CompileStep(q)
      PROVE  at'[p] = "wait"
  <2> USE <1>1 DEF CompileStep
  <2>1. CASE CompilerFailed(q) \/ CompilerSucceeded(q)
    <3>1. phase'[Child(q)] = "none" /\ \A r \in Processes \ {q} :
             phase'[Child(r)] = phase[Child(r)] /\ at'[r] = at[r]
      BY <1>1, <2>1 DEF CompilerFailed, CompilerSucceeded, Collect, EndCall
    <3> QED
      BY <3>1
  <2>2. CASE StartCompiler(q)
    BY <2>2 DEF StartCompiler
  <2>3. CASE \/ CreateDirectory(q) \/ CreateDirectoryFails(q) \/ StartFails(q) \/ Load(q)
             \/ LoadFails(q)
    BY <2>3 DEF CreateDirectory, CreateDirectoryFails, StartFails, Load, LoadFails, EndCall,
                compilerVars
  <2> QED
    BY <2>1, <2>2, <2>3
<1>2. ASSUME NEW q \in Processes, Call(q)
      PROVE  at'[p] = "wait"
  BY <1>2 DEF Call, CompileImpossible, CompileCached, CompileMissed, Execute, DropCompiled,
              Assign, DropAllObjects, EndCall, compilerVars
<1>3. ASSUME NEW q \in Processes, CollectInterrupted(q) \/ Crash(q)
      PROVE  at'[p] = "wait"
  BY <1>3 DEF CollectInterrupted, Crash, Abandon, EndCall
<1>4. ASSUME NEW q \in Processes, OrphanEnds(q)
      PROVE  at'[p] = "wait"
  BY <1>4 DEF OrphanEnds
<1>5. ASSUME NEW w \in Writers, CompilerStep(w)
      PROVE  at'[p] = "wait"
  BY <1>5 DEF CompilerStep, CreateOutput, FinishOutput, FailOutput
<1>6. CASE UNCHANGED vars
  BY <1>6 DEF vars, compilerVars
<1> QED
  BY <1>1, <1>2, <1>3, <1>4, <1>5, <1>6 DEF Next

\* compile throws that it cannot load only when it has tried.
LEMMA ThrowsOnlyThere ==
    ASSUME TypeOK, Next, NEW p \in Processes, at[p] = "load",
           result'[p].kind = "threwNotLoaded", result[p] = NoResult
    PROVE  LoadFails(p)
<1> USE DEF TypeOK, Result, NoResult
<1>1. result'[p] # result[p]
  OBVIOUS
<1>2. ASSUME NEW q \in Processes, CompileStep(q)
      PROVE  LoadFails(p)
  BY <1>1, <1>2 DEF CompileStep, CreateDirectory, CreateDirectoryFails, StartFails,
                    StartCompiler, CompilerFailed, CompilerSucceeded, Load, LoadFails, EndCall
<1>3. ASSUME NEW q \in Processes, Call(q)
      PROVE  FALSE
  BY <1>1, <1>3 DEF Call, CompileImpossible, CompileCached, CompileMissed, Execute, Computed,
                    DropCompiled, Assign, DropAllObjects, EndCall
<1>4. ASSUME NEW q \in Processes, CollectInterrupted(q) \/ Crash(q) \/ OrphanEnds(q)
      PROVE  FALSE
  BY <1>1, <1>4 DEF CollectInterrupted, Crash, OrphanEnds, EndCall
<1>5. ASSUME NEW w \in Writers, CompilerStep(w)
      PROVE  FALSE
  BY <1>1, <1>5 DEF CompilerStep, CreateOutput, FinishOutput, FailOutput
<1> QED
  BY <1>2, <1>3, <1>4, <1>5 DEF Next

\* Every step keeps what is known of the files that are being written.
LEMMA WritersStep ==
    ASSUME TypeOK, JobsInv, WritersInv, [Next]_vars
    PROVE  WritersInv'
<1> DEFINE Owned == \A w \in Writers, u \in Uuids :
                        so[u] = FileBy(w) => phase[w] = "writing" /\ Uuid[job[w]] = u
<1>0. Owned /\ \A p \in Processes : phase[Child(p)] # "none" => at[p] = "wait"
  BY DEF WritersInv
<1> SUFFICES Owned'
  BY WaitingStep DEF WritersInv
<1> USE WritersApart
<1>1. CASE UNCHANGED <<fileVars, compilerVars>>
  BY <1>0, <1>1 DEF fileVars, compilerVars
<1>2. ASSUME NEW p \in Processes, StartCompiler(p) \/ CompilerFailed(p)
                                  \/ CompilerSucceeded(p)
      PROVE  Owned'
  <2>1. phase[Child(p)] # "writing" /\ so' = so
    BY <1>0, <1>2 DEF StartCompiler, CompilerFailed, CompilerSucceeded, fileVars
  <2>2. \A w \in Writers \ {Child(p)} : phase'[w] = phase[w] /\ job'[w] = job[w]
    BY <1>2 DEF StartCompiler, CompilerFailed, CompilerSucceeded, Collect, TypeOK
  <2> QED
    BY <1>0, <2>1, <2>2
<1>3. ASSUME NEW p \in Processes, OrphanEnds(p)
      PROVE  Owned'
  <2>1. phase[Orphan(p)] # "writing" /\ so' = so
    BY <1>3 DEF OrphanEnds, fileVars
  <2>2. \A w \in Writers \ {Orphan(p)} : phase'[w] = phase[w] /\ job'[w] = job[w]
    BY <1>3 DEF OrphanEnds, TypeOK
  <2> QED
    BY <1>0, <2>1, <2>2
<1>4. ASSUME NEW p \in Processes, CollectInterrupted(p) \/ Crash(p)
      PROVE  Owned'
  BY <1>4, AbandonWriters DEF CollectInterrupted, Crash
<1>5. ASSUME NEW v \in Writers, CreateOutput(v)
      PROVE  Owned'
  BY <1>0, <1>5, JobTyped DEF CreateOutput, FileBy, TypeOK
<1>6. ASSUME NEW v \in Writers, FinishOutput(v)
      PROVE  Owned'
  <2>1. /\ job[v] \in Circuits /\ job[v] # Null /\ Uuid[job[v]] \in Uuids
        /\ phase[v] = "writing" /\ job' = job /\ phase' = [phase EXCEPT ![v] = "ok"]
    BY <1>6, JobTyped DEF FinishOutput
  <2>2. PICK c \in Outputs(v) :
           so' = [so EXCEPT ![Uuid[job[v]]] = IF @ = FileBy(v) THEN Written(v, c) ELSE @]
    BY <1>6 DEF FinishOutput
  <2>3. c # Null
    BY <2>1, TruncatedAssumption DEF Outputs
  <2>4. ASSUME NEW w \in Writers, NEW u \in Uuids, so'[u] = FileBy(w)
        PROVE  so[u] = FileBy(w) /\ w # v
    <3>1. CASE u = Uuid[job[v]] /\ so[u] = FileBy(v)
      <4>1. so'[u] = Written(v, c)
        BY <2>2, <3>1 DEF TypeOK
      <4> QED
        BY <2>3, <2>4, <4>1 DEF Written, FileBy
    <3>2. CASE ~(u = Uuid[job[v]] /\ so[u] = FileBy(v))
      <4>1. so'[u] = so[u]
        BY <2>2, <3>2 DEF TypeOK
      <4> QED
        BY <1>0, <2>4, <3>2, <4>1
    <3> QED
      BY <3>1, <3>2
  <2> QED
    BY <1>0, <2>1, <2>4 DEF TypeOK
<1>7. ASSUME NEW v \in Writers, FailOutput(v)
      PROVE  Owned'
  BY <1>0, <1>7, JobTyped, NullWriter DEF FailOutput, FileBy, NoFile, TypeOK
<1>8. \/ UNCHANGED <<fileVars, compilerVars>>
      \/ \E p \in Processes :
           \/ StartCompiler(p) \/ CompilerFailed(p) \/ CompilerSucceeded(p)
           \/ OrphanEnds(p) \/ CollectInterrupted(p) \/ Crash(p)
           \/ CreateDirectory(p)
      \/ \E w \in Writers : CompilerStep(w)
  BY DEF Next, vars, CompileStep, Call, CreateDirectoryFails, StartFails, Load, LoadFails,
         CompileImpossible, CompileCached, CompileMissed, Execute, DropCompiled, Assign,
         DropAllObjects
<1>9. ASSUME NEW p \in Processes, CreateDirectory(p)
      PROVE  Owned'
  BY <1>0, <1>9 DEF CreateDirectory, compilerVars
<1> QED
  BY <1>1, <1>2, <1>3, <1>4, <1>5, <1>6, <1>7, <1>8, <1>9 DEF CompilerStep

\* Whatever the other processes, crashes and signals do, the file that a process
\* cannot load after its compiler has ended well is another compiler's, or none,
\* or was made from a part of the code.
THEOREM LoadCorrect == Spec => LoadsItsFile
<1> DEFINE Inv == TypeOK /\ FilesInv /\ JobsInv /\ BusyInv /\ CompileableInv
           Own == \A p \in Processes :
                    LET file == so[Uuid[circuit[compiling[p]]]]
                    IN  at[p] = "load" /\ result'[p].kind = "threwNotLoaded" =>
                            file.writer # Child(p) \/ file.content = Truncated
<1>1. Init => WritersInv
  <2>1. Init => \A w \in Writers, u \in Uuids : so[u] # FileBy(w)
    BY NullWriter DEF Init, NoFile, FileBy
  <2> QED
    BY <2>1, WritersApart DEF Init, WritersInv
<1>2. Inv /\ WritersInv /\ [Next]_vars => WritersInv'
  BY WritersStep
<1>3. Inv /\ WritersInv /\ [Next]_vars => [Own]_vars
  <2> SUFFICES ASSUME Inv, WritersInv, Next, NEW p \in Processes,
                      at[p] = "load", result'[p].kind = "threwNotLoaded",
                      so[Uuid[circuit[compiling[p]]]].writer = Child(p)
               PROVE  so[Uuid[circuit[compiling[p]]]].content = Truncated
    OBVIOUS
  <2> DEFINE u == Uuid[circuit[compiling[p]]]
  <2>1. u \in Uuids /\ result[p] = NoResult
    BY BusyModel
  <2>2. so[u].content # Null
    <3>1. phase[Child(p)] # "writing"
      BY WritersApart DEF WritersInv
    <3>2. so[u] # FileBy(Child(p))
      BY <2>1, <3>1, WritersApart DEF WritersInv
    <3> QED
      BY <2>1, <3>2 DEF TypeOK, FileBy
  <2>3. so[u].content \notin Circuits
    <3>1. LoadFails(p)
      BY <2>1, ThrowsOnlyThere
    <3> QED
      BY <3>1 DEF LoadFails
  <2> QED
    BY <2>1, <2>2, <2>3 DEF TypeOK, Programs
<1> QED
  BY <1>1, <1>2, <1>3, FilesCorrect, PTL DEF LoadsItsFile, Spec
-----------------------------------------------------------------------------
(***************************************************************************)
(* compile_code and the compiler it starts (CompilePipe).                  *)
(***************************************************************************)
\* The constants of a call are of their types.
LEMMA SizesTyped ==
    /\ MaxCalls \in Nat /\ CodeSize \in Nat /\ Capacity \in Nat /\ MaxOutput \in Nat
    /\ MaxCalls # 0 /\ CodeSize # 0 /\ Capacity # 0
  BY SizesAssumption

\* The ends of a call are different descriptors, none of them a standard one.
LEMMA EndsApart ==
    ASSUME NEW k
    PROVE  /\ Ends(k) = {InRead(k), InWrite(k), OutRead(k), OutWrite(k)}
           /\ InRead(k) # InWrite(k) /\ InRead(k) # OutRead(k) /\ InRead(k) # OutWrite(k)
           /\ InWrite(k) # OutRead(k) /\ InWrite(k) # OutWrite(k) /\ OutRead(k) # OutWrite(k)
           /\ k # 0 => {Stdin, Stdout, Stderr} \cap Ends(k) = {}
  BY DEF Ends, InRead, InWrite, OutRead, OutWrite, Stdin, Stdout, Stderr

\* The ends of a call are among the descriptors that exist.
LEMMA EndsTyped == \A k \in 1..MaxCalls : Ends(k) \subseteq AllEnds
  BY DEF AllEnds

\* The application starts in the invariant.
LEMMA PipeInvInit == PipeInit => PipeTypeOK /\ PipeInv
  BY SizesTyped DEF PipeInit, PipeTypeOK, PipeInv, CallInv, FdsInv, CodeInv

\* Types.
LEMMA PipeTypeStep ==
    ASSUME PipeTypeOK, CallInv, CodeInv, [PipeNext]_callVars
    PROVE  PipeTypeOK'
<1> USE SizesTyped, EndsTyped
<1>1. CASE UNCHANGED callVars
  BY <1>1 DEF callVars, callerVars, childVars, pipeVars, PipeTypeOK
<1>2. CASE Begin
  BY <1>2 DEF Begin, PipeTypeOK
<1> USE DEF callerVars, childVars, pipeVars
<1>3. CASE MakePipes
  <2>1. Ends(call) \subseteq AllEnds
    BY <1>3 DEF MakePipes, CallInv
  <2> QED
    BY <1>3, <2>1 DEF MakePipes, PipeTypeOK
<1>4. CASE PipeFails
  <2>1. {InRead(call), InWrite(call)} \subseteq AllEnds
    BY <1>4, EndsApart DEF PipeFails, CallInv
  <2> QED
    BY <1>4, <2>1 DEF PipeFails, PipeTypeOK
<1>5. CASE Fork \/ ForkFail
  BY <1>5 DEF Fork, ForkFail, PipeTypeOK
<1>6. CASE CloseChildsEnds
  BY <1>6 DEF CloseChildsEnds, PipeTypeOK
<1>7. CASE WriteCode
  BY <1>7 DEF WriteCode, PipeTypeOK, CallInv
<1>8. CASE KilledBySigpipe \/ WriteFails
  BY <1>8 DEF KilledBySigpipe, WriteFails, PipeTypeOK
<1>9. CASE ReadOutput \/ ReadEnd \/ Wait
  <2>1. CASE ReadOutput
    BY <2>1 DEF ReadOutput, PipeTypeOK
  <2>2. CASE ReadEnd
    BY <2>2 DEF ReadEnd, PipeTypeOK
  <2>3. CASE Wait
    BY <2>3 DEF Wait, PipeTypeOK
  <2> QED
    BY <1>9, <2>1, <2>2, <2>3
<1>16. CASE Interrupt
  BY <1>16 DEF Interrupt, WriteInterrupted, ReadInterrupted, WaitInterrupted, PipeTypeOK
<1>10. CASE Redirect
  BY <1>10 DEF Redirect, PipeTypeOK
<1>11. CASE Exec \/ ExecFail
  <2>1. CASE Exec
    BY <2>1 DEF Exec, PipeTypeOK
  <2>2. CASE ExecFail
    BY <2>2 DEF ExecFail, ExitWith, PipeTypeOK
  <2> QED
    BY <1>11, <2>1, <2>2
<1>12. CASE CompilerReads
  BY <1>12 DEF CompilerReads, PipeTypeOK, CodeInv
<1>13. CASE CompilerReadsEnd \/ CompilerGivesUp
  <2>1. CASE CompilerReadsEnd
    BY <2>1 DEF CompilerReadsEnd, PipeTypeOK
  <2>2. CASE CompilerGivesUp
    BY <2>2 DEF CompilerGivesUp, PipeTypeOK
  <2> QED
    BY <1>13, <2>1, <2>2
<1>14. CASE CompilerPrints
  BY <1>14 DEF CompilerPrints, PipeTypeOK
<1>15. CASE CompilerExits \/ CompilerKilled
  <2>1. CASE CompilerExits
    BY <2>1 DEF CompilerExits, ExitWith, PipeTypeOK
  <2>2. CASE CompilerKilled
    BY <2>2 DEF CompilerKilled, ExitWith, PipeTypeOK
  <2> QED
    BY <1>15, <2>1, <2>2
<1> QED
  BY <1>1, <1>2, <1>3, <1>4, <1>5, <1>6, <1>7, <1>8, <1>9, <1>10, <1>11, <1>12, <1>13,
     <1>14, <1>15, <1>16 DEF PipeNext, CallerStep, ChildStep
-----------------------------------------------------------------------------
\* Every step of caller and child keeps the invariant.
LEMMA PipeInvStep ==
    ASSUME PipeTypeOK, PipeInv, [PipeNext]_callVars
    PROVE  PipeInv'
<1> USE SizesTyped
<1> USE DEF PipeInv, CallInv, FdsInv, CodeInv
<1>1. CASE UNCHANGED callVars
  BY <1>1 DEF callVars, callerVars, childVars, pipeVars
<1>2. CASE Begin
  BY <1>2 DEF Begin, PipeTypeOK
<1> USE DEF callerVars, childVars, pipeVars
<1>3. CASE MakePipes \/ PipeFails
  BY <1>3 DEF MakePipes, PipeFails, PipeTypeOK
<1>4. CASE Fork
  BY <1>4, EndsApart DEF Fork, PipeTypeOK
<1>5. CASE ForkFail
  BY <1>5 DEF ForkFail, PipeTypeOK
<1>6. CASE CloseChildsEnds
  <2>1. fds' \cap Ends(call) \subseteq {InWrite(call), OutRead(call)}
    BY <1>6, EndsApart DEF CloseChildsEnds
  <2>2. InWrite(call) \in fds => InWrite(call) \in fds'
    BY <1>6, EndsApart DEF CloseChildsEnds
  <2> QED
    BY <1>6, <2>1, <2>2 DEF CloseChildsEnds, PipeTypeOK
<1>7. CASE WriteCode
  BY <1>7, EndsApart DEF WriteCode, PipeTypeOK
<1>8. ASSUME ~InReaders
      PROVE  child \notin {"forked", "exec", "reading"}
  BY <1>8 DEF InReaders
<1>9. CASE KilledBySigpipe \/ WriteFails
  BY <1>8, <1>9, EndsApart DEF KilledBySigpipe, WriteFails, PipeTypeOK
<1>10. CASE ReadOutput \/ ReadEnd \/ Wait
  BY <1>10, EndsApart DEF ReadOutput, ReadEnd, Wait, PipeTypeOK
<1>18. CASE Interrupt
  <2>1. CASE WriteInterrupted
    BY <2>1, EndsApart DEF WriteInterrupted, PipeTypeOK
  <2>2. CASE ReadInterrupted
    BY <2>2, EndsApart DEF ReadInterrupted, PipeTypeOK
  <2>3. CASE WaitInterrupted
    BY <2>3 DEF WaitInterrupted, PipeTypeOK
  <2> QED
    BY <1>18, <2>1, <2>2, <2>3 DEF Interrupt
<1>11. CASE Redirect
  BY <1>11 DEF Redirect, Ends, InRead, InWrite, OutRead, OutWrite, Stdin, PipeTypeOK
<1>12. CASE Exec \/ ExecFail
  <2>1. CASE Exec
    BY <2>1 DEF Exec, PipeTypeOK
  <2>2. CASE ExecFail
    BY <2>2 DEF ExecFail, ExitWith, PipeTypeOK
  <2> QED
    BY <1>12, <2>1, <2>2
<1>13. CASE CompilerReads
  BY <1>13 DEF CompilerReads, PipeTypeOK
<1>14. CASE CompilerReadsEnd
  BY <1>14 DEF CompilerReadsEnd, InWriters, PipeTypeOK
<1>15. CASE CompilerGivesUp
  BY <1>15 DEF CompilerGivesUp, PipeTypeOK
<1>16. CASE CompilerPrints
  BY <1>16 DEF CompilerPrints, PipeTypeOK
<1>17. CASE CompilerExits \/ CompilerKilled
  <2>1. CASE CompilerExits
    BY <2>1 DEF CompilerExits, ExitWith, PipeTypeOK
  <2>2. CASE CompilerKilled
    BY <2>2 DEF CompilerKilled, ExitWith, PipeTypeOK
  <2> QED
    BY <1>17, <2>1, <2>2
<1> QED
  BY <1>1, <1>2, <1>3, <1>4, <1>5, <1>6, <1>7, <1>9, <1>10, <1>11, <1>12, <1>13,
     <1>14, <1>15, <1>16, <1>17, <1>18 DEF PipeNext, CallerStep, ChildStep
-----------------------------------------------------------------------------
\* The inductive invariant: every variable keeps its type, and caller, child,
\* descriptors and what is in the pipe to the compiler agree.
THEOREM PipeInvariantCorrect == PipeSpec => [](PipeTypeOK /\ PipeInv)
<1>1. PipeTypeOK /\ PipeInv /\ [PipeNext]_callVars => (PipeTypeOK /\ PipeInv)'
  BY PipeTypeStep, PipeInvStep DEF PipeInv
<1> QED
  BY <1>1, PipeInvInit, PTL DEF PipeSpec

\* A call of compile_code that returns a status has closed every descriptor it
\* opened and collected its child, unless a signal interrupted the wait.
THEOREM NothingLeft == PipeSpec => []NothingLeftBehind
<1>1. PipeTypeOK /\ PipeInv => NothingLeftBehind
  BY DEF PipeInv, CallInv, FdsInv, NothingLeftBehind
<1> QED
  BY <1>1, PipeInvariantCorrect, PTL

\* Unless a signal interrupted the wait, compile_code returns 0 only for a
\* compiler that has exited with 0 and has read all that was written; and that
\* is all of the code unless a signal interrupted the write.
THEOREM ZeroCorrect == PipeSpec => []ZeroMeansCompiled
<1>1. PipeTypeOK /\ PipeInv => ZeroMeansCompiled
  BY SizesTyped DEF PipeInv, CallInv, CodeInv, ZeroMeansCompiled, PipeTypeOK
<1> QED
  BY <1>1, PipeInvariantCorrect, PTL
=============================================================================

---------------------------- MODULE CompileCache ----------------------------
(***************************************************************************)
(* Model::compile (src/model.cpp) and the cache of compiled circuits       *)
(* behind it (src/compcache.cpp).                                          *)
(*                                                                         *)
(* Each process has a cache of its own: a map from the uuid of a circuit,  *)
(* the hash of its description string, to a CompiledObject on the heap.    *)
(* Models hold plain pointers to these objects.  On a miss, compile makes  *)
(* sure that the directory eis_models exists in the temporary directory,   *)
(* runs g++ to write <uuid>.so there, loads that file and adds the object. *)
(* Directory and files are shared by all processes and survive them.  A    *)
(* compiler is a process too: it goes on when the one that started it is   *)
(* killed.                                                                 *)
(*                                                                         *)
(* A circuit stands for its description string without parameters, which   *)
(* is all that its uuid and its code depend on.                            *)
(***************************************************************************)
EXTENDS Naturals

CONSTANTS
    Processes,      \* processes linked to the library
    Models,         \* their Model objects
    ProcessOf,      \* ProcessOf[m]: the process that owns model m
    Circuits,       \* circuit description strings
    Compileable,    \* those with code for every element
    Uuid,           \* Uuid[c]: std::hash of the string c
    Addresses,      \* where a process can put a CompiledObject
    Null,           \* the null pointer
    Truncated,      \* what a part of the code of a circuit is compiled to
    Disciplined,    \* dropAllObjects is followed by dropCompiled, see bench.cpp
    CrashesHappen,  \* processes may be killed
    DiskFails,      \* create_directory may fail
    Signals         \* a signal handler of the application may interrupt calls

ASSUME OwnerAssumption == ProcessOf \in [Models -> Processes]
ASSUME CircuitsAssumption == Compileable \subseteq Circuits
\* A 64 bit hash of different strings is taken to be different.
ASSUME UuidAssumption ==
    /\ DOMAIN Uuid = Circuits
    /\ \A c, d \in Circuits : Uuid[c] = Uuid[d] => c = d
ASSUME NullAssumption ==
    /\ Null \notin Addresses \cup Circuits \cup Models
    /\ Null \notin Processes \X {"child", "orphan"}
ASSUME TruncatedAssumption == Truncated \notin Circuits \cup {Null}
ASSUME FlagsAssumption ==
    {Disciplined, CrashesHappen, DiskFails, Signals} \subseteq BOOLEAN

Uuids == {Uuid[c] : c \in Circuits}

\* The compilers: for each process the one it waits for and one that outlived
\* it.  A process is not killed again before its orphan is done.
Writers == Processes \X {"child", "orphan"}
Child(p) == <<p, "child">>
Orphan(p) == <<p, "orphan">>

VARIABLES
    circuit,        \* circuit[m]: the circuit of model m
    compiledModel,  \* compiledModel[m]: its pointer to a compiled object
    objects,        \* objects[p][u]: the cache, address of the object or Null
    heap,           \* heap[p][a]: the circuit the object at a computes, or Null
    at,             \* at[p]: where process p is in compile
    compiling,      \* compiling[p]: the model it compiles
    result,         \* result[p]: how its last call ended
    dir,            \* the directory eis_models exists
    so,             \* so[u]: what the name <uuid>.so refers to
    job,            \* job[w]: the circuit compiler w translates, or Null
    phase           \* phase[w]: where the compiler is

modelVars == <<circuit, compiledModel>>
cacheVars == <<objects, heap>>
fileVars == <<dir, so>>
compilerVars == <<job, phase>>
vars == <<modelVars, cacheVars, at, compiling, result, fileVars, compilerVars>>

ModelsOf(p) == {m \in Models : ProcessOf[m] = p}

\* The file <uuid>.so: none, or the one a compiler created.
NoFile == [writer |-> Null, content |-> Null]
FileBy(w) == [writer |-> w, content |-> Null]
Written(w, c) == [writer |-> w, content |-> c]

Result(kind, m) == [kind |-> kind, model |-> m]
NoResult == Result("none", Null)

\* What executeSweep computed with: the elements of the circuit itself, or a
\* compiled object, of whatever is at that address.
Computed(m, what) == [kind |-> "executed", model |-> m, with |-> what]
-----------------------------------------------------------------------------
EmptyCache == [u \in Uuids |-> Null]
EmptyHeap == [a \in Addresses |-> Null]

Init ==
    /\ circuit \in [Models -> Circuits]
    /\ compiledModel = [m \in Models |-> Null]
    /\ objects = [p \in Processes |-> EmptyCache]
    /\ heap = [p \in Processes |-> EmptyHeap]
    /\ at = [p \in Processes |-> "idle"]
    /\ compiling = [p \in Processes |-> Null]
    /\ result = [p \in Processes |-> NoResult]
    /\ dir \in BOOLEAN
    /\ so = [u \in Uuids |-> NoFile]
    /\ job = [w \in Writers |-> Null]
    /\ phase = [w \in Writers |-> "none"]
-----------------------------------------------------------------------------
(***************************************************************************)
(* Model::compile.                                                         *)
(***************************************************************************)
\* The call is over: how, and for which model.
EndCall(p, kind, m) ==
    /\ at' = [at EXCEPT ![p] = "idle"]
    /\ compiling' = [compiling EXCEPT ![p] = Null]
    /\ result' = [result EXCEPT ![p] = Result(kind, m)]

\* Some element has no code.
CompileImpossible(p, m) ==
    /\ at[p] = "idle"
    /\ circuit[m] \notin Compileable
    /\ EndCall(p, "false", m)
    /\ UNCHANGED <<modelVars, cacheVars, fileVars, compilerVars>>

\* The cache has the circuit.
CompileCached(p, m) ==
    LET found == objects[p][Uuid[circuit[m]]]
    IN  /\ at[p] = "idle"
        /\ circuit[m] \in Compileable
        /\ found # Null
        /\ compiledModel' = [compiledModel EXCEPT ![m] = found]
        /\ EndCall(p, "true", m)
        /\ UNCHANGED <<circuit, cacheVars, fileVars, compilerVars>>

\* Variant: the directory is created without looking for it.
CompileMissed_NoLookup(p, m) ==
    /\ at[p] = "idle"
    /\ circuit[m] \in Compileable
    /\ objects[p][Uuid[circuit[m]]] = Null
    /\ compiledModel' = [compiledModel EXCEPT ![m] = Null]
    /\ compiling' = [compiling EXCEPT ![p] = m]
    /\ at' = [at EXCEPT ![p] = "mkdir"]
    /\ result' = [result EXCEPT ![p] = NoResult]
    /\ UNCHANGED <<circuit, cacheVars, fileVars, compilerVars>>

\* The cache has not; getTempdir looks for the directory.
CompileMissed(p, m) ==
    /\ at[p] = "idle"
    /\ circuit[m] \in Compileable
    /\ objects[p][Uuid[circuit[m]]] = Null
    /\ compiledModel' = [compiledModel EXCEPT ![m] = Null]
    /\ compiling' = [compiling EXCEPT ![p] = m]
    /\ at' = [at EXCEPT ![p] = IF dir THEN "compile" ELSE "mkdir"]
    /\ result' = [result EXCEPT ![p] = NoResult]
    /\ UNCHANGED <<circuit, cacheVars, fileVars, compilerVars>>

\* create_directory returns true only if it has made the directory itself.
CreateDirectory(p) ==
    /\ at[p] = "mkdir"
    /\ ~dir
    /\ dir' = TRUE
    /\ at' = [at EXCEPT ![p] = "compile"]
    /\ UNCHANGED <<modelVars, cacheVars, compiling, result, so, compilerVars>>

\* Variant: creating the directory is tried over and over.
CreateDirectoryFails_Retries(p) ==
    /\ at[p] = "mkdir"
    /\ dir \/ DiskFails
    /\ UNCHANGED vars

\* Otherwise getTempdir throws.
CreateDirectoryFails(p) ==
    /\ at[p] = "mkdir"
    /\ dir \/ DiskFails
    /\ EndCall(p, "threwNoDirectory", compiling[p])
    /\ UNCHANGED <<modelVars, cacheVars, fileVars, compilerVars>>

\* compile_code throws: there are no descriptors for the pipes, fork fails, or
\* the compiler has gone before it took any code.
StartFails(p) ==
    /\ at[p] = "compile"
    /\ EndCall(p, "threwNotStarted", compiling[p])
    /\ UNCHANGED <<modelVars, cacheVars, fileVars, compilerVars>>

\* Otherwise it starts the compiler, and waits until the compiler is done.
StartCompiler(p) ==
    /\ at[p] = "compile"
    /\ job' = [job EXCEPT ![Child(p)] = circuit[compiling[p]]]
    /\ phase' = [phase EXCEPT ![Child(p)] = "reading"]
    /\ at' = [at EXCEPT ![p] = "wait"]
    /\ UNCHANGED <<modelVars, cacheVars, compiling, result, fileVars>>

\* waitpid collects the compiler, which then is no more.
Collect(p) ==
    /\ job' = [job EXCEPT ![Child(p)] = Null]
    /\ phase' = [phase EXCEPT ![Child(p)] = "none"]

\* compile_code reports an exit status other than 0.
CompilerFailed(p) ==
    /\ at[p] = "wait"
    /\ phase[Child(p)] = "failed"
    /\ Collect(p)
    /\ EndCall(p, "false", compiling[p])
    /\ UNCHANGED <<modelVars, cacheVars, fileVars>>

\* Variant: the end of what the compiler prints is taken for its success.
CompilerSucceeded_NotAwaited(p) ==
    /\ at[p] = "wait"
    /\ phase[Child(p)] \in {"writing", "ok"}
    /\ Collect(p)
    /\ at' = [at EXCEPT ![p] = "load"]
    /\ UNCHANGED <<modelVars, cacheVars, compiling, result, fileVars>>

CompilerSucceeded(p) ==
    /\ at[p] = "wait"
    /\ phase[Child(p)] = "ok"
    /\ Collect(p)
    /\ at' = [at EXCEPT ![p] = "load"]
    /\ UNCHANGED <<modelVars, cacheVars, compiling, result, fileVars>>

\* Process p has a compiler, or none, that it will not wait for any more.
Abandon(p) ==
    /\ job[Orphan(p)] = Null
    /\ job' = [job EXCEPT ![Orphan(p)] = job[Child(p)], ![Child(p)] = Null]
    /\ phase' = [phase EXCEPT ![Orphan(p)] = phase[Child(p)], ![Child(p)] = "none"]
    /\ so' = [u \in Uuids |->
                IF so[u].writer = Child(p) THEN [so[u] EXCEPT !.writer = Orphan(p)]
                                           ELSE so[u]]

\* A signal is handled while compile_code waits: what it returns was never set,
\* and is taken for the exit status of a compiler that is still at work.
CollectInterrupted(p) ==
    /\ Signals
    /\ at[p] = "wait"
    /\ phase[Child(p)] \in {"reading", "writing"}
    /\ Abandon(p)
    /\ \/ EndCall(p, "false", compiling[p])
       \/ at' = [at EXCEPT ![p] = "load"] /\ UNCHANGED <<compiling, result>>
    /\ UNCHANGED <<modelVars, cacheVars, dir>>

\* Variant: the file has a name that does not depend on the circuit.
Load_AnyFile(p) ==
    LET m == compiling[p]
        u == Uuid[circuit[m]]
    IN  /\ at[p] = "load"
        /\ \E v \in Uuids, a \in Addresses :
              /\ so[v].content \in Circuits
              /\ heap[p][a] = Null
              /\ IF objects[p][u] = Null
                 THEN /\ heap' = [heap EXCEPT ![p][a] = so[v].content]
                      /\ objects' = [objects EXCEPT ![p][u] = a]
                 ELSE UNCHANGED cacheVars
        /\ compiledModel' = [compiledModel EXCEPT ![m] = objects'[p][u]]
        /\ EndCall(p, "true", m)
        /\ UNCHANGED <<circuit, fileVars, compilerVars>>

\* dlopen and dlsym succeed on a file that is all there; addObject puts the
\* object on the heap and in the map, unless the uuid is there already, and
\* the model gets what getObject then finds.
Load(p) ==
    LET m == compiling[p]
        u == Uuid[circuit[m]]
    IN  /\ at[p] = "load"
        /\ so[u].content \in Circuits
        /\ \E a \in Addresses :
              /\ heap[p][a] = Null
              /\ IF objects[p][u] = Null
                 THEN /\ heap' = [heap EXCEPT ![p][a] = so[u].content]
                      /\ objects' = [objects EXCEPT ![p][u] = a]
                 ELSE UNCHANGED cacheVars
        /\ compiledModel' = [compiledModel EXCEPT ![m] = objects'[p][u]]
        /\ EndCall(p, "true", m)
        /\ UNCHANGED <<circuit, fileVars, compilerVars>>

\* dlopen fails on a file that is not there, or not all there, and dlsym on one
\* that was made from a part of the code: compile throws.
LoadFails(p) ==
    /\ at[p] = "load"
    /\ so[Uuid[circuit[compiling[p]]]].content \notin Circuits
    /\ EndCall(p, "threwNotLoaded", compiling[p])
    /\ UNCHANGED <<modelVars, cacheVars, fileVars, compilerVars>>
-----------------------------------------------------------------------------
(***************************************************************************)
(* The compiler, which is not part of the repository.  The linker replaces *)
(* the output file with a new one, fills it, and removes the name again    *)
(* when it fails.                                                          *)
(***************************************************************************)
CreateOutput(w) ==
    /\ phase[w] = "reading"
    /\ so' = [so EXCEPT ![Uuid[job[w]]] = FileBy(w)]
    /\ phase' = [phase EXCEPT ![w] = "writing"]
    /\ UNCHANGED <<modelVars, cacheVars, at, compiling, result, dir, job>>

\* What a compiler makes of what it was given, which is a part of the code if
\* the process that writes it was interrupted or killed.
Outputs(w) ==
    {job[w]} \cup (IF Signals \/ w[2] = "orphan" THEN {Truncated} ELSE {})

\* The compiler ends well.  Its file is the one of that name, unless another
\* compiler has replaced or removed it since.
FinishOutput(w) ==
    LET u == Uuid[job[w]]
    IN  /\ phase[w] = "writing"
        /\ \E c \in Outputs(w) :
              so' = [so EXCEPT ![u] = IF @ = FileBy(w) THEN Written(w, c) ELSE @]
        /\ phase' = [phase EXCEPT ![w] = "ok"]
        /\ UNCHANGED <<modelVars, cacheVars, at, compiling, result, dir, job>>

FailOutput(w) ==
    /\ phase[w] \in {"reading", "writing"}
    /\ so' = [so EXCEPT ![Uuid[job[w]]] = IF phase[w] = "writing" THEN NoFile ELSE @]
    /\ phase' = [phase EXCEPT ![w] = "failed"]
    /\ UNCHANGED <<modelVars, cacheVars, at, compiling, result, dir, job>>

\* An orphan that is done is collected by the system.
OrphanEnds(p) ==
    /\ phase[Orphan(p)] \in {"ok", "failed"}
    /\ job' = [job EXCEPT ![Orphan(p)] = Null]
    /\ phase' = [phase EXCEPT ![Orphan(p)] = "none"]
    /\ UNCHANGED <<modelVars, cacheVars, at, compiling, result, fileVars>>
-----------------------------------------------------------------------------
(***************************************************************************)
(* What else is done with models and with the cache.                       *)
(***************************************************************************)
\* executeSweep goes through the compiled object if the model has one.
Execute(p, m) ==
    LET object == compiledModel[m]
    IN  /\ at[p] = "idle"
        /\ result' = [result EXCEPT ![p] =
                        Computed(m, IF object = Null THEN circuit[m]
                                                     ELSE heap[p][object])]
        /\ UNCHANGED <<modelVars, cacheVars, at, compiling, fileVars, compilerVars>>

\* Model::operator=, which the copy constructor calls too.
Assign(p, m, n) ==
    /\ at[p] = "idle"
    /\ circuit' = [circuit EXCEPT ![m] = circuit[n]]
    /\ compiledModel' = [compiledModel EXCEPT ![m] = compiledModel[n]]
    /\ result' = [result EXCEPT ![p] = NoResult]
    /\ UNCHANGED <<cacheVars, at, compiling, fileVars, compilerVars>>

\* Variant: the models keep their pointers to objects that are freed.
DropAllObjects_PointersKept(p) ==
    /\ at[p] = "idle"
    /\ objects' = [objects EXCEPT ![p] = EmptyCache]
    /\ heap' = [heap EXCEPT ![p] =
                  [a \in Addresses |->
                     IF \E u \in Uuids : objects[p][u] = a THEN Null ELSE heap[p][a]]]
    /\ result' = [result EXCEPT ![p] = NoResult]
    /\ UNCHANGED <<modelVars, at, compiling, fileVars, compilerVars>>

\* Variant: the map is emptied, the objects are not freed.
DropAllObjects_NotFreed(p) ==
    /\ at[p] = "idle"
    /\ objects' = [objects EXCEPT ![p] = EmptyCache]
    /\ at' = [at EXCEPT ![p] = IF Disciplined THEN "drop" ELSE "idle"]
    /\ result' = [result EXCEPT ![p] = NoResult]
    /\ UNCHANGED <<modelVars, heap, compiling, fileVars, compilerVars>>

\* CompCache::dropAllObjects frees the objects and empties the map; the
\* pointers of the models it does not know.  The benchmark, its only user,
\* has its models drop theirs before it goes on.
DropAllObjects(p) ==
    /\ at[p] = "idle"
    /\ objects' = [objects EXCEPT ![p] = EmptyCache]
    /\ heap' = [heap EXCEPT ![p] =
                  [a \in Addresses |->
                     IF \E u \in Uuids : objects[p][u] = a THEN Null ELSE heap[p][a]]]
    /\ at' = [at EXCEPT ![p] = IF Disciplined THEN "drop" ELSE "idle"]
    /\ result' = [result EXCEPT ![p] = NoResult]
    /\ UNCHANGED <<modelVars, compiling, fileVars, compilerVars>>

\* Model::dropCompiled.
DropCompiled(p, m) ==
    /\ at[p] \in {"idle", "drop"}
    /\ compiledModel' = [compiledModel EXCEPT ![m] = Null]
    /\ at' = [at EXCEPT ![p] =
                IF \A n \in ModelsOf(p) : compiledModel'[n] = Null
                THEN "idle" ELSE @]
    /\ result' = [result EXCEPT ![p] = NoResult]
    /\ UNCHANGED <<circuit, cacheVars, compiling, fileVars, compilerVars>>

\* Process p is killed, and another one takes its place.  A compiler it was
\* waiting for lives on.
Crash(p) ==
    /\ CrashesHappen
    /\ Abandon(p)
    /\ at' = [at EXCEPT ![p] = "idle"]
    /\ compiling' = [compiling EXCEPT ![p] = Null]
    /\ result' = [result EXCEPT ![p] = NoResult]
    /\ compiledModel' = [m \in Models |->
                            IF ProcessOf[m] = p THEN Null ELSE compiledModel[m]]
    /\ objects' = [objects EXCEPT ![p] = EmptyCache]
    /\ heap' = [heap EXCEPT ![p] = EmptyHeap]
    /\ UNCHANGED <<circuit, dir>>
-----------------------------------------------------------------------------
CompileStep(p) ==
    \/ CreateDirectory(p) \/ CreateDirectoryFails(p)
    \/ StartFails(p) \/ StartCompiler(p) \/ CompilerFailed(p) \/ CompilerSucceeded(p)
    \/ Load(p) \/ LoadFails(p)

CompilerStep(w) == CreateOutput(w) \/ FinishOutput(w) \/ FailOutput(w)

Call(p) ==
    \/ \E m \in ModelsOf(p) :
          \/ CompileImpossible(p, m) \/ CompileCached(p, m) \/ CompileMissed(p, m)
          \/ Execute(p, m) \/ DropCompiled(p, m)
    \/ \E m, n \in ModelsOf(p) : m # n /\ Assign(p, m, n)
    \/ DropAllObjects(p)

Next ==
    \/ \E p \in Processes :
          \/ CompileStep(p) \/ Call(p)
          \/ CollectInterrupted(p) \/ Crash(p) \/ OrphanEnds(p)
    \/ \E w \in Writers : CompilerStep(w)

Spec == Init /\ [][Next]_vars

\* A process in compile goes on, and a compiler comes to an end; no signal has
\* to arrive.
Fairness ==
    /\ \A p \in Processes : WF_vars(CompileStep(p))
    /\ \A w \in Writers : WF_vars(CompilerStep(w))

FairSpec == Spec /\ Fairness
=============================================================================

-------------------------- MODULE CompileCacheProps --------------------------
(***************************************************************************)
(* What compile and its cache have to get right.                           *)
(***************************************************************************)
EXTENDS CompileCache, FiniteSets

Pointers == Addresses \cup {Null}
Programs == Circuits \cup {Null}

Results ==
    [kind : {"none", "true", "false", "threwNoDirectory", "threwNotStarted",
             "threwNotLoaded"},
     model : Models \cup {Null}]
      \cup [kind : {"executed"}, model : Models, with : Programs]

\* Every variable keeps its type, and a process has a model to compile exactly
\* while it is in compile.
TypeOK ==
    /\ circuit \in [Models -> Circuits]
    /\ compiledModel \in [Models -> Pointers]
    /\ objects \in [Processes -> [Uuids -> Pointers]]
    /\ heap \in [Processes -> [Addresses -> Programs]]
    /\ at \in [Processes ->
                 {"idle", "mkdir", "compile", "wait", "load", "drop"}]
    /\ compiling \in [Processes -> Models \cup {Null}]
    /\ \A p \in Processes : compiling[p] = Null <=> at[p] \in {"idle", "drop"}
    /\ result \in [Processes -> Results]
    /\ dir \in BOOLEAN
    /\ so \in [Uuids -> [writer : Writers \cup {Null}, content : Programs \cup {Truncated}]]
    /\ job \in [Writers -> Programs]
    /\ phase \in [Writers -> {"none", "reading", "writing", "ok", "failed"}]

\* A sweep is always computed from the circuit of the model it was asked of:
\* never from an object that is freed, nor from one that has taken its place,
\* nor from the code of another circuit, after whatever calls, crashes and
\* other processes at work on the same files.
ExecutesItsCircuit ==
    \A p \in Processes :
        result[p].kind = "executed" => result[p].with = circuit[result[p].model]

\* Whatever is on the heap of a process is in its map, under the uuid of the
\* circuit it computes: no object is lost, and none is there twice.
CacheMatchesHeap ==
    \A p \in Processes :
        /\ {a \in Addresses : heap[p][a] # Null} =
              {objects[p][u] : u \in Uuids} \ {Null}
        /\ \A c \in Circuits :
              objects[p][Uuid[c]] # Null => heap[p][objects[p][Uuid[c]]] = c

\* compile returns true if the model is compiled afterwards, its object the
\* one in the cache; after false, or an exception, it is left to be executed
\* element by element.
ResultMatchesModel ==
    \A p \in Processes :
        LET m == result[p].model
        IN  /\ result[p].kind = "true" =>
                  /\ compiledModel[m] # Null
                  /\ compiledModel[m] = objects[p][Uuid[circuit[m]]]
            /\ result[p].kind \in {"false", "threwNoDirectory", "threwNotStarted",
                                   "threwNotLoaded"}
                  => compiledModel[m] = Null

\* Map and heap, the pointers of the models and what compile has returned agree
\* after every call.
CacheExact == CacheMatchesHeap /\ ResultMatchesModel

\* A circuit has to be compiled only once in the life of a process: no
\* compiler is started for a circuit that is in the cache, and an object in
\* the cache is not replaced.
CompiledOnce ==
    \A p \in Processes :
        /\ phase[Child(p)] = "none" /\ phase'[Child(p)] = "reading"
              => objects[p][Uuid[job'[Child(p)]]] = Null
        /\ \A u \in Uuids :
              objects[p][u] # Null => objects'[p][u] \in {objects[p][u], Null}

\* A process never loses track of what it has cached, and uses it instead of
\* compiling the circuit again.
CacheKept == [][CompiledOnce /\ CacheExact']_vars

\* Every call of compile comes to an end.
CompileEnds ==
    \A p \in Processes :
        at[p] \in {"mkdir", "compile", "wait", "load"} ~> at[p] = "idle"

\* A process that has the directory to itself, and no signals to handle, can
\* load what its compiler leaves there: the file is still there, and whole.
\* Only a disk that fails keeps it from making the directory.
AloneLoadsItsFile ==
    Cardinality(Processes) = 1 /\ ~CrashesHappen /\ ~Signals =>
        \A p \in Processes :
            /\ result[p].kind # "threwNotLoaded"
            /\ result[p].kind = "threwNoDirectory" => ~dir

\* With other processes, crashes and signals too, compile throws after its
\* compiler has ended well only for one of two reasons: another compiler has
\* replaced or removed the file since, or a part of the code was compiled.
LoadsItsFile ==
    [][ \A p \in Processes :
          LET file == so[Uuid[circuit[compiling[p]]]]
          IN  at[p] = "load" /\ result'[p].kind = "threwNotLoaded" =>
                  file.writer # Child(p) \/ file.content = Truncated
      ]_vars
-----------------------------------------------------------------------------
(***************************************************************************)
(* The inductive invariant behind the safety properties.                   *)
(***************************************************************************)
\* A file with the code of a circuit is named after it, whoever has written it.
FilesInv ==
    \A u \in Uuids : so[u].content \in Circuits => Uuid[so[u].content] = u

JobsInv == \A w \in Writers : phase[w] # "none" => job[w] # Null

\* What a process is in the middle of compiling is not compiled, and stays the
\* same until the call is over.
BusyInv ==
    \A p \in Processes : at[p] \in {"mkdir", "compile", "wait", "load"} =>
        LET m == compiling[p]
        IN  /\ m \in ModelsOf(p)
            /\ circuit[m] \in Compileable
            /\ compiledModel[m] = Null
            /\ objects[p][Uuid[circuit[m]]] = Null
            /\ result[p] = NoResult

\* Only what has code is in the cache.
CompileableInv ==
    \A p \in Processes : \A c \in Circuits \ Compileable :
        objects[p][Uuid[c]] = Null

\* A model that is compiled points to what its process has cached for its
\* circuit, except after dropAllObjects and before dropCompiled.
PointersInv ==
    \A m \in Models : at[ProcessOf[m]] # "drop" =>
        compiledModel[m] \in {Null, objects[ProcessOf[m]][Uuid[circuit[m]]]}

\* The last result is about a model of the process that has called.
ResultsInv ==
    \A p \in Processes : result[p].kind # "none" =>
        at[p] = "idle" /\ result[p].model \in ModelsOf(p)

\* A file that is not all there is the one its compiler is writing, and a
\* process with a compiler waits for it.
WritersInv ==
    /\ \A p \in Processes : phase[Child(p)] # "none" => at[p] = "wait"
    /\ \A w \in Writers, u \in Uuids :
          so[u] = FileBy(w) => phase[w] = "writing" /\ Uuid[job[w]] = u

IInv == /\ FilesInv /\ JobsInv /\ BusyInv /\ CompileableInv
        /\ PointersInv /\ ResultsInv /\ CacheExact /\ ExecutesItsCircuit
=============================================================================

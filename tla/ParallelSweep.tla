---------------------------- MODULE ParallelSweep ----------------------------
(***************************************************************************)
(* Model::executeSweeps, Model::executeAllSweeps and the threads they      *)
(* start (src/model.cpp).                                                  *)
(*                                                                         *)
(* The caller's thread splits the slots of the result among threadsCount   *)
(* threads, gives each a copy of the model of its own, starts them, joins  *)
(* them in order and returns the result.  A thread walks its slots; for    *)
(* slot k it runs executeSweep(omega, k) on its model and stores the       *)
(* spectrum with data->at(k).                                              *)
(*                                                                         *)
(* executeSweep works on the circuit element by element when the model is  *)
(* not compiled: for every frequency it resolves the steps of the model    *)
(* again and evaluates it.  When it is compiled, the steps are resolved    *)
(* once, the parameters read once, and the compiled function computes all  *)
(* points from them.  A model is represented by the index its steps were   *)
(* last resolved to, a spectrum by the set of indices that its points were *)
(* computed at: a model two threads use at a time would show as a spectrum *)
(* of the wrong, or of more than one, index.  The steps themselves, and    *)
(* which index has none because resolveSteps divides by 0, are in          *)
(* SweepIndex.                                                             *)
(***************************************************************************)
EXTENDS SweepIndex, Sequences

CONSTANTS
    MaxHardware,    \* largest value of std::thread::hardware_concurrency()
    PerThread,      \* fewest slots per thread worth a thread, 10 in the code
    Points,         \* number of frequencies in a sweep
    Requests,       \* the vectors of indices passed to executeSweeps
    Counts,         \* the counts that the parameters of the model may have
    ThreadsCanFail  \* may std::thread's constructor fail

ASSUME HardwareAssumption == MaxHardware \in Nat
ASSUME PerThreadAssumption == PerThread \in Nat
ASSUME PointsAssumption == Points \in Nat \ {0}
ASSUME RequestsAssumption == Requests \subseteq Seq(Nat)
ASSUME CountsAssumption == Counts \subseteq [Params -> 0..(Word - 1)]
ASSUME FailAssumption == ThreadsCanFail \in BOOLEAN

VARIABLES
    pc,             \* where the calling thread is
    counts,         \* counts[p]: Range::count of parameter p of the model
    all,            \* is the call one of executeAllSweeps
    requested,      \* the indices asked for
    count,          \* data.size()
    threadsCount,   \* threads.size() and models.size()
    compiled,       \* the model has compiled code
    next,           \* the thread to start or to join next
    thread,         \* thread[t]: where thread t is
    slot,           \* slot[t]: the loop counter i of sweepThreadFn
    model,          \* model[t]: the index models[t] is resolved to
    done,           \* done[t]: points of the spectrum computed so far
    results,        \* results[t]: the spectrum under construction
    data            \* data[k]: the spectrum stored for slot k

callVars == <<counts, all, requested, count, threadsCount, compiled>>
threadVars == <<thread, slot, model, done, results>>
vars == <<pc, callVars, next, threadVars, data>>

Threads == 0..(threadsCount - 1)
Slots == 0..(count - 1)

\* The copies of the model are at whatever index the original was left at.
Stale == -1
-----------------------------------------------------------------------------
(***************************************************************************)
(* The partition of the slots.                                             *)
(***************************************************************************)
\* How many threads: as many as the hardware runs, unless that leaves too few
\* slots for each, or the caller did not ask for threads.
ThreadsFor(n, hardware, parallel) ==
    LET wanted == IF parallel THEN hardware ELSE 1
    IN  IF n < wanted * PerThread THEN 1 ELSE wanted

CountPerThread == count \div threadsCount

\* Variant: a thread starts one slot early.
Start_OneEarly(t) == t * CountPerThread - 1

Start(t) == t * CountPerThread

\* Variant: the last thread stops where any other would.
Stop_NoRemainder(t) == (t + 1) * CountPerThread

\* Variant: the chunks overlap by a slot.
Stop_OneMore(t) == IF t < threadsCount - 1 THEN (t + 1) * CountPerThread + 1
                                           ELSE count

\* Variant: the last thread goes one too far.
Stop_PastEnd(t) == IF t < threadsCount - 1 THEN (t + 1) * CountPerThread
                                           ELSE count + 1

\* The last thread takes what the division leaves over as well.
Stop(t) == IF t < threadsCount - 1 THEN (t + 1) * CountPerThread ELSE count
-----------------------------------------------------------------------------
(***************************************************************************)
(* The calling thread.                                                     *)
(***************************************************************************)
Init ==
    /\ pc = "idle"
    /\ counts \in Counts
    /\ all = FALSE
    /\ requested = <<>>
    /\ count = 0
    /\ threadsCount = 1
    /\ compiled \in BOOLEAN
    /\ next = 0
    /\ thread = [t \in Threads |-> "joined"]
    /\ slot = [t \in Threads |-> 0]
    /\ model = [t \in Threads |-> Stale]
    /\ done = [t \in Threads |-> 0]
    /\ results = [t \in Threads |-> {}]
    /\ data = [k \in Slots |-> {}]

\* Everything up to the loop that starts the threads.
Begin(indices, hardware, parallel) ==
    LET n == Len(indices)
        m == ThreadsFor(n, hardware, parallel)
    IN  /\ pc \in {"idle", "returned", "threw"}
        /\ pc' = "start"
        /\ requested' = indices
        /\ count' = n
        /\ threadsCount' = m
        /\ compiled' \in BOOLEAN
        /\ next' = 0
        /\ thread' = [t \in 0..(m - 1) |-> "none"]
        /\ slot' = [t \in 0..(m - 1) |-> 0]
        /\ model' = [t \in 0..(m - 1) |-> Stale]
        /\ done' = [t \in 0..(m - 1) |-> 0]
        /\ results' = [t \in 0..(m - 1) |-> {}]
        /\ data' = [k \in 0..(n - 1) |-> {}]

ExecuteSweeps ==
    \E c \in Counts, indices \in Requests, hardware \in 0..MaxHardware,
       parallel \in BOOLEAN :
        /\ counts' = c
        /\ all' = FALSE
        /\ Begin(indices, hardware, parallel)

\* executeAllSweeps asks for all indices of the sweep, always in parallel.
ExecuteAllSweeps ==
    \E c \in Counts, hardware \in 0..MaxHardware :
        /\ counts' = c
        /\ all' = TRUE
        /\ Begin([k \in 1..RequiredSteps(c) |-> k - 1], hardware, TRUE)

\* The standard lets hardware_concurrency() return 0; no count is below
\* 0 * PerThread, and the division of the slots by 0 kills the process.
DivideByZero ==
    /\ pc = "start"
    /\ threadsCount = 0
    /\ pc' = "dead"
    /\ UNCHANGED <<callVars, next, threadVars, data>>

StartThread ==
    /\ pc = "start"
    /\ next < threadsCount
    /\ thread' = [thread EXCEPT ![next] = "loop"]
    /\ slot' = [slot EXCEPT ![next] = Start(next)]
    /\ next' = next + 1
    /\ UNCHANGED <<pc, callVars, model, done, results, data>>

\* std::thread throws.  Unwinding destroys the vector of threads: if one of
\* them was started it is still joinable and its destructor terminates the
\* process, otherwise the exception reaches the caller.
StartThreadFails ==
    /\ ThreadsCanFail
    /\ pc = "start"
    /\ next < threadsCount
    /\ pc' = IF next = 0 THEN "threw" ELSE "dead"
    /\ UNCHANGED <<callVars, next, threadVars, data>>

AllStarted ==
    /\ pc = "start"
    /\ next = threadsCount
    /\ threadsCount # 0
    /\ pc' = "join"
    /\ next' = 0
    /\ UNCHANGED <<callVars, threadVars, data>>

\* Variant: a thread is not waited for.
Join_AnyTime ==
    /\ pc = "join"
    /\ next < threadsCount
    /\ next' = next + 1
    /\ UNCHANGED <<pc, callVars, threadVars, data>>

Join ==
    /\ pc = "join"
    /\ next < threadsCount
    /\ thread[next] = "finished"
    /\ thread' = [thread EXCEPT ![next] = "joined"]
    /\ next' = next + 1
    /\ UNCHANGED <<pc, callVars, slot, model, done, results, data>>

Return ==
    /\ pc = "join"
    /\ next = threadsCount
    /\ pc' = "returned"
    /\ UNCHANGED <<callVars, next, threadVars, data>>
-----------------------------------------------------------------------------
(***************************************************************************)
(* sweepThreadFn and the executeSweep it calls, in thread t.               *)
(***************************************************************************)
Alive == pc \in {"start", "join"}

\* Variant: the points of the sweep before are kept.
BeginSweep_KeepsResults(t) ==
    /\ Alive
    /\ thread[t] = "loop"
    /\ slot[t] < Stop(t)
    /\ thread' = [thread EXCEPT ![t] = "resolve"]
    /\ done' = [done EXCEPT ![t] = 0]
    /\ UNCHANGED <<pc, callVars, next, slot, model, results, data>>

BeginSweep(t) ==
    /\ Alive
    /\ thread[t] = "loop"
    /\ slot[t] < Stop(t)
    /\ thread' = [thread EXCEPT ![t] = "resolve"]
    /\ done' = [done EXCEPT ![t] = 0]
    /\ results' = [results EXCEPT ![t] = {}]
    /\ UNCHANGED <<pc, callVars, next, slot, model, data>>

\* Variant: every thread works on the same model.
Resolve_SharedModel(t) ==
    /\ Alive
    /\ thread[t] = "resolve"
    /\ ~DividesByZero(counts, slot[t])
    /\ model' = [u \in Threads |-> slot[t]]
    /\ thread' = [thread EXCEPT ![t] = "compute"]
    /\ UNCHANGED <<pc, callVars, next, slot, done, results, data>>

\* resolveSteps(index), on the model this thread was handed.
Resolve(t) ==
    /\ Alive
    /\ thread[t] = "resolve"
    /\ ~DividesByZero(counts, slot[t])
    /\ model' = [model EXCEPT ![t] = slot[t]]
    /\ thread' = [thread EXCEPT ![t] = "compute"]
    /\ UNCHANGED <<pc, callVars, next, slot, done, results, data>>

\* The division by a place magnitude of 0 raises SIGFPE.
ResolveDies(t) ==
    /\ Alive
    /\ thread[t] = "resolve"
    /\ DividesByZero(counts, slot[t])
    /\ pc' = "dead"
    /\ UNCHANGED <<callVars, next, threadVars, data>>

\* _model->execute(omega) for one frequency, or getFlatParameters and the
\* compiled function for all of them.
Compute(t) ==
    LET computed == IF compiled THEN Points ELSE done[t] + 1
    IN  /\ Alive
        /\ thread[t] = "compute"
        /\ results' = [results EXCEPT ![t] = @ \cup {model[t]}]
        /\ done' = [done EXCEPT ![t] = computed]
        /\ thread' = [thread EXCEPT ![t] =
                        IF computed = Points THEN "store" ELSE "resolve"]
        /\ UNCHANGED <<pc, callVars, next, slot, model, data>>

\* Variant: the loop counter is not advanced.
Store_SameSlot(t) ==
    /\ Alive
    /\ thread[t] = "store"
    /\ pc' = IF slot[t] \in Slots THEN pc ELSE "dead"
    /\ data' = [k \in Slots |-> IF k = slot[t] THEN results[t] ELSE data[k]]
    /\ thread' = [thread EXCEPT ![t] = "loop"]
    /\ UNCHANGED <<callVars, next, slot, model, done, results>>

\* data->at(i) = ...; at() throws outside the vector, and an exception that
\* leaves a thread's function terminates the process.
Store(t) ==
    /\ Alive
    /\ thread[t] = "store"
    /\ pc' = IF slot[t] \in Slots THEN pc ELSE "dead"
    /\ data' = [k \in Slots |-> IF k = slot[t] THEN results[t] ELSE data[k]]
    /\ slot' = [slot EXCEPT ![t] = @ + 1]
    /\ thread' = [thread EXCEPT ![t] = "loop"]
    /\ UNCHANGED <<callVars, next, model, done, results>>

Finish(t) ==
    /\ Alive
    /\ thread[t] = "loop"
    /\ slot[t] >= Stop(t)
    /\ thread' = [thread EXCEPT ![t] = "finished"]
    /\ UNCHANGED <<pc, callVars, next, slot, model, done, results, data>>
-----------------------------------------------------------------------------
CallerStep == DivideByZero \/ StartThread \/ AllStarted \/ Join \/ Return

ThreadStep(t) ==
    \/ BeginSweep(t)
    \/ Resolve(t)
    \/ ResolveDies(t)
    \/ Compute(t)
    \/ Store(t)
    \/ Finish(t)

Next ==
    \/ ExecuteSweeps
    \/ ExecuteAllSweeps
    \/ StartThreadFails
    \/ CallerStep
    \/ \E t \in Threads : ThreadStep(t)

Spec == Init /\ [][Next]_vars

\* The caller's thread and every thread it started keep running; nobody has
\* to make a call.
Fairness ==
    /\ WF_vars(CallerStep)
    /\ \A t \in 0..MaxHardware : WF_vars(t \in Threads /\ ThreadStep(t))

FairSpec == Spec /\ Fairness
=============================================================================

------------------------ MODULE ParallelSweep_proofs ------------------------
(***************************************************************************)
(* Proofs about the threaded sweeps, for every number of threads, slots    *)
(* and frequencies.                                                        *)
(***************************************************************************)
EXTENDS ParallelSweepProps, Induction, TLAPS

-----------------------------------------------------------------------------
(***************************************************************************)
(* Arithmetic of the partition.                                            *)
(***************************************************************************)
LEMMA DivisionBounds ==
    ASSUME NEW a \in Nat, NEW b \in Nat \ {0}
    PROVE  /\ a \div b \in Nat
           /\ b * (a \div b) <= a
           /\ a < b * (a \div b) + b
  BY SMT

\* Multiplication keeps the order.
LEMMA TimesMonotone ==
    ASSUME NEW a \in Nat, NEW b \in Nat, NEW c \in Nat, a <= b
    PROVE  a * c <= b * c
  BY SMT

\* The chunks: each is an interval of slots, in the order of the threads; the
\* first begins at slot 0 and the last ends with the last slot.
LEMMA Chunks ==
    ASSUME count \in Nat, threadsCount \in Nat \ {0}
    PROVE  /\ CountPerThread \in Nat
           /\ \A t \in Threads :
                 /\ Start(t) \in Nat /\ Stop(t) \in Nat
                 /\ Start(t) <= Stop(t) /\ Stop(t) <= count
                 /\ \A u \in Threads : t < u => Stop(t) <= Start(u)
<1>1. /\ CountPerThread \in Nat
      /\ threadsCount * CountPerThread <= count
  BY DivisionBounds DEF CountPerThread
<1>2. ASSUME NEW t \in Threads
      PROVE  /\ t \in Nat /\ t + 1 \in Nat /\ t <= t + 1
             /\ t <= threadsCount /\ t + 1 <= threadsCount
  BY DEF Threads
<1>3. ASSUME NEW t \in Threads
      PROVE  /\ Start(t) \in Nat /\ Stop(t) \in Nat
             /\ Start(t) <= Stop(t) /\ Stop(t) <= count
  <2>1. /\ t * CountPerThread \in Nat
        /\ (t + 1) * CountPerThread \in Nat
        /\ t * CountPerThread <= (t + 1) * CountPerThread
        /\ t * CountPerThread <= threadsCount * CountPerThread
        /\ (t + 1) * CountPerThread <= threadsCount * CountPerThread
    BY <1>1, <1>2, TimesMonotone
  <2> QED
    BY <1>1, <1>2, <2>1 DEF Start, Stop
<1>4. ASSUME NEW t \in Threads, NEW u \in Threads, t < u
      PROVE  Stop(t) <= Start(u)
  <2>1. (t + 1) * CountPerThread <= u * CountPerThread
    BY <1>1, <1>2, <1>4, TimesMonotone
  <2>2. t < threadsCount - 1
    BY <1>4 DEF Threads
  <2> QED
    BY <2>1, <2>2 DEF Start, Stop
<1> QED
  BY <1>1, <1>3, <1>4

\* Every slot is in the chunk of some thread.
LEMMA EverySlotHasThread ==
    ASSUME count \in Nat, threadsCount \in Nat \ {0}, NEW k \in Slots
    PROVE  \E t \in Threads : Start(t) <= k /\ k < Stop(t)
<1> DEFINE c == CountPerThread
           last == threadsCount - 1
<1>1. c \in Nat /\ last \in Threads /\ k \in Nat /\ k < count
  BY Chunks DEF Threads, Slots
<1>2. CASE last * c <= k
  BY <1>1, <1>2 DEF Start, Stop
<1>3. CASE k < last * c
  <2>1. c # 0
    BY <1>1, <1>3
  <2> DEFINE t == k \div c
  <2>2. t \in Nat /\ c * t <= k /\ k < c * t + c
    BY <1>1, <2>1, DivisionBounds
  <2>3. t * c <= k /\ k < (t + 1) * c
    BY <1>1, <2>2
  <2>4. t < last
    <3>1. SUFFICES ASSUME last <= t PROVE FALSE
      BY <1>1, <2>2 DEF Threads
    <3>2. last * c <= t * c
      BY <1>1, <2>2, <3>1, TimesMonotone DEF Threads
    <3> QED
      BY <1>1, <1>3, <2>2, <2>3, <3>2 DEF Threads
  <2>5. t \in Threads
    BY <2>2, <2>4 DEF Threads
  <2>6. Start(t) <= k /\ k < Stop(t)
    BY <2>3, <2>4 DEF Start, Stop
  <2> QED
    BY <2>5, <2>6
<1> QED
  BY <1>1, <1>2, <1>3 DEF Threads

\* The partition of the slots, for every count and every number of threads.
LEMMA PartitionHolds ==
    ASSUME TypeOK
    PROVE  ChunksPartitionSlots
<1>1. SUFFICES ASSUME threadsCount > 0
               PROVE  /\ \A k \in Slots : \E t \in Threads :
                            /\ Start(t) <= k /\ k < Stop(t)
                            /\ \A u \in Threads \ {t} :
                                  ~(Start(u) <= k /\ k < Stop(u))
                      /\ \A t \in Threads : Start(t) <= Stop(t) /\ Stop(t) <= count
  BY DEF ChunksPartitionSlots
<1>2. count \in Nat /\ threadsCount \in Nat \ {0}
  BY <1>1 DEF TypeOK
<1>3. ASSUME NEW k \in Slots
      PROVE  \E t \in Threads :
                /\ Start(t) <= k /\ k < Stop(t)
                /\ \A u \in Threads \ {t} : ~(Start(u) <= k /\ k < Stop(u))
  <2>1. PICK t \in Threads : Start(t) <= k /\ k < Stop(t)
    BY <1>2, EverySlotHasThread
  <2>2. ASSUME NEW u \in Threads \ {t}, Start(u) <= k, k < Stop(u)
        PROVE  FALSE
    <3>1. /\ Start(t) \in Nat /\ Stop(t) \in Nat
          /\ Start(u) \in Nat /\ Stop(u) \in Nat
          /\ t < u => Stop(t) <= Start(u)
          /\ u < t => Stop(u) <= Start(t)
      BY <1>2, Chunks
    <3>2. k \in Nat /\ (t < u \/ u < t)
      BY <1>2 DEF Slots, Threads
    <3> QED
      BY <2>1, <2>2, <3>1, <3>2
  <2> QED
    BY <2>1, <2>2
<1> QED
  BY <1>2, <1>3, Chunks
-----------------------------------------------------------------------------
(***************************************************************************)
(* Type correctness.                                                       *)
(***************************************************************************)
\* No step of a call, after its beginning, moves the chunks.
LEMMA ChunksStay ==
    ASSUME callVars' = callVars
    PROVE  /\ Threads' = Threads /\ Slots' = Slots
           /\ count' = count /\ threadsCount' = threadsCount
           /\ counts' = counts /\ all' = all
           /\ requested' = requested /\ compiled' = compiled
           /\ \A t \in Threads : Start(t)' = Start(t) /\ Stop(t)' = Stop(t)
  BY DEF callVars, Threads, Slots, Start, Stop, CountPerThread

\* The indices that executeAllSweeps asks for.
AllIndices(c) == [k \in 1..RequiredSteps(c) |-> k - 1]

\* There is one for each combination.
LEMMA AllIndicesType ==
    ASSUME NEW c \in Counts
    PROVE  /\ AllIndices(c) \in Seq(Nat)
           /\ Len(AllIndices(c)) = RequiredSteps(c)
<1>1. c \in [1..NumParams -> Nat] /\ NumParams \in Nat
  BY CountsAssumption, IndexAssumption DEF Params
<1>2. RequiredSteps(c) \in Nat
  BY <1>1, IndexAssumption, WordProductsStep DEF RequiredSteps, AreProducts
<1> QED
  BY <1>2 DEF AllIndices

\* The number of threads is of its type.
LEMMA ThreadsForType ==
    ASSUME NEW n \in Nat, NEW hardware \in Nat, NEW parallel \in BOOLEAN
    PROVE  ThreadsFor(n, hardware, parallel) \in Nat
  BY DEF ThreadsFor

\* A call that begins leaves every variable in its type and as the invariant
\* wants it.
LEMMA BeginType ==
    ASSUME NEW indices \in Seq(Nat), NEW hardware \in Nat,
           NEW parallel \in BOOLEAN, Begin(indices, hardware, parallel),
           counts' \in Counts, all' \in BOOLEAN
    PROVE  TypeOK'
<1> DEFINE n == Len(indices)
           m == ThreadsFor(n, hardware, parallel)
<1>1. n \in Nat /\ m \in Nat
  BY ThreadsForType
<1>2. count' = n /\ threadsCount' = m
  BY DEF Begin
<1>3. Threads' = 0..(m - 1) /\ Slots' = 0..(n - 1)
  BY <1>2 DEF Threads, Slots
<1> QED
  BY <1>1, <1>2, <1>3, CountsAssumption DEF Begin, TypeOK, Stale

\* Every step keeps the types.
LEMMA TypeStep ==
    ASSUME TypeOK, [Next]_vars
    PROVE  TypeOK'
<1> USE DEF TypeOK
<1>1. CASE ExecuteSweeps
  <2>1. PICK indices \in Requests, hardware \in 0..MaxHardware, parallel \in BOOLEAN :
            counts' \in Counts /\ all' = FALSE /\ Begin(indices, hardware, parallel)
    BY <1>1 DEF ExecuteSweeps
  <2>2. indices \in Seq(Nat) /\ hardware \in Nat
    BY RequestsAssumption, HardwareAssumption
  <2> QED
    BY <2>1, <2>2, BeginType
<1>2. CASE ExecuteAllSweeps
  <2>1. PICK hardware \in 0..MaxHardware :
            /\ counts' \in Counts /\ all' = TRUE
            /\ Begin(AllIndices(counts'), hardware, TRUE)
    BY <1>2 DEF ExecuteAllSweeps, AllIndices
  <2>2. /\ hardware \in Nat /\ AllIndices(counts') \in Seq(Nat)
        /\ Len(AllIndices(counts')) = RequiredSteps(counts')
    BY <2>1, AllIndicesType, HardwareAssumption
  <2> QED
    BY <2>1, <2>2, BeginType
<1>3. CASE StartThreadFails
  BY <1>3, ChunksStay DEF StartThreadFails, threadVars
<1>4. CASE DivideByZero
  BY <1>4, ChunksStay DEF DivideByZero, threadVars
<1>5. CASE StartThread
  <2>1. threadsCount \in Nat \ {0} /\ next \in Threads
    BY <1>5 DEF StartThread, Threads
  <2>2. Start(next) \in Nat
    BY <2>1, Chunks
  <2>3. /\ thread' \in [Threads -> {"none", "loop", "resolve", "compute",
                                     "store", "finished", "joined"}]
        /\ slot' \in [Threads -> Nat]
        /\ next' \in Nat
    BY <1>5, <2>1, <2>2 DEF StartThread
  <2>4. UNCHANGED <<pc, callVars, model, done, results, data>>
    BY <1>5 DEF StartThread
  <2> QED
    BY <2>3, <2>4, ChunksStay
<1>6. CASE AllStarted
  BY <1>6, ChunksStay DEF AllStarted, threadVars
<1>7. CASE Join
  <2>1. thread' \in [Threads -> {"none", "loop", "resolve", "compute",
                                  "store", "finished", "joined"}]
    BY <1>7 DEF Join
  <2>3. next' \in Nat
    BY <1>7 DEF Join
  <2>2. UNCHANGED <<pc, callVars, slot, model, done, results, data>>
    BY <1>7 DEF Join
  <2> QED
    BY <2>1, <2>2, <2>3, ChunksStay
<1>8. CASE Return
  BY <1>8, ChunksStay DEF Return, threadVars
<1>9. ASSUME NEW t \in Threads, BeginSweep(t) PROVE TypeOK'
  BY <1>9, ChunksStay DEF BeginSweep
<1>10. ASSUME NEW t \in Threads, Resolve(t) PROVE TypeOK'
  BY <1>10, ChunksStay DEF Resolve
<1>11. ASSUME NEW t \in Threads, Compute(t) PROVE TypeOK'
  <2> DEFINE computed == IF compiled THEN Points ELSE done[t] + 1
  <2>1. computed \in Nat /\ results[t] \cup {model[t]} \in SUBSET (Nat \cup {Stale})
    BY PointsAssumption
  <2>2. /\ thread' \in [Threads -> {"none", "loop", "resolve", "compute",
                                     "store", "finished", "joined"}]
        /\ done' \in [Threads -> Nat]
        /\ results' \in [Threads -> SUBSET (Nat \cup {Stale})]
    BY <1>11, <2>1 DEF Compute
  <2>3. UNCHANGED <<pc, callVars, next, slot, model, data>>
    BY <1>11 DEF Compute
  <2> QED
    BY <2>2, <2>3, ChunksStay
<1>12. ASSUME NEW t \in Threads, Store(t) PROVE TypeOK'
  <2>1. /\ pc' \in {pc, "dead"}
        /\ thread' \in [Threads -> {"none", "loop", "resolve", "compute",
                                     "store", "finished", "joined"}]
        /\ slot' \in [Threads -> Nat]
    BY <1>12 DEF Store
  <2>2. data' \in [Slots -> SUBSET (Nat \cup {Stale})]
    BY <1>12 DEF Store
  <2>3. UNCHANGED <<callVars, next, model, done, results>>
    BY <1>12 DEF Store
  <2> QED
    BY <2>1, <2>2, <2>3, ChunksStay
<1>13. ASSUME NEW t \in Threads, Finish(t) PROVE TypeOK'
  BY <1>13, ChunksStay DEF Finish
<1>15. ASSUME NEW t \in Threads, ResolveDies(t) PROVE TypeOK'
  BY <1>15, ChunksStay DEF ResolveDies, threadVars
<1>14. CASE UNCHANGED vars
  BY <1>14, ChunksStay DEF vars, threadVars
<1> QED
  BY <1>1, <1>2, <1>3, <1>4, <1>5, <1>6, <1>7, <1>8, <1>9, <1>10, <1>11,
     <1>12, <1>13, <1>14, <1>15 DEF Next, CallerStep, ThreadStep

\* The caller starts with the types.
LEMMA TypeInit == Init => TypeOK
<1>1. Init => counts \in [Params -> 0..(Word - 1)] /\ all \in BOOLEAN
  BY CountsAssumption DEF Init
<1> QED
  BY <1>1 DEF Init, TypeOK, Threads, Slots, Stale

\* Every variable keeps its type, for all values of the constants.
THEOREM TypeCorrect == Spec => []TypeOK
<1>1. Init => TypeOK
  BY TypeInit
<1>2. TypeOK /\ [Next]_vars => TypeOK'
  BY TypeStep
<1> QED
  BY <1>1, <1>2, PTL DEF Spec

\* The slots are partitioned among the threads in every call.
THEOREM PartitionCorrect == Spec => []ChunksPartitionSlots
  BY TypeCorrect, PartitionHolds, PTL
-----------------------------------------------------------------------------
(***************************************************************************)
(* The inductive invariant.                                                *)
(***************************************************************************)
LEMMA InvInit == Init => IInv
<1> SUFFICES ASSUME Init PROVE IInv
  OBVIOUS
<1>1. Threads = {0} /\ Slots = {}
  BY DEF Init, Threads, Slots
<1>2. Start(0) = 0 /\ Stop(0) = 0
  BY DEF Init, Start, Stop, CountPerThread
<1> QED
  BY <1>1, <1>2 DEF Init, IInv, CallerInv, ThreadInv, DataInv, Working

\* A call that begins starts no thread and fills no slot.
LEMMA BeginInv ==
    ASSUME NEW indices \in Seq(Nat), NEW hardware \in Nat,
           NEW parallel \in BOOLEAN, Begin(indices, hardware, parallel),
           all' => Len(indices) = RequiredSteps(counts')
    PROVE  IInv'
<1> DEFINE n == Len(indices)
           m == ThreadsFor(n, hardware, parallel)
<1>1. n \in Nat /\ m \in Nat
  BY ThreadsForType
<1>2. count' = n /\ threadsCount' = m /\ pc' = "start" /\ next' = 0
  BY DEF Begin
<1>3. Threads' = 0..(m - 1) /\ Slots' = 0..(n - 1)
  BY <1>2 DEF Threads, Slots
<1>4. \A t \in Threads' : thread'[t] = "none" /\ slot'[t] = 0 /\ t >= 0
  BY <1>1, <1>3 DEF Begin
<1>5. \A k \in Slots' : data'[k] = {} /\ k >= 0 /\ k \in Int
  BY <1>1, <1>3 DEF Begin
<1>6. CallerInv'
  BY <1>1, <1>2, <1>4, <1>5 DEF CallerInv
<1>7. ThreadInv'
  BY <1>4 DEF ThreadInv, Working
<1>8. DataInv'
  <2>1. ASSUME NEW t \in Threads', NEW k \in Slots'
        PROVE  (data[k] = IF k < slot[t] THEN {k} ELSE {})'
    <3>1. slot'[t] = 0 /\ data'[k] = {} /\ k \in Int /\ k >= 0
      BY <1>4, <1>5
    <3> QED
      BY <3>1
  <2> QED
    BY <2>1 DEF DataInv
<1> QED
  BY <1>6, <1>7, <1>8 DEF IInv

\* A step that leaves the threads and the result alone keeps the two parts of
\* the invariant that are about them.
LEMMA ThreadsAlone ==
    ASSUME ThreadInv, DataInv, UNCHANGED <<callVars, threadVars, data>>
    PROVE  ThreadInv' /\ DataInv'
<1>1. /\ Threads' = Threads /\ Slots' = Slots
      /\ \A t \in Threads : Start(t)' = Start(t) /\ Stop(t)' = Stop(t)
  BY ChunksStay
<1> QED
  BY <1>1 DEF ThreadInv, DataInv, Working, threadVars

\* Nor does any step change which call it is.
LEMMA CallStays ==
    ASSUME IInv, UNCHANGED callVars
    PROVE  all' => count' = RequiredSteps(counts')
  BY DEF IInv, CallerInv, callVars

\* The caller's thread starts thread number next.
LEMMA StartThreadInv ==
    ASSUME TypeOK, IInv, StartThread
    PROVE  IInv'
<1>1. threadsCount \in Nat \ {0} /\ next \in Threads
  BY DEF StartThread, Threads, TypeOK
<1>2. /\ Threads' = Threads /\ Slots' = Slots /\ threadsCount' = threadsCount
      /\ \A t \in Threads : Start(t)' = Start(t) /\ Stop(t)' = Stop(t)
  BY ChunksStay DEF StartThread
<1>3. /\ thread[next] = "none"
      /\ Start(next) \in Nat /\ Start(next) <= Stop(next)
  BY <1>1, Chunks DEF StartThread, IInv, CallerInv, TypeOK
<1>4. /\ thread'[next] = "loop" /\ slot'[next] = Start(next)
      /\ \A t \in Threads \ {next} : thread'[t] = thread[t] /\ slot'[t] = slot[t]
  BY <1>1 DEF StartThread, TypeOK
<1>5. UNCHANGED <<model, results, data>>
  BY DEF StartThread
<1>6. CallerInv'
  <2>1. pc' = "start" /\ next' = next + 1 /\ next' <= threadsCount
    BY DEF StartThread, TypeOK
  <2>2. ASSUME NEW t \in Threads
        PROVE  (thread'[t] = "none" <=> next + 1 <= t) /\ thread'[t] # "joined"
    BY <1>1, <1>4 DEF IInv, CallerInv, StartThread, Threads, TypeOK
  <2>3. threadsCount # 0
    BY <1>1
  <2>4. all' => count' = RequiredSteps(counts')
    BY CallStays DEF StartThread
  <2> QED
    BY <1>2, <2>1, <2>2, <2>3, <2>4 DEF CallerInv
<1>7. ThreadInv'
  <2> SUFFICES ASSUME NEW t \in Threads
               PROVE  /\ thread'[t] = "none" => slot'[t] = 0
                      /\ thread'[t] # "none" =>
                            Start(t) <= slot'[t] /\ slot'[t] <= Stop(t)
                      /\ Working(t)' => slot'[t] < Stop(t)
                      /\ thread'[t] \in {"resolve", "compute"}
                            => results'[t] \in {{}, {slot'[t]}}
                      /\ thread'[t] = "compute" => model'[t] = slot'[t]
                      /\ thread'[t] = "store" => results'[t] = {slot'[t]}
                      /\ thread'[t] \in {"finished", "joined"}
                            => slot'[t] = Stop(t)
    BY <1>2 DEF ThreadInv
  <2>1. CASE t = next
    BY <1>3, <1>4, <2>1 DEF Working, TypeOK
  <2>2. CASE t # next
    BY <1>4, <1>5, <2>2 DEF Working, IInv, ThreadInv
  <2> QED
    BY <2>1, <2>2
<1>8. DataInv'
  <2> SUFFICES ASSUME NEW t \in Threads, NEW k \in Slots,
                      Start(t) <= k, k < Stop(t)
               PROVE  data'[k] = IF k < slot'[t] THEN {k} ELSE {}
    BY <1>2 DEF DataInv
  <2>1. data[k] = IF k < slot[t] THEN {k} ELSE {}
    BY DEF IInv, DataInv
  <2>2. CASE t = next
    <3>1. slot[t] = 0 /\ k \in Nat
      BY <1>3, <2>2, <1>1 DEF IInv, ThreadInv, Slots, TypeOK
    <3> QED
      BY <1>3, <1>4, <1>5, <2>1, <2>2, <3>1
  <2>3. CASE t # next
    BY <1>4, <1>5, <2>1, <2>3
  <2> QED
    BY <2>2, <2>3
<1> QED
  BY <1>6, <1>7, <1>8 DEF IInv

\* The caller's thread joins thread number next.
LEMMA JoinInv ==
    ASSUME TypeOK, IInv, Join
    PROVE  IInv'
<1>1. next \in Threads
  BY DEF Join, Threads, TypeOK
<1>2. /\ Threads' = Threads /\ Slots' = Slots /\ threadsCount' = threadsCount
      /\ \A t \in Threads : Start(t)' = Start(t) /\ Stop(t)' = Stop(t)
  BY ChunksStay DEF Join
<1>3. /\ thread[next] = "finished" /\ thread'[next] = "joined"
      /\ \A t \in Threads \ {next} : thread'[t] = thread[t]
  BY <1>1 DEF Join, TypeOK
<1>4. UNCHANGED <<slot, model, results, data>>
  BY DEF Join
<1>5. CallerInv'
  <2>1. pc' = "join" /\ next' = next + 1 /\ next' <= threadsCount
    BY DEF Join, TypeOK
  <2>2. ASSUME NEW t \in Threads
        PROVE  thread'[t] # "none" /\ (thread'[t] = "joined" <=> t < next + 1)
    BY <1>1, <1>3 DEF IInv, CallerInv, Join, Threads, TypeOK
  <2>3. threadsCount # 0
    BY <1>1 DEF Threads, TypeOK
  <2>4. all' => count' = RequiredSteps(counts')
    BY CallStays DEF Join
  <2> QED
    BY <1>2, <2>1, <2>2, <2>3, <2>4 DEF CallerInv
<1>6. ThreadInv'
  <2> SUFFICES ASSUME NEW t \in Threads
               PROVE  /\ thread'[t] = "none" => slot[t] = 0
                      /\ thread'[t] # "none" =>
                            Start(t) <= slot[t] /\ slot[t] <= Stop(t)
                      /\ Working(t)' => slot[t] < Stop(t)
                      /\ thread'[t] \in {"resolve", "compute"}
                            => results[t] \in {{}, {slot[t]}}
                      /\ thread'[t] = "compute" => model[t] = slot[t]
                      /\ thread'[t] = "store" => results[t] = {slot[t]}
                      /\ thread'[t] \in {"finished", "joined"}
                            => slot[t] = Stop(t)
    BY <1>2, <1>4 DEF ThreadInv
  <2>1. CASE t = next
    BY <1>3, <2>1 DEF Working, IInv, ThreadInv
  <2>2. CASE t # next
    BY <1>3, <2>2 DEF Working, IInv, ThreadInv
  <2> QED
    BY <2>1, <2>2
<1>7. DataInv'
  BY <1>2, <1>4 DEF DataInv, IInv
<1> QED
  BY <1>5, <1>6, <1>7 DEF IInv

\* What all steps of a thread have in common: only its own variables change,
\* it is not joined by its own doing, and the caller's thread stays put unless
\* the process dies.
LEMMA ThreadStepCallerInv ==
    ASSUME TypeOK, IInv, NEW t \in Threads,
           thread[t] \notin {"none", "joined"},
           thread'[t] \notin {"none", "joined"},
           \A u \in Threads \ {t} : thread'[u] = thread[u],
           pc' = pc, UNCHANGED <<callVars, next>>
    PROVE  CallerInv'
<1>1. Threads' = Threads /\ threadsCount' = threadsCount
  BY ChunksStay
<1>2. \A u \in Threads : /\ thread'[u] = "none" <=> thread[u] = "none"
                         /\ thread'[u] = "joined" <=> thread[u] = "joined"
  OBVIOUS
<1>3. threadsCount # 0
  BY DEF Threads, TypeOK
<1>4. all' => count' = RequiredSteps(counts')
  BY CallStays
<1> QED
  BY <1>1, <1>2, <1>3, <1>4 DEF CallerInv, IInv

\* The other threads do not notice a step of thread t.
LEMMA OtherThreads ==
    ASSUME TypeOK, IInv, NEW t \in Threads, UNCHANGED callVars,
           \A u \in Threads \ {t} :
               /\ thread'[u] = thread[u] /\ slot'[u] = slot[u]
               /\ model'[u] = model[u] /\ results'[u] = results[u],
           thread'[t] # "none",
           Start(t) <= slot'[t], slot'[t] <= Stop(t),
           Working(t)' => slot'[t] < Stop(t),
           thread'[t] \in {"resolve", "compute"}
               => results'[t] \in {{}, {slot'[t]}},
           thread'[t] = "compute" => model'[t] = slot'[t],
           thread'[t] = "store" => results'[t] = {slot'[t]},
           thread'[t] \in {"finished", "joined"} => slot'[t] = Stop(t)
    PROVE  ThreadInv'
<1>1. /\ Threads' = Threads
      /\ \A u \in Threads : Start(u)' = Start(u) /\ Stop(u)' = Stop(u)
  BY ChunksStay
<1> SUFFICES ASSUME NEW u \in Threads
             PROVE  /\ thread'[u] = "none" => slot'[u] = 0
                    /\ thread'[u] # "none" =>
                          Start(u) <= slot'[u] /\ slot'[u] <= Stop(u)
                    /\ Working(u)' => slot'[u] < Stop(u)
                    /\ thread'[u] \in {"resolve", "compute"}
                          => results'[u] \in {{}, {slot'[u]}}
                    /\ thread'[u] = "compute" => model'[u] = slot'[u]
                    /\ thread'[u] = "store" => results'[u] = {slot'[u]}
                    /\ thread'[u] \in {"finished", "joined"}
                          => slot'[u] = Stop(u)
  BY <1>1 DEF ThreadInv
<1>2. CASE u = t
  BY <1>2
<1>3. CASE u # t
  BY <1>3 DEF Working, IInv, ThreadInv
<1> QED
  BY <1>2, <1>3

\* The slot of a thread at work, and the chunks, are numbers.
LEMMA ThreadNumbers ==
    ASSUME TypeOK, NEW t \in Threads
    PROVE  /\ threadsCount \in Nat \ {0} /\ slot[t] \in Nat
           /\ Start(t) \in Nat /\ Stop(t) \in Nat
           /\ Start(t) <= Stop(t) /\ Stop(t) <= count
<1>1. threadsCount \in Nat \ {0} /\ slot[t] \in Nat
  BY DEF TypeOK, Threads
<1> QED
  BY <1>1, Chunks DEF TypeOK

\* A step of a thread that stores nothing keeps what is said of the result.
LEMMA DataAlone ==
    ASSUME DataInv, UNCHANGED <<callVars, slot, data>>
    PROVE  DataInv'
  BY ChunksStay DEF DataInv

\* A thread that turns to its next spectrum keeps the invariant.
LEMMA BeginSweepInv ==
    ASSUME TypeOK, IInv, NEW t \in Threads, BeginSweep(t)
    PROVE  IInv'
<1> USE DEF BeginSweep
<1>1. /\ thread[t] = "loop" /\ thread'[t] = "resolve" /\ results'[t] = {}
      /\ slot[t] < Stop(t) /\ slot' = slot
      /\ \A u \in Threads \ {t} : /\ thread'[u] = thread[u]
                                  /\ results'[u] = results[u]
  BY DEF TypeOK
<1>2. Start(t) <= slot[t] /\ slot[t] <= Stop(t)
  BY <1>1 DEF IInv, ThreadInv
<1>3. CallerInv'
  BY <1>1, ThreadStepCallerInv
<1>4. ThreadInv'
  BY <1>1, <1>2, OtherThreads
<1>5. DataInv'
  BY DataAlone DEF IInv
<1> QED
  BY <1>3, <1>4, <1>5 DEF IInv

\* A thread that resolves its index keeps the invariant.
LEMMA ResolveInv ==
    ASSUME TypeOK, IInv, NEW t \in Threads, Resolve(t)
    PROVE  IInv'
<1> USE DEF Resolve
<1>1. /\ thread[t] = "resolve" /\ thread'[t] = "compute"
      /\ model'[t] = slot[t] /\ slot' = slot /\ results' = results
      /\ \A u \in Threads \ {t} : /\ thread'[u] = thread[u]
                                  /\ model'[u] = model[u]
  BY DEF TypeOK
<1>2. /\ Start(t) <= slot[t] /\ slot[t] <= Stop(t) /\ slot[t] < Stop(t)
      /\ results[t] \in {{}, {slot[t]}}
  BY <1>1 DEF IInv, ThreadInv, Working
<1>3. CallerInv'
  BY <1>1, ThreadStepCallerInv
<1>4. ThreadInv'
  BY <1>1, <1>2, OtherThreads
<1>5. DataInv'
  BY DataAlone DEF IInv
<1> QED
  BY <1>3, <1>4, <1>5 DEF IInv

\* A thread that takes the process down leaves all else as it is.
LEMMA ResolveDiesInv ==
    ASSUME TypeOK, IInv, NEW t \in Threads, ResolveDies(t)
    PROVE  IInv'
<1>1. CallerInv'
  <2>1. /\ Threads' = Threads /\ threadsCount' = threadsCount
        /\ count' = count /\ counts' = counts /\ all' = all
    BY ChunksStay DEF ResolveDies
  <2>2. threadsCount # 0 /\ pc' = "dead"
    BY DEF ResolveDies, Threads, TypeOK
  <2> QED
    BY <2>1, <2>2 DEF CallerInv, IInv
<1> QED
  BY <1>1, ThreadsAlone DEF ResolveDies, IInv

\* A thread that computes a spectrum keeps the invariant.
LEMMA ComputeInv ==
    ASSUME TypeOK, IInv, NEW t \in Threads, Compute(t)
    PROVE  IInv'
<1> USE DEF Compute
<1>1. /\ thread[t] = "compute" /\ thread'[t] \in {"store", "resolve"}
      /\ results'[t] = results[t] \cup {model[t]}
      /\ slot' = slot /\ model' = model
      /\ \A u \in Threads \ {t} : /\ thread'[u] = thread[u]
                                  /\ results'[u] = results[u]
  BY DEF TypeOK
<1>2. /\ Start(t) <= slot[t] /\ slot[t] <= Stop(t) /\ slot[t] < Stop(t)
      /\ results[t] \in {{}, {slot[t]}} /\ model[t] = slot[t]
  BY <1>1 DEF IInv, ThreadInv, Working
<1>3. results'[t] = {slot[t]}
  BY <1>1, <1>2
<1>4. CallerInv'
  BY <1>1, ThreadStepCallerInv
<1>5. ThreadInv'
  BY <1>1, <1>2, <1>3, OtherThreads
<1>6. DataInv'
  BY DataAlone DEF IInv
<1> QED
  BY <1>4, <1>5, <1>6 DEF IInv

\* A thread that ends keeps the invariant.
LEMMA FinishInv ==
    ASSUME TypeOK, IInv, NEW t \in Threads, Finish(t)
    PROVE  IInv'
<1> USE DEF Finish
<1>1. /\ thread[t] = "loop" /\ thread'[t] = "finished" /\ slot' = slot
      /\ slot[t] >= Stop(t)
      /\ \A u \in Threads \ {t} : thread'[u] = thread[u]
  BY DEF TypeOK
<1>2. Start(t) <= slot[t] /\ slot[t] <= Stop(t) /\ slot[t] = Stop(t)
  BY <1>1, ThreadNumbers DEF IInv, ThreadInv
<1>3. CallerInv'
  BY <1>1, ThreadStepCallerInv
<1>4. ThreadInv'
  BY <1>1, <1>2, OtherThreads DEF Working
<1>5. DataInv'
  BY DataAlone DEF IInv
<1> QED
  BY <1>3, <1>4, <1>5 DEF IInv

\* What the thread that stores a spectrum knows: the slot is its own, it
\* exists and it is empty, and the spectrum is the one that belongs there.
LEMMA StoreReady ==
    ASSUME TypeOK, IInv, NEW t \in Threads, thread[t] = "store"
    PROVE  /\ Start(t) <= slot[t] /\ slot[t] < Stop(t)
           /\ slot[t] \in Slots
           /\ data[slot[t]] = {}
           /\ results[t] = {slot[t]}
<1>1. /\ Start(t) <= slot[t] /\ slot[t] < Stop(t) /\ results[t] = {slot[t]}
  BY DEF IInv, ThreadInv, Working
<1>2. slot[t] \in Slots
  BY <1>1, ThreadNumbers DEF Slots, TypeOK
<1>3. data[slot[t]] = {}
  BY <1>1, <1>2, ThreadNumbers DEF IInv, DataInv
<1> QED
  BY <1>1, <1>2, <1>3

\* A thread that stores its spectrum keeps the invariant.
LEMMA StoreInv ==
    ASSUME TypeOK, IInv, NEW t \in Threads, Store(t)
    PROVE  IInv'
<1> USE DEF Store
<1>1. /\ Start(t) <= slot[t] /\ slot[t] < Stop(t) /\ slot[t] \in Slots
      /\ results[t] = {slot[t]}
  BY StoreReady
<1>2. /\ thread[t] = "store" /\ thread'[t] = "loop"
      /\ slot'[t] = slot[t] + 1 /\ pc' = pc
      /\ \A u \in Threads \ {t} : thread'[u] = thread[u] /\ slot'[u] = slot[u]
  BY <1>1 DEF TypeOK
<1>3. CallerInv'
  BY <1>2, ThreadStepCallerInv
<1>4. ThreadInv'
  <2>1. Start(t) <= slot'[t] /\ slot'[t] <= Stop(t)
    BY <1>1, <1>2, ThreadNumbers
  <2> QED
    BY <1>2, <2>1, OtherThreads DEF Working
<1>5. DataInv'
  <2>1. /\ Threads' = Threads /\ Slots' = Slots
        /\ \A u \in Threads : Start(u)' = Start(u) /\ Stop(u)' = Stop(u)
    BY ChunksStay
  <2> SUFFICES ASSUME NEW u \in Threads, NEW k \in Slots,
                      Start(u) <= k, k < Stop(u)
               PROVE  data'[k] = IF k < slot'[u] THEN {k} ELSE {}
    BY <2>1 DEF DataInv
  <2>2. data[k] = IF k < slot[u] THEN {k} ELSE {}
    BY DEF IInv, DataInv
  <2>3. /\ k \in Nat /\ slot[t] \in Nat /\ slot[u] \in Nat
        /\ Start(u) \in Nat /\ Stop(u) \in Nat
        /\ Start(t) \in Nat /\ Stop(t) \in Nat
    BY ThreadNumbers DEF Slots, TypeOK
  <2>4. data'[k] = IF k = slot[t] THEN {slot[t]} ELSE data[k]
    BY <1>1
  <2>5. CASE u = t
    BY <1>2, <2>2, <2>3, <2>4, <2>5
  <2>6. CASE u # t
    <3>1. u < t => Stop(u) <= Start(t)
      BY ThreadNumbers, Chunks DEF TypeOK
    <3>2. t < u => Stop(t) <= Start(u)
      BY ThreadNumbers, Chunks DEF TypeOK
    <3>3. u < t \/ t < u
      BY <2>6 DEF Threads, TypeOK
    <3>4. k # slot[t]
      BY <1>1, <2>3, <3>1, <3>2, <3>3
    <3> QED
      BY <1>2, <2>2, <2>4, <2>6, <3>4
  <2> QED
    BY <2>5, <2>6
<1> QED
  BY <1>3, <1>4, <1>5 DEF IInv

\* Every step keeps the invariant.
LEMMA InvStep ==
    ASSUME TypeOK, IInv, [Next]_vars
    PROVE  IInv'
<1>1. CASE ExecuteSweeps
  <2>1. PICK indices \in Requests, hardware \in 0..MaxHardware, parallel \in BOOLEAN :
            all' = FALSE /\ Begin(indices, hardware, parallel)
    BY <1>1 DEF ExecuteSweeps
  <2>2. indices \in Seq(Nat) /\ hardware \in Nat
    BY RequestsAssumption, HardwareAssumption
  <2> QED
    BY <2>1, <2>2, BeginInv
<1>2. CASE ExecuteAllSweeps
  <2>1. PICK hardware \in 0..MaxHardware :
            /\ counts' \in Counts /\ all' = TRUE
            /\ Begin(AllIndices(counts'), hardware, TRUE)
    BY <1>2 DEF ExecuteAllSweeps, AllIndices
  <2>2. /\ hardware \in Nat /\ AllIndices(counts') \in Seq(Nat)
        /\ Len(AllIndices(counts')) = RequiredSteps(counts')
    BY <2>1, AllIndicesType, HardwareAssumption
  <2> QED
    BY <2>1, <2>2, BeginInv
<1>3. CASE StartThreadFails
  <2>1. CallerInv'
    <3>1. /\ Threads' = Threads /\ threadsCount' = threadsCount
          /\ thread' = thread /\ Slots' = Slots /\ data' = data
      BY <1>3, ChunksStay DEF StartThreadFails, threadVars
    <3>2. pc' \in {"threw", "dead"} /\ (pc' = "threw" => threadsCount # 0)
      BY <1>3 DEF StartThreadFails, TypeOK
    <3>3. all' => count' = RequiredSteps(counts')
      BY <1>3, CallStays DEF StartThreadFails
    <3> QED
      BY <3>1, <3>2, <3>3 DEF CallerInv, IInv
  <2> QED
    BY <1>3, <2>1, ThreadsAlone DEF StartThreadFails, IInv
<1>4. CASE DivideByZero
  <2>1. CallerInv'
    BY <1>4, ChunksStay DEF DivideByZero, CallerInv, IInv
  <2> QED
    BY <1>4, <2>1, ThreadsAlone DEF DivideByZero, IInv
<1>5. CASE StartThread
  BY <1>5, StartThreadInv
<1>6. CASE AllStarted
  <2>1. CallerInv'
    <3>1. /\ Threads' = Threads /\ threadsCount' = threadsCount
          /\ thread' = thread /\ Slots' = Slots /\ data' = data
      BY <1>6, ChunksStay DEF AllStarted, threadVars
    <3>2. \A t \in Threads : thread[t] # "none" /\ thread[t] # "joined" /\ ~(t < 0)
      BY <1>6 DEF AllStarted, IInv, CallerInv, Threads, TypeOK
    <3>3. all' => count' = RequiredSteps(counts')
      BY <1>6, CallStays DEF AllStarted
    <3> QED
      BY <1>6, <3>1, <3>2, <3>3 DEF AllStarted, CallerInv, TypeOK
  <2> QED
    BY <1>6, <2>1, ThreadsAlone DEF AllStarted, IInv
<1>7. CASE Join
  BY <1>7, JoinInv
<1>8. CASE Return
  <2>1. CallerInv'
    <3>1. /\ Threads' = Threads /\ threadsCount' = threadsCount
          /\ thread' = thread /\ Slots' = Slots /\ data' = data
      BY <1>8, ChunksStay DEF Return, threadVars
    <3>2. \A t \in Threads : thread[t] = "joined"
      BY <1>8 DEF Return, IInv, CallerInv, Threads, TypeOK
    <3>3. threadsCount # 0
      BY <1>8 DEF Return, IInv, CallerInv
    <3>4. all' => count' = RequiredSteps(counts')
      BY <1>8, CallStays DEF Return
    <3> QED
      BY <1>8, <3>1, <3>2, <3>3, <3>4 DEF Return, CallerInv
  <2> QED
    BY <1>8, <2>1, ThreadsAlone DEF Return, IInv
<1>9. ASSUME NEW t \in Threads, ThreadStep(t) PROVE IInv'
  BY <1>9, BeginSweepInv, ResolveInv, ResolveDiesInv, ComputeInv, StoreInv, FinishInv
     DEF ThreadStep
<1>10. CASE UNCHANGED vars
  <2>1. CallerInv'
    BY <1>10, ChunksStay DEF vars, threadVars, CallerInv, IInv
  <2> QED
    BY <1>10, <2>1, ThreadsAlone DEF vars, IInv
<1> QED
  BY <1>1, <1>2, <1>3, <1>4, <1>5, <1>6, <1>7, <1>8, <1>9, <1>10
     DEF Next, CallerStep

\* The inductive invariant holds, for all values of the constants.
THEOREM InvariantCorrect == Spec => []Inv
<1>1. Init => TypeOK /\ IInv
  BY TypeInit, InvInit
<1>2. TypeOK /\ IInv /\ [Next]_vars => (TypeOK /\ IInv)'
  BY TypeStep, InvStep
<1> QED
  BY <1>1, <1>2, PTL DEF Spec, Inv
-----------------------------------------------------------------------------
(***************************************************************************)
(* The safety properties follow from it.                                   *)
(***************************************************************************)
\* No slot is ever worked on by two threads, nor one that does not exist.
THEOREM RaceFree == Spec => []NoDataRace
<1>1. TypeOK /\ IInv => NoDataRace
  <2> SUFFICES ASSUME TypeOK, IInv, NEW t \in Threads, Working(t)
               PROVE  /\ slot[t] \in Slots
                      /\ \A u \in Threads \ {t} : Working(u) => slot[u] # slot[t]
    BY DEF NoDataRace
  <2>1. \A u \in Threads : Working(u) => Start(u) <= slot[u] /\ slot[u] < Stop(u)
    BY DEF IInv, ThreadInv, Working
  <2>2. slot[t] \in Slots
    BY <2>1, ThreadNumbers DEF Slots, TypeOK
  <2>3. ASSUME NEW u \in Threads \ {t}, Working(u)
        PROVE  slot[u] # slot[t]
    <3>1. /\ u < t => Stop(u) <= Start(t)
          /\ t < u => Stop(t) <= Start(u)
      BY ThreadNumbers, Chunks DEF TypeOK
    <3>2. u < t \/ t < u
      BY DEF Threads, TypeOK
    <3> QED
      BY <2>1, <2>3, <3>1, <3>2, ThreadNumbers
  <2> QED
    BY <2>2, <2>3
<1> QED
  BY <1>1, InvariantCorrect, PTL DEF Inv

\* Every spectrum ever stored was computed at the index of its slot alone.
THEOREM SpectraCorrect == Spec => []SpectrumOfItsIndex
<1>1. TypeOK /\ IInv => SpectrumOfItsIndex
  <2> SUFFICES ASSUME TypeOK, IInv, NEW k \in Slots
               PROVE  data[k] \in {{}, {k}}
    BY DEF SpectrumOfItsIndex
  <2>1. CASE threadsCount # 0
    <3>1. PICK t \in Threads : Start(t) <= k /\ k < Stop(t)
      BY <2>1, EverySlotHasThread DEF TypeOK
    <3> QED
      BY <3>1 DEF IInv, DataInv
  <2>2. CASE threadsCount = 0
    BY <2>2 DEF IInv, CallerInv
  <2> QED
    BY <2>1, <2>2
<1> QED
  BY <1>1, InvariantCorrect, PTL DEF Inv

\* When every thread is joined its chunk is full, so the result is complete.
LEMMA JoinedComplete ==
    ASSUME TypeOK, IInv, threadsCount # 0,
           \A t \in Threads : thread[t] = "joined",
           NEW k \in Slots
    PROVE  data[k] = {k}
<1>1. PICK t \in Threads : Start(t) <= k /\ k < Stop(t)
  BY EverySlotHasThread DEF TypeOK
<1>2. slot[t] = Stop(t)
  BY DEF IInv, ThreadInv
<1> QED
  BY <1>1, <1>2 DEF IInv, DataInv

\* A call that has returned has filled every slot and joined every thread.
THEOREM CompleteOnReturn == Spec => []ReturnedComplete
<1>1. TypeOK /\ IInv => ReturnedComplete
  <2> SUFFICES ASSUME TypeOK, IInv, pc = "returned"
               PROVE  /\ \A k \in Slots : data[k] = {k}
                      /\ \A t \in Threads : thread[t] = "joined"
    BY DEF ReturnedComplete
  <2>1. threadsCount # 0 /\ \A t \in Threads : thread[t] = "joined"
    BY DEF IInv, CallerInv
  <2> QED
    BY <2>1, JoinedComplete
<1> QED
  BY <1>1, InvariantCorrect, PTL DEF Inv

\* Before the first thread is started nothing is stored.
LEMMA NothingStored ==
    ASSUME TypeOK, IInv, pc = "start", next = 0, NEW k \in Slots
    PROVE  data[k] = {}
<1>1. CASE threadsCount = 0
  BY <1>1 DEF IInv, CallerInv
<1>2. CASE threadsCount # 0
  <2>1. PICK t \in Threads : Start(t) <= k /\ k < Stop(t)
    BY <1>2, EverySlotHasThread DEF TypeOK
  <2>2. thread[t] = "none"
    <3>1. t >= 0 /\ t \in Int
      BY DEF Threads, TypeOK
    <3> QED
      BY <3>1 DEF IInv, CallerInv
  <2>3. slot[t] = 0 /\ k \in Nat
    BY <2>2 DEF IInv, ThreadInv, Slots, TypeOK
  <2>4. data[k] = IF k < slot[t] THEN {k} ELSE {}
    BY <2>1 DEF IInv, DataInv
  <2> QED
    BY <2>3, <2>4
<1> QED
  BY <1>1, <1>2

\* The step simulation: a step of the threaded call is a step of SweepCall or
\* leaves all that SweepCall knows of unchanged.
LEMMA StepSimulation ==
    ASSUME TypeOK, IInv, [Next]_vars
    PROVE  [Abstract!Next]_(Abstract!vars)
<1> USE DEF Alive
<1>1. ASSUME NEW indices \in Seq(Nat), NEW hardware \in Nat,
             NEW parallel \in BOOLEAN, Begin(indices, hardware, parallel)
      PROVE  Abstract!Call
  BY <1>1 DEF Begin, Abstract!Call
<1>2. CASE ExecuteSweeps
  BY <1>1, <1>2, RequestsAssumption, HardwareAssumption
     DEF ExecuteSweeps, Abstract!Next
<1>3. CASE ExecuteAllSweeps
  <2>1. PICK hardware \in 0..MaxHardware :
            /\ counts' \in Counts /\ all' = TRUE
            /\ Begin(AllIndices(counts'), hardware, TRUE)
    BY <1>3 DEF ExecuteAllSweeps, AllIndices
  <2>2. /\ hardware \in Nat /\ AllIndices(counts') \in Seq(Nat)
        /\ Len(AllIndices(counts')) = RequiredSteps(counts')
    BY <2>1, AllIndicesType, HardwareAssumption
  <2> QED
    BY <1>1, <2>1, <2>2 DEF Abstract!Next
<1>4. CASE StartThreadFails
  <2>1. CASE next = 0
    <3>1. \A k \in Slots : data[k] = {}
      BY <1>4, <2>1, NothingStored DEF StartThreadFails
    <3>2. Abstract!Throw
      BY <1>4, <2>1, <3>1
         DEF StartThreadFails, Abstract!Throw, Abstract!Slots, Slots, callVars
    <3> QED
      BY <3>2 DEF Abstract!Next
  <2>2. CASE next # 0
    <3>1. Abstract!Die
      BY <1>4, <2>2 DEF StartThreadFails, Abstract!Die, callVars
    <3> QED
      BY <3>1 DEF Abstract!Next
  <2> QED
    BY <2>1, <2>2
<1>5. CASE DivideByZero
  <2>1. Abstract!Die
    BY <1>5 DEF DivideByZero, Abstract!Die, callVars
  <2> QED
    BY <2>1 DEF Abstract!Next
<1>6. CASE StartThread
  BY <1>6 DEF StartThread, Abstract!vars, callVars
<1>7. CASE AllStarted
  BY <1>7 DEF AllStarted, Abstract!vars, callVars
<1>8. CASE Join
  BY <1>8 DEF Join, Abstract!vars, callVars
<1>9. CASE Return
  <2>1. threadsCount # 0 /\ \A t \in Threads : thread[t] = "joined"
    BY <1>9 DEF Return, IInv, CallerInv, Threads, TypeOK
  <2>2. \A k \in Slots : data[k] = {k}
    BY <2>1, JoinedComplete
  <2>3. Abstract!Return
    BY <1>9, <2>2
       DEF Return, Abstract!Return, Abstract!Slots, Slots, callVars
  <2> QED
    BY <2>3 DEF Abstract!Next
<1>10. ASSUME NEW t \in Threads, Store(t)
       PROVE  Abstract!Next
  <2>1. slot[t] \in Slots /\ data[slot[t]] = {} /\ results[t] = {slot[t]}
    BY <1>10, StoreReady DEF Store
  <2>2. data' = [data EXCEPT ![slot[t]] = {slot[t]}]
    BY <1>10, <2>1 DEF Store, TypeOK
  <2>3. Abstract!Fill(slot[t])
    BY <1>10, <2>1, <2>2 DEF Store, Abstract!Fill, callVars
  <2> QED
    BY <2>1, <2>3 DEF Abstract!Next, Abstract!Slots, Slots
<1>11. ASSUME NEW t \in Threads,
              BeginSweep(t) \/ Resolve(t) \/ Compute(t) \/ Finish(t)
       PROVE  UNCHANGED Abstract!vars
  BY <1>11 DEF BeginSweep, Resolve, Compute, Finish, Abstract!vars, callVars
<1>12. CASE UNCHANGED vars
  BY <1>12 DEF vars, Abstract!vars, callVars
<1>13. ASSUME NEW t \in Threads, ResolveDies(t)
       PROVE  Abstract!Next
  <2>1. Abstract!Die
    BY <1>13 DEF ResolveDies, Abstract!Die, callVars
  <2> QED
    BY <2>1 DEF Abstract!Next
<1> QED
  BY <1>2, <1>3, <1>4, <1>5, <1>6, <1>7, <1>8, <1>9, <1>10, <1>11, <1>12, <1>13
     DEF Next, CallerStep, ThreadStep

\* The threaded call implements SweepCall.
THEOREM Implementation == Spec => ImplementsSweepCall
<1>1. Init => Abstract!Init
  BY DEF Init, Alive, Slots, Abstract!Init, Abstract!Slots
<1>2. TypeOK /\ IInv /\ [Next]_vars => [Abstract!Next]_(Abstract!vars)
  BY StepSimulation
<1> QED
  BY <1>1, <1>2, InvariantCorrect, PTL DEF Inv, Spec, Abstract!Spec, ImplementsSweepCall

\* A slot, once filled, is left alone until the call has returned.
THEOREM FilledOnce == Spec => SlotFilledOnce
<1> DEFINE A == Alive => \A k \in Slots : data[k] # {} => data'[k] = data[k]
<1>1. TypeOK /\ IInv /\ [Next]_vars => A
  <2> SUFFICES ASSUME TypeOK, IInv, [Next]_vars, Alive,
                      NEW k \in Slots, data[k] # {}
               PROVE  data'[k] = data[k]
    OBVIOUS
  <2>1. CASE ExecuteSweeps \/ ExecuteAllSweeps
    BY <2>1 DEF ExecuteSweeps, ExecuteAllSweeps, Begin, Alive
  <2>2. CASE StartThreadFails \/ CallerStep \/ UNCHANGED vars
    BY <2>2 DEF StartThreadFails, CallerStep, DivideByZero, StartThread,
                AllStarted, Join, Return, vars
  <2>3. ASSUME NEW t \in Threads, Store(t)
        PROVE  data'[k] = data[k]
    <3>1. data[slot[t]] = {}
      BY <2>3, StoreReady DEF Store
    <3> QED
      BY <2>3, <3>1 DEF Store
  <2>4. ASSUME NEW t \in Threads,
               \/ BeginSweep(t) \/ Resolve(t) \/ ResolveDies(t)
               \/ Compute(t) \/ Finish(t)
        PROVE  data'[k] = data[k]
    BY <2>4 DEF BeginSweep, Resolve, ResolveDies, Compute, Finish
  <2> QED
    BY <2>1, <2>2, <2>3, <2>4 DEF Next, ThreadStep
<1> QED
  BY <1>1, InvariantCorrect, PTL DEF Inv, Spec, SlotFilledOnce

\* A sweep with combinations has no place magnitude of 0.
LEMMA ZeroPlaceZeroSteps ==
    ASSUME NEW c \in [Params -> 0..(Word - 1)], NEW k, DividesByZero(c, k)
    PROVE  k # 0 /\ RequiredSteps(c) = 0
<1>1. PICK p \in Params : PlaceMagnitude(c)[p] = 0
  BY DEF DividesByZero
<1>2. p - 1 \in 0..NumParams /\ WordProducts(c, NumParams, Word)[p - 1] = 0
  BY <1>1, IndexAssumption DEF PlaceMagnitude, Params
<1>3. c \in [1..NumParams -> Nat]
  BY IndexAssumption DEF Params
<1>4. WordProducts(c, NumParams, Word)[NumParams] = 0
  BY <1>2, <1>3, IndexAssumption, WordProductsZero
<1> QED
  BY <1>4 DEF DividesByZero, RequiredSteps

\* A thread that dies works on a later slot of a sweep without combinations,
\* which executeAllSweeps gives no slots.
LEMMA ResolveDiesOnly ==
    ASSUME TypeOK, IInv, NEW t \in Threads, ResolveDies(t)
    PROVE  ~all /\ RequiredSteps(counts) = 0 /\ thread[t] = "resolve" /\ slot[t] > 0
<1>1. slot[t] # 0 /\ RequiredSteps(counts) = 0 /\ thread[t] = "resolve"
  BY ZeroPlaceZeroSteps DEF ResolveDies, TypeOK
<1>2. /\ slot[t] \in Nat /\ Stop(t) \in Nat /\ count \in Nat
      /\ slot[t] < Stop(t) /\ Stop(t) <= count
  BY <1>1, ThreadNumbers DEF IInv, ThreadInv, Working, TypeOK
<1>3. ~all
  BY <1>1, <1>2 DEF IInv, CallerInv
<1> QED
  BY <1>1, <1>2, <1>3

\* What takes the process down, for every number of threads and all counts: a
\* thread that can not be started, no hardware, or a later slot of a sweep
\* without combinations; executeAllSweeps never dies in a thread.
THEOREM DiesCorrect == Spec => DiesOnlyOfThese
<1> DEFINE A == pc # "dead" /\ pc' = "dead" =>
              /\ data' = data /\ thread' = thread
              /\ \/ pc = "start" /\ threadsCount = 0
                 \/ pc = "start" /\ 0 < next /\ next < threadsCount
                 \/ /\ ~all /\ RequiredSteps(counts) = 0
                    /\ \E t \in Threads : thread[t] = "resolve" /\ slot[t] > 0
<1>1. TypeOK /\ IInv /\ [Next]_vars => A
  <2> SUFFICES ASSUME TypeOK, IInv, [Next]_vars, pc # "dead", pc' = "dead"
               PROVE  /\ data' = data /\ thread' = thread
                      /\ \/ pc = "start" /\ threadsCount = 0
                         \/ pc = "start" /\ 0 < next /\ next < threadsCount
                         \/ /\ ~all /\ RequiredSteps(counts) = 0
                            /\ \E t \in Threads :
                                  thread[t] = "resolve" /\ slot[t] > 0
    OBVIOUS
  <2>1. CASE ExecuteSweeps \/ ExecuteAllSweeps
    BY <2>1 DEF ExecuteSweeps, ExecuteAllSweeps, Begin
  <2>2. CASE StartThreadFails
    BY <2>2 DEF StartThreadFails, threadVars, TypeOK
  <2>3. CASE DivideByZero
    BY <2>3 DEF DivideByZero, threadVars
  <2>4. CASE StartThread \/ AllStarted \/ Join \/ Return \/ UNCHANGED vars
    BY <2>4 DEF StartThread, AllStarted, Join, Return, vars
  <2>5. ASSUME NEW t \in Threads, Store(t)
        PROVE  FALSE
    BY <2>5, StoreReady DEF Store
  <2>6. ASSUME NEW t \in Threads,
               BeginSweep(t) \/ Resolve(t) \/ Compute(t) \/ Finish(t)
        PROVE  FALSE
    BY <2>6 DEF BeginSweep, Resolve, Compute, Finish
  <2>7. ASSUME NEW t \in Threads, ResolveDies(t)
        PROVE  /\ data' = data /\ thread' = thread
               /\ ~all /\ RequiredSteps(counts) = 0
               /\ thread[t] = "resolve" /\ slot[t] > 0
    BY <2>7, ResolveDiesOnly DEF ResolveDies, threadVars
  <2> QED
    BY <2>1, <2>2, <2>3, <2>4, <2>5, <2>6, <2>7 DEF Next, CallerStep, ThreadStep
<1> QED
  BY <1>1, InvariantCorrect, PTL DEF Inv, Spec, DiesOnlyOfThese
=============================================================================

------------------------- MODULE ParallelSweepProps -------------------------
(***************************************************************************)
(* What the threaded sweeps have to get right.                             *)
(***************************************************************************)
EXTENDS ParallelSweep

\* Every variable keeps its type.
TypeOK ==
    /\ pc \in {"idle", "start", "join", "returned", "threw", "dead"}
    /\ counts \in [Params -> 0..(Word - 1)]
    /\ all \in BOOLEAN
    /\ requested \in Seq(Nat)
    /\ count \in Nat
    /\ threadsCount \in Nat
    /\ compiled \in BOOLEAN
    /\ next \in Nat
    /\ thread \in [Threads -> {"none", "loop", "resolve", "compute", "store",
                               "finished", "joined"}]
    /\ slot \in [Threads -> Nat]
    /\ model \in [Threads -> Nat \cup {Stale}]
    /\ done \in [Threads -> Nat]
    /\ results \in [Threads -> SUBSET (Nat \cup {Stale})]
    /\ data \in [Slots -> SUBSET (Nat \cup {Stale})]

\* The chunks of the threads cover the slots and do not overlap: every slot
\* belongs to exactly one thread, and no chunk reaches past the last slot.
ChunksPartitionSlots ==
    threadsCount > 0 =>
        /\ \A k \in Slots : \E t \in Threads :
              /\ Start(t) <= k /\ k < Stop(t)
              /\ \A u \in Threads \ {t} : ~(Start(u) <= k /\ k < Stop(u))
        /\ \A t \in Threads : Start(t) <= Stop(t) /\ Stop(t) <= count

\* A thread that is at work on a slot.
Working(t) == thread[t] \in {"resolve", "compute", "store"}

\* No two threads ever work on one slot of the result, the vector of spectra
\* they share without a lock, and none on a slot that does not exist.
NoDataRace ==
    \A t \in Threads : Working(t) =>
        /\ slot[t] \in Slots
        /\ \A u \in Threads \ {t} : Working(u) => slot[u] # slot[t]

\* Every spectrum in the result was computed at the index of its slot, at all
\* of its frequencies: no point comes from a stale copy of the model, from a
\* copy resolved for another spectrum, or from a half done sweep.
SpectrumOfItsIndex == \A k \in Slots : data[k] \in {{}, {k}}

\* When the call returns the result is complete and every thread is joined:
\* none can write to the vector after the caller has it.
ReturnedComplete ==
    pc = "returned" =>
        /\ \A k \in Slots : data[k] = {k}
        /\ \A t \in Threads : thread[t] = "joined"

\* A slot, once filled, is left alone until the call has returned.
SlotFilledOnce ==
    [][ Alive => \A k \in Slots : data[k] # {} => data'[k] = data[k] ]_vars

\* What takes the process down: a thread that can not be started when others
\* run, a hardware_concurrency() of 0, and, in a thread, a slot other than the
\* first of a sweep that has no combinations, because a count is 0 or the
\* product of the counts wraps to 0.  executeAllSweeps, which stays below the
\* product, never dies in a thread; data->at() never throws; and nothing is
\* stored on the way down.
DiesOnlyOfThese ==
    [][ pc # "dead" /\ pc' = "dead" =>
            /\ data' = data /\ thread' = thread
            /\ \/ pc = "start" /\ threadsCount = 0
               \/ pc = "start" /\ 0 < next /\ next < threadsCount
               \/ /\ ~all /\ RequiredSteps(counts) = 0
                  /\ \E t \in Threads : thread[t] = "resolve" /\ slot[t] > 0 ]_vars

\* The threaded call is an implementation of SweepCall.
Abstract == INSTANCE SweepCall WITH
    state <- IF Alive THEN "working" ELSE pc,
    count <- count,
    data <- data

ImplementsSweepCall == Abstract!Spec

\* Every call comes to an end: it returns, throws or takes the process down.
CallEnds == (pc = "start") ~> (pc \in {"returned", "threw", "dead"})

\* model.h:125 and 127, "@param indecies the parameter indecies to include in
\* the sweep", "@return A vector of vectors of DataPoint structs containing
\* the impedance at every frequency sweep and parameter index".
DocSweepsRequestedIndices ==
    pc = "returned" => \A k \in Slots : data[k] = {requested[k + 1]}
-----------------------------------------------------------------------------
(***************************************************************************)
(* The inductive invariant behind the safety properties.                   *)
(***************************************************************************)
\* Where the calling thread is: it has started the threads before "next", or
\* joined them.
CallerInv ==
    /\ all => count = RequiredSteps(counts)
    /\ pc = "start" => /\ next <= threadsCount
                       /\ \A t \in Threads :
                             /\ thread[t] = "none" <=> next <= t
                             /\ thread[t] # "joined"
    /\ pc = "join" => /\ next <= threadsCount
                      /\ \A t \in Threads :
                            /\ thread[t] # "none"
                            /\ thread[t] = "joined" <=> t < next
    /\ pc = "returned" => \A t \in Threads : thread[t] = "joined"
    /\ threadsCount = 0 => /\ pc \in {"start", "dead"}
                           /\ \A k \in Slots : data[k] = {}

\* Where a thread is in its chunk, and what it computes there.
ThreadInv ==
    \A t \in Threads :
        /\ thread[t] = "none" => slot[t] = 0
        /\ thread[t] # "none" => Start(t) <= slot[t] /\ slot[t] <= Stop(t)
        /\ Working(t) => slot[t] < Stop(t)
        /\ thread[t] \in {"resolve", "compute"} => results[t] \in {{}, {slot[t]}}
        /\ thread[t] = "compute" => model[t] = slot[t]
        /\ thread[t] = "store" => results[t] = {slot[t]}
        /\ thread[t] \in {"finished", "joined"} => slot[t] = Stop(t)

\* A chunk is filled up to the slot its thread is at, and empty from there.
DataInv ==
    \A t \in Threads : \A k \in Slots :
        Start(t) <= k /\ k < Stop(t)
            => data[k] = IF k < slot[t] THEN {k} ELSE {}

IInv == CallerInv /\ ThreadInv /\ DataInv

\* Together with the types it is inductive: the caller, every thread and every
\* slot of the result are where the truncating division of executeSweeps and
\* the loop of sweepThreadFn put them.
Inv == TypeOK /\ IInv
=============================================================================

-------------------------- MODULE CompilePipeProps --------------------------
(***************************************************************************)
(* What compile_code has to get right.                                     *)
(***************************************************************************)
EXTENDS CompilePipe

AllEnds == UNION {Ends(k) : k \in 1..MaxCalls}

\* Every variable keeps its type.
PipeTypeOK ==
    /\ call \in 0..MaxCalls
    /\ pc \in {"idle", "pipes", "fork", "close", "write", "read", "wait", "killed"}
    /\ fds \subseteq AllEnds
    /\ sent \in 0..CodeSize
    /\ inPipe \in 0..Capacity
    /\ outPipe \in 0..Capacity
    /\ child \in {"none", "forked", "exec", "reading", "printing", "zombie",
                  "reaped"}
    /\ childFds \subseteq AllEnds \cup {Stdin, Stdout, Stderr}
    /\ received \in 0..CodeSize
    /\ toPrint \in 0..MaxOutput
    /\ status \in Nat
    /\ returned \in {"nothing", "zero", "nonzero", "threw"}
    /\ interrupted \subseteq {"write", "read", "wait"}

\* A call that returns a status has closed every descriptor it opened and
\* collected its child, unless the wait was interrupted, whatever the calls
\* before it left behind.
NothingLeftBehind ==
    pc = "idle" /\ returned \in {"zero", "nonzero"} =>
        /\ fds \cap Ends(call) = {}
        /\ child = "reaped" \/ "wait" \in interrupted

\* compile_code returns 0 only for a compiler that was given all of the code
\* and exited with 0: code that is lost because nobody reads it does not go
\* unnoticed, nor does an interrupted read hide a failure.  Only a signal can
\* cut the code off, while write() waits for room (compile.cpp:83 looks for
\* errors, not for short counts): then the compiler has read what was written,
\* which is not nothing.  If the wait is interrupted anything is returned.
ZeroMeansCompiled ==
    returned = "zero" /\ "wait" \notin interrupted =>
        /\ status = 0
        /\ received = sent /\ sent > 0
        /\ "write" \notin interrupted => received = CodeSize

\* Every call comes to an end: the two processes never wait for one another,
\* however little a pipe holds and whenever either of them gives up.
CallEnds == (pc = "pipes") ~> (pc \in {"idle", "killed"})

\* The child of a call that does not throw is gone in the end, also when the
\* caller is killed or stops to read or to write early.  (A call that throws
\* when write() fails keeps the reading end of the output open: a compiler with
\* much to print then waits forever.  One whose wait was interrupted may make
\* the next call while the child runs.)
ChildEnds ==
    (child = "forked") ~>
        (\/ child \in {"zombie", "reaped"}
         \/ returned = "threw"
         \/ call < MaxCalls /\ "wait" \in interrupted)
-----------------------------------------------------------------------------
(***************************************************************************)
(* The inductive invariant behind the safety properties.                   *)
(***************************************************************************)
\* The caller has a call under way while pc is not "idle"; the child that a
\* call has started is that of the call.
CallInv ==
    /\ pc # "idle" => call \in 1..MaxCalls
    /\ pc \in {"pipes", "fork"} => child = "none"
    /\ pc \in {"pipes", "fork", "close", "write"} =>
          sent < CodeSize /\ interrupted = {}
    /\ returned \in {"zero", "nonzero"} =>
          pc = "idle" /\ (child = "reaped" \/ "wait" \in interrupted)
    /\ returned = "zero" /\ "wait" \notin interrupted => status = 0
    /\ pc \in {"read", "wait"} \/ returned \in {"zero", "nonzero"} => sent > 0

\* The descriptors of the call that are open at each point.
FdsInv ==
    /\ pc = "fork" => Ends(call) \subseteq fds
    /\ pc \in {"close", "write"} => InWrite(call) \in fds
    /\ pc = "write" => fds \cap Ends(call) \subseteq {InWrite(call), OutRead(call)}
    /\ pc = "read" => fds \cap Ends(call) \subseteq {OutRead(call)}
    /\ pc = "wait" => fds \cap Ends(call) = {}
    /\ returned \in {"zero", "nonzero"} => fds \cap Ends(call) = {}

\* Nothing of the code is lost in the pipe; a child that still has to read has
\* an end to read from, so that the caller goes on writing, and closes its end
\* only when all is written or a signal interrupts it; a child that is past
\* that and succeeds has read all that was written.
CodeInv ==
    /\ sent = received + inPipe
    /\ child = "forked" => InRead(call) \in childFds
    /\ child \in {"exec", "reading"} => Stdin \in childFds
    /\ child \in {"forked", "exec", "reading"} =>
          InWrite(call) \in fds \/ sent = CodeSize \/ "write" \in interrupted
    /\ child \in {"printing", "zombie", "reaped"} =>
          (status = 0 =>
             /\ inPipe = 0 /\ InWrite(call) \notin fds
             /\ received = CodeSize \/ "write" \in interrupted)

PipeInv == CallInv /\ FdsInv /\ CodeInv
=============================================================================

---------------------------- MODULE CompilePipe ----------------------------
(***************************************************************************)
(* compile_code (src/compile.cpp): it starts g++ with fork and exec, sends *)
(* it the code through one pipe, reads what it prints through another      *)
(* until the end, and waits for its exit status.                           *)
(*                                                                         *)
(* Calls follow one another in one process, so what a call leaves open is  *)
(* there in the next one: the descriptors of call k are the pairs          *)
(* <<k, end>>.  Code and diagnostics are counted in units; a pipe holds    *)
(* Capacity of them.                                                       *)
(***************************************************************************)
EXTENDS Naturals, FiniteSets

CONSTANTS
    MaxCalls,       \* bound: how often compile_code is called
    CodeSize,       \* size of the code
    MaxOutput,      \* most the compiler prints
    Capacity,       \* what a pipe holds
    FdLimit,        \* how many descriptors of pipes the process may have
    ForkFails,      \* may fork fail
    ExecFails,      \* may execlp fail, g++ not being in PATH for one
    Interrupts      \* may a signal handler of the application interrupt a call

ASSUME SizesAssumption ==
    {MaxCalls, CodeSize, Capacity} \subseteq Nat \ {0} /\ MaxOutput \in Nat
ASSUME LimitAssumption == FdLimit \in Nat
ASSUME FailuresAssumption == {ForkFails, ExecFails, Interrupts} \subseteq BOOLEAN

VARIABLES
    call,           \* number of the current call, 0 before the first
    pc,             \* where the caller is in compile_code
    fds,            \* descriptors of pipes the caller has open
    sent,           \* units of code written so far
    inPipe,         \* units in the pipe to the compiler
    outPipe,        \* units in the pipe from the compiler
    child,          \* where the child process is
    childFds,       \* descriptors of pipes the child has open
    received,       \* units of code the compiler has read
    toPrint,        \* units the compiler still has to print
    status,         \* exit status of the child
    returned,       \* what compile_code returned last
    interrupted     \* the system calls of it that a signal interrupted

callerVars == <<call, pc, fds, sent, returned, interrupted>>
childVars == <<child, childFds, received, toPrint, status>>
pipeVars == <<inPipe, outPipe>>
callVars == <<callerVars, childVars, pipeVars>>

\* The ends of the two pipes of call k.
InRead(k) == <<k, "inRead">>        \* childStdinPipe[PIPE_READ]
InWrite(k) == <<k, "inWrite">>      \* childStdinPipe[PIPE_WRITE]
OutRead(k) == <<k, "outRead">>      \* childStdoutPipe[PIPE_READ]
OutWrite(k) == <<k, "outWrite">>    \* childStdoutPipe[PIPE_WRITE]
Ends(k) == {InRead(k), InWrite(k), OutRead(k), OutWrite(k)}

\* The standard streams of the child, once dup2 has pointed them at the pipes.
Stdin == <<0, "stdin">>
Stdout == <<0, "stdout">>
Stderr == <<0, "stderr">>

InReaders == InRead(call) \in fds \/ {InRead(call), Stdin} \cap childFds # {}
InWriters == InWrite(call) \in fds \/ InWrite(call) \in childFds
OutReaders == OutRead(call) \in fds \/ OutRead(call) \in childFds
OutWriters ==
    OutWrite(call) \in fds \/ {OutWrite(call), Stdout, Stderr} \cap childFds # {}
-----------------------------------------------------------------------------
PipeInit ==
    /\ call = 0
    /\ pc = "idle"
    /\ fds = {}
    /\ sent = 0
    /\ inPipe = 0
    /\ outPipe = 0
    /\ child = "none"
    /\ childFds = {}
    /\ received = 0
    /\ toPrint = 0
    /\ status = 0
    /\ returned = "nothing"
    /\ interrupted = {}
-----------------------------------------------------------------------------
(***************************************************************************)
(* The caller.                                                             *)
(***************************************************************************)
\* A child left over from a call that threw is not looked at any more: its
\* descriptors are not those of the new call.
Begin ==
    /\ pc = "idle"
    /\ call < MaxCalls
    /\ call' = call + 1
    /\ pc' = "pipes"
    /\ sent' = 0
    /\ inPipe' = 0
    /\ outPipe' = 0
    /\ child' = "none"
    /\ childFds' = {}
    /\ received' = 0
    /\ toPrint' = 0
    /\ status' = 0
    /\ returned' = "nothing"
    /\ interrupted' = {}
    /\ UNCHANGED fds

\* Both calls of pipe() succeed.
MakePipes ==
    /\ pc = "pipes"
    /\ Cardinality(fds) + 4 <= FdLimit
    /\ fds' = fds \cup Ends(call)
    /\ pc' = "fork"
    /\ UNCHANGED <<call, sent, returned, interrupted, childVars, pipeVars>>

\* One of them fails; when it is the second the first pipe stays open.
PipeFails ==
    /\ pc = "pipes"
    /\ Cardinality(fds) + 4 > FdLimit
    /\ fds' = IF Cardinality(fds) + 2 <= FdLimit
              THEN fds \cup {InRead(call), InWrite(call)} ELSE fds
    /\ pc' = "idle"
    /\ returned' = "threw"
    /\ UNCHANGED <<call, sent, interrupted, childVars, pipeVars>>

\* The child begins with a copy of every descriptor of the caller.
Fork ==
    /\ pc = "fork"
    /\ child' = "forked"
    /\ childFds' = fds
    /\ pc' = "close"
    /\ UNCHANGED <<call, fds, sent, returned, interrupted, received, toPrint,
                   status, pipeVars>>

ForkFail ==
    /\ ForkFails
    /\ pc = "fork"
    /\ pc' = "idle"
    /\ returned' = "threw"
    /\ UNCHANGED <<call, fds, sent, interrupted, childVars, pipeVars>>

\* Variant: the caller keeps the end the child prints to.
CloseChildsEnds_KeepsOutput ==
    /\ pc = "close"
    /\ fds' = fds \ {InRead(call)}
    /\ pc' = "write"
    /\ UNCHANGED <<call, sent, returned, interrupted, childVars, pipeVars>>

CloseChildsEnds ==
    /\ pc = "close"
    /\ fds' = fds \ {InRead(call), OutWrite(call)}
    /\ pc' = "write"
    /\ UNCHANGED <<call, sent, returned, interrupted, childVars, pipeVars>>

\* Variant: write() takes what there is room for, and the rest is not sent.
WriteCode_Short ==
    /\ pc = "write"
    /\ InReaders
    /\ sent' = IF CodeSize <= Capacity THEN CodeSize ELSE Capacity
    /\ inPipe' = sent'
    /\ pc' = "read"
    /\ fds' = fds \ {InWrite(call)}
    /\ UNCHANGED <<call, returned, interrupted, childVars, outPipe>>

\* One write() of all the code, which goes as fast as the compiler makes room;
\* when all is written the end is closed.
WriteCode ==
    /\ pc = "write"
    /\ InReaders
    /\ inPipe < Capacity
    /\ sent' = sent + 1
    /\ inPipe' = inPipe + 1
    /\ IF sent' = CodeSize
       THEN pc' = "read" /\ fds' = fds \ {InWrite(call)}
       ELSE UNCHANGED <<pc, fds>>
    /\ UNCHANGED <<call, returned, interrupted, childVars, outPipe>>

\* Nobody reads the code any more: SIGPIPE kills the caller, unless the
\* application ignores it, and the system closes what it had open.
KilledBySigpipe ==
    /\ pc = "write"
    /\ ~InReaders
    /\ pc' = "killed"
    /\ fds' = {}
    /\ UNCHANGED <<call, sent, returned, interrupted, childVars, pipeVars>>

\* In an application that ignores SIGPIPE write() fails and compile_code
\* throws, unless a part of the code was taken: then write() returns how much,
\* and the rest is lost.
WriteFails ==
    /\ pc = "write"
    /\ ~InReaders
    /\ IF sent = 0
       THEN pc' = "idle" /\ returned' = "threw" /\ UNCHANGED fds
       ELSE pc' = "read" /\ fds' = fds \ {InWrite(call)} /\ UNCHANGED returned
    /\ UNCHANGED <<call, sent, interrupted, childVars, pipeVars>>

\* A signal is handled while write() waits for room.  Part of the code is in
\* the pipe by then, since a new pipe has room: write() returns how much, only
\* a result below 0 is looked for, and the rest is lost.
WriteInterrupted ==
    /\ pc = "write"
    /\ InReaders
    /\ inPipe = Capacity
    /\ pc' = "read"
    /\ fds' = fds \ {InWrite(call)}
    /\ interrupted' = interrupted \cup {"write"}
    /\ UNCHANGED <<call, sent, returned, childVars, pipeVars>>

ReadOutput ==
    /\ pc = "read"
    /\ outPipe > 0
    /\ outPipe' = outPipe - 1
    /\ UNCHANGED <<callerVars, childVars, inPipe>>

\* Variant: the end that was read is not closed.
ReadEnd_NotClosed ==
    /\ pc = "read"
    /\ outPipe = 0
    /\ ~OutWriters
    /\ pc' = "wait"
    /\ UNCHANGED <<call, fds, sent, returned, interrupted, childVars, pipeVars>>

\* The end of the output: nobody has the other end open.
ReadEnd ==
    /\ pc = "read"
    /\ outPipe = 0
    /\ ~OutWriters
    /\ fds' = fds \ {OutRead(call)}
    /\ pc' = "wait"
    /\ UNCHANGED <<call, sent, returned, interrupted, childVars, pipeVars>>

\* A signal is handled while read() waits: it returns -1, which ends the loop
\* as the end of the output does.
ReadInterrupted ==
    /\ pc = "read"
    /\ outPipe = 0
    /\ OutWriters
    /\ pc' = "wait"
    /\ fds' = fds \ {OutRead(call)}
    /\ interrupted' = interrupted \cup {"read"}
    /\ UNCHANGED <<call, sent, returned, childVars, pipeVars>>

\* waitpid, and the return.
Wait ==
    /\ pc = "wait"
    /\ child = "zombie"
    /\ child' = "reaped"
    /\ pc' = "idle"
    /\ returned' = IF status = 0 THEN "zero" ELSE "nonzero"
    /\ UNCHANGED <<call, fds, sent, interrupted, childFds, received, toPrint,
                   status, pipeVars>>
\* A signal is handled while waitpid waits: it returns -1, the child is not
\* collected, and exitCode, which is returned, was never set.
WaitInterrupted ==
    /\ pc = "wait"
    /\ child # "zombie"
    /\ pc' = "idle"
    /\ returned' \in {"zero", "nonzero"}
    /\ interrupted' = interrupted \cup {"wait"}
    /\ UNCHANGED <<call, fds, sent, childVars, pipeVars>>

-----------------------------------------------------------------------------
(***************************************************************************)
(* The child: up to exec it runs compile_code too.                         *)
(***************************************************************************)
\* Variant: the child keeps the end the code is written to.
Redirect_KeepsInput ==
    /\ child = "forked"
    /\ childFds' = (childFds \cup {Stdin, Stdout, Stderr})
                      \ {InRead(call), OutRead(call), OutWrite(call)}
    /\ child' = "exec"
    /\ UNCHANGED <<callerVars, received, toPrint, status, pipeVars>>

Redirect ==
    /\ child = "forked"
    /\ childFds' = (childFds \cup {Stdin, Stdout, Stderr}) \ Ends(call)
    /\ child' = "exec"
    /\ UNCHANGED <<callerVars, received, toPrint, status, pipeVars>>

Exec ==
    /\ child = "exec"
    /\ child' = "reading"
    /\ UNCHANGED <<callerVars, childFds, received, toPrint, status, pipeVars>>

\* The process is gone, its descriptors closed, its status kept.
ExitWith(code) ==
    /\ child' = "zombie"
    /\ childFds' = {}
    /\ status' = code
    /\ UNCHANGED <<callerVars, received, toPrint, pipeVars>>

ExecFail ==
    /\ ExecFails
    /\ child = "exec"
    /\ ExitWith(255)
-----------------------------------------------------------------------------
(***************************************************************************)
(* The compiler, which is not part of the repository: it reads all of the  *)
(* code before it prints, or gives up before that.                         *)
(***************************************************************************)
CompilerReads ==
    /\ child = "reading"
    /\ inPipe > 0
    /\ inPipe' = inPipe - 1
    /\ received' = received + 1
    /\ UNCHANGED <<callerVars, child, childFds, toPrint, status, outPipe>>

\* At the end of what it gets it knows what to print.
CompilerReadsEnd ==
    /\ child = "reading"
    /\ inPipe = 0
    /\ ~InWriters
    /\ status' \in {0, 1}
    /\ toPrint' \in 0..MaxOutput
    /\ child' = "printing"
    /\ UNCHANGED <<callerVars, childFds, received, pipeVars>>

CompilerGivesUp ==
    /\ child = "reading"
    /\ status' = 1
    /\ toPrint' \in 0..MaxOutput
    /\ child' = "printing"
    /\ childFds' = childFds \ {Stdin}
    /\ UNCHANGED <<callerVars, received, pipeVars>>

CompilerPrints ==
    /\ child = "printing"
    /\ toPrint > 0
    /\ OutReaders
    /\ outPipe < Capacity
    /\ outPipe' = outPipe + 1
    /\ toPrint' = toPrint - 1
    /\ UNCHANGED <<callerVars, child, childFds, received, status, inPipe>>

CompilerExits ==
    /\ child = "printing"
    /\ toPrint = 0
    /\ ExitWith(status)

\* Nobody reads what it prints.
CompilerKilled ==
    /\ child = "printing"
    /\ toPrint > 0
    /\ ~OutReaders
    /\ ExitWith(1)
-----------------------------------------------------------------------------
CallerStep ==
    \/ MakePipes \/ PipeFails \/ Fork \/ CloseChildsEnds
    \/ WriteCode \/ KilledBySigpipe \/ WriteFails
    \/ ReadOutput \/ ReadEnd \/ Wait

ChildStep ==
    \/ Redirect \/ Exec \/ ExecFail
    \/ CompilerReads \/ CompilerReadsEnd
    \/ CompilerPrints \/ CompilerExits \/ CompilerKilled

Interrupt ==
    Interrupts /\ (WriteInterrupted \/ ReadInterrupted \/ WaitInterrupted)

PipeNext ==
    \/ Begin
    \/ ForkFail
    \/ CallerStep
    \/ Interrupt
    \/ ChildStep
    \/ CompilerGivesUp

PipeSpec == PipeInit /\ [][PipeNext]_callVars

\* Both processes are scheduled.  Nobody has to call compile_code, no signal
\* has to arrive, and the compiler does not have to give up.
PipeFairness == WF_callVars(CallerStep) /\ WF_callVars(ChildStep)

PipeFairSpec == PipeSpec /\ PipeFairness
=============================================================================

------------------------------ MODULE Command ------------------------------
(***************************************************************************)
(* command_run() of lib/system/command.cpp: runs a program in a child      *)
(* process and gathers what it writes to its standard output and standard  *)
(* error, through two pipes (lib/system/linux/pipe.h).                     *)
(*                                                                         *)
(* The program may write, start a process of its own that writes as well,  *)
(* and exit or be killed at any time.  Pipes are of bounded capacity: who  *)
(* writes to a full one waits.  A call that is interrupted (EINTR) is made *)
(* again by the code, which is a step that changes nothing.                *)
(***************************************************************************)
EXTENDS Naturals, Sequences

CONSTANTS
    Capacity,    \* bound: bytes that a pipe holds
    MaxWritten,  \* bound: bytes written to each pipe
    MaxFaults,   \* bound: system calls that fail
    ExitCodes    \* what programs exit with

ASSUME CapacityAssumption == Capacity \in Nat \ {0}
ASSUME BoundsAssumption == MaxWritten \in Nat /\ MaxFaults \in Nat
ASSUME ExitCodesAssumption == ExitCodes \subseteq Nat

Pipes     == {"stdout", "stderr"}
Processes == {"parent", "child", "grandchild"}

CHILD_SETUP_FAILURE_EXIT_CODE == 127

VARIABLES
    pc,          \* where command_run() is
    poll_fds,    \* pipes whose fd in poll_fds is not negative
    revents,     \* pipes that poll() returned an event for
    output,      \* what has been read from each pipe
    read_ok,     \* pipe_read_result
    result,      \* what command_run() returns
    child,       \* "none", "setup", "program", "dead" or "reaped"
    status,      \* what waitpid() will say of the child
    grandchild,  \* "none", "program" or "dead"
    readers,     \* processes that have the read end of each pipe open
    writers,     \* processes that have the write end of each pipe open
    bytes,       \* what is in each pipe: bytes are numbered as written
    written,     \* history: how many bytes were written to each pipe
    faults       \* history: system calls that failed

PCs == {"create_stdout", "create_stderr", "fork", "close_write", "poll",
        "read_stdout", "read_stderr", "close_read", "wait", "done"}

Calls == {"pipe2", "fork", "poll", "read", "waitpid", "dup2", "exec"}

Statuses == {<<"running">>, <<"killed", "by another">>, <<"killed", "SIGPIPE">>}
    \cup ({"exited"} \X Nat)

Results == {<<"none">>} \cup ({"ok"} \X Nat)
    \cup ({"error"} \X (Calls \cup {"abnormal", "setup"}))

TypeOK ==
    /\ pc \in PCs
    /\ poll_fds \subseteq Pipes /\ revents \subseteq Pipes
    /\ output \in [Pipes -> Seq(Nat)]
    /\ read_ok \in BOOLEAN /\ result \in Results
    /\ child \in {"none", "setup", "program", "dead", "reaped"}
    /\ status \in Statuses
    /\ grandchild \in {"none", "program", "dead"}
    /\ readers \in [Pipes -> SUBSET Processes] /\ writers \in [Pipes -> SUBSET Processes]
    /\ bytes \in [Pipes -> Seq(Nat)] /\ written \in [Pipes -> Nat]
    /\ faults \in Seq(Calls)

parentVars  == <<poll_fds, revents, output, read_ok, result>>
processVars == <<child, status, grandchild>>
pipeVars    == <<readers, writers, bytes, written>>
vars == <<pc, parentVars, processVars, pipeVars, faults>>

Init ==
    /\ pc = "create_stdout"
    /\ poll_fds = Pipes /\ revents = {}
    /\ output = [p \in Pipes |-> <<>>]
    /\ read_ok = TRUE /\ result = <<"none">>
    /\ child = "none" /\ status = <<"running">> /\ grandchild = "none"
    /\ readers = [p \in Pipes |-> {}] /\ writers = [p \in Pipes |-> {}]
    /\ bytes = [p \in Pipes |-> <<>>] /\ written = [p \in Pipes |-> 0]
    /\ faults = <<>>


Fails(call) == Len(faults) < MaxFaults /\ faults' = Append(faults, call)

-----------------------------------------------------------------------------
(* pipe.h: Pipe.  Errors leave by the destructors of the pipes. *)

\* Pipe::create(), without close-on-exec of consequence before fork()
create(p, here, next) ==
    /\ pc = here
    /\ \/ /\ pc' = next
          /\ readers' = [readers EXCEPT ![p] = {"parent"}]
          /\ writers' = [writers EXCEPT ![p] = {"parent"}]
          /\ UNCHANGED <<result, faults>>
       \/ /\ Fails("pipe2")
          /\ pc' = "done" /\ result' = <<"error", "pipe2">>
          /\ readers' = [q \in Pipes |-> {}] /\ writers' = [q \in Pipes |-> {}]
    /\ UNCHANGED <<poll_fds, revents, output, read_ok, processVars, bytes, written>>

create_stdout == create("stdout", "create_stdout", "create_stderr")
create_stderr == create("stderr", "create_stderr", "fork")

\* Pipe::close_read_fd() and close_write_fd() of both pipes
Closed(ends, process) == [p \in Pipes |-> ends[p] \ {process}]

Readable(p) == bytes[p] # <<>> \/ writers[p] = {}

\* Mutant: the pipe is at its end as soon as nobody can write to it.
AtEndOnceHungUp(p, count) == writers[p] = {}

\* read() returns 0 at the end
AtEnd(p, count) == count = 0

-----------------------------------------------------------------------------
(* command_run() and, in the parent, what it calls. *)

start_child ==
    /\ pc = "fork"
    /\ \/ /\ pc' = "close_write" /\ child' = "setup"
          /\ readers' = [p \in Pipes |-> {"parent", "child"}]
          /\ writers' = [p \in Pipes |-> {"parent", "child"}]
          /\ UNCHANGED <<result, faults>>
       \/ /\ Fails("fork")
          /\ pc' = "done" /\ result' = <<"error", "fork">>
          /\ readers' = [p \in Pipes |-> {}] /\ writers' = [p \in Pipes |-> {}]
          /\ UNCHANGED child
    /\ UNCHANGED <<poll_fds, revents, output, read_ok, status, grandchild, bytes, written>>

close_write_fds ==
    /\ pc = "close_write"
    /\ pc' = "poll"
    /\ writers' = Closed(writers, "parent")
    /\ UNCHANGED <<parentVars, processVars, readers, bytes, written, faults>>

\* read_pipes() returns an error.
ReadFails(call) ==
    /\ Fails(call)
    /\ read_ok' = FALSE
    /\ pc' = "close_read"
    /\ UNCHANGED <<poll_fds, revents, output, bytes>>

\* The loop of read_pipes(): negative descriptors are ignored by poll().
poll_pipes ==
    /\ pc = "poll"
    /\ \/ /\ poll_fds = {} /\ pc' = "close_read"
          /\ UNCHANGED <<parentVars, bytes, faults>>
       \/ /\ poll_fds # {}
          /\ revents' = {p \in poll_fds : Readable(p)}
          /\ revents' # {}
          /\ pc' = "read_stdout"
          /\ UNCHANGED <<poll_fds, output, read_ok, result, bytes, faults>>
       \/ /\ poll_fds # {} /\ ReadFails("poll") /\ UNCHANGED result
    /\ UNCHANGED <<processVars, readers, writers, written>>

\* Mutant: both pipes are read whatever poll() said.
HasEventsOrIsPolled(p) == p \in poll_fds

\* (poll_fds[i].revents & PIPE_READ_EVENTS) != 0
HasEvents(p) == p \in revents

\* read_append_to_string() takes what there is, or a part of it.
read_pipe(p, here, next) ==
    /\ pc = here
    /\ \/ /\ ~HasEvents(p)
          /\ pc' = next
          /\ UNCHANGED <<poll_fds, revents, output, read_ok, bytes, faults>>
       \/ /\ HasEvents(p) /\ Readable(p)
          /\ \E count \in IF bytes[p] = <<>> THEN {0} ELSE 1..Len(bytes[p]) :
                /\ output' = [output EXCEPT ![p] = @ \o SubSeq(bytes[p], 1, count)]
                /\ bytes' = [bytes EXCEPT ![p] = SubSeq(@, count + 1, Len(@))]
                /\ poll_fds' = IF AtEnd(p, count) THEN poll_fds \ {p} ELSE poll_fds
          /\ pc' = next
          /\ UNCHANGED <<revents, read_ok, faults>>
       \/ HasEvents(p) /\ ReadFails("read")
    /\ UNCHANGED <<result, processVars, readers, writers, written>>

read_stdout == read_pipe("stdout", "read_stdout", "read_stderr")
read_stderr == read_pipe("stderr", "read_stderr", "poll")

close_read_fds ==
    /\ pc = "close_read"
    /\ pc' = "wait"
    /\ readers' = Closed(readers, "parent")
    /\ UNCHANGED <<parentVars, processVars, writers, bytes, written, faults>>

\* child_wait() is asked first, whatever became of the reading.
Outcome ==
    IF status[1] # "exited" THEN <<"error", "abnormal">>
    ELSE IF status[2] = CHILD_SETUP_FAILURE_EXIT_CODE THEN <<"error", "setup">>
    ELSE IF ~read_ok THEN <<"error", "read">>
    ELSE <<"ok", status[2]>>

child_wait ==
    /\ pc = "wait"
    /\ pc' = "done"
    /\ \/ /\ child = "dead" /\ child' = "reaped"
          /\ result' = Outcome
          /\ UNCHANGED faults
       \/ /\ Fails("waitpid")
          /\ result' = <<"error", "waitpid">>
          /\ UNCHANGED child
    /\ UNCHANGED <<poll_fds, revents, output, read_ok, status, grandchild, pipeVars>>

-----------------------------------------------------------------------------
(* The child, and the processes it starts. *)

ChildEnds(how) ==
    /\ child' = "dead" /\ status' = how
    /\ readers' = Closed(readers, "child") /\ writers' = Closed(writers, "child")

\* child_exec(): the read ends are closed, by close_fds() or by exec.
child_exec ==
    /\ child = "setup"
    /\ \/ /\ child' = "program"
          /\ readers' = Closed(readers, "child")
          /\ UNCHANGED <<status, writers, faults>>
       \/ /\ \E call \in {"dup2", "exec"} : Fails(call)
          /\ ChildEnds(<<"exited", CHILD_SETUP_FAILURE_EXIT_CODE>>)
    /\ UNCHANGED <<pc, parentVars, grandchild, bytes, written>>

Running(process) == IF process = "child" THEN child = "program" ELSE grandchild = "program"

program_writes(process) ==
    /\ Running(process)
    /\ \E p \in Pipes :
          /\ written[p] < MaxWritten
          /\ readers[p] # {}
          /\ Len(bytes[p]) < Capacity
          /\ written' = [written EXCEPT ![p] = @ + 1]
          /\ bytes' = [bytes EXCEPT ![p] = Append(@, written'[p])]
    /\ UNCHANGED <<pc, parentVars, processVars, readers, writers, faults>>

\* A process that the program leaves behind has its descriptors.
program_starts_another ==
    /\ child = "program" /\ grandchild = "none"
    /\ grandchild' = "program"
    /\ writers' = [p \in Pipes |-> writers[p] \cup {"grandchild"}]
    /\ UNCHANGED <<pc, parentVars, child, status, readers, bytes, written, faults>>

\* A write that nobody can read kills the program (SIGPIPE).
program_ends ==
    /\ child = "program"
    /\ \/ \E code \in ExitCodes : ChildEnds(<<"exited", code>>)
       \/ ChildEnds(<<"killed", "by another">>)
       \/ (\E p \in Pipes : readers[p] = {}) /\ ChildEnds(<<"killed", "SIGPIPE">>)
    /\ UNCHANGED <<pc, parentVars, grandchild, bytes, written, faults>>

other_ends ==
    /\ grandchild = "program"
    /\ grandchild' = "dead"
    /\ writers' = Closed(writers, "grandchild")
    /\ UNCHANGED <<pc, parentVars, child, status, readers, bytes, written, faults>>

-----------------------------------------------------------------------------
ParentStep ==
    \/ create_stdout \/ create_stderr \/ start_child \/ close_write_fds
    \/ poll_pipes \/ read_stdout \/ read_stderr \/ close_read_fds \/ child_wait

ChildStep ==
    child_exec \/ program_writes("child") \/ program_starts_another \/ program_ends

OtherStep == program_writes("grandchild") \/ other_ends

Next == ParentStep \/ ChildStep \/ OtherStep

Spec == Init /\ [][Next]_vars

\* A program has only so much to write and to do, and a full pipe holds it up:
\* it is not known to end before what it writes is read.  No call has to fail.
Blocked(process) == \E p \in Pipes : Len(bytes[p]) = Capacity /\ readers[p] # {}

FairSpec ==
    /\ Spec
    /\ WF_vars(ParentStep /\ UNCHANGED faults)
    /\ WF_vars(child_exec)
    /\ WF_vars(~Blocked("child") /\ program_ends)
    /\ WF_vars(~Blocked("grandchild") /\ other_ends)

-----------------------------------------------------------------------------
Done == pc = "done"

\* A successful result holds everything that was ever written to the pipes, in
\* order, and the exit code of a program that was run; an error has a reason:
\* a system call failed, the program was killed, or it exited with the code
\* that child_exec() keeps for itself.  A program is not killed for writing
\* to a closed pipe as long as the pipes are read without errors.
ResultIsRight ==
    /\ result[1] = "ok" =>
          /\ faults = <<>>
          /\ status = <<"exited", result[2]>>
          /\ writers = [p \in Pipes |-> {}]
          /\ \A p \in Pipes : output[p] = [i \in 1..written[p] |-> i]
    /\ result[1] = "error" =>
          \/ faults # <<>>
          \/ status[1] = "killed"
          \/ status = <<"exited", CHILD_SETUP_FAILURE_EXIT_CODE>>
    /\ status = <<"killed", "SIGPIPE">> => ~read_ok

\* Whatever fails, no end of a pipe is left open and the child has been waited
\* for, unless waitpid() itself fails.
NothingIsLeft ==
    /\ \A p \in Pipes : "parent" \notin readers[p] \cup writers[p]
    /\ child \in {"none", "reaped"} \/ result = <<"error", "waitpid">>

\* What is so when command_run() returns.
RunsAreComplete == Done => ResultIsRight /\ NothingIsLeft

\* What that rests on.  What has been written to a pipe has been read or is
\* still in it.
BytesAreInOrder ==
    \A p \in Pipes :
        /\ written[p] = Len(output[p]) + Len(bytes[p])
        /\ \A i \in 1..Len(output[p]) : output[p][i] = i
        /\ \A i \in 1..Len(bytes[p]) : bytes[p][i] = Len(output[p]) + i

\* Who has which ends of the pipes open, by what each process has done.
Created(p) ==
    pc \in {"fork", "close_write"} \/ (pc = "create_stderr" /\ p = "stdout")

EndsAreOpen ==
    \A p \in Pipes :
        /\ "parent" \in writers[p] <=> Created(p)
        /\ "parent" \in readers[p] <=>
              Created(p) \/ pc \in {"poll", "read_stdout", "read_stderr", "close_read"}
        /\ "child" \in writers[p] <=> child \in {"setup", "program"}
        /\ "child" \in readers[p] <=> child = "setup"
        /\ "grandchild" \in writers[p] <=> grandchild = "program"
        /\ "grandchild" \notin readers[p]

\* The child from fork() to waitpid().
ChildIsKnown ==
    /\ pc \in {"create_stdout", "create_stderr", "fork"} =>
          child = "none" /\ poll_fds = Pipes /\ read_ok /\ faults = <<>>
    /\ child = "none" => /\ grandchild = "none"
                         /\ pc \in {"create_stdout", "create_stderr", "fork", "done"}
    /\ child = "reaped" => pc = "done"
    /\ status = <<"running">> <=> child \in {"none", "setup", "program"}
    /\ pc = "done" <=> result # <<"none">>

\* A pipe is given up only when all that was and could be written to it has
\* been read, and without an error that is so for both before they are closed.
PipesAreReadToTheEnd ==
    /\ \A p \in Pipes \ poll_fds : bytes[p] = <<>> /\ writers[p] = {}
    /\ pc \in {"close_read", "wait", "done"} /\ child # "none" /\ read_ok => poll_fds = {}

\* An error is not forgotten.
ErrorsAreKept ==
    /\ ~read_ok => faults # <<>>
    /\ faults # <<>> => \/ ~read_ok \/ pc = "done"
                        \/ status = <<"exited", CHILD_SETUP_FAILURE_EXIT_CODE>>
    /\ result[1] = "ok" => child = "reaped" /\ read_ok /\ faults = <<>>

IInv ==
    /\ TypeOK
    /\ BytesAreInOrder
    /\ EndsAreOpen
    /\ ChildIsKnown
    /\ PipesAreReadToTheEnd
    /\ ErrorsAreKept
    /\ ResultIsRight
    /\ Done => NothingIsLeft

\* command_run() returns however little the pipes hold, for programs that end
\* once what they write is read.
CommandReturns == <>Done
=============================================================================

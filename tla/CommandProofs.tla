---------------------------- MODULE CommandProofs ----------------------------
(***************************************************************************)
(* IInv of Command is inductive, whatever the capacity of the pipes, what  *)
(* is written to them, the exit codes and the system calls that fail: when *)
(* command_run() returns, its result is right and nothing is left open.    *)
(***************************************************************************)
EXTENDS Command, SequenceTheorems, TLAPS

-----------------------------------------------------------------------------
(* Results, and calls that fail.                                           *)

LEMMA FailsMeans ==
    ASSUME TypeOK, NEW call \in Calls, Fails(call)
    PROVE  faults' \in Seq(Calls) /\ faults' # <<>>
<1>1. faults' = Append(faults, call)
  BY DEF Fails
<1> QED
  BY <1>1, AppendProperties DEF TypeOK

LEMMA ResultTypes ==
    /\ <<"none">> \in Results
    /\ \A call \in Calls \cup {"abnormal", "setup"} : <<"error", call>> \in Results
    /\ \A code \in Nat : <<"ok", code>> \in Results
    /\ \A x : <<"error", x>> # <<"none">> /\ <<"error", x>>[1] = "error"
    /\ \A x : <<"ok", x>> # <<"none">> /\ <<"ok", x>>[1] = "ok"
    /\ <<"none">>[1] = "none"
BY DEF Results

LEMMA StatusTypes ==
    /\ <<"running">> \in Statuses
    /\ \A code \in Nat : <<"exited", code>> \in Statuses
    /\ \A how \in {"by another", "SIGPIPE"} : <<"killed", how>> \in Statuses
    /\ \A x : <<"exited", x>> # <<"running">> /\ <<"killed", x>> # <<"running">>
    /\ \A x, y : <<"exited", x>> # <<"killed", y>>
    /\ \A x : <<"exited", x>>[1] = "exited" /\ <<"killed", x>>[1] = "killed"
    /\ \A s \in Statuses : \/ s = <<"running">>
                           \/ \E code \in Nat : s = <<"exited", code>>
                           \/ \E how \in {"by another", "SIGPIPE"} : s = <<"killed", how>>
<1>1. /\ <<"running">> \in Statuses
      /\ \A code \in Nat : <<"exited", code>> \in Statuses
      /\ \A how \in {"by another", "SIGPIPE"} : <<"killed", how>> \in Statuses
  BY DEF Statuses
<1>2. \A x : /\ <<"exited", x>>[1] = "exited" /\ <<"killed", x>>[1] = "killed"
             /\ <<"running">>[1] = "running"
  OBVIOUS
<1>3. /\ \A x : <<"exited", x>> # <<"running">> /\ <<"killed", x>> # <<"running">>
      /\ \A x, y : <<"exited", x>> # <<"killed", y>>
  BY <1>2
<1>4. ASSUME NEW s \in Statuses
      PROVE  \/ s = <<"running">>
             \/ \E code \in Nat : s = <<"exited", code>>
             \/ \E how \in {"by another", "SIGPIPE"} : s = <<"killed", how>>
  <2>1. CASE s \in {"exited"} \X Nat
    <3>1. s = <<"exited", s[2]>> /\ s[2] \in Nat
      BY <2>1
    <3> QED
      BY <3>1
  <2> QED
    BY <2>1 DEF Statuses
<1> QED
  BY <1>1, <1>2, <1>3, <1>4

-----------------------------------------------------------------------------
(* The parent, up to where it reads.                                       *)

LEMMA CreateStep ==
    ASSUME IInv, create_stdout \/ create_stderr
    PROVE  IInv'
<1>1. PICK p \in Pipes, next \in {"create_stderr", "fork"} :
         /\ \/ pc = "create_stdout" /\ p = "stdout" /\ next = "create_stderr"
            \/ pc = "create_stderr" /\ p = "stderr" /\ next = "fork"
         /\ \/ /\ pc' = next
               /\ readers' = [readers EXCEPT ![p] = {"parent"}]
               /\ writers' = [writers EXCEPT ![p] = {"parent"}]
               /\ UNCHANGED <<result, faults>>
            \/ /\ Fails("pipe2")
               /\ pc' = "done" /\ result' = <<"error", "pipe2">>
               /\ readers' = [q \in Pipes |-> {}] /\ writers' = [q \in Pipes |-> {}]
         /\ UNCHANGED <<poll_fds, revents, output, read_ok, processVars, bytes, written>>
  BY DEF create_stdout, create_stderr, create, Pipes
<1>2. /\ child = "none" /\ grandchild = "none" /\ poll_fds = Pipes /\ read_ok
      /\ faults = <<>> /\ status = <<"running">> /\ result = <<"none">>
  BY <1>1 DEF IInv, ChildIsKnown
<1>3. BytesAreInOrder'
  BY <1>1 DEF IInv, BytesAreInOrder
<1>4. CASE pc' = next
  <2>1. /\ pc' = next
        /\ readers' = [readers EXCEPT ![p] = {"parent"}]
        /\ writers' = [writers EXCEPT ![p] = {"parent"}]
        /\ UNCHANGED <<result, faults>>
    BY <1>1, <1>4
  <2>2. TypeOK'
    BY <1>1, <2>1 DEF IInv, TypeOK, PCs, Processes, processVars
  <2>3. EndsAreOpen'
    BY <1>1, <1>2, <2>1 DEF IInv, EndsAreOpen, Created, TypeOK, Pipes, processVars
  <2>4. ChildIsKnown'
    BY <1>1, <1>2, <2>1 DEF IInv, ChildIsKnown, processVars
  <2>5. PipesAreReadToTheEnd' /\ ErrorsAreKept'
    BY <1>1, <1>2, <2>1 DEF IInv, PipesAreReadToTheEnd, ErrorsAreKept, processVars
  <2>6. ResultIsRight' /\ ~Done'
    BY <1>1, <1>2, <2>1, ResultTypes DEF IInv, ResultIsRight, Done, processVars
  <2> QED
    BY <1>3, <2>2, <2>3, <2>4, <2>5, <2>6 DEF IInv
<1>5. CASE pc' # next
  <2>1. /\ pc' = "done" /\ result' = <<"error", "pipe2">>
        /\ readers' = [q \in Pipes |-> {}] /\ writers' = [q \in Pipes |-> {}]
    BY <1>1, <1>5
  <2>2. faults' \in Seq(Calls) /\ faults' # <<>>
    BY <1>1, <1>5, FailsMeans DEF IInv, Calls
  <2>3. TypeOK'
    BY <1>1, <2>1, <2>2, ResultTypes DEF IInv, TypeOK, PCs, Calls, processVars
  <2>4. EndsAreOpen'
    BY <1>1, <1>2, <2>1 DEF EndsAreOpen, Created, processVars
  <2>5. ChildIsKnown'
    BY <1>1, <1>2, <2>1, ResultTypes DEF ChildIsKnown, processVars
  <2>6. PipesAreReadToTheEnd'
    BY <1>1, <1>2, <2>1 DEF PipesAreReadToTheEnd, processVars
  <2>7. ErrorsAreKept' /\ ResultIsRight' /\ NothingIsLeft'
    BY <1>1, <1>2, <2>1, <2>2, ResultTypes, StatusTypes
       DEF ErrorsAreKept, ResultIsRight, NothingIsLeft, processVars
  <2> QED
    BY <1>3, <2>3, <2>4, <2>5, <2>6, <2>7 DEF IInv
<1> QED
  BY <1>4, <1>5

LEMMA StartChildStep ==
    ASSUME IInv, start_child
    PROVE  IInv'
<1>1. /\ pc = "fork" /\ child = "none" /\ grandchild = "none" /\ poll_fds = Pipes
      /\ read_ok /\ faults = <<>> /\ status = <<"running">> /\ result = <<"none">>
  BY DEF start_child, IInv, ChildIsKnown
<1>2. UNCHANGED <<poll_fds, revents, output, read_ok, status, grandchild, bytes, written>>
  BY DEF start_child
<1>3. BytesAreInOrder'
  BY <1>2 DEF IInv, BytesAreInOrder
<1>4. CASE pc' = "close_write"
  <2>1. /\ child' = "setup"
        /\ readers' = [p \in Pipes |-> {"parent", "child"}]
        /\ writers' = [p \in Pipes |-> {"parent", "child"}]
        /\ UNCHANGED <<result, faults>>
    BY <1>4 DEF start_child
  <2>2. TypeOK'
    BY <1>2, <1>4, <2>1 DEF IInv, TypeOK, PCs, Processes
  <2>3. EndsAreOpen'
    BY <1>1, <1>2, <1>4, <2>1 DEF EndsAreOpen, Created
  <2>4. ChildIsKnown'
    BY <1>1, <1>2, <1>4, <2>1 DEF ChildIsKnown
  <2>5. PipesAreReadToTheEnd' /\ ErrorsAreKept'
    BY <1>1, <1>2, <1>4, <2>1, ResultTypes DEF PipesAreReadToTheEnd, ErrorsAreKept
  <2>6. ResultIsRight' /\ ~Done'
    BY <1>1, <1>2, <1>4, <2>1, ResultTypes, StatusTypes DEF ResultIsRight, Done
  <2> QED
    BY <1>3, <2>2, <2>3, <2>4, <2>5, <2>6 DEF IInv
<1>5. CASE pc' # "close_write"
  <2>1. /\ Fails("fork")
        /\ pc' = "done" /\ result' = <<"error", "fork">>
        /\ readers' = [p \in Pipes |-> {}] /\ writers' = [p \in Pipes |-> {}]
        /\ UNCHANGED child
    BY <1>5 DEF start_child
  <2>2. faults' \in Seq(Calls) /\ faults' # <<>>
    BY <2>1, FailsMeans DEF IInv, Calls
  <2>3. TypeOK'
    BY <1>2, <2>1, <2>2, ResultTypes DEF IInv, TypeOK, PCs, Calls
  <2>4. EndsAreOpen'
    BY <1>1, <1>2, <2>1 DEF EndsAreOpen, Created
  <2>5. ChildIsKnown'
    BY <1>1, <1>2, <2>1, ResultTypes DEF ChildIsKnown
  <2>6. PipesAreReadToTheEnd'
    BY <1>1, <1>2, <2>1 DEF PipesAreReadToTheEnd
  <2>7. ErrorsAreKept' /\ ResultIsRight' /\ NothingIsLeft'
    BY <1>1, <1>2, <2>1, <2>2, ResultTypes, StatusTypes
       DEF ErrorsAreKept, ResultIsRight, NothingIsLeft
  <2> QED
    BY <1>3, <2>3, <2>4, <2>5, <2>6, <2>7 DEF IInv
<1> QED
  BY <1>4, <1>5

\* Both close their ends of the pipes one after the other.
LEMMA CloseStep ==
    ASSUME IInv, close_write_fds \/ close_read_fds
    PROVE  IInv'
<1>1. /\ UNCHANGED <<parentVars, processVars, bytes, written, faults>>
      /\ result = <<"none">> /\ child # "none" /\ child # "reaped"
  BY DEF close_write_fds, close_read_fds, IInv, ChildIsKnown
<1>2. \/ /\ pc = "close_write" /\ pc' = "poll"
         /\ writers' = Closed(writers, "parent") /\ UNCHANGED readers
      \/ /\ pc = "close_read" /\ pc' = "wait"
         /\ readers' = Closed(readers, "parent") /\ UNCHANGED writers
  BY DEF close_write_fds, close_read_fds
<1>3. TypeOK'
  BY <1>1, <1>2 DEF IInv, TypeOK, PCs, Closed, Processes, parentVars, processVars
<1>4. BytesAreInOrder'
  BY <1>1 DEF IInv, BytesAreInOrder, parentVars
<1>5. EndsAreOpen'
  BY <1>1, <1>2 DEF IInv, EndsAreOpen, Created, Closed, TypeOK, processVars
<1>6. ChildIsKnown'
  BY <1>1, <1>2 DEF IInv, ChildIsKnown, parentVars, processVars
<1>7. PipesAreReadToTheEnd'
  BY <1>1, <1>2 DEF IInv, PipesAreReadToTheEnd, Closed, parentVars, processVars
<1>8. ErrorsAreKept' /\ ResultIsRight' /\ ~Done'
  BY <1>1, <1>2, ResultTypes
     DEF IInv, ErrorsAreKept, ResultIsRight, Done, parentVars, processVars
<1> QED
  BY <1>3, <1>4, <1>5, <1>6, <1>7, <1>8 DEF IInv

-----------------------------------------------------------------------------
(* The parent reads.                                                       *)

\* What steps of the parent leave alone while it reads.
Reading == UNCHANGED <<result, processVars, readers, writers, written>>

\* An error of poll() or read().
LEMMA ReadFailsStep ==
    ASSUME IInv, Reading, pc \in {"poll", "read_stdout", "read_stderr"},
           NEW call \in Calls, ReadFails(call)
    PROVE  IInv'
<1>1. /\ UNCHANGED <<result, child, status, grandchild, readers, writers, written>>
      /\ UNCHANGED <<poll_fds, revents, output, bytes>>
      /\ read_ok' = FALSE /\ pc' = "close_read"
      /\ result = <<"none">> /\ child # "none" /\ child # "reaped"
  BY DEF Reading, ReadFails, processVars, IInv, ChildIsKnown
<1>2. faults' \in Seq(Calls) /\ faults' # <<>>
  BY FailsMeans DEF ReadFails, IInv
<1>3. TypeOK'
  BY <1>1, <1>2 DEF IInv, TypeOK, PCs
<1>4. BytesAreInOrder' /\ EndsAreOpen' /\ ChildIsKnown'
  BY <1>1 DEF IInv, BytesAreInOrder, EndsAreOpen, Created, ChildIsKnown
<1>5. PipesAreReadToTheEnd'
  BY <1>1 DEF IInv, PipesAreReadToTheEnd
<1>6. ErrorsAreKept' /\ ResultIsRight' /\ ~Done'
  BY <1>1, <1>2, ResultTypes DEF IInv, ErrorsAreKept, ResultIsRight, Done
<1> QED
  BY <1>3, <1>4, <1>5, <1>6 DEF IInv

\* Steps that read nothing; the loop is left when both pipes are at their end.
LEMMA NothingReadStep ==
    ASSUME IInv, Reading, UNCHANGED <<poll_fds, output, read_ok, bytes, faults>>,
           revents' \subseteq Pipes,
           \/ /\ pc \in {"poll", "read_stdout", "read_stderr"}
              /\ pc' \in {"poll", "read_stdout", "read_stderr"}
           \/ pc = "poll" /\ pc' = "close_read" /\ poll_fds = {}
    PROVE  IInv'
<1>1. /\ UNCHANGED <<result, child, status, grandchild, readers, writers, written>>
      /\ result = <<"none">> /\ child # "none" /\ child # "reaped"
  BY DEF Reading, processVars, IInv, ChildIsKnown
<1>2. TypeOK'
  BY <1>1 DEF IInv, TypeOK, PCs
<1>3. BytesAreInOrder' /\ EndsAreOpen' /\ ChildIsKnown'
  BY <1>1 DEF IInv, BytesAreInOrder, EndsAreOpen, Created, ChildIsKnown
<1>4. PipesAreReadToTheEnd'
  BY <1>1 DEF IInv, PipesAreReadToTheEnd
<1>5. ErrorsAreKept' /\ ResultIsRight' /\ ~Done'
  BY <1>1, ResultTypes DEF IInv, ErrorsAreKept, ResultIsRight, Done
<1> QED
  BY <1>2, <1>3, <1>4, <1>5 DEF IInv

LEMMA SumIsKept ==
    \A l, m \in Nat : \A count \in 0..m : (l + count) + (m - count) = l + m
OBVIOUS

\* What has been read and what is still in the pipe, as BytesAreInOrder has it.
Numbered(out, b) ==
    /\ \A i \in 1..Len(out) : out[i] = i
    /\ \A i \in 1..Len(b) : b[i] = Len(out) + i

\* The first count bytes go from one sequence to the other.
Moved(out, b, count) ==
    \E newOut, newB \in Seq(Nat) :
        /\ newOut = out \o SubSeq(b, 1, count)
        /\ newB = SubSeq(b, count + 1, Len(b))
        /\ Len(newOut) + Len(newB) = Len(out) + Len(b)
        /\ count = Len(b) => newB = <<>>
        /\ Numbered(newOut, newB)

LEMMA BytesMove ==
    ASSUME NEW out \in Seq(Nat), NEW b \in Seq(Nat), NEW count \in 0..Len(b), Numbered(out, b)
    PROVE  Moved(out, b, count)
<1> DEFINE taken  == SubSeq(b, 1, count)
           newOut == out \o taken
           newB   == SubSeq(b, count + 1, Len(b))
<1>1. Len(b) \in Nat /\ Len(out) \in Nat /\ \A i \in 1..Len(b) : b[i] \in Nat
  BY LenProperties
<1>2. /\ taken \in Seq(Nat) /\ Len(taken) = count
      /\ \A i \in 1..count : taken[i] = b[i]
  BY <1>1, SubSeqProperties
<1>3. /\ newB \in Seq(Nat) /\ Len(newB) = Len(b) - count
      /\ \A i \in 1..(Len(b) - count) : newB[i] = b[count + i]
  <2>1. /\ count + 1 \in Int /\ Len(b) \in Int
        /\ \A i \in count + 1..Len(b) : b[i] \in Nat
    BY <1>1
  <2>2. /\ newB \in Seq(Nat)
        /\ Len(newB) = IF count + 1 <= Len(b) THEN Len(b) - (count + 1) + 1 ELSE 0
        /\ \A i \in 1..(Len(b) - (count + 1) + 1) : newB[i] = b[count + 1 + i - 1]
    BY <2>1, SubSeqProperties
  <2>3. /\ Len(b) - (count + 1) + 1 = Len(b) - count
        /\ \A i \in 1..(Len(b) - count) : count + 1 + i - 1 = count + i
    BY <1>1
  <2> HIDE DEF newB
  <2>4. ASSUME NEW i \in 1..(Len(b) - count) PROVE newB[i] = b[count + i]
    BY <2>2, <2>3
  <2>5. Len(newB) = Len(b) - count
    <3>1. CASE count = Len(b)
      <4>1. ~ (count + 1 <= Len(b)) /\ Len(b) - count = 0
        BY <1>1, <3>1
      <4> QED
        BY <2>2, <4>1
    <3>2. CASE count # Len(b)
      <4>1. count + 1 <= Len(b)
        BY <1>1, <3>2
      <4> QED
        BY <2>2, <2>3, <4>1
    <3> QED
      BY <3>1, <3>2
  <2> QED
    BY <2>2, <2>4, <2>5
<1> HIDE DEF taken
<1>4. /\ newOut \in Seq(Nat) /\ Len(newOut) = Len(out) + count
      /\ \A i \in 1..Len(out) + count :
            newOut[i] = IF i <= Len(out) THEN out[i] ELSE taken[i - Len(out)]
  BY <1>2, ConcatProperties
<1> HIDE DEF newOut, newB
<1>5. ASSUME NEW i \in 1..Len(out) + count PROVE newOut[i] = i
  <2>1. CASE i <= Len(out)
    <3>1. i \in 1..Len(out)
      BY <1>1, <2>1
    <3>2. newOut[i] = out[i]
      BY <1>4, <2>1
    <3> QED
      BY <3>1, <3>2 DEF Numbered
  <2>2. CASE i > Len(out)
    <3>1. i - Len(out) \in 1..count /\ i - Len(out) \in 1..Len(b)
      BY <1>1, <2>2
    <3>2. newOut[i] = taken[i - Len(out)]
      BY <1>1, <1>4, <2>2
    <3>3. taken[i - Len(out)] = b[i - Len(out)]
      BY <1>2, <3>1
    <3>4. b[i - Len(out)] = Len(out) + (i - Len(out))
      BY <3>1 DEF Numbered
    <3> QED
      BY <1>1, <3>2, <3>3, <3>4
  <2>3. i <= Len(out) \/ i > Len(out)
    BY <1>1
  <2> QED
    BY <2>1, <2>2, <2>3
<1>6. ASSUME NEW i \in 1..(Len(b) - count) PROVE newB[i] = Len(out) + count + i
  <2>1. count + i \in 1..Len(b)
    BY <1>1
  <2> QED
    BY <1>1, <1>3, <2>1 DEF Numbered
<1>7. Len(newOut) + Len(newB) = Len(out) + Len(b)
  <2>1. Len(newOut) = Len(out) + count /\ Len(newB) = Len(b) - count
    BY <1>3, <1>4
  <2> QED
    BY <1>1, <2>1, SumIsKept, Zenon
<1>8. ASSUME count = Len(b) PROVE newB = <<>>
  <2>1. Len(b) - count = 0
    BY <1>1, <1>8
  <2> QED
    BY <1>3, <2>1, EmptySeq
<1>9. /\ \A i \in 1..Len(newOut) : newOut[i] = i
      /\ \A i \in 1..Len(newB) : newB[i] = Len(newOut) + i
  BY <1>3, <1>4, <1>5, <1>6
<1>10. /\ newOut = out \o SubSeq(b, 1, count)
       /\ newB = SubSeq(b, count + 1, Len(b))
  BY Zenon DEF newOut, taken, newB
<1> QED
  <2>1. newOut \in Seq(Nat) /\ newB \in Seq(Nat)
    BY <1>3, <1>4
  <2> QED
    BY <1>7, <1>8, <1>9, <1>10, <2>1, Zenon DEF Moved, Numbered

LEMMA PollStep ==
    ASSUME IInv, poll_pipes
    PROVE  IInv'
<1>1. pc = "poll" /\ Reading
  BY DEF poll_pipes, Reading, parentVars
<1>2. CASE poll_fds = {} /\ pc' = "close_read" /\ UNCHANGED <<parentVars, bytes, faults>>
  <2>1. revents' \subseteq Pipes
    BY <1>2 DEF IInv, TypeOK, parentVars
  <2> QED
    BY <1>1, <1>2, <2>1, NothingReadStep DEF parentVars
<1>3. CASE /\ revents' = {p \in poll_fds : Readable(p)} /\ pc' = "read_stdout"
           /\ UNCHANGED <<poll_fds, output, read_ok, result, bytes, faults>>
  <2>1. revents' \subseteq Pipes
    BY <1>3 DEF IInv, TypeOK
  <2> QED
    BY <1>1, <1>3, <2>1, NothingReadStep
<1>4. CASE ReadFails("poll")
  BY <1>1, <1>4, ReadFailsStep DEF Calls
<1> QED
  BY <1>2, <1>3, <1>4 DEF poll_pipes

\* A pipe that is given up is at its end: nothing is in it and nobody can
\* write to it.
LEMMA BytesReadStep ==
    ASSUME IInv, Reading, UNCHANGED <<revents, read_ok, faults>>,
           pc \in {"read_stdout", "read_stderr"}, pc' \in {"read_stderr", "poll"},
           NEW p \in Pipes, NEW newOut \in Seq(Nat), NEW newB \in Seq(Nat),
           output' = [output EXCEPT ![p] = newOut],
           bytes' = [bytes EXCEPT ![p] = newB],
           written[p] = Len(newOut) + Len(newB),
           Numbered(newOut, newB),
           p \notin poll_fds => newB = <<>>,
           \/ poll_fds' = poll_fds
           \/ poll_fds' = poll_fds \ {p} /\ newB = <<>> /\ writers[p] = {}
    PROVE  IInv'
<1>1. /\ UNCHANGED <<result, child, status, grandchild, readers, writers, written>>
      /\ result = <<"none">> /\ child # "none" /\ child # "reaped"
  BY DEF Reading, processVars, IInv, ChildIsKnown
<1>2. ASSUME NEW q \in Pipes
      PROVE  /\ output'[q] = IF q = p THEN newOut ELSE output[q]
             /\ bytes'[q] = IF q = p THEN newB ELSE bytes[q]
  BY DEF IInv, TypeOK
<1>3. TypeOK'
  BY <1>1 DEF IInv, TypeOK, PCs
<1>4. BytesAreInOrder'
  <2> SUFFICES ASSUME NEW q \in Pipes
               PROVE  /\ written'[q] = Len(output'[q]) + Len(bytes'[q])
                      /\ \A i \in 1..Len(output'[q]) : output'[q][i] = i
                      /\ \A i \in 1..Len(bytes'[q]) : bytes'[q][i] = Len(output'[q]) + i
    BY DEF BytesAreInOrder
  <2>1. CASE q = p
    BY <1>1, <1>2, <2>1 DEF Numbered
  <2>2. CASE q # p
    <3>1. /\ output'[q] = output[q] /\ bytes'[q] = bytes[q] /\ written'[q] = written[q]
      BY <1>1, <1>2, <2>2
    <3>2. /\ written[q] = Len(output[q]) + Len(bytes[q])
          /\ \A i \in 1..Len(output[q]) : output[q][i] = i
          /\ \A i \in 1..Len(bytes[q]) : bytes[q][i] = Len(output[q]) + i
      BY DEF IInv, BytesAreInOrder
    <3> QED
      BY <3>1, <3>2, Zenon
  <2> QED
    BY <2>1, <2>2
<1>5. EndsAreOpen' /\ ChildIsKnown'
  BY <1>1 DEF IInv, EndsAreOpen, Created, ChildIsKnown
<1>6. PipesAreReadToTheEnd'
  <2>1. ASSUME NEW q \in Pipes \ poll_fds'
        PROVE  bytes'[q] = <<>> /\ writers'[q] = {}
    BY <1>1, <1>2 DEF IInv, PipesAreReadToTheEnd
  <2> QED
    BY <2>1 DEF PipesAreReadToTheEnd
<1>7. ErrorsAreKept' /\ ResultIsRight' /\ ~Done'
  BY <1>1, ResultTypes DEF IInv, ErrorsAreKept, ResultIsRight, Done
<1> QED
  BY <1>3, <1>4, <1>5, <1>6, <1>7 DEF IInv

LEMMA ReadPipeStep ==
    ASSUME IInv, read_stdout \/ read_stderr
    PROVE  IInv'
<1>1. PICK p \in Pipes, here \in {"read_stdout", "read_stderr"},
           next \in {"read_stderr", "poll"} : read_pipe(p, here, next)
  BY DEF read_stdout, read_stderr, Pipes
<1>2. pc = here /\ Reading
  BY <1>1 DEF read_pipe, Reading
<1>3. CASE pc' = next /\ UNCHANGED <<poll_fds, revents, output, read_ok, bytes, faults>>
  <2>1. revents' \subseteq Pipes
    BY <1>3 DEF IInv, TypeOK
  <2> QED
    BY <1>2, <1>3, <2>1, NothingReadStep
<1>4. CASE /\ HasEvents(p) /\ Readable(p)
           /\ \E count \in IF bytes[p] = <<>> THEN {0} ELSE 1..Len(bytes[p]) :
                 /\ output' = [output EXCEPT ![p] = @ \o SubSeq(bytes[p], 1, count)]
                 /\ bytes' = [bytes EXCEPT ![p] = SubSeq(@, count + 1, Len(@))]
                 /\ poll_fds' = IF AtEnd(p, count) THEN poll_fds \ {p} ELSE poll_fds
           /\ pc' = next
           /\ UNCHANGED <<revents, read_ok, faults>>
  <2>1. PICK count \in IF bytes[p] = <<>> THEN {0} ELSE 1..Len(bytes[p]) :
           /\ output' = [output EXCEPT ![p] = @ \o SubSeq(bytes[p], 1, count)]
           /\ bytes' = [bytes EXCEPT ![p] = SubSeq(@, count + 1, Len(@))]
           /\ poll_fds' = IF AtEnd(p, count) THEN poll_fds \ {p} ELSE poll_fds
    BY <1>4
  <2>2. PICK out \in Seq(Nat), b \in Seq(Nat) : out = output[p] /\ b = bytes[p]
    BY DEF IInv, TypeOK
  <2>3. Len(b) \in Nat
    BY LenProperties
  <2>4. count \in 0..Len(b) /\ (count = 0 => b = <<>>)
    BY <2>2, <2>3
  <2>5. Numbered(out, b) /\ written[p] = Len(out) + Len(b)
    BY <2>2 DEF IInv, BytesAreInOrder, Numbered
  <2>6. Moved(out, b, count)
    BY <2>4, <2>5, BytesMove
  <2>7. PICK newOut, newB \in Seq(Nat) :
           /\ newOut = out \o SubSeq(b, 1, count)
           /\ newB = SubSeq(b, count + 1, Len(b))
           /\ Len(newOut) + Len(newB) = Len(out) + Len(b)
           /\ count = Len(b) => newB = <<>>
           /\ Numbered(newOut, newB)
    BY <2>6 DEF Moved
  <2>8. output' = [output EXCEPT ![p] = newOut] /\ bytes' = [bytes EXCEPT ![p] = newB]
    BY <2>1, <2>2, <2>7
  <2>9. b = <<>> => count = 0 /\ newB = <<>>
    <3> SUFFICES ASSUME b = <<>> PROVE count = 0 /\ newB = <<>>
      OBVIOUS
    <3>1. Len(b) = 0
      OBVIOUS
    <3> QED
      BY <2>4, <2>7, <3>1
  <2>10. p \notin poll_fds => newB = <<>>
    BY <2>2, <2>9 DEF IInv, PipesAreReadToTheEnd
  <2>11. \/ poll_fds' = poll_fds
         \/ poll_fds' = poll_fds \ {p} /\ newB = <<>> /\ writers[p] = {}
    <3>1. CASE count = 0
      <4>1. b = <<>>
        BY <2>4, <3>1
      <4>2. writers[p] = {}
        BY <1>4, <2>2, <4>1 DEF Readable
      <4> QED
        BY <2>1, <2>9, <3>1, <4>1, <4>2 DEF AtEnd
    <3>2. CASE count # 0
      BY <2>1, <3>2 DEF AtEnd
    <3> QED
      BY <3>1, <3>2
  <2>12. written[p] = Len(newOut) + Len(newB)
    BY <2>5, <2>7
  <2> QED
    BY <1>2, <1>4, <2>7, <2>8, <2>10, <2>11, <2>12, BytesReadStep
<1>5. CASE ReadFails("read")
  BY <1>2, <1>5, ReadFailsStep DEF Calls
<1> QED
  BY <1>1, <1>3, <1>4, <1>5 DEF read_pipe

-----------------------------------------------------------------------------
(* The parent waits for the child.                                         *)

LEMMA NumberedMeans ==
    ASSUME NEW out \in Seq(Nat), \A i \in 1..Len(out) : out[i] = i
    PROVE  out = [i \in 1..Len(out) |-> i]
<1>1. DOMAIN out = 1..Len(out) /\ out = [i \in DOMAIN out |-> out[i]]
  BY LenProperties
<1> QED
  BY <1>1

\* The result of a child that has ended, by how it ended and what was read.
LEMMA OutcomeMeans ==
    ASSUME TypeOK, status # <<"running">>
    PROVE  \/ Outcome = <<"error", "abnormal">> /\ status[1] = "killed"
           \/ Outcome = <<"error", "setup">> /\ status = <<"exited", CHILD_SETUP_FAILURE_EXIT_CODE>>
           \/ Outcome = <<"error", "read">> /\ ~read_ok
           \/ \E code \in Nat \ {CHILD_SETUP_FAILURE_EXIT_CODE} :
                 /\ Outcome = <<"ok", code>> /\ status = <<"exited", code>> /\ read_ok
<1>1. CASE \E code \in Nat : status = <<"exited", code>>
  <2>1. PICK code \in Nat : status = <<"exited", code>>
    BY <1>1
  <2>2. status[1] = "exited" /\ status[2] = code
    BY <2>1
  <2> QED
    BY <2>1, <2>2 DEF Outcome
<1>2. CASE \E how \in {"by another", "SIGPIPE"} : status = <<"killed", how>>
  <2>1. status[1] = "killed"
    BY <1>2, StatusTypes
  <2> QED
    BY <2>1 DEF Outcome
<1> QED
  BY <1>1, <1>2, StatusTypes DEF TypeOK

LEMMA ChildWaitStep ==
    ASSUME IInv, child_wait
    PROVE  IInv'
<1>1. /\ pc = "wait" /\ pc' = "done" /\ result = <<"none">> /\ child # "none"
      /\ UNCHANGED <<poll_fds, revents, output, read_ok, status, grandchild>>
      /\ UNCHANGED <<readers, writers, bytes, written>>
      /\ \A p \in Pipes : "parent" \notin readers[p] \cup writers[p]
  BY DEF child_wait, pipeVars, IInv, ChildIsKnown, EndsAreOpen, Created
<1>2. BytesAreInOrder'
  BY <1>1 DEF IInv, BytesAreInOrder
<1>3. CASE child = "dead" /\ child' = "reaped" /\ result' = Outcome /\ UNCHANGED faults
  <2>1. /\ status # <<"running">>
        /\ read_ok => poll_fds = {}
        /\ \A p \in Pipes \ poll_fds : bytes[p] = <<>> /\ writers[p] = {}
        /\ ~read_ok => faults # <<>>
        /\ faults # <<>> =>
              ~read_ok \/ status = <<"exited", CHILD_SETUP_FAILURE_EXIT_CODE>>
        /\ status = <<"killed", "SIGPIPE">> => ~read_ok
    BY <1>1, <1>3 DEF IInv, ChildIsKnown, PipesAreReadToTheEnd, ErrorsAreKept, ResultIsRight
  <2>2. \/ result' = <<"error", "abnormal">> /\ status[1] = "killed"
        \/ result' = <<"error", "setup">> /\ status = <<"exited", CHILD_SETUP_FAILURE_EXIT_CODE>>
        \/ result' = <<"error", "read">> /\ ~read_ok
        \/ \E code \in Nat \ {CHILD_SETUP_FAILURE_EXIT_CODE} :
              /\ result' = <<"ok", code>> /\ status = <<"exited", code>> /\ read_ok
    BY <1>3, <2>1, OutcomeMeans DEF IInv
  <2>3. CASE \E code \in Nat \ {CHILD_SETUP_FAILURE_EXIT_CODE} :
                result' = <<"ok", code>> /\ status = <<"exited", code>> /\ read_ok
    <3>1. PICK code \in Nat \ {CHILD_SETUP_FAILURE_EXIT_CODE} :
             result' = <<"ok", code>> /\ status = <<"exited", code>> /\ read_ok
      BY <2>3
    <3>2. /\ result' \in Results /\ result'[1] = "ok" /\ result'[2] = code
          /\ result' # <<"none">> /\ result'[1] # "error"
      BY <3>1, ResultTypes
    <3>3. faults = <<>>
      <4>1. status # <<"exited", CHILD_SETUP_FAILURE_EXIT_CODE>>
        <5>1. <<"exited", code>>[2] = code
              /\ <<"exited", CHILD_SETUP_FAILURE_EXIT_CODE>>[2] = CHILD_SETUP_FAILURE_EXIT_CODE
          OBVIOUS
        <5> QED
          BY <3>1, <5>1
      <4> QED
        BY <2>1, <3>1, <4>1
    <3>4. \A p \in Pipes : bytes[p] = <<>> /\ writers[p] = {}
      BY <2>1, <3>1
    <3>5. ASSUME NEW p \in Pipes PROVE output[p] = [i \in 1..written[p] |-> i]
      <4>1. /\ output[p] \in Seq(Nat)
            /\ \A i \in 1..Len(output[p]) : output[p][i] = i
            /\ written[p] = Len(output[p]) + Len(bytes[p])
        BY DEF IInv, TypeOK, BytesAreInOrder
      <4>2. Len(bytes[p]) = 0 /\ Len(output[p]) \in Nat
        BY <3>4, <4>1, LenProperties
      <4>3. written[p] = Len(output[p])
        BY <4>1, <4>2
      <4> QED
        BY <4>1, <4>3, NumberedMeans
    <3>6. TypeOK'
      BY <1>1, <1>3, <3>2 DEF IInv, TypeOK, PCs
    <3>7. writers = [p \in Pipes |-> {}]
      BY <3>4 DEF IInv, TypeOK
    <3>8. ResultIsRight'
      <4>1. \A p \in Pipes : output'[p] = [i \in 1..written'[p] |-> i]
        BY <1>1, <3>5
      <4>2. status' = <<"exited", result'[2]>> /\ faults' = <<>> /\ writers' = [p \in Pipes |-> {}]
        BY <1>1, <1>3, <3>1, <3>2, <3>3, <3>7
      <4> QED
        BY <1>1, <2>1, <3>2, <4>1, <4>2 DEF ResultIsRight
    <3>9. ErrorsAreKept' /\ NothingIsLeft' /\ ChildIsKnown'
      BY <1>1, <1>3, <2>1, <3>1, <3>2, <3>3
         DEF IInv, ErrorsAreKept, NothingIsLeft, ChildIsKnown
    <3>10. EndsAreOpen' /\ PipesAreReadToTheEnd'
      BY <1>1, <1>3 DEF IInv, EndsAreOpen, Created, PipesAreReadToTheEnd
    <3> QED
      BY <1>2, <3>6, <3>8, <3>9, <3>10 DEF IInv
  <2>4. CASE \/ result' = <<"error", "abnormal">> /\ status[1] = "killed"
             \/ result' = <<"error", "setup">>
                /\ status = <<"exited", CHILD_SETUP_FAILURE_EXIT_CODE>>
             \/ result' = <<"error", "read">> /\ ~read_ok
    <3>1. /\ result' \in Results /\ result'[1] = "error" /\ result'[1] # "ok"
          /\ result' # <<"none">>
      BY <2>4, ResultTypes DEF Calls
    <3>2. TypeOK'
      BY <1>1, <1>3, <3>1 DEF IInv, TypeOK, PCs
    <3>3. ResultIsRight'
      BY <1>1, <1>3, <2>1, <2>4, <3>1 DEF ResultIsRight
    <3>4. ErrorsAreKept' /\ NothingIsLeft' /\ ChildIsKnown'
      BY <1>1, <1>3, <2>1, <3>1 DEF IInv, ErrorsAreKept, NothingIsLeft, ChildIsKnown
    <3>5. EndsAreOpen' /\ PipesAreReadToTheEnd'
      BY <1>1, <1>3 DEF IInv, EndsAreOpen, Created, PipesAreReadToTheEnd
    <3> QED
      BY <1>2, <3>2, <3>3, <3>4, <3>5 DEF IInv
  <2> QED
    BY <2>2, <2>3, <2>4
<1>4. CASE Fails("waitpid") /\ result' = <<"error", "waitpid">> /\ UNCHANGED child
  <2>1. faults' \in Seq(Calls) /\ faults' # <<>>
    BY <1>4, FailsMeans DEF IInv, Calls
  <2>2. /\ result' \in Results /\ result'[1] = "error" /\ result'[1] # "ok"
        /\ result' # <<"none">>
    BY <1>4, ResultTypes DEF Calls
  <2>3. TypeOK'
    BY <1>1, <1>4, <2>1, <2>2 DEF IInv, TypeOK, PCs
  <2>4. ResultIsRight'
    BY <1>1, <1>4, <2>1, <2>2 DEF IInv, ResultIsRight
  <2>5. ErrorsAreKept' /\ NothingIsLeft' /\ ChildIsKnown'
    BY <1>1, <1>4, <2>1, <2>2 DEF IInv, ErrorsAreKept, NothingIsLeft, ChildIsKnown
  <2>6. EndsAreOpen' /\ PipesAreReadToTheEnd'
    BY <1>1, <1>4 DEF IInv, EndsAreOpen, Created, PipesAreReadToTheEnd
  <2> QED
    BY <1>2, <2>3, <2>4, <2>5, <2>6 DEF IInv
<1> QED
  BY <1>3, <1>4 DEF child_wait

-----------------------------------------------------------------------------
(* The child and what it starts.                                           *)

\* A successful result is of a child that is no more, and of pipes that
\* nobody can write to.
LEMMA NothingRunsAfterwards ==
    ASSUME IInv, result[1] = "ok"
    PROVE  child = "reaped" /\ grandchild # "program" /\ \A p \in Pipes : writers[p] = {}
<1>1. child = "reaped" /\ writers = [p \in Pipes |-> {}]
  BY DEF IInv, ErrorsAreKept, ResultIsRight
<1>2. \A p \in Pipes : writers[p] = {}
  BY <1>1
<1> QED
  BY <1>1, <1>2 DEF IInv, EndsAreOpen, Pipes

\* The child starts the program, or fails to.
LEMMA ChildExecStep ==
    ASSUME IInv, child_exec
    PROVE  IInv'
<1>1. /\ child = "setup" /\ status = <<"running">> /\ result[1] # "ok"
      /\ UNCHANGED <<pc, poll_fds, revents, output, read_ok, result>>
      /\ UNCHANGED <<grandchild, bytes, written>>
  BY NothingRunsAfterwards DEF child_exec, parentVars, IInv, ChildIsKnown
<1>2. BytesAreInOrder'
  BY <1>1 DEF IInv, BytesAreInOrder
<1>3. ~ NothingIsLeft \/ result = <<"error", "waitpid">>
  BY <1>1 DEF NothingIsLeft
<1>4. CASE /\ child' = "program" /\ readers' = Closed(readers, "child")
           /\ UNCHANGED <<status, writers, faults>>
  <2>1. TypeOK'
    BY <1>1, <1>4 DEF IInv, TypeOK, Closed
  <2>2. EndsAreOpen'
    BY <1>1, <1>4 DEF IInv, EndsAreOpen, Created, Closed, TypeOK
  <2>3. ChildIsKnown' /\ PipesAreReadToTheEnd' /\ ErrorsAreKept'
    BY <1>1, <1>4 DEF IInv, ChildIsKnown, PipesAreReadToTheEnd, ErrorsAreKept
  <2>4. ResultIsRight' /\ (Done => NothingIsLeft)'
    BY <1>1, <1>3, <1>4, StatusTypes
       DEF IInv, ResultIsRight, Done, NothingIsLeft, Closed
  <2> QED
    BY <1>2, <2>1, <2>2, <2>3, <2>4 DEF IInv
<1>5. CASE /\ \E call \in {"dup2", "exec"} : Fails(call)
           /\ ChildEnds(<<"exited", CHILD_SETUP_FAILURE_EXIT_CODE>>)
  <2>1. faults' \in Seq(Calls) /\ faults' # <<>>
    BY <1>5, FailsMeans DEF IInv, Calls
  <2>2. /\ child' = "dead" /\ status' = <<"exited", CHILD_SETUP_FAILURE_EXIT_CODE>>
        /\ readers' = Closed(readers, "child") /\ writers' = Closed(writers, "child")
    BY <1>5 DEF ChildEnds
  <2>3. /\ status' \in Statuses /\ status' # <<"running">>
        /\ status' # <<"killed", "SIGPIPE">>
    BY <2>2, StatusTypes DEF CHILD_SETUP_FAILURE_EXIT_CODE
  <2>4. TypeOK'
    BY <1>1, <2>1, <2>2, <2>3 DEF IInv, TypeOK, Closed
  <2>5. EndsAreOpen'
    BY <1>1, <2>2 DEF IInv, EndsAreOpen, Created, Closed, TypeOK
  <2>6. ChildIsKnown'
    <3>1. pc \notin {"create_stdout", "create_stderr", "fork"}
      BY <1>1 DEF IInv, ChildIsKnown
    <3> QED
      BY <1>1, <2>2, <2>3, <3>1 DEF IInv, ChildIsKnown
  <2>7. PipesAreReadToTheEnd'
    BY <1>1, <2>2 DEF IInv, PipesAreReadToTheEnd, Closed
  <2>8. ErrorsAreKept'
    BY <1>1, <2>1, <2>2 DEF ErrorsAreKept
  <2>9. ResultIsRight' /\ (Done => NothingIsLeft)'
    BY <1>1, <1>3, <2>1, <2>2, <2>3 DEF IInv, ResultIsRight, Done, NothingIsLeft, Closed
  <2> QED
    BY <1>2, <2>4, <2>5, <2>6, <2>7, <2>8, <2>9 DEF IInv
<1> QED
  BY <1>4, <1>5 DEF child_exec

\* The bytes of a pipe are numbered in the order they are written.
LEMMA WriteStep ==
    ASSUME IInv, program_writes("child") \/ program_writes("grandchild")
    PROVE  IInv'
<1>1. /\ child = "program" \/ grandchild = "program"
      /\ UNCHANGED <<pc, poll_fds, revents, output, read_ok, result>>
      /\ UNCHANGED <<child, status, grandchild, readers, writers, faults>>
  BY DEF program_writes, Running, parentVars, processVars
<1>2. PICK p \in Pipes :
         /\ written' = [written EXCEPT ![p] = @ + 1]
         /\ bytes' = [bytes EXCEPT ![p] = Append(@, written'[p])]
  BY DEF program_writes
<1>3. PICK b \in Seq(Nat), out \in Seq(Nat) : b = bytes[p] /\ out = output[p]
  BY DEF IInv, TypeOK
<1>4. Len(b) \in Nat /\ Len(out) \in Nat
  BY LenProperties
<1>5. /\ written[p] = Len(out) + Len(b) /\ written[p] \in Nat
      /\ Numbered(out, b)
  BY <1>3 DEF IInv, TypeOK, BytesAreInOrder, Numbered
<1>6. PICK n \in Nat : n = written[p] + 1
  BY <1>5
<1>7. PICK newB \in Seq(Nat) :
         /\ newB = Append(b, n) /\ Len(newB) = Len(b) + 1
         /\ \A i \in 1..Len(b) : newB[i] = b[i]
         /\ newB[Len(b) + 1] = n
  <2>1. Append(b, n) \in Seq(Nat) /\ Len(Append(b, n)) = Len(b) + 1
    BY AppendProperties
  <2>2. \A i \in 1..Len(b) : Append(b, n)[i] = b[i]
    BY AppendProperties
  <2>3. Append(b, n)[Len(b) + 1] = n
    BY AppendProperties
  <2> QED
    BY <2>1, <2>2, <2>3
<1>8. written' = [written EXCEPT ![p] = n] /\ bytes' = [bytes EXCEPT ![p] = newB]
  <2>1. written' = [written EXCEPT ![p] = n] /\ written'[p] = n
    BY <1>2, <1>6 DEF IInv, TypeOK
  <2> QED
    BY <1>2, <1>3, <1>7, <2>1
<1>9. n = Len(out) + Len(newB) /\ Numbered(out, newB)
  <2>1. n = Len(out) + Len(newB) /\ n = Len(out) + (Len(b) + 1)
    BY <1>4, <1>5, <1>6, <1>7
  <2>2. ASSUME NEW i \in 1..Len(newB) PROVE newB[i] = Len(out) + i
    <3>1. i \in 1..Len(b) \/ i = Len(b) + 1
      BY <1>4, <1>7
    <3>2. CASE i \in 1..Len(b)
      BY <1>5, <1>7, <3>2 DEF Numbered
    <3>3. CASE i = Len(b) + 1
      BY <1>7, <2>1, <3>3
    <3> QED
      BY <3>1, <3>2, <3>3
  <2> QED
    BY <1>5, <2>1, <2>2 DEF Numbered
<1>10. TypeOK'
  BY <1>1, <1>8 DEF IInv, TypeOK
<1>11. BytesAreInOrder'
  <2> SUFFICES ASSUME NEW q \in Pipes
               PROVE  /\ written'[q] = Len(output'[q]) + Len(bytes'[q])
                      /\ Numbered(output'[q], bytes'[q])
    BY DEF BytesAreInOrder, Numbered
  <2>1. CASE q = p
    <3>1. written'[q] = n /\ bytes'[q] = newB /\ output'[q] = out
      BY <1>1, <1>3, <1>8, <2>1 DEF IInv, TypeOK
    <3> QED
      BY <1>9, <3>1
  <2>2. CASE q # p
    <3>1. written'[q] = written[q] /\ bytes'[q] = bytes[q] /\ output'[q] = output[q]
      BY <1>1, <1>8, <2>2 DEF IInv, TypeOK
    <3>2. written[q] = Len(output[q]) + Len(bytes[q]) /\ Numbered(output[q], bytes[q])
      BY DEF IInv, BytesAreInOrder, Numbered
    <3> QED
      BY <3>1, <3>2, Zenon
  <2> QED
    BY <2>1, <2>2
<1>12. EndsAreOpen' /\ ChildIsKnown' /\ ErrorsAreKept'
  BY <1>1 DEF IInv, EndsAreOpen, Created, ChildIsKnown, ErrorsAreKept
<1>13. PipesAreReadToTheEnd'
  <2>1. p \in poll_fds
    BY <1>1 DEF IInv, EndsAreOpen, PipesAreReadToTheEnd
  <2> QED
    BY <1>1, <1>8, <2>1 DEF IInv, TypeOK, PipesAreReadToTheEnd
<1>14. ResultIsRight' /\ (Done => NothingIsLeft)'
  <2>1. result[1] # "ok"
    BY <1>1, NothingRunsAfterwards
  <2> QED
    BY <1>1, <2>1 DEF IInv, ResultIsRight, Done, NothingIsLeft
<1> QED
  BY <1>10, <1>11, <1>12, <1>13, <1>14 DEF IInv

LEMMA AnotherProcessStep ==
    ASSUME IInv, program_starts_another \/ other_ends
    PROVE  IInv'
<1>1. /\ \/ /\ child = "program" /\ grandchild' = "program"
            /\ writers' = [p \in Pipes |-> writers[p] \cup {"grandchild"}]
         \/ /\ grandchild = "program" /\ grandchild' = "dead"
            /\ writers' = Closed(writers, "grandchild")
      /\ UNCHANGED <<pc, poll_fds, revents, output, read_ok, result>>
      /\ UNCHANGED <<child, status, readers, bytes, written, faults>>
  BY DEF program_starts_another, other_ends, parentVars
<1>2. TypeOK'
  BY <1>1 DEF IInv, TypeOK, Processes, Closed
<1>3. BytesAreInOrder' /\ ChildIsKnown' /\ ErrorsAreKept'
  BY <1>1 DEF IInv, BytesAreInOrder, ChildIsKnown, ErrorsAreKept
<1>4. EndsAreOpen'
  BY <1>1 DEF IInv, EndsAreOpen, Created, Closed, TypeOK
<1>5. PipesAreReadToTheEnd'
  <2>1. child = "program" => \A p \in Pipes : writers[p] # {}
    BY DEF IInv, EndsAreOpen
  <2> QED
    BY <1>1, <2>1 DEF IInv, PipesAreReadToTheEnd, Closed
<1>6. ResultIsRight' /\ (Done => NothingIsLeft)'
  <2>1. result[1] # "ok"
    BY <1>1, NothingRunsAfterwards
  <2> QED
    BY <1>1, <2>1 DEF IInv, ResultIsRight, Done, NothingIsLeft, Closed
<1> QED
  BY <1>2, <1>3, <1>4, <1>5, <1>6 DEF IInv

\* A pipe that nobody reads any more kills the program that writes to it: the
\* parent has closed its end, which it does when the other end is closed
\* already, or after an error.
LEMMA ProgramEndsStep ==
    ASSUME IInv, program_ends
    PROVE  IInv'
<1>1. /\ child = "program" /\ status = <<"running">> /\ result[1] # "ok"
      /\ UNCHANGED <<pc, poll_fds, revents, output, read_ok, result>>
      /\ UNCHANGED <<grandchild, bytes, written, faults>>
  BY NothingRunsAfterwards DEF program_ends, parentVars, IInv, ChildIsKnown
<1>2. /\ child' = "dead" /\ status' \in Statuses /\ status' # <<"running">>
      /\ readers' = Closed(readers, "child") /\ writers' = Closed(writers, "child")
  BY StatusTypes, ExitCodesAssumption DEF program_ends, ChildEnds
<1>3. pc \notin {"create_stdout", "create_stderr", "fork"}
  BY <1>1 DEF IInv, ChildIsKnown
<1>4. TypeOK'
  BY <1>1, <1>2 DEF IInv, TypeOK, Closed
<1>5. BytesAreInOrder'
  BY <1>1 DEF IInv, BytesAreInOrder
<1>6. EndsAreOpen'
  BY <1>1, <1>2 DEF IInv, EndsAreOpen, Created, Closed, TypeOK
<1>7. ChildIsKnown'
  BY <1>1, <1>2, <1>3 DEF IInv, ChildIsKnown
<1>8. PipesAreReadToTheEnd'
  BY <1>1, <1>2 DEF IInv, PipesAreReadToTheEnd, Closed
<1>9. ErrorsAreKept'
  <2>1. status # <<"exited", CHILD_SETUP_FAILURE_EXIT_CODE>>
    BY <1>1, StatusTypes
  <2>2. faults # <<>> => ~read_ok \/ pc = "done"
    BY <2>1 DEF IInv, ErrorsAreKept
  <2>3. ~read_ok => faults # <<>>
    BY DEF IInv, ErrorsAreKept
  <2> QED
    BY <1>1, <2>2, <2>3 DEF ErrorsAreKept
<1>10. status' = <<"killed", "SIGPIPE">> => ~read_ok'
  <2> SUFFICES ASSUME status' = <<"killed", "SIGPIPE">>, read_ok PROVE FALSE
    BY <1>1
  <2>1. PICK p \in Pipes : readers[p] = {}
    <3>1. \A code : <<"exited", code>> # <<"killed", "SIGPIPE">>
      BY StatusTypes
    <3>2. <<"killed", "by another">> # <<"killed", "SIGPIPE">>
      <4>1. <<"killed", "by another">>[2] = "by another" /\ <<"killed", "SIGPIPE">>[2] = "SIGPIPE"
        OBVIOUS
      <4> QED
        BY <4>1
    <3> QED
      BY <3>1, <3>2 DEF program_ends, ChildEnds
  <2>2. pc \in {"wait", "done"}
    BY <1>3, <2>1 DEF IInv, TypeOK, PCs, EndsAreOpen, Created
  <2>3. poll_fds = {}
    BY <1>1, <2>2 DEF IInv, PipesAreReadToTheEnd
  <2> QED
    BY <1>1, <2>3 DEF IInv, PipesAreReadToTheEnd, EndsAreOpen, Pipes
<1>11. ResultIsRight'
  <2>1. result[1] = "error" => faults # <<>>
    BY <1>1, StatusTypes DEF IInv, ResultIsRight
  <2> QED
    BY <1>1, <1>10, <2>1 DEF ResultIsRight
<1>12. (Done => NothingIsLeft)'
  BY <1>1, <1>2 DEF IInv, Done, NothingIsLeft, Closed
<1> QED
  BY <1>4, <1>5, <1>6, <1>7, <1>8, <1>9, <1>11, <1>12 DEF IInv

-----------------------------------------------------------------------------
(* The invariant.                                                          *)

LEMMA InitIInv == Init => IInv
<1> SUFFICES ASSUME Init PROVE IInv
  OBVIOUS
<1>1. TypeOK
  <2>1. <<>> \in Seq(Nat) /\ <<>> \in Seq(Calls)
    OBVIOUS
  <2> QED
    BY <2>1, ResultTypes, StatusTypes DEF Init, TypeOK, PCs, Pipes
<1>2. BytesAreInOrder
  <2>1. Len(<<>>) = 0 /\ \A i \in 1..0 : FALSE
    OBVIOUS
  <2> QED
    BY <2>1 DEF Init, BytesAreInOrder
<1>3. EndsAreOpen /\ ChildIsKnown
  BY DEF Init, EndsAreOpen, Created, ChildIsKnown
<1>4. PipesAreReadToTheEnd /\ ErrorsAreKept
  BY ResultTypes DEF Init, PipesAreReadToTheEnd, ErrorsAreKept
<1>5. ResultIsRight /\ ~Done
  BY ResultTypes, StatusTypes DEF Init, ResultIsRight, Done
<1> QED
  BY <1>1, <1>2, <1>3, <1>4, <1>5 DEF IInv

LEMMA NextIInv == IInv /\ [Next]_vars => IInv'
<1> SUFFICES ASSUME IInv, [Next]_vars PROVE IInv'
  OBVIOUS
<1>1. CASE create_stdout \/ create_stderr
  BY <1>1, CreateStep
<1>2. CASE start_child
  BY <1>2, StartChildStep
<1>3. CASE close_write_fds \/ close_read_fds
  BY <1>3, CloseStep
<1>4. CASE poll_pipes
  BY <1>4, PollStep
<1>5. CASE read_stdout \/ read_stderr
  BY <1>5, ReadPipeStep
<1>6. CASE child_wait
  BY <1>6, ChildWaitStep
<1>7. CASE child_exec
  BY <1>7, ChildExecStep
<1>8. CASE program_writes("child") \/ program_writes("grandchild")
  BY <1>8, WriteStep
<1>9. CASE program_starts_another \/ other_ends
  BY <1>9, AnotherProcessStep
<1>10. CASE program_ends
  BY <1>10, ProgramEndsStep
<1>11. CASE UNCHANGED vars
  BY <1>11 DEF vars, parentVars, processVars, pipeVars, IInv, TypeOK, BytesAreInOrder,
     EndsAreOpen, Created, ChildIsKnown, PipesAreReadToTheEnd, ErrorsAreKept,
     ResultIsRight, Done, NothingIsLeft
<1> QED
  BY <1>1, <1>2, <1>3, <1>4, <1>5, <1>6, <1>7, <1>8, <1>9, <1>10, <1>11
     DEF Next, ParentStep, ChildStep, OtherStep

\* In every state of command_run() and of the processes it started, the types
\* hold and so does what its result rests on.
THEOREM CommandInvariant == Spec => []IInv
<1>1. Init => IInv
  BY InitIInv
<1>2. IInv /\ [Next]_vars => IInv'
  BY NextIInv
<1> QED
  BY <1>1, <1>2, PTL DEF Spec

\* When command_run() returns, however much is written to the pipes, whoever
\* writes it and whatever fails: a successful result holds all of it, in order,
\* and the exit code; an error has a reason; no descriptor is left open and the
\* child has been waited for.
THEOREM RunsEndComplete == Spec => []RunsAreComplete
<1>1. IInv => RunsAreComplete
  BY DEF IInv, RunsAreComplete
<1> QED
  BY <1>1, CommandInvariant, PTL
=============================================================================

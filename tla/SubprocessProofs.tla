-------------------------- MODULE SubprocessProofs --------------------------
(***************************************************************************)
(* Theorems about Subprocess, for any helpers, limits and pipe.            *)
(***************************************************************************)
EXTENDS Subprocess, TLAPS

\* Nothing has happened yet.
Clean ==
  pc = "start" =>
    /\ proc[Child] = "absent" /\ group = {} /\ open = {}
    /\ written = 0 /\ moved = 0 /\ pipe = 0
    /\ ~closed /\ ~exited /\ ~result /\ trouble = "none"

\* Polling and reading are run_cmd_bounded's; after an overrun or a failure
\* the loop is left.
Phases ==
  /\ pc \in {"poll", "read", "drain", "decide"} => call = "output"
  /\ pc = "write" => call = "stdin"
  /\ trouble \in {"overrun", "failed"} =>
       pc \in {"decide", "term", "kill", "reap", "done"}
  /\ result => pc \in {"term", "kill", "reap", "done"}

\* What was written is in the buffer or in the pipe.
Whole == call = "output" /\ trouble # "overrun" => written = moved + pipe

\* The pipe counts as closed when nobody holds its end and it is empty.
Closing ==
  /\ pc = "drain" \/ (pc = "read" /\ hup) => open = {}
  /\ call = "output" /\ closed /\ trouble = "none" => open = {} /\ pipe = 0

\* An exit status is only known of a child that is gone.
Status == exited => proc[Child] = "gone"

\* The loop was left for a reason, and Some is only answered for one of them.
Deciding ==
  /\ pc = "decide" => late \/ trouble \in {"overrun", "failed"} \/ (exited /\ closed)
  /\ call = "output" /\ result =>
       exited /\ ok /\ closed /\ trouble \notin {"overrun", "failed"}

\* The members of the group were forked; after SIGKILL none of them runs.
Reaped ==
  /\ \A p \in group : proc[p] # "absent"
  /\ pc = "done" => proc[Child] \in {"absent", "gone"}
  /\ pc \in {"reap", "done"} /\ ~LeftAlone => \A p \in group : ~Live(p)

IInv == TypeOK /\ Clean /\ Phases /\ Whole /\ Closing /\ Status /\ Deciding /\ Reaped

LEMMA InitInv == Init => IInv
<1> SUFFICES ASSUME Init PROVE IInv
  OBVIOUS
<1>1. TypeOK
  <2>1. moved \in 0 .. (IF call = "stdin" THEN StdinData ELSE MaxOutput)
    BY SubprocessAssumption DEF Init
  <2>2. pipe \in 0 .. PipeSize /\ written \in 0 .. MaxWritten
    BY SubprocessAssumption DEF Init
  <2> QED BY <2>1, <2>2 DEF Init, TypeOK, Proc
<1>2. Clean /\ Phases /\ Whole /\ Closing
  BY DEF Init, Clean, Phases, Whole, Closing, Proc
<1>3. Status /\ Deciding /\ Reaped
  BY DEF Init, Status, Deciding, Reaped
<1> QED
  BY <1>1, <1>2, <1>3 DEF IInv

LEMMA Inductive == IInv /\ [Next]_vars => IInv'
<1> SUFFICES ASSUME IInv, [Next]_vars PROVE IInv'
  OBVIOUS
<1> USE SubprocessAssumption
<1>t. TypeOK /\ Clean /\ Phases /\ Whole /\ Closing /\ Status /\ Deciding /\ Reaped
  BY DEF IInv
<1>1. ASSUME NEW p \in Proc, CloseEnd(p) PROVE IInv'
  <2>1. TypeOK'
    BY <1>1, <1>t DEF CloseEnd, TypeOK, Phases, Proc, Live, system, locals
  <2>2. Clean' /\ Phases'
    BY <1>1, <1>t DEF CloseEnd, TypeOK, Clean, Phases, Proc, Live, system, locals
  <2>3. Whole' /\ Closing'
    BY <1>1, <1>t DEF CloseEnd, TypeOK, Clean, Phases, Whole, Closing, system, locals
  <2>4. Status' /\ Deciding'
    BY <1>1, <1>t
       DEF CloseEnd, TypeOK, Clean, Phases, Status, Deciding, Proc, Live, system, locals
  <2>5. Reaped'
    BY <1>1, <1>t
       DEF CloseEnd, TypeOK, Clean, Status, Reaped, LeftAlone, Proc, Live, system, locals
  <2> QED BY <2>1, <2>2, <2>3, <2>4, <2>5 DEF IInv
<1>2. ASSUME NEW p \in Proc, Exit(p) PROVE IInv'
  <2>1. TypeOK'
    BY <1>2, <1>t DEF Exit, TypeOK, Phases, Proc, Live, system, locals
  <2>2. Clean' /\ Phases'
    BY <1>2, <1>t DEF Exit, TypeOK, Clean, Phases, Proc, Live, system, locals
  <2>3. Whole' /\ Closing'
    BY <1>2, <1>t DEF Exit, TypeOK, Clean, Phases, Whole, Closing, system, locals
  <2>4. Status' /\ Deciding'
    BY <1>2, <1>t
       DEF Exit, TypeOK, Clean, Phases, Status, Deciding, Proc, Live, system, locals
  <2>5. Reaped'
    BY <1>2, <1>t
       DEF Exit, TypeOK, Clean, Status, Reaped, LeftAlone, Proc, Live, system, locals
  <2> QED BY <2>1, <2>2, <2>3, <2>4, <2>5 DEF IInv
<1>3. ASSUME NEW p \in Proc, WriteOutput(p) PROVE IInv'
  <2>1. TypeOK'
    BY <1>3, <1>t DEF WriteOutput, system, TypeOK, Phases, Proc, Live, locals
  <2>2. Clean' /\ Phases'
    BY <1>3, <1>t DEF WriteOutput, system, TypeOK, Clean, Phases, Proc, Live, locals
  <2>3. Whole' /\ Closing'
    BY <1>3, <1>t DEF WriteOutput, system, TypeOK, Clean, Phases, Whole, Closing, locals
  <2>4. Status' /\ Deciding'
    BY <1>3, <1>t
       DEF WriteOutput, system, TypeOK, Clean, Phases, Status, Deciding, Proc, Live, locals
  <2>5. Reaped'
    BY <1>3, <1>t
       DEF WriteOutput, system, TypeOK, Clean, Status, Reaped, LeftAlone, Proc, Live, locals
  <2> QED BY <2>1, <2>2, <2>3, <2>4, <2>5 DEF IInv
<1>4. ASSUME NEW p \in Proc, ReadInput(p) PROVE IInv'
  <2>1. TypeOK'
    BY <1>4, <1>t DEF ReadInput, system, TypeOK, Phases, Proc, Live, locals
  <2>2. Clean' /\ Phases'
    BY <1>4, <1>t DEF ReadInput, system, TypeOK, Clean, Phases, Proc, Live, locals
  <2>3. Whole' /\ Closing'
    BY <1>4, <1>t DEF ReadInput, system, TypeOK, Clean, Phases, Whole, Closing, locals
  <2>4. Status' /\ Deciding'
    BY <1>4, <1>t
       DEF ReadInput, system, TypeOK, Clean, Phases, Status, Deciding, Proc, Live, locals
  <2>5. Reaped'
    BY <1>4, <1>t
       DEF ReadInput, system, TypeOK, Clean, Status, Reaped, LeftAlone, Proc, Live, locals
  <2> QED BY <2>1, <2>2, <2>3, <2>4, <2>5 DEF IInv
<1>5. ASSUME NEW h \in Helper, LeaveGroup(h) PROVE IInv'
  <2>1. TypeOK'
    BY <1>5, <1>t DEF LeaveGroup, TypeOK, Phases, Proc, Live, system, locals
  <2>2. Clean' /\ Phases'
    BY <1>5, <1>t DEF LeaveGroup, TypeOK, Clean, Phases, Proc, Live, system, locals
  <2>3. Whole' /\ Closing'
    BY <1>5, <1>t DEF LeaveGroup, TypeOK, Clean, Phases, Whole, Closing, system, locals
  <2>4. Status' /\ Deciding'
    BY <1>5, <1>t
       DEF LeaveGroup, TypeOK, Clean, Phases, Status, Deciding, Proc, Live, system, locals
  <2>5. Reaped'
    BY <1>5, <1>t
       DEF LeaveGroup, TypeOK, Clean, Status, Reaped, LeftAlone, Proc, Live, system, locals
  <2> QED BY <2>1, <2>2, <2>3, <2>4, <2>5 DEF IInv
<1>6. ASSUME NEW h \in Helper, NEW p \in Proc, Fork(p, h) PROVE IInv'
  <2>1. TypeOK'
    BY <1>6, <1>t DEF Fork, TypeOK, Phases, Proc, Live, system, locals
  <2>2. Clean' /\ Phases'
    BY <1>6, <1>t DEF Fork, TypeOK, Clean, Phases, Proc, Live, system, locals
  <2>3. Whole' /\ Closing'
    BY <1>6, <1>t DEF Fork, TypeOK, Clean, Phases, Whole, Closing, system, locals
  <2>4. Status' /\ Deciding'
    BY <1>6, <1>t
       DEF Fork, TypeOK, Clean, Phases, Status, Deciding, Proc, Live, system, locals
  <2>5. Reaped'
    BY <1>6, <1>t
       DEF Fork, TypeOK, Clean, Status, Reaped, LeftAlone, Proc, Live, system, locals
  <2> QED BY <2>1, <2>2, <2>3, <2>4, <2>5 DEF IInv
<1>7. ASSUME NEW n \in 1 .. PipeSize, Read(n) PROVE IInv'
  <2>1. TypeOK'
    BY <1>7, <1>t DEF Read, Buffered, system, TypeOK, Phases, Proc, Live, locals
  <2>2. Clean' /\ Phases'
    BY <1>7, <1>t DEF Read, Buffered, system, TypeOK, Clean, Phases, Proc, Live, locals
  <2>3. Whole'
    BY <1>7, <1>t DEF Read, Buffered, TypeOK, Phases, Whole
  <2>6. Closing'
    BY <1>7, <1>t DEF Read, Buffered, system, TypeOK, Phases, Closing
  <2>4. Status' /\ Deciding'
    BY <1>7, <1>t
       DEF Read, Buffered, system, TypeOK, Clean, Phases, Status, Deciding, Proc, Live, locals
  <2>5. Reaped'
    BY <1>7, <1>t
       DEF Read, Buffered, system, TypeOK, Clean, Status, Reaped, LeftAlone, Proc, Live, locals
  <2> QED BY <2>1, <2>2, <2>3, <2>4, <2>5, <2>6 DEF IInv
<1>8. CASE Expire
  <2>1. TypeOK'
    BY <1>8, <1>t DEF Expire, system, TypeOK, Phases, Proc, Live, locals
  <2>2. Clean' /\ Phases'
    BY <1>8, <1>t DEF Expire, system, TypeOK, Clean, Phases, Proc, Live, locals
  <2>3. Whole' /\ Closing'
    BY <1>8, <1>t DEF Expire, system, TypeOK, Clean, Phases, Whole, Closing, locals
  <2>4. Status' /\ Deciding'
    BY <1>8, <1>t
       DEF Expire, system, TypeOK, Clean, Phases, Status, Deciding, Proc, Live, locals
  <2>5. Reaped'
    BY <1>8, <1>t
       DEF Expire, system, TypeOK, Clean, Status, Reaped, LeftAlone, Proc, Live, locals
  <2> QED BY <2>1, <2>2, <2>3, <2>4, <2>5 DEF IInv
<1>9. CASE NotStarted
  <2>1. TypeOK'
    BY <1>9, <1>t DEF NotStarted, TypeOK, Phases, Proc, Live, system, locals
  <2>2. Clean' /\ Phases'
    BY <1>9, <1>t DEF NotStarted, TypeOK, Clean, Phases, Proc, Live, system, locals
  <2>3. Whole' /\ Closing'
    BY <1>9, <1>t DEF NotStarted, TypeOK, Clean, Phases, Whole, Closing, system, locals
  <2>4. Status' /\ Deciding'
    BY <1>9, <1>t
       DEF NotStarted, TypeOK, Clean, Phases, Status, Deciding, Proc, Live, system, locals
  <2>5. Reaped'
    BY <1>9, <1>t
       DEF NotStarted, TypeOK, Clean, Status, Reaped, LeftAlone, Proc, Live, system, locals
  <2> QED BY <2>1, <2>2, <2>3, <2>4, <2>5 DEF IInv
<1>10. CASE Spawn
  <2>1. TypeOK'
    BY <1>10, <1>t DEF Spawn, TypeOK, Phases, Proc, Live, system, locals
  <2>2. Clean' /\ Phases'
    BY <1>10, <1>t DEF Spawn, TypeOK, Clean, Phases, Proc, Live, system, locals
  <2>3. Whole' /\ Closing'
    BY <1>10, <1>t DEF Spawn, TypeOK, Clean, Phases, Whole, Closing, system, locals
  <2>4. Status' /\ Deciding'
    BY <1>10, <1>t
       DEF Spawn, TypeOK, Clean, Phases, Status, Deciding, Proc, Live, system, locals
  <2>5. Reaped'
    BY <1>10, <1>t
       DEF Spawn, TypeOK, Clean, Status, Reaped, LeftAlone, Proc, Live, system, locals
  <2> QED BY <2>1, <2>2, <2>3, <2>4, <2>5 DEF IInv
<1>11. CASE WriteInput
  <2>1. TypeOK'
    BY <1>11, <1>t DEF WriteInput, TypeOK, Phases, Proc, Live, system, locals
  <2>2. Clean' /\ Phases'
    BY <1>11, <1>t DEF WriteInput, TypeOK, Clean, Phases, Proc, Live, system, locals
  <2>3. Whole' /\ Closing'
    BY <1>11, <1>t DEF WriteInput, TypeOK, Clean, Phases, Whole, Closing, system, locals
  <2>4. Status' /\ Deciding'
    BY <1>11, <1>t
       DEF WriteInput, TypeOK, Clean, Phases, Status, Deciding, Proc, Live, system, locals
  <2>5. Reaped'
    BY <1>11, <1>t
       DEF WriteInput, TypeOK, Clean, Status, Reaped, LeftAlone, Proc, Live, system, locals
  <2> QED BY <2>1, <2>2, <2>3, <2>4, <2>5 DEF IInv
<1>12. CASE InputWritten
  <2>1. TypeOK'
    BY <1>12, <1>t DEF InputWritten, TypeOK, Phases, Proc, Live, system, locals
  <2>2. Clean' /\ Phases'
    BY <1>12, <1>t DEF InputWritten, TypeOK, Clean, Phases, Proc, Live, system, locals
  <2>3. Whole' /\ Closing'
    BY <1>12, <1>t DEF InputWritten, TypeOK, Clean, Phases, Whole, Closing, system, locals
  <2>4. Status' /\ Deciding'
    BY <1>12, <1>t
       DEF InputWritten, TypeOK, Clean, Phases, Status, Deciding, Proc, Live, system, locals
  <2>5. Reaped'
    BY <1>12, <1>t
       DEF InputWritten, TypeOK, Clean, Status, Reaped, LeftAlone, Proc, Live, system, locals
  <2> QED BY <2>1, <2>2, <2>3, <2>4, <2>5 DEF IInv
<1>13. CASE Deadline
  <2>1. TypeOK'
    BY <1>13, <1>t DEF Deadline, Overdue, TypeOK, Phases, Proc, Live, system, locals
  <2>2. Clean' /\ Phases'
    BY <1>13, <1>t
       DEF Deadline, Overdue, TypeOK, Clean, Phases, Proc, Live, system, locals
  <2>3. Whole' /\ Closing'
    BY <1>13, <1>t
       DEF Deadline, Overdue, TypeOK, Clean, Phases, Whole, Closing, system, locals
  <2>4. Status' /\ Deciding'
    BY <1>13, <1>t
       DEF Deadline, Overdue, TypeOK, Clean, Phases, Status, Deciding, Proc, Live, system, locals
  <2>5. Reaped'
    BY <1>13, <1>t
       DEF Deadline, Overdue, TypeOK, Clean, Status, Reaped, LeftAlone, Proc, Live, system, locals
  <2> QED BY <2>1, <2>2, <2>3, <2>4, <2>5 DEF IInv
<1>14. CASE WaitFails
  <2>1. TypeOK'
    BY <1>14, <1>t DEF WaitFails, TypeOK, Phases, Proc, Live, system, locals
  <2>2. Clean' /\ Phases'
    BY <1>14, <1>t DEF WaitFails, TypeOK, Clean, Phases, Proc, Live, system, locals
  <2>3. Whole' /\ Closing'
    BY <1>14, <1>t DEF WaitFails, TypeOK, Clean, Phases, Whole, Closing, system, locals
  <2>4. Status' /\ Deciding'
    BY <1>14, <1>t
       DEF WaitFails, TypeOK, Clean, Phases, Status, Deciding, Proc, Live, system, locals
  <2>5. Reaped'
    BY <1>14, <1>t
       DEF WaitFails, TypeOK, Clean, Status, Reaped, LeftAlone, Proc, Live, system, locals
  <2> QED BY <2>1, <2>2, <2>3, <2>4, <2>5 DEF IInv
<1>15. CASE StatusTurn
  <2>1. TypeOK'
    BY <1>15, <1>t
       DEF StatusTurn, TryWait, Waited, TypeOK, Phases, Proc, Live, system, locals
  <2>2. Clean' /\ Phases'
    BY <1>15, <1>t
       DEF StatusTurn, TryWait, Waited, TypeOK, Clean, Phases, Proc, Live, system, locals
  <2>3. Whole' /\ Closing'
    BY <1>15, <1>t
       DEF StatusTurn, TryWait, Waited, TypeOK, Clean, Phases, Whole, Closing, system, locals
  <2>4. Status' /\ Deciding'
    BY <1>15, <1>t
       DEF StatusTurn, TryWait, Waited, TypeOK, Clean, Phases, Status, Deciding, Proc, Live, system, locals
  <2>5. Reaped'
    BY <1>15, <1>t
       DEF StatusTurn, TryWait, Waited, TypeOK, Clean, Status, Reaped, LeftAlone, Proc, Live, system, locals
  <2> QED BY <2>1, <2>2, <2>3, <2>4, <2>5 DEF IInv
<1>16. CASE StdinTurn
  <2>1. TypeOK'
    BY <1>16, <1>t
       DEF StdinTurn, TryWait, Waited, TypeOK, Phases, Proc, Live, system, locals
  <2>2. Clean' /\ Phases'
    BY <1>16, <1>t
       DEF StdinTurn, TryWait, Waited, TypeOK, Clean, Phases, Proc, Live, system, locals
  <2>3. Whole' /\ Closing'
    BY <1>16, <1>t
       DEF StdinTurn, TryWait, Waited, TypeOK, Clean, Phases, Whole, Closing, system, locals
  <2>4. Status' /\ Deciding'
    BY <1>16, <1>t
       DEF StdinTurn, TryWait, Waited, TypeOK, Clean, Phases, Status, Deciding, Proc, Live, system, locals
  <2>5. Reaped'
    BY <1>16, <1>t
       DEF StdinTurn, TryWait, Waited, TypeOK, Clean, Status, Reaped, LeftAlone, Proc, Live, system, locals
  <2> QED BY <2>1, <2>2, <2>3, <2>4, <2>5 DEF IInv
<1>17. CASE OutputTurn
  <2>1. TypeOK'
    BY <1>17, <1>t
       DEF OutputTurn, TryWait, Waited, Finished, TypeOK, Phases, Proc, Live, system, locals
  <2>2. Clean' /\ Phases'
    BY <1>17, <1>t
       DEF OutputTurn, TryWait, Waited, Finished, TypeOK, Clean, Phases, Proc, Live, system, locals
  <2>3. Whole' /\ Closing'
    BY <1>17, <1>t
       DEF OutputTurn, TryWait, Waited, Finished, TypeOK, Clean, Phases, Whole, Closing, system, locals
  <2>4. Status' /\ Deciding'
    BY <1>17, <1>t
       DEF OutputTurn, TryWait, Waited, Finished, TypeOK, Clean, Phases, Status, Deciding, Proc, Live, system, locals
  <2>5. Reaped'
    BY <1>17, <1>t
       DEF OutputTurn, TryWait, Waited, Finished, TypeOK, Clean, Status, Reaped, LeftAlone, Proc, Live, system, locals
  <2> QED BY <2>1, <2>2, <2>3, <2>4, <2>5 DEF IInv
<1>18. CASE PollNothing
  <2>1. TypeOK'
    BY <1>18, <1>t DEF PollNothing, TypeOK, Phases, Proc, Live, system, locals
  <2>2. Clean' /\ Phases'
    BY <1>18, <1>t DEF PollNothing, TypeOK, Clean, Phases, Proc, Live, system, locals
  <2>3. Whole' /\ Closing'
    BY <1>18, <1>t DEF PollNothing, TypeOK, Clean, Phases, Whole, Closing, system, locals
  <2>4. Status' /\ Deciding'
    BY <1>18, <1>t
       DEF PollNothing, TypeOK, Clean, Phases, Status, Deciding, Proc, Live, system, locals
  <2>5. Reaped'
    BY <1>18, <1>t
       DEF PollNothing, TypeOK, Clean, Status, Reaped, LeftAlone, Proc, Live, system, locals
  <2> QED BY <2>1, <2>2, <2>3, <2>4, <2>5 DEF IInv
<1>19. CASE PollFails
  <2>1. TypeOK'
    BY <1>19, <1>t DEF PollFails, TypeOK, Phases, Proc, Live, system, locals
  <2>2. Clean' /\ Phases'
    BY <1>19, <1>t DEF PollFails, TypeOK, Clean, Phases, Proc, Live, system, locals
  <2>3. Whole' /\ Closing'
    BY <1>19, <1>t DEF PollFails, TypeOK, Clean, Phases, Whole, Closing, system, locals
  <2>4. Status' /\ Deciding'
    BY <1>19, <1>t
       DEF PollFails, TypeOK, Clean, Phases, Status, Deciding, Proc, Live, system, locals
  <2>5. Reaped'
    BY <1>19, <1>t
       DEF PollFails, TypeOK, Clean, Status, Reaped, LeftAlone, Proc, Live, system, locals
  <2> QED BY <2>1, <2>2, <2>3, <2>4, <2>5 DEF IInv
<1>20. CASE PollReady
  <2>1. TypeOK'
    BY <1>20, <1>t DEF PollReady, TypeOK, Phases, Proc, Live, system, locals
  <2>2. Clean' /\ Phases'
    BY <1>20, <1>t DEF PollReady, TypeOK, Clean, Phases, Proc, Live, system, locals
  <2>3. Whole' /\ Closing'
    BY <1>20, <1>t DEF PollReady, TypeOK, Clean, Phases, Whole, Closing, system, locals
  <2>4. Status' /\ Deciding'
    BY <1>20, <1>t
       DEF PollReady, TypeOK, Clean, Phases, Status, Deciding, Proc, Live, system, locals
  <2>5. Reaped'
    BY <1>20, <1>t
       DEF PollReady, TypeOK, Clean, Status, Reaped, LeftAlone, Proc, Live, system, locals
  <2> QED BY <2>1, <2>2, <2>3, <2>4, <2>5 DEF IInv
<1>21. CASE ReadAll
  <2>1. TypeOK'
    BY <1>21, <1>t DEF ReadAll, TypeOK, Phases, Proc, Live, system, locals
  <2>2. Clean' /\ Phases'
    BY <1>21, <1>t DEF ReadAll, TypeOK, Clean, Phases, Proc, Live, system, locals
  <2>3. Whole' /\ Closing'
    BY <1>21, <1>t DEF ReadAll, TypeOK, Clean, Phases, Whole, Closing, system, locals
  <2>4. Status' /\ Deciding'
    BY <1>21, <1>t
       DEF ReadAll, TypeOK, Clean, Phases, Status, Deciding, Proc, Live, system, locals
  <2>5. Reaped'
    BY <1>21, <1>t
       DEF ReadAll, TypeOK, Clean, Status, Reaped, LeftAlone, Proc, Live, system, locals
  <2> QED BY <2>1, <2>2, <2>3, <2>4, <2>5 DEF IInv
<1>22. CASE ReadFails
  <2>1. TypeOK'
    BY <1>22, <1>t DEF ReadFails, TypeOK, Phases, Proc, Live, system, locals
  <2>2. Clean' /\ Phases'
    BY <1>22, <1>t DEF ReadFails, TypeOK, Clean, Phases, Proc, Live, system, locals
  <2>3. Whole' /\ Closing'
    BY <1>22, <1>t DEF ReadFails, TypeOK, Clean, Phases, Whole, Closing, system, locals
  <2>4. Status' /\ Deciding'
    BY <1>22, <1>t
       DEF ReadFails, TypeOK, Clean, Phases, Status, Deciding, Proc, Live, system, locals
  <2>5. Reaped'
    BY <1>22, <1>t
       DEF ReadFails, TypeOK, Clean, Status, Reaped, LeftAlone, Proc, Live, system, locals
  <2> QED BY <2>1, <2>2, <2>3, <2>4, <2>5 DEF IInv
<1>23. CASE Drained
  <2>1. TypeOK'
    BY <1>23, <1>t DEF Drained, TypeOK, Phases, Proc, Live, system, locals
  <2>2. Clean' /\ Phases'
    BY <1>23, <1>t DEF Drained, TypeOK, Clean, Phases, Proc, Live, system, locals
  <2>3. Whole' /\ Closing'
    BY <1>23, <1>t DEF Drained, TypeOK, Clean, Phases, Whole, Closing, system, locals
  <2>4. Status' /\ Deciding'
    BY <1>23, <1>t
       DEF Drained, TypeOK, Clean, Phases, Status, Deciding, Proc, Live, system, locals
  <2>5. Reaped'
    BY <1>23, <1>t
       DEF Drained, TypeOK, Clean, Status, Reaped, LeftAlone, Proc, Live, system, locals
  <2> QED BY <2>1, <2>2, <2>3, <2>4, <2>5 DEF IInv
<1>24. CASE Decide
  <2>1. TypeOK'
    BY <1>24, <1>t DEF Decide, TypeOK, Phases, Proc, Live, system, locals
  <2>2. Clean' /\ Phases'
    BY <1>24, <1>t DEF Decide, TypeOK, Clean, Phases, Proc, Live, system, locals
  <2>3. Whole' /\ Closing'
    BY <1>24, <1>t DEF Decide, TypeOK, Clean, Phases, Whole, Closing, system, locals
  <2>4. Status' /\ Deciding'
    BY <1>24, <1>t
       DEF Decide, TypeOK, Clean, Phases, Status, Deciding, Proc, Live, system, locals
  <2>5. Reaped'
    BY <1>24, <1>t
       DEF Decide, TypeOK, Clean, Status, Reaped, LeftAlone, Proc, Live, system, locals
  <2> QED BY <2>1, <2>2, <2>3, <2>4, <2>5 DEF IInv
<1>25. CASE Terminate
  <2>1. TypeOK'
    BY <1>25, <1>t DEF Terminate, TypeOK, Phases, Proc, Live, system, locals
  <2>2. Clean' /\ Phases'
    BY <1>25, <1>t DEF Terminate, TypeOK, Clean, Phases, Proc, Live, system, locals
  <2>3. Whole' /\ Closing'
    BY <1>25, <1>t DEF Terminate, TypeOK, Clean, Phases, Whole, Closing, system, locals
  <2>4. Status' /\ Deciding'
    BY <1>25, <1>t
       DEF Terminate, TypeOK, Clean, Phases, Status, Deciding, Proc, Live, system, locals
  <2>5. Reaped'
    BY <1>25, <1>t
       DEF Terminate, TypeOK, Clean, Status, Reaped, LeftAlone, Proc, Live, system, locals
  <2> QED BY <2>1, <2>2, <2>3, <2>4, <2>5 DEF IInv
<1>26. CASE Kill
  <2>1. TypeOK'
    BY <1>26, <1>t DEF Kill, Victims, TypeOK, Phases, Proc, Live, system, locals
  <2>2. Clean' /\ Phases'
    BY <1>26, <1>t DEF Kill, Victims, TypeOK, Clean, Phases, Proc, Live, system, locals
  <2>3. Whole' /\ Closing'
    BY <1>26, <1>t
       DEF Kill, Victims, TypeOK, Clean, Phases, Whole, Closing, system, locals
  <2>4. Status' /\ Deciding'
    BY <1>26, <1>t
       DEF Kill, Victims, TypeOK, Clean, Phases, Status, Deciding, Proc, Live, system, locals
  <2>5. Reaped'
    BY <1>26, <1>t
       DEF Kill, Victims, TypeOK, Clean, Status, Reaped, LeftAlone, Proc, Live, system, locals
  <2> QED BY <2>1, <2>2, <2>3, <2>4, <2>5 DEF IInv
<1>27. CASE Reap
  <2>1. TypeOK'
    BY <1>27, <1>t DEF Reap, TypeOK, Phases, Proc, Live, system, locals
  <2>2. Clean' /\ Phases'
    BY <1>27, <1>t DEF Reap, TypeOK, Clean, Phases, Proc, Live, system, locals
  <2>3. Whole' /\ Closing'
    BY <1>27, <1>t DEF Reap, TypeOK, Clean, Phases, Whole, Closing, system, locals
  <2>4. Status' /\ Deciding'
    BY <1>27, <1>t
       DEF Reap, TypeOK, Clean, Phases, Status, Deciding, Proc, Live, system, locals
  <2>5. Reaped'
    BY <1>27, <1>t
       DEF Reap, TypeOK, Clean, Status, Reaped, LeftAlone, Proc, Live, system, locals
  <2> QED BY <2>1, <2>2, <2>3, <2>4, <2>5 DEF IInv
<1>28. CASE UNCHANGED vars
  BY <1>28, <1>t
     DEF vars, system, locals, IInv, TypeOK, Clean, Phases, Whole, Closing, Status, Deciding, Reaped, LeftAlone, Live
<1> QED
  BY <1>1, <1>2, <1>3, <1>4, <1>5, <1>6, <1>7, <1>8, <1>9, <1>10, <1>11, <1>12, <1>13, <1>14, <1>15, <1>16, <1>17, <1>18, <1>19, <1>20, <1>21, <1>22, <1>23, <1>24, <1>25, <1>26, <1>27, <1>28
     DEF Next, Command, Caller

LEMMA Invariance == Spec => []IInv
BY InitInv, Inductive, PTL DEF Spec

----------------------------------------------------------------------------
(* Theorems.                                                               *)

\* Type correctness; in particular the buffer of run_cmd_bounded stays within
\* max_output_bytes.
THEOREM TypeCorrect == Spec => []TypeOK
BY Invariance, PTL DEF IInv

\* No call of subproc.rs returns while its child is a zombie or a member of
\* its process group runs.
THEOREM NoProcessLeft == Spec => []GroupGone
<1>1. IInv => GroupGone
  BY DEF IInv, Reaped, GroupGone
<1> QED
  BY <1>1, Invariance, PTL

\* run_cmd_bounded answers Some only with the complete output of a command
\* that succeeded.
THEOREM OutputIsHonest == Spec => []HonestOutput
<1>1. IInv => HonestOutput
  <2> SUFFICES ASSUME IInv, call = "output", result PROVE HonestOutput
    BY DEF HonestOutput
  <2>1. exited /\ ok /\ closed
    BY DEF IInv, Deciding
  <2>2. trouble # "lost" => trouble = "none"
    BY DEF IInv, Deciding, TypeOK
  <2>3. trouble # "lost" => open = {} /\ pipe = 0 /\ written = moved + pipe
    BY <2>1, <2>2 DEF IInv, Closing, Whole
  <2> QED
    BY <2>1, <2>3 DEF IInv, TypeOK, HonestOutput
<1> QED
  BY <1>1, Invariance, PTL
=============================================================================

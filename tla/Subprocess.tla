----------------------------- MODULE Subprocess -----------------------------
(***************************************************************************)
(* Commands the engine runs with a deadline (src/subproc.rs).              *)
(*                                                                         *)
(* One call of run_cmd_bounded ("output": the standard output of the       *)
(* command), run_cmd_write_stdin_bounded ("stdin": the command is fed) or  *)
(* run_cmd_status_bounded ("status").  The command runs in a process group *)
(* of its own, may fork helpers, which may leave the group, and shares one *)
(* pipe with the caller.  Lengths are counted in chunks.                   *)
(***************************************************************************)
EXTENDS Naturals

CONSTANTS
  Child,       \* the process that is spawned
  Helper,      \* processes the command may fork
  Call,        \* the functions that are called
  MaxOutput,   \* max_output_bytes
  StdinData,   \* length of stdin_data
  PipeSize,    \* what the pipe holds
  MaxWritten   \* bound on what the command writes

ASSUME SubprocessAssumption ==
  /\ Child \notin Helper
  /\ Call \subseteq {"output", "stdin", "status"}
  /\ MaxOutput \in Nat
  /\ StdinData \in Nat
  /\ PipeSize \in Nat \ {0}
  /\ MaxWritten \in Nat

VARIABLES
  call,      \* which function was called
  pc,        \* where the call is
  late,      \* the deadline has passed
  proc,      \* the processes
  ok,        \* the child's exit status was 0
  group,     \* the members of the child's process group
  open,      \* who holds the command's end of the pipe
  pipe,      \* chunks in the pipe
  written,   \* chunks the command has written so far
  moved,     \* chunks the caller has read (buffer) or written
  exited,    \* direct_child_exited
  closed,    \* stdout_closed
  hup,       \* poll reported POLLHUP
  trouble,   \* overrun, failed, or an error the last reads ignored
  result     \* Some, or true

system == <<proc, ok, group, open>>
locals == <<moved, exited, closed, hup, trouble, result>>
vars == <<call, pc, late, system, pipe, written, locals>>

Proc == {Child} \cup Helper

TypeOK ==
  /\ call \in Call
  /\ pc \in {"start", "write", "loop", "poll", "read", "drain", "decide",
             "term", "kill", "reap", "done"}
  /\ proc \in [Proc -> {"absent", "running", "zombie", "gone"}]
  /\ group \subseteq Proc /\ open \subseteq Proc
  /\ pipe \in 0 .. PipeSize
  /\ written \in 0 .. MaxWritten
  /\ moved \in 0 .. (IF call = "stdin" THEN StdinData ELSE MaxOutput)
  /\ trouble \in {"none", "overrun", "failed", "lost"}
  /\ late \in BOOLEAN /\ ok \in BOOLEAN
  /\ exited \in BOOLEAN /\ closed \in BOOLEAN
  /\ hup \in BOOLEAN /\ result \in BOOLEAN

Init ==
  /\ call \in Call
  /\ pc = "start"
  /\ proc = [p \in Proc |-> "absent"]
  /\ group = {} /\ open = {}
  /\ pipe = 0 /\ written = 0 /\ moved = 0
  /\ trouble = "none"
  /\ late = FALSE /\ ok = FALSE /\ exited = FALSE
  /\ closed = FALSE /\ hup = FALSE /\ result = FALSE

Live(p) == proc[p] = "running"

----------------------------------------------------------------------------
(* The command and the clock.                                              *)

Expire ==
  /\ ~late
  /\ late' = TRUE
  /\ UNCHANGED <<call, pc, system, pipe, written, locals>>

Fork(p, h) ==
  /\ Live(p)
  /\ proc[h] = "absent"
  /\ proc' = [proc EXCEPT ![h] = "running"]
  /\ group' = IF p \in group THEN group \cup {h} ELSE group
  /\ open' = IF p \in open THEN open \cup {h} ELSE open
  /\ UNCHANGED <<call, pc, late, ok, pipe, written, locals>>

\* setsid
LeaveGroup(h) ==
  /\ Live(h)
  /\ h \in group
  /\ group' = group \ {h}
  /\ UNCHANGED <<call, pc, late, proc, ok, open, pipe, written, locals>>

CloseEnd(p) ==
  /\ p \in open
  /\ open' = open \ {p}
  /\ UNCHANGED <<call, pc, late, proc, ok, group, pipe, written, locals>>

\* The child stays a zombie until it is waited for; helpers are init's.
Exit(p) ==
  /\ Live(p)
  /\ proc' = [proc EXCEPT ![p] = IF p = Child THEN "zombie" ELSE "gone"]
  /\ ok' \in IF p = Child THEN BOOLEAN ELSE {ok}
  /\ open' = open \ {p}
  /\ UNCHANGED <<call, pc, late, group, pipe, written, locals>>

WriteOutput(p) ==
  /\ call = "output"
  /\ p \in open
  /\ pipe < PipeSize
  /\ written < MaxWritten
  /\ pipe' = pipe + 1
  /\ written' = written + 1
  /\ UNCHANGED <<call, pc, late, system, locals>>

ReadInput(p) ==
  /\ call = "stdin"
  /\ p \in open
  /\ pipe > 0
  /\ pipe' = pipe - 1
  /\ UNCHANGED <<call, pc, late, system, written, locals>>

----------------------------------------------------------------------------
(* The call: spawning, and what the three loops share.                     *)

\* The deadline has passed before anything is run, or the spawn fails.
NotStarted ==
  /\ pc = "start"
  /\ pc' = "done"
  /\ UNCHANGED <<call, late, system, pipe, written, locals>>

Spawn ==
  /\ pc = "start"
  /\ ~late
  /\ proc' = [proc EXCEPT ![Child] = "running"]
  /\ group' = {Child}
  /\ open' = IF call = "status" THEN {} ELSE {Child}
  /\ pc' = IF call = "stdin" THEN "write" ELSE "loop"
  /\ UNCHANGED <<call, late, ok, pipe, written, locals>>

\* Mutant of Overdue: a call that waits for the child alone does not look at
\* the clock.
OverdueReading == ~closed /\ pc = "loop" /\ late

Overdue == pc = "loop" /\ late

Deadline ==
  /\ Overdue
  /\ pc' = IF call = "output" THEN "decide" ELSE "term"
  /\ UNCHANGED <<call, late, system, pipe, written, locals>>

\* try_wait returns an error.
WaitFails ==
  /\ pc = "loop"
  /\ ~late
  /\ ~exited
  /\ pc' = IF call = "output" THEN "decide" ELSE "term"
  /\ trouble' = "failed"
  /\ UNCHANGED <<call, late, system, pipe, written, moved, exited, closed, hup, result>>

\* The child has ended and try_wait takes its status.
Waited == exited \/ proc[Child] = "zombie"

TryWait ==
  /\ pc = "loop"
  /\ ~late
  /\ exited' = Waited
  /\ proc' = IF Waited THEN [proc EXCEPT ![Child] = "gone"] ELSE proc

StatusTurn ==
  /\ call = "status"
  /\ TryWait
  /\ Waited
  /\ result' = ok
  /\ pc' = "term"
  /\ UNCHANGED <<call, late, ok, group, open, pipe, written, moved, closed, hup, trouble>>

\* The group is left alone: wl-copy serves the clipboard in the background.
StdinTurn ==
  /\ call = "stdin"
  /\ TryWait
  /\ Waited
  /\ result' = ok
  /\ pc' = "done"
  /\ UNCHANGED <<call, late, ok, group, open, pipe, written, moved, closed, hup, trouble>>

----------------------------------------------------------------------------
(* run_cmd_write_stdin_bounded: write_all, before the loop.                *)

WriteInput ==
  /\ pc = "write"
  /\ open # {}
  /\ moved < StdinData
  /\ pipe < PipeSize
  /\ moved' = moved + 1
  /\ pipe' = pipe + 1
  /\ UNCHANGED <<call, pc, late, system, written, exited, closed, hup, trouble, result>>

\* Everything is written, or the pipe is broken: the result is ignored.
InputWritten ==
  /\ pc = "write"
  /\ moved = StdinData \/ open = {}
  /\ pc' = "loop"
  /\ UNCHANGED <<call, late, system, pipe, written, locals>>

----------------------------------------------------------------------------
(* run_cmd_bounded: its loop.                                              *)

\* Mutant of Finished: what the child left in the pipe is not waited for.
FinishedChild == Waited

Finished == Waited /\ closed

\* Once the pipe is closed only the child is waited for.
OutputTurn ==
  /\ call = "output"
  /\ TryWait
  /\ pc' = IF Finished THEN "decide" ELSE IF closed THEN "loop" ELSE "poll"
  /\ UNCHANGED <<call, late, ok, group, open, pipe, written, moved, closed, hup, trouble, result>>

\* The 50 ms are over, or a signal came.
PollNothing ==
  /\ pc = "poll"
  /\ pc' = "loop"
  /\ UNCHANGED <<call, late, system, pipe, written, locals>>

PollFails ==
  /\ pc = "poll"
  /\ trouble' = "failed"
  /\ pc' = "decide"
  /\ UNCHANGED <<call, late, system, pipe, written, moved, exited, closed, hup, result>>

PollReady ==
  /\ pc = "poll"
  /\ pipe > 0 \/ open = {}
  /\ hup' = (open = {})
  /\ pc' = IF pipe > 0 THEN "read" ELSE "drain"
  /\ UNCHANGED <<call, late, system, pipe, written, moved, exited, closed, trouble, result>>

\* Mutant of Buffered: the last chunk is kept whole.
BufferedWhole(n) == moved + n

\* What a read of n chunks leaves: the buffer never outgrows the limit.
Buffered(n) == IF moved + n > MaxOutput THEN MaxOutput ELSE moved + n

Read(n) ==
  /\ pc \in {"read", "drain"}
  /\ n <= pipe
  /\ pipe' = pipe - n
  /\ moved' = Buffered(n)
  /\ IF moved + n > MaxOutput
     THEN trouble' = "overrun" /\ pc' = "decide"
     ELSE UNCHANGED <<trouble, pc>>
  /\ UNCHANGED <<call, late, system, written, exited, closed, hup, result>>

\* End of file, or nothing more for now.
ReadAll ==
  /\ pc = "read"
  /\ pipe = 0
  /\ closed' = (open = {})
  /\ pc' = IF hup THEN "drain" ELSE "loop"
  /\ UNCHANGED <<call, late, system, pipe, written, moved, exited, hup, trouble, result>>

ReadFails ==
  /\ pc = "read"
  /\ trouble' = "failed"
  /\ pc' = "decide"
  /\ UNCHANGED <<call, late, system, pipe, written, moved, exited, closed, hup, result>>

\* After POLLHUP the rest is read and the pipe counts as closed; an error
\* is taken for the end.
Drained ==
  /\ pc = "drain"
  /\ \/ pipe = 0 /\ UNCHANGED trouble
     \/ trouble' = "lost"
  /\ closed' = TRUE
  /\ pc' = "loop"
  /\ UNCHANGED <<call, late, system, pipe, written, moved, exited, hup, result>>

Decide ==
  /\ pc = "decide"
  /\ result' = (trouble \notin {"overrun", "failed"} /\ exited /\ ok /\ ~late)
  /\ pc' = "term"
  /\ UNCHANGED <<call, late, system, pipe, written, moved, exited, closed, hup, trouble>>

----------------------------------------------------------------------------
(* reap_process_group, called by the guard or after success.               *)

\* SIGTERM, which a process may obey by an Exit.
Terminate ==
  /\ pc = "term"
  /\ pc' = "kill"
  /\ UNCHANGED <<call, late, system, pipe, written, locals>>

\* Mutant of Victims: SIGKILL goes to the child, not to its group.
ChildOnly == {Child} \cap {p \in Proc : Live(p)}

Victims == {p \in group : Live(p)}

\* SIGKILL
Kill ==
  /\ pc = "kill"
  /\ proc' = [p \in Proc |-> IF p \notin Victims THEN proc[p]
                             ELSE IF p = Child THEN "zombie" ELSE "gone"]
  /\ ok' = (ok /\ Child \notin Victims)
  /\ open' = open \ Victims
  /\ pc' = "reap"
  /\ UNCHANGED <<call, late, group, pipe, written, locals>>

\* child.wait()
Reap ==
  /\ pc = "reap"
  /\ proc[Child] \in {"zombie", "gone"}
  /\ proc' = [proc EXCEPT ![Child] = "gone"]
  /\ pc' = "done"
  /\ UNCHANGED <<call, late, ok, group, open, pipe, written, locals>>

----------------------------------------------------------------------------

Command ==
  \/ \E p \in Proc : CloseEnd(p) \/ Exit(p) \/ WriteOutput(p) \/ ReadInput(p)
  \/ \E h \in Helper : LeaveGroup(h) \/ \E p \in Proc : Fork(p, h)

Caller ==
  \/ NotStarted \/ Spawn
  \/ WriteInput \/ InputWritten
  \/ Deadline \/ WaitFails \/ StatusTurn \/ StdinTurn \/ OutputTurn
  \/ PollNothing \/ PollFails \/ PollReady
  \/ (\E n \in 1 .. PipeSize : Read(n)) \/ ReadAll \/ ReadFails \/ Drained
  \/ Decide
  \/ Terminate \/ Kill \/ Reap

Next == Expire \/ Command \/ Caller

\* The calling thread is scheduled and time passes; what the command does is
\* its own affair.
Spec == Init /\ [][Next]_vars /\ WF_vars(Caller) /\ WF_vars(Expire)

----------------------------------------------------------------------------
(* Properties.                                                             *)

\* The command ended by itself and was fed: what it left behind stays.
LeftAlone == call = "stdin" /\ exited

\* When a call returns, the child is not a zombie and no process of its
\* group runs, whatever way the call took: deadline, overrun, failed poll or
\* read, success with helpers still running (ProcessGroupGuard,
\* reap_process_group).
GroupGone ==
  pc = "done" =>
    /\ proc[Child] \in {"absent", "gone"}
    /\ ~LeftAlone => \A p \in group : ~Live(p)

\* Some(buffer) is all the command and its helpers ever wrote, nobody can
\* write more, and the child succeeded by itself: the output is never cut
\* off, neither by the limit nor because the child ended before its output
\* was read (run_cmd_bounded; read errors after POLLHUP are ignored).
HonestOutput ==
  call = "output" /\ result =>
    /\ ok /\ exited
    /\ trouble # "lost" => moved = written /\ open = {}

\* A call ends, however the command behaves: whether it ignores SIGTERM,
\* never closes its output, keeps writing or leaves helpers behind.  Feeding
\* a command is the exception: it ends once the data is written.
EveryCallEnds == (call # "stdin" \/ pc = "loop") ~> (pc = "done")
=============================================================================

------------------------------ MODULE ArgShell ------------------------------
(***************************************************************************)
(* The shell of asgn1/argshell.c, the processes it starts and the pipes    *)
(* between them.                                                           *)
(*                                                                         *)
(* main() runs a line's command once for every <, >, >> and | on it, cut   *)
(* there, and once more at its end, and waits each time.  pipeCommand      *)
(* closes no end of the pipe in the shell and no process closes what it    *)
(* inherits of earlier pipes.  The array of arguments of a pipe's reader is*)
(* never filled in, so what it executes is left open; the one of the writer*)
(* has no end, so it may fail too.                                         *)
(***************************************************************************)
EXTENDS Integers, Sequences

CONSTANTS
    Lines,               \* for each line: its operators, in their order
    MaxPipes,            \* pipes for which the shell has descriptors
    PipeSize,            \* what a pipe holds
    MaxOutput            \* most that a writer writes

ASSUME ShellAssumption ==
    /\ Lines \subseteq Seq({"<", ">", ">>", "|"})
    /\ MaxPipes \in Nat /\ PipeSize \in Nat \ {0} /\ MaxOutput \in 0 .. PipeSize

VARIABLES
    main,                \* where main() is
    todo,                \* operators of the line still ahead
    child,               \* the child of the shell
    npipes,              \* pipes made so far; the shell has both ends of each
    level,               \* per pipe: what is in it
    reader               \* per pipe: the grandchild that reads from it

shellVars == <<main, todo, child, npipes, level, reader>>

Pipes == 1 .. MaxPipes

NoChild == [role |-> "none", state |-> "none", left |-> 0]

Alive(k) == reader[k] \in {"forked", "runs"}

\* Mutant of HasWriteEnd: the reader keeps its own.
HasWriteEnd_kept(k) ==
    \/ main # "exited" \/ child.state \in {"forked", "parted", "runs"}
    \/ \E j \in k .. npipes : Alive(j)

\* Somebody has the write end of pipe k open: the shell, its child, a reader
\* of a later pipe, and its own reader until it closes it.
HasWriteEnd(k) ==
    \/ main # "exited" \/ child.state \in {"forked", "parted", "runs"}
    \/ \E j \in k + 1 .. npipes : Alive(j)
    \/ reader[k] = "forked"

-----------------------------------------------------------------------------
(* main, and the parent's side of what it calls *)

\* cd ends the shell when it fails, as exit does; so does a cd to nowhere, which
\* has no argument to look at.
ReadLine ==
    /\ main = "prompt"
    /\ \/ main' = "exited" /\ UNCHANGED todo
       \/ main' = "scan" /\ todo' \in Lines
    /\ UNCHANGED <<child, npipes, level, reader>>

Fork(role, then) ==
    /\ child' = [role |-> role, state |-> "forked", left |-> 0]
    /\ main' = then

Exits == main' = "exited" /\ UNCHANGED <<todo, child, npipes, level, reader>>

\* Mutant of Redirected: the parent does not wait.
Redirected_on == main' = "scan" /\ child' = [role |-> "command", state |-> "forked", left |-> 0]

Redirected == Fork("command", "wait")

\* inputRedirect, outputRedirect and outputRedirectAppend; a fork that fails
\* ends the shell in the first only.
Redirect ==
    /\ main = "scan" /\ todo # <<>> /\ Head(todo) # "|"
    /\ \/ Redirected /\ todo' = Tail(todo)
       \/ Head(todo) = "<" /\ main' = "exited" /\ UNCHANGED <<todo, child>>
       \/ Head(todo) # "<" /\ todo' = Tail(todo) /\ UNCHANGED <<main, child>>
    /\ UNCHANGED <<npipes, level, reader>>

MakePipe == npipes < MaxPipes /\ npipes' = npipes + 1

pipeCommand ==
    /\ main = "scan" /\ todo # <<>> /\ Head(todo) = "|"
    /\ \/ /\ MakePipe /\ Fork("writer", "wait") /\ todo' = Tail(todo)
          /\ UNCHANGED <<level, reader>>
       \/ Exits

defaultCommand ==
    /\ main = "scan" /\ todo = <<>>
    /\ \/ Fork("command", "waitlast") /\ UNCHANGED <<todo, npipes, level, reader>>
       \/ Exits

\* Mutant of Waited: both sides of a pipe are waited for.
Waited_both == child.state = "zombie" /\ (child.role = "writer" => ~Alive(npipes))

Waited == child.state = "zombie"

Wait ==
    /\ main \in {"wait", "waitlast"} /\ Waited
    /\ child' = NoChild /\ main' = IF main = "wait" THEN "scan" ELSE "prompt"
    /\ UNCHANGED <<todo, npipes, level, reader>>

-----------------------------------------------------------------------------
(* The processes *)

\* execvp, or the exit(0) after an open, dup2, fork or execvp that failed.
Started(c) == [c EXCEPT !.state = "runs"]
Failed(c)  == [c EXCEPT !.state = "zombie"]

ChildStarts ==
    /\ \/ /\ child.role = "command" /\ child.state = "forked"
          /\ child' \in {Started(child), Failed(child)} /\ UNCHANGED reader
       \/ /\ child.role = "writer" /\ child.state = "forked"
          /\ \/ child' = Failed(child) /\ UNCHANGED reader
             \/ /\ child' = [child EXCEPT !.state = "parted"]
                /\ reader' = [reader EXCEPT ![npipes] = "forked"]
       \/ /\ child.state = "parted"
          /\ \/ child' = Failed(child)
             \/ \E n \in 0 .. MaxOutput : child' = [Started(child) EXCEPT !.left = n]
          /\ UNCHANGED reader
    /\ UNCHANGED <<main, todo, npipes, level>>

\* With the pipe full the writer waits: the shell could still read it.
WriterWrites ==
    /\ child.left > 0 /\ level[npipes] < PipeSize
    /\ child' = [child EXCEPT !.left = @ - 1] /\ level' = [level EXCEPT ![npipes] = @ + 1]
    /\ UNCHANGED <<main, todo, npipes, reader>>

ChildEnds ==
    /\ child.state = "runs" /\ child.left = 0 /\ child' = Failed(child)
    /\ UNCHANGED <<main, todo, npipes, level, reader>>

ReaderStarts(k) ==
    /\ reader[k] = "forked"
    /\ reader' \in {[reader EXCEPT ![k] = "runs"], [reader EXCEPT ![k] = "ended"]}
    /\ UNCHANGED <<main, todo, child, npipes, level>>

ReaderReads(k) ==
    /\ reader[k] = "runs" /\ level[k] > 0 /\ level' = [level EXCEPT ![k] = @ - 1]
    /\ UNCHANGED <<main, todo, child, npipes, reader>>

ReaderEnded(k) ==
    reader' = [reader EXCEPT ![k] = "ended"] /\ UNCHANGED <<main, todo, child, npipes, level>>

\* At the end of its input; and, unless it reads to there, before.
ReaderEnds(k)  == reader[k] = "runs" /\ level[k] = 0 /\ ~HasWriteEnd(k) /\ ReaderEnded(k)
ReaderLeaves(k) == reader[k] = "runs" /\ ReaderEnded(k)

-----------------------------------------------------------------------------

ShellInit ==
    /\ main = "prompt" /\ todo = <<>> /\ child = NoChild /\ npipes = 0
    /\ level = [k \in Pipes |-> 0] /\ reader = [k \in Pipes |-> "none"]

MainStep == Redirect \/ pipeCommand \/ defaultCommand \/ Wait
ChildStep == ChildStarts \/ WriterWrites \/ ChildEnds
ReaderStep(k) == ReaderStarts(k) \/ ReaderReads(k) \/ ReaderEnds(k)

ShellNext ==
    ReadLine \/ MainStep \/ ChildStep \/ \E k \in Pipes : ReaderStep(k) \/ ReaderLeaves(k)

\* Processes run, a command that has nothing left to write ends, and so does a
\* reader at the end of its input.  Nobody has to type a line.
ShellFairness ==
    /\ WF_shellVars(MainStep) /\ WF_shellVars(ChildStep)
    /\ \A k \in Pipes : WF_shellVars(ReaderStep(k))

ShellSpec == ShellInit /\ [][ShellNext]_shellVars /\ ShellFairness

-----------------------------------------------------------------------------
(* Properties *)

\* Every part has its type; the shell never has more pipes than descriptors for
\* them.
ShellTypeOK ==
    /\ main \in {"prompt", "scan", "wait", "waitlast", "exited"}
    /\ todo \in Seq({"<", ">", ">>", "|"}) /\ npipes \in 0 .. MaxPipes
    /\ child \in [role : {"none", "command", "writer"},
                  state : {"none", "forked", "parted", "runs", "zombie"}, left : 0 .. MaxOutput]
    /\ level \in [Pipes -> 0 .. PipeSize]
    /\ reader \in [Pipes -> {"none", "forked", "runs", "ended"}]

\* "waits for child to finish" (argshell.c:37, 77, 118, 158): whatever forks and
\* executions failed, the shell asks for a line, and forks, only when it has no
\* child left, alive or not reaped.
NoChildLeft == ShellTypeOK /\ (main \in {"prompt", "scan"} => child = NoChild)

\* However the two sides of a pipe fare, the line ends and the shell asks for
\* another, as long as the writer's output fits the pipe (argshell.c:255): it
\* waits for the writer alone, and the reader may never end.
LineEnds == main \in {"scan", "wait", "waitlast"} ~> main \in {"prompt", "exited"}

\* The shell has the write end of every pipe it made, and so have the readers
\* of later ones; once it is gone, they all come to the end of their input
\* (argshell.c:215).
ReadersEnd == main = "exited" ~> \A k \in Pipes : ~Alive(k)
=============================================================================

------------------------------ MODULE Userland ------------------------------
(***************************************************************************)
(* A user's session: PyreShell and the programs it runs.  A pipeline's     *)
(* children run at the same time: filters joined by pipes, two package     *)
(* managers on one database, the installer that asks its questions while   *)
(* the shell waits.  Pipes have a size, a writer without a reader is       *)
(* killed, a reader without a writer sees the end of the input: external,  *)
(* as pyre.c relies on it.                                                 *)
(***************************************************************************)
EXTENDS Pyre, Phx, Installer

CONSTANTS PipeSize,     \* bytes a pipe holds
          GenSize,      \* bytes the program "gen" writes
          PhxCommands   \* for each word that runs phx its command and package

VARIABLES bytes,        \* bytes in each pipe
          held          \* bytes a program has still to write

ioVars == <<bytes, held>>
vars == <<pyreVars, phxVars, instVars, ioVars>>

ASSUME ProcsAssumption == Slots \subseteq Procs

ASSUME CommandsAssumption ==
    /\ DOMAIN PhxCommands \cap {"gen", "cat", "install"} = {}
    /\ \A w \in DOMAIN PhxCommands : PhxCommands[w] \in {"install", "remove"} \X Packages

Init == /\ PyreInit /\ PhxInit /\ InstInit
        /\ bytes = [s \in Slots |-> 0] /\ held = [s \in Slots |-> 0]

\* The shell's own steps; a new pipe is empty.
UserKey == User /\ UNCHANGED <<phxVars, instVars, ioVars>>

ShellRuns == /\ ShellStep
             /\ bytes' = IF phase = "spawn" /\ phase' = "close"
                         THEN [bytes EXCEPT ![idx] = 0] ELSE bytes
             /\ UNCHANGED <<phxVars, instVars, held>>

\* exec: a program starts with its own work to do.
ChildStarts(c) ==
    /\ ChildSetup(c)
    /\ LET prog == child'[c].prog
       IN  /\ held' = [held EXCEPT ![c] = IF prog = "gen" THEN GenSize ELSE 0]
           /\ IF prog \in DOMAIN PhxCommands
              THEN px' = PhxStart(c, PhxCommands[prog][1], PhxCommands[prog][2])
              ELSE UNCHANGED px
    /\ UNCHANGED <<pkgVars, instVars, bytes>>

Runs(c, progs) == child[c].state = "run" /\ child[c].prog \in progs

Exits(c, ret) == /\ ChildEnds(c, ret)
                /\ UNCHANGED <<phase, keys, rc, editVars, histVars, cmds, idx, prev, pids, status, cwd>>

\* A byte goes to the terminal, to a file or into a pipe with room.
WriteByte(c) ==
    /\ Runs(c, {"gen", "cat"}) /\ held[c] > 0
    /\ LET out == child[c].out
       IN  \/ /\ out <= 0
              /\ held' = [held EXCEPT ![c] = @ - 1] /\ UNCHANGED <<bytes, pyreVars>>
           \/ /\ out > 0 /\ rd[out] = {}
              /\ Exits(c, 1) /\ UNCHANGED ioVars
           \/ /\ out > 0 /\ rd[out] # {} /\ bytes[out] < PipeSize
              /\ held' = [held EXCEPT ![c] = @ - 1]
              /\ bytes' = [bytes EXCEPT ![out] = @ + 1] /\ UNCHANGED pyreVars
    /\ UNCHANGED <<phxVars, instVars>>

\* "cat" reads a byte, or the end of a file or of a pipe nobody can write to.
ReadByte(c) ==
    /\ Runs(c, {"cat"}) /\ held[c] = 0
    /\ LET in == child[c].in
       IN  \/ /\ in > 0 /\ bytes[in] > 0
              /\ bytes' = [bytes EXCEPT ![in] = @ - 1]
              /\ held' = [held EXCEPT ![c] = 1] /\ UNCHANGED pyreVars
           \/ /\ \/ in < 0
                 \/ in > 0 /\ bytes[in] = 0 /\ wr[in] = {}
              /\ Exits(c, 0) /\ UNCHANGED ioVars
    /\ UNCHANGED <<phxVars, instVars>>

GenEnds(c) == /\ Runs(c, {"gen"}) /\ held[c] = 0
              /\ Exits(c, 0) /\ UNCHANGED <<phxVars, instVars, ioVars>>

\* The user ends the input of a "cat" that reads the terminal.
TerminalEnds(c) == /\ Runs(c, {"cat"}) /\ held[c] = 0 /\ child[c].in = 0
                   /\ Exits(c, 0) /\ UNCHANGED <<phxVars, instVars, ioVars>>

\* phx does its next step, is killed, or ends.
PhxRuns(c) == /\ Runs(c, DOMAIN PhxCommands) /\ PhxStep(c)
              /\ UNCHANGED <<pyreVars, instVars, ioVars>>

PhxKilled(c) == /\ Runs(c, DOMAIN PhxCommands) /\ Killed(c)
                /\ UNCHANGED <<pyreVars, instVars, ioVars>>

PhxEnds(c) == /\ Runs(c, DOMAIN PhxCommands) /\ px[c].pc \in {"done", "failed"}
              /\ Exits(c, IF px[c].pc = "done" THEN 0 ELSE 1)
              /\ px' = [px EXCEPT ![c] = Idle]
              /\ UNCHANGED <<pkgVars, instVars, ioVars>>

InstallerStarts(c) == /\ Runs(c, {"install"}) /\ ipc = "off" /\ InstStart
                      /\ UNCHANGED <<pyreVars, phxVars, ioVars>>

\* A question is answered by what is left of a line, or by the user.
InstallerRuns == /\ InstallStep \/ (stdin # <<>> /\ AskUser)
                 /\ UNCHANGED <<pyreVars, phxVars, ioVars>>

UserAnswers == stdin = <<>> /\ AskUser /\ UNCHANGED <<pyreVars, phxVars, ioVars>>

InstallerEnds(c) == /\ Runs(c, {"install"}) /\ ipc = "exit"
                    /\ Exits(c, irc) /\ InstReset
                    /\ UNCHANGED <<phxVars, ioVars>>

ProgramRuns(c) == \/ ChildStarts(c) \/ WriteByte(c) \/ ReadByte(c) \/ GenEnds(c)
                  \/ PhxRuns(c) \/ PhxEnds(c) \/ InstallerStarts(c) \/ InstallerEnds(c)

\* What the kernel's scheduler runs by itself.
System == ShellRuns \/ InstallerRuns \/ \E c \in Slots : ProgramRuns(c)

Next == \/ System \/ UserKey \/ UserAnswers
        \/ \E c \in Slots : TerminalEnds(c) \/ PhxKilled(c)

\* Some process that can run does run; the user owes nothing.
Fairness == WF_vars(System)

Spec == Init /\ [][Next]_vars /\ Fairness

-----------------------------------------------------------------------------

\* A child that waits for the user at the terminal.
WaitsForUser ==
    \E c \in Slots : \/ Runs(c, {"cat"}) /\ held[c] = 0 /\ child[c].in = 0
                     \/ Runs(c, {"install"}) /\ stdin = <<>> /\ ENABLED AskUser

(***************************************************************************)
(* The prompt comes back: from the fork of the first child on, the shell   *)
(* reaches its next prompt, or some child waits for the user.  It takes    *)
(* every copy of every pipe end being closed, in the shell and in all      *)
(* children, whatever fails on the way.  The exception is the shell's own: *)
(* after an empty last command it still holds the pipe in front of it.     *)
(***************************************************************************)
PromptReturns ==
    phase \in {"spawn", "close", "wait"} ~>
        \/ phase \in {"edit", "logout"} \/ WaitsForUser
        \/ phase = "wait" /\ \E p \in Slots : Shell \in rd[p]

(***************************************************************************)
(* At a prompt no child of an earlier line is left, running or unreaped:   *)
(* also when a fork failed and the -1 it stored is waited for, or an empty *)
(* command left a pid unwritten.                                           *)
(***************************************************************************)
NoChildLeft == phase = "edit" => Unreaped = {}

(***************************************************************************)
(* The up arrow and history show the latest lines, each where it belongs:  *)
(* the ring holds the last MaxHistory lines that hist_push kept, newest    *)
(* first from hist_idx backwards, and never two equal lines in a row.      *)
(***************************************************************************)
HistoryFaithful ==
    /\ hist_count = Min({Len(log), MaxHistory})
    /\ \A n \in 0..(hist_count - 1) : hist_get(n) = log[Len(log) - n]
    /\ \A n \in 1..(Len(log) - 1) : log[n] # log[n + 1]

=============================================================================

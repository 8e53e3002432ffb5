-------------------------------- MODULE Pyre --------------------------------
(***************************************************************************)
(* PyreShell, userspace/shell/pyre.c: the line editor with its history,    *)
(* the pipeline parser, and the processes of a pipeline up to the next     *)
(* prompt.                                                                 *)
(*                                                                         *)
(* A line is a sequence of words; "|", "<" and ">" are words of their own, *)
(* and one blank stands between two words.  A key types a word where the   *)
(* real one types a character.  What the programs do once they run is in   *)
(* Userland; fork, pipe and waitpid are modelled from how pyre.c uses them.*)
(***************************************************************************)
EXTENDS Integers, Sequences, FiniteSets, FiniteSetsExt, SequencesExt

CONSTANTS Words,        \* what the user types, the operators included
          Programs,     \* the words find_executable finds in PATH
          Files,        \* the words that name a readable file
          RcFiles,      \* what /etc/pyre/pyrerc may hold, as sequences of lines
          MaxHistory,   \* MAX_HISTORY
          MaxLine,      \* MAX_LINE, in words
          MaxCmds,      \* the size of cmds in execute_line
          MaxKeys,      \* bound: keys pressed in a session
          MaxOffset     \* bound: presses of the up arrow in one line

ASSUME HistoryAssumption == MaxHistory \in Nat \ {0}

ASSUME TextAssumption ==
    /\ Words \subseteq STRING /\ RcFiles \subseteq Seq(Seq(STRING))
    /\ MaxCmds \in Nat \ {0}

VARIABLES phase,        \* rc, edit, spawn, close, wait or logout
          buf, cur,     \* the line being edited and the cursor: buf, pos
          offset,       \* hist_offset
          history, hist_idx, hist_count,
          log,          \* every line hist_push kept, for the properties only
          keys,         \* keys pressed so far
          rc,           \* lines of the startup file still to be run
          cmds,         \* what parse_pipeline made of the line
          idx,            \* the loop counter of execute_pipeline
          prev,         \* the pipe whose read end is prev_fd, 0 for none
          pids,         \* pids[]: a child, AnyChild (-1) or Stale
          child,        \* the children, by position in the pipeline
          rd, wr,       \* who holds the read and the write end of each pipe
          status,       \* last_status
          cwd

editVars == <<buf, cur, offset>>
histVars == <<history, hist_idx, hist_count, log>>
procVars == <<cmds, idx, prev, pids, child, rd, wr>>
pyreVars == <<phase, keys, rc, editVars, histVars, procVars, status, cwd>>

Slots == 1..MaxCmds
Shell == 0              \* the shell itself as holder of a pipe's end
AnyChild == -1               \* waitpid(-1): what a failed fork leaves in pids
Stale == -2             \* no child's pid

NoChild == [state |-> "none", prog |-> "", in |-> 0, out |-> 0, status |-> 0]

-----------------------------------------------------------------------------
(* History. *)

\* Mutant: the index wraps one slot early.
PushIndexShort(n) == (n + 1) % Max({1, MaxHistory - 1})

NextIndex(n) == (n + 1) % MaxHistory

hist_push(l) ==
    IF hist_count > 0 /\ history[(hist_idx - 1 + MaxHistory) % MaxHistory] = l
    THEN UNCHANGED histVars
    ELSE /\ history' = [history EXCEPT ![hist_idx] = l]
         /\ hist_idx' = NextIndex(hist_idx)
         /\ hist_count' = Min({hist_count + 1, MaxHistory})
         /\ log' = Append(log, l)

hist_get(n) == history[(hist_idx - 1 - n + MaxHistory * 2) % MaxHistory]

-----------------------------------------------------------------------------
(* pyre_readline: one action per key. *)

Editing == /\ phase = "edit" /\ keys < MaxKeys
           /\ keys' = keys + 1
           /\ UNCHANGED <<phase, rc, histVars, procVars, status, cwd>>

TypeWord(w) == /\ Editing
               /\ Len(buf) < MaxLine - 1
               /\ buf' = InsertAt(buf, cur + 1, w)
               /\ cur' = cur + 1
               /\ UNCHANGED offset

Backspace == /\ Editing /\ cur > 0
             /\ buf' = RemoveAt(buf, cur) /\ cur' = cur - 1
             /\ UNCHANGED offset

\* Ctrl-A, Ctrl-E, left and right.
MoveCursor == /\ Editing
              /\ cur' \in {0, Len(buf), Max({0, cur - 1}), Min({Len(buf), cur + 1})}
              /\ UNCHANGED <<buf, offset>>

Recall(n) == /\ buf' = hist_get(n) /\ cur' = Len(buf') /\ offset' = n

\* The offset is not compared with hist_count.
UpArrow == /\ Editing /\ hist_count > 0 /\ offset < MaxOffset
           /\ Recall(offset + 1)

DownArrow == /\ Editing
             /\ IF offset <= 0
                THEN buf' = <<>> /\ cur' = 0 /\ offset' = -1
                ELSE Recall(offset - 1)

-----------------------------------------------------------------------------
(* parse_pipeline and tokenize. *)

FirstOf(seg, w) == Min({Len(seg) + 1} \cup {k \in DOMAIN seg : seg[k] = w})

\* The name after the redirection at position k of a segment: up to the first
\* blank, but in the last segment all the rest, with the blank ("") in front
\* of the other redirection.
FileName(seg, k, last) ==
    LET other == FirstOf(seg, IF seg[k] = "<" THEN ">" ELSE "<")
        end == IF other > k THEN other ELSE Len(seg) + 1
        rest == SubSeq(seg, k + 1, end - 1)
    IN  IF last THEN rest \o (IF end <= Len(seg) THEN <<"">> ELSE <<>>)
                ELSE SubSeq(rest, 1, Min({1, Len(rest)}))

ParseSegment(seg, last) ==
    LET lt == FirstOf(seg, "<")
        gt == FirstOf(seg, ">")
        Redir(k) == IF k <= Len(seg) THEN <<FileName(seg, k, last)>> ELSE <<>>
    IN  [argv |-> SubSeq(seg, 1, Min({lt, gt}) - 1),
         redir_in |-> Redir(lt), redir_out |-> Redir(gt)]

\* What lies between two bars, or a bar and an end of the line.
Segments(l) ==
    LET bars == {0, Len(l) + 1} \cup {k \in DOMAIN l : l[k] = "|"}
        Bar(k) == CHOOSE b \in bars : Cardinality({a \in bars : a < b}) = k
    IN  [k \in 1..(Cardinality(bars) - 1) |-> SubSeq(l, Bar(k - 1) + 1, Bar(k) - 1)]

\* At most max_cmds commands; an empty last one is taken back.
parse_pipeline(l) ==
    LET segs == Segments(l)
        n == Min({Len(segs), MaxCmds})
        parsed == [k \in 1..n |-> ParseSegment(segs[k], k = n)]
    IN  IF parsed[n].argv = <<>> THEN SubSeq(parsed, 1, n - 1) ELSE parsed

-----------------------------------------------------------------------------
(* execute_line. *)

\* The caller of execute_line goes on: source_file or main's loop.
Prompt(ret) == /\ phase' = (IF rc' = <<>> THEN "edit" ELSE "rc") /\ status' = ret
               /\ buf' = <<>> /\ cur' = 0 /\ offset' = -1

\* Builtins that only print.
Printers == {"pwd", "echo", "help", "env", "history"}

\* The builtins but install and set; a pipeline starts with its first command.
Builtin(cmd) ==
    \/ cmd \in Printers /\ Prompt(0) /\ UNCHANGED cwd
    \/ /\ cmd = "cd"
       /\ \/ cwd' = "home" /\ Prompt(0)
          \/ Prompt(1) /\ UNCHANGED cwd
    \/ /\ cmd = "exit"
       /\ phase' = "logout" /\ UNCHANGED <<editVars, status, cwd>>

\* builtin_install: the installer is the only child, or is not found, or
\* fork fails.
builtin_install ==
    \/ /\ phase' = "wait" /\ idx' = 1
       /\ pids' = [pids EXCEPT ![1] = 1]
       /\ child' = [child EXCEPT ![1] = [NoChild EXCEPT !.state = "run", !.prog = "install"]]
       /\ UNCHANGED <<prev, rd, wr, editVars, status>>
    \/ Prompt(1) /\ UNCHANGED <<idx, prev, pids, child, rd, wr>>

execute_line(l) ==
    IF l = <<>> THEN Prompt(0) /\ UNCHANGED <<histVars, procVars, cwd>>
    ELSE LET p == parse_pipeline(l)
             argv == IF p = <<>> THEN <<>> ELSE p[1].argv
             single == IF Len(p) = 1 /\ argv # <<>> THEN argv[1] ELSE ""
         IN  /\ hist_push(l)
             /\ \/ /\ argv = <<>>
                   /\ Prompt(0) /\ UNCHANGED <<procVars, cwd>>
                \/ Builtin(single) /\ UNCHANGED procVars
                \/ /\ single = "install"
                   /\ cmds' = p /\ builtin_install /\ UNCHANGED cwd
                \/ /\ argv # <<>> /\ single \notin Printers \cup {"cd", "exit", "install"}
                   /\ phase' = "spawn" /\ cmds' = p /\ idx' = 1 /\ prev' = 0
                   /\ UNCHANGED <<pids, child, rd, wr, editVars, status, cwd>>

\* main sources the startup file before the first prompt.
source_file == /\ phase = "rc" /\ rc' = Tail(rc) /\ UNCHANGED keys
               /\ execute_line(Head(rc))

AtPrompt == phase = "edit" /\ keys < MaxKeys /\ keys' = keys + 1 /\ UNCHANGED rc

Enter == AtPrompt /\ execute_line(buf)

CtrlC == AtPrompt /\ execute_line(<<>>)

CtrlD == /\ AtPrompt /\ buf = <<>>
         /\ phase' = "logout"
         /\ UNCHANGED <<editVars, histVars, procVars, status, cwd>>

-----------------------------------------------------------------------------
(* execute_pipeline. *)

LastCmd == Len(cmds)

Spawning == /\ phase = "spawn" /\ idx <= LastCmd
            /\ UNCHANGED <<keys, rc, editVars, histVars, cmds, status, cwd>>

\* An empty command is skipped and its pids[idx] never written: what is there
\* is no child's pid, or -1.
SkipEmpty == /\ Spawning /\ cmds[idx].argv = <<>>
             /\ \E garbage \in {AnyChild, Stale} : pids' = [pids EXCEPT ![idx] = garbage]
             /\ idx' = idx + 1
             /\ UNCHANGED <<phase, prev, child, rd, wr>>

\* pipe and fork.  The child inherits what the shell holds.  A failed pipe
\* goes unnoticed: its two numbers, never written, are no open descriptor's,
\* and what is done to them fails.
Fork == /\ Spawning /\ cmds[idx].argv # <<>>
        /\ \E ok \in BOOLEAN, piped \in {idx < LastCmd, FALSE} :
              LET new == IF ok THEN {Shell, idx} ELSE {Shell}
              IN  /\ pids' = [pids EXCEPT ![idx] = IF ok THEN idx ELSE AnyChild]
                  /\ child' = [child EXCEPT ![idx] =
                        IF ok THEN [NoChild EXCEPT !.state = "forked", !.in = prev,
                                                   !.out = IF piped THEN idx ELSE 0]
                              ELSE NoChild]
                  /\ rd' = [p \in Slots |-> IF p = idx /\ piped THEN new
                                            ELSE IF p = prev THEN rd[p] \cup new ELSE rd[p]]
                  /\ wr' = [wr EXCEPT ![idx] = IF piped THEN new ELSE {}]
        /\ phase' = "close"
        /\ UNCHANGED <<idx, prev>>

\* prev_fd for the next command: of the pipe just made, if it was.
NextPrev == IF Shell \in rd[idx] THEN idx ELSE IF idx < LastCmd THEN 0 ELSE prev

\* Mutant: the shell keeps its copy of the write end.
KeepWriteEnd == /\ phase = "close"
                /\ wr' = wr
                /\ rd' = [p \in Slots |-> IF p = prev THEN rd[p] \ {Shell} ELSE rd[p]]
                /\ prev' = NextPrev
                /\ idx' = idx + 1 /\ phase' = "spawn"
                /\ UNCHANGED <<keys, rc, editVars, histVars, cmds, pids, child, status, cwd>>

\* The shell closes prev_fd and the new pipe's write end.
CloseEnds == /\ phase = "close"
             /\ wr' = [wr EXCEPT ![idx] = @ \ {Shell}]
             /\ rd' = [p \in Slots |-> IF p = prev THEN rd[p] \ {Shell} ELSE rd[p]]
             /\ prev' = NextPrev
             /\ idx' = idx + 1 /\ phase' = "spawn"
             /\ UNCHANGED <<keys, rc, editVars, histVars, cmds, pids, child, status, cwd>>

\* The end of a child: every end it holds is closed.
ChildEnds(c, ret) ==
    /\ child' = [child EXCEPT ![c].state = "zombie", ![c].status = ret]
    /\ rd' = [p \in Slots |-> rd[p] \ {c}]
    /\ wr' = [p \in Slots |-> wr[p] \ {c}]

\* The child's half of the fork: dup2, the redirections, find_executable, exec.
ChildSetup(c) ==
    /\ child[c].state = "forked"
    /\ LET cmd == cmds[c]
           opens == /\ cmd.redir_in # <<>> => cmd.redir_in[1] \in {<<f>> : f \in Files}
                    /\ cmd.redir_out # <<>> => cmd.redir_out[1] # <<>>
           in == IF cmd.redir_in = <<>> THEN child[c].in ELSE -1
           out == IF cmd.redir_out = <<>> THEN child[c].out ELSE -1
       IN  IF ~opens THEN ChildEnds(c, 1)
           ELSE IF cmd.argv[1] \notin Programs THEN ChildEnds(c, 127)
           ELSE /\ child' = [child EXCEPT ![c].state = "run", ![c].prog = cmd.argv[1],
                                          ![c].in = in, ![c].out = out]
                /\ rd' = [p \in Slots |-> IF p = in THEN rd[p] ELSE rd[p] \ {c}]
                /\ wr' = [p \in Slots |-> IF p = out THEN wr[p] ELSE wr[p] \ {c}]
    /\ UNCHANGED <<phase, keys, rc, editVars, histVars, cmds, idx, prev, pids, status, cwd>>

StartWait == /\ phase = "spawn" /\ idx > LastCmd
             /\ phase' = "wait" /\ idx' = 1
             /\ UNCHANGED <<keys, rc, editVars, histVars, cmds, prev, pids, child, rd, wr, status, cwd>>

Unreaped == {c \in Slots : child[c].state \notin {"none", "reaped"}}

\* One waitpid of the loop; with no such child it fails and leaves its status
\* variable as the stack had it.
Wait == /\ phase = "wait" /\ idx <= LastCmd
        /\ LET awaited == IF pids[idx] = AnyChild THEN Unreaped ELSE Unreaped \cap {pids[idx]}
           IN  \/ /\ awaited = {}
                  /\ status' \in (IF idx = LastCmd THEN {0, 1} ELSE {status})
                  /\ UNCHANGED child
               \/ \E c \in awaited :
                     /\ child[c].state = "zombie"
                     /\ child' = [child EXCEPT ![c].state = "reaped"]
                     /\ status' = IF idx = LastCmd THEN child[c].status ELSE status
        /\ idx' = idx + 1
        /\ UNCHANGED <<phase, keys, rc, editVars, histVars, cmds, prev, pids, rd, wr, cwd>>

\* Mutant: the loop stops one command early.
WaitedForAllButOne == phase = "wait" /\ idx >= LastCmd

WaitedForAll == phase = "wait" /\ idx > LastCmd

\* execute_pipeline returns and main prints the next prompt.  The pipes are
\* gone but for a read end that an empty last command makes the shell keep.
PipelineDone == /\ WaitedForAll
                /\ UNCHANGED <<keys, rc>> /\ Prompt(status)
                /\ cmds' = <<>> /\ idx' = 1 /\ prev' = 0
                /\ pids' = [s \in Slots |-> Stale]
                /\ child' = [s \in Slots |-> IF s \in Unreaped THEN child[s] ELSE NoChild]
                /\ rd' = [s \in Slots |-> {}] /\ wr' = [s \in Slots |-> {}]
                /\ UNCHANGED <<histVars, cwd>>

PyreInit == /\ rc \in RcFiles /\ phase = (IF rc = <<>> THEN "edit" ELSE "rc")
            /\ buf = <<>> /\ cur = 0 /\ offset = -1 /\ keys = 0
            /\ history = [s \in 0..(MaxHistory - 1) |-> <<>>]
            /\ hist_idx = 0 /\ hist_count = 0 /\ log = <<>>
            /\ cmds = <<>> /\ idx = 1 /\ prev = 0
            /\ pids = [s \in Slots |-> Stale] /\ child = [s \in Slots |-> NoChild]
            /\ rd = [s \in Slots |-> {}] /\ wr = [s \in Slots |-> {}]
            /\ status = 0 /\ cwd = "/"

User == (\E w \in Words : TypeWord(w)) \/ Backspace \/ MoveCursor \/ UpArrow \/ DownArrow
        \/ Enter \/ CtrlC \/ CtrlD

ShellStep == source_file \/ SkipEmpty \/ Fork \/ CloseEnds \/ StartWait \/ Wait \/ PipelineDone

PyreNext == User \/ ShellStep \/ \E c \in Slots : ChildSetup(c)

=============================================================================

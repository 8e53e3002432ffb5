-------------------------------- MODULE Pipe --------------------------------
(***************************************************************************)
(* The anonymous pipe of kernel/ipc/pipe.c: a ring buffer between the      *)
(* tasks that hold its write end and those that hold its read end.         *)
(*                                                                         *)
(* pipe_read and pipe_write run with interrupts off, as part of a system   *)
(* call, and give up the CPU only in task_yield: what they do from one     *)
(* yield to the next is one action.  A task that is resumed and finds the  *)
(* buffer as it left it yields again, which changes nothing.               *)
(*                                                                         *)
(* How tasks come to share an end (an inherited descriptor, counted in     *)
(* ref_count) is external: pipe_create installs both in one task.          *)
(***************************************************************************)
EXTENDS Integers, Sequences

CONSTANTS PIPE_BUF_SIZE,
          Writer, Reader,  \* the tasks that share the two ends
          Byte,
          MaxLen           \* bound: the longest read or write

ASSUME PipeAssumption ==
  /\ PIPE_BUF_SIZE \in Nat \ {0}
  /\ 0 \in Byte                    \* pipe_create zeroes the buffer
  /\ MaxLen \in Nat
  /\ Writer \cap Reader = {}

Index == 0 .. (PIPE_BUF_SIZE - 1)
Data  == UNION {[1 .. n -> Byte] : n \in 0 .. MaxLen}

VARIABLES
  buf, read_pos, write_pos, used,   \* struct pipe
  read_closed, write_closed,
  holds,   \* the tasks that have not closed their descriptor
  todo,    \* writer -> what is left to write of the call it is in
  want,    \* reader -> what is left to read of the call it is in; 0: not in a call
  got,     \* reader -> what that call has read so far
  eof      \* reader -> the call ended early, at end of file

ring == <<buf, read_pos, write_pos, used>>
vars == <<ring, read_closed, write_closed, holds, todo, want, got, eof>>

Smaller(a, b) == IF a <= b THEN a ELSE b

----------------------------------------------------------------------------
\* pipe_create: kmalloc and zero.
Init ==
  /\ buf = [i \in Index |-> 0]
  /\ read_pos = 0 /\ write_pos = 0 /\ used = 0
  /\ read_closed = FALSE /\ write_closed = FALSE
  /\ holds = Writer \cup Reader
  /\ todo = [w \in Writer |-> <<>>]
  /\ want = [r \in Reader |-> 0]
  /\ got = [r \in Reader |-> <<>>]
  /\ eof = [r \in Reader |-> FALSE]

\* Mutant: nothing is written until there is room for all of it.
AtomicBurst(w, data) ==
  LET n == IF Len(data) <= PIPE_BUF_SIZE - used THEN Len(data) ELSE 0
  IN  /\ buf' = [i \in Index |-> LET k == (i - write_pos) % PIPE_BUF_SIZE
                                 IN  IF k < n THEN data[k + 1] ELSE buf[i]]
      /\ write_pos' = (write_pos + n) % PIPE_BUF_SIZE
      /\ used' = used + n
      /\ todo' = [todo EXCEPT ![w] = SubSeq(data, n + 1, Len(data))]
      /\ UNCHANGED <<read_pos, read_closed, write_closed, holds, want, got, eof>>

\* The loop of pipe_write, until everything is written or the buffer is full.
WriteBurst(w, data) ==
  LET n == Smaller(Len(data), PIPE_BUF_SIZE - used)
  IN  /\ buf' = [i \in Index |-> LET k == (i - write_pos) % PIPE_BUF_SIZE
                                 IN  IF k < n THEN data[k + 1] ELSE buf[i]]
      /\ write_pos' = (write_pos + n) % PIPE_BUF_SIZE
      /\ used' = used + n
      /\ todo' = [todo EXCEPT ![w] = SubSeq(data, n + 1, Len(data))]
      /\ UNCHANGED <<read_pos, read_closed, write_closed, holds, want, got, eof>>

\* A write to a pipe whose read end is closed returns -EPERM and changes nothing.
pipe_write(w, data) ==
  /\ w \in holds /\ todo[w] = <<>>
  /\ ~read_closed
  /\ WriteBurst(w, data)

resume_write(w) == todo[w] # <<>> /\ WriteBurst(w, todo[w])

\* Mutant: the position is not advanced past the bytes taken.
StuckReadBurst(r, len, sofar) ==
  LET n    == Smaller(len, used)
      ends == n = len \/ write_closed
  IN  /\ got' = [got EXCEPT ![r] = sofar \o
                   [k \in 1 .. n |-> buf[(read_pos + k - 1) % PIPE_BUF_SIZE]]]
      /\ UNCHANGED read_pos
      /\ used' = used - n
      /\ want' = [want EXCEPT ![r] = IF ends THEN 0 ELSE len - n]
      /\ eof' = [eof EXCEPT ![r] = n < len /\ ends]
      /\ UNCHANGED <<buf, write_pos, read_closed, write_closed, holds, todo>>

\* Mutant: end of file is not looked for while waiting.
ReadBurstNoEof(r, len, sofar) ==
  LET n == Smaller(len, used)
  IN  /\ got' = [got EXCEPT ![r] = sofar \o
                   [k \in 1 .. n |-> buf[(read_pos + k - 1) % PIPE_BUF_SIZE]]]
      /\ read_pos' = (read_pos + n) % PIPE_BUF_SIZE
      /\ used' = used - n
      /\ want' = [want EXCEPT ![r] = len - n]
      /\ eof' = [eof EXCEPT ![r] = FALSE]
      /\ UNCHANGED <<buf, write_pos, read_closed, write_closed, holds, todo>>

\* The loop of pipe_read, until len bytes are read or the buffer is empty, which
\* is the end of the call if the write end is closed.
ReadBurst(r, len, sofar) ==
  LET n    == Smaller(len, used)
      ends == n = len \/ write_closed
  IN  /\ got' = [got EXCEPT ![r] = sofar \o
                   [k \in 1 .. n |-> buf[(read_pos + k - 1) % PIPE_BUF_SIZE]]]
      /\ read_pos' = (read_pos + n) % PIPE_BUF_SIZE
      /\ used' = used - n
      /\ want' = [want EXCEPT ![r] = IF ends THEN 0 ELSE len - n]
      /\ eof' = [eof EXCEPT ![r] = n < len /\ ends]
      /\ UNCHANGED <<buf, write_pos, read_closed, write_closed, holds, todo>>

pipe_read(r, len) ==
  /\ r \in holds /\ want[r] = 0
  /\ ReadBurst(r, len, <<>>)

resume_read(r) == want[r] # 0 /\ ReadBurst(r, want[r], got[r])

\* Mutant: every close of a descriptor closes the end.
close_any_write(w) ==
  /\ w \in holds /\ todo[w] = <<>>
  /\ holds' = holds \ {w}
  /\ write_closed' = TRUE
  /\ UNCHANGED <<ring, read_closed, todo, want, got, eof>>

\* vfs_close: the last close of an end calls pipe_close_write or pipe_close_read.
close_write(w) ==
  /\ w \in holds /\ todo[w] = <<>>
  /\ holds' = holds \ {w}
  /\ write_closed' = (holds' \cap Writer = {})
  /\ UNCHANGED <<ring, read_closed, todo, want, got, eof>>

close_read(r) ==
  /\ r \in holds /\ want[r] = 0
  /\ holds' = holds \ {r}
  /\ read_closed' = (holds' \cap Reader = {})
  /\ UNCHANGED <<ring, write_closed, todo, want, got, eof>>

Next ==
  \/ \E w \in Writer : \/ \E data \in Data : pipe_write(w, data)
                       \/ resume_write(w)
                       \/ close_write(w)
  \/ \E r \in Reader : \/ \E len \in 0 .. MaxLen : pipe_read(r, len)
                       \/ resume_read(r)
                       \/ close_read(r)

Spec == Init /\ [][Next]_vars

\* task_yield returns: the scheduler runs every ready task again.
FairSpec ==
  /\ Spec
  /\ \A w \in Writer : WF_vars(resume_write(w))
  /\ \A r \in Reader : WF_vars(resume_read(r))

----------------------------------------------------------------------------
(* Properties *)

TypeOK ==
  /\ buf \in [Index -> Byte]
  /\ read_pos \in Index /\ write_pos \in Index
  /\ used \in 0 .. PIPE_BUF_SIZE
  /\ read_closed \in BOOLEAN /\ write_closed \in BOOLEAN
  /\ holds \subseteq Writer \cup Reader
  /\ todo \in [Writer -> Seq(Byte)]
  /\ want \in [Reader -> Nat]
  /\ got \in [Reader -> Seq(Byte)]
  /\ eof \in [Reader -> BOOLEAN]

(***************************************************************************)
(* The three words that describe the ring agree: write_pos is where the    *)
(* used bytes after read_pos end.  Everything else about the contents      *)
(* rests on this.                                                          *)
(***************************************************************************)
RingExact == write_pos = (read_pos + used) % PIPE_BUF_SIZE

(***************************************************************************)
(* Bytes come out of pipe_read once each and in the order pipe_write took  *)
(* them, over any number of wrap-arounds, partial reads and writes and     *)
(* readers and writers, and a call ends early only at the end of the       *)
(* stream: no byte follows.                                                *)
(***************************************************************************)
Contents == [i \in 1 .. used |-> buf[(read_pos + i - 1) % PIPE_BUF_SIZE]]
Stream == INSTANCE ByteStream WITH
            Capacity <- PIPE_BUF_SIZE, stream <- Contents, wclosed <- write_closed
ImplementsStream == Stream!StreamSpec

\* Nobody writes to a pipe whose write end is closed.
WriteEndInv ==
  /\ write_closed => holds \cap Writer = {}
  /\ \A w \in Writer : todo[w] # <<>> => w \in holds
IInv == TypeOK /\ RingExact /\ WriteEndInv

\* A reader that waits when the last writer has gone, or goes then, returns.
EndOfFileReached == \A r \in Reader : (want[r] # 0 /\ write_closed) ~> want[r] = 0

(***************************************************************************)
(* The two ends never wait for each other: while a writer has bytes left,  *)
(* a reader that waits gets what it asked for (or the writers are done).   *)
(* Which of several writers gets room first is not promised.               *)
(***************************************************************************)
EndsMeet ==
  \A r \in Reader :
    (want[r] # 0 /\ \E w \in Writer : todo[w] # <<>>)
      ~> (want[r] = 0 \/ \A w \in Writer : todo[w] = <<>>)
=============================================================================

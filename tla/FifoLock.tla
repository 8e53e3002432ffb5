------------------------------ MODULE FifoLock ------------------------------
(***************************************************************************)
(* What a fair lock promises its callers: requests queue up, the oldest    *)
(* one holds the lock, and nobody overtakes.  `queue` lists the callers    *)
(* that asked and have not yet released; `entered` says whether the one at *)
(* its head has been told that it holds the lock.                          *)
(***************************************************************************)
EXTENDS Sequences

CONSTANT Ctx            \* the callers

VARIABLES queue, entered

lockVars == <<queue, entered>>

LockInit == queue = <<>> /\ entered = FALSE

Request(c) ==
  /\ \A i \in DOMAIN queue : queue[i] # c
  /\ queue' = Append(queue, c)
  /\ UNCHANGED entered

Enter ==
  /\ queue # <<>> /\ ~entered
  /\ entered' = TRUE
  /\ UNCHANGED queue

\* A successful try-lock: request and entry are one step on a free lock.
TryEnter(c) ==
  /\ queue = <<>>
  /\ queue' = <<c>>
  /\ entered' = TRUE

Leave ==
  /\ entered
  /\ queue' = Tail(queue)
  /\ entered' = FALSE

LockNext ==
  \/ \E c \in Ctx : Request(c) \/ TryEnter(c)
  \/ Enter
  \/ Leave

LockSpec == LockInit /\ [][LockNext]_lockVars
=============================================================================

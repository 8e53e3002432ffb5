----------------------------- MODULE ByteStream -----------------------------
(***************************************************************************)
(* What a pipe promises: bytes come out once each, in the order they went  *)
(* in; at most Capacity of them are under way; a reader is told that the   *)
(* stream has ended only when it is empty and nobody can write any more.   *)
(***************************************************************************)
EXTENDS Integers, Sequences

CONSTANTS Reader, Byte, Capacity

VARIABLES stream,   \* the bytes under way
          wclosed,  \* nobody can write any more
          got,      \* what each reader has received in its current call
          eof       \* whether that call has ended with end of file

streamVars == <<stream, wclosed, got, eof>>

StreamInit ==
  /\ stream = <<>> /\ wclosed = FALSE
  /\ got = [r \in Reader |-> <<>>]
  /\ eof = [r \in Reader |-> FALSE]

\* Some bytes go in.
Put ==
  /\ ~wclosed
  /\ \E n \in 0 .. (Capacity - Len(stream)) : \E s \in [1 .. n -> Byte] :
       stream' = stream \o s
  /\ UNCHANGED <<wclosed, got, eof>>

\* A reader takes bytes from the front, in a new call or in the one it is in.
Take(r) ==
  \E n \in 0 .. Len(stream) : \E before \in {<<>>, got[r]} :
    /\ stream' = SubSeq(stream, n + 1, Len(stream))
    /\ got' = [got EXCEPT ![r] = before \o SubSeq(stream, 1, n)]
    /\ eof' \in {[eof EXCEPT ![r] = FALSE],
                 [eof EXCEPT ![r] = n = Len(stream) /\ wclosed]}
    /\ UNCHANGED wclosed

Close == wclosed' = TRUE /\ UNCHANGED <<stream, got, eof>>

StreamNext == Put \/ Close \/ \E r \in Reader : Take(r)

StreamSpec == StreamInit /\ [][StreamNext]_streamVars
=============================================================================

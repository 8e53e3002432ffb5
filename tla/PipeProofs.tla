----------------------------- MODULE PipeProofs -----------------------------
(***************************************************************************)
(* Type correctness of the pipe, the arithmetic of its ring, and that it   *)
(* implements a byte stream, for every buffer size and every set of tasks. *)
(***************************************************************************)
EXTENDS Pipe, SequenceTheorems, TLAPS

----------------------------------------------------------------------------
(* Arithmetic of positions *)

\* Moving a position by p and then by q is moving it by p + q.
LEMMA ModTwice ==
  ASSUME NEW M \in Nat \ {0}, NEW r \in 0 .. (M - 1), NEW p \in Nat, NEW q \in Nat,
         p <= M, p + q <= M
  PROVE  /\ (r + p) % M \in 0 .. (M - 1)
         /\ (((r + p) % M) + q) % M = (r + p + q) % M
<1>1. r + p \in 0 .. (2 * M - 1) /\ r + p + q \in 0 .. (2 * M - 1)
  OBVIOUS
<1>2. (r + p) % M = IF r + p < M THEN r + p ELSE r + p - M
  BY <1>1
<1>3. (r + p + q) % M = IF r + p + q < M THEN r + p + q ELSE r + p + q - M
  BY <1>1
<1>4. ((r + p) % M) + q \in 0 .. (2 * M - 1)
  BY <1>1, <1>2
<1>5. (((r + p) % M) + q) % M
        = IF ((r + p) % M) + q < M THEN ((r + p) % M) + q ELSE ((r + p) % M) + q - M
  BY <1>4
<1> QED BY <1>1, <1>2, <1>3, <1>5

\* How far the i-th byte from the read position is from the write position.
LEMMA RingDistance ==
  ASSUME NEW M \in Nat \ {0}, NEW r \in 0 .. (M - 1), NEW u \in 0 .. M, NEW i \in 1 .. M
  PROVE  /\ (r + i - 1) % M \in 0 .. (M - 1)
         /\ (((r + i - 1) % M) - ((r + u) % M)) % M
              = IF i > u THEN i - u - 1 ELSE i - u - 1 + M
<1>1. r + i - 1 \in 0 .. (2 * M - 1) /\ r + u \in 0 .. (2 * M - 1)
  OBVIOUS
<1>2. (r + i - 1) % M = IF r + i - 1 < M THEN r + i - 1 ELSE r + i - 1 - M
  BY <1>1
<1>3. (r + u) % M = IF r + u < M THEN r + u ELSE r + u - M
  BY <1>1
<1> DEFINE d == ((r + i - 1) % M) - ((r + u) % M)
<1>4. d \in Int /\ -M < d /\ d < M
  BY <1>1, <1>2, <1>3
<1>5. d % M = IF d >= 0 THEN d ELSE d + M
  BY <1>4
<1> QED BY <1>1, <1>2, <1>3, <1>4, <1>5

\* A burst moves no more than was asked for, and no more than there is.
LEMMA SmallerProperties ==
  ASSUME NEW a \in Nat, NEW b \in Nat
  PROVE  /\ Smaller(a, b) \in Nat /\ Smaller(a, b) <= a /\ Smaller(a, b) <= b
         /\ Smaller(a, b) = a \/ Smaller(a, b) = b
  BY DEF Smaller

----------------------------------------------------------------------------
(* The invariant *)

\* The data of a call are bytes.
LEMMA DataAreBytes == Data \subseteq Seq(Byte)
<1> SUFFICES ASSUME NEW n \in 0 .. MaxLen, NEW s \in [1 .. n -> Byte] PROVE s \in Seq(Byte)
  BY DEF Data
<1>1. n \in Nat
  BY PipeAssumption
<1> QED BY <1>1, SeqDef

\* A function on 1 .. n whose values are bytes is a sequence of bytes.
LEMMA FunctionIsBytes ==
  ASSUME NEW n \in Nat, NEW f \in [1 .. n -> Byte]
  PROVE  f \in Seq(Byte) /\ Len(f) = n
<1>1. f \in Seq(Byte)
  BY SeqDef
<1>2. Len(f) \in Nat /\ DOMAIN f = 1 .. Len(f)
  BY <1>1, LenProperties
<1>3. 1 .. Len(f) = 1 .. n
  BY <1>2
<1> QED BY <1>1, <1>2, <1>3

\* Nothing is left of a sequence of length l after l elements.
LEMMA NothingLeft ==
  ASSUME NEW l \in Nat, NEW n \in Nat, n <= l, ~(n + 1 <= l)
  PROVE  0 = l - n
  OBVIOUS

\* The rest of a sequence of bytes is one.
LEMMA RestIsBytes ==
  ASSUME NEW s \in Seq(Byte), NEW n \in Nat, n <= Len(s)
  PROVE  /\ SubSeq(s, n + 1, Len(s)) \in Seq(Byte)
         /\ Len(SubSeq(s, n + 1, Len(s))) = Len(s) - n
         /\ \A i \in 1 .. (Len(s) - n) : SubSeq(s, n + 1, Len(s))[i] = s[n + i]
<1>1. /\ Len(s) \in Nat /\ \A i \in 1 .. Len(s) : s[i] \in Byte
      /\ s \in [1 .. Len(s) -> Byte]
  BY ElementOfSeq, LenProperties
<1>2. /\ n + 1 \in Int /\ Len(s) \in Int
      /\ \A i \in (n + 1) .. Len(s) : s[i] \in Byte
  BY <1>1
<1>3. /\ SubSeq(s, n + 1, Len(s)) \in Seq(Byte)
      /\ Len(SubSeq(s, n + 1, Len(s))) = IF n + 1 <= Len(s) THEN Len(s) - (n + 1) + 1 ELSE 0
      /\ \A i \in 1 .. Len(s) - (n + 1) + 1 : SubSeq(s, n + 1, Len(s))[i] = s[n + 1 + i - 1]
  BY <1>2, SubSeqProperties
<1>4. \A i \in 1 .. (Len(s) - n) : n + 1 + i - 1 = n + i /\ i \in 1 .. Len(s) - (n + 1) + 1
  BY <1>1
<1>5. \A i \in 1 .. (Len(s) - n) : SubSeq(s, n + 1, Len(s))[i] = s[n + i]
  BY <1>3, <1>4
<1>6. CASE n + 1 <= Len(s)
  <2>1. Len(SubSeq(s, n + 1, Len(s))) = Len(s) - (n + 1) + 1
    BY <1>3, <1>6, Zenon
  <2>2. Len(s) - (n + 1) + 1 = Len(s) - n
    BY <1>1
  <2> QED BY <1>3, <1>5, <2>1, <2>2, Zenon
<1>7. CASE ~(n + 1 <= Len(s))
  <2>1. Len(SubSeq(s, n + 1, Len(s))) = 0
    BY <1>3, <1>7, Zenon
  <2>3. Len(s) \in Nat
    BY <1>1
  <2>4. 0 = Len(s) - n
    BY <1>7, <2>3, NothingLeft
  <2> QED BY <1>3, <1>5, <2>1, <2>4, Zenon
<1> QED BY <1>6, <1>7, Zenon

\* A burst of writing keeps the invariant.
LEMMA WriteKeeps ==
  ASSUME IInv, NEW w \in Writer, NEW data \in Seq(Byte), w \in holds, WriteBurst(w, data)
  PROVE  IInv'
<1> DEFINE n == Smaller(Len(data), PIPE_BUF_SIZE - used)
<1>1. Len(data) \in Nat /\ \A i \in 1 .. Len(data) : data[i] \in Byte
  BY LenProperties, ElementOfSeq
<1>2. PIPE_BUF_SIZE \in Nat \ {0} /\ used \in 0 .. PIPE_BUF_SIZE /\ PIPE_BUF_SIZE - used \in Nat
  BY PipeAssumption DEF IInv, TypeOK
<1>3. n \in Nat /\ n <= Len(data) /\ n <= PIPE_BUF_SIZE - used
  BY <1>1, <1>2, SmallerProperties
<1> HIDE DEF n
<1>4. read_pos \in 0 .. (PIPE_BUF_SIZE - 1) /\ write_pos \in 0 .. (PIPE_BUF_SIZE - 1)
  BY DEF IInv, TypeOK, Index
<1>5. buf' \in [Index -> Byte]
  <2> SUFFICES ASSUME NEW i \in Index
               PROVE  (IF (i - write_pos) % PIPE_BUF_SIZE < n
                       THEN data[((i - write_pos) % PIPE_BUF_SIZE) + 1] ELSE buf[i]) \in Byte
    BY DEF WriteBurst, n
  <2>1. (i - write_pos) % PIPE_BUF_SIZE \in Nat
    BY <1>2, <1>4 DEF Index
  <2>2. CASE (i - write_pos) % PIPE_BUF_SIZE < n
    <3>1. ((i - write_pos) % PIPE_BUF_SIZE) + 1 \in 1 .. Len(data)
      BY <1>1, <1>3, <2>1, <2>2
    <3> QED BY <1>1, <2>2, <3>1
  <2>3. CASE ~((i - write_pos) % PIPE_BUF_SIZE < n)
    BY <2>3 DEF IInv, TypeOK
  <2> QED BY <2>2, <2>3
<1>6. write_pos' = (write_pos + n) % PIPE_BUF_SIZE /\ used' = used + n /\ read_pos' = read_pos
  BY DEF WriteBurst, n
<1>7. used' \in 0 .. PIPE_BUF_SIZE
  BY <1>2, <1>3, <1>6
<1>8. write_pos' = (read_pos' + used') % PIPE_BUF_SIZE /\ write_pos' \in Index
  <2>1. write_pos = (read_pos + used) % PIPE_BUF_SIZE
    BY DEF IInv, RingExact
  <2>2. (((read_pos + used) % PIPE_BUF_SIZE) + n) % PIPE_BUF_SIZE
          = (read_pos + used + n) % PIPE_BUF_SIZE
    <3>1. used \in Nat /\ used <= PIPE_BUF_SIZE /\ used + n <= PIPE_BUF_SIZE
      BY <1>2, <1>3
    <3>2. PIPE_BUF_SIZE \in Nat \ {0} /\ read_pos \in 0 .. (PIPE_BUF_SIZE - 1) /\ n \in Nat
      BY <1>2, <1>3, <1>4
    <3> QED BY <3>1, <3>2, ModTwice
  <2>3. (write_pos + n) % PIPE_BUF_SIZE \in 0 .. (PIPE_BUF_SIZE - 1)
    BY <1>2, <1>3, <1>4
  <2>4. read_pos + used + n = read_pos + (used + n)
    BY <1>2, <1>3, <1>4
  <2> QED BY <1>6, <2>1, <2>2, <2>3, <2>4 DEF Index
<1>9. todo' \in [Writer -> Seq(Byte)]
  <2>1. SubSeq(data, n + 1, Len(data)) \in Seq(Byte)
    BY <1>3, RestIsBytes
  <2>2. todo' = [todo EXCEPT ![w] = SubSeq(data, n + 1, Len(data))]
    BY DEF WriteBurst, n
  <2> QED BY <2>1, <2>2 DEF IInv, TypeOK
<1>10. WriteEndInv'
  <2>1. holds' = holds /\ write_closed' = write_closed
        /\ \A v \in Writer : v # w => todo'[v] = todo[v]
    BY DEF WriteBurst, IInv, TypeOK
  <2> QED BY <2>1 DEF IInv, WriteEndInv
<1>11. UNCHANGED <<read_pos, read_closed, write_closed, holds, want, got, eof>>
  BY DEF WriteBurst
<1> QED BY <1>5, <1>7, <1>8, <1>9, <1>10, <1>11 DEF IInv, TypeOK, RingExact

\* A burst of reading keeps the invariant.
LEMMA ReadKeeps ==
  ASSUME IInv, NEW r \in Reader, NEW len \in Nat, NEW sofar \in Seq(Byte),
         ReadBurst(r, len, sofar)
  PROVE  IInv'
<1> DEFINE n == Smaller(len, used)
           taken == [k \in 1 .. n |-> buf[(read_pos + k - 1) % PIPE_BUF_SIZE]]
<1>1. PIPE_BUF_SIZE \in Nat \ {0} /\ used \in 0 .. PIPE_BUF_SIZE /\ used \in Nat
  BY PipeAssumption DEF IInv, TypeOK
<1>2. n \in Nat /\ n <= len /\ n <= used
  BY <1>1, SmallerProperties
<1>3. read_pos \in 0 .. (PIPE_BUF_SIZE - 1)
  BY DEF IInv, TypeOK, Index
<1>4. taken \in Seq(Byte)
  <2>1. \A k \in 1 .. n : (read_pos + k - 1) % PIPE_BUF_SIZE \in Index
    BY <1>1, <1>2, <1>3 DEF Index
  <2>2. \A k \in 1 .. n : buf[(read_pos + k - 1) % PIPE_BUF_SIZE] \in Byte
    BY <2>1 DEF IInv, TypeOK
  <2>3. taken \in [1 .. n -> Byte]
    BY <2>2
  <2> HIDE DEF n, taken
  <2> QED BY <1>2, <2>3, FunctionIsBytes
<1>5. got' = [got EXCEPT ![r] = sofar \o taken]
  BY DEF ReadBurst
<1> HIDE DEF taken
<1>6. sofar \o taken \in Seq(Byte)
  BY <1>4, ConcatProperties
<1>7. got' \in [Reader -> Seq(Byte)]
  BY <1>5, <1>6 DEF IInv, TypeOK
<1>8. /\ read_pos' = (read_pos + n) % PIPE_BUF_SIZE /\ used' = used - n
      /\ UNCHANGED <<buf, write_pos, read_closed, write_closed, holds, todo>>
  BY DEF ReadBurst
<1>9. want' \in [Reader -> Nat] /\ eof' \in [Reader -> BOOLEAN]
  <2>1. len - n \in Nat
    BY <1>2
  <2>2. /\ want' = [want EXCEPT ![r] = IF n = len \/ write_closed THEN 0 ELSE len - n]
        /\ eof' = [eof EXCEPT ![r] = n < len /\ (n = len \/ write_closed)]
    BY DEF ReadBurst
  <2> HIDE DEF n
  <2>3. want' \in [Reader -> Nat]
    BY <2>1, <2>2 DEF IInv, TypeOK
  <2>4. eof' \in [Reader -> BOOLEAN]
    BY <2>2 DEF IInv, TypeOK
  <2> QED BY <2>3, <2>4
<1> HIDE DEF n
<1>10. used' \in 0 .. PIPE_BUF_SIZE
  BY <1>1, <1>2, <1>8
<1>11. read_pos' \in Index /\ write_pos' = (read_pos' + used') % PIPE_BUF_SIZE
  <2>1. /\ (read_pos + n) % PIPE_BUF_SIZE \in 0 .. (PIPE_BUF_SIZE - 1)
        /\ (((read_pos + n) % PIPE_BUF_SIZE) + (used - n)) % PIPE_BUF_SIZE
             = (read_pos + n + (used - n)) % PIPE_BUF_SIZE
    <3>1. used - n \in Nat /\ n <= PIPE_BUF_SIZE /\ n + (used - n) <= PIPE_BUF_SIZE
      BY <1>1, <1>2
    <3> QED BY <1>1, <1>2, <1>3, <3>1, ModTwice
  <2>2. read_pos + n + (used - n) = read_pos + used
    BY <1>1, <1>2, <1>3
  <2>3. write_pos = (read_pos + used) % PIPE_BUF_SIZE
    BY DEF IInv, RingExact
  <2> QED BY <1>8, <2>1, <2>2, <2>3 DEF Index
<1> QED BY <1>7, <1>8, <1>9, <1>10, <1>11 DEF IInv, TypeOK, RingExact, WriteEndInv

\* A new pipe satisfies the invariant.
LEMMA InitKeeps == Init => IInv
<1> SUFFICES ASSUME Init PROVE IInv
  OBVIOUS
<1>1. PIPE_BUF_SIZE \in Nat \ {0} /\ 0 \in Byte
  BY PipeAssumption
<1>2. 0 \in Index /\ 0 % PIPE_BUF_SIZE = 0
  BY <1>1 DEF Index
<1>3. <<>> \in Seq(Byte)
  BY EmptySeq
<1>4. TypeOK
  BY <1>1, <1>2, <1>3 DEF Init, TypeOK
<1>5. RingExact
  BY <1>2 DEF Init, RingExact
<1>6. WriteEndInv
  BY DEF Init, WriteEndInv
<1> QED BY <1>4, <1>5, <1>6 DEF IInv

\* Closing a descriptor keeps the invariant.
LEMMA CloseKeeps ==
  ASSUME IInv, NEW t, (t \in Writer /\ close_write(t)) \/ (t \in Reader /\ close_read(t))
  PROVE  IInv'
<1>1. /\ UNCHANGED <<buf, read_pos, write_pos, used, todo, want, got, eof>>
      /\ holds' = holds \ {t}
      /\ read_closed' \in BOOLEAN /\ write_closed' \in BOOLEAN
  BY DEF close_write, close_read, ring, IInv, TypeOK
<1>2. TypeOK'
  BY <1>1 DEF IInv, TypeOK
<1>3. RingExact'
  BY <1>1 DEF IInv, RingExact
<1>4. WriteEndInv'
  <2>1. CASE t \in Writer /\ close_write(t)
    BY <2>1 DEF close_write, IInv, WriteEndInv
  <2>2. CASE t \in Reader /\ close_read(t)
    BY <2>2, PipeAssumption DEF close_read, IInv, WriteEndInv
  <2> QED BY <2>1, <2>2
<1> QED BY <1>2, <1>3, <1>4 DEF IInv

\* Every step keeps the invariant.
LEMMA StepKeeps == IInv /\ [Next]_vars => IInv'
<1> SUFFICES ASSUME IInv, [Next]_vars PROVE IInv'
  OBVIOUS
<1>1. ASSUME NEW w \in Writer, NEW data \in Data, pipe_write(w, data) PROVE IInv'
  BY <1>1, DataAreBytes, WriteKeeps DEF pipe_write
<1>2. ASSUME NEW w \in Writer, resume_write(w) PROVE IInv'
  <2>1. w \in holds /\ todo[w] \in Seq(Byte)
    BY <1>2 DEF resume_write, IInv, TypeOK, WriteEndInv
  <2> QED BY <1>2, <2>1, WriteKeeps DEF resume_write
<1>3. ASSUME NEW w \in Writer, close_write(w) PROVE IInv'
  BY <1>3, CloseKeeps
<1>4. ASSUME NEW r \in Reader, NEW len \in 0 .. MaxLen, pipe_read(r, len) PROVE IInv'
  <2>1. len \in Nat /\ <<>> \in Seq(Byte)
    BY PipeAssumption, EmptySeq
  <2> QED BY <1>4, <2>1, ReadKeeps DEF pipe_read
<1>5. ASSUME NEW r \in Reader, resume_read(r) PROVE IInv'
  <2>1. want[r] \in Nat /\ got[r] \in Seq(Byte)
    BY DEF IInv, TypeOK
  <2> QED BY <1>5, <2>1, ReadKeeps DEF resume_read
<1>6. ASSUME NEW r \in Reader, close_read(r) PROVE IInv'
  BY <1>6, CloseKeeps
<1>7. CASE UNCHANGED vars
  BY <1>7 DEF vars, ring, IInv, TypeOK, RingExact, WriteEndInv
<1> QED BY <1>1, <1>2, <1>3, <1>4, <1>5, <1>6, <1>7 DEF Next

\* The invariant holds in every reachable state of every pipe.
THEOREM Inductive == Spec => []IInv
  BY InitKeeps, StepKeeps, PTL DEF Spec

(***************************************************************************)
(* pipe_read and pipe_write keep the words of struct pipe in range, for    *)
(* every size of the buffer: no index leaves buf, used never wraps.        *)
(***************************************************************************)
THEOREM TypeCorrect == Spec => []TypeOK
<1>1. IInv => TypeOK
  BY DEF IInv
<1> QED BY <1>1, Inductive, PTL

\* write_pos is always where the used bytes after read_pos end.
THEOREM RingStaysExact == Spec => []RingExact
<1>1. IInv => RingExact
  BY DEF IInv
<1> QED BY <1>1, Inductive, PTL

----------------------------------------------------------------------------
(* The pipe implements a byte stream *)

\* Of the positions of the first u + n bytes, the burst rewrites the last n.
LEMMA BurstPositions ==
  ASSUME NEW M \in Nat \ {0}, NEW r \in 0 .. (M - 1), NEW u \in 0 .. M,
         NEW n \in Nat, n <= M - u, NEW i \in 1 .. (u + n)
  PROVE  /\ (r + i - 1) % M \in 0 .. (M - 1)
         /\ i <= u => ~((((r + i - 1) % M) - ((r + u) % M)) % M < n)
         /\ i > u  => /\ (((r + i - 1) % M) - ((r + u) % M)) % M < n
                      /\ ((((r + i - 1) % M) - ((r + u) % M)) % M) + 1 = i - u
<1>1. i \in 1 .. M
  OBVIOUS
<1>2. /\ (r + i - 1) % M \in 0 .. (M - 1)
      /\ (((r + i - 1) % M) - ((r + u) % M)) % M = IF i > u THEN i - u - 1 ELSE i - u - 1 + M
  BY <1>1, RingDistance
<1> DEFINE d == (((r + i - 1) % M) - ((r + u) % M)) % M
<1>3. d = IF i > u THEN i - u - 1 ELSE i - u - 1 + M
  BY <1>2
<1> HIDE DEF d
<1>4. (i <= u => ~(d < n)) /\ (i > u => d < n /\ d + 1 = i - u)
  BY <1>3
<1> QED BY <1>2, <1>4 DEF d

\* A sequence that begins as s does and goes on as t does is s followed by t.
LEMMA IsConcat ==
  ASSUME NEW s \in Seq(Byte), NEW t \in Seq(Byte), NEW c \in Seq(Byte),
         Len(c) = Len(s) + Len(t),
         \A i \in 1 .. Len(c) : c[i] = IF i <= Len(s) THEN s[i] ELSE t[i - Len(s)]
  PROVE  c = s \o t
<1>1. /\ s \o t \in Seq(Byte)
      /\ Len(s \o t) = Len(s) + Len(t)
      /\ \A i \in 1 .. Len(s) + Len(t) : (s \o t)[i] =
                     IF i <= Len(s) THEN s[i] ELSE t[i - Len(s)]
  BY ConcatProperties
<1>2. Len(c) = Len(s \o t) /\ \A i \in 1 .. Len(c) : c[i] = (s \o t)[i]
  BY <1>1, Zenon
<1> QED BY <1>1, <1>2, SeqEqual

\* A sequence that agrees with the first n elements of c is that part of c.
LEMMA IsFront ==
  ASSUME NEW c \in Seq(Byte), NEW n \in Nat, n <= Len(c), NEW f \in [1 .. n -> Byte],
         \A i \in 1 .. n : f[i] = c[i]
  PROVE  f = SubSeq(c, 1, n)
<1>1. Len(c) \in Nat /\ \A i \in 1 .. Len(c) : c[i] \in Byte
  BY ElementOfSeq, LenProperties
<1>2. \A i \in 1 .. n : c[i] \in Byte
  BY <1>1
<1>3. /\ SubSeq(c, 1, n) \in Seq(Byte)
      /\ Len(SubSeq(c, 1, n)) = IF 1 <= n THEN n - 1 + 1 ELSE 0
      /\ \A i \in 1 .. n - 1 + 1 : SubSeq(c, 1, n)[i] = c[1 + i - 1]
  BY <1>2, SubSeqProperties
<1>4. /\ n - 1 + 1 = n /\ (~(1 <= n) => n = 0)
      /\ \A i \in 1 .. n : 1 + i - 1 = i
  OBVIOUS
<1>5. Len(SubSeq(c, 1, n)) = n
  BY <1>3, <1>4, Zenon
<1>6. \A i \in 1 .. n : SubSeq(c, 1, n)[i] = f[i]
  BY <1>3, <1>4
<1>7. f \in Seq(Byte) /\ Len(f) = n
  BY FunctionIsBytes
<1> QED BY <1>3, <1>5, <1>6, <1>7, SeqEqual

\* A sequence that agrees with c after its first n elements is the rest of c.
LEMMA IsRest ==
  ASSUME NEW c \in Seq(Byte), NEW n \in Nat, n <= Len(c), NEW f \in Seq(Byte),
         Len(f) = Len(c) - n, \A i \in 1 .. (Len(c) - n) : f[i] = c[n + i]
  PROVE  f = SubSeq(c, n + 1, Len(c))
<1>1. /\ SubSeq(c, n + 1, Len(c)) \in Seq(Byte)
      /\ Len(SubSeq(c, n + 1, Len(c))) = Len(c) - n
      /\ \A i \in 1 .. (Len(c) - n) : SubSeq(c, n + 1, Len(c))[i] = c[n + i]
  BY RestIsBytes
<1>2. Len(f) = Len(SubSeq(c, n + 1, Len(c)))
      /\ \A i \in 1 .. Len(f) : f[i] = SubSeq(c, n + 1, Len(c))[i]
  BY <1>1, Zenon
<1> QED BY <1>1, <1>2, SeqEqual

\* What a ring holds from position r on is a sequence of u bytes.
LEMMA RingBytes ==
  ASSUME NEW b \in [Index -> Byte], NEW r \in Index, NEW u \in 0 .. PIPE_BUF_SIZE
  PROVE  /\ [i \in 1 .. u |-> b[(r + i - 1) % PIPE_BUF_SIZE]] \in Seq(Byte)
         /\ Len([i \in 1 .. u |-> b[(r + i - 1) % PIPE_BUF_SIZE]]) = u
         /\ [i \in 1 .. u |-> b[(r + i - 1) % PIPE_BUF_SIZE]] \in [1 .. u -> Byte]
<1> DEFINE c == [i \in 1 .. u |-> b[(r + i - 1) % PIPE_BUF_SIZE]]
<1>1. PIPE_BUF_SIZE \in Nat \ {0} /\ u \in Nat /\ r \in 0 .. (PIPE_BUF_SIZE - 1)
  BY PipeAssumption DEF Index
<1>2. \A i \in 1 .. u : (r + i - 1) % PIPE_BUF_SIZE \in Index
  BY <1>1 DEF Index
<1>3. c \in [1 .. u -> Byte]
  BY <1>2
<1> HIDE DEF c
<1>4. c \in Seq(Byte) /\ Len(c) = u
  BY <1>1, <1>3, FunctionIsBytes
<1> QED BY <1>3, <1>4 DEF c

\* What the pipe holds, before and after a step.
LEMMA ContentsAreBytes ==
  ASSUME IInv, IInv'
  PROVE  /\ Contents \in Seq(Byte) /\ Len(Contents) = used
         /\ Contents' \in Seq(Byte) /\ Len(Contents') = used'
<1>1. buf \in [Index -> Byte] /\ read_pos \in Index /\ used \in 0 .. PIPE_BUF_SIZE
  BY DEF IInv, TypeOK
<1>2. buf' \in [Index -> Byte] /\ read_pos' \in Index /\ used' \in 0 .. PIPE_BUF_SIZE
  BY DEF IInv, TypeOK
<1>3. Contents \in Seq(Byte) /\ Len(Contents) = used
  BY <1>1, RingBytes DEF Contents
<1>4. Contents' \in Seq(Byte) /\ Len(Contents') = used'
  BY <1>2, RingBytes DEF Contents
<1> QED BY <1>3, <1>4

\* A burst of writing puts bytes at the end of the stream.
LEMMA WriteIsPut ==
  ASSUME IInv, IInv', NEW w \in Writer, NEW data \in Seq(Byte), w \in holds,
         WriteBurst(w, data)
  PROVE  Stream!Put
<1> DEFINE n == Smaller(Len(data), PIPE_BUF_SIZE - used)
           s == [k \in 1 .. n |-> data[k]]
<1>1. Len(data) \in Nat /\ \A i \in 1 .. Len(data) : data[i] \in Byte
  BY LenProperties, ElementOfSeq
<1>2. /\ PIPE_BUF_SIZE \in Nat \ {0} /\ used \in 0 .. PIPE_BUF_SIZE
      /\ PIPE_BUF_SIZE - used \in Nat
  BY PipeAssumption DEF IInv, TypeOK
<1>3. n \in Nat /\ n <= Len(data) /\ n <= PIPE_BUF_SIZE - used
  BY <1>1, <1>2, SmallerProperties
<1>4. s \in [1 .. n -> Byte]
  BY <1>1, <1>3
<1>5. /\ used' = used + n /\ read_pos' = read_pos
      /\ buf' = [i \in Index |-> IF (i - write_pos) % PIPE_BUF_SIZE < n
                                 THEN data[((i - write_pos) % PIPE_BUF_SIZE) + 1] ELSE buf[i]]
      /\ UNCHANGED <<write_closed, got, eof>>
  BY DEF WriteBurst
<1>6. \A k \in 1 .. n : s[k] = data[k]
  OBVIOUS
<1> HIDE DEF n, s
<1>7. s \in Seq(Byte) /\ Len(s) = n
  BY <1>3, <1>4, FunctionIsBytes
<1>8. /\ Contents \in Seq(Byte) /\ Len(Contents) = used
      /\ Contents' \in Seq(Byte) /\ Len(Contents') = used'
  BY ContentsAreBytes
<1>9. ASSUME NEW i \in 1 .. used'
      PROVE  Contents'[i] = IF i <= used THEN Contents[i] ELSE s[i - used]
  <2> DEFINE pos == (read_pos + i - 1) % PIPE_BUF_SIZE
             k == (pos - write_pos) % PIPE_BUF_SIZE
  <2>1. read_pos \in 0 .. (PIPE_BUF_SIZE - 1) /\ write_pos = (read_pos + used) % PIPE_BUF_SIZE
    BY DEF IInv, TypeOK, Index, RingExact
  <2>2. i \in 1 .. (used + n)
    BY <1>5, Zenon
  <2>3. /\ pos \in 0 .. (PIPE_BUF_SIZE - 1)
        /\ i <= used => ~(k < n)
        /\ i > used  => k < n /\ k + 1 = i - used
    <3> DEFINE j == (pos - ((read_pos + used) % PIPE_BUF_SIZE)) % PIPE_BUF_SIZE
    <3>1. /\ PIPE_BUF_SIZE \in Nat \ {0} /\ used \in 0 .. PIPE_BUF_SIZE
          /\ n \in Nat /\ n <= PIPE_BUF_SIZE - used /\ read_pos \in 0 .. (PIPE_BUF_SIZE - 1)
      BY <1>2, <1>3, <2>1
    <3>2. /\ pos \in 0 .. (PIPE_BUF_SIZE - 1)
          /\ i <= used => ~(j < n)
          /\ i > used  => j < n /\ j + 1 = i - used
      BY <2>2, <3>1, BurstPositions, Zenon
    <3> HIDE DEF pos
    <3>3. j = k
      <4>1. write_pos = (read_pos + used) % PIPE_BUF_SIZE
        BY <2>1
      <4> QED BY <4>1, Zenon
    <3> HIDE DEF j, k
    <3> QED BY <3>2, <3>3, Zenon
  <2>4. Contents'[i] = buf'[pos]
    BY <1>5 DEF Contents
  <2>5. buf'[pos] = IF k < n THEN data[k + 1] ELSE buf[pos]
    BY <1>5, <2>3 DEF Index
  <2>6. CASE i <= used
    <3>1. i \in 1 .. used
      BY <1>2, <2>2, <2>6
    <3>2. Contents[i] = buf[pos]
      BY <3>1 DEF Contents
    <3> HIDE DEF pos, k
    <3> QED BY <2>3, <2>4, <2>5, <2>6, <3>2, Zenon
  <2>7. CASE ~(i <= used)
    <3>1. i > used /\ i - used \in 1 .. n
      BY <1>2, <1>3, <2>2, <2>7
    <3>2. s[i - used] = data[i - used]
      BY <1>6, <3>1
    <3> HIDE DEF pos, k
    <3> QED BY <2>3, <2>4, <2>5, <2>7, <3>1, <3>2, Zenon
  <2> QED BY <2>6, <2>7
<1>10. Contents' = Contents \o s
  BY <1>5, <1>7, <1>8, <1>9, IsConcat
<1>11. ~write_closed
  BY DEF IInv, WriteEndInv
<1>12. n \in 0 .. (PIPE_BUF_SIZE - Len(Contents))
  BY <1>2, <1>3, <1>8
<1> QED BY <1>4, <1>5, <1>10, <1>11, <1>12 DEF Stream!Put

\* Reading n bytes moves the i-th remaining byte from place n + i to place i.
LEMMA ShiftedPositions ==
  ASSUME NEW M \in Nat \ {0}, NEW r \in 0 .. (M - 1), NEW u \in 0 .. M,
         NEW n \in 0 .. u, NEW i \in 1 .. (u - n)
  PROVE  (((r + n) % M) + i - 1) % M = (r + (n + i) - 1) % M /\ n + i \in 1 .. u
<1>1. n \in Nat /\ i - 1 \in Nat /\ n <= M /\ n + (i - 1) <= M /\ n + i \in 1 .. u
  OBVIOUS
<1>2. /\ (r + n) % M \in 0 .. (M - 1)
      /\ (((r + n) % M) + (i - 1)) % M = (r + n + (i - 1)) % M
  BY <1>1, ModTwice
<1>3. ((r + n) % M) + (i - 1) = ((r + n) % M) + i - 1 /\ r + n + (i - 1) = r + (n + i) - 1
  BY <1>2
<1> QED BY <1>1, <1>2, <1>3

\* A burst of reading takes bytes from the front of the stream, and ends the
\* call early only at its end.
LEMMA ReadIsTake ==
  ASSUME IInv, IInv', NEW r \in Reader, NEW len \in Nat, NEW sofar \in {<<>>, got[r]},
         ReadBurst(r, len, sofar)
  PROVE  Stream!Take(r)
<1> DEFINE n == Smaller(len, used)
           taken == [k \in 1 .. n |-> buf[(read_pos + k - 1) % PIPE_BUF_SIZE]]
<1>1. /\ PIPE_BUF_SIZE \in Nat \ {0} /\ used \in 0 .. PIPE_BUF_SIZE /\ used \in Nat
      /\ read_pos \in 0 .. (PIPE_BUF_SIZE - 1) /\ read_pos \in Index /\ buf \in [Index -> Byte]
  BY PipeAssumption DEF IInv, TypeOK, Index
<1>2. n \in Nat /\ n <= len /\ n <= used /\ (n = len \/ n = used)
  BY <1>1, SmallerProperties
<1>3. /\ got' = [got EXCEPT ![r] = sofar \o taken]
      /\ read_pos' = (read_pos + n) % PIPE_BUF_SIZE /\ used' = used - n
      /\ buf' = buf /\ write_closed' = write_closed
      /\ eof' = [eof EXCEPT ![r] = n < len /\ (n = len \/ write_closed)]
  BY DEF ReadBurst
<1> HIDE DEF n
<1>4. n \in 0 .. PIPE_BUF_SIZE /\ n \in 0 .. used
  BY <1>1, <1>2
<1>5. taken \in [1 .. n -> Byte]
  BY <1>1, <1>4, RingBytes
<1>6. /\ Contents \in Seq(Byte) /\ Len(Contents) = used
      /\ Contents' \in Seq(Byte) /\ Len(Contents') = used'
  BY ContentsAreBytes
<1>7. taken = SubSeq(Contents, 1, n)
  <2>1. \A i \in 1 .. n : i \in 1 .. used
    BY <1>1, <1>2
  <2>2. \A i \in 1 .. n : taken[i] = Contents[i]
    BY <2>1 DEF Contents
  <2> HIDE DEF taken
  <2> QED BY <1>2, <1>5, <1>6, <2>2, IsFront
<1> HIDE DEF taken
<1>8. Contents' = SubSeq(Contents, n + 1, Len(Contents))
  <2>1. ASSUME NEW i \in 1 .. (used - n) PROVE Contents'[i] = Contents[n + i]
    <3>1. Contents'[i] = buf[(read_pos' + i - 1) % PIPE_BUF_SIZE]
      BY <1>3 DEF Contents
    <3>2. /\ (((read_pos + n) % PIPE_BUF_SIZE) + i - 1) % PIPE_BUF_SIZE
               = (read_pos + (n + i) - 1) % PIPE_BUF_SIZE
          /\ n + i \in 1 .. used
      BY <1>1, <1>4, ShiftedPositions
    <3>3. Contents[n + i] = buf[(read_pos + (n + i) - 1) % PIPE_BUF_SIZE]
      BY <3>2 DEF Contents
    <3> QED BY <1>3, <3>1, <3>2, <3>3, Zenon
  <2>2. Len(Contents') = Len(Contents) - n
    BY <1>3, <1>6, Zenon
  <2>3. \A i \in 1 .. (Len(Contents) - n) : Contents'[i] = Contents[n + i]
    BY <1>6, <2>1, Zenon
  <2> QED BY <1>2, <1>6, <2>2, <2>3, IsRest
<1>9. eof' \in {[eof EXCEPT ![r] = FALSE],
                [eof EXCEPT ![r] = n = Len(Contents) /\ write_closed]}
  <2>1. CASE n = len
    <3>1. ~(n < len)
      BY <1>2, <2>1
    <3> QED BY <1>3, <3>1, Zenon
  <2>2. CASE n # len
    <3>1. n < len /\ n = used
      BY <1>2, <2>2
    <3>2. (n < len /\ (n = len \/ write_closed)) <=> (n = Len(Contents) /\ write_closed)
      BY <1>6, <2>2, <3>1, Zenon
    <3> QED BY <1>3, <3>2
  <2> QED BY <2>1, <2>2
<1>10. n \in 0 .. Len(Contents)
  BY <1>4, <1>6
<1> QED BY <1>3, <1>7, <1>8, <1>9, <1>10 DEF Stream!Take

\* A new pipe is an empty stream.
LEMMA InitIsEmpty == ASSUME Init PROVE Stream!StreamInit
<1>1. used = 0
  BY DEF Init
<1>2. IInv
  BY InitKeeps
<1>3. Contents \in Seq(Byte) /\ Len(Contents) = 0
  <2>1. buf \in [Index -> Byte] /\ read_pos \in Index /\ used \in 0 .. PIPE_BUF_SIZE
    BY <1>2 DEF IInv, TypeOK
  <2> QED BY <1>1, <2>1, RingBytes DEF Contents
<1>4. Contents = <<>>
  BY <1>3, EmptySeq
<1> QED BY <1>4 DEF Init, Stream!StreamInit

\* Every step of the pipe is a step of the stream, or none.
LEMMA StepIsStreamStep ==
  ASSUME IInv, IInv', [Next]_vars
  PROVE  [Stream!StreamNext]_(Stream!streamVars)
<1>1. ASSUME NEW w \in Writer, NEW data \in Data, pipe_write(w, data) PROVE Stream!Put
  BY <1>1, DataAreBytes, WriteIsPut DEF pipe_write
<1>2. ASSUME NEW w \in Writer, resume_write(w) PROVE Stream!Put
  <2>1. w \in holds /\ todo[w] \in Seq(Byte)
    BY <1>2 DEF resume_write, IInv, TypeOK, WriteEndInv
  <2> QED BY <1>2, <2>1, WriteIsPut DEF resume_write
<1>3. ASSUME NEW w \in Writer, close_write(w)
      PROVE  Stream!Close \/ UNCHANGED Stream!streamVars
  <2>1. ~write_closed /\ write_closed' \in BOOLEAN /\ write_closed \in BOOLEAN
    BY <1>3 DEF close_write, IInv, WriteEndInv, TypeOK
  <2>2. UNCHANGED <<Contents, got, eof>>
    BY <1>3 DEF close_write, ring, Contents
  <2>3. CASE write_closed' = TRUE
    BY <2>2, <2>3 DEF Stream!Close
  <2>4. CASE write_closed' = write_closed
    BY <2>2, <2>4 DEF Stream!streamVars
  <2> QED BY <2>1, <2>3, <2>4, Zenon
<1>4. ASSUME NEW r \in Reader, NEW len \in 0 .. MaxLen, pipe_read(r, len)
      PROVE  Stream!Take(r)
  <2>1. len \in Nat
    BY PipeAssumption
  <2> QED BY <1>4, <2>1, ReadIsTake DEF pipe_read
<1>5. ASSUME NEW r \in Reader, resume_read(r) PROVE Stream!Take(r)
  <2>1. want[r] \in Nat
    BY DEF IInv, TypeOK
  <2> QED BY <1>5, <2>1, ReadIsTake DEF resume_read
<1>6. ASSUME NEW r \in Reader, close_read(r) PROVE UNCHANGED Stream!streamVars
  BY <1>6 DEF close_read, ring, Contents, Stream!streamVars
<1>7. CASE UNCHANGED vars
  BY <1>7 DEF vars, ring, Contents, Stream!streamVars
<1> QED BY <1>1, <1>2, <1>3, <1>4, <1>5, <1>6, <1>7 DEF Next, Stream!StreamNext

(***************************************************************************)
(* pipe_read and pipe_write are a byte stream: every byte comes out once,  *)
(* in order, and a read ends early only when nothing can follow, for every *)
(* buffer size, every number of readers and writers, every length.         *)
(***************************************************************************)
THEOREM PipeIsAStream == Spec => ImplementsStream
<1>1. Init => Stream!StreamInit
  BY InitIsEmpty
<1>2. IInv /\ IInv' /\ [Next]_vars => [Stream!StreamNext]_(Stream!streamVars)
  BY StepIsStreamStep
<1> QED BY <1>1, <1>2, Inductive, PTL DEF Spec, ImplementsStream, Stream!StreamSpec

=============================================================================

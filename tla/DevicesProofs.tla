---------------------------- MODULE DevicesProofs ----------------------------
(***************************************************************************)
(* For every size of the screen, of the framebuffer behind it and of a     *)
(* tab, and for any text: the console shows the end of what was written.   *)
(*                                                                         *)
(* For every size of the keyboard's ring, and any interleaving of the      *)
(* user, the controllers, the handlers and the reader: characters arrive   *)
(* in the order and the case in which they were typed.                     *)
(*                                                                         *)
(* For every size of the mouse's ring, every number of late replies and    *)
(* any bytes lost, whatever the movements' bytes look like: the packet     *)
(* machine mixes up no more packets than bytes were lost or look like a    *)
(* packet's first, none if nothing went wrong, and whole ones come out in  *)
(* order.                                                                  *)
(***************************************************************************)
EXTENDS Devices, FiniteSetTheorems, NaturalsInduction, SequenceTheorems,
        WellFoundedInduction, TLAPS

----------------------------------------------------------------------------
(* Numbers *)

\* A set of natural numbers that is not empty has a least element.
LEMMA LeastElement ==
  ASSUME NEW T \in SUBSET Nat, T # {}
  PROVE  \E m \in T : \A k \in T : m <= k
<1> DEFINE R == OpToRel(<, Nat)
<1>1. IsWellFoundedOn(R, Nat)
  BY NatLessThanWellFounded
<1> HIDE DEF R
<1>2. PICK m \in T : \A y \in T : ~ (<<y, m>> \in R)
  BY <1>1, WFMin
<1>3. \A x, y \in Nat : x < y => <<x, y>> \in R
  BY DEF R, OpToRel
<1>4. ASSUME NEW k \in T PROVE m <= k
  <2>1. m \in Nat /\ k \in Nat /\ ~(<<k, m>> \in R)
    BY <1>2
  <2>2. ~(k < m)
    BY <1>3, <2>1
  <2> QED BY <2>1, <2>2
<1> QED BY <1>4

\* A set with 0 in it and the successor of each of its elements is Nat.
LEMMA NatSet ==
  ASSUME NEW S \in SUBSET Nat, 0 \in S, \A n \in S : n + 1 \in S
  PROVE  S = Nat
<1> SUFFICES ASSUME Nat \ S # {} PROVE FALSE
  OBVIOUS
<1>1. PICK m \in Nat \ S : \A k \in Nat \ S : m <= k
  BY LeastElement
<1>2. m # 0 /\ m - 1 \in Nat
  BY <1>1
<1>3. m - 1 \in S
  BY <1>1, <1>2
<1> QED BY <1>1, <1>2, <1>3

----------------------------------------------------------------------------
(* The screen as a window on the page *)

C == CONSOLE_COLS
R == CONSOLE_ROWS

\* The sizes of console and framebuffer are numbers.
LEMMA ScreenFacts ==
  /\ C \in Nat /\ C > 0 /\ R \in Nat /\ R > 0 /\ TAB_WIDTH \in Nat /\ TAB_WIDTH > 0
  /\ FbCols \in Nat /\ FbRows \in Nat /\ FbCols >= C /\ FbRows >= R /\ FbRows > 1
BY ScreenAssumption DEF C, R

Top(row) == IF row < R THEN 0 ELSE row - R + 1
Nothing == {Blank, FirmwareJunk}
On(P, r, k) == <<r, k>> \in DOMAIN P

(***************************************************************************)
(* F shows the lines of P from Top(row) on, if row is the last one.  Below *)
(* them nothing has ever been drawn; column C is the one a character after *)
(* a tab to the end of the line goes to, if the framebuffer has it.        *)
(***************************************************************************)
Shows(F, P, row) ==
  /\ \A p \in DOMAIN P : \E r \in 0 .. row, k \in 0 .. C : p = <<r, k>>
  /\ \A r \in 0 .. row, k \in 0 .. C :
       On(P, r, k) /\ r >= Top(row) /\ k < FbCols => F[r - Top(row)][k] = P[<<r, k>>]
  /\ \A r \in 0 .. (R - 1), k \in 0 .. (C - 1) : ~On(P, Top(row) + r, k) => F[r][k] \in Nothing
  /\ \A r \in R .. (FbRows - 1), k \in 0 .. (FbCols - 1) : F[r][k] \in Nothing

\* A cell of the current line is drawn on both.
LEMMA DrawShows ==
  ASSUME NEW F, NEW P, NEW row \in Nat, Shows(F, P, row), NEW col \in 0 .. C, NEW c,
         NEW G, G = fb_draw_char_bitmap(F, row - Top(row), col, c),
         NEW Q, Q = OnPage(P, row, col, c)
  PROVE  Shows(G, Q, row)
<1> DEFINE top == Top(row)
           y == row - top
<1>1. top \in Nat /\ y \in 0 .. (R - 1) /\ y = row - top /\ top <= row /\ top + y = row
  BY ScreenFacts DEF Top
<1>2. \A r \in 0 .. (FbRows - 1), k \in 0 .. (FbCols - 1) :
        G[r][k] = IF r = y /\ k = col THEN c ELSE F[r][k]
  BY DEF fb_draw_char_bitmap
<1>3. DOMAIN Q = DOMAIN P \cup {<<row, col>>}
  BY DEF OnPage
<1>4. \A p \in DOMAIN Q : Q[p] = IF p = <<row, col>> THEN c ELSE P[p]
  BY DEF OnPage
<1>5. \A r, k : /\ On(Q, r, k) <=> On(P, r, k) \/ (r = row /\ k = col)
                /\ On(Q, r, k) => Q[<<r, k>>] = IF r = row /\ k = col THEN c ELSE P[<<r, k>>]
  BY <1>3, <1>4 DEF On
<1> HIDE DEF top, y
<1>6. \A p \in DOMAIN Q : \E r \in 0 .. row, k \in 0 .. C : p = <<r, k>>
  BY <1>3 DEF Shows
<1>7. ASSUME NEW r \in 0 .. row, NEW k \in 0 .. C, On(Q, r, k), r >= top, k < FbCols
      PROVE  G[r - top][k] = Q[<<r, k>>]
  <2>1. r - top \in 0 .. (FbRows - 1) /\ k \in 0 .. (FbCols - 1) /\ (r - top = y <=> r = row)
    BY <1>1, <1>7, ScreenFacts
  <2>2. G[r - top][k] = IF r - top = y /\ k = col THEN c ELSE F[r - top][k]
    BY <1>2, <2>1
  <2>3. CASE r = row /\ k = col
    BY <1>5, <1>7, <2>1, <2>2, <2>3
  <2>4. CASE ~(r = row /\ k = col)
    <3>1. On(P, r, k) /\ Q[<<r, k>>] = P[<<r, k>>]
      BY <1>5, <1>7, <2>4
    <3>2. F[r - top][k] = P[<<r, k>>]
      BY <1>7, <3>1 DEF Shows, top
    <3> QED BY <2>1, <2>2, <2>4, <3>1, <3>2
  <2> QED BY <2>3, <2>4
<1>8. ASSUME NEW r \in 0 .. (R - 1), NEW k \in 0 .. (C - 1), ~On(Q, top + r, k)
      PROVE  G[r][k] \in Nothing
  <2>1. r \in 0 .. (FbRows - 1) /\ k \in 0 .. (FbCols - 1) /\ (r = y <=> top + r = row)
    BY <1>1, ScreenFacts
  <2>2. ~On(P, top + r, k) /\ ~(r = y /\ k = col)
    BY <1>5, <1>8, <2>1
  <2>3. F[r][k] \in Nothing
    BY <2>2 DEF Shows, top
  <2> QED BY <1>2, <2>1, <2>2, <2>3
<1>9. ASSUME NEW r \in R .. (FbRows - 1), NEW k \in 0 .. (FbCols - 1)
      PROVE  G[r][k] \in Nothing
  <2>1. r \in 0 .. (FbRows - 1) /\ r # y
    BY <1>1, ScreenFacts
  <2>2. F[r][k] \in Nothing
    BY DEF Shows
  <2> QED BY <1>2, <2>1, <2>2
<1> QED BY <1>6, <1>7, <1>8, <1>9 DEF Shows, top

\* The next line, with what console_putc does when there is no row left for it.
LEMMA NextLineShows ==
  ASSUME NEW F, NEW P, NEW row \in Nat, Shows(F, P, row),
         NEW G, G = IF (row - Top(row)) + 1 >= R THEN fb_scroll_up(F) ELSE F
  PROVE  Shows(G, P, row + 1)
<1> DEFINE top == Top(row)
           y == row - top
           top2 == Top(row + 1)
<1>1. \A p \in DOMAIN P : \E r \in 0 .. (row + 1), k \in 0 .. C : p = <<r, k>>
  BY DEF Shows
<1>2. \A k : ~On(P, row + 1, k)
  <2> SUFFICES ASSUME NEW k, <<row + 1, k>> \in DOMAIN P PROVE FALSE
    BY DEF On
  <2>1. PICK r \in 0 .. row, j \in 0 .. C : <<row + 1, k>> = <<r, j>>
    BY DEF Shows
  <2> QED BY <2>1
<1>3. CASE y + 1 < R
  <2>1. G = F /\ top = 0 /\ top2 = 0 /\ top \in Nat
    BY <1>3, ScreenFacts DEF Top
  <2>2. ASSUME NEW r \in 0 .. (row + 1), NEW k \in 0 .. C, On(P, r, k), k < FbCols
        PROVE  F[r][k] = P[<<r, k>>]
    <3>1. r \in 0 .. row /\ r >= top /\ r - top = r
      BY <1>2, <2>1, <2>2
    <3> HIDE DEF top
    <3> QED BY <2>2, <3>1 DEF Shows, top
  <2>3. ASSUME NEW r \in 0 .. (R - 1), NEW k \in 0 .. (C - 1), ~On(P, top2 + r, k)
        PROVE  F[r][k] \in Nothing
    <3>1. top2 + r = top + r
      BY <2>1
    <3> QED BY <2>3, <3>1 DEF Shows
  <2>4. \A r \in 0 .. (row + 1) : r - top2 = r
    BY <2>1
  <2> HIDE DEF top2, top
  <2> QED BY <1>1, <2>1, <2>2, <2>3, <2>4 DEF Shows, top2
<1>4. CASE y + 1 >= R
  <2>1. G = fb_scroll_up(F) /\ top \in Nat /\ top2 = top + 1 /\ (row + 1) - top2 = R - 1
    BY <1>4, ScreenFacts DEF Top
  <2>2. \A r \in 0 .. (FbRows - 1), k \in 0 .. (FbCols - 1) :
          G[r][k] = IF r = FbRows - 1 THEN Blank ELSE F[r + 1][k]
    BY <2>1 DEF fb_scroll_up
  <2> HIDE DEF top, top2, y
  <2>3. ASSUME NEW r \in 0 .. (row + 1), NEW k \in 0 .. C, On(P, r, k), r >= top2, k < FbCols
        PROVE  G[r - top2][k] = P[<<r, k>>]
    <3>1. r # row + 1
      BY <1>2, <2>3
    <3>2. /\ r \in 0 .. row /\ r >= top /\ (r - top2) + 1 = r - top
          /\ r - top2 \in 0 .. (FbRows - 1) /\ r - top2 # FbRows - 1 /\ k \in 0 .. (FbCols - 1)
      BY <2>1, <2>3, <3>1, ScreenFacts
    <3>3. F[r - top][k] = P[<<r, k>>]
      BY <2>3, <3>2 DEF Shows, top
    <3> QED BY <2>2, <3>2, <3>3
  <2>4. ASSUME NEW r \in 0 .. (R - 1), NEW k \in 0 .. (C - 1), ~On(P, top2 + r, k)
        PROVE  G[r][k] \in Nothing
    <3>1. r \in 0 .. (FbRows - 1) /\ k \in 0 .. (FbCols - 1)
      BY ScreenFacts
    <3>2. CASE r = FbRows - 1
      BY <2>2, <3>1, <3>2 DEF Nothing
    <3>3. CASE r # FbRows - 1 /\ r = R - 1
      <4>1. r + 1 \in R .. (FbRows - 1)
        BY <3>1, <3>3, ScreenFacts
      <4>2. F[r + 1][k] \in Nothing
        BY <3>1, <4>1 DEF Shows
      <4> QED BY <2>2, <3>1, <3>3, <4>2
    <3>4. CASE r # FbRows - 1 /\ r # R - 1
      <4>1. r + 1 \in 0 .. (R - 1) /\ top + (r + 1) = top2 + r
        BY <2>1, <3>4, ScreenFacts
      <4>2. F[r + 1][k] \in Nothing
        BY <2>4, <4>1 DEF Shows, top
      <4> QED BY <2>2, <3>1, <3>4, <4>2
    <3> QED BY <3>2, <3>3, <3>4
  <2>5. ASSUME NEW r \in R .. (FbRows - 1), NEW k \in 0 .. (FbCols - 1)
        PROVE  G[r][k] \in Nothing
    <3>1. r \in 0 .. (FbRows - 1)
      BY ScreenFacts
    <3>2. CASE r = FbRows - 1
      BY <2>2, <3>1, <3>2 DEF Nothing
    <3>3. CASE r # FbRows - 1
      <4>1. r + 1 \in R .. (FbRows - 1)
        BY <3>3, ScreenFacts
      <4>2. F[r + 1][k] \in Nothing
        BY <4>1 DEF Shows
      <4> QED BY <2>2, <3>1, <3>3, <4>2
    <3> QED BY <3>2, <3>3
  <2> QED BY <1>1, <2>3, <2>4, <2>5 DEF Shows, top2
<1>5. y + 1 < R \/ y + 1 >= R
  BY ScreenFacts DEF Top
<1> QED BY <1>3, <1>4, <1>5

----------------------------------------------------------------------------
(* A tab: the cells from col to the next stop are blanked one by one *)

FbSpan(F, row, col) ==
  LET Span[k \in Nat] == IF k <= col THEN F ELSE fb_draw_char_bitmap(Span[k - 1], row, k - 1, Blank)
  IN  Span
PageSpan(P, row, col) ==
  LET Span[k \in Nat] == IF k <= col THEN P ELSE OnPage(Span[k - 1], row, k - 1, Blank)
  IN  Span

\* The functions that Span defines exist: the first one in closed form.
LEMMA FbSpanEquation ==
  ASSUME NEW F, NEW row, NEW col \in Nat, NEW S, S = FbSpan(F, row, col)
  PROVE  \A k \in Nat : S[k] = IF k <= col THEN F
                               ELSE fb_draw_char_bitmap(S[k - 1], row, k - 1, Blank)
<1> DEFINE h == [k \in Nat |-> IF k <= col THEN F
                  ELSE [r \in 0 .. FbRows - 1 |-> [c \in 0 .. FbCols - 1 |->
                          IF r = row /\ col <= c /\ c < k THEN Blank ELSE F[r][c]]]]
           Is(f) == f = [k \in Nat |-> IF k <= col THEN F
                                      ELSE fb_draw_char_bitmap(f[k - 1], row, k - 1, Blank)]
<1>1. ASSUME NEW k \in Nat, k > col
      PROVE  h[k] = fb_draw_char_bitmap(h[k - 1], row, k - 1, Blank)
  <2>1. k - 1 \in Nat /\ k - 1 >= col
    BY <1>1
  <2>2. h[k] = [r \in 0 .. FbRows - 1 |-> [c \in 0 .. FbCols - 1 |->
                          IF r = row /\ col <= c /\ c < k THEN Blank ELSE F[r][c]]]
    BY <1>1
  <2>3. ASSUME NEW r \in 0 .. FbRows - 1, NEW c \in 0 .. FbCols - 1
        PROVE  (IF r = row /\ c = k - 1 THEN Blank ELSE h[k - 1][r][c])
                 = IF r = row /\ col <= c /\ c < k THEN Blank ELSE F[r][c]
    <3>1. c \in Nat
      BY ScreenFacts
    <3>2. CASE k - 1 <= col
      <4>1. h[k - 1] = F /\ k - 1 = col
        BY <2>1, <3>2
      <4>2. c = k - 1 <=> col <= c /\ c < k
        BY <1>1, <3>1, <4>1
      <4> HIDE DEF h
      <4> QED BY <4>1, <4>2
    <3>3. CASE ~(k - 1 <= col)
      <4>1. h[k - 1][r][c] = IF r = row /\ col <= c /\ c < k - 1 THEN Blank ELSE F[r][c]
        BY <2>1, <3>3
      <4>2. (col <= c /\ c < k) <=> (c = k - 1 \/ (col <= c /\ c < k - 1))
        BY <1>1, <2>1, <3>1
      <4> HIDE DEF h
      <4> QED BY <4>1, <4>2
    <3> QED BY <3>2, <3>3
  <2> HIDE DEF h
  <2> QED BY <2>2, <2>3 DEF fb_draw_char_bitmap
<1>2. \A k \in Nat : k <= col => h[k] = F
  OBVIOUS
<1>3. Is(h)
  <2>1. \A k \in Nat : h[k] = IF k <= col THEN F
                              ELSE fb_draw_char_bitmap(h[k - 1], row, k - 1, Blank)
    <3> HIDE DEF h
    <3> QED BY <1>1, <1>2
  <2>2. h = [k \in Nat |-> h[k]]
    OBVIOUS
  <2> HIDE DEF h
  <2> QED BY <2>1, <2>2
<1>4. S = CHOOSE f : Is(f)
  BY DEF FbSpan
<1> HIDE DEF h
<1>5. Is(S)
  <2> HIDE DEF Is
  <2> QED BY <1>3, <1>4
<1> QED BY <1>5

\* Likewise the other.
LEMMA PageSpanEquation ==
  ASSUME NEW P, NEW row, NEW col \in Nat, NEW S, S = PageSpan(P, row, col)
  PROVE  \A k \in Nat : S[k] = IF k <= col THEN P ELSE OnPage(S[k - 1], row, k - 1, Blank)
<1> DEFINE new(k) == {<<row, c>> : c \in col .. (k - 1)}
           h == [k \in Nat |-> IF k <= col THEN P
                  ELSE [p \in DOMAIN P \cup new(k) |-> IF p \in new(k) THEN Blank ELSE P[p]]]
           Is(f) == f = [k \in Nat |-> IF k <= col THEN P ELSE OnPage(f[k - 1], row, k - 1, Blank)]
<1>1. ASSUME NEW k \in Nat, k > col
      PROVE  h[k] = OnPage(h[k - 1], row, k - 1, Blank)
  <2>1. k - 1 \in Nat /\ k - 1 >= col
    BY <1>1
  <2>2. h[k] = [p \in DOMAIN P \cup new(k) |-> IF p \in new(k) THEN Blank ELSE P[p]]
    BY <1>1
  <2>3. CASE k - 1 <= col
    <3>1. h[k - 1] = P /\ k - 1 = col
      BY <2>1, <2>3
    <3>2. new(k) = {<<row, k - 1>>}
      BY <3>1
    <3> HIDE DEF h, new
    <3> QED BY <2>2, <3>1, <3>2 DEF OnPage
  <2>4. CASE ~(k - 1 <= col)
    <3>1. h[k - 1] = [p \in DOMAIN P \cup new(k - 1) |-> IF p \in new(k - 1) THEN Blank ELSE P[p]]
      BY <2>1, <2>4
    <3>2. new(k) = new(k - 1) \cup {<<row, k - 1>>}
      <4>1. \A c : c \in col .. (k - 1) <=> c \in col .. ((k - 1) - 1) \/ c = k - 1
        BY <2>1
      <4> QED BY <4>1
    <3> HIDE DEF h, new
    <3> QED BY <2>2, <3>1, <3>2 DEF OnPage
  <2> QED BY <2>3, <2>4
<1>2. \A k \in Nat : k <= col => h[k] = P
  OBVIOUS
<1>3. Is(h)
  <2>1. \A k \in Nat : h[k] = IF k <= col THEN P ELSE OnPage(h[k - 1], row, k - 1, Blank)
    <3> HIDE DEF h
    <3> QED BY <1>1, <1>2
  <2>2. h = [k \in Nat |-> h[k]]
    OBVIOUS
  <2> HIDE DEF h
  <2> QED BY <2>1, <2>2
<1>4. S = CHOOSE f : Is(f)
  BY DEF PageSpan
<1> HIDE DEF h
<1>5. Is(S)
  <2> HIDE DEF Is
  <2> QED BY <1>3, <1>4
<1> QED BY <1>5

\* The window stays one while a tab is drawn.
LEMMA SpanShows ==
  ASSUME NEW F, NEW P, NEW row \in Nat, Shows(F, P, row), NEW col \in Nat,
         NEW end \in 0 .. C
  PROVE  Shows(FbSpan(F, row - Top(row), col)[end], PageSpan(P, row, col)[end], row)
<1> DEFINE S == FbSpan(F, row - Top(row), col)
           T == PageSpan(P, row, col)
           I == {k \in Nat : k <= C => Shows(S[k], T[k], row)}
<1>1. \A k \in Nat : S[k] = IF k <= col THEN F
                            ELSE fb_draw_char_bitmap(S[k - 1], row - Top(row), k - 1, Blank)
  BY FbSpanEquation
<1>2. \A k \in Nat : T[k] = IF k <= col THEN P ELSE OnPage(T[k - 1], row, k - 1, Blank)
  BY PageSpanEquation
<1> HIDE DEF S, T
<1>3. 0 \in I
  BY <1>1, <1>2
<1>4. ASSUME NEW m \in I PROVE m + 1 \in I
  <2> SUFFICES ASSUME m + 1 <= C PROVE Shows(S[m + 1], T[m + 1], row)
    OBVIOUS
  <2>1. m \in 0 .. C /\ m + 1 \in Nat /\ (m + 1) - 1 = m /\ Shows(S[m], T[m], row)
    BY ScreenFacts
  <2>2. CASE m + 1 <= col
    BY <1>1, <1>2, <2>1, <2>2
  <2>3. CASE ~(m + 1 <= col)
    <3>1. /\ S[m + 1] = fb_draw_char_bitmap(S[m], row - Top(row), m, Blank)
          /\ T[m + 1] = OnPage(T[m], row, m, Blank)
      BY <1>1, <1>2, <2>1, <2>3
    <3> QED BY <2>1, <3>1, DrawShows
  <2> QED BY <2>2, <2>3
<1>5. I = Nat
  <2> HIDE DEF I
  <2>1. I \in SUBSET Nat
    BY DEF I
  <2> QED BY <1>3, <1>4, <2>1, NatSet
<1>6. Shows(S[end], T[end], row)
  BY <1>5, ScreenFacts
<1> QED BY <1>6 DEF S, T

----------------------------------------------------------------------------
(* console_putc *)

\* The state of the console before it scrolls, and of the page: both have drawn
\* the same cells of the current line and have the cursor in the same place.
InStep(s, q, row) ==
  /\ s = [f |-> s.f, row |-> s.row, col |-> s.col] /\ q = [f |-> q.f, row |-> q.row, col |-> q.col]
  /\ Shows(s.f, q.f, row) /\ q.col \in 0 .. C /\ s.col = q.col
  /\ \/ s.row = row - Top(row) /\ q.row = row
     \/ s.row = (row - Top(row)) + 1 /\ q.row = row + 1

\* What the console shows depends on page, framebuffer and cursor only.
LEMMA InStepBy ==
  ASSUME NEW s, NEW q, NEW row, NEW F, NEW P, NEW y, NEW z, NEW x,
         s = [f |-> F, row |-> y, col |-> x], q = [f |-> P, row |-> z, col |-> x],
         Shows(F, P, row), x \in 0 .. C,
         (y = row - Top(row) /\ z = row) \/ (y = (row - Top(row)) + 1 /\ z = row + 1)
  PROVE  InStep(s, q, row)
<1>1. s.f = F /\ s.row = y /\ s.col = x /\ q.f = P /\ q.row = z /\ q.col = x
  OBVIOUS
<1> QED BY <1>1 DEF InStep

\* Whatever is written.
LEMMA PutInStep ==
  ASSUME NEW F, NEW P, NEW row \in Nat, Shows(F, P, row), NEW x \in 0 .. C, NEW g,
         NEW c \in Controls \cup {"letter"}, NEW y, y = row - Top(row),
         NEW s, s = Put([f |-> F, row |-> y, col |-> x], c, g, fb_draw_char_bitmap),
         NEW q, q = Put([f |-> P, row |-> row, col |-> x], c, g, OnPage)
  PROVE  InStep(s, q, row)
<1> DEFINE s0 == [f |-> F, row |-> y, col |-> x]
           q0 == [f |-> P, row |-> row, col |-> x]
<1>0. s0.f = F /\ s0.row = y /\ s0.col = x /\ q0.f = P /\ q0.row = row /\ q0.col = x
  OBVIOUS
<1>1. CASE c = "newline"
  <2>1. s = [s0 EXCEPT !.row = @ + 1, !.col = 0] /\ q = [q0 EXCEPT !.row = @ + 1, !.col = 0]
    BY <1>1 DEF Put
  <2>2. s = [f |-> F, row |-> y + 1, col |-> 0] /\ q = [f |-> P, row |-> row + 1, col |-> 0]
    BY <2>1
  <2>3. 0 \in 0 .. C
    BY ScreenFacts
  <2> QED BY <2>2, <2>3, InStepBy
<1>2. CASE c = "return"
  <2>1. s = [s0 EXCEPT !.col = 0] /\ q = [q0 EXCEPT !.col = 0]
    BY <1>2 DEF Put
  <2>2. s = [f |-> F, row |-> y, col |-> 0] /\ q = [f |-> P, row |-> row, col |-> 0]
    BY <2>1
  <2>3. 0 \in 0 .. C
    BY ScreenFacts
  <2> QED BY <2>2, <2>3, InStepBy
<1>3. CASE c = "tab"
  <2> DEFINE end == IF NextTab(x) < C THEN NextTab(x) ELSE C
             to == IF end > x THEN end ELSE x
             G == FbSpan(F, y, x)[end]
             Q == PageSpan(P, row, x)[end]
  <2>1. s = [s0 EXCEPT !.f = G, !.col = to] /\ q = [q0 EXCEPT !.f = Q, !.col = to]
    BY <1>3 DEF Put, FbSpan, PageSpan, C
  <2>2. s = [f |-> G, row |-> y, col |-> to] /\ q = [f |-> Q, row |-> row, col |-> to]
    <3> HIDE DEF G, Q, to
    <3> QED BY <2>1
  <2>3. end \in 0 .. C /\ to \in 0 .. C /\ x \in Nat
    <3>1. x \in Nat /\ x \div TAB_WIDTH \in Nat
      BY ScreenFacts
    <3>2. NextTab(x) \in Nat
      BY <3>1, ScreenFacts DEF NextTab
    <3> QED BY <3>1, <3>2, ScreenFacts
  <2> HIDE DEF end
  <2>4. Shows(G, Q, row)
    BY <2>3, SpanShows
  <2> HIDE DEF G, Q, to
  <2> QED BY <2>2, <2>3, <2>4, InStepBy
<1>4. CASE c = "backspace" /\ x = 0
  <2>1. s = s0 /\ q = q0
    BY <1>4 DEF Put
  <2> QED BY <2>1, InStepBy
<1>5. CASE c = "backspace" /\ x # 0
  <2> DEFINE G == fb_draw_char_bitmap(F, y, x - 1, Blank)
             Q == OnPage(P, row, x - 1, Blank)
  <2>1. s = [s0 EXCEPT !.f = G, !.col = x - 1] /\ q = [q0 EXCEPT !.f = Q, !.col = x - 1]
    BY <1>5 DEF Put
  <2>2. s = [f |-> G, row |-> y, col |-> x - 1] /\ q = [f |-> Q, row |-> row, col |-> x - 1]
    <3> HIDE DEF G, Q
    <3> QED BY <2>1
  <2>3. x - 1 \in 0 .. C
    BY <1>5, ScreenFacts
  <2>4. Shows(G, Q, row)
    BY <2>3, DrawShows
  <2> HIDE DEF G, Q
  <2> QED BY <2>2, <2>3, <2>4, InStepBy
<1>6. CASE c = "letter"
  <2> DEFINE G == fb_draw_char_bitmap(F, y, x, g)
             Q == OnPage(P, row, x, g)
  <2>1. /\ s = [f |-> G, row |-> IF x + 1 >= C THEN y + 1 ELSE y,
                col |-> IF x + 1 >= C THEN 0 ELSE x + 1]
        /\ q = [f |-> Q, row |-> IF x + 1 >= C THEN row + 1 ELSE row,
                col |-> IF x + 1 >= C THEN 0 ELSE x + 1]
    BY <1>6 DEF Put, C
  <2>2. Shows(G, Q, row)
    BY DrawShows
  <2> HIDE DEF G, Q
  <2>3. CASE x + 1 >= C
    <3>1. s = [f |-> G, row |-> y + 1, col |-> 0] /\ q = [f |-> Q, row |-> row + 1, col |-> 0]
      BY <2>1, <2>3
    <3>2. 0 \in 0 .. C
      BY ScreenFacts
    <3> QED BY <2>2, <3>1, <3>2, InStepBy
  <2>4. CASE ~(x + 1 >= C)
    <3>1. s = [f |-> G, row |-> y, col |-> x + 1] /\ q = [f |-> Q, row |-> row, col |-> x + 1]
      BY <2>1, <2>4
    <3>2. x + 1 \in 0 .. C
      BY <2>4, ScreenFacts
    <3> QED BY <2>2, <3>1, <3>2, InStepBy
  <2> QED BY <2>3, <2>4
<1> QED BY <1>1, <1>2, <1>3, <1>4, <1>5, <1>6 DEF Controls

ConsoleInv ==
  /\ page = [f |-> page.f, row |-> page.row, col |-> page.col]
  /\ page.row \in Nat /\ page.col \in 0 .. C
  /\ con.row = page.row - Top(page.row) /\ con.col = page.col
  /\ Shows(fb, page.f, page.row)

\* The screen is clear when console_init returns, and so is the page.
LEMMA ConsoleInvInit == Init => ConsoleInv
<1> SUFFICES ASSUME Init PROVE ConsoleInv
  OBVIOUS
<1>1. page = [f |-> <<>>, row |-> 0, col |-> 0] /\ con.row = 0 /\ con.col = 0
  BY DEF Init, console_init
<1>2. \A r \in 0 .. FbRows - 1, k \in 0 .. FbCols - 1 :
        fb[r][k] = IF r < R /\ k < C THEN Blank ELSE FirmwareJunk
  BY DEF Init, console_init, R, C
<1>3. DOMAIN page.f = {} /\ page.row = 0 /\ page.col = 0 /\ Top(0) = 0
  BY <1>1, ScreenFacts DEF Top
<1>4. \A r \in 0 .. FbRows - 1, k \in 0 .. FbCols - 1 : fb[r][k] \in Nothing
  BY <1>2 DEF Nothing
<1>5. Shows(fb, page.f, 0)
  <2>1. \A r \in 0 .. (R - 1), k \in 0 .. (C - 1) : r \in 0 .. FbRows - 1 /\ k \in 0 .. FbCols - 1
    BY ScreenFacts
  <2>2. \A r \in R .. (FbRows - 1) : r \in 0 .. FbRows - 1
    BY ScreenFacts
  <2> QED BY <1>3, <1>4, <2>1, <2>2 DEF Shows, On
<1> QED BY <1>1, <1>3, <1>5, ScreenFacts DEF ConsoleInv

\* printk and sys_write.
LEMMA WriteStep ==
  ASSUME ConsoleInv, NEW c \in Controls \cup {"letter"}, Write(c)
  PROVE  ConsoleInv'
<1> DEFINE g == Glyph(con.written)
           row == page.row
           y == row - Top(row)
           s == Put([f |-> fb, row |-> con.row, col |-> con.col], c, g, fb_draw_char_bitmap)
           q == Put(page, c, g, OnPage)
           t == IF s.row >= CONSOLE_ROWS THEN console_scroll(s) ELSE s
<1>1. fb' = t.f /\ con'.row = t.row /\ con'.col = t.col /\ page' = q
  BY DEF Write, console_putc
<1>2. /\ row \in Nat /\ page.col \in 0 .. C /\ Shows(fb, page.f, row)
      /\ con.row = y /\ con.col = page.col
      /\ page = [f |-> page.f, row |-> row, col |-> page.col]
  BY DEF ConsoleInv
<1>3. InStep(s, q, row)
  <2> DEFINE x == page.col
             P == page.f
  <2>1. /\ s = Put([f |-> fb, row |-> y, col |-> x], c, g, fb_draw_char_bitmap)
        /\ q = Put([f |-> P, row |-> row, col |-> x], c, g, OnPage)
    BY <1>2
  <2>2. x \in 0 .. C /\ Shows(fb, P, row)
    BY <1>2
  <2> HIDE DEF s, q, x, P, g, row
  <2> QED BY <1>2, <2>1, <2>2, PutInStep
<1>4. y \in 0 .. (R - 1)
  BY <1>2, ScreenFacts DEF Top
<1>5. /\ s = [f |-> s.f, row |-> s.row, col |-> s.col] /\ q = [f |-> q.f, row |-> q.row, col |-> q.col]
      /\ Shows(s.f, q.f, row) /\ q.col \in 0 .. C /\ s.col = q.col
  BY <1>3 DEF InStep
<1> HIDE DEF s, q, row
<1>6. CASE s.row = y /\ q.row = row
  <2>1. t = s
    BY <1>4, <1>6, ScreenFacts DEF R
  <2> HIDE DEF t
  <2> QED BY <1>1, <1>2, <1>5, <1>6, <2>1 DEF ConsoleInv
<1>7. CASE s.row = y + 1 /\ q.row = row + 1
  <2> DEFINE G == IF y + 1 >= R THEN fb_scroll_up(s.f) ELSE s.f
  <2>1. Shows(G, q.f, row + 1)
    BY <1>2, <1>5, NextLineShows
  <2>2. t.f = G /\ t.col = s.col /\ t.row = IF y + 1 >= R THEN R - 1 ELSE y + 1
    <3>1. CASE y + 1 >= R
      <4>1. t = [s EXCEPT !.f = fb_scroll_up(@), !.row = CONSOLE_ROWS - 1]
        BY <1>7, <3>1 DEF R, console_scroll
      <4>2. t = [f |-> fb_scroll_up(s.f), row |-> R - 1, col |-> s.col]
        BY <1>5, <4>1 DEF R
      <4> HIDE DEF t
      <4> QED BY <3>1, <4>2
    <3>2. CASE ~(y + 1 >= R)
      BY <1>7, <3>2 DEF R
    <3> QED BY <3>1, <3>2
  <2>3. t.row = (row + 1) - Top(row + 1)
    <3> HIDE DEF t
    <3> QED BY <1>2, <2>2, ScreenFacts DEF Top
  <2> HIDE DEF t, G
  <2> QED BY <1>1, <1>2, <1>5, <1>7, <2>1, <2>2, <2>3 DEF ConsoleInv
<1>8. (s.row = y /\ q.row = row) \/ (s.row = y + 1 /\ q.row = row + 1)
  BY <1>3 DEF InStep
<1> QED BY <1>6, <1>7, <1>8

\* Only Text writes.
LEMMA ConsoleInvStep == ConsoleInv /\ [Next]_deviceVars => ConsoleInv'
<1> SUFFICES ASSUME ConsoleInv, [Next]_deviceVars PROVE ConsoleInv'
  OBVIOUS
<1>1. CASE Text
  BY <1>1, WriteStep DEF Text
<1>2. CASE UNCHANGED consoleVars
  BY <1>2 DEF consoleVars, ConsoleInv
<1>3. Text \/ UNCHANGED consoleVars
  BY DEF Next, System, Act, deviceVars, consoleVars
<1> QED BY <1>1, <1>2, <1>3

(***************************************************************************)
(* For every geometry, after any text: the console shows the last          *)
(* CONSOLE_ROWS lines of what an endless page would hold, the cursor where *)
(* it would be, and nothing of what has scrolled away.                     *)
(***************************************************************************)
THEOREM ScreenShowsTailHolds == Spec => []ScreenShowsTail
<1>1. ConsoleInv => ScreenShowsTail
  <2> SUFFICES ASSUME ConsoleInv PROVE ScreenShowsTail
    OBVIOUS
  <2> DEFINE top == Top(page.row)
  <2>1. /\ con.row = page.row - top /\ con.col = page.col /\ Shows(fb, page.f, page.row)
        /\ page.row \in Nat
    BY DEF ConsoleInv
  <2>2. ASSUME NEW p \in DOMAIN page.f, p[1] >= top, p[2] < FbCols
        PROVE  fb[p[1] - top][p[2]] = page.f[p]
    <3>1. PICK r \in 0 .. page.row, k \in 0 .. C : p = <<r, k>>
      BY <2>1 DEF Shows
    <3>2. p[1] = r /\ p[2] = k
      BY <3>1
    <3>3. On(page.f, r, k) /\ r >= top /\ k < FbCols
      BY <2>2, <3>1, <3>2 DEF On
    <3>4. fb[r - top][k] = page.f[<<r, k>>]
      BY <2>1, <3>3 DEF Shows
    <3> QED BY <3>1, <3>2, <3>4
  <2>3. ASSUME NEW r \in 0 .. R - 1, NEW k \in 0 .. C - 1, <<top + r, k>> \notin DOMAIN page.f
        PROVE  fb[r][k] \in {Blank, FirmwareJunk}
    BY <2>1, <2>3 DEF Shows, On, Nothing
  <2>4. top = IF page.row < CONSOLE_ROWS THEN 0 ELSE page.row - CONSOLE_ROWS + 1
    BY DEF Top, R
  <2> HIDE DEF top
  <2> QED BY <2>1, <2>2, <2>3, <2>4 DEF ScreenShowsTail, R, C
<1> QED BY <1>1, ConsoleInvInit, ConsoleInvStep, PTL DEF Spec

----------------------------------------------------------------------------
(* A ring of N slots, between a handler and a reader *)

\* Indices of a ring are sums below twice its size.
LEMMA RingIndex ==
  ASSUME NEW n \in Nat \ {0}
  PROVE  \A a \in 0 .. (2 * n - 1) : a % n = IF a < n THEN a ELSE a - n
<1> SUFFICES ASSUME NEW a \in 0 .. (2 * n - 1) PROVE a % n = IF a < n THEN a ELSE a - n
  OBVIOUS
<1>1. CASE a < n
  BY <1>1
<1>2. CASE a >= n
  <2>1. a - n \in 0 .. (n - 1) /\ a = 1 * n + (a - n)
    BY <1>2
  <2> QED BY <2>1, <1>2
<1> QED BY <1>1, <1>2

Used(N, q) == (q.head + N - q.tail) % N

Ring(N, q) == /\ q.head \in 0 .. (N - 1) /\ q.tail \in 0 .. (N - 1)
              /\ DOMAIN q.buf = 0 .. (N - 1)

\* The i-th entry that has come out of the ring or is in it.
EntryAt(N, out, q, i) ==
  IF i <= Len(out) THEN out[i] ELSE q.buf[(q.tail + (i - Len(out) - 1)) % N]
Entries(N, out, q) == Len(out) + Used(N, q)

\* How many entries are in the ring, without a remainder.
LEMMA UsedValue ==
  ASSUME NEW N \in Nat \ {0, 1}, NEW q, q.head \in 0 .. (N - 1), q.tail \in 0 .. (N - 1)
  PROVE  /\ Used(N, q) = IF q.head >= q.tail THEN q.head - q.tail ELSE q.head + N - q.tail
         /\ Used(N, q) \in 0 .. (N - 1)
         /\ Full(q, N) <=> Used(N, q) = N - 1
         /\ Pending(q) <=> Used(N, q) > 0
<1> DEFINE h == q.head
           t == q.tail
<1>0. h \in 0 .. (N - 1) /\ t \in 0 .. (N - 1) /\ N \in Nat /\ N >= 2
  OBVIOUS
<1> HIDE DEF h, t
<1>1. h + N - t \in 0 .. (2 * N - 1) /\ h + 1 \in 0 .. (2 * N - 1)
  BY <1>0
<1>A. N \in Nat \ {0}
  BY <1>0
<1>2. (h + N - t) % N = IF h + N - t < N THEN h + N - t ELSE (h + N - t) - N
  BY <1>1, <1>A, RingIndex
<1>3. (h + 1) % N = IF h + 1 < N THEN h + 1 ELSE (h + 1) - N
  BY <1>1, <1>A, RingIndex
<1>4. (h + N - t) % N = IF h >= t THEN h - t ELSE h + N - t
  BY <1>0, <1>2
<1>5. (h + N - t) % N \in 0 .. (N - 1)
  BY <1>0, <1>4
<1>6. (h + 1) % N = t <=> (h + N - t) % N = N - 1
  BY <1>0, <1>3, <1>4
<1>7. h # t <=> (h + N - t) % N > 0
  BY <1>0, <1>4
<1> QED BY <1>4, <1>5, <1>6, <1>7 DEF h, t, Used, Full, Pending

\* The slot of an entry in the ring is not the one the next goes to.
LEMMA EntrySlot ==
  ASSUME NEW N \in Nat \ {0, 1}, NEW q, q.head \in 0 .. (N - 1), q.tail \in 0 .. (N - 1),
         NEW j \in 0 .. (N - 1)
  PROVE  /\ (q.tail + j) % N \in 0 .. (N - 1)
         /\ j < Used(N, q) => (q.tail + j) % N # q.head
         /\ j = Used(N, q) => (q.tail + j) % N = q.head
<1> DEFINE h == q.head
           t == q.tail
           c == Used(N, q)
<1>0. h \in 0 .. (N - 1) /\ t \in 0 .. (N - 1) /\ N \in Nat /\ N >= 2
      /\ c = IF h >= t THEN h - t ELSE h + N - t
  BY UsedValue
<1> HIDE DEF h, t, c
<1>1. t + j \in 0 .. (2 * N - 1) /\ N \in Nat \ {0}
  BY <1>0
<1>2. (t + j) % N = IF t + j < N THEN t + j ELSE (t + j) - N
  BY <1>1, RingIndex
<1>3. (t + j) % N \in 0 .. (N - 1)
  BY <1>0, <1>2
<1>4. j < c => (t + j) % N # h
  BY <1>0, <1>2
<1>5. j = c => (t + j) % N = h
  BY <1>0, <1>2
<1> QED BY <1>3, <1>4, <1>5 DEF h, t, c

\* q2 holds what q holds, and v behind it.
PutIn(N, out, q, q2, v) ==
  /\ Ring(N, q2) /\ Used(N, q2) = Used(N, q) + 1
  /\ \A i \in 1 .. Entries(N, out, q) : EntryAt(N, out, q2, i) = EntryAt(N, out, q, i)
  /\ EntryAt(N, out, q2, Entries(N, out, q) + 1) = v
  /\ q2.tail = q.tail
  /\ Used(N, q) > 0 => q2.buf[q2.tail] = q.buf[q.tail]

\* An entry put in a ring that is not full.
LEMMA PutAtHead ==
  ASSUME NEW N \in Nat \ {0, 1}, NEW out, Len(out) \in Nat, NEW q, Ring(N, q), ~Full(q, N), NEW v,
         NEW q2, q2.buf = [q.buf EXCEPT ![q.head] = v], q2.head = (q.head + 1) % N, q2.tail = q.tail
  PROVE  PutIn(N, out, q, q2, v)
<1> DEFINE h == q.head
           t == q.tail
           c == Used(N, q)
           L == Len(out)
<1>0. /\ h \in 0 .. (N - 1) /\ t \in 0 .. (N - 1) /\ N \in Nat /\ N >= 2
      /\ DOMAIN q.buf = 0 .. (N - 1) /\ L \in Nat
  BY DEF Ring
<1>1. c = (IF h >= t THEN h - t ELSE h + N - t) /\ c \in 0 .. (N - 2) /\ (h # t <=> c > 0)
  <2>1. /\ c = (IF h >= t THEN h - t ELSE h + N - t) /\ c \in 0 .. (N - 1)
        /\ (Full(q, N) <=> c = N - 1) /\ (Pending(q) <=> c > 0)
    BY <1>0, UsedValue
  <2> HIDE DEF c, h, t
  <2> QED BY <1>0, <2>1 DEF Pending, h, t
<1> DEFINE b2 == [q.buf EXCEPT ![h] = v]
           h2 == (h + 1) % N
<1>4. q2.buf = b2 /\ q2.head = h2 /\ q2.tail = t
  OBVIOUS
<1>5. /\ DOMAIN b2 = 0 .. (N - 1) /\ b2[h] = v
      /\ \A s \in 0 .. (N - 1) : s # h => b2[s] = q.buf[s]
  BY <1>0
<1>6. h2 = IF h + 1 < N THEN h + 1 ELSE 0
  <2>1. h + 1 \in 0 .. (2 * N - 1) /\ N \in Nat \ {0}
    BY <1>0
  <2>2. h2 = IF h + 1 < N THEN h + 1 ELSE (h + 1) - N
    BY <2>1, RingIndex
  <2> QED BY <1>0, <2>2
<1>7. h2 \in 0 .. (N - 1)
  <2> HIDE DEF h2
  <2> QED BY <1>0, <1>6
<1> HIDE DEF h2, b2
<1>8. Ring(N, q2)
  BY <1>0, <1>4, <1>5, <1>7 DEF Ring
<1>9. Used(N, q2) = c + 1
  <2>1. Used(N, q2) = IF q2.head >= q2.tail THEN q2.head - q2.tail ELSE q2.head + N - q2.tail
    BY <1>8, UsedValue DEF Ring
  <2>2. Used(N, q2) = IF h2 >= t THEN h2 - t ELSE h2 + N - t
    BY <1>4, <2>1
  <2> HIDE DEF c, h, t
  <2> QED BY <1>0, <1>1, <1>6, <2>2
<1>10. ASSUME NEW i \in 1 .. (L + c) PROVE EntryAt(N, out, q2, i) = EntryAt(N, out, q, i)
  <2>1. CASE i <= L
    BY <2>1 DEF EntryAt
  <2>2. CASE ~(i <= L)
    <3> DEFINE j == i - L - 1
    <3>1. j \in 0 .. (N - 1) /\ j < c
      <4> HIDE DEF c, L
      <4> QED BY <1>0, <1>1, <2>2
    <3>2. (t + j) % N \in 0 .. (N - 1) /\ (t + j) % N # h
      <4> HIDE DEF j
      <4> QED BY <1>0, <3>1, EntrySlot
    <3>3. b2[(t + j) % N] = q.buf[(t + j) % N]
      <4> HIDE DEF j
      <4> QED BY <1>5, <3>2
    <3> QED BY <1>4, <2>2, <3>3 DEF EntryAt
  <2> QED BY <2>1, <2>2
<1>11. EntryAt(N, out, q2, (L + c) + 1) = v
  <2>1. ~((L + c) + 1 <= L) /\ ((L + c) + 1) - L - 1 = c /\ c \in 0 .. (N - 1)
    <3>1. L \in Nat /\ c \in Nat /\ c \in 0 .. (N - 1)
      <4> HIDE DEF c, L
      <4> QED BY <1>0, <1>1
    <3> HIDE DEF c, L
    <3> QED BY <3>1
  <2>2. (t + c) % N = h
    <3>1. \A j \in 0 .. (N - 1) : j = c => (t + j) % N = h
      BY <1>0, EntrySlot
    <3> HIDE DEF c, t, h
    <3> QED BY <2>1, <3>1
  <2> HIDE DEF c
  <2> QED BY <1>4, <1>5, <2>1, <2>2 DEF EntryAt
<1>12. c > 0 => q2.buf[q2.tail] = q.buf[q.tail]
  BY <1>0, <1>1, <1>4, <1>5
<1> QED BY <1>4, <1>8, <1>9, <1>10, <1>11, <1>12 DEF PutIn, Entries

\* q2 holds what q holds but its first entry, which is the last of out2.
Got(N, out, q, out2, q2) ==
  /\ Ring(N, q2) /\ Len(out2) = Len(out) + 1 /\ Entries(N, out2, q2) = Entries(N, out, q)
  /\ \A i \in 1 .. Entries(N, out, q) : EntryAt(N, out2, q2, i) = EntryAt(N, out, q, i)

TakeIndex(N, L, M, c, t, t2, i) ==
  /\ M + (c - 1) = L + c
  /\ i <= L => i <= M /\ i \in 1 .. L
  /\ i = M => ~(i <= L) /\ (t + (i - L - 1)) % N = t
  /\ i > M => ~(i <= L) /\ (t2 + (i - M - 1)) % N = (t + (i - L - 1)) % N

\* Positions before and after the tail has moved.
LEMMA TakeArith ==
  ASSUME NEW N \in Nat \ {0, 1}, NEW L \in Nat, NEW c \in 1 .. (N - 1), NEW t \in 0 .. (N - 1),
         NEW t2, t2 = (IF t + 1 < N THEN t + 1 ELSE 0), NEW i \in 1 .. (L + c),
         NEW M, M = L + 1
  PROVE  TakeIndex(N, L, M, c, t, t2, i)
<1>0. N \in Nat /\ N >= 2 /\ N \in Nat \ {0}
  OBVIOUS
<1>1. M + (c - 1) = L + c
  BY <1>0
<1>2. i <= L => i <= M /\ i \in 1 .. L
  BY <1>0
<1>3. ASSUME i = M PROVE (t + (i - L - 1)) % N = t
  <2>1. t + (i - L - 1) = t /\ t \in 0 .. (2 * N - 1) /\ t < N
    BY <1>0, <1>3
  <2>2. t % N = t
    BY <1>0, <2>1, RingIndex
  <2> QED BY <2>1, <2>2
<1>4. ASSUME i > M PROVE (t2 + (i - M - 1)) % N = (t + (i - L - 1)) % N
  <2> DEFINE j == i - L - 1
             k == i - M - 1
  <2>1. k = j - 1 /\ j \in 1 .. (N - 1)
    BY <1>0, <1>4
  <2> HIDE DEF j, k
  <2>2. t + j \in 0 .. (2 * N - 1) /\ t2 + k \in 0 .. (2 * N - 1)
    BY <1>0, <2>1
  <2>3. /\ (t + j) % N = IF t + j < N THEN t + j ELSE (t + j) - N
        /\ (t2 + k) % N = IF t2 + k < N THEN t2 + k ELSE (t2 + k) - N
    BY <1>0, <2>2, RingIndex
  <2>4. (t2 + k) % N = (t + j) % N
    BY <1>0, <2>1, <2>3
  <2> QED BY <2>4 DEF j, k
<1> QED BY <1>0, <1>1, <1>2, <1>3, <1>4 DEF TakeIndex

\* The reader moves the tail.
LEMMA GotFromTail ==
  ASSUME NEW N \in Nat \ {0, 1}, NEW out, Len(out) \in Nat, NEW q, Ring(N, q), Used(N, q) > 0,
         NEW out2, Len(out2) = Len(out) + 1, out2[Len(out) + 1] = q.buf[q.tail],
         \A i \in 1 .. Len(out) : out2[i] = out[i],
         NEW q2, q2.buf = q.buf, q2.head = q.head, q2.tail = (q.tail + 1) % N
  PROVE  Got(N, out, q, out2, q2)
<1> DEFINE h == q.head
           t == q.tail
           c == Used(N, q)
           L == Len(out)
           t2 == (t + 1) % N
           L2 == Len(out2)
<1>0. /\ h \in 0 .. (N - 1) /\ t \in 0 .. (N - 1) /\ N \in Nat /\ N >= 2
      /\ DOMAIN q.buf = 0 .. (N - 1) /\ L \in Nat
  BY DEF Ring
<1>1. c = (IF h >= t THEN h - t ELSE h + N - t) /\ c \in 1 .. (N - 1)
  <2>1. c = (IF h >= t THEN h - t ELSE h + N - t) /\ c \in 0 .. (N - 1) /\ c > 0
    BY <1>0, UsedValue
  <2> HIDE DEF c, h, t
  <2> QED BY <1>0, <2>1
<1>3. q2.buf = q.buf /\ q2.head = h /\ q2.tail = t2
  OBVIOUS
<1>4. t2 = IF t + 1 < N THEN t + 1 ELSE 0
  <2>1. t + 1 \in 0 .. (2 * N - 1) /\ N \in Nat \ {0}
    BY <1>0
  <2>2. t2 = IF t + 1 < N THEN t + 1 ELSE (t + 1) - N
    BY <2>1, RingIndex
  <2> QED BY <1>0, <2>2
<1> HIDE DEF t2
<1>5. t2 \in 0 .. (N - 1)
  BY <1>0, <1>4
<1>6. Ring(N, q2)
  BY <1>0, <1>3, <1>5 DEF Ring
<1>7. Used(N, q2) = c - 1
  <2>1. Used(N, q2) = IF q2.head >= q2.tail THEN q2.head - q2.tail ELSE q2.head + N - q2.tail
    BY <1>6, UsedValue DEF Ring
  <2>2. Used(N, q2) = IF h >= t2 THEN h - t2 ELSE h + N - t2
    BY <1>3, <2>1
  <2> HIDE DEF c, h, t
  <2> QED BY <1>0, <1>1, <1>4, <2>2
<1>L. L2 = L + 1 /\ L2 \in Nat
  BY <1>0
<1> HIDE DEF L2
<1>8. ASSUME NEW i \in 1 .. (L + c) PROVE EntryAt(N, out2, q2, i) = EntryAt(N, out, q, i) /\ L2 + (c - 1) = L + c
  <2>1. /\ L2 + (c - 1) = L + c
        /\ i <= L => i <= L2 /\ i \in 1 .. L
        /\ i = L2 => ~(i <= L) /\ (t + (i - L - 1)) % N = t
        /\ i > L2 => ~(i <= L) /\ (t2 + (i - L2 - 1)) % N = (t + (i - L - 1)) % N
    <3> HIDE DEF c, L, t
    <3>1. TakeIndex(N, L, L2, c, t, t2, i)
      BY <1>0, <1>1, <1>4, <1>L, TakeArith
    <3> QED BY <3>1 DEF TakeIndex
  <2>2. CASE i <= L
    BY <2>1, <2>2 DEF EntryAt, L2
  <2>3. CASE i = L2
    BY <1>3, <2>1, <2>3 DEF EntryAt, L2
  <2>4. CASE i > L2
    <3>1. ~(i <= L2)
      BY <1>L, <2>4
    <3> QED BY <1>3, <2>1, <2>4, <3>1 DEF EntryAt, L2
  <2>5. i <= L \/ i = L2 \/ i > L2
    <3> HIDE DEF c, L
    <3> QED BY <1>0, <1>1, <1>L
  <2> QED BY <2>1, <2>2, <2>3, <2>4, <2>5
<1>9. L2 + (c - 1) = L + c
  <2>1. 1 \in 1 .. (L + c)
    <3> HIDE DEF c, L
    <3> QED BY <1>0, <1>1
  <2> QED BY <1>8, <2>1
<1> QED BY <1>3, <1>6, <1>7, <1>8, <1>9 DEF Got, Entries, L2

IsSeq(s) == \E S : s \in Seq(S)

\* Sequences of anything.
LEMMA SeqFacts ==
  ASSUME NEW s, IsSeq(s)
  PROVE  /\ Len(s) \in Nat /\ DOMAIN s = 1 .. Len(s)
         /\ \A x : /\ IsSeq(Append(s, x)) /\ Len(Append(s, x)) = Len(s) + 1
                   /\ Append(s, x)[Len(s) + 1] = x
                   /\ \A i \in 1 .. Len(s) : Append(s, x)[i] = s[i]
<1>1. PICK S : s \in Seq(S)
  BY DEF IsSeq
<1>2. ASSUME NEW x
      PROVE  /\ IsSeq(Append(s, x)) /\ Len(Append(s, x)) = Len(s) + 1
             /\ Append(s, x)[Len(s) + 1] = x
             /\ \A i \in 1 .. Len(s) : Append(s, x)[i] = s[i]
  <2>1. s \in Seq(S \cup {x}) /\ x \in S \cup {x}
    BY <1>1
  <2>2. Append(s, x) \in Seq(S \cup {x})
    BY <2>1
  <2>3. /\ Len(Append(s, x)) = Len(s) + 1 /\ Append(s, x)[Len(s) + 1] = x
        /\ \A i \in 1 .. Len(s) : Append(s, x)[i] = s[i]
    BY <2>1
  <2> QED BY <2>2, <2>3 DEF IsSeq
<1> QED BY <1>1, <1>2

\* The rest of a sequence.
LEMMA SeqRest ==
  ASSUME NEW s, IsSeq(s), s # <<>>
  PROVE  /\ IsSeq(Tail(s)) /\ Len(Tail(s)) = Len(s) - 1 /\ Len(s) \in Nat /\ Len(s) >= 1
         /\ Head(s) = s[1] /\ \A i \in 1 .. Len(Tail(s)) : Tail(s)[i] = s[i + 1]
<1>1. PICK S : s \in Seq(S)
  BY DEF IsSeq
<1>2. Tail(s) \in Seq(S) /\ Len(Tail(s)) = Len(s) - 1 /\ Len(s) \in Nat /\ Len(s) >= 1
  BY <1>1
<1>3. Head(s) = s[1] /\ \A i \in 1 .. Len(Tail(s)) : Tail(s)[i] = s[i + 1]
  BY <1>1
<1> QED BY <1>2, <1>3 DEF IsSeq

----------------------------------------------------------------------------
(* Codes between the keyboard and its handler *)

\* K is the T entries that came out of a ring or are in it.
AreEntries(N, out, q, K, T) ==
  /\ T \in Nat /\ IsSeq(K) /\ Len(K) = T /\ Len(out) \in Nat /\ Used(N, q) \in 0 .. (N - 1)
  /\ \A i \in 1 .. T : K[i] = EntryAt(N, out, q, i)

\* What came out of a ring and what is in it, one behind the other.
LEMMA SoFarEntries ==
  ASSUME NEW N \in Nat \ {0, 1}, NEW out, IsSeq(out), NEW q, Ring(N, q),
         NEW K, K = out \o Contents(q, N), NEW T, T = Entries(N, out, q)
  PROVE  AreEntries(N, out, q, K, T)
<1> DEFINE c == Contents(q, N)
           m == Used(N, q)
           L == Len(out)
<1>1. c = [i \in 1 .. m |-> q.buf[(q.tail + (i - 1)) % N]]
  BY DEF Contents, Used
<1>2. m \in 0 .. (N - 1) /\ m \in Nat /\ T = L + m /\ L \in Nat
  BY UsedValue, SeqFacts DEF Ring, Entries
<1> HIDE DEF m
<1>3. IsSeq(c) /\ Len(c) = m /\ \A i \in 1 .. m : c[i] = q.buf[(q.tail + (i - 1)) % N]
  <2> DEFINE S == {q.buf[(q.tail + (i - 1)) % N] : i \in 1 .. m}
  <2>1. c \in [1 .. m -> S]
    BY <1>1
  <2>2. c \in Seq(S)
    BY <1>2, <2>1, SeqDef
  <2> HIDE DEF c
  <2>3. Len(c) \in Nat /\ DOMAIN c = 1 .. Len(c) /\ DOMAIN c = 1 .. m
    BY <2>1, <2>2, LenProperties
  <2>4. Len(c) = m
    <3>1. \A a, b \in Nat : 1 .. a = 1 .. b => a = b
      OBVIOUS
    <3> QED BY <1>2, <2>3, <3>1
  <2>5. IsSeq(c)
    BY <2>2 DEF IsSeq
  <2> QED BY <1>1, <2>4, <2>5
<1> HIDE DEF c
<1>4. PICK S1 : out \in Seq(S1)
  BY DEF IsSeq
<1>5. PICK S2 : c \in Seq(S2)
  BY <1>3 DEF IsSeq
<1>6. out \in Seq(S1 \cup S2) /\ c \in Seq(S1 \cup S2)
  BY <1>4, <1>5
<1>7. /\ out \o c \in Seq(S1 \cup S2) /\ Len(out \o c) = Len(out) + Len(c)
      /\ \A i \in 1 .. Len(out) + Len(c) : (out \o c)[i] =
            IF i <= Len(out) THEN out[i] ELSE c[i - Len(out)]
  BY <1>6, ConcatProperties
<1>8. K = out \o c
  BY DEF c
<1> HIDE DEF L
<1>9. Len(K) = T /\ \A i \in 1 .. T : K[i] = IF i <= L THEN out[i] ELSE c[i - L]
  BY <1>2, <1>3, <1>7, <1>8 DEF L
<1>10. ASSUME NEW i \in 1 .. T
       PROVE  K[i] = EntryAt(N, out, q, i)
  <2>1. CASE i <= L
    BY <1>9, <2>1 DEF EntryAt, L
  <2>2. CASE ~(i <= L)
    <3>1. i - L \in 1 .. m /\ (i - L) - 1 = i - L - 1
      BY <1>2, <2>2
    <3>2. c[i - L] = q.buf[(q.tail + ((i - L) - 1)) % N]
      BY <1>3, <3>1
    <3> QED BY <1>9, <2>2, <3>1, <3>2 DEF EntryAt, L
  <2> QED BY <2>1, <2>2
<1>11. IsSeq(K)
  BY <1>7, <1>8 DEF IsSeq
<1> QED BY <1>2, <1>9, <1>10, <1>11 DEF m, L, AreEntries

----------------------------------------------------------------------------
(* The ring of the keyboard *)

Size == KB_BUF_SIZE
Cnt(q) == Used(Size, q)

\* The ring has two slots at least: KB_BUF_SIZE.
LEMMA SizeFacts == Size \in Nat /\ Size >= 2 /\ Size \in Nat \ {0, 1}
BY RingAssumption DEF Size

RingOK(q) ==
  /\ q = [buf |-> q.buf, head |-> q.head, tail |-> q.tail,
          shift_held |-> q.shift_held, caps_lock |-> q.caps_lock]
  /\ Ring(Size, q)

\* The i-th character that has come out of the ring or is in it.
KeyAt(keys, q, i) == EntryAt(Size, keys, q, i)
Total(keys, q) == Len(keys) + Cnt(q)

\* How many characters are in the ring.
LEMMA CntValue ==
  ASSUME NEW q, q.head \in 0 .. (Size - 1), q.tail \in 0 .. (Size - 1)
  PROVE  /\ Cnt(q) = IF q.head >= q.tail THEN q.head - q.tail ELSE q.head + Size - q.tail
         /\ Cnt(q) \in 0 .. (Size - 1)
         /\ Full(q, Size) <=> Cnt(q) = Size - 1
         /\ Pending(q) <=> Cnt(q) > 0
BY SizeFacts, UsedValue DEF Cnt

\* q2 holds what q holds, and v behind it.
Added(keys, q, q2, v) ==
  /\ RingOK(q2) /\ Cnt(q2) = Cnt(q) + 1
  /\ \A i \in 1 .. Total(keys, q) : KeyAt(keys, q2, i) = KeyAt(keys, q, i)
  /\ KeyAt(keys, q2, Total(keys, q) + 1) = v
  /\ q2.tail = q.tail /\ q2.shift_held = q.shift_held /\ q2.caps_lock = q.caps_lock
  /\ Cnt(q) > 0 => q2.buf[q2.tail] = q.buf[q.tail]

\* kb_enqueue in a ring that is not full.
LEMMA EnqueueAdds ==
  ASSUME NEW keys, Len(keys) \in Nat, NEW q, RingOK(q), ~Full(q, Size), NEW v,
         NEW q2, q2 = Enqueued(q, Size, v)
  PROVE  Added(keys, q, q2, v)
<1> DEFINE b2 == [q.buf EXCEPT ![q.head] = v]
           h2 == (q.head + 1) % Size
<1>1. q2 = [q EXCEPT !.buf[q.head] = v, !.head = (@ + 1) % Size]
  BY DEF Enqueued
<1>2. q2 = [buf |-> b2, head |-> h2, tail |-> q.tail,
            shift_held |-> q.shift_held, caps_lock |-> q.caps_lock]
  BY <1>1 DEF RingOK
<1>3. /\ q2.buf = b2 /\ q2.head = h2 /\ q2.tail = q.tail
      /\ q2.shift_held = q.shift_held /\ q2.caps_lock = q.caps_lock
  BY <1>2
<1>4. PutIn(Size, keys, q, q2, v)
  <2>1. Ring(Size, q) /\ Size \in Nat \ {0, 1}
    BY SizeFacts DEF RingOK
  <2> QED BY <1>3, <2>1, PutAtHead
<1>5. RingOK(q2)
  BY <1>2, <1>3, <1>4 DEF RingOK, PutIn
<1> QED BY <1>3, <1>4, <1>5 DEF PutIn, Added, Cnt, KeyAt, Total, Entries

\* q2 holds what q holds but its first character, which is the last of keys2.
Taken(keys, q, keys2, q2) ==
  /\ RingOK(q2) /\ Len(keys2) = Len(keys) + 1 /\ Total(keys2, q2) = Total(keys, q)
  /\ \A i \in 1 .. Total(keys, q) : KeyAt(keys2, q2, i) = KeyAt(keys, q, i)
  /\ q2.shift_held = q.shift_held /\ q2.caps_lock = q.caps_lock

\* kb_getc moves the tail.
LEMMA DequeueTakes ==
  ASSUME NEW keys, Len(keys) \in Nat, NEW q, RingOK(q), Cnt(q) > 0,
         NEW keys2, Len(keys2) = Len(keys) + 1, keys2[Len(keys) + 1] = q.buf[q.tail],
         \A i \in 1 .. Len(keys) : keys2[i] = keys[i],
         NEW q2, q2 = [q EXCEPT !.tail = (@ + 1) % Size]
  PROVE  Taken(keys, q, keys2, q2)
<1> DEFINE t2 == (q.tail + 1) % Size
<1>1. q2 = [buf |-> q.buf, head |-> q.head, tail |-> t2,
            shift_held |-> q.shift_held, caps_lock |-> q.caps_lock]
  BY DEF RingOK
<1>2. /\ q2.buf = q.buf /\ q2.head = q.head /\ q2.tail = t2
      /\ q2.shift_held = q.shift_held /\ q2.caps_lock = q.caps_lock
  BY <1>1
<1>3. Got(Size, keys, q, keys2, q2)
  <2>1. Ring(Size, q) /\ Used(Size, q) > 0 /\ Size \in Nat \ {0, 1}
    BY SizeFacts DEF RingOK, Cnt
  <2> QED BY <1>2, <2>1, GotFromTail
<1>4. RingOK(q2)
  BY <1>1, <1>2, <1>3 DEF RingOK, Got
<1> QED BY <1>2, <1>3, <1>4 DEF Got, Taken, Cnt, KeyAt, Total, Entries

\* What a code makes of the modifiers and of the number of characters so far.
After(s, code) ==
  [n     |-> IF code = "letter" THEN s.n + 1 ELSE s.n,
   shift |-> IF code = "shift" THEN TRUE ELSE IF code = "shift_up" THEN FALSE ELSE s.shift,
   caps  |-> IF code = "caps" THEN ~s.caps ELSE s.caps]

\* The code b is the next one for a driver in state s.
Fits(s, b, typed) ==
  /\ b.code \in Codes
  /\ b.code = "letter" =>
       /\ b.n = s.n + 1 /\ s.n + 1 \in 1 .. Len(typed)
       /\ typed[s.n + 1] = [n |-> s.n + 1, upper |-> s.shift # s.caps]

\* The codes in W take a driver from state s to state u.
InFlight(W, s, u, typed) ==
  /\ IsSeq(W)
  /\ \E st : /\ st[0] = s /\ st[Len(W)] = u
             /\ \A i \in 1 .. Len(W) : st[i] = After(st[i - 1], W[i].code) /\ Fits(st[i - 1], W[i], typed)

\* Nothing is in flight.
LEMMA FlightEmpty ==
  ASSUME NEW u, NEW typed
  PROVE  InFlight(<<>>, u, u, typed)
<1> DEFINE st == [i \in 0 .. 0 |-> u]
<1>1. IsSeq(<<>>) /\ Len(<<>>) = 0
  <2>1. <<>> \in Seq({})
    OBVIOUS
  <2> QED BY <2>1 DEF IsSeq
<1>2. st[0] = u /\ st[Len(<<>>)] = u
  BY <1>1
<1>3. \A i \in 1 .. Len(<<>>) : st[i] = After(st[i - 1], <<>>[i].code) /\ Fits(st[i - 1], <<>>[i], typed)
  BY <1>1
<1> HIDE DEF st
<1> QED BY <1>1, <1>2, <1>3 DEF InFlight

\* The controller takes the first code.
LEMMA FlightHead ==
  ASSUME NEW W, W # <<>>, NEW s, NEW u, NEW typed, InFlight(W, s, u, typed)
  PROVE  Fits(s, Head(W), typed) /\ InFlight(Tail(W), After(s, Head(W).code), u, typed)
<1>1. PICK st : /\ st[0] = s /\ st[Len(W)] = u
                /\ \A i \in 1 .. Len(W) : /\ st[i] = After(st[i - 1], W[i].code)
                                          /\ Fits(st[i - 1], W[i], typed)
  BY DEF InFlight
<1>2. /\ IsSeq(Tail(W)) /\ Len(Tail(W)) = Len(W) - 1 /\ Len(W) \in Nat /\ Len(W) >= 1
      /\ Head(W) = W[1] /\ \A i \in 1 .. Len(Tail(W)) : Tail(W)[i] = W[i + 1]
  BY SeqRest DEF InFlight
<1>3. 1 \in 1 .. Len(W) /\ 1 - 1 = 0
  BY <1>2
<1>4. Fits(s, Head(W), typed) /\ st[1] = After(s, Head(W).code)
  BY <1>1, <1>2, <1>3
<1> DEFINE m == Len(W) - 1
           sh == [i \in 0 .. m |-> st[i + 1]]
<1>5. m \in Nat /\ m + 1 = Len(W)
  BY <1>2
<1> HIDE DEF m
<1>6. sh[0] = st[1] /\ sh[m] = u
  BY <1>1, <1>5
<1>7. ASSUME NEW i \in 1 .. m
      PROVE  sh[i] = After(sh[i - 1], Tail(W)[i].code) /\ Fits(sh[i - 1], Tail(W)[i], typed)
  <2>1. i + 1 \in 1 .. Len(W) /\ (i + 1) - 1 = i /\ i - 1 \in 0 .. m /\ (i - 1) + 1 = i /\ i \in 0 .. m
    BY <1>5
  <2>2. sh[i] = st[i + 1] /\ sh[i - 1] = st[i]
    BY <2>1
  <2>3. Tail(W)[i] = W[i + 1]
    BY <1>2 DEF m
  <2> HIDE DEF sh
  <2>4. st[i + 1] = After(st[i], W[i + 1].code) /\ Fits(st[i], W[i + 1], typed)
    BY <1>1, <2>1
  <2> QED BY <2>2, <2>3, <2>4
<1> HIDE DEF sh
<1>8. Len(Tail(W)) = m
  BY <1>2 DEF m
<1>9. InFlight(Tail(W), After(s, Head(W).code), u, typed)
  BY <1>2, <1>4, <1>6, <1>7, <1>8 DEF InFlight
<1> QED BY <1>4, <1>9

\* A character more is typed.
LEMMA FitsGrows ==
  ASSUME NEW s, NEW b, NEW typed, IsSeq(typed), NEW x, Fits(s, b, typed)
  PROVE  Fits(s, b, Append(typed, x))
BY SeqFacts DEF Fits

\* And the codes in flight still fit.
LEMMA FlightGrows ==
  ASSUME NEW W, NEW s, NEW u, NEW typed, IsSeq(typed), NEW x, InFlight(W, s, u, typed)
  PROVE  InFlight(W, s, u, Append(typed, x))
<1>1. \A t, b : Fits(t, b, typed) => Fits(t, b, Append(typed, x))
  BY FitsGrows
<1> QED BY <1>1 DEF InFlight

\* A key sends a code.
LEMMA FlightAppend ==
  ASSUME NEW W, NEW s, NEW u, NEW typed, NEW b, InFlight(W, s, u, typed), Fits(u, b, typed)
  PROVE  InFlight(Append(W, b), s, After(u, b.code), typed)
<1>1. PICK st : /\ st[0] = s /\ st[Len(W)] = u
                /\ \A i \in 1 .. Len(W) : /\ st[i] = After(st[i - 1], W[i].code)
                                          /\ Fits(st[i - 1], W[i], typed)
  BY DEF InFlight
<1> DEFINE V == Append(W, b)
           m == Len(W)
           sh == [i \in 0 .. (m + 1) |-> IF i <= m THEN st[i] ELSE After(u, b.code)]
<1>2. /\ m \in Nat /\ IsSeq(V) /\ Len(V) = m + 1 /\ V[m + 1] = b
      /\ \A i \in 1 .. m : V[i] = W[i]
  BY SeqFacts DEF InFlight
<1> HIDE DEF V, m
<1>3. sh[0] = s /\ sh[m + 1] = After(u, b.code) /\ \A i \in 0 .. m : sh[i] = st[i]
  BY <1>1, <1>2
<1> HIDE DEF sh
<1>4. ASSUME NEW i \in 1 .. (m + 1)
      PROVE  sh[i] = After(sh[i - 1], V[i].code) /\ Fits(sh[i - 1], V[i], typed)
  <2>1. CASE i = m + 1
    <3>1. sh[i - 1] = u
      BY <1>1, <1>2, <1>3, <2>1 DEF m
    <3> QED BY <1>2, <1>3, <2>1, <3>1
  <2>2. CASE i # m + 1
    <3>1. i \in 1 .. m /\ i \in 0 .. m /\ i - 1 \in 0 .. m
      BY <1>2, <2>2
    <3>2. st[i] = After(st[i - 1], W[i].code) /\ Fits(st[i - 1], W[i], typed)
      BY <1>1, <3>1 DEF m
    <3> QED BY <1>2, <1>3, <3>1, <3>2
  <2> QED BY <2>1, <2>2
<1>5. InFlight(V, s, After(u, b.code), typed)
  BY <1>2, <1>3, <1>4 DEF InFlight
<1> QED BY <1>5 DEF V

----------------------------------------------------------------------------
(* What is delivered *)

\* All characters that have come out of the ring or are in it.
Out(keys, q) == [i \in 1 .. Total(keys, q) |-> KeyAt(keys, q, i)]

\* Of the first d characters typed, the T of f have been delivered, and one is
\* missing only behind as many as the ring holds.
OutOK(f, T, typed, d) ==
  /\ T \in Nat /\ d \in 0 .. Len(typed)
  /\ \A i \in 1 .. T : f[i].n \in 1 .. d /\ f[i] = typed[f[i].n]
  /\ \A i, j \in 1 .. T : i < j => f[i].n < f[j].n
  /\ \A n \in 1 .. d : \/ \E i \in 1 .. T : f[i].n = n
                       \/ T >= Size - 1 /\ f[Size - 1].n < n

\* The next character is delivered.
LEMMA OutAdds ==
  ASSUME NEW f, NEW T, NEW typed, Len(typed) \in Nat, NEW d, OutOK(f, T, typed, d),
         d + 1 \in 1 .. Len(typed), typed[d + 1].n = d + 1,
         NEW g, \A i \in 1 .. T : g[i] = f[i], g[T + 1] = typed[d + 1]
  PROVE  OutOK(g, T + 1, typed, d + 1)
<1>0. T \in Nat /\ d \in Nat /\ Size \in Nat /\ Size >= 2
  BY SizeFacts DEF OutOK
<1>1. ASSUME NEW i \in 1 .. (T + 1)
      PROVE  g[i].n \in 1 .. (d + 1) /\ g[i] = typed[g[i].n]
  <2>1. CASE i = T + 1
    BY <1>0, <2>1
  <2>2. CASE i \in 1 .. T
    <3>1. f[i].n \in 1 .. d /\ f[i] = typed[f[i].n] /\ g[i] = f[i]
      BY <2>2 DEF OutOK
    <3> QED BY <1>0, <3>1
  <2> QED BY <1>0, <2>1, <2>2
<1>2. ASSUME NEW i \in 1 .. (T + 1), NEW j \in 1 .. (T + 1), i < j PROVE g[i].n < g[j].n
  <2>1. i \in 1 .. T /\ g[i] = f[i]
    BY <1>0, <1>2
  <2>2. CASE j = T + 1
    <3>1. f[i].n \in 1 .. d /\ g[j].n = d + 1
      BY <2>1, <2>2 DEF OutOK
    <3> QED BY <1>0, <2>1, <3>1
  <2>3. CASE j \in 1 .. T
    BY <1>2, <2>1, <2>3 DEF OutOK
  <2> QED BY <1>0, <2>2, <2>3
<1>3. ASSUME NEW n \in 1 .. (d + 1)
      PROVE  \/ \E i \in 1 .. (T + 1) : g[i].n = n
             \/ T + 1 >= Size - 1 /\ g[Size - 1].n < n
  <2>1. CASE n = d + 1
    <3>1. g[T + 1].n = n /\ T + 1 \in 1 .. (T + 1)
      BY <1>0, <2>1
    <3> QED BY <3>1
  <2>2. CASE n \in 1 .. d /\ \E i \in 1 .. T : f[i].n = n
    <3>1. PICK i \in 1 .. T : f[i].n = n
      BY <2>2
    <3>2. i \in 1 .. (T + 1) /\ g[i].n = n
      BY <1>0, <3>1
    <3> QED BY <3>2
  <2>3. CASE n \in 1 .. d /\ T >= Size - 1 /\ f[Size - 1].n < n
    <3>1. Size - 1 \in 1 .. T /\ T + 1 >= Size - 1
      BY <1>0, <2>3
    <3> QED BY <2>3, <3>1
  <2>4. n \in 1 .. d => \/ \E i \in 1 .. T : f[i].n = n
                        \/ T >= Size - 1 /\ f[Size - 1].n < n
    BY DEF OutOK
  <2>5. n = d + 1 \/ n \in 1 .. d
    BY <1>0
  <2> QED BY <2>1, <2>2, <2>3, <2>4, <2>5
<1>4. T + 1 \in Nat /\ d + 1 \in 0 .. Len(typed)
  BY <1>0
<1> QED BY <1>1, <1>2, <1>3, <1>4 DEF OutOK

\* The next character finds the ring full.
LEMMA OutDrops ==
  ASSUME NEW f, NEW T, NEW typed, Len(typed) \in Nat, NEW d, OutOK(f, T, typed, d),
         d + 1 \in 1 .. Len(typed), T >= Size - 1
  PROVE  OutOK(f, T, typed, d + 1)
<1>0. T \in Nat /\ d \in Nat /\ Size \in Nat /\ Size >= 2
  BY SizeFacts DEF OutOK
<1>1. \A i \in 1 .. T : f[i].n \in 1 .. d /\ f[i] = typed[f[i].n]
  BY DEF OutOK
<1>2. \A i \in 1 .. T : f[i].n \in 1 .. (d + 1)
  BY <1>0, <1>1
<1>3. Size - 1 \in 1 .. T
  BY <1>0
<1>4. ASSUME NEW n \in 1 .. (d + 1)
      PROVE  \/ \E i \in 1 .. T : f[i].n = n
             \/ T >= Size - 1 /\ f[Size - 1].n < n
  <2>1. CASE n = d + 1
    BY <1>0, <1>1, <1>3, <2>1
  <2>2. CASE n \in 1 .. d
    BY <2>2 DEF OutOK
  <2> QED BY <1>0, <2>1, <2>2
<1>5. d + 1 \in 0 .. Len(typed)
  BY <1>0
<1> QED BY <1>1, <1>2, <1>4, <1>5 DEF OutOK

\* A character more is typed.
LEMMA OutGrows ==
  ASSUME NEW f, NEW T, NEW typed, IsSeq(typed), NEW d, OutOK(f, T, typed, d), NEW x
  PROVE  OutOK(f, T, Append(typed, x), d)
<1>1. /\ Len(typed) \in Nat /\ Len(Append(typed, x)) = Len(typed) + 1
      /\ \A i \in 1 .. Len(typed) : Append(typed, x)[i] = typed[i]
  BY SeqFacts
<1>2. d \in 0 .. Len(typed) /\ d \in 0 .. Len(Append(typed, x))
  BY <1>1 DEF OutOK
<1>3. \A n \in 1 .. d : Append(typed, x)[n] = typed[n]
  BY <1>1, <1>2
<1> QED BY <1>2, <1>3 DEF OutOK

\* The keyboard's ring and its reader when d characters have come.
KeysOK(keys, q, typed, d) ==
  /\ IsSeq(keys) /\ IsSeq(typed) /\ RingOK(q)
  /\ OutOK(Out(keys, q), Total(keys, q), typed, d)

\* What is in the ring, and who is shown it.
LEMMA OutFacts ==
  ASSUME NEW keys, IsSeq(keys), NEW q, RingOK(q)
  PROVE  /\ Total(keys, q) \in Nat /\ Cnt(q) \in 0 .. (Size - 1) /\ Len(keys) \in Nat
         /\ \A i \in 1 .. Total(keys, q) : Out(keys, q)[i] = KeyAt(keys, q, i)
<1>1. Cnt(q) \in 0 .. (Size - 1) /\ Len(keys) \in Nat /\ Size \in Nat
  BY CntValue, SeqFacts, SizeFacts DEF RingOK, Ring
<1> QED BY <1>1 DEF Total, Out

\* The driver's modifiers when d characters have come.
Mods(q, d) == [n |-> d, shift |-> q.shift_held, caps |-> q.caps_lock]

\* keyboard_handler on a byte b.
Handled(q, b) ==
  CASE b.code = "shift_up" -> [q EXCEPT !.shift_held = FALSE]
    [] b.code = "key_up"   -> q
    [] b.code = "shift"    -> [q EXCEPT !.shift_held = TRUE]
    [] b.code = "caps"     -> [q EXCEPT !.caps_lock = ~@]
    [] b.code = "unmapped" -> q
    [] OTHER -> Enqueued(q, Size, [n |-> b.n, upper |-> q.shift_held # q.caps_lock])

\* The handler leaves the first character in its slot.
Kept(q, q2) ==
  Cnt(q) > 0 => Cnt(q2) > 0 /\ q2.buf[q2.tail] = q.buf[q.tail]

\* Only the modifiers change.
LEMMA ModsChange ==
  ASSUME NEW keys, NEW q, NEW typed, NEW d, KeysOK(keys, q, typed, d),
         NEW q2, q2.buf = q.buf, q2.head = q.head, q2.tail = q.tail,
         q2 = [buf |-> q2.buf, head |-> q2.head, tail |-> q2.tail,
               shift_held |-> q2.shift_held, caps_lock |-> q2.caps_lock]
  PROVE  KeysOK(keys, q2, typed, d) /\ Kept(q, q2)
<1>1. Cnt(q2) = Cnt(q)
  BY DEF Cnt, Used
<1>2. Total(keys, q2) = Total(keys, q)
  BY <1>1 DEF Total
<1>3. \A i : KeyAt(keys, q2, i) = KeyAt(keys, q, i)
  BY DEF KeyAt, EntryAt
<1>4. Out(keys, q2) = Out(keys, q)
  BY <1>2, <1>3 DEF Out
<1>5. RingOK(q2)
  BY DEF KeysOK, RingOK, Ring
<1> QED BY <1>1, <1>2, <1>4, <1>5 DEF KeysOK, Kept

\* The handler takes the driver from one state to the next.
HandlerDone(keys, q, q2, typed, s2) ==
  \E e : KeysOK(keys, q2, typed, e) /\ s2 = Mods(q2, e) /\ Kept(q, q2)

\* keyboard_handler reads the code that fits.
LEMMA HandlerStep ==
  ASSUME NEW keys, NEW q, NEW typed, NEW d, KeysOK(keys, q, typed, d),
         NEW b, Fits(Mods(q, d), b, typed), NEW q2, q2 = Handled(q, b)
  PROVE  HandlerDone(keys, q, q2, typed, After(Mods(q, d), b.code))
<1>0. /\ Mods(q, d).n = d /\ Mods(q, d).shift = q.shift_held /\ Mods(q, d).caps = q.caps_lock
  BY DEF Mods
<1>R. /\ q = [buf |-> q.buf, head |-> q.head, tail |-> q.tail,
              shift_held |-> q.shift_held, caps_lock |-> q.caps_lock]
      /\ IsSeq(keys) /\ IsSeq(typed) /\ RingOK(q)
  BY DEF KeysOK, RingOK, Ring
<1>1. CASE b.code = "shift_up"
  <2>1. q2 = [q EXCEPT !.shift_held = FALSE]
    BY <1>1 DEF Handled
  <2>2. q2 = [buf |-> q.buf, head |-> q.head, tail |-> q.tail,
              shift_held |-> FALSE, caps_lock |-> q.caps_lock]
    BY <1>R, <2>1
  <2>3. KeysOK(keys, q2, typed, d) /\ Kept(q, q2)
    BY <2>2, ModsChange
  <2>4. After(Mods(q, d), b.code) = Mods(q2, d)
    BY <1>0, <1>1, <2>2 DEF After, Mods
  <2> QED BY <2>3, <2>4 DEF HandlerDone
<1>2. CASE b.code = "shift"
  <2>1. q2 = [q EXCEPT !.shift_held = TRUE]
    BY <1>2 DEF Handled
  <2>2. q2 = [buf |-> q.buf, head |-> q.head, tail |-> q.tail,
              shift_held |-> TRUE, caps_lock |-> q.caps_lock]
    BY <1>R, <2>1
  <2>3. KeysOK(keys, q2, typed, d) /\ Kept(q, q2)
    BY <2>2, ModsChange
  <2>4. After(Mods(q, d), b.code) = Mods(q2, d)
    BY <1>0, <1>2, <2>2 DEF After, Mods
  <2> QED BY <2>3, <2>4 DEF HandlerDone
<1>3. CASE b.code = "caps"
  <2>1. q2 = [q EXCEPT !.caps_lock = ~@]
    BY <1>3 DEF Handled
  <2>2. q2 = [buf |-> q.buf, head |-> q.head, tail |-> q.tail,
              shift_held |-> q.shift_held, caps_lock |-> ~q.caps_lock]
    BY <1>R, <2>1
  <2>3. KeysOK(keys, q2, typed, d) /\ Kept(q, q2)
    BY <2>2, ModsChange
  <2>4. After(Mods(q, d), b.code) = Mods(q2, d)
    BY <1>0, <1>3, <2>2 DEF After, Mods
  <2> QED BY <2>3, <2>4 DEF HandlerDone
<1>4. CASE b.code = "key_up" \/ b.code = "unmapped"
  <2>1. q2 = q
    BY <1>4 DEF Handled
  <2>3. KeysOK(keys, q2, typed, d) /\ Kept(q, q2)
    BY <2>1 DEF Kept
  <2>4. After(Mods(q, d), b.code) = Mods(q2, d)
    BY <1>0, <1>4, <2>1 DEF After, Mods
  <2> QED BY <2>3, <2>4 DEF HandlerDone
<1>5. CASE b.code = "letter"
  <2> DEFINE v == [n |-> b.n, upper |-> q.shift_held # q.caps_lock]
             T == Total(keys, q)
  <2>1. q2 = Enqueued(q, Size, v)
    BY <1>5 DEF Handled
  <2>2. b.n = d + 1 /\ d + 1 \in 1 .. Len(typed) /\ typed[d + 1] = v
    BY <1>0, <1>5 DEF Fits
  <2>3. typed[d + 1].n = d + 1
    BY <2>2
  <2> HIDE DEF v
  <2>4. /\ OutOK(Out(keys, q), T, typed, d) /\ Len(typed) \in Nat /\ Len(keys) \in Nat
        /\ T \in Nat /\ Cnt(q) \in 0 .. (Size - 1) /\ Size \in Nat /\ Size >= 2
        /\ \A i \in 1 .. T : Out(keys, q)[i] = KeyAt(keys, q, i)
    BY <1>R, SeqFacts, OutFacts, SizeFacts DEF KeysOK
  <2>5. CASE Full(q, Size)
    <3>1. q2 = q
      BY <2>1, <2>5 DEF Enqueued
    <3>2. Cnt(q) = Size - 1
      BY <1>R, <2>5, CntValue DEF RingOK, Ring
    <3>3. T >= Size - 1
      BY <2>4, <3>2 DEF Total
    <3>4. OutOK(Out(keys, q), T, typed, d + 1)
      <4> HIDE DEF T
      <4> QED BY <2>2, <2>4, <3>3, OutDrops
    <3>5. KeysOK(keys, q2, typed, d + 1) /\ Kept(q, q2)
      BY <1>R, <3>1, <3>4 DEF KeysOK, Kept
    <3>6. After(Mods(q, d), b.code) = Mods(q2, d + 1)
      BY <1>0, <1>5, <3>1 DEF After, Mods
    <3> QED BY <3>5, <3>6 DEF HandlerDone
  <2>6. CASE ~Full(q, Size)
    <3>1. Added(keys, q, q2, v)
      BY <1>R, <2>1, <2>4, <2>6, EnqueueAdds
    <3>2. RingOK(q2) /\ Cnt(q2) = Cnt(q) + 1 /\ Total(keys, q2) = T + 1
      BY <2>4, <3>1 DEF Added, Total
    <3> DEFINE g == Out(keys, q2)
    <3>3. /\ \A i \in 1 .. T : g[i] = Out(keys, q)[i]
          /\ g[T + 1] = typed[d + 1]
      <4>1. \A i \in 1 .. (T + 1) : g[i] = KeyAt(keys, q2, i)
        BY <3>2 DEF Out
      <4>2. /\ \A i \in 1 .. T : KeyAt(keys, q2, i) = KeyAt(keys, q, i)
            /\ KeyAt(keys, q2, T + 1) = v
        BY <3>1 DEF Added
      <4> HIDE DEF T, g
      <4>3. \A i \in 1 .. T : i \in 1 .. (T + 1)
        BY <2>4
      <4>4. T + 1 \in 1 .. (T + 1)
        BY <2>4
      <4> QED BY <2>2, <2>4, <4>1, <4>2, <4>3, <4>4
    <3>4. OutOK(g, T + 1, typed, d + 1)
      <4> HIDE DEF T, g
      <4> QED BY <2>2, <2>3, <2>4, <3>3, OutAdds
    <3>5. KeysOK(keys, q2, typed, d + 1)
      BY <1>R, <3>2, <3>4 DEF KeysOK
    <3>6. Kept(q, q2)
      BY <2>4, <3>1, <3>2 DEF Kept, Added
    <3>7. After(Mods(q, d), b.code) = Mods(q2, d + 1)
      BY <1>0, <1>5, <3>1 DEF After, Mods, Added
    <3> QED BY <3>5, <3>6, <3>7 DEF HandlerDone
  <2> QED BY <2>5, <2>6
<1>6. b.code \in Codes
  BY DEF Fits
<1> QED BY <1>1, <1>2, <1>3, <1>4, <1>5, <1>6 DEF Codes

\* One character less in the ring, nothing lost.
GetcDone(k2, q, q2, typed, d) == KeysOK(k2, q2, typed, d) /\ Mods(q2, d) = Mods(q, d)

\* kb_getc takes a character.
LEMMA GetcStep ==
  ASSUME NEW keys, NEW q, NEW typed, NEW d, KeysOK(keys, q, typed, d), Cnt(q) > 0,
         NEW k2, k2 = Append(keys, q.buf[q.tail]),
         NEW q2, q2 = [q EXCEPT !.tail = (@ + 1) % Size]
  PROVE  GetcDone(k2, q, q2, typed, d)
<1>1. /\ IsSeq(keys) /\ IsSeq(typed) /\ RingOK(q) /\ Len(keys) \in Nat
      /\ IsSeq(k2) /\ Len(k2) = Len(keys) + 1 /\ k2[Len(keys) + 1] = q.buf[q.tail]
      /\ \A i \in 1 .. Len(keys) : k2[i] = keys[i]
  BY SeqFacts DEF KeysOK
<1>2. Taken(keys, q, k2, q2)
  BY <1>1, DequeueTakes
<1>3. RingOK(q2) /\ Total(k2, q2) = Total(keys, q)
      /\ \A i \in 1 .. Total(keys, q) : KeyAt(k2, q2, i) = KeyAt(keys, q, i)
      /\ q2.shift_held = q.shift_held /\ q2.caps_lock = q.caps_lock
  BY <1>2 DEF Taken
<1>4. Out(k2, q2) = Out(keys, q)
  BY <1>3 DEF Out
<1> QED BY <1>1, <1>3, <1>4 DEF KeysOK, Mods, GetcDone

----------------------------------------------------------------------------
(* From the keyboard to the reader *)

\* A byte for the keyboard's handler waits in the controller.
KeyWaits(o) == o.full /\ ~o.aux

\* d characters have come; the code that waits and those behind it take the
\* driver to the state u of the user's keyboard.
KeyPath(keys, q, typed, o, W, u) ==
  \E d, s : /\ KeysOK(keys, q, typed, d)
            /\ KeyWaits(o) => Fits(Mods(q, d), o.byte, typed) /\ s = After(Mods(q, d), o.byte.code)
            /\ ~KeyWaits(o) => s = Mods(q, d)
            /\ InFlight(W, s, u, typed)

\* KeyCode: a key goes down or up.
LEMMA PathTyped ==
  ASSUME NEW keys, NEW q, NEW typed, NEW o, NEW W, NEW u, KeyPath(keys, q, typed, o, W, u),
         u.n = Len(typed), NEW code \in Codes,
         NEW b, b = [code |-> code, n |-> Len(typed) + 1],
         NEW t2, t2 = IF code = "letter"
                      THEN Append(typed, [n |-> Len(typed) + 1, upper |-> u.shift # u.caps])
                      ELSE typed
  PROVE  KeyPath(keys, q, t2, o, Append(W, b), After(u, code))
<1>1. PICK d, s : /\ KeysOK(keys, q, typed, d)
                  /\ KeyWaits(o) => Fits(Mods(q, d), o.byte, typed) /\ s = After(Mods(q, d), o.byte.code)
                  /\ ~KeyWaits(o) => s = Mods(q, d)
                  /\ InFlight(W, s, u, typed)
  BY DEF KeyPath
<1>2. IsSeq(typed) /\ b.code = code /\ b.n = Len(typed) + 1
  BY <1>1 DEF KeysOK
<1>3. CASE code # "letter"
  <2>1. t2 = typed /\ Fits(u, b, typed)
    BY <1>2, <1>3 DEF Fits
  <2>2. InFlight(Append(W, b), s, After(u, code), typed)
    BY <1>1, <1>2, <2>1, FlightAppend
  <2> QED BY <1>1, <2>1, <2>2 DEF KeyPath
<1>4. CASE code = "letter"
  <2> DEFINE x == [n |-> Len(typed) + 1, upper |-> u.shift # u.caps]
  <2>1. t2 = Append(typed, x)
    BY <1>4
  <2>2. Len(typed) \in Nat /\ Len(t2) = Len(typed) + 1 /\ t2[Len(typed) + 1] = x /\ IsSeq(t2)
    BY <1>2, <2>1, SeqFacts
  <2>3. Fits(u, b, t2)
    BY <1>2, <2>2 DEF Fits
  <2> HIDE DEF x
  <2>4. InFlight(W, s, u, t2)
    BY <1>1, <1>2, <2>1, FlightGrows
  <2>5. InFlight(Append(W, b), s, After(u, code), t2)
    BY <1>2, <2>3, <2>4, FlightAppend
  <2>6. KeysOK(keys, q, t2, d)
    BY <1>1, <2>1, <2>2, OutGrows DEF KeysOK
  <2>7. KeyWaits(o) => Fits(Mods(q, d), o.byte, t2)
    BY <1>1, <1>2, <2>1, FitsGrows
  <2> QED BY <1>1, <2>5, <2>6, <2>7 DEF KeyPath
<1> QED BY <1>3, <1>4

\* The controller takes a code from the keyboard.
LEMMA PathLatched ==
  ASSUME NEW keys, NEW q, NEW typed, NEW o, NEW W, NEW u, KeyPath(keys, q, typed, o, W, u),
         ~KeyWaits(o), W # <<>>, NEW o2, KeyWaits(o2), o2.byte = Head(W)
  PROVE  KeyPath(keys, q, typed, o2, Tail(W), u)
<1>1. PICK d, s : /\ KeysOK(keys, q, typed, d) /\ s = Mods(q, d)
                  /\ InFlight(W, s, u, typed)
  BY DEF KeyPath
<1>2. Fits(s, Head(W), typed) /\ InFlight(Tail(W), After(s, Head(W).code), u, typed)
  BY <1>1, FlightHead
<1> QED BY <1>1, <1>2 DEF KeyPath

\* Nothing for the keyboard's handler comes or goes.
LEMMA PathSame ==
  ASSUME NEW keys, NEW q, NEW typed, NEW o, NEW W, NEW u, KeyPath(keys, q, typed, o, W, u),
         ~KeyWaits(o), NEW o2, ~KeyWaits(o2)
  PROVE  KeyPath(keys, q, typed, o2, W, u)
BY DEF KeyPath

\* keyboard_handler reads the byte that waits.
LEMMA PathHandled ==
  ASSUME NEW keys, NEW q, NEW typed, NEW o, NEW W, NEW u, KeyPath(keys, q, typed, o, W, u),
         KeyWaits(o), NEW o2, ~KeyWaits(o2), NEW q2, q2 = Handled(q, o.byte)
  PROVE  KeyPath(keys, q2, typed, o2, W, u) /\ Kept(q, q2)
<1>1. PICK d, s : /\ KeysOK(keys, q, typed, d)
                  /\ Fits(Mods(q, d), o.byte, typed) /\ s = After(Mods(q, d), o.byte.code)
                  /\ InFlight(W, s, u, typed)
  BY DEF KeyPath
<1>2. HandlerDone(keys, q, q2, typed, s)
  BY <1>1, HandlerStep
<1>3. PICK e : KeysOK(keys, q2, typed, e) /\ s = Mods(q2, e) /\ Kept(q, q2)
  BY <1>2 DEF HandlerDone
<1> QED BY <1>1, <1>3 DEF KeyPath

\* kb_getc returns a character.
LEMMA PathTaken ==
  ASSUME NEW keys, NEW q, NEW typed, NEW o, NEW W, NEW u, KeyPath(keys, q, typed, o, W, u),
         Cnt(q) > 0, NEW k2, k2 = Append(keys, q.buf[q.tail]),
         NEW q2, q2 = [q EXCEPT !.tail = (@ + 1) % Size]
  PROVE  KeyPath(k2, q2, typed, o, W, u)
<1>1. PICK d, s : /\ KeysOK(keys, q, typed, d)
                  /\ KeyWaits(o) => Fits(Mods(q, d), o.byte, typed) /\ s = After(Mods(q, d), o.byte.code)
                  /\ ~KeyWaits(o) => s = Mods(q, d)
                  /\ InFlight(W, s, u, typed)
  BY DEF KeyPath
<1>2. KeysOK(k2, q2, typed, d) /\ Mods(q2, d) = Mods(q, d)
  <2>1. GetcDone(k2, q, q2, typed, d)
    BY <1>1, GetcStep
  <2> QED BY <2>1 DEF GetcDone
<1> QED BY <1>1, <1>2 DEF KeyPath

\* A character read is still the first in the ring.
ReaderOK(q, key) == key # NULL => Cnt(q) > 0 /\ key = q.buf[q.tail]

PicShape(p) == p = [offset |-> p.offset, mask |-> p.mask, irr |-> p.irr, isr |-> p.isr]

\* The keyboard's line is requested only for a byte that waits.
PicOK(p, o) == PicShape(p) /\ p.irr \subseteq Lines /\ (1 \in p.irr => KeyWaits(o))

HandlersOK(h) ==
  DOMAIN h = Lines /\ \A irq \in Lines : h[irq] = "keyboard" => irq = 1

UserMods(u) == [n |-> Len(u.typed), shift |-> u.shift, caps |-> u.caps]

ShapesOK ==
  /\ user = [shift |-> user.shift, caps |-> user.caps, typed |-> user.typed,
             keys |-> user.keys, events |-> user.events]
  /\ wire = [kbd |-> wire.kbd, aux |-> wire.aux]
  /\ ob = [full |-> ob.full, aux |-> ob.aux, byte |-> ob.byte]
  /\ reader = [key |-> reader.key, event |-> reader.event]

KeyInv ==
  /\ KeyPath(user.keys, kb, user.typed, ob, wire.kbd, UserMods(user))
  /\ ReaderOK(kb, reader.key)
  /\ PicOK(pic, ob)
  /\ HandlersOK(irq_handlers)
  /\ ShapesOK

\* An end of interrupt changes what is in service only.
LEMMA EoiKeeps ==
  ASSUME NEW p, PicShape(p), NEW chip, NEW p2, p2 = Ended(p, chip)
  PROVE  PicShape(p2) /\ p2.irr = p.irr
BY DEF Ended, PicShape

\* The line acknowledged is one that was requested.
LEMMA HighestIn ==
  ASSUME NEW S, S \subseteq Lines, S # {}
  PROVE  Highest(S) \in S
<1>1. \A i \in Lines : i \in Nat /\ 16 * Level(i) + i \in Nat
  BY DEF Lines, IRQ_COUNT, Level
<1> DEFINE T == {16 * Level(i) + i : i \in S}
<1>2. T \in SUBSET Nat /\ T # {}
  BY <1>1
<1>3. PICK m \in T : \A k \in T : m <= k
  BY <1>2, LeastElement
<1>4. \E i \in S : \A j \in S : 16 * Level(i) + i <= 16 * Level(j) + j
  BY <1>3
<1> QED BY <1>4 DEF Highest

----------------------------------------------------------------------------
(* The steps *)

\* InitInput.
LEMMA KeysStart ==
  ASSUME InitInput
  PROVE  KeyInv
<1> DEFINE s0 == [n |-> 0, shift |-> FALSE, caps |-> FALSE]
<1>0. Size \in Nat /\ Size >= 2 /\ KB_BUF_SIZE = Size
  BY SizeFacts DEF Size
<1>1. RingOK(kb) /\ kb.head = 0 /\ kb.tail = 0
  BY <1>0 DEF InitInput, RingOK, Ring
<1>2. Cnt(kb) = 0
  BY <1>0, <1>1, CntValue
<1>3. IsSeq(<<>>) /\ Len(<<>>) = 0
  <2>1. <<>> \in Seq({})
    OBVIOUS
  <2> QED BY <2>1 DEF IsSeq
<1>4. user.keys = <<>> /\ user.typed = <<>> /\ wire.kbd = <<>> /\ UserMods(user) = s0 /\ Mods(kb, 0) = s0
  BY <1>3 DEF InitInput, UserMods, Mods
<1>5. Total(<<>>, kb) = 0
  BY <1>2, <1>3 DEF Total
<1>6. OutOK(Out(<<>>, kb), 0, <<>>, 0)
  BY <1>3 DEF OutOK
<1>7. KeysOK(<<>>, kb, <<>>, 0)
  BY <1>1, <1>3, <1>5, <1>6 DEF KeysOK
<1>8. ~KeyWaits(ob)
  BY DEF InitInput, KeyWaits
<1>9. InFlight(<<>>, s0, s0, <<>>)
  BY FlightEmpty
<1>10. KeyPath(user.keys, kb, user.typed, ob, wire.kbd, UserMods(user))
  <2> HIDE DEF s0
  <2> QED BY <1>4, <1>7, <1>8, <1>9 DEF KeyPath
<1>11. ReaderOK(kb, reader.key)
  BY DEF ReaderOK, InitInput
<1>12. PicOK(pic, ob)
  BY DEF PicOK, PicShape, InitInput
<1>13. HandlersOK(irq_handlers)
  BY NullAssumption DEF HandlersOK, InitInput
<1>14. ShapesOK
  BY DEF ShapesOK, InitInput
<1> QED BY <1>10, <1>11, <1>12, <1>13, <1>14 DEF KeyInv

\* Steps that touch neither keys nor their path.
LEMMA KeysApart ==
  ASSUME KeyInv, UNCHANGED <<ob, wire, kb, reader, user>>,
         PicOK(pic', ob), HandlersOK(irq_handlers')
  PROVE  KeyInv'
<1>1. KeyPath(user.keys, kb, user.typed, ob, wire.kbd, UserMods(user))'
  BY DEF KeyInv, UserMods
<1> QED BY <1>1 DEF KeyInv, ReaderOK, PicOK, HandlersOK, ShapesOK, KeyWaits, PicShape

\* The drivers' set-up.
LEMMA KeysBoot ==
  ASSUME KeyInv, Boot
  PROVE  KeyInv'
<1>0. /\ pic.irr \subseteq Lines /\ (1 \in pic.irr => KeyWaits(ob)) /\ PicShape(pic)
      /\ HandlersOK(irq_handlers)
  BY DEF KeyInv, PicOK
<1>2. CASE interrupts_init
  <2>1. PicOK(pic', ob)
    BY <1>0, <1>2 DEF interrupts_init, PicOK, PicShape, irq_enable
  <2> QED BY <1>0, <1>2, <2>1, KeysApart DEF interrupts_init
<1>3. CASE NoInterruptsInit
  BY <1>0, <1>3, KeysApart DEF NoInterruptsInit, KeyInv
<1>4. CASE pit_init
  <2>1. PicOK(pic', ob)
    BY <1>0, <1>4 DEF pit_init, irq_install_handler, PicOK, PicShape, irq_enable
  <2>2. HandlersOK(irq_handlers')
    <3>1. irq_handlers' = [irq_handlers EXCEPT ![0] = "timer"] /\ 0 \in Lines
      BY <1>4 DEF pit_init, irq_install_handler, Lines, IRQ_COUNT
    <3> QED BY <1>0, <3>1 DEF HandlersOK
  <2> QED BY <1>4, <2>1, <2>2, KeysApart DEF pit_init
<1>5. CASE kb_init
  <2>1. PicOK(pic', ob)
    BY <1>0, <1>5 DEF kb_init, irq_install_handler, PicOK, PicShape, irq_enable
  <2>2. HandlersOK(irq_handlers')
    <3>1. irq_handlers' = [irq_handlers EXCEPT ![1] = "keyboard"] /\ 1 \in Lines
      BY <1>5 DEF kb_init, irq_install_handler, Lines, IRQ_COUNT
    <3> QED BY <1>0, <3>1 DEF HandlersOK
  <2> QED BY <1>5, <2>1, <2>2, KeysApart DEF kb_init
<1>6. ASSUME NEW late \in LateReplies, mouse_init(late) PROVE KeyInv'
  <2>1. pic' = [irq_enable(pic, 12) EXCEPT !.irr = IF late < Len(Replies) THEN @ \cup {12} ELSE @]
    BY <1>6 DEF mouse_init
  <2>2. /\ irq_enable(pic, 12) = [offset |-> pic.offset, mask |-> pic.mask \ {12}, irr |-> pic.irr, isr |-> pic.isr]
    BY <1>0 DEF irq_enable, PicShape
  <2>3. /\ pic' = [offset |-> pic.offset, mask |-> pic.mask \ {12}, irr |-> pic'.irr, isr |-> pic.isr]
        /\ (pic'.irr = pic.irr \/ pic'.irr = pic.irr \cup {12})
    <3> DEFINE soon == late < Len(Replies)
    <3>1. pic' = [irq_enable(pic, 12) EXCEPT !.irr = IF soon THEN @ \cup {12} ELSE @]
      BY <2>1
    <3> HIDE DEF soon
    <3>2. CASE soon
      <4>1. pic' = [irq_enable(pic, 12) EXCEPT !.irr = @ \cup {12}]
        BY <3>1, <3>2
      <4> QED BY <4>1, <2>2
    <3>3. CASE ~soon
      <4>1. pic' = [irq_enable(pic, 12) EXCEPT !.irr = @]
        BY <3>1, <3>3
      <4> QED BY <4>1, <2>2
    <3> QED BY <3>2, <3>3
  <2>4. 12 \in Lines /\ 1 # 12
    BY DEF Lines, IRQ_COUNT
  <2>5. PicOK(pic', ob)
    BY <1>0, <2>3, <2>4 DEF PicOK, PicShape
  <2>6. HandlersOK(irq_handlers')
    BY <1>0, <1>6, <2>4 DEF mouse_init, HandlersOK
  <2>7. KeyPath(user.keys, kb, user.typed, ob, wire.kbd, UserMods(user))'
    BY <1>6 DEF KeyInv, ShapesOK, UserMods, mouse_init
  <2>8. ShapesOK'
    BY <1>6 DEF KeyInv, ShapesOK, mouse_init
  <2>9. ob' = ob /\ kb' = kb /\ reader' = reader
    BY <1>6 DEF mouse_init
  <2> QED BY <2>5, <2>6, <2>7, <2>8, <2>9 DEF KeyInv, ReaderOK, PicOK, HandlersOK, KeyWaits, PicShape
<1>7. CASE sti
  BY <1>0, <1>7, KeysApart DEF sti, KeyInv
<1> QED BY <1>2, <1>3, <1>4, <1>5, <1>6, <1>7 DEF Boot

\* Steps of the interrupt handlers leave the rest alone.
LEMMA KeysIrq ==
  ASSUME KeyInv, UNCHANGED <<irq_handlers, wire, reader, user>>, PicOK(pic', ob'),
         ob' = [full |-> ob'.full, aux |-> ob'.aux, byte |-> ob'.byte], Kept(kb, kb'),
         KeyPath(user.keys, kb', user.typed, ob', wire.kbd, UserMods(user))
  PROVE  KeyInv'
<1>1. KeyPath(user.keys, kb, user.typed, ob, wire.kbd, UserMods(user))'
  BY DEF UserMods
<1>2. ReaderOK(kb', reader.key)
  BY DEF KeyInv, ReaderOK, Kept
<1> QED BY <1>1, <1>2 DEF KeyInv, ReaderOK, PicOK, HandlersOK, ShapesOK, KeyWaits, PicShape

\* The handler that irq_dispatch runs.
LEMMA Dispatched ==
  ASSUME NEW irq, NEW p, irq_dispatch(irq, p)
  PROVE  \/ UNCHANGED <<ob, kb, mouse, timer_ticks, away>> \/ timer_irq_handler \/ mouse_irq_handler
         \/ irq_handlers[irq] = "keyboard" /\ keyboard_handler
<1>1. CASE irq \in {7, 15} /\ irq \notin p.isr
  BY <1>1 DEF irq_dispatch
<1>2. CASE ~(irq \in {7, 15} /\ irq \notin p.isr)
  <2>1. (CASE irq_handlers[irq] = "timer"    -> timer_irq_handler
           [] irq_handlers[irq] = "keyboard" -> keyboard_handler
           [] irq_handlers[irq] = "mouse"    -> mouse_irq_handler
           [] OTHER -> UNCHANGED <<ob, kb, mouse, timer_ticks, away>>)
    BY <1>2 DEF irq_dispatch
  <2> HIDE DEF timer_irq_handler, keyboard_handler, mouse_irq_handler
  <2> QED BY <2>1
<1> QED BY <1>1, <1>2

\* irq_dispatch with the controllers in state p.
LEMMA KeysDispatch ==
  ASSUME KeyInv, NEW irq \in Lines, NEW p, PicOK(p, ob), irq = 1 => KeyWaits(ob) /\ 1 \notin p.irr,
         irq_dispatch(irq, p)
  PROVE  KeyInv'
<1>0. UNCHANGED <<irq_handlers, wire, reader, user>>
  BY DEF irq_dispatch
<1>1. /\ KeyPath(user.keys, kb, user.typed, ob, wire.kbd, UserMods(user))
      /\ PicShape(p) /\ p.irr \subseteq Lines /\ (1 \in p.irr => KeyWaits(ob))
      /\ irq_handlers[irq] = "keyboard" => irq = 1
      /\ ob = [full |-> ob.full, aux |-> ob.aux, byte |-> ob.byte]
  BY DEF KeyInv, PicOK, HandlersOK, ShapesOK
<1>2. PicShape(pic') /\ pic'.irr = p.irr
  <2>1. \A c : PicShape(Ended(p, c)) /\ Ended(p, c).irr = p.irr
    BY <1>1, EoiKeeps
  <2>2. \A c, e : PicShape(Ended(Ended(p, c), e)) /\ Ended(Ended(p, c), e).irr = p.irr
    BY <2>1, EoiKeeps
  <2>3. \/ pic' = p \/ pic' = Ended(p, Master) \/ pic' = Ended(Ended(p, Slave), Master)
    <3>1. CASE irq \in {7, 15} /\ irq \notin p.isr
      BY <3>1 DEF irq_dispatch
    <3>2. CASE ~(irq \in {7, 15} /\ irq \notin p.isr)
      <4>1. pic' = IF away' THEN p ELSE pic_send_eoi(p, irq)
        BY <3>2 DEF irq_dispatch
      <4> QED BY <4>1 DEF pic_send_eoi
    <3> QED BY <3>1, <3>2
  <2> QED BY <1>1, <2>1, <2>2, <2>3
<1>3. ob' = ob /\ kb' = kb => KeyInv'
  <2>1. ASSUME ob' = ob, kb' = kb PROVE KeyInv'
    <3>1. PicOK(pic', ob')
      BY <1>1, <1>2, <2>1 DEF PicOK
    <3>2. Kept(kb, kb')
      BY <2>1 DEF Kept
    <3> QED BY <1>0, <1>1, <2>1, <3>1, <3>2, KeysIrq
  <2> QED BY <2>1
<1>4. CASE irq_handlers[irq] = "keyboard" /\ keyboard_handler
  <2>1. irq = 1 /\ KeyWaits(ob) /\ 1 \notin pic'.irr
    BY <1>1, <1>2, <1>4
  <2>2. kb' = Handled(kb, ob.byte)
    BY <1>4 DEF keyboard_handler, Handled, kb_enqueue, Size
  <2>3. ob' = [full |-> FALSE, aux |-> ob.aux, byte |-> ob.byte]
    BY <1>1, <1>4 DEF keyboard_handler
  <2>4. ~KeyWaits(ob')
    BY <2>3 DEF KeyWaits
  <2>5. KeyPath(user.keys, kb', user.typed, ob', wire.kbd, UserMods(user)) /\ Kept(kb, kb')
    BY <1>1, <2>1, <2>2, <2>4, PathHandled
  <2>6. PicOK(pic', ob')
    BY <1>1, <1>2, <2>1 DEF PicOK
  <2>7. ob' = [full |-> ob'.full, aux |-> ob'.aux, byte |-> ob'.byte]
    BY <2>3
  <2> QED BY <1>0, <2>5, <2>6, <2>7, KeysIrq
<1>5. CASE mouse_irq_handler
  <2>1. CASE ~ob.full \/ ~ob.aux
    BY <1>3, <1>5, <2>1 DEF mouse_irq_handler
  <2>2. CASE ob.full /\ ob.aux
    <3>1. ob' = [ob EXCEPT !.full = FALSE] /\ kb' = kb
      BY <1>5, <2>2 DEF mouse_irq_handler
    <3>2. ob' = [full |-> FALSE, aux |-> ob.aux, byte |-> ob.byte]
      BY <1>1, <3>1
    <3>3. ~KeyWaits(ob) /\ ~KeyWaits(ob')
      BY <2>2, <3>2 DEF KeyWaits
    <3>4. KeyPath(user.keys, kb', user.typed, ob', wire.kbd, UserMods(user)) /\ Kept(kb, kb')
      BY <1>1, <3>1, <3>3, PathSame DEF Kept
    <3>5. PicOK(pic', ob')
      BY <1>1, <1>2, <3>3 DEF PicOK
    <3>6. ob' = [full |-> ob'.full, aux |-> ob'.aux, byte |-> ob'.byte]
      BY <3>2
    <3> QED BY <1>0, <3>4, <3>5, <3>6, KeysIrq
  <2> QED BY <2>1, <2>2
<1>6. CASE timer_irq_handler
  BY <1>3, <1>6 DEF timer_irq_handler
<1>7. CASE UNCHANGED <<ob, kb, mouse, timer_ticks, away>>
  BY <1>3, <1>7
<1> QED BY <1>4, <1>5, <1>6, <1>7, Dispatched

\* The keyboard's line is dispatched only for a byte of the keyboard that waits.
Dispatch == \E irq \in Lines : \E p : /\ irq_dispatch(irq, p) /\ PicOK(p, ob)
                                      /\ irq = 1 => KeyWaits(ob) /\ 1 \notin p.irr

\* What Interrupt and Spurious call.
LEMMA Dispatches ==
  ASSUME KeyInv, Interrupt \/ \E irq \in {7, 15} : Spurious(irq)
  PROVE  exception_dispatch \/ Dispatch
<1>0. PicShape(pic) /\ pic.irr \subseteq Lines /\ (1 \in pic.irr => KeyWaits(ob))
  BY DEF KeyInv, PicOK
<1>1. CASE Interrupt /\ pic.offset = "IRQ_BASE"
  <2> DEFINE irq == Highest(Deliverable(pic))
             p == Ack(pic, irq)
  <2>1. Deliverable(pic) \subseteq pic.irr /\ Deliverable(pic) # {} /\ irq_dispatch(irq, p)
    BY <1>1 DEF Interrupt, Deliverable
  <2>2. irq \in pic.irr /\ irq \in Lines
    BY <1>0, <2>1, HighestIn
  <2> HIDE DEF irq
  <2>3. p = [offset |-> pic.offset, mask |-> pic.mask, irr |-> pic.irr \ {irq}, isr |-> p.isr]
    <3> DEFINE held == pic.isr \cup {irq} \cup (IF irq >= 8 THEN {2} ELSE {})
    <3>1. p = [pic EXCEPT !.irr = pic.irr \ {irq}, !.isr = held]
      BY DEF Ack
    <3> HIDE DEF held, p
    <3> QED BY <1>0, <3>1 DEF PicShape
  <2> HIDE DEF p
  <2>4. PicOK(p, ob) /\ (irq = 1 => KeyWaits(ob) /\ 1 \notin p.irr)
    BY <1>0, <2>2, <2>3 DEF PicOK, PicShape
  <2> QED BY <2>1, <2>2, <2>4 DEF Dispatch
<1>2. CASE Interrupt /\ pic.offset # "IRQ_BASE"
  BY <1>2 DEF Interrupt
<1>3. ASSUME NEW irq \in {7, 15}, Spurious(irq)
      PROVE  \E p : irq_dispatch(irq, p) /\ PicOK(p, ob) /\ irq \in Lines /\ irq # 1
  <2> DEFINE p == IF irq = 15 THEN [pic EXCEPT !.isr = @ \cup {2}] ELSE pic
  <2>1. irq_dispatch(irq, p) /\ irq \in Lines /\ irq # 1
    BY <1>3 DEF Spurious, Lines, IRQ_COUNT
  <2>2. PicOK(p, ob)
    BY <1>0 DEF PicOK, PicShape
  <2> HIDE DEF p
  <2> QED BY <2>1, <2>2
<1> QED BY <1>1, <1>2, <1>3 DEF Dispatch

\* Interrupt and Spurious.
LEMMA KeysInterrupt ==
  ASSUME KeyInv, Interrupt \/ \E irq \in {7, 15} : Spurious(irq)
  PROVE  KeyInv'
<1>1. CASE exception_dispatch
  BY <1>1, KeysApart DEF exception_dispatch, KeyInv
<1>2. ASSUME NEW irq \in Lines, NEW p, irq_dispatch(irq, p), PicOK(p, ob),
             irq = 1 => KeyWaits(ob) /\ 1 \notin p.irr
      PROVE  KeyInv'
  BY <1>2, KeysDispatch
<1>3. CASE Dispatch
  <2>1. PICK irq \in Lines : \E p : /\ irq_dispatch(irq, p) /\ PicOK(p, ob)
                                    /\ irq = 1 => KeyWaits(ob) /\ 1 \notin p.irr
    BY <1>3 DEF Dispatch
  <2>2. PICK p : /\ irq_dispatch(irq, p) /\ PicOK(p, ob)
                 /\ irq = 1 => KeyWaits(ob) /\ 1 \notin p.irr
    BY <2>1
  <2> QED BY <1>2, <2>2
<1> QED BY <1>1, <1>3, Dispatches, Zenon

\* TimerFires, Resume and LoseByte.
LEMMA KeysEnvironment ==
  ASSUME KeyInv, TimerFires \/ Resume \/ LoseByte
  PROVE  KeyInv'
<1>0. PicShape(pic) /\ pic.irr \subseteq Lines /\ (1 \in pic.irr => KeyWaits(ob)) /\ HandlersOK(irq_handlers)
  BY DEF KeyInv, PicOK
<1>1. CASE TimerFires
  <2>1. pic' = [offset |-> pic.offset, mask |-> pic.mask, irr |-> pic.irr \cup {0}, isr |-> pic.isr]
    BY <1>0, <1>1 DEF TimerFires, Raise, PicShape
  <2>2. PicOK(pic', ob)
    BY <1>0, <2>1 DEF PicOK, PicShape, Lines, IRQ_COUNT
  <2> QED BY <1>0, <1>1, <2>2, KeysApart DEF TimerFires
<1>2. CASE LoseByte
  <2>1. /\ wire' = [kbd |-> wire.kbd, aux |-> Tail(wire.aux)]
        /\ UNCHANGED <<pic, irq_handlers, ob, kb, reader, user>>
    BY <1>2 DEF LoseByte, KeyInv, ShapesOK
  <2> QED BY <2>1 DEF KeyInv, ShapesOK, UserMods, ReaderOK, PicOK, HandlersOK, KeyWaits, PicShape
<1>3. CASE Resume
  <2>1. pic' = Ended(pic, Master)
    BY <1>3 DEF Resume, pic_send_eoi
  <2>2. PicOK(pic', ob)
    BY <1>0, <2>1, EoiKeeps DEF PicOK
  <2> QED BY <1>0, <1>3, <2>2, KeysApart DEF Resume
<1> QED BY <1>1, <1>2, <1>3

\* KeyCode and Movement.
LEMMA KeysAct ==
  ASSUME KeyInv, (\E code \in Codes : KeyCode(code)) \/ \E mv \in Moves : Movement(mv)
  PROVE  KeyInv'
<1>1. ASSUME NEW mv \in Moves, Movement(mv) PROVE KeyInv'
  <2>1. /\ wire' = [kbd |-> wire.kbd, aux |-> wire'.aux]
        /\ UNCHANGED <<pic, irq_handlers, ob, kb, reader, user>>
    BY <1>1 DEF Movement, KeyInv, ShapesOK
  <2>2. wire'.kbd = wire.kbd
    BY <2>1
  <2> QED BY <2>1, <2>2 DEF KeyInv, ShapesOK, UserMods, ReaderOK, PicOK, HandlersOK, KeyWaits, PicShape
<1>2. ASSUME NEW code \in Codes, KeyCode(code) PROVE KeyInv'
  <2> DEFINE b == [code |-> code, n |-> Len(user.typed) + 1]
             x == [n |-> Len(user.typed) + 1, upper |-> user.shift # user.caps]
             t2 == IF code = "letter" THEN Append(user.typed, x) ELSE user.typed
             u == UserMods(user)
  <2>1. UNCHANGED <<pic, irq_handlers, ob, kb, reader>>
    BY <1>2 DEF KeyCode
  <2>2. wire' = [kbd |-> Append(wire.kbd, b), aux |-> wire.aux]
    BY <1>2 DEF KeyCode, KeyInv, ShapesOK
  <2>3. u.n = Len(user.typed) /\ u.shift = user.shift /\ u.caps = user.caps
    BY DEF UserMods
  <2>4. IsSeq(user.typed)
    BY DEF KeyInv, KeyPath, KeysOK
  <2>5. /\ user' = [shift |-> user'.shift, caps |-> user'.caps, typed |-> t2,
                    keys |-> user.keys, events |-> user.events]
        /\ user'.shift = After(u, code).shift /\ user'.caps = After(u, code).caps
    <3>0. user = [shift |-> user.shift, caps |-> user.caps, typed |-> user.typed,
                  keys |-> user.keys, events |-> user.events]
      BY DEF KeyInv, ShapesOK
    <3>1. CASE code = "shift"
      <4>1. user' = [user EXCEPT !.shift = TRUE]
        BY <1>2, <3>1 DEF KeyCode
      <4> QED BY <2>3, <3>0, <3>1, <4>1 DEF After
    <3>2. CASE code = "shift_up"
      <4>1. user' = [user EXCEPT !.shift = FALSE]
        BY <1>2, <3>2 DEF KeyCode
      <4> QED BY <2>3, <3>0, <3>2, <4>1 DEF After
    <3>3. CASE code = "caps"
      <4>1. user' = [user EXCEPT !.caps = ~@]
        BY <1>2, <3>3 DEF KeyCode
      <4> QED BY <2>3, <3>0, <3>3, <4>1 DEF After
    <3>4. CASE code = "letter"
      <4>1. user' = [user EXCEPT !.typed = Append(@, x)]
        BY <1>2, <3>4 DEF KeyCode
      <4> HIDE DEF x
      <4> QED BY <2>3, <3>0, <3>4, <4>1 DEF After
    <3>5. CASE code = "key_up" \/ code = "unmapped"
      <4>1. user' = user
        BY <1>2, <3>5 DEF KeyCode
      <4> QED BY <2>3, <3>0, <3>5, <4>1 DEF After
    <3> QED BY <3>1, <3>2, <3>3, <3>4, <3>5 DEF Codes
  <2>6. Len(user.typed) \in Nat /\ (code = "letter" => Len(t2) = Len(user.typed) + 1)
    <3> HIDE DEF x
    <3> QED BY <2>4, SeqFacts
  <2>7. UserMods(user') = After(u, code)
    <3>1. user'.typed = t2
      BY <2>5
    <3>2. Len(t2) = After(u, code).n
      BY <2>3, <2>6 DEF After
    <3> QED BY <2>5, <3>1, <3>2 DEF UserMods, After
  <2>8. KeyPath(user.keys, kb, t2, ob, Append(wire.kbd, b), After(u, code))
    <3>1. KeyPath(user.keys, kb, user.typed, ob, wire.kbd, u)
      BY DEF KeyInv
    <3>2. t2 = IF code = "letter"
               THEN Append(user.typed, [n |-> Len(user.typed) + 1, upper |-> u.shift # u.caps])
               ELSE user.typed
      BY <2>3
    <3> HIDE DEF u, t2, b
    <3>3. b = [code |-> code, n |-> Len(user.typed) + 1]
      BY DEF b
    <3> QED BY <2>3, <3>1, <3>2, <3>3, PathTyped
  <2>9. /\ KeyPath(user'.keys, kb', user'.typed, ob', wire'.kbd, UserMods(user'))
    <3>1. user'.keys = user.keys /\ user'.typed = t2 /\ wire'.kbd = Append(wire.kbd, b)
      BY <2>2, <2>5
    <3> HIDE DEF u, t2, b
    <3> QED BY <2>1, <2>7, <2>8, <3>1
  <2>10. ShapesOK'
    BY <2>1, <2>2, <2>5 DEF ShapesOK, KeyInv
  <2>11. ReaderOK(kb, reader.key)' /\ PicOK(pic, ob)' /\ HandlersOK(irq_handlers)'
    BY <2>1 DEF KeyInv, ReaderOK, PicOK, HandlersOK, KeyWaits, PicShape
  <2>12. KeyPath(user.keys, kb, user.typed, ob, wire.kbd, UserMods(user))'
    BY <2>9 DEF UserMods
  <2> QED BY <2>10, <2>11, <2>12 DEF KeyInv
<1> QED BY <1>1, <1>2

\* Latch: the controller takes a byte from either device.
LEMMA KeysLatch ==
  ASSUME KeyInv, Controller
  PROVE  KeyInv'
<1>0. /\ PicShape(pic) /\ pic.irr \subseteq Lines /\ (1 \in pic.irr => KeyWaits(ob))
      /\ wire = [kbd |-> wire.kbd, aux |-> wire.aux]
      /\ KeyPath(user.keys, kb, user.typed, ob, wire.kbd, UserMods(user))
  BY DEF KeyInv, PicOK, ShapesOK
<1>1. ASSUME NEW p2, NEW i \in Lines, p2 = [pic EXCEPT !.irr = @ \cup {i}], NEW o,
             i = 1 => KeyWaits(o), 1 \notin pic.irr
      PROVE  PicOK(p2, o)
  <2>1. p2 = [offset |-> pic.offset, mask |-> pic.mask, irr |-> pic.irr \cup {i}, isr |-> pic.isr]
    BY <1>0, <1>1 DEF PicShape
  <2> QED BY <1>0, <1>1, <2>1 DEF PicOK, PicShape
<1>2. 1 \in Lines /\ 12 \in Lines
  BY DEF Lines, IRQ_COUNT
<1>3. CASE Latch("kbd", 1)
  <2>1. /\ ~ob.full /\ wire.kbd # <<>> /\ UNCHANGED <<irq_handlers, kb, reader, user>>
        /\ pic' = [pic EXCEPT !.irr = @ \cup {1}]
    BY <1>3 DEF Latch, Raise
  <2>2. ob' = [full |-> TRUE, aux |-> FALSE, byte |-> Head(wire.kbd)]
    BY <1>3 DEF Latch
  <2>3. wire' = [kbd |-> Tail(wire.kbd), aux |-> wire.aux]
    BY <1>0, <1>3 DEF Latch
  <2>4. ~KeyWaits(ob) /\ KeyWaits(ob') /\ ob'.byte = Head(wire.kbd)
    BY <2>1, <2>2 DEF KeyWaits
  <2>5. KeyPath(user.keys, kb, user.typed, ob', Tail(wire.kbd), UserMods(user))
    BY <1>0, <2>1, <2>4, PathLatched
  <2>6. KeyPath(user.keys, kb, user.typed, ob, wire.kbd, UserMods(user))'
    BY <2>1, <2>3, <2>5 DEF UserMods
  <2>7. PicOK(pic', ob')
    BY <1>0, <1>1, <1>2, <2>1, <2>4
  <2>8. ShapesOK'
    BY <2>1, <2>2, <2>3 DEF ShapesOK, KeyInv
  <2> QED BY <2>1, <2>6, <2>7, <2>8 DEF KeyInv, ReaderOK, HandlersOK, PicOK, KeyWaits, PicShape
<1>4. CASE Latch("aux", 12)
  <2>1. /\ ~ob.full /\ UNCHANGED <<irq_handlers, kb, reader, user>>
        /\ pic' = [pic EXCEPT !.irr = @ \cup {12}]
    BY <1>4 DEF Latch, Raise
  <2>2. ob' = [full |-> TRUE, aux |-> TRUE, byte |-> Head(wire.aux)]
    BY <1>4 DEF Latch
  <2>3. wire' = [kbd |-> wire.kbd, aux |-> Tail(wire.aux)]
    BY <1>0, <1>4 DEF Latch
  <2>4. ~KeyWaits(ob) /\ ~KeyWaits(ob')
    BY <2>1, <2>2 DEF KeyWaits
  <2>5. KeyPath(user.keys, kb, user.typed, ob', wire.kbd, UserMods(user))
    BY <1>0, <2>4, PathSame
  <2>6. KeyPath(user.keys, kb, user.typed, ob, wire.kbd, UserMods(user))'
    BY <2>1, <2>3, <2>5 DEF UserMods
  <2>7. PicOK(pic', ob')
    BY <1>0, <1>1, <1>2, <2>1, <2>4
  <2>8. ShapesOK'
    BY <2>1, <2>2, <2>3 DEF ShapesOK, KeyInv
  <2> QED BY <2>1, <2>6, <2>7, <2>8 DEF KeyInv, ReaderOK, HandlersOK, PicOK, KeyWaits, PicShape
<1> QED BY <1>3, <1>4 DEF Controller

\* kb_getc and mouse_read, each in two steps.
LEMMA KeysReader ==
  ASSUME KeyInv, Reader
  PROVE  KeyInv'
<1>0. /\ KeyPath(user.keys, kb, user.typed, ob, wire.kbd, UserMods(user)) /\ ReaderOK(kb, reader.key)
      /\ reader = [key |-> reader.key, event |-> reader.event]
      /\ user = [shift |-> user.shift, caps |-> user.caps, typed |-> user.typed,
                 keys |-> user.keys, events |-> user.events]
      /\ wire = [kbd |-> wire.kbd, aux |-> wire.aux]
      /\ ob = [full |-> ob.full, aux |-> ob.aux, byte |-> ob.byte]
  BY DEF KeyInv, ShapesOK
<1>R. kb.head \in 0 .. (Size - 1) /\ kb.tail \in 0 .. (Size - 1)
  BY <1>0 DEF KeyPath, KeysOK, RingOK, Ring
<1>1. CASE kb_getc_read
  <2>1. /\ UNCHANGED <<pic, irq_handlers, ob, wire, kb, user>> /\ Pending(kb)
        /\ reader' = [key |-> kb.buf[kb.tail], event |-> reader.event]
    BY <1>0, <1>1 DEF kb_getc_read
  <2>2. Cnt(kb) > 0
    BY <1>R, <2>1, CntValue
  <2>3. ReaderOK(kb', reader'.key)
    BY <2>1, <2>2 DEF ReaderOK
  <2>4. ShapesOK'
    BY <1>0, <2>1 DEF ShapesOK
  <2>5. KeyPath(user.keys, kb, user.typed, ob, wire.kbd, UserMods(user))'
    BY <1>0, <2>1 DEF UserMods
  <2> QED BY <2>1, <2>3, <2>4, <2>5 DEF KeyInv, ReaderOK, HandlersOK, PicOK, KeyWaits, PicShape
<1>2. CASE kb_getc_return
  <2>1. /\ UNCHANGED <<pic, irq_handlers, ob, wire>> /\ reader.key # NULL
        /\ kb' = [kb EXCEPT !.tail = (@ + 1) % Size]
        /\ user' = [user EXCEPT !.keys = Append(@, reader.key)]
        /\ reader' = [reader EXCEPT !.key = NULL]
    BY <1>2 DEF kb_getc_return, Size
  <2>2. Cnt(kb) > 0 /\ reader.key = kb.buf[kb.tail]
    BY <1>0, <2>1 DEF ReaderOK
  <2>3. /\ user' = [shift |-> user.shift, caps |-> user.caps, typed |-> user.typed,
                    keys |-> Append(user.keys, kb.buf[kb.tail]), events |-> user.events]
        /\ reader' = [key |-> NULL, event |-> reader.event]
    BY <1>0, <2>1, <2>2
  <2>4. KeyPath(Append(user.keys, kb.buf[kb.tail]), kb', user.typed, ob, wire.kbd, UserMods(user))
    BY <1>0, <2>1, <2>2, PathTaken
  <2>5. KeyPath(user.keys, kb, user.typed, ob, wire.kbd, UserMods(user))'
    BY <2>1, <2>3, <2>4 DEF UserMods
  <2>6. ShapesOK'
    BY <1>0, <2>1, <2>3 DEF ShapesOK
  <2>7. ReaderOK(kb', reader'.key)
    BY <2>3 DEF ReaderOK
  <2> QED BY <2>1, <2>5, <2>6, <2>7 DEF KeyInv, ReaderOK, HandlersOK, PicOK, KeyWaits, PicShape
<1>3. CASE mouse_read_copy
  <2>1. /\ UNCHANGED <<pic, irq_handlers, ob, wire, kb, user>>
        /\ reader' = [key |-> reader.key, event |-> mouse.buf[mouse.tail]]
    BY <1>0, <1>3 DEF mouse_read_copy
  <2>2. ShapesOK'
    BY <1>0, <2>1 DEF ShapesOK
  <2>3. KeyPath(user.keys, kb, user.typed, ob, wire.kbd, UserMods(user))'
    BY <1>0, <2>1 DEF UserMods
  <2>4. ReaderOK(kb', reader'.key)
    BY <1>0, <2>1 DEF ReaderOK
  <2> QED BY <2>1, <2>2, <2>3, <2>4 DEF KeyInv, ReaderOK, HandlersOK, PicOK, KeyWaits, PicShape
<1>4. CASE mouse_read_return
  <2>1. /\ UNCHANGED <<pic, irq_handlers, ob, wire, kb>>
        /\ reader' = [key |-> reader.key, event |-> NULL]
        /\ user' = [shift |-> user.shift, caps |-> user.caps, typed |-> user.typed,
                    keys |-> user.keys, events |-> Append(user.events, reader.event)]
    BY <1>0, <1>4 DEF mouse_read_return
  <2>2. ShapesOK'
    BY <1>0, <2>1 DEF ShapesOK
  <2>3. KeyPath(user.keys, kb, user.typed, ob, wire.kbd, UserMods(user))'
    BY <1>0, <2>1 DEF UserMods
  <2>4. ReaderOK(kb', reader'.key)
    BY <1>0, <2>1 DEF ReaderOK
  <2> QED BY <2>1, <2>2, <2>3, <2>4 DEF KeyInv, ReaderOK, HandlersOK, PicOK, KeyWaits, PicShape
<1> QED BY <1>1, <1>2, <1>3, <1>4 DEF Reader

\* Every step of the machine.
LEMMA KeysNext ==
  ASSUME KeyInv, [Next]_deviceVars
  PROVE  KeyInv'
<1>1. CASE UNCHANGED inputVars
  <2>1. /\ UNCHANGED <<ob, wire, kb, reader, user>> /\ pic' = pic /\ irq_handlers' = irq_handlers
    BY <1>1 DEF inputVars
  <2> QED BY <2>1, KeysApart DEF KeyInv
<1>2. CASE System
  BY <1>2, KeysBoot, KeysInterrupt, KeysLatch, KeysReader DEF System
<1>3. CASE Environment
  BY <1>3, KeysEnvironment, KeysInterrupt DEF Environment
<1>4. CASE Act
  BY <1>4, KeysAct DEF Act
<1>5. CASE Text
  BY <1>1, <1>5 DEF Text
<1>6. CASE UNCHANGED deviceVars
  BY <1>1, <1>6 DEF deviceVars
<1> QED BY <1>2, <1>3, <1>4, <1>5, <1>6 DEF Next

\* The path's invariant is the property.
LEMMA KeysFollow ==
  ASSUME KeyInv
  PROVE  KeysInOrder
<1>1. PICK d, s : /\ KeysOK(user.keys, kb, user.typed, d)
                  /\ ~KeyWaits(ob) => s = Mods(kb, d)
                  /\ InFlight(wire.kbd, s, UserMods(user), user.typed)
  BY DEF KeyInv, KeyPath
<1> DEFINE keys == user.keys
           typed == user.typed
           T == Total(keys, kb)
           f == Out(keys, kb)
           K == KeysSoFar
<1>0. Size \in Nat /\ Size >= 2 /\ KB_BUF_SIZE = Size
  BY SizeFacts DEF Size
<1>2. /\ IsSeq(keys) /\ IsSeq(typed) /\ RingOK(kb) /\ OutOK(f, T, typed, d)
      /\ T \in Nat /\ Cnt(kb) \in 0 .. (Size - 1) /\ Len(keys) \in Nat /\ Len(typed) \in Nat
      /\ T = Len(keys) + Cnt(kb)
      /\ \A i \in 1 .. T : f[i] = KeyAt(keys, kb, i)
  BY <1>1, OutFacts, SeqFacts DEF KeysOK, Total
<1>3. Len(K) = T /\ \A i \in 1 .. T : K[i] = f[i]
  <2>1. Size \in Nat \ {0, 1} /\ Ring(Size, kb) /\ K = keys \o Contents(kb, Size)
        /\ T = Entries(Size, keys, kb)
    BY <1>0, <1>2 DEF RingOK, Ring, KeysSoFar, Total, Cnt, Entries
  <2>2. Len(K) = T /\ \A i \in 1 .. T : K[i] = EntryAt(Size, keys, kb, i)
    <3> HIDE DEF K, T
    <3>1. AreEntries(Size, keys, kb, K, T)
      BY <1>2, <2>1, SoFarEntries
    <3> QED BY <3>1 DEF AreEntries
  <2> QED BY <1>2, <2>2 DEF KeyAt, EntryAt
<1> HIDE DEF K, T, f
<1>4. ASSUME NEW i \in 1 .. T PROVE K[i] = typed[K[i].n]
  BY <1>2, <1>3 DEF OutOK
<1>5. Increasing([i \in 1 .. T |-> K[i].n])
  <2> DEFINE g == [i \in 1 .. T |-> K[i].n]
  <2>1. Len(g) = T
    BY <1>2
  <2>2. ASSUME NEW i \in 1 .. (T - 1) PROVE g[i] < g[i + 1]
    <3>1. i \in 1 .. T /\ i + 1 \in 1 .. T /\ i < i + 1
      BY <1>2
    <3>2. f[i].n < f[i + 1].n
      BY <1>2, <3>1 DEF OutOK
    <3> QED BY <1>3, <3>1, <3>2
  <2> HIDE DEF g
  <2>3. Increasing(g)
    BY <2>1, <2>2 DEF Increasing
  <2> QED BY <2>3 DEF g
<1> DEFINE delivered == {K[i].n : i \in 1 .. T}
<1>6. ASSUME wire.kbd = <<>>, ~ob.full, NEW n \in (1 .. Len(typed)) \ delivered
      PROVE  Cardinality({m \in delivered : m < n}) >= KB_BUF_SIZE - 1
  <2>1. d = Len(typed)
    <3>1. ~KeyWaits(ob)
      BY <1>6 DEF KeyWaits
    <3>2. s = Mods(kb, d)
      BY <1>1, <3>1
    <3>3. PICK st : st[0] = s /\ st[Len(<<>>)] = UserMods(user)
      BY <1>1, <1>6 DEF InFlight
    <3>4. Len(<<>>) = 0
      OBVIOUS
    <3>5. Mods(kb, d).n = d /\ UserMods(user).n = Len(typed)
      BY DEF Mods, UserMods
    <3> QED BY <3>2, <3>3, <3>4, <3>5
  <2>2. T >= Size - 1 /\ f[Size - 1].n < n
    <3>1. ~\E i \in 1 .. T : f[i].n = n
      BY <1>3, <1>6
    <3> QED BY <1>2, <1>6, <2>1, <3>1 DEF OutOK
  <2> DEFINE S == 1 .. (Size - 1)
             D == {m \in delivered : m < n}
             h == [i \in S |-> K[i].n]
  <2>3. ASSUME NEW i \in S PROVE i \in 1 .. T /\ K[i].n \in D
    <3>1. i \in 1 .. T /\ Size - 1 \in 1 .. T /\ (i = Size - 1 \/ i < Size - 1)
      BY <1>0, <1>2, <2>2
    <3>2. K[i] = f[i] /\ f[i].n \in 1 .. d /\ f[Size - 1].n \in 1 .. d
      BY <1>2, <1>3, <3>1 DEF OutOK
    <3>3. f[i].n = f[Size - 1].n \/ f[i].n < f[Size - 1].n
      BY <1>2, <3>1 DEF OutOK
    <3>4. d \in Nat /\ n \in Nat
      BY <1>2, <2>1
    <3>5. f[i].n < n
      BY <2>2, <3>2, <3>3, <3>4
    <3> QED BY <3>1, <3>2, <3>5
  <2>4. h \in Injection(S, D)
    <3>1. h \in [S -> D]
      BY <2>3
    <3>2. ASSUME NEW i \in S, NEW j \in S, h[i] = h[j] PROVE i = j
      <4>1. i \in 1 .. T /\ j \in 1 .. T /\ f[i].n = f[j].n /\ f[i].n \in 1 .. d
        BY <1>2, <1>3, <2>3, <3>2 DEF OutOK
      <4>2. ~(i < j) /\ ~(j < i)
        BY <1>2, <2>1, <4>1 DEF OutOK
      <4> QED BY <1>0, <4>2
    <3> QED BY <3>1, <3>2 DEF Injection, IsInjective
  <2>5. IsFiniteSet(D)
    <3>1. IsFiniteSet(1 .. T) /\ IsFiniteSet(1 .. Len(typed))
      <4>1. 1 \in Int /\ T \in Int /\ Len(typed) \in Int
        BY <1>2
      <4> QED BY <4>1, FS_Interval
    <3>2. D \subseteq 1 .. Len(typed)
      <4>1. \A i \in 1 .. T : K[i].n \in 1 .. d
        BY <1>2, <1>3 DEF OutOK
      <4> QED BY <2>1, <4>1
    <3> QED BY <3>1, <3>2, FS_Subset
  <2>6. Cardinality(S) = Size - 1 /\ IsFiniteSet(S)
    BY <1>0, FS_Interval
  <2> HIDE DEF h, S, D
  <2>7. Cardinality(S) <= Cardinality(D) /\ Cardinality(D) \in Nat
    BY <2>4, <2>5, FS_Injection, FS_CardinalityType
  <2>8. Cardinality(D) >= Size - 1
    BY <1>0, <2>6, <2>7
  <2> QED BY <1>0, <2>8 DEF D
<1> QED BY <1>3, <1>4, <1>5, <1>6 DEF K, KeysInOrder

\* keyboard_handler and kb_getc: whatever is typed between the steps of a
\* read, the characters arrive once each, in the order and in the case they
\* were typed, and one is missing only behind as many as the ring can hold.
THEOREM KeysInOrderHolds == Spec => []KeysInOrder
<1>1. Init => KeyInv
  BY KeysStart DEF Init
<1>2. KeyInv /\ [Next]_deviceVars => KeyInv'
  BY KeysNext
<1>3. KeyInv => KeysInOrder
  BY KeysFollow
<1> QED BY <1>1, <1>2, <1>3, PTL DEF Spec

----------------------------------------------------------------------------
(* Packets of the mouse *)

\* A movement's byte that a packet may begin with.
Lead(b) == b.bit3 /\ b.pkt > 0

\* S[1] to S[N] are bytes on their way to the packet machine when the mouse
\* has made m packets: replies first, then the movements in order, each with
\* three bytes at most.
Before(b, c, apart) == b.pkt <= c.pkt /\ (apart >= 3 /\ c.pkt > 0 => b.pkt < c.pkt)
StreamOK(S, N, m) ==
  \A i \in 1 .. N :
    /\ S[i].pkt \in 0 .. m
    /\ S[i].bit3 /\ S[i].pkt = 0 => S[i].overflow
    /\ \A j \in 1 .. (i - 1) : Before(S[j], S[i], i - j)

\* Bytes that a packet may begin with and whose two next are not of the same
\* one: they were lost, or the byte is not a movement's first.
Complete(S, N, i) == i + 2 <= N /\ S[i + 1].pkt = S[i].pkt /\ S[i + 2].pkt = S[i].pkt
Broken(S, N) == {i \in 1 .. N : Lead(S[i]) /\ ~Complete(S, N, i)}

\* Any set of positions can be counted.
LEMMA PositionsFinite ==
  ASSUME NEW N \in Nat, NEW A, A \subseteq 1 .. N
  PROVE  IsFiniteSet(A) /\ Cardinality(A) \in Nat
<1>1. IsFiniteSet(1 .. N)
  BY FS_Interval
<1>2. IsFiniteSet(A)
  BY <1>1, FS_Subset
<1> QED BY <1>2, FS_CardinalityType

\* The first k bytes are taken; one of them may begin a broken packet.
LEMMA FrontTaken ==
  ASSUME NEW S, NEW N \in Nat, NEW m, StreamOK(S, N, m), NEW k \in 1 .. N,
         NEW S2, NEW N2, N2 = N - k, \A i \in 1 .. N2 : S2[i] = S[i + k]
  PROVE  /\ StreamOK(S2, N2, m)
         /\ Cardinality(Broken(S2, N2)) <= Cardinality(Broken(S, N))
         /\ 1 \in Broken(S, N) => Cardinality(Broken(S2, N2)) + 1 <= Cardinality(Broken(S, N))
<1> DEFINE A == Broken(S2, N2)
           B == Broken(S, N)
           g == [i \in A |-> i + k]
<1>0. N2 \in Nat /\ k \in Nat /\ k >= 1
  OBVIOUS
<1>1. StreamOK(S2, N2, m)
  <2> SUFFICES ASSUME NEW i \in 1 .. N2
               PROVE  /\ S2[i].pkt \in 0 .. m
                      /\ S2[i].bit3 /\ S2[i].pkt = 0 => S2[i].overflow
                      /\ \A j \in 1 .. (i - 1) : Before(S2[j], S2[i], i - j)
    BY DEF StreamOK
  <2>1. i + k \in 1 .. N /\ S2[i] = S[i + k]
    BY <1>0
  <2>2. ASSUME NEW j \in 1 .. (i - 1)
        PROVE  j + k \in 1 .. ((i + k) - 1) /\ S2[j] = S[j + k] /\ (i + k) - (j + k) = i - j
    BY <1>0
  <2> QED BY <2>1, <2>2 DEF StreamOK
<1>2. ASSUME NEW i \in A
      PROVE  i \in 1 .. N2 /\ i + k \in B /\ i + k # 1
  <2>1. i \in 1 .. N2 /\ Lead(S2[i]) /\ ~Complete(S2, N2, i)
    BY DEF Broken
  <2>2. i + k \in 1 .. N /\ i + k # 1 /\ S2[i] = S[i + k]
    BY <1>0, <2>1
  <2>3. ~Complete(S, N, i + k)
    <3>1. ASSUME (i + k) + 2 <= N
          PROVE  /\ i + 2 <= N2 /\ S2[i + 1] = S[(i + k) + 1] /\ S2[i + 2] = S[(i + k) + 2]
      <4>1. i + 1 \in 1 .. N2 /\ i + 2 \in 1 .. N2 /\ (i + 1) + k = (i + k) + 1 /\ (i + 2) + k = (i + k) + 2
        BY <1>0, <2>1, <3>1
      <4>2. S2[i + 1] = S[(i + 1) + k] /\ S2[i + 2] = S[(i + 2) + k]
        BY <4>1
      <4> QED BY <4>1, <4>2
    <3> QED BY <2>1, <2>2, <3>1 DEF Complete
  <2> QED BY <2>1, <2>2, <2>3 DEF Broken
<1>3. A \subseteq 1 .. N2 /\ B \subseteq 1 .. N
  BY DEF Broken
<1>4. IsFiniteSet(A) /\ Cardinality(A) \in Nat /\ IsFiniteSet(B) /\ Cardinality(B) \in Nat
  BY <1>0, <1>3, PositionsFinite
<1> HIDE DEF A, B
<1>5. g \in Injection(A, B \ {1})
  <2>1. g \in [A -> B \ {1}]
    BY <1>2
  <2>2. \A i, j \in A : g[i] = g[j] => i = j
    BY <1>0, <1>2
  <2> QED BY <2>1, <2>2 DEF Injection, IsInjective
<1>6. IsFiniteSet(B \ {1}) /\ Cardinality(B \ {1}) = IF 1 \in B THEN Cardinality(B) - 1 ELSE Cardinality(B)
  BY <1>4, FS_RemoveElement
<1> HIDE DEF g
<1>7. Cardinality(A) <= Cardinality(B \ {1})
  BY <1>5, <1>6, FS_Injection
<1> QED BY <1>1, <1>4, <1>6, <1>7 DEF A, B

\* The places behind the Nth of bytes that look like a first one.
More(N, x, y) == (IF x THEN {N + 2} ELSE {}) \cup (IF y THEN {N + 3} ELSE {})

\* They are as many as One counts.
LEMMA MoreCounted ==
  ASSUME NEW N \in Nat, NEW B, B \subseteq 1 .. N, NEW x \in BOOLEAN, NEW y \in BOOLEAN
  PROVE  /\ IsFiniteSet(B \cup More(N, x, y))
         /\ Cardinality(B \cup More(N, x, y)) = Cardinality(B) + (One(x) + One(y))
<1>1. IsFiniteSet(B) /\ Cardinality(B) \in Nat
  BY PositionsFinite
<1>2. N + 2 \notin B /\ N + 3 \notin B /\ N + 2 # N + 3
  OBVIOUS
<1> DEFINE D == IF x THEN B \cup {N + 2} ELSE B
<1>3. IsFiniteSet(D) /\ Cardinality(D) = Cardinality(B) + One(x) /\ N + 3 \notin D
  BY <1>1, <1>2, FS_AddElement DEF One
<1>4. B \cup More(N, x, y) = IF y THEN D \cup {N + 3} ELSE D
  BY DEF More
<1>5. One(x) \in Nat
  BY DEF One
<1> HIDE DEF D
<1>6. CASE y
  <2>0. One(y) = 1
    BY <1>6 DEF One
  <2>1. B \cup More(N, x, y) = D \cup {N + 3}
    BY <1>4, <1>6
  <2>2. IsFiniteSet(D \cup {N + 3}) /\ Cardinality(D \cup {N + 3}) = Cardinality(D) + 1
    BY <1>3, FS_AddElement
  <2>3. Cardinality(D) + 1 = Cardinality(B) + (One(x) + 1)
    BY <1>1, <1>3, <1>5
  <2> QED BY <2>0, <2>1, <2>2, <2>3
<1>7. CASE ~y
  <2>0. One(y) = 0
    BY <1>7 DEF One
  <2>1. B \cup More(N, x, y) = D
    BY <1>4, <1>7
  <2>2. Cardinality(D) = Cardinality(B) + (One(x) + 0)
    BY <1>1, <1>3, <1>5
  <2> QED BY <1>3, <2>0, <2>1, <2>2
<1> QED BY <1>6, <1>7

\* A movement's three bytes come behind.
LEMMA BackGrown ==
  ASSUME NEW S, NEW N \in Nat, NEW m \in Nat, StreamOK(S, N, m),
         NEW S2, NEW N2, N2 = N + 3, \A i \in 1 .. N : S2[i] = S[i],
         \A i \in {1, 2, 3} : S2[N + i].pkt = m + 1,
         NEW x \in BOOLEAN, NEW y \in BOOLEAN, S2[N + 2].bit3 => x, S2[N + 3].bit3 => y
  PROVE  /\ StreamOK(S2, N2, m + 1)
         /\ Cardinality(Broken(S2, N2)) <= Cardinality(Broken(S, N)) + (One(x) + One(y))
<1>0. N2 \in Nat /\ \A i \in 1 .. N2 : i \in 1 .. N \/ i = N + 1 \/ i = N + 2 \/ i = N + 3
  OBVIOUS
<1>1. S2[N + 1].pkt = m + 1 /\ S2[N + 2].pkt = m + 1 /\ S2[N + 3].pkt = m + 1
  OBVIOUS
<1>2. \A i \in 1 .. N : S2[i] = S[i] /\ S[i].pkt \in 0 .. m
  BY DEF StreamOK
<1>3. StreamOK(S2, N2, m + 1)
  <2> SUFFICES ASSUME NEW i \in 1 .. N2
               PROVE  /\ S2[i].pkt \in 0 .. (m + 1)
                      /\ S2[i].bit3 /\ S2[i].pkt = 0 => S2[i].overflow
                      /\ \A j \in 1 .. (i - 1) : Before(S2[j], S2[i], i - j)
    BY DEF StreamOK
  <2>1. CASE i \in 1 .. N
    <3>1. \A j \in 1 .. (i - 1) : j \in 1 .. N
      BY <2>1
    <3> QED BY <1>2, <2>1, <3>1 DEF StreamOK
  <2>2. CASE i = N + 1 \/ i = N + 2 \/ i = N + 3
    <3>1. S2[i].pkt = m + 1
      BY <1>1, <2>2
    <3>2. ASSUME NEW j \in 1 .. (i - 1)
          PROVE  Before(S2[j], S2[i], i - j)
      <4>1. CASE j \in 1 .. N
        <5>1. S2[j].pkt \in 0 .. m
          BY <1>2, <4>1
        <5> QED BY <3>1, <5>1 DEF Before
      <4>2. CASE j \notin 1 .. N
        <5>1. (j = N + 1 \/ j = N + 2) /\ ~(i - j >= 3)
          BY <2>2, <4>2
        <5>2. S2[j].pkt = m + 1
          BY <1>1, <5>1
        <5> QED BY <3>1, <5>1, <5>2 DEF Before
      <4> QED BY <4>1, <4>2
    <3> QED BY <3>1, <3>2
  <2> QED BY <1>0, <2>1, <2>2
<1>4. ASSUME NEW i \in 1 .. N
      PROVE  Complete(S2, N2, i) <=> Complete(S, N, i)
  <2>1. CASE i + 2 <= N
    <3>1. i + 1 \in 1 .. N /\ i + 2 \in 1 .. N /\ i + 2 <= N2
      BY <2>1
    <3> QED BY <1>2, <2>1, <3>1 DEF Complete
  <2>2. CASE ~(i + 2 <= N)
    <3>1. i + 2 = N + 1 \/ i + 2 = N + 2
      BY <2>2
    <3>2. S2[i + 2].pkt = m + 1 /\ S2[i].pkt \in 0 .. m
      BY <1>1, <1>2, <3>1
    <3> QED BY <2>2, <3>2 DEF Complete
  <2> QED BY <2>1, <2>2
<1>5. Complete(S2, N2, N + 1) /\ N + 1 \in 1 .. N2
  <2>1. (N + 1) + 1 = N + 2 /\ (N + 1) + 2 = N + 3 /\ (N + 1) + 2 <= N2
    OBVIOUS
  <2> QED BY <1>1, <2>1 DEF Complete
<1> DEFINE D == Broken(S, N) \cup More(N, x, y)
<1>6. ASSUME NEW i \in Broken(S2, N2) PROVE i \in D
  <2>0. i \in 1 .. N2 /\ Lead(S2[i]) /\ ~Complete(S2, N2, i)
    BY DEF Broken
  <2>1. CASE i \in 1 .. N
    BY <1>2, <1>4, <2>0, <2>1 DEF Broken
  <2>2. CASE i = N + 1
    BY <1>5, <2>0, <2>2
  <2>3. CASE i = N + 2
    BY <2>0, <2>3 DEF Lead, More
  <2>4. CASE i = N + 3
    BY <2>0, <2>4 DEF Lead, More
  <2> QED BY <1>0, <2>0, <2>1, <2>2, <2>3, <2>4
<1>7. Broken(S, N) \subseteq 1 .. N
  BY DEF Broken
<1>8. IsFiniteSet(D) /\ Cardinality(D) = Cardinality(Broken(S, N)) + (One(x) + One(y))
  BY <1>7, MoreCounted
<1>9. Cardinality(Broken(S2, N2)) <= Cardinality(D)
  <2> HIDE DEF D
  <2>1. Broken(S2, N2) \subseteq D
    BY <1>6
  <2> QED BY <1>8, <2>1, FS_Subset
<1> QED BY <1>3, <1>8, <1>9

\* A byte lost breaks one packet at most.
LEMMA OneLost ==
  ASSUME NEW S, NEW N \in Nat, NEW m \in Nat, StreamOK(S, N, m), NEW l \in 1 .. N,
         NEW S2, NEW N2, N2 = N - 1,
         \A i \in 1 .. (l - 1) : S2[i] = S[i], \A i \in l .. N2 : S2[i] = S[i + 1]
  PROVE  /\ StreamOK(S2, N2, m)
         /\ Cardinality(Broken(S2, N2)) <= Cardinality(Broken(S, N)) + 1
<1> DEFINE A == Broken(S2, N2)
           B == Broken(S, N)
           G(i) == IF i < l THEN i ELSE i + 1
<1>0. N2 \in Nat /\ l \in Nat /\ l >= 1
  OBVIOUS
<1>1. /\ \A i \in 1 .. N2 : G(i) \in 1 .. N /\ S2[i] = S[G(i)] /\ G(i) # l
      /\ \A i, j \in 1 .. N2 : (i < j => G(i) < G(j)) /\ (G(i) = G(j) => i = j)
  BY <1>0
<1>2. StreamOK(S2, N2, m)
  <2> SUFFICES ASSUME NEW i \in 1 .. N2
               PROVE  /\ S2[i].pkt \in 0 .. m
                      /\ S2[i].bit3 /\ S2[i].pkt = 0 => S2[i].overflow
                      /\ \A j \in 1 .. (i - 1) : Before(S2[j], S2[i], i - j)
    BY DEF StreamOK
  <2>1. G(i) \in 1 .. N /\ S2[i] = S[G(i)]
    BY <1>1
  <2>2. ASSUME NEW j \in 1 .. (i - 1)
        PROVE  Before(S2[j], S2[i], i - j)
    <3>1. G(j) \in 1 .. (G(i) - 1) /\ S2[j] = S[G(j)] /\ (i - j >= 3 => G(i) - G(j) >= 3)
      BY <1>0, <1>1
    <3>2. Before(S[G(j)], S[G(i)], G(i) - G(j))
      BY <2>1, <3>1 DEF StreamOK
    <3> HIDE DEF G
    <3> QED BY <2>1, <3>1, <3>2 DEF Before
  <2> HIDE DEF G
  <2> QED BY <2>1, <2>2 DEF StreamOK
<1>3. A \subseteq 1 .. N2 /\ B \subseteq 1 .. N
  BY DEF Broken
<1>4. IsFiniteSet(A) /\ Cardinality(A) \in Nat /\ IsFiniteSet(B) /\ Cardinality(B) \in Nat
  BY <1>0, <1>3, PositionsFinite
<1>5. ASSUME NEW i \in A, G(i) \notin B
      PROVE  i < l /\ (i = l - 1 \/ i = l - 2) /\ Lead(S[i]) /\ Complete(S, N, i)
  <2>1. i \in 1 .. N2 /\ Lead(S2[i]) /\ ~Complete(S2, N2, i)
    BY <1>5 DEF Broken
  <2>2. Lead(S[G(i)]) /\ Complete(S, N, G(i))
    BY <1>1, <1>5, <2>1 DEF Broken
  <2>3. CASE i >= l
    <3>1. G(i) = i + 1
      BY <1>0, <2>1, <2>3
    <3>2. (i + 1) + 2 <= N /\ S[(i + 1) + 1].pkt = S[i + 1].pkt /\ S[(i + 1) + 2].pkt = S[i + 1].pkt
      BY <2>2, <3>1 DEF Complete
    <3>3. i + 1 \in l .. N2 /\ i + 2 \in l .. N2 /\ i \in l .. N2 /\ i + 2 <= N2
          /\ (i + 1) + 2 = (i + 2) + 1
      BY <1>0, <2>1, <2>3, <3>2
    <3>4. S2[i] = S[i + 1] /\ S2[i + 1] = S[(i + 1) + 1] /\ S2[i + 2] = S[(i + 2) + 1]
      BY <3>3
    <3>5. Complete(S2, N2, i)
      BY <3>2, <3>3, <3>4 DEF Complete
    <3> QED BY <2>1, <3>5
  <2>4. CASE i + 2 < l
    <3>1. G(i) = i /\ i + 2 <= N2 /\ i \in 1 .. (l - 1) /\ i + 1 \in 1 .. (l - 1) /\ i + 2 \in 1 .. (l - 1)
      BY <1>0, <2>1, <2>4
    <3>2. S2[i] = S[i] /\ S2[i + 1] = S[i + 1] /\ S2[i + 2] = S[i + 2]
      BY <3>1
    <3>3. Complete(S2, N2, i)
      BY <2>2, <3>1, <3>2 DEF Complete
    <3> QED BY <2>1, <3>3
  <2>5. CASE i < l /\ ~(i + 2 < l)
    <3>1. G(i) = i /\ (i = l - 1 \/ i = l - 2)
      BY <1>0, <2>1, <2>5
    <3> QED BY <2>2, <2>5, <3>1
  <2> QED BY <1>0, <2>1, <2>3, <2>4, <2>5
<1>6. ASSUME NEW i \in A, G(i) \notin B, NEW j \in A, G(j) \notin B
      PROVE  i = j
  <2>1. ASSUME NEW x \in A, G(x) \notin B, NEW y \in A, G(y) \notin B, x = l - 2, y = l - 1
        PROVE  FALSE
    <3>1. /\ Lead(S[x]) /\ Complete(S, N, x) /\ Lead(S[y]) /\ Complete(S, N, y)
          /\ x \in 1 .. N /\ y = x + 1
      BY <1>0, <1>3, <1>5, <2>1
    <3>2. /\ S[x + 1].pkt = S[x].pkt /\ x + 3 <= N /\ (x + 1) + 2 = x + 3
          /\ S[x + 3].pkt = S[x + 1].pkt /\ S[x].pkt > 0
      BY <3>1 DEF Complete, Lead
    <3>3. x + 3 \in 1 .. N /\ x \in 1 .. ((x + 3) - 1) /\ (x + 3) - x >= 3
      BY <3>1, <3>2
    <3>4. Before(S[x], S[x + 3], (x + 3) - x) /\ S[x].pkt \in 0 .. m
      BY <3>1, <3>3 DEF StreamOK
    <3> QED BY <3>2, <3>3, <3>4 DEF Before
  <2>2. (i = l - 1 \/ i = l - 2) /\ (j = l - 1 \/ j = l - 2)
    BY <1>5, <1>6
  <2> HIDE DEF A, B, G
  <2> QED BY <1>6, <2>1, <2>2
<1>7. ASSUME NEW D, D \subseteq A, \A i \in D : G(i) \in B
      PROVE  IsFiniteSet(D) /\ Cardinality(D) \in Nat /\ Cardinality(D) <= Cardinality(B)
  <2> DEFINE g == [i \in D |-> G(i)]
  <2>1. g \in [D -> B]
    BY <1>7
  <2>2. \A i, j \in D : g[i] = g[j] => i = j
    <3>1. \A i \in D : i \in 1 .. N2 /\ g[i] = G(i)
      BY <1>3, <1>7
    <3> HIDE DEF G, g
    <3> QED BY <1>1, <3>1
  <2>3. g \in Injection(D, B)
    BY <2>1, <2>2 DEF Injection, IsInjective
  <2> HIDE DEF g, B
  <2>4. IsFiniteSet(D) /\ Cardinality(D) <= Cardinality(B)
    BY <1>4, <2>3, FS_Injection
  <2> QED BY <2>4, FS_CardinalityType
<1>8. Cardinality(A) <= Cardinality(B) + 1
  <2>1. CASE \A i \in A : G(i) \in B
    <3>1. Cardinality(A) <= Cardinality(B)
      BY <1>7, <2>1
    <3> HIDE DEF A, B
    <3> QED BY <1>4, <3>1
  <2>2. CASE \E x \in A : G(x) \notin B
    <3>1. PICK x \in A : G(x) \notin B
      BY <2>2
    <3>2. \A i \in A \ {x} : G(i) \in B
      BY <1>6, <3>1
    <3> HIDE DEF A, B, G
    <3>3. Cardinality(A \ {x}) <= Cardinality(B) /\ Cardinality(A \ {x}) \in Nat
      BY <1>7, <3>2
    <3>4. Cardinality(A \ {x}) = Cardinality(A) - 1
      BY <1>4, <3>1, FS_RemoveElement
    <3> QED BY <1>4, <3>3, <3>4
  <2> QED BY <2>1, <2>2
<1> QED BY <1>2, <1>8

----------------------------------------------------------------------------
(* From the mouse to the packet machine *)

\* S[1] to S[N] are the bytes of the packet begun, the byte b in the
\* controller if a is 1, and the bytes W still in the mouse.
Stream(S, N, P, a, b, W) ==
  /\ IsSeq(P) /\ IsSeq(W) /\ a \in {0, 1} /\ N = Len(P) + a + Len(W)
  /\ \A i \in 1 .. Len(P) : S[i] = P[i]
  /\ a = 1 => S[Len(P) + 1] = b
  /\ \A i \in 1 .. Len(W) : S[Len(P) + a + i] = W[i]

\* The parts of a stream, as numbers.
LEMMA StreamSizes ==
  ASSUME NEW S, NEW N, NEW P, NEW a, NEW b, NEW W, Stream(S, N, P, a, b, W)
  PROVE  /\ Len(P) \in Nat /\ Len(W) \in Nat /\ a \in {0, 1} /\ N \in Nat
         /\ N = Len(P) + a + Len(W)
<1>1. Len(P) \in Nat /\ Len(W) \in Nat
  BY SeqFacts DEF Stream
<1> QED BY <1>1 DEF Stream

\* The controller takes the next byte.
LEMMA StreamLatched ==
  ASSUME NEW S, NEW N, NEW P, NEW b, NEW W, Stream(S, N, P, 0, b, W), W # <<>>
  PROVE  Stream(S, N, P, 1, Head(W), Tail(W))
<1>1. Len(P) \in Nat /\ Len(W) \in Nat /\ N = Len(P) + 0 + Len(W)
  BY StreamSizes
<1>2. /\ IsSeq(Tail(W)) /\ Len(Tail(W)) = Len(W) - 1 /\ Len(W) >= 1 /\ Head(W) = W[1]
      /\ \A i \in 1 .. Len(Tail(W)) : Tail(W)[i] = W[i + 1]
  BY SeqRest DEF Stream
<1> DEFINE p == Len(P)
           w == Len(W)
<1>3. \A i \in 1 .. w : S[p + 0 + i] = W[i]
  BY DEF Stream
<1>4. p \in Nat /\ w \in Nat /\ w >= 1 /\ N = p + w
  BY <1>1, <1>2
<1> HIDE DEF p, w
<1>5. S[p + 1] = W[1]
  <2>1. 1 \in 1 .. w /\ p + 0 + 1 = p + 1
    BY <1>4
  <2> QED BY <1>3, <2>1
<1>6. ASSUME NEW i \in 1 .. (w - 1) PROVE S[p + 1 + i] = W[i + 1]
  <2>1. i + 1 \in 1 .. w /\ p + 0 + (i + 1) = p + 1 + i
    BY <1>4
  <2> QED BY <1>3, <2>1
<1>7. N = p + 1 + (w - 1)
  BY <1>4
<1>8. \A i \in 1 .. Len(Tail(W)) : S[p + 1 + i] = Tail(W)[i]
  BY <1>2, <1>6 DEF w
<1>9. N = p + 1 + Len(Tail(W))
  BY <1>2, <1>7 DEF w
<1> QED BY <1>2, <1>5, <1>8, <1>9 DEF Stream, p

\* The handler puts the byte in the packet.
LEMMA StreamPacked ==
  ASSUME NEW S, NEW N, NEW P, NEW b, NEW W, Stream(S, N, P, 1, b, W), NEW c
  PROVE  Stream(S, N, Append(P, b), 0, c, W)
<1> DEFINE p == Len(P)
           w == Len(W)
           Q == Append(P, b)
<1>1. p \in Nat /\ w \in Nat /\ N = p + 1 + w
  BY StreamSizes
<1>2. IsSeq(Q) /\ Len(Q) = p + 1 /\ Q[p + 1] = b /\ \A i \in 1 .. p : Q[i] = P[i]
  BY SeqFacts DEF Stream
<1>3. /\ \A i \in 1 .. p : S[i] = P[i]
      /\ S[p + 1] = b
      /\ \A i \in 1 .. w : S[p + 1 + i] = W[i]
  BY DEF Stream
<1> HIDE DEF p, w, Q
<1>4. \A i \in 1 .. (p + 1) : S[i] = Q[i]
  <2>1. \A i \in 1 .. (p + 1) : i \in 1 .. p \/ i = p + 1
    BY <1>1
  <2> QED BY <1>2, <1>3, <2>1
<1>5. ASSUME NEW i \in 1 .. w PROVE S[(p + 1) + 0 + i] = W[i]
  <2>1. (p + 1) + 0 + i = p + 1 + i
    BY <1>1
  <2> QED BY <1>3, <2>1
<1>6. N = (p + 1) + 0 + w
  BY <1>1
<1>7. IsSeq(W)
  BY DEF Stream
<1> QED BY <1>2, <1>4, <1>5, <1>6, <1>7 DEF Stream, w, Q

\* The packet is done with.
LEMMA StreamUsed ==
  ASSUME NEW S, NEW N, NEW P, NEW c, NEW W, Stream(S, N, P, 0, c, W),
         NEW S2, NEW k, k = Len(P), \A i \in 1 .. (N - k) : S2[i] = S[i + k]
  PROVE  Stream(S2, N - k, <<>>, 0, c, W)
<1> DEFINE w == Len(W)
<1>1. k \in Nat /\ w \in Nat /\ N = k + 0 + w
  BY StreamSizes
<1>2. \A i \in 1 .. w : S[k + 0 + i] = W[i]
  BY DEF Stream
<1>3. IsSeq(W) /\ IsSeq(<<>>) /\ Len(<<>>) = 0
  <2>1. <<>> \in Seq({})
    OBVIOUS
  <2> QED BY <2>1 DEF Stream, IsSeq
<1> HIDE DEF w
<1>4. ASSUME NEW i \in 1 .. w PROVE S2[0 + 0 + i] = W[i]
  <2>1. i \in 1 .. (N - k) /\ i + k = k + 0 + i /\ 0 + 0 + i = i
    BY <1>1
  <2> QED BY <1>2, <2>1
<1>5. N - k = 0 + 0 + w
  BY <1>1
<1> QED BY <1>3, <1>4, <1>5 DEF Stream, w

\* The byte is left out.
LEMMA StreamSkipped ==
  ASSUME NEW S, NEW N, NEW b, NEW W, Stream(S, N, <<>>, 1, b, W), NEW c,
         NEW S2, \A i \in 1 .. (N - 1) : S2[i] = S[i + 1]
  PROVE  Stream(S2, N - 1, <<>>, 0, c, W) /\ N >= 1
<1> DEFINE Q == Append(<<>>, b)
<1>0. Len(<<>>) = 0 /\ 1 = Len(Q)
  OBVIOUS
<1>1. Stream(S, N, Q, 0, c, W)
  BY StreamPacked
<1> HIDE DEF Q
<1>2. Stream(S2, N - 1, <<>>, 0, c, W)
  <2>1. ASSUME NEW k, k = Len(Q), \A i \in 1 .. (N - k) : S2[i] = S[i + k]
        PROVE  Stream(S2, N - k, <<>>, 0, c, W)
    BY ONLY <1>1, <2>1, StreamUsed, Zenon
  <2> QED BY <1>0, <2>1, Zenon
<1>3. Len(W) \in Nat /\ N = 0 + 1 + Len(W)
  BY <1>0, StreamSizes
<1> QED BY <1>2, <1>3

\* Bytes come behind.
LEMMA StreamGrown ==
  ASSUME NEW S, NEW N, NEW P, NEW a, NEW b, NEW W, Stream(S, N, P, a, b, W),
         NEW V, IsSeq(V), Len(V) = 3, NEW S2,
         \A i \in 1 .. N : S2[i] = S[i], \A i \in {1, 2, 3} : S2[N + i] = V[i]
  PROVE  Stream(S2, N + 3, P, a, b, W \o V)
<1> DEFINE p == Len(P)
           w == Len(W)
<1>1. p \in Nat /\ w \in Nat /\ a \in {0, 1} /\ N = p + a + w
  BY StreamSizes
<1>2. /\ IsSeq(W \o V) /\ Len(W \o V) = w + 3
      /\ \A i \in 1 .. (w + 3) : (W \o V)[i] = IF i <= w THEN W[i] ELSE V[i - w]
  <2>1. PICK T1 : W \in Seq(T1)
    BY DEF Stream, IsSeq
  <2>2. PICK T2 : V \in Seq(T2)
    BY DEF IsSeq
  <2>3. W \in Seq(T1 \cup T2) /\ V \in Seq(T1 \cup T2)
    BY <2>1, <2>2
  <2>4. /\ W \o V \in Seq(T1 \cup T2) /\ Len(W \o V) = Len(W) + Len(V)
        /\ \A i \in 1 .. Len(W) + Len(V) : (W \o V)[i] =
               IF i <= Len(W) THEN W[i] ELSE V[i - Len(W)]
    BY <2>3, ConcatProperties
  <2> QED BY <2>4 DEF IsSeq
<1>3. /\ \A i \in 1 .. p : S[i] = P[i]
      /\ a = 1 => S[p + 1] = b
      /\ \A i \in 1 .. w : S[p + a + i] = W[i]
  BY DEF Stream
<1> HIDE DEF p, w
<1>4. \A i \in 1 .. p : S2[i] = P[i]
  <2>1. \A i \in 1 .. p : i \in 1 .. N
    BY <1>1
  <2> QED BY <1>3, <2>1
<1>5. a = 1 => S2[p + 1] = b
  <2>1. a = 1 => p + 1 \in 1 .. N
    BY <1>1
  <2> QED BY <1>3, <2>1
<1>6. ASSUME NEW i \in 1 .. (w + 3) PROVE S2[p + a + i] = (W \o V)[i]
  <2>1. CASE i <= w
    <3>1. i \in 1 .. w /\ p + a + i \in 1 .. N
      BY <1>1, <2>1
    <3> QED BY <1>2, <1>3, <2>1, <3>1
  <2>2. CASE ~(i <= w)
    <3>1. i - w \in {1, 2, 3} /\ p + a + i = N + (i - w)
      BY <1>1, <2>2
    <3> QED BY <1>2, <2>2, <3>1
  <2> QED BY <2>1, <2>2
<1>7. N + 3 = p + a + (w + 3)
  BY <1>1
<1>8. IsSeq(P)
  BY DEF Stream
<1> QED BY <1>1, <1>2, <1>4, <1>5, <1>6, <1>7, <1>8 DEF Stream, p

\* The next byte in the mouse is lost: l is its place.
LEMMA StreamLost ==
  ASSUME NEW S, NEW N, NEW P, NEW a, NEW b, NEW W, Stream(S, N, P, a, b, W), W # <<>>,
         NEW l, l = Len(P) + a + 1, NEW S2,
         \A i \in 1 .. (l - 1) : S2[i] = S[i], \A i \in l .. (N - 1) : S2[i] = S[i + 1]
  PROVE  Stream(S2, N - 1, P, a, b, Tail(W)) /\ l \in 1 .. N
<1> DEFINE p == Len(P)
           w == Len(W)
<1>1. p \in Nat /\ w \in Nat /\ a \in {0, 1} /\ N = p + a + w
  BY StreamSizes
<1>2. /\ IsSeq(Tail(W)) /\ Len(Tail(W)) = w - 1 /\ w >= 1
      /\ \A i \in 1 .. (w - 1) : Tail(W)[i] = W[i + 1]
  BY SeqRest DEF Stream
<1>3. /\ \A i \in 1 .. p : S[i] = P[i]
      /\ a = 1 => S[p + 1] = b
      /\ \A i \in 1 .. w : S[p + a + i] = W[i]
  BY DEF Stream
<1>L. l = p + a + 1
  OBVIOUS
<1> HIDE DEF p, w
<1>4. \A i \in 1 .. p : S2[i] = P[i]
  <2>1. \A i \in 1 .. p : i \in 1 .. (l - 1)
    BY <1>1, <1>L
  <2> QED BY <1>3, <2>1
<1>5. a = 1 => S2[p + 1] = b
  <2>1. a = 1 => p + 1 \in 1 .. (l - 1)
    BY <1>1, <1>L
  <2> QED BY <1>3, <2>1
<1>6. ASSUME NEW i \in 1 .. (w - 1) PROVE S2[p + a + i] = Tail(W)[i]
  <2>0. a \in Int /\ i \in Int /\ i >= 1 /\ i <= w - 1
    BY <1>1
  <2>1. p + a + i \in l .. (N - 1) /\ i + 1 \in 1 .. w /\ (p + a + i) + 1 = p + a + (i + 1)
    <3>1. p + a + i \in Int /\ l <= p + a + i /\ p + a + i <= N - 1
      BY <1>1, <1>L, <2>0
    <3>2. i + 1 \in 1 .. w /\ (p + a + i) + 1 = p + a + (i + 1)
      BY <1>1, <2>0
    <3>3. l \in Int /\ N - 1 \in Int
      BY <1>1, <1>L, <2>0
    <3> QED BY <3>1, <3>2, <3>3
  <2>2. S2[p + a + i] = S[(p + a + i) + 1]
    BY <2>1
  <2> QED BY <1>2, <1>3, <2>1, <2>2
<1>7. N - 1 = p + a + (w - 1) /\ l \in 1 .. N
  BY <1>1, <1>2, <1>L
<1>8. IsSeq(P)
  BY DEF Stream
<1> QED BY <1>1, <1>2, <1>4, <1>5, <1>6, <1>7, <1>8 DEF Stream, p

----------------------------------------------------------------------------
(* From the packet machine to the reader *)

Slots == MOUSE_BUF_SIZE

\* The mouse's ring has two slots at least: MOUSE_BUF_SIZE.
LEMMA SlotsFacts == Slots \in Nat \ {0, 1}
BY RingAssumption DEF Slots

MouseRing(q) == /\ q = [buf |-> q.buf, head |-> q.head, tail |-> q.tail, packet |-> q.packet]
                /\ Ring(Slots, q)

Mixed(E, T) == {i \in 1 .. T : ~Whole(E[i])}

\* The packets still to come are whole, and the machine stands before one.
Aligned(S, N) == N % 3 = 0 /\ \A i \in 1 .. N : i % 3 = 1 => S[i].bit3 /\ Complete(S, N, i)

(***************************************************************************)
(* The T events that came out against the bytes still to come: a whole one *)
(* is of an earlier packet than the events behind it and than the bytes to *)
(* come; every event that mixes packets, like every byte that is bound to  *)
(* give one, has been paid for; and with no slip there are none.           *)
(***************************************************************************)
EventsOK(E, T, S, N, m, lost, slip) ==
  /\ \A i \in 1 .. T : E[i][1] \in 1 .. m
  /\ \A i, j \in 1 .. T : i < j /\ Whole(E[i]) => E[i][1] < E[j][1]
  /\ \A i \in 1 .. T, j \in 1 .. N : Whole(E[i]) /\ S[j].pkt > 0 => E[i][1] < S[j].pkt
  /\ Cardinality(Mixed(E, T)) + Cardinality(Broken(S, N)) <= lost
  /\ slip = 0 => Mixed(E, T) = {} /\ Aligned(S, N)

\* What is of a movement in S2 is so in S, or is new.
Comes(S2, N2, S, N, m) ==
  \A j \in 1 .. N2 : S2[j].pkt > 0 => (\E i \in 1 .. N : S2[j] = S[i]) \/ S2[j].pkt = m + 1

\* Whatever more is broken has been paid for.
Costs(S2, N2, lost2, S, N, lost) ==
  Cardinality(Broken(S2, N2)) + lost <= Cardinality(Broken(S, N)) + lost2

\* A slip is not undone, and with none the packets stay whole.
Slides(S2, N2, slip2, slip) == slip2 = 0 => slip = 0 /\ Aligned(S2, N2)

\* Nothing comes out.
LEMMA EventsSame ==
  ASSUME NEW E, NEW T \in Nat, NEW S, NEW N \in Nat, NEW m \in Nat, NEW lost \in Nat,
         NEW slip \in Nat, EventsOK(E, T, S, N, m, lost, slip),
         NEW S2, NEW N2 \in Nat, NEW m2 \in Nat, m2 >= m, NEW lost2 \in Nat, NEW slip2 \in Nat,
         Comes(S2, N2, S, N, m), Costs(S2, N2, lost2, S, N, lost), Slides(S2, N2, slip2, slip)
  PROVE  EventsOK(E, T, S2, N2, m2, lost2, slip2)
<1>1. \A i \in 1 .. T : E[i][1] \in 1 .. m /\ E[i][1] \in 1 .. m2
  BY DEF EventsOK
<1>2. ASSUME NEW i \in 1 .. T, NEW j \in 1 .. N2, Whole(E[i]), S2[j].pkt > 0
      PROVE  E[i][1] < S2[j].pkt
  BY <1>1, <1>2 DEF EventsOK, Comes
<1>3. Mixed(E, T) \subseteq 1 .. T /\ Broken(S, N) \subseteq 1 .. N /\ Broken(S2, N2) \subseteq 1 .. N2
  BY DEF Mixed, Broken
<1>4. /\ Cardinality(Mixed(E, T)) \in Nat /\ Cardinality(Broken(S, N)) \in Nat
      /\ Cardinality(Broken(S2, N2)) \in Nat
  BY <1>3, PositionsFinite
<1>5. Cardinality(Mixed(E, T)) + Cardinality(Broken(S2, N2)) <= lost2
  BY <1>4 DEF EventsOK, Costs
<1>6. slip2 = 0 => Mixed(E, T) = {} /\ Aligned(S2, N2)
  BY DEF EventsOK, Slides
<1> QED BY <1>1, <1>2, <1>5, <1>6 DEF EventsOK

\* Three bytes go, and the packets behind them are as whole as before.
LEMMA AlignedTaken ==
  ASSUME NEW S, NEW N \in Nat, Aligned(S, N), N >= 3,
         NEW S2, NEW N2, N2 = N - 3, \A i \in 1 .. N2 : S2[i] = S[i + 3]
  PROVE  Aligned(S2, N2)
<1>1. N2 \in Nat /\ N2 % 3 = 0
  BY DEF Aligned
<1>2. ASSUME NEW i \in 1 .. N2, i % 3 = 1
      PROVE  S2[i].bit3 /\ Complete(S2, N2, i)
  <2>1. i + 3 \in 1 .. N /\ (i + 3) % 3 = 1 /\ S2[i] = S[i + 3]
    BY <1>1, <1>2
  <2>2. S[i + 3].bit3 /\ Complete(S, N, i + 3)
    BY <2>1 DEF Aligned
  <2>3. /\ (i + 3) + 2 <= N /\ S[(i + 3) + 1].pkt = S[i + 3].pkt /\ S[(i + 3) + 2].pkt = S[i + 3].pkt
    BY <2>2 DEF Complete
  <2>4. /\ i + 1 \in 1 .. N2 /\ i + 2 \in 1 .. N2 /\ i + 2 <= N2
        /\ (i + 1) + 3 = (i + 3) + 1 /\ (i + 2) + 3 = (i + 3) + 2
    BY <1>1, <2>3
  <2>5. S2[i + 1] = S[(i + 1) + 3] /\ S2[i + 2] = S[(i + 2) + 3]
    BY <2>4
  <2> QED BY <2>1, <2>2, <2>3, <2>4, <2>5 DEF Complete
<1> QED BY <1>1, <1>2 DEF Aligned

\* A movement's three come behind.
LEMMA AlignedGrown ==
  ASSUME NEW S, NEW N \in Nat, Aligned(S, N), NEW S2, \A i \in 1 .. N : S2[i] = S[i],
         S2[N + 1].bit3, S2[N + 2].pkt = S2[N + 1].pkt, S2[N + 3].pkt = S2[N + 1].pkt
  PROVE  Aligned(S2, N + 3)
<1>1. N % 3 = 0 /\ (N + 3) % 3 = 0
  BY DEF Aligned
<1>2. ASSUME NEW i \in 1 .. (N + 3), i % 3 = 1
      PROVE  S2[i].bit3 /\ Complete(S2, N + 3, i)
  <2>1. CASE i \in 1 .. N
    <3>1. S[i].bit3 /\ Complete(S, N, i)
      BY <1>2, <2>1 DEF Aligned
    <3>2. i + 2 <= N /\ S[i + 1].pkt = S[i].pkt /\ S[i + 2].pkt = S[i].pkt
      BY <3>1 DEF Complete
    <3>3. i + 1 \in 1 .. N /\ i + 2 \in 1 .. N /\ i + 2 <= N + 3
      BY <2>1, <3>2
    <3> QED BY <2>1, <3>1, <3>2, <3>3 DEF Complete
  <2>2. CASE i \notin 1 .. N
    <3>1. i = N + 1 \/ i = N + 2 \/ i = N + 3
      BY <2>2
    <3>2. i = N + 1
      <4>1. (N + 2) % 3 = 2 /\ (N + 3) % 3 = 0
        BY <1>1
      <4> QED BY <1>2, <3>1, <4>1
    <3>3. i + 1 = N + 2 /\ i + 2 = N + 3 /\ i + 2 <= N + 3
      BY <3>2
    <3> QED BY <3>2, <3>3 DEF Complete
  <2> QED BY <2>1, <2>2
<1> QED BY <1>1, <1>2 DEF Aligned

\* The first three bytes of S are the event v behind those of E.
OneOut(E, T, S, N, E2, v, S2, N2) ==
  /\ N >= 3 /\ Lead(S[1]) /\ N2 = N - 3 /\ \A i \in 1 .. N2 : S2[i] = S[i + 3]
  /\ \A i \in 1 .. T : E2[i] = E[i]
  /\ E2[T + 1] = v /\ v[1] = S[1].pkt /\ v[2] = S[2].pkt /\ v[3] = S[3].pkt

\* The three bytes of a packet come out as an event v.
LEMMA EventsMore ==
  ASSUME NEW E, NEW T \in Nat, NEW S, NEW N \in Nat, NEW m \in Nat, NEW lost \in Nat, NEW slip \in Nat,
         EventsOK(E, T, S, N, m, lost, slip), StreamOK(S, N, m),
         NEW S2, NEW N2, NEW E2, NEW v, OneOut(E, T, S, N, E2, v, S2, N2)
  PROVE  EventsOK(E2, T + 1, S2, N2, m, lost, slip)
<1>O. /\ N >= 3 /\ Lead(S[1]) /\ N2 = N - 3 /\ \A i \in 1 .. N2 : S2[i] = S[i + 3]
      /\ \A i \in 1 .. T : E2[i] = E[i]
      /\ E2[T + 1] = v /\ v[1] = S[1].pkt /\ v[2] = S[2].pkt /\ v[3] = S[3].pkt
  BY DEF OneOut
<1> DEFINE A == Mixed(E, T)
           A2 == Mixed(E2, T + 1)
           B == Broken(S, N)
           B2 == Broken(S2, N2)
<1>0. N2 \in Nat /\ 3 \in 1 .. N /\ 1 \in 1 .. N
  BY <1>O
<1>1. \A i \in 1 .. (T + 1) : i \in 1 .. T \/ i = T + 1
  OBVIOUS
<1>2. v[1] \in 1 .. m
  BY <1>O, <1>0 DEF StreamOK, Lead
<1>3. \A i \in 1 .. T : E2[i] = E[i] /\ E[i][1] \in 1 .. m /\ (Whole(E[i]) => E[i][1] < v[1])
  BY <1>O, <1>0 DEF EventsOK, Lead
<1>4. ASSUME NEW j \in 1 .. N2, S2[j].pkt > 0
      PROVE  v[1] < S2[j].pkt /\ \A i \in 1 .. T : Whole(E[i]) => E[i][1] < S2[j].pkt
  <2>1. j + 3 \in 1 .. N /\ S2[j] = S[j + 3] /\ 1 \in 1 .. ((j + 3) - 1) /\ (j + 3) - 1 >= 3
    BY <1>O, <1>0
  <2>2. Before(S[1], S[j + 3], (j + 3) - 1)
    BY <2>1 DEF StreamOK
  <2> QED BY <1>O, <1>4, <2>1, <2>2 DEF EventsOK, Before
<1>5. A \subseteq 1 .. T /\ A2 \subseteq 1 .. (T + 1) /\ B \subseteq 1 .. N /\ B2 \subseteq 1 .. N2
  BY DEF Mixed, Broken
<1>6. /\ Cardinality(A) \in Nat /\ Cardinality(A2) \in Nat /\ Cardinality(B) \in Nat
      /\ Cardinality(B2) \in Nat /\ IsFiniteSet(A)
  <2>1. T + 1 \in Nat
    OBVIOUS
  <2> QED BY <1>0, <1>5, <2>1, PositionsFinite
<1>7. /\ Cardinality(B2) <= Cardinality(B)
      /\ 1 \in B => Cardinality(B2) + 1 <= Cardinality(B)
  BY <1>O, <1>0, FrontTaken
<1>A. slip = 0 => A = {} /\ Aligned(S2, N2) /\ Whole(v)
  <2> SUFFICES ASSUME slip = 0 PROVE A = {} /\ Aligned(S2, N2) /\ Whole(v)
    OBVIOUS
  <2>1. A = {} /\ Aligned(S, N)
    BY DEF EventsOK
  <2>2. Complete(S, N, 1)
    BY <1>0, <2>1 DEF Aligned
  <2>3. Aligned(S2, N2)
    BY <1>O, <2>1, AlignedTaken
  <2> QED BY <1>O, <2>1, <2>2, <2>3 DEF Complete, Whole
<1>8. CASE Whole(v)
  <2>1. A2 = A
    BY <1>O, <1>1, <1>3, <1>8 DEF Mixed
  <2>2. Cardinality(A2) + Cardinality(B2) <= lost
    <3>1. Cardinality(A) + Cardinality(B) <= lost
      BY DEF EventsOK
    <3> HIDE DEF A, A2, B, B2
    <3> QED BY <1>6, <1>7, <2>1, <3>1
  <2> QED BY <1>O, <1>1, <1>2, <1>3, <1>4, <1>A, <2>1, <2>2 DEF EventsOK
<1>9. CASE ~Whole(v)
  <2>1. 1 \in B
    <3>1. ~Complete(S, N, 1)
      BY <1>O, <1>9 DEF Complete, Whole
    <3> QED BY <1>O, <1>0, <3>1 DEF Broken
  <2>2. A2 = A \cup {T + 1} /\ T + 1 \notin A
    BY <1>O, <1>1, <1>3, <1>9 DEF Mixed
  <2>3. Cardinality(A2) = Cardinality(A) + 1
    <3> HIDE DEF A, A2
    <3> QED BY <1>6, <2>2, FS_AddElement
  <2>4. Cardinality(A2) + Cardinality(B2) <= lost
    <3>1. Cardinality(A) + Cardinality(B) <= lost
      BY DEF EventsOK
    <3> HIDE DEF A, A2, B, B2
    <3> QED BY <1>6, <1>7, <2>1, <2>3, <3>1
  <2> QED BY <1>O, <1>1, <1>2, <1>3, <1>4, <1>9, <1>A, <2>4 DEF EventsOK
<1> QED BY <1>8, <1>9

Evs(ev, q) == [i \in 1 .. Entries(Slots, ev, q) |-> EntryAt(Slots, ev, q, i)]

Aux(o) == IF o.full /\ o.aux THEN 1 ELSE 0

PacketOK(P) == Len(P) <= 2 /\ (Len(P) > 0 => P[1].bit3)

(***************************************************************************)
(* The mouse's path: its bytes W, the controller o, the driver's q, and    *)
(* the events ev that have been read, after m packets and lost bytes.      *)
(***************************************************************************)
MousePath(ev, q, o, W, m, lost, slip) ==
  /\ IsSeq(ev) /\ MouseRing(q) /\ m \in Nat /\ lost \in Nat /\ slip \in Nat
  /\ PacketOK(q.packet)
  /\ \E S, N : /\ Stream(S, N, q.packet, Aux(o), o.byte, W) /\ StreamOK(S, N, m)
               /\ EventsOK(Evs(ev, q), Entries(Slots, ev, q), S, N, m, lost, slip)

\* How many events there are.
LEMMA EventCount ==
  ASSUME NEW ev, IsSeq(ev), NEW q, MouseRing(q)
  PROVE  /\ Entries(Slots, ev, q) \in Nat /\ Len(ev) \in Nat /\ Used(Slots, q) \in 0 .. (Slots - 1)
         /\ Entries(Slots, ev, q) = Len(ev) + Used(Slots, q)
         /\ \A i \in 1 .. Entries(Slots, ev, q) : Evs(ev, q)[i] = EntryAt(Slots, ev, q, i)
<1>1. Used(Slots, q) \in 0 .. (Slots - 1) /\ Len(ev) \in Nat /\ Slots \in Nat
  BY UsedValue, SeqFacts, SlotsFacts DEF MouseRing, Ring
<1> QED BY <1>1 DEF Entries, Evs

\* A movement.
LEMMA PathMoved ==
  ASSUME NEW ev, NEW q, NEW o, NEW W, NEW m, NEW lost, NEW slip, MousePath(ev, q, o, W, m, lost, slip),
         NEW V, IsSeq(V), Len(V) = 3,
         \A i \in {1, 2, 3} : V[i].pkt = m + 1, V[1].bit3,
         NEW x \in BOOLEAN, NEW y \in BOOLEAN, V[2].bit3 => x, V[3].bit3 => y
  PROVE  MousePath(ev, q, o, W \o V, m + 1, lost + (One(x) + One(y)), slip)
<1> DEFINE T == Entries(Slots, ev, q)
           E == Evs(ev, q)
<1>1. PICK S, N : /\ Stream(S, N, q.packet, Aux(o), o.byte, W) /\ StreamOK(S, N, m)
                  /\ EventsOK(E, T, S, N, m, lost, slip)
  BY DEF MousePath
<1>2. N \in Nat /\ m \in Nat /\ lost \in Nat /\ slip \in Nat /\ T \in Nat
  BY <1>1, StreamSizes, EventCount DEF MousePath
<1> DEFINE S2 == [i \in 1 .. (N + 3) |-> IF i <= N THEN S[i] ELSE V[i - N]]
<1>3. /\ \A i \in 1 .. N : S2[i] = S[i]
      /\ \A i \in {1, 2, 3} : S2[N + i] = V[i]
  <2>1. \A i \in 1 .. N : i \in 1 .. (N + 3) /\ i <= N
    BY <1>2
  <2>2. \A i \in {1, 2, 3} : N + i \in 1 .. (N + 3) /\ ~(N + i <= N) /\ (N + i) - N = i
    BY <1>2
  <2> QED BY ONLY <2>1, <2>2
<1> HIDE DEF S2, T, E
<1>4. Stream(S2, N + 3, q.packet, Aux(o), o.byte, W \o V)
  BY <1>1, <1>3, StreamGrown
<1>5. /\ \A i \in {1, 2, 3} : S2[N + i].pkt = m + 1
      /\ S2[N + 1] = V[1] /\ S2[N + 2] = V[2] /\ S2[N + 3] = V[3]
  BY <1>3
<1> DEFINE more == One(x) + One(y)
<1>M. more \in Nat
  BY DEF One
<1>6. /\ StreamOK(S2, N + 3, m + 1)
      /\ Cardinality(Broken(S2, N + 3)) <= Cardinality(Broken(S, N)) + more
  <2>1. (S2[N + 2].bit3 => x) /\ (S2[N + 3].bit3 => y)
    BY <1>5
  <2> QED BY <1>1, <1>2, <1>3, <1>5, <2>1, BackGrown
<1> HIDE DEF more
<1>7. ASSUME NEW j \in 1 .. (N + 3)
      PROVE  (\E i \in 1 .. N : S2[j] = S[i]) \/ S2[j].pkt = m + 1
  <2>1. CASE j \in 1 .. N
    BY <1>3, <2>1
  <2>2. CASE j \notin 1 .. N
    <3>1. j = N + 1 \/ j = N + 2 \/ j = N + 3
      BY <1>2, <2>2
    <3> QED BY <1>5, <3>1
  <2> QED BY <2>1, <2>2
<1>8. EventsOK(E, T, S2, N + 3, m + 1, lost + more, slip)
  <2>1. Broken(S, N) \subseteq 1 .. N /\ Broken(S2, N + 3) \subseteq 1 .. (N + 3) /\ N + 3 \in Nat
    BY <1>2 DEF Broken
  <2>2. Cardinality(Broken(S, N)) \in Nat /\ Cardinality(Broken(S2, N + 3)) \in Nat
    BY <1>2, <2>1, PositionsFinite
  <2>3. /\ m + 1 \in Nat /\ m + 1 >= m /\ lost + more \in Nat
        /\ Costs(S2, N + 3, lost + more, S, N, lost)
    BY <1>2, <1>6, <1>M, <2>2 DEF Costs
  <2>4. Comes(S2, N + 3, S, N, m)
    BY <1>7 DEF Comes
  <2>5. Slides(S2, N + 3, slip, slip)
    <3> SUFFICES ASSUME slip = 0 PROVE Aligned(S2, N + 3)
      BY DEF Slides
    <3>1. Aligned(S, N)
      BY <1>1 DEF EventsOK
    <3>2. S2[N + 1].bit3 /\ S2[N + 2].pkt = S2[N + 1].pkt /\ S2[N + 3].pkt = S2[N + 1].pkt
      BY <1>5
    <3> QED BY <1>2, <1>3, <3>1, <3>2, AlignedGrown
  <2> QED BY <1>1, <1>2, <2>1, <2>3, <2>4, <2>5, EventsSame
<1>9. lost + more \in Nat
  BY <1>2, <1>M
<1> QED BY <1>2, <1>4, <1>6, <1>8, <1>9 DEF MousePath, T, E, more

\* A byte is lost on the wire.
LEMMA PathLost ==
  ASSUME NEW ev, NEW q, NEW o, NEW W, NEW m, NEW lost, NEW slip, MousePath(ev, q, o, W, m, lost, slip), W # <<>>
  PROVE  MousePath(ev, q, o, Tail(W), m, lost + 1, slip + 1)
<1> DEFINE T == Entries(Slots, ev, q)
           E == Evs(ev, q)
           P == q.packet
           a == Aux(o)
           l == Len(P) + a + 1
<1>1. PICK S, N : /\ Stream(S, N, P, a, o.byte, W) /\ StreamOK(S, N, m)
                  /\ EventsOK(E, T, S, N, m, lost, slip)
  BY DEF MousePath
<1>2. N \in Nat /\ m \in Nat /\ lost \in Nat /\ slip \in Nat /\ T \in Nat /\ l \in Nat
  BY <1>1, StreamSizes, EventCount DEF MousePath
<1> DEFINE S2 == [i \in 1 .. N |-> IF i < l THEN S[i] ELSE S[i + 1]]
<1>3. l \in 1 .. N
  <2>1. Len(P) \in Nat /\ Len(W) \in Nat /\ a \in {0, 1} /\ N = Len(P) + a + Len(W)
    BY <1>1, StreamSizes
  <2>2. Len(W) >= 1
    BY <1>1, SeqRest DEF Stream
  <2> HIDE DEF a, P
  <2> QED BY <2>1, <2>2
<1> HIDE DEF l
<1>4. /\ \A i \in 1 .. (l - 1) : S2[i] = S[i]
      /\ \A i \in l .. (N - 1) : S2[i] = S[i + 1]
  BY <1>2, <1>3
<1> HIDE DEF S2, T, E, a, P
<1>5. Stream(S2, N - 1, P, a, o.byte, Tail(W))
  BY <1>1, <1>4, StreamLost DEF l
<1>6. /\ StreamOK(S2, N - 1, m)
      /\ Cardinality(Broken(S2, N - 1)) <= Cardinality(Broken(S, N)) + 1
  BY <1>1, <1>2, <1>3, <1>4, OneLost
<1>7. ASSUME NEW j \in 1 .. (N - 1)
      PROVE  \E i \in 1 .. N : S2[j] = S[i]
  <2>1. CASE j < l
    <3>1. j \in 1 .. (l - 1) /\ j \in 1 .. N
      BY <1>2, <2>1
    <3> QED BY <1>4, <3>1
  <2>2. CASE ~(j < l)
    <3>1. j \in l .. (N - 1) /\ j + 1 \in 1 .. N
      BY <1>2, <1>3, <2>2
    <3> QED BY <1>4, <3>1
  <2> QED BY <2>1, <2>2
<1>8. EventsOK(E, T, S2, N - 1, m, lost + 1, slip + 1)
  <2>1. Broken(S, N) \subseteq 1 .. N /\ Broken(S2, N - 1) \subseteq 1 .. (N - 1) /\ N - 1 \in Nat
    BY <1>2, <1>3 DEF Broken
  <2>2. Cardinality(Broken(S, N)) \in Nat /\ Cardinality(Broken(S2, N - 1)) \in Nat
    BY <1>2, <2>1, PositionsFinite
  <2>3. /\ m >= m /\ lost + 1 \in Nat /\ slip + 1 \in Nat /\ slip + 1 # 0
        /\ Costs(S2, N - 1, lost + 1, S, N, lost)
    BY <1>2, <1>6, <2>2 DEF Costs
  <2>4. Comes(S2, N - 1, S, N, m)
    BY <1>7 DEF Comes
  <2>5. Slides(S2, N - 1, slip + 1, slip)
    BY <2>3 DEF Slides
  <2> QED BY <1>1, <1>2, <2>1, <2>3, <2>4, <2>5, EventsSame
<1> QED BY <1>2, <1>5, <1>6, <1>8 DEF MousePath, T, E, a, P

\* Bytes are taken and nothing comes out.
LEMMA FrontGone ==
  ASSUME NEW E, NEW T \in Nat, NEW S, NEW N \in Nat, NEW m \in Nat, NEW lost \in Nat, NEW slip \in Nat,
         StreamOK(S, N, m), EventsOK(E, T, S, N, m, lost, slip), NEW k \in 1 .. N, slip = 0 => k = 3,
         NEW S2, NEW N2, N2 = N - k, \A i \in 1 .. N2 : S2[i] = S[i + k]
  PROVE  StreamOK(S2, N2, m) /\ EventsOK(E, T, S2, N2, m, lost, slip)
<1>0. N2 \in Nat /\ k \in Nat
  OBVIOUS
<1>1. StreamOK(S2, N2, m) /\ Cardinality(Broken(S2, N2)) <= Cardinality(Broken(S, N))
  BY FrontTaken
<1>2. Broken(S, N) \subseteq 1 .. N /\ Broken(S2, N2) \subseteq 1 .. N2
  BY DEF Broken
<1>3. Cardinality(Broken(S, N)) \in Nat /\ Cardinality(Broken(S2, N2)) \in Nat
  BY <1>0, <1>2, PositionsFinite
<1>4. Costs(S2, N2, lost, S, N, lost) /\ m >= m
  BY <1>1, <1>3 DEF Costs
<1>5. Comes(S2, N2, S, N, m)
  <2> SUFFICES ASSUME NEW j \in 1 .. N2 PROVE \E i \in 1 .. N : S2[j] = S[i]
    BY DEF Comes
  <2>1. j + k \in 1 .. N /\ S2[j] = S[j + k]
    BY <1>0
  <2> QED BY <2>1
<1>6. Slides(S2, N2, slip, slip)
  <2> SUFFICES ASSUME slip = 0 PROVE Aligned(S2, N2)
    BY DEF Slides
  <2>1. Aligned(S, N) /\ k = 3 /\ N >= 3
    BY DEF EventsOK
  <2> QED BY <2>1, AlignedTaken
<1>7. EventsOK(E, T, S2, N2, m, lost, slip)
  BY <1>0, <1>4, <1>5, <1>6, EventsSame
<1> QED BY <1>1, <1>7

\* The controller takes a byte from the mouse.
LEMMA PathLatch ==
  ASSUME NEW ev, NEW q, NEW o, NEW W, NEW m, NEW lost, NEW slip, MousePath(ev, q, o, W, m, lost, slip), W # <<>>,
         Aux(o) = 0, NEW o2, Aux(o2) = 1, o2.byte = Head(W)
  PROVE  MousePath(ev, q, o2, Tail(W), m, lost, slip)
<1>1. PICK S, N : /\ Stream(S, N, q.packet, Aux(o), o.byte, W) /\ StreamOK(S, N, m)
                  /\ EventsOK(Evs(ev, q), Entries(Slots, ev, q), S, N, m, lost, slip)
  BY DEF MousePath
<1>2. Stream(S, N, q.packet, 1, Head(W), Tail(W))
  BY <1>1, StreamLatched
<1>3. Stream(S, N, q.packet, Aux(o2), o2.byte, Tail(W))
  BY <1>2
<1> QED BY <1>1, <1>3 DEF MousePath

\* The controller takes or gives up a byte that is not the mouse's.
LEMMA PathOther ==
  ASSUME NEW ev, NEW q, NEW o, NEW W, NEW m, NEW lost, NEW slip, MousePath(ev, q, o, W, m, lost, slip),
         NEW o2, Aux(o2) = Aux(o), Aux(o) = 1 => o2.byte = o.byte
  PROVE  MousePath(ev, q, o2, W, m, lost, slip)
<1>1. PICK S, N : /\ Stream(S, N, q.packet, Aux(o), o.byte, W) /\ StreamOK(S, N, m)
                  /\ EventsOK(Evs(ev, q), Entries(Slots, ev, q), S, N, m, lost, slip)
  BY DEF MousePath
<1>2. Stream(S, N, q.packet, Aux(o2), o2.byte, W)
  BY <1>1 DEF Stream
<1> QED BY <1>1, <1>2 DEF MousePath

\* Rings with the same slots and indices.
SameRing(q, q2) == q2.buf = q.buf /\ q2.head = q.head /\ q2.tail = q.tail

\* They have the same events.
LEMMA SameEvents ==
  ASSUME NEW ev, NEW q, NEW q2, SameRing(q, q2)
  PROVE  /\ Used(Slots, q2) = Used(Slots, q) /\ Entries(Slots, ev, q2) = Entries(Slots, ev, q)
         /\ Evs(ev, q2) = Evs(ev, q) /\ (Ring(Slots, q) => Ring(Slots, q2))
         /\ (Full(q2, Slots) <=> Full(q, Slots))
BY DEF SameRing, Used, Entries, EntryAt, Evs, Ring, Full

\* mouse_irq_handler, given a byte.
Packed(q, byte) ==
  LET packet == Append(q.packet, byte)
      r == [q EXCEPT !.packet = <<>>]
  IN  IF ~Opens(Len(q.packet), byte) THEN q
      ELSE IF ~(Len(packet) = 3) THEN [q EXCEPT !.packet = packet]
      ELSE IF packet[1].overflow THEN r
      ELSE Enqueued(r, MOUSE_BUF_SIZE, [i \in 1 .. 3 |-> packet[i].pkt])

\* The first event is still the first.
EventKept(q, q2) == Used(Slots, q) > 0 => Used(Slots, q2) > 0 /\ q2.buf[q2.tail] = q.buf[q.tail]

PathDone(ev, q, q2, o, W, m, lost, slip) == MousePath(ev, q2, o, W, m, lost, slip) /\ EventKept(q, q2)

\* A byte that no packet can begin with.
LEMMA ByteSkipped ==
  ASSUME NEW ev, NEW q, NEW o, NEW W, NEW m, NEW lost, NEW slip, MousePath(ev, q, o, W, m, lost, slip),
         Aux(o) = 1, NEW o2, Aux(o2) = 0, Len(q.packet) = 0, ~o.byte.bit3
  PROVE  MousePath(ev, q, o2, W, m, lost, slip)
<1> DEFINE T == Entries(Slots, ev, q)
           E == Evs(ev, q)
<1>1. PICK S, N : /\ Stream(S, N, q.packet, 1, o.byte, W) /\ StreamOK(S, N, m)
                  /\ EventsOK(E, T, S, N, m, lost, slip)
  BY DEF MousePath
<1>2. N \in Nat /\ m \in Nat /\ lost \in Nat /\ slip \in Nat /\ T \in Nat
  BY <1>1, StreamSizes, EventCount DEF MousePath
<1>3. q.packet = <<>>
  <2>1. PICK D : q.packet \in Seq(D)
    BY <1>1 DEF Stream, IsSeq
  <2> QED BY <2>1, EmptySeq
<1> DEFINE S2 == [i \in 1 .. (N - 1) |-> S[i + 1]]
<1>4. \A i \in 1 .. (N - 1) : S2[i] = S[i + 1]
  OBVIOUS
<1> HIDE DEF S2, T, E
<1>5. Stream(S2, N - 1, <<>>, 0, o2.byte, W) /\ N >= 1
  BY <1>1, <1>3, <1>4, StreamSkipped
<1>6. 1 \in 1 .. N
  BY <1>2, <1>5
<1>7. StreamOK(S2, N - 1, m) /\ EventsOK(E, T, S2, N - 1, m, lost, slip)
  <2>1. slip # 0
    <3>1. S[1] = o.byte
      <4>1. Len(q.packet) + 1 = 1
        OBVIOUS
      <4> QED BY <1>1, <4>1 DEF Stream
    <3>2. slip = 0 => Aligned(S, N)
      BY <1>1 DEF EventsOK
    <3>3. 1 % 3 = 1
      OBVIOUS
    <3> QED BY <1>6, <3>1, <3>2, <3>3 DEF Aligned
  <2> QED BY <1>1, <1>2, <1>4, <1>6, <2>1, FrontGone
<1> QED BY <1>3, <1>5, <1>7 DEF MousePath, T, E

\* The packet with one more byte.
Longer(q, byte, P) == P = Append(q.packet, byte) /\ Opens(Len(q.packet), byte)

\* A byte of a packet that is not the last.
LEMMA ByteKept ==
  ASSUME NEW ev, NEW q, NEW o, NEW W, NEW m, NEW lost, NEW slip, MousePath(ev, q, o, W, m, lost, slip),
         Aux(o) = 1, NEW o2, Aux(o2) = 0, NEW P, Longer(q, o.byte, P), Len(P) # 3,
         NEW q2, q2 = [q EXCEPT !.packet = P]
  PROVE  MousePath(ev, q2, o2, W, m, lost, slip) /\ SameRing(q, q2)
<1>1. PICK S, N : /\ Stream(S, N, q.packet, 1, o.byte, W) /\ StreamOK(S, N, m)
                  /\ EventsOK(Evs(ev, q), Entries(Slots, ev, q), S, N, m, lost, slip)
  BY DEF MousePath
<1>2. q = [buf |-> q.buf, head |-> q.head, tail |-> q.tail, packet |-> q.packet] /\ Ring(Slots, q)
  BY DEF MousePath, MouseRing
<1>3. q2 = [buf |-> q.buf, head |-> q.head, tail |-> q.tail, packet |-> P]
  BY <1>2
<1>4. SameRing(q, q2) /\ q2.packet = P
  BY <1>3 DEF SameRing
<1>5. MouseRing(q2) /\ Evs(ev, q2) = Evs(ev, q) /\ Entries(Slots, ev, q2) = Entries(Slots, ev, q)
  BY <1>2, <1>3, <1>4, SameEvents DEF MouseRing
<1>6. Stream(S, N, P, 0, o2.byte, W)
  <2>1. Stream(S, N, Append(q.packet, o.byte), 0, o2.byte, W)
    BY <1>1, StreamPacked
  <2> QED BY <2>1 DEF Longer
<1>7. PacketOK(P)
  <2>1. IsSeq(q.packet) /\ PacketOK(q.packet)
    BY <1>1 DEF MousePath, Stream
  <2>2. /\ Len(q.packet) \in Nat /\ Len(P) = Len(q.packet) + 1 /\ P[Len(q.packet) + 1] = o.byte
        /\ \A i \in 1 .. Len(q.packet) : P[i] = q.packet[i]
    BY <2>1, SeqFacts DEF Longer
  <2>3. Len(P) <= 2
    BY <2>1, <2>2 DEF PacketOK
  <2>4. CASE Len(q.packet) = 0
    <3>1. P[1] = o.byte /\ o.byte.bit3
      BY <2>2, <2>4 DEF Longer, Opens
    <3> QED BY <2>3, <3>1 DEF PacketOK
  <2>5. CASE Len(q.packet) # 0
    <3>1. P[1] = q.packet[1] /\ q.packet[1].bit3
      BY <2>1, <2>2, <2>5 DEF PacketOK
    <3> QED BY <2>3, <3>1 DEF PacketOK
  <2> QED BY <2>4, <2>5
<1>8. MousePath(ev, q2, o2, W, m, lost, slip)
  BY <1>1, <1>4, <1>5, <1>6, <1>7 DEF MousePath
<1> QED BY <1>4, <1>8

EventOf(P, v) == v = [i \in 1 .. 3 |-> P[i].pkt]

\* The third byte: the packet is used, and gives no event or the event v.
LEMMA ByteThird ==
  ASSUME NEW ev, NEW q, NEW o, NEW W, NEW m, NEW lost, NEW slip, MousePath(ev, q, o, W, m, lost, slip),
         Aux(o) = 1, NEW o2, Aux(o2) = 0,
         NEW P, Longer(q, o.byte, P), Len(P) = 3, NEW v, EventOf(P, v),
         NEW q2, MouseRing(q2), q2.packet = <<>>,
         \/ SameRing(q, q2)
         \/ PutIn(Slots, ev, q, q2, v) /\ ~P[1].overflow
  PROVE  MousePath(ev, q2, o2, W, m, lost, slip)
<1> DEFINE T == Entries(Slots, ev, q)
           E == Evs(ev, q)
           T2 == Entries(Slots, ev, q2)
           E2 == Evs(ev, q2)
<1>1. PICK S, N : /\ Stream(S, N, q.packet, 1, o.byte, W) /\ StreamOK(S, N, m)
                  /\ EventsOK(E, T, S, N, m, lost, slip)
  BY DEF MousePath
<1>2. N \in Nat /\ m \in Nat /\ lost \in Nat /\ slip \in Nat /\ T \in Nat /\ IsSeq(ev)
  BY <1>1, StreamSizes, EventCount DEF MousePath
<1>3. Stream(S, N, P, 0, o2.byte, W)
  <2>1. Stream(S, N, Append(q.packet, o.byte), 0, o2.byte, W)
    BY <1>1, StreamPacked
  <2> QED BY <2>1 DEF Longer
<1>4. N >= 3 /\ 3 \in 1 .. N
  <2>1. \A c, p : Stream(S, N, p, 0, c, W) => Len(W) \in Nat /\ N = Len(p) + 0 + Len(W)
    BY StreamSizes
  <2>2. Len(W) \in Nat /\ N = Len(P) + 0 + Len(W)
    BY <1>3, <2>1
  <2> QED BY <2>2
<1> DEFINE S2 == [i \in 1 .. (N - 3) |-> S[i + 3]]
<1>5. \A i \in 1 .. (N - 3) : S2[i] = S[i + 3]
  OBVIOUS
<1> HIDE DEF S2
<1>6. Stream(S2, N - 3, <<>>, 0, o2.byte, W)
  <2>1. \A p, k : /\ Stream(S, N, p, 0, o2.byte, W) /\ k = Len(p)
                  /\ \A i \in 1 .. (N - k) : S2[i] = S[i + k]
                  => Stream(S2, N - k, <<>>, 0, o2.byte, W)
    BY StreamUsed
  <2> QED BY <1>3, <1>5, <2>1
<1>7. PacketOK(<<>>)
  BY DEF PacketOK
<1> HIDE DEF T, E, T2, E2
<1>8. StreamOK(S2, N - 3, m) /\ EventsOK(E, T, S2, N - 3, m, lost, slip)
  BY <1>1, <1>2, <1>4, <1>5, FrontGone
<1>9. EventsOK(E2, T2, S2, N - 3, m, lost, slip)
  <2>1. CASE SameRing(q, q2)
    <3>1. E2 = E /\ T2 = T
      BY <2>1, SameEvents DEF E, E2, T, T2
    <3> QED BY <1>8, <3>1
  <2>2. CASE PutIn(Slots, ev, q, q2, v) /\ ~P[1].overflow
    <3>1. /\ T2 = T + 1 /\ \A i \in 1 .. T : E2[i] = E[i]
          /\ E2[T + 1] = v
      <4>1. /\ \A i \in 1 .. T : E[i] = EntryAt(Slots, ev, q, i)
            /\ Len(ev) \in Nat /\ Used(Slots, q) \in Nat /\ T = Len(ev) + Used(Slots, q)
        <5>1. MouseRing(q)
          BY DEF MousePath
        <5>2. Used(Slots, q) \in 0 .. (Slots - 1) /\ Slots \in Nat
          BY <1>2, <5>1, EventCount, SlotsFacts
        <5> QED BY <1>2, <5>1, <5>2, EventCount DEF T, E
      <4>2. \A i \in 1 .. T2 : E2[i] = EntryAt(Slots, ev, q2, i)
        BY <1>2, EventCount DEF T2, E2
      <4>3. T2 = Len(ev) + (Used(Slots, q) + 1)
        BY <2>2 DEF PutIn, T2, Entries
      <4>4. T2 = T + 1 /\ T + 1 \in 1 .. T2 /\ \A i \in 1 .. T : i \in 1 .. T2
        BY <1>2, <4>1, <4>3
      <4>5. /\ \A i \in 1 .. T : EntryAt(Slots, ev, q2, i) = EntryAt(Slots, ev, q, i)
            /\ EntryAt(Slots, ev, q2, T + 1) = v
        BY <2>2 DEF PutIn, T
      <4> QED BY <4>1, <4>2, <4>4, <4>5
    <3>2. S[1] = P[1] /\ S[2] = P[2] /\ S[3] = P[3]
      BY <1>3 DEF Stream
    <3>3. v[1] = S[1].pkt /\ v[2] = S[2].pkt /\ v[3] = S[3].pkt
      BY <3>2 DEF EventOf
    <3>4. Lead(S[1])
      <4>1. P[1].bit3
        <5>1. IsSeq(q.packet) /\ PacketOK(q.packet)
          BY <1>1 DEF MousePath, Stream
        <5>2. Len(q.packet) \in Nat /\ Len(P) = Len(q.packet) + 1 /\ \A i \in 1 .. Len(q.packet) : P[i] = q.packet[i]
          BY <5>1, SeqFacts DEF Longer
        <5>3. Len(q.packet) > 0 /\ 1 \in 1 .. Len(q.packet)
          <6>1. \A n \in Nat : 3 = n + 1 => n > 0 /\ 1 \in 1 .. n
            OBVIOUS
          <6>2. 3 = Len(q.packet) + 1
            BY ONLY <5>2, Len(P) = 3
          <6> QED BY ONLY <5>2, <6>1, <6>2
        <5>4. Len(q.packet) > 0 => q.packet[1].bit3
          BY <5>1 DEF PacketOK
        <5> QED BY ONLY <5>2, <5>3, <5>4
      <4>2. 1 \in 1 .. N
        BY <1>2, <1>4
      <4>3. S[1].pkt \in 0 .. m /\ (S[1].bit3 /\ S[1].pkt = 0 => S[1].overflow)
        BY <1>1, <4>2 DEF StreamOK
      <4> QED BY <1>2, <2>2, <3>2, <4>1, <4>3 DEF Lead
    <3>5. EventsOK(E2, T + 1, S2, N - 3, m, lost, slip)
      <4>1. OneOut(E, T, S, N, E2, v, S2, N - 3)
        BY <1>4, <1>5, <3>1, <3>3, <3>4 DEF OneOut
      <4> QED BY <1>1, <1>2, <4>1, EventsMore
    <3> QED BY <3>1, <3>5
  <2> QED BY <2>1, <2>2
<1> QED BY <1>2, <1>6, <1>7, <1>8, <1>9 DEF MousePath, T2, E2

\* mouse_irq_handler takes the byte.
LEMMA PathByte ==
  ASSUME NEW ev, NEW q, NEW o, NEW W, NEW m, NEW lost, NEW slip, MousePath(ev, q, o, W, m, lost, slip),
         Aux(o) = 1, NEW o2, Aux(o2) = 0, NEW q2, q2 = Packed(q, o.byte)
  PROVE  PathDone(ev, q, q2, o2, W, m, lost, slip)
<1> DEFINE P == Append(q.packet, o.byte)
           r == [q EXCEPT !.packet = <<>>]
           v == [i \in 1 .. 3 |-> P[i].pkt]
<1>0. /\ q = [buf |-> q.buf, head |-> q.head, tail |-> q.tail, packet |-> q.packet]
      /\ Ring(Slots, q) /\ IsSeq(ev)
  BY DEF MousePath, MouseRing
<1>1. ASSUME SameRing(q, q2) PROVE EventKept(q, q2)
  BY <1>1, SameEvents DEF EventKept, SameRing
<1>2. CASE ~Opens(Len(q.packet), o.byte)
  <2>1. q2 = q /\ Len(q.packet) = 0
    BY <1>2 DEF Packed, Opens
  <2>2. SameRing(q, q2)
    BY <2>1 DEF SameRing
  <2> QED BY <1>1, <1>2, <2>1, <2>2, ByteSkipped DEF PathDone, Opens
<1>3. CASE Opens(Len(q.packet), o.byte) /\ Len(P) # 3
  <2>1. q2 = [q EXCEPT !.packet = P]
    BY <1>3 DEF Packed
  <2> HIDE DEF P
  <2>2. Longer(q, o.byte, P)
    BY <1>3 DEF P, Longer
  <2>3. MousePath(ev, q2, o2, W, m, lost, slip) /\ SameRing(q, q2)
    BY <1>3, <2>1, <2>2, ByteKept
  <2> QED BY <1>1, <2>3 DEF PathDone
<1>4. CASE Opens(Len(q.packet), o.byte) /\ Len(P) = 3
  <2>0. r = [buf |-> q.buf, head |-> q.head, tail |-> q.tail, packet |-> <<>>]
    BY <1>0
  <2>1. SameRing(q, r) /\ MouseRing(r) /\ r.packet = <<>>
    <3>1. SameRing(q, r)
      BY <2>0 DEF SameRing
    <3> QED BY <1>0, <2>0, <3>1, SameEvents DEF MouseRing
  <2>2. q2 = IF P[1].overflow THEN r ELSE Enqueued(r, Slots, v)
    BY <1>4 DEF Packed, Slots
  <2>3. Longer(q, o.byte, P) /\ EventOf(P, v)
    BY <1>4 DEF Longer, EventOf
  <2> HIDE DEF P, v, r
  <2>4. CASE P[1].overflow \/ Full(r, Slots)
    <3>1. q2 = r
      BY <2>2, <2>4 DEF Enqueued
    <3>2. MousePath(ev, q2, o2, W, m, lost, slip)
      BY <1>4, <2>1, <2>3, <3>1, ByteThird
    <3> QED BY <1>1, <2>1, <3>1, <3>2 DEF PathDone
  <2>5. CASE ~P[1].overflow /\ ~Full(r, Slots)
    <3>1. q2 = [r EXCEPT !.buf[r.head] = v, !.head = (@ + 1) % Slots]
      BY <2>2, <2>5 DEF Enqueued
    <3>2. q2 = [buf |-> [q.buf EXCEPT ![q.head] = v], head |-> (q.head + 1) % Slots,
                tail |-> q.tail, packet |-> <<>>]
      BY <2>0, <3>1
    <3>3. /\ q2.buf = [q.buf EXCEPT ![q.head] = v] /\ q2.head = (q.head + 1) % Slots
          /\ q2.tail = q.tail /\ q2.packet = <<>>
      BY <3>2
    <3>4. ~Full(q, Slots) /\ Len(ev) \in Nat
      BY <1>0, <2>1, <2>5, SameEvents, SeqFacts
    <3>5. PutIn(Slots, ev, q, q2, v)
      BY <1>0, <3>3, <3>4, SlotsFacts, PutAtHead
    <3>6. MouseRing(q2)
      <4>1. Ring(Slots, q2)
        BY <3>5 DEF PutIn
      <4>2. q2 = [buf |-> q2.buf, head |-> q2.head, tail |-> q2.tail, packet |-> q2.packet]
        BY <3>2, <3>3
      <4> QED BY <4>1, <4>2 DEF MouseRing
    <3>7. MousePath(ev, q2, o2, W, m, lost, slip)
      BY <1>4, <2>3, <2>5, <3>3, <3>5, <3>6, ByteThird
    <3>8. EventKept(q, q2)
      <4>1. Used(Slots, q) \in Nat /\ Used(Slots, q2) = Used(Slots, q) + 1
        <5>1. Used(Slots, q) \in 0 .. (Slots - 1) /\ Slots \in Nat
          BY <1>0, UsedValue, SlotsFacts DEF Ring
        <5> QED BY <3>5, <5>1 DEF PutIn
      <4>2. Used(Slots, q) > 0 => q2.buf[q2.tail] = q.buf[q.tail]
        BY <3>5 DEF PutIn
      <4> QED BY <4>1, <4>2 DEF EventKept
    <3> QED BY <3>7, <3>8 DEF PathDone
  <2> QED BY <2>4, <2>5
<1> QED BY <1>2, <1>3, <1>4

\* mouse_read returns an event.
LEMMA PathRead ==
  ASSUME NEW ev, NEW q, NEW o, NEW W, NEW m, NEW lost, NEW slip, MousePath(ev, q, o, W, m, lost, slip),
         Used(Slots, q) > 0, NEW ev2, ev2 = Append(ev, q.buf[q.tail]),
         NEW q2, q2 = [q EXCEPT !.tail = (@ + 1) % Slots]
  PROVE  MousePath(ev2, q2, o, W, m, lost, slip)
<1>0. /\ q = [buf |-> q.buf, head |-> q.head, tail |-> q.tail, packet |-> q.packet]
      /\ Ring(Slots, q) /\ IsSeq(ev)
  BY DEF MousePath, MouseRing
<1>1. q2 = [buf |-> q.buf, head |-> q.head, tail |-> (q.tail + 1) % Slots, packet |-> q.packet]
  BY <1>0
<1>2. q2.buf = q.buf /\ q2.head = q.head /\ q2.tail = (q.tail + 1) % Slots /\ q2.packet = q.packet
  BY <1>1
<1>3. /\ Len(ev) \in Nat /\ IsSeq(ev2) /\ Len(ev2) = Len(ev) + 1 /\ ev2[Len(ev) + 1] = q.buf[q.tail]
      /\ \A i \in 1 .. Len(ev) : ev2[i] = ev[i]
  BY <1>0, SeqFacts
<1>4. Got(Slots, ev, q, ev2, q2)
  BY <1>0, <1>2, <1>3, SlotsFacts, GotFromTail
<1>5. Entries(Slots, ev2, q2) = Entries(Slots, ev, q)
  BY <1>4 DEF Got
<1>6. Evs(ev2, q2) = Evs(ev, q)
  BY <1>4 DEF Got, Evs
<1>7. MouseRing(q2)
  <2>1. Ring(Slots, q2)
    BY <1>4 DEF Got
  <2>2. q2 = [buf |-> q2.buf, head |-> q2.head, tail |-> q2.tail, packet |-> q2.packet]
    BY <1>1, <1>2
  <2> QED BY <2>1, <2>2 DEF MouseRing
<1>8. PICK S, N : /\ Stream(S, N, q.packet, Aux(o), o.byte, W) /\ StreamOK(S, N, m)
                  /\ EventsOK(Evs(ev, q), Entries(Slots, ev, q), S, N, m, lost, slip)
  BY DEF MousePath
<1>9. m \in Nat /\ lost \in Nat /\ slip \in Nat /\ PacketOK(q.packet)
  BY DEF MousePath
<1>10. Stream(S, N, q2.packet, Aux(o), o.byte, W) /\ PacketOK(q2.packet)
  BY <1>2, <1>8, <1>9
<1>11. EventsOK(Evs(ev2, q2), Entries(Slots, ev2, q2), S, N, m, lost, slip)
  BY <1>5, <1>6, <1>8
<1> QED BY <1>3, <1>7, <1>8, <1>9, <1>10, <1>11 DEF MousePath

\* Replies: none is a movement's, and one with bit 3 has an overflow bit too.
LEMMA PathReplies ==
  ASSUME NEW ev, NEW q, NEW o, NEW m, NEW lost, NEW slip, MousePath(ev, q, o, <<>>, m, lost, slip),
         q.packet = <<>>, Aux(o) = 0, NEW V, IsSeq(V), NEW late \in Nat, Len(V) = late,
         \A i \in 1 .. Len(V) : V[i].pkt = 0 /\ (V[i].bit3 => V[i].overflow)
  PROVE  MousePath(ev, q, o, V, m, lost, slip + late)
<1> DEFINE T == Entries(Slots, ev, q)
           E == Evs(ev, q)
           n == Len(V)
<1>1. PICK S, N : /\ Stream(S, N, q.packet, Aux(o), o.byte, <<>>) /\ StreamOK(S, N, m)
                  /\ EventsOK(E, T, S, N, m, lost, slip)
  BY DEF MousePath
<1>2. N \in Nat /\ m \in Nat /\ lost \in Nat /\ slip \in Nat /\ T \in Nat /\ n \in Nat
  BY <1>1, StreamSizes, EventCount, SeqFacts DEF MousePath
<1>3. Stream(V, n, <<>>, 0, o.byte, V)
  <2>1. IsSeq(<<>>) /\ Len(<<>>) = 0
    <3>1. <<>> \in Seq({})
      OBVIOUS
    <3> QED BY <3>1 DEF IsSeq
  <2>2. n = 0 + 0 + n /\ \A i \in 1 .. n : 0 + 0 + i = i
    BY <1>2
  <2> HIDE DEF n
  <2> QED BY <2>1, <2>2 DEF Stream, n
<1>4. \A i \in 1 .. n : ~Lead(V[i])
  BY DEF Lead
<1>5. StreamOK(V, n, m)
  <2> SUFFICES ASSUME NEW i \in 1 .. n
               PROVE  /\ V[i].pkt \in 0 .. m /\ (V[i].bit3 /\ V[i].pkt = 0 => V[i].overflow)
                      /\ \A j \in 1 .. (i - 1) : Before(V[j], V[i], i - j)
    BY DEF StreamOK
  <2>1. V[i].pkt = 0 /\ (V[i].bit3 => V[i].overflow)
    OBVIOUS
  <2>2. ASSUME NEW j \in 1 .. (i - 1) PROVE V[j].pkt = 0
    <3>1. j \in 1 .. n
      BY <1>2
    <3> QED BY <3>1
  <2> QED BY <1>2, <2>1, <2>2 DEF Before
<1>6. Comes(V, n, S, N, m)
  BY DEF Comes
<1>7. Costs(V, n, lost, S, N, lost)
  <2>1. Broken(V, n) = {}
    BY <1>4 DEF Broken
  <2>2. Cardinality(Broken(V, n)) = 0
    BY <2>1, FS_EmptySet
  <2>3. Broken(S, N) \subseteq 1 .. N
    BY DEF Broken
  <2>4. Cardinality(Broken(S, N)) \in Nat
    BY <1>2, <2>3, PositionsFinite
  <2> QED BY <1>2, <2>2, <2>4 DEF Costs
<1> HIDE DEF T, E, n
<1>8. EventsOK(E, T, V, n, m, lost, slip + late)
  <2>1. m >= m /\ slip + late \in Nat
    BY <1>2
  <2>2. Slides(V, n, slip + late, slip)
    <3> SUFFICES ASSUME slip + late = 0 PROVE slip = 0 /\ Aligned(V, n)
      BY DEF Slides
    <3>1. slip = 0 /\ n = 0
      BY <1>2 DEF n
    <3>2. 0 % 3 = 0 /\ \A i \in 1 .. 0 : FALSE
      OBVIOUS
    <3> QED BY <3>1, <3>2 DEF Aligned
  <2> QED BY <1>1, <1>2, <1>6, <1>7, <2>1, <2>2, EventsSame
<1>9. Stream(V, n, q.packet, Aux(o), o.byte, V)
  BY <1>3
<1>10. slip + late \in Nat
  BY <1>2
<1> QED BY <1>5, <1>8, <1>9, <1>10 DEF MousePath, T, E

----------------------------------------------------------------------------
(* The steps, once more *)

Early == {"interrupts", "pit", "kb", "mouse"}
EarlyOK(b, q, o, W) == b \in Early => q.packet = <<>> /\ ~o.full /\ W = <<>>
EventOK(q, e) == e # NULL => Used(Slots, q) > 0 /\ e = q.buf[q.tail]
FaultOK(f) ==
  /\ f = [packets |-> f.packets, lost |-> f.lost, late |-> f.late, ambiguous |-> f.ambiguous]
  /\ f.lost \in Nat /\ f.late \in Nat /\ f.ambiguous \in Nat
Paid(f) == f.lost + f.ambiguous
Slips(f) == f.lost + f.late

MouseInv ==
  /\ MousePath(user.events, mouse, ob, wire.aux, fault.packets, Paid(fault), Slips(fault))
  /\ EventOK(mouse, reader.event)
  /\ FaultOK(fault)
  /\ EarlyOK(boot, mouse, ob, wire.aux)

\* The invariant holds of the next state.
LEMMA MouseNow ==
  ASSUME MousePath(user'.events, mouse', ob', wire'.aux, fault'.packets, Paid(fault'), Slips(fault')),
         EventOK(mouse', reader'.event), FaultOK(fault'), EarlyOK(boot', mouse', ob', wire'.aux)
  PROVE  MouseInv'
BY DEF MouseInv

\* InitInput.
LEMMA MouseStart ==
  ASSUME InitInput
  PROVE  MouseInv
<1>0. Slots \in Nat \ {0, 1} /\ MOUSE_BUF_SIZE = Slots
  BY SlotsFacts DEF Slots
<1>1. /\ mouse = [buf |-> [i \in 0 .. Slots - 1 |-> NULL], head |-> 0, tail |-> 0, packet |-> <<>>]
      /\ user.events = <<>> /\ wire.aux = <<>> /\ fault.packets = 0 /\ ~ob.full
      /\ reader.event = NULL /\ FaultOK(fault) /\ Paid(fault) = 0 /\ Slips(fault) = 0
  BY <1>0 DEF InitInput, FaultOK, Paid, Slips
<1>2. MouseRing(mouse) /\ mouse.head = 0 /\ mouse.tail = 0 /\ mouse.packet = <<>>
  BY <1>0, <1>1 DEF MouseRing, Ring
<1>3. IsSeq(<<>>) /\ Len(<<>>) = 0
  <2>1. <<>> \in Seq({})
    OBVIOUS
  <2> QED BY <2>1 DEF IsSeq
<1>4. Used(Slots, mouse) = 0
  BY <1>0, <1>2, UsedValue DEF MouseRing, Ring
<1>5. Entries(Slots, <<>>, mouse) = 0
  BY <1>3, <1>4 DEF Entries
<1>6. Aux(ob) = 0
  BY <1>1 DEF Aux
<1>7. Stream(<<>>, 0, <<>>, 0, ob.byte, <<>>) /\ StreamOK(<<>>, 0, 0)
  BY <1>3 DEF Stream, StreamOK
<1>8. EventsOK(Evs(<<>>, mouse), 0, <<>>, 0, 0, 0, 0)
  <2>1. Mixed(Evs(<<>>, mouse), 0) = {} /\ Broken(<<>>, 0) = {}
    BY DEF Mixed, Broken
  <2>2. Cardinality({}) = 0
    BY FS_EmptySet
  <2>3. \A i \in 1 .. 0 : FALSE
    OBVIOUS
  <2>4. Cardinality(Mixed(Evs(<<>>, mouse), 0)) + Cardinality(Broken(<<>>, 0)) <= 0
    <3>1. Cardinality(Mixed(Evs(<<>>, mouse), 0)) = 0 /\ Cardinality(Broken(<<>>, 0)) = 0
      BY <2>1, <2>2
    <3> QED BY <3>1
  <2>5. Aligned(<<>>, 0)
    BY <2>3 DEF Aligned
  <2> QED BY <2>1, <2>3, <2>4, <2>5 DEF EventsOK
<1>9. PacketOK(<<>>)
  BY DEF PacketOK
<1>10. MousePath(<<>>, mouse, ob, <<>>, 0, 0, 0)
  BY <1>2, <1>3, <1>5, <1>6, <1>7, <1>8, <1>9 DEF MousePath
<1>11. EventOK(mouse, reader.event) /\ EarlyOK(boot, mouse, ob, wire.aux)
  BY <1>1, <1>2 DEF EventOK, EarlyOK
<1> QED BY <1>1, <1>10, <1>11 DEF MouseInv

\* Steps that touch neither the mouse nor its path.
LEMMA MouseApart ==
  ASSUME MouseInv, mouse' = mouse, ob' = ob, fault' = fault, user'.events = user.events,
         wire'.aux = wire.aux, reader'.event = reader.event, boot' \in Early => boot \in Early
  PROVE  MouseInv'
<1>1. EarlyOK(boot', mouse', ob', wire'.aux)
  BY DEF MouseInv, EarlyOK
<1> QED BY <1>1, MouseNow DEF MouseInv

\* The replies that come late.
LEMMA LateOnes ==
  ASSUME NEW late \in 0 .. 5, NEW V, V = SubSeq(Replies, Len(Replies) - late + 1, Len(Replies))
  PROVE  /\ IsSeq(V) /\ Len(V) = late
         /\ \A i \in 1 .. Len(V) : V[i].pkt = 0 /\ (V[i].bit3 => V[i].overflow)
<1> DEFINE X == {Reply(TRUE), Reply(FALSE)}
           a == Len(Replies) - late + 1
<1>1. Len(Replies) = 5 /\ \A i \in 1 .. 5 : Replies[i] \in X
  <2>1. /\ Len(Replies) = 5 /\ Replies[1] = Reply(TRUE) /\ Replies[2] = Reply(TRUE)
        /\ Replies[3] = Reply(FALSE) /\ Replies[4] = Reply(TRUE) /\ Replies[5] = Reply(TRUE)
    BY DEF Replies
  <2>2. \A i \in 1 .. 5 : i = 1 \/ i = 2 \/ i = 3 \/ i = 4 \/ i = 5
    OBVIOUS
  <2> QED BY <2>1, <2>2
<1>2. a \in Int /\ a >= 1 /\ 5 \in Int /\ a = (5 - late) + 1
  <2> HIDE DEF X
  <2> QED BY <1>1
<1> HIDE DEF a, X
<1>3. \A i \in a .. 5 : Replies[i] \in X
  BY <1>1, <1>2
<1>4. V = SubSeq(Replies, a, 5)
  BY <1>1, <1>2
<1>5. V \in Seq(X)
  <2> DEFINE z == Len(Replies)
  <2>1. z \in Int /\ z = 5 /\ \A i \in a .. z : Replies[i] \in X
    BY <1>1, <1>3
  <2> HIDE DEF z
  <2>2. SubSeq(Replies, a, z) \in Seq(X)
    BY <1>2, <2>1, SubSeqProperties
  <2> QED BY <1>4, <2>1, <2>2
<1>6. \A x \in X : x.pkt = 0 /\ (x.bit3 => x.overflow)
  BY DEF X, Reply
<1>7. \A i \in 1 .. Len(V) : V[i] \in X
  BY <1>5
<1>8. IsSeq(V)
  BY <1>5 DEF IsSeq
<1>9. Len(V) = late
  <2> DEFINE z == Len(Replies)
  <2>1. z \in Int /\ z = 5 /\ \A i \in a .. z : Replies[i] \in X
    BY <1>1, <1>3
  <2> HIDE DEF z
  <2>2. Len(SubSeq(Replies, a, z)) = IF a <= z THEN z - a + 1 ELSE 0
    BY <1>2, <2>1, SubSeqProperties
  <2> QED BY <1>2, <1>4, <2>1, <2>2
<1> QED BY <1>6, <1>7, <1>8, <1>9

\* The drivers' set-up.
LEMMA MouseBoot ==
  ASSUME KeyInv, MouseInv, Boot
  PROVE  MouseInv'
<1>1. CASE interrupts_init \/ NoInterruptsInit \/ pit_init \/ kb_init \/ sti
  <2>1. UNCHANGED <<mouse, ob, fault, user, wire, reader>> /\ (boot' \in Early => boot \in Early)
    BY <1>1 DEF interrupts_init, NoInterruptsInit, pit_init, kb_init, sti, InitStep, Early
  <2> QED BY <2>1, MouseApart
<1>2. ASSUME NEW late \in LateReplies, mouse_init(late) PROVE MouseInv'
  <2> DEFINE V == SubSeq(Replies, Len(Replies) - late + 1, Len(Replies))
  <2>1. late \in 0 .. 5
    BY RingAssumption
  <2>2. /\ boot = "mouse" /\ boot' = "sti" /\ UNCHANGED <<ob, mouse, reader, user>>
        /\ wire' = [wire EXCEPT !.aux = V] /\ fault' = [fault EXCEPT !.late = @ + late]
    BY <1>2 DEF mouse_init, InitStep
  <2>3. IsSeq(V) /\ Len(V) = late /\ \A i \in 1 .. Len(V) : V[i].pkt = 0 /\ (V[i].bit3 => V[i].overflow)
    BY <2>1, LateOnes
  <2> HIDE DEF V
  <2>4. wire'.aux = V
    BY <2>2 DEF KeyInv, ShapesOK
  <2>5. mouse.packet = <<>> /\ wire.aux = <<>> /\ Aux(ob) = 0
    BY <2>2 DEF MouseInv, EarlyOK, Early, Aux
  <2>6. MousePath(user.events, mouse, ob, <<>>, fault.packets, Paid(fault), Slips(fault))
    BY <2>5 DEF MouseInv
  <2>7. MousePath(user.events, mouse, ob, V, fault.packets, Paid(fault), Slips(fault) + late)
    BY <2>1, <2>3, <2>5, <2>6, PathReplies
  <2>8. EarlyOK(boot', mouse', ob', wire'.aux)
    BY <2>2 DEF EarlyOK, Early
  <2>9. fault' = [packets |-> fault.packets, lost |-> fault.lost, late |-> fault.late + late,
                  ambiguous |-> fault.ambiguous]
    BY <2>2 DEF MouseInv, FaultOK
  <2>10. /\ fault'.packets = fault.packets /\ fault'.lost = fault.lost
         /\ fault'.late = fault.late + late /\ fault'.ambiguous = fault.ambiguous
    BY <2>9
  <2>11. FaultOK(fault') /\ Paid(fault') = Paid(fault) /\ Slips(fault') = Slips(fault) + late
    BY <2>1, <2>9, <2>10 DEF MouseInv, FaultOK, Paid, Slips
  <2> QED BY <2>2, <2>4, <2>7, <2>8, <2>10, <2>11, MouseNow DEF MouseInv
<1> QED BY <1>1, <1>2 DEF Boot

\* irq_dispatch: the keyboard's handler takes no byte of the mouse.
LEMMA MouseDispatch ==
  ASSUME KeyInv, MouseInv, NEW irq \in Lines, NEW p, irq = 1 => KeyWaits(ob), irq_dispatch(irq, p)
  PROVE  MouseInv'
<1>0. UNCHANGED <<boot, wire, reader, user, fault>>
  BY DEF irq_dispatch
<1>1. /\ MousePath(user.events, mouse, ob, wire.aux, fault.packets, Paid(fault), Slips(fault))
      /\ EventOK(mouse, reader.event) /\ FaultOK(fault) /\ EarlyOK(boot, mouse, ob, wire.aux)
      /\ irq_handlers[irq] = "keyboard" => irq = 1
      /\ ob = [full |-> ob.full, aux |-> ob.aux, byte |-> ob.byte]
  BY DEF MouseInv, KeyInv, HandlersOK, ShapesOK
<1>2. ASSUME ob' = ob, mouse' = mouse PROVE MouseInv'
  BY <1>0, <1>2, MouseApart
<1>3. CASE irq_handlers[irq] = "keyboard" /\ keyboard_handler
  <2>1. KeyWaits(ob) /\ mouse' = mouse /\ ob' = [full |-> FALSE, aux |-> ob.aux, byte |-> ob.byte]
    BY <1>1, <1>3 DEF keyboard_handler
  <2>2. Aux(ob) = 0 /\ Aux(ob') = 0 /\ ob.full /\ ~ob'.full
    BY <2>1 DEF Aux, KeyWaits
  <2>3. MousePath(user.events, mouse, ob', wire.aux, fault.packets, Paid(fault), Slips(fault))
    BY <1>1, <2>2, PathOther
  <2>4. EarlyOK(boot', mouse', ob', wire'.aux)
    BY <1>0, <1>1, <2>1, <2>2 DEF EarlyOK
  <2> QED BY <1>0, <1>1, <2>1, <2>3, <2>4, MouseNow
<1>4. CASE mouse_irq_handler
  <2>1. CASE ~ob.full \/ ~ob.aux
    BY <1>2, <1>4, <2>1 DEF mouse_irq_handler
  <2>2. CASE ob.full /\ ob.aux
    <3>1. ob' = [ob EXCEPT !.full = FALSE] /\ mouse' = Packed(mouse, ob.byte)
      BY <1>4, <2>2 DEF mouse_irq_handler, Packed
    <3>2. ob' = [full |-> FALSE, aux |-> ob.aux, byte |-> ob.byte]
      BY <1>1, <3>1
    <3>3. Aux(ob) = 1 /\ Aux(ob') = 0
      BY <2>2, <3>2 DEF Aux
    <3>4. PathDone(user.events, mouse, mouse', ob', wire.aux, fault.packets, Paid(fault), Slips(fault))
      BY <1>1, <3>1, <3>3, PathByte
    <3>5. /\ MousePath(user.events, mouse', ob', wire.aux, fault.packets, Paid(fault), Slips(fault))
          /\ EventKept(mouse, mouse')
      BY <3>4 DEF PathDone
    <3>6. EventOK(mouse', reader'.event)
      BY <1>0, <1>1, <3>5 DEF EventOK, EventKept
    <3>7. EarlyOK(boot', mouse', ob', wire'.aux)
      BY <1>0, <1>1, <2>2 DEF EarlyOK
    <3> QED BY <1>0, <1>1, <3>5, <3>6, <3>7, MouseNow
  <2> QED BY <2>1, <2>2
<1>5. CASE timer_irq_handler
  BY <1>2, <1>5 DEF timer_irq_handler
<1>6. CASE UNCHANGED <<ob, kb, mouse, timer_ticks, away>>
  BY <1>2, <1>6
<1> QED BY <1>3, <1>4, <1>5, <1>6, Dispatched

\* Interrupt and Spurious.
LEMMA MouseInterrupt ==
  ASSUME KeyInv, MouseInv, Interrupt \/ \E irq \in {7, 15} : Spurious(irq)
  PROVE  MouseInv'
<1>1. CASE exception_dispatch
  <2>1. UNCHANGED <<mouse, ob, fault, user, wire, reader>> /\ boot' \notin Early
    BY <1>1 DEF exception_dispatch, Early
  <2> QED BY <2>1, MouseApart
<1>2. ASSUME NEW irq \in Lines, NEW p, irq_dispatch(irq, p), PicOK(p, ob),
             irq = 1 => KeyWaits(ob) /\ 1 \notin p.irr
      PROVE  MouseInv'
  BY <1>2, MouseDispatch
<1>3. CASE Dispatch
  <2>1. PICK irq \in Lines : \E p : /\ irq_dispatch(irq, p) /\ PicOK(p, ob)
                                    /\ irq = 1 => KeyWaits(ob) /\ 1 \notin p.irr
    BY <1>3 DEF Dispatch
  <2>2. PICK p : /\ irq_dispatch(irq, p) /\ PicOK(p, ob)
                 /\ irq = 1 => KeyWaits(ob) /\ 1 \notin p.irr
    BY <2>1
  <2> QED BY <1>2, <2>2
<1> QED BY <1>1, <1>3, Dispatches, Zenon

\* TimerFires, Resume and LoseByte.
LEMMA MouseEnvironment ==
  ASSUME KeyInv, MouseInv, TimerFires \/ Resume \/ LoseByte
  PROVE  MouseInv'
<1>1. CASE TimerFires \/ Resume
  <2>1. UNCHANGED <<mouse, ob, fault, user, wire, reader, boot>>
    BY <1>1 DEF TimerFires, Resume
  <2> QED BY <2>1, MouseApart
<1>2. CASE LoseByte
  <2>1. /\ wire.aux # <<>> /\ wire'.aux = Tail(wire.aux) /\ UNCHANGED <<boot, ob, mouse, reader, user>>
    BY <1>2 DEF LoseByte, KeyInv, ShapesOK
  <2>2. fault' = [packets |-> fault.packets, lost |-> fault.lost + 1, late |-> fault.late,
                  ambiguous |-> fault.ambiguous]
    BY <1>2 DEF LoseByte, MouseInv, FaultOK
  <2>3. /\ fault'.packets = fault.packets /\ FaultOK(fault')
        /\ Paid(fault') = Paid(fault) + 1 /\ Slips(fault') = Slips(fault) + 1
    <3>1. /\ fault'.packets = fault.packets /\ fault'.lost = fault.lost + 1
          /\ fault'.late = fault.late /\ fault'.ambiguous = fault.ambiguous
      BY <2>2
    <3> QED BY <2>2, <3>1 DEF MouseInv, FaultOK, Paid, Slips
  <2>4. MousePath(user.events, mouse, ob, Tail(wire.aux), fault.packets, Paid(fault) + 1, Slips(fault) + 1)
    BY <2>1, PathLost DEF MouseInv
  <2>5. EarlyOK(boot', mouse', ob', wire'.aux)
    BY <2>1 DEF MouseInv, EarlyOK
  <2>6. EventOK(mouse', reader'.event)
    BY <2>1 DEF MouseInv
  <2> QED BY <2>1, <2>3, <2>4, <2>5, <2>6, MouseNow
<1> QED BY <1>1, <1>2

\* KeyCode and Movement.
LEMMA MouseAct ==
  ASSUME KeyInv, MouseInv, (\E code \in Codes : KeyCode(code)) \/ \E mv \in Moves : Movement(mv)
  PROVE  MouseInv'
<1>1. ASSUME NEW mv \in Moves, Movement(mv) PROVE MouseInv'
  <2> DEFINE n == fault.packets + 1
             b1 == [pkt |-> n, bit3 |-> TRUE, overflow |-> mv.overflow]
             b2 == [pkt |-> n, bit3 |-> mv.dx.bit3, overflow |-> mv.dx.overflow]
             b3 == [pkt |-> n, bit3 |-> mv.dy.bit3, overflow |-> mv.dy.overflow]
             V == <<b1, b2, b3>>
             x == mv.dx.bit3
             y == mv.dy.bit3
  <2>1. /\ boot = "up" /\ wire' = [wire EXCEPT !.aux = @ \o V]
        /\ fault' = [fault EXCEPT !.packets = n, !.ambiguous = @ + One(x) + One(y)]
        /\ UNCHANGED <<boot, ob, mouse, reader, user>>
    BY <1>1 DEF Movement
  <2>2. /\ b1.pkt = n /\ b2.pkt = n /\ b3.pkt = n /\ b1.bit3 /\ b2.bit3 = x /\ b3.bit3 = y
    OBVIOUS
  <2> HIDE DEF b1, b2, b3
  <2>3. V \in Seq({b1, b2, b3}) /\ Len(V) = 3 /\ V[1] = b1 /\ V[2] = b2 /\ V[3] = b3
    OBVIOUS
  <2>4. IsSeq(V)
    BY <2>3 DEF IsSeq
  <2> HIDE DEF V, x, y
  <2>5. /\ \A i \in {1, 2, 3} : V[i].pkt = fault.packets + 1
        /\ V[1].bit3 /\ (V[2].bit3 => x) /\ (V[3].bit3 => y)
        /\ x \in BOOLEAN /\ y \in BOOLEAN
    BY <2>2, <2>3, MovesAssumption DEF Look, x, y
  <2>6. wire'.aux = wire.aux \o V
    BY <2>1 DEF KeyInv, ShapesOK
  <2>7. MousePath(user.events, mouse, ob, wire.aux \o V, fault.packets + 1,
                  Paid(fault) + (One(x) + One(y)), Slips(fault))
    BY <2>3, <2>4, <2>5, PathMoved DEF MouseInv
  <2>8. fault' = [packets |-> n, lost |-> fault.lost, late |-> fault.late,
                  ambiguous |-> fault.ambiguous + One(x) + One(y)]
    BY <2>1 DEF MouseInv, FaultOK
  <2>9. /\ fault'.packets = fault.packets + 1 /\ FaultOK(fault')
        /\ Paid(fault') = Paid(fault) + (One(x) + One(y)) /\ Slips(fault') = Slips(fault)
    <3>1. /\ fault'.packets = n /\ fault'.lost = fault.lost /\ fault'.late = fault.late
          /\ fault'.ambiguous = fault.ambiguous + One(x) + One(y)
      BY <2>8
    <3>2. One(x) \in Nat /\ One(y) \in Nat /\ fault.lost \in Nat /\ fault.late \in Nat /\ fault.ambiguous \in Nat
      BY DEF One, MouseInv, FaultOK
    <3> QED BY <2>8, <3>1, <3>2 DEF FaultOK, Paid, Slips
  <2>10. EarlyOK(boot', mouse', ob', wire'.aux)
    BY <2>1 DEF EarlyOK, Early
  <2>11. EventOK(mouse', reader'.event)
    BY <2>1 DEF MouseInv
  <2> QED BY <2>1, <2>6, <2>7, <2>9, <2>10, <2>11, MouseNow
<1>2. ASSUME NEW code \in Codes, KeyCode(code) PROVE MouseInv'
  <2>1. UNCHANGED <<boot, ob, mouse, reader, fault>>
    BY <1>2 DEF KeyCode
  <2>2. wire'.aux = wire.aux
    BY <1>2 DEF KeyCode, KeyInv, ShapesOK
  <2>3. user'.events = user.events
    <3> DEFINE x == [n |-> Len(user.typed) + 1, upper |-> user.shift # user.caps]
    <3>1. \/ user' = [user EXCEPT !.shift = TRUE] \/ user' = [user EXCEPT !.shift = FALSE]
          \/ user' = [user EXCEPT !.caps = ~@] \/ user' = [user EXCEPT !.typed = Append(@, x)]
          \/ user' = user
      BY <1>2 DEF KeyCode
    <3> HIDE DEF x
    <3> QED BY <3>1 DEF KeyInv, ShapesOK
  <2> QED BY <2>1, <2>2, <2>3, MouseApart
<1> QED BY <1>1, <1>2

\* Latch: the controller takes a byte from either device.
LEMMA MouseLatch ==
  ASSUME KeyInv, MouseInv, Controller
  PROVE  MouseInv'
<1>0. /\ MousePath(user.events, mouse, ob, wire.aux, fault.packets, Paid(fault), Slips(fault))
      /\ EventOK(mouse, reader.event) /\ FaultOK(fault)
      /\ wire = [kbd |-> wire.kbd, aux |-> wire.aux]
  BY DEF MouseInv, KeyInv, ShapesOK
<1>1. CASE Latch("kbd", 1)
  <2>1. /\ boot' = "up" /\ ~ob.full /\ UNCHANGED <<mouse, reader, user, fault>>
        /\ ob' = [full |-> TRUE, aux |-> FALSE, byte |-> Head(wire.kbd)]
        /\ wire'.aux = wire.aux
    BY <1>0, <1>1 DEF Latch
  <2>2. Aux(ob) = 0 /\ Aux(ob') = 0
    BY <2>1 DEF Aux
  <2>3. MousePath(user.events, mouse, ob', wire.aux, fault.packets, Paid(fault), Slips(fault))
    BY <1>0, <2>2, PathOther
  <2>4. EarlyOK(boot', mouse', ob', wire'.aux)
    BY <2>1 DEF EarlyOK, Early
  <2> QED BY <1>0, <2>1, <2>3, <2>4, MouseNow
<1>2. CASE Latch("aux", 12)
  <2>1. /\ boot' = "up" /\ ~ob.full /\ wire.aux # <<>> /\ UNCHANGED <<mouse, reader, user, fault>>
        /\ ob' = [full |-> TRUE, aux |-> TRUE, byte |-> Head(wire.aux)]
        /\ wire'.aux = Tail(wire.aux)
    BY <1>0, <1>2 DEF Latch
  <2>2. Aux(ob) = 0 /\ Aux(ob') = 1 /\ ob'.byte = Head(wire.aux)
    BY <2>1 DEF Aux
  <2>3. MousePath(user.events, mouse, ob', Tail(wire.aux), fault.packets, Paid(fault), Slips(fault))
    BY <1>0, <2>1, <2>2, PathLatch
  <2>4. EarlyOK(boot', mouse', ob', wire'.aux)
    BY <2>1 DEF EarlyOK, Early
  <2> QED BY <1>0, <2>1, <2>3, <2>4, MouseNow
<1> QED BY <1>1, <1>2 DEF Controller

\* kb_getc and mouse_read, each in two steps.
LEMMA MouseReader ==
  ASSUME KeyInv, MouseInv, Reader
  PROVE  MouseInv'
<1>0. /\ MousePath(user.events, mouse, ob, wire.aux, fault.packets, Paid(fault), Slips(fault))
      /\ EventOK(mouse, reader.event) /\ FaultOK(fault) /\ boot = "up"
      /\ reader = [key |-> reader.key, event |-> reader.event]
      /\ user = [shift |-> user.shift, caps |-> user.caps, typed |-> user.typed,
                 keys |-> user.keys, events |-> user.events]
  BY DEF MouseInv, KeyInv, ShapesOK, Reader
<1>R. Ring(Slots, mouse)
  BY <1>0 DEF MousePath, MouseRing
<1>1. CASE kb_getc_read
  <2>1. /\ UNCHANGED <<boot, ob, wire, mouse, user, fault>>
        /\ reader'.event = reader.event
    BY <1>0, <1>1 DEF kb_getc_read
  <2> QED BY <2>1, MouseApart
<1>2. CASE kb_getc_return
  <2>1. /\ UNCHANGED <<boot, ob, wire, mouse, fault>>
        /\ reader'.event = reader.event /\ user'.events = user.events
    BY <1>0, <1>2 DEF kb_getc_return
  <2> QED BY <2>1, MouseApart
<1>3. CASE mouse_read_copy
  <2>1. /\ UNCHANGED <<boot, ob, wire, mouse, user, fault>> /\ Pending(mouse)
        /\ reader'.event = mouse.buf[mouse.tail]
    BY <1>0, <1>3 DEF mouse_read_copy
  <2>2. Used(Slots, mouse) > 0
    BY <1>R, <2>1, UsedValue, SlotsFacts DEF Ring
  <2>3. EventOK(mouse', reader'.event) /\ EarlyOK(boot', mouse', ob', wire'.aux)
    BY <1>0, <2>1, <2>2 DEF EventOK, EarlyOK, Early
  <2> QED BY <1>0, <2>1, <2>3, MouseNow
<1>4. CASE mouse_read_return
  <2>1. /\ UNCHANGED <<boot, ob, wire, fault>> /\ reader.event # NULL
        /\ mouse' = [mouse EXCEPT !.tail = (@ + 1) % Slots]
        /\ user' = [user EXCEPT !.events = Append(@, reader.event)]
        /\ reader' = [reader EXCEPT !.event = NULL]
    BY <1>4 DEF mouse_read_return, Slots
  <2>2. Used(Slots, mouse) > 0 /\ reader.event = mouse.buf[mouse.tail]
    BY <1>0, <2>1 DEF EventOK
  <2>3. user'.events = Append(user.events, mouse.buf[mouse.tail]) /\ reader'.event = NULL
    BY <1>0, <2>1, <2>2
  <2>4. MousePath(user'.events, mouse', ob, wire.aux, fault.packets, Paid(fault), Slips(fault))
    BY <1>0, <2>1, <2>2, <2>3, PathRead
  <2>5. EventOK(mouse', reader'.event) /\ EarlyOK(boot', mouse', ob', wire'.aux)
    BY <1>0, <2>1, <2>3 DEF EventOK, EarlyOK, Early
  <2> QED BY <1>0, <2>1, <2>4, <2>5, MouseNow
<1> QED BY <1>1, <1>2, <1>3, <1>4 DEF Reader

\* Every step of the machine.
LEMMA MouseNext ==
  ASSUME KeyInv, MouseInv, [Next]_deviceVars
  PROVE  MouseInv'
<1>1. CASE UNCHANGED inputVars
  <2>1. UNCHANGED <<boot, ob, wire, mouse, reader, user, fault>>
    BY <1>1 DEF inputVars
  <2> QED BY <2>1, MouseApart
<1>2. CASE System
  BY <1>2, MouseBoot, MouseInterrupt, MouseLatch, MouseReader DEF System
<1>3. CASE Environment
  BY <1>3, MouseEnvironment, MouseInterrupt DEF Environment
<1>4. CASE Act
  BY <1>4, MouseAct DEF Act
<1>5. CASE Text
  BY <1>1, <1>5 DEF Text
<1>6. CASE UNCHANGED deviceVars
  BY <1>1, <1>6 DEF deviceVars
<1> QED BY <1>2, <1>3, <1>4, <1>5, <1>6 DEF Next

\* The path's invariant is the property.
LEMMA MouseFollows ==
  ASSUME MouseInv
  PROVE  MouseInSync
<1> DEFINE ev == user.events
           T == Entries(Slots, ev, mouse)
           E == Evs(ev, mouse)
           K == EventsSoFar
           lost == Paid(fault)
           slip == Slips(fault)
<1>1. PICK S, N : /\ Stream(S, N, mouse.packet, Aux(ob), ob.byte, wire.aux)
                  /\ EventsOK(E, T, S, N, fault.packets, lost, slip)
  BY DEF MouseInv, MousePath
<1>2. /\ IsSeq(ev) /\ MouseRing(mouse) /\ Ring(Slots, mouse) /\ lost \in Nat /\ fault.packets \in Nat
      /\ (fault.lost = 0 /\ fault.late = 0 => slip = 0)
  BY DEF MouseInv, MousePath, MouseRing, Slips
<1>3. N \in Nat
  BY <1>1, StreamSizes
<1>4. T \in Nat /\ \A i \in 1 .. T : E[i] = EntryAt(Slots, ev, mouse, i)
  BY <1>2, EventCount
<1>5. K = ev \o Contents(mouse, Slots)
  BY DEF EventsSoFar, Slots
<1> HIDE DEF K, T, E, lost, slip
<1>6. IsSeq(K) /\ Len(K) = T /\ \A i \in 1 .. T : K[i] = EntryAt(Slots, ev, mouse, i)
  <2>1. AreEntries(Slots, ev, mouse, K, T)
    BY <1>2, <1>5, SlotsFacts, SoFarEntries DEF T
  <2> QED BY <2>1 DEF AreEntries
<1>7. DOMAIN K = 1 .. T
  BY <1>6, SeqFacts
<1>8. \A i \in 1 .. T : K[i] = E[i]
  BY <1>4, <1>6
<1> DEFINE mixed == {i \in DOMAIN K : ~Whole(K[i])}
<1>9. mixed = Mixed(E, T)
  BY <1>7, <1>8 DEF Mixed
<1>10. Cardinality(mixed) <= lost
  <2>1. Broken(S, N) \subseteq 1 .. N /\ Mixed(E, T) \subseteq 1 .. T
    BY DEF Broken, Mixed
  <2>2. Cardinality(Broken(S, N)) \in Nat /\ Cardinality(Mixed(E, T)) \in Nat
    BY <1>3, <1>4, <2>1, PositionsFinite
  <2>3. Cardinality(Mixed(E, T)) + Cardinality(Broken(S, N)) <= lost
    BY <1>1 DEF EventsOK
  <2>4. Cardinality(Mixed(E, T)) <= lost
    BY <1>2, <2>2, <2>3 DEF lost
  <2> QED BY <1>9, <2>4
<1>11. ASSUME NEW i \in DOMAIN K, NEW j \in DOMAIN K, i < j, Whole(K[i]) PROVE K[i][1] < K[j][1]
  BY <1>1, <1>7, <1>8, <1>11 DEF EventsOK
<1>12. fault.lost = 0 /\ fault.late = 0 => mixed = {}
  BY <1>1, <1>2, <1>9 DEF EventsOK
<1> QED BY <1>10, <1>11, <1>12 DEF MouseInSync, K, lost, Paid

\* mouse_irq_handler: whatever the bytes of the movements look like, no event
\* mixes two packets if no reply was late and no byte lost; otherwise there
\* are no more such events than bytes lost and movement bytes with bit 3; and
\* whole events come out in order, for every size of the ring, every number of
\* late replies and any interleaving with the reader.
THEOREM MouseInSyncHolds == Spec => []MouseInSync
<1>1. Init => KeyInv /\ MouseInv
  BY KeysStart, MouseStart DEF Init
<1>2. KeyInv /\ MouseInv /\ [Next]_deviceVars => KeyInv' /\ MouseInv'
  BY KeysNext, MouseNext
<1>3. MouseInv => MouseInSync
  BY MouseFollows
<1> QED BY <1>1, <1>2, <1>3, PTL DEF Spec
=============================================================================

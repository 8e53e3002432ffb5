------------------------------ MODULE Console ------------------------------
(***************************************************************************)
(* drivers/tty/console.c on drivers/fb/framebuffer.c: the text console of  *)
(* the kernel, written to by printk and by sys_write.  The framebuffer is  *)
(* kept in cells of one character instead of pixels; the part the console  *)
(* does not use holds whatever the firmware left there.  A character is    *)
(* known by the number of its write, so that no two look alike.            *)
(***************************************************************************)
EXTENDS Naturals

CONSTANTS
  CONSOLE_COLS, CONSOLE_ROWS, TAB_WIDTH,
  FbCols, FbRows                 \* size of the framebuffer, in cells

ASSUME ScreenAssumption ==
  /\ {CONSOLE_COLS, CONSOLE_ROWS, TAB_WIDTH, FbCols, FbRows} \subseteq Nat \ {0}
  /\ FbCols >= CONSOLE_COLS /\ FbRows >= CONSOLE_ROWS /\ FbRows > 1

VARIABLES
  con,     \* con_col, con_row, and the number of characters written
  fb,      \* the framebuffer: [row][col]
  page     \* history: an endless page the same text is written on

consoleVars == <<con, fb, page>>

Blank == 0
FirmwareJunk == 1
Glyph(n) == n + 2              \* of the n-th character written, from 0
Controls == {"newline", "return", "tab", "backspace"}

\* Cell (row, col) unless clipped.
fb_draw_char_bitmap(f, row, col, c) ==
  [r \in 0 .. FbRows - 1 |->
     [k \in 0 .. FbCols - 1 |-> IF r = row /\ k = col THEN c ELSE f[r][k]]]

fb_scroll_up(f) ==
  [r \in 0 .. FbRows - 1 |->
     IF r = FbRows - 1 THEN [k \in 0 .. FbCols - 1 |-> Blank] ELSE f[r + 1]]

NextTab(col) == (col \div TAB_WIDTH + 1) * TAB_WIDTH

\* console_putc without its scroll, on cells drawn by Draw(f, row, col, c):
\* the code's framebuffer, or the endless page.  s is [f, row, col].
Put(s, c, glyph, Draw(_, _, _, _)) ==
  CASE c = "newline" -> [s EXCEPT !.row = @ + 1, !.col = 0]
    [] c = "return" -> [s EXCEPT !.col = 0]
    [] c = "tab" -> LET end == IF NextTab(s.col) < CONSOLE_COLS
                              THEN NextTab(s.col) ELSE CONSOLE_COLS
                       Span[k \in Nat] == IF k <= s.col THEN s.f
                                          ELSE Draw(Span[k - 1], s.row, k - 1, Blank)
                   IN  [s EXCEPT !.f = Span[end],
                                 !.col = IF end > @ THEN end ELSE @]
    [] c = "backspace" -> IF s.col = 0 THEN s
                   ELSE [s EXCEPT !.f = Draw(@, s.row, s.col - 1, Blank),
                                  !.col = @ - 1]
    [] OTHER -> LET wraps == s.col + 1 >= CONSOLE_COLS
                IN  [f |-> Draw(s.f, s.row, s.col, glyph),
                     row |-> IF wraps THEN s.row + 1 ELSE s.row,
                     col |-> IF wraps THEN 0 ELSE s.col + 1]

\* Mutant: the cursor is left below the last row.
ScrollKeepsRow(s) == [s EXCEPT !.f = fb_scroll_up(@)]

console_scroll(s) ==
  [s EXCEPT !.f = fb_scroll_up(@), !.row = CONSOLE_ROWS - 1]

console_putc(c) ==
  LET s == Put([f |-> fb, row |-> con.row, col |-> con.col], c, Glyph(con.written),
               fb_draw_char_bitmap)
      t == IF s.row >= CONSOLE_ROWS THEN console_scroll(s) ELSE s
  IN  /\ fb' = t.f
      /\ con' = [row |-> t.row, col |-> t.col, written |-> con.written + 1]

\* The same text on paper that never ends.
OnPage(f, row, col, c) ==
  [p \in DOMAIN f \cup {<<row, col>>} |-> IF p = <<row, col>> THEN c ELSE f[p]]

\* emit_char of printk, and sys_write to descriptor 1 or 2.
Write(c) ==
  /\ console_putc(c)
  /\ page' = Put(page, c, Glyph(con.written), OnPage)

console_init ==
  /\ con = [row |-> 0, col |-> 0, written |-> 0]
  /\ fb = [r \in 0 .. FbRows - 1 |-> [k \in 0 .. FbCols - 1 |->
             IF r < CONSOLE_ROWS /\ k < CONSOLE_COLS THEN Blank
                                                     ELSE FirmwareJunk]]
  /\ page = [f |-> <<>>, row |-> 0, col |-> 0]

(* console_putc, console_scroll and fb_scroll_up: the screen is a window   *)
(* on everything written so far, its last CONSOLE_ROWS lines and what is   *)
(* drawn in them, wherever lines were wrapped, tabbed or taken back, and   *)
(* nothing scrolled away shows where nothing was drawn since.  A character *)
(* behind a tab that reached the edge is drawn in column CONSOLE_COLS,     *)
(* which a framebuffer of just that width does not have.                   *)
ScreenShowsTail ==
  LET top == IF page.row < CONSOLE_ROWS THEN 0
             ELSE page.row - CONSOLE_ROWS + 1
  IN  /\ con.row = page.row - top /\ con.col = page.col
      /\ \A p \in DOMAIN page.f :
           p[1] >= top /\ p[2] < FbCols => fb[p[1] - top][p[2]] = page.f[p]
      /\ \A r \in 0 .. CONSOLE_ROWS - 1, k \in 0 .. CONSOLE_COLS - 1 :
           <<top + r, k>> \notin DOMAIN page.f =>
             fb[r][k] \in {Blank, FirmwareJunk}
=============================================================================

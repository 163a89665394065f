-------------------------------- MODULE Vio ---------------------------------
(***************************************************************************)
(* The text screen of loader/console.rs (VioManager) as functions from a   *)
(* screen to a screen: the cells, row by row, and the cursor.  A cell has  *)
(* the character shown and the byte the guest wrote, two parallel vectors  *)
(* in the code.  Colours are left out.  Bytes are a letter, a blank and a  *)
(* byte above 0x7F, which the code page turns into another character.      *)
(***************************************************************************)
EXTENDS Naturals, Sequences, SequencesExt

Bytes == {" ", "a", "h"}

\* Code page 437.
decode_vio_byte(b) == IF b = "h" THEN "g" ELSE b

Cell(b) == [ch |-> decode_vio_byte(b), raw |-> b]
Blank   == Cell(" ")

At(s, row, col) == row * s.cols + col + 1

new(rows, cols) ==
  [rows |-> rows, cols |-> cols, row |-> 0, col |-> 0,
   cells |-> [i \in 1 .. rows * cols |-> Blank]]

Least(m, n) == IF m < n THEN m ELSE n

resize(s, rows, cols) ==
  [rows |-> rows, cols |-> cols,
   row |-> Least(s.row, rows - 1), col |-> Least(s.col, cols - 1),
   cells |-> [i \in 1 .. rows * cols |->
                LET r == (i - 1) \div cols
                    c == (i - 1) % cols
                IN  IF r < s.rows /\ c < s.cols THEN s.cells[At(s, r, c)] ELSE Blank]]

Row(s, i) == (i - 1) \div s.cols

\* Mutant: the vector of bytes stays behind when the characters move.
MovedAlone(s, i, j) == [ch |-> s.cells[j].ch, raw |-> s.cells[i].raw]

\* The cell at i becomes the one at j.
Moved(s, i, j) == s.cells[j]

\* lines = 0 clears the region.
scroll_up(s, top, bottom, lines, fill) ==
  IF top > bottom \/ bottom >= s.rows THEN s
  ELSE LET n == IF lines = 0 THEN bottom - top + 1 ELSE Least(lines, bottom - top + 1)
       IN  [s EXCEPT !.cells = [i \in DOMAIN s.cells |->
              CASE Row(s, i) < top \/ Row(s, i) > bottom -> s.cells[i]
                [] Row(s, i) \in top .. bottom /\ Row(s, i) + n <= bottom -> Moved(s, i, i + n * s.cols)
                [] OTHER -> Cell(fill)]]

scroll_down(s, top, bottom, lines, fill) ==
  IF top > bottom \/ bottom >= s.rows THEN s
  ELSE LET n == IF lines = 0 THEN bottom - top + 1 ELSE Least(lines, bottom - top + 1)
       IN  [s EXCEPT !.cells = [i \in DOMAIN s.cells |->
              CASE Row(s, i) < top \/ Row(s, i) > bottom -> s.cells[i]
                [] Row(s, i) \in top .. bottom /\ Row(s, i) >= top + n -> Moved(s, i, i - n * s.cols)
                [] OTHER -> Cell(fill)]]

\* The cursor is on a row below the screen: the screen moves up.
Scrolled(s) ==
  IF s.row < s.rows THEN s
  ELSE [scroll_up(s, 0, s.rows - 1, 1, " ") EXCEPT !.row = s.rows - 1]

Printed(s, b) ==
  LET put == IF s.row < s.rows /\ s.col < s.cols
             THEN [s EXCEPT !.cells[At(s, s.row, s.col)] = Cell(b)] ELSE s
  IN  IF s.col + 1 < s.cols
      THEN [put EXCEPT !.col = s.col + 1]
      ELSE Scrolled([put EXCEPT !.col = 0, !.row = s.row + 1])

TtyByte(s, b) ==
  CASE b = "lf" -> Scrolled([s EXCEPT !.row = s.row + 1, !.col = 0])
    [] b = "cr" -> [s EXCEPT !.col = 0]
    [] b = "bs" -> [s EXCEPT !.col = IF s.col > 0 THEN s.col - 1 ELSE 0]
    [] OTHER    -> Printed(s, b)

write_tty(s, text) ==
  LET after[n \in 0 .. Len(text)] ==
        IF n = 0 THEN s ELSE TtyByte(after[n - 1], text[n])
  IN  after[Len(text)]

\* Cells of a row from (row, col), as far as the row and the buffer go.
Span(s, row, col, count) ==
  {i \in DOMAIN s.cells : \E k \in 0 .. count - 1 : col + k < s.cols /\ i = At(s, row, col + k)}

write_n_cell(s, row, col, b, count) ==
  [s EXCEPT !.cells = [i \in DOMAIN s.cells |->
                         IF i \in Span(s, row, col, count) THEN Cell(b) ELSE s.cells[i]]]

write_char_str_att(s, row, col, text) ==
  [s EXCEPT !.cells = [i \in DOMAIN s.cells |->
                         IF i \in Span(s, row, col, Len(text))
                         THEN Cell(text[i - At(s, row, col) + 1]) ELSE s.cells[i]]]

set_cursor_pos(s, row, col) ==
  [s EXCEPT !.row = Least(row, s.rows - 1), !.col = Least(col, s.cols - 1)]

\* Written over a character to take it off the screen.
Erase == <<"bs", " ", "bs">>

Erasing(n) == [i \in 1 .. 3 * n |-> Erase[((i - 1) % 3) + 1]]

\* cmd_cls of the shell: blanks over every row, and the cursor home.
Cleared(s) == [new(s.rows, s.cols) EXCEPT !.row = 0, !.col = 0]

=============================================================================

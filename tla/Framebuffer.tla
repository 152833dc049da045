---------------------------- MODULE Framebuffer ----------------------------
(***************************************************************************)
(* The text screen, framebuffer.c: the cells of the VGA memory, row by row *)
(* from cell 0, and the two bytes of the hardware's cursor.  fb_write is   *)
(* modelled a character at a time.                                         *)
(***************************************************************************)
EXTENDS Integers, Sequences

CONSTANTS
  FB_COLS, FB_ROWS,  \* 80 and 25
  BYTE,              \* values of a byte                           (256)
  Strings,           \* what callers write
  NewLine, Space,    \* '\n' and ' '
  Garbage(_),        \* the character the BIOS and GRUB left in a cell
  MaxText            \* bounds how much is written

ASSUME FramebufferConstants ==
  /\ {FB_COLS, FB_ROWS, BYTE} \subseteq Nat \ {0}
  /\ MaxText \in Nat
  /\ FB_COLS * FB_ROWS <= BYTE * BYTE
  /\ Strings \subseteq Seq(Nat)      \* characters are their codes

VARIABLES
  fb,             \* cell -> [char, fg, bg]
  fb_col, fb_row,
  crtc,           \* the cursor's registers: <<high byte, low byte>>
  pc,             \* "idle" or "fb_write"
  buf,            \* what fb_write has still to write
  text            \* ghost: everything that was written, in order

vars == <<fb, fb_col, fb_row, crtc, pc, buf, text>>

Cells == 0 .. FB_COLS * FB_ROWS - 1
Cell(c, fg, bg) == [char |-> c, fg |-> fg % 16, bg |-> bg % 16]

Init ==
  /\ fb = [i \in Cells |-> Cell(Garbage(i), 7, 0)]
  /\ fb_col = 0 /\ fb_row = 0
  /\ crtc = <<0, 0>>
  /\ pc = "idle" /\ buf = <<>> /\ text = <<>>

fb_write_cell(i, c, fg, bg) == [fb EXCEPT ![i] = Cell(c, fg, bg)]

\* Mutant: the low byte keeps only the column.
fb_move_cursor_column(pos) ==
  crtc' = <<pos \div BYTE % BYTE, pos % FB_COLS>>

\* pos has 16 bits.
fb_move_cursor(pos) == crtc' = <<pos \div BYTE % BYTE, pos % BYTE>>

\* Mutant: the last line is not cleared.
fb_scroll_uncleared(screen) ==
  /\ fb' = [i \in Cells |-> IF i < FB_COLS * (FB_ROWS - 1)
                            THEN screen[i + FB_COLS] ELSE screen[i]]
  /\ fb_row' = FB_ROWS - 1
  /\ fb_col' = 0

\* Every line moves up by one, over the first; the last one is blank.
fb_scroll(screen) ==
  /\ fb' = [i \in Cells |-> IF i < FB_COLS * (FB_ROWS - 1)
                            THEN screen[i + FB_COLS] ELSE Cell(Space, 15, 0)]
  /\ fb_row' = FB_ROWS - 1
  /\ fb_col' = 0

fb_write(string) ==
  /\ pc = "idle"
  /\ Len(text) + Len(string) <= MaxText
  /\ pc' = "fb_write"
  /\ buf' = string
  /\ UNCHANGED <<fb, fb_col, fb_row, crtc, text>>

OffScreen(row) == row >= FB_ROWS

\* One character.
fb_write_char ==
  /\ pc = "fb_write" /\ buf # <<>>
  /\ LET c == Head(buf)
         down == c = NewLine \/ fb_col + 1 >= FB_COLS
         row == IF down THEN fb_row + 1 ELSE fb_row
         screen == IF c = NewLine THEN fb
                   ELSE fb_write_cell(fb_row * FB_COLS + fb_col, c, 0, 5)
     IN  /\ text' = Append(text, c)
         /\ IF OffScreen(row)
            THEN fb_scroll(screen)
            ELSE /\ fb' = screen
                 /\ fb_row' = row
                 /\ fb_col' = IF down THEN 0 ELSE fb_col + 1
  /\ buf' = Tail(buf)
  /\ UNCHANGED <<crtc, pc>>

fb_write_end ==
  /\ pc = "fb_write" /\ buf = <<>>
  /\ fb_move_cursor(fb_row * FB_COLS + fb_col)
  /\ pc' = "idle"
  /\ UNCHANGED <<fb, fb_col, fb_row, buf, text>>

Next ==
  \/ \E string \in Strings : fb_write(string)
  \/ fb_write_char \/ fb_write_end

Spec == Init /\ [][Next]_vars

----------------------------------------------------------------------------
\* The reference: the text on an endless roll of paper FB_COLS wide.  Place[k]
\* is the line and the column after its first k characters.
Place[k \in 0 .. Len(text)] ==
  IF k = 0 THEN <<0, 0>>
  ELSE LET before == Place[k - 1]
       IN  IF text[k] = NewLine \/ before[2] = FB_COLS - 1
           THEN <<before[1] + 1, 0>>
           ELSE <<before[1], before[2] + 1>>

Pen == Place[Len(text)]

\* The roll's first line that is on the screen.
Top == IF Pen[1] < FB_ROWS THEN 0 ELSE Pen[1] - (FB_ROWS - 1)

\* What the roll shows where nothing was written: the old screen, then paper.
Under(line, col) ==
  IF line < FB_ROWS THEN Garbage(line * FB_COLS + col) ELSE Space

\* The character of the text at that place, as a set of its number.
WrittenAt(line, col) ==
  {k \in 1 .. Len(text) : text[k] # NewLine /\ Place[k - 1] = <<line, col>>}

OnRoll(line, col) ==
  IF WrittenAt(line, col) = {} THEN Under(line, col)
  ELSE text[CHOOSE k \in WrittenAt(line, col) : TRUE]

\* The screen is a window on the end of that roll, at every character: nothing
\* is overwritten, skipped or left behind when a line is full, when the last
\* cell of the screen is, or when lines end there (framebuffer.c:75-96).
ScreenShowsText ==
  \A row \in 0 .. FB_ROWS - 1, col \in 0 .. FB_COLS - 1 :
    fb[row * FB_COLS + col].char = OnRoll(Top + row, col)

\* Between calls the hardware's cursor, put together from its two bytes, is
\* where the next character goes (framebuffer.c:99).
CursorAfterText ==
  pc = "idle" /\ text # <<>> =>
    crtc[1] * BYTE + crtc[2] = (Pen[1] - Top) * FB_COLS + Pen[2]
============================================================================

------------------------------ MODULE Console ------------------------------
(***************************************************************************)
(* The text console of drivers/screen.c, on VGA text memory or on a        *)
(* framebuffer, and the echo of the line editor getline (keyboard.c).      *)
(*                                                                         *)
(* A cell holds the code point it shows; colours and pixels are left out.  *)
(* VGA mode keeps its cursor in the controller as one position (pos); the  *)
(* framebuffer keeps a row and a column.  Offsets are counted in cells:    *)
(* the code's are twice as large.  What VGA memory holds past the screen   *)
(* is never shown; a character put there is dropped.  The branch of        *)
(* print_char_vga that draws an error cell for coordinates off the screen  *)
(* has no caller.                                                          *)
(***************************************************************************)
EXTENDS Integers, Sequences, SequencesExt

CONSTANTS MAX_COLS,   \* VGA_COLS, and the width that offsets assume
          VGA_ROWS,
          FbSizes,    \* framebuffers: columns and rows
          Bytes,      \* bytes that the kernel and its programs print
          Messages,   \* strings that they print at a place
          Keys,       \* characters typed at the prompt
          Cyrillic,   \* code points with a glyph of their own
          LineMax,    \* bound: characters of a line
          MaxCalls    \* bound: calls to print or to read a line

VARIABLES scr,    \* use_fb, get_cols and get_rows
          cells,  \* what the screen shows
          cur,    \* the cursor
          utf8,   \* utf8_cp and utf8_rem
          ed,     \* getline: running, text, cursor_pos, base_offset; the longest
                  \* the line has been (history)
          out     \* history: the last bytes printed, what the last one drew, calls
conVars == <<scr, cells, cur, utf8, ed, out>>

Newline == 10
Backspace == 8
Blank == 32
Question == 63

-----------------------------------------------------------------------------
(* Offsets and the cursor.  A screen s is what it shows and its cursor.    *)

Size == scr.cols * scr.rows

get_cursor_offset(s) == IF scr.use_fb THEN s.row * MAX_COLS + s.col ELSE s.pos

set_cursor_offset(s, off) ==
  IF scr.use_fb THEN [s EXCEPT !.row = off \div MAX_COLS, !.col = off % MAX_COLS]
  ELSE [s EXCEPT !.pos = off]

get_offset(col, row) == row * MAX_COLS + col

Screen == [cells |-> cells, pos |-> cur.pos, row |-> cur.row, col |-> cur.col]

Cleared == [i \in 0 .. Size - 1 |-> IF scr.use_fb THEN 0 ELSE Blank]

SetScreen(s) ==
  /\ cells' = s.cells
  /\ cur' = [pos |-> s.pos, row |-> s.row, col |-> s.col]

-----------------------------------------------------------------------------
(* Drawing.                                                                *)

Show(s, i, cp) == IF i \in DOMAIN s.cells THEN [s EXCEPT !.cells[i] = cp] ELSE s

(* draw_glyph: put_pixel drops what falls outside the framebuffer.         *)
draw_glyph(s, col, row, cp) ==
  IF col < scr.cols /\ row < scr.rows THEN Show(s, row * scr.cols + col, cp) ELSE s

Scrolled(c) == [i \in DOMAIN c |-> IF i + scr.cols \in DOMAIN c THEN c[i + scr.cols] ELSE 0]

fb_scroll(s) == [s EXCEPT !.cells = Scrolled(@)]

(* The end of print_char_fb and of render_codepoint: wrap, then scroll.    *)
Settle(s, col, row) ==
  LET c == IF col >= scr.cols THEN 0 ELSE col
      r == IF col >= scr.cols THEN row + 1 ELSE row
  IN IF r >= scr.rows THEN [fb_scroll(s) EXCEPT !.row = scr.rows - 1, !.col = 0]
     ELSE [s EXCEPT !.row = r, !.col = c]

print_char_fb(s, c, col, row) ==
  CASE c = Newline   -> Settle(s, 0, row + 1)
    [] c = Backspace -> LET k == IF col > 0 THEN col - 1 ELSE col
                        IN Settle(draw_glyph(s, k, row, Blank), k, row)
    [] OTHER         -> Settle(draw_glyph(s, col, row, c), col + 1, row)

print_char_vga(s, c, offset) ==
  LET t == CASE c = Newline   -> [s EXCEPT !.pos = get_offset(0, offset \div MAX_COLS + 1)]
             [] c = Backspace -> [Show(s, offset - 1, Blank) EXCEPT !.pos = offset - 1]
             [] OTHER         -> [Show(s, offset, c) EXCEPT !.pos = offset + 1]
  IN IF t.pos >= Size THEN [t EXCEPT !.cells = Scrolled(@), !.pos = @ - MAX_COLS] ELSE t

(* do_print_char at the cursor.                                            *)
do_print_char(s, c) ==
  IF scr.use_fb THEN print_char_fb(s, c, s.col, s.row) ELSE print_char_vga(s, c, s.pos)

render_codepoint(s, cp) ==
  IF cp < 256 THEN do_print_char(s, cp)
  ELSE IF ~scr.use_fb THEN do_print_char(s, Question)
  ELSE Settle(draw_glyph(s, s.col, s.row, IF cp \in Cyrillic THEN cp ELSE Question),
              s.col + 1, s.row)

-----------------------------------------------------------------------------
(* The UTF-8 decoder.                                                      *)

Continues(b) == b \div 64 = 2

(* A byte that starts a sequence: the bytes to come, and its own bits.     *)
Lead(b) == CASE b \div 32 = 6  -> [rem |-> 1, cp |-> b % 32]
             [] b \div 16 = 14 -> [rem |-> 2, cp |-> b % 16]
             [] b \div 8 = 30  -> [rem |-> 3, cp |-> b % 8]
             [] OTHER          -> [rem |-> 0, cp |-> 0]

None == -1

Clear == [rem |-> 0, cp |-> 0]

StayPending(u, b) == IF Lead(b).rem > 0 THEN Lead(b) ELSE u

(* A byte that does not continue a sequence: what was pending is dropped.  *)
Restart(u, b) == Lead(b)

(* output_utf8_byte: the decoder after b, and the code point to draw.  A   *)
(* finished sequence leaves utf8_cp in place, where nothing reads it.      *)
Utf8Step(u, b) ==
  IF u.rem > 0 /\ Continues(b)
  THEN LET cp == u.cp * 64 + (b % 64)
       IN IF u.rem = 1 THEN [u |-> Clear, draw |-> cp]
          ELSE [u |-> [rem |-> u.rem - 1, cp |-> cp], draw |-> None]
  ELSE [u |-> Restart(u, b), draw |-> IF b < 128 THEN b ELSE None]

(* The history is cut at a byte below 128, which leaves nothing pending.   *)
LastThree(q) == IF Len(q) > 3 THEN Tail(q) ELSE q

Remember(h, b, draw) ==
  [h EXCEPT !.last = IF b < 128 THEN <<b>> ELSE LastThree(@) \o <<b>>, !.drew = draw]

(* One byte: p is the screen, the decoder and the history it finds.        *)
output_utf8_byte(p, b) ==
  LET d == Utf8Step(p.utf8, b)
  IN [screen |-> IF d.draw = None THEN p.screen ELSE render_codepoint(p.screen, d.draw),
      utf8   |-> d.u,
      out    |-> Remember(p.out, b, d.draw)]

(* A string, from the cursor of s on.                                      *)
kprint(s, str) == FoldLeft(output_utf8_byte, [screen |-> s, utf8 |-> utf8, out |-> out], str)

-----------------------------------------------------------------------------
(* The calls.  No task prints while getline waits for a key.               *)

NoLine == [on |-> FALSE, line |-> <<>>, pos |-> 0, base |-> 0, far |-> 0]

Call == /\ ~ed.on /\ out.calls < MaxCalls
        /\ UNCHANGED scr

Counted(h) == [h EXCEPT !.calls = @ + 1]

PrintCall(p) ==
  /\ Call /\ UNCHANGED ed
  /\ SetScreen(p.screen)
  /\ utf8' = p.utf8
  /\ out' = Counted(p.out)

kprint_char(b) == PrintCall(kprint(Screen, <<b>>))

(* With a place on the screen the cursor goes there first.                 *)
kprint_at(message, col, row) ==
  PrintCall(kprint(IF scr.use_fb THEN [Screen EXCEPT !.col = col, !.row = row]
                   ELSE [Screen EXCEPT !.pos = get_offset(col, row)], message))

clear_screen ==
  /\ Call /\ UNCHANGED <<utf8, ed>>
  /\ SetScreen([cells |-> Cleared, pos |-> 0, row |-> 0, col |-> 0])
  /\ out' = Counted(out)

(* The charmap command calls it after two blanks.                          *)
kprint_backspace ==
  /\ Call /\ UNCHANGED <<utf8, ed>>
  /\ IF scr.use_fb THEN cur.col >= 2 ELSE cur.pos >= 2
  /\ LET offset == get_cursor_offset(Screen) - 1
     IN SetScreen(IF scr.use_fb
                  THEN print_char_fb(Screen, Backspace, offset % scr.cols, offset \div scr.cols)
                  ELSE print_char_vga(Screen, Backspace, offset))
  /\ out' = Counted(out)

-----------------------------------------------------------------------------
(* getline with echo: the prompt's line editor.                            *)

At(pos) == ed.base + pos

GetlineStart ==
  /\ Call /\ UNCHANGED <<cells, cur, utf8>>
  /\ ed' = [NoLine EXCEPT !.on = TRUE, !.base = get_cursor_offset(Screen)]
  /\ out' = Counted(out)

(* KEY_LEFT and KEY_RIGHT.                                                 *)
MoveTo(pos) ==
  /\ ed.on /\ pos \in 0 .. Len(ed.line)
  /\ ed' = [ed EXCEPT !.pos = pos]
  /\ SetScreen(set_cursor_offset(Screen, At(pos)))
  /\ UNCHANGED <<scr, utf8, out>>

(* Print str where the character at from stands; the cursor ends at to.    *)
Redraw(from, str, to) ==
  LET p == kprint(set_cursor_offset(Screen, At(from)), str)
  IN /\ SetScreen(set_cursor_offset(p.screen, At(to)))
     /\ utf8' = p.utf8
     /\ out' = p.out
     /\ UNCHANGED scr

Suffix == SubSeq(ed.line, ed.pos + 1, Len(ed.line))

Insert(c) ==
  /\ ed.on /\ Len(ed.line) < LineMax
  /\ ed' = [ed EXCEPT !.line = SubSeq(@, 1, ed.pos) \o <<c>> \o Suffix, !.pos = @ + 1,
                      !.far = IF @ > Len(ed.line) THEN @ ELSE Len(ed.line) + 1]
  /\ Redraw(ed.pos, <<c>> \o Suffix, ed.pos + 1)

NotErased(suffix) == suffix

(* The blank erases the character that is now one too many.                *)
Erased(suffix) == suffix \o <<Blank>>

Rubout ==
  /\ ed.on /\ ed.pos > 0
  /\ ed' = [ed EXCEPT !.line = SubSeq(@, 1, ed.pos - 1) \o Suffix, !.pos = @ - 1]
  /\ Redraw(ed.pos - 1, Erased(Suffix), ed.pos - 1)

Enter ==
  /\ ed.on
  /\ ed' = NoLine
  /\ UNCHANGED <<scr, cells, cur, utf8, out>>

-----------------------------------------------------------------------------
(* screen_init: text mode, or a framebuffer.  Boot has cleared the screen. *)
screen_init == {[use_fb |-> FALSE, cols |-> MAX_COLS, rows |-> VGA_ROWS]}
               \cup {[use_fb |-> TRUE, cols |-> f.cols, rows |-> f.rows] : f \in FbSizes}

console_Boot(d) ==
  /\ scr = d
  /\ cells = Cleared
  /\ cur = [pos |-> 0, row |-> 0, col |-> 0]
  /\ utf8 = Clear
  /\ ed = NoLine
  /\ out = [last |-> <<>>, drew |-> None, calls |-> 0]

console_Next ==
  \/ \E b \in Bytes : kprint_char(b)
  \/ \E m \in Messages, col \in 0 .. scr.cols - 1, row \in 0 .. scr.rows - 1 :
       kprint_at(m, col, row)
  \/ clear_screen \/ kprint_backspace
  \/ GetlineStart
  \/ MoveTo(ed.pos - 1) \/ MoveTo(ed.pos + 1)
  \/ \E c \in Keys : Insert(c)
  \/ Rubout \/ Enter

-----------------------------------------------------------------------------
(* The bytes by themselves: the last one draws what it completes, a code   *)
(* point below 128 or a lead byte with exactly its continuation bytes, and *)
(* draws nothing in any other place of any sequence, well formed or not.   *)
Completes(k) ==
  LET n == Len(out.last)
  IN /\ k < n /\ Lead(out.last[n - k]).rem = k
     /\ \A i \in n - k + 1 .. n : Continues(out.last[i])

Value(k) ==
  LET n == Len(out.last)
  IN Lead(out.last[n - k]).cp * 64^k
       + MapThenSumSet(LAMBDA i : (out.last[n - i] % 64) * 64^i, 0 .. k - 1)

DecodesExactly ==
  out.last # <<>> =>
    LET b == out.last[Len(out.last)]
    IN out.drew = IF b < 128 THEN b
                  ELSE IF \E k \in 1 .. 3 : Completes(k)
                  THEN Value(CHOOSE k \in 1 .. 3 : Completes(k))
                  ELSE None

(* The room the echo needs: getline computes each cursor from base_offset, *)
(* so the line may not scroll the screen, and on a framebuffer that is not *)
(* MAX_COLS wide it may not leave the columns that an offset can name.     *)
LineFits ==
  IF scr.cols = MAX_COLS THEN ed.base + ed.far < Size
  ELSE (ed.base % MAX_COLS) + ed.far < (IF scr.cols < MAX_COLS THEN scr.cols ELSE MAX_COLS)
       /\ ed.base \div MAX_COLS < scr.rows

CellOf(off) == IF scr.use_fb THEN (off \div MAX_COLS) * scr.cols + (off % MAX_COLS) ELSE off

(* The echo of getline is the line: after any insertions, deletions and    *)
(* moves, the cells from where the line began show its characters, those   *)
(* it has given up are blank, and the cursor is where the next key will    *)
(* act, as long as the line fits (keyboard.c:78-165).                      *)
EchoIsLine ==
  ed.on /\ LineFits =>
    /\ \A i \in 1 .. Len(ed.line) : cells[CellOf(At(i - 1))] = ed.line[i]
    /\ \A i \in Len(ed.line) + 1 .. ed.far : cells[CellOf(At(i - 1))] = Blank
    /\ get_cursor_offset(Screen) = At(ed.pos)
=============================================================================

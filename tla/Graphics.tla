------------------------------ MODULE Graphics ------------------------------
(***************************************************************************)
(* The framebuffer library of src/project1/library.c driven by its two     *)
(* demos, src/project1/square.c and src/project1/driver.c.  init_graphics  *)
(* turns the terminal's ICANON and ECHO off and maps yres_virtual * line_length   *)
(* bytes of /dev/fb0 (whole pages of it are accessible); draw_pixel clips  *)
(* against xres_virtual and yres_virtual and stores a 16-bit color_t at    *)
(* index y * xres_virtual + x; draw_rect walks the outline of a rectangle  *)
(* through draw_pixel; draw_char draws the set bits of a 16-row glyph of   *)
(* iso_font and draw_text one glyph every 8 pixels.  square.c erases and   *)
(* redraws a 20x20 square as the user presses w, a, s and d, until q;      *)
(* driver.c makes a fixed series of calls and waits for c.  exit_graphics  *)
(* turns ICANON and ECHO back on.                                          *)
(*                                                                         *)
(* Colours, the terminal escape of clear_screen and the time sleep_ms      *)
(* waits change nothing the properties tell apart and are left out; the    *)
(* framebuffer is represented by the pixels each step writes.  iso_font.h  *)
(* is not in the repository: the font is the constant Font.               *)
(***************************************************************************)
EXTENDS Integers, Sequences, SequencesExt, Bitwise

CONSTANTS
  XRes,        \* screen_var_info.xres_virtual
  YRes,        \* screen_var_info.yres_virtual
  LineLength,  \* screen_fix_info.line_length, in bytes
  PageSize,    \* the granule of mmap
  MaxTravel,   \* bound: the square stays this far from its start
  Font,        \* iso_font: Font[ch][i] is row i (0..15) of ch's glyph, a byte
  Programs     \* the demos run: a subset of {"square", "driver"}

VARIABLES
  prog,        \* the demo this process runs
  pc,          \* driver.c: the index of its next call
  raw,         \* terminal_settings has ICANON and ECHO off
  x, y,        \* square.c's position of the square
  status,      \* "running", "exited" (after q) or "segv"
  drawn        \* the pixels draw_pixel wrote in the last step

vars == <<prog, pc, raw, x, y, status, drawn>>

\* square.c's constants: a 20x20 square moved 10 pixels a key, started at
\* the centre of the 640x480 screen it was written for.
Side == 20
Stride == 10
StartX == (640 - 20) \div 2
StartY == (480 - 20) \div 2

\* What getkey returns: a key a demo reacts to, or another character or
\* the '\0' of a 5 s select timeout.
Keys == {"w", "a", "s", "d", "q", "c", "other"}

-----------------------------------------------------------------------------
(* The library.                                                            *)

\* The bytes of the mapping a store may touch: size_of_display rounded up
\* to whole pages.
MappedBytes == ((YRes * LineLength + PageSize - 1) \div PageSize) * PageSize

\* draw_pixel's clip test: the pixel is drawn unless it is off screen.
\* mutant: the correct bound (>= instead of >)
ClipsStrict(p) == ~(p[1] < 0 \/ p[2] < 0 \/ p[1] >= XRes \/ p[2] >= YRes)
Clips(p) == ~(p[1] < 0 \/ p[2] < 0 \/ p[1] > XRes \/ p[2] > YRes)

\* *(framebuffer + offset) = color: a store of two bytes at offset.
Stored(p) == (p[2] * XRes + p[1]) * 2 + 2 <= MappedBytes

\* The pixels draw_rect(x1, y1, w, h, c) hands to draw_pixel, in order: the
\* top side left to right (x1++), the right side down (y1++), the bottom
\* side right to left (x1--), the left side up (y1--).
RectPath(x1, y1, w, h) ==
  [i \in 1 .. w |-> <<x1 + i - 1, y1>>]
  \o [i \in 1 .. h |-> <<x1 + w, y1 + i - 1>>]
  \o [i \in 1 .. w |-> <<x1 + w - i + 1, y1 + h>>]
  \o [i \in 1 .. h |-> <<x1, y1 + h - i + 1>>]

\* draw_rect's early return, then the pixels draw_pixel stores.
DrawRect(x1, y1, w, h) ==
  IF ((x1 + w) < 0 /\ (y1 + h) < 0) \/ (x1 > XRes /\ y1 > YRes) THEN <<>>
  ELSE SelectSeq(RectPath(x1, y1, w, h), Clips)

\* draw_char: row i of the glyph, bit j (curr_row & 0x01, then >>= 1) at
\* (x + j, y + i), rows top to bottom and bits right-shifted out in turn.
DrawChar(x1, y1, ch) ==
  LET cell == FlattenSeq([i \in 1 .. 16 |-> [j \in 1 .. 8 |-> <<i - 1, j - 1>>]])
      set(b) == shiftR(Font[ch][b[1]], b[2]) & 1 = 1
      bits == SelectSeq(cell, set)
  IN SelectSeq([k \in 1 .. Len(bits) |-> <<x1 + bits[k][2], y1 + bits[k][1]>>], Clips)

\* draw_text: character i at x + i*8, up to the terminating NUL.
DrawText(x1, y1, text) ==
  FlattenSeq([i \in 1 .. Len(text) |-> DrawChar(x1 + (i - 1) * 8, y1, text[i])])

\* The writes of a step, stored in order until the first one outside the
\* mapping, which ends the process (and leaves the terminal raw).  A step
\* that finishes the program runs exit_graphics.
Perform(w, exits) ==
  LET bad == SelectInSeq(w, LAMBDA p : ~Stored(p))
  IN IF bad = 0
       THEN /\ drawn' = ToSet(w)
            /\ status' = IF exits THEN "exited" ELSE "running"
            /\ raw' = (raw /\ ~exits)
       ELSE /\ drawn' = ToSet(SubSeq(w, 1, bad))
            /\ status' = "segv"
            /\ UNCHANGED raw

-----------------------------------------------------------------------------
(* square.c.                                                               *)

\* The position after key k.
Move(k) ==
  CASE k = "w" -> <<x, y - Stride>>
    [] k = "s" -> <<x, y + Stride>>
    [] k = "a" -> <<x - Stride, y>>
    [] k = "d" -> <<x + Stride, y>>
    [] OTHER -> <<x, y>>

\* main of either demo right after init_graphics (open, ioctls that clear
\* ICANON and ECHO, mmap, clear_screen).
Init ==
  /\ prog \in Programs
  /\ pc = 1
  /\ raw = TRUE
  /\ x = StartX /\ y = StartY
  /\ status = "running"
  /\ drawn = {}

\* One iteration of the do-while loop: erase the square with a black
\* draw_rect, getkey, move, draw it again and sleep; after q,
\* exit_graphics.  The first store outside the mapping ends the process.
Iterate(k) ==
  LET to == Move(k)
  IN /\ prog = "square" /\ status = "running"
     /\ to[1] - StartX \in -MaxTravel .. MaxTravel
     /\ to[2] - StartY \in -MaxTravel .. MaxTravel
     /\ x' = to[1] /\ y' = to[2]
     /\ Perform(DrawRect(x, y, Side, Side) \o DrawRect(to[1], to[2], Side, Side), k = "q")
     /\ UNCHANGED <<prog, pc>>

-----------------------------------------------------------------------------
(* driver.c.                                                               *)

\* driver.c's calls after init_graphics, in order, without their colours;
\* the while(getkey() != 'c') loop is the call "waitkey".
Driver == <<
  [op |-> "rect", x |-> 100, y |-> 100, w |-> 50, h |-> 100],
  [op |-> "rect", x |-> 150, y |-> 100, w |-> 50, h |-> 50],
  [op |-> "rect", x |-> 0, y |-> 0, w |-> 100, h |-> 100],
  [op |-> "pixel", x |-> 200, y |-> 250],
  [op |-> "sleep"],
  [op |-> "text", x |-> 0, y |-> 400, s |-> <<"h","e","l","l","o"," ","w","o","r","l","d","!">>],
  [op |-> "text", x |-> -100, y |-> 300,
   s |-> <<"s","a","m","p","l","e"," ","t","e","x","t"," ","w","o","w","?","!">>],
  [op |-> "rect", x |-> -150, y |-> 300, w |-> 80000, h |-> 300],
  [op |-> "sleep"], [op |-> "clear"], [op |-> "sleep"],
  [op |-> "rect", x |-> 300, y |-> 300, w |-> 100, h |-> 50],
  [op |-> "sleep"],
  [op |-> "rect", x |-> 100, y |-> 150, w |-> 200, h |-> 200],
  [op |-> "sleep"],
  [op |-> "text", x |-> 148, y |-> 242, s |-> <<"t","h","i","s"," ">>],
  [op |-> "sleep"],
  [op |-> "text", x |-> 188, y |-> 242, s |-> <<"i","s"," ">>],
  [op |-> "sleep"],
  [op |-> "text", x |-> 212, y |-> 242, s |-> <<"c","o","o","l","!">>],
  [op |-> "waitkey"],
  [op |-> "exit"] >>

\* The pixels call c stores; sleep_ms, clear_screen (a terminal escape),
\* getkey and exit_graphics store none.
Writes(c) ==
  CASE c.op = "rect" -> DrawRect(c.x, c.y, c.w, c.h)
    [] c.op = "pixel" -> SelectSeq(<<<<c.x, c.y>>>>, Clips)
    [] c.op = "text" -> DrawText(c.x, c.y, c.s)
    [] OTHER -> <<>>

\* The next call of driver.c.
Call ==
  LET c == Driver[pc]
  IN /\ prog = "driver" /\ status = "running"
     /\ c.op # "waitkey"
     /\ pc' = pc + 1
     /\ Perform(Writes(c), c.op = "exit")
     /\ UNCHANGED <<prog, x, y>>

\* One turn of while(getkey() != 'c'){}: it leaves the loop on c.
WaitKey(k) ==
  /\ prog = "driver" /\ status = "running"
  /\ Driver[pc].op = "waitkey"
  /\ pc' = IF k = "c" THEN pc + 1 ELSE pc
  /\ drawn' = {}
  /\ UNCHANGED <<prog, raw, x, y, status>>

Next ==
  \/ \E k \in Keys : Iterate(k) \/ WaitKey(k)
  \/ Call

Spec == Init /\ [][Next]_vars

-----------------------------------------------------------------------------
(* Properties                                                              *)

(* draw_pixel keeps both demos on the screen: every pixel stored lies on  *)
(* the visible xres x yres screen, so it lands on the pixel it names and   *)
(* inside the mapping, whatever the demo draws and the user presses.       *)
DrawsOnScreen == \A p \in drawn : p[1] < XRes /\ p[2] < YRes

=============================================================================

------------------------------- MODULE Canvas -------------------------------
(***************************************************************************)
(* What the drawing functions of kernel/video do to a buffer.                *)
(*                                                                         *)
(* A buffer of width w and height h is a function from offsets, in pixels    *)
(* from its address, to colours.  A write at an offset that is not in         *)
(* 0 .. w * h - 1 hits other memory: it stays in the function, so that         *)
(* Inside can tell.                                                        *)
(***************************************************************************)
EXTENDS Integers, Sequences, FiniteSets

U16(n) == n % 65536

\* A colour is its four bytes, the lowest one first.
Transparent == <<0, 0, 0, 255>>

\* What memory holds that nobody has written.
Garbage == << >>

Blank(w, h, colour) == [o \in 0 .. w * h - 1 |-> colour]

Inside(c, w, h) == DOMAIN c = 0 .. w * h - 1

\* The offset of the null pointer: far from every buffer.
Null == -1000000

Read(c, o) == IF o \in DOMAIN c THEN c[o] ELSE Garbage

-----------------------------------------------------------------------------
(* framebuffer.c and drawing.c.                                            *)

Clipped(w, h, x, y) == x >= w \/ y >= h

\* get_linear_address.
LinearAddress(w, h, x, y) == IF Clipped(w, h, x, y) THEN Null ELSE y * w + x

\* put_pixel draws nothing outside of the buffer.  Its arguments are cut to 16 bits.
PutPixel(c, w, h, x, y, colour) ==
  LET o == LinearAddress(w, h, U16(x), U16(y))
  IN  IF o = Null THEN c ELSE [c EXCEPT ![o] = colour]

\* Mutant: the loop over the rows runs once too often.
PutRectOneMore(c, w, h, x, y, rw, rh, colour) ==
  LET base == LinearAddress(w, h, x, y)
  IN  [o \in DOMAIN c \cup UNION {base + i * w .. base + i * w + rw - 1 : i \in 0 .. rh} |->
         IF \E i \in 0 .. rh : o \in base + i * w .. base + i * w + rw - 1 THEN colour ELSE c[o]]

\* put_rect looks at its first corner only.
PutRect(c, w, h, x, y, rw, rh, colour) ==
  LET base == LinearAddress(w, h, x, y)
  IN  [o \in DOMAIN c \cup UNION {base + i * w .. base + i * w + rw - 1 : i \in 0 .. rh - 1} |->
         IF \E i \in 0 .. rh - 1 : o \in base + i * w .. base + i * w + rw - 1 THEN colour ELSE c[o]]

\* swap_bufs copies line by line: a line of the front buffer is `pitch` pixels long, which
\* are w or more.
SwapBufs(front, pitch, back, w, h) ==
  [o \in DOMAIN front \cup {i * pitch + j : i \in 0 .. h - 1, j \in 0 .. w - 1} |->
     IF o \div pitch \in 0 .. h - 1 /\ o % pitch < w
       THEN Read(back, (o \div pitch) * w + (o % pitch)) ELSE front[o]]

-----------------------------------------------------------------------------
(* processing.c.                                                           *)

\* composite_buffer: put_pixel of every pixel of s, which is sw wide and sh high.
Composite(c, w, h, s, sw, sh, x, y) ==
  [o \in DOMAIN c |->
     LET j == U16((o % w) - x)
         i == U16((o \div w) - y)
     IN  IF o \in 0 .. w * h - 1 /\ j < sw /\ i < sh THEN Read(s, i * sw + j) ELSE c[o]]

\* round(j / (d / s)), the place in s that place j of d shows.  The quotients are floats:
\* the places in `down` come out just below the half they should be and go down.
Halfway(j, d, s) == (2 * j * s + d) % (2 * d) = 0
Rounded(j, d, s, down) ==
  (2 * j * s + d) \div (2 * d) - (IF Halfway(j, d, s) /\ j \in down THEN 1 ELSE 0)

\* Mutant: a place that was rounded up is not moved back inside.
SampleColumnRaw(j, d, s, down) == Rounded(j, d, s, down)

SampleColumn(j, d, s, down) ==
  IF Rounded(j, d, s, down) >= s THEN s - 1 ELSE Rounded(j, d, s, down)

\* A row that was rounded up is moved to one less than the width.
SampleRow(i, d, s, sw, down) ==
  IF Rounded(i, d, s, down) >= s THEN sw - 1 ELSE Rounded(i, d, s, down)

\* scale_buffer.
Scale(dw, dh, s, sw, sh, down) ==
  [o \in 0 .. dw * dh - 1 |->
     Read(s, SampleRow(o \div dw, dh, sh, sw, down) * sw + SampleColumn(o % dw, dw, sw, down))]

-----------------------------------------------------------------------------
(* text.c.  A font has the width and height of its glyphs and, for each        *)
(* character, the bytes of its glyph, each as the set of the bits, counted      *)
(* from the left, that are set.                                            *)

Lit(font, char, i, j) ==
  (j % 8) \in font.glyphs[char][i * (font.width \div 8) + (j \div 8) + 1]

\* put_char does not look at the edges of the buffer: what it draws may reach into the lines
\* above and below, where the pixels of a later row win.
PutChar(c, w, font, char, x, y, fg, bg) ==
  LET target == y * w + x
      column(o, i) == o - (target + i * w)
      colour(o, i) == IF Lit(font, char, i, column(o, i)) THEN fg ELSE bg
      rows(o) == {i \in 0 .. font.height - 1 :
                    column(o, i) \in 0 .. font.width - 1 /\ colour(o, i) # Transparent}
      last(o) == CHOOSE i \in rows(o) : \A k \in rows(o) : k <= i
      drawn == {o \in target .. target + font.height * w + font.width : rows(o) # {}}
  IN  [o \in DOMAIN c \cup drawn |-> IF rows(o) = {} THEN c[o] ELSE colour(o, last(o))]

\* Mutant: a new line starts at the left edge.
NextCursorLeft(at, font, x, width) ==
  LET right == U16(at.x + font.width + 1)
  IN  IF right + font.width >= width
        THEN [x |-> 0, y |-> U16(at.y + font.height)]
        ELSE [x |-> right, y |-> at.y]

\* put_str draws the characters one by one.  The line is broken when the next one would
\* reach `width`, and the new one starts where the string began.
NextCursor(at, font, x, width) ==
  LET right == U16(at.x + font.width + 1)
  IN  IF right + font.width >= width
        THEN [x |-> x, y |-> U16(at.y + font.height)]
        ELSE [x |-> right, y |-> at.y]
=============================================================================

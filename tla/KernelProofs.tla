---------------------------- MODULE KernelProofs ----------------------------
(***************************************************************************)
(* Proofs about the kernel's start on every machine: what is drawn stays in   *)
(* its buffers, the ACPI tables are walked to the address of the local APIC,  *)
(* the picture and the log come out as they were given.                      *)
(***************************************************************************)
EXTENDS Kernel, NaturalsFacts, SequenceTheorems, FunctionTheorems

-----------------------------------------------------------------------------
(* Buffers.                                                                *)

\* A pixel inside of a buffer has an offset inside of it.
LEMMA OffsetInside ==
  ASSUME NEW w \in Nat, NEW h \in Nat, NEW x \in 0 .. w - 1, NEW y \in 0 .. h - 1
  PROVE  y * w + x \in 0 .. w * h - 1
<1>1. PICK r \in Nat : h = y + 1 + r
  <2>1. h - y - 1 \in Nat /\ h = y + 1 + (h - y - 1)
    OBVIOUS
  <2> QED
    BY <2>1
<1>2. r * w \in Nat /\ y * w \in Nat
  BY ProductNatural
<1>3. w * h = y * w + w + r * w
  BY <1>1
<1> QED
  BY <1>2, <1>3

\* The rows of a rectangle inside of a buffer are inside of it.
LEMMA RectInside ==
  ASSUME NEW w \in Nat, NEW h \in Nat, NEW x \in Nat, NEW y \in Nat, NEW rw \in Nat, NEW rh \in Nat,
         x + rw <= w, y + rh <= h,
         NEW i \in 0 .. rh - 1, NEW j \in 0 .. rw - 1
  PROVE  (y * w + x) + i * w + j \in 0 .. w * h - 1
<1>1. x + j \in 0 .. w - 1 /\ y + i \in 0 .. h - 1
  OBVIOUS
<1>2. (y + i) * w + (x + j) \in 0 .. w * h - 1
  BY <1>1, OffsetInside
<1>3. y * w \in Nat /\ i * w \in Nat
  BY ProductNatural
<1>4. (y + i) * w = y * w + i * w
  OBVIOUS
<1> QED
  BY <1>2, <1>3, <1>4

\* put_pixel draws inside of the buffer, wherever it is asked to.
LEMMA PutPixelInside ==
  ASSUME NEW c, NEW w, NEW h, NEW x, NEW y, NEW colour
  PROVE  DOMAIN PutPixel(c, w, h, x, y, colour) = DOMAIN c
BY DEF PutPixel

\* So does put_rect if the rectangle is in the buffer and has a pixel.
LEMMA PutRectInside ==
  ASSUME NEW w \in Nat, NEW h \in Nat, NEW c, Inside(c, w, h), NEW colour,
         NEW x \in Nat, NEW y \in Nat, NEW rw \in Nat, NEW rh \in Nat,
         x < w, y < h, x + rw <= w, y + rh <= h
  PROVE  Inside(PutRect(c, w, h, x, y, rw, rh, colour), w, h)
<1>1. LinearAddress(w, h, x, y) = y * w + x
  BY DEF LinearAddress, Clipped
<1> DEFINE line(i) == (y * w + x) + i * w .. (y * w + x) + i * w + rw - 1
<1>2. ASSUME NEW i \in 0 .. rh - 1, NEW o \in line(i)
      PROVE  o \in DOMAIN c
  <2>1. y * w \in Nat /\ i * w \in Nat
    BY ProductNatural
  <2>2. PICK j \in 0 .. rw - 1 : o = (y * w + x) + i * w + j
    <3>1. /\ o - ((y * w + x) + i * w) \in 0 .. rw - 1
          /\ o = (y * w + x) + i * w + (o - ((y * w + x) + i * w))
      BY <2>1
    <3> QED
      BY <3>1
  <2> QED
    BY <2>2, RectInside DEF Inside
<1>3. DOMAIN PutRect(c, w, h, x, y, rw, rh, colour) =
        DOMAIN c \cup UNION {line(i) : i \in 0 .. rh - 1}
  BY <1>1 DEF PutRect
<1> QED
  BY <1>2, <1>3 DEF Inside

\* swap_bufs copies into the frame buffer.
LEMMA SwapInside ==
  ASSUME NEW w \in Nat, NEW h \in Nat, NEW pitch \in Nat, w <= pitch,
         NEW front0, Inside(front0, pitch, h), NEW back0
  PROVE  Inside(SwapBufs(front0, pitch, back0, w, h), pitch, h)
<1>1. \A i \in 0 .. h - 1, j \in 0 .. w - 1 : i * pitch + j \in DOMAIN front0
  BY OffsetInside DEF Inside
<1>2. {i * pitch + j : i \in 0 .. h - 1, j \in 0 .. w - 1} \subseteq DOMAIN front0
  BY <1>1
<1>3. DOMAIN SwapBufs(front0, pitch, back0, w, h) =
        DOMAIN front0 \cup {i * pitch + j : i \in 0 .. h - 1, j \in 0 .. w - 1}
  BY DEF SwapBufs
<1> QED
  BY <1>2, <1>3 DEF Inside

\* composite_buffer draws with put_pixel.
LEMMA CompositeInside ==
  ASSUME NEW c, NEW w, NEW h, NEW s, NEW sw, NEW sh, NEW x, NEW y
  PROVE  DOMAIN Composite(c, w, h, s, sw, sh, x, y) = DOMAIN c
BY DEF Composite

\* put_char draws inside of the buffer if the glyph is in it.
LEMMA PutCharInside ==
  ASSUME NEW w \in Nat, NEW h \in Nat, NEW c, Inside(c, w, h),
         NEW f, f.width \in Nat, f.height \in Nat, NEW char, NEW fg, NEW bg,
         NEW x \in Nat, NEW y \in Nat, x + f.width <= w, y + f.height <= h
  PROVE  Inside(PutChar(c, w, f, char, x, y, fg, bg), w, h)
<1> DEFINE target == y * w + x
           column(o, i) == o - (target + i * w)
           colour(o, i) == IF Lit(f, char, i, column(o, i)) THEN fg ELSE bg
           rows(o) == {i \in 0 .. f.height - 1 :
                         column(o, i) \in 0 .. f.width - 1 /\ colour(o, i) # Transparent}
           drawn == {o \in target .. target + f.height * w + f.width : rows(o) # {}}
<1>1. DOMAIN PutChar(c, w, f, char, x, y, fg, bg) = DOMAIN c \cup drawn
  BY DEF PutChar
<1>2. ASSUME NEW o \in drawn
      PROVE  o \in DOMAIN c
  <2>1. PICK i \in 0 .. f.height - 1 : column(o, i) \in 0 .. f.width - 1
    OBVIOUS
  <2>2. target + i * w + column(o, i) \in 0 .. w * h - 1
    BY <2>1, RectInside
  <2>3. y * w \in Nat /\ i * w \in Nat /\ f.height * w \in Nat
    BY ProductNatural
  <2>4. o \in Int
    BY <2>3
  <2>5. target + i * w + column(o, i) = o
    BY <2>3, <2>4
  <2> QED
    BY <2>2, <2>5 DEF Inside
<1> QED
  BY <1>1, <1>2 DEF Inside

-----------------------------------------------------------------------------
(* What the stages of kmain have made.                                     *)

\* The stages from which on there is a heap, a double buffer, a buffer for the logo, a
\* font and a text box.
FontStages == LogoStages \ {"set_font"}
CanvasStages == {"put_targa", "scale", "fill", "composite", "swap"} \cup LogoStages
ScreenStages == {"draw_logo"} \cup CanvasStages
HeapStages == {"init_video"} \cup ScreenStages
BoxStages == PanicStages \ {"panic frame", "panic inner", "panic box"}
Stages == {"serial", "prep_mem", "heap", "halted"} \cup HeapStages

\* Each buffer is as large as it was made, or not there; each stage finds what it uses; and
\* what put_str still has to draw fits into the text box, were it in a line each.
ShapeInv ==
  /\ machine \in Machines
  /\ tga = machine.logo
  /\ stage \in Stages
  /\ stage \in HeapStages => kheap
  /\ back = << >> \/ Inside(back, machine.width, machine.height)
  /\ stage \in ScreenStages => Inside(back, machine.width, machine.height)
  /\ canvas = << >> \/ Inside(canvas, tga.width, tga.height)
  /\ stage \in CanvasStages => Inside(canvas, tga.width, tga.height)
  /\ box = << >> \/ Inside(box, Box, Box)
  /\ stage \in BoxStages => Inside(box, Box, Box)
  /\ Inside(front, machine.pitch, machine.height)
  /\ stage \in FontStages => font = machine.font
  /\ stage \in {"panic prefix", "panic text"} =>
       /\ text \in Seq(Nat)
       /\ pen.x \in Nat /\ pen.y \in Nat
       /\ text # << >> =>
            /\ pen.x + font.width <= Box
            /\ pen.y + Len(text) * font.height <= Box

\* What is assumed of a machine.
LEMMA MachineFacts ==
  ASSUME NEW m \in Machines
  PROVE  /\ Box \in Nat \ {0} /\ Box < 65536
         /\ m.width \in Nat \ {0} /\ m.height \in Nat \ {0}
         /\ m.width < 65536 /\ m.height < 65536
         /\ m.pitch \in Nat /\ m.width <= m.pitch
         /\ m.logo.width \in Nat \ {0} /\ m.logo.height \in Nat \ {0}
         /\ m.logo.width < 65536 /\ m.logo.height < 65536
         /\ m.font.width \in Nat \ {0} /\ 2 * m.font.width <= Box
         /\ m.font.height \in Nat \ {0} /\ 6 * m.font.height <= Box
         /\ m.font # << >>
<1>1. SoundFont(m.font) /\ SoundTarga(m.logo)
  BY KernelAssumption
<1>2. /\ Box \in Nat \ {0} /\ Box < 65536
      /\ m.width \in Nat \ {0} /\ m.width < 65536
      /\ m.height \in Nat \ {0} /\ m.height < 65536
      /\ m.pitch \in Nat /\ m.width <= m.pitch
  BY KernelAssumption
<1>3. m.font # << >>
  <2>1. "width" \in DOMAIN m.font
    BY <1>1 DEF SoundFont
  <2> QED
    BY <2>1
<1> QED
  BY <1>1, <1>2, <1>3 DEF SoundFont, SoundTarga

\* The frame buffer's lines are as long as the screen's or longer.
LEMMA PitchFacts ==
  ASSUME NEW m \in Machines
  PROVE  /\ m.width \in Nat /\ m.height \in Nat
         /\ m.pitch \in Nat /\ m.width <= m.pitch
BY KernelAssumption

\* The frame of kpanic and the area in it are on the screen.
LEMMA FrameFits ==
  ASSUME NEW n \in Nat \ {0}
  PROVE  /\ (n \div 10) - (n \div 100) \in Nat /\ (n \div 10) - (n \div 100) < n
         /\ (n \div 10) * 8 + (n \div 50) \in Nat
         /\ ((n \div 10) - (n \div 100)) + ((n \div 10) * 8 + (n \div 50)) <= n
         /\ n \div 10 \in Nat /\ n \div 10 < n
         /\ (n \div 10) * 8 \in Nat
         /\ (n \div 10) + (n \div 10) * 8 <= n
<1> DEFINE t == n \div 10
           a == n \div 100
           b == n \div 50
<1>1. t \in Nat /\ 10 * t <= n /\ n < 10 * t + 10
  OBVIOUS
<1>2. a \in Nat /\ 100 * a <= n /\ n < 100 * a + 100
  OBVIOUS
<1>3. b \in Nat /\ 50 * b <= n /\ n < 50 * b + 50
  OBVIOUS
<1> HIDE DEF t, a, b
<1>4. /\ t - a \in Nat /\ t - a < n
      /\ t * 8 \in Nat /\ t * 8 + b \in Nat
      /\ (t - a) + (t * 8 + b) <= n
      /\ t < n /\ t + t * 8 <= n
  BY <1>1, <1>2, <1>3
<1> QED
  BY <1>1, <1>4 DEF t, a, b

\* Nothing is made yet.
LEMMA ShapeInit ==
  ASSUME Init
  PROVE  ShapeInv
<1>1. Inside(front, machine.pitch, machine.height)
  BY DEF Init, Blank, Inside
<1> QED
  BY <1>1 DEF Init, TargaInit, ShapeInv, Stages, HeapStages, ScreenStages, CanvasStages,
              LogoStages, FontStages, BoxStages, PanicStages

\* A stage that only logs, and one that asks for memory, keeps what is made.
LEMMA ShapeLog ==
  ASSUME ShapeInv, Logging \/ Uart \/ StartLog \/ PrepMem \/ MakeHeap \/ ShowLapic \/ Kpanic
  PROVE  ShapeInv'
<1> USE DEF ShapeInv, Stages, HeapStages, ScreenStages, CanvasStages, LogoStages, FontStages,
            BoxStages, PanicStages, drawvars, targavars, At, Goto, SerialKpanic, Quiet
<1>1. CASE Logging \/ Uart
  <2>1. /\ machine' = machine /\ stage' = stage /\ kheap' = kheap /\ font' = font
        /\ back' = back /\ front' = front /\ box' = box /\ pen' = pen /\ text' = text
        /\ tga' = tga /\ canvas' = canvas
    BY <1>1 DEF Logging, Uart, kernelvars
  <2> QED
    BY <2>1, Zenon
<1>2. CASE StartLog
  BY <1>2 DEF StartLog
<1>3. CASE PrepMem
  BY <1>3 DEF PrepMem
<1>4. CASE MakeHeap
  BY <1>4 DEF MakeHeap
<1>5. CASE ShowLapic
  BY <1>5 DEF ShowLapic
<1>6. CASE Kpanic
  BY <1>6 DEF Kpanic
<1> QED
  BY <1>1, <1>2, <1>3, <1>4, <1>5, <1>6

\* init_video makes the double buffer.
LEMMA ShapeVideo ==
  ASSUME ShapeInv, InitVideo
  PROVE  ShapeInv'
<1>1. CASE "buffer" \in machine.memory
  <2>1. back' = Blank(machine.width, machine.height, Black)
    BY <1>1 DEF InitVideo
  <2>2. Inside(back', machine.width, machine.height)
    BY <2>1 DEF Blank, Inside
  <2> QED
    BY <1>1, <2>2 DEF InitVideo, ShapeInv, Stages, HeapStages, ScreenStages, CanvasStages,
      LogoStages, FontStages, BoxStages, PanicStages, targavars, At, Goto
<1>2. CASE "buffer" \notin machine.memory
  BY <1>2 DEF InitVideo, ShapeInv, Stages, HeapStages, ScreenStages, CanvasStages,
    LogoStages, FontStages, BoxStages, PanicStages, targavars, At, Goto, SerialKpanic
<1> QED
  BY <1>1, <1>2

\* draw_logo makes a buffer as large as the logo.
LEMMA ShapeDrawLogo ==
  ASSUME ShapeInv, DrawLogo
  PROVE  ShapeInv'
<1>1. CASE {"logo", "resized"} \subseteq machine.memory
  <2>1. canvas' = Blank(tga.width, tga.height, Garbage) /\ stage' = "put_targa"
    BY <1>1 DEF DrawLogo, Goto
  <2>2. Inside(canvas', tga.width, tga.height)
    BY <2>1 DEF Blank, Inside
  <2> QED
    BY <2>1, <2>2 DEF DrawLogo, ShapeInv, Stages, HeapStages, ScreenStages, CanvasStages,
      LogoStages, FontStages, BoxStages, PanicStages, drawvars, At
<1>2. CASE ~ ({"logo", "resized"} \subseteq machine.memory)
  <2>1. canvas' = canvas /\ stage' = "halted"
    BY <1>2 DEF DrawLogo, Goto, SerialKpanic
  <2> QED
    BY <2>1 DEF DrawLogo, ShapeInv, Stages, HeapStages, ScreenStages, CanvasStages,
      LogoStages, FontStages, BoxStages, PanicStages, drawvars, At
<1> QED
  BY <1>1, <1>2

\* put_targa draws with put_pixel.
LEMMA TargaKeeps ==
  ASSUME TargaNext
  PROVE  tga' = tga /\ DOMAIN canvas' = DOMAIN canvas
<1>1. CASE OpenTarga
  BY <1>1 DEF OpenTarga
<1>2. CASE PlainPixel
  BY <1>2, PutPixelInside DEF PlainPixel, Draw
<1>3. CASE Packet
  BY <1>3 DEF Packet
<1>4. CASE RunPixel
  BY <1>4, PutPixelInside DEF RunPixel, Draw
<1> QED
  BY <1>1, <1>2, <1>3, <1>4 DEF TargaNext

\* What put_targa leaves has the shape it had.
LEMMA ShapePutTarga ==
  ASSUME ShapeInv, PutTarga
  PROVE  ShapeInv'
<1>1. tga' = tga /\ DOMAIN canvas' = DOMAIN canvas
  BY TargaKeeps DEF PutTarga
<1>2. stage = "put_targa" /\ stage' \in {"put_targa", "scale", "halted"}
  BY DEF PutTarga, At, Goto, SerialKpanic
<1>3. Inside(canvas, tga.width, tga.height)
  BY <1>2 DEF ShapeInv, CanvasStages
<1>4. Inside(canvas', tga'.width, tga'.height)
  BY <1>1, <1>3 DEF Inside
<1> QED
  BY <1>1, <1>2, <1>4 DEF PutTarga, ShapeInv, Stages, HeapStages, ScreenStages, CanvasStages,
    LogoStages, FontStages, BoxStages, PanicStages, drawvars

\* A step of the drawing keeps everything but the double buffer, which stays as large.
DrawsBack(from, to) ==
  /\ stage = from /\ stage' = to
  /\ Inside(back', machine.width, machine.height)
  /\ machine' = machine /\ tga' = tga /\ canvas' = canvas /\ kheap' = kheap /\ font' = font
  /\ front' = front /\ box' = box /\ pen' = pen /\ text' = text

\* A drawing step, from each of the stages that draw.
LEMMA ShapeDraws ==
  ASSUME ShapeInv,
         \/ DrawsBack("scale", "fill") \/ DrawsBack("fill", "composite")
         \/ DrawsBack("composite", "swap") \/ DrawsBack("panic frame", "panic inner")
         \/ DrawsBack("panic inner", "panic box") \/ DrawsBack("panic text", "panic composite")
         \/ DrawsBack("panic composite", "panic swap")
  PROVE  ShapeInv'
BY DEF DrawsBack, ShapeInv, Stages, HeapStages, ScreenStages, CanvasStages, LogoStages,
  FontStages, BoxStages, PanicStages

\* draw_logo from the scaled logo to the copy on the screen.
LEMMA ShapeLogo ==
  ASSUME ShapeInv, ScaleLogo \/ Fill \/ CompositeLogo
  PROVE  ShapeInv'
<1> DEFINE w == machine.width
           h == machine.height
<1>1. Inside(back, w, h) /\ machine \in Machines
  BY DEF ShapeInv, ScreenStages, CanvasStages, ScaleLogo, Fill, CompositeLogo, At
<1>2. CASE ScaleLogo
  BY <1>1, <1>2, ShapeDraws DEF ScaleLogo, DrawsBack, At, Goto, KeepButDrawing, targavars
<1>3. CASE Fill
  <2>1. w \in Nat /\ h \in Nat /\ 0 < w /\ 0 < h
    BY <1>1, MachineFacts
  <2>2. Inside(PutRect(back, w, h, 0, 0, w, h, Slate), w, h)
    BY <2>1, <1>1, PutRectInside
  <2> QED
    BY <1>3, <2>2, ShapeDraws DEF Fill, DrawsBack, At, Goto, KeepButDrawing, targavars
<1>4. CASE CompositeLogo
  <2>1. DOMAIN back' = DOMAIN back
    BY <1>4, CompositeInside DEF CompositeLogo
  <2>2. Inside(back', w, h)
    BY <1>1, <2>1 DEF Inside
  <2> QED
    BY <1>4, <2>2, ShapeDraws DEF CompositeLogo, DrawsBack, At, Goto, KeepButDrawing, targavars
<1> QED
  BY <1>2, <1>3, <1>4

\* The frame and the inner area of kpanic.
LEMMA ShapePanicArea ==
  ASSUME ShapeInv, PanicFrame \/ PanicInner
  PROVE  ShapeInv'
<1> DEFINE w == machine.width
           h == machine.height
<1>1. Inside(back, w, h) /\ machine \in Machines
  BY DEF ShapeInv, ScreenStages, CanvasStages, LogoStages, PanicStages, PanicFrame, PanicInner,
         At
<1>2. w \in Nat \ {0} /\ h \in Nat \ {0}
  BY <1>1, MachineFacts
<1>3. CASE PanicFrame
  <2> DEFINE x == (w \div 10) - (w \div 100)
             y == (h \div 10) - (h \div 100)
             rw == (w \div 10) * 8 + (w \div 50)
             rh == (h \div 10) * 8 + (h \div 50)
  <2>1. x \in Nat /\ rw \in Nat /\ x < w /\ x + rw <= w
    BY <1>2, FrameFits
  <2>2. y \in Nat /\ rh \in Nat /\ y < h /\ y + rh <= h
    BY <1>2, FrameFits
  <2>3. back' = PutRect(back, w, h, x, y, rw, rh, Red)
    BY <1>3 DEF PanicFrame, Tenth, InnerWidth, InnerHeight
  <2> HIDE DEF x, y, rw, rh
  <2>4. Inside(PutRect(back, w, h, x, y, rw, rh, Red), w, h)
    BY <2>1, <2>2, <1>1, <1>2, PutRectInside
  <2> QED
    BY <1>3, <2>3, <2>4, ShapeDraws DEF PanicFrame, DrawsBack, At, Goto, KeepButDrawing, targavars
<1>4. CASE PanicInner
  <2> DEFINE x == w \div 10
             y == h \div 10
             rw == (w \div 10) * 8
             rh == (h \div 10) * 8
  <2>1. x \in Nat /\ rw \in Nat /\ x < w /\ x + rw <= w
    BY <1>2, FrameFits
  <2>2. y \in Nat /\ rh \in Nat /\ y < h /\ y + rh <= h
    BY <1>2, FrameFits
  <2>3. back' = PutRect(back, w, h, x, y, rw, rh, Black)
    BY <1>4 DEF PanicInner, Tenth, InnerWidth, InnerHeight
  <2> HIDE DEF x, y, rw, rh
  <2>4. Inside(PutRect(back, w, h, x, y, rw, rh, Black), w, h)
    BY <2>1, <2>2, <1>1, <1>2, PutRectInside
  <2> QED
    BY <1>4, <2>3, <2>4, ShapeDraws DEF PanicInner, DrawsBack, At, Goto, KeepButDrawing, targavars
<1> QED
  BY <1>3, <1>4

\* kpanic scales its text box to the inner area.
LEMMA ShapeScalePanic ==
  ASSUME ShapeInv, ScalePanic
  PROVE  ShapeInv'
<1>1. stage = "panic text" /\ Inside(back, machine.width, machine.height)
  BY DEF ShapeInv, ScreenStages, CanvasStages, LogoStages, PanicStages, ScalePanic, At
<1> QED
  BY <1>1, ShapeDraws DEF ScalePanic, DrawsBack, Goto, KeepButDrawing, targavars

\* kpanic puts the scaled text box into the inner area.
LEMMA ShapeCompositePanic ==
  ASSUME ShapeInv, CompositePanic
  PROVE  ShapeInv'
<1>1. stage = "panic composite" /\ Inside(back, machine.width, machine.height)
  BY DEF ShapeInv, ScreenStages, CanvasStages, LogoStages, PanicStages, CompositePanic, At
<1>2. DOMAIN back' = DOMAIN back
  <2>1. back' = Composite(back, machine.width, machine.height, scaled, InnerWidth, InnerHeight,
                          Tenth(machine.width), Tenth(machine.height))
    BY DEF CompositePanic
  <2> QED
    BY <2>1, CompositeInside
<1>3. Inside(back', machine.width, machine.height)
  BY <1>1, <1>2 DEF Inside
<1> QED
  BY <1>1, <1>3, ShapeDraws DEF CompositePanic, DrawsBack, Goto, KeepButDrawing, targavars

\* swap_bufs draws to the frame buffer, in the logo's and in the panic's part.
LEMMA ShapeSwap ==
  ASSUME ShapeInv, Swap("swap", "set_font") \/ Swap("panic swap", "panic shown")
  PROVE  ShapeInv'
<1> DEFINE w == machine.width
           h == machine.height
           pitch == machine.pitch
<1>1. machine \in Machines /\ Inside(front, pitch, h)
  BY DEF ShapeInv
<1>2. /\ machine.width \in Nat /\ machine.height \in Nat
      /\ machine.pitch \in Nat /\ machine.width <= machine.pitch
  <2>1. machine \in Machines
    BY <1>1
  <2> QED
    BY <2>1, PitchFacts
<1>3. Inside(SwapBufs(front, pitch, back, w, h), pitch, h)
  BY <1>1, <1>2, SwapInside
<1>4. Inside(front', machine.pitch, machine.height)
  BY <1>3 DEF Swap
<1>5. \/ stage = "swap" /\ stage' = "set_font"
      \/ stage = "panic swap" /\ stage' = "panic shown"
  BY DEF Swap, At, Goto
<1>6. /\ machine' = machine /\ tga' = tga /\ canvas' = canvas /\ kheap' = kheap /\ font' = font
      /\ back' = back /\ box' = box
  BY DEF Swap, KeepButDrawing, targavars
<1> QED
  BY <1>4, <1>5, <1>6 DEF ShapeInv, Stages, HeapStages, ScreenStages, CanvasStages, LogoStages,
    FontStages, BoxStages, PanicStages

\* The font and the ACPI tables touch no buffer.
LEMMA ShapeFontAcpi ==
  ASSUME ShapeInv, SetFont \/ InitAcpi
  PROVE  ShapeInv'
<1>1. /\ machine' = machine /\ tga' = tga /\ canvas' = canvas /\ kheap' = kheap
      /\ back' = back /\ front' = front /\ box' = box
  BY DEF SetFont, InitAcpi, targavars, drawvars
<1>2. CASE SetFont
  <2>1. /\ stage = "set_font"
        /\ (stage' = "init_acpi" /\ font' = machine.font) \/ stage' = "halted"
    BY <1>2 DEF SetFont, At, Goto, SerialKpanic
  <2> QED
    BY <1>1, <2>1 DEF ShapeInv, Stages, HeapStages, ScreenStages, CanvasStages, LogoStages,
      FontStages, BoxStages, PanicStages
<1>3. CASE InitAcpi
  <2>1. /\ stage = "init_acpi" /\ stage' \in {"lapic", "kpanic", "init_acpi"} /\ font' = font
    BY <1>3 DEF InitAcpi, At, Goto
  <2> QED
    BY <1>1, <2>1 DEF ShapeInv, Stages, HeapStages, ScreenStages, CanvasStages, LogoStages,
      FontStages, BoxStages, PanicStages
<1> QED
  BY <1>2, <1>3

\* The texts are short enough for the text box.
LEMMA TextsFit ==
  /\ Prefix \in Seq(Nat) /\ Prefix # << >> /\ Len(Prefix) = 2
  /\ NoPointer \in Seq(Nat) /\ NoPointer # << >> /\ Len(NoPointer) = 3
BY DEF Prefix, NoPointer

\* A text that kpanic begins has room for all its lines.
LEMMA ShapePanicText ==
  ASSUME ShapeInv, PanicBox \/ PanicText
  PROVE  ShapeInv'
<1>1. machine \in Machines /\ font = machine.font
  BY DEF ShapeInv, FontStages, LogoStages, PanicStages, PanicBox, PanicText, At
<1>2. /\ font.width \in Nat \ {0} /\ 2 * font.width <= Box
      /\ font.height \in Nat \ {0} /\ 6 * font.height <= Box
      /\ Box \in Nat \ {0}
  BY <1>1, MachineFacts
<1>3. /\ machine' = machine /\ tga' = tga /\ canvas' = canvas /\ kheap' = kheap /\ font' = font
      /\ back' = back /\ front' = front
  BY DEF PanicBox, PanicText, KeepButDrawing, targavars
<1>4. CASE PanicBox
  <2>1. Inside(Blank(Box, Box, Garbage), Box, Box)
    BY DEF Blank, Inside
  <2>2. Inside(PutRect(Blank(Box, Box, Garbage), Box, Box, 0, 0, Box, Box, Black), Box, Box)
    BY <2>1, <1>2, PutRectInside
  <2>3. Inside(box', Box, Box) /\ stage = "panic box" /\ stage' = "panic prefix"
    BY <1>4, <2>2 DEF PanicBox, At, Goto
  <2>4. text' = Prefix /\ pen'.x = font.width /\ pen'.y = font.height * 1
    BY <1>4 DEF PanicBox, PutStr
  <2>5. /\ text' \in Seq(Nat) /\ pen'.x \in Nat /\ pen'.y \in Nat
        /\ pen'.x + font.width <= Box
        /\ pen'.y + Len(text') * font.height <= Box
    <3>1. Len(text') = 2 /\ text' \in Seq(Nat)
      BY <2>4, TextsFit
    <3> QED
      BY <2>4, <1>2, <3>1
  <2> QED
    BY <2>3, <2>5, <1>3 DEF ShapeInv, Stages, HeapStages, ScreenStages, CanvasStages,
      LogoStages, FontStages, BoxStages, PanicStages
<1>5. CASE PanicText
  <2>1. stage = "panic prefix" /\ stage' = "panic text" /\ box' = box
    BY <1>5 DEF PanicText, At, Goto
  <2>2. text' = NoPointer /\ pen'.x = font.width /\ pen'.y = font.height * 3
    BY <1>5 DEF PanicText, PutStr
  <2>3. /\ text' \in Seq(Nat) /\ pen'.x \in Nat /\ pen'.y \in Nat
        /\ pen'.x + font.width <= Box
        /\ pen'.y + Len(text') * font.height <= Box
    <3>1. Len(text') = 3 /\ text' \in Seq(Nat)
      BY <2>2, TextsFit
    <3> QED
      BY <2>2, <1>2, <3>1
  <2> QED
    BY <2>1, <2>3, <1>3 DEF ShapeInv, Stages, HeapStages, ScreenStages, CanvasStages,
      LogoStages, FontStages, BoxStages, PanicStages
<1> QED
  BY <1>4, <1>5

\* Of n + 1 lines of height k, the first one and the others have room.
LEMMA LinesFit ==
  ASSUME NEW y \in Nat, NEW n \in Nat, NEW k \in Nat, NEW b \in Nat, y + (n + 1) * k <= b
  PROVE  y + k <= b /\ (y + k) + n * k <= b /\ y + n * k <= b
<1>1. n * k \in Nat /\ (n + 1) * k = n * k + k
  BY ProductNatural
<1> QED
  BY <1>1

\* The next character has room to the right, or the next line has, even where a column is
\* cut to 16 bits.
LEMMA CursorFits ==
  ASSUME NEW f, f.width \in Nat \ {0}, f.height \in Nat \ {0}, 2 * f.width <= Box,
         Box \in Nat, Box < 65536,
         NEW at, at.x \in Nat, at.y \in Nat, at.x + f.width <= Box,
         NEW n \in Nat, at.y + (n + 1) * f.height <= Box,
         NEW next, next = NextCursor(at, f, f.width, Box)
  PROVE  /\ next.x \in Nat /\ next.y \in Nat
         /\ next.x + f.width <= Box
         /\ next.y + n * f.height <= Box
<1> DEFINE right == U16(at.x + f.width + 1)
<1>1. right \in Nat
  BY DEF U16
<1>2. PICK k \in Nat : k = f.height
  OBVIOUS
<1>3. at.y + k <= Box /\ (at.y + k) + n * k <= Box /\ at.y + n * k <= Box
  BY <1>2, LinesFit
<1>4. U16(at.y + f.height) = at.y + k
  <2>1. at.y + k \in Nat /\ at.y + k < 65536
    BY <1>2, <1>3
  <2> QED
    BY <2>1, <1>2 DEF U16
<1>5. CASE right + f.width >= Box
  <2>1. next.x = f.width /\ next.y = at.y + k
    BY <1>4, <1>5 DEF NextCursor
  <2> QED
    BY <2>1, <1>2, <1>3
<1>6. CASE ~ (right + f.width >= Box)
  <2>1. next.x = right /\ next.y = at.y
    BY <1>6 DEF NextCursor
  <2> QED
    BY <2>1, <1>1, <1>2, <1>6, <1>3
<1> QED
  BY <1>5, <1>6

\* A character that is to be drawn has room.
LEMMA PenRoom ==
  ASSUME ShapeInv, stage \in {"panic prefix", "panic text"}, text # << >>
  PROVE  /\ text \in Seq(Nat) /\ pen.x \in Nat /\ pen.y \in Nat
         /\ pen.x + font.width <= Box
         /\ pen.y + Len(text) * font.height <= Box
BY Zenon DEF ShapeInv

\* A character drawn leaves room for those that follow.
LEMMA ShapePanicChar ==
  ASSUME ShapeInv, PanicChar
  PROVE  ShapeInv'
<1>1. stage \in {"panic prefix", "panic text"} /\ text # << >> /\ stage' = stage
  BY DEF PanicChar, At
<1>2. machine \in Machines /\ font = machine.font /\ Inside(box, Box, Box)
  BY <1>1 DEF ShapeInv, FontStages, LogoStages, PanicStages, BoxStages
<1>3. /\ font.width \in Nat \ {0} /\ 2 * font.width <= Box
      /\ font.height \in Nat \ {0} /\ 6 * font.height <= Box
      /\ Box \in Nat \ {0} /\ Box < 65536
  BY <1>2, MachineFacts
<1>4. /\ text \in Seq(Nat) /\ pen.x \in Nat /\ pen.y \in Nat
      /\ pen.x + font.width <= Box
      /\ pen.y + Len(text) * font.height <= Box
  BY <1>1, PenRoom, Zenon
<1>5. /\ font.width \in Nat /\ font.height \in Nat /\ Box \in Nat
      /\ text \in Seq(Nat) /\ pen.x \in Nat /\ pen.y \in Nat
  <2>1. font.width \in Nat /\ font.height \in Nat /\ Box \in Nat
    BY <1>3
  <2>2. text \in Seq(Nat) /\ pen.x \in Nat /\ pen.y \in Nat
    BY <1>4, Zenon
  <2> QED
    BY <2>1, <2>2, Zenon
<1>6. PICK n \in Nat : Len(text) = n + 1
  <2>1. Len(text) \in Nat /\ Len(text) # 0
    BY <1>1, <1>4, EmptySeq
  <2>2. Len(text) - 1 \in Nat /\ Len(text) = (Len(text) - 1) + 1
    BY <2>1
  <2> QED
    BY <2>2, Zenon
<1>7. pen.y + (n + 1) * font.height <= Box
  BY <1>4, <1>6, Zenon
<1>8. Inside(box', Box, Box)
  <2>1. pen.y + font.height <= Box
    BY <1>5, <1>7, LinesFit
  <2>2. pen.x + font.width <= Box
    BY <1>4
  <2>3. Inside(PutChar(box, Box, font, text[1], pen.x, pen.y, Red, Transparent), Box, Box)
    BY <2>1, <2>2, <1>2, <1>5, PutCharInside
  <2> QED
    BY <2>3 DEF PanicChar
<1>9. text' \in Seq(Nat) /\ Len(text') = n
  <2>1. text' = Tail(text)
    BY DEF PanicChar
  <2>2. Tail(text) \in Seq(Nat) /\ Len(Tail(text)) = Len(text) - 1
    BY <1>1, <1>4, HeadTailProperties
  <2> QED
    BY <2>1, <2>2, <1>6
<1>10. /\ pen'.x \in Nat /\ pen'.y \in Nat
      /\ pen'.x + font.width <= Box
      /\ pen'.y + Len(text') * font.height <= Box
  <2>1. PICK next : next = NextCursor(pen, font, font.width, Box)
    OBVIOUS
  <2>2. /\ next.x \in Nat /\ next.y \in Nat
        /\ next.x + font.width <= Box
        /\ next.y + n * font.height <= Box
    <3>1. PICK f, at : f = font /\ at = pen
      OBVIOUS
    <3>2. /\ f.width \in Nat \ {0} /\ f.height \in Nat \ {0} /\ 2 * f.width <= Box
          /\ Box \in Nat /\ Box < 65536 /\ at.x \in Nat /\ at.y \in Nat
          /\ at.x + f.width <= Box
      BY <3>1, <1>3, <1>4
    <3>3. at.y + (n + 1) * f.height <= Box
      BY <3>1, <1>7, Zenon
    <3>4. next = NextCursor(at, f, f.width, Box)
      BY <3>1, <2>1, Zenon
    <3>5. /\ next.x \in Nat /\ next.y \in Nat /\ next.x + f.width <= Box
          /\ next.y + n * f.height <= Box
      BY <3>2, <3>3, <3>4, CursorFits
    <3> QED
      BY <3>1, <3>5, Zenon
  <2>3. pen' = next
    BY <2>1 DEF PanicChar
  <2> QED
    BY <2>2, <2>3, <1>9
<1>11. /\ machine' = machine /\ tga' = tga /\ canvas' = canvas /\ kheap' = kheap /\ font' = font
       /\ back' = back /\ front' = front
  BY DEF PanicChar, KeepButDrawing, targavars
<1> QED
  BY <1>1, <1>2, <1>8, <1>9, <1>10, <1>11 DEF ShapeInv, BoxStages, PanicStages

\* What has been made keeps its shape through every step.
LEMMA ShapeStep ==
  ASSUME ShapeInv, [Next]_vars
  PROVE  ShapeInv'
<1>1. CASE UNCHANGED vars
  BY <1>1 DEF ShapeInv, vars, kernelvars, drawvars, targavars
<1>2. CASE Next
  BY <1>2, ShapeLog, ShapeVideo, ShapeDrawLogo, ShapePutTarga, ShapeLogo, ShapePanicArea,
     ShapeScalePanic, ShapeCompositePanic, ShapeSwap, ShapeFontAcpi, ShapePanicText,
     ShapePanicChar DEF Next, Kmain
<1> QED
  BY <1>1, <1>2

\* On every machine, each buffer of the kernel keeps the size it was made with, and each
\* stage of kmain finds the heap, the buffers and the font that it uses without asking.
THEOREM ShapeCorrect == Spec => []ShapeInv
<1>1. Init => ShapeInv
  BY ShapeInit
<1>2. ShapeInv /\ [Next]_vars => ShapeInv'
  BY ShapeStep
<1> QED
  BY <1>1, <1>2, PTL DEF Spec

\* Buffers of their size are not written beside.
LEMMA ShapeWrites ==
  ASSUME ShapeInv
  PROVE  WritesInside
<1>1. machine \in Machines
  BY DEF ShapeInv
<1>2. machine.font # << >> /\ machine.width \in Nat \ {0} /\ machine.height \in Nat \ {0}
  BY <1>1, MachineFacts
<1>3. machine.width * machine.height > 0
  BY <1>2, ProductNatural
<1>4. ASSUME Inside(back, machine.width, machine.height)
      PROVE  back # << >>
  <2>1. 0 \in DOMAIN back
    BY <1>2, <1>3, <1>4 DEF Inside
  <2> QED
    BY <2>1
<1>5. ASSUME stage \in {"kpanic"} \cup PanicStages
      PROVE  kheap /\ back # << >> /\ font # << >>
  <2>1. stage \in FontStages /\ stage \in ScreenStages /\ stage \in HeapStages
    BY <1>5 DEF FontStages, HeapStages, ScreenStages, CanvasStages, LogoStages, PanicStages
  <2> QED
    BY <2>1, <1>2, <1>4 DEF ShapeInv
<1> QED
  BY <1>5 DEF ShapeInv, WritesInside

\* Whatever the sizes of the screen, the logo, the font and the text box: nothing is drawn
\* outside of a buffer.
THEOREM WritesCorrect == Spec => []WritesInside
BY ShapeCorrect, ShapeWrites, PTL

-----------------------------------------------------------------------------
(* The walk over the ACPI tables.                                          *)

\* The address a table gives: that of an override, or else the one of its own.
FromTable(t, address) ==
  /\ Overrides(t) = {} => address = t.lapic32
  /\ Overrides(t) # {} => address \in Overrides(t)

\* The address the entries of a table in front of an offset give.
OverridesTo(t, offset) ==
  {i \in DOMAIN t.entries : i < offset /\ t.entries[i].kind = LapicOverride}
FromEntries(t, offset, address) ==
  /\ OverridesTo(t, offset) = {} => address = t.lapic32
  /\ OverridesTo(t, offset) # {} =>
       \E i \in OverridesTo(t, offset) : address = t.entries[i].address

\* The last table the kernel trusts in front of table n is table `which`.
LastOf(tables, n, which, address) ==
  /\ \A i \in Trusted(tables) : i < n => i <= which
  /\ \/ which = 0 /\ address = 0
     \/ which \in Trusted(tables) /\ which < n /\ FromTable(tables[which], address)

\* The walk has passed everything in front of the place, the table or the entry it is at.
AcpiInv ==
  /\ SoundFirmware(firmware)
  /\ acpipc \in {"search", "tables", "madt", "found", "panic"}
  /\ acpipc = "search" =>
       /\ place \in Nat /\ (\A p \in ValidRsdps : place <= p)
       /\ madt = 0 /\ lapic = 0
  /\ acpipc = "panic" => ValidRsdps = {}
  /\ acpipc \in {"tables", "madt", "found"} =>
       /\ place \in ValidRsdps /\ (\A p \in ValidRsdps : place <= p)
       /\ SoundRoot(root, IF wide THEN 8 ELSE 4)
       /\ root.entries = Tables(place)
       /\ index \in Nat \ {0}
  /\ acpipc \in {"tables", "found"} => LastOf(root.entries, index, madt, lapic)
  /\ acpipc = "madt" =>
       /\ index \in Trusted(root.entries) /\ madt = index
       /\ cursor \in DOMAIN Table.entries \/ cursor = Table.length - SdtHeader
       /\ FromEntries(Table, cursor, lapic)
  /\ acpipc = "found" => index > EntriesCount

\* The kernel counts the entries there are.
LEMMA RootFacts ==
  ASSUME SoundRoot(root, IF wide THEN 8 ELSE 4)
  PROVE  /\ EntriesCount \in Nat
         /\ DOMAIN root.entries = 1 .. EntriesCount
         /\ \A i \in DOMAIN root.entries : SoundTable(root.entries[i])
<1> DEFINE size == IF wide THEN 8 ELSE 4
<1>1. PICK n \in 0 .. 65535 \div size :
        DOMAIN root.entries = 1 .. n /\ root.length = SdtHeader + n * size
  BY DEF SoundRoot
<1>2. CASE wide
  <2>1. n \in Nat /\ n <= 8191 /\ root.length = SdtHeader + n * 8
    BY <1>1, <1>2
  <2>2. (n * 8) % 65536 = n * 8 /\ (n * 8) \div 8 = n
    BY <2>1
  <2>3. root.length - SdtHeader = n * 8
    BY <2>1 DEF SdtHeader
  <2>4. EntriesCount = n
    BY <2>2, <2>3, <1>2 DEF EntriesCount
  <2> QED
    BY <2>1, <2>4, <1>1 DEF SoundRoot
<1>3. CASE ~ wide
  <2>1. n \in Nat /\ n <= 16383 /\ root.length = SdtHeader + n * 4
    BY <1>1, <1>3
  <2>2. (n * 4) % 65536 = n * 4 /\ (n * 4) \div 4 = n
    BY <2>1
  <2>3. root.length - SdtHeader = n * 4
    BY <2>1 DEF SdtHeader
  <2>4. EntriesCount = n
    BY <2>2, <2>3, <1>3 DEF EntriesCount
  <2> QED
    BY <2>1, <2>4, <1>1 DEF SoundRoot
<1> QED
  BY <1>2, <1>3

\* A table is trusted if its checksum, as far as the kernel adds it up, is right.
LEMMA TrustedFacts ==
  ASSUME NEW tables, NEW i \in DOMAIN tables, SoundTable(tables[i])
  PROVE  i \in Trusted(tables) <=> Checksum(tables[i]) /\ tables[i].apic
BY DEF Trusted, Checksum, SoundTable

\* The candidates that init_acpi takes are the valid ones.
LEMMA RsdpFacts ==
  ASSUME NEW p
  PROVE  IsRsdp(p) <=> p \in ValidRsdps
BY DEF IsRsdp, ValidRsdps

\* The walk over an MADT has passed every override when it stops, eight bytes early.
LEMMA WalkEnds ==
  ASSUME NEW t, SoundTable(t), t.apic, NEW c \in Int, c >= t.length - SdtHeader - 8, NEW a,
         FromEntries(t, c, a)
  PROVE  FromTable(t, a)
<1>1. ASSUME NEW i \in DOMAIN t.entries, t.entries[i].kind = LapicOverride
      PROVE  i \in OverridesTo(t, c)
  <2>1. /\ i \in MadtFields .. t.length - SdtHeader - 1
        /\ t.entries[i].length = 12
        /\ i + t.entries[i].length \in DOMAIN t.entries \/ i + t.entries[i].length = t.length - SdtHeader
        /\ t.length \in Nat
    BY <1>1 DEF SoundTable
  <2>2. i + 12 \in DOMAIN t.entries => i + 12 <= t.length - SdtHeader - 1
    BY DEF SoundTable
  <2>3. i < c
    BY <2>1, <2>2 DEF SdtHeader, MadtFields
  <2> QED
    BY <1>1, <2>3 DEF OverridesTo
<1>2. OverridesTo(t, c) = {i \in DOMAIN t.entries : t.entries[i].kind = LapicOverride}
  BY <1>1 DEF OverridesTo
<1> QED
  BY <1>2 DEF FromEntries, FromTable, Overrides

\* Passing an entry passes that entry only.
LEMMA WalkPasses ==
  ASSUME NEW t, SoundTable(t), t.apic, NEW c \in DOMAIN t.entries, NEW a,
         FromEntries(t, c, a)
  PROVE  LET next == c + t.entries[c].length
         IN  /\ next \in DOMAIN t.entries \/ next = t.length - SdtHeader
             /\ FromEntries(t, next,
                  IF t.entries[c].kind = LapicOverride THEN t.entries[c].address ELSE a)
<1> DEFINE next == c + t.entries[c].length
<1>1. /\ c \in Nat /\ t.entries[c].length \in Nat \ {0}
      /\ next \in DOMAIN t.entries \/ next = t.length - SdtHeader
      /\ \A j \in DOMAIN t.entries : c < j => next <= j
  <2>1. /\ c \in MadtFields .. t.length - SdtHeader - 1
        /\ t.entries[c].length \in 1 .. 255
        /\ t.length \in Nat
    BY DEF SoundTable
  <2>2. c \in Nat /\ t.entries[c].length \in Nat \ {0}
    BY <2>1 DEF SdtHeader, MadtFields
  <2>3. next \in DOMAIN t.entries \/ next = t.length - SdtHeader
    BY DEF SoundTable
  <2>4. \A j \in DOMAIN t.entries : c < j => next <= j
    BY DEF SoundTable
  <2> QED
    BY <2>2, <2>3, <2>4
<1>2. \A j \in DOMAIN t.entries : j \in Nat
  BY DEF SoundTable, MadtFields
<1>3. \A j \in DOMAIN t.entries : j < next <=> j < c \/ j = c
  BY <1>1, <1>2
<1>4. OverridesTo(t, next) =
        IF t.entries[c].kind = LapicOverride THEN OverridesTo(t, c) \cup {c} ELSE OverridesTo(t, c)
  BY <1>3 DEF OverridesTo
<1> QED
  BY <1>1, <1>4 DEF FromEntries

\* The first entry has none in front of it.
LEMMA WalkStarts ==
  ASSUME NEW t, SoundTable(t), t.apic
  PROVE  /\ MadtFields \in DOMAIN t.entries \/ MadtFields = t.length - SdtHeader
         /\ FromEntries(t, MadtFields, t.lapic32)
<1>1. \A j \in DOMAIN t.entries : j \in Nat /\ j >= MadtFields
  BY DEF SoundTable, MadtFields
<1>2. OverridesTo(t, MadtFields) = {}
  BY <1>1 DEF OverridesTo, MadtFields
<1> QED
  BY <1>2 DEF FromEntries, SoundTable, MadtFields, SdtHeader

\* Before the search nothing is found.
LEMMA AcpiStart ==
  ASSUME Init
  PROVE  AcpiInv
<1>1. SoundFirmware(firmware)
  <2>1. machine \in Machines /\ firmware = machine.firmware
    BY DEF Init, AcpiInit
  <2> QED
    BY <2>1, KernelAssumption
<1>2. \A p \in ValidRsdps : 0 <= p
  BY <1>1, AcpiAssumption DEF SoundFirmware, Candidates, ValidRsdps
<1> QED
  BY <1>1, <1>2 DEF Init, AcpiInit, AcpiInv

\* The search takes the first valid candidate.
LEMMA AcpiSearch ==
  ASSUME AcpiInv, PassCandidate \/ TakeRsdp \/ NoRsdp
  PROVE  AcpiInv'
<1>1. /\ SoundFirmware(firmware) /\ acpipc = "search" /\ place \in Nat
      /\ (\A p \in ValidRsdps : place <= p)
      /\ madt = 0 /\ lapic = 0
  BY DEF AcpiInv, PassCandidate, TakeRsdp, NoRsdp
<1>2. firmware' = firmware /\ madt' = madt /\ lapic' = lapic
  BY DEF PassCandidate, TakeRsdp, NoRsdp
<1>3. ValidRsdps' = ValidRsdps
  BY <1>2 DEF ValidRsdps
<1>4. \A p \in ValidRsdps : p \in Candidates /\ p \in Int
  BY <1>1 DEF SoundFirmware, ValidRsdps, Candidates
<1>5. CASE PassCandidate
  <2>1. place \notin ValidRsdps /\ place' = place + 1 /\ acpipc' = acpipc
    BY <1>5, RsdpFacts DEF PassCandidate
  <2>2. \A p \in ValidRsdps : place + 1 <= p
    BY <2>1, <1>1, <1>4
  <2> QED
    BY <1>1, <1>2, <1>3, <2>1, <2>2 DEF AcpiInv
<1>6. CASE TakeRsdp
  <2>1. place \in ValidRsdps /\ place' = place /\ acpipc' = "tables" /\ index' = 1
    BY <1>6, RsdpFacts DEF TakeRsdp
  <2>2. /\ wide' = (firmware[place].revision # 0)
        /\ root' = IF wide' THEN firmware[place].xsdt ELSE firmware[place].rsdt
    BY <1>6 DEF TakeRsdp
  <2>3. place \in DOMAIN firmware
    BY <2>1 DEF ValidRsdps
  <2>4. IF firmware[place].revision = 0 THEN SoundRoot(firmware[place].rsdt, 4)
        ELSE SoundRoot(firmware[place].xsdt, 8)
    BY <1>1, <2>3 DEF SoundFirmware
  <2>5. /\ SoundRoot(root', IF wide' THEN 8 ELSE 4)
        /\ root'.entries = Tables(place)
    <3>1. CASE firmware[place].revision = 0
      <4>1. wide' = FALSE /\ root' = firmware[place].rsdt
        BY <3>1, <2>2
      <4> QED
        BY <3>1, <4>1, <2>4 DEF Tables
    <3>2. CASE firmware[place].revision # 0
      <4>1. wide' = TRUE /\ root' = firmware[place].xsdt
        BY <3>2, <2>2
      <4> QED
        BY <3>2, <4>1, <2>4 DEF Tables
    <3> QED
      BY <3>1, <3>2
  <2>6. Tables(place)' = Tables(place)
    BY <1>2, <2>1 DEF Tables
  <2>7. \A i \in Trusted(root'.entries) : ~ (i < 1)
    <3>1. PICK n \in Nat : DOMAIN root'.entries = 1 .. n
      BY <2>5 DEF SoundRoot
    <3> QED
      BY <3>1 DEF Trusted
  <2>8. LastOf(root'.entries, 1, 0, 0)
    BY <2>7 DEF LastOf
  <2> QED
    BY <1>1, <1>2, <1>3, <2>1, <2>5, <2>6, <2>8 DEF AcpiInv
<1>7. CASE NoRsdp
  <2>1. ValidRsdps = {}
    BY <1>1, <1>4, <1>7, AcpiAssumption DEF NoRsdp, Candidates
  <2>2. acpipc' = "panic"
    BY <1>7 DEF NoRsdp
  <2> QED
    BY <1>1, <1>2, <1>3, <2>1, <2>2 DEF AcpiInv
<1> QED
  BY <1>5, <1>6, <1>7

\* One table more.
LEMMA LastGrows ==
  ASSUME NEW tables, NEW n \in Nat, DOMAIN tables = 1 .. n, NEW i \in Nat \ {0},
         NEW which, NEW address, LastOf(tables, i, which, address)
  PROVE  /\ i \notin Trusted(tables) => LastOf(tables, i + 1, which, address)
         /\ \A a : i \in Trusted(tables) /\ FromTable(tables[i], a) =>
              LastOf(tables, i + 1, i, a)
<1>1. \A j \in Trusted(tables) : j \in Nat
  BY DEF Trusted
<1>2. \A j \in Trusted(tables) : j < i + 1 <=> j < i \/ j = i
  BY <1>1
<1> QED
  BY <1>1, <1>2 DEF LastOf

\* The tables are gone through one by one.
LEMMA AcpiTables ==
  ASSUME AcpiInv, PassTable \/ EnterMadt \/ TablesEnd
  PROVE  AcpiInv'
<1>1. /\ SoundFirmware(firmware) /\ acpipc = "tables"
      /\ place \in ValidRsdps /\ (\A p \in ValidRsdps : place <= p)
      /\ SoundRoot(root, IF wide THEN 8 ELSE 4)
      /\ root.entries = Tables(place)
      /\ index \in Nat \ {0}
      /\ LastOf(root.entries, index, madt, lapic)
  BY DEF AcpiInv, PassTable, EnterMadt, TablesEnd
<1>2. firmware' = firmware /\ place' = place /\ root' = root /\ wide' = wide
  BY DEF PassTable, EnterMadt, TablesEnd
<1>3. ValidRsdps' = ValidRsdps /\ Tables(place)' = Tables(place) /\ EntriesCount' = EntriesCount
  BY <1>2 DEF ValidRsdps, Tables, EntriesCount
<1>4. /\ EntriesCount \in Nat
      /\ DOMAIN root.entries = 1 .. EntriesCount
      /\ \A i \in DOMAIN root.entries : SoundTable(root.entries[i])
  BY <1>1, RootFacts
<1>5. index <= EntriesCount =>
        /\ index \in DOMAIN root.entries
        /\ index \in Trusted(root.entries) <=> Checksum(Table) /\ Table.apic
  BY <1>1, <1>4, TrustedFacts DEF Table
<1>6. CASE PassTable
  <2>1. index \notin Trusted(root.entries) /\ index' = index + 1 /\ acpipc' = acpipc
        /\ madt' = madt /\ lapic' = lapic
    BY <1>5, <1>6 DEF PassTable
  <2>2. LastOf(root.entries, index + 1, madt, lapic)
    BY <1>1, <1>4, <2>1, LastGrows
  <2> QED
    BY <1>1, <1>2, <1>3, <2>1, <2>2 DEF AcpiInv
<1>7. CASE EnterMadt
  <2>1. /\ index \in Trusted(root.entries) /\ index \in DOMAIN root.entries
        /\ Table.apic /\ index' = index /\ acpipc' = "madt"
        /\ madt' = index /\ lapic' = Table.lapic32 /\ cursor' = MadtFields
    BY <1>5, <1>7 DEF EnterMadt
  <2>2. Table' = Table
    BY <1>2, <2>1 DEF Table
  <2>3. SoundTable(Table)
    BY <1>4, <2>1 DEF Table
  <2>4. /\ MadtFields \in DOMAIN Table.entries \/ MadtFields = Table.length - SdtHeader
        /\ FromEntries(Table, MadtFields, Table.lapic32)
    BY <2>1, <2>3, WalkStarts
  <2> QED
    BY <1>1, <1>2, <1>3, <2>1, <2>2, <2>4 DEF AcpiInv
<1>8. CASE TablesEnd
  BY <1>1, <1>2, <1>3, <1>8 DEF AcpiInv, TablesEnd
<1> QED
  BY <1>6, <1>7, <1>8

\* And the entries of an MADT.
LEMMA AcpiEntries ==
  ASSUME AcpiInv, MadtEntry \/ LeaveMadt
  PROVE  AcpiInv'
<1>1. /\ SoundFirmware(firmware) /\ acpipc = "madt"
      /\ place \in ValidRsdps /\ (\A p \in ValidRsdps : place <= p)
      /\ SoundRoot(root, IF wide THEN 8 ELSE 4)
      /\ root.entries = Tables(place)
      /\ index \in Nat \ {0}
      /\ index \in Trusted(root.entries) /\ madt = index
      /\ cursor \in DOMAIN Table.entries \/ cursor = Table.length - SdtHeader
      /\ FromEntries(Table, cursor, lapic)
  BY DEF AcpiInv, MadtEntry, LeaveMadt
<1>2. firmware' = firmware /\ place' = place /\ root' = root /\ wide' = wide /\ madt' = madt
  BY DEF MadtEntry, LeaveMadt
<1>3. ValidRsdps' = ValidRsdps /\ Tables(place)' = Tables(place)
  BY <1>2 DEF ValidRsdps, Tables
<1>4. /\ EntriesCount \in Nat
      /\ DOMAIN root.entries = 1 .. EntriesCount
      /\ \A i \in DOMAIN root.entries : SoundTable(root.entries[i])
  BY <1>1, RootFacts
<1>5. SoundTable(Table) /\ Table.apic
  BY <1>1, <1>4 DEF Table, Trusted
<1>6. cursor \in Int /\ Table.length \in Nat
  BY <1>1, <1>5 DEF SoundTable, SdtHeader, MadtFields
<1>7. CASE MadtEntry
  <2>1. cursor < Table.length - SdtHeader - 8 /\ acpipc' = acpipc /\ index' = index
    BY <1>7 DEF MadtEntry, MadtEnd
  <2>2. cursor \in DOMAIN Table.entries
    BY <2>1, <1>1, <1>6 DEF SdtHeader
  <2>3. /\ cursor' = cursor + Table.entries[cursor].length
        /\ lapic' = IF Table.entries[cursor].kind = LapicOverride
                    THEN Table.entries[cursor].address ELSE lapic
    BY <1>7 DEF MadtEntry
  <2>4. /\ cursor' \in DOMAIN Table.entries \/ cursor' = Table.length - SdtHeader
        /\ FromEntries(Table, cursor', lapic')
    BY <1>1, <1>5, <2>2, <2>3, WalkPasses
  <2>5. Table' = Table
    BY <1>2, <2>1 DEF Table
  <2> QED
    BY <1>1, <1>2, <1>3, <2>1, <2>4, <2>5 DEF AcpiInv
<1>8. CASE LeaveMadt
  <2>1. /\ cursor >= Table.length - SdtHeader - 8
        /\ acpipc' = "tables" /\ index' = index + 1 /\ lapic' = lapic
    BY <1>8 DEF LeaveMadt, MadtEnd
  <2>2. FromTable(Table, lapic)
    BY <1>1, <1>5, <1>6, <2>1, WalkEnds
  <2>3. LastOf(root.entries, index + 1, index, lapic)
    <3>1. \A i \in Trusted(root.entries) : i \in Nat
      BY <1>4 DEF Trusted
    <3>2. FromTable(root.entries[index], lapic)
      BY <2>2 DEF Table
    <3>3. index \in Nat /\ index \in Trusted(root.entries)
      BY <1>1
    <3>4. \A i \in Trusted(root.entries) : i < index + 1 => i <= index
      BY <3>1, <3>3
    <3>5. index < index + 1
      BY <3>3
    <3> QED
      BY <3>2, <3>3, <3>4, <3>5, Zenon DEF LastOf
  <2> QED
    BY <1>1, <1>2, <1>3, <2>1, <2>3 DEF AcpiInv
<1> QED
  BY <1>7, <1>8

\* Only init_acpi walks the tables.
LEMMA AcpiStep ==
  ASSUME AcpiInv, [Next]_vars
  PROVE  AcpiInv'
<1>1. CASE UNCHANGED acpivars
  <2>1. /\ firmware' = firmware /\ acpipc' = acpipc /\ place' = place /\ root' = root
        /\ wide' = wide /\ index' = index /\ cursor' = cursor /\ madt' = madt /\ lapic' = lapic
    BY <1>1 DEF acpivars
  <2>2. /\ ValidRsdps' = ValidRsdps /\ Tables(place)' = Tables(place)
        /\ EntriesCount' = EntriesCount /\ Table' = Table
    BY <2>1 DEF ValidRsdps, Tables, EntriesCount, Table
  <2> QED
    BY <2>1, <2>2 DEF AcpiInv
<1>2. CASE InitAcpi
  BY <1>2, AcpiSearch, AcpiTables, AcpiEntries DEF InitAcpi, AcpiNext
<1>3. ~ InitAcpi => UNCHANGED acpivars
  BY DEF Next, Kmain, vars, Logging, Uart, StartLog, PrepMem, MakeHeap, InitVideo, DrawLogo,
    PutTarga, ScaleLogo, Fill, CompositeLogo, Swap, SetFont, ShowLapic, Kpanic, PanicFrame,
    PanicInner, PanicBox, PanicChar, PanicText, ScalePanic, CompositePanic, KeepButDrawing
<1> QED
  BY <1>1, <1>2, <1>3

\* What the search keeps to gives the address at its end.
LEMMA AcpiFinds ==
  ASSUME AcpiInv
  PROVE  LapicFound
<1>1. acpipc = "panic" => ValidRsdps = {}
  BY DEF AcpiInv
<1>2. ASSUME acpipc = "found"
      PROVE  LET valid == {p \in ValidRsdps : \A q \in ValidRsdps : p <= q}
                 tables == Tables(CHOOSE p \in valid : TRUE)
                 trusted == Trusted(tables)
                 last == CHOOSE i \in trusted : \A j \in trusted : j <= i
             IN  /\ valid # {}
                 /\ trusted = {} => madt = 0 /\ lapic = 0
                 /\ trusted # {} =>
                      /\ madt = last
                      /\ IF Overrides(tables[last]) = {}
                           THEN lapic = tables[last].lapic32
                           ELSE lapic \in Overrides(tables[last])
  <2> DEFINE valid == {p \in ValidRsdps : \A q \in ValidRsdps : p <= q}
             tables == Tables(CHOOSE p \in valid : TRUE)
             trusted == Trusted(tables)
             last == CHOOSE i \in trusted : \A j \in trusted : j <= i
  <2>1. /\ SoundFirmware(firmware)
        /\ place \in ValidRsdps /\ (\A p \in ValidRsdps : place <= p)
        /\ SoundRoot(root, IF wide THEN 8 ELSE 4)
        /\ root.entries = Tables(place)
        /\ index \in Nat \ {0} /\ index > EntriesCount
        /\ LastOf(root.entries, index, madt, lapic)
    BY <1>2 DEF AcpiInv
  <2>2. \A p \in ValidRsdps : p \in Int
    BY <2>1 DEF SoundFirmware, ValidRsdps, Candidates
  <2>3. valid = {place}
    BY <2>1, <2>2
  <2>4. tables = root.entries
    BY <2>1, <2>3
  <2>5. EntriesCount \in Nat /\ DOMAIN tables = 1 .. EntriesCount
    BY <2>1, <2>4, RootFacts
  <2>6. \A i \in trusted : i \in Nat \ {0} /\ i < index
    BY <2>1, <2>5 DEF Trusted
  <2>7. \A i \in trusted : i <= madt
    BY <2>1, <2>4, <2>6 DEF LastOf
  <2>8. CASE trusted = {}
    <3>1. madt = 0 /\ lapic = 0
      BY <2>1, <2>4, <2>8 DEF LastOf
    <3> QED
      BY <3>1, <2>3, <2>8
  <2>9. CASE trusted # {}
    <3>1. madt \in trusted /\ FromTable(tables[madt], lapic)
      BY <2>1, <2>4, <2>6, <2>7, <2>9 DEF LastOf
    <3>2. last = madt
      BY <3>1, <2>6, <2>7
    <3>3. IF Overrides(tables[last]) = {} THEN lapic = tables[last].lapic32
          ELSE lapic \in Overrides(tables[last])
      BY <3>1, <3>2 DEF FromTable
    <3> QED
      BY <3>2, <3>3, <2>3, <2>9
  <2> QED
    BY <2>8, <2>9
<1> QED
  BY <1>1, <1>2 DEF LapicFound

\* Whatever candidates and tables the firmware left, as long as the tables are laid out as
\* ACPI says: init_acpi takes the first valid pointer, panics only without one, and ends up
\* with the address that the last trusted MADT gives.
THEOREM LapicCorrect == Spec => []LapicFound
<1>1. Init => AcpiInv
  BY AcpiStart
<1>2. AcpiInv /\ [Next]_vars => AcpiInv'
  BY AcpiStep
<1>3. AcpiInv => LapicFound
  BY AcpiFinds
<1> QED
  BY <1>1, <1>2, <1>3, PTL DEF Spec

-----------------------------------------------------------------------------
(* Pixels.                                                                 *)

\* The column and the row of a pixel are told from its offset.
LEMMA OffsetPixel ==
  ASSUME NEW w \in Nat, NEW y \in Nat, NEW x \in 0 .. w - 1
  PROVE  (y * w + x) \div w = y /\ (y * w + x) % w = x
<1>1. w \in Nat \ {0} /\ y * w + x = w * y + x
  OBVIOUS
<1>2. (w * y + x) \div w = y /\ (w * y + x) % w = x
  BY <1>1, QuotientUnique
<1> QED
  BY <1>1, <1>2

\* A pixel of a buffer, from its offset.
LEMMA OffsetFacts ==
  ASSUME NEW w \in Nat, NEW h \in Nat, NEW x \in 0 .. w - 1, NEW y \in 0 .. h - 1
  PROVE  LET o == y * w + x
         IN  o \in 0 .. w * h - 1 /\ o \div w = y /\ o % w = x
<1>1. y \in Nat
  OBVIOUS
<1> QED
  BY <1>1, OffsetInside, OffsetPixel

\* Two pixels of a buffer with the same offset are the same.
LEMMA SameOffset ==
  ASSUME NEW w \in Nat, NEW y \in Nat, NEW x \in 0 .. w - 1, NEW v \in Nat, NEW u \in 0 .. w - 1,
         y * w + x = v * w + u
  PROVE  x = u /\ y = v
<1>1. (y * w + x) \div w = y /\ (y * w + x) % w = x
  BY OffsetPixel
<1>2. (v * w + u) \div w = v /\ (v * w + u) % w = u
  BY OffsetPixel
<1> QED
  BY <1>1, <1>2

\* A buffer in which a rectangle has been coloured.
RectDrawn(after, before, w, h, rx, ry, rw, rh, colour) ==
  \A x \in 0 .. w - 1, y \in 0 .. h - 1 :
    after[y * w + x] = IF Within(x, y, rx, ry, rw, rh) THEN colour ELSE before[y * w + x]

\* put_rect colours the pixels of the rectangle and keeps the others.
LEMMA PutRectPixel ==
  ASSUME NEW w \in Nat, NEW h \in Nat, NEW c, Inside(c, w, h), NEW colour,
         NEW rx \in Nat, NEW ry \in Nat, NEW rw \in Nat, NEW rh \in Nat,
         rx < w, ry < h, rx + rw <= w, ry + rh <= h
  PROVE  RectDrawn(PutRect(c, w, h, rx, ry, rw, rh, colour), c, w, h, rx, ry, rw, rh, colour)
<1> SUFFICES ASSUME NEW x \in 0 .. w - 1, NEW y \in 0 .. h - 1
             PROVE  PutRect(c, w, h, rx, ry, rw, rh, colour)[y * w + x] =
                      IF Within(x, y, rx, ry, rw, rh) THEN colour ELSE c[y * w + x]
  BY DEF RectDrawn
<1>1. LinearAddress(w, h, rx, ry) = ry * w + rx
  BY DEF LinearAddress, Clipped
<1> DEFINE o == y * w + x
           line(i) == (ry * w + rx) + i * w .. (ry * w + rx) + i * w + rw - 1
<1>2. o \in DOMAIN c
  BY OffsetInside DEF Inside
<1>3. PutRect(c, w, h, rx, ry, rw, rh, colour)[o] =
        IF \E i \in 0 .. rh - 1 : o \in line(i) THEN colour ELSE c[o]
  BY <1>1, <1>2 DEF PutRect
<1>4. ASSUME NEW i \in 0 .. rh - 1
      PROVE  (ry * w + rx) + i * w = (ry + i) * w + rx /\ (ry + i) * w \in Nat /\ y * w \in Nat
  BY ProductNatural
<1>5. ASSUME NEW i \in 0 .. rh - 1, o \in line(i)
      PROVE  Within(x, y, rx, ry, rw, rh)
  <2> DEFINE j == o - ((ry + i) * w + rx)
  <2>1. j \in 0 .. rw - 1 /\ o = (ry + i) * w + (rx + j)
    BY <1>4, <1>5
  <2>2. rx + j \in 0 .. w - 1 /\ ry + i \in Nat
    BY <2>1
  <2>3. x = rx + j /\ y = ry + i
    BY <2>1, <2>2, SameOffset
  <2> QED
    BY <2>1, <2>3 DEF Within
<1>6. ASSUME Within(x, y, rx, ry, rw, rh)
      PROVE  \E i \in 0 .. rh - 1 : o \in line(i)
  <2>1. y - ry \in 0 .. rh - 1 /\ ry + (y - ry) = y /\ x \in rx .. rx + rw - 1
    BY <1>6 DEF Within
  <2>2. (ry * w + rx) + (y - ry) * w = y * w + rx /\ y * w \in Nat
    BY <2>1, <1>4
  <2>3. o \in line(y - ry)
    BY <2>1, <2>2
  <2> QED
    BY <2>1, <2>3
<1> QED
  BY <1>3, <1>5, <1>6

\* What is cut to 16 bits in composite_buffer, which starts at a column or row `at` and is n
\* long.
LEMMA CutDistance ==
  ASSUME NEW z \in Nat, NEW at \in Nat, NEW n \in Nat, z < 65536, at + n < 65536
  PROVE  IF z \in at .. at + n - 1 THEN U16(z - at) = z - at ELSE U16(z - at) >= n
<1>1. CASE z >= at
  <2>1. z - at \in Nat /\ z - at < 65536
    BY <1>1
  <2>2. U16(z - at) = z - at
    BY <2>1 DEF U16
  <2> QED
    BY <2>2, <1>1
<1>2. CASE z < at
  <2>1. at < 65536 /\ (z - at) + 65536 >= n
    BY <1>2
  <2>2. (z - at) % 65536 = (z - at) + 65536
    BY <2>1, <1>2
  <2> QED
    BY <2>1, <2>2, <1>2 DEF U16
<1> QED
  BY <1>1, <1>2

\* A buffer in which another one has been drawn.
Composed(after, before, w, h, s, sw, sh, left, top) ==
  \A x \in 0 .. w - 1, y \in 0 .. h - 1 :
    after[y * w + x] = IF Within(x, y, left, top, sw, sh) THEN s[(y - top) * sw + (x - left)]
                       ELSE before[y * w + x]

\* composite_buffer draws the other buffer and keeps the pixels around it.
LEMMA CompositePixel ==
  ASSUME NEW w \in Nat, NEW h \in Nat, w < 65536, h < 65536, NEW c, Inside(c, w, h),
         NEW s, NEW sw \in Nat, NEW sh \in Nat, Inside(s, sw, sh),
         NEW left \in Nat, NEW top \in Nat, left + sw <= w, top + sh <= h
  PROVE  Composed(Composite(c, w, h, s, sw, sh, left, top), c, w, h, s, sw, sh, left, top)
<1> SUFFICES ASSUME NEW x \in 0 .. w - 1, NEW y \in 0 .. h - 1
             PROVE  Composite(c, w, h, s, sw, sh, left, top)[y * w + x] =
                      IF Within(x, y, left, top, sw, sh) THEN s[(y - top) * sw + (x - left)]
                      ELSE c[y * w + x]
  BY DEF Composed
<1> DEFINE o == y * w + x
           j == U16(x - left)
           i == U16(y - top)
<1>1. o \in 0 .. w * h - 1 /\ o \div w = y /\ o % w = x
  BY OffsetFacts
<1>2. o \in DOMAIN c
  BY <1>1 DEF Inside
<1>3. Composite(c, w, h, s, sw, sh, left, top)[o] =
        IF j < sw /\ i < sh THEN Read(s, i * sw + j) ELSE c[o]
  BY <1>1, <1>2 DEF Composite
<1>4. IF x \in left .. left + sw - 1 THEN j = x - left ELSE j >= sw
  BY CutDistance
<1>5. IF y \in top .. top + sh - 1 THEN i = y - top ELSE i >= sh
  BY CutDistance
<1> HIDE DEF o, i, j
<1>6. j \in Nat /\ i \in Nat
  BY DEF i, j, U16
<1>7. CASE Within(x, y, left, top, sw, sh)
  <2>1. j = x - left /\ i = y - top /\ j \in 0 .. sw - 1 /\ i \in 0 .. sh - 1
    BY <1>4, <1>5, <1>7 DEF Within
  <2>2. i * sw + j \in DOMAIN s
    BY <2>1, OffsetInside DEF Inside
  <2>3. Composite(c, w, h, s, sw, sh, left, top)[o] = s[i * sw + j]
    BY <2>1, <2>2, <1>3 DEF Read
  <2> QED
    BY <2>1, <2>3, <1>7 DEF o
<1>8. CASE ~ Within(x, y, left, top, sw, sh)
  <2>1. ~ (j < sw /\ i < sh)
    BY <1>4, <1>5, <1>6, <1>8 DEF Within
  <2> QED
    BY <2>1, <1>3, <1>8 DEF o
<1> QED
  BY <1>7, <1>8

\* A frame buffer, which was `before`, shows a buffer; behind the end of a line it is as
\* it was.
Copied(after, before, pitch, c, w, h) ==
  \A x \in 0 .. pitch - 1, y \in 0 .. h - 1 :
    after[y * pitch + x] = IF x < w THEN c[y * w + x] ELSE before[y * pitch + x]

\* swap_bufs copies the pixels of the screen and nothing behind the end of a line.
LEMMA SwapPixel ==
  ASSUME NEW w \in Nat, NEW h \in Nat, NEW pitch \in Nat, w <= pitch,
         NEW front0, Inside(front0, pitch, h), NEW back0, Inside(back0, w, h)
  PROVE  Copied(SwapBufs(front0, pitch, back0, w, h), front0, pitch, back0, w, h)
<1> SUFFICES ASSUME NEW x \in 0 .. pitch - 1, NEW y \in 0 .. h - 1
             PROVE  SwapBufs(front0, pitch, back0, w, h)[y * pitch + x] =
                      IF x < w THEN back0[y * w + x] ELSE front0[y * pitch + x]
  BY DEF Copied
<1> DEFINE o == y * pitch + x
<1>1. o \in DOMAIN front0 /\ o \div pitch = y /\ o % pitch = x
  BY OffsetFacts DEF Inside
<1>2. SwapBufs(front0, pitch, back0, w, h)[o] =
        IF y \in 0 .. h - 1 /\ x < w THEN Read(back0, y * w + x) ELSE front0[o]
  BY <1>1 DEF SwapBufs
<1>3. x < w => y * w + x \in DOMAIN back0
  BY OffsetInside DEF Inside
<1> QED
  BY <1>2, <1>3 DEF Read

\* A quotient of two naturals, rounded: the distance to it is at most a half.
LEMMA RoundedNear ==
  ASSUME NEW j \in Nat, NEW d \in Nat \ {0}, NEW s \in Nat \ {0}, j < d, NEW down,
         NEW k \in Int, k = Rounded(j, d, s, down)
  PROVE  /\ k \in Nat /\ 2 * Distance(k * d, j * s) <= d
         /\ k >= s => j * s >= (s - 1) * d /\ d >= 2 * s
<1> DEFINE n == 2 * j * s + d
<1>1. PICK p \in Nat : p = j * s
  BY ProductNatural
<1>2. n = 2 * p + d /\ n \in Nat /\ 2 * d \in Nat \ {0}
  BY <1>1
<1>3. PICK q \in Nat : q = n \div (2 * d)
  BY <1>2, Division
<1>4. PICK r \in 0 .. 2 * d - 1 : r = n % (2 * d)
  BY <1>2, Division
<1>5. n = (2 * d) * q + r
  BY <1>2, <1>3, <1>4, Division
<1>6. PICK t \in Nat : t = q * d
  BY ProductNatural
<1>7. 2 * p + d = 2 * t + r
  BY <1>2, <1>5, <1>6
<1>8. Halfway(j, d, s) <=> r = 0
  BY <1>4 DEF Halfway
<1>9. k = q - (IF r = 0 /\ j \in down THEN 1 ELSE 0)
  BY <1>3, <1>8 DEF Rounded
<1>10. r = 0 => q # 0
  BY <1>6, <1>7
<1>11. k \in Nat
  BY <1>9, <1>10
<1>12. k * d = IF r = 0 /\ j \in down THEN t - d ELSE t
  BY <1>6, <1>9
<1>13. 2 * Distance(k * d, j * s) <= d
  BY <1>1, <1>7, <1>12 DEF Distance
<1>14. ASSUME k >= s
       PROVE  j * s >= (s - 1) * d /\ d >= 2 * s
  <2>1. PICK e \in Nat : q = s + e
    <3>1. q - s \in Nat /\ q = s + (q - s)
      BY <1>9, <1>14
    <3> QED
      BY <3>1
  <2>2. e * d \in Nat /\ s * d \in Nat /\ t = s * d + e * d
    BY <2>1, <1>6, ProductNatural
  <2>3. (s - 1) * d = s * d - d
    OBVIOUS
  <2>4. j * s >= (s - 1) * d
    BY <2>2, <2>3, <1>1, <1>7
  <2>5. PICK f \in Nat : d = j + 1 + f
    <3>1. d - j - 1 \in Nat /\ d = j + 1 + (d - j - 1)
      OBVIOUS
    <3> QED
      BY <3>1
  <2>6. s * d = p + s + s * f /\ s * f \in Nat
    BY <2>5, <1>1, ProductNatural
  <2> QED
    BY <2>2, <2>4, <2>6, <1>7
<1> QED
  BY <1>11, <1>13, <1>14

\* The column scale_buffer takes is one of the nearest.
LEMMA ColumnNearest ==
  ASSUME NEW j \in Nat, NEW d \in Nat \ {0}, NEW s \in Nat \ {0}, j < d, NEW down
  PROVE  SampleColumn(j, d, s, down) \in Nearest(j, d, s)
<1>1. Rounded(j, d, s, down) \in Int
  BY Division DEF Rounded
<1>2. PICK k \in Int : k = Rounded(j, d, s, down)
  BY <1>1
<1>3. /\ k \in Nat /\ 2 * Distance(k * d, j * s) <= d
      /\ k >= s => j * s >= (s - 1) * d /\ d >= 2 * s
  BY <1>2, RoundedNear
<1>4. CASE k >= s
  BY <1>2, <1>3, <1>4 DEF SampleColumn, Nearest
<1>5. CASE k < s
  BY <1>2, <1>3, <1>5 DEF SampleColumn, Nearest
<1> QED
  BY <1>4, <1>5

\* So is the row, unless a picture that is not a square is scaled up.
LEMMA RowNearest ==
  ASSUME NEW i \in Nat, NEW d \in Nat \ {0}, NEW s \in Nat \ {0}, i < d, NEW down,
         NEW sw, sw = s \/ d < 2 * s
  PROVE  SampleRow(i, d, s, sw, down) \in Nearest(i, d, s)
<1>1. Rounded(i, d, s, down) \in Int
  BY Division DEF Rounded
<1>2. PICK k \in Int : k = Rounded(i, d, s, down)
  BY <1>1
<1>3. /\ k \in Nat /\ 2 * Distance(k * d, i * s) <= d
      /\ k >= s => i * s >= (s - 1) * d /\ d >= 2 * s
  BY <1>2, RoundedNear
<1>4. CASE k >= s
  BY <1>2, <1>3, <1>4 DEF SampleRow, Nearest
<1>5. CASE k < s
  BY <1>2, <1>3, <1>5 DEF SampleRow, Nearest
<1> QED
  BY <1>4, <1>5

\* scale_buffer shows the picture.
LEMMA ScalePixel ==
  ASSUME NEW dw \in Nat, NEW dh \in Nat, NEW s, NEW sw \in Nat \ {0}, NEW sh \in Nat \ {0},
         Inside(s, sw, sh), sw = sh \/ dh < 2 * sh, NEW down,
         NEW x \in 0 .. dw - 1, NEW y \in 0 .. dh - 1
  PROVE  ShowsScaled(Scale(dw, dh, s, sw, sh, down)[y * dw + x], x, y, dw, dh, s, sw, sh)
<1> DEFINE o == y * dw + x
<1>1. o \in 0 .. dw * dh - 1 /\ o \div dw = y /\ o % dw = x
  BY OffsetFacts
<1>2. PICK k : k = SampleColumn(x, dw, sw, down)
  OBVIOUS
<1>3. PICK l : l = SampleRow(y, dh, sh, sw, down)
  OBVIOUS
<1>4. Scale(dw, dh, s, sw, sh, down)[o] = Read(s, l * sw + k)
  BY <1>1, <1>2, <1>3 DEF Scale
<1>5. k \in Nearest(x, dw, sw)
  <2>1. dw \in Nat \ {0} /\ x \in Nat /\ x < dw
    OBVIOUS
  <2> QED
    BY <1>2, <2>1, ColumnNearest
<1>6. l \in Nearest(y, dh, sh)
  <2>1. dh \in Nat \ {0} /\ y \in Nat /\ y < dh
    OBVIOUS
  <2> QED
    BY <1>3, <2>1, RowNearest
<1>7. k \in 0 .. sw - 1 /\ l \in 0 .. sh - 1
  BY <1>5, <1>6 DEF Nearest
<1>8. l * sw + k \in DOMAIN s
  BY <1>7, OffsetInside DEF Inside
<1>9. Scale(dw, dh, s, sw, sh, down)[o] = s[l * sw + k]
  BY <1>4, <1>8 DEF Read
<1> QED
  BY <1>5, <1>6, <1>9 DEF ShowsScaled

-----------------------------------------------------------------------------
(* The logo on the screen.                                                 *)

\* The places that draw_logo and kpanic draw to on a machine m.
SideOn(m) == (IF m.width > m.height THEN m.height ELSE m.width) \div 5
LogoLeft(m) == (m.width \div 2) - (SideOn(m) \div 2)
LogoTop(m) == (m.height \div 2) - (SideOn(m) \div 2)
LogoArea(m, x, y) == Within(x, y, LogoLeft(m), LogoTop(m), SideOn(m), SideOn(m))

PanicArea(m, x, y) ==
  Within(x, y, m.width \div 10, m.height \div 10, (m.width \div 10) * 8, (m.height \div 10) * 8)
PanicEdge(m, x, y) ==
  Within(x, y, (m.width \div 10) - (m.width \div 100), (m.height \div 10) - (m.height \div 100),
               (m.width \div 10) * 8 + (m.width \div 50),
               (m.height \div 10) * 8 + (m.height \div 50))

\* Pixel (x, y) of the screen, which has a colour, shows the picture c on the background.
LogoAt(m, c, x, y, colour) ==
  IF LogoArea(m, x, y)
    THEN ShowsScaled(colour, x - LogoLeft(m), y - LogoTop(m), SideOn(m), SideOn(m),
                     c, m.logo.width, m.logo.height)
    ELSE colour = Slate

\* A picture that is not a square is not scaled up.  (See SampledInside.)
LogoFits(m) == m.logo.width = m.logo.height \/ SideOn(m) < 2 * m.logo.height

\* The stages in which the panic has been drawn over the logo in the double buffer.
FrameStages == PanicStages \ {"panic frame"}

LogoInv ==
  /\ stage \in {"fill", "composite"} =>
       /\ Inside(scaled, SideOn(machine), SideOn(machine))
       /\ \A x \in 0 .. SideOn(machine) - 1, y \in 0 .. SideOn(machine) - 1 :
            ShowsScaled(scaled[y * SideOn(machine) + x], x, y, SideOn(machine), SideOn(machine),
                        canvas, machine.logo.width, machine.logo.height)
  /\ stage = "composite" => \A x \in Columns, y \in Rows : back[y * machine.width + x] = Slate
  /\ stage \in {"swap"} \cup LogoStages =>
       \A x \in Columns, y \in Rows :
         \/ LogoAt(machine, canvas, x, y, back[y * machine.width + x])
         \/ stage \in FrameStages /\ PanicEdge(machine, x, y)
  /\ stage \in LogoStages =>
       \A x \in Columns, y \in Rows :
         \/ LogoAt(machine, canvas, x, y, front[y * machine.pitch + x])
         \/ stage = "panic shown" /\ PanicEdge(machine, x, y)
  /\ stage = "panic composite" =>
       Inside(scaled, (machine.width \div 10) * 8, (machine.height \div 10) * 8)
  /\ \A x \in machine.width .. machine.pitch - 1, y \in Rows :
       front[y * machine.pitch + x] = Garbage

\* The logo fits on the screen.
LEMMA LogoPlace ==
  ASSUME NEW m \in Machines
  PROVE  /\ SideOn(m) \in Nat /\ LogoLeft(m) \in Nat /\ LogoTop(m) \in Nat
         /\ LogoLeft(m) + SideOn(m) <= m.width /\ LogoTop(m) + SideOn(m) <= m.height
<1>1. m.width \in Nat \ {0} /\ m.height \in Nat \ {0}
  BY MachineFacts
<1>2. PICK w \in Nat : w = m.width
  BY <1>1
<1>3. PICK h \in Nat : h = m.height
  BY <1>1
<1>4. PICK d \in Nat : d = SideOn(m) /\ 5 * d <= w /\ 5 * d <= h
  <2> DEFINE s == IF w > h THEN h ELSE w
  <2>1. s \in Nat /\ s <= w /\ s <= h
    BY <1>2, <1>3
  <2> HIDE DEF s
  <2>2. s \div 5 \in Nat /\ 5 * (s \div 5) <= s
    BY <2>1
  <2>3. s \div 5 = SideOn(m)
    BY <1>2, <1>3 DEF s, SideOn
  <2> QED
    BY <2>1, <2>2, <2>3
<1>5. LogoLeft(m) = (w \div 2) - (d \div 2) /\ LogoTop(m) = (h \div 2) - (d \div 2)
  BY <1>2, <1>3, <1>4 DEF LogoLeft, LogoTop
<1>6. PICK a \in Nat : a = w \div 2 /\ 2 * a <= w /\ w <= 2 * a + 1
  BY <1>2
<1>7. PICK b \in Nat : b = h \div 2 /\ 2 * b <= h /\ h <= 2 * b + 1
  BY <1>3
<1>8. PICK e \in Nat : e = d \div 2 /\ 2 * e <= d /\ d <= 2 * e + 1
  BY <1>4
<1>9. /\ a - e \in Nat /\ b - e \in Nat /\ a - e + d <= w /\ b - e + d <= h
  BY <1>4, <1>6, <1>7, <1>8
<1> QED
  BY <1>2, <1>3, <1>4, <1>5, <1>6, <1>7, <1>8, <1>9

\* The area of the panic is in its frame.
LEMMA AreaInEdge ==
  ASSUME NEW m \in Machines, NEW x \in Nat, NEW y \in Nat, PanicArea(m, x, y)
  PROVE  PanicEdge(m, x, y)
<1>1. m.width \in Nat \ {0} /\ m.height \in Nat \ {0}
  BY MachineFacts
<1>2. ASSUME NEW n \in Nat, NEW z \in Nat,
             z \in n \div 10 .. (n \div 10) + (n \div 10) * 8 - 1
      PROVE  z \in (n \div 10) - (n \div 100) ..
                   ((n \div 10) - (n \div 100)) + ((n \div 10) * 8 + (n \div 50)) - 1
  <2> DEFINE t == n \div 10
             a == n \div 100
             b == n \div 50
  <2>1. t \in Nat /\ a \in Nat /\ b \in Nat /\ a <= b
    OBVIOUS
  <2>2. z \in t .. t + t * 8 - 1
    BY <1>2
  <2> HIDE DEF t, a, b
  <2>3. z \in t - a .. (t - a) + (t * 8 + b) - 1
    BY <2>1, <2>2
  <2> QED
    BY <2>3 DEF t, a, b
<1> QED
  BY <1>1, <1>2 DEF PanicArea, PanicEdge, Within

\* Steps that draw nothing keep what is shown.
LogoKept ==
  /\ machine' = machine /\ front' = front
  /\ \/ stage' \notin {"fill", "composite", "swap"} \cup LogoStages
     \/ /\ canvas' = canvas /\ back' = back /\ scaled' = scaled
        /\ \/ stage' = stage
           \/ /\ stage \in LogoStages /\ stage' \in LogoStages
              /\ stage \in FrameStages => stage' \in FrameStages
              /\ stage' \notin {"panic shown", "panic composite"} /\ stage # "panic shown"

\* A step that keeps the screen keeps the logo on it.
LEMMA LogoKeeps ==
  ASSUME LogoInv, LogoKept
  PROVE  LogoInv'
BY DEF LogoInv, LogoKept, LogoStages, FrameStages, PanicStages, Columns, Rows

\* Most steps of kmain draw nothing on the screen.
LEMMA LogoQuiet ==
  ASSUME ShapeInv, LogoInv,
         \/ UNCHANGED vars
         \/ Logging \/ Uart \/ StartLog \/ PrepMem \/ MakeHeap \/ ShowLapic \/ Kpanic
         \/ InitVideo \/ DrawLogo \/ PutTarga \/ SetFont \/ InitAcpi
         \/ PanicBox \/ PanicChar \/ PanicText
  PROVE  LogoInv'
<1>1. CASE UNCHANGED vars
  BY <1>1, LogoKeeps DEF LogoKept, vars, kernelvars, drawvars, targavars
<1>2. CASE Logging \/ Uart
  BY <1>2, LogoKeeps DEF LogoKept, Logging, Uart, kernelvars, drawvars, targavars
<1>3. CASE StartLog \/ PrepMem \/ MakeHeap
  BY <1>3, LogoKeeps DEF LogoKept, StartLog, PrepMem, MakeHeap, Goto, SerialKpanic, LogoStages,
    PanicStages, drawvars
<1>4. CASE ShowLapic
  BY <1>4, LogoKeeps DEF LogoKept, ShowLapic, At, Goto, LogoStages, FrameStages, PanicStages,
    drawvars, targavars
<1>5. CASE Kpanic
  BY <1>5, LogoKeeps DEF LogoKept, Kpanic, At, Goto, LogoStages, FrameStages, PanicStages,
    drawvars, targavars
<1>6. CASE InitVideo
  BY <1>6, LogoKeeps DEF LogoKept, InitVideo, Goto, SerialKpanic, LogoStages, PanicStages
<1>7. CASE DrawLogo
  BY <1>7, LogoKeeps DEF LogoKept, DrawLogo, Goto, SerialKpanic, LogoStages, PanicStages,
    drawvars
<1>8. CASE PutTarga
  BY <1>8, LogoKeeps DEF LogoKept, PutTarga, Goto, SerialKpanic, LogoStages, PanicStages,
    drawvars
<1>9. CASE SetFont
  BY <1>9, LogoKeeps DEF LogoKept, SetFont, At, Goto, SerialKpanic, LogoStages, FrameStages,
    PanicStages, drawvars, targavars
<1>10. CASE InitAcpi
  BY <1>10, LogoKeeps DEF LogoKept, InitAcpi, At, Goto, LogoStages, FrameStages, PanicStages,
    drawvars, targavars
<1>11. CASE PanicBox
  BY <1>11, LogoKeeps DEF LogoKept, PanicBox, At, Goto, LogoStages, FrameStages, PanicStages,
    KeepButDrawing, targavars
<1>12. CASE PanicChar
  BY <1>12, LogoKeeps DEF LogoKept, PanicChar, KeepButDrawing, targavars
<1>13. CASE PanicText
  BY <1>13, LogoKeeps DEF LogoKept, PanicText, At, Goto, LogoStages, FrameStages, PanicStages,
    KeepButDrawing, targavars
<1> QED
  BY <1>1, <1>2, <1>3, <1>4, <1>5, <1>6, <1>7, <1>8, <1>9, <1>10, <1>11, <1>12, <1>13

\* What the steps that draw rest on.
LEMMA ScreenFacts ==
  ASSUME ShapeInv, stage \in {"scale", "fill", "composite", "swap"} \cup LogoStages
  PROVE  /\ machine \in Machines /\ tga = machine.logo
         /\ machine.width \in Nat \ {0} /\ machine.width < 65536
         /\ machine.height \in Nat \ {0} /\ machine.height < 65536
         /\ machine.logo.width \in Nat \ {0} /\ machine.logo.height \in Nat \ {0}
         /\ Inside(back, machine.width, machine.height)
         /\ Inside(canvas, machine.logo.width, machine.logo.height)
<1>1. machine \in Machines /\ tga = machine.logo
  BY DEF ShapeInv
<1>2. stage \in ScreenStages /\ stage \in CanvasStages
  BY DEF ScreenStages, CanvasStages
<1>3. /\ Inside(back, machine.width, machine.height)
      /\ Inside(canvas, machine.logo.width, machine.logo.height)
  BY <1>1, <1>2 DEF ShapeInv
<1> QED
  BY <1>1, <1>3, MachineFacts

\* The scaled logo shows the decoded one.
LEMMA LogoScales ==
  ASSUME ShapeInv, LogoInv, ScaleLogo, LogoFits(machine)
  PROVE  LogoInv'
<1>1. stage = "scale" /\ stage' = "fill" /\ machine' = machine /\ front' = front
      /\ canvas' = canvas
  BY DEF ScaleLogo, At, Goto, KeepButDrawing, targavars
<1>2. /\ machine \in Machines /\ tga = machine.logo
      /\ machine.logo.width \in Nat \ {0} /\ machine.logo.height \in Nat \ {0}
      /\ Inside(canvas, machine.logo.width, machine.logo.height)
  BY <1>1, ScreenFacts
<1>3. PICK d \in Nat : d = SideOn(machine)
  BY <1>2, LogoPlace
<1>4. PICK down \in Downs : scaled' = Scale(d, d, canvas, tga.width, tga.height, down)
  BY <1>3 DEF ScaleLogo, LogoSide, SideOn
<1>5. machine.logo.width = machine.logo.height \/ d < 2 * machine.logo.height
  BY <1>3 DEF LogoFits
<1>6. ASSUME NEW x \in 0 .. d - 1, NEW y \in 0 .. d - 1
      PROVE  ShowsScaled(Scale(d, d, canvas, machine.logo.width, machine.logo.height, down)
                              [y * d + x],
                         x, y, d, d, canvas, machine.logo.width, machine.logo.height)
  BY <1>2, <1>5, ScalePixel
<1>7. Inside(scaled', d, d)
  BY <1>4 DEF Scale, Inside
<1>8. \A x \in 0 .. d - 1, y \in 0 .. d - 1 :
        ShowsScaled(scaled'[y * d + x], x, y, d, d, canvas, machine.logo.width,
                    machine.logo.height)
  BY <1>2, <1>4, <1>6
<1> QED
  BY <1>1, <1>3, <1>7, <1>8 DEF LogoInv, LogoStages, PanicStages, Columns, Rows

\* The background is filled around the logo.
LEMMA LogoFills ==
  ASSUME ShapeInv, LogoInv, Fill
  PROVE  LogoInv'
<1>1. stage = "fill" /\ stage' = "composite" /\ machine' = machine /\ front' = front
      /\ canvas' = canvas /\ scaled' = scaled
  BY DEF Fill, At, Goto, KeepButDrawing, targavars
<1>2. PICK w \in Nat : w = machine.width /\ 0 < w
  BY <1>1, ScreenFacts
<1>3. PICK h \in Nat : h = machine.height /\ 0 < h
  BY <1>1, ScreenFacts
<1>4. Inside(back, w, h) /\ back' = PutRect(back, w, h, 0, 0, w, h, Slate)
  BY <1>1, <1>2, <1>3, ScreenFacts DEF Fill
<1>5. ASSUME NEW x \in 0 .. w - 1, NEW y \in 0 .. h - 1
      PROVE  back'[y * w + x] = Slate
  <2>1. RectDrawn(PutRect(back, w, h, 0, 0, w, h, Slate), back, w, h, 0, 0, w, h, Slate)
    BY <1>2, <1>3, <1>4, PutRectPixel
  <2>2. Within(x, y, 0, 0, w, h)
    BY DEF Within
  <2> QED
    BY <2>1, <2>2, <1>4 DEF RectDrawn
<1> QED
  BY <1>1, <1>2, <1>3, <1>5 DEF LogoInv, LogoStages, PanicStages, Columns, Rows

\* The logo is put into the middle of the background.
LEMMA LogoComposes ==
  ASSUME ShapeInv, LogoInv, CompositeLogo
  PROVE  LogoInv'
<1>1. stage = "composite" /\ stage' = "swap" /\ machine' = machine /\ front' = front
      /\ canvas' = canvas
  BY DEF CompositeLogo, At, Goto, KeepButDrawing, targavars
<1>2. PICK w \in Nat : w = machine.width /\ w < 65536
  BY <1>1, ScreenFacts
<1>3. PICK h \in Nat : h = machine.height /\ h < 65536
  BY <1>1, ScreenFacts
<1>4. machine \in Machines /\ Inside(back, w, h)
  BY <1>1, <1>2, <1>3, ScreenFacts
<1>5. PICK d \in Nat : d = SideOn(machine)
  BY <1>4, LogoPlace
<1>6. PICK left \in Nat : left = LogoLeft(machine) /\ left + d <= w
  BY <1>2, <1>4, <1>5, LogoPlace
<1>7. PICK top \in Nat : top = LogoTop(machine) /\ top + d <= h
  BY <1>3, <1>4, <1>5, LogoPlace
<1>8. back' = Composite(back, w, h, scaled, d, d, left, top)
  BY <1>2, <1>3, <1>5, <1>6, <1>7 DEF CompositeLogo, LogoSide, SideOn, LogoLeft, LogoTop
<1>9. /\ Inside(scaled, d, d)
      /\ \A x \in 0 .. d - 1, y \in 0 .. d - 1 :
           ShowsScaled(scaled[y * d + x], x, y, d, d, canvas, machine.logo.width,
                       machine.logo.height)
      /\ \A x \in 0 .. w - 1, y \in 0 .. h - 1 : back[y * w + x] = Slate
  BY <1>1, <1>2, <1>3, <1>5 DEF LogoInv, Columns, Rows
<1>10. ASSUME NEW x \in 0 .. w - 1, NEW y \in 0 .. h - 1
       PROVE  LogoAt(machine, canvas, x, y, back'[y * w + x])
  <2>1. Composed(Composite(back, w, h, scaled, d, d, left, top), back, w, h, scaled, d, d,
                 left, top)
    <3>1. w < 65536 /\ h < 65536 /\ left + d <= w /\ top + d <= h
      BY <1>2, <1>3, <1>6, <1>7
    <3>2. Inside(back, w, h) /\ Inside(scaled, d, d)
      BY <1>4, <1>9
    <3> QED
      BY <3>1, <3>2, CompositePixel
  <2>5. back'[y * w + x] =
          IF Within(x, y, left, top, d, d) THEN scaled[(y - top) * d + (x - left)]
          ELSE back[y * w + x]
    BY <2>1, <1>8, Zenon DEF Composed
  <2>2. LogoArea(machine, x, y) <=> Within(x, y, left, top, d, d)
    BY <1>5, <1>6, <1>7 DEF LogoArea
  <2>3. CASE Within(x, y, left, top, d, d)
    <3>1. x - left \in 0 .. d - 1 /\ y - top \in 0 .. d - 1
      BY <2>3 DEF Within
    <3>2. ShowsScaled(scaled[(y - top) * d + (x - left)], x - left, y - top, d, d, canvas,
                      machine.logo.width, machine.logo.height)
      BY <3>1, <1>9
    <3> QED
      BY <3>2, <2>5, <2>2, <2>3, <1>5, <1>6, <1>7 DEF LogoAt
  <2>4. CASE ~ Within(x, y, left, top, d, d)
    BY <2>5, <2>2, <2>4, <1>9 DEF LogoAt
  <2> QED
    BY <2>3, <2>4
<1> QED
  BY <1>1, <1>2, <1>3, <1>10 DEF LogoInv, LogoStages, PanicStages, Columns, Rows

Swaps == Swap("swap", "set_font") \/ Swap("panic swap", "panic shown")

\* What is drawn to the double buffer is copied to the screen.
LEMMA SwapShows ==
  ASSUME ShapeInv, Swaps
  PROVE  /\ \A x \in Columns, y \in Rows :
              front'[y * machine.pitch + x] = back[y * machine.width + x]
         /\ \A x \in machine.width .. machine.pitch - 1, y \in Rows :
              front'[y * machine.pitch + x] = front[y * machine.pitch + x]
<1>1. stage \in {"swap", "panic swap"}
  BY DEF Swaps, Swap, At
<1>2. machine \in Machines
  BY DEF ShapeInv
<1>3. PICK w \in Nat : w = machine.width
  BY <1>2, PitchFacts
<1>4. PICK h \in Nat : h = machine.height
  BY <1>2, PitchFacts
<1>5. PICK line \in Nat : line = machine.pitch /\ w <= line
  BY <1>2, <1>3, PitchFacts
<1>6. Inside(front, line, h) /\ Inside(back, w, h)
  <2>1. stage \in {"scale", "fill", "composite", "swap"} \cup LogoStages
    BY <1>1 DEF LogoStages, PanicStages
  <2>2. Inside(back, machine.width, machine.height)
    BY <2>1, ScreenFacts
  <2>3. Inside(front, machine.pitch, machine.height)
    BY DEF ShapeInv
  <2> QED
    BY <2>2, <2>3, <1>3, <1>4, <1>5, Zenon
<1>7. w <= line
  BY <1>5
<1>8. front' = SwapBufs(front, line, back, w, h)
  BY <1>3, <1>4, <1>5 DEF Swaps, Swap
<1>9. \A x \in 0 .. line - 1, y \in 0 .. h - 1 :
        front'[y * line + x] = IF x < w THEN back[y * w + x] ELSE front[y * line + x]
  <2>1. Inside(front, line, h) /\ Inside(back, w, h)
    BY <1>6
  <2>2. Copied(SwapBufs(front, line, back, w, h), front, line, back, w, h)
    BY <2>1, <1>7, SwapPixel
  <2> QED
    BY <2>2, <1>8, Zenon DEF Copied
<1>10. /\ \A x \in 0 .. w - 1 : x \in 0 .. line - 1 /\ x < w
      /\ \A x \in w .. line - 1 : x \in 0 .. line - 1 /\ ~ (x < w)
  BY <1>7
<1>11. /\ \A x \in 0 .. w - 1, y \in 0 .. h - 1 : front'[y * line + x] = back[y * w + x]
       /\ \A x \in w .. line - 1, y \in 0 .. h - 1 : front'[y * line + x] = front[y * line + x]
  BY <1>9, <1>10
<1> QED
  BY <1>3, <1>4, <1>5, <1>11, Zenon DEF Columns, Rows

\* The double buffer is copied to the screen.
LEMMA LogoSwaps ==
  ASSUME ShapeInv, LogoInv, Swaps
  PROVE  LogoInv'
<1>1. /\ \/ stage = "swap" /\ stage' = "set_font"
         \/ stage = "panic swap" /\ stage' = "panic shown"
      /\ machine' = machine /\ canvas' = canvas /\ back' = back
  BY DEF Swaps, Swap, At, Goto, KeepButDrawing, targavars
<1>2. /\ \A x \in Columns, y \in Rows :
           front'[y * machine.pitch + x] = back[y * machine.width + x]
      /\ \A x \in machine.width .. machine.pitch - 1, y \in Rows :
           front'[y * machine.pitch + x] = front[y * machine.pitch + x]
  BY SwapShows
<1>3. Columns' = Columns /\ Rows' = Rows
  BY <1>1 DEF Columns, Rows
<1>4. ~ (stage \in FrameStages) \/ stage' = "panic shown"
  BY <1>1 DEF FrameStages, PanicStages
<1>5. stage \in {"swap"} \cup LogoStages
  BY <1>1 DEF LogoStages, PanicStages
<1>6. \A x \in Columns, y \in Rows :
        \/ LogoAt(machine, canvas, x, y, back[y * machine.width + x])
        \/ stage \in FrameStages /\ PanicEdge(machine, x, y)
  BY <1>5 DEF LogoInv
<1>7. \A x \in machine.width .. machine.pitch - 1, y \in Rows :
        front[y * machine.pitch + x] = Garbage
  BY DEF LogoInv
<1>8. stage' = "panic shown" => stage' \in FrameStages
  BY DEF FrameStages, PanicStages
<1>9. stage' \notin {"fill", "composite", "panic composite"}
  BY <1>1
<1>10. \A x \in Columns, y \in Rows :
         \/ LogoAt(machine, canvas, x, y, front'[y * machine.pitch + x])
         \/ stage' = "panic shown" /\ PanicEdge(machine, x, y)
  BY <1>2, <1>4, <1>6, Zenon
<1>11. \A x \in Columns, y \in Rows :
         \/ LogoAt(machine, canvas, x, y, back[y * machine.width + x])
         \/ stage' \in FrameStages /\ PanicEdge(machine, x, y)
  BY <1>4, <1>6, <1>8, Zenon
<1>12. \A x \in machine.width .. machine.pitch - 1, y \in Rows :
         front'[y * machine.pitch + x] = Garbage
  BY <1>2, <1>7, Zenon
<1> QED
  BY <1>1, <1>3, <1>9, <1>10, <1>11, <1>12, Zenon DEF LogoInv

\* kpanic's two rectangles and the area of its text box.
LEMMA FrameDraws ==
  ASSUME ShapeInv, PanicFrame
  PROVE  /\ machine' = machine /\ front' = front /\ canvas' = canvas
         /\ stage = "panic frame" /\ stage' = "panic inner"
         /\ \A x \in Columns, y \in Rows :
              back'[y * machine.width + x] =
                IF PanicEdge(machine, x, y) THEN Red ELSE back[y * machine.width + x]
<1>1. /\ machine' = machine /\ front' = front /\ canvas' = canvas
      /\ stage = "panic frame" /\ stage' = "panic inner"
  BY DEF PanicFrame, At, Goto, KeepButDrawing, targavars
<1>2. stage \in LogoStages
  BY <1>1 DEF LogoStages, PanicStages
<1>3. PICK w \in Nat \ {0} : w = machine.width
  BY <1>2, ScreenFacts
<1>4. PICK h \in Nat \ {0} : h = machine.height
  BY <1>2, ScreenFacts
<1>5. Inside(back, w, h)
  BY <1>2, <1>3, <1>4, ScreenFacts
<1> DEFINE rx == (w \div 10) - (w \div 100)
           ry == (h \div 10) - (h \div 100)
           rw == (w \div 10) * 8 + (w \div 50)
           rh == (h \div 10) * 8 + (h \div 50)
<1>6. rx \in Nat /\ rw \in Nat /\ rx < w /\ rx + rw <= w
  BY FrameFits
<1>7. ry \in Nat /\ rh \in Nat /\ ry < h /\ ry + rh <= h
  BY FrameFits
<1>8. back' = PutRect(back, w, h, rx, ry, rw, rh, Red)
  BY <1>3, <1>4 DEF PanicFrame, Tenth, InnerWidth, InnerHeight
<1>9. \A x, y : PanicEdge(machine, x, y) <=> Within(x, y, rx, ry, rw, rh)
  BY <1>3, <1>4 DEF PanicEdge
<1> HIDE DEF rx, ry, rw, rh
<1>10. RectDrawn(PutRect(back, w, h, rx, ry, rw, rh, Red), back, w, h, rx, ry, rw, rh, Red)
  BY <1>5, <1>6, <1>7, PutRectPixel
<1>11. \A x \in 0 .. w - 1, y \in 0 .. h - 1 :
         back'[y * w + x] = IF PanicEdge(machine, x, y) THEN Red ELSE back[y * w + x]
  BY <1>8, <1>9, <1>10, Zenon DEF RectDrawn
<1> QED
  BY <1>1, <1>3, <1>4, <1>11 DEF Columns, Rows

\* What kpanic's inner area changes.
LEMMA InnerDraws ==
  ASSUME ShapeInv, PanicInner
  PROVE  /\ machine' = machine /\ front' = front /\ canvas' = canvas
         /\ stage = "panic inner" /\ stage' = "panic box"
         /\ \A x \in Columns, y \in Rows :
              back'[y * machine.width + x] =
                IF PanicArea(machine, x, y) THEN Black ELSE back[y * machine.width + x]
<1>1. /\ machine' = machine /\ front' = front /\ canvas' = canvas
      /\ stage = "panic inner" /\ stage' = "panic box"
  BY DEF PanicInner, At, Goto, KeepButDrawing, targavars
<1>2. stage \in LogoStages
  BY <1>1 DEF LogoStages, PanicStages
<1>3. PICK w \in Nat \ {0} : w = machine.width
  BY <1>2, ScreenFacts
<1>4. PICK h \in Nat \ {0} : h = machine.height
  BY <1>2, ScreenFacts
<1>5. Inside(back, w, h)
  BY <1>2, <1>3, <1>4, ScreenFacts
<1> DEFINE rx == w \div 10
           ry == h \div 10
           rw == (w \div 10) * 8
           rh == (h \div 10) * 8
<1>6. rx \in Nat /\ rw \in Nat /\ rx < w /\ rx + rw <= w
  BY FrameFits
<1>7. ry \in Nat /\ rh \in Nat /\ ry < h /\ ry + rh <= h
  BY FrameFits
<1>8. back' = PutRect(back, w, h, rx, ry, rw, rh, Black)
  BY <1>3, <1>4 DEF PanicInner, Tenth, InnerWidth, InnerHeight
<1>9. \A x, y : PanicArea(machine, x, y) <=> Within(x, y, rx, ry, rw, rh)
  BY <1>3, <1>4 DEF PanicArea
<1> HIDE DEF rx, ry, rw, rh
<1>10. RectDrawn(PutRect(back, w, h, rx, ry, rw, rh, Black), back, w, h, rx, ry, rw, rh, Black)
  BY <1>5, <1>6, <1>7, PutRectPixel
<1>11. \A x \in 0 .. w - 1, y \in 0 .. h - 1 :
         back'[y * w + x] = IF PanicArea(machine, x, y) THEN Black ELSE back[y * w + x]
  BY <1>8, <1>9, <1>10, Zenon DEF RectDrawn
<1> QED
  BY <1>1, <1>3, <1>4, <1>11 DEF Columns, Rows

\* What the scaled text box changes.
LEMMA PanicComposes ==
  ASSUME ShapeInv, CompositePanic,
         Inside(scaled, (machine.width \div 10) * 8, (machine.height \div 10) * 8)
  PROVE  /\ machine' = machine /\ front' = front /\ canvas' = canvas
         /\ stage = "panic composite" /\ stage' = "panic swap"
         /\ \A x \in Columns, y \in Rows :
              back'[y * machine.width + x] =
                IF PanicArea(machine, x, y)
                  THEN scaled[(y - (machine.height \div 10)) * ((machine.width \div 10) * 8)
                                + (x - (machine.width \div 10))]
                  ELSE back[y * machine.width + x]
<1>1. /\ machine' = machine /\ front' = front /\ canvas' = canvas
      /\ stage = "panic composite" /\ stage' = "panic swap"
  BY DEF CompositePanic, At, Goto, KeepButDrawing, targavars
<1>2. stage \in LogoStages
  BY <1>1 DEF LogoStages, PanicStages
<1>3. PICK w \in Nat \ {0} : w = machine.width
  BY <1>2, ScreenFacts
<1>4. PICK h \in Nat \ {0} : h = machine.height
  BY <1>2, ScreenFacts
<1>5. w < 65536 /\ h < 65536
  BY <1>2, <1>3, <1>4, ScreenFacts
<1>6. Inside(back, w, h)
  BY <1>2, <1>3, <1>4, ScreenFacts
<1> DEFINE rx == w \div 10
           ry == h \div 10
           rw == (w \div 10) * 8
           rh == (h \div 10) * 8
<1>7. rx \in Nat /\ rw \in Nat /\ rx + rw <= w
  BY FrameFits
<1>8. ry \in Nat /\ rh \in Nat /\ ry + rh <= h
  BY FrameFits
<1>9. back' = Composite(back, w, h, scaled, rw, rh, rx, ry)
  BY <1>3, <1>4 DEF CompositePanic, Tenth, InnerWidth, InnerHeight
<1>10. \A x, y : PanicArea(machine, x, y) <=> Within(x, y, rx, ry, rw, rh)
  BY <1>3, <1>4 DEF PanicArea
<1>11. Inside(scaled, rw, rh)
  BY <1>1, <1>3, <1>4
<1> HIDE DEF rx, ry, rw, rh
<1>12. Composed(Composite(back, w, h, scaled, rw, rh, rx, ry), back, w, h, scaled, rw, rh,
                rx, ry)
  BY <1>6, <1>7, <1>8, <1>11, <1>5, CompositePixel
<1>13. \A x \in 0 .. w - 1, y \in 0 .. h - 1 :
         back'[y * w + x] =
           IF PanicArea(machine, x, y) THEN scaled[(y - ry) * rw + (x - rx)]
           ELSE back[y * w + x]
  BY <1>9, <1>10, <1>12, Zenon DEF Composed
<1> QED
  BY <1>1, <1>3, <1>4, <1>13 DEF Columns, Rows, rx, ry, rw, rh

\* kpanic draws in the double buffer, and nothing beside its frame.
LEMMA LogoPanics ==
  ASSUME ShapeInv, LogoInv, PanicFrame \/ PanicInner \/ ScalePanic \/ CompositePanic
  PROVE  LogoInv'
<1>1. \A x \in Columns, y \in Rows : x \in Nat /\ y \in Nat
  BY DEF Columns, Rows
<1>2. machine \in Machines
  BY DEF ShapeInv
<1>3. \A x \in Columns, y \in Rows : PanicArea(machine, x, y) => PanicEdge(machine, x, y)
  BY <1>1, <1>2, AreaInEdge
<1>4. CASE PanicFrame
  <2>1. /\ machine' = machine /\ front' = front /\ canvas' = canvas
        /\ stage = "panic frame" /\ stage' = "panic inner"
        /\ \A x \in Columns, y \in Rows :
             back'[y * machine.width + x] =
               IF PanicEdge(machine, x, y) THEN Red ELSE back[y * machine.width + x]
    BY <1>4, FrameDraws
  <2> QED
    BY <2>1 DEF LogoInv, LogoStages, FrameStages, PanicStages, Columns, Rows
<1>5. CASE PanicInner
  <2>1. /\ machine' = machine /\ front' = front /\ canvas' = canvas
        /\ stage = "panic inner" /\ stage' = "panic box"
        /\ \A x \in Columns, y \in Rows :
             back'[y * machine.width + x] =
               IF PanicArea(machine, x, y) THEN Black ELSE back[y * machine.width + x]
    BY <1>5, InnerDraws
  <2> QED
    BY <2>1, <1>3 DEF LogoInv, LogoStages, FrameStages, PanicStages, Columns, Rows
<1>6. CASE ScalePanic
  <2>1. /\ machine' = machine /\ front' = front /\ canvas' = canvas /\ back' = back
        /\ stage = "panic text" /\ stage' = "panic composite"
    BY <1>6 DEF ScalePanic, At, Goto, KeepButDrawing, targavars
  <2>2. PICK down \in Downs : scaled' = Scale(InnerWidth, InnerHeight, box, Box, Box, down)
    BY <1>6 DEF ScalePanic
  <2>3. Inside(scaled', (machine.width \div 10) * 8, (machine.height \div 10) * 8)
    BY <2>2 DEF Scale, Inside, InnerWidth, InnerHeight, Tenth
  <2> QED
    BY <2>1, <2>3 DEF LogoInv, LogoStages, FrameStages, PanicStages, Columns, Rows
<1>7. CASE CompositePanic
  <2>1. /\ machine' = machine /\ front' = front /\ canvas' = canvas
        /\ stage = "panic composite" /\ stage' = "panic swap"
        /\ \A x \in Columns, y \in Rows :
             ~ PanicArea(machine, x, y) =>
                back'[y * machine.width + x] = back[y * machine.width + x]
    <3>1. Inside(scaled, (machine.width \div 10) * 8, (machine.height \div 10) * 8)
      BY <1>7 DEF LogoInv, CompositePanic, At
    <3> QED
      BY <3>1, <1>7, PanicComposes
  <2> QED
    BY <2>1, <1>3 DEF LogoInv, LogoStages, FrameStages, PanicStages, Columns, Rows
<1> QED
  BY <1>4, <1>5, <1>6, <1>7

\* At the start nothing is drawn.
LEMMA LogoStart ==
  ASSUME Init
  PROVE  LogoInv
<1>1. machine \in Machines /\ stage = "serial"
      /\ front = Blank(machine.pitch, machine.height, Garbage)
  BY DEF Init
<1>2. PICK line \in Nat : line = machine.pitch
  BY <1>1, PitchFacts
<1>3. PICK h \in Nat : h = machine.height
  BY <1>1, PitchFacts
<1>4. PICK w \in Nat : w = machine.width
  BY <1>1, PitchFacts
<1>5. \A x \in w .. line - 1, y \in 0 .. h - 1 : y * line + x \in 0 .. line * h - 1
  BY OffsetInside
<1>6. front = Blank(line, h, Garbage)
  BY <1>1, <1>2, <1>3
<1>7. \A x \in w .. line - 1, y \in 0 .. h - 1 : front[y * line + x] = Garbage
  BY <1>5, <1>6 DEF Blank
<1>8. \A x \in machine.width .. machine.pitch - 1, y \in Rows :
        front[y * machine.pitch + x] = Garbage
  BY <1>2, <1>3, <1>4, <1>7, Zenon DEF Rows
<1> QED
  BY <1>1, <1>8 DEF LogoInv, LogoStages, PanicStages

\* Each step of the kernel keeps what holds of the logo.
LEMMA LogoStep ==
  ASSUME ShapeInv, LogoInv, LogoFits(machine), [Next]_vars
  PROVE  LogoInv'
<1>1. CASE UNCHANGED vars
  BY <1>1, LogoQuiet
<1>2. CASE Next
  BY <1>2, LogoQuiet, LogoScales, LogoFills, LogoComposes, LogoSwaps, LogoPanics
     DEF Next, Kmain, Swaps
<1> QED
  BY <1>1, <1>2

\* The places the module Kernel names.
LEMMA KernelPlaces ==
  ASSUME machine \in Machines
  PROVE  /\ LogoSide = SideOn(machine)
         /\ \A x, y : InPanic(x, y, 0) <=> PanicArea(machine, x, y)
         /\ \A x, y : InPanic(x, y, 1) <=> PanicEdge(machine, x, y)
         /\ \A x, y : Pixel(x, y) = front[y * machine.pitch + x]
<1>1. LogoSide = SideOn(machine)
  BY DEF LogoSide, SideOn
<1>2. PICK w \in Nat : w = machine.width
  BY PitchFacts
<1>3. PICK h \in Nat : h = machine.height
  BY PitchFacts
<1>4. ASSUME NEW n \in Nat
      PROVE  /\ (n \div 10) - 0 * (n \div 100) = n \div 10
             /\ (n \div 10) - 1 * (n \div 100) = (n \div 10) - (n \div 100)
             /\ (n \div 10) * 8 + 0 * (n \div 50) = (n \div 10) * 8
             /\ (n \div 10) * 8 + 1 * (n \div 50) = (n \div 10) * 8 + (n \div 50)
  OBVIOUS
<1>5. ASSUME NEW x, NEW y
      PROVE  InPanic(x, y, 0) <=> PanicArea(machine, x, y)
  BY <1>2, <1>3, <1>4, Zenon DEF InPanic, PanicArea, InnerWidth, InnerHeight, Tenth
<1>6. ASSUME NEW x, NEW y
      PROVE  InPanic(x, y, 1) <=> PanicEdge(machine, x, y)
  BY <1>2, <1>3 DEF InPanic, PanicEdge, InnerWidth, InnerHeight, Tenth
<1> QED
  BY <1>1, <1>5, <1>6 DEF Pixel

\* What holds of the logo shows it on the screen.
LEMMA LogoShows ==
  ASSUME ShapeInv, LogoInv
  PROVE  LogoShown
<1> SUFFICES ASSUME stage \in LogoStages
             PROVE  LogoShown
  BY DEF LogoShown
<1>1. machine \in Machines /\ tga = machine.logo
  BY DEF ShapeInv
<1> DEFINE left == (machine.width \div 2) - (LogoSide \div 2)
           top == (machine.height \div 2) - (LogoSide \div 2)
<1>2. left = LogoLeft(machine) /\ top = LogoTop(machine)
  BY <1>1, KernelPlaces DEF LogoLeft, LogoTop
<1>3. ASSUME NEW x \in Columns, NEW y \in Rows
      PROVE  \/ stage = "panic shown" /\ InPanic(x, y, 1)
             \/ IF Within(x, y, left, top, LogoSide, LogoSide)
               THEN ShowsScaled(Pixel(x, y), x - left, y - top, LogoSide, LogoSide,
                                canvas, tga.width, tga.height)
               ELSE Pixel(x, y) = Slate
  <2>1. \/ LogoAt(machine, canvas, x, y, front[y * machine.pitch + x])
        \/ stage = "panic shown" /\ PanicEdge(machine, x, y)
    BY DEF LogoInv
  <2> HIDE DEF left, top
  <2> QED
    BY <2>1, <1>1, <1>2, KernelPlaces, Zenon DEF LogoAt, LogoArea
<1>4. \A x \in machine.width .. machine.pitch - 1, y \in Rows : Pixel(x, y) = Garbage
  BY <1>1, KernelPlaces DEF LogoInv
<1> QED
  BY <1>3, <1>4 DEF LogoShown

\* Once a logo that is a square, or more than half as high as it is shown, has been drawn,
\* the screen keeps showing it, whatever the screen, the picture and the quotients of the
\* floats; a panic covers its own area only.
THEOREM LogoCorrect ==
  ASSUME \A m \in Machines : LogoFits(m)
  PROVE  Spec => []LogoShown
<1>1. Init => LogoInv
  BY LogoStart
<1>2. ShapeInv /\ LogoInv /\ [Next]_vars => LogoInv'
  <2>1. ShapeInv => LogoFits(machine)
    BY DEF ShapeInv
  <2> QED
    BY <2>1, LogoStep
<1>3. ShapeInv /\ LogoInv => LogoShown
  BY LogoShows
<1>4. Spec => []ShapeInv
  BY ShapeCorrect
<1> QED
  BY <1>1, <1>2, <1>3, <1>4, PTL DEF Spec

-----------------------------------------------------------------------------
(* The panic on the screen.                                                *)

\* The characters that fit into a line, in a font f.
PerLineOf(f) ==
  CHOOSE n \in 1 .. Box :
    LET fits(m) == (m + 2) * f.width + m < Box
    IN  ~ fits(n) /\ \A m \in 1 .. n - 1 : fits(m)

\* Where put_str draws the character after the first n ones.
PenX(f, n) == f.width + (n % PerLineOf(f)) * (f.width + 1)
PenY(f, row, n) == f.height * row + (n \div PerLineOf(f)) * f.height

\* A pixel is lit for a character, or for one of the first n ones of a text.
GlyphLit(f, char, px, py, x, y) ==
  Within(x, y, px, py, f.width, f.height) /\ Lit(f, char, y - py, x - px)
TextLit(f, str, n, row, x, y) ==
  \E k \in 1 .. n : GlyphLit(f, str[k], PenX(f, k - 1), PenY(f, row, k - 1), x, y)

\* The text box shows the first n characters of the first text and the first k of the second.
BoxShows(f, n, k, c) ==
  \A x \in 0 .. Box - 1, y \in 0 .. Box - 1 :
    c[y * Box + x] =
      IF TextLit(f, Prefix, n, 1, x, y) \/ TextLit(f, NoPointer, k, 3, x, y) THEN Red ELSE Black

\* put_str has drawn n characters of a text in a row, has the others still to draw, and has
\* its pen at the place of the next one.
HasDrawn(f, str, row, n, rest, at) ==
  /\ Len(rest) = Len(str) - n
  /\ \A i \in 1 .. Len(rest) : rest[i] = str[n + i]
  /\ at.x = PenX(f, n) /\ at.y = PenY(f, row, n)

PanicInv ==
  /\ stage = "panic prefix" =>
       \E n \in Nat :
         HasDrawn(machine.font, Prefix, 1, n, text, pen) /\ BoxShows(machine.font, n, 0, box)
  /\ stage = "panic text" =>
       \E n \in Nat :
         HasDrawn(machine.font, NoPointer, 3, n, text, pen) /\ BoxShows(machine.font, 2, n, box)
  /\ stage \in {"panic composite", "panic swap", "panic shown"} => BoxShows(machine.font, 2, 3, box)
  /\ stage = "panic composite" =>
       /\ Inside(scaled, (machine.width \div 10) * 8, (machine.height \div 10) * 8)
       /\ \A x \in 0 .. (machine.width \div 10) * 8 - 1, y \in 0 .. (machine.height \div 10) * 8 - 1 :
            ShowsScaled(scaled[y * ((machine.width \div 10) * 8) + x], x, y,
                        (machine.width \div 10) * 8, (machine.height \div 10) * 8, box, Box, Box)
  /\ stage \in FrameStages =>
       \A x \in Columns, y \in Rows :
         PanicEdge(machine, x, y) /\ ~ PanicArea(machine, x, y) =>
            back[y * machine.width + x] = Red
  /\ stage \in {"panic swap", "panic shown"} =>
       \A x \in Columns, y \in Rows :
         PanicArea(machine, x, y) =>
            ShowsScaled(back[y * machine.width + x], x - (machine.width \div 10),
                        y - (machine.height \div 10),
                        (machine.width \div 10) * 8, (machine.height \div 10) * 8, box, Box, Box)
  /\ stage = "panic shown" =>
       \A x \in Columns, y \in Rows : front[y * machine.pitch + x] = back[y * machine.width + x]

\* What is assumed of a font.
FontSound(f) ==
  /\ f.width \in Nat \ {0} /\ f.height \in Nat \ {0} /\ 2 * f.width <= Box
  /\ Box \in Nat \ {0} /\ Box < 65536

\* A line holds a character or more, and not many more than the box is wide.
LEMMA PerLineFacts ==
  ASSUME NEW f, FontSound(f)
  PROVE  /\ PerLineOf(f) \in Nat \ {0}
         /\ (PerLineOf(f) + 2) * f.width + PerLineOf(f) >= Box
         /\ \A m \in Nat \ {0} : m < PerLineOf(f) => (m + 2) * f.width + m < Box
<1> DEFINE fits(m) == (m + 2) * f.width + m < Box
           full == {n \in 1 .. Box : ~ fits(n)}
<1>1. PICK w \in Nat : w = f.width
  BY DEF FontSound
<1>2. Box \in Nat \ {0}
  BY DEF FontSound
<1>3. Box \in full
  <2>1. (Box + 2) * w \in Nat
    BY <1>2, ProductNatural
  <2> QED
    BY <2>1, <1>1, <1>2
<1>4. full \in SUBSET Nat /\ full # {}
  BY <1>2, <1>3
<1>5. PICK n \in full : \A m \in full : n <= m
  <2> HIDE DEF full
  <2> QED
    BY <1>4, LeastNatural
<1>6. n \in 1 .. Box /\ ~ fits(n) /\ \A m \in 1 .. n - 1 : fits(m)
  BY <1>2, <1>5
<1>7. /\ PerLineOf(f) \in 1 .. Box
      /\ ~ fits(PerLineOf(f)) /\ \A m \in 1 .. PerLineOf(f) - 1 : fits(m)
  BY <1>6 DEF PerLineOf
<1>8. PICK p \in Nat \ {0} : p = PerLineOf(f)
  BY <1>7
<1>9. (p + 2) * w \in Nat
  BY ProductNatural
<1>10. (p + 2) * w + p >= Box
  BY <1>1, <1>2, <1>7, <1>8, <1>9
<1>11. \A m \in Nat \ {0} : m < p => m \in 1 .. p - 1
  OBVIOUS
<1> QED
  BY <1>1, <1>7, <1>8, <1>10, <1>11

\* Where the pen is, is a place.
LEMMA PenFacts ==
  ASSUME NEW f, FontSound(f), NEW n \in Nat, NEW row \in Nat
  PROVE  PenX(f, n) \in Nat /\ PenY(f, row, n) \in Nat
<1>1. PICK p \in Nat \ {0} : p = PerLineOf(f)
  BY PerLineFacts
<1>2. n % p \in Nat /\ n \div p \in Nat
  BY Division
<1>3. PICK w \in Nat : w = f.width
  BY DEF FontSound
<1>4. PICK h \in Nat : h = f.height
  BY DEF FontSound
<1>5. (n % p) * (w + 1) \in Nat /\ (n \div p) * h \in Nat /\ h * row \in Nat
  BY <1>2, ProductNatural
<1>6. w + (n % p) * (w + 1) \in Nat /\ h * row + (n \div p) * h \in Nat
  BY <1>5
<1> QED
  BY <1>1, <1>3, <1>4, <1>6 DEF PenX, PenY

\* One character more: in the same line, or at the start of the next one.
LEMMA NextColumnOrLine ==
  ASSUME NEW p \in Nat \ {0}, NEW n \in Nat
  PROVE  IF (n % p) + 1 < p
           THEN (n + 1) % p = (n % p) + 1 /\ (n + 1) \div p = n \div p
           ELSE (n % p) + 1 = p /\ (n + 1) % p = 0 /\ (n + 1) \div p = (n \div p) + 1
<1>1. PICK c \in 0 .. p - 1 : c = n % p
  BY Division
<1>2. PICK q \in Nat : q = n \div p
  BY Division
<1>3. n = p * q + c
  BY <1>1, <1>2, Division
<1>4. CASE c + 1 < p
  <2>1. (p * q + (c + 1)) \div p = q /\ (p * q + (c + 1)) % p = c + 1
    BY <1>4, QuotientUnique
  <2>2. n + 1 = p * q + (c + 1)
    BY <1>3
  <2> QED
    BY <2>1, <2>2, <1>1, <1>2, <1>4
<1>5. CASE ~ (c + 1 < p)
  <2>1. c + 1 = p
    BY <1>5
  <2>2. (p * (q + 1) + 0) \div p = q + 1 /\ (p * (q + 1) + 0) % p = 0
    BY QuotientUnique
  <2>3. n + 1 = p * (q + 1) + 0
    BY <1>3, <2>1
  <2> QED
    BY <2>1, <2>2, <2>3, <1>1, <1>2, <1>5
<1> QED
  BY <1>4, <1>5

\* put_str moves the pen to the place of the next character.
LEMMA PenMoves ==
  ASSUME NEW f, FontSound(f), NEW n \in Nat, NEW row \in Nat,
         NEW at, at.x = PenX(f, n), at.y = PenY(f, row, n), at.y + f.height <= Box
  PROVE  LET next == NextCursor(at, f, f.width, Box)
         IN  next.x = PenX(f, n + 1) /\ next.y = PenY(f, row, n + 1)
<1>1. PICK p \in Nat \ {0} : p = PerLineOf(f)
  BY PerLineFacts
<1>2. PICK w \in Nat \ {0} : w = f.width
  BY DEF FontSound
<1>3. PICK h \in Nat \ {0} : h = f.height
  BY DEF FontSound
<1>4. PICK c \in 0 .. p - 1 : c = n % p
  BY Division
<1>5. PICK q \in Nat : q = n \div p
  BY Division
<1>6. PICK e \in Nat : e = c * w
  BY ProductNatural
<1>7. PICK g \in Nat : g = h * row + q * h
  BY ProductNatural
<1>8. /\ at.x = w + e + c /\ at.y = g
  <2>1. at.x = w + c * (w + 1) /\ at.y = h * row + q * h
    BY <1>1, <1>2, <1>3, <1>4, <1>5 DEF PenX, PenY
  <2>2. c * (w + 1) = e + c
    BY <1>6
  <2> QED
    BY <2>1, <2>2, <1>7
<1>9. /\ 2 * w <= Box /\ Box \in Nat /\ Box < 65536
  BY <1>2 DEF FontSound
<1>10. g + h < 65536
  BY <1>3, <1>8, <1>9
<1>11. (p + 2) * w + p >= Box /\ \A m \in Nat \ {0} : m < p => (m + 2) * w + m < Box
  BY <1>1, <1>2, PerLineFacts
<1>12. \A m \in Nat : (m + 2) * w = m * w + 2 * w
  OBVIOUS
<1>13. (w + e + c) + w + 1 < 65536
  <2>1. CASE c = 0
    BY <2>1, <1>6, <1>9
  <2>2. CASE c # 0
    <3>1. (c + 2) * w + c < Box
      BY <2>2, <1>11
    <3> QED
      BY <3>1, <1>6, <1>9, <1>12
  <2> QED
    BY <2>1, <2>2
<1> DEFINE right == (w + e + c) + w + 1
<1>14. U16(at.x + f.width + 1) = right
  BY <1>2, <1>8, <1>13 DEF U16
<1>15. U16(at.y + f.height) = g + h
  BY <1>3, <1>8, <1>10 DEF U16
<1>16. NextCursor(at, f, f.width, Box) =
         IF right + w >= Box THEN [x |-> w, y |-> g + h] ELSE [x |-> right, y |-> g]
  BY <1>2, <1>8, <1>14, <1>15, Zenon DEF NextCursor
<1>17. right + w = (c + 1) * w + 2 * w + (c + 1) /\ (c + 1) * w = e + w
  BY <1>6
<1>18. right + w = ((c + 1) + 2) * w + (c + 1)
  BY <1>12, <1>17
<1>19. CASE c + 1 < p
  <2>1. ~ (right + w >= Box)
    <3>1. PICK z \in Nat : z = right + w
      BY <1>2, <1>4, <1>6
    <3>2. c + 1 \in Nat \ {0}
      BY <1>4
    <3>3. ((c + 1) + 2) * w + (c + 1) < Box
      BY <3>2, <1>11, <1>19
    <3>4. z < Box
      BY <3>1, <3>3, <1>18, Zenon
    <3> QED
      BY <3>1, <3>4, <1>9
  <2>2. (n + 1) % p = c + 1 /\ (n + 1) \div p = q
    BY <1>4, <1>5, <1>19, NextColumnOrLine
  <2>3. PenX(f, n + 1) = w + (c + 1) * (w + 1) /\ PenY(f, row, n + 1) = h * row + q * h
    BY <2>2, <1>1, <1>2, <1>3 DEF PenX, PenY
  <2>4. w + (c + 1) * (w + 1) = right
    BY <1>6
  <2> QED
    BY <2>1, <2>3, <2>4, <1>7, <1>16
<1>20. CASE ~ (c + 1 < p)
  <2>1. c + 1 = p /\ (n + 1) % p = 0 /\ (n + 1) \div p = q + 1
    BY <1>4, <1>5, <1>20, NextColumnOrLine
  <2>2. right + w >= Box
    BY <2>1, <1>11, <1>18
  <2>3. PenX(f, n + 1) = w + 0 * (w + 1) /\ PenY(f, row, n + 1) = h * row + (q + 1) * h
    BY <2>1, <1>1, <1>2, <1>3 DEF PenX, PenY
  <2>4. w + 0 * (w + 1) = w /\ h * row + (q + 1) * h = g + h
    BY <1>7
  <2> QED
    BY <2>2, <2>3, <2>4, <1>16
<1> QED
  BY <1>19, <1>20

\* put_char, on a transparent background, lights the pixels of the glyph and keeps the others.
LEMMA PutCharPixel ==
  ASSUME NEW w \in Nat, NEW h \in Nat, NEW c, Inside(c, w, h),
         NEW f, f.width \in Nat, f.height \in Nat, NEW char,
         NEW px \in Nat, NEW py \in Nat, px + f.width <= w, py + f.height <= h,
         NEW x \in 0 .. w - 1, NEW y \in 0 .. h - 1
  PROVE  PutChar(c, w, f, char, px, py, Red, Transparent)[y * w + x] =
           IF GlyphLit(f, char, px, py, x, y) THEN Red ELSE c[y * w + x]
<1> DEFINE target == py * w + px
           column(o, i) == o - (target + i * w)
           colour(o, i) == IF Lit(f, char, i, column(o, i)) THEN Red ELSE Transparent
           rows(o) == {i \in 0 .. f.height - 1 :
                         column(o, i) \in 0 .. f.width - 1 /\ colour(o, i) # Transparent}
           last(o) == CHOOSE i \in rows(o) : \A k \in rows(o) : k <= i
           o == y * w + x
<1>1. o \in DOMAIN c
  BY OffsetInside DEF Inside
<1>2. PutChar(c, w, f, char, px, py, Red, Transparent)[o] =
        IF rows(o) = {} THEN c[o] ELSE colour(o, last(o))
  BY <1>1 DEF PutChar
<1>3. Red # Transparent
  BY DEF Red, Transparent
<1>4. PICK fw \in Nat : fw = f.width
  OBVIOUS
<1>5. PICK fh \in Nat : fh = f.height
  OBVIOUS
<1>6. ASSUME NEW i \in 0 .. fh - 1
      PROVE  /\ y * w \in Nat /\ (py + i) * w \in Nat
             /\ column(o, i) = (y * w + x) - ((py + i) * w + px)
  <2>1. y * w \in Nat /\ py * w \in Nat /\ i * w \in Nat /\ (py + i) * w = py * w + i * w
    BY ProductNatural
  <2> QED
    BY <2>1
<1>7. ASSUME NEW i \in 0 .. fh - 1, column(o, i) \in 0 .. fw - 1
      PROVE  x = px + column(o, i) /\ y = py + i
  <2> DEFINE k == column(o, i)
  <2>1. k \in 0 .. fw - 1 /\ y * w + x = (py + i) * w + (px + k)
    BY <1>6, <1>7
  <2> HIDE DEF k
  <2>2. px + k \in 0 .. w - 1 /\ py + i \in Nat
    BY <2>1, <1>4
  <2>3. x = px + k /\ y = py + i
    BY <2>1, <2>2, SameOffset
  <2> QED
    BY <2>3 DEF k
<1>8. CASE GlyphLit(f, char, px, py, x, y)
  <2>1. y - py \in 0 .. fh - 1 /\ x - px \in 0 .. fw - 1 /\ Lit(f, char, y - py, x - px)
    BY <1>4, <1>5, <1>8 DEF GlyphLit, Within
  <2>2. column(o, y - py) = x - px
    <3>1. py + (y - py) = y
      BY <2>1
    <3>2. column(o, y - py) = (y * w + x) - (y * w + px) /\ y * w \in Nat
      BY <2>1, <3>1, <1>6
    <3> QED
      BY <3>2
  <2>3. y - py \in rows(o)
    BY <2>1, <2>2, <1>3, <1>4, <1>5
  <2>4. \A i \in rows(o) : i = y - py
    BY <1>4, <1>5, <1>7
  <2>5. last(o) = y - py
    BY <2>1, <2>3, <2>4
  <2>6. colour(o, y - py) = Red
    BY <2>1, <2>2
  <2> QED
    BY <2>3, <2>5, <2>6, <1>2, <1>8
<1>9. CASE ~ GlyphLit(f, char, px, py, x, y)
  <2>1. ASSUME NEW i \in rows(o)
        PROVE  FALSE
    <3>1. i \in 0 .. fh - 1 /\ column(o, i) \in 0 .. fw - 1 /\ Lit(f, char, i, column(o, i))
      BY <1>4, <1>5
    <3>2. x = px + column(o, i) /\ y = py + i
      BY <3>1, <1>7
    <3> HIDE DEF column, o
    <3>3. i = y - py /\ column(o, i) = x - px
      BY <3>1, <3>2
    <3>4. Within(x, y, px, py, fw, fh)
      BY <3>1, <3>2 DEF Within
    <3> QED
      BY <3>1, <3>3, <3>4, <1>4, <1>5, <1>9 DEF GlyphLit
  <2> QED
    BY <2>1, <1>2, <1>9
<1> QED
  BY <1>8, <1>9

\* No character is drawn at first, then one more at a time.
LEMMA TextEmpty ==
  ASSUME NEW f, NEW str, NEW row, NEW x, NEW y
  PROVE  ~ TextLit(f, str, 0, row, x, y)
BY DEF TextLit

\* A character more of a text is drawn.
LEMMA TextGrows ==
  ASSUME NEW f, NEW str, NEW n \in Nat, NEW row, NEW x, NEW y
  PROVE  TextLit(f, str, n + 1, row, x, y) <=>
           \/ TextLit(f, str, n, row, x, y)
           \/ GlyphLit(f, str[n + 1], PenX(f, n), PenY(f, row, n), x, y)
<1>1. 1 .. n + 1 = (1 .. n) \cup {n + 1} /\ (n + 1) - 1 = n
  OBVIOUS
<1> QED
  BY <1>1, Zenon DEF TextLit

\* The fonts of the machines.
LEMMA FontFacts ==
  ASSUME NEW m \in Machines
  PROVE  FontSound(m.font)
BY MachineFacts DEF FontSound

\* A glyph is drawn into the text box.
AddsGlyph(f, char, px, py, before, after) ==
  \A x \in 0 .. Box - 1, y \in 0 .. Box - 1 :
    after[y * Box + x] = IF GlyphLit(f, char, px, py, x, y) THEN Red ELSE before[y * Box + x]

\* put_str draws its next character at the pen, and nothing else.
LEMMA CharDrawn ==
  ASSUME ShapeInv, PanicChar, NEW str, str \in Seq(Nat), NEW row \in Nat, NEW n \in Nat,
         HasDrawn(machine.font, str, row, n, text, pen)
  PROVE  /\ HasDrawn(machine.font, str, row, n + 1, text', pen')
         /\ AddsGlyph(machine.font, str[n + 1], PenX(machine.font, n),
                      PenY(machine.font, row, n), box, box')
<1>1. stage \in {"panic prefix", "panic text"} /\ text # << >>
  BY DEF PanicChar, At
<1>2. machine \in Machines /\ font = machine.font /\ Inside(box, Box, Box)
  BY <1>1 DEF ShapeInv, FontStages, LogoStages, PanicStages, BoxStages
<1>3. PICK f : f = machine.font
  OBVIOUS
<1>4. /\ FontSound(f) /\ f.width \in Nat /\ f.height \in Nat /\ Box \in Nat
  BY <1>2, <1>3, FontFacts DEF FontSound
<1>5. /\ text \in Seq(Nat) /\ pen.x \in Nat /\ pen.y \in Nat
      /\ pen.x + f.width <= Box
      /\ pen.y + Len(text) * f.height <= Box
  <2>1. /\ text \in Seq(Nat) /\ pen.x \in Nat /\ pen.y \in Nat
        /\ pen.x + font.width <= Box
        /\ pen.y + Len(text) * font.height <= Box
    BY <1>1, PenRoom, Zenon
  <2> QED
    BY <2>1, <1>2, <1>3, Zenon
<1>6. PICK m \in Nat : Len(text) = m + 1
  <2>1. Len(text) \in Nat /\ Len(text) # 0
    BY <1>1, <1>5, EmptySeq
  <2>2. Len(text) - 1 \in Nat /\ Len(text) = (Len(text) - 1) + 1
    BY <2>1
  <2> QED
    BY <2>2
<1>7. pen.y + f.height <= Box
  <2>1. pen.y + (m + 1) * f.height <= Box
    BY <1>5, <1>6, Zenon
  <2> QED
    BY <2>1, <1>4, <1>5, LinesFit
<1>8. /\ Len(text) = Len(str) - n
      /\ \A i \in 1 .. Len(text) : text[i] = str[n + i]
      /\ pen.x = PenX(f, n) /\ pen.y = PenY(f, row, n)
  BY <1>3 DEF HasDrawn
<1>9. text[1] = str[n + 1]
  BY <1>6, <1>8
<1>10. /\ text' = Tail(text) /\ pen' = NextCursor(pen, f, f.width, Box)
       /\ box' = PutChar(box, Box, f, str[n + 1], pen.x, pen.y, Red, Transparent)
  BY <1>2, <1>3, <1>9 DEF PanicChar
<1>11. Len(text') = m /\ \A i \in 1 .. m : text'[i] = text[i + 1]
  <2>1. PICK rest : rest = Tail(text)
    OBVIOUS
  <2>2. Len(rest) = Len(text) - 1 /\ \A i \in 1 .. Len(rest) : rest[i] = text[i + 1]
    BY <2>1, <1>1, <1>5, HeadTailProperties
  <2>3. (m + 1) - 1 = m
    OBVIOUS
  <2>4. Len(rest) = m
    BY <2>2, <2>3, <1>6, Zenon
  <2>5. text' = rest
    BY <2>1, <1>10
  <2> QED
    BY <2>2, <2>4, <2>5, Zenon
<1>12. /\ Len(text') = Len(str) - (n + 1)
       /\ \A i \in 1 .. Len(text') : text'[i] = str[(n + 1) + i]
  <2>1. PICK k \in Nat : k = Len(str)
    BY LenProperties
  <2>4. k - n = m + 1
    BY <2>1, <1>6, <1>8, Zenon
  <2>5. m = k - (n + 1)
    BY <2>4
  <2>2. Len(text') = Len(str) - (n + 1)
    BY <2>1, <2>5, <1>11, Zenon
  <2>3. ASSUME NEW i \in 1 .. m
        PROVE  text'[i] = str[(n + 1) + i]
    <3>1. i + 1 \in 1 .. m + 1 /\ n + (i + 1) = (n + 1) + i
      OBVIOUS
    <3>2. text[i + 1] = str[n + (i + 1)]
      BY <3>1, <1>6, <1>8, Zenon
    <3> QED
      BY <3>1, <3>2, <1>11, Zenon
  <2> QED
    BY <2>2, <2>3, <1>11
<1>13. pen'.x = PenX(f, n + 1) /\ pen'.y = PenY(f, row, n + 1)
  <2>1. PICK at : at = pen
    OBVIOUS
  <2>2. at.x = PenX(f, n) /\ at.y = PenY(f, row, n) /\ at.y + f.height <= Box
    BY <2>1, <1>7, <1>8, Zenon
  <2>3. /\ NextCursor(at, f, f.width, Box).x = PenX(f, n + 1)
        /\ NextCursor(at, f, f.width, Box).y = PenY(f, row, n + 1)
    BY <2>2, <1>4, PenMoves
  <2> QED
    BY <2>1, <2>3, <1>10, Zenon
<1>14. ASSUME NEW x \in 0 .. Box - 1, NEW y \in 0 .. Box - 1
       PROVE  box'[y * Box + x] =
                IF GlyphLit(f, str[n + 1], PenX(f, n), PenY(f, row, n), x, y)
                  THEN Red ELSE box[y * Box + x]
  <2>1. PutChar(box, Box, f, str[n + 1], pen.x, pen.y, Red, Transparent)[y * Box + x] =
          IF GlyphLit(f, str[n + 1], pen.x, pen.y, x, y) THEN Red ELSE box[y * Box + x]
    <3>1. PICK px \in Nat : px = pen.x
      BY <1>5
    <3>2. PICK py \in Nat : py = pen.y
      BY <1>5
    <3>3. px + f.width <= Box /\ py + f.height <= Box
      BY <3>1, <3>2, <1>5, <1>7, Zenon
    <3>4. PutChar(box, Box, f, str[n + 1], px, py, Red, Transparent)[y * Box + x] =
            IF GlyphLit(f, str[n + 1], px, py, x, y) THEN Red ELSE box[y * Box + x]
      BY <3>3, <1>2, <1>4, PutCharPixel
    <3> QED
      BY <3>1, <3>2, <3>4, Zenon
  <2> QED
    BY <2>1, <1>8, <1>10, Zenon
<1>15. AddsGlyph(f, str[n + 1], PenX(f, n), PenY(f, row, n), box, box')
  BY <1>14 DEF AddsGlyph
<1>16. HasDrawn(f, str, row, n + 1, text', pen')
  BY <1>12, <1>13 DEF HasDrawn
<1> QED
  BY <1>3, <1>15, <1>16, Zenon

\* A text box that shows n and k characters shows one more when a character has been drawn.
LEMMA BoxGrows ==
  ASSUME NEW f, NEW n \in Nat, NEW k \in Nat, NEW before, NEW after, BoxShows(f, n, k, before)
  PROVE  /\ AddsGlyph(f, Prefix[n + 1], PenX(f, n), PenY(f, 1, n), before, after)
              => BoxShows(f, n + 1, k, after)
         /\ AddsGlyph(f, NoPointer[k + 1], PenX(f, k), PenY(f, 3, k), before, after)
              => BoxShows(f, n, k + 1, after)
<1>1. \A x, y : TextLit(f, Prefix, n + 1, 1, x, y) <=>
                  \/ TextLit(f, Prefix, n, 1, x, y)
                  \/ GlyphLit(f, Prefix[n + 1], PenX(f, n), PenY(f, 1, n), x, y)
  BY TextGrows
<1>2. \A x, y : TextLit(f, NoPointer, k + 1, 3, x, y) <=>
                  \/ TextLit(f, NoPointer, k, 3, x, y)
                  \/ GlyphLit(f, NoPointer[k + 1], PenX(f, k), PenY(f, 3, k), x, y)
  BY TextGrows
<1>3. \A x \in 0 .. Box - 1, y \in 0 .. Box - 1 :
        before[y * Box + x] =
          IF TextLit(f, Prefix, n, 1, x, y) \/ TextLit(f, NoPointer, k, 3, x, y)
            THEN Red ELSE Black
  BY DEF BoxShows
<1>4. ASSUME AddsGlyph(f, Prefix[n + 1], PenX(f, n), PenY(f, 1, n), before, after)
      PROVE  BoxShows(f, n + 1, k, after)
  BY <1>1, <1>3, <1>4, Zenon DEF BoxShows, AddsGlyph
<1>5. ASSUME AddsGlyph(f, NoPointer[k + 1], PenX(f, k), PenY(f, 3, k), before, after)
      PROVE  BoxShows(f, n, k + 1, after)
  BY <1>2, <1>3, <1>5, Zenon DEF BoxShows, AddsGlyph
<1> QED
  BY <1>4, <1>5

\* A character of one of the two texts is drawn into the box.
LEMMA PanicWrites ==
  ASSUME ShapeInv, PanicInv, PanicChar
  PROVE  PanicInv'
<1>1. /\ machine' = machine /\ stage' = stage
      /\ stage \in {"panic prefix", "panic text"} /\ back' = back
  BY DEF PanicChar, At, KeepButDrawing
<1>2. \/ stage = "panic prefix" /\ stage # "panic text"
      \/ stage = "panic text" /\ stage # "panic prefix"
  BY <1>1
<1>3. CASE stage = "panic prefix"
  <2>1. PICK n \in Nat :
          HasDrawn(machine.font, Prefix, 1, n, text, pen) /\ BoxShows(machine.font, n, 0, box)
    BY <1>3 DEF PanicInv
  <2>2. /\ HasDrawn(machine.font, Prefix, 1, n + 1, text', pen')
        /\ AddsGlyph(machine.font, Prefix[n + 1], PenX(machine.font, n),
                     PenY(machine.font, 1, n), box, box')
    <3>1. Prefix \in Seq(Nat) /\ NoPointer \in Seq(Nat)
      BY TextsFit
    <3>2. 1 \in Nat /\ 3 \in Nat
      OBVIOUS
    <3> QED
      BY <2>1, <3>1, <3>2, CharDrawn, Zenon
  <2>3. BoxShows(machine.font, n + 1, 0, box')
    <3>1. 0 \in Nat /\ 2 \in Nat
      OBVIOUS
    <3> QED
      BY <2>1, <2>2, <3>1, BoxGrows, Zenon
  <2>4. n + 1 \in Nat
    OBVIOUS
  <2> QED
    BY <2>2, <2>3, <2>4, <1>1, <1>3 DEF PanicInv, Columns, Rows, FrameStages, PanicStages
<1>4. CASE stage = "panic text"
  <2>1. PICK n \in Nat :
          HasDrawn(machine.font, NoPointer, 3, n, text, pen) /\ BoxShows(machine.font, 2, n, box)
    BY <1>4 DEF PanicInv
  <2>2. /\ HasDrawn(machine.font, NoPointer, 3, n + 1, text', pen')
        /\ AddsGlyph(machine.font, NoPointer[n + 1], PenX(machine.font, n),
                     PenY(machine.font, 3, n), box, box')
    <3>1. Prefix \in Seq(Nat) /\ NoPointer \in Seq(Nat)
      BY TextsFit
    <3>2. 1 \in Nat /\ 3 \in Nat
      OBVIOUS
    <3> QED
      BY <2>1, <3>1, <3>2, CharDrawn, Zenon
  <2>3. BoxShows(machine.font, 2, n + 1, box')
    <3>1. 0 \in Nat /\ 2 \in Nat
      OBVIOUS
    <3> QED
      BY <2>1, <2>2, <3>1, BoxGrows, Zenon
  <2>4. n + 1 \in Nat
    OBVIOUS
  <2> QED
    BY <2>2, <2>3, <2>4, <1>1, <1>4 DEF PanicInv, Columns, Rows, FrameStages, PanicStages
<1> QED
  BY <1>1, <1>3, <1>4

\* put_str starts one glyph's width from the left.
LEMMA PenStarts ==
  ASSUME NEW f, FontSound(f), NEW row \in Nat, NEW str, Len(str) \in Nat
  PROVE  HasDrawn(f, str, row, 0, str, [x |-> f.width, y |-> f.height * row])
<1>1. PICK p \in Nat \ {0} : p = PerLineOf(f)
  BY PerLineFacts
<1>2. (p * 0 + 0) \div p = 0 /\ (p * 0 + 0) % p = 0 /\ p * 0 + 0 = 0
  BY <1>1, QuotientUnique
<1>3. 0 % PerLineOf(f) = 0 /\ 0 \div PerLineOf(f) = 0
  BY <1>1, <1>2
<1>4. PICK w \in Nat : w = f.width
  BY DEF FontSound
<1>5. PICK h \in Nat : h = f.height
  BY DEF FontSound
<1>6. PICK g \in Nat : g = h * row
  BY ProductNatural
<1>7. w + 0 * (w + 1) = w /\ g + 0 * h = g
  OBVIOUS
<1>8. PenX(f, 0) = w /\ PenY(f, row, 0) = g
  BY <1>3, <1>4, <1>5, <1>6, <1>7, Zenon DEF PenX, PenY
<1>9. Len(str) = Len(str) - 0 /\ \A i \in 1 .. Len(str) : 0 + i = i
  OBVIOUS
<1> QED
  BY <1>4, <1>5, <1>6, <1>8, <1>9 DEF HasDrawn

\* The text box begins empty.
LEMMA PanicStarts ==
  ASSUME ShapeInv, PanicInv, PanicBox
  PROVE  PanicInv'
<1>1. /\ machine' = machine /\ stage = "panic box" /\ stage' = "panic prefix" /\ back' = back
  BY DEF PanicBox, At, Goto, KeepButDrawing
<1>2. machine \in Machines /\ font = machine.font
  BY <1>1 DEF ShapeInv, FontStages, LogoStages, PanicStages
<1>3. PICK f : f = machine.font
  OBVIOUS
<1>4. FontSound(f) /\ Box \in Nat \ {0}
  BY <1>2, <1>3, FontFacts DEF FontSound
<1>5. HasDrawn(f, Prefix, 1, 0, text', pen')
  <2>1. text' = Prefix /\ pen' = [x |-> f.width, y |-> f.height * 1]
    BY <1>2, <1>3 DEF PanicBox, PutStr
  <2>2. Len(Prefix) \in Nat
    BY TextsFit
  <2>3. HasDrawn(f, Prefix, 1, 0, Prefix, [x |-> f.width, y |-> f.height * 1])
    BY <2>2, <1>4, PenStarts
  <2> QED
    BY <2>1, <2>3
<1>6. ASSUME NEW x \in 0 .. Box - 1, NEW y \in 0 .. Box - 1
      PROVE  box'[y * Box + x] = Black
  <2>1. Inside(Blank(Box, Box, Garbage), Box, Box)
    BY DEF Blank, Inside
  <2>2. RectDrawn(PutRect(Blank(Box, Box, Garbage), Box, Box, 0, 0, Box, Box, Black),
                  Blank(Box, Box, Garbage), Box, Box, 0, 0, Box, Box, Black)
    BY <2>1, <1>4, PutRectPixel
  <2>3. Within(x, y, 0, 0, Box, Box)
    BY <1>4 DEF Within
  <2>4. box' = PutRect(Blank(Box, Box, Garbage), Box, Box, 0, 0, Box, Box, Black)
    BY DEF PanicBox
  <2> QED
    BY <2>2, <2>3, <2>4 DEF RectDrawn
<1>7. BoxShows(f, 0, 0, box')
  BY <1>6, TextEmpty DEF BoxShows
<1> QED
  BY <1>1, <1>3, <1>5, <1>7 DEF PanicInv, Columns, Rows, FrameStages, PanicStages

\* The second text begins after the first.
LEMMA PanicContinues ==
  ASSUME ShapeInv, PanicInv, PanicText
  PROVE  PanicInv'
<1>1. /\ machine' = machine /\ stage = "panic prefix" /\ stage' = "panic text" /\ back' = back
      /\ box' = box /\ text = << >>
  BY DEF PanicText, At, Goto, KeepButDrawing
<1>2. machine \in Machines /\ font = machine.font
  BY <1>1 DEF ShapeInv, FontStages, LogoStages, PanicStages
<1>3. PICK f : f = machine.font
  OBVIOUS
<1>4. FontSound(f)
  BY <1>2, <1>3, FontFacts
<1>5. HasDrawn(f, NoPointer, 3, 0, text', pen')
  <2>1. text' = NoPointer /\ pen' = [x |-> f.width, y |-> f.height * 3]
    BY <1>2, <1>3 DEF PanicText, PutStr
  <2>2. Len(NoPointer) \in Nat
    BY TextsFit
  <2>3. HasDrawn(f, NoPointer, 3, 0, NoPointer, [x |-> f.width, y |-> f.height * 3])
    BY <2>2, <1>4, PenStarts
  <2> QED
    BY <2>1, <2>3
<1>6. BoxShows(f, 2, 0, box)
  <2>1. PICK n \in Nat : HasDrawn(f, Prefix, 1, n, text, pen) /\ BoxShows(f, n, 0, box)
    BY <1>1, <1>3 DEF PanicInv
  <2>2. Len(text) = 0
    BY <1>1
  <2>3. 0 = 2 - n
    BY <2>1, <2>2, TextsFit DEF HasDrawn
  <2>4. n = 2
    BY <2>3
  <2> QED
    BY <2>1, <2>4
<1> QED
  BY <1>1, <1>3, <1>5, <1>6 DEF PanicInv, Columns, Rows, FrameStages, PanicStages

\* The scaled text box shows the two texts.
LEMMA PanicScales ==
  ASSUME ShapeInv, PanicInv, ScalePanic
  PROVE  PanicInv'
<1>1. /\ machine' = machine /\ stage = "panic text" /\ stage' = "panic composite" /\ back' = back
      /\ box' = box /\ text = << >>
  BY DEF ScalePanic, At, Goto, KeepButDrawing
<1>2. machine \in Machines /\ Inside(box, Box, Box)
  BY <1>1 DEF ShapeInv, BoxStages, PanicStages
<1>3. BoxShows(machine.font, 2, 3, box)
  <2>1. PICK n \in Nat :
          HasDrawn(machine.font, NoPointer, 3, n, text, pen) /\ BoxShows(machine.font, 2, n, box)
    BY <1>1 DEF PanicInv
  <2>2. Len(text) = 0
    BY <1>1
  <2>3. 0 = 3 - n
    BY <2>1, <2>2, TextsFit DEF HasDrawn
  <2>4. n = 3
    BY <2>3
  <2> QED
    BY <2>1, <2>4
<1>4. Box \in Nat \ {0} /\ machine.width \in Nat \ {0} /\ machine.height \in Nat \ {0}
  BY <1>2, MachineFacts
<1>5. PICK w : w = (machine.width \div 10) * 8
  OBVIOUS
<1>6. PICK h : h = (machine.height \div 10) * 8
  OBVIOUS
<1>7. w \in Nat /\ h \in Nat
  BY <1>4, <1>5, <1>6, FrameFits
<1>8. PICK down \in Downs : scaled' = Scale(w, h, box, Box, Box, down)
  BY <1>5, <1>6 DEF ScalePanic, InnerWidth, InnerHeight, Tenth
<1>9. Inside(scaled', w, h)
  BY <1>8 DEF Scale, Inside
<1>10. \A x \in 0 .. w - 1, y \in 0 .. h - 1 :
         ShowsScaled(scaled'[y * w + x], x, y, w, h, box, Box, Box)
  <2>1. \A x \in 0 .. w - 1, y \in 0 .. h - 1 :
          ShowsScaled(Scale(w, h, box, Box, Box, down)[y * w + x], x, y, w, h, box, Box, Box)
    BY <1>2, <1>4, <1>7, ScalePixel
  <2> QED
    BY <2>1, <1>8, Zenon
<1> QED
  BY <1>1, <1>3, <1>5, <1>6, <1>9, <1>10 DEF PanicInv, Columns, Rows, FrameStages, PanicStages

\* The scaled text box is put into the inner area.
LEMMA PanicOverlays ==
  ASSUME ShapeInv, PanicInv, CompositePanic
  PROVE  PanicInv'
<1>1. stage = "panic composite" /\ machine \in Machines
  BY DEF CompositePanic, At, ShapeInv
<1>2. Inside(scaled, (machine.width \div 10) * 8, (machine.height \div 10) * 8)
  BY <1>1 DEF PanicInv
<1>3. /\ machine' = machine /\ stage' = "panic swap" /\ box' = box
      /\ \A x \in Columns, y \in Rows :
           back'[y * machine.width + x] =
             IF PanicArea(machine, x, y)
               THEN scaled[(y - (machine.height \div 10)) * ((machine.width \div 10) * 8)
                             + (x - (machine.width \div 10))]
               ELSE back[y * machine.width + x]
  BY <1>2, PanicComposes DEF CompositePanic
<1>4. machine.width \in Nat \ {0} /\ machine.height \in Nat \ {0}
  <2>1. machine \in Machines
    BY <1>1
  <2> QED
    BY <2>1, MachineFacts
<1>5. PICK tw \in Nat : tw = machine.width \div 10
  BY <1>4, FrameFits
<1>6. PICK th \in Nat : th = machine.height \div 10
  BY <1>4, FrameFits
<1>7. ASSUME NEW x \in Columns, NEW y \in Rows, PanicArea(machine, x, y)
      PROVE  ShowsScaled(back'[y * machine.width + x], x - tw, y - th, tw * 8, th * 8,
                         box, Box, Box)
  <2>1. x - tw \in 0 .. tw * 8 - 1 /\ y - th \in 0 .. th * 8 - 1
    BY <1>5, <1>6, <1>7 DEF PanicArea, Within
  <2>2. back'[y * machine.width + x] = scaled[(y - th) * (tw * 8) + (x - tw)]
    BY <1>3, <1>5, <1>6, <1>7, Zenon
  <2>3. \A i \in 0 .. tw * 8 - 1, j \in 0 .. th * 8 - 1 :
          ShowsScaled(scaled[j * (tw * 8) + i], i, j, tw * 8, th * 8, box, Box, Box)
    BY <1>1, <1>5, <1>6 DEF PanicInv
  <2> QED
    BY <2>1, <2>2, <2>3
<1>8. BoxShows(machine.font, 2, 3, box)
  BY <1>1 DEF PanicInv
<1>9. \A x \in Columns, y \in Rows :
        PanicEdge(machine, x, y) /\ ~ PanicArea(machine, x, y) =>
          back'[y * machine.width + x] = Red
  BY <1>1, <1>3 DEF PanicInv, FrameStages, PanicStages
<1>10. \A x \in Columns, y \in Rows :
         PanicArea(machine, x, y) =>
           ShowsScaled(back'[y * machine.width + x], x - (machine.width \div 10),
                       y - (machine.height \div 10), (machine.width \div 10) * 8,
                       (machine.height \div 10) * 8, box, Box, Box)
  BY <1>5, <1>6, <1>7, Zenon
<1>11. machine' = machine /\ stage' = "panic swap" /\ box' = box
  BY <1>3
<1>12. Columns' = Columns /\ Rows' = Rows
  BY <1>11 DEF Columns, Rows
<1> QED
  BY <1>8, <1>9, <1>10, <1>11, <1>12 DEF PanicInv, FrameStages, PanicStages

\* The panic is copied to the screen.
LEMMA PanicSwaps ==
  ASSUME ShapeInv, PanicInv, Swaps
  PROVE  PanicInv'
<1>1. /\ \/ stage' = "set_font"
         \/ stage = "panic swap" /\ stage' = "panic shown"
      /\ machine' = machine /\ box' = box /\ back' = back
  BY DEF Swaps, Swap, At, Goto, KeepButDrawing
<1>2. \A x \in Columns, y \in Rows :
        front'[y * machine.pitch + x] = back[y * machine.width + x]
  BY SwapShows
<1> QED
  BY <1>1, <1>2 DEF PanicInv, Columns, Rows, FrameStages, PanicStages

\* kpanic's frame and inner area are drawn.
LEMMA PanicFrames ==
  ASSUME ShapeInv, PanicInv, PanicFrame \/ PanicInner
  PROVE  PanicInv'
<1>1. CASE PanicFrame
  <2>1. /\ machine' = machine /\ stage' = "panic inner"
        /\ \A x \in Columns, y \in Rows :
             back'[y * machine.width + x] =
               IF PanicEdge(machine, x, y) THEN Red ELSE back[y * machine.width + x]
    BY <1>1, FrameDraws
  <2> QED
    BY <2>1 DEF PanicInv, Columns, Rows, FrameStages, PanicStages
<1>2. CASE PanicInner
  <2>1. /\ machine' = machine /\ stage = "panic inner" /\ stage' = "panic box"
        /\ \A x \in Columns, y \in Rows :
             back'[y * machine.width + x] =
               IF PanicArea(machine, x, y) THEN Black ELSE back[y * machine.width + x]
    BY <1>2, InnerDraws
  <2>2. \A x \in Columns, y \in Rows :
          PanicEdge(machine, x, y) /\ ~ PanicArea(machine, x, y) =>
             back[y * machine.width + x] = Red
    BY <2>1 DEF PanicInv, FrameStages, PanicStages
  <2>3. \A x \in Columns, y \in Rows :
          PanicEdge(machine, x, y) /\ ~ PanicArea(machine, x, y) =>
             back'[y * machine.width + x] = Red
    BY <2>1, <2>2, Zenon
  <2> QED
    BY <2>1, <2>3 DEF PanicInv, Columns, Rows, FrameStages, PanicStages
<1> QED
  BY <1>1, <1>2

\* The other steps draw nothing of the panic.
LEMMA PanicKeeps ==
  ASSUME PanicInv, machine' = machine,
         \/ stage' \notin FrameStages
         \/ UNCHANGED <<stage, text, pen, box, scaled, back, front>>
  PROVE  PanicInv'
<1>1. CASE stage' \notin FrameStages
  BY <1>1 DEF PanicInv, FrameStages, PanicStages
<1>2. CASE UNCHANGED <<stage, text, pen, box, scaled, back, front>>
  <2>1. /\ stage' = stage /\ text' = text /\ pen' = pen /\ box' = box /\ scaled' = scaled
        /\ back' = back /\ front' = front
    BY <1>2
  <2> QED
    BY <2>1, Zenon DEF PanicInv, Columns, Rows
<1> QED
  BY <1>1, <1>2

\* The other steps of kmain keep what holds of a panic.
LEMMA PanicQuiet ==
  ASSUME PanicInv,
         \/ UNCHANGED vars
         \/ Logging \/ Uart \/ StartLog \/ PrepMem \/ MakeHeap \/ ShowLapic \/ Kpanic
         \/ InitVideo \/ DrawLogo \/ PutTarga \/ SetFont \/ InitAcpi
         \/ ScaleLogo \/ Fill \/ CompositeLogo
  PROVE  PanicInv'
<1>1. CASE UNCHANGED vars
  BY <1>1, PanicKeeps DEF vars, kernelvars, drawvars
<1>2. CASE Logging \/ Uart
  BY <1>2, PanicKeeps DEF Logging, Uart, kernelvars, drawvars
<1>3. CASE StartLog \/ PrepMem \/ MakeHeap
  BY <1>3, PanicKeeps DEF StartLog, PrepMem, MakeHeap, Goto, SerialKpanic, FrameStages,
    PanicStages
<1>4. CASE ShowLapic \/ Kpanic
  BY <1>4, PanicKeeps DEF ShowLapic, Kpanic, Goto, FrameStages, PanicStages
<1>5. CASE InitVideo \/ DrawLogo \/ PutTarga
  BY <1>5, PanicKeeps DEF InitVideo, DrawLogo, PutTarga, Goto, SerialKpanic, FrameStages,
    PanicStages
<1>6. CASE SetFont \/ InitAcpi
  BY <1>6, PanicKeeps DEF SetFont, InitAcpi, Goto, SerialKpanic, FrameStages, PanicStages
<1>7. CASE ScaleLogo \/ Fill \/ CompositeLogo
  BY <1>7, PanicKeeps DEF ScaleLogo, Fill, CompositeLogo, Goto, KeepButDrawing, FrameStages,
    PanicStages
<1> QED
  BY <1>1, <1>2, <1>3, <1>4, <1>5, <1>6, <1>7

\* Each step of the kernel keeps what holds of a panic.
LEMMA PanicStep ==
  ASSUME ShapeInv, PanicInv, [Next]_vars
  PROVE  PanicInv'
<1>1. CASE UNCHANGED vars
  BY <1>1, PanicQuiet
<1>2. CASE Next
  BY <1>2, PanicQuiet, PanicWrites, PanicStarts, PanicContinues, PanicScales, PanicOverlays,
     PanicSwaps, PanicFrames
     DEF Next, Kmain, Swaps
<1> QED
  BY <1>1, <1>2

\* What the module Kernel says of a pixel of the text box.
LEMMA LitPixel ==
  ASSUME machine \in Machines, font = machine.font,
         NEW str, DOMAIN str = 1 .. Len(str), Len(str) \in Nat, NEW row \in Nat,
         NEW x \in Nat, NEW y \in Nat
  PROVE  LitBy(str, row, x, y) <=> TextLit(font, str, Len(str), row, x, y)
<1> DEFINE across(n) == x - font.width - ((n - 1) % PerLine) * (font.width + 1)
           down(n) == y - row * font.height - ((n - 1) \div PerLine) * font.height
<1>1. FontSound(font)
  BY FontFacts
<1>2. PICK w \in Nat : w = font.width
  BY <1>1 DEF FontSound
<1>3. PICK h \in Nat : h = font.height
  BY <1>1 DEF FontSound
<1>4. PICK p \in Nat \ {0} : p = PerLineOf(font)
  BY <1>1, PerLineFacts
<1>5. PerLine = p
  BY <1>4 DEF PerLine, PerLineOf
<1>6. ASSUME NEW n \in 1 .. Len(str)
      PROVE  (across(n) \in 0 .. w - 1 /\ down(n) \in 0 .. h - 1 /\ Lit(font, str[n], down(n), across(n)))
               <=> GlyphLit(font, str[n], PenX(font, n - 1), PenY(font, row, n - 1), x, y)
  <2>1. n - 1 \in Nat
    OBVIOUS
  <2>2. PICK c \in Nat : c = (n - 1) % p
    <3>1. (n - 1) % p \in 0 .. p - 1
      BY <2>1, Division
    <3> QED
      BY <3>1
  <2>3. PICK q \in Nat : q = (n - 1) \div p
    BY <2>1, Division
  <2>4. PICK a \in Nat : a = c * (w + 1)
    BY ProductNatural
  <2>5. PICK b \in Nat : b = q * h
    BY ProductNatural
  <2>6. PICK g \in Nat : g = h * row /\ g = row * h
    BY ProductNatural
  <2>7. PenX(font, n - 1) = w + a /\ PenY(font, row, n - 1) = g + b
    BY <1>2, <1>3, <1>4, <2>2, <2>3, <2>4, <2>5, <2>6, Zenon DEF PenX, PenY
  <2>8. across(n) = x - w - a /\ down(n) = y - g - b
    BY <1>2, <1>3, <1>5, <2>2, <2>3, <2>4, <2>5, <2>6, Zenon
  <2>9. x - w - a = x - (w + a) /\ y - g - b = y - (g + b)
    OBVIOUS
  <2>10. /\ x - w - a \in 0 .. w - 1 <=> x \in w + a .. w + a + w - 1
         /\ y - g - b \in 0 .. h - 1 <=> y \in g + b .. g + b + h - 1
    OBVIOUS
  <2> HIDE DEF across, down
  <2> QED
    BY <1>2, <1>3, <2>7, <2>8, <2>9, <2>10, Zenon DEF GlyphLit, Within
<1>7. LitBy(str, row, x, y) <=>
        \E n \in 1 .. Len(str) :
          across(n) \in 0 .. w - 1 /\ down(n) \in 0 .. h - 1 /\ Lit(font, str[n], down(n), across(n))
  BY <1>2, <1>3, Zenon DEF LitBy
<1> HIDE DEF across, down
<1> QED
  BY <1>6, <1>7, Zenon DEF TextLit

\* The text box with both texts, as the module Kernel describes it.
LEMMA TextsShown ==
  ASSUME machine \in Machines, font = machine.font, BoxShows(font, 2, 3, box),
         NEW x \in 0 .. Box - 1, NEW y \in 0 .. Box - 1
  PROVE  [o \in 0 .. Box * Box - 1 |->
            IF \E t \in {<<Prefix, 1>>, <<NoPointer, 3>>} :
                 LitBy(t[1], t[2], o % Box, o \div Box)
              THEN Red ELSE Black][y * Box + x] = box[y * Box + x]
<1>1. FontSound(font) /\ Box \in Nat
  BY FontFacts DEF FontSound
<1>2. PICK o : o = y * Box + x
  OBVIOUS
<1>3. o \in 0 .. Box * Box - 1 /\ o \div Box = y /\ o % Box = x
  BY <1>1, <1>2, OffsetFacts
<1>4. LitBy(Prefix, 1, x, y) <=> TextLit(font, Prefix, 2, 1, x, y)
  <2>1. DOMAIN Prefix = 1 .. Len(Prefix) /\ Len(Prefix) = 2
    BY TextsFit DEF Prefix
  <2>2. x \in Nat /\ y \in Nat /\ 1 \in Nat /\ 2 \in Nat
    OBVIOUS
  <2>4. Len(Prefix) \in Nat
    BY <2>1, <2>2, Zenon
  <2>3. LitBy(Prefix, 1, x, y) <=> TextLit(font, Prefix, Len(Prefix), 1, x, y)
    BY <2>1, <2>2, <2>4, LitPixel, Zenon
  <2> QED
    BY <2>1, <2>3
<1>5. LitBy(NoPointer, 3, x, y) <=> TextLit(font, NoPointer, 3, 3, x, y)
  <2>1. DOMAIN NoPointer = 1 .. Len(NoPointer) /\ Len(NoPointer) = 3
    BY TextsFit DEF NoPointer
  <2>2. x \in Nat /\ y \in Nat /\ 3 \in Nat /\ 3 \in Nat
    OBVIOUS
  <2>4. Len(NoPointer) \in Nat
    BY <2>1, <2>2, Zenon
  <2>3. LitBy(NoPointer, 3, x, y) <=> TextLit(font, NoPointer, Len(NoPointer), 3, x, y)
    BY <2>1, <2>2, <2>4, LitPixel, Zenon
  <2> QED
    BY <2>1, <2>3
<1>6. (\E t \in {<<Prefix, 1>>, <<NoPointer, 3>>} : LitBy(t[1], t[2], x, y)) <=>
        LitBy(Prefix, 1, x, y) \/ LitBy(NoPointer, 3, x, y)
  OBVIOUS
<1>7. box[o] = IF TextLit(font, Prefix, 2, 1, x, y) \/ TextLit(font, NoPointer, 3, 3, x, y)
                 THEN Red ELSE Black
  BY <1>2 DEF BoxShows
<1>8. [u \in 0 .. Box * Box - 1 |->
         IF \E t \in {<<Prefix, 1>>, <<NoPointer, 3>>} :
              LitBy(t[1], t[2], u % Box, u \div Box)
           THEN Red ELSE Black][o] =
        IF \E t \in {<<Prefix, 1>>, <<NoPointer, 3>>} : LitBy(t[1], t[2], x, y)
          THEN Red ELSE Black
  BY <1>3, Zenon
<1> QED
  BY <1>2, <1>4, <1>5, <1>6, <1>7, <1>8, Zenon

\* What holds of a panic shows it on the screen.
LEMMA PanicShows ==
  ASSUME ShapeInv, PanicInv
  PROVE  PanicShown
<1> SUFFICES ASSUME stage = "panic shown"
             PROVE  PanicShown
  BY DEF PanicShown
<1> DEFINE texts == [o \in 0 .. Box * Box - 1 |->
                       IF \E t \in {<<Prefix, 1>>, <<NoPointer, 3>>} :
                            LitBy(t[1], t[2], o % Box, o \div Box)
                         THEN Red ELSE Black]
<1>1. machine \in Machines /\ font = machine.font
  BY DEF ShapeInv, FontStages, LogoStages, PanicStages
<1>2. /\ \A x \in Columns, y \in Rows :
           PanicEdge(machine, x, y) /\ ~ PanicArea(machine, x, y) =>
              back[y * machine.width + x] = Red
      /\ \A x \in Columns, y \in Rows :
           PanicArea(machine, x, y) =>
              ShowsScaled(back[y * machine.width + x], x - (machine.width \div 10),
                          y - (machine.height \div 10),
                          (machine.width \div 10) * 8, (machine.height \div 10) * 8,
                          box, Box, Box)
      /\ \A x \in Columns, y \in Rows : front[y * machine.pitch + x] = back[y * machine.width + x]
  BY DEF PanicInv, FrameStages, PanicStages
<1>3. BoxShows(font, 2, 3, box)
  BY <1>1 DEF PanicInv
<1>4. \A x \in 0 .. Box - 1, y \in 0 .. Box - 1 : texts[y * Box + x] = box[y * Box + x]
  BY <1>1, <1>3, TextsShown
<1> HIDE DEF texts
<1>5. ASSUME NEW colour, NEW x, NEW y, NEW w, NEW h,
             ShowsScaled(colour, x, y, w, h, box, Box, Box)
      PROVE  ShowsScaled(colour, x, y, w, h, texts, Box, Box)
  <2>1. PICK k \in Nearest(x, w, Box), l \in Nearest(y, h, Box) : colour = box[l * Box + k]
    BY <1>5 DEF ShowsScaled
  <2>2. k \in 0 .. Box - 1 /\ l \in 0 .. Box - 1
    BY DEF Nearest
  <2>3. colour = texts[l * Box + k]
    BY <2>1, <2>2, <1>4
  <2> QED
    BY <2>3 DEF ShowsScaled
<1>6. /\ \A x, y : InPanic(x, y, 0) <=> PanicArea(machine, x, y)
      /\ \A x, y : InPanic(x, y, 1) <=> PanicEdge(machine, x, y)
      /\ \A x, y : Pixel(x, y) = front[y * machine.pitch + x]
  BY <1>1, KernelPlaces
<1>7. ASSUME NEW x \in Columns, NEW y \in Rows
      PROVE  IF InPanic(x, y, 0)
               THEN ShowsScaled(Pixel(x, y), x - Tenth(machine.width), y - Tenth(machine.height),
                                InnerWidth, InnerHeight, texts, Box, Box)
               ELSE InPanic(x, y, 1) => Pixel(x, y) = Red
  <2>1. Pixel(x, y) = back[y * machine.width + x]
    BY <1>2, <1>6
  <2>2. CASE PanicArea(machine, x, y)
    <3>1. ShowsScaled(Pixel(x, y), x - (machine.width \div 10), y - (machine.height \div 10),
                      (machine.width \div 10) * 8, (machine.height \div 10) * 8, texts, Box, Box)
      BY <2>1, <2>2, <1>2, <1>5, Zenon
    <3> QED
      BY <3>1, <2>2, <1>6, Zenon DEF Tenth, InnerWidth, InnerHeight
  <2>3. CASE ~ PanicArea(machine, x, y)
    BY <2>1, <2>3, <1>2, <1>6, Zenon
  <2> QED
    BY <2>2, <2>3
<1> QED
  BY <1>7, Zenon DEF PanicShown, texts

\* A panic that can be drawn is drawn, whatever the screen, the font and the quotients of
\* the floats.
THEOREM PanicCorrect == Spec => []PanicShown
<1>1. Init => PanicInv
  BY DEF Init, PanicInv, FrameStages, PanicStages
<1>2. ShapeInv /\ PanicInv /\ [Next]_vars => PanicInv'
  BY PanicStep
<1>3. ShapeInv /\ PanicInv => PanicShown
  BY PanicShows
<1>4. Spec => []ShapeInv
  BY ShapeCorrect
<1> QED
  BY <1>1, <1>2, <1>3, <1>4, PTL DEF Spec

-----------------------------------------------------------------------------
(* The picture of the logo.                                                *)

\* What the proof assumes of a picture: that it is what the file encodes, and that its rows,
\* with those that a packet may run over its end, can be counted in 16 bits.
LogoSound(f) == (Accepted(f) => Encodes(f)) /\ f.height + 128 <= 65536

\* The size of a picture.
PictureSized(f) ==
  /\ f.width \in Nat \ {0} /\ f.width < 65536
  /\ f.height \in Nat \ {0} /\ f.height < 65536

\* The row of the picture that a row of the buffer shows: a packed picture from the bottom
\* left comes out one row too low, which LogoDecoded leaves out and DrawnBottomUp refutes.
ShownAs(f, y) == IF Packed(f) /\ ~ f.topleft THEN y - 1 ELSE y

\* The number, in a packed file, of the pixel that is shown at (x, y), and where put_targa is
\* after n pixels.
PixelNumber(f, x, y) ==
  IF f.topleft THEN y * f.width + x ELSE (f.height - y) * f.width + x
Reached(f, n, x, y) ==
  x = n % f.width /\ y = IF f.topleft THEN n \div f.width ELSE f.height - (n \div f.width)

\* A buffer shows the first n pixels of a packed file ...
Decoded(f, n, c) ==
  \A x \in 0 .. f.width - 1, y \in 0 .. f.height - 1 :
    ShownAs(f, y) >= 0 /\ PixelNumber(f, x, y) < n =>
      c[y * f.width + x] = f.picture[ShownAs(f, y) * f.width + x]

\* ... or the first n pixels, from the top, of the picture.
Copies(f, n, c) ==
  \A x \in 0 .. f.width - 1, y \in 0 .. f.height - 1 :
    y * f.width + x < n => c[y * f.width + x] = f.picture[y * f.width + x]

\* A pixel that has been put into a buffer.
PixelSet(after, before, w, h, x, y, colour) ==
  \A u \in 0 .. w - 1, v \in 0 .. h - 1 :
    after[v * w + u] = IF u = x /\ v = y THEN colour ELSE before[v * w + u]

\* put_pixel sets the pixel it is given, and no other.
LEMMA PutPixelSets ==
  ASSUME NEW w \in Nat, NEW h \in Nat, w < 65536, h < 65536, NEW c, Inside(c, w, h),
         NEW x \in 0 .. w - 1, NEW y \in 0 .. h - 1, NEW colour
  PROVE  PixelSet(PutPixel(c, w, h, x, y, colour), c, w, h, x, y, colour)
<1>1. U16(x) = x /\ U16(y) = y
  BY DEF U16
<1>2. PICK o \in Nat : o = y * w + x
  BY ProductNatural
<1>3. o # Null
  BY DEF Null
<1>4. LinearAddress(w, h, x, y) = o
  BY <1>2 DEF LinearAddress, Clipped
<1>5. PutPixel(c, w, h, x, y, colour) = [c EXCEPT ![o] = colour]
  BY <1>1, <1>3, <1>4 DEF PutPixel
<1>6. ASSUME NEW u \in 0 .. w - 1, NEW v \in 0 .. h - 1
      PROVE  [c EXCEPT ![o] = colour][v * w + u] =
               IF u = x /\ v = y THEN colour ELSE c[v * w + u]
  <2>1. PICK p : p = v * w + u
    OBVIOUS
  <2>2. p \in DOMAIN c
    BY <2>1, OffsetInside DEF Inside
  <2>3. p = o <=> u = x /\ v = y
    BY <2>1, <1>2, SameOffset
  <2> QED
    BY <2>1, <2>2, <2>3
<1> QED
  BY <1>5, <1>6 DEF PixelSet

\* Below the buffer nothing is drawn.
LEMMA PutPixelClips ==
  ASSUME NEW w, NEW h \in Nat, NEW c, NEW x, NEW y, U16(y) >= h, NEW colour
  PROVE  PutPixel(c, w, h, x, y, colour) = c
BY DEF PutPixel, LinearAddress, Clipped

\* A row that n pixels reach.
LEMMA RowsReached ==
  ASSUME NEW w \in Nat \ {0}, NEW h \in Nat, NEW q \in Nat, NEW c \in 0 .. w - 1
  PROVE  /\ q * w + c < w * h <=> q < h
         /\ q * w + c <= w * h + 127 => q <= h + 127
<1>1. CASE q < h
  <2>1. PICK e \in Nat : h = q + 1 + e
    <3>1. h - q - 1 \in Nat /\ h = q + 1 + (h - q - 1)
      BY <1>1
    <3> QED
      BY <3>1
  <2>2. w * h = q * w + w + w * e /\ w * e \in Nat
    BY <2>1, ProductNatural
  <2> QED
    BY <2>2, <1>1
<1>2. CASE q >= h
  <2>1. PICK e \in Nat : q = h + e
    <3>1. q - h \in Nat /\ q = h + (q - h)
      BY <1>2
    <3> QED
      BY <3>1
  <2>2. PICK g \in Nat : g = e * w
    BY ProductNatural
  <2>3. q * w = w * h + g
    BY <2>1, <2>2
  <2>4. g >= e
    <3>1. PICK k \in Nat : w = k + 1
      <4>1. w - 1 \in Nat /\ w = (w - 1) + 1
        OBVIOUS
      <4> QED
        BY <4>1
    <3>2. g = e * k + e /\ e * k \in Nat
      BY <3>1, <2>2, ProductNatural
    <3> QED
      BY <3>2
  <2>5. w * h \in Nat
    BY ProductNatural
  <2> QED
    BY <2>1, <2>3, <2>4, <2>5, <1>2
<1> QED
  BY <1>1, <1>2

\* The next pixel is in the next column or at the start of the next row.
LEMMA NextReached ==
  ASSUME NEW f, PictureSized(f), NEW n \in Nat, NEW x, NEW y, Reached(f, n, x, y)
  PROVE  IF x + 1 = f.width
           THEN /\ Reached(f, n + 1, 0, IF f.topleft THEN y + 1 ELSE y - 1)
                /\ (n + 1 = f.width * f.height <=>
                     (IF f.topleft THEN y + 1 ELSE y - 1) = (IF f.topleft THEN f.height ELSE 0))
           ELSE /\ Reached(f, n + 1, x + 1, y)
                /\ n + 1 # f.width * f.height
<1>1. PICK w \in Nat \ {0} : w = f.width
  BY DEF PictureSized
<1>2. PICK h \in Nat \ {0} : h = f.height
  BY DEF PictureSized
<1>3. PICK c \in 0 .. w - 1 : c = n % w
  BY Division
<1>4. PICK q \in Nat : q = n \div w
  BY Division
<1>5. n = w * q + c
  BY <1>3, <1>4, Division
<1>6. x = c /\ y = IF f.topleft THEN q ELSE h - q
  BY <1>1, <1>2, <1>3, <1>4, Zenon DEF Reached
<1>7. CASE c + 1 = w
  <2>1. (n + 1) % w = 0 /\ (n + 1) \div w = q + 1
    <3>1. ~ (c + 1 < w)
      BY <1>7
    <3> QED
      BY <3>1, <1>3, <1>4, NextColumnOrLine
  <2>2. n + 1 = w * (q + 1)
    BY <1>5, <1>7
  <2>3. w * (q + 1) = w * h <=> q + 1 = h
    <3>1. CASE q + 1 < h
      <4>1. w * (q + 1) + w <= w * h
        BY <3>1, MultiplesApart
      <4> QED
        BY <4>1, <3>1
    <3>2. CASE h < q + 1
      <4>1. w * h + w <= w * (q + 1)
        BY <3>2, MultiplesApart
      <4> QED
        BY <4>1, <3>2
    <3> QED
      BY <3>1, <3>2
  <2>4. n + 1 = w * h <=> q + 1 = h
    BY <2>2, <2>3
  <2>5. h - q - 1 = h - (q + 1) /\ (h - q - 1 = 0 <=> q + 1 = h)
    OBVIOUS
  <2>6. CASE f.topleft
    BY <2>1, <2>4, <2>6, <1>1, <1>2, <1>6, <1>7, Zenon DEF Reached
  <2>7. CASE ~ f.topleft
    BY <2>1, <2>4, <2>5, <2>7, <1>1, <1>2, <1>6, <1>7, Zenon DEF Reached
  <2> QED
    BY <2>6, <2>7
<1>8. CASE c + 1 # w
  <2>1. (n + 1) % w = c + 1 /\ (n + 1) \div w = q
    <3>1. c + 1 < w
      BY <1>8
    <3> QED
      BY <3>1, <1>3, <1>4, NextColumnOrLine
  <2>2. n + 1 # w * h
    <3>1. n + 1 = w * q + (c + 1) /\ c + 1 \in 0 .. w - 1
      BY <1>5, <1>8
    <3>2. (w * q + (c + 1)) % w = c + 1
      BY <3>1, QuotientUnique
    <3>3. (w * h + 0) % w = 0
      BY QuotientUnique
    <3>4. w * h \in Nat
      BY ProductNatural
    <3>5. (w * h) % w = 0
      BY <3>3, <3>4
    <3>6. c + 1 # 0
      OBVIOUS
    <3> QED
      BY <3>1, <3>2, <3>5, <3>6, Zenon
  <2> QED
    BY <2>1, <2>2, <1>1, <1>2, <1>6, <1>8, Zenon DEF Reached
<1> QED
  BY <1>7, <1>8

\* Where n pixels reach, as a row of the file and a column.
AtRow(f, n, x, y, q, c) ==
  /\ n = q * f.width + c
  /\ x = c /\ y = IF f.topleft THEN q ELSE f.height - q

\* Every number of pixels reaches a row and a column.
LEMMA ReachedRow ==
  ASSUME NEW f, PictureSized(f), NEW n \in Nat, NEW x, NEW y, Reached(f, n, x, y)
  PROVE  \E q \in Nat, c \in 0 .. f.width - 1 : AtRow(f, n, x, y, q, c)
<1>1. PICK w \in Nat \ {0} : w = f.width
  BY DEF PictureSized
<1>3. PICK c \in 0 .. w - 1 : c = n % w
  BY Division
<1>4. PICK q \in Nat : q = n \div w
  BY Division
<1>5. n = w * q + c /\ n = q * w + c
  BY <1>3, <1>4, Division
<1>6. x = c /\ y = IF f.topleft THEN q ELSE f.height - q
  BY <1>1, <1>3, <1>4, Zenon DEF Reached
<1> QED
  BY <1>1, <1>5, <1>6, Zenon DEF AtRow

\* What a run over the end of the picture keeps to.
NearEnd(f, n) == f.height + 128 <= 65536 /\ n <= f.width * f.height + 127

\* The colour that pixel n of the file has, when it is one of the picture.
IsPixel(f, n, colour) == n < f.width * f.height => colour = f.picture[Place(f, n)]

\* The pixel with a number, in a buffer.
LEMMA NumberedPixel ==
  ASSUME NEW f, PictureSized(f), NEW n \in Nat, NEW u \in 0 .. f.width - 1,
         NEW v \in 0 .. f.height - 1, PixelNumber(f, u, v) = n
  PROVE  Reached(f, n, u, v)
<1>1. PICK w \in Nat \ {0} : w = f.width
  BY DEF PictureSized
<1>2. PICK h \in Nat \ {0} : h = f.height
  BY DEF PictureSized
<1>3. CASE f.topleft
  <2>1. n = v * w + u /\ v \in Nat
    BY <1>1, <1>2, <1>3 DEF PixelNumber
  <2>4. u \in 0 .. w - 1
    BY <1>1
  <2>2. n \div w = v /\ n % w = u
    BY <2>1, <2>4, OffsetPixel
  <2> QED
    BY <2>2, <1>1, <1>3, Zenon DEF Reached
<1>4. CASE ~ f.topleft
  <2>1. PICK q \in Nat : q = h - v
    BY <1>2
  <2>2. n = q * w + u
    BY <2>1, <1>1, <1>2, <1>4 DEF PixelNumber
  <2>3. n \div w = q /\ n % w = u
    BY <2>2, <1>1, OffsetPixel
  <2>4. v = h - q
    BY <2>1, <1>2
  <2> QED
    BY <2>3, <2>4, <1>1, <1>2, <1>4, Zenon DEF Reached
<1> QED
  BY <1>3, <1>4

\* The pixel that is reached has the number of those before it.
LEMMA ReachedNumber ==
  ASSUME NEW f, PictureSized(f), NEW n \in Nat, NEW u \in 0 .. f.width - 1,
         NEW v \in 0 .. f.height - 1, Reached(f, n, u, v)
  PROVE  PixelNumber(f, u, v) = n
<1>1. PICK w \in Nat \ {0} : w = f.width
  BY DEF PictureSized
<1>2. PICK h \in Nat \ {0} : h = f.height
  BY DEF PictureSized
<1>5. PICK q \in Nat, c \in 0 .. f.width - 1 : AtRow(f, n, u, v, q, c)
  BY ReachedRow
<1>3. n = q * w + c /\ u = c /\ v = IF f.topleft THEN q ELSE h - q
  BY <1>1, <1>2, <1>5, Zenon DEF AtRow
<1>4. h - (h - q) = q
  OBVIOUS
<1> QED
  BY <1>1, <1>2, <1>3, <1>4, Zenon DEF PixelNumber

\* What is shown at the place of pixel n is pixel n of the file.
LEMMA PlaceShown ==
  ASSUME NEW f, PictureSized(f), Packed(f), NEW n \in Nat, NEW u \in 0 .. f.width - 1,
         NEW v \in 0 .. f.height - 1, Reached(f, n, u, v), ShownAs(f, v) >= 0
  PROVE  ShownAs(f, v) * f.width + u = Place(f, n) /\ n < f.width * f.height
<1>1. PICK w \in Nat \ {0} : w = f.width
  BY DEF PictureSized
<1>2. PICK h \in Nat \ {0} : h = f.height
  BY DEF PictureSized
<1>3. PICK c \in 0 .. w - 1 : c = n % w
  BY Division
<1>4. PICK q \in Nat : q = n \div w
  BY Division
<1>5. n = w * q + c /\ n = q * w + c
  BY <1>3, <1>4, Division
<1>6. u = c /\ v = IF f.topleft THEN q ELSE h - q
  BY <1>1, <1>2, <1>3, <1>4, Zenon DEF Reached
<1>7. CASE f.topleft
  <2>1. q < h
    BY <1>2, <1>6, <1>7
  <2>2. n < w * h
    BY <2>1, <1>5, RowsReached
  <2>3. ShownAs(f, v) = q
    BY <1>6, <1>7 DEF ShownAs
  <2> QED
    BY <2>2, <2>3, <1>1, <1>2, <1>5, <1>6, <1>7, Zenon DEF Place
<1>8. CASE ~ f.topleft
  <2>1. ShownAs(f, v) = (h - q) - 1
    BY <1>6, <1>8 DEF ShownAs
  <2>2. q < h
    BY <2>1
  <2>3. n < w * h
    BY <2>2, <1>5, RowsReached
  <2>4. (h - q) - 1 = h - 1 - q
    OBVIOUS
  <2> QED
    BY <2>1, <2>3, <2>4, <1>1, <1>2, <1>3, <1>4, <1>6, <1>8, Zenon DEF Place
<1> QED
  BY <1>7, <1>8

\* Where put_targa is after n pixels, which run over the end by less than a packet.
LEMMA PlaceDrawn ==
  ASSUME NEW f, PictureSized(f), NEW n \in Nat, NearEnd(f, n), NEW x, NEW y, Reached(f, n, x, y)
  PROVE  /\ U16(x) = x /\ x \in 0 .. f.width - 1
         /\ \/ U16(y) = y /\ y \in 0 .. f.height - 1
            \/ U16(y) >= f.height /\ y \notin 0 .. f.height - 1
<1>1. PICK w \in Nat \ {0} : w = f.width
  BY DEF PictureSized
<1>2. PICK h \in Nat \ {0} : h = f.height
  BY DEF PictureSized
<1>5. PICK q \in Nat, c \in 0 .. f.width - 1 : AtRow(f, n, x, y, q, c)
  BY ReachedRow
<1>3. n = q * w + c /\ c \in 0 .. w - 1
  BY <1>1, <1>2, <1>5, Zenon DEF AtRow
<1>6. x = c /\ y = IF f.topleft THEN q ELSE h - q
  BY <1>2, <1>5, Zenon DEF AtRow
<1>15. n <= f.width * f.height + 127
  BY DEF NearEnd
<1>16. n <= w * h + 127
  BY <1>1, <1>2, <1>15, Zenon
<1>4. h + 128 <= 65536
  BY <1>2 DEF NearEnd
<1>7. q * w + c <= w * h + 127
  BY <1>3, <1>16, Zenon
<1>8. q <= h + 127
  BY <1>3, <1>7, RowsReached
<1>9. h + 128 <= 65536
  BY <1>4
<1>10. w < 65536
  BY <1>1 DEF PictureSized
<1>11. U16(c) = c
  BY <1>3, <1>10 DEF U16
<1>12. U16(q) = q
  BY <1>8, <1>9 DEF U16
<1>13. CASE f.topleft
  BY <1>1, <1>2, <1>6, <1>11, <1>12, <1>13
<1>14. CASE ~ f.topleft
  <2>1. CASE q <= h
    <3>1. PICK d \in Nat : d = h - q
      BY <2>1
    <3>2. d < 65536 /\ d <= h
      BY <3>1, <1>9
    <3>3. U16(d) = d
      BY <3>2 DEF U16
    <3> QED
      BY <3>1, <3>2, <3>3, <1>1, <1>2, <1>6, <1>11, <1>14
  <2>2. CASE q > h
    <3>1. PICK d \in Nat : d = q - h /\ d # 0
      BY <2>2
    <3>2. d <= 127
      BY <3>1, <1>8
    <3>3. (0 - d) % 65536 = 65536 - d
      BY <3>1, <3>2
    <3>4. h - q = 0 - d
      BY <3>1
    <3>5. U16(h - q) = 65536 - d
      BY <3>3, <3>4 DEF U16
    <3>6. 65536 - d >= h /\ ~ (h - q \in 0 .. h - 1)
      BY <3>2, <2>2, <1>9
    <3> QED
      BY <3>5, <3>6, <1>1, <1>2, <1>6, <1>11, <1>14
  <2> QED
    BY <2>1, <2>2
<1> QED
  BY <1>13, <1>14

\* A pixel of a packed file is drawn to its place, or behind the end.
LEMMA PackedPixel ==
  ASSUME NEW f, PictureSized(f), Packed(f), NEW n \in Nat, NearEnd(f, n),
         NEW c, Inside(c, f.width, f.height), Decoded(f, n, c),
         NEW colour, IsPixel(f, n, colour), NEW x, NEW y, Reached(f, n, x, y)
  PROVE  Decoded(f, n + 1, PutPixel(c, f.width, f.height, x, y, colour))
<1> DEFINE after == PutPixel(c, f.width, f.height, x, y, colour)
<1>1. PICK w \in Nat : w = f.width
  BY DEF PictureSized
<1>2. PICK h \in Nat : h = f.height
  BY DEF PictureSized
<1>3. w < 65536 /\ h < 65536
  BY <1>1, <1>2 DEF PictureSized
<1>4. /\ x \in 0 .. w - 1
      /\ y \in 0 .. h - 1 \/ (U16(y) >= h /\ y \notin 0 .. h - 1)
  BY <1>1, <1>2, PlaceDrawn
<1>5. ASSUME NEW u \in 0 .. w - 1, NEW v \in 0 .. h - 1, ShownAs(f, v) >= 0,
             PixelNumber(f, u, v) < n + 1
      PROVE  after[v * w + u] = f.picture[ShownAs(f, v) * w + u]
  <2>1. PixelNumber(f, u, v) \in Nat
    <3>1. v * w \in Nat /\ (h - v) * w \in Nat
      <4>1. h - v \in Nat /\ v \in Nat
        OBVIOUS
      <4> QED
        BY <4>1, ProductNatural
    <3> QED
      BY <3>1, <1>1, <1>2 DEF PixelNumber
  <2>2. CASE PixelNumber(f, u, v) = n
    <3>1. Reached(f, n, u, v)
      BY <2>2, <1>1, <1>2, NumberedPixel
    <3>2. u = x /\ v = y
      BY <3>1 DEF Reached
    <3>3. ShownAs(f, v) * w + u = Place(f, n) /\ n < w * h
      BY <3>1, <1>1, <1>2, <1>5, PlaceShown
    <3>4. colour = f.picture[Place(f, n)]
      BY <3>3, <1>1, <1>2, Zenon DEF IsPixel
    <3>5. y \in 0 .. h - 1
      BY <3>2
    <3>6. PixelSet(PutPixel(c, w, h, x, y, colour), c, w, h, x, y, colour)
      BY <3>5, <1>1, <1>2, <1>3, <1>4, PutPixelSets
    <3>7. after[v * w + u] = colour
      BY <3>2, <3>6, <1>1, <1>2, Zenon DEF PixelSet
    <3> QED
      BY <3>3, <3>4, <3>7
  <2>3. CASE PixelNumber(f, u, v) # n
    <3>1. PixelNumber(f, u, v) < n
      BY <2>1, <2>3, <1>5
    <3>2. c[v * w + u] = f.picture[ShownAs(f, v) * w + u]
      BY <3>1, <1>1, <1>2, <1>5 DEF Decoded
    <3>3. ~ (u = x /\ v = y)
      <4>1. SUFFICES ASSUME u = x, v = y
                     PROVE  FALSE
        OBVIOUS
      <4>2. Reached(f, n, u, v)
        BY <4>1
      <4> QED
        BY <4>2, <2>3, <1>1, <1>2, ReachedNumber
    <3>4. CASE y \in 0 .. h - 1
      <4>1. PixelSet(PutPixel(c, w, h, x, y, colour), c, w, h, x, y, colour)
        BY <3>4, <1>1, <1>2, <1>3, <1>4, PutPixelSets
      <4> QED
        BY <4>1, <3>2, <3>3, <1>1, <1>2, Zenon DEF PixelSet
    <3>5. CASE U16(y) >= h
      BY <3>2, <3>5, <1>1, <1>2, PutPixelClips
    <3> QED
      BY <3>4, <3>5, <1>4
  <2> QED
    BY <2>2, <2>3
<1> QED
  BY <1>1, <1>2, <1>5 DEF Decoded

\* A pixel of a file that is not packed is drawn to its place.
LEMMA PlainDrawn ==
  ASSUME NEW f, PictureSized(f), NEW n \in Nat, n < f.width * f.height,
         NEW c, Inside(c, f.width, f.height), Copies(f, n, c),
         NEW x, NEW y, x = n % f.width, y = n \div f.width
  PROVE  Copies(f, n + 1, PutPixel(c, f.width, f.height, x, y, f.picture[n]))
<1>1. PICK w \in Nat \ {0} : w = f.width
  BY DEF PictureSized
<1>2. PICK h \in Nat \ {0} : h = f.height
  BY DEF PictureSized
<1>3. w < 65536 /\ h < 65536
  BY <1>1, <1>2 DEF PictureSized
<1>4. PICK a \in 0 .. w - 1 : a = n % w
  BY Division
<1>5. PICK b \in Nat : b = n \div w
  BY Division
<1>6. n = w * b + a
  BY <1>4, <1>5, Division
<1>7. n = b * w + a
  BY <1>6
<1>8. b * w + a < w * h
  BY <1>1, <1>2, <1>7, Zenon
<1>9. b < h
  BY <1>8, RowsReached
<1>10. x = a /\ y = b
  BY <1>1, <1>4, <1>5, Zenon
<1>11. PixelSet(PutPixel(c, w, h, a, b, f.picture[n]), c, w, h, a, b, f.picture[n])
  <2>1. b \in 0 .. h - 1
    BY <1>9
  <2>2. Inside(c, w, h)
    BY <1>1, <1>2
  <2> QED
    BY <2>1, <2>2, <1>3, PutPixelSets
<1> DEFINE after == PutPixel(c, w, h, a, b, f.picture[n])
<1>12. ASSUME NEW u \in 0 .. w - 1, NEW v \in 0 .. h - 1, v * w + u < n + 1
       PROVE  after[v * w + u] = f.picture[v * w + u]
  <2>1. after[v * w + u] = IF u = a /\ v = b THEN f.picture[n] ELSE c[v * w + u]
    BY <1>11 DEF PixelSet
  <2> HIDE DEF after
  <2>2. CASE u = a /\ v = b
    BY <2>1, <2>2, <1>7
  <2>3. CASE ~ (u = a /\ v = b)
    <3>1. v * w + u # n
      <4>1. v \in Nat
        OBVIOUS
      <4> QED
        BY <4>1, <2>3, <1>7, SameOffset
    <3>2. v * w + u < n
      <4>1. v * w \in Nat
        BY ProductNatural
      <4> QED
        BY <4>1, <3>1, <1>12
    <3>3. c[v * w + u] = f.picture[v * w + u]
      BY <3>2, <1>1, <1>2 DEF Copies
    <3> QED
      BY <3>3, <2>1, <2>3
  <2> QED
    BY <2>2, <2>3
<1> QED
  BY <1>1, <1>2, <1>10, <1>12 DEF Copies

\* A picture that is stored from the bottom row on is turned upside down, which is undone by
\* doing it again.
LEMMA PlaceTwice ==
  ASSUME NEW f, PictureSized(f), NEW n \in Nat, n < f.width * f.height
  PROVE  Place(f, n) \in 0 .. f.width * f.height - 1 /\ Place(f, Place(f, n)) = n
<1>1. PICK w \in Nat \ {0} : w = f.width
  BY DEF PictureSized
<1>2. PICK h \in Nat \ {0} : h = f.height
  BY DEF PictureSized
<1>3. CASE f.topleft
  BY <1>3, ProductNatural, <1>1, <1>2 DEF Place
<1>4. CASE ~ f.topleft
  <2>1. PICK a \in 0 .. w - 1 : a = n % w
    BY Division
  <2>2. PICK b \in Nat : b = n \div w
    BY Division
  <2>3. n = w * b + a
    BY <2>1, <2>2, Division
  <2>4. n = b * w + a
    BY <2>3
  <2>5. b * w + a < w * h
    BY <1>1, <1>2, <2>4, Zenon
  <2>6. b < h
    BY <2>5, RowsReached
  <2>7. PICK d \in 0 .. h - 1 : d = h - 1 - b
    BY <2>6
  <2>8. Place(f, n) = d * w + a
    BY <1>1, <1>2, <1>4, <2>1, <2>2, <2>7, Zenon DEF Place
  <2>9. /\ d * w + a \in 0 .. w * h - 1
        /\ (d * w + a) \div w = d /\ (d * w + a) % w = a
    BY OffsetFacts
  <2>10. h - 1 - d = b
    BY <2>7
  <2>11. Place(f, d * w + a) = b * w + a
    BY <1>1, <1>2, <1>4, <2>9, <2>10, Zenon DEF Place
  <2> QED
    BY <2>4, <2>8, <2>9, <2>11, <1>1, <1>2, Zenon
<1> QED
  BY <1>3, <1>4

\* Where the next pixel is in the file.
LEMMA PlaceNext ==
  ASSUME NEW f, PictureSized(f), NEW n \in Nat
  PROVE  Place(f, n + 1) =
           Place(f, n) + 1 - (IF (n % f.width) + 1 = f.width /\ ~ f.topleft THEN 2 * f.width ELSE 0)
<1>1. PICK w \in Nat \ {0} : w = f.width
  BY DEF PictureSized
<1>2. PICK h \in Nat \ {0} : h = f.height
  BY DEF PictureSized
<1>3. CASE f.topleft
  BY <1>3 DEF Place
<1>4. CASE ~ f.topleft
  <2>1. PICK a \in 0 .. w - 1 : a = n % w
    BY Division
  <2>2. PICK b \in Nat : b = n \div w
    BY Division
  <2>3. Place(f, n) = (h - 1 - b) * w + a
    BY <1>1, <1>2, <1>4, <2>1, <2>2, Zenon DEF Place
  <2>4. Place(f, n + 1) = (h - 1 - ((n + 1) \div w)) * w + ((n + 1) % w)
    BY <1>1, <1>2, <1>4, Zenon DEF Place
  <2>5. CASE a + 1 < w
    <3>1. (n + 1) % w = a + 1 /\ (n + 1) \div w = b
      BY <2>1, <2>2, <2>5, NextColumnOrLine
    <3>2. Place(f, n + 1) = (h - 1 - b) * w + (a + 1)
      BY <2>4, <3>1
    <3>3. a + 1 # w
      BY <2>5
    <3>4. PICK g \in Int : g = (h - 1 - b) * w
      OBVIOUS
    <3>5. g + (a + 1) = g + a + 1 - 0
      OBVIOUS
    <3> QED
      BY <3>2, <3>3, <3>4, <3>5, <2>3, <2>1, <1>1, <1>4, Zenon
  <2>6. CASE ~ (a + 1 < w)
    <3>1. (n + 1) % w = 0 /\ (n + 1) \div w = b + 1 /\ a + 1 = w
      BY <2>1, <2>2, <2>6, NextColumnOrLine
    <3>2. Place(f, n + 1) = (h - 1 - (b + 1)) * w + 0
      BY <2>4, <3>1
    <3>3. (h - 1 - (b + 1)) * w + 0 = (h - 1 - b) * w + a + 1 - 2 * w
      BY <3>1
    <3> QED
      BY <3>1, <3>2, <3>3, <2>3, <2>1, <1>1, <1>4, Zenon
  <2> QED
    BY <2>5, <2>6
<1> QED
  BY <1>3, <1>4

\* A packet of a file has between 1 and 128 pixels.
LEMMA PacketLengths ==
  ASSUME NEW f, Encodes(f), NEW o
  PROVE  PacketLength(f, o) \in Nat /\ 1 <= PacketLength(f, o) /\ PacketLength(f, o) <= 128
<1>1. Byte(f, o) \in Nat
  BY DEF Encodes, Byte
<1>2. PICK b \in Nat : b = Byte(f, o)
  BY <1>1
<1>3. b % 128 \in 0 .. 127
  OBVIOUS
<1> QED
  BY <1>2, <1>3 DEF PacketLength

\* The size of a pixel of a file.
LEMMA TexelSizes ==
  ASSUME NEW f
  PROVE  TexelSize(f) \in Nat
BY DEF TexelSize

\* A colour is never taken for none.
LEMMA TexelGiven ==
  ASSUME NEW f, NEW o
  PROVE  Texel(f, o) # Garbage
BY DEF Texel, Colour, Garbage

\* The packets of a file.
LEMMA PacketFields ==
  ASSUME NEW f, Encodes(f), Packed(f), NEW i \in DOMAIN f.packets
  PROVE  /\ f.packets[i].at \in Nat /\ f.packets[i].first \in Nat
         /\ f.packets[i].first < f.width * f.height
         /\ PacketEncodes(f, f.packets[i])
<1>1. i \in 1 .. Len(f.packets)
  BY Zenon DEF Encodes
<1> QED
  BY <1>1, Zenon DEF Encodes

\* The first packet.
LEMMA FirstPacket ==
  ASSUME NEW f, Encodes(f), Packed(f)
  PROVE  /\ 1 \in DOMAIN f.packets
         /\ f.packets[1].at = ImageData(f) /\ f.packets[1].first = 0
<1>1. Len(f.packets) \in Nat \ {0} /\ DOMAIN f.packets = 1 .. Len(f.packets)
  BY Zenon DEF Encodes
<1>2. 1 \in DOMAIN f.packets
  BY <1>1
<1> QED
  BY <1>2, Zenon DEF Encodes

\* The next packet, when one does not reach the end of the picture.
LEMMA NextPacket ==
  ASSUME NEW f, PictureSized(f), Encodes(f), Packed(f), NEW i \in DOMAIN f.packets,
         ~ (f.packets[i].first + PacketLength(f, f.packets[i].at) >= f.width * f.height)
  PROVE  /\ i + 1 \in DOMAIN f.packets
         /\ PacketFollows(f, f.packets[i], f.packets[i + 1])
<1>1. PICK n : n = Len(f.packets)
  OBVIOUS
<1>2. n \in Nat \ {0} /\ DOMAIN f.packets = 1 .. n
  BY <1>1, Zenon DEF Encodes
<1>3. i # n
  BY <1>1, Zenon DEF Encodes
<1>4. i \in 1 .. n - 1 /\ i + 1 \in 1 .. n
  BY <1>2, <1>3
<1>5. PacketFollows(f, f.packets[i], f.packets[i + 1])
  BY <1>1, <1>4, Zenon DEF Encodes
<1> QED
  BY <1>2, <1>4, <1>5

\* The colour of a pixel of a packet.
LEMMA PacketPixel ==
  ASSUME NEW f, NEW p, p.first \in Nat, PacketEncodes(f, p), NEW n \in Nat,
         NEW l \in Nat, l = PacketLength(f, p.at), p.first <= n, n < p.first + l
  PROVE  IsPixel(f, n, Texel(f, p.at + 1 + (IF Repeats(f, p.at) THEN 0
                                            ELSE (n - p.first) * TexelSize(f))))
<1>1. n \in p.first .. p.first + l - 1
  OBVIOUS
<1> QED
  BY <1>1, Zenon DEF PacketEncodes, IsPixel

\* All that is drawn when a packed picture's last pixel is.
LEMMA AllDecoded ==
  ASSUME NEW f, PictureSized(f), Packed(f), NEW n \in Nat, n >= f.width * f.height,
         NEW c, Decoded(f, n, c), NEW x \in 0 .. f.width - 1, NEW y \in 0 .. f.height - 1,
         ShownAs(f, y) >= 0
  PROVE  c[y * f.width + x] = f.picture[ShownAs(f, y) * f.width + x]
<1>1. PICK w \in Nat \ {0} : w = f.width
  BY DEF PictureSized
<1>2. PICK h \in Nat \ {0} : h = f.height
  BY DEF PictureSized
<1>3. PICK k : k = PixelNumber(f, x, y)
  OBVIOUS
<1>4. k \in Nat
  <2>1. \A z \in Nat : z * w + x \in Nat
    BY <1>1, ProductNatural
  <2>2. CASE f.topleft
    BY <1>1, <1>3, <2>1, <2>2 DEF PixelNumber
  <2>3. CASE ~ f.topleft
    <3>1. h - y \in Nat
      BY <1>2
    <3> QED
      BY <1>1, <1>2, <1>3, <2>1, <2>3, <3>1 DEF PixelNumber
  <2> QED
    BY <2>2, <2>3
<1>5. k < f.width * f.height
  BY <1>3, <1>4, NumberedPixel, PlaceShown
<1>6. k < n
  <2>1. PICK a \in Nat : a = f.width * f.height
    BY <1>1, <1>2, ProductNatural
  <2> QED
    BY <2>1, <1>4, <1>5
<1> QED
  BY <1>3, <1>6, Zenon DEF Decoded

\* Where put_targa is in a picture without packets: n pixels are drawn.
PlainAt(f, n) ==
  /\ n < f.width * f.height
  /\ tx = n % f.width /\ ty = n \div f.width
  /\ ptr = Place(f, n)
  /\ Copies(f, n, canvas)

\* Before packet i.
PacketAt(f, p) ==
  /\ ptr = p.at /\ end = FALSE
  /\ Reached(f, p.first, tx, ty) /\ Decoded(f, p.first, canvas)

\* In a packet, before pixel n of the file.
RunAt(f, p, n) ==
  /\ p.first <= n /\ n < p.first + PacketLength(f, p.at)
  /\ run = p.first + PacketLength(f, p.at) - n
  /\ repeated = IF Repeats(f, p.at) THEN Texel(f, p.at + 1) ELSE Garbage
  /\ ptr = p.at + 1 + (IF Repeats(f, p.at) THEN 1 ELSE n - p.first) * TexelSize(f)
  /\ end <=> n >= f.width * f.height
  /\ Reached(f, n, tx, ty) /\ Decoded(f, n, canvas)

TargaAt(f) ==
  /\ tpc \in {"open", "plain", "packet", "run", "drawn", "refused"}
  /\ tpc = "open" => tx = 0 /\ ty = 0 /\ end = FALSE
  /\ tpc \in {"plain", "packet", "run", "drawn"} => Accepted(f)
  /\ tpc = "plain" => ~ Packed(f) /\ \E n \in Nat : PlainAt(f, n)
  /\ tpc = "packet" => Packed(f) /\ \E i \in DOMAIN f.packets : PacketAt(f, f.packets[i])
  /\ tpc = "run" => Packed(f) /\ \E i \in DOMAIN f.packets, n \in Nat : RunAt(f, f.packets[i], n)

\* The picture is drawn.
Shown(f, c) ==
  \A x \in 0 .. f.width - 1, y \in 0 .. f.height - 1 :
    ShownAs(f, y) >= 0 => c[y * f.width + x] = f.picture[ShownAs(f, y) * f.width + x]

\* A picture that is shown is decoded.
LEMMA ShownDecoded ==
  ASSUME tpc = "drawn" => Shown(tga, canvas)
  PROVE  LogoDecoded
<1> SUFFICES ASSUME tpc = "drawn", Packed(tga) => tga.topleft
             PROVE  GivesBack
  BY DEF LogoDecoded
<1>1. PICK f : f = tga
  OBVIOUS
<1>2. \A y : ShownAs(f, y) = y
  BY <1>1 DEF ShownAs
<1>3. Shown(f, canvas)
  BY <1>1
<1>4. \A x \in 0 .. f.width - 1, y \in 0 .. f.height - 1 :
        canvas[y * f.width + x] = f.picture[y * f.width + x]
  BY <1>2, <1>3 DEF Shown
<1> QED
  BY <1>1, <1>4 DEF GivesBack

\* put_targa begins with the first pixel of the file, or refuses it.
LEMMA OpenAt ==
  ASSUME NEW f, f = tga, PictureSized(f), Accepted(f) => Encodes(f), TargaAt(f), OpenTarga
  PROVE  TargaAt(f)' /\ tpc' # "drawn"
<1>1. PICK w \in Nat \ {0} : w = f.width
  BY DEF PictureSized
<1>2. PICK h \in Nat \ {0} : h = f.height
  BY DEF PictureSized
<1>3. tpc = "open" /\ tx = 0 /\ ty = 0 /\ end = FALSE
  BY DEF OpenTarga, TargaAt
<1>4. tx' = 0 /\ end' = FALSE /\ canvas' = canvas
  BY <1>3 DEF OpenTarga
<1>5. 0 % w = 0 /\ 0 \div w = 0
  <2>1. (w * 0 + 0) % w = 0 /\ (w * 0 + 0) \div w = 0
    BY QuotientUnique
  <2> QED
    BY <2>1
<1>6. CASE ~ Accepted(f)
  BY <1>6, <1>3 DEF OpenTarga, TargaAt
<1>7. CASE Accepted(f) /\ ~ Packed(f)
  <2>1. tpc' = "plain" /\ ty' = 0 /\ ptr' = IF f.topleft THEN 0 ELSE f.width * (f.height - 1)
    BY <1>7 DEF OpenTarga
  <2>2. ptr' = Place(f, 0)
    BY <2>1, <1>1, <1>2, <1>5 DEF Place
  <2>3. 0 < f.width * f.height
    <3>1. w * 0 + w <= w * h
      BY MultiplesApart
    <3> QED
      BY <3>1, <1>1, <1>2
  <2>4. Copies(f, 0, canvas')
    <3>1. \A x \in 0 .. w - 1, y \in 0 .. h - 1 : y * w + x \in Nat
      BY ProductNatural
    <3>2. \A x \in 0 .. w - 1, y \in 0 .. h - 1 : ~ (y * w + x < 0)
      BY <3>1
    <3> QED
      BY <3>2, <1>1, <1>2, Zenon DEF Copies
  <2>5. PlainAt(f, 0)'
    BY <2>1, <2>2, <2>3, <2>4, <1>1, <1>4, <1>5 DEF PlainAt
  <2> QED
    BY <2>1, <2>5, <1>7 DEF TargaAt
<1>8. CASE Accepted(f) /\ Packed(f)
  <2>1. tpc' = "packet" /\ ty' = (IF f.topleft THEN 0 ELSE f.height) /\ ptr' = ImageData(f)
    BY <1>8 DEF OpenTarga
  <2>2. 1 \in DOMAIN f.packets /\ f.packets[1].at = ImageData(f) /\ f.packets[1].first = 0
    BY <1>8, FirstPacket
  <2>3. Reached(f, 0, tx', ty')
    BY <2>1, <1>1, <1>2, <1>4, <1>5 DEF Reached
  <2>4. Decoded(f, 0, canvas')
    <3>1. \A x \in 0 .. w - 1, y \in 0 .. h - 1 : y * w + x \in Nat /\ (h - y) * w + x \in Nat
      BY ProductNatural
    <3>2. \A x \in 0 .. w - 1, y \in 0 .. h - 1 : ~ (PixelNumber(f, x, y) < 0)
      BY <3>1, <1>1, <1>2 DEF PixelNumber
    <3> QED
      BY <3>2, <1>1, <1>2, Zenon DEF Decoded
  <2>5. PacketAt(f, f.packets[1])'
    BY <2>1, <2>2, <2>3, <2>4, <1>4, Zenon DEF PacketAt
  <2> QED
    BY <2>1, <2>2, <2>5, <1>8 DEF TargaAt
<1> QED
  BY <1>6, <1>7, <1>8

\* The pixel at a place of a picture without packets.
LEMMA PlainColour ==
  ASSUME NEW f, PictureSized(f), Encodes(f), ~ Packed(f), NEW n \in Nat, n < f.width * f.height
  PROVE  Texel(f, ImageData(f) + Place(f, n) * TexelSize(f)) = f.picture[n]
<1>1. PICK k : k = Place(f, n)
  OBVIOUS
<1>2. k \in 0 .. f.width * f.height - 1 /\ Place(f, k) = n
  BY <1>1, PlaceTwice
<1>3. f.picture[Place(f, k)] = Texel(f, ImageData(f) + k * TexelSize(f))
  BY <1>2, Zenon DEF Encodes
<1> QED
  BY <1>1, <1>2, <1>3, Zenon

\* The rows are drawn when n pixels are, and not before.
LEMMA PlainEnd ==
  ASSUME NEW f, PictureSized(f), NEW n \in Nat, n < f.width * f.height
  PROVE  /\ (n + 1) \div f.width # f.height => n + 1 < f.width * f.height
         /\ (n + 1) \div f.width = f.height => n + 1 >= f.width * f.height
<1>1. PICK w \in Nat \ {0} : w = f.width
  BY DEF PictureSized
<1>2. PICK h \in Nat \ {0} : h = f.height
  BY DEF PictureSized
<1>3. PICK m \in Nat : m = n + 1
  OBVIOUS
<1>4. PICK c \in 0 .. w - 1 : c = m % w
  BY Division
<1>5. PICK q \in Nat : q = m \div w
  BY Division
<1>6. m = q * w + c
  <2>1. m = w * q + c
    BY <1>4, <1>5, Division
  <2> QED
    BY <2>1
<1>7. PICK a \in Nat : a = w * h
  BY ProductNatural
<1>8. m < a <=> q < h
  BY <1>6, <1>7, RowsReached
<1>9. q <= h
  <2>1. CASE q > h
    <3>1. w * h + w <= w * q
      BY <2>1, MultiplesApart
    <3>2. n < a
      BY <1>1, <1>2, <1>7
    <3>3. w * q = q * w /\ w * q \in Nat
      BY ProductNatural
    <3> QED
      BY <3>1, <3>2, <3>3, <1>3, <1>6, <1>7
  <2> QED
    BY <2>1
<1> QED
  BY <1>1, <1>2, <1>3, <1>5, <1>7, <1>8, <1>9

\* A pixel of a picture without packets.
LEMMA PlainStep ==
  ASSUME NEW f, f = tga, PictureSized(f), Encodes(f), Inside(canvas, f.width, f.height),
         TargaAt(f), PlainPixel
  PROVE  TargaAt(f)' /\ (tpc' = "drawn" => Shown(f, canvas'))
<1>1. PICK w \in Nat \ {0} : w = f.width
  BY DEF PictureSized
<1>2. PICK h \in Nat \ {0} : h = f.height
  BY DEF PictureSized
<1>3. tpc = "plain" /\ tpc' \in {"plain", "drawn"}
  BY DEF PlainPixel
<1>4. Accepted(f) /\ ~ Packed(f)
  BY <1>3 DEF TargaAt
<1>5. PICK n \in Nat : PlainAt(f, n)
  BY <1>3 DEF TargaAt
<1>6. n < f.width * f.height /\ tx = n % f.width /\ ty = n \div f.width
      /\ ptr = Place(f, n) /\ Copies(f, n, canvas)
  BY <1>5 DEF PlainAt
<1>7. Copies(f, n + 1, canvas')
  <2>1. canvas' = PutPixel(canvas, f.width, f.height, tx, ty, f.picture[n])
    <3>1. canvas' = PutPixel(canvas, f.width, f.height, tx, ty,
                             Texel(f, ImageData(f) + ptr * TexelSize(f)))
      BY Zenon DEF PlainPixel, Draw
    <3> QED
      BY <3>1, <1>4, <1>6, PlainColour
  <2> QED
    BY <2>1, <1>6, PlainDrawn
<1>8. PICK x \in 0 .. w - 1 : x = n % w
  BY Division
<1>9. IF x + 1 = w THEN (n + 1) % w = 0 /\ (n + 1) \div w = (n \div w) + 1
      ELSE (n + 1) % w = x + 1 /\ (n + 1) \div w = n \div w
  <2>1. IF (n % w) + 1 < w
          THEN (n + 1) % w = (n % w) + 1 /\ (n + 1) \div w = n \div w
          ELSE (n % w) + 1 = w /\ (n + 1) % w = 0 /\ (n + 1) \div w = (n \div w) + 1
    BY NextColumnOrLine
  <2> QED
    BY <2>1, <1>8
<1>10. tx = x
  BY <1>1, <1>6, <1>8
<1>11. EndOfRow <=> x + 1 = w
  BY <1>1, <1>10 DEF EndOfRow
<1>12. tx' = (n + 1) % f.width
  <2>1. tx' = IF x + 1 = w THEN 0 ELSE x + 1
    BY <1>10, <1>11 DEF PlainPixel, NextColumn
  <2> QED
    BY <2>1, <1>1, <1>9, Zenon
<1>13. ty' = (n + 1) \div f.width
  <2>1. ty' = IF x + 1 = w THEN ty + 1 ELSE ty
    BY <1>11 DEF PlainPixel
  <2> QED
    BY <2>1, <1>1, <1>6, <1>9, Zenon
<1>14. ptr' = Place(f, n + 1)
  <2>1. ptr' = Place(f, n) + 1 - (IF x + 1 = w /\ ~ f.topleft THEN 2 * w ELSE 0)
    BY <1>1, <1>6, <1>11, Zenon DEF PlainPixel
  <2> QED
    BY <2>1, <1>1, <1>8, PlaceNext
<1>15. tpc' = IF (n + 1) \div f.width = f.height THEN "drawn" ELSE "plain"
  BY <1>13 DEF PlainPixel
<1>16. CASE tpc' = "plain"
  <2>1. n + 1 < f.width * f.height
    BY <1>6, <1>15, <1>16, PlainEnd
  <2>2. PlainAt(f, n + 1)'
    BY <2>1, <1>7, <1>12, <1>13, <1>14, Zenon DEF PlainAt
  <2>3. n + 1 \in Nat
    OBVIOUS
  <2> QED
    BY <2>2, <2>3, <1>4, <1>16, Zenon DEF TargaAt
<1>17. CASE tpc' = "drawn"
  <2>1. n + 1 >= f.width * f.height
    BY <1>6, <1>15, <1>17, PlainEnd
  <2>2. ASSUME NEW u \in 0 .. f.width - 1, NEW v \in 0 .. f.height - 1
        PROVE  canvas'[v * f.width + u] = f.picture[v * f.width + u]
    <3>1. PICK o \in Nat : o = v * w + u
      BY <1>1, <1>2, ProductNatural
    <3>2. PICK a \in Nat : a = w * h
      BY ProductNatural
    <3>3. o < a
      <4>1. u \in 0 .. w - 1 /\ v \in 0 .. h - 1
        BY <1>1, <1>2
      <4>2. v * w + u \in 0 .. w * h - 1
        BY <4>1, OffsetInside
      <4> QED
        BY <4>2, <3>1, <3>2
    <3>4. v * f.width + u < n + 1
      BY <3>1, <3>2, <3>3, <2>1, <1>1, <1>2
    <3> QED
      BY <3>4, <1>7, Zenon DEF Copies
  <2>3. Shown(f, canvas')
    BY <2>2, <1>4 DEF Shown, ShownAs
  <2> QED
    BY <2>3, <1>4, <1>17 DEF TargaAt
<1> QED
  BY <1>3, <1>16, <1>17

\* A packet begins: its first pixel is the next one.
LEMMA PacketStep ==
  ASSUME NEW f, f = tga, PictureSized(f), Encodes(f), TargaAt(f), Packet
  PROVE  TargaAt(f)' /\ tpc' = "run"
<1>1. tpc = "packet" /\ tpc' = "run"
  BY DEF Packet
<1>2. Accepted(f) /\ Packed(f)
  BY <1>1 DEF TargaAt
<1>3. PICK i \in DOMAIN f.packets : PacketAt(f, f.packets[i])
  BY <1>1 DEF TargaAt
<1>4. PICK p : p = f.packets[i]
  OBVIOUS
<1>5. ptr = p.at /\ end = FALSE /\ Reached(f, p.first, tx, ty) /\ Decoded(f, p.first, canvas)
  BY <1>3, <1>4 DEF PacketAt
<1>6. PICK n \in Nat : n = p.first
  BY <1>2, <1>4, PacketFields
<1>7. n < f.width * f.height
  BY <1>2, <1>4, <1>6, PacketFields
<1>8. PICK l \in Nat : l = PacketLength(f, p.at) /\ 1 <= l
  BY PacketLengths
<1>9. UNCHANGED <<tga, tx, ty, end, canvas>> /\ run' = l
      /\ repeated' = IF Repeats(f, p.at) THEN Texel(f, p.at + 1) ELSE Garbage
  BY <1>5, <1>8 DEF Packet
<1>10. ptr' = p.at + 1 + (IF Repeats(f, p.at) THEN 1 ELSE n - p.first) * TexelSize(f)
  <2>1. ptr' = p.at + 1 + (IF Repeats(f, p.at) THEN TexelSize(f) ELSE 0)
    BY <1>5 DEF Packet
  <2>2. PICK z \in Nat : z = TexelSize(f)
    BY TexelSizes
  <2>3. n - p.first = 0 /\ 1 * z = z /\ 0 * z = 0
    BY <1>6
  <2>4. (IF Repeats(f, p.at) THEN 1 ELSE n - p.first) * z = (IF Repeats(f, p.at) THEN z ELSE 0)
    BY <2>3
  <2> QED
    BY <2>1, <2>2, <2>4, Zenon
<1>11. end' <=> n >= f.width * f.height
  <2>1. PICK a \in Nat : a = f.width * f.height
    BY ProductNatural DEF PictureSized
  <2>2. ~ (n >= a)
    BY <2>1, <1>7
  <2>3. ~ (n >= f.width * f.height)
    BY <2>1, <2>2
  <2>4. end' = FALSE
    BY <1>5, <1>9
  <2> QED
    BY <2>3, <2>4
<1>12. run' = p.first + PacketLength(f, p.at) - n
  <2>1. n + l - n = l
    OBVIOUS
  <2>2. run' = l
    BY <1>9
  <2>3. n + l - n = p.first + PacketLength(f, p.at) - n
    BY <1>6, <1>8, Zenon
  <2> QED
    BY <2>1, <2>2, <2>3, Zenon
<1>13. p.first <= n /\ n < p.first + PacketLength(f, p.at)
  <2>1. n <= n /\ n < n + l
    BY <1>8
  <2> QED
    BY <2>1, <1>6, <1>8
<1>14. Reached(f, n, tx', ty') /\ Decoded(f, n, canvas')
  BY <1>5, <1>6, <1>9
<1>15. RunAt(f, p, n)'
  BY <1>9, <1>10, <1>11, <1>12, <1>13, <1>14, Zenon DEF RunAt
<1> QED
  BY <1>1, <1>2, <1>4, <1>15, Zenon DEF TargaAt

\* The colour that is drawn in a packet.
LEMMA RunColour ==
  ASSUME NEW f, PictureSized(f), Encodes(f), Packed(f), NEW i \in DOMAIN f.packets, NEW n \in Nat,
         RunAt(f, f.packets[i], n)
  PROVE  /\ NearEnd(f, n) \/ f.height + 128 > 65536
         /\ IsPixel(f, n, IF repeated = Garbage THEN Texel(f, ptr) ELSE repeated)
<1>1. PICK p : p = f.packets[i]
  OBVIOUS
<1>2. PICK k \in Nat : k = p.first
  BY <1>1, PacketFields
<1>3. PICK l \in Nat : l = PacketLength(f, p.at) /\ l <= 128
  BY PacketLengths
<1>4. /\ k <= n /\ n < k + l
      /\ repeated = IF Repeats(f, p.at) THEN Texel(f, p.at + 1) ELSE Garbage
      /\ ptr = p.at + 1 + (IF Repeats(f, p.at) THEN 1 ELSE n - p.first) * TexelSize(f)
  BY <1>1, <1>2, <1>3, Zenon DEF RunAt
<1>5. NearEnd(f, n) \/ f.height + 128 > 65536
  <2>1. PICK a \in Nat : a = f.width * f.height
    BY ProductNatural DEF PictureSized
  <2>2. k < a
    BY <1>1, <1>2, <2>1, PacketFields
  <2>3. n <= a + 127
    BY <2>2, <1>3, <1>4
  <2>4. PICK h \in Nat : h = f.height
    BY DEF PictureSized
  <2> QED
    BY <2>1, <2>3, <2>4 DEF NearEnd
<1>6. IsPixel(f, n, Texel(f, p.at + 1 + (IF Repeats(f, p.at) THEN 0
                                         ELSE (n - p.first) * TexelSize(f))))
  BY <1>1, <1>2, <1>3, <1>4, PacketFields, PacketPixel
<1>7. ASSUME Repeats(f, p.at)
      PROVE  IsPixel(f, n, IF repeated = Garbage THEN Texel(f, ptr) ELSE repeated)
  <2>1. PICK b \in Nat : b = p.at
    BY <1>1, PacketFields
  <2>2. b + 1 + 0 = b + 1
    OBVIOUS
  <2>3. repeated = Texel(f, b + 1) /\ repeated # Garbage
    <3>1. repeated = Texel(f, b + 1)
      BY <1>4, <1>7, <2>1, Zenon
    <3> QED
      BY <3>1, TexelGiven, Zenon
  <2>4. IsPixel(f, n, Texel(f, b + 1 + 0))
    BY <1>6, <1>7, <2>1, Zenon
  <2> QED
    BY <2>2, <2>3, <2>4, Zenon
<1>8. ASSUME ~ Repeats(f, p.at)
      PROVE  IsPixel(f, n, IF repeated = Garbage THEN Texel(f, ptr) ELSE repeated)
  <2>1. repeated = Garbage /\ ptr = p.at + 1 + (n - p.first) * TexelSize(f)
    BY <1>4, <1>8, Zenon
  <2>2. IsPixel(f, n, Texel(f, p.at + 1 + (n - p.first) * TexelSize(f)))
    BY <1>6, <1>8, Zenon
  <2> QED
    BY <2>1, <2>2, Zenon
<1> QED
  BY <1>5, <1>7, <1>8

\* A pixel of a packet, the last of which is followed by the next packet.
LEMMA RunMoves ==
  ASSUME NEW f, f = tga, PictureSized(f), Encodes(f), Packed(f), RunPixel,
         NEW n \in Nat, Reached(f, n, tx, ty)
  PROVE  /\ Reached(f, n + 1, tx', ty')
         /\ EndOfRow /\ EndOfImage(ty') <=> n + 1 = f.width * f.height
<1>1. PICK w \in Nat \ {0} : w = f.width
  BY DEF PictureSized
<1>2. IF tx + 1 = f.width
        THEN /\ Reached(f, n + 1, 0, IF f.topleft THEN ty + 1 ELSE ty - 1)
             /\ (n + 1 = f.width * f.height <=>
                  (IF f.topleft THEN ty + 1 ELSE ty - 1) = (IF f.topleft THEN f.height ELSE 0))
        ELSE /\ Reached(f, n + 1, tx + 1, ty)
             /\ n + 1 # f.width * f.height
  BY NextReached
<1>3. CASE EndOfRow
  <2>1. tx' = 0 /\ ty' = (IF f.topleft THEN ty + 1 ELSE ty - 1) /\ tx + 1 = f.width
    BY <1>3 DEF RunPixel, NextColumn, EndOfRow
  <2>2. EndOfImage(ty') <=> ty' = (IF f.topleft THEN f.height ELSE 0)
    BY Zenon DEF EndOfImage
  <2> QED
    BY <1>2, <1>3, <2>1, <2>2, Zenon
<1>4. CASE ~ EndOfRow
  <2>1. tx' = tx + 1 /\ ty' = ty /\ tx + 1 # f.width
    BY <1>4 DEF RunPixel, NextColumn, EndOfRow
  <2> QED
    BY <1>2, <1>4, <2>1, Zenon
<1> QED
  BY <1>3, <1>4

\* A pixel of a packet: the next one follows, the next packet, or the end.
LEMMA RunStep ==
  ASSUME NEW f, f = tga, PictureSized(f), Encodes(f), LogoSound(f),
         Inside(canvas, f.width, f.height), TargaAt(f), RunPixel
  PROVE  TargaAt(f)' /\ (tpc' = "drawn" => Shown(f, canvas'))
<1>1. tpc = "run" /\ tpc' \in {"run", "packet", "drawn"}
  BY DEF RunPixel
<1>2. Accepted(f) /\ Packed(f)
  BY <1>1 DEF TargaAt
<1>3. PICK i \in DOMAIN f.packets, n \in Nat : RunAt(f, f.packets[i], n)
  BY <1>1 DEF TargaAt
<1>4. PICK p : p = f.packets[i]
  OBVIOUS
<1>5. PICK k \in Nat : k = p.first
  BY <1>2, <1>4, PacketFields
<1>6. PICK l \in Nat : l = PacketLength(f, p.at)
  BY PacketLengths
<1>7. PICK a \in Nat : a = f.width * f.height
  BY ProductNatural DEF PictureSized
<1>8. /\ k <= n /\ n < k + l /\ run = k + l - n
      /\ repeated = IF Repeats(f, p.at) THEN Texel(f, p.at + 1) ELSE Garbage
      /\ ptr = p.at + 1 + (IF Repeats(f, p.at) THEN 1 ELSE n - p.first) * TexelSize(f)
      /\ end <=> n >= a
      /\ Reached(f, n, tx, ty) /\ Decoded(f, n, canvas)
  BY <1>3, <1>4, <1>5, <1>6, <1>7, Zenon DEF RunAt
<1>9. Reached(f, n + 1, tx', ty') /\ (EndOfRow /\ EndOfImage(ty') <=> n + 1 = a)
  BY <1>2, <1>7, <1>8, RunMoves
<1>10. Decoded(f, n + 1, canvas')
  <2>1. PICK colour : colour = IF repeated = Garbage THEN Texel(f, ptr) ELSE repeated
    OBVIOUS
  <2>2. canvas' = PutPixel(canvas, f.width, f.height, tx, ty, colour)
    BY <2>1, Zenon DEF RunPixel, Draw
  <2>3. NearEnd(f, n)
    BY <1>2, <1>3, RunColour DEF PictureSized, LogoSound
  <2>4. IsPixel(f, n, colour)
    BY <1>2, <1>3, <2>1, RunColour
  <2> QED
    BY <1>2, <1>8, <2>2, <2>3, <2>4, PackedPixel
<1>11. end' <=> n + 1 >= a
  <2>1. end' <=> (end \/ n + 1 = a)
    BY <1>9 DEF RunPixel
  <2>2. n >= a \/ n + 1 = a <=> n + 1 >= a
    OBVIOUS
  <2> QED
    BY <1>8, <2>1, <2>2, Zenon
<1>12. run' = k + l - (n + 1) /\ repeated' = repeated
  <2>1. run' = run - 1 /\ repeated' = repeated
    BY DEF RunPixel
  <2>2. k + l - n - 1 = k + l - (n + 1)
    OBVIOUS
  <2> QED
    BY <1>8, <2>1, <2>2
<1>13. tpc' = IF run' > 0 THEN "run" ELSE IF n + 1 >= a THEN "drawn" ELSE "packet"
  BY <1>11 DEF RunPixel
<1>14. ptr' = p.at + 1 + (IF Repeats(f, p.at) THEN 1 ELSE (n + 1) - p.first) * TexelSize(f)
  <2>1. PICK z \in Nat : z = TexelSize(f)
    BY TexelSizes
  <2>2. PICK b \in Nat : b = p.at
    BY <1>2, <1>4, PacketFields
  <2>3. ptr' = IF repeated = Garbage THEN ptr + z ELSE ptr
    BY <2>1 DEF RunPixel
  <2>4. CASE Repeats(f, p.at)
    <3>1. repeated # Garbage
      BY <1>8, <2>4, TexelGiven, Zenon
    <3>2. ptr' = ptr
      BY <2>3, <3>1
    <3> QED
      BY <3>2, <1>8, <2>4, Zenon
  <2>5. CASE ~ Repeats(f, p.at)
    <3>1. repeated = Garbage /\ ptr = b + 1 + (n - k) * z
      BY <1>5, <1>8, <2>1, <2>2, <2>5, Zenon
    <3>2. ptr' = b + 1 + (n - k) * z + z
      BY <2>3, <3>1
    <3>3. (n - k) * z \in Int /\ (n + 1 - k) * z = (n - k) * z + z
      OBVIOUS
    <3>4. b + 1 + (n - k) * z + z = b + 1 + (n + 1 - k) * z
      BY <3>3
    <3>5. ptr' = b + 1 + ((n + 1) - k) * z
      BY <3>2, <3>4
    <3> QED
      BY <1>5, <2>1, <2>2, <2>5, <3>5, Zenon
  <2> QED
    BY <2>4, <2>5
<1>15. CASE tpc' = "run"
  <2>1. n + 1 \in Nat /\ k <= n + 1 /\ n + 1 < k + l
    <3>1. run' > 0
      BY <1>13, <1>15
    <3> QED
      BY <3>1, <1>8, <1>12
  <2>2. RunAt(f, p, n + 1)'
    BY <2>1, <1>5, <1>6, <1>7, <1>8, <1>9, <1>10, <1>11, <1>12, <1>14, Zenon DEF RunAt
  <2> QED
    BY <2>1, <2>2, <1>2, <1>4, <1>15, Zenon DEF TargaAt
<1>16. n + 1 = k + l \/ tpc' = "run"
  BY <1>8, <1>12, <1>13
<1>17. CASE tpc' = "drawn"
  <2>1. n + 1 >= a
    BY <1>13, <1>17
  <2>2. Shown(f, canvas')
    BY <2>1, <1>2, <1>7, <1>10, AllDecoded DEF Shown
  <2> QED
    BY <2>2, <1>2, <1>17 DEF TargaAt
<1>18. CASE tpc' = "packet"
  <2>1. n + 1 = k + l /\ ~ (n + 1 >= a)
    BY <1>13, <1>16, <1>18
  <2>2. ~ (p.first + PacketLength(f, p.at) >= f.width * f.height)
    BY <2>1, <1>5, <1>6, <1>7
  <2>3. i + 1 \in DOMAIN f.packets /\ PacketFollows(f, p, f.packets[i + 1])
    BY <2>2, <1>2, <1>4, NextPacket
  <2>4. PICK q : q = f.packets[i + 1]
    OBVIOUS
  <2>5. q.first = n + 1
    BY <2>1, <2>3, <2>4, <1>5, <1>6, Zenon DEF PacketFollows
  <2>6. (n + 1) - p.first = PacketLength(f, p.at)
    BY <2>1, <1>5, <1>6
  <2>7. ptr' = q.at
    BY <2>3, <2>4, <2>6, <1>14, Zenon DEF PacketFollows
  <2>8. end' = FALSE
    <3>1. end' \in BOOLEAN
      BY DEF RunPixel
    <3> QED
      BY <3>1, <2>1, <1>11
  <2>9. PacketAt(f, q)'
    BY <2>5, <2>7, <2>8, <1>9, <1>10, Zenon DEF PacketAt
  <2> QED
    BY <2>3, <2>4, <2>9, <1>2, <1>18, Zenon DEF TargaAt
<1> QED
  BY <1>1, <1>15, <1>17, <1>18

\* What holds of the drawing of the logo.
EarlyStages == {"serial", "prep_mem", "heap", "init_video", "draw_logo"}

DecodeInv ==
  /\ stage \in EarlyStages => tpc = "open"
  /\ TargaAt(tga)
  /\ tpc = "drawn" => Shown(tga, canvas)

\* The size of the logo of a machine.
LEMMA LogoSize ==
  ASSUME NEW m \in Machines
  PROVE  PictureSized(m.logo)
<1>1. SoundTarga(m.logo)
  BY KernelAssumption
<1> QED
  BY <1>1 DEF SoundTarga, PictureSized

\* put_targa has not begun.
LEMMA DecodeStart ==
  ASSUME Init
  PROVE  DecodeInv
BY DEF Init, TargaInit, DecodeInv, TargaAt

\* A step that leaves the picture alone.
LEMMA DecodeKeeps ==
  ASSUME DecodeInv, UNCHANGED targavars, stage' \in EarlyStages => stage \in EarlyStages
  PROVE  DecodeInv'
<1>1. /\ tga' = tga /\ tpc' = tpc /\ tx' = tx /\ ty' = ty /\ ptr' = ptr /\ run' = run
      /\ repeated' = repeated /\ end' = end /\ canvas' = canvas
  BY DEF targavars
<1>2. TargaAt(tga)' <=> TargaAt(tga)
  BY <1>1 DEF TargaAt, PlainAt, PacketAt, RunAt
<1> QED
  BY <1>1, <1>2 DEF DecodeInv

\* draw_logo makes its buffer before put_targa is called.
LEMMA DecodeBuffer ==
  ASSUME DecodeInv, DrawLogo
  PROVE  DecodeInv'
<1>1. tpc = "open"
  BY DEF DecodeInv, DrawLogo, At, EarlyStages
<1>2. tpc' = tpc /\ tga' = tga /\ tx' = tx /\ ty' = ty /\ end' = end
  BY DEF DrawLogo
<1> QED
  BY <1>1, <1>2 DEF DecodeInv, TargaAt

\* put_targa keeps what holds of its picture.
LEMMA DecodeDraws ==
  ASSUME ShapeInv, DecodeInv, PutTarga, LogoSound(machine.logo)
  PROVE  DecodeInv'
<1>1. tga = machine.logo /\ PictureSized(tga) /\ LogoSound(tga)
  BY LogoSize DEF ShapeInv
<1>2. Inside(canvas, tga.width, tga.height)
  BY DEF ShapeInv, CanvasStages, PutTarga, At
<1>3. stage' \notin EarlyStages
  BY DEF PutTarga, Goto, SerialKpanic, EarlyStages
<1>4. TargaNext /\ TargaAt(tga)
  BY DEF PutTarga, DecodeInv
<1>5. tga' = tga
  BY <1>4, TargaKeeps
<1>6. Accepted(tga) => Encodes(tga)
  BY <1>1 DEF LogoSound
<1>7. PICK f : f = tga
  OBVIOUS
<1>8. TargaAt(f)' /\ (tpc' = "drawn" => Shown(f, canvas'))
  <2>1. CASE OpenTarga
    BY <1>1, <1>4, <1>6, <1>7, <2>1, OpenAt
  <2>2. CASE PlainPixel
    <3>1. Encodes(f)
      BY <1>4, <1>6, <1>7, <2>2 DEF PlainPixel, TargaAt
    <3> QED
      BY <3>1, <1>1, <1>2, <1>4, <1>7, <2>2, PlainStep
  <2>3. CASE Packet
    <3>1. Encodes(f)
      BY <1>4, <1>6, <1>7, <2>3 DEF Packet, TargaAt
    <3> QED
      BY <3>1, <1>1, <1>4, <1>7, <2>3, PacketStep
  <2>4. CASE RunPixel
    <3>1. Encodes(f)
      BY <1>4, <1>6, <1>7, <2>4 DEF RunPixel, TargaAt
    <3> QED
      BY <3>1, <1>1, <1>2, <1>4, <1>7, <2>4, RunStep
  <2> QED
    BY <1>4, <2>1, <2>2, <2>3, <2>4 DEF TargaNext
<1>9. TargaAt(tga)'
  BY <1>5, <1>7, <1>8 DEF TargaAt, PlainAt, PacketAt, RunAt
<1> QED
  BY <1>3, <1>5, <1>7, <1>8, <1>9 DEF DecodeInv

\* Each step of the kernel keeps what holds of the decoding.
LEMMA DecodeStep ==
  ASSUME ShapeInv, DecodeInv, LogoSound(machine.logo), [Next]_vars
  PROVE  DecodeInv'
<1>1. CASE DrawLogo
  BY <1>1, DecodeBuffer
<1>2. CASE PutTarga
  BY <1>2, DecodeDraws
<1>3. ASSUME ~ DrawLogo, ~ PutTarga
      PROVE  UNCHANGED targavars /\ (stage' \in EarlyStages => stage \in EarlyStages)
  BY <1>3 DEF Next, Kmain, vars, kernelvars, Logging, Uart, StartLog, PrepMem, MakeHeap, InitVideo,
    ScaleLogo, Fill, CompositeLogo, Swap, SetFont, InitAcpi, ShowLapic, Kpanic, PanicFrame,
    PanicInner, PanicBox, PanicChar, PanicText, ScalePanic, CompositePanic, KeepButDrawing,
    At, Goto, SerialKpanic, EarlyStages
<1> QED
  BY <1>1, <1>2, <1>3, DecodeKeeps

\* LogoDecoded: every logo that is what its file encodes comes out as it was encoded, whatever
\* the size, the colours and the packets, unless it is packed from the bottom left.
THEOREM DecodeCorrect ==
  ASSUME \A m \in Machines : LogoSound(m.logo)
  PROVE  Spec => []LogoDecoded
<1>1. Init => DecodeInv
  BY DecodeStart
<1>2. ShapeInv /\ DecodeInv /\ [Next]_vars => DecodeInv'
  BY DecodeStep DEF ShapeInv
<1>3. DecodeInv => LogoDecoded
  BY ShownDecoded DEF DecodeInv
<1>4. Spec => []ShapeInv
  BY ShapeCorrect
<1> QED
  BY <1>1, <1>2, <1>3, <1>4, PTL DEF Spec

-----------------------------------------------------------------------------
(* The digits of a number.                                                 *)

\* The recursive function of Digits, up to a bound.
DigitsUpTo(b, n, f) ==
  f = [m \in 0 .. n |-> IF m < b THEN <<m>> ELSE Append(f[m \div b], m % b)]

\* A quotient of itoa is smaller, and not zero before the last digit.
LEMMA Quotient ==
  ASSUME NEW b \in Nat, b >= 2, NEW m \in Nat
  PROVE  /\ m \div b \in Nat /\ m % b \in 0 .. b - 1 /\ m = b * (m \div b) + (m % b)
         /\ m \div b <= m
         /\ m >= b => m \div b < m /\ m \div b >= 1
         /\ m < b => m \div b = 0 /\ m % b = m
<1>1. PICK q \in Nat : q = m \div b
  BY Division
<1>2. PICK r \in 0 .. b - 1 : r = m % b
  BY Division
<1>3. m = b * q + r
  BY <1>1, <1>2, Division
<1>4. b * q >= 2 * q
  <2>1. PICK e \in Nat : b = 2 + e
    <3>1. b - 2 \in Nat /\ b = 2 + (b - 2)
      OBVIOUS
    <3> QED
      BY <3>1
  <2>2. e * q \in Nat
    BY ProductNatural
  <2>3. b * q = 2 * q + e * q
    BY <2>1
  <2> QED
    BY <2>2, <2>3
<1>5. q = 0 => b * q = 0
  OBVIOUS
<1>6. q >= 1 => b * q >= b
  <2>1. ASSUME q >= 1
        PROVE  b * q >= b
    <3>1. PICK e \in Nat : q = e + 1
      <4>1. q - 1 \in Nat /\ q = (q - 1) + 1
        BY <2>1
      <4> QED
        BY <4>1
    <3>2. b * e \in Nat
      BY ProductNatural
    <3>3. b * q = b * e + b
      BY <3>1
    <3> QED
      BY <3>2, <3>3
  <2> QED
    BY <2>1
<1>7. PICK p \in Nat : p = b * q
  BY ProductNatural
<1>8. q <= m /\ (m >= b => q < m /\ q >= 1) /\ (m < b => q = 0 /\ r = m)
  BY <1>3, <1>4, <1>5, <1>6, <1>7
<1> QED
  BY <1>1, <1>2, <1>3, <1>8

\* There is such a function.
LEMMA DigitsExist ==
  ASSUME NEW b \in Nat, b >= 2, NEW n \in Nat
  PROVE  \E f : DigitsUpTo(b, n, f)
<1> DEFINE S == {k \in Nat : \E f : DigitsUpTo(b, k, f)}
<1>1. 0 \in S
  <2> DEFINE f == [m \in 0 .. 0 |-> <<m>>]
  <2>1. f = [m \in 0 .. 0 |-> IF m < b THEN <<m>> ELSE Append(f[m \div b], m % b)]
    OBVIOUS
  <2> QED
    BY <2>1 DEF DigitsUpTo
<1>2. ASSUME NEW k \in S
      PROVE  k + 1 \in S
  <2>1. PICK f : DigitsUpTo(b, k, f)
    OBVIOUS
  <2>2. k \in Nat
    OBVIOUS
  <2> HIDE DEF S
  <2> DEFINE last == IF k + 1 < b THEN <<k + 1>> ELSE Append(f[(k + 1) \div b], (k + 1) % b)
             y == [m \in 0 .. k + 1 |-> IF m = k + 1 THEN last ELSE f[m]]
  <2>3. \A m \in 0 .. k : f[m] = IF m < b THEN <<m>> ELSE Append(f[m \div b], m % b)
    BY <2>1 DEF DigitsUpTo
  <2> HIDE DEF last
  <2>4. ASSUME NEW m \in 0 .. k + 1
        PROVE  y[m] = IF m < b THEN <<m>> ELSE Append(y[m \div b], m % b)
    <3>1. m \div b \in Nat /\ (m >= b => m \div b < m)
      BY <2>2, Quotient
    <3>2. m >= b => m \div b \in 0 .. k /\ y[m \div b] = f[m \div b]
      BY <2>2, <3>1
    <3>3. CASE m = k + 1
      <4>1. y[m] = last
        BY <2>2, <3>3
      <4>2. m < b => last = <<m>>
        BY <3>3 DEF last
      <4>3. ~ (m < b) => last = Append(f[m \div b], m % b) /\ y[m \div b] = f[m \div b]
        BY <2>2, <3>2, <3>3 DEF last
      <4> HIDE DEF y
      <4> QED
        BY <4>1, <4>2, <4>3
    <3>4. CASE m \in 0 .. k
      <4>1. y[m] = f[m]
        BY <2>2, <3>4
      <4> QED
        BY <4>1, <2>2, <2>3, <3>2, <3>4
    <3> QED
      BY <2>2, <3>3, <3>4
  <2>5. DigitsUpTo(b, k + 1, y)
    BY <2>4 DEF DigitsUpTo
  <2> QED
    BY <2>2, <2>5 DEF S
<1>3. S = Nat
  <2> HIDE DEF S
  <2>1. S \in SUBSET Nat
    BY DEF S
  <2> QED
    BY <2>1, <1>1, <1>2, SetInduction
<1> QED
  BY <1>3

\* Where two of them reach, they are the same.
LEMMA DigitsUnique ==
  ASSUME NEW b \in Nat, b >= 2, NEW k \in Nat, NEW n \in Nat, NEW f, NEW g,
         DigitsUpTo(b, k, f), DigitsUpTo(b, n, g), NEW i \in Nat, i <= k, i <= n
  PROVE  f[i] = g[i]
<1>1. \A m \in 0 .. k : f[m] = IF m < b THEN <<m>> ELSE Append(f[m \div b], m % b)
  BY DEF DigitsUpTo
<1>2. \A m \in 0 .. n : g[m] = IF m < b THEN <<m>> ELSE Append(g[m \div b], m % b)
  BY DEF DigitsUpTo
<1> DEFINE S == {j \in Nat : \A m \in 0 .. j : m <= k /\ m <= n => f[m] = g[m]}
<1>3. ASSUME NEW j \in Nat, \A m \in Nat : m < j /\ m <= k /\ m <= n => f[m] = g[m],
             j <= k, j <= n
      PROVE  f[j] = g[j]
  <2>1. j \div b \in Nat /\ (j >= b => j \div b < j)
    BY Quotient
  <2>2. j >= b => f[j \div b] = g[j \div b]
    BY <1>3, <2>1
  <2>3. f[j] = (IF j < b THEN <<j>> ELSE Append(f[j \div b], j % b))
        /\ g[j] = (IF j < b THEN <<j>> ELSE Append(g[j \div b], j % b))
    BY <1>1, <1>2, <1>3
  <2> QED
    BY <2>2, <2>3
<1>4. 0 \in S
  BY <1>3
<1>5. ASSUME NEW j \in S
      PROVE  j + 1 \in S
  <2>1. \A m \in Nat : m < j + 1 /\ m <= k /\ m <= n => f[m] = g[m]
    OBVIOUS
  <2>2. j + 1 <= k /\ j + 1 <= n => f[j + 1] = g[j + 1]
    BY <2>1, <1>3
  <2> QED
    BY <2>1, <2>2
<1>6. S = Nat
  <2> HIDE DEF S
  <2>1. S \in SUBSET Nat
    BY DEF S
  <2> QED
    BY <2>1, <1>4, <1>5, SetInduction
<1> QED
  BY <1>6

\* The digits of a number are those of its quotient, and its remainder.
LEMMA DigitsEquation ==
  ASSUME NEW b \in Nat, b >= 2, NEW n \in Nat
  PROVE  Digits(n, b) = IF n < b THEN <<n>> ELSE Append(Digits(n \div b, b), n % b)
<1> DEFINE from(k) == CHOOSE f : DigitsUpTo(b, k, f)
<1>1. ASSUME NEW k \in Nat
      PROVE  DigitsUpTo(b, k, from(k)) /\ Digits(k, b) = from(k)[k]
  <2>1. DigitsUpTo(b, k, from(k))
    BY DigitsExist
  <2>2. Digits(k, b) = from(k)[k]
    BY DEF Digits, DigitsUpTo
  <2> QED
    BY <2>1, <2>2
<1> HIDE DEF from
<1>2. from(n)[n] = IF n < b THEN <<n>> ELSE Append(from(n)[n \div b], n % b)
  <2>1. DigitsUpTo(b, n, from(n))
    BY <1>1
  <2>2. \A m \in 0 .. n :
          from(n)[m] = IF m < b THEN <<m>> ELSE Append(from(n)[m \div b], m % b)
    BY <2>1 DEF DigitsUpTo
  <2> QED
    BY <2>2
<1>3. n \div b \in Nat /\ n \div b <= n
  BY Quotient
<1>4. from(n)[n \div b] = from(n \div b)[n \div b]
  <2>1. PICK q \in Nat : q = n \div b /\ q <= n
    BY <1>3
  <2>2. DigitsUpTo(b, n, from(n)) /\ DigitsUpTo(b, q, from(q))
    BY <1>1
  <2>3. q <= q
    OBVIOUS
  <2>4. from(n)[q] = from(q)[q]
    BY <2>1, <2>2, <2>3, DigitsUnique
  <2> QED
    BY <2>1, <2>4
<1>5. Digits(n, b) = from(n)[n] /\ Digits(n \div b, b) = from(n \div b)[n \div b]
  BY <1>1, <1>3
<1> QED
  BY <1>2, <1>4, <1>5, Zenon

-----------------------------------------------------------------------------
(* What the log says.                                                      *)

\* The recursive function of FlattenSeq, up to a bound.
FlatUpTo(ss, n, f) ==
  f = [i \in 1 .. n |-> IF i = 1 THEN ss[i] ELSE f[i - 1] \o ss[i]]

\* There is such a function.
LEMMA FlatExists ==
  ASSUME NEW ss, NEW n \in Nat
  PROVE  \E f : FlatUpTo(ss, n, f)
<1> DEFINE S == {k \in Nat : \E f : FlatUpTo(ss, k, f)}
<1>1. 0 \in S
  <2> DEFINE f == [i \in 1 .. 0 |-> ss[i]]
  <2>1. f = [i \in 1 .. 0 |-> IF i = 1 THEN ss[i] ELSE f[i - 1] \o ss[i]]
    OBVIOUS
  <2> QED
    BY <2>1 DEF FlatUpTo
<1>2. ASSUME NEW k \in S
      PROVE  k + 1 \in S
  <2>1. PICK f : FlatUpTo(ss, k, f)
    OBVIOUS
  <2>2. k \in Nat
    OBVIOUS
  <2> HIDE DEF S
  <2> DEFINE last == IF k + 1 = 1 THEN ss[k + 1] ELSE f[k] \o ss[k + 1]
             y == [i \in 1 .. k + 1 |-> IF i = k + 1 THEN last ELSE f[i]]
  <2>3. \A i \in 1 .. k : f[i] = IF i = 1 THEN ss[i] ELSE f[i - 1] \o ss[i]
    BY <2>1 DEF FlatUpTo
  <2> HIDE DEF last
  <2>4. ASSUME NEW i \in 1 .. k + 1
        PROVE  y[i] = IF i = 1 THEN ss[i] ELSE y[i - 1] \o ss[i]
    <3>1. i # 1 => i - 1 \in 1 .. k /\ y[i - 1] = f[i - 1]
      BY <2>2
    <3>2. CASE i = k + 1
      <4>1. y[i] = last
        BY <2>2, <3>2
      <4>2. i = 1 => last = ss[i]
        BY <3>2 DEF last
      <4>3. i # 1 => last = f[i - 1] \o ss[i]
        <5>1. i - 1 = k
          BY <2>2, <3>2
        <5> QED
          BY <5>1, <3>2 DEF last
      <4> HIDE DEF y
      <4> QED
        BY <4>1, <4>2, <4>3, <3>1
    <3>3. CASE i \in 1 .. k
      <4>1. y[i] = f[i]
        BY <2>2, <3>3
      <4> QED
        BY <4>1, <2>3, <3>1, <3>3
    <3> QED
      BY <2>2, <3>2, <3>3
  <2>5. FlatUpTo(ss, k + 1, y)
    BY <2>4 DEF FlatUpTo
  <2> QED
    BY <2>2, <2>5 DEF S
<1>3. S = Nat
  <2> HIDE DEF S
  <2>1. S \in SUBSET Nat
    BY DEF S
  <2> QED
    BY <2>1, <1>1, <1>2, SetInduction
<1> QED
  BY <1>3

\* Sequences that begin alike are flattened alike.
BeginAlike(ss, tt, k) == \A i \in 1 .. k : ss[i] = tt[i]

\* Where the sequences begin alike, so do the functions.
LEMMA FlatUnique ==
  ASSUME NEW ss, NEW tt, NEW k \in Nat, NEW n \in Nat, NEW f, NEW g,
         FlatUpTo(ss, k, f), FlatUpTo(tt, n, g), BeginAlike(ss, tt, k),
         NEW i \in 1 .. k, i <= n
  PROVE  f[i] = g[i]
<1>1. \A j \in 1 .. k : f[j] = IF j = 1 THEN ss[j] ELSE f[j - 1] \o ss[j]
  BY DEF FlatUpTo
<1>2. \A j \in 1 .. n : g[j] = IF j = 1 THEN tt[j] ELSE g[j - 1] \o tt[j]
  BY DEF FlatUpTo
<1> DEFINE S == {j \in Nat : j >= 1 /\ j <= k /\ j <= n => f[j] = g[j]}
<1>3. 0 \in S
  OBVIOUS
<1>4. ASSUME NEW j \in S
      PROVE  j + 1 \in S
  <2>1. j \in Nat /\ (j >= 1 /\ j <= k /\ j <= n => f[j] = g[j])
    OBVIOUS
  <2> HIDE DEF S
  <2>2. ASSUME j + 1 <= k, j + 1 <= n
        PROVE  f[j + 1] = g[j + 1]
    <3>1. PICK m \in 1 .. k : m = j + 1 /\ m <= n /\ m \in 1 .. n /\ m - 1 = j
      BY <2>1, <2>2
    <3>2. f[m] = IF m = 1 THEN ss[m] ELSE f[m - 1] \o ss[m]
      BY <1>1
    <3>3. g[m] = IF m = 1 THEN tt[m] ELSE g[m - 1] \o tt[m]
      BY <1>2, <3>1
    <3>4. m # 1 => f[m - 1] = g[m - 1]
      BY <2>1, <3>1
    <3>5. ss[m] = tt[m]
      BY DEF BeginAlike
    <3>6. f[m] = g[m]
      BY <3>2, <3>3, <3>4, <3>5, Zenon
    <3> QED
      BY <3>1, <3>6
  <2> QED
    BY <2>1, <2>2 DEF S
<1>5. S = Nat
  <2> HIDE DEF S
  <2>1. S \in SUBSET Nat
    BY DEF S
  <2> QED
    BY <2>1, <1>3, <1>4, SetInduction
<1> QED
  BY <1>5

\* A sequence more is put behind the others.
LEMMA FlattenGrows ==
  ASSUME NEW ss \in Seq(Seq(Nat)), NEW tt \in Seq(Seq(Nat)), Len(tt) = Len(ss) + 1,
         \A i \in 1 .. Len(ss) : tt[i] = ss[i]
  PROVE  FlattenSeq(tt) = FlattenSeq(ss) \o tt[Len(ss) + 1]
<1>1. PICK n \in Nat : n = Len(ss)
  BY LenProperties
<1> DEFINE flat(zz) == CHOOSE f : FlatUpTo(zz, Len(zz), f)
<1>2. ASSUME NEW zz \in Seq(Seq(Nat)), Len(zz) # 0
      PROVE  FlatUpTo(zz, Len(zz), flat(zz)) /\ FlattenSeq(zz) = flat(zz)[Len(zz)]
  <2>1. FlatUpTo(zz, Len(zz), flat(zz))
    BY FlatExists, LenProperties
  <2>2. FlattenSeq(zz) = flat(zz)[Len(zz)]
    BY <1>2 DEF FlattenSeq, FlatUpTo
  <2> QED
    BY <2>1, <2>2
<1> HIDE DEF flat
<1>3. FlatUpTo(tt, n + 1, flat(tt)) /\ FlattenSeq(tt) = flat(tt)[n + 1]
  BY <1>1, <1>2
<1>4. \A i \in 1 .. n + 1 : flat(tt)[i] = IF i = 1 THEN tt[i] ELSE flat(tt)[i - 1] \o tt[i]
  BY <1>3 DEF FlatUpTo
<1>5. CASE n = 0
  <2>1. FlattenSeq(tt) = tt[1]
    BY <1>3, <1>4, <1>5
  <2>2. tt[1] \in Seq(Nat)
    BY <1>1, <1>5, ElementOfSeq
  <2>3. ss = << >>
    BY <1>1, <1>5, EmptySeq
  <2>4. FlattenSeq(ss) = << >>
    BY <1>1, <1>5, <2>3 DEF FlattenSeq
  <2>5. << >> \o tt[1] = tt[1]
    BY <2>2, ConcatEmptySeq
  <2> QED
    BY <1>1, <1>5, <2>1, <2>4, <2>5
<1>6. CASE n # 0
  <2>1. FlatUpTo(ss, n, flat(ss)) /\ FlattenSeq(ss) = flat(ss)[n]
    BY <1>1, <1>2, <1>6
  <2>2. n \in 1 .. n /\ n <= n + 1 /\ n + 1 \in Nat /\ n + 1 \in 1 .. n + 1
        /\ n + 1 # 1 /\ (n + 1) - 1 = n
    BY <1>6
  <2>3. BeginAlike(ss, tt, n)
    BY <1>1 DEF BeginAlike
  <2>4. flat(ss)[n] = flat(tt)[n]
    <3>1. PICK f : f = flat(ss)
      OBVIOUS
    <3>2. PICK g : g = flat(tt)
      OBVIOUS
    <3>3. PICK e \in Nat : e = n + 1
      OBVIOUS
    <3>4. FlatUpTo(ss, n, f) /\ FlatUpTo(tt, e, g)
      BY <1>3, <2>1, <3>1, <3>2, <3>3
    <3>5. n \in 1 .. n /\ n <= e
      BY <1>6, <3>3
    <3>6. f[n] = g[n]
      BY <2>3, <3>4, <3>5, FlatUnique
    <3> QED
      BY <3>1, <3>2, <3>6
  <2>5. flat(tt)[n + 1] = flat(tt)[n] \o tt[n + 1]
    BY <1>4, <2>2
  <2> QED
    BY <1>1, <1>3, <2>1, <2>4, <2>5, Zenon
<1> QED
  BY <1>5, <1>6

\* A number has digits: one at least.
LEMMA DigitsSeq ==
  ASSUME NEW b \in Nat, b >= 2, NEW n \in Nat
  PROVE  Digits(n, b) \in Seq(0 .. b - 1) /\ Digits(n, b) # << >>
<1> DEFINE good(m) == Digits(m, b) \in Seq(0 .. b - 1) /\ Digits(m, b) # << >>
           S == {k \in Nat : \A m \in 0 .. k : good(m)}
<1>1. ASSUME NEW m \in Nat, \A k \in Nat : k < m => good(k)
      PROVE  good(m)
  <2>1. Digits(m, b) = IF m < b THEN <<m>> ELSE Append(Digits(m \div b, b), m % b)
    BY DigitsEquation
  <2>2. m \div b \in Nat /\ m % b \in 0 .. b - 1 /\ (m >= b => m \div b < m)
    BY Quotient
  <2>3. CASE m < b
    <3>1. Digits(m, b) = <<m>> /\ m \in 0 .. b - 1
      BY <2>1, <2>3
    <3>2. PICK q : q = <<m>>
      OBVIOUS
    <3>3. PICK D : D = 0 .. b - 1
      OBVIOUS
    <3>4. m \in D
      BY <3>1, <3>3
    <3>5. q \in Seq(D) /\ q # << >>
      BY <3>2, <3>4
    <3>6. Digits(m, b) = q
      BY <3>1, <3>2
    <3> QED
      BY <3>3, <3>5, <3>6
  <2>4. CASE ~ (m < b)
    <3>1. PICK k \in Nat : k = m \div b /\ k < m
      BY <2>2, <2>4
    <3> HIDE DEF good
    <3>2. good(k)
      BY <1>1, <3>1
    <3>3. PICK q \in Seq(0 .. b - 1) : q = Digits(m \div b, b)
      BY <3>1, <3>2 DEF good
    <3>4. PICK r \in 0 .. b - 1 : r = m % b
      BY <2>2
    <3>5. Digits(m, b) = Append(q, r)
      BY <2>1, <2>4, <3>3, <3>4
    <3> QED
      BY <3>5, AppendProperties DEF good
  <2> QED
    BY <2>3, <2>4
<1> HIDE DEF good
<1>2. 0 \in S
  BY <1>1
<1>3. ASSUME NEW k \in S
      PROVE  k + 1 \in S
  <2>1. good(k + 1)
    BY <1>1
  <2> QED
    BY <2>1
<1>4. S = Nat
  <2> HIDE DEF S
  <2>1. S \in SUBSET Nat
    BY DEF S
  <2> QED
    BY <2>1, <1>2, <1>3, SetInduction
<1>5. good(n)
  BY <1>4
<1> QED
  BY <1>5 DEF good

\* What the kernel may hand to the log.
Items ==
  {x \in [kind : {"char", "number"}, value : Nat, base : {0, 10, 16}] :
     x.kind = "number" => x.base \in {10, 16}}

\* An item says a sequence of characters.
LEMMA CharactersSeq ==
  ASSUME NEW x \in Items
  PROVE  Characters(x) \in Seq(Nat)
<1>1. CASE x.kind = "char"
  <2>1. PICK c \in Nat : c = x.value
    BY DEF Items
  <2>2. Characters(x) = <<c>>
    BY <1>1, <2>1 DEF Characters
  <2> QED
    BY <2>2
<1>2. CASE x.kind # "char"
  <2>1. PICK n \in Nat : n = x.value
    BY DEF Items
  <2>2. PICK b \in {10, 16} : b = x.base
    BY <1>2 DEF Items
  <2>3. b \in Nat /\ b >= 2
    OBVIOUS
  <2>4. Characters(x) = Digits(n, b)
    BY <1>2, <2>1, <2>2 DEF Characters
  <2>5. Digits(n, b) \in Seq(0 .. b - 1) /\ 0 .. b - 1 \subseteq Nat
    BY <2>3, DigitsSeq
  <2> QED
    BY <2>4, <2>5, SeqMonotonic
<1> QED
  BY <1>1, <1>2

\* The characters of some items, item by item.
LEMMA CharactersOf ==
  ASSUME NEW s \in Seq(Items)
  PROVE  LET ss == [i \in DOMAIN s |-> Characters(s[i])]
         IN  /\ ss \in Seq(Seq(Nat)) /\ Len(ss) = Len(s)
             /\ \A i \in 1 .. Len(s) : ss[i] = Characters(s[i])
             /\ Says(s) = FlattenSeq(ss)
<1> DEFINE ss == [i \in DOMAIN s |-> Characters(s[i])]
<1>1. PICK n \in Nat : n = Len(s) /\ DOMAIN s = 1 .. n
  BY LenProperties
<1>2. \A i \in 1 .. n : s[i] \in Items
  BY <1>1, ElementOfSeq
<1>3. \A i \in 1 .. n : ss[i] = Characters(s[i]) /\ ss[i] \in Seq(Nat)
  BY <1>1, <1>2, CharactersSeq
<1>4. ss \in [1 .. n -> Seq(Nat)]
  BY <1>1, <1>2, CharactersSeq
<1>5. Says(s) = FlattenSeq(ss)
  BY DEF Says
<1> HIDE DEF ss
<1>6. ss \in Seq(Seq(Nat)) /\ Len(ss) = n
  BY <1>4
<1> QED
  BY <1>1, <1>3, <1>5, <1>6 DEF ss

\* No items say nothing.
LEMMA SaysNothing == Says(<< >>) = << >>
<1>1. [i \in DOMAIN << >> |-> Characters(<< >>[i])] = << >>
  OBVIOUS
<1> QED
  BY <1>1 DEF Says, FlattenSeq

\* An item more.
LEMMA SaysGrows ==
  ASSUME NEW s \in Seq(Items), NEW x \in Items
  PROVE  Says(Append(s, x)) = Says(s) \o Characters(x)
<1>1. PICK t \in Seq(Items) : t = Append(s, x)
  BY AppendProperties
<1>2. PICK n \in Nat : n = Len(s)
  BY LenProperties
<1>3. Len(t) = n + 1 /\ t[n + 1] = x /\ \A i \in 1 .. n : t[i] = s[i]
  BY <1>1, <1>2, AppendProperties
<1>4. PICK ss \in Seq(Seq(Nat)) :
        Len(ss) = n /\ (\A i \in 1 .. n : ss[i] = Characters(s[i])) /\ Says(s) = FlattenSeq(ss)
  BY <1>2, CharactersOf
<1>5. PICK tt \in Seq(Seq(Nat)) :
        /\ Len(tt) = n + 1 /\ (\A i \in 1 .. n + 1 : tt[i] = Characters(t[i]))
        /\ Says(t) = FlattenSeq(tt)
  BY <1>3, CharactersOf
<1>6. \A i \in 1 .. n : tt[i] = ss[i]
  BY <1>3, <1>4, <1>5
<1>7. tt[n + 1] = Characters(x)
  BY <1>3, <1>5
<1>8. FlattenSeq(tt) = FlattenSeq(ss) \o tt[n + 1]
  BY <1>4, <1>5, <1>6, FlattenGrows
<1> QED
  BY <1>1, <1>4, <1>5, <1>7, <1>8, Zenon

\* What all items but the last say, and the last one.
LEMMA LastItem ==
  ASSUME NEW t \in Seq(Items), NEW k \in Nat, Len(t) = k + 1
  PROVE  \E u \in Seq(Items), x \in Items : Len(u) = k /\ t = Append(u, x)
<1>1. k + 1 \in 1 .. Len(t) /\ 1 \in 1 .. Len(t) /\ k \in Int /\ Len(t) \in 1 .. Len(t)
  OBVIOUS
<1>2. PICK x \in Items : x = t[k + 1]
  BY <1>1, ElementOfSeq
<1>3. \A i \in 1 .. k : t[i] \in Items
  BY ElementOfSeq
<1>4. PICK u \in Seq(Items) : u = SubSeq(t, 1, k) /\ Len(u) = k
  <2>1. PICK z : z = SubSeq(t, 1, k)
    OBVIOUS
  <2>2. z \in Seq(Items) /\ Len(z) = IF 1 <= k THEN k - 1 + 1 ELSE 0
    BY <1>3, <2>1, SubSeqProperties
  <2>3. (IF 1 <= k THEN k - 1 + 1 ELSE 0) = k
    OBVIOUS
  <2> QED
    BY <2>1, <2>2, <2>3, Zenon
<1>5. \A i \in 1 .. k : u[i] = t[i]
  <2>1. \A i \in 1 .. k - 1 + 1 : SubSeq(t, 1, k)[i] = t[1 + i - 1]
    BY <1>3, SubSeqProperties
  <2> QED
    BY <2>1, <1>4
<1>6. PICK v \in Seq(Items) : v = Append(u, x)
  BY AppendProperties
<1>7. Len(v) = k + 1 /\ v[k + 1] = x /\ \A i \in 1 .. k : v[i] = u[i]
  BY <1>4, <1>6, AppendProperties
<1>8. \A i \in 1 .. Len(t) : t[i] = v[i]
  BY <1>2, <1>5, <1>7
<1>9. t = v
  BY <1>7, <1>8, SeqEqual
<1> QED
  BY <1>4, <1>6, <1>9

\* Three sequences of characters.
LEMMA Regroup ==
  ASSUME NEW a \in Seq(Nat), NEW b \in Seq(Nat), NEW c \in Seq(Nat)
  PROVE  (a \o b) \o c = a \o (b \o c)
BY ConcatAssociative

\* What some items say is a sequence of characters.
LEMMA SaysSeq ==
  ASSUME NEW s \in Seq(Items)
  PROVE  Says(s) \in Seq(Nat)
<1> DEFINE S == {k \in Nat : \A t \in Seq(Items) : Len(t) = k => Says(t) \in Seq(Nat)}
<1>1. 0 \in S
  <2>1. ASSUME NEW t \in Seq(Items), Len(t) = 0
        PROVE  Says(t) \in Seq(Nat)
    <3>1. t = << >>
      BY <2>1, EmptySeq
    <3>2. Says(t) = << >>
      BY <3>1, SaysNothing
    <3> QED
      BY <3>2, EmptySeq
  <2> QED
    BY <2>1
<1>2. ASSUME NEW k \in S
      PROVE  k + 1 \in S
  <2>1. k \in Nat /\ \A t \in Seq(Items) : Len(t) = k => Says(t) \in Seq(Nat)
    OBVIOUS
  <2> HIDE DEF S
  <2>2. ASSUME NEW t \in Seq(Items), Len(t) = k + 1
        PROVE  Says(t) \in Seq(Nat)
    <3>1. PICK u \in Seq(Items), x \in Items : Len(u) = k /\ t = Append(u, x)
      BY <2>1, <2>2, LastItem
    <3>2. Says(t) = Says(u) \o Characters(x)
      BY <3>1, SaysGrows
    <3>3. Says(u) \in Seq(Nat) /\ Characters(x) \in Seq(Nat)
      BY <2>1, <3>1, CharactersSeq
    <3>4. Says(u) \o Characters(x) \in Seq(Nat)
      BY <3>3, ConcatProperties
    <3> QED
      BY <3>2, <3>4, Zenon
  <2> QED
    BY <2>1, <2>2 DEF S
<1>3. S = Nat
  <2> HIDE DEF S
  <2>1. S \in SUBSET Nat
    BY DEF S
  <2> QED
    BY <2>1, <1>1, <1>2, SetInduction
<1> QED
  BY <1>3, LenProperties

\* What is logged later is said later.
LEMMA SaysConcat ==
  ASSUME NEW s \in Seq(Items), NEW t \in Seq(Items)
  PROVE  Says(s \o t) = Says(s) \o Says(t)
<1> DEFINE S == {k \in Nat : \A u \in Seq(Items) : Len(u) = k => Says(s \o u) = Says(s) \o Says(u)}
<1>1. 0 \in S
  <2>1. ASSUME NEW u \in Seq(Items), Len(u) = 0
        PROVE  Says(s \o u) = Says(s) \o Says(u)
    <3>1. u = << >>
      BY <2>1, EmptySeq
    <3>2. s \o << >> = s
      BY ConcatEmptySeq
    <3>3. Says(s) \o << >> = Says(s)
      BY SaysSeq, ConcatEmptySeq
    <3> QED
      BY <3>1, <3>2, <3>3, SaysNothing, Zenon
  <2> QED
    BY <2>1
<1>2. ASSUME NEW k \in S
      PROVE  k + 1 \in S
  <2>1. k \in Nat /\ \A u \in Seq(Items) : Len(u) = k => Says(s \o u) = Says(s) \o Says(u)
    OBVIOUS
  <2> HIDE DEF S
  <2>2. ASSUME NEW v \in Seq(Items), Len(v) = k + 1
        PROVE  Says(s \o v) = Says(s) \o Says(v)
    <3>1. PICK u \in Seq(Items), x \in Items : Len(u) = k /\ v = Append(u, x)
      BY <2>1, <2>2, LastItem
    <3>2. s \o u \in Seq(Items) /\ <<x>> \in Seq(Items)
      BY ConcatProperties
    <3>3. s \o v = Append(s \o u, x)
      <4>1. v = u \o <<x>>
        BY <3>1, AppendIsConcat
      <4>2. Append(s \o u, x) = (s \o u) \o <<x>>
        BY <3>2, AppendIsConcat
      <4>3. (s \o u) \o <<x>> = s \o (u \o <<x>>)
        BY <3>2, ConcatAssociative
      <4> QED
        BY <4>1, <4>2, <4>3, Zenon
    <3>4. Says(s \o v) = Says(s \o u) \o Characters(x)
      BY <3>2, <3>3, SaysGrows, Zenon
    <3>5. Says(v) = Says(u) \o Characters(x)
      BY <3>1, SaysGrows, Zenon
    <3>6. Says(s \o u) = Says(s) \o Says(u)
      BY <2>1, <3>1
    <3>7. Says(s) \in Seq(Nat) /\ Says(u) \in Seq(Nat) /\ Characters(x) \in Seq(Nat)
      BY SaysSeq, CharactersSeq
    <3>8. (Says(s) \o Says(u)) \o Characters(x) = Says(s) \o (Says(u) \o Characters(x))
      <4>1. PICK a \in Seq(Nat) : a = Says(s)
        BY <3>7
      <4>2. PICK b \in Seq(Nat) : b = Says(u)
        BY <3>7
      <4>3. PICK c \in Seq(Nat) : c = Characters(x)
        BY <3>7
      <4>4. (a \o b) \o c = a \o (b \o c)
        BY Regroup
      <4> QED
        BY <4>1, <4>2, <4>3, <4>4, Zenon
    <3> QED
      BY <3>4, <3>5, <3>6, <3>8, Zenon
  <2> QED
    BY <2>1, <2>2 DEF S
<1>3. S = Nat
  <2> HIDE DEF S
  <2>1. S \in SUBSET Nat
    BY DEF S
  <2> QED
    BY <2>1, <1>1, <1>2, SetInduction
<1> QED
  BY <1>3, LenProperties

\* One item.
LEMMA SaysOne ==
  ASSUME NEW x \in Items
  PROVE  Says(<<x>>) = Characters(x)
<1>1. << >> \in Seq(Items)
  BY EmptySeq
<1>2. Append(<< >>, x) = <<x>>
  OBVIOUS
<1>3. Says(<<x>>) = Says(<< >>) \o Characters(x)
  BY <1>1, <1>2, SaysGrows, Zenon
<1>4. << >> \o Characters(x) = Characters(x)
  BY CharactersSeq, ConcatEmptySeq
<1> QED
  BY <1>3, <1>4, SaysNothing, Zenon

\* The first item.
LEMMA SaysFirst ==
  ASSUME NEW s \in Seq(Items), s # << >>
  PROVE  /\ s[1] \in Items /\ Tail(s) \in Seq(Items)
         /\ Says(s) = Characters(s[1]) \o Says(Tail(s))
<1>1. Len(s) \in Nat \ {0}
  BY EmptySeq
<1>2. PICK x \in Items : x = s[1]
  BY <1>1, ElementOfSeq
<1>3. PICK t \in Seq(Items) : t = Tail(s)
  BY HeadTailProperties
<1>4. s = <<x>> \o t
  BY <1>1, <1>2, <1>3
<1>5. <<x>> \in Seq(Items)
  OBVIOUS
<1>6. Says(<<x>> \o t) = Says(<<x>>) \o Says(t)
  BY <1>5, SaysConcat
<1> QED
  BY <1>2, <1>3, <1>4, <1>6, SaysOne, Zenon

\* The number of the digits grows by one with each division.
LEMMA DigitsLen ==
  ASSUME NEW b \in Nat, b >= 2, NEW n \in Nat
  PROVE  /\ Len(Digits(n, b)) \in Nat \ {0}
         /\ n < b => Len(Digits(n, b)) = 1
         /\ n >= b => Len(Digits(n, b)) = Len(Digits(n \div b, b)) + 1
<1>1. PICK d \in Seq(0 .. b - 1) : d = Digits(n, b) /\ d # << >>
  BY DigitsSeq
<1>2. Len(d) \in Nat \ {0}
  BY <1>1, EmptySeq
<1>3. Digits(n, b) = IF n < b THEN <<n>> ELSE Append(Digits(n \div b, b), n % b)
  BY DigitsEquation
<1>4. PICK q \in Nat : q = n \div b
  BY Quotient
<1>5. PICK r \in 0 .. b - 1 : r = n % b
  BY Quotient
<1>6. PICK e \in Seq(0 .. b - 1) : e = Digits(q, b)
  BY DigitsSeq
<1>7. n < b => Len(d) = 1
  <2>1. Len(<<n>>) = 1
    OBVIOUS
  <2> QED
    BY <2>1, <1>1, <1>3
<1>8. n >= b => Len(d) = Len(e) + 1
  <2>1. Len(Append(e, r)) = Len(e) + 1
    BY AppendProperties
  <2>2. n >= b => d = Append(e, r)
    BY <1>1, <1>3, <1>4, <1>5, <1>6
  <2> QED
    BY <2>1, <2>2
<1> QED
  BY <1>1, <1>2, <1>4, <1>6, <1>7, <1>8

\* A smaller number has no more digits.
LEMMA DigitsMonotonic ==
  ASSUME NEW b \in Nat, b >= 2, NEW n \in Nat, NEW m \in Nat, m <= n
  PROVE  Len(Digits(m, b)) <= Len(Digits(n, b))
<1> DEFINE good(k) == \A j \in Nat : j <= k => Len(Digits(j, b)) <= Len(Digits(k, b))
           S == {k \in Nat : \A i \in 0 .. k : good(i)}
<1>1. ASSUME NEW k \in Nat, \A i \in Nat : i < k => good(i)
      PROVE  good(k)
  <2>1. ASSUME NEW j \in Nat, j <= k
        PROVE  Len(Digits(j, b)) <= Len(Digits(k, b))
    <3>1. CASE j < b
      <4>1. Len(Digits(j, b)) = 1
        BY <3>1, DigitsLen
      <4>2. Len(Digits(k, b)) \in Nat \ {0}
        BY DigitsLen
      <4> QED
        BY <4>1, <4>2
    <3>2. CASE ~ (j < b)
      <4>1. PICK p \in Nat : p = j \div b
        BY Quotient
      <4>2. PICK q \in Nat : q = k \div b
        BY Quotient
      <4>3. q < k /\ k >= b /\ j >= b
        BY <2>1, <3>2, <4>2, Quotient
      <4>4. p <= q
        <5>1. PICK s \in 0 .. b - 1 : s = j % b
          BY Quotient
        <5>2. PICK r \in 0 .. b - 1 : r = k % b
          BY Quotient
        <5>3. j = b * p + s /\ k = b * q + r
          BY <4>1, <4>2, <5>1, <5>2, Quotient
        <5>4. CASE q < p
          <6>1. b * q + b <= b * p
            BY <5>4, MultiplesApart
          <6>2. b * q \in Nat /\ b * p \in Nat
            BY ProductNatural
          <6> QED
            BY <6>1, <6>2, <5>3, <2>1
        <5> QED
          BY <5>4
      <4>5. Len(Digits(p, b)) <= Len(Digits(q, b))
        BY <1>1, <4>3, <4>4
      <4>6. Len(Digits(j, b)) = Len(Digits(p, b)) + 1 /\ Len(Digits(k, b)) = Len(Digits(q, b)) + 1
        BY <4>1, <4>2, <4>3, DigitsLen
      <4>7. Len(Digits(p, b)) \in Nat /\ Len(Digits(q, b)) \in Nat
        BY DigitsLen
      <4> QED
        BY <4>5, <4>6, <4>7
    <3> QED
      BY <3>1, <3>2
  <2> QED
    BY <2>1
<1> HIDE DEF good
<1>2. 0 \in S
  BY <1>1
<1>3. ASSUME NEW k \in S
      PROVE  k + 1 \in S
  <2>1. good(k + 1)
    BY <1>1
  <2> QED
    BY <2>1
<1>4. S = Nat
  <2> HIDE DEF S
  <2>1. S \in SUBSET Nat
    BY DEF S
  <2> QED
    BY <2>1, <1>2, <1>3, SetInduction
<1>5. good(n)
  BY <1>4
<1> QED
  BY <1>5 DEF good

\* Characters that are put out one by one.
Chars(d) == [i \in 1 .. Len(d) |-> Char(d[i])]

\* The characters of a text are items, as many as the text is long.
LEMMA CharsItems ==
  ASSUME NEW d \in Seq(Nat)
  PROVE  Chars(d) \in Seq(Items) /\ Len(Chars(d)) = Len(d)
<1>1. PICK n \in Nat : n = Len(d)
  BY LenProperties
<1>2. \A i \in 1 .. n : d[i] \in Nat
  BY <1>1, ElementOfSeq
<1>3. \A i \in 1 .. n : Char(d[i]) \in Items
  BY <1>2 DEF Char, Items
<1>4. PICK e : e = Chars(d)
  OBVIOUS
<1>5. e \in [1 .. n -> Items]
  BY <1>1, <1>3, <1>4 DEF Chars
<1>6. e \in Seq(Items) /\ Len(e) = n
  BY <1>5
<1> QED
  BY <1>1, <1>4, <1>6

\* They say the text.
LEMMA SaysChars ==
  ASSUME NEW d \in Seq(Nat)
  PROVE  Says(Chars(d)) = d
<1> DEFINE S == {k \in Nat : \A e \in Seq(Nat) : Len(e) = k => Says(Chars(e)) = e}
<1>1. 0 \in S
  <2>1. ASSUME NEW e \in Seq(Nat), Len(e) = 0
        PROVE  Says(Chars(e)) = e
    <3>1. e = << >>
      BY <2>1, EmptySeq
    <3>2. Chars(e) = << >>
      BY <2>1, CharsItems, EmptySeq
    <3> QED
      BY <3>1, <3>2, SaysNothing
  <2> QED
    BY <2>1
<1>2. ASSUME NEW k \in S
      PROVE  k + 1 \in S
  <2>1. k \in Nat /\ \A e \in Seq(Nat) : Len(e) = k => Says(Chars(e)) = e
    OBVIOUS
  <2> HIDE DEF S
  <2>2. ASSUME NEW f \in Seq(Nat), Len(f) = k + 1
        PROVE  Says(Chars(f)) = f
    <3>1. PICK e \in Seq(Nat), c \in Nat : Len(e) = k /\ f = Append(e, c)
      <4>1. \A i \in 1 .. k : f[i] \in Nat
        BY <2>1, <2>2, ElementOfSeq
      <4>2. k + 1 \in 1 .. Len(f) /\ 1 \in Int /\ k \in Int
        BY <2>1, <2>2
      <4>3. PICK c \in Nat : c = f[k + 1]
        BY <4>2, ElementOfSeq
      <4>4. PICK e : e = SubSeq(f, 1, k)
        OBVIOUS
      <4>5. /\ e \in Seq(Nat) /\ Len(e) = IF 1 <= k THEN k - 1 + 1 ELSE 0
            /\ \A i \in 1 .. k - 1 + 1 : e[i] = f[1 + i - 1]
        BY <4>1, <4>2, <4>4, SubSeqProperties
      <4>6. Len(e) = k
        BY <2>1, <4>5
      <4>7. \A i \in 1 .. k : e[i] = f[i]
        BY <2>1, <4>5
      <4>8. PICK g \in Seq(Nat) : g = Append(e, c)
        BY <4>5, AppendProperties
      <4>9. Len(g) = k + 1 /\ g[k + 1] = c /\ \A i \in 1 .. k : g[i] = e[i]
        BY <4>5, <4>6, <4>8, AppendProperties
      <4>10. \A i \in 1 .. Len(f) : f[i] = g[i]
        BY <2>1, <2>2, <4>3, <4>7, <4>9
      <4>11. f = g
        BY <2>2, <4>9, <4>10, SeqEqual
      <4> QED
        BY <4>5, <4>6, <4>8, <4>11
    <3>2. Len(f) = k + 1 /\ f[k + 1] = c /\ \A i \in 1 .. k : f[i] = e[i]
      BY <3>1, AppendProperties
    <3>3. Char(c) \in Items
      BY DEF Char, Items
    <3>4. PICK x \in Items : x = Char(c)
      BY <3>3
    <3>5. PICK s \in Seq(Items) : s = Chars(e) /\ Len(s) = k
      BY <3>1, CharsItems
    <3>6. PICK t \in Seq(Items) : t = Chars(f) /\ Len(t) = k + 1
      BY <2>2, CharsItems
    <3>7. PICK u \in Seq(Items) : u = Append(s, x)
      BY AppendProperties
    <3>8. Len(u) = k + 1 /\ u[k + 1] = x /\ \A i \in 1 .. k : u[i] = s[i]
      BY <3>5, <3>7, AppendProperties
    <3>9. \A i \in 1 .. k : s[i] = Char(e[i])
      BY <3>1, <3>5 DEF Chars
    <3>10. \A i \in 1 .. k + 1 : t[i] = Char(f[i])
      BY <2>2, <3>6 DEF Chars
    <3>11. \A i \in 1 .. k + 1 : t[i] = u[i]
      <4>1. ASSUME NEW i \in 1 .. k
            PROVE  t[i] = u[i]
        <5>1. i \in 1 .. k + 1
          BY <2>1
        <5>2. t[i] = Char(f[i])
          BY <3>10, <5>1
        <5> QED
          BY <5>2, <3>2, <3>8, <3>9, Zenon
      <4>2. t[k + 1] = u[k + 1]
        <5>1. t[k + 1] = Char(f[k + 1])
          BY <2>1, <3>10
        <5> QED
          BY <5>1, <3>2, <3>4, <3>8, Zenon
      <4> QED
        BY <2>1, <4>1, <4>2
    <3>12. t = u
      BY <3>6, <3>8, <3>11, SeqEqual
    <3>13. Says(u) = Says(s) \o Characters(x)
      BY <3>7, SaysGrows
    <3>14. Says(s) = e
      BY <2>1, <3>1, <3>5
    <3>15. Characters(x) = <<c>>
      BY <3>4 DEF Characters, Char
    <3>16. f = e \o <<c>>
      BY <3>1, AppendIsConcat
    <3> QED
      BY <3>6, <3>12, <3>13, <3>14, <3>15, <3>16, Zenon
  <2> QED
    BY <2>1, <2>2 DEF S
<1>3. S = Nat
  <2> HIDE DEF S
  <2>1. S \in SUBSET Nat
    BY DEF S
  <2> QED
    BY <2>1, <1>1, <1>2, SetInduction
<1> QED
  BY <1>3, LenProperties

-----------------------------------------------------------------------------
(* itoa.                                                                   *)

\* The buffer with the digits d behind the terminator, the last one first, and with the
\* terminator behind the digits.
Backward(d, o) == IF o = 0 THEN Nul ELSE d[Len(d) + 1 - o]
Forward(d, o) == IF o = Len(d) THEN Nul ELSE d[o + 1]

\* What is left of the number has the first digits; the others are in the buffer.
DigitsAt(d, b) ==
  /\ number \in Nat \ {0} /\ high \in Nat \ {0} /\ low = 0
  /\ DOMAIN buf = 0 .. high - 1
  /\ Len(d) = Len(Digits(number, b)) + high - 1
  /\ \A j \in 1 .. Len(Digits(number, b)) : d[j] = Digits(number, b)[j]
  /\ \A o \in 0 .. high - 1 : buf[o] = Backward(d, o)

\* What is outside of low and high is flipped.
FlipAt(d) ==
  /\ low \in Nat /\ high \in Nat /\ low + high = Len(d) + 1
  /\ DOMAIN buf = 0 .. Len(d)
  /\ \A o \in 0 .. Len(d) :
       buf[o] = IF low <= o /\ o < high THEN Backward(d, o) ELSE Forward(d, o)

DoneAt(d) == DOMAIN buf = 0 .. Len(d) /\ \A o \in 0 .. Len(d) : buf[o] = Forward(d, o)

\* A digit more.
LEMMA DigitStep ==
  ASSUME NEW b \in Nat, b >= 2, NEW d \in Seq(Nat), DigitsAt(d, b), Digit, todo[1].base = b
  PROVE  \/ logpc' = "digits" /\ DigitsAt(d, b)'
         \/ logpc' = "flip" /\ FlipAt(d)'
<1>1. PICK n \in Nat \ {0} : n = number
  BY DEF DigitsAt
<1>2. PICK q \in Nat : q = n \div b
  BY Quotient
<1>3. PICK r \in 0 .. b - 1 : r = n % b
  BY Quotient
<1>4. n = b * q + r
  BY <1>2, <1>3, Quotient
<1>5. PICK h \in Nat \ {0} : h = high
  BY DEF DigitsAt
<1>6. PICK l \in Nat : l = Len(Digits(n, b))
  BY DigitsLen
<1>7. /\ low = 0 /\ DOMAIN buf = 0 .. h - 1 /\ Len(d) = l + h - 1
      /\ \A j \in 1 .. l : d[j] = Digits(n, b)[j]
      /\ \A o \in 0 .. h - 1 : buf[o] = Backward(d, o)
  BY <1>1, <1>5, <1>6, Zenon DEF DigitsAt
<1>8. /\ number' = q /\ high' = h + 1 /\ low' = 0
      /\ logpc' = IF q = 0 THEN "flip" ELSE "digits"
  BY <1>1, <1>2, <1>5, <1>7 DEF Digit
<1>9. number - (number \div todo[1].base) * todo[1].base = r
  <2>1. n - q * b = r
    <3>1. q * b \in Nat /\ q * b = b * q
      BY ProductNatural
    <3> QED
      BY <3>1, <1>4
  <2> QED
    BY <2>1, <1>1, <1>2
<1>10. DOMAIN buf \cup {high} = 0 .. h
  <2>1. (0 .. h - 1) \cup {h} = 0 .. h
    OBVIOUS
  <2> QED
    BY <2>1, <1>5, <1>7
<1>11. DOMAIN buf' = 0 .. h /\ \A o \in 0 .. h : buf'[o] = IF o = h THEN r ELSE buf[o]
  <2>1. buf' = [o \in DOMAIN buf \cup {high} |->
                 IF o = high THEN number - (number \div todo[1].base) * todo[1].base ELSE buf[o]]
    BY DEF Digit
  <2>2. buf' = [o \in 0 .. h |-> IF o = h THEN r ELSE buf[o]]
    BY <2>1, <1>5, <1>9, <1>10
  <2> QED
    BY <2>2
<1>12. d[l] = r /\ Backward(d, h) = r
  <2>1. Digits(n, b)[l] = r
    <3>1. Digits(n, b) = IF n < b THEN <<n>> ELSE Append(Digits(n \div b, b), n % b)
      BY DigitsEquation
    <3>2. CASE n < b
      <4>1. l = 1 /\ n = r
        BY <3>2, <1>3, <1>6, DigitsLen, Quotient
      <4>2. <<n>>[1] = n
        OBVIOUS
      <4> QED
        BY <3>1, <3>2, <4>1, <4>2
    <3>3. CASE ~ (n < b)
      <4>1. PICK e \in Seq(0 .. b - 1) : e = Digits(q, b)
        BY DigitsSeq
      <4>2. l = Len(e) + 1
        <5>1. n >= b
          BY <3>3
        <5>2. Len(Digits(n, b)) = Len(Digits(n \div b, b)) + 1
          BY <5>1, DigitsLen
        <5> QED
          BY <4>1, <5>2, <1>2, <1>6, Zenon
      <4>3. Digits(n, b) = Append(e, r)
        BY <3>1, <3>3, <4>1, <1>2, <1>3
      <4>4. Append(e, r)[Len(e) + 1] = r
        BY AppendProperties
      <4> QED
        BY <4>2, <4>3, <4>4
    <3> QED
      BY <3>2, <3>3
  <2>2. l \in 1 .. l
    <3>1. l \in Nat \ {0}
      BY <1>6, DigitsLen, Zenon
    <3> QED
      BY <3>1
  <2>3. d[l] = r
    BY <2>1, <2>2, <1>7
  <2>4. Len(d) + 1 - h = l /\ h # 0
    BY <1>7
  <2> QED
    BY <2>3, <2>4, Zenon DEF Backward
<1>13. \A o \in 0 .. h : buf'[o] = Backward(d, o)
  <2>1. ASSUME NEW o \in 0 .. h
        PROVE  buf'[o] = Backward(d, o)
    <3>1. CASE o = h
      BY <3>1, <1>11, <1>12
    <3>2. CASE o \in 0 .. h - 1
      <4>1. o # h
        BY <3>2
      <4> QED
        BY <3>2, <4>1, <1>7, <1>11, Zenon
    <3> QED
      BY <3>1, <3>2
  <2> QED
    BY <2>1
<1>14. CASE q = 0
  <2>1. n < b
    <3>1. b * 0 = 0
      OBVIOUS
    <3> QED
      BY <3>1, <1>4, <1>14
  <2>2. l = 1 /\ Len(d) = h
    <3>1. l = 1
      BY <2>1, <1>6, DigitsLen, Zenon
    <3> QED
      BY <3>1, <1>7
  <2>3. low' = 0 /\ high' = Len(d) + 1 /\ logpc' = "flip"
    BY <2>2, <1>8, <1>14
  <2>4. \A o \in 0 .. h : 0 <= o /\ o < h + 1
    OBVIOUS
  <2>5. \A o \in 0 .. Len(d) :
          buf'[o] = IF low' <= o /\ o < high' THEN Backward(d, o) ELSE Forward(d, o)
    BY <2>2, <2>3, <2>4, <1>13
  <2>6. FlipAt(d)'
    BY <2>2, <2>3, <2>5, <1>11 DEF FlipAt
  <2> QED
    BY <2>3, <2>6
<1>15. CASE q # 0
  <2>1. n >= b
    <3>1. n < b => n \div b = 0
      BY Quotient, Zenon
    <3>2. n < b \/ n >= b
      OBVIOUS
    <3> QED
      BY <3>1, <3>2, <1>2, <1>15
  <2>2. PICK e \in Seq(0 .. b - 1) : e = Digits(q, b)
    BY DigitsSeq
  <2>3. PICK k \in Nat : k = Len(e)
    BY LenProperties
  <2>4. l = k + 1
    <3>1. Len(Digits(n, b)) = Len(Digits(n \div b, b)) + 1
      BY <2>1, DigitsLen
    <3> QED
      BY <2>2, <2>3, <3>1, <1>2, <1>6, Zenon
  <2>5. \A j \in 1 .. k : d[j] = e[j]
    <3>1. Digits(n, b) = IF n < b THEN <<n>> ELSE Append(Digits(n \div b, b), n % b)
      BY DigitsEquation
    <3>2. Digits(n, b) = Append(e, r)
      BY <3>1, <2>1, <2>2, <1>2, <1>3
    <3>3. \A j \in 1 .. k : Append(e, r)[j] = e[j]
      BY <2>3, AppendProperties
    <3>4. \A j \in 1 .. k : j \in 1 .. l
      BY <2>4
    <3> QED
      BY <3>2, <3>3, <3>4, <1>7, Zenon
  <2>6. number' \in Nat \ {0} /\ high' \in Nat \ {0} /\ low' = 0 /\ high' - 1 = h
    BY <1>8, <1>15
  <2>7. Len(d) = k + high' - 1
    BY <2>4, <1>7, <1>8
  <2>8. Digits(number', b) = e
    BY <2>2, <1>8
  <2>9. DigitsAt(d, b)'
    BY <2>3, <2>5, <2>6, <2>7, <2>8, <1>11, <1>13, Zenon DEF DigitsAt
  <2> QED
    BY <2>9, <1>8, <1>15
<1> QED
  BY <1>14, <1>15

\* Two bytes are swapped, or the two offsets have met.
LEMMA FlipStep ==
  ASSUME NEW d \in Seq(Nat), FlipAt(d), Flip
  PROVE  \/ logpc' = "flip" /\ FlipAt(d)'
         \/ logpc' = "done" /\ DoneAt(d)'
<1>1. PICK n \in Nat : n = Len(d)
  BY LenProperties
<1>2. PICK l \in Nat : l = low
  BY DEF FlipAt
<1>3. PICK h \in Nat : h = high
  BY DEF FlipAt
<1>4. /\ l + h = n + 1 /\ DOMAIN buf = 0 .. n
      /\ \A o \in 0 .. n :
           buf[o] = IF l <= o /\ o < h THEN Backward(d, o) ELSE Forward(d, o)
  BY <1>1, <1>2, <1>3 DEF FlipAt
<1>5. CASE ~ (l < h)
  <2>1. logpc' = "done" /\ buf' = buf
    BY <1>2, <1>3, <1>5 DEF Flip
  <2>2. \A o \in 0 .. n : ~ (l <= o /\ o < h)
    BY <1>5
  <2>3. \A o \in 0 .. n : buf[o] = Forward(d, o)
    BY <2>2, <1>4, Zenon
  <2>4. DoneAt(d)'
    BY <2>1, <2>3, <1>1, <1>4, Zenon DEF DoneAt
  <2> QED
    BY <2>1, <2>4
<1>6. CASE l < h
  <2>1. /\ high' = h - 1 /\ low' = l + 1 /\ logpc' = logpc /\ logpc = "flip"
        /\ buf' = [buf EXCEPT ![l] = buf[h - 1], ![h - 1] = buf[l]]
    BY <1>2, <1>3, <1>6 DEF Flip
  <2>2. l \in 0 .. n /\ h - 1 \in 0 .. n /\ l <= h - 1
    BY <1>4, <1>6
  <2>3. /\ DOMAIN buf' = 0 .. n
        /\ \A o \in 0 .. n : buf'[o] = IF o = h - 1 THEN buf[l]
                                      ELSE IF o = l THEN buf[h - 1] ELSE buf[o]
    BY <2>1, <2>2, <1>4
  <2>4. Backward(d, h - 1) = Forward(d, l)
    <3>1. h - 1 = 0 <=> l = n
      BY <1>4
    <3>2. n + 1 - (h - 1) = l + 1
      BY <1>4
    <3> QED
      BY <3>1, <3>2, <1>1 DEF Backward, Forward
  <2>5. Backward(d, l) = Forward(d, h - 1)
    <3>1. l = 0 <=> h - 1 = n
      BY <1>4
    <3>2. n + 1 - l = (h - 1) + 1
      BY <1>4
    <3> QED
      BY <3>1, <3>2, <1>1 DEF Backward, Forward
  <2>6. buf[l] = Backward(d, l) /\ buf[h - 1] = Backward(d, h - 1)
    BY <2>2, <1>4
  <2>7. \A o \in 0 .. n :
          buf'[o] = IF l + 1 <= o /\ o < h - 1 THEN Backward(d, o) ELSE Forward(d, o)
    <3>1. ASSUME NEW o \in 0 .. n
          PROVE  buf'[o] = IF l + 1 <= o /\ o < h - 1 THEN Backward(d, o) ELSE Forward(d, o)
      <4>1. CASE o = h - 1
        <5>1. ~ (o < h - 1)
          BY <4>1
        <5> QED
          BY <4>1, <5>1, <2>3, <2>5, <2>6, Zenon
      <4>2. CASE o = l /\ o # h - 1
        <5>1. ~ (l + 1 <= o)
          BY <4>2
        <5> QED
          BY <4>2, <5>1, <2>3, <2>4, <2>6, Zenon
      <4>3. CASE o # l /\ o # h - 1
        <5>1. (l + 1 <= o /\ o < h - 1) <=> (l <= o /\ o < h)
          BY <4>3, <2>2
        <5> QED
          BY <4>3, <5>1, <2>3, <1>4, Zenon
      <4> QED
        BY <4>1, <4>2, <4>3
    <3> QED
      BY <3>1
  <2>8. low' \in Nat /\ high' \in Nat /\ low' + high' = n + 1
    <3>1. l + 1 \in Nat /\ h - 1 \in Nat /\ (l + 1) + (h - 1) = n + 1
      BY <2>2, <1>4
    <3> QED
      BY <2>1, <3>1, Zenon
  <2>9. FlipAt(d)'
    BY <2>1, <2>3, <2>7, <2>8, <1>1 DEF FlipAt
  <2> QED
    BY <2>1, <2>9
<1> QED
  BY <1>5, <1>6

\* The bytes in front of the terminator are the digits.
LEMMA TerminatorIs ==
  ASSUME NEW d \in Seq(Nat), DoneAt(d)
  PROVE  Terminator = Len(d) /\ [i \in 1 .. Terminator |-> Char(buf[i - 1])] = Chars(d)
<1>1. PICK n \in Nat : n = Len(d)
  BY LenProperties
<1>2. DOMAIN buf = 0 .. n /\ \A o \in 0 .. n : buf[o] = Forward(d, o)
  BY <1>1 DEF DoneAt
<1>3. n \in DOMAIN buf /\ buf[n] = Nul
  BY <1>1, <1>2 DEF Forward
<1>4. \A o \in 0 .. n - 1 : buf[o] = d[o + 1] /\ buf[o] # Nul
  <2>1. ASSUME NEW o \in 0 .. n - 1
        PROVE  buf[o] = d[o + 1] /\ buf[o] # Nul
    <3>1. o \in 0 .. n /\ o # n /\ o + 1 \in 1 .. n
      OBVIOUS
    <3>2. buf[o] = d[o + 1]
      BY <3>1, <1>1, <1>2, Zenon DEF Forward
    <3>3. d[o + 1] \in Nat
      BY <3>1, <1>1, ElementOfSeq
    <3> QED
      BY <3>2, <3>3 DEF Nul
  <2> QED
    BY <2>1
<1>5. ASSUME NEW t \in DOMAIN buf, buf[t] = Nul, \A m \in 0 .. t - 1 : buf[m] # Nul
      PROVE  t = n
  <2>1. t \in 0 .. n
    BY <1>2
  <2>2. ~ (t \in 0 .. n - 1)
    BY <1>4, <1>5
  <2> QED
    BY <2>1, <2>2
<1>6. Terminator = n
  BY <1>3, <1>4, <1>5, Zenon DEF Terminator
<1>7. [i \in 1 .. Terminator |-> Char(buf[i - 1])] = Chars(d)
  <2>1. \A i \in 1 .. n : buf[i - 1] = d[i]
    <3>1. ASSUME NEW i \in 1 .. n
          PROVE  buf[i - 1] = d[i]
      <4>1. i - 1 \in 0 .. n - 1 /\ (i - 1) + 1 = i
        OBVIOUS
      <4> QED
        BY <4>1, <1>4
    <3> QED
      BY <3>1
  <2>2. [i \in 1 .. n |-> Char(buf[i - 1])] = [i \in 1 .. n |-> Char(d[i])]
    BY <2>1, Zenon
  <2> QED
    BY <2>2, <1>1, <1>6, Zenon DEF Chars
<1> QED
  BY <1>1, <1>6, <1>7

-----------------------------------------------------------------------------
(* What is on the line.                                                    *)

\* Items that itoa has room for.
Fitting == {x \in Items : x.kind = "number" => x.value < Word}

\* The settings after each of the writes of serial_init.
UartInv ==
  /\ uart \in [lcr : Nat, dll : Nat, dlm : Nat, ier : Nat]
  /\ written \in 0 .. 7
  /\ written \in 2 .. 4 => uart.lcr = 128
  /\ written >= 3 => uart.dll = 1
  /\ written >= 4 => uart.dlm = 0
  /\ written >= 5 => uart.lcr = 3
  /\ written < 7 => sent = << >> /\ holding = Nul

\* itoa is at the first item that is left.
ItoaInv ==
  /\ logpc \in {"put", "digits", "flip", "done"}
  /\ logpc = "put" => buf = << >>
  /\ logpc # "put" =>
       /\ todo # << >> /\ todo[1].kind = "number"
       /\ logpc = "digits" => DigitsAt(Digits(todo[1].value, todo[1].base), todo[1].base)
       /\ logpc = "flip" => FlipAt(Digits(todo[1].value, todo[1].base))
       /\ logpc = "done" => DoneAt(Digits(todo[1].value, todo[1].base))

\* The line has carried the characters c.
Carried(c) ==
  /\ Len(sent) = Len(c) /\ DOMAIN sent = 1 .. Len(c)
  /\ \A i \in 1 .. Len(c) : sent[i] = [char |-> c[i], divisor |-> 1, line |-> 3]

Held == IF holding = Nul THEN << >> ELSE <<holding>>

\* What was logged is what was sent, what the UART holds, and what is left.
SaidInv ==
  /\ todo \in Seq(Fitting) /\ logged \in Seq(Items)
  /\ holding \in Nat \cup {Nul}
  /\ sent \in Seq([char : Nat, divisor : Nat, line : Nat])
  /\ \E c \in Seq(Nat) : Carried(c) /\ Says(logged) = (c \o Held) \o Says(todo)

LineInv == UartInv /\ ItoaInv /\ SaidInv

\* A sequence of items that fit is one of items.
LEMMA FittingItems ==
  ASSUME NEW s \in Seq(Fitting)
  PROVE  s \in Seq(Items)
<1>1. s \in [1 .. Len(s) -> Fitting] /\ Len(s) \in Nat
  BY LenProperties
<1>2. Fitting \subseteq Items
  BY DEF Fitting
<1>3. s \in [1 .. Len(s) -> Items]
  BY <1>1, <1>2
<1> QED
  BY <1>1, <1>3, SeqDef

\* The first item that is left, and what it says.
LEMMA FirstItem ==
  ASSUME todo \in Seq(Fitting), todo # << >>
  PROVE  /\ todo[1] \in Fitting /\ Tail(todo) \in Seq(Fitting)
         /\ Says(todo) = Characters(todo[1]) \o Says(Tail(todo))
         /\ Says(Tail(todo)) \in Seq(Nat)
<1>1. todo \in Seq(Items)
  BY FittingItems
<1>2. Tail(todo) \in Seq(Fitting) /\ Len(todo) # 0 /\ Len(todo) \in Nat
  BY EmptySeq, HeadTailProperties, LenProperties
<1>3. todo[1] \in Fitting
  BY <1>2, ElementOfSeq
<1>4. Tail(todo) \in Seq(Items)
  BY <1>2, FittingItems
<1> QED
  BY <1>1, <1>2, <1>3, <1>4, SaysFirst, SaysSeq

\* A number has a base and digits.
LEMMA NumberFacts ==
  ASSUME NEW x \in Fitting, x.kind = "number"
  PROVE  /\ x.value \in Nat /\ x.value < Word /\ x.base \in Nat /\ x.base >= 2
         /\ x.base \in {10, 16}
         /\ Digits(x.value, x.base) \in Seq(Nat)
         /\ Digits(x.value, x.base) # << >>
         /\ Characters(x) = Digits(x.value, x.base)
<1>1. x.value \in Nat /\ x.value < Word /\ x.base \in {10, 16}
  BY DEF Fitting, Items
<1>2. x.base \in Nat /\ x.base >= 2
  BY <1>1
<1>3. PICK v \in Nat : v = x.value
  BY <1>1
<1>4. PICK b \in Nat : b = x.base /\ b >= 2
  BY <1>2
<1>5. Digits(v, b) \in Seq(0 .. b - 1) /\ Digits(v, b) # << >>
  BY <1>4, DigitsSeq
<1>6. Digits(v, b) \in Seq(Nat)
  <2>1. \A k : k \in 0 .. b - 1 => k \in Nat
    OBVIOUS
  <2>2. PICK s : s = Digits(v, b)
    OBVIOUS
  <2>3. s \in [1 .. Len(s) -> 0 .. b - 1] /\ Len(s) \in Nat
    BY <1>5, <2>2, LenProperties
  <2>4. s \in [1 .. Len(s) -> Nat]
    BY <2>1, <2>3
  <2> QED
    BY <2>2, <2>3, <2>4, SeqDef
<1>7. Characters(x) = Digits(x.value, x.base)
  <2>1. x.kind # "char"
    OBVIOUS
  <2> QED
    BY <2>1, Zenon DEF Characters
<1> QED
  BY <1>1, <1>2, <1>3, <1>4, <1>5, <1>6, <1>7, Zenon

\* serial_init.
LEMMA ConfigureStep ==
  ASSUME LineInv, Configure
  PROVE  LineInv'
<1>1. UartInv'
  <2>1. /\ written \in 0 .. 6 /\ written' = written + 1 /\ sent' = sent /\ holding' = holding
        /\ sent = << >> /\ holding = Nul
    <3>1. Len(SerialWrites) = 7
      BY DEF SerialWrites
    <3> QED
      BY <3>1 DEF LineInv, UartInv, Configure, SerialReady
  <2>2. PICK r, v : /\ r = SerialWrites[written + 1][1] /\ v = SerialWrites[written + 1][2]
                    /\ uart' = After(r, v)
    BY DEF Configure
  <2>3. /\ written = 0 => r = 1 /\ v = 0
        /\ written = 1 => r = 3 /\ v = 128
        /\ written = 2 => r = 0 /\ v = 1
        /\ written = 3 => r = 1 /\ v = 0
        /\ written = 4 => r = 3 /\ v = 3
        /\ written = 5 => r = 2 /\ v = 199
        /\ written = 6 => r = 4 /\ v = 3
    BY <2>1, <2>2 DEF SerialWrites
  <2>4. PICK a \in Nat, b \in Nat, c \in Nat, d \in Nat :
          uart = [lcr |-> a, dll |-> b, dlm |-> c, ier |-> d]
    BY DEF LineInv, UartInv
  <2>5. uart' = CASE r = 0 /\ a >= 128 -> [lcr |-> a, dll |-> v, dlm |-> c, ier |-> d]
                  [] r = 1 /\ a >= 128 -> [lcr |-> a, dll |-> b, dlm |-> v, ier |-> d]
                  [] r = 1 /\ ~ (a >= 128) -> [lcr |-> a, dll |-> b, dlm |-> c, ier |-> v]
                  [] r = 3 -> [lcr |-> v, dll |-> b, dlm |-> c, ier |-> d]
                  [] OTHER -> [lcr |-> a, dll |-> b, dlm |-> c, ier |-> d]
    BY <2>2, <2>4 DEF After, LatchOpen
  <2>6. /\ written \in 2 .. 4 => a = 128
        /\ written >= 3 => b = 1
        /\ written >= 4 => c = 0
        /\ written >= 5 => a = 3
    BY <2>4 DEF LineInv, UartInv
  <2>7. CASE written \in {0, 1, 2, 3}
    BY <2>1, <2>3, <2>5, <2>6, <2>7 DEF UartInv
  <2>8. CASE written \in {4, 5, 6}
    BY <2>1, <2>3, <2>5, <2>6, <2>8 DEF UartInv
  <2> QED
    BY <2>1, <2>7, <2>8
<1>2. UNCHANGED <<holding, sent, todo, buf, number, low, high, logpc, logged>>
  BY DEF Configure
<1>3. ItoaInv'
  BY <1>2 DEF LineInv, ItoaInv, DigitsAt, FlipAt, DoneAt
<1>4. SaidInv'
  BY <1>2 DEF LineInv, SaidInv, Carried, Held
<1> QED
  BY <1>1, <1>3, <1>4 DEF LineInv

\* A character goes to the UART.
LEMMA SendCharStep ==
  ASSUME LineInv, SendChar
  PROVE  LineInv'
<1>1. /\ SerialReady /\ todo # << >> /\ logpc = "put" /\ todo[1].kind = "char" /\ holding = Nul
      /\ holding' = todo[1].value /\ todo' = Tail(todo)
      /\ UNCHANGED <<uart, sent, written, buf, number, low, high, logpc, logged>>
  BY DEF SendChar, NextIs
<1>2. /\ todo[1] \in Fitting /\ Tail(todo) \in Seq(Fitting)
      /\ Says(todo) = Characters(todo[1]) \o Says(Tail(todo))
      /\ Says(Tail(todo)) \in Seq(Nat)
  BY <1>1, FirstItem DEF LineInv, SaidInv
<1>3. PICK v \in Nat : v = todo[1].value
  BY <1>2 DEF Fitting, Items
<1>4. Characters(todo[1]) = <<v>>
  BY <1>1, <1>3, Zenon DEF Characters
<1>5. UartInv'
  <2>1. written = 7
    BY <1>1 DEF SerialReady, SerialWrites
  <2> QED
    BY <1>1, <2>1 DEF LineInv, UartInv
<1>6. ItoaInv'
  BY <1>1 DEF LineInv, ItoaInv
<1>7. SaidInv'
  <2>1. PICK c \in Seq(Nat) : Carried(c) /\ Says(logged) = (c \o Held) \o Says(todo)
    BY DEF LineInv, SaidInv
  <2>2. Held = << >> /\ Held' = <<v>>
    <3>1. v # Nul
      BY DEF Nul
    <3> QED
      BY <1>1, <1>3, <3>1 DEF Held
  <2>3. PICK s \in Seq(Nat) : s = Says(Tail(todo))
    BY <1>2
  <2>4. c \o << >> = c
    BY ConcatEmptySeq
  <2>5. Says(logged) = c \o (<<v>> \o s)
    BY <2>1, <2>2, <2>3, <2>4, <1>2, <1>4, Zenon
  <2>6. <<v>> \in Seq(Nat)
    OBVIOUS
  <2>7. c \o (<<v>> \o s) = (c \o <<v>>) \o s
    BY <2>6, Regroup
  <2>8. Says(logged)' = (c \o Held') \o Says(todo)'
    BY <2>2, <2>3, <2>5, <2>7, <1>1, Zenon
  <2>9. Carried(c)'
    BY <2>1, <1>1 DEF Carried
  <2> QED
    BY <2>8, <2>9, <1>1, <1>2, <1>3 DEF LineInv, SaidInv
<1> QED
  BY <1>5, <1>6, <1>7 DEF LineInv

\* The UART sends.
LEMMA TransmitStep ==
  ASSUME LineInv, Transmit
  PROVE  LineInv'
<1>1. /\ holding # Nul /\ holding' = Nul
      /\ sent' = Append(sent, [char |-> holding, divisor |-> uart.dlm * 256 + uart.dll,
                               line |-> uart.lcr])
      /\ UNCHANGED <<uart, written, todo, buf, number, low, high, logpc, logged>>
  BY DEF Transmit
<1>2. written = 7
  <2>1. written \in 0 .. 7 /\ (written < 7 => holding = Nul)
    BY DEF LineInv, UartInv
  <2> QED
    BY <2>1, <1>1
<1>3. uart.dll = 1 /\ uart.dlm = 0 /\ uart.lcr = 3
  BY <1>2 DEF LineInv, UartInv
<1>4. UartInv'
  BY <1>1, <1>2, <1>3 DEF LineInv, UartInv
<1>5. ItoaInv'
  BY <1>1 DEF LineInv, ItoaInv, DigitsAt, FlipAt, DoneAt
<1>6. PICK h \in Nat : h = holding
  BY <1>1 DEF LineInv, SaidInv
<1>7. PICK e : e = [char |-> h, divisor |-> 1, line |-> 3]
  OBVIOUS
<1>8. sent' = Append(sent, e)
  BY <1>1, <1>3, <1>6, <1>7
<1>9. SaidInv'
  <2>1. PICK c \in Seq(Nat) : Carried(c) /\ Says(logged) = (c \o Held) \o Says(todo)
    BY DEF LineInv, SaidInv
  <2>2. Held = <<h>> /\ Held' = << >>
    <3>1. holding' = Nul /\ holding # Nul
      BY <1>1
    <3> QED
      BY <3>1, <1>6 DEF Held
  <2>3. PICK f \in Seq(Nat) : f = Append(c, h)
    BY AppendProperties
  <2>4. c \o <<h>> = f /\ f \o << >> = f
    BY <2>3, ConcatEmptySeq, AppendIsConcat
  <2>5. Says(logged)' = (f \o Held') \o Says(todo)'
    BY <2>1, <2>2, <2>4, <1>1, Zenon
  <2>6. e \in [char : Nat, divisor : Nat, line : Nat]
    BY <1>7
  <2>7. sent \in Seq([char : Nat, divisor : Nat, line : Nat])
    BY DEF LineInv, SaidInv
  <2>8. /\ sent' \in Seq([char : Nat, divisor : Nat, line : Nat])
        /\ Len(sent') = Len(sent) + 1 /\ DOMAIN sent' = 1 .. Len(sent) + 1
        /\ \A i \in 1 .. Len(sent) : sent'[i] = sent[i]
        /\ sent'[Len(sent) + 1] = e
    BY <1>8, <2>6, <2>7, AppendProperties, LenProperties
  <2>9. /\ Len(f) = Len(c) + 1 /\ \A i \in 1 .. Len(c) : f[i] = c[i]
        /\ f[Len(c) + 1] = h /\ Len(c) \in Nat
    <3>1. Len(c) \in Nat
      BY LenProperties
    <3> QED
      BY <2>3, <3>1, AppendProperties
  <2>10. Carried(f)'
    <3>1. PICK n \in Nat : n = Len(c) /\ n = Len(sent)
      BY <2>1, <2>9, Zenon DEF Carried
    <3>2. ASSUME NEW i \in 1 .. n + 1
          PROVE  sent'[i] = [char |-> f[i], divisor |-> 1, line |-> 3]
      <4>1. CASE i = n + 1
        BY <4>1, <3>1, <2>8, <2>9, <1>7, Zenon
      <4>2. CASE i \in 1 .. n
        <5>1. sent[i] = [char |-> c[i], divisor |-> 1, line |-> 3]
          BY <4>2, <3>1, <2>1, Zenon DEF Carried
        <5>2. sent'[i] = sent[i] /\ f[i] = c[i]
          BY <4>2, <3>1, <2>8, <2>9
        <5> QED
          BY <5>1, <5>2, Zenon
      <4> QED
        BY <4>1, <4>2
    <3>3. Len(f) = n + 1 /\ Len(sent') = n + 1 /\ DOMAIN sent' = 1 .. n + 1
      BY <3>1, <2>8, <2>9
    <3> QED
      BY <3>2, <3>3, Zenon DEF Carried
  <2> QED
    BY <2>5, <2>8, <2>10, <1>1 DEF LineInv, SaidInv
<1> QED
  BY <1>4, <1>5, <1>9 DEF LineInv

\* itoa's variables say nothing of the UART or of what was said.
LEMMA ItoaOnly ==
  ASSUME LineInv, UNCHANGED <<uart, holding, sent, written, todo, logged>>
  PROVE  UartInv' /\ SaidInv'
<1>1. UartInv'
  BY DEF LineInv, UartInv
<1>2. SaidInv'
  BY DEF LineInv, SaidInv, Carried, Held
<1> QED
  BY <1>1, <1>2

\* itoa begins with a number.
LEMMA StartNumberStep ==
  ASSUME LineInv, StartNumber
  PROVE  LineInv'
<1>1. /\ todo # << >> /\ todo[1].kind = "number" /\ number' = todo[1].value
      /\ low' = 0 /\ high' = 1
      /\ UNCHANGED <<uart, holding, sent, written, todo, logged>>
  BY DEF StartNumber, NextIs
<1>2. UartInv' /\ SaidInv'
  BY <1>1, ItoaOnly
<1>3. todo[1] \in Fitting
  BY <1>1, FirstItem DEF LineInv, SaidInv
<1>4. PICK v \in Nat, b \in Nat : v = todo[1].value /\ b = todo[1].base /\ b >= 2
  BY <1>1, <1>3, NumberFacts
<1>5. PICK d \in Seq(Nat) : d = Digits(v, b)
  BY <1>1, <1>3, <1>4, NumberFacts
<1>6. PICK n \in Nat \ {0} : n = Len(d)
  BY <1>4, <1>5, DigitsLen
<1>7. CASE v = 0
  <2>1. d = <<0>>
    BY <1>4, <1>5, <1>7, DigitsEquation
  <2>2. /\ buf' = [o \in 0 .. 1 |-> IF o = 0 THEN 0 ELSE Nul] /\ logpc' = "done"
    BY <1>4, <1>7 DEF StartNumber
  <2>3. DoneAt(d)'
    <3>1. Len(d) = 1 /\ d[1] = 0
      BY <2>1
    <3>2. DOMAIN buf' = 0 .. Len(d)
      BY <2>2, <3>1
    <3>3. ASSUME NEW o \in 0 .. Len(d)
          PROVE  buf'[o] = Forward(d, o)
      BY <2>2, <3>1 DEF Forward
    <3> QED
      BY <3>2, <3>3, Zenon DEF DoneAt
  <2>4. ItoaInv'
    BY <1>1, <1>4, <1>5, <2>2, <2>3 DEF ItoaInv
  <2> QED
    BY <1>2, <2>4 DEF LineInv
<1>8. CASE v # 0
  <2>1. buf' = [o \in {0} |-> Nul] /\ logpc' = "digits"
    BY <1>4, <1>8 DEF StartNumber
  <2>2. DigitsAt(d, b)'
    <3>1. number' = v /\ v \in Nat \ {0} /\ high' = 1
      BY <1>1, <1>4, <1>8
    <3>2. DOMAIN buf' = 0 .. 1 - 1 /\ \A o \in 0 .. 1 - 1 : buf'[o] = Backward(d, o)
      BY <2>1 DEF Backward
    <3>3. Len(d) = Len(Digits(v, b)) + 1 - 1
      BY <1>5, <1>6
    <3>4. 1 \in Nat \ {0}
      OBVIOUS
    <3> QED
      BY <1>1, <1>5, <3>1, <3>2, <3>3, <3>4, Zenon DEF DigitsAt
  <2>3. ItoaInv'
    BY <1>1, <1>4, <1>5, <2>1, <2>2 DEF ItoaInv
  <2> QED
    BY <1>2, <2>3 DEF LineInv
<1> QED
  BY <1>7, <1>8

\* itoa takes a digit.
LEMMA DigitLine ==
  ASSUME LineInv, Digit
  PROVE  LineInv'
<1>1. /\ logpc = "digits" /\ UNCHANGED <<uart, holding, sent, written, todo, logged>>
  BY DEF Digit
<1>2. /\ todo # << >> /\ todo[1].kind = "number"
      /\ DigitsAt(Digits(todo[1].value, todo[1].base), todo[1].base)
  BY <1>1 DEF LineInv, ItoaInv
<1>3. todo[1] \in Fitting
  BY <1>2, FirstItem DEF LineInv, SaidInv
<1>4. PICK b \in Nat : b = todo[1].base /\ b >= 2
  BY <1>2, <1>3, NumberFacts
<1>5. PICK d \in Seq(Nat) : d = Digits(todo[1].value, todo[1].base)
  BY <1>2, <1>3, NumberFacts
<1>6. \/ logpc' = "digits" /\ DigitsAt(d, b)'
      \/ logpc' = "flip" /\ FlipAt(d)'
  BY <1>2, <1>4, <1>5, DigitStep
<1>7. ItoaInv'
  BY <1>1, <1>2, <1>4, <1>5, <1>6 DEF ItoaInv
<1> QED
  BY <1>1, <1>7, ItoaOnly DEF LineInv

\* itoa flips a pair.
LEMMA FlipLine ==
  ASSUME LineInv, Flip
  PROVE  LineInv'
<1>1. /\ logpc = "flip" /\ UNCHANGED <<uart, holding, sent, written, todo, logged>>
  BY DEF Flip
<1>2. /\ todo # << >> /\ todo[1].kind = "number"
      /\ FlipAt(Digits(todo[1].value, todo[1].base))
  BY <1>1 DEF LineInv, ItoaInv
<1>3. todo[1] \in Fitting
  BY <1>2, FirstItem DEF LineInv, SaidInv
<1>4. PICK d \in Seq(Nat) : d = Digits(todo[1].value, todo[1].base)
  BY <1>2, <1>3, NumberFacts
<1>5. \/ logpc' = "flip" /\ FlipAt(d)'
      \/ logpc' = "done" /\ DoneAt(d)'
  BY <1>2, <1>4, FlipStep
<1>6. ItoaInv'
  BY <1>1, <1>2, <1>4, <1>5 DEF ItoaInv
<1> QED
  BY <1>1, <1>6, ItoaOnly DEF LineInv

\* The characters of some digits are items that fit.
LEMMA CharsFit ==
  ASSUME NEW d \in Seq(Nat)
  PROVE  Chars(d) \in Seq(Fitting)
<1>1. PICK n \in Nat : n = Len(d)
  BY LenProperties
<1>2. ASSUME NEW i \in 1 .. n
      PROVE  Char(d[i]) \in Fitting
  <2>1. Chars(d) \in Seq(Items) /\ Len(Chars(d)) = n
    BY <1>1, CharsItems
  <2>2. Chars(d)[i] \in Items
    BY <2>1, ElementOfSeq
  <2>3. Chars(d)[i] = Char(d[i])
    BY <1>1 DEF Chars
  <2>4. Char(d[i]).kind # "number"
    BY DEF Char
  <2> QED
    BY <2>2, <2>3, <2>4, Zenon DEF Fitting
<1>3. [i \in 1 .. n |-> Char(d[i])] \in [1 .. n -> Fitting]
  BY <1>2
<1>4. Chars(d) = [i \in 1 .. n |-> Char(d[i])]
  BY <1>1 DEF Chars
<1> QED
  BY <1>1, <1>3, <1>4, SeqDef

\* The digits take the number's place.
LEMMA EndNumberStep ==
  ASSUME LineInv, EndNumber
  PROVE  LineInv'
<1>1. /\ logpc = "done" /\ logpc' = "put" /\ buf' = << >>
      /\ todo' = [i \in 1 .. Terminator |-> Char(buf[i - 1])] \o Tail(todo)
      /\ UNCHANGED <<uart, holding, sent, written, logged>>
  BY DEF EndNumber
<1>2. /\ todo # << >> /\ todo[1].kind = "number"
      /\ DoneAt(Digits(todo[1].value, todo[1].base))
  BY <1>1 DEF LineInv, ItoaInv
<1>3. /\ todo[1] \in Fitting /\ Tail(todo) \in Seq(Fitting)
      /\ Says(todo) = Characters(todo[1]) \o Says(Tail(todo))
  BY <1>2, FirstItem DEF LineInv, SaidInv
<1>4. PICK d \in Seq(Nat) : /\ d = Digits(todo[1].value, todo[1].base)
                            /\ d = Characters(todo[1])
  BY <1>2, <1>3, NumberFacts
<1>5. PICK t \in Seq(Fitting) : t = Tail(todo)
  BY <1>3
<1>6. PICK s \in Seq(Fitting) : s = Chars(d) /\ s \in Seq(Items)
  BY CharsFit, CharsItems
<1>7. todo' = s \o t
  BY <1>1, <1>2, <1>4, <1>5, <1>6, TerminatorIs, Zenon
<1>8. UartInv'
  BY <1>1 DEF LineInv, UartInv
<1>9. ItoaInv'
  BY <1>1 DEF ItoaInv
<1>10. SaidInv'
  <2>1. todo' \in Seq(Fitting)
    BY <1>7, ConcatProperties
  <2>2. Says(todo') = Says(todo)
    <3>1. t \in Seq(Items)
      BY FittingItems
    <3>2. Says(s \o t) = Says(s) \o Says(t)
      BY <1>6, <3>1, SaysConcat
    <3>3. Says(s) = d
      BY <1>6, SaysChars
    <3> QED
      BY <1>3, <1>4, <1>5, <1>7, <3>2, <3>3, Zenon
  <2>3. PICK c \in Seq(Nat) : Carried(c) /\ Says(logged) = (c \o Held) \o Says(todo)
    BY DEF LineInv, SaidInv
  <2>4. Carried(c)' /\ Held' = Held
    BY <2>3, <1>1 DEF Carried, Held
  <2>5. Says(logged)' = (c \o Held') \o Says(todo)'
    BY <2>2, <2>3, <2>4, <1>1, Zenon
  <2> QED
    BY <2>1, <2>4, <2>5, <1>1 DEF LineInv, SaidInv
<1> QED
  BY <1>8, <1>9, <1>10 DEF LineInv

\* What the UART holds, as characters.
LEMMA HeldSeq ==
  ASSUME LineInv
  PROVE  Held \in Seq(Nat)
<1>1. holding \in Nat \cup {Nul}
  BY DEF LineInv, SaidInv
<1>2. CASE holding = Nul
  <2>1. Held = << >>
    BY <1>2 DEF Held
  <2> QED
    BY <2>1, EmptySeq
<1>3. CASE holding # Nul
  <2>1. PICK h \in Nat : h = holding
    BY <1>1, <1>3
  <2>2. Held = <<h>>
    BY <1>3, <2>1 DEF Held
  <2> QED
    BY <2>2
<1> QED
  BY <1>2, <1>3

\* The kernel hands over more, when everything is put out.
LEMMA LogStep ==
  ASSUME LineInv, LogIdle, NEW s \in Seq(Fitting), Log(s)
  PROVE  LineInv'
<1>1. /\ todo = << >> /\ todo' = todo \o s /\ logged' = logged \o s
      /\ UNCHANGED <<uart, holding, sent, written, buf, number, low, high, logpc>>
  BY DEF LogIdle, Log
<1>2. todo' = s
  BY <1>1, ConcatEmptySeq
<1>3. s \in Seq(Items)
  BY FittingItems
<1>4. PICK g \in Seq(Items) : g = logged
  BY DEF LineInv, SaidInv
<1>5. UartInv'
  BY <1>1 DEF LineInv, UartInv
<1>6. ItoaInv'
  BY <1>1 DEF LineInv, ItoaInv
<1>7. SaidInv'
  <2>1. g \o s \in Seq(Items)
    BY <1>3, ConcatProperties
  <2>2. Says(g \o s) = Says(g) \o Says(s)
    BY <1>3, SaysConcat
  <2>3. PICK c \in Seq(Nat) : Carried(c) /\ Says(g) = (c \o Held) \o Says(todo)
    BY <1>4 DEF LineInv, SaidInv
  <2>4. Carried(c)' /\ Held' = Held
    BY <2>3, <1>1 DEF Carried, Held
  <2>5. c \o Held \in Seq(Nat)
    BY HeldSeq, ConcatProperties
  <2>6. Says(g) = c \o Held
    <3>1. Says(todo) = << >>
      BY <1>1, SaysNothing
    <3> QED
      BY <2>3, <2>5, <3>1, ConcatEmptySeq
  <2>7. Says(logged)' = (c \o Held') \o Says(todo)'
    BY <1>1, <1>2, <1>4, <2>2, <2>4, <2>6, Zenon
  <2> QED
    BY <1>1, <1>2, <1>4, <2>1, <2>4, <2>7 DEF LineInv, SaidInv
<1> QED
  BY <1>5, <1>6, <1>7 DEF LineInv

\* Nothing is logged at first.
LEMMA LineStart ==
  ASSUME SerialInit
  PROVE  LineInv
<1>1. UartInv
  BY DEF SerialInit, UartInv
<1>2. ItoaInv
  BY DEF SerialInit, ItoaInv
<1>3. SaidInv
  <2>1. /\ todo = << >> /\ logged = << >> /\ holding = Nul /\ sent = << >>
    BY DEF SerialInit
  <2>2. /\ todo \in Seq(Fitting) /\ logged \in Seq(Items)
        /\ sent \in Seq([char : Nat, divisor : Nat, line : Nat])
    BY <2>1, EmptySeq
  <2>3. Held = << >> /\ Says(todo) = << >> /\ Says(logged) = << >>
    BY <2>1, SaysNothing DEF Held
  <2>4. Carried(<< >>)
    BY <2>1, EmptySeq DEF Carried
  <2>5. (<< >> \o << >>) \o << >> = << >>
    OBVIOUS
  <2>6. << >> \in Seq(Nat)
    BY EmptySeq
  <2> QED
    BY <2>1, <2>2, <2>3, <2>4, <2>5, <2>6, Zenon DEF SaidInv
<1> QED
  BY <1>1, <1>2, <1>3 DEF LineInv

\* The serial line works on its own, the UART as well.
LEMMA LineStep ==
  ASSUME LineInv, SerialNext \/ Transmit
  PROVE  LineInv'
BY ConfigureStep, SendCharStep, StartNumberStep, DigitLine, FlipLine, EndNumberStep,
   TransmitStep DEF SerialNext

\* The line carries the beginning of what was said.
LEMMA LineSends ==
  ASSUME LineInv, BuffersLarge
  PROVE  LogSent
<1>1. /\ Len(sent) <= Len(Text)
      /\ \A i \in DOMAIN sent : sent[i] = [char |-> Text[i], divisor |-> 1, line |-> 3]
  <2>1. PICK c \in Seq(Nat) : Carried(c) /\ Says(logged) = (c \o Held) \o Says(todo)
    BY DEF LineInv, SaidInv
  <2>2. PICK g \in Seq(Items) : g = logged
    BY DEF LineInv, SaidInv
  <2>3. PICK h \in Seq(Nat) : h = Held
    BY HeldSeq
  <2>4. PICK r \in Seq(Nat) : r = Says(todo)
    <3>1. todo \in Seq(Fitting)
      BY DEF LineInv, SaidInv
    <3> QED
      BY <3>1, FittingItems, SaysSeq
  <2>5. Text = (c \o h) \o r
    BY <2>1, <2>3, <2>4, Zenon DEF Text
  <2>6. Text = c \o (h \o r) /\ h \o r \in Seq(Nat)
    BY <2>5, Regroup, ConcatProperties
  <2>7. PICK e \in Seq(Nat) : e = h \o r
    BY <2>6
  <2>8. /\ Len(c \o e) = Len(c) + Len(e) /\ Len(c) \in Nat /\ Len(e) \in Nat
        /\ \A i \in 1 .. Len(c) : (c \o e)[i] = c[i]
    BY ConcatProperties, LenProperties
  <2> QED
    BY <2>1, <2>6, <2>7, <2>8 DEF Carried
<1>2. ASSUME todo # << >>, buf # << >>
      PROVE  DOMAIN buf \subseteq 0 .. (IF todo[1].base = 16 THEN HexBuf ELSE DecBuf) - 1
  <2>1. logpc \in {"digits", "flip", "done"} /\ todo[1].kind = "number"
    BY <1>2 DEF LineInv, ItoaInv
  <2>2. todo[1] \in Fitting
    BY <1>2, FirstItem DEF LineInv, SaidInv
  <2>3. PICK v \in Nat, b \in Nat : /\ v = todo[1].value /\ b = todo[1].base /\ b >= 2
                                    /\ v < Word /\ b \in {10, 16}
    BY <2>1, <2>2, NumberFacts
  <2>4. PICK n \in Nat \ {0} : n = Len(Digits(v, b))
    BY <2>3, DigitsLen
  <2>5. PICK w \in Nat : w = Word - 1 /\ v <= w
    BY <2>3, SerialAssumption
  <2>6. n <= Len(Digits(w, b))
    BY <2>3, <2>4, <2>5, DigitsMonotonic, Zenon
  <2>7. PICK m \in Nat : m = Len(Digits(w, b))
    BY <2>3, DigitsLen
  <2>8. n + 1 <= IF b = 16 THEN HexBuf ELSE DecBuf
    <3>1. CASE b = 16
      <4>1. m + 1 <= HexBuf
        BY <3>1, <2>5, <2>7, Zenon DEF BuffersLarge
      <4> QED
        BY <4>1, <3>1, <2>4, <2>6, <2>7, SerialAssumption
    <3>2. CASE b = 10
      <4>1. m + 1 <= DecBuf
        BY <3>2, <2>5, <2>7, Zenon DEF BuffersLarge
      <4> QED
        BY <4>1, <3>2, <2>4, <2>6, <2>7, SerialAssumption
    <3> QED
      BY <2>3, <3>1, <3>2
  <2>9. DOMAIN buf \subseteq 0 .. n
    <3>1. CASE logpc = "digits"
      <4>1. DigitsAt(Digits(v, b), b)
        BY <3>1, <2>3 DEF LineInv, ItoaInv
      <4>2. PICK q \in Nat \ {0} : q = number
        BY <4>1 DEF DigitsAt
      <4>3. PICK l \in Nat \ {0} : l = Len(Digits(q, b))
        BY <2>3, DigitsLen
      <4>4. high \in Nat \ {0} /\ DOMAIN buf = 0 .. high - 1 /\ n = l + high - 1
        BY <4>1, <4>2, <4>3, <2>4, Zenon DEF DigitsAt
      <4> QED
        BY <4>3, <4>4
    <3>2. CASE logpc = "flip"
      BY <3>2, <2>3, <2>4 DEF LineInv, ItoaInv, FlipAt
    <3>3. CASE logpc = "done"
      BY <3>3, <2>3, <2>4 DEF LineInv, ItoaInv, DoneAt
    <3> QED
      BY <2>1, <3>1, <3>2, <3>3
  <2> QED
    BY <2>3, <2>8, <2>9, SerialAssumption
<1> QED
  BY <1>1, <1>2 DEF LogSent

-----------------------------------------------------------------------------
(* What the kernel logs.                                                   *)

\* The address that init_acpi has found so far is a 64-bit number.
AddressInv == AddressesFit(firmware) /\ lapic \in 0 .. Word - 1

LogInv == ShapeInv /\ AcpiInv /\ AddressInv /\ LineInv

\* An MADT that is walked gives such addresses.
LEMMA WalkedFits ==
  ASSUME AcpiInv, AddressInv, acpipc \in {"tables", "madt"}, index \in DOMAIN root.entries
  PROVE  TableFits(Table)
<1>1. place \in ValidRsdps /\ root.entries = Tables(place)
  BY DEF AcpiInv
<1>2. place \in DOMAIN firmware
  BY <1>1 DEF ValidRsdps
<1>3. PICK r : /\ r = IF firmware[place].revision = 0 THEN firmware[place].rsdt
                      ELSE firmware[place].xsdt
               /\ \A i \in DOMAIN r.entries : TableFits(r.entries[i])
  BY <1>2 DEF AddressInv, AddressesFit
<1>4. Tables(place) = r.entries
  BY <1>3 DEF Tables
<1> QED
  BY <1>1, <1>3, <1>4, Zenon DEF Table

\* Where the walk over an MADT is.
LEMMA WalkedPlace ==
  ASSUME AcpiInv, acpipc = "madt"
  PROVE  /\ index \in DOMAIN root.entries /\ Table.apic /\ SoundTable(Table)
         /\ cursor \in DOMAIN Table.entries \/ cursor = Table.length - SdtHeader
<1>1. /\ SoundRoot(root, IF wide THEN 8 ELSE 4)
      /\ index \in Trusted(root.entries)
      /\ cursor \in DOMAIN Table.entries \/ cursor = Table.length - SdtHeader
  BY DEF AcpiInv
<1>2. index \in DOMAIN root.entries /\ Table.apic
  BY <1>1 DEF Trusted, Table
<1>3. SoundTable(Table)
  BY <1>1, <1>2, RootFacts DEF Table
<1> QED
  BY <1>1, <1>2, <1>3

\* A step of init_acpi keeps to such an address.
LEMMA AddressAcpi ==
  ASSUME AcpiInv, AddressInv, AcpiNext
  PROVE  AddressInv'
<1>1. firmware' = firmware
  BY DEF AcpiNext, PassCandidate, TakeRsdp, NoRsdp, PassTable, EnterMadt, MadtEntry, LeaveMadt,
         TablesEnd
<1>2. AddressesFit(firmware)'
  BY <1>1 DEF AddressInv
<1>3. CASE EnterMadt
  <2>1. /\ acpipc = "tables" /\ index <= EntriesCount /\ Table.apic /\ lapic' = Table.lapic32
    BY <1>3 DEF EnterMadt
  <2>2. index \in DOMAIN root.entries
    BY <2>1, RootFacts DEF AcpiInv
  <2>3. TableFits(Table)
    BY <2>1, <2>2, WalkedFits
  <2> QED
    BY <1>2, <2>1, <2>3 DEF AddressInv, TableFits
<1>4. CASE MadtEntry
  <2>1. acpipc = "madt" /\ cursor < MadtEnd
    BY <1>4 DEF MadtEntry
  <2>2. lapic' = IF Table.entries[cursor].kind = LapicOverride
                   THEN Table.entries[cursor].address ELSE lapic
    BY <1>4 DEF MadtEntry
  <2>3. /\ index \in DOMAIN root.entries /\ Table.apic /\ SoundTable(Table)
        /\ cursor \in DOMAIN Table.entries \/ cursor = Table.length - SdtHeader
    BY <2>1, WalkedPlace, Zenon
  <2>4. cursor \in DOMAIN Table.entries
    <3>1. Table.length \in Nat
      BY <2>3 DEF SoundTable
    <3> QED
      BY <2>1, <2>3, <3>1 DEF MadtEnd, SdtHeader
  <2>5. TableFits(Table)
    BY <2>1, <2>3, WalkedFits
  <2> QED
    BY <1>2, <2>2, <2>3, <2>4, <2>5, Zenon DEF AddressInv, TableFits
<1>5. CASE ~ EnterMadt /\ ~ MadtEntry
  <2>1. lapic' = lapic
    BY <1>5 DEF AcpiNext, PassCandidate, TakeRsdp, NoRsdp, PassTable, LeaveMadt, TablesEnd
  <2> QED
    BY <1>2, <2>1 DEF AddressInv
<1> QED
  BY <1>3, <1>4, <1>5

\* Only init_acpi changes what it found.
LEMMA AddressStep ==
  ASSUME AcpiInv, AddressInv, [Next]_vars
  PROVE  AddressInv'
<1>1. CASE InitAcpi
  BY <1>1, AddressAcpi DEF InitAcpi
<1>2. CASE ~ InitAcpi
  <2>1. UNCHANGED acpivars
    BY <1>2 DEF Next, Kmain, vars, Logging, Uart, StartLog, PrepMem, MakeHeap, InitVideo,
      DrawLogo, PutTarga, ScaleLogo, Fill, CompositeLogo, Swap, SetFont, ShowLapic, Kpanic,
      PanicFrame, PanicInner, PanicBox, PanicChar, PanicText, ScalePanic, CompositePanic,
      KeepButDrawing
  <2>2. firmware' = firmware /\ lapic' = lapic
    BY <2>1 DEF acpivars
  <2> QED
    BY <2>2 DEF AddressInv
<1> QED
  BY <1>1, <1>2

\* A text is a sequence of items that fit.
LEMMA SayFits ==
  ASSUME NEW str \in Seq(Nat)
  PROVE  Say(str) \in Seq(Fitting)
<1>1. DOMAIN str = 1 .. Len(str)
  BY LenProperties
<1>2. Say(str) = Chars(str)
  BY <1>1 DEF Say, Chars
<1> QED
  BY <1>2, CharsFit

\* A number that fits is such a sequence.
LEMMA NumberFits ==
  ASSUME NEW n \in 0 .. Word - 1, NEW b \in {10, 16}
  PROVE  <<Number(n, b)>> \in Seq(Fitting)
<1>1. PICK x : x = Number(n, b)
  OBVIOUS
<1>2. x = [kind |-> "number", value |-> n, base |-> b]
  BY <1>1 DEF Number
<1>3. n \in Nat /\ n < Word
  BY SerialAssumption
<1>4. x \in Items
  BY <1>2, <1>3 DEF Items
<1>5. x \in Fitting
  BY <1>2, <1>3, <1>4 DEF Fitting
<1> QED
  BY <1>1, <1>5

\* The texts of the kernel.
LEMMA TextsSeq ==
  /\ Banner \in Seq(Nat) /\ Resolution \in Seq(Nat) /\ By \in Seq(Nat) /\ NewLine \in Seq(Nat)
  /\ Prefix \o NoMemory \in Seq(Nat) /\ Prefix \o BadLogo \in Seq(Nat)
  /\ Prefix \o BadFont \in Seq(Nat) /\ Prefix \o NoPointer \in Seq(Nat)
  /\ AcpiSays \in Seq(Nat)
<1>1. /\ Banner \in Seq(Nat) /\ Resolution \in Seq(Nat) /\ By \in Seq(Nat)
      /\ NewLine \in Seq(Nat) /\ Prefix \in Seq(Nat) /\ NoMemory \in Seq(Nat)
      /\ BadLogo \in Seq(Nat) /\ BadFont \in Seq(Nat) /\ NoPointer \in Seq(Nat)
  BY DEF Banner, Resolution, By, NewLine, Prefix, NoMemory, BadLogo, BadFont, NoPointer
<1>2. AcpiSays \in Seq(Nat)
  <2>1. << >> \in Seq(Nat)
    BY EmptySeq
  <2>2. <<106>> \in Seq(Nat) /\ <<107>> \in Seq(Nat) /\ <<108>> \in Seq(Nat)
    OBVIOUS
  <2>3. FoundTables(wide') \in {<<106>>, <<107>>} /\ Overridden = <<108>>
    BY DEF FoundTables, Overridden
  <2>4. AcpiSays \in {FoundTables(wide'), Overridden, << >>}
    BY Zenon DEF AcpiSays
  <2>5. FoundTables(wide') \in Seq(Nat) /\ Overridden \in Seq(Nat)
    BY <2>2, <2>3
  <2> QED
    BY <2>1, <2>4, <2>5, Zenon
<1> QED
  BY <1>1, <1>2, ConcatProperties

\* The resolution.
LEMMA ResolutionFits ==
  ASSUME NEW m \in Machines
  PROVE  Say(Resolution) \o <<Number(m.width, 10)>> \o Say(By) \o <<Number(m.height, 10)>>
           \o Say(NewLine) \in Seq(Fitting)
<1>1. m.width \in 0 .. Word - 1 /\ m.height \in 0 .. Word - 1
  BY KernelAssumption, SerialAssumption
<1>2. PICK a \in Seq(Fitting), b \in Seq(Fitting), c \in Seq(Fitting), d \in Seq(Fitting),
           e \in Seq(Fitting) :
        /\ a = Say(Resolution) /\ b = <<Number(m.width, 10)>> /\ c = Say(By)
        /\ d = <<Number(m.height, 10)>> /\ e = Say(NewLine)
  BY <1>1, SayFits, NumberFits, TextsSeq
<1>3. a \o b \in Seq(Fitting)
  BY ConcatProperties
<1>4. (a \o b) \o c \in Seq(Fitting)
  BY <1>3, ConcatProperties
<1>5. ((a \o b) \o c) \o d \in Seq(Fitting)
  BY <1>4, ConcatProperties
<1>6. (((a \o b) \o c) \o d) \o e \in Seq(Fitting)
  BY <1>5, ConcatProperties
<1> QED
  BY <1>2, <1>6, Zenon

\* Every step of the kernel lets the line work, adds to an idle log, or keeps it.
LineMoves ==
  \/ UNCHANGED serialvars
  \/ SerialNext \/ Transmit
  \/ LogIdle /\ \E s \in Seq(Fitting) : Log(s)

\* A panic before the screen works is logged.
LEMMA PanicMoves ==
  ASSUME LogIdle, NEW str, Prefix \o str \in Seq(Nat), SerialKpanic(str)
  PROVE  LineMoves
BY SayFits DEF SerialKpanic, LineMoves

\* The first calls of kmain.
LEMMA StartMoves ==
  ASSUME ShapeInv, StartLog \/ PrepMem \/ MakeHeap \/ InitVideo \/ DrawLogo
  PROVE  LineMoves
<1>1. LogIdle
  BY DEF StartLog, PrepMem, MakeHeap, InitVideo, DrawLogo, At
<1>2. CASE StartLog
  <2>1. Say(Banner) \in Seq(Fitting) /\ Log(Say(Banner))
    BY <1>2, SayFits, TextsSeq DEF StartLog
  <2> QED
    BY <1>1, <2>1 DEF LineMoves
<1>3. CASE PrepMem
  BY <1>1, <1>3, TextsSeq, PanicMoves DEF PrepMem, LineMoves, Quiet
<1>4. CASE MakeHeap
  BY <1>1, <1>4, TextsSeq, PanicMoves DEF MakeHeap, LineMoves, Quiet
<1>5. CASE InitVideo
  <2>1. PICK s \in Seq(Fitting) :
          s = Say(Resolution) \o <<Number(machine.width, 10)>> \o Say(By)
                \o <<Number(machine.height, 10)>> \o Say(NewLine)
    BY ResolutionFits DEF ShapeInv
  <2>2. SerialKpanic(NoMemory) \/ Log(s)
    BY <1>5, <2>1 DEF InitVideo
  <2> QED
    BY <1>1, <2>2, TextsSeq, PanicMoves DEF LineMoves
<1>6. CASE DrawLogo
  BY <1>1, <1>6, TextsSeq, PanicMoves DEF DrawLogo, LineMoves, Quiet
<1> QED
  BY <1>2, <1>3, <1>4, <1>5, <1>6

\* The rest of kmain.
LEMMA LaterMoves ==
  ASSUME AddressInv, PutTarga \/ SetFont \/ InitAcpi \/ ShowLapic \/ Kpanic
  PROVE  LineMoves
<1>1. LogIdle
  BY DEF PutTarga, SetFont, InitAcpi, ShowLapic, Kpanic, At
<1>2. CASE PutTarga
  BY <1>1, <1>2, TextsSeq, PanicMoves DEF PutTarga, LineMoves, Quiet
<1>3. CASE SetFont
  BY <1>1, <1>3, TextsSeq, PanicMoves DEF SetFont, LineMoves, Quiet
<1>4. CASE InitAcpi
  <2>1. Say(AcpiSays) \in Seq(Fitting) /\ Log(Say(AcpiSays))
    BY <1>4, SayFits, TextsSeq DEF InitAcpi
  <2> QED
    BY <1>1, <2>1 DEF LineMoves
<1>5. CASE ShowLapic
  <2>1. <<Number(lapic, 16)>> \in Seq(Fitting) /\ Log(<<Number(lapic, 16)>>)
    BY <1>5, NumberFits DEF ShowLapic, AddressInv
  <2> QED
    BY <1>1, <2>1 DEF LineMoves
<1>6. CASE Kpanic
  <2>1. Say(Prefix \o NoPointer) \in Seq(Fitting) /\ Log(Say(Prefix \o NoPointer))
    BY <1>6, SayFits, TextsSeq DEF Kpanic
  <2> QED
    BY <1>1, <2>1 DEF LineMoves
<1> QED
  BY <1>2, <1>3, <1>4, <1>5, <1>6

\* Drawing logs nothing.
LEMMA DrawingMoves ==
  ASSUME Next, ~ (StartLog \/ PrepMem \/ MakeHeap \/ InitVideo \/ DrawLogo),
         ~ (PutTarga \/ SetFont \/ InitAcpi \/ ShowLapic \/ Kpanic)
  PROVE  LineMoves
BY DEF Next, Kmain, Logging, Uart, ScaleLogo, Fill, CompositeLogo, Swap, PanicFrame, PanicInner,
       PanicBox, PanicChar, PanicText, ScalePanic, CompositePanic, Quiet, LineMoves

\* Every step keeps to what is on the line.
LEMMA LogKeeps ==
  ASSUME LogInv, [Next]_vars
  PROVE  LogInv'
<1>1. ShapeInv' /\ AcpiInv' /\ AddressInv'
  BY ShapeStep, AcpiStep, AddressStep DEF LogInv
<1>2. LineMoves
  <2>1. CASE Next
    BY <2>1, StartMoves, LaterMoves, DrawingMoves DEF LogInv
  <2>2. CASE UNCHANGED vars
    BY <2>2 DEF vars, LineMoves
  <2> QED
    BY <2>1, <2>2
<1>3. LineInv'
  <2>1. CASE UNCHANGED serialvars
    <3>1. UNCHANGED <<uart, holding, sent, written, todo, logged>>
      BY <2>1 DEF serialvars
    <3>2. UartInv' /\ SaidInv'
      BY <3>1, ItoaOnly DEF LogInv
    <3>3. ItoaInv'
      BY <2>1 DEF serialvars, LogInv, LineInv, ItoaInv, DigitsAt, FlipAt, DoneAt
    <3> QED
      BY <3>2, <3>3 DEF LineInv
  <2>2. CASE SerialNext \/ Transmit
    BY <2>2, LineStep DEF LogInv
  <2>3. CASE LogIdle /\ \E s \in Seq(Fitting) : Log(s)
    <3>1. PICK s \in Seq(Fitting) : Log(s)
      BY <2>3
    <3> QED
      BY <2>3, <3>1, LogStep DEF LogInv
  <2> QED
    BY <1>2, <2>1, <2>2, <2>3 DEF LineMoves
<1> QED
  BY <1>1, <1>3 DEF LogInv

\* On every machine whose addresses are 64-bit numbers, with buffers for the longest number:
\* what went over the line is the beginning of what the kernel logged, each number as its
\* digits in its base, each character at 115200 baud, 8N1, while itoa stays in its caller's
\* buffer; in every order of the kernel's steps and the UART's.
THEOREM LogCorrect ==
  ASSUME BuffersLarge, \A m \in Machines : AddressesFit(m.firmware)
  PROVE  Spec => []LogSent
<1>1. Init => LogInv
  <2> SUFFICES ASSUME Init PROVE LogInv
    OBVIOUS
  <2>1. ShapeInv /\ AcpiInv
    BY ShapeInit, AcpiStart
  <2>2. AddressInv
    BY SerialAssumption DEF Init, AcpiInit, AddressInv
  <2>3. LineInv
    BY LineStart DEF Init
  <2> QED
    BY <2>1, <2>2, <2>3 DEF LogInv
<1>2. LogInv /\ [Next]_vars => LogInv'
  BY LogKeeps
<1>3. LogInv => LogSent
  BY LineSends DEF LogInv
<1> QED
  BY <1>1, <1>2, <1>3, PTL DEF Spec
=============================================================================

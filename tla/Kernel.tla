------------------------------- MODULE Kernel -------------------------------
(***************************************************************************)
(* kernel/core/kernel.c: kmain, up to the endless loop it stops in at this    *)
(* commit, with the two ways it gives up: serial_kpanic and kpanic.          *)
(*                                                                         *)
(* `stage` is the call of kmain that is made next.  The parts with steps of    *)
(* their own have modules: the log (Serial), the picture (Targa), the ACPI     *)
(* tables (Acpi).  What the allocators answer is part of the machine; they     *)
(* are modelled in PhysicalMemory and Heap.                                 *)
(***************************************************************************)
EXTENDS Serial, Acpi, Targa

CONSTANTS
  Machines,    \* the machines and kernel images
  Box,         \* the width and height of the panic text box (350)
  HeapPixels   \* the pixels the kernel heap has room for (8000000)

\* A machine: the screen's width, height and pixels per line, what memory there is for
\* (the kernel where it was loaded, the heap, the double buffer, the two logo buffers),
\* the logo, the font (is its magic number right, are its flags set), and the firmware.
Needs == {"kernel", "heap", "buffer", "logo", "resized"}

\* Of the three lines that a text may be broken into, the last begins in row 5 of the text
\* box; a glyph's width is left free on the left.
SoundFont(f) ==
  /\ DOMAIN f = {"magic", "flags", "width", "height", "glyphs"}
  /\ f.width \in Nat \ {0} /\ 2 * f.width <= Box
  /\ f.height \in Nat \ {0} /\ 6 * f.height <= Box

\* What kpanic draws beside the text box fits into the heap, and its texts into the box.
ASSUME KernelAssumption ==
  /\ Box \in Nat \ {0} /\ Box < 65536
  /\ \A m \in Machines :
       /\ m.width \in Nat \ {0} /\ m.width < 65536
       /\ m.height \in Nat \ {0} /\ m.height < 65536
       /\ m.pitch \in Nat /\ m.width <= m.pitch
       /\ m.width < Word /\ m.height < Word
       /\ m.memory \subseteq Needs
       /\ SoundTarga(m.logo)
       /\ SoundFirmware(m.firmware)
       /\ SoundFont(m.font)
       /\ Box * Box + ((m.width \div 10) * 8) * ((m.height \div 10) * 8) <= HeapPixels

VARIABLES
  machine,
  stage,
  kheap,      \* is there a heap
  font,       \* the active font, << >> before set_font
  back,       \* the double buffer, << >> before there is one
  front,      \* the frame buffer
  scaled,     \* what scale_buffer made last
  box,        \* kpanic's text box at the start of the heap
  pen,        \* x_cursor and y of put_str
  text        \* the characters put_str still has to draw

drawvars == <<back, front, scaled, box, pen, text>>
kernelvars == <<machine, stage, kheap, font, drawvars>>
vars == <<kernelvars, serialvars, acpivars, targavars>>

Black == <<0, 0, 0, 0>>
Red == <<0, 0, 255, 0>>
Slate == <<163, 140, 125, 0>>      \* 0x007d8ca3

\* Texts that are logged or drawn: a character or two stand for each.
Banner == <<101, 102>>
Resolution == <<103>>
By == <<104>>
NewLine == <<105>>
FoundTables(xsdt) == IF xsdt THEN <<107>> ELSE <<106>>
Overridden == <<108>>
Prefix == <<109, 110>>             \* "Kernel panic:"
NoMemory == <<111>>
BadLogo == <<112>>
BadFont == <<113>>
NoPointer == <<110, 109, 110>>

Say(str) == [i \in DOMAIN str |-> Char(str[i])]

Init ==
  /\ machine \in Machines
  /\ SerialInit
  /\ AcpiInit(machine.firmware)
  /\ TargaInit(machine.logo)
  /\ stage = "serial"
  /\ kheap = FALSE
  /\ font = << >>
  /\ back = << >>
  /\ front = Blank(machine.pitch, machine.height, Garbage)
  /\ scaled = << >> /\ box = << >>
  /\ pen = [x |-> 0, y |-> 0] /\ text = << >>

\* kmain goes on once everything is logged: debug does not return before.
At(s) == stage = s /\ LogIdle
Goto(s) == stage' = s

Quiet == UNCHANGED serialvars

\* serial_kpanic logs and halts.
SerialKpanic(str) == Goto("halted") /\ Log(Say(Prefix \o str))

-----------------------------------------------------------------------------

StartLog ==
  /\ At("serial")
  /\ Log(Say(Banner))
  /\ Goto("prep_mem")
  /\ UNCHANGED <<machine, kheap, font, drawvars, acpivars, targavars>>

PrepMem ==
  /\ At("prep_mem")
  /\ IF "kernel" \in machine.memory THEN Goto("heap") /\ Quiet ELSE SerialKpanic(NoMemory)
  /\ UNCHANGED <<machine, kheap, font, drawvars, acpivars, targavars>>

MakeHeap ==
  /\ At("heap")
  /\ kheap' = ("heap" \in machine.memory)
  /\ IF kheap' THEN Goto("init_video") /\ Quiet ELSE SerialKpanic(NoMemory)
  /\ UNCHANGED <<machine, font, drawvars, acpivars, targavars>>

InitVideo ==
  /\ At("init_video")
  /\ IF "buffer" \in machine.memory
       THEN /\ back' = Blank(machine.width, machine.height, Black)
            /\ Goto("draw_logo")
            /\ Log(Say(Resolution) \o <<Number(machine.width, 10)>> \o Say(By)
                     \o <<Number(machine.height, 10)>> \o Say(NewLine))
       ELSE SerialKpanic(NoMemory) /\ UNCHANGED back
  /\ UNCHANGED <<machine, kheap, font, front, scaled, box, pen, text, acpivars, targavars>>

\* The two buffers of draw_logo.
DrawLogo ==
  /\ At("draw_logo")
  /\ IF {"logo", "resized"} \subseteq machine.memory
       THEN canvas' = Blank(tga.width, tga.height, Garbage) /\ Goto("put_targa") /\ Quiet
       ELSE SerialKpanic(NoMemory) /\ UNCHANGED canvas
  /\ UNCHANGED <<tga, tpc, tx, ty, ptr, run, repeated, end>>
  /\ UNCHANGED <<machine, kheap, font, drawvars, acpivars>>

PutTarga ==
  /\ At("put_targa")
  /\ TargaNext
  /\ IF tpc' = "refused" THEN SerialKpanic(BadLogo)
     ELSE Goto(IF tpc' = "drawn" THEN "scale" ELSE "put_targa") /\ Quiet
  /\ UNCHANGED <<machine, kheap, font, drawvars, acpivars>>

\* The logo is as wide and as high as a fifth of the screen's shorter side.
LogoSide == (IF machine.width > machine.height THEN machine.height ELSE machine.width) \div 5

\* The places that a float quotient may take below the half.
Downs == {{}, 0 .. 65535}

\* The rest of draw_logo: scale_buffer, the background, the logo in its middle and the
\* copy to the frame buffer.  Both logo buffers are freed.
KeepButDrawing == UNCHANGED <<machine, kheap, font, acpivars, targavars>>

ScaleLogo ==
  /\ At("scale")
  /\ \E down \in Downs :
       scaled' = Scale(LogoSide, LogoSide, canvas, tga.width, tga.height, down)
  /\ Goto("fill") /\ Quiet
  /\ UNCHANGED <<back, front, box, pen, text>> /\ KeepButDrawing

Fill ==
  /\ At("fill")
  /\ back' = PutRect(back, machine.width, machine.height,
                     0, 0, machine.width, machine.height, Slate)
  /\ Goto("composite") /\ Quiet
  /\ UNCHANGED <<front, scaled, box, pen, text>> /\ KeepButDrawing

CompositeLogo ==
  /\ At("composite")
  /\ back' = Composite(back, machine.width, machine.height, scaled, LogoSide, LogoSide,
                       (machine.width \div 2) - (LogoSide \div 2),
                       (machine.height \div 2) - (LogoSide \div 2))
  /\ Goto("swap") /\ Quiet
  /\ UNCHANGED <<front, scaled, box, pen, text>> /\ KeepButDrawing

Swap(from, to) ==
  /\ At(from)
  /\ front' = SwapBufs(front, machine.pitch, back, machine.width, machine.height)
  /\ Goto(to) /\ Quiet
  /\ UNCHANGED <<back, scaled, box, pen, text>> /\ KeepButDrawing

\* set_font takes a font of version 2 whose header has flags, that is, a Unicode table.
SetFont ==
  /\ At("set_font")
  /\ IF machine.font.magic /\ machine.font.flags
       THEN font' = machine.font /\ Goto("init_acpi") /\ Quiet
       ELSE SerialKpanic(BadFont) /\ UNCHANGED font
  /\ UNCHANGED <<machine, kheap, drawvars, acpivars, targavars>>

\* init_acpi says which table it found, and that an override was.
AcpiSays ==
  IF acpipc = "search" /\ acpipc' = "tables" THEN FoundTables(wide')
  ELSE IF acpipc = "madt" /\ acpipc' = "madt" /\ Table.entries[cursor].kind = LapicOverride
    THEN Overridden ELSE << >>

InitAcpi ==
  /\ At("init_acpi")
  /\ AcpiNext
  /\ Goto(CASE acpipc' = "found" -> "lapic" [] acpipc' = "panic" -> "kpanic"
            [] OTHER -> "init_acpi")
  /\ Log(Say(AcpiSays))
  /\ UNCHANGED <<machine, kheap, font, drawvars, targavars>>

\* debug_hex(acpi_get_lapic()), and the loop.
ShowLapic ==
  /\ At("lapic")
  /\ Log(<<Number(lapic, 16)>>)
  /\ Goto("idle")
  /\ UNCHANGED <<machine, kheap, font, drawvars, acpivars, targavars>>

-----------------------------------------------------------------------------
(* kpanic, which only init_acpi calls in this part of kmain.                *)

Kpanic ==
  /\ At("kpanic")
  /\ Log(Say(Prefix \o NoPointer))
  /\ Goto("panic frame")
  /\ UNCHANGED <<machine, kheap, font, drawvars, acpivars, targavars>>

Tenth(n) == n \div 10
InnerWidth == Tenth(machine.width) * 8
InnerHeight == Tenth(machine.height) * 8

\* The frame, and the inner area.
PanicFrame ==
  /\ At("panic frame")
  /\ LET w == machine.width
         h == machine.height
     IN  back' = PutRect(back, w, h, Tenth(w) - (w \div 100), Tenth(h) - (h \div 100),
                         InnerWidth + (w \div 50), InnerHeight + (h \div 50), Red)
  /\ Goto("panic inner") /\ Quiet
  /\ UNCHANGED <<front, scaled, box, pen, text>> /\ KeepButDrawing

PanicInner ==
  /\ At("panic inner")
  /\ back' = PutRect(back, machine.width, machine.height, Tenth(machine.width),
                     Tenth(machine.height), InnerWidth, InnerHeight, Black)
  /\ Goto("panic box") /\ Quiet
  /\ UNCHANGED <<front, scaled, box, pen, text>> /\ KeepButDrawing

\* Both texts start one glyph's width from the left, in rows 1 and 3 of the box.
PutStr(str, row) ==
  text' = str /\ pen' = [x |-> font.width, y |-> font.height * row]

PanicBox ==
  /\ At("panic box")
  /\ box' = PutRect(Blank(Box, Box, Garbage), Box, Box, 0, 0, Box, Box, Black)
  /\ PutStr(Prefix, 1)
  /\ Goto("panic prefix") /\ Quiet
  /\ UNCHANGED <<back, front, scaled>> /\ KeepButDrawing

PanicChar ==
  /\ At("panic prefix") \/ At("panic text")
  /\ text # << >>
  /\ box' = PutChar(box, Box, font, text[1], pen.x, pen.y, Red, Transparent)
  /\ pen' = NextCursor(pen, font, font.width, Box)
  /\ text' = Tail(text)
  /\ UNCHANGED <<stage, back, front, scaled>> /\ Quiet /\ KeepButDrawing

PanicText ==
  /\ At("panic prefix")
  /\ text = << >>
  /\ PutStr(NoPointer, 3)
  /\ Goto("panic text") /\ Quiet
  /\ UNCHANGED <<back, front, scaled, box>> /\ KeepButDrawing

\* The text box scaled to the inner area, and the copy to the screen.
ScalePanic ==
  /\ At("panic text")
  /\ text = << >>
  /\ \E down \in Downs : scaled' = Scale(InnerWidth, InnerHeight, box, Box, Box, down)
  /\ Goto("panic composite") /\ Quiet
  /\ UNCHANGED <<back, front, box, pen, text>> /\ KeepButDrawing

CompositePanic ==
  /\ At("panic composite")
  /\ back' = Composite(back, machine.width, machine.height, scaled, InnerWidth, InnerHeight,
                       Tenth(machine.width), Tenth(machine.height))
  /\ Goto("panic swap") /\ Quiet
  /\ UNCHANGED <<front, scaled, box, pen, text>> /\ KeepButDrawing

\* Inside debug.
Logging ==
  /\ SerialNext
  /\ UNCHANGED <<kernelvars, acpivars, targavars>>

Uart == Transmit /\ UNCHANGED <<kernelvars, acpivars, targavars>>

Kmain ==
  \/ Logging
  \/ StartLog \/ PrepMem \/ MakeHeap \/ InitVideo
  \/ DrawLogo \/ PutTarga \/ ScaleLogo \/ Fill \/ CompositeLogo \/ Swap("swap", "set_font")
  \/ SetFont \/ InitAcpi \/ ShowLapic
  \/ Kpanic \/ PanicFrame \/ PanicInner \/ PanicBox \/ PanicChar \/ PanicText
  \/ ScalePanic \/ CompositePanic \/ Swap("panic swap", "panic shown")

Next == Kmain \/ Uart

\* The kernel is one thread, which runs on; the UART sends what it was given, which
\* serial_put_char waits for without a timeout.
Spec == Init /\ [][Next]_vars /\ WF_vars(Kmain) /\ WF_vars(Uart)

-----------------------------------------------------------------------------
(* Properties.                                                             *)

\* The addresses a machine's tables give are numbers that debug_hex takes.
TableFits(t) ==
  t.apic =>
    /\ t.lapic32 \in 0 .. Word - 1
    /\ \A i \in DOMAIN t.entries :
         t.entries[i].kind = LapicOverride => t.entries[i].address \in 0 .. Word - 1

AddressesFit(f) ==
  \A p \in DOMAIN f :
    LET r == IF f[p].revision = 0 THEN f[p].rsdt ELSE f[p].xsdt
    IN  \A i \in DOMAIN r.entries : TableFits(r.entries[i])

Columns == 0 .. machine.width - 1
Rows == 0 .. machine.height - 1
Pixel(x, y) == front[y * machine.pitch + x]

Distance(a, b) == IF a < b THEN b - a ELSE a - b

\* The places of s that are nearest to place j of d.
Nearest(j, d, s) ==
  {k \in 0 .. s - 1 : 2 * Distance(k * d, j * s) <= d \/ (k = s - 1 /\ j * s >= k * d)}

\* Place (x, y) of an area of width w and height h shows c, which is cw by ch, scaled.
ShowsScaled(colour, x, y, w, h, c, cw, ch) ==
  \E k \in Nearest(x, w, cw), l \in Nearest(y, h, ch) : colour = c[l * cw + k]

Within(x, y, left, top, w, h) == x \in left .. left + w - 1 /\ y \in top .. top + h - 1

\* The rectangles kpanic fills: the frame is a hundredth of the screen on each side.
InPanic(x, y, edge) ==
  Within(x, y, Tenth(machine.width) - edge * (machine.width \div 100),
               Tenth(machine.height) - edge * (machine.height \div 100),
               InnerWidth + edge * (machine.width \div 50),
               InnerHeight + edge * (machine.height \div 50))

PanicStages ==
  {"panic frame", "panic inner", "panic box", "panic prefix", "panic text",
   "panic composite", "panic swap", "panic shown"}
LogoStages == {"set_font", "init_acpi", "lapic", "idle", "kpanic"} \cup PanicStages

\* From the end of draw_logo on, the screen shows the logo in its middle, each pixel the
\* nearest one of the picture, on the background; what is behind the end of a line of
\* the frame buffer is left alone.  kpanic covers its own area and nothing else.
LogoShown ==
  stage \in LogoStages =>
    LET left == (machine.width \div 2) - (LogoSide \div 2)
        top == (machine.height \div 2) - (LogoSide \div 2)
    IN  /\ \A x \in Columns, y \in Rows :
             \/ stage = "panic shown" /\ InPanic(x, y, 1)
             \/ IF Within(x, y, left, top, LogoSide, LogoSide)
               THEN ShowsScaled(Pixel(x, y), x - left, y - top, LogoSide, LogoSide,
                                canvas, tga.width, tga.height)
               ELSE Pixel(x, y) = Slate
        /\ \A x \in machine.width .. machine.pitch - 1, y \in Rows : Pixel(x, y) = Garbage

\* The characters that fit into a line of the text box.
PerLine ==
  CHOOSE n \in 1 .. Box :
    LET fits(m) == (m + 2) * font.width + m < Box
    IN  ~ fits(n) /\ \A m \in 1 .. n - 1 : fits(m)

\* A pixel of the text box is lit for a character of str, the text in row `row`.
LitBy(str, row, x, y) ==
  \E n \in DOMAIN str :
    LET j == x - font.width - ((n - 1) % PerLine) * (font.width + 1)
        i == y - row * font.height - ((n - 1) \div PerLine) * font.height
    IN  j \in 0 .. font.width - 1 /\ i \in 0 .. font.height - 1 /\ Lit(font, str[n], i, j)

\* A panic that can be drawn is drawn: a red frame, and in it both texts in red on
\* black, broken into lines, no character cut off or written over another one, and
\* scaled to the area.
PanicShown ==
  stage = "panic shown" =>
    LET texts == [o \in 0 .. Box * Box - 1 |->
                   IF \E t \in {<<Prefix, 1>>, <<NoPointer, 3>>} :
                        LitBy(t[1], t[2], o % Box, o \div Box)
                     THEN Red ELSE Black]
    IN  \A x \in Columns, y \in Rows :
          IF InPanic(x, y, 0)
            THEN ShowsScaled(Pixel(x, y), x - Tenth(machine.width), y - Tenth(machine.height),
                             InnerWidth, InnerHeight, texts, Box, Box)
            ELSE InPanic(x, y, 1) => Pixel(x, y) = Red

\* Nothing is drawn outside of a buffer, although put_rect and put_char do not look at
\* its edges; and kpanic finds everything it uses without asking: a heap for its text
\* box, a double buffer and a font.
WritesInside ==
  /\ back # << >> => Inside(back, machine.width, machine.height)
  /\ canvas # << >> => Inside(canvas, tga.width, tga.height)
  /\ box # << >> => Inside(box, Box, Box)
  /\ Inside(front, machine.pitch, machine.height)
  /\ stage \in {"kpanic"} \cup PanicStages => kheap /\ back # << >> /\ font # << >>

\* "Make sure that, if rounded up, the pixel is sampled within the image boundaries":
\* every pixel of the resized logo is one of the logo.
SampledInside ==
  stage \notin PanicStages =>
    \A o \in DOMAIN scaled : scaled[o] \in {canvas[p] : p \in DOMAIN canvas}

\* The kernel comes to its loop or to a halt, and everything it logged is sent.
KernelEnds ==
  <>[] /\ stage \in {"idle", "halted", "panic shown"}
       /\ LogIdle /\ Len(sent) = Len(Text)
=============================================================================

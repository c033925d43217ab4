------------------------------- MODULE Targa -------------------------------
(***************************************************************************)
(* put_targa of kernel/video/processing.c draws a Truevision TGA file to the  *)
(* active buffer, which is as large as the picture, at (0, 0).               *)
(*                                                                         *)
(* A step draws one pixel or takes one packet header.  The four cases of the   *)
(* code differ in where a pixel's colour comes from (Texel) and in whether      *)
(* the pixels come in packets.                                              *)
(***************************************************************************)
EXTENDS Canvas

\* A file: the fields of its header that are looked at, the bytes behind the header, the
\* picture the file's writer meant, as a buffer with the top row first, and the packets
\* the writer made.
SoundTarga(f) ==
  /\ f.width \in Nat \ {0} /\ f.width < 65536
  /\ f.height \in Nat \ {0} /\ f.height < 65536
  /\ Inside(f.picture, f.width, f.height)

VARIABLES
  tga,        \* the file
  tpc,        \* "open", "plain", "packet", "run", "drawn" or "refused"
  tx, ty,     \* the pixel that is drawn next: j and i, or pixel_x and pixel_y
  ptr,        \* pixel_number, or the offset of index_ptr and data_ptr
  run,        \* pixels left of the packet
  repeated,   \* the colour a packet repeats, or Garbage in a packet of pixels
  end,
  canvas      \* the buffer that is drawn to

targavars == <<tga, tpc, tx, ty, ptr, run, repeated, end, canvas>>

TargaInit(f) ==
  /\ tga = f
  /\ tpc = "open"
  /\ tx = 0 /\ ty = 0 /\ ptr = 0 /\ run = 0
  /\ repeated = Garbage
  /\ end = FALSE
  /\ canvas = << >>

Mapped(f) == f.type \in {1, 9}
Packed(f) == f.type \in {9, 10}

Byte(f, o) == IF o + 1 \in DOMAIN f.data THEN f.data[o + 1] ELSE 0

\* The colour at an offset: what is not 24 bits long is taken to be 32 bits long.
Colour(f, o, bits) ==
  <<Byte(f, o), Byte(f, o + 1), Byte(f, o + 2), IF bits = 24 THEN 0 ELSE Byte(f, o + 3)>>

\* The colour map follows the identification field, and the pixels the colour map.
ImageData(f) ==
  f.id + (IF Mapped(f) \/ f.map THEN f.maplen * (f.entry \div 8) ELSE 0)

TexelSize(f) ==
  IF Mapped(f) THEN (IF f.bpp = 8 THEN 1 ELSE 2) ELSE (IF f.bpp = 24 THEN 3 ELSE 4)

MapIndex(f, o) == IF f.bpp = 8 THEN Byte(f, o) ELSE Byte(f, o) + 256 * Byte(f, o + 1)

Texel(f, o) ==
  IF Mapped(f)
    THEN Colour(f, f.id + MapIndex(f, o) * (IF f.entry = 24 THEN 3 ELSE 4), f.entry)
    ELSE Colour(f, o, f.bpp)

\* The header of a packet, which holds one colour to repeat, or pixels.
Repeats(f, o) == Byte(f, o) >= 128
PacketLength(f, o) == (Byte(f, o) % 128) + 1

\* put_targa refuses 16 bits for a colour, a colour-mapped file without a map, and every
\* other type.
Accepted(f) ==
  /\ f.type \in {1, 2, 9, 10}
  /\ IF Mapped(f) THEN f.map /\ f.entry # 16 ELSE f.bpp # 16

OpenTarga ==
  /\ tpc = "open"
  /\ tpc' = IF ~ Accepted(tga) THEN "refused" ELSE IF Packed(tga) THEN "packet" ELSE "plain"
  /\ ptr' = IF Packed(tga) THEN ImageData(tga)
            ELSE IF tga.topleft THEN 0 ELSE tga.width * (tga.height - 1)
  /\ ty' = IF Packed(tga) /\ ~ tga.topleft THEN tga.height ELSE 0
  /\ UNCHANGED <<tga, tx, run, repeated, end, canvas>>

Draw(colour) == canvas' = PutPixel(canvas, tga.width, tga.height, tx, ty, colour)

EndOfRow == tx + 1 = tga.width
NextColumn == tx' = IF EndOfRow THEN 0 ELSE tx + 1

\* Images with the origin at the bottom left are read from their last row on.
PlainPixel ==
  /\ tpc = "plain"
  /\ Draw(Texel(tga, ImageData(tga) + ptr * TexelSize(tga)))
  /\ NextColumn
  /\ ty' = IF EndOfRow THEN ty + 1 ELSE ty
  /\ ptr' = ptr + 1 - (IF EndOfRow /\ ~ tga.topleft THEN 2 * tga.width ELSE 0)
  /\ tpc' = IF ty' = tga.height THEN "drawn" ELSE "plain"
  /\ UNCHANGED <<tga, run, repeated, end>>

\* Mutant: a packet is one pixel shorter.
PacketShort ==
  /\ tpc = "packet"
  /\ run' = IF PacketLength(tga, ptr) = 1 THEN 1 ELSE PacketLength(tga, ptr) - 1
  /\ repeated' = IF Repeats(tga, ptr) THEN Texel(tga, ptr + 1) ELSE Garbage
  /\ ptr' = ptr + 1 + (IF Repeats(tga, ptr) THEN TexelSize(tga) ELSE 0)
  /\ tpc' = "run"
  /\ UNCHANGED <<tga, tx, ty, end, canvas>>

Packet ==
  /\ tpc = "packet"
  /\ run' = PacketLength(tga, ptr)
  /\ repeated' = IF Repeats(tga, ptr) THEN Texel(tga, ptr + 1) ELSE Garbage
  /\ ptr' = ptr + 1 + (IF Repeats(tga, ptr) THEN TexelSize(tga) ELSE 0)
  /\ tpc' = "run"
  /\ UNCHANGED <<tga, tx, ty, end, canvas>>

\* Where the rows end: below the last one, or when pixel_y has come down to 0.
EndOfImage(y) == y = IF tga.topleft THEN tga.height ELSE 0

\* The packet is drawn to its end, even behind the end of the image.
RunPixel ==
  /\ tpc = "run"
  /\ Draw(IF repeated = Garbage THEN Texel(tga, ptr) ELSE repeated)
  /\ ptr' = IF repeated = Garbage THEN ptr + TexelSize(tga) ELSE ptr
  /\ NextColumn
  /\ ty' = IF ~ EndOfRow THEN ty ELSE IF tga.topleft THEN ty + 1 ELSE ty - 1
  /\ end' = (end \/ (EndOfRow /\ EndOfImage(ty')))
  /\ run' = run - 1
  /\ tpc' = IF run' > 0 THEN "run" ELSE IF end' THEN "drawn" ELSE "packet"
  /\ UNCHANGED <<tga, repeated>>

TargaNext == OpenTarga \/ PlainPixel \/ Packet \/ RunPixel

-----------------------------------------------------------------------------
(* Properties.                                                             *)

\* What the format says of a file: the picture is stored from its top or from its bottom row
\* on, pixel by pixel or in packets.  f.packets has, for each packet, where it is and the
\* number of its first pixel; the last one reaches the end of the picture or runs over it.
Place(f, k) ==
  IF f.topleft THEN k ELSE (f.height - 1 - (k \div f.width)) * f.width + (k % f.width)

PacketEncodes(f, p) ==
  \A k \in p.first .. p.first + PacketLength(f, p.at) - 1 :
    k < f.width * f.height =>
      f.picture[Place(f, k)] =
        Texel(f, p.at + 1 + (IF Repeats(f, p.at) THEN 0 ELSE (k - p.first) * TexelSize(f)))

PacketFollows(f, p, q) ==
  /\ q.at = p.at + 1 + (IF Repeats(f, p.at) THEN 1 ELSE PacketLength(f, p.at)) * TexelSize(f)
  /\ q.first = p.first + PacketLength(f, p.at)

Encodes(f) ==
  /\ \A i \in DOMAIN f.data : f.data[i] \in Nat /\ f.data[i] < 256
  /\ IF Packed(f)
       THEN LET n == Len(f.packets)
            IN  /\ n \in Nat \ {0} /\ DOMAIN f.packets = 1 .. n
                /\ f.packets[1].at = ImageData(f) /\ f.packets[1].first = 0
                /\ \A i \in 1 .. n :
                     /\ f.packets[i].at \in Nat /\ f.packets[i].first \in Nat
                     /\ f.packets[i].first < f.width * f.height
                     /\ PacketEncodes(f, f.packets[i])
                /\ \A i \in 1 .. n - 1 : PacketFollows(f, f.packets[i], f.packets[i + 1])
                /\ f.packets[n].first + PacketLength(f, f.packets[n].at) >= f.width * f.height
       ELSE \A k \in 0 .. f.width * f.height - 1 :
              f.picture[Place(f, k)] = Texel(f, ImageData(f) + k * TexelSize(f))

\* The buffer holds the picture, each row at its place.
GivesBack ==
  \A x \in 0 .. tga.width - 1, y \in 0 .. tga.height - 1 :
    canvas[y * tga.width + x] = tga.picture[y * tga.width + x]

\* put_targa gives back the picture that was encoded: all four encodings from the top left,
\* whatever the packets, across rows or behind the end of the image, and the two unpacked
\* ones from the bottom left.
LogoDecoded == tpc = "drawn" /\ (Packed(tga) => tga.topleft) => GivesBack

\* "Draw image bottom-up if origin is bottom left": so does put_targa for a picture that is
\* stored from its bottom row on, packed or not.
DrawnBottomUp == tpc = "drawn" /\ ~ tga.topleft => GivesBack
=============================================================================

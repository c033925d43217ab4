------------------------------ MODULE VideoMode ------------------------------
(***************************************************************************)
(* boot/second_stage.asm, get_vbe_modes and set_vbe_mode: of the video modes *)
(* with 32 bits per pixel the one with the most pixels is set.              *)
(*                                                                         *)
(* ax tells the first turn of the loop (0xBEEF) from the others, but is also *)
(* what the BIOS answers in and the lower half of the number of pixels.      *)
(***************************************************************************)
EXTENDS Integers, Sequences

FirstTurn == 48879    \* 0xBEEF
Answered == 79        \* 0x004F: the BIOS knows the function and it succeeded
NoMode == 65535       \* gs before a mode is chosen

\* A video BIOS: does it answer, its modes (its answer for each, bits per pixel,
\* resolution), and can the chosen mode be set.
VideoBios ==
  [vbe : BOOLEAN, settable : BOOLEAN,
   modes : Seq([answer : Nat, bpp : Nat, x : Nat, y : Nat])]

\* The numbers of the modes are below the mark for none.
SoundVideo(v) == v \in VideoBios /\ Len(v.modes) < NoMode

VARIABLES
  video,
  videopc,    \* "info", "turn", "list", "set", "done" or "failed"
  mode,       \* bx: the place on the list
  ax,
  pixels,     \* edx: the pixels of the chosen mode
  chosen,     \* gs: the chosen mode, by its place on the list
  info        \* vbe_mode_info: the mode it describes, by its place on the list

videovars == <<video, videopc, mode, ax, pixels, chosen, info>>

VideoInit(v) ==
  /\ video = v
  /\ videopc = "info"
  /\ mode = 1
  /\ ax = FirstTurn
  /\ pixels = 0
  /\ chosen = NoMode
  /\ info = NoMode

ControllerInfo ==
  /\ videopc = "info"
  /\ videopc' = IF video.vbe THEN "turn" ELSE "failed"
  /\ UNCHANGED <<video, mode, ax, pixels, chosen, info>>

\* Mutant: a mode that is not available is asked for again.
GotoNextModeStays ==
  /\ videopc = "turn"
  /\ mode' = IF ax = Answered THEN mode + 1 ELSE mode
  /\ videopc' = "list"
  /\ UNCHANGED <<video, ax, pixels, chosen, info>>

GotoNextMode ==
  /\ videopc = "turn"
  /\ mode' = IF ax = FirstTurn THEN mode ELSE mode + 1
  /\ videopc' = "list"
  /\ UNCHANGED <<video, ax, pixels, chosen, info>>

InList == videopc = "list" /\ mode <= Len(video.modes)

This == video.modes[mode]

\* The mode is not available, or does not have 32 bits per pixel.
PassMode ==
  /\ InList
  /\ This.answer # Answered \/ This.bpp # 32
  /\ ax' = This.answer
  /\ info' = IF This.answer = Answered THEN mode ELSE info
  /\ videopc' = "turn"
  /\ UNCHANGED <<video, mode, pixels, chosen>>

Resolution == This.x * This.y

\* Mutant: a smaller mode replaces a larger one.
CheckModeLast ==
  /\ InList
  /\ This.answer = Answered /\ This.bpp = 32
  /\ ax' = Resolution % 65536
  /\ info' = mode
  /\ pixels' = Resolution /\ chosen' = mode
  /\ videopc' = "turn"
  /\ UNCHANGED <<video, mode>>

\* A mode with at least as many pixels as the chosen one replaces it.
CheckMode ==
  /\ InList
  /\ This.answer = Answered /\ This.bpp = 32
  /\ ax' = Resolution % 65536
  /\ info' = mode
  /\ IF Resolution >= pixels
       THEN pixels' = Resolution /\ chosen' = mode
       ELSE UNCHANGED <<pixels, chosen>>
  /\ videopc' = "turn"
  /\ UNCHANGED <<video, mode>>

EndOfModes ==
  /\ videopc = "list"
  /\ mode > Len(video.modes)
  /\ videopc' = IF chosen = NoMode THEN "failed" ELSE "set"
  /\ UNCHANGED <<video, mode, ax, pixels, chosen, info>>

\* The description of the chosen mode is read again for the kernel.
SetMode ==
  /\ videopc = "set"
  /\ info' = chosen
  /\ videopc' = IF video.settable THEN "done" ELSE "failed"
  /\ UNCHANGED <<video, mode, ax, pixels, chosen>>

VideoNext ==
  ControllerInfo \/ GotoNextMode \/ PassMode \/ CheckMode \/ EndOfModes \/ SetMode

-----------------------------------------------------------------------------

Usable(i) == video.modes[i].answer = Answered /\ video.modes[i].bpp = 32

\* The mode that is set is one with 32 bits per pixel that no other such mode has
\* more pixels than, and the description the kernel gets is that of this mode, not
\* that of the mode looked at last; the loader only gives up for want of such a mode or of VBE.
BestMode ==
  LET modes == {i \in 1 .. Len(video.modes) : Usable(i)}
      size(i) == video.modes[i].x * video.modes[i].y
  IN  /\ videopc \in {"set", "done"} =>
           chosen \in modes /\ \A i \in modes : size(i) <= size(chosen)
      /\ videopc = "done" => info = chosen
      /\ videopc = "failed" => modes = {} \/ ~ video.vbe \/ ~ video.settable
=============================================================================

----------------------------- MODULE BootLoader -----------------------------
(***************************************************************************)
(* The boot loader: the two boot records, and boot/second_stage.asm, which    *)
(* checks the machine, enables the A20 line, stores the E820 map, loads the   *)
(* kernel, sets a video mode, enters long mode and jumps to the kernel.  Each *)
(* part has a module of its own; `stage` is the one that runs.  A part that   *)
(* fails prints FAIL and halts.                                              *)
(***************************************************************************)
EXTENDS BootRecords, EnableA20, KernelLoad, VideoMode, PageTables, FiniteSets

CONSTANT Machines     \* the machines the loader may run on

\* A machine: what the checks at the start find it to support, and the hardware,
\* firmware and disk that each part meets.
Features == {"cpuid", "long mode", "sse2", "pci"}

ASSUME MachineAssumption ==
  \A m \in Machines :
    /\ m.features \subseteq Features
    /\ m.a20 \in A20Hardware
    /\ SoundBios(m.bios)
    /\ SoundVolume(m.volume)
    /\ SoundFile(m.volume, m.volume.kernel)
    /\ SoundFile(m.volume, m.volume.second)
    /\ SoundSecond(m.volume)
    /\ SoundVideo(m.video)
    /\ m.disk \in Disks

VARIABLES
  features,   \* what the machine supports
  stage       \* "records", "check", the part that runs, "kernel", "failed" or "reset"

vars == <<features, stage, recvars, a20vars, mapvars, loadvars, videovars, pagevars>>

Init ==
  \E m \in Machines :
    /\ features = m.features
    /\ stage = "records"
    /\ RecordsInit(m.disk)
    /\ A20Init(m.a20)
    /\ MapInit(m.bios)
    /\ LoadInit(m.volume)
    /\ VideoInit(m.video)
    /\ PageInit

\* The part that runs leaves `stage` alone until it is done or has failed.
Goes(on, done, then, failed) ==
  stage' = IF on = done THEN then ELSE IF on = failed THEN "failed" ELSE stage

RecordsStep ==
  /\ stage = "records"
  /\ RecordsNext
  /\ Goes(recpc', "second", "check", "failed")
  /\ UNCHANGED <<features, a20vars, mapvars, loadvars, videovars, pagevars>>

\* The user types a digit.
UserStep ==
  /\ stage = "records"
  /\ GetInput
  /\ UNCHANGED <<features, stage, a20vars, mapvars, loadvars, videovars, pagevars>>

\* Mutant: only one feature is looked for.
CheckSystemOnce ==
  /\ stage = "check"
  /\ stage' = IF "cpuid" \in features THEN "a20" ELSE "failed"
  /\ UNCHANGED <<features, recvars, a20vars, mapvars, loadvars, videovars, pagevars>>

CheckSystem ==
  /\ stage = "check"
  /\ stage' = IF features = Features THEN "a20" ELSE "failed"
  /\ UNCHANGED <<features, recvars, a20vars, mapvars, loadvars, videovars, pagevars>>

A20Step ==
  /\ stage = "a20"
  /\ A20Next
  /\ stage' = CASE a20pc' = "enabled" -> "map"
                [] a20pc' \in {"failed", "reset"} -> a20pc'
                [] OTHER -> stage
  /\ UNCHANGED <<features, recvars, mapvars, loadvars, videovars, pagevars>>

MapStep ==
  /\ stage = "map"
  /\ MapNext
  /\ Goes(mappc', "stored", "load", "failed")
  /\ UNCHANGED <<features, recvars, a20vars, loadvars, videovars, pagevars>>

LoadStep ==
  /\ stage = "load"
  /\ LoadNext
  /\ Goes(loadpc', "loaded", "video", "failed")
  /\ UNCHANGED <<features, recvars, a20vars, mapvars, videovars, pagevars>>

VideoStep ==
  /\ stage = "video"
  /\ VideoNext
  /\ Goes(videopc', "done", "paging", "failed")
  /\ UNCHANGED <<features, recvars, a20vars, mapvars, loadvars, pagevars>>

PageStep ==
  /\ stage = "paging"
  /\ PageNext
  /\ Goes(pagepc', "kernel", "kernel", "failed")
  /\ UNCHANGED <<features, recvars, a20vars, mapvars, loadvars, videovars>>

Boot ==
  RecordsStep \/ CheckSystem \/ A20Step \/ MapStep \/ LoadStep \/ VideoStep \/ PageStep

Next == Boot \/ UserStep

\* The loader is one thread, and the keyboard controller takes what it is sent: they
\* always go on.  The user may never type anything.
Spec == Init /\ [][Next]_vars /\ WF_vars(Boot)

-----------------------------------------------------------------------------

\* The kernel is entered only on a machine that has everything it uses: the features,
\* the line, the whole map, the image, the mode and the mappings.  (What is behind
\* the end of a part's own work, the later parts leave alone.)
KernelGetsMachine ==
  stage = "kernel" =>
    /\ features = Features
    /\ line
    /\ table = bios.entries
    /\ Cardinality(DOMAIN image) = Clusters(volume, volume.kernel)
    /\ info = chosen /\ Usable(chosen)
    /\ \A p \in Pages : Translate(p) = p

\* The loader comes to an end, whatever the machine: it enters the kernel, fails or
\* resets the machine, unless the user is asked again and again, the BIOS has no
\* extended reads and the record runs over its hlt, or the loader waits for a keyboard
\* controller that is not there.
WaitsForController == stage = "a20" /\ a20pc = "disable" /\ ~ a20.controller

BootDecides ==
  []<>(\/ stage \in {"kernel", "failed", "reset"}
       \/ recpc = "input" \/ (recpc = "lost" /\ ~ disk.extensions)
       \/ WaitsForController)
=============================================================================

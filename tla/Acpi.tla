-------------------------------- MODULE Acpi --------------------------------
(***************************************************************************)
(* kernel/acpi: init_acpi looks for the root system description pointer in   *)
(* the EBDA and then in the BIOS ROM, goes through the tables the pointer     *)
(* leads to, and takes the address of the local APIC from the MADT.          *)
(*                                                                         *)
(* A step looks at one candidate, one table or one entry of an MADT.  Of the  *)
(* bytes of a table only their sums matter.                                  *)
(***************************************************************************)
EXTENDS Integers, Sequences, FiniteSets

CONSTANTS
  EbdaSlots,    \* 16-byte steps through the EBDA (64)
  RomSlots      \* 16-byte steps through the BIOS ROM (8192)

SdtHeader == 36              \* sizeof(struct acpi_sdt_header)
MadtFields == 8              \* the fields of an MADT in front of its entries
LapicOverride == 5

ASSUME AcpiAssumption == EbdaSlots \in Nat /\ RomSlots \in Nat

\* A table: is its signature "APIC", its length, does the sum of all its bytes end
\* in a zero byte, and does the sum of its first `length % 256` bytes.  For an MADT
\* also the 32-bit address and the entries, by their offset behind the header.
SoundTable(t) ==
  /\ t.length \in Nat /\ t.length >= SdtHeader
  /\ t.length < 256 => t.first = t.whole
  /\ t.length % 256 = 0 => t.first
  /\ t.apic =>
       /\ t.length >= SdtHeader + MadtFields
       /\ \A i \in DOMAIN t.entries :
            LET next == i + t.entries[i].length
            IN  /\ i \in MadtFields .. t.length - SdtHeader - 1
                /\ t.entries[i].length \in 1 .. 255
                /\ next \in DOMAIN t.entries \/ next = t.length - SdtHeader
                /\ \A j \in DOMAIN t.entries : i < j => next <= j
                /\ t.entries[i].kind = LapicOverride => t.entries[i].length = 12
       /\ MadtFields \in DOMAIN t.entries \/ t.length = SdtHeader + MadtFields

\* A table of tables has a pointer of `size` bytes to each, and fits into 64 KiB.
SoundRoot(r, size) ==
  /\ \E n \in 0 .. 65535 \div size :
       DOMAIN r.entries = 1 .. n /\ r.length = SdtHeader + n * size
  /\ \A i \in DOMAIN r.entries : SoundTable(r.entries[i])

\* A candidate for the pointer: has it the signature, do its first 20 bytes and all 36
\* sum to zero, its revision, and the two tables of tables, with their entries.
Candidates == 0 .. EbdaSlots + RomSlots - 1

SoundFirmware(f) ==
  /\ DOMAIN f \subseteq Candidates
  /\ \A p \in DOMAIN f :
       IF f[p].revision = 0 THEN SoundRoot(f[p].rsdt, 4) ELSE SoundRoot(f[p].xsdt, 8)

VARIABLES
  firmware,     \* the candidates, by their place in the order of the search
  acpipc,       \* "search", "tables", "madt", "found" or "panic"
  place,        \* the candidate that is looked at
  root,         \* the table of tables: its length and its entries
  wide,         \* adr_64bit
  index,        \* the table that is looked at
  cursor,       \* i in the walk over the MADT
  madt,         \* the index of the MADT, 0 for none
  lapic

acpivars == <<firmware, acpipc, place, root, wide, index, cursor, madt, lapic>>

NoRoot == [length |-> SdtHeader, entries |-> << >>]

AcpiInit(f) ==
  /\ firmware = f
  /\ acpipc = "search"
  /\ place = 0
  /\ root = NoRoot /\ wide = FALSE
  /\ index = 0 /\ cursor = 0
  /\ madt = 0 /\ lapic = 0

-----------------------------------------------------------------------------
(* _check_rsdp.                                                            *)

\* Mutant: the extended checksum is not looked at.
IsRsdpOld(p) ==
  /\ p \in DOMAIN firmware
  /\ firmware[p].signature
  /\ firmware[p].sum20

IsRsdp(p) ==
  /\ p \in DOMAIN firmware
  /\ firmware[p].signature
  /\ firmware[p].sum20
  /\ firmware[p].revision # 0 => firmware[p].sum36

PassCandidate ==
  /\ acpipc = "search"
  /\ place \in Candidates
  /\ ~ IsRsdp(place)
  /\ place' = place + 1
  /\ UNCHANGED <<firmware, acpipc, root, wide, index, cursor, madt, lapic>>

\* The tables are enumerated from the RSDT of revision 0, from the XSDT of later ones.
TakeRsdp ==
  /\ acpipc = "search"
  /\ place \in Candidates
  /\ IsRsdp(place)
  /\ wide' = (firmware[place].revision # 0)
  /\ root' = IF wide' THEN firmware[place].xsdt ELSE firmware[place].rsdt
  /\ index' = 1
  /\ acpipc' = "tables"
  /\ UNCHANGED <<firmware, place, cursor, madt, lapic>>

NoRsdp ==
  /\ acpipc = "search"
  /\ place \notin Candidates
  /\ acpipc' = "panic"
  /\ UNCHANGED <<firmware, place, root, wide, index, cursor, madt, lapic>>

-----------------------------------------------------------------------------
(* _enumerate_tables and __enumerate_madt.                                 *)

EntriesCount == ((root.length - SdtHeader) % 65536) \div (IF wide THEN 8 ELSE 4)

Table == root.entries[index]

\* _calc_checksum with a length of eight bits.
Checksum(t) == IF t.length < 256 THEN t.whole ELSE t.first

PassTable ==
  /\ acpipc = "tables"
  /\ index <= EntriesCount
  /\ ~ (Checksum(Table) /\ Table.apic)
  /\ index' = index + 1
  /\ UNCHANGED <<firmware, acpipc, place, root, wide, cursor, madt, lapic>>

EnterMadt ==
  /\ acpipc = "tables"
  /\ index <= EntriesCount
  /\ Checksum(Table) /\ Table.apic
  /\ madt' = index
  /\ lapic' = Table.lapic32
  /\ cursor' = MadtFields
  /\ acpipc' = "madt"
  /\ UNCHANGED <<firmware, place, root, wide, index>>

\* Mutant: the walk stops where an entry of 16 bytes would no longer fit.
MadtEndEarly == Table.length - SdtHeader - 16

\* Where the walk stops: in front of the last eight bytes.
MadtEnd == Table.length - SdtHeader - 8

\* Mutant: only an entry that is known is passed.
MadtEntryStays ==
  /\ acpipc = "madt"
  /\ cursor < MadtEnd
  /\ LET e == Table.entries[cursor]
     IN  /\ lapic' = IF e.kind = LapicOverride THEN e.address ELSE lapic
         /\ cursor' = IF e.kind = LapicOverride THEN cursor + e.length ELSE cursor
  /\ UNCHANGED <<firmware, acpipc, place, root, wide, index, madt>>

\* An entry has its length in its second byte.
MadtEntry ==
  /\ acpipc = "madt"
  /\ cursor < MadtEnd
  /\ LET e == Table.entries[cursor]
     IN  /\ lapic' = IF e.kind = LapicOverride THEN e.address ELSE lapic
         /\ cursor' = cursor + e.length
  /\ UNCHANGED <<firmware, acpipc, place, root, wide, index, madt>>

LeaveMadt ==
  /\ acpipc = "madt"
  /\ cursor >= MadtEnd
  /\ index' = index + 1
  /\ acpipc' = "tables"
  /\ UNCHANGED <<firmware, place, root, wide, cursor, madt, lapic>>

TablesEnd ==
  /\ acpipc = "tables"
  /\ index > EntriesCount
  /\ acpipc' = "found"
  /\ UNCHANGED <<firmware, place, root, wide, index, cursor, madt, lapic>>

AcpiNext ==
  \/ PassCandidate \/ TakeRsdp \/ NoRsdp
  \/ PassTable \/ EnterMadt \/ MadtEntry \/ LeaveMadt \/ TablesEnd

-----------------------------------------------------------------------------
(* Properties.                                                             *)

\* The pointers that are valid by the rules of their revision.
ValidRsdps ==
  {p \in DOMAIN firmware :
     /\ firmware[p].signature
     /\ IF firmware[p].revision = 0 THEN firmware[p].sum20
        ELSE firmware[p].sum20 /\ firmware[p].sum36}

Tables(p) ==
  IF firmware[p].revision = 0 THEN firmware[p].rsdt.entries
  ELSE firmware[p].xsdt.entries

\* The MADTs of a list of tables that the kernel trusts: the sum of the bytes it adds
\* up is zero.  Beyond 255 bytes these are not all the bytes of the table.
Trusted(tables) ==
  {i \in DOMAIN tables :
     tables[i].apic /\ IF tables[i].length > 255 THEN tables[i].first ELSE tables[i].whole}

\* The addresses the overrides of an MADT give, wherever in the table they are.
Overrides(t) ==
  {t.entries[i].address : i \in {j \in DOMAIN t.entries : t.entries[j].kind = LapicOverride}}

\* init_acpi uses the first valid pointer of the search, and panics only if there is
\* none.  The address it ends up with comes from the last MADT it trusts: the 64-bit
\* override if the table has one, although the walk stops eight bytes before the end of
\* the table, and else the 32-bit address.
LapicFound ==
  /\ acpipc = "panic" => ValidRsdps = {}
  /\ acpipc = "found" =>
       LET valid == {p \in ValidRsdps : \A q \in ValidRsdps : p <= q}
           tables == Tables(CHOOSE p \in valid : TRUE)
           trusted == Trusted(tables)
           last == CHOOSE i \in trusted : \A j \in trusted : j <= i
       IN  /\ valid # {}
           /\ trusted = {} => madt = 0 /\ lapic = 0
           /\ trusted # {} =>
                /\ madt = last
                /\ IF Overrides(tables[last]) = {}
                     THEN lapic = tables[last].lapic32
                     ELSE lapic \in Overrides(tables[last])
=============================================================================

----------------------------- MODULE SaveState ------------------------------
(* Saving a machine to a file and loading it (savestate.c): the file grows     *)
(* section by section, its sizes and CRC are filled in afterwards, and the     *)
(* emulator can be killed at any point and started again, with other devices.  *)
(* The contents of a part are the moment they date from; the framebuffer, that *)
(* is worked out of memory and registers, is the pair of their moments.       *)
(* A part is what one section carries: what a device has besides (the FIFO    *)
(* and the framing of the ACIA, the memory banks of the 65C816, the pressed   *)
(* host keys) is a part of its own.                                           *)
EXTENDS Naturals, FiniteSets, Sequences, SequencesExt

CONSTANTS
  Machines,   \* the devices a machine may have: subsets of {"disk", "serial"}
  MaxMoment,  \* bound of the model: moments in which a machine runs
  MaxSaves    \* bound of the model: machines saved

\* What the constants must satisfy.
SaveStateAssumption == Machines \subseteq SUBSET {"disk", "serial"} /\ {MaxMoment, MaxSaves} \subseteq Nat

VARIABLES
  devices,    \* has_microdisc, has_serial
  machine,    \* the moment each part dates from
  now,        \* moments so far
  file,       \* what is on the disk
  pending,    \* the sections a save has still to finish, and the CRC
  unread,     \* the sections a load has still to read
  saved,      \* ghost: the machines that were saved, with their devices
  loading,    \* ghost: the devices of the file that was just loaded, or Nothing
  before      \* ghost: the machine when the load that goes on, or just ended, began

vars == <<devices, machine, now, file, pending, unread, saved, loading, before>>

\* "CPU" is emu->cpu, the core that no longer runs.
Stored == {"CPU", "MEM", "VIA", "PSG", "VID", "KBD", "FDC", "MDC", "TAP", "SER", "META"}
\* What no section carries: the core that runs, with its interrupt inputs
\* (cpu_core, cpu816); the banks 1 to 255 (extra_banks); the receive FIFO, reload
\* values and framing of the ACIA; the disk images; the pressed host keys; the
\* devices that have no section (printer, modem, DTL 2000, LOCI, blitter).
Unsaved == {"816", "banks", "fifo", "images", "pressed", "cards"}
Running == (Stored \ {"CPU", "META"}) \union Unsaved

\* The sections in the order of savestate_save.
Sections(d) ==
  <<"CPU", "MEM", "VIA", "PSG", "VID", "KBD">> \o (IF "disk" \in d THEN <<"FDC", "MDC">> ELSE <<>>)
  \o <<"TAP">> \o (IF "serial" \in d THEN <<"SER">> ELSE <<>>) \o <<"META">>

\* "pointers" are those of the drive, "sector" the place of the sector in it:
\* cur_sector_data, NoSector when NULL.
Parts == Stored \union Unsaved \union {"picture", "pointers", "sector"}
NoSector == <<>>
Booted == [p \in Parts |-> CASE p = "picture" -> <<0, 0>> [] p = "sector" -> NoSector [] OTHER -> 0]
Nothing == {"nothing"}
NoFile == [body |-> <<>>, whole |-> FALSE, crc |-> <<>>]
Init ==
  /\ devices \in Machines /\ machine = Booted /\ now = 0
  /\ file = NoFile /\ pending = <<>> /\ unread = <<>> /\ saved = {}
  /\ loading = Nothing /\ before = Booted

\* A save and a load are calls of the one thread: nothing else happens meanwhile.
Idle == pending = <<>> /\ unread = <<>>
\* No load has just ended.
Settled == loading' = Nothing /\ before' = Booted

\* A frame: every part changes but the old core, and the picture is drawn.
Run ==
  /\ Idle /\ now < MaxMoment /\ now' = now + 1
  /\ machine' = [p \in Parts |-> CASE p = "picture" -> <<now', now'>>
                                   [] p = "sector" -> <<now'>>
                                   [] p \in Running \union {"pointers"} -> now'
                                   [] OTHER -> machine[p]]
  /\ Settled /\ UNCHANGED <<devices, file, pending, unread, saved>>

(* savestate_save.  The stream reaches the disk in order, at the latest when   *)
(* end_section seeks: the header with the first section, a section with its    *)
(* size still 0, then its size, then the CRC of what is read back.            *)
Save ==
  /\ Idle /\ Cardinality(saved) < MaxSaves
  /\ pending' = Append(Sections(devices), "crc")
  /\ file' = NoFile
  /\ saved' = saved \union {[machine |-> machine, devices |-> devices]}
  /\ Settled /\ UNCHANGED <<devices, machine, now, unread>>

\* The CRC of some bytes stands for the bytes; that of none is 0, as is the
\* placeholder in the header.
Crc(body) == body

Section(tag, moment, sized) == [tag |-> tag, moment |-> moment, sized |-> sized]
Unsized == file.body # <<>> /\ ~Last(file.body).sized
Writes == UNCHANGED <<devices, machine, now, unread, saved, loading, before>>

WriteSection ==
  /\ pending # <<>> /\ Head(pending) # "crc" /\ ~Unsized
  /\ file' = [file EXCEPT !.body = Append(@, Section(Head(pending), machine[Head(pending)], FALSE)), !.whole = TRUE]
  /\ UNCHANGED pending /\ Writes

WriteSize ==
  /\ pending # <<>> /\ Unsized
  /\ file' = [file EXCEPT !.body[Len(file.body)].sized = TRUE]
  /\ pending' = Tail(pending) /\ Writes

WriteCrc ==
  /\ pending = <<"crc">> /\ pending' = <<>>
  /\ file' = [file EXCEPT !.crc = Crc(file.body)]
  /\ Writes

\* The file cannot be read back or opened again: the save ends there, without
\* the CRC.
WriteFails == pending = <<"crc">> /\ pending' = <<>> /\ UNCHANGED file /\ Writes

\* The emulator is killed, or ends, and another starts.
Restart ==
  /\ devices' \in Machines /\ machine' = Booted /\ pending' = <<>> /\ unread' = <<>> /\ Settled
  /\ UNCHANGED <<now, file, saved>>

(* savestate_load *)

\* The length, the magic number, the version and the CRC.
AcceptsMagic ==  \* faulty: the CRC is not looked at
  file.whole
Accepts == file.whole /\ file.crc = Crc(file.body)

Load ==
  /\ Idle /\ Accepts
  /\ unread' = file.body /\ loading' = Nothing /\ before' = machine
  /\ UNCHANGED <<devices, machine, now, file, pending, saved>>

\* One section: the fields it carries and no other of the device.  The picture is
\* drawn from the memory and the registers of that point, the pointers are those
\* of the drive the interface then selects, and the sector is forgotten.
Loaded(s) ==
  LET n == [machine EXCEPT ![s.tag] = s.moment]
  IN  CASE s.tag = "VID"  -> [n EXCEPT !["picture"] = <<n["MEM"], n["VID"]>>]
        [] s.tag = "MDC"  -> [n EXCEPT !["pointers"] = n["MDC"], !["sector"] = NoSector]
        [] s.tag = "META" -> machine
        [] OTHER          -> n

\* The devices that have sections in the file.
Holds == {d \in {"disk", "serial"} :
            \E i \in DOMAIN file.body : file.body[i].tag = IF d = "disk" THEN "MDC" ELSE "SER"}

LoadSection ==
  /\ unread # <<>> /\ unread' = Tail(unread)
  /\ machine' = Loaded(Head(unread))
  /\ loading' = IF unread' = <<>> THEN Holds ELSE Nothing
  /\ UNCHANGED <<devices, now, file, pending, saved, before>>

Next == Run \/ Save \/ WriteSection \/ WriteSize \/ WriteCrc \/ WriteFails \/ Restart \/ Load \/ LoadSection
Spec == Init /\ [][Next]_vars

(* Properties *)

\* What the sections of the file just loaded carry, with what is worked out of
\* them, is that of the save s.
Carried(d) == ToSet(Sections(d)) \ {"META"}
Restores(s) ==
  /\ s.devices = loading
  /\ \A p \in Carried(s.devices) : machine[p] = s.machine[p]
  /\ machine["picture"] = <<s.machine["MEM"], s.machine["VID"]>>
  /\ "disk" \in s.devices => machine["pointers"] = s.machine["MDC"] /\ machine["sector"] = NoSector
\* All the rest is what it was before the load.
Stays ==
  /\ \A p \in (Stored \union Unsaved) \ Carried(loading) : machine[p] = before[p]
  /\ "disk" \notin loading =>
       machine["pointers"] = before["pointers"] /\ machine["sector"] = before["sector"]

\* savestate_load: whenever the saving emulator was killed and whatever devices
\* either has, what an accepted load brings back is of one save, never of two, and
\* is all that the sections of that save carry; what no section of the file
\* carries (Unsaved, and the devices the file has no section for) stays of the
\* present.  So the machine after a load is of two moments, the save's and the
\* load's, cut along the sections and nowhere else.
SectionsOfOneSave == loading # Nothing => Stays /\ \E s \in saved : Restores(s)

\* The machine that comes back is the one that was saved with the processor that
\* runs in it.
LoadsProcessor == loading # Nothing => \E s \in saved : Restores(s) /\ machine["816"] = s.machine["816"]

=============================================================================

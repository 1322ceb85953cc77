------------------------------ MODULE FlashPart ------------------------------
(***************************************************************************)
(* The partition table of the SPI NOR flash (spiflash_part.c), the boot    *)
(* that brings the storage up (filesystem.c) and the mount table of the    *)
(* VFS (vfs.c), under power loss and failing flash operations.             *)
(*                                                                         *)
(* The table lives in sector 0 and every change rewrites it: erase, then   *)
(* program page by page, header first.  A CRC over the entries is in the   *)
(* header; here it is the list of entries it was computed from, so a CRC   *)
(* is taken to tell any two lists apart.  All calls are made by the one    *)
(* foreground thread; `call' is the call it is in.                         *)
(***************************************************************************)
EXTENDS Integers, Sequences, FiniteSets, FiniteSetsExt

CONSTANTS Sectors,        \* sectors of the device
          SectorSize,     \* addresses in a sector
          Wide,           \* 2^32 for uint32_t addresses
          LowSectors,     \* SPIFLASH_PART_LOW_SECTORS
          ScratchSectors, \* SPIFLASH_PART_SCRATCH_SECTORS
          MaxEntries,     \* SPIFLASH_PART_MAX_ENTRIES
          MaxMounts,      \* VFS_MAX_MOUNTS
          HeadSlots,      \* entries in the page that holds the header
          PageSlots,      \* entries in any other page
          Labels,         \* labels the host creates or mounts
          Sizes,          \* sizes the host asks for
          MaxCalls,       \* bound: table changes the host asks for
          MaxCuts,        \* bound: power losses
          Starts,         \* start addresses the host asks for, 0 for any
          IoErrors        \* a flash operation may fail

ASSUME GeometryAssumption ==
    /\ {Sectors, SectorSize, Wide, LowSectors, ScratchSectors} \subseteq Nat \ {0}
    /\ LowSectors >= 2
    /\ LowSectors + ScratchSectors + 2 <= Sectors
    /\ Sectors * SectorSize < Wide
ASSUME SlotsAssumption ==
    /\ {MaxEntries, MaxMounts, HeadSlots, PageSlots} \subseteq Nat \ {0}
    /\ MaxEntries >= 4
ASSUME RequestAssumption == Sizes \subseteq Nat \ {0} /\ Starts \subseteq Nat
ASSUME BoundAssumption == MaxCalls \in Nat /\ MaxCuts \in Nat

VARIABLES sector,   \* what sector 0 holds
          ram,      \* spiflash_part_table_t
          vfs,      \* whether a table is attached, and the mount slots
          files,    \* the file systems on the flash, and whether with files
          call,     \* where the foreground thread is
          known,    \* history: the table last saved or loaded, and those tried
          marked,   \* history: labels the host marked mounted
          calls, cuts

vars == <<sector, ram, vfs, files, call, known, marked, calls, cuts>>

----------------------------------------------------------------------------
(* Sector 0. *)

Cap == Sectors * SectorSize

\* No table magic: erased, or the header did not make it.
Blank == [magic |-> FALSE, whole |-> TRUE, crc |-> << >>, slot |-> << >>]

\* The magic is there and the rest is garbage.
Torn == [magic |-> TRUE, whole |-> FALSE, crc |-> << >>, slot |-> << >>]

\* After n pages of the image of a table have been programmed.
Programmed(image, n) ==
    LET slots == HeadSlots + (n - 1) * PageSlots IN
    [magic |-> TRUE, whole |-> TRUE, crc |-> image,
     slot |-> SubSeq(image, 1, Min({Len(image), slots}))]

PagesOf(image) ==
    CHOOSE n \in 1..(MaxEntries + 1) :
        /\ HeadSlots + (n - 1) * PageSlots >= Len(image)
        /\ n > 1 => HeadSlots + (n - 2) * PageSlots < Len(image)

\* A sector whose erase or program stopped on the way from old to new.
Interrupted(old, new) ==
    {old, new, Torn} \cup (IF old.magic /\ new.magic THEN {} ELSE {Blank})

CrcIgnored(s) == TRUE

CrcMatches(s) == s.whole /\ s.crc = s.slot

Loadable(s) == s.magic /\ CrcMatches(s)

----------------------------------------------------------------------------
(* The table in RAM.  The guards are an array of their own. *)

Entry(label, lfs, start, size) ==
    [label |-> label, lfs |-> lfs, start |-> start, size |-> size]

End(e) == (e.start + e.size) % Wide

NoTable == [valid |-> FALSE, entry |-> << >>,
            guard |-> [i \in 1..MaxEntries |-> FALSE]]

Table(entries) == [NoTable EXCEPT !.valid = TRUE, !.entry = entries]

Find(t, label) == {i \in 1..Len(t.entry) : t.entry[i].label = label}

\* x_spiflash_part_provision_default: one low partition stands for nvm and data.
DefaultLayout ==
    LET region == Sectors - LowSectors - ScratchSectors
        half == region \div 2
        At(label, lfs, first, n) ==
            Entry(label, lfs, first * SectorSize, n * SectorSize)
    IN << At("spiflash0", FALSE, 0, 1),
          At("data", FALSE, 1, LowSectors - 1),
          At("lfs0", TRUE, LowSectors, half),
          At("lfs1", TRUE, LowSectors + half, region - half) >>

RoundUpNot(n) == n

RoundUp(n) ==
    (((n + SectorSize - 1) % Wide) \div SectorSize) * SectorSize

BlockersInside(t, start, size) ==
    {i \in 1..Len(t.entry) :
        /\ start < t.entry[i].start
        /\ (start + size) % Wide > t.entry[i].start}

\* The entries that [start, start + size) runs into.
Blockers(t, start, size) ==
    {i \in 1..Len(t.entry) :
        /\ start < End(t.entry[i])
        /\ (start + size) % Wide > t.entry[i].start}

NoSpace == -1

\* First fit after the table sector, jumping past what is in the way.
AutoPlace(t, size) ==
    LET place[start \in 0..(Wide - 1)] ==
            LET hit == Blockers(t, start, size) IN
            IF (start + size) % Wide > Cap THEN NoSpace
            ELSE IF hit = {} THEN start
            ELSE place[Max({End(t.entry[i]) : i \in hit})]
    IN place[SectorSize]

\* Where create puts a partition: start 0 asks for the first fit.
Placement(t, start, size) ==
    LET first == start - (start % SectorSize) IN
    IF start = 0 THEN AutoPlace(t, size)
    ELSE IF \/ first < SectorSize
            \/ (first + size) % Wide > Cap
            \/ Blockers(t, first, size) # {}
         THEN NoSpace
    ELSE first

AppendedStaleGuard(t, e) == [t EXCEPT !.entry = Append(t.entry, e)]

\* The new entry goes last, with its guard down.
Appended(t, e) ==
    [t EXCEPT !.entry = Append(t.entry, e),
              !.guard[Len(t.entry) + 1] = FALSE]

WithoutNext(t, i) ==
    [t EXCEPT !.entry = [j \in 1..(Len(t.entry) - 1) |->
                            t.entry[IF j <= i THEN j ELSE j + 1]]]

\* The entries after the i-th move down one, and their guards with them.
Without(t, i) ==
    LET n == Len(t.entry) IN
    [t EXCEPT
        !.entry = [j \in 1..(n - 1) |-> t.entry[IF j < i THEN j ELSE j + 1]],
        !.guard = [j \in 1..MaxEntries |->
                      t.guard[IF j >= i /\ j < n THEN j + 1 ELSE j]]]

----------------------------------------------------------------------------
(* File systems: a region of the flash that littlefs has formatted. *)

Region(e) == [start |-> e.start, size |-> e.size]

Apart(a, b) == a.start + a.size <= b.start \/ b.start + b.size <= a.start

Erased(r) == {f \in files : Apart(f.at, r)}

Formatted(r) == Erased(r) \cup {[at |-> r, data |-> FALSE]}

HasFs(r) == \E f \in files : f.at = r

Mounted == DOMAIN vfs.mounted

SlotFor(label) == label \in vfs.used \/ Cardinality(vfs.used) < MaxMounts

NoVfs == [attached |-> FALSE, used |-> {}, mounted |-> << >>]

WithSlot(label) == [vfs EXCEPT !.used = @ \cup {label}]

WithMount(label, r) ==
    [WithSlot(label) EXCEPT
        !.mounted = [l \in Mounted \cup {label} |->
                        IF l = label THEN r ELSE vfs.mounted[l]]]

----------------------------------------------------------------------------
(* Where the foreground thread is. *)

Idle == [at |-> "idle"]
Booting == [at |-> "boot"]
Mounting(i) == [at |-> "mount", next |-> i]
Saving(why, pages) == [at |-> "save", why |-> why, pages |-> pages]
NotErased == -1

Init ==
    /\ sector = Blank /\ ram = NoTable /\ vfs = NoVfs /\ files = {}
    /\ call = Booting
    /\ known = {} /\ marked = {} /\ calls = 0 /\ cuts = 0

\* x_table_save, entered with the table t in RAM.
EnterSave(t, why) ==
    /\ ram' = t
    /\ call' = Saving(why, NotErased)
    /\ known' = known \cup {t.entry}

\* What sector 0 is on its way to.
SaveTarget ==
    IF call.pages = NotErased THEN Blank
    ELSE Programmed(ram.entry, call.pages + 1)

SaveStep ==
    /\ call.at = "save"
    /\ call.pages < PagesOf(ram.entry)
    /\ sector' = SaveTarget
    /\ call' = [call EXCEPT !.pages = @ + 1]
    /\ UNCHANGED <<ram, vfs, files, known, marked, calls, cuts>>

\* The boot goes on to mount; any other caller is done.
SaveEnds ==
    /\ call.at = "save"
    /\ call.pages = PagesOf(ram.entry)
    /\ ram' = [ram EXCEPT !.valid = TRUE]
    /\ known' = {ram.entry}
    /\ IF call.why = "boot"
       THEN vfs' = [vfs EXCEPT !.attached = TRUE] /\ call' = Mounting(1)
       ELSE call' = Idle /\ UNCHANGED vfs
    /\ UNCHANGED <<sector, files, marked, calls, cuts>>

\* An erase or a program fails.  Only create takes its change back.
SaveFails ==
    /\ call.at = "save" /\ IoErrors
    /\ call.pages < PagesOf(ram.entry)
    /\ sector' \in Interrupted(sector, SaveTarget)
    /\ ram' = IF call.why = "create"
              THEN [ram EXCEPT !.entry = SubSeq(@, 1, Len(@) - 1)]
              ELSE ram
    /\ call' = Idle
    /\ UNCHANGED <<vfs, files, known, marked, calls, cuts>>

----------------------------------------------------------------------------
(* x_fs_system_init. *)

\* The device does not answer, or sector 0 cannot be read: storage offline.
BootOffline ==
    /\ call.at = "boot" /\ IoErrors
    /\ call' = Idle
    /\ UNCHANGED <<sector, ram, vfs, files, known, marked, calls, cuts>>

\* No table magic: the default layout goes in.
BootBlank ==
    /\ call.at = "boot"
    /\ ~sector.magic
    /\ EnterSave([NoTable EXCEPT !.entry = DefaultLayout], "boot")
    /\ UNCHANGED <<sector, vfs, files, marked, calls, cuts>>

\* A table that fails its check is left alone: storage offline.
BootCorrupt ==
    /\ call.at = "boot"
    /\ sector.magic /\ ~Loadable(sector)
    /\ call' = Idle
    /\ UNCHANGED <<sector, ram, vfs, files, known, marked, calls, cuts>>

BootLoaded ==
    /\ call.at = "boot"
    /\ Loadable(sector)
    /\ ram' = Table(sector.slot)
    /\ vfs' = [vfs EXCEPT !.attached = TRUE]
    /\ call' = Mounting(1)
    /\ known' = {sector.slot}
    /\ UNCHANGED <<sector, files, marked, calls, cuts>>

\* Each littlefs partition is mounted; one that does not mount is formatted.
BootMount ==
    /\ call.at = "mount"
    /\ call.next <= Len(ram.entry)
    /\ LET e == ram.entry[call.next]
           r == Region(e)
       IN \/ /\ ~e.lfs \/ ~SlotFor(e.label)
             /\ UNCHANGED <<vfs, files>>
          \/ /\ e.lfs /\ SlotFor(e.label)
             /\ \/ HasFs(r) /\ vfs' = WithMount(e.label, r) /\ UNCHANGED files
                \/ /\ ~HasFs(r) \/ IoErrors
                   /\ vfs' = WithMount(e.label, r)
                   /\ files' = Formatted(r)
                \/ /\ IoErrors
                   /\ vfs' = WithSlot(e.label)
                   /\ files' \in {files, Erased(r)}
    /\ call' = Mounting(call.next + 1)
    /\ UNCHANGED <<sector, ram, known, marked, calls, cuts>>

BootEnds ==
    /\ call.at = "mount"
    /\ call.next > Len(ram.entry)
    /\ call' = Idle
    /\ UNCHANGED <<sector, ram, vfs, files, known, marked, calls, cuts>>

----------------------------------------------------------------------------
(* The partition calls of the host's T operations, with whatever is        *)
(* mounted.  The host creates only on a valid table.                       *)

HostCall ==
    /\ call.at = "idle"
    /\ calls < MaxCalls
    /\ calls' = calls + 1
    /\ UNCHANGED <<vfs, cuts>>

Create(label, lfs, size, start) ==
    LET need == RoundUp(size)
        place == Placement(ram, start, need)
    IN /\ HostCall
       /\ ram.valid
       /\ Len(ram.entry) < MaxEntries
       /\ Find(ram, label) = {}
       /\ place # NoSpace
       /\ EnterSave(Appended(ram, Entry(label, lfs, place, need)), "create")
       /\ UNCHANGED <<sector, files, marked>>

Delete(label) ==
    /\ HostCall
    /\ \E i \in Find(ram, label) :
          /\ ~ram.guard[i]
          /\ EnterSave(Without(ram, i), "delete")
    /\ UNCHANGED <<sector, files, marked>>

\* x_spiflash_part_erase.  The default table has an entry for itself, and
\* nothing keeps the host from erasing that one.
Erase(label) ==
    /\ HostCall
    /\ \E i \in Find(ram, label) :
          /\ ~ram.guard[i]
          /\ files' = Erased(Region(ram.entry[i]))
          /\ sector' \in IF ram.entry[i].start >= SectorSize THEN {sector}
                         ELSE IF IoErrors THEN Interrupted(sector, Blank)
                         ELSE {Blank}
    /\ UNCHANGED <<ram, call, known, marked>>

\* x_spiflash_part_provision_default and x_spiflash_part_format.
Replace(entries, why) ==
    /\ HostCall
    /\ EnterSave([ram EXCEPT !.entry = entries, !.guard = NoTable.guard], why)
    /\ marked' = {}
    /\ UNCHANGED <<sector, files>>

Provision == Replace(DefaultLayout, "provision")
Format == Replace(<< >>, "format")

\* x_spiflash_part_table_load, which starts by clearing the table in RAM.
Load ==
    /\ HostCall
    /\ \/ Loadable(sector) /\ ram' = Table(sector.slot) /\ known' = {sector.slot}
       \/ /\ ~Loadable(sector) \/ IoErrors
          /\ ram' = NoTable
          /\ UNCHANGED known
    /\ marked' = {}
    /\ UNCHANGED <<sector, files, call>>

\* The host's "mount" verb of the T operations: x_spiflash_part_set_mounted.
SetMounted(label, on) ==
    /\ call.at = "idle"
    /\ \E i \in Find(ram, label) : ram' = [ram EXCEPT !.guard[i] = on]
    /\ marked' = IF on THEN marked \cup {label} ELSE marked \ {label}
    /\ UNCHANGED <<sector, vfs, files, call, known, calls, cuts>>

----------------------------------------------------------------------------
(* The mount calls of the VFS. *)

VfsCall ==
    /\ call.at = "idle"
    /\ UNCHANGED <<sector, ram, call, known, marked, calls, cuts>>

\* i_vfs_mount(label, false).  A mount that fails keeps its slot.
VfsMount(label) ==
    /\ VfsCall
    /\ vfs.attached /\ SlotFor(label) /\ label \notin Mounted
    /\ \/ \E i \in Find(ram, label) :
             /\ HasFs(Region(ram.entry[i]))
             /\ vfs' = WithMount(label, Region(ram.entry[i]))
       \/ /\ IoErrors \/ \A i \in Find(ram, label) : ~HasFs(Region(ram.entry[i]))
          /\ vfs' = WithSlot(label)
    /\ UNCHANGED files

VfsUnmount(label) ==
    /\ VfsCall
    /\ label \in vfs.used
    /\ vfs' = [vfs EXCEPT !.used = @ \ {label},
                          !.mounted = [l \in Mounted \ {label} |-> vfs.mounted[l]]]
    /\ UNCHANGED files

VfsFormat(label) ==
    /\ VfsCall
    /\ vfs.attached /\ SlotFor(label) /\ label \notin Mounted
    /\ vfs' = WithSlot(label)
    /\ \/ Find(ram, label) = {} /\ UNCHANGED files
       \/ \E i \in Find(ram, label) :
             LET r == Region(ram.entry[i]) IN
             files' \in {Formatted(r)} \cup (IF IoErrors THEN {files, Erased(r)} ELSE {})

\* Something is written to a mounted file system.  The mount goes on using
\* its region when that holds it no longer, and damages what lies there.
WriteFile(label) ==
    /\ VfsCall
    /\ label \in Mounted
    /\ LET r == vfs.mounted[label] IN
       files' \in IF HasFs(r)
                  THEN {{f \in files : f.at # r} \cup {[at |-> r, data |-> TRUE]}}
                  ELSE {files, Erased(r)}
    /\ UNCHANGED vfs

----------------------------------------------------------------------------
\* Power goes, in the middle of an erase or a program as well, and comes back.
PowerCut ==
    /\ cuts < MaxCuts
    /\ sector' \in IF call.at = "save" /\ call.pages < PagesOf(ram.entry)
                   THEN Interrupted(sector, SaveTarget) ELSE {sector}
    /\ ram' = NoTable /\ vfs' = NoVfs /\ call' = Booting
    /\ marked' = {}
    /\ cuts' = cuts + 1
    /\ UNCHANGED <<files, known, calls>>

HostNext ==
    \/ \E i \in 1..Len(ram.entry) : Erase(ram.entry[i].label)
    \/ \E label \in Labels :
        \/ \E lfs \in BOOLEAN, size \in Sizes, start \in Starts :
              Create(label, lfs, size, start)
        \/ Delete(label)
        \/ \E on \in BOOLEAN : SetMounted(label, on)
        \/ VfsMount(label) \/ VfsUnmount(label) \/ VfsFormat(label)
        \/ WriteFile(label)

Next ==
    \/ SaveStep \/ SaveEnds \/ SaveFails
    \/ BootOffline \/ BootBlank \/ BootCorrupt \/ BootLoaded
    \/ BootMount \/ BootEnds
    \/ Provision \/ Format \/ Load \/ HostNext
    \/ PowerCut

Spec == Init /\ [][Next]_vars

----------------------------------------------------------------------------
\* The entries in RAM have distinct labels and aligned, bounded regions; a
\* save is of at most MaxEntries of them; no more slots than VFS_MAX_MOUNTS.
TypeOK ==
    /\ sector.magic \in BOOLEAN /\ sector.whole \in BOOLEAN
    /\ Len(ram.entry) <= MaxEntries
    /\ ram.guard \in [1..MaxEntries -> BOOLEAN]
    /\ \A i \in 1..Len(ram.entry) :
          /\ ram.entry[i].start % SectorSize = 0
          /\ ram.entry[i].size % SectorSize = 0
          /\ Find(ram, ram.entry[i].label) = {i}
    /\ Mounted \subseteq vfs.used /\ Cardinality(vfs.used) <= MaxMounts
    /\ call.at \in {"idle", "boot", "mount", "save"}
    /\ calls \in 0..MaxCalls /\ cuts \in 0..MaxCuts

\* However partitions are created, deleted, compacted and reloaded, no two of
\* them share flash, all lie on the device, and only the table's own entry of
\* the default layout lies in sector 0.
EntriesDisjoint ==
    \A i, j \in 1..Len(ram.entry) :
        LET e == ram.entry[i] IN
        /\ e.start + e.size <= Cap
        /\ e.start < SectorSize => e.label = "spiflash0" /\ e.size = SectorSize
        /\ i # j => Apart(e, ram.entry[j])

\* spiflash_part.h: the table is read back whole or refused.  Wherever power
\* went or an erase or a program failed, what a load accepts is the table last
\* saved or loaded, or one whose save was under way since.
LoadIsKnownTable == Loadable(sector) => sector.slot \in known

\* The mounted guard stays with its label: deletes move entries down and
\* creates use the freed places, and still exactly the labels marked mounted
\* and not released since are refused by delete and erase.
GuardFollowsLabel ==
    {ram.entry[i].label : i \in {k \in 1..Len(ram.entry) : ram.guard[k]}} = marked

\* spiflash_part.h: delete and erase answer BUSY for a partition marked
\* mounted.  While a label's guard stays up, whatever is created, deleted and
\* compacted around it, its entry stays as it is, and no partition call takes
\* away the file system that lies there.
Protected(label) ==
    \A i \in Find(ram, label) :
        LET e == ram.entry[i] IN
        /\ \E j \in Find(ram', label) : ram'.entry[j] = e
        /\ calls' # calls => \A f \in files : f.at = Region(e) => f \in files'

GuardProtects == [][\A label \in marked \cap marked' : Protected(label)]_vars

\* The plan has a mount set the guard, "so delete/erase refuse while mounted".
RefusedWhileMounted ==
    [][\A label \in Mounted : ~Delete(label) /\ ~Erase(label)]_vars

\* filesystem.c: boot does "NOT wipe someone's data".  What it formats is not
\* a file system with files.
BootKeepsFiles ==
    [][call.at = "mount" =>
          \A f \in files : f.data => f \in files']_vars
=============================================================================

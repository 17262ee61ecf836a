--------------------------------- MODULE Layout ---------------------------------
(***************************************************************************)
(* Where things may lie: the segments of a program that load and           *)
(* load_segment of userprog/process.c (pintos2) enter in the supplemental  *)
(* page table, and the partitions that devices/partition.c (the same in    *)
(* both kernels) registers on a device.  Both check 32-bit numbers that    *)
(* come from a disk, and both rely on sums that must not wrap.             *)
(***************************************************************************)
EXTENDS Integers

CONSTANTS
  WORD,      \* 2^32: a uint32_t holds 0 .. WORD - 1
  PageSize,  \* PGSIZE
  UserPages, \* user space is so many pages: PHYS_BASE is its end
  Vaddrs, Offsets, Sizes,   \* the numbers that program headers hold
  Lengths,   \* the lengths of executables
  Devices    \* the sizes of devices and the numbers in partition tables

PHYS_BASE == UserPages * PageSize

ASSUME LayoutAssumption ==
  /\ WORD \in Nat /\ PageSize \in Nat \ {0} /\ UserPages \in Nat
  /\ PHYS_BASE + PageSize < WORD
  /\ Vaddrs \subseteq 0 .. WORD - 1 /\ Offsets \subseteq 0 .. WORD - 1
  /\ Sizes \subseteq 0 .. WORD - 1 /\ Lengths \subseteq 0 .. WORD - 1
  /\ \A length \in Lengths : length + PHYS_BASE < WORD
  /\ Devices \subseteq 0 .. WORD - 1

VARIABLES
  phdr,        \* the program header, NoHeader before there is one
  loading,     \* load_segment's loop: read_bytes, zero_bytes, ofs and upage
  table,       \* what it entered in the supplemental page table
  partition    \* the partition registered last, and its device's size

layoutVars == <<phdr, loading, table, partition>>

NoHeader == [vaddr |-> 0, offset |-> 0, filesz |-> 0, memsz |-> 0]
NoPartition == [start |-> 0, size |-> 0, device |-> 0]
Idle == [read_bytes |-> 0, zero_bytes |-> 0, ofs |-> 0, upage |-> 0]

LayoutInit ==
  phdr = NoHeader /\ loading = Idle /\ table = {} /\ partition = NoPartition

PageOf(a) == (a \div PageSize) * PageSize   \* a & ~PGMASK
ROUND_UP(a) == PageOf((a + PageSize - 1) % WORD)
is_user_vaddr(a) == a < PHYS_BASE

(* WithinBounds: the end is not compared with the start                    *)
validate_segment_F(p, length) ==
  /\ p.offset - PageOf(p.offset) = p.vaddr - PageOf(p.vaddr)
  /\ p.offset <= length
  /\ p.memsz >= p.filesz
  /\ p.memsz # 0
  /\ is_user_vaddr(p.vaddr)
  /\ is_user_vaddr((p.vaddr + p.memsz) % WORD)
  /\ p.vaddr >= PageSize

validate_segment(p, length) ==
  /\ p.offset - PageOf(p.offset) = p.vaddr - PageOf(p.vaddr)
  /\ p.offset <= length
  /\ p.memsz >= p.filesz
  /\ p.memsz # 0
  /\ is_user_vaddr(p.vaddr)
  /\ is_user_vaddr((p.vaddr + p.memsz) % WORD)
  /\ (p.vaddr + p.memsz) % WORD >= p.vaddr
  /\ p.vaddr >= PageSize

(* ImageExact: the segment is taken to begin where its first page does     *)
ReadBytes_F(p) == p.filesz

(* What load_segment is to read, from the start of the first page.         *)
ReadBytes(p) ==
  IF p.filesz > 0 THEN ((p.vaddr - PageOf(p.vaddr)) + p.filesz) % WORD ELSE 0

PageRead(read_bytes) == IF read_bytes < PageSize THEN read_bytes ELSE PageSize

(* A PT_LOAD header, and the numbers load passes to load_segment.          *)
Validate(p, length) ==
  LET to_end == ((p.vaddr - PageOf(p.vaddr)) + p.memsz) % WORD
  IN /\ phdr = NoHeader
     /\ validate_segment(p, length)
     /\ phdr' = p
     /\ loading' = [read_bytes |-> ReadBytes(p),
                    zero_bytes |-> (ROUND_UP(to_end) - ReadBytes(p)) % WORD,
                    ofs |-> PageOf(p.offset),
                    upage |-> PageOf(p.vaddr)]
     /\ UNCHANGED <<table, partition>>

(* One turn of load_segment's loop; suppl_pt_insert_file succeeds.         *)
LoadPage ==
  LET page_read_bytes == PageRead(loading.read_bytes)
      page_zero_bytes == PageSize - page_read_bytes
  IN /\ loading.read_bytes > 0 \/ loading.zero_bytes > 0
     /\ table' = table \cup {[upage |-> loading.upage, ofs |-> loading.ofs,
                              read |-> page_read_bytes, zero |-> page_zero_bytes]}
     /\ loading' = [read_bytes |-> (loading.read_bytes - page_read_bytes) % WORD,
                    zero_bytes |-> (loading.zero_bytes - page_zero_bytes) % WORD,
                    ofs |-> (loading.ofs + page_read_bytes) % WORD,
                    upage |-> (loading.upage + PageSize) % WORD]
     /\ UNCHANGED <<phdr, partition>>

found_partition(device, start, size) ==
  /\ phdr = NoHeader
  /\ start < device
  /\ (start + size) % WORD >= start
  /\ (start + size) % WORD <= device
  /\ partition' = [start |-> start, size |-> size, device |-> device]
  /\ UNCHANGED <<phdr, loading, table>>

LayoutNext ==
  \/ \E p \in [vaddr : Vaddrs, offset : Offsets, filesz : Sizes, memsz : Sizes], length \in Lengths :
       Validate(p, length)
  \/ LoadPage
  \/ \E device, start, size \in Devices : found_partition(device, start, size)

LayoutSpec == LayoutInit /\ [][LayoutNext]_layoutVars

(* partition_read and partition_write: the device's sector, which          *)
(* check_sector then compares with the device's size.                      *)
partition_sector(sector) == (partition.start + sector) % WORD

-----------------------------------------------------------------------------
(* Every page that is entered is a whole page of user space, and none is   *)
(* page 0, whatever the header said.                                       *)
SegmentInUserSpace ==
  \A e \in table : /\ \E k \in 1 .. UserPages - 1 : e.upage = k * PageSize
                   /\ e.read \in 0 .. PageSize /\ e.read + e.zero = PageSize

(* When the loop ends, the memory is what the header describes: the bytes  *)
(* from vaddr on are the filesz bytes of the file from offset on, those up *)
(* to memsz are 0, and a page's place is entered once.                     *)
ImageExact ==
  phdr # NoHeader /\ loading.read_bytes = 0 /\ loading.zero_bytes = 0 =>
    /\ \A a \in phdr.vaddr .. phdr.vaddr + phdr.memsz - 1 :
         \E e \in table :
           /\ e.upage <= a /\ a < e.upage + PageSize
           /\ IF a < phdr.vaddr + phdr.filesz
              THEN a < e.upage + e.read /\ a - e.upage + e.ofs = a - phdr.vaddr + phdr.offset
              ELSE a >= e.upage + e.read
    /\ \A e, f \in table : e.upage = f.upage => e = f

(* A sector that is inside a registered partition is inside its device,    *)
(* and is not another one because of an overflow.                          *)
PartitionInside ==
  \A sector \in 0 .. partition.size - 1 :
    /\ partition_sector(sector) < partition.device
    /\ partition_sector(sector) = partition.start + sector

(* Nothing lies outside the user's space, or outside the device.           *)
WithinBounds == SegmentInUserSpace /\ PartitionInside
==============================================================================

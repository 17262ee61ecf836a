---------------------------- MODULE FileSysProofs ----------------------------
(***************************************************************************)
(* Proofs about FileSys, for any number of sectors, directory entries,     *)
(* files and names, with or without failing allocations: the disk is       *)
(* consistent at every write, and so after a crash; what is open keeps its *)
(* sectors and its counts; and nothing changes a file while one denies     *)
(* writes to it.                                                           *)
(***************************************************************************)
EXTENDS FileSys, SequencesExt, FiniteSetTheorems, WellFoundedInduction, TLAPS

(* A non-empty set of natural numbers has a least element, which Min gives.*)
LEMMA MinOfNats ==
  ASSUME NEW S, S \subseteq Nat, S # {}
  PROVE  Min(S) \in S /\ \A n \in S : Min(S) <= n
<1>1. PICK m \in S : \A n \in S : ~(<<n, m>> \in OpToRel(<, Nat))
  BY NatLessThanWellFounded, WFMin
<1>2. \A n \in S : m <= n
  <2> SUFFICES ASSUME NEW n \in S, n < m PROVE FALSE
    OBVIOUS
  <2> <<n, m>> \in OpToRel(<, Nat)
    BY DEF OpToRel
  <2> QED
    BY <1>1
<1> QED
  BY <1>1, <1>2 DEF Min

InodeRecord ==
  [open_cnt : Nat, removed : BOOLEAN, deny_write_cnt : Nat, data : InodeDisk]

(* The sectors that have a directory's inode.                              *)
EnteredIn(dir) == {dir[i].inode_sector : i \in {j \in Slot : dir[j] # NULL}}
Known == EnteredIn(root) \cup DOMAIN open_inodes

(* The inode in s does not lie in its own file.                            *)
Whole(s, inode) == inode \in InodeDisk /\ s \notin Extent(inode.start, inode.length)
OwnedIn(d, s) == SectorsOf(s, d[s])

(* The files whose inodes are in `known', with the contents d, and what a  *)
(* call has claimed for itself share no sector, and all are in the map.    *)
Apart(d, known, claimed, map) ==
  /\ \A s \in known : Whole(s, d[s]) /\ OwnedIn(d, s) \subseteq map
  /\ \A s, t \in known : s # t => OwnedIn(d, s) \cap OwnedIn(d, t) = {}
  /\ claimed \subseteq map
  /\ \A s \in known : OwnedIn(d, s) \cap claimed = {}

(* What the call in progress has allocated, or has yet to release.         *)
Claimed ==
  CASE call.at \in {"allocate", "undo"} -> {call.sector}
    [] call.at \in {"write", "zero", "release"} -> SectorsOf(call.sector, call.inode)
    [] call.at = "add" -> OwnedIn(disk, call.sector)
    [] call.at = "releaseData" -> Extent(call.inode.start, call.inode.length)
    [] OTHER -> {}

CallInv ==
  /\ call.at \in {"idle", "allocate", "write", "zero", "add", "undo", "release", "releaseData"}
  /\ call.at \in {"allocate", "write", "zero", "add", "undo", "release"} => call.sector \in Sector
  /\ call.at = "allocate" => call.size \in 0 .. MaxSize
  /\ call.at \in {"allocate", "write", "zero", "add"} => call.name \in Name
  /\ call.at \in {"write", "zero", "release"} => Whole(call.sector, call.inode)
  /\ call.at = "write" =>
       call = [at |-> "write", name |-> call.name, sector |-> call.sector, inode |-> call.inode]
  /\ call.at = "zero" => disk[call.sector] = call.inode
  /\ call.at = "add" => Whole(call.sector, disk[call.sector])
  /\ call.at = "releaseData" => call.inode \in InodeDisk

TypeInv ==
  /\ disk \in [Sector -> Data \cup InodeDisk]
  /\ root \in [Slot -> [name : Name, inode_sector : Sector] \cup {NULL}]
  /\ DOMAIN open_inodes \subseteq Sector
  /\ open_inodes \in [DOMAIN open_inodes -> InodeRecord]
  /\ files \in [File -> [inode : Sector, deny_write : BOOLEAN] \cup {NULL}]
  /\ panicked = FALSE

MapInv == free_map \subseteq disk_map /\ disk_map \subseteq Sector

EntriesInv ==
  \A i, j \in Slot :
    root[i] # NULL /\ root[j] # NULL /\ root[i].inode_sector = root[j].inode_sector => i = j

OpenInv ==
  \A s \in DOMAIN open_inodes :
    /\ open_inodes[s].data = disk[s]
    /\ open_inodes[s].removed => s \notin EnteredIn(root)

Openers(fs, s) == {f \in File : fs[f] # NULL /\ fs[f].inode = s}
Deniers(fs, s) == {f \in Openers(fs, s) : fs[f].deny_write}

(* The counts of one inode agree with the files that have it open.         *)
Counted(inodes, fs, s) ==
  /\ s \in DOMAIN inodes <=> Openers(fs, s) # {}
  /\ s \in DOMAIN inodes => /\ inodes[s].open_cnt = Cardinality(Openers(fs, s))
                            /\ inodes[s].deny_write_cnt = Cardinality(Deniers(fs, s))
CountInv == \A s \in Sector : Counted(open_inodes, files, s)

IInv ==
  /\ TypeInv /\ MapInv /\ CallInv /\ EntriesInv /\ OpenInv /\ CountInv
  /\ Apart(disk, Known, Claimed, free_map)

-----------------------------------------------------------------------------
(* A run of sectors that bitmap_scan finds is free.                        *)
LEMMA ScanFinds ==
  ASSUME NEW cnt \in Nat, NEW s \in Scan(cnt)
  PROVE  /\ s \in 0 .. Sectors
         /\ Extent(s, cnt) \subseteq Sector \ free_map
         /\ cnt = 1 => s \in Sector \ free_map
<1>1. CASE cnt = 0
  BY <1>1, FileSysAssumption DEF Scan, Extent
<1>2. CASE cnt # 0
  <2> DEFINE starts == {t \in Sector : Extent(t, cnt) \subseteq Sector \ free_map}
  <2>1. starts # {} /\ s = Min(starts)
    BY <1>2 DEF Scan
  <2>2. starts \subseteq Nat
    BY DEF Sector
  <2>3. s \in starts
    BY <2>1, <2>2, MinOfNats
  <2>4. s \in 0 .. Sectors
    BY <2>3, FileSysAssumption DEF Sector
  <2>5. cnt = 1 => s \in Extent(s, cnt)
    BY <2>4, FileSysAssumption DEF Extent
  <2> QED
    BY <2>3, <2>4, <2>5
<1> QED
  BY <1>1, <1>2

LEMMA SeenInSlot ==
  ASSUME NEW seen \in Seen
  PROVE  seen \subseteq Slot
<1>1. ASSUME NEW n \in 0 .. DirEntries PROVE 1 .. n \subseteq Slot
  BY FileSysAssumption DEF Slot
<1> QED
  BY <1>1 DEF Seen

(* What lookup finds is an entry.                                          *)
LEMMA LookupFinds ==
  ASSUME NEW name, NEW seen \in Seen, lookup(name, seen) # NULL
  PROVE  lookup(name, seen) \in Slot /\ root[lookup(name, seen)] # NULL
<1> DEFINE places == {i \in seen : root[i] # NULL /\ root[i].name = name}
<1>1. places # {} /\ lookup(name, seen) = Min(places)
  BY DEF lookup
<1>2. places \subseteq Nat
  BY SeenInSlot DEF Slot
<1>3. lookup(name, seen) \in places
  BY <1>1, <1>2, MinOfNats
<1> QED
  BY <1>3, SeenInSlot

-----------------------------------------------------------------------------
(* Less is known, less is claimed, and the map loses only what is no       *)
(* longer claimed.                                                         *)
LEMMA ApartLess ==
  ASSUME NEW d, NEW known, NEW claimed, NEW map, Apart(d, known, claimed, map),
         NEW known2 \in SUBSET known, NEW claimed2 \in SUBSET claimed,
         NEW map2, map \ (claimed \ claimed2) \subseteq map2
  PROVE  Apart(d, known2, claimed2, map2)
BY DEF Apart

(* Nothing that is known has been written.                                 *)
LEMMA ApartWrite ==
  ASSUME NEW d, NEW known, NEW claimed, NEW map, Apart(d, known, claimed, map),
         NEW d2, \A s \in known : d2[s] = d[s]
  PROVE  Apart(d2, known, claimed, map)
BY DEF Apart, OwnedIn

(* A file is no longer known, but for the call that will release it.       *)
LEMMA ApartGive ==
  ASSUME NEW d, NEW known, NEW map, Apart(d, known, {}, map), NEW s \in known
  PROVE  Apart(d, known \ {s}, OwnedIn(d, s), map)
BY DEF Apart

(* A file that has been written becomes known.                             *)
LEMMA ApartTake ==
  ASSUME NEW d, NEW known, NEW map, NEW s, Apart(d, known, OwnedIn(d, s), map), Whole(s, d[s])
  PROVE  Apart(d, known \cup {s}, {}, map)
BY DEF Apart

(* Sectors that were free are allocated.                                   *)
LEMMA ApartMore ==
  ASSUME NEW d, NEW known, NEW claimed, NEW map, Apart(d, known, claimed, map),
         NEW sectors, sectors \cap map = {}
  PROVE  Apart(d, known, claimed \cup sectors, map \cup sectors)
BY DEF Apart

(* No inode that is known is in a sector that was claimed.                 *)
LEMMA ClaimedUnknown ==
  ASSUME NEW d, NEW known, NEW claimed, NEW map, Apart(d, known, claimed, map),
         NEW s \in claimed
  PROVE  s \notin known /\ s \in map
BY DEF Apart, OwnedIn, SectorsOf

-----------------------------------------------------------------------------
(* The steps of a call that only writes leave what is open alone.          *)
LEMMA StillOpen ==
  ASSUME IInv, UNCHANGED <<root, open_inodes, files, panicked>>,
         disk' \in [Sector -> Data \cup InodeDisk],
         \A s \in Known : disk'[s] = disk[s],
         MapInv', CallInv', Apart(disk, Known, Claimed', free_map')
  PROVE  IInv'
<1>1. TypeInv' /\ EntriesInv' /\ CountInv' /\ Known' = Known
  BY DEF IInv, TypeInv, EntriesInv, CountInv, Known
<1>2. OpenInv'
  BY DEF IInv, OpenInv, Known
<1>3. Apart(disk', Known, Claimed', free_map')
  BY ApartWrite
<1> QED
  BY <1>1, <1>2, <1>3 DEF IInv

LEMMA CreateInv ==
  ASSUME IInv, NEW name \in Name, NEW size \in 0 .. MaxSize, filesys_create(name, size)
  PROVE  IInv'
<1>1. PICK s \in Scan(1) :
        /\ free_map_allocate({s})
        /\ call' = [at |-> "allocate", name |-> name, size |-> size, sector |-> s]
  BY DEF filesys_create
<1>2. s \in Sector \ free_map
  BY ScanFinds
<1>3. MapInv' /\ CallInv'
  BY <1>1, <1>2 DEF IInv, MapInv, CallInv, free_map_allocate
<1>4. Claimed = {} /\ Claimed' = {s} /\ free_map' = free_map \cup {s}
  BY <1>1 DEF filesys_create, Ready, Idle, Claimed, free_map_allocate
<1>5. Apart(disk, Known, Claimed', free_map')
  <2>1. Apart(disk, Known, Claimed, free_map) /\ {s} \cap free_map = {}
    BY <1>2 DEF IInv
  <2>2. Apart(disk, Known, Claimed \cup {s}, free_map \cup {s})
    BY <2>1, ApartMore
  <2> QED
    BY <1>4, <2>2
<1> QED
  BY <1>3, <1>5, StillOpen DEF filesys_create, IInv, TypeInv

LEMMA AllocateDataInv ==
  ASSUME IInv, AllocateData
  PROVE  IInv'
<1> USE DEF AllocateData, At
<1>1. Claimed = {call.sector} /\ call.sector \in Sector /\ call.size \in 0 .. MaxSize /\ call.name \in Name
  BY DEF Claimed, IInv, CallInv
<1>2. UNCHANGED <<disk, root, open_inodes, files, panicked>> /\ disk \in [Sector -> Data \cup InodeDisk]
  BY DEF IInv, TypeInv
<1>3. ASSUME NEW start \in Scan(call.size), free_map_allocate(Extent(start, call.size)),
             call' = [at |-> "write", name |-> call.name, sector |-> call.sector,
                      inode |-> [start |-> start, length |-> call.size]]
      PROVE  IInv'
  <2> DEFINE sectors == Extent(start, call.size)
  <2>1. call.size \in Nat
    BY <1>1, FileSysAssumption
  <2>2. start \in 0 .. Sectors /\ sectors \subseteq Sector \ free_map
    BY <2>1, ScanFinds
  <2>3. free_map' = free_map \cup sectors /\ disk_map' = free_map'
    BY <1>3 DEF free_map_allocate
  <2>4. MapInv'
    BY <2>2, <2>3 DEF IInv, MapInv
  <2>5. Apart(disk, Known, {call.sector} \cup sectors, free_map \cup sectors)
    BY <1>1, <2>2, ApartMore DEF IInv
  <2>6. Claimed' = {call.sector} \cup sectors
    BY <1>3 DEF Claimed, SectorsOf
  <2>7. call.sector \in free_map
    BY <1>1, ClaimedUnknown DEF IInv
  <2>8. Whole(call.sector, [start |-> start, length |-> call.size])
    BY <1>1, <2>2, <2>7 DEF Whole, InodeDisk
  <2>9. CallInv'
    BY <1>1, <1>3, <2>8 DEF CallInv
  <2> QED
    BY <1>2, <2>3, <2>4, <2>5, <2>6, <2>9, StillOpen
<1>4. ASSUME call' = [at |-> "undo", sector |-> call.sector], UNCHANGED <<free_map, disk_map>>
      PROVE  IInv'
  <2>1. MapInv' /\ CallInv' /\ Claimed' = Claimed
    BY <1>1, <1>4 DEF IInv, MapInv, CallInv, Claimed
  <2> QED
    BY <1>2, <1>4, <2>1, StillOpen DEF IInv
<1> QED
  BY <1>3, <1>4

LEMMA WriteInodeInv ==
  ASSUME IInv, WriteInode
  PROVE  IInv'
<1> DEFINE s == call.sector
<1> USE DEF WriteInode, At
<1>1. /\ s \in Sector /\ Whole(s, call.inode) /\ call.name \in Name
      /\ Claimed = SectorsOf(s, call.inode)
      /\ call' = [at |-> "zero", name |-> call.name, sector |-> s, inode |-> call.inode]
  BY DEF IInv, CallInv, Claimed
<1>2. s \notin Known
  BY <1>1, ClaimedUnknown DEF IInv, SectorsOf
<1>3. disk' \in [Sector -> Data \cup InodeDisk] /\ disk'[s] = call.inode
  BY <1>1 DEF IInv, TypeInv, Whole
<1>4. \A t \in Known : disk'[t] = disk[t]
  BY <1>2 DEF IInv, TypeInv, Known, EnteredIn
<1>5. CallInv'
  BY <1>1, <1>3 DEF CallInv
<1>6. Claimed' = Claimed /\ MapInv'
  BY <1>1 DEF Claimed, IInv, MapInv
<1> QED
  BY <1>3, <1>4, <1>5, <1>6, StillOpen DEF IInv

LEMMA WriteZerosInv ==
  ASSUME IInv, WriteZeros
  PROVE  IInv'
<1> DEFINE s == call.sector
<1> USE DEF WriteZeros, At
<1>1. /\ s \in Sector /\ Whole(s, call.inode) /\ call.name \in Name /\ disk[s] = call.inode
      /\ Claimed = SectorsOf(s, call.inode)
      /\ call' = [at |-> "add", name |-> call.name, sector |-> s]
  BY DEF IInv, CallInv, Claimed
<1>2. \A t \in Extent(call.inode.start, call.inode.length) : t \notin Known
  BY <1>1, ClaimedUnknown DEF IInv, SectorsOf
<1>3. disk' \in [Sector -> Data \cup InodeDisk] /\ disk'[s] = call.inode
  BY <1>1, FileSysAssumption DEF IInv, TypeInv, Whole
<1>4. Known \subseteq Sector
  <2>1. \A i \in Slot : root[i] # NULL => root[i].inode_sector \in Sector
    BY DEF IInv, TypeInv
  <2> QED
    BY <2>1 DEF IInv, TypeInv, Known, EnteredIn
<1>5. \A t \in Known : disk'[t] = disk[t]
  BY <1>2, <1>4
<1>6. CallInv'
  BY <1>1, <1>3 DEF CallInv
<1>7. Claimed' = Claimed /\ MapInv'
  BY <1>1, <1>3 DEF Claimed, OwnedIn, IInv, MapInv
<1> QED
  BY <1>3, <1>5, <1>6, <1>7, StillOpen DEF IInv

(* The inode of a new entry is in no other, nor open: its sector was       *)
(* claimed.  The entry may take the place of one that was not seen.        *)
LEMMA AddEntryInv ==
  ASSUME IInv, AddEntry
  PROVE  IInv'
<1> DEFINE s == call.sector
<1> USE DEF AddEntry, At
<1>1. /\ s \in Sector /\ Whole(s, disk[s]) /\ call.name \in Name
      /\ Claimed = OwnedIn(disk, s)
  BY DEF IInv, CallInv, Claimed
<1>2. s \notin Known
  BY <1>1, ClaimedUnknown DEF IInv, OwnedIn, SectorsOf
<1>3. UNCHANGED <<disk, disk_map, free_map, open_inodes, files, panicked>>
  OBVIOUS
<1>4. ASSUME NEW seen \in Seen, NEW seenAgain \in Seen,
             Addable(call.name, seen, seenAgain), dir_add(call.name, s, seenAgain), call' = Idle
      PROVE  IInv'
  <2> DEFINE i == FreePlace(seenAgain)
             entry == [name |-> call.name, inode_sector |-> s]
  <2>1. i \in Slot /\ root' = [root EXCEPT ![i] = entry]
    BY <1>4 DEF Addable, dir_add
  <2> HIDE DEF i
  <2>2. /\ entry \in [name : Name, inode_sector : Sector] /\ entry # NULL
        /\ entry.inode_sector = s
    BY <1>1, FileSysAssumption DEF Sector
  <2> HIDE DEF entry
  <2>3. root \in [Slot -> [name : Name, inode_sector : Sector] \cup {NULL}]
    BY DEF IInv, TypeInv
  <2>4. \A j \in Slot : root'[j] = IF j = i THEN entry ELSE root[j]
    BY <2>1, <2>3
  <2>5. TypeInv' /\ MapInv' /\ CountInv'
    BY <1>3, <2>1, <2>2, <2>3 DEF IInv, TypeInv, MapInv, CountInv
  <2>6. CallInv' /\ Claimed' = {}
    BY <1>4 DEF CallInv, Claimed, Idle
  <2>7. \A j \in Slot : root[j] # NULL => root[j].inode_sector # s
    BY <1>2 DEF Known, EnteredIn
  <2>8. EntriesInv'
    BY <2>2, <2>4, <2>7 DEF IInv, EntriesInv
  <2>9. EnteredIn(root') \subseteq EnteredIn(root) \cup {s}
    BY <2>2, <2>4 DEF EnteredIn
  <2>10. Known' \subseteq Known \cup {s}
    BY <1>3, <2>9 DEF Known
  <2>11. OpenInv'
    BY <1>2, <1>3, <2>9 DEF IInv, OpenInv, Known
  <2>12. Apart(disk, Known \cup {s}, {}, free_map)
    BY <1>1, ApartTake DEF IInv
  <2>13. Apart(disk, Known', Claimed', free_map)
    BY <2>6, <2>10, <2>12, ApartLess
  <2> QED
    BY <1>3, <2>5, <2>6, <2>8, <2>11, <2>13 DEF IInv
<1>5. ASSUME call' = [at |-> "undo", sector |-> s], UNCHANGED root
      PROVE  IInv'
  <2>1. CallInv' /\ MapInv' /\ Claimed' = {s}
    BY <1>1, <1>5 DEF CallInv, IInv, MapInv, Claimed
  <2>2. Claimed' \subseteq Claimed
    BY <1>1, <2>1 DEF OwnedIn, SectorsOf
  <2>3. Apart(disk, Known, Claimed', free_map)
    BY <2>2, ApartLess DEF IInv
  <2> QED
    BY <1>5, <2>1, <2>3, StillOpen DEF IInv, TypeInv
<1> QED
  BY <1>4, <1>5

(* Sectors that the call has claimed can be released.                      *)
LEMMA ReleaseIs ==
  ASSUME IInv, NEW sectors \in SUBSET Claimed, free_map_release(sectors)
  PROVE  /\ free_map' = free_map \ sectors /\ UNCHANGED panicked
         /\ MapInv'
<1>1. sectors \subseteq free_map
  BY DEF IInv, Apart
<1> QED
  BY <1>1 DEF free_map_release, IInv, MapInv

LEMMA UndoCreateInv ==
  ASSUME IInv, UndoCreate
  PROVE  IInv'
<1> USE DEF UndoCreate, At
<1>1. Claimed = {call.sector} /\ Claimed' = {} /\ CallInv'
  BY DEF Claimed, Idle, CallInv
<1>2. free_map' = free_map \ {call.sector} /\ UNCHANGED panicked /\ MapInv'
  BY <1>1, ReleaseIs
<1>3. Apart(disk, Known, Claimed', free_map')
  BY <1>1, <1>2, ApartLess DEF IInv
<1> QED
  BY <1>1, <1>2, <1>3, StillOpen DEF IInv, TypeInv

LEMMA ReleaseInodeInv ==
  ASSUME IInv, ReleaseInode
  PROVE  IInv'
<1> DEFINE sectors == Extent(call.inode.start, call.inode.length)
<1> USE DEF ReleaseInode, At
<1>1. Claimed = {call.sector} \cup sectors /\ Claimed' = sectors
  BY DEF Claimed, SectorsOf
<1>2. call.sector \notin sectors /\ call.inode \in InodeDisk
  BY DEF IInv, CallInv, Whole
<1>3. CallInv'
  BY <1>2 DEF CallInv
<1>4. free_map' = free_map \ {call.sector} /\ UNCHANGED panicked /\ MapInv'
  BY <1>1, ReleaseIs
<1>5. Apart(disk, Known, Claimed', free_map')
  BY <1>1, <1>2, <1>4, ApartLess DEF IInv
<1> QED
  BY <1>3, <1>4, <1>5, StillOpen DEF IInv, TypeInv

LEMMA ReleaseDataInv ==
  ASSUME IInv, ReleaseData
  PROVE  IInv'
<1> DEFINE sectors == Extent(call.inode.start, call.inode.length)
<1> USE DEF ReleaseData, At
<1>1. Claimed = sectors /\ Claimed' = {} /\ CallInv'
  BY DEF Claimed, Idle, CallInv
<1>2. free_map' = free_map \ sectors /\ UNCHANGED panicked /\ MapInv'
  BY <1>1, ReleaseIs
<1>3. Apart(disk, Known, Claimed', free_map')
  BY <1>1, <1>2, ApartLess DEF IInv
<1> QED
  BY <1>1, <1>2, <1>3, StillOpen DEF IInv, TypeInv

-----------------------------------------------------------------------------
(* Counting.                                                               *)
OpenFile == [inode : Sector, deny_write : BOOLEAN]

LEMMA NullIsNone ==
  NULL \notin OpenFile /\ NULL \notin [name : Name, inode_sector : Sector]
BY FileSysAssumption DEF OpenFile, Sector

LEMMA OpenersFinite ==
  ASSUME NEW fs, NEW s
  PROVE  /\ IsFiniteSet(Openers(fs, s)) /\ IsFiniteSet(Deniers(fs, s))
         /\ Cardinality(Openers(fs, s)) \in Nat /\ Cardinality(Deniers(fs, s)) \in Nat
         /\ Cardinality(Deniers(fs, s)) <= Cardinality(Openers(fs, s))
         /\ Cardinality(Openers(fs, s)) <= Cardinality(File)
         /\ Cardinality(Openers(fs, s)) = 0 <=> Openers(fs, s) = {}
<1>1. Openers(fs, s) \subseteq File /\ Deniers(fs, s) \subseteq Openers(fs, s)
  BY DEF Openers, Deniers
<1>2. IsFiniteSet(File)
  BY FileSysAssumption
<1>3. IsFiniteSet(Openers(fs, s)) /\ Cardinality(Openers(fs, s)) <= Cardinality(File)
  BY <1>1, <1>2, FS_Subset
<1>4. IsFiniteSet(Deniers(fs, s)) /\ Cardinality(Deniers(fs, s)) <= Cardinality(Openers(fs, s))
  BY <1>1, <1>3, FS_Subset
<1> QED
  BY <1>3, <1>4, FS_CardinalityType, FS_EmptySet

(* One struct file is opened, closed or changed.                           *)
Becomes(f, x) == files' = [files EXCEPT ![f] = x]

LEMMA OpenersChange ==
  ASSUME IInv, NEW f \in File, NEW x \in OpenFile \cup {NULL}, Becomes(f, x), NEW s
  PROVE  /\ Openers(files', s) = IF x # NULL /\ x.inode = s
                              THEN Openers(files, s) \cup {f} ELSE Openers(files, s) \ {f}
         /\ Deniers(files', s) = IF x # NULL /\ x.inode = s /\ x.deny_write
                              THEN Deniers(files, s) \cup {f} ELSE Deniers(files, s) \ {f}
<1>1. \A g \in File : files'[g] = IF g = f THEN x ELSE files[g]
  BY DEF IInv, TypeInv, Becomes
<1>2. \A g \in File : g \in Openers(files', s) <=>
                        IF g = f THEN x # NULL /\ x.inode = s ELSE g \in Openers(files, s)
  BY <1>1 DEF Openers
<1>3. \A g \in File : g \in Deniers(files', s) <=>
                        IF g = f THEN x # NULL /\ x.inode = s /\ x.deny_write ELSE g \in Deniers(files, s)
  BY <1>1, <1>2 DEF Deniers, Openers
<1>4. /\ Openers(files, s) \subseteq File /\ Openers(files', s) \subseteq File
      /\ Deniers(files, s) \subseteq File /\ Deniers(files', s) \subseteq File
  BY DEF Openers, Deniers
<1>5. Openers(files', s) = IF x # NULL /\ x.inode = s
                        THEN Openers(files, s) \cup {f} ELSE Openers(files, s) \ {f}
  BY <1>2, <1>4
<1> QED
  BY <1>3, <1>4, <1>5

-----------------------------------------------------------------------------
(* What is open.                                                           *)
LEMMA OpenInode ==
  ASSUME IInv, NEW s \in DOMAIN open_inodes
  PROVE  /\ s \in Sector /\ open_inodes[s] \in InodeRecord /\ open_inodes[s].data = disk[s]
         /\ open_inodes[s].open_cnt = Cardinality(Openers(files, s))
         /\ open_inodes[s].open_cnt \in Nat \ {0}
         /\ open_inodes[s].deny_write_cnt = Cardinality(Deniers(files, s))
         /\ open_inodes[s].deny_write_cnt \in Nat
         /\ open_inodes[s].deny_write_cnt <= open_inodes[s].open_cnt
<1>1. s \in Sector /\ open_inodes[s] \in InodeRecord /\ open_inodes[s].data = disk[s]
  BY DEF IInv, TypeInv, OpenInv
<1>2. Counted(open_inodes, files, s)
  BY <1>1 DEF IInv, CountInv
<1>3. /\ Openers(files, s) # {}
      /\ open_inodes[s].open_cnt = Cardinality(Openers(files, s))
      /\ open_inodes[s].deny_write_cnt = Cardinality(Deniers(files, s))
  BY <1>2 DEF Counted
<1> QED
  BY <1>1, <1>3, OpenersFinite

LEMMA OpenIs ==
  ASSUME IInv, NEW f \in File, files[f] # NULL
  PROVE  /\ files[f] \in OpenFile /\ files[f].inode \in DOMAIN open_inodes
         /\ f \in Openers(files, files[f].inode)
         /\ files[f].deny_write <=> f \in Deniers(files, files[f].inode)
<1>1. files[f] \in OpenFile
  BY DEF IInv, TypeInv, OpenFile
<1>2. f \in Openers(files, files[f].inode) /\ files[f].inode \in Sector
  BY <1>1 DEF Openers, OpenFile
<1>3. files[f].inode \in DOMAIN open_inodes
  BY <1>2 DEF IInv, CountInv, Counted
<1> QED
  BY <1>1, <1>2, <1>3 DEF Deniers

LEMMA InodeOpenIs ==
  ASSUME IInv, NEW s \in EnteredIn(root), NEW inodes, inodes = inode_open(s)
  PROVE  /\ s \in Sector
         /\ DOMAIN inodes = DOMAIN open_inodes \cup {s}
         /\ inodes \in [DOMAIN inodes -> InodeRecord]
         /\ \A t \in DOMAIN open_inodes : t # s => inodes[t] = open_inodes[t]
         /\ inodes[s].open_cnt = Cardinality(Openers(files, s)) + 1
         /\ inodes[s].deny_write_cnt = Cardinality(Deniers(files, s))
         /\ ~inodes[s].removed /\ inodes[s].data = disk[s]
<1>1. s \in Known /\ s \in Sector
  BY DEF Known, EnteredIn, IInv, TypeInv
<1>2. disk[s] \in InodeDisk
  BY <1>1 DEF IInv, Apart, Whole
<1>3. open_inodes \in [DOMAIN open_inodes -> InodeRecord]
  BY DEF IInv, TypeInv
<1>4. CASE s \in DOMAIN open_inodes
  <2>1. inodes = [open_inodes EXCEPT ![s] = [open_inodes[s] EXCEPT !.open_cnt = @ + 1]]
    BY <1>4 DEF inode_open
  <2>2. open_inodes[s] \in InodeRecord /\ open_inodes[s].open_cnt \in Nat /\ open_inodes[s].data = disk[s]
    BY <1>4, OpenInode
  <2>3. ~open_inodes[s].removed
    BY <1>4 DEF IInv, OpenInv
  <2> DEFINE r == [open_inodes[s] EXCEPT !.open_cnt = @ + 1]
  <2>4. /\ r \in InodeRecord /\ r.open_cnt = open_inodes[s].open_cnt + 1
        /\ r.removed = open_inodes[s].removed
        /\ r.data = open_inodes[s].data /\ r.deny_write_cnt = open_inodes[s].deny_write_cnt
    BY <2>2 DEF InodeRecord
  <2> HIDE DEF r
  <2> DEFINE dom == DOMAIN open_inodes
  <2>5. /\ open_inodes \in [dom -> InodeRecord] /\ s \in dom /\ inodes = [open_inodes EXCEPT ![s] = r]
    BY <1>3, <1>4, <2>1 DEF r
  <2> HIDE DEF dom
  <2>6. /\ inodes \in [dom -> InodeRecord] /\ DOMAIN inodes = dom /\ inodes[s] = r
        /\ \A t \in dom : t # s => inodes[t] = open_inodes[t]
    BY <2>4, <2>5
  <2> QED
    BY <1>1, <1>4, <2>2, <2>3, <2>4, <2>6, OpenInode DEF dom
<1>5. CASE s \notin DOMAIN open_inodes
  <2> DEFINE r == [open_cnt |-> 1, removed |-> FALSE, deny_write_cnt |-> 0, data |-> disk[s]]
  <2>1. inodes = [t \in DOMAIN open_inodes \cup {s} |-> IF t # s THEN open_inodes[t] ELSE r]
    BY <1>5 DEF inode_open
  <2>2. r \in InodeRecord
    BY <1>2 DEF InodeRecord
  <2>3. Openers(files, s) = {}
    BY <1>1, <1>5 DEF IInv, CountInv, Counted
  <2>4. Cardinality(Openers(files, s)) = 0 /\ Cardinality(Deniers(files, s)) = 0
    BY <2>3, OpenersFinite
  <2> QED
    BY <1>1, <1>3, <2>1, <2>2, <2>4
<1> QED
  BY <1>4, <1>5

LEMMA FileOpenInv ==
  ASSUME IInv, NEW f \in File, NEW name \in Name, filesys_open(f, name)
  PROVE  IInv'
<1>1. PICK seen \in Seen :
        LET i == lookup(name, seen)
        IN  /\ i # NULL
            /\ open_inodes' = inode_open(root[i].inode_sector)
            /\ files' = [files EXCEPT ![f] = [inode |-> root[i].inode_sector, deny_write |-> FALSE]]
  BY DEF filesys_open
<1> DEFINE i == lookup(name, seen)
           s == root[i].inode_sector
           x == [inode |-> s, deny_write |-> FALSE]
<1>2. i \in Slot /\ root[i] # NULL
  BY <1>1, LookupFinds
<1>3. s \in EnteredIn(root) /\ open_inodes' = inode_open(s) /\ files' = [files EXCEPT ![f] = x]
  BY <1>1, <1>2 DEF EnteredIn
<1> HIDE DEF i, s
<1>4. /\ s \in Sector
      /\ DOMAIN open_inodes' = DOMAIN open_inodes \cup {s}
      /\ open_inodes' \in [DOMAIN open_inodes' -> InodeRecord]
      /\ \A t \in DOMAIN open_inodes : t # s => open_inodes'[t] = open_inodes[t]
      /\ open_inodes'[s].open_cnt = Cardinality(Openers(files, s)) + 1
      /\ open_inodes'[s].deny_write_cnt = Cardinality(Deniers(files, s))
      /\ ~open_inodes'[s].removed /\ open_inodes'[s].data = disk[s]
  BY <1>3, InodeOpenIs
<1>5. x \in OpenFile /\ x.inode = s /\ x.deny_write = FALSE /\ Becomes(f, x)
  BY <1>3, <1>4 DEF OpenFile, Becomes
<1> HIDE DEF x
<1>6. files \in [File -> OpenFile \cup {NULL}] /\ files[f] = NULL
  BY DEF filesys_open, IInv, TypeInv, OpenFile
<1>7. UNCHANGED <<disk, root, disk_map, free_map, call, panicked>> /\ call = Idle
  BY DEF filesys_open, onDisk, Ready
<1>8. TypeInv'
  BY <1>3, <1>4, <1>5, <1>6, <1>7 DEF IInv, TypeInv, OpenFile
<1>9. MapInv' /\ EntriesInv' /\ CallInv'
  BY <1>7 DEF IInv, MapInv, EntriesInv, CallInv
<1>10. OpenInv'
  BY <1>3, <1>4, <1>7 DEF IInv, OpenInv
<1>11. Known' = Known
  BY <1>3, <1>4, <1>7 DEF Known
<1>12. \A t : f \notin Openers(files, t) /\ f \notin Deniers(files, t)
  BY <1>6 DEF Openers, Deniers
<1>13. ASSUME NEW t
       PROVE  /\ Openers(files', t) = IF t = s THEN Openers(files, t) \cup {f} ELSE Openers(files, t)
              /\ Deniers(files', t) = Deniers(files, t)
  <2>1. x # NULL
    BY <1>5, NullIsNone
  <2>2. /\ Openers(files', t) = IF x.inode = t THEN Openers(files, t) \cup {f} ELSE Openers(files, t) \ {f}
        /\ Deniers(files', t) = Deniers(files, t) \ {f}
    BY <1>5, <2>1, OpenersChange
  <2> QED
    BY <1>5, <1>12, <2>2
<1>14. ASSUME NEW t \in Sector PROVE Counted(open_inodes', files', t)
  <2>1. Counted(open_inodes, files, t)
    BY DEF IInv, CountInv
  <2>2. CASE t # s
    BY <1>4, <1>13, <2>1, <2>2 DEF Counted
  <2>3. CASE t = s
    <3>1. Openers(files', s) = Openers(files, s) \cup {f} /\ Deniers(files', s) = Deniers(files, s)
      BY <1>13
    <3>2. Cardinality(Openers(files', s)) = Cardinality(Openers(files, s)) + 1
      BY <1>12, <3>1, OpenersFinite, FS_AddElement
    <3> QED
      BY <1>4, <2>3, <3>1, <3>2 DEF Counted
  <2> QED
    BY <2>2, <2>3
<1>15. CountInv'
  BY <1>14 DEF CountInv
<1>16. Claimed' = Claimed
  BY <1>7 DEF Claimed, Idle
<1> QED
  BY <1>7, <1>8, <1>9, <1>10, <1>11, <1>15, <1>16 DEF IInv

(* A struct file changes and with it the counts of the inode it has open,  *)
(* which stays open.                                                       *)
Counts(s, r) == open_inodes' = [open_inodes EXCEPT ![s] = r]

LEMMA CountsKept ==
  ASSUME IInv, UNCHANGED <<disk, root, disk_map, free_map, call, panicked>>,
         NEW f \in File, NEW x \in OpenFile \cup {NULL}, Becomes(f, x),
         NEW s \in DOMAIN open_inodes, NEW r \in InodeRecord, Counts(s, r),
         r.data = open_inodes[s].data, r.removed = open_inodes[s].removed,
         Openers(files', s) # {},
         r.open_cnt = Cardinality(Openers(files', s)),
         r.deny_write_cnt = Cardinality(Deniers(files', s)),
         \A t : t # s => /\ Openers(files', t) = Openers(files, t)
                         /\ Deniers(files', t) = Deniers(files, t)
  PROVE  IInv'
<1> DEFINE dom == DOMAIN open_inodes
<1>1. open_inodes \in [dom -> InodeRecord] /\ dom \subseteq Sector
  BY DEF IInv, TypeInv
<1>2. s \in dom
  OBVIOUS
<1> HIDE DEF dom
<1>3. /\ open_inodes' \in [dom -> InodeRecord] /\ DOMAIN open_inodes' = dom
      /\ open_inodes'[s] = r
      /\ \A t \in dom : t # s => open_inodes'[t] = open_inodes[t]
  BY <1>1, <1>2 DEF Counts
<1>4. files' \in [File -> OpenFile \cup {NULL}]
  BY DEF Becomes, IInv, TypeInv, OpenFile
<1>5. TypeInv'
  BY <1>1, <1>3, <1>4 DEF IInv, TypeInv, OpenFile
<1>6. MapInv' /\ EntriesInv' /\ CallInv' /\ Claimed' = Claimed
  BY DEF IInv, MapInv, EntriesInv, CallInv, Claimed
<1>7. OpenInv' /\ Known' = Known
  BY <1>3 DEF dom, IInv, OpenInv, Known
<1>8. ASSUME NEW t \in Sector PROVE Counted(open_inodes', files', t)
  <2>1. Counted(open_inodes, files, t)
    BY DEF IInv, CountInv
  <2> QED
    BY <1>2, <1>3, <2>1 DEF dom, Counted
<1>9. CountInv'
  BY <1>8 DEF CountInv
<1> QED
  BY <1>5, <1>6, <1>7, <1>9 DEF IInv

LEMMA FileReopenInv ==
  ASSUME IInv, NEW f \in File, NEW g \in File, file_reopen(f, g)
  PROVE  IInv'
<1> DEFINE s == files[f].inode
           r == [open_inodes[s] EXCEPT !.open_cnt = @ + 1]
           x == [inode |-> s, deny_write |-> FALSE]
<1>1. /\ files[f] # NULL /\ files[g] = NULL
      /\ UNCHANGED <<disk, root, disk_map, free_map, call, panicked>>
  BY DEF file_reopen, onDisk
<1>2. s \in DOMAIN open_inodes
  BY <1>1, OpenIs
<1>3. /\ s \in Sector /\ open_inodes[s] \in InodeRecord
      /\ open_inodes[s].open_cnt = Cardinality(Openers(files, s)) /\ open_inodes[s].open_cnt \in Nat
      /\ open_inodes[s].deny_write_cnt = Cardinality(Deniers(files, s))
  BY <1>2, OpenInode
<1>4. /\ r \in InodeRecord /\ r.data = open_inodes[s].data /\ r.removed = open_inodes[s].removed
      /\ r.open_cnt = open_inodes[s].open_cnt + 1 /\ r.deny_write_cnt = open_inodes[s].deny_write_cnt
  BY <1>3 DEF InodeRecord
<1>5. Counts(s, r) /\ Becomes(g, x)
  BY DEF file_reopen, Counts, Becomes
<1>6. x \in OpenFile /\ x.inode = s /\ x.deny_write = FALSE
  BY <1>3 DEF OpenFile
<1> HIDE DEF s, r, x
<1>7. ASSUME NEW t
      PROVE  /\ Openers(files', t) = IF t = s THEN Openers(files, t) \cup {g} ELSE Openers(files, t)
             /\ Deniers(files', t) = Deniers(files, t) /\ g \notin Openers(files, t)
  <2>1. x # NULL
    BY <1>6, NullIsNone
  <2>2. /\ Openers(files', t) = IF x.inode = t THEN Openers(files, t) \cup {g} ELSE Openers(files, t) \ {g}
        /\ Deniers(files', t) = Deniers(files, t) \ {g}
    BY <1>5, <1>6, <2>1, OpenersChange
  <2>3. g \notin Openers(files, t) /\ g \notin Deniers(files, t)
    BY <1>1 DEF Openers, Deniers
  <2> QED
    BY <1>6, <2>2, <2>3
<1>8. Cardinality(Openers(files', s)) = Cardinality(Openers(files, s)) + 1 /\ Openers(files', s) # {}
  BY <1>7, OpenersFinite, FS_AddElement
<1>9. r.open_cnt = Cardinality(Openers(files', s)) /\ r.deny_write_cnt = Cardinality(Deniers(files', s))
  BY <1>3, <1>4, <1>7, <1>8
<1> QED
  BY <1>1, <1>2, <1>4, <1>5, <1>6, <1>7, <1>8, <1>9, CountsKept

(* As many deny as have the file open, so that no ASSERT fails.            *)
LEMMA FileDenyInv ==
  ASSUME IInv, NEW f \in File, file_deny_write(f)
  PROVE  IInv'
<1> DEFINE s == files[f].inode
           r == [open_inodes[s] EXCEPT !.deny_write_cnt = @ + 1]
           x == [files[f] EXCEPT !.deny_write = TRUE]
<1>1. /\ files[f] # NULL /\ ~files[f].deny_write
      /\ UNCHANGED <<disk, root, disk_map, free_map, call>>
      /\ panicked' = (open_inodes'[s].deny_write_cnt > open_inodes'[s].open_cnt)
  BY DEF file_deny_write, onDisk
<1>2. files[f] \in OpenFile /\ s \in DOMAIN open_inodes /\ f \in Openers(files, s) /\ f \notin Deniers(files, s)
  BY <1>1, OpenIs
<1>3. /\ s \in Sector /\ open_inodes[s] \in InodeRecord
      /\ open_inodes[s].open_cnt = Cardinality(Openers(files, s))
      /\ open_inodes[s].deny_write_cnt = Cardinality(Deniers(files, s)) /\ open_inodes[s].deny_write_cnt \in Nat
  BY <1>2, OpenInode
<1>4. /\ r \in InodeRecord /\ r.data = open_inodes[s].data /\ r.removed = open_inodes[s].removed
      /\ r.open_cnt = open_inodes[s].open_cnt /\ r.deny_write_cnt = open_inodes[s].deny_write_cnt + 1
  BY <1>3 DEF InodeRecord
<1>5. Counts(s, r) /\ Becomes(f, x)
  BY DEF file_deny_write, inode_deny_write, Counts, Becomes
<1>6. x \in OpenFile /\ x.inode = s /\ x.deny_write
  BY <1>2 DEF OpenFile
<1> HIDE DEF s, r, x
<1>7. ASSUME NEW t
      PROVE  /\ Openers(files', t) = IF t = s THEN Openers(files, t) \cup {f} ELSE Openers(files, t) \ {f}
             /\ Deniers(files', t) = IF t = s THEN Deniers(files, t) \cup {f} ELSE Deniers(files, t) \ {f}
  <2>1. x # NULL
    BY <1>6, NullIsNone
  <2> QED
    BY <1>5, <1>6, <2>1, OpenersChange
<1>8. ASSUME NEW t, t # s PROVE f \notin Openers(files, t) /\ f \notin Deniers(files, t)
  BY <1>2, <1>8 DEF Openers, Deniers, s
<1>9. /\ Openers(files', s) = Openers(files, s) /\ Openers(files', s) # {}
      /\ Deniers(files', s) = Deniers(files, s) \cup {f}
  BY <1>2, <1>7
<1>10. Cardinality(Deniers(files', s)) = Cardinality(Deniers(files, s)) + 1
  BY <1>2, <1>9, OpenersFinite, FS_AddElement
<1>11. Cardinality(Deniers(files', s)) <= Cardinality(Openers(files', s))
  BY OpenersFinite
<1>12. open_inodes'[s] = r
  BY <1>2, <1>5 DEF Counts
<1>13. UNCHANGED panicked
  <2>1. ~(r.deny_write_cnt > r.open_cnt)
    BY <1>3, <1>4, <1>9, <1>10, <1>11, OpenersFinite
  <2>2. panicked = FALSE
    BY DEF IInv, TypeInv
  <2> DEFINE fails == open_inodes'[s].deny_write_cnt > open_inodes'[s].open_cnt
  <2>3. fails \in BOOLEAN /\ ~fails /\ panicked' = fails
    BY <1>1, <1>12, <2>1
  <2> HIDE DEF fails
  <2>4. fails = FALSE
    BY <2>3
  <2> QED
    BY <2>2, <2>3, <2>4
<1>14. \A t : t # s => /\ Openers(files', t) = Openers(files, t)
                       /\ Deniers(files', t) = Deniers(files, t)
  BY <1>7, <1>8
<1>15. r.open_cnt = Cardinality(Openers(files', s)) /\ r.deny_write_cnt = Cardinality(Deniers(files', s))
  BY <1>3, <1>4, <1>9, <1>10
<1> QED
  BY <1>1, <1>2, <1>4, <1>5, <1>6, <1>9, <1>13, <1>14, <1>15, CountsKept

(* Who denies is counted, so that the ASSERTs of inode_allow_write hold.   *)
LEMMA DenierAllowable ==
  ASSUME IInv, NEW f \in File, files[f] # NULL, files[f].deny_write
  PROVE  Allowable(files[f].inode)
<1> DEFINE s == files[f].inode
<1>1. s \in DOMAIN open_inodes /\ f \in Deniers(files, s)
  BY OpenIs
<1>2. Cardinality(Deniers(files, s)) # 0
  BY <1>1, OpenersFinite, FS_EmptySet
<1> QED
  BY <1>1, <1>2, OpenInode DEF Allowable

LEMMA FileAllowInv ==
  ASSUME IInv, NEW f \in File, file_allow_write(f)
  PROVE  IInv'
<1> DEFINE s == files[f].inode
           r == [open_inodes[s] EXCEPT !.deny_write_cnt = @ - 1]
           x == [files[f] EXCEPT !.deny_write = FALSE]
<1>1. files[f] # NULL /\ files[f].deny_write
  BY DEF file_allow_write
<1>2. files[f] \in OpenFile /\ s \in DOMAIN open_inodes /\ f \in Openers(files, s) /\ f \in Deniers(files, s)
  BY <1>1, OpenIs
<1>3. /\ s \in Sector /\ open_inodes[s] \in InodeRecord
      /\ open_inodes[s].open_cnt = Cardinality(Openers(files, s))
      /\ open_inodes[s].deny_write_cnt = Cardinality(Deniers(files, s)) /\ open_inodes[s].deny_write_cnt \in Nat
  BY <1>2, OpenInode
<1>4. Allowable(s)
  BY <1>1, DenierAllowable
<1>5. /\ UNCHANGED <<disk, root, disk_map, free_map, call, panicked>>
      /\ Counts(s, r) /\ Becomes(f, x)
  BY <1>4 DEF file_allow_write, onDisk, inode_allow_write, Counts, Becomes
<1>6. open_inodes[s].deny_write_cnt - 1 \in Nat
  BY <1>3, <1>4 DEF Allowable
<1>7. /\ r \in InodeRecord /\ r.data = open_inodes[s].data /\ r.removed = open_inodes[s].removed
      /\ r.open_cnt = open_inodes[s].open_cnt /\ r.deny_write_cnt = open_inodes[s].deny_write_cnt - 1
  BY <1>3, <1>6 DEF InodeRecord
<1>8. x \in OpenFile /\ x.inode = s /\ x.deny_write = FALSE
  BY <1>2 DEF OpenFile
<1> HIDE DEF r, x
<1>9. ASSUME NEW t
      PROVE  /\ Openers(files', t) = IF t = s THEN Openers(files, t) \cup {f} ELSE Openers(files, t) \ {f}
             /\ Deniers(files', t) = Deniers(files, t) \ {f}
  <2>1. x # NULL
    BY <1>8, NullIsNone
  <2> QED
    BY <1>5, <1>8, <2>1, OpenersChange
<1>10. ASSUME NEW t, t # s PROVE f \notin Openers(files, t) /\ f \notin Deniers(files, t)
  BY <1>10 DEF Openers, Deniers
<1> HIDE DEF s
<1>11. \A t : t # s => /\ Openers(files', t) = Openers(files, t)
                       /\ Deniers(files', t) = Deniers(files, t)
  BY <1>9, <1>10
<1>12. Openers(files', s) = Openers(files, s) /\ Openers(files', s) # {}
  BY <1>2, <1>9
<1>13. Cardinality(Deniers(files', s)) = Cardinality(Deniers(files, s)) - 1
  BY <1>2, <1>9, OpenersFinite, FS_RemoveElement
<1>14. r.open_cnt = Cardinality(Openers(files', s)) /\ r.deny_write_cnt = Cardinality(Deniers(files', s))
  BY <1>3, <1>7, <1>12, <1>13
<1> QED
  BY <1>2, <1>5, <1>7, <1>8, <1>11, <1>12, <1>14, CountsKept

(* The last close of an inode: if it was removed the call goes on to       *)
(* release it, and nobody else knows it any more.                          *)
LEMMA LastClose ==
  ASSUME IInv, Ready, UNCHANGED <<disk, root, disk_map, free_map, panicked>>,
         NEW f \in File, Becomes(f, NULL),
         NEW s \in DOMAIN open_inodes, Openers(files', s) = {},
         \A t : t # s => /\ Openers(files', t) = Openers(files, t)
                         /\ Deniers(files', t) = Deniers(files, t),
         open_inodes' = [t \in DOMAIN open_inodes \ {s} |-> open_inodes[t]],
         call' = IF open_inodes[s].removed
                 THEN [at |-> "release", sector |-> s, inode |-> open_inodes[s].data]
                 ELSE Idle
  PROVE  IInv'
<1>1. /\ DOMAIN open_inodes' = DOMAIN open_inodes \ {s}
      /\ \A t \in DOMAIN open_inodes' : open_inodes'[t] = open_inodes[t]
  OBVIOUS
<1>2. TypeInv'
  <2>1. files' \in [File -> OpenFile \cup {NULL}]
    BY DEF Becomes, IInv, TypeInv, OpenFile
  <2>2. open_inodes' \in [DOMAIN open_inodes' -> InodeRecord]
    BY DEF IInv, TypeInv
  <2> QED
    BY <1>1, <2>1, <2>2 DEF IInv, TypeInv, OpenFile
<1>3. MapInv' /\ EntriesInv' /\ OpenInv'
  BY <1>1 DEF IInv, MapInv, EntriesInv, OpenInv
<1>4. ASSUME NEW t \in Sector PROVE Counted(open_inodes', files', t)
  <2>1. Counted(open_inodes, files, t)
    BY DEF IInv, CountInv
  <2> QED
    BY <1>1, <2>1 DEF Counted
<1>5. CountInv'
  BY <1>4 DEF CountInv
<1>6. Claimed = {} /\ Apart(disk, Known, {}, free_map)
  BY DEF Claimed, Ready, Idle, IInv
<1>7. s \in Sector /\ s \in Known /\ Known' = EnteredIn(root) \cup (DOMAIN open_inodes \ {s})
  BY <1>1 DEF IInv, TypeInv, Known
<1>8. CASE ~open_inodes[s].removed
  <2>1. call' = Idle
    BY <1>8
  <2>2. CallInv' /\ Claimed' = {}
    BY <2>1 DEF CallInv, Claimed, Idle
  <2>3. Apart(disk, Known', {}, free_map)
    BY <1>6, <1>7, ApartLess DEF Known
  <2> QED
    BY <1>2, <1>3, <1>5, <2>2, <2>3 DEF IInv
<1>9. CASE open_inodes[s].removed
  <2>1. open_inodes[s].data = disk[s] /\ s \notin EnteredIn(root)
    BY <1>9 DEF IInv, OpenInv
  <2>2. call' = [at |-> "release", sector |-> s, inode |-> disk[s]]
    BY <1>9, <2>1
  <2>3. Whole(s, disk[s])
    BY <1>7 DEF IInv, Apart
  <2>4. CallInv'
    BY <1>7, <2>2, <2>3 DEF CallInv
  <2>5. Claimed' = OwnedIn(disk, s)
    BY <2>2 DEF Claimed, OwnedIn
  <2>6. Apart(disk, Known \ {s}, OwnedIn(disk, s), free_map)
    BY <1>6, <1>7, ApartGive
  <2>7. Known' = Known \ {s}
    BY <1>7, <2>1 DEF Known
  <2> QED
    BY <1>2, <1>3, <1>5, <2>4, <2>5, <2>6, <2>7 DEF IInv
<1> QED
  BY <1>8, <1>9

(* What inode_close does to an inode whose other counts may have changed.  *)
LEMMA CloseIs ==
  ASSUME IInv, NEW s \in DOMAIN open_inodes, NEW q \in InodeRecord,
         q.open_cnt = open_inodes[s].open_cnt, q.removed = open_inodes[s].removed,
         q.data = open_inodes[s].data,
         inode_close([open_inodes EXCEPT ![s] = q], s)
  PROVE  /\ q.open_cnt > 1 => Counts(s, [q EXCEPT !.open_cnt = @ - 1]) /\ call' = Idle
         /\ ~(q.open_cnt > 1) =>
              /\ open_inodes' = [t \in DOMAIN open_inodes \ {s} |-> open_inodes[t]]
              /\ call' = IF open_inodes[s].removed
                         THEN [at |-> "release", sector |-> s, inode |-> open_inodes[s].data]
                         ELSE Idle
<1> DEFINE dom == DOMAIN open_inodes
           inodes == [open_inodes EXCEPT ![s] = q]
<1>1. open_inodes \in [dom -> InodeRecord] /\ s \in dom
  BY DEF IInv, TypeInv
<1> HIDE DEF dom
<1>2. /\ DOMAIN inodes = dom /\ inodes[s] = q
      /\ \A t \in dom \ {s} : inodes[t] = open_inodes[t]
  BY <1>1
<1>3. CASE q.open_cnt > 1
  <2>1. open_inodes' = [inodes EXCEPT ![s].open_cnt = @ - 1] /\ call' = Idle
    BY <1>2, <1>3 DEF inode_close
  <2>2. [inodes EXCEPT ![s].open_cnt = @ - 1] = [open_inodes EXCEPT ![s] = [q EXCEPT !.open_cnt = @ - 1]]
    BY <1>1
  <2> QED
    BY <1>3, <2>1, <2>2 DEF Counts
<1>4. CASE ~(q.open_cnt > 1)
  <2>1. /\ open_inodes' = [t \in DOMAIN inodes \ {s} |-> inodes[t]]
        /\ call' = IF q.removed
                   THEN [at |-> "release", sector |-> s, inode |-> q.data] ELSE Idle
    BY <1>2, <1>4 DEF inode_close
  <2>2. [t \in DOMAIN inodes \ {s} |-> inodes[t]] = [t \in dom \ {s} |-> open_inodes[t]]
    BY <1>2
  <2> QED
    BY <1>4, <2>1, <2>2 DEF dom
<1> QED
  BY <1>3, <1>4

LEMMA FileCloseInv ==
  ASSUME IInv, NEW f \in File, file_close(f)
  PROVE  IInv'
<1> DEFINE s == files[f].inode
           q == IF files[f].deny_write
                THEN [open_inodes[s] EXCEPT !.deny_write_cnt = @ - 1] ELSE open_inodes[s]
           r == [q EXCEPT !.open_cnt = @ - 1]
<1>1. files[f] # NULL /\ UNCHANGED <<disk, root, disk_map, free_map>> /\ Becomes(f, NULL) /\ Ready
  BY DEF file_close, onDisk, Becomes
<1>2. /\ files[f] \in OpenFile /\ s \in DOMAIN open_inodes /\ f \in Openers(files, s)
      /\ files[f].deny_write <=> f \in Deniers(files, s)
  BY <1>1, OpenIs
<1>3. /\ s \in Sector /\ open_inodes[s] \in InodeRecord
      /\ open_inodes[s].open_cnt = Cardinality(Openers(files, s)) /\ open_inodes[s].open_cnt \in Nat \ {0}
      /\ open_inodes[s].deny_write_cnt = Cardinality(Deniers(files, s)) /\ open_inodes[s].deny_write_cnt \in Nat
  BY <1>2, OpenInode
<1>4. ASSUME NEW t
      PROVE  /\ Openers(files', t) = Openers(files, t) \ {f}
             /\ Deniers(files', t) = Deniers(files, t) \ {f}
  BY <1>1, OpenersChange
<1>5. /\ Cardinality(Openers(files', s)) = Cardinality(Openers(files, s)) - 1
      /\ Cardinality(Deniers(files', s)) =
           IF f \in Deniers(files, s) THEN Cardinality(Deniers(files, s)) - 1 ELSE Cardinality(Deniers(files, s))
  BY <1>2, <1>4, OpenersFinite, FS_RemoveElement
<1>6. /\ q \in InodeRecord /\ q.open_cnt = open_inodes[s].open_cnt
      /\ q.removed = open_inodes[s].removed /\ q.data = open_inodes[s].data
      /\ q.deny_write_cnt = Cardinality(Deniers(files', s))
      /\ inode_close([open_inodes EXCEPT ![s] = q], s) /\ UNCHANGED panicked
  <2>1. CASE files[f].deny_write
    <3>1. Allowable(s)
      BY <1>1, <2>1, DenierAllowable
    <3>2. open_inodes[s].deny_write_cnt - 1 \in Nat
      BY <1>3, <3>1 DEF Allowable
    <3>3. inode_allow_write(s) = [open_inodes EXCEPT ![s] = q]
      BY <2>1 DEF inode_allow_write
    <3>4. inode_close(inode_allow_write(s), s) /\ UNCHANGED panicked
      BY <2>1, <3>1 DEF file_close
    <3>5. /\ q \in InodeRecord /\ q.open_cnt = open_inodes[s].open_cnt
          /\ q.removed = open_inodes[s].removed /\ q.data = open_inodes[s].data
          /\ q.deny_write_cnt = open_inodes[s].deny_write_cnt - 1
      BY <1>3, <2>1, <3>2 DEF InodeRecord
    <3> QED
      BY <1>2, <1>3, <1>5, <2>1, <3>3, <3>4, <3>5
  <2>2. CASE ~files[f].deny_write
    <3>1. inode_close(open_inodes, s) /\ UNCHANGED panicked
      BY <2>2 DEF file_close
    <3>2. q = open_inodes[s]
      BY <2>2
    <3>3. open_inodes = [open_inodes EXCEPT ![s] = q]
      BY <3>2 DEF IInv, TypeInv
    <3> QED
      BY <1>2, <1>3, <1>5, <2>2, <3>1, <3>2, <3>3
  <2> QED
    BY <2>1, <2>2
<1>7. ASSUME NEW t, t # s PROVE f \notin Openers(files, t) /\ f \notin Deniers(files, t)
  BY <1>7 DEF Openers, Deniers
<1> HIDE DEF s, q
<1>8. \A t : t # s => /\ Openers(files', t) = Openers(files, t)
                      /\ Deniers(files', t) = Deniers(files, t)
  BY <1>4, <1>7
<1>9. CASE q.open_cnt > 1
  <2>1. Counts(s, r) /\ call' = Idle
    BY <1>2, <1>6, <1>9, CloseIs
  <2>2. /\ r \in InodeRecord /\ r.data = open_inodes[s].data /\ r.removed = open_inodes[s].removed
        /\ r.open_cnt = q.open_cnt - 1 /\ r.deny_write_cnt = q.deny_write_cnt
    BY <1>6, <1>9 DEF InodeRecord
  <2> HIDE DEF r
  <2>3. /\ r.open_cnt = Cardinality(Openers(files', s)) /\ Openers(files', s) # {}
        /\ r.deny_write_cnt = Cardinality(Deniers(files', s))
    BY <1>3, <1>5, <1>6, <1>9, <2>2, FS_EmptySet
  <2>4. UNCHANGED call
    BY <1>1, <2>1 DEF Ready
  <2> QED
    BY <1>1, <1>2, <1>6, <1>8, <2>1, <2>2, <2>3, <2>4, CountsKept
<1>10. CASE ~(q.open_cnt > 1)
  <2>1. /\ open_inodes' = [t \in DOMAIN open_inodes \ {s} |-> open_inodes[t]]
        /\ call' = IF open_inodes[s].removed
                   THEN [at |-> "release", sector |-> s, inode |-> open_inodes[s].data]
                   ELSE Idle
    BY <1>2, <1>6, <1>10, CloseIs
  <2>2. Openers(files', s) = {}
    BY <1>3, <1>5, <1>6, <1>10, OpenersFinite
  <2> QED
    BY <1>1, <1>2, <1>6, <1>8, <2>1, <2>2, LastClose
<1> QED
  BY <1>9, <1>10

(* An entry is erased.  A file that is open stays, now marked; one that is *)
(* not is known to nobody but the call that will release it.               *)
LEMMA FileRemoveInv ==
  ASSUME IInv, NEW name \in Name, filesys_remove(name)
  PROVE  IInv'
<1>1. PICK seen \in Seen :
        LET i == lookup(name, seen)
            s == root[i].inode_sector
        IN  /\ i # NULL
            /\ root' = [root EXCEPT ![i] = NULL]
            /\ inode_close([inode_open(s) EXCEPT ![s].removed = TRUE], s)
  BY DEF filesys_remove
<1> DEFINE i == lookup(name, seen)
           s == root[i].inode_sector
           opened == inode_open(s)
           marked == [opened[s] EXCEPT !.removed = TRUE]
           inodes == [opened EXCEPT ![s] = marked]
<1>2. i \in Slot /\ root[i] # NULL
  BY <1>1, LookupFinds
<1>3. s \in EnteredIn(root) /\ root' = [root EXCEPT ![i] = NULL]
  BY <1>1, <1>2 DEF EnteredIn
<1>4. inode_close(inodes, s)
  BY <1>1
<1> HIDE DEF i
<1>5. root \in [Slot -> [name : Name, inode_sector : Sector] \cup {NULL}]
  BY DEF IInv, TypeInv
<1>6. \A j \in Slot : root'[j] = IF j = i THEN NULL ELSE root[j]
  BY <1>3, <1>5
<1>7. s \notin EnteredIn(root')
  BY <1>2, <1>6 DEF IInv, EntriesInv, EnteredIn
<1>8. EnteredIn(root) = EnteredIn(root') \cup {s}
  BY <1>2, <1>6 DEF EnteredIn
<1> HIDE DEF s
<1>9. /\ s \in Sector
      /\ DOMAIN opened = DOMAIN open_inodes \cup {s}
      /\ opened \in [DOMAIN opened -> InodeRecord]
      /\ \A t \in DOMAIN open_inodes : t # s => opened[t] = open_inodes[t]
      /\ opened[s].open_cnt = Cardinality(Openers(files, s)) + 1
      /\ opened[s].deny_write_cnt = Cardinality(Deniers(files, s))
      /\ opened[s].data = disk[s]
  BY <1>3, InodeOpenIs
<1> HIDE DEF opened
<1>10. opened[s] \in InodeRecord
  BY <1>9
<1>11. /\ marked \in InodeRecord /\ marked.removed = TRUE /\ marked.data = disk[s]
       /\ marked.open_cnt = opened[s].open_cnt /\ marked.deny_write_cnt = opened[s].deny_write_cnt
  BY <1>9, <1>10 DEF InodeRecord
<1> HIDE DEF marked
<1>12. /\ DOMAIN inodes = DOMAIN open_inodes \cup {s} /\ inodes[s] = marked
       /\ \A t \in DOMAIN open_inodes : t # s => inodes[t] = open_inodes[t]
  BY <1>9
<1> HIDE DEF inodes
<1>13. UNCHANGED <<disk, disk_map, free_map, files, panicked>> /\ Ready
  BY DEF filesys_remove
<1>14. MapInv' /\ EntriesInv'
  BY <1>6, <1>13 DEF IInv, MapInv, EntriesInv
<1>15. root' \in [Slot -> [name : Name, inode_sector : Sector] \cup {NULL}]
  BY <1>3, <1>5
<1>16. Claimed = {} /\ Apart(disk, Known, {}, free_map) /\ s \in Known
  BY <1>3, <1>13 DEF Claimed, Ready, Idle, IInv, Known
<1>17. CASE s \in DOMAIN open_inodes
  <2> DEFINE r == [marked EXCEPT !.open_cnt = @ - 1]
  <2>1. /\ open_inodes[s].open_cnt = Cardinality(Openers(files, s)) /\ open_inodes[s].open_cnt \in Nat \ {0}
        /\ open_inodes[s].deny_write_cnt = Cardinality(Deniers(files, s))
    BY <1>17, OpenInode
  <2>2. marked.open_cnt > 1 /\ marked.open_cnt - 1 \in Nat
    BY <1>9, <1>11, <2>1
  <2>3. open_inodes' = [inodes EXCEPT ![s].open_cnt = @ - 1] /\ call' = Idle
    BY <1>4, <1>12, <2>2 DEF inode_close
  <2>4. /\ r \in InodeRecord /\ r.removed = TRUE /\ r.data = disk[s]
        /\ r.open_cnt = open_inodes[s].open_cnt
        /\ r.deny_write_cnt = open_inodes[s].deny_write_cnt
    BY <1>9, <1>11, <2>1, <2>2 DEF InodeRecord
  <2>5. /\ DOMAIN open_inodes' = DOMAIN open_inodes
        /\ \A t \in DOMAIN open_inodes : open_inodes'[t] = IF t = s THEN r ELSE open_inodes[t]
        /\ open_inodes' = [t \in DOMAIN open_inodes' |-> open_inodes'[t]]
    BY <1>12, <1>17, <2>3
  <2> HIDE DEF r
  <2>6. TypeInv'
    BY <1>13, <1>15, <2>4, <2>5 DEF IInv, TypeInv
  <2>7. OpenInv'
    BY <1>7, <1>8, <1>13, <2>4, <2>5 DEF IInv, OpenInv
  <2>8. ASSUME NEW t \in Sector PROVE Counted(open_inodes', files', t)
    <3>1. Counted(open_inodes, files, t)
      BY DEF IInv, CountInv
    <3> QED
      BY <1>13, <2>4, <2>5, <3>1 DEF Counted
  <2>9. CountInv' /\ CallInv' /\ Claimed' = {}
    BY <2>3, <2>8 DEF CountInv, CallInv, Claimed, Idle
  <2>10. Apart(disk, Known', {}, free_map)
    BY <1>8, <1>16, <2>5, ApartLess DEF Known
  <2> QED
    BY <1>13, <1>14, <2>6, <2>7, <2>9, <2>10 DEF IInv
<1>18. CASE s \notin DOMAIN open_inodes
  <2>1. Openers(files, s) = {}
    BY <1>9, <1>18 DEF IInv, CountInv, Counted
  <2>2. marked.open_cnt = 1
    <3>1. Cardinality(Openers(files, s)) = 0
      BY <2>1, FS_EmptySet
    <3> QED
      BY <1>9, <1>11, <3>1
  <2>3. /\ open_inodes' = [t \in DOMAIN inodes \ {s} |-> inodes[t]]
        /\ call' = [at |-> "release", sector |-> s, inode |-> disk[s]]
    BY <1>4, <1>11, <1>12, <2>2 DEF inode_close
  <2>4. open_inodes = [t \in DOMAIN open_inodes |-> open_inodes[t]]
    BY DEF IInv, TypeInv
  <2>5. DOMAIN inodes \ {s} = DOMAIN open_inodes /\ \A t \in DOMAIN open_inodes : inodes[t] = open_inodes[t]
    BY <1>12, <1>18
  <2>6. open_inodes' = open_inodes
    BY <2>3, <2>4, <2>5
  <2>7. TypeInv' /\ CountInv'
    BY <1>13, <1>15, <2>6 DEF IInv, TypeInv, CountInv
  <2>8. OpenInv'
    BY <1>8, <1>13, <2>6 DEF IInv, OpenInv
  <2>9. Whole(s, disk[s])
    BY <1>16 DEF Apart
  <2>10. CallInv' /\ Claimed' = OwnedIn(disk, s)
    BY <1>9, <2>3, <2>9 DEF CallInv, Claimed, OwnedIn
  <2>11. Apart(disk, Known \ {s}, OwnedIn(disk, s), free_map)
    BY <1>16, ApartGive
  <2>12. Known' = Known \ {s}
    BY <1>7, <1>8, <1>18, <2>6 DEF Known
  <2> QED
    BY <1>13, <1>14, <2>7, <2>8, <2>10, <2>11, <2>12 DEF IInv
<1> QED
  BY <1>17, <1>18

(* Writing to a file touches no inode: the file's own data is apart from   *)
(* its inode, and from every other file.                                   *)
LEMMA FileWriteInv ==
  ASSUME IInv, NEW f \in File, file_write(f)
  PROVE  IInv'
<1> DEFINE s == files[f].inode
<1>1. s \in DOMAIN open_inodes
  BY OpenIs DEF file_write
<1>2. s \in Sector /\ open_inodes[s].data = disk[s]
  BY <1>1, OpenInode
<1>3. PICK t \in Extent(disk[s].start, disk[s].length), text \in Data :
        disk' = [disk EXCEPT ![t] = text]
  BY <1>2 DEF file_write
<1>4. disk \in [Sector -> Data \cup InodeDisk]
  BY DEF IInv, TypeInv
<1>5. s \in Known /\ Whole(s, disk[s]) /\ t \in OwnedIn(disk, s)
  BY <1>1, <1>3 DEF Known, IInv, Apart, OwnedIn, SectorsOf
<1>6. t \notin Known
  BY <1>3, <1>5 DEF IInv, Apart, Whole, OwnedIn, SectorsOf
<1>7. Known \subseteq Sector
  <2>1. \A i \in Slot : root[i] # NULL => root[i].inode_sector \in Sector
    BY DEF IInv, TypeInv
  <2> QED
    BY <2>1 DEF IInv, TypeInv, Known, EnteredIn
<1>8. /\ disk' \in [Sector -> Data \cup InodeDisk]
      /\ \A u \in Known : disk'[u] = disk[u]
  BY <1>3, <1>4, <1>6, <1>7
<1>9. /\ UNCHANGED <<root, disk_map, free_map, open_inodes, files, call, panicked>>
      /\ call = Idle
  BY DEF file_write, Ready
<1>10. MapInv' /\ CallInv' /\ Claimed = {} /\ Claimed' = {}
  BY <1>9 DEF IInv, MapInv, CallInv, Claimed, Idle
<1> QED
  BY <1>8, <1>9, <1>10, StillOpen DEF IInv

(* The map on the disk has what the one in memory has, and the files of    *)
(* the entries have no need of more.                                       *)
LEMMA RestartInv ==
  ASSUME IInv, Restart
  PROVE  IInv'
<1> USE DEF Restart, onDisk
<1>1. DOMAIN open_inodes' = {} /\ files' = [f \in File |-> NULL]
  OBVIOUS
<1>2. TypeInv' /\ MapInv' /\ EntriesInv' /\ OpenInv'
  BY <1>1 DEF IInv, TypeInv, MapInv, EntriesInv, OpenInv
<1>3. CallInv' /\ Claimed' = {}
  BY DEF CallInv, Claimed, Idle
<1>4. CountInv'
  BY <1>1 DEF CountInv, Counted, Openers
<1>5. Known' \subseteq Known /\ free_map \subseteq free_map'
  BY <1>1 DEF Known, IInv, MapInv
<1>6. Apart(disk, Known', {}, free_map')
  BY <1>5, ApartLess DEF IInv
<1> QED
  BY <1>2, <1>3, <1>4, <1>6 DEF IInv

-----------------------------------------------------------------------------
LEMMA InitInv == Init => IInv
<1> SUFFICES ASSUME Init PROVE IInv
  OBVIOUS
<1> USE DEF Init
<1>1. DOMAIN open_inodes = {} /\ EnteredIn(root) = {}
  BY DEF EnteredIn
<1>2. TypeInv
  BY <1>1, FileSysAssumption DEF TypeInv
<1>3. MapInv /\ CallInv /\ EntriesInv /\ OpenInv
  BY <1>1 DEF MapInv, CallInv, EntriesInv, OpenInv, Idle
<1>4. CountInv
  BY <1>1 DEF CountInv, Counted, Openers
<1>5. Claimed = {} /\ Known = {}
  BY <1>1 DEF Claimed, Idle, Known
<1>6. Apart(disk, Known, Claimed, free_map)
  BY <1>5 DEF Apart
<1> QED
  BY <1>2, <1>3, <1>4, <1>6 DEF IInv

LEMMA StepInv == IInv /\ [Next]_vars => IInv'
<1> SUFFICES ASSUME IInv, [Next]_vars PROVE IInv'
  OBVIOUS
<1>1. CASE UNCHANGED vars
  <2>1. UNCHANGED <<disk, root, disk_map, free_map, open_inodes, files, call, panicked>>
    BY <1>1 DEF vars, onDisk
  <2>2. MapInv' /\ CallInv' /\ Claimed' = Claimed
    BY <2>1 DEF IInv, MapInv, CallInv, Claimed, OwnedIn
  <2> QED
    BY <2>1, <2>2, StillOpen DEF IInv, TypeInv
<1>2. CASE Next
  <2>1. ASSUME NEW name \in Name, NEW size \in 0 .. MaxSize, filesys_create(name, size) PROVE IInv'
    BY <2>1, CreateInv
  <2>2. CASE AllocateData \/ WriteInode \/ WriteZeros \/ AddEntry \/ UndoCreate \/ ReleaseInode \/ ReleaseData
    BY <2>2, AllocateDataInv, WriteInodeInv, WriteZerosInv, AddEntryInv, UndoCreateInv,
       ReleaseInodeInv, ReleaseDataInv
  <2>3. ASSUME NEW name \in Name, filesys_remove(name) PROVE IInv'
    BY <2>3, FileRemoveInv
  <2>4. ASSUME NEW f \in File, NEW name \in Name, filesys_open(f, name) PROVE IInv'
    BY <2>4, FileOpenInv
  <2>5. ASSUME NEW f \in File, NEW g \in File, file_reopen(f, g) PROVE IInv'
    BY <2>5, FileReopenInv
  <2>6. ASSUME NEW f \in File, file_deny_write(f) PROVE IInv'
    BY <2>6, FileDenyInv
  <2>7. ASSUME NEW f \in File, file_allow_write(f) PROVE IInv'
    BY <2>7, FileAllowInv
  <2>8. ASSUME NEW f \in File, file_close(f) PROVE IInv'
    BY <2>8, FileCloseInv
  <2>9. ASSUME NEW f \in File, file_write(f) PROVE IInv'
    BY <2>9, FileWriteInv
  <2>10. CASE Restart
    BY <2>10, RestartInv
  <2> QED
    BY <1>2, <2>1, <2>2, <2>3, <2>4, <2>5, <2>6, <2>7, <2>8, <2>9, <2>10 DEF Next
<1> QED
  BY <1>1, <1>2

LEMMA Invariance == Spec => []IInv
BY InitInv, StepInv, PTL DEF Spec

(* What the invariant says of the disk, which is all that a crash leaves.  *)
LEMMA DiskFromInv == IInv => DiskConsistent
<1> SUFFICES ASSUME IInv PROVE DiskConsistent
  OBVIOUS
<1>1. ASSUME NEW s \in DOMAIN open_inodes
      PROVE  open_inodes[s].open_cnt \in 1 .. Cardinality(File)
  <2>1. /\ open_inodes[s].open_cnt = Cardinality(Openers(files, s))
        /\ open_inodes[s].open_cnt \in Nat \ {0}
    BY OpenInode
  <2>2. Cardinality(Openers(files, s)) <= Cardinality(File) /\ Cardinality(File) \in Nat
    BY OpenersFinite, FileSysAssumption, FS_CardinalityType
  <2> QED
    BY <2>1, <2>2
<1>2. FileSysTypeOK
  BY <1>1 DEF FileSysTypeOK, IInv, TypeInv, MapInv
<1>3. ASSUME NEW i \in Entries
      PROVE  /\ root[i].inode_sector \in Known
             /\ disk[root[i].inode_sector] \in InodeDisk
             /\ OwnedIn(disk, root[i].inode_sector) \subseteq disk_map
  <2>1. root[i].inode_sector \in Known
    BY DEF Entries, Known, EnteredIn
  <2> QED
    BY <2>1 DEF IInv, Apart, Whole, MapInv
<1>4. ASSUME NEW i \in Entries, NEW j \in Entries, i # j
      PROVE  OwnedIn(disk, root[i].inode_sector) \cap OwnedIn(disk, root[j].inode_sector) = {}
  <2>1. root[i].inode_sector # root[j].inode_sector
    BY <1>4 DEF Entries, IInv, EntriesInv
  <2> QED
    BY <1>3, <2>1 DEF IInv, Apart
<1> QED
  BY <1>2, <1>3, <1>4 DEF DiskConsistent, OwnedIn

(* What it says of the open files.                                         *)
LEMMA FilesFromInv == IInv => OpenFilesExact
<1> SUFFICES ASSUME IInv PROVE OpenFilesExact
  OBVIOUS
<1>1. ASSUME NEW s \in DOMAIN open_inodes
      PROVE  /\ open_inodes[s].removed => s \notin EnteredIn(root)
             /\ SectorsOf(s, open_inodes[s].data) = OwnedIn(disk, s)
             /\ OwnedIn(disk, s) \subseteq free_map
             /\ \A t \in Known : s # t => OwnedIn(disk, s) \cap OwnedIn(disk, t) = {}
  BY DEF IInv, OpenInv, OwnedIn, Apart, Known
<1>2. DOMAIN open_inodes \subseteq Known /\ EnteredIn(root) \subseteq Known
  BY DEF Known
<1>3. EnteredIn(root) = {root[i].inode_sector : i \in Entries}
  BY DEF EnteredIn, Entries
<1>4. OpenFilesKeepSectors
  BY <1>1, <1>2, <1>3 DEF OpenFilesKeepSectors, OwnedIn
<1>5. CountsExact
  <2>1. ASSUME NEW s \in Sector
        PROVE  /\ s \in DOMAIN open_inodes <=> Openers(files, s) # {}
               /\ Openers(files, s) # {} =>
                    /\ open_inodes[s].open_cnt = Cardinality(Openers(files, s))
                    /\ open_inodes[s].deny_write_cnt = Cardinality(Deniers(files, s))
    BY DEF IInv, CountInv, Counted
  <2> QED
    BY <2>1 DEF CountsExact, IInv, TypeInv, Openers, Deniers
<1> QED
  BY <1>4, <1>5 DEF OpenFilesExact

(* At every write, and so after a crash, the entries on the disk lead to   *)
(* inodes, and no two files share a sector or have one that is free        *)
(* (filesys_create, dir_remove, inode_close, free_map_allocate).           *)
THEOREM DiskAlwaysConsistent == Spec => []DiskConsistent
BY Invariance, DiskFromInv, PTL

(* A file that is open keeps its sectors, removed or not, and its counts   *)
(* are the number of struct files that have it open and that deny writes;  *)
(* no ASSERT fails (inode_open, inode_close, file_deny_write).             *)
THEOREM OpenFilesAlwaysExact == Spec => []OpenFilesExact
BY Invariance, FilesFromInv, PTL

-----------------------------------------------------------------------------
(* What no step may change while f denies writes.                          *)
Kept(f) ==
  files[f] # NULL /\ files[f].deny_write =>
    \A s \in SectorsOf(files[f].inode, open_inodes[files[f].inode].data) : disk'[s] = disk[s]

(* Only a call that has claimed a sector, or a file that nobody denies     *)
(* writes to, writes to it.                                                *)
LEMMA WhoWrites ==
  ASSUME IInv, [Next]_vars, NEW s \in Sector, disk'[s] # disk[s]
  PROVE  \/ s \in Claimed
         \/ \E t \in DOMAIN open_inodes : open_inodes[t].deny_write_cnt = 0 /\ s \in OwnedIn(disk, t)
<1>1. CASE WriteInode
  <2>1. s = call.sector
    BY <1>1 DEF WriteInode, IInv, TypeInv
  <2> QED
    BY <1>1, <2>1 DEF WriteInode, At, Claimed, SectorsOf
<1>2. CASE WriteZeros
  <2>1. s \in Extent(call.inode.start, call.inode.length)
    BY <1>2 DEF WriteZeros
  <2> QED
    BY <1>2, <2>1 DEF WriteZeros, At, Claimed, SectorsOf
<1>3. ASSUME NEW f \in File, file_write(f)
      PROVE  \E t \in DOMAIN open_inodes : open_inodes[t].deny_write_cnt = 0 /\ s \in OwnedIn(disk, t)
  <2> DEFINE t == files[f].inode
  <2>1. t \in DOMAIN open_inodes
    BY <1>3, OpenIs DEF file_write
  <2>2. open_inodes[t].data = disk[t]
    BY <2>1, OpenInode
  <2>3. PICK u \in Extent(disk[t].start, disk[t].length), text \in Data :
          disk' = [disk EXCEPT ![u] = text]
    BY <1>3, <2>2 DEF file_write
  <2>4. s = u
    BY <2>3 DEF IInv, TypeInv
  <2>5. open_inodes[t].deny_write_cnt = 0
    BY <1>3 DEF file_write
  <2> QED
    BY <2>1, <2>3, <2>4, <2>5 DEF OwnedIn, SectorsOf
<1>4. CASE UNCHANGED disk
  BY <1>4
<1>5. \/ WriteInode \/ WriteZeros \/ \E f \in File : file_write(f)
      \/ UNCHANGED disk
  BY DEF vars, Next, onDisk, filesys_create, AllocateData, AddEntry, UndoCreate, ReleaseInode,
     ReleaseData, filesys_remove, filesys_open, file_reopen, file_deny_write, file_allow_write,
     file_close, Restart
<1> QED
  BY <1>1, <1>2, <1>3, <1>4, <1>5

LEMMA StepKeeps ==
  ASSUME IInv, [Next]_vars, NEW f \in File
  PROVE  Kept(f)
<1> SUFFICES ASSUME files[f] # NULL, files[f].deny_write,
                    NEW s \in SectorsOf(files[f].inode, open_inodes[files[f].inode].data),
                    disk'[s] # disk[s]
             PROVE  FALSE
  BY DEF Kept
<1> DEFINE u == files[f].inode
<1>1. u \in DOMAIN open_inodes /\ f \in Deniers(files, u)
  BY OpenIs
<1>2. open_inodes[u].data = disk[u] /\ open_inodes[u].deny_write_cnt = Cardinality(Deniers(files, u))
  BY <1>1, OpenInode
<1>3. open_inodes[u].deny_write_cnt # 0
  BY <1>1, <1>2, OpenersFinite, FS_EmptySet
<1>4. u \in Known /\ s \in OwnedIn(disk, u)
  BY <1>1, <1>2 DEF Known, OwnedIn
<1> HIDE DEF u
<1>5. s \in Sector /\ s \notin Claimed
  BY <1>4 DEF IInv, Apart, MapInv
<1>6. PICK t \in DOMAIN open_inodes : open_inodes[t].deny_write_cnt = 0 /\ s \in OwnedIn(disk, t)
  BY <1>5, WhoWrites
<1>7. t = u
  BY <1>4, <1>6 DEF Known, IInv, Apart
<1> QED
  BY <1>3, <1>6, <1>7

(* While a file denies writes to an inode no step changes its contents: no *)
(* write through another file, and no new file in its sectors              *)
(* (inode_deny_write, inode_write_at).                                     *)
THEOREM DeniedNeverChanges == Spec => DeniedUnchanged
<1>1. IInv /\ [Next]_vars =>
        [\A f \in File :
           files[f] # NULL /\ files[f].deny_write =>
             \A s \in SectorsOf(files[f].inode, open_inodes[files[f].inode].data) : disk'[s] = disk[s]]_vars
  BY StepKeeps DEF Kept
<1> QED
  BY <1>1, Invariance, PTL DEF Spec, DeniedUnchanged
==============================================================================

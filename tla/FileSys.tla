------------------------------- MODULE FileSys -------------------------------
(***************************************************************************)
(* The file system: filesys/free-map.c, inode.c, directory.c, filesys.c    *)
(* and file.c, on a disk that outlives a crash.                            *)
(*                                                                         *)
(* The file system does not synchronise its callers: they call it one at a *)
(* time, as pintos2 does where it holds filesys_lock.  So a call is steps  *)
(* only where the disk is written, since the machine may stop between two  *)
(* writes.  An allocation may fail wherever the code allows for it.        *)
(* The free map and the root directory are a sector each, as they are on   *)
(* disks of up to 2 MB.                                                    *)
(***************************************************************************)
EXTENDS Naturals, FiniteSetsExt

CONSTANTS
  Name, LongName,    \* file names, and one that is longer than NAME_MAX
  File,              \* struct files
  Sectors,           \* the sectors left by format, from 1; 0 is the free map's
  DirEntries,        \* the places in the root directory
  MaxSize,           \* the largest file, in sectors
  Data, Zeros,       \* what a sector of data may hold, and zeros
  LowMemory,         \* whether an allocation may fail
  NULL

ASSUME FileSysAssumption ==
  /\ Sectors \in Nat /\ DirEntries \in Nat \ {0} /\ MaxSize \in Nat
  /\ LongName \in Name /\ Zeros \in Data /\ LowMemory \in BOOLEAN
  /\ IsFiniteSet(File)
  /\ NULL \notin Nat
  /\ NULL \notin [name : Name, inode_sector : 1 .. Sectors]
  /\ NULL \notin [inode : 1 .. Sectors, deny_write : BOOLEAN]

VARIABLES
  disk,         \* the contents of each sector: an inode, or data
  root,         \* the places of the root directory, on disk
  disk_map,     \* the free map on disk: the sectors in use
  free_map,     \* the free map in memory
  open_inodes,  \* the struct inodes, by their sector
  files,        \* each struct file, or NULL
  call,         \* the call in progress, between two of its writes
  panicked      \* an ASSERT has failed

onDisk == <<disk, root, disk_map>>
vars == <<onDisk, free_map, open_inodes, files, call, panicked>>

Sector == 1 .. Sectors
Slot == 1 .. DirEntries
Idle == [at |-> "idle"]

Extent(start, length) == start .. start + length - 1
InodeDisk == [start : 0 .. Sectors, length : 0 .. MaxSize]

(* The sectors of the file whose inode is in s.                            *)
SectorsOf(s, inode) == {s} \cup Extent(inode.start, inode.length)

-----------------------------------------------------------------------------
Init ==
  /\ disk = [s \in Sector |-> Zeros] /\ root = [i \in Slot |-> NULL]
  /\ disk_map = {} /\ free_map = {}
  /\ open_inodes = [s \in {} |-> NULL]
  /\ files = [f \in File |-> NULL]
  /\ call = Idle
  /\ panicked = FALSE

May(fails) == fails => LowMemory
Ready == call = Idle /\ ~panicked
At(place) == call.at = place /\ ~panicked

(* Faulty variants (_F) of a definition stand before it: each is a slip    *)
(* that the property named with it must catch.                             *)

(* bitmap_scan: where the first CNT free sectors in a row may begin.       *)
Scan(cnt) ==
  IF cnt = 0 THEN {0}
  ELSE LET starts == {s \in Sector : Extent(s, cnt) \subseteq Sector \ free_map}
       IN  IF starts = {} THEN {} ELSE {Min(starts)}

(* DiskConsistent: the map is not written                                  *)
free_map_allocate_F(sectors) ==
  free_map' = free_map \cup sectors /\ UNCHANGED disk_map

(* free_map_allocate, of sectors that Scan has found.                      *)
free_map_allocate(sectors) ==
  free_map' = free_map \cup sectors /\ disk_map' = free_map'

(* free_map_release does not mind if the map cannot be written.            *)
free_map_release(sectors) ==
  IF sectors \subseteq free_map
  THEN /\ free_map' = free_map \ sectors
       /\ \E fails \in BOOLEAN : May(fails) /\ disk_map' = IF fails THEN disk_map ELSE free_map'
       /\ UNCHANGED panicked
  ELSE panicked' = TRUE /\ UNCHANGED <<free_map, disk_map>>

-----------------------------------------------------------------------------
(* Directories.  A read of an entry needs memory, and one that finds none  *)
(* looks like the end of the directory: the entries before it are seen.    *)
Seen == IF LowMemory THEN {1 .. n : n \in 0 .. DirEntries} ELSE {Slot}

(* lookup: where name is among the entries seen, if it is.                 *)
lookup(name, seen) ==
  LET places == {i \in seen : root[i] # NULL /\ root[i].name = name}
  IN  IF places = {} THEN NULL ELSE Min(places)

(* The place dir_add takes: the first that is free, or else where reading  *)
(* ended, which may be beyond the last.                                    *)
FreePlace(seen) ==
  LET free == {i \in seen : root[i] = NULL}
  IN  IF free = {} THEN Cardinality(seen) + 1 ELSE Min(free)

(* dir_add, with what its two passes through the directory have seen.      *)
Addable(name, seen, seenAgain) ==
  name # LongName /\ lookup(name, seen) = NULL /\ FreePlace(seenAgain) \in Slot

dir_add(name, s, seenAgain) ==
  root' = [root EXCEPT ![FreePlace(seenAgain)] = [name |-> name, inode_sector |-> s]]

-----------------------------------------------------------------------------
(* filesys_create: a sector for the inode, the sectors for the data, the   *)
(* inode, zeros, and the entry.  Only the first is given back on failure.  *)
filesys_create(name, size) ==
  /\ Ready
  /\ \E s \in Scan(1) :
       /\ free_map_allocate({s})
       /\ call' = [at |-> "allocate", name |-> name, size |-> size, sector |-> s]
  /\ UNCHANGED <<disk, root, open_inodes, files, panicked>>

AllocateData ==
  /\ At("allocate")
  /\ \/ \E start \in Scan(call.size) :
          /\ free_map_allocate(Extent(start, call.size))
          /\ call' = [at |-> "write", name |-> call.name, sector |-> call.sector,
                      inode |-> [start |-> start, length |-> call.size]]
     \/ /\ Scan(call.size) = {} \/ LowMemory
        /\ call' = [at |-> "undo", sector |-> call.sector]
        /\ UNCHANGED <<free_map, disk_map>>
  /\ UNCHANGED <<disk, root, open_inodes, files, panicked>>

WriteInode ==
  /\ At("write")
  /\ disk' = [disk EXCEPT ![call.sector] = call.inode]
  /\ call' = [call EXCEPT !.at = "zero"]
  /\ UNCHANGED <<root, disk_map, free_map, open_inodes, files, panicked>>

(* The data sectors are zeroed one by one; nothing refers to them yet.     *)
WriteZeros ==
  /\ At("zero")
  /\ disk' = [s \in Sector |->
                IF s \in Extent(call.inode.start, call.inode.length) THEN Zeros ELSE disk[s]]
  /\ call' = [at |-> "add", name |-> call.name, sector |-> call.sector]
  /\ UNCHANGED <<root, disk_map, free_map, open_inodes, files, panicked>>

AddEntry ==
  /\ At("add")
  /\ \/ \E seen, seenAgain \in Seen :
          /\ Addable(call.name, seen, seenAgain)
          /\ dir_add(call.name, call.sector, seenAgain)
          /\ call' = Idle
     \/ /\ LowMemory \/ ~Addable(call.name, Slot, Slot)
        /\ call' = [at |-> "undo", sector |-> call.sector]
        /\ UNCHANGED root
  /\ UNCHANGED <<disk, disk_map, free_map, open_inodes, files, panicked>>

UndoCreate ==
  /\ At("undo")
  /\ free_map_release({call.sector})
  /\ call' = Idle
  /\ UNCHANGED <<disk, root, open_inodes, files>>

-----------------------------------------------------------------------------
(* In-memory inodes.                                                       *)
inode_open(s) ==
  IF s \in DOMAIN open_inodes
  THEN [open_inodes EXCEPT ![s].open_cnt = @ + 1]
  ELSE [t \in DOMAIN open_inodes \cup {s} |->
          IF t # s THEN open_inodes[t]
          ELSE [open_cnt |-> 1, removed |-> FALSE, deny_write_cnt |-> 0, data |-> disk[s]]]

(* OpenFilesExact: a removed file is released by whoever closes it         *)
inode_close_F(inodes, s) ==
  /\ open_inodes' = IF inodes[s].open_cnt > 1
                    THEN [inodes EXCEPT ![s].open_cnt = @ - 1]
                    ELSE [t \in DOMAIN inodes \ {s} |-> inodes[t]]
  /\ call' = IF inodes[s].removed
             THEN [at |-> "release", sector |-> s, inode |-> inodes[s].data]
             ELSE Idle

(* inode_close: the last one releases what a removed file has.             *)
inode_close(inodes, s) ==
  IF inodes[s].open_cnt > 1
  THEN /\ open_inodes' = [inodes EXCEPT ![s].open_cnt = @ - 1]
       /\ call' = Idle
  ELSE /\ open_inodes' = [t \in DOMAIN inodes \ {s} |-> inodes[t]]
       /\ call' = IF inodes[s].removed
                  THEN [at |-> "release", sector |-> s, inode |-> inodes[s].data]
                  ELSE Idle

ReleaseInode ==
  /\ At("release")
  /\ free_map_release({call.sector})
  /\ call' = [at |-> "releaseData", inode |-> call.inode]
  /\ UNCHANGED <<disk, root, open_inodes, files>>

ReleaseData ==
  /\ At("releaseData")
  /\ free_map_release(Extent(call.inode.start, call.inode.length))
  /\ call' = Idle
  /\ UNCHANGED <<disk, root, open_inodes, files>>

(* filesys_remove: dir_remove opens the file, erases its entry, marks the  *)
(* inode and closes it.  When it fails it has changed nothing.             *)
filesys_remove(name) ==
  /\ Ready
  /\ \E seen \in Seen :
       LET i == lookup(name, seen)
           s == root[i].inode_sector
       IN  /\ i # NULL
           /\ root' = [root EXCEPT ![i] = NULL]
           /\ inode_close([inode_open(s) EXCEPT ![s].removed = TRUE], s)
  /\ UNCHANGED <<disk, disk_map, free_map, files, panicked>>

-----------------------------------------------------------------------------
(* Open files.  A call that runs out of memory leaves them as they were.   *)
filesys_open(f, name) ==
  /\ Ready /\ files[f] = NULL
  /\ \E seen \in Seen :
       LET i == lookup(name, seen)
       IN  /\ i # NULL
           /\ open_inodes' = inode_open(root[i].inode_sector)
           /\ files' = [files EXCEPT ![f] = [inode |-> root[i].inode_sector, deny_write |-> FALSE]]
  /\ UNCHANGED <<onDisk, free_map, call, panicked>>

file_reopen(f, g) ==
  /\ Ready /\ files[f] # NULL /\ files[g] = NULL
  /\ open_inodes' = [open_inodes EXCEPT ![files[f].inode].open_cnt = @ + 1]
  /\ files' = [files EXCEPT ![g] = [inode |-> files[f].inode, deny_write |-> FALSE]]
  /\ UNCHANGED <<onDisk, free_map, call, panicked>>

inode_deny_write(s) == [open_inodes EXCEPT ![s].deny_write_cnt = @ + 1]

(* DeniedUnchanged: one file allows for all                                *)
inode_allow_write_F(s) == [open_inodes EXCEPT ![s].deny_write_cnt = 0]

inode_allow_write(s) == [open_inodes EXCEPT ![s].deny_write_cnt = @ - 1]

(* The ASSERTs of both: as many deny as have the file open, and one at     *)
(* least before a file allows.                                             *)
file_deny_write(f) ==
  /\ Ready /\ files[f] # NULL /\ ~files[f].deny_write
  /\ files' = [files EXCEPT ![f].deny_write = TRUE]
  /\ LET s == files[f].inode
     IN  /\ open_inodes' = inode_deny_write(s)
         /\ panicked' = (open_inodes'[s].deny_write_cnt > open_inodes'[s].open_cnt)
  /\ UNCHANGED <<onDisk, free_map, call>>

Allowable(s) == open_inodes[s].deny_write_cnt \in 1 .. open_inodes[s].open_cnt

file_allow_write(f) ==
  /\ Ready /\ files[f] # NULL /\ files[f].deny_write
  /\ files' = [files EXCEPT ![f].deny_write = FALSE]
  /\ LET s == files[f].inode
     IN  IF Allowable(s)
         THEN open_inodes' = inode_allow_write(s) /\ UNCHANGED panicked
         ELSE panicked' = TRUE /\ UNCHANGED open_inodes
  /\ UNCHANGED <<onDisk, free_map, call>>

(* file_close allows writes first.                                         *)
file_close(f) ==
  /\ Ready /\ files[f] # NULL
  /\ files' = [files EXCEPT ![f] = NULL]
  /\ LET s == files[f].inode
     IN  IF files[f].deny_write
         THEN IF Allowable(s)
              THEN inode_close(inode_allow_write(s), s) /\ UNCHANGED panicked
              ELSE panicked' = TRUE /\ UNCHANGED <<open_inodes, call>>
         ELSE inode_close(open_inodes, s) /\ UNCHANGED panicked
  /\ UNCHANGED <<onDisk, free_map>>

(* file_write, one sector of it.                                           *)
file_write(f) ==
  /\ Ready /\ files[f] # NULL
  /\ LET inode == open_inodes[files[f].inode]
     IN  /\ inode.deny_write_cnt = 0
         /\ \E s \in Extent(inode.data.start, inode.data.length), text \in Data :
              disk' = [disk EXCEPT ![s] = text]
  /\ UNCHANGED <<root, disk_map, free_map, open_inodes, files, call, panicked>>

-----------------------------------------------------------------------------
(* The machine stops, or is turned off, and starts again without format:   *)
(* free_map_open reads the map, and no inode is open.                      *)
Restart ==
  /\ free_map' = disk_map
  /\ open_inodes' = [s \in {} |-> NULL]
  /\ files' = [f \in File |-> NULL]
  /\ call' = Idle
  /\ panicked' = FALSE
  /\ UNCHANGED onDisk

Next ==
  \/ \E name \in Name, size \in 0 .. MaxSize : filesys_create(name, size)
  \/ AllocateData \/ WriteInode \/ WriteZeros \/ AddEntry \/ UndoCreate
  \/ ReleaseInode \/ ReleaseData
  \/ \E name \in Name : filesys_remove(name)
  \/ \E f \in File, name \in Name : filesys_open(f, name)
  \/ \E f, g \in File : file_reopen(f, g)
  \/ \E f \in File : file_deny_write(f) \/ file_allow_write(f) \/ file_close(f) \/ file_write(f)
  \/ Restart

Spec == Init /\ [][Next]_vars

-----------------------------------------------------------------------------
FileSysTypeOK ==
  /\ disk \in [Sector -> Data \cup InodeDisk]
  /\ root \in [Slot -> [name : Name, inode_sector : Sector] \cup {NULL}]
  /\ disk_map \subseteq Sector /\ free_map \subseteq Sector
  /\ DOMAIN open_inodes \subseteq Sector
  /\ \A s \in DOMAIN open_inodes : open_inodes[s].open_cnt \in 1 .. Cardinality(File)
  /\ files \in [File -> [inode : Sector, deny_write : BOOLEAN] \cup {NULL}]
  /\ panicked \in BOOLEAN

Entries == {i \in Slot : root[i] # NULL}

(* The entries on the disk lead to inodes, and no two files, each with its *)
(* inode, share a sector or have one that the map on the disk calls free.  *)
(* So it is at every write, and after a crash (the order of the writes of  *)
(* filesys_create, dir_remove and inode_close).                            *)
DiskConsistent ==
  LET Owned(i) == SectorsOf(root[i].inode_sector, disk[root[i].inode_sector])
  IN  /\ FileSysTypeOK
      /\ \A i \in Entries : disk[root[i].inode_sector] \in InodeDisk
      /\ \A i \in Entries : Owned(i) \subseteq disk_map
      /\ \A i, j \in Entries : i # j => Owned(i) \cap Owned(j) = {}

(* A file that somebody has open keeps its sectors, though it was removed: *)
(* they are not free, and no other file has them (inode_close).            *)
OpenFilesKeepSectors ==
  LET Owned(s) == SectorsOf(s, open_inodes[s].data)
      Entered == {root[i].inode_sector : i \in Entries}
  IN  \A s \in DOMAIN open_inodes :
        /\ open_inodes[s].removed => s \notin Entered
        /\ Owned(s) \subseteq free_map
        /\ \A t \in DOMAIN open_inodes : s # t => Owned(s) \cap Owned(t) = {}
        /\ \A t \in Entered : s # t => Owned(s) \cap SectorsOf(t, disk[t]) = {}

(* open_cnt and deny_write_cnt are the number of files that have the inode *)
(* open, and that deny writes to it, and no ASSERT fails.                  *)
CountsExact ==
  /\ ~panicked
  /\ \A s \in Sector :
       LET openers == {f \in File : files[f] # NULL /\ files[f].inode = s}
           deniers == {f \in openers : files[f].deny_write}
       IN  /\ s \in DOMAIN open_inodes <=> openers # {}
           /\ openers # {} => /\ open_inodes[s].open_cnt = Cardinality(openers)
                              /\ open_inodes[s].deny_write_cnt = Cardinality(deniers)

(* Both, at every step.                                                    *)
OpenFilesExact == OpenFilesKeepSectors /\ CountsExact

(* While one file denies writes to an inode nothing changes its contents,  *)
(* whoever closes it, allows writes or is removed meanwhile.               *)
DeniedUnchanged ==
  [][\A f \in File :
       files[f] # NULL /\ files[f].deny_write =>
         \A s \in SectorsOf(files[f].inode, open_inodes[files[f].inode].data) : disk'[s] = disk[s]]_vars

(* An entry goes only when its file is removed.  dir_add relies on this:   *)
(* "inode_read_at() will only return a short read at end of file."         *)
EntriesKept ==
  [][\A i \in Entries : root'[i] = root[i] \/ root'[i] = NULL]_vars

(* No sector is lost: between calls, what is not free belongs to a file.   *)
NothingLost ==
  call = Idle =>
    free_map = UNION ({SectorsOf(s, open_inodes[s].data) : s \in DOMAIN open_inodes}
                      \cup {SectorsOf(root[i].inode_sector, disk[root[i].inode_sector]) : i \in Entries})
=============================================================================

--------------------------------- MODULE Sfs ---------------------------------
(* The simple file system of kern/fs/sfs below the path operations of        *)
(* kern/vfs: inodes, blocks, the free block map, the one directory, vnodes   *)
(* in memory and their reference counts, mounting and unmounting.  All of it *)
(* runs under vfs_biglock, so an operation is one step; vnode_decref decides *)
(* without the lock that a vnode is to be reclaimed, and a path operation    *)
(* takes the lock anew for the directory, for the operation and to let go of *)
(* the directory.                                                            *)
(*                                                                           *)
(* An operation is a function on the file system's state.  It counts the     *)
(* block transfers it makes; those in bad fail with EIO, after the retries   *)
(* of sfs_rwblock.  That is so on a device that leaves the request alone     *)
(* when a transfer fails.  lhd_io has taken the data out of the request by   *)
(* then, so the retry of a write finds nothing to do and succeeds: with      *)
(* Lost, a write that fails is not done and not reported.                    *)
(* Memory that runs out has the effect of a failed read.                     *)
(* Sizes are in blocks for files and in entries for the directory; what is   *)
(* in the blocks of a file is left out.                                      *)
EXTENDS Integers, Sequences, FiniteSets, FiniteSetsExt, Functions, TLC

CONSTANTS
  Threads, Names,
  Writers,        \* the threads that do more than open, look and close
  NBLOCKS,        \* the disk; block 0 is the superblock, 2 the free block map
  SFS_NDIRECT, SFS_DBPERIDB,
  PERBLOCK,       \* directory entries in a block
  Lens,           \* the lengths that files are truncated to
  Faults,         \* the sets of transfers of an operation that may fail
  MaxFaulty,      \* bound: the operations that meet a fault
  Lost,           \* whether a write that fails is reported
  None

VARIABLES
  fs,             \* disk, map, mapdirty and vn: the vnodes in memory
  dmap,           \* the free block map on disk
  mounted,
  ghost,          \* stuck: vnodes whose sfs_reclaim failed; lost: blocks
                  \* whose number never got into the indirect block;
                  \* faulty: the operations that met a fault
  panicked,
  pc, loc

vars == <<fs, dmap, mounted, ghost, panicked, pc, loc>>

Blocks == 0 .. NBLOCKS - 1
ROOT == 1
Reserved == {0, ROOT, 2}
Slots == 0 .. PERBLOCK - 1
NoEntry == [name |-> None, ino |-> 0]

(* A block: as an inode, as the indirect block, as a block of the directory. *)
Blank == [type |-> "none", size |-> 0, links |-> 0,
          direct |-> [k \in 0 .. SFS_NDIRECT - 1 |-> 0], indirect |-> 0,
          idx |-> [k \in 0 .. SFS_DBPERIDB - 1 |-> 0],
          dents |-> [k \in Slots |-> NoEntry]]

Init ==
  /\ fs = [disk |-> [b \in Blocks |-> IF b = ROOT THEN [Blank EXCEPT !.type = "dir", !.links = 1] ELSE Blank],
           map |-> Reserved, mapdirty |-> FALSE, vn |-> <<>>]
  /\ dmap = Reserved /\ mounted = TRUE /\ ghost = [stuck |-> {}, lost |-> {}, faulty |-> 0] /\ panicked = ""
  /\ pc = [t \in Threads |-> "idle"]
  /\ loc = [t \in Threads |-> [fd |-> 0, drop |-> 0]]
------------------------------------------------------------------------------
(* An operation starts with Begun, and each of its steps is skipped after an *)
(* error; out is what the last step hands back.                              *)
Begun(bad) == [disk |-> fs.disk, map |-> fs.map, mapdirty |-> fs.mapdirty, vn |-> fs.vn,
               n |-> 0, bad |-> bad, err |-> "", out |-> 0, ghost |-> ghost, panic |-> ""]
Bad == IF ghost.faulty < MaxFaulty THEN Faults ELSE {{}}
Met(s) == \E k \in s.bad : k <= s.n
Then(s, Op(_)) == IF s.err # "" \/ s.panic # "" THEN s ELSE Op(s)
Fail(s, e) == [s EXCEPT !.err = e]
Out(s, x) == [s EXCEPT !.out = x]

sfs_rwblock(s) == [s EXCEPT !.n = @ + 1, !.err = IF s.n + 1 \in s.bad THEN "EIO" ELSE ""]
sfs_readblock(s) == sfs_rwblock(s)
sfs_writeblock(s, b, c) ==
  IF Lost /\ s.n + 1 \in s.bad THEN [s EXCEPT !.n = @ + 1]
  ELSE Then(sfs_rwblock(s), LAMBDA r : [r EXCEPT !.disk[b] = c])

Inode(s, i) == s.vn[i].i
SetInode(s, i, d) == [s EXCEPT !.vn[i].i = d, !.vn[i].dirty = TRUE]

(* sfs_balloc: the first free block, cleared on disk.  The mutant keeps the  *)
(* block marked when it cannot be cleared.                                   *)
KeepMarked(s, b) == s

Unmark(s, b) == [s EXCEPT !.map = @ \ {b}]

sfs_balloc(s) ==
  LET free == Blocks \ s.map
      b == Min(free)
      r == sfs_writeblock([s EXCEPT !.map = @ \cup {b}, !.mapdirty = TRUE], b, Blank)
  IN IF free = {} THEN Fail(s, "ENOSPC") ELSE IF r.err # "" THEN Unmark(r, b) ELSE Out(r, b)

sfs_bfree(s, b) == [s EXCEPT !.map = @ \ {b}, !.mapdirty = TRUE]

(* The check at the end of sfs_bmap, and those of sfs_loadvnode. *)
Used(s, b) == IF b # 0 /\ b \notin s.map THEN [s EXCEPT !.panic = "corrupt"] ELSE Out(s, b)

(* sfs_bmap: the disk block of a file block, allocated if need be.           *)
WriteIndirect(s, id, off, b) ==
  LET w == sfs_writeblock(s, id, [s.disk[id] EXCEPT !.idx[off] = b]) IN
  IF w.err # "" THEN [w EXCEPT !.ghost.lost = @ \cup {b}] ELSE w

BmapDirect(s, i, k, doalloc) ==
  LET d == Inode(s, i) IN
  IF d.direct[k] = 0 /\ doalloc
    THEN Then(sfs_balloc(s), LAMBDA r : SetInode(r, i, [d EXCEPT !.direct[k] = r.out]))
    ELSE Used(s, d.direct[k])

BmapIndirect(s, i, off, doalloc) ==
  LET d == Inode(s, i)
      r1 == IF d.indirect # 0 THEN Then(sfs_readblock(s), LAMBDA r : Out(r, d.indirect))
            ELSE Then(sfs_balloc(s), LAMBDA r : SetInode(r, i, [d EXCEPT !.indirect = r.out]))
      Entry(s2, id) ==
        IF s2.disk[id].idx[off] = 0 /\ doalloc
          THEN Then(sfs_balloc(s2), LAMBDA r : Then(WriteIndirect(r, id, off, r.out), LAMBDA w : Out(w, r.out)))
          ELSE Used(s2, s2.disk[id].idx[off])
  IN IF d.indirect = 0 /\ ~doalloc THEN Out(s, 0) ELSE Then(r1, LAMBDA r : Entry(r, r.out))

sfs_bmap(s, i, fb, doalloc) ==
  IF fb < SFS_NDIRECT THEN BmapDirect(s, i, fb, doalloc)
  ELSE IF fb - SFS_NDIRECT < SFS_DBPERIDB THEN BmapIndirect(s, i, fb - SFS_NDIRECT, doalloc)
  ELSE Fail(s, "EFBIG")

(* sfs_itrunc: the direct blocks past the end, then those of the indirect    *)
(* block, which goes as well once it is empty.  The comparison there lets    *)
(* the first block past the end stand.                                       *)
PastEnd(len, k) == len < SFS_NDIRECT + k

FreeAll(s, bs) == [s EXCEPT !.map = @ \ bs, !.mapdirty = @ \/ bs # {}]

TruncDirect(s, i, len) ==
  LET d == Inode(s, i)
      gone == {k \in DOMAIN d.direct : k >= len /\ d.direct[k] # 0}
  IN IF gone = {} THEN s
     ELSE SetInode(FreeAll(s, {d.direct[k] : k \in gone}), i,
                   [d EXCEPT !.direct = [k \in DOMAIN @ |-> IF k \in gone THEN 0 ELSE @[k]]])

TruncIndirect(s, i, len) ==
  LET d == Inode(s, i)
      old == s.disk[d.indirect].idx
      gone == {k \in DOMAIN old : PastEnd(len, k) /\ old[k] # 0}
      new == [k \in DOMAIN old |-> IF k \in gone THEN 0 ELSE old[k]]
      r == FreeAll(s, {old[k] : k \in gone})
  IN IF \A k \in DOMAIN new : new[k] = 0
       THEN SetInode(sfs_bfree(r, d.indirect), i, [d EXCEPT !.indirect = 0])
     ELSE IF gone # {} THEN sfs_writeblock(r, d.indirect, [s.disk[d.indirect] EXCEPT !.idx = new])
     ELSE r

sfs_itrunc(s, i, len) ==
  LET s1 == TruncDirect(s, i, len)
      s2 == IF len < SFS_NDIRECT + SFS_DBPERIDB - 1 /\ Inode(s1, i).indirect # 0
              THEN Then(sfs_readblock(s1), LAMBDA r : TruncIndirect(r, i, len)) ELSE s1
  IN Then(s2, LAMBDA r : SetInode(r, i, [Inode(r, i) EXCEPT !.size = len]))
------------------------------------------------------------------------------
(* sfs_sync_inode, sfs_reclaim, sfs_loadvnode, sfs_makeobj.  The mutant      *)
(* discards an inode that could not be written.                              *)
DiscardAnyway(s, r, i) == [r EXCEPT !.vn = Restrict(@, DOMAIN @ \ {i}), !.err = ""]

KeepVnode(s, r, i) == [r EXCEPT !.ghost.stuck = @ \cup {i}]

sfs_sync_inode(s, i) ==
  IF s.vn[i].dirty
    THEN Then(sfs_writeblock(s, i, Inode(s, i)), LAMBDA r : [r EXCEPT !.vn[i].dirty = FALSE]) ELSE s

(* In the mutant the vnode goes although somebody has picked it up. *)
PickedUpNever(s, i) == FALSE

PickedUp(s, i) == s.vn[i].ref # 1

sfs_reclaim(s, i) ==
  LET s1 == IF Inode(s, i).links = 0 THEN sfs_itrunc(s, i, 0) ELSE s
      s2 == Then(s1, LAMBDA r : sfs_sync_inode(r, i))
      s3 == IF Inode(s, i).links = 0 THEN Then(s2, LAMBDA r : sfs_bfree(r, i)) ELSE s2
  IN IF PickedUp(s, i) THEN [s EXCEPT !.vn[i].ref = @ - 1]
     ELSE IF s3.err # "" THEN KeepVnode(s, s3, i)
     ELSE [s3 EXCEPT !.vn = Restrict(@, DOMAIN @ \ {i})]

(* vnode_decref by the operations themselves, whatever they are to return. *)
vnode_decref(s, i) ==
  IF s.vn[i].ref > 1 THEN [s EXCEPT !.vn[i].ref = @ - 1]
  ELSE [sfs_reclaim([s EXCEPT !.err = ""], i) EXCEPT !.err = s.err]

sfs_loadvnode(s, i, forcetype) ==
  IF i \in DOMAIN s.vn THEN Out([s EXCEPT !.vn[i].ref = @ + 1], i)
  ELSE Then(Used(s, i), LAMBDA u :
       Then(sfs_readblock(u), LAMBDA r :
         LET d == IF forcetype = None THEN r.disk[i] ELSE [r.disk[i] EXCEPT !.type = forcetype] IN
         IF d.type = "none" THEN [r EXCEPT !.panic = "corrupt"]
         ELSE Out([r EXCEPT !.vn = i :> [ref |-> 1, i |-> d, dirty |-> forcetype # None] @@ @], i)))

sfs_makeobj(s, type) ==
  Then(sfs_balloc(s), LAMBDA r :
    LET v == sfs_loadvnode(r, r.out, type) IN IF v.err # "" THEN sfs_bfree(v, r.out) ELSE v)
------------------------------------------------------------------------------
(* The directory, in the root inode's blocks. *)
DirBlock(s, fb) ==
  LET d == Inode(s, ROOT) IN
  IF fb < SFS_NDIRECT THEN d.direct[fb] ELSE IF d.indirect = 0 THEN 0 ELSE s.disk[d.indirect].idx[fb - SFS_NDIRECT]

Entry(s, slot) ==
  LET b == DirBlock(s, slot \div PERBLOCK) IN IF b = 0 THEN NoEntry ELSE s.disk[b].dents[slot % PERBLOCK]

DirSlots(s) == 0 .. Inode(s, ROOT).size - 1
Named(s, name) == {k \in DirSlots(s) : Entry(s, k).ino # 0 /\ Entry(s, k).name = name}
Empty(s) == {k \in DirSlots(s) : Entry(s, k).ino = 0}

(* sfs_dir_findname: its reads count as one transfer.  The slot is handed    *)
(* back, or ENOENT.                                                          *)
sfs_dir_findname(s, name) ==
  Then(IF DirSlots(s) = {} THEN s ELSE sfs_readblock(s), LAMBDA r :
    IF Named(r, name) = {} THEN Fail(r, "ENOENT") ELSE Out(r, Max(Named(r, name))))

Extend(s, i, end) ==
  IF end > Inode(s, i).size THEN SetInode(s, i, [Inode(s, i) EXCEPT !.size = end]) ELSE s

(* sfs_metaio, writing one entry. *)
sfs_writedir(s, slot, e) ==
  Then(sfs_bmap(s, ROOT, slot \div PERBLOCK, TRUE), LAMBDA r :
  Then(sfs_readblock(r), LAMBDA q :
  Then(sfs_writeblock(q, r.out, [q.disk[r.out] EXCEPT !.dents[slot % PERBLOCK] = e]), LAMBDA w :
    Extend(w, ROOT, slot + 1))))

NameFree(r) == IF r.err = "" THEN Fail(r, "EEXIST") ELSE IF r.err = "ENOENT" THEN [r EXCEPT !.err = ""] ELSE r

sfs_dir_link(s, name, i) ==
  LET r == sfs_dir_findname(s, name)
      slot == IF Empty(s) # {} THEN Max(Empty(s)) ELSE Inode(s, ROOT).size
  IN Then(NameFree(r), LAMBDA q :
       Then(sfs_writedir(q, slot, [name |-> name, ino |-> i]), LAMBDA w : Out(w, slot)))

sfs_dir_unlink(s, slot) == sfs_writedir(s, slot, NoEntry)

(* The inode found and the slot it is in. *)
sfs_lookonce(s, name) ==
  Then(sfs_dir_findname(s, name), LAMBDA r :
  Then(sfs_loadvnode(r, Entry(r, r.out).ino, None), LAMBDA v :
    [v EXCEPT !.panic = IF Inode(v, v.out).links = 0 THEN "corrupt" ELSE "", !.out = [ino |-> v.out, slot |-> r.out]]))

Links(s, i, by) == SetInode(s, i, [Inode(s, i) EXCEPT !.links = @ + by])
------------------------------------------------------------------------------
(* The operations on the directory; out is the file handed back, if any.     *)
sfs_creat(s, name, excl) ==
  LET found == sfs_dir_findname(s, name) IN
  IF found.err = "" THEN
    IF excl THEN Fail(found, "EEXIST") ELSE sfs_loadvnode(found, Entry(found, found.out).ino, None)
  ELSE IF found.err = "EIO" THEN found
  ELSE Then(sfs_makeobj([found EXCEPT !.err = ""], "file"), LAMBDA m :
       LET l == sfs_dir_link(m, name, m.out) IN
       IF l.err # "" THEN vnode_decref(l, m.out) ELSE Out(Links(l, m.out, 1), m.out))

sfs_lookup(s, name) == Then(sfs_lookonce(s, name), LAMBDA r : Out(r, r.out.ino))

sfs_link(s, name, i) ==
  Then(sfs_dir_link(s, name, i), LAMBDA r : Out(Links(r, i, 1), 0))

(* The mutant drops the link although the entry could not be erased. *)
CountAnyway(s, i) == Links(s, i, -1)

CountIfErased(s, i) == Then(s, LAMBDA r : Links(r, i, -1))

sfs_remove(s, name) ==
  Then(sfs_lookonce(s, name), LAMBDA v :
    Out(vnode_decref(CountIfErased(sfs_dir_unlink(v, v.out.slot), v.out.ino), v.out.ino), 0))

(* sfs_rename: link, unlink, and the way back when that fails. *)
sfs_rename(s, n1, n2) ==
  Then(sfs_lookonce(s, n1), LAMBDA v :
    LET i == v.out.ino
        l == sfs_dir_link(v, n2, i)
        u == sfs_dir_unlink(Links(l, i, 1), v.out.slot)
        back == sfs_dir_unlink([u EXCEPT !.err = ""], l.out)
    IN Out(IF l.err # "" THEN vnode_decref(l, i)
           ELSE IF u.err = "" THEN vnode_decref(Links(u, i, -1), i)
           ELSE IF back.err # "" THEN [back EXCEPT !.panic = "rename"]
           ELSE vnode_decref(Fail([back EXCEPT !.vn[i].i.links = @ - 1], u.err), i), 0))

(* sfs_io, writing in one file block, the whole of it or a part; a write of  *)
(* several blocks is several of these.  sfs_partialio has taken the data     *)
(* before it writes the block, so the end of the file moves even if that     *)
(* fails.                                                                    *)
sfs_blockio(s, i, fb) ==
  Then(sfs_bmap(s, i, fb, TRUE), LAMBDA r :
  Then(sfs_writeblock(r, r.out, Blank), LAMBDA w : Extend(w, i, fb + 1)))

sfs_partialio(s, i, fb) ==
  Then(sfs_bmap(s, i, fb, TRUE), LAMBDA r :
  Then(sfs_readblock(r), LAMBDA q : Extend(sfs_writeblock(q, r.out, Blank), i, fb + 1)))

sfs_io(s, i, fb, whole) == IF whole THEN sfs_blockio(s, i, fb) ELSE sfs_partialio(s, i, fb)

(* sfs_sync without the superblock, which nothing dirties: the vnodes, whose *)
(* errors are ignored, then the map.  out is 1 when the map was written.     *)
RECURSIVE sfs_sync_vnodes(_, _)
sfs_sync_vnodes(s, todo) ==
  IF todo = {} THEN s
  ELSE sfs_sync_vnodes([sfs_sync_inode(s, Min(todo)) EXCEPT !.err = ""], todo \ {Min(todo)})

(* The mutant takes the map for clean when it could not be written. *)
CleanAnyway(s) == [sfs_rwblock(s) EXCEPT !.err = "", !.mapdirty = FALSE]

sfs_sync_freemap(s) == Then(sfs_rwblock(s), LAMBDA r : Out([r EXCEPT !.mapdirty = FALSE], 1))

sfs_sync(s) ==
  LET v == sfs_sync_vnodes(s, DOMAIN s.vn) IN IF v.mapdirty THEN sfs_sync_freemap(v) ELSE v
------------------------------------------------------------------------------
(* Steps of threads.  An operation leaves its result in fs.                  *)
Count(s) ==
  \/ s.bad = {} /\ ghost' = s.ghost
  \/ Met(s) /\ ghost' = [s.ghost EXCEPT !.faulty = @ + 1]

Leave(s) ==
  /\ fs' = [disk |-> s.disk, map |-> s.map, mapdirty |-> s.mapdirty, vn |-> s.vn]
  /\ Count(s) /\ panicked' = s.panic
  /\ UNCHANGED <<dmap, mounted>>

At(t, p) == pc[t] = p /\ panicked = ""
Go(t, p, l) == pc' = [pc EXCEPT ![t] = p] /\ loc' = [loc EXCEPT ![t] = l]

(* vfs_lookparent and vfs_lookup get the directory first. *)
vfs_lookparent(t) ==
  /\ At(t, "idle") /\ mounted
  /\ \E bad \in Bad :
       LET s == sfs_loadvnode(Begun(bad), ROOT, None) IN
       Leave(s) /\ Go(t, IF s.err = "" THEN "dir" ELSE "idle", loc[t])

(* The second half of vfs_open, vfs_remove, vfs_rename, vfs_link: the        *)
(* operation, after which the directory is let go of.                        *)
Open(t) ==
  /\ At(t, "dir") /\ loc[t].fd = 0
  /\ \E bad \in Bad, name \in Names, how \in {"lookup"} \cup (IF t \in Writers THEN {"creat", "excl"} ELSE {}) :
       LET s == IF how = "lookup" THEN sfs_lookup(Begun(bad), name)
                ELSE sfs_creat(Begun(bad), name, how = "excl") IN
       Leave(s) /\ Go(t, "drop", [fd |-> IF s.err = "" THEN s.out ELSE 0, drop |-> ROOT])

Change(t) ==
  /\ At(t, "dir") /\ t \in Writers
  /\ \E bad \in Bad, name \in Names :
       LET s == Begun(bad) IN
       /\ \/ Leave(sfs_remove(s, name))
          \/ \E n2 \in Names : Leave(sfs_rename(s, name, n2))
          \/ loc[t].fd # 0 /\ Leave(sfs_link(s, name, loc[t].fd))
       /\ Go(t, "drop", [loc[t] EXCEPT !.drop = ROOT])

(* VOP_WRITE, VOP_TRUNCATE and VOP_FSYNC on an open file. *)
Use(t) ==
  /\ At(t, "idle") /\ loc[t].fd # 0 /\ t \in Writers
  /\ \E bad \in Bad :
       LET s == Begun(bad) i == loc[t].fd IN
       \/ \E fb \in 0 .. SFS_NDIRECT + SFS_DBPERIDB, whole \in BOOLEAN : Leave(sfs_io(s, i, fb, whole))
       \/ \E len \in Lens : Leave(sfs_itrunc(s, i, len))
       \/ Leave(sfs_sync_inode(s, i))
  /\ UNCHANGED <<pc, loc>>

vfs_close(t) ==
  /\ At(t, "idle") /\ loc[t].fd # 0
  /\ Go(t, "drop", [fd |-> 0, drop |-> loc[t].fd])
  /\ UNCHANGED <<fs, dmap, mounted, ghost, panicked>>

(* vnode_decref decides under the vnode's spinlock only, and hands its       *)
(* reference to sfs_reclaim.                                                 *)
Drop(t) ==
  LET i == loc[t].drop IN
  /\ At(t, "drop")
  /\ IF fs.vn[i].ref > 1
       THEN fs' = [fs EXCEPT !.vn[i].ref = @ - 1] /\ Go(t, "idle", [loc[t] EXCEPT !.drop = 0])
       ELSE Go(t, "reclaim", loc[t]) /\ UNCHANGED fs
  /\ UNCHANGED <<dmap, mounted, ghost, panicked>>

Reclaim(t) ==
  /\ At(t, "reclaim")
  /\ \E bad \in Bad : Leave(sfs_reclaim(Begun(bad), loc[t].drop))
  /\ Go(t, "idle", [loc[t] EXCEPT !.drop = 0])

(* vfs_sync, and vfs_unmount, which syncs as well and gives up if that fails *)
(* or a vnode is in memory.                                                  *)
Synced(s) ==
  /\ fs' = [disk |-> s.disk, map |-> s.map, mapdirty |-> s.mapdirty, vn |-> s.vn]
  /\ dmap' = IF s.out = 1 /\ s.err = "" THEN s.map ELSE dmap
  /\ Count(s)

vfs_sync ==
  /\ mounted /\ panicked = ""
  /\ \E bad \in Bad : Synced(sfs_sync(Begun(bad)))
  /\ UNCHANGED <<mounted, panicked, pc, loc>>

sfs_unmount(s) == DOMAIN s.vn # {}

vfs_unmount ==
  /\ mounted /\ panicked = ""
  /\ \E bad \in Bad :
       LET s == sfs_sync(Begun(bad)) IN Synced(s) /\ mounted' = (s.err # "" \/ sfs_unmount(s))
  /\ UNCHANGED <<panicked, pc, loc>>

(* sfs_domount reads the map. *)
sfs_domount == [fs EXCEPT !.map = dmap, !.mapdirty = FALSE]

vfs_mount ==
  /\ ~mounted /\ panicked = ""
  /\ mounted' = TRUE /\ fs' = sfs_domount
  /\ UNCHANGED <<dmap, ghost, panicked, pc, loc>>

Next ==
  \/ \E t \in Threads :
       \/ vfs_lookparent(t) \/ Open(t) \/ Change(t) \/ Use(t)
       \/ vfs_close(t) \/ Drop(t) \/ Reclaim(t)
  \/ vfs_sync \/ vfs_unmount \/ vfs_mount

Spec == Init /\ [][Next]_vars
------------------------------------------------------------------------------
(* The inode as the system sees it: in memory, or else on disk.              *)
View(i) == IF i \in DOMAIN fs.vn THEN fs.vn[i].i ELSE fs.disk[i]

BlockList(d) ==
  {<<"d", k>> : k \in {k \in DOMAIN d.direct : d.direct[k] # 0}}
    \cup (IF d.indirect = 0 THEN {} ELSE {<<"i", 0>>} \cup
          {<<"x", k>> : k \in {k \in DOMAIN d.idx : fs.disk[d.indirect].idx[k] # 0}})
BlockAt(d, p) ==
  IF p[1] = "d" THEN d.direct[p[2]] ELSE IF p[1] = "i" THEN d.indirect ELSE fs.disk[d.indirect].idx[p[2]]

Entries ==
  LET r == View(ROOT)
      B(fb) == IF fb < SFS_NDIRECT THEN r.direct[fb]
               ELSE IF r.indirect = 0 THEN 0 ELSE fs.disk[r.indirect].idx[fb - SFS_NDIRECT]
      E(k) == IF B(k \div PERBLOCK) = 0 THEN NoEntry ELSE fs.disk[B(k \div PERBLOCK)].dents[k % PERBLOCK]
  IN {<<k, E(k)>> : k \in {k \in 0 .. r.size - 1 : E(k).ino # 0}}

Inos == {ROOT} \cup DOMAIN fs.vn \cup {e[2].ino : e \in Entries}
Places == UNION {{<<i, p>> : p \in BlockList(View(i))} : i \in Inos}
PlaceOf(q) == BlockAt(View(q[1]), q[2])
Map == IF mounted THEN fs.map ELSE dmap

TypeOK ==
  /\ fs.map \subseteq Blocks /\ dmap \subseteq Blocks /\ Reserved \subseteq fs.map
  /\ DOMAIN fs.vn \subseteq Blocks
  /\ \A i \in DOMAIN fs.vn : fs.vn[i].ref \in Nat \ {0} /\ fs.vn[i].i.type = IF i = ROOT THEN "dir" ELSE "file"
  /\ \A t \in Threads : loc[t].fd \in Blocks /\ loc[t].drop \in Blocks
  /\ panicked \in {"", "rename", "corrupt"}

(* A block is marked in use exactly when somebody owns it, and that is what  *)
(* an unmounted disk says as well; it has one owner, and no inode is         *)
(* another's block.  Only a failure to write the indirect block loses a      *)
(* block.                                                                    *)
FreemapExact ==
  panicked = "" =>
  LET places == Places  inos == Inos  owned == {PlaceOf(p) : p \in places} IN
  /\ Map = Reserved \cup inos \cup owned \cup ghost.lost
  /\ Cardinality(owned) = Cardinality(places) /\ owned \cap inos = {}

(* The link count of a file is the number of names it has: in memory while   *)
(* mounted, on the disk after.  Failed transfers may not part them, or the   *)
(* file would go while it has a name (the panic in sfs_lookonce) or stay     *)
(* forever.                                                                  *)
LinksExact ==
  panicked = "" =>
  LET entries == Entries IN
  \A i \in Inos \ {ROOT} : View(i).links = Cardinality({e \in entries : e[2].ino = i})

(* A name is in the directory once (the assertion in sfs_dir_findname). *)
NamesUnique == \A e, f \in Entries : e[2].name = f[2].name => e = f

(* The references of a vnode are those of the threads that have it, one more *)
(* if it could not be reclaimed; there is no vnode without one.  So with no  *)
(* file open nothing is in the way of an unmount.                            *)
RefsExact ==
  panicked = "" =>
  LET Held(t) == (IF loc[t].fd # 0 THEN {<<loc[t].fd, t, 1>>} ELSE {})
                   \cup (IF pc[t] = "dir" THEN {<<ROOT, t, 2>>} ELSE {})
                   \cup (IF loc[t].drop # 0 THEN {<<loc[t].drop, t, 2>>} ELSE {})
      All == UNION {Held(t) : t \in Threads} \cup {<<i, None, 3>> : i \in ghost.stuck}
  IN /\ {h[1] : h \in All} = DOMAIN fs.vn
     /\ \A i \in DOMAIN fs.vn : fs.vn[i].ref = Cardinality({h \in All : h[1] = i})

(* The panics of sfs_bmap, sfs_loadvnode and sfs_lookonce do not happen; the *)
(* one of sfs_rename can, when the directory cannot be written twice.        *)
NoCorruption == panicked # "corrupt"

(* What sfs_sync_inode and sfs_sync_freemap pass over is on the disk as it   *)
(* is in memory.                                                             *)
CleanIsWritten ==
  /\ \A i \in DOMAIN fs.vn : ~fs.vn[i].dirty => fs.disk[i] = fs.vn[i].i
  /\ mounted /\ ~fs.mapdirty => dmap = fs.map

(* "Discard any blocks that are past the new EOF" (sfs_bmap.c:265). *)
NothingPastEnd ==
  \A i \in Inos \ {ROOT} : \A p \in BlockList(View(i)) :
    (p[1] = "d" => p[2] < View(i).size) /\ (p[1] = "x" => p[2] + SFS_NDIRECT < View(i).size)
==============================================================================

-------------------------------- MODULE MCSfs --------------------------------
(* Instances of Sfs for TLC. *)
EXTENDS Sfs

CONSTANTS t1, t2, na, nb

OneThread == {t1}
TwoThreads == {t1, t2}
TwoNames == {na, nb}
Perms == Permutations(TwoNames)

(* States are told apart up to the numbers of blocks: sfs_balloc may as well *)
(* hand out one free block as another, since it clears it.  What is in the   *)
(* block of an inode or in a map that is still to be written is not read     *)
(* again.  The view holds the invariants that are about numbers.             *)
Shape(i, entries) ==
  LET d == View(i) IN
  <<IF i \in DOMAIN fs.vn THEN <<fs.vn[i].ref, fs.vn[i].dirty>> ELSE <<0, FALSE>>,
    d.type, d.size, d.links, BlockList(d), i \in ghost.stuck,
    {<<e[1], e[2].name>> : e \in {e \in entries : e[2].ino = i}},
    {t \in Threads : loc[t].fd = i}, {t \in Threads : loc[t].drop = i}>>

Seen ==
  LET entries == Entries
      inos == {ROOT} \cup DOMAIN fs.vn \cup {e[2].ino : e \in entries}
      owned == UNION {{BlockAt(View(i), p) : p \in BlockList(View(i))} : i \in inos} IN
  <<{Shape(i, entries) : i \in inos}, Cardinality(inos), Cardinality(Map),
    Cardinality(ghost.lost), ghost.faulty, fs.mapdirty, mounted, panicked, pc,
    Cardinality(owned \cup inos), owned \cup inos \cup ghost.lost \cup Reserved = Map, CleanIsWritten>>

NoFaults == {{}}
(* One transfer fails, or all from some transfer on. *)
AllFaults == {{}} \cup {{k} : k \in 1 .. 8} \cup {k .. 20 : k \in 1 .. 8}
==============================================================================

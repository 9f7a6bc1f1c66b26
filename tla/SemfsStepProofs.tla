---------------------------- MODULE SemfsStepProofs ----------------------------
(* What each step of semfs keeps of what its table, its directory and its     *)
(* semaphores have to do with one another, given that its locks do their work. *)
EXTENDS Semfs, TLAPS

Loc == [name : Names \cup {NULL}, num : Nums \cup {NULL}, sem : Objs \cup {NULL},
        amount : 0 .. UMOD - 1, fresh : BOOLEAN, lost : BOOLEAN]
Obj == [live : BOOLEAN, count : 0 .. UMOD - 1, hasvnode : BOOLEAN, linked : BOOLEAN]
StateType ==
  /\ semtab \in [Nums -> Objs \cup {NULL}] /\ dents \in [Names -> Nums \cup {NULL}]
  /\ obj \in [Objs -> Obj]
  /\ vref \in [Nums -> Nat] /\ fd \in [Threads -> Nums \cup {NULL}] /\ pc \in [Threads -> Labels]
  /\ loc \in [Threads -> Loc]

(* The search for the first free number finds one if there is one: what a   *)
(* nonempty set of naturals has a least element for.                        *)
LowestExists == \A S \in SUBSET Nat : S # {} => Min(S) \in S

(* Types, calls and locks are an inductive invariant together. *)
Base == TypeInv /\ CallInv /\ LockInv

(* The lock a thread is about to take exists. *)
LEMMA WantsLock ==
  ASSUME TypeInv, CallInv, NEW t \in Threads
  PROVE  /\ Wants(t) \in Locks \cup {NULL}
         /\ pc[t] \in {"creat", "lookup", "remove"} => Wants(t) = "dir"
         /\ pc[t] \in {"insert", "getvnode", "uninsert", "getsem", "clear", "reclaim", "rsem", "wsem", "tsem"}
              => Wants(t) = "table"
         /\ pc[t] \in {"lock", "read", "write", "truncate"} => Wants(t) = loc[t].sem /\ loc[t].sem \in Objs
         /\ pc[t] \in {"idle", "dent", "link", "lost", "unlink", "test", "destroy", "undent", "unlock", "decref",
                      "noVnode", "orphan", "consume"} => Wants(t) = NULL
<1>1. pc[t] \in {"lock", "read", "write", "truncate"} => loc[t].sem \in Objs
  BY Zenon DEF CallInv, Call
<1>2. pc[t] \in Labels
  BY Zenon DEF TypeInv
<1> QED BY <1>1, <1>2, Zenon DEF Wants, LockAt, Locks, Labels

(* A step moves one thread. *)
LEMMA OthersStay ==
  ASSUME TypeInv, NEW t \in Threads, Step(t), NEW u \in Threads, u # t
  PROVE  pc'[u] = pc[u] /\ loc'[u] = loc[u] /\ fd'[u] = fd[u]
<1>1. pc \in [Threads -> Labels] /\ DOMAIN loc = Threads /\ DOMAIN fd = Threads
  BY Zenon DEF TypeInv
<1>2. pc' = pc \/ \E l : Goto(t, l)
  BY Zenon DEF Step, Block, Begin, Search, semfs_sem_insert, AddEntry, semfs_getvnode, SetLinked, Uninsert, UnlockDir,
    FindEntry, semfs_getsem, Unlink, TestVnode, ClearEntry, RemoveDestroys, RemoveEntry, vnode_decref, semfs_reclaim,
    ClearHasVnode, ReclaimDestroys, ReadLock, Consume, semfs_write, semfs_truncate, Done
<1>3. fd' = fd \/ \E n : fd' = [fd EXCEPT ![t] = n]
  BY Zenon DEF Step, Block, Begin, Search, semfs_sem_insert, AddEntry, semfs_getvnode, SetLinked, Uninsert, UnlockDir,
    FindEntry, semfs_getsem, Unlink, TestVnode, ClearEntry, RemoveDestroys, RemoveEntry, vnode_decref, semfs_reclaim,
    ClearHasVnode, ReclaimDestroys, ReadLock, Consume, semfs_write, semfs_truncate, fsvars
<1>4. loc'[u] = loc[u]
  <2>1. CASE Block(t) \/ Uninsert(t) \/ Unlink(t) \/ TestVnode(t) \/ ClearEntry(t) \/ RemoveDestroys(t) \/ ReadLock(t)
             \/ semfs_getvnode(t) \/ ClearHasVnode(t)
    BY <2>1, Zenon DEF Block, Uninsert, Unlink, TestVnode, ClearEntry, RemoveDestroys, ReadLock, semfs_getvnode, ClearHasVnode
  <2>2. CASE SetLinked(t) \/ UnlockDir(t) \/ RemoveEntry(t) \/ vnode_decref(t) \/ semfs_reclaim(t)
             \/ ReclaimDestroys(t) \/ semfs_write(t) \/ semfs_truncate(t)
    BY <1>1, <2>2, Zenon DEF SetLinked, UnlockDir, RemoveEntry, vnode_decref, semfs_reclaim, ReclaimDestroys, semfs_write,
         semfs_truncate, Done
  <2>3. CASE Begin(t)
    BY <1>1, <2>3, Zenon DEF Begin
  <2>4. CASE Search(t)
    BY <1>1, <2>4, Zenon DEF Search
  <2>5. CASE semfs_sem_insert(t)
    BY <1>1, <2>5, Zenon DEF semfs_sem_insert
  <2>6. CASE AddEntry(t) \/ FindEntry(t)
    BY <1>1, <2>6, Zenon DEF AddEntry, FindEntry
  <2>7. CASE semfs_getsem(t)
    BY <1>1, <2>7, Zenon DEF semfs_getsem
  <2>8. CASE Consume(t)
    BY <1>1, <2>8, Zenon DEF Consume, Done
  <2> QED BY <2>1, <2>2, <2>3, <2>4, <2>5, <2>6, <2>7, <2>8, Zenon DEF Step
<1> QED BY <1>1, <1>2, <1>3, <1>4, Zenon DEF Goto

--------------------------------------------------------------------------------
Reclaiming == {"reclaim", "noVnode", "orphan"}

(* An open vnode has references, and so has one that is being reclaimed; the *)
(* last reference is the only one.                                           *)
CountInv ==
  /\ LastInv
  /\ \A t \in Threads :
       /\ fd[t] # NULL => fd[t] \in Nums /\ vref[fd[t]] > 0
       /\ pc[t] \in Reclaiming => vref[loc[t].num] > 0
       /\ pc[t] \in TableHeld => \A u \in Threads : fd[u] # loc[t].num

(* One thread at a time works on the directory, and one on the last          *)
(* reference to a vnode.                                                     *)
LEMMA Alone ==
  ASSUME Base, NEW t \in Threads, NEW u \in Threads
  PROVE  /\ pc[t] \in DirHeld /\ pc[u] \in DirHeld => t = u
         /\ pc[t] \in TableHeld /\ pc[u] \in TableHeld => t = u
         /\ owner["dir"] = NULL => pc[t] \notin DirHeld
         /\ owner["table"] = NULL => pc[t] \notin TableHeld
  BY SemfsAssumption DEF Base, LockInv, Holds

(* What table, directory and semaphores have to do with one another. *)
FsInv == TableInv /\ LinkInv /\ DirInv /\ LiveInv

Using == {"read", "consume", "write", "truncate"}

(* A step that changes neither the table, nor the directory, nor what they   *)
(* say of a structure.                                                       *)
Quiet(t) ==
  /\ semtab' = semtab /\ dents' = dents
  /\ \A n \in Nums : vref'[n] > 0 <=> vref[n] > 0
  /\ \A o \in Objs : /\ obj'[o].live = obj[o].live /\ obj'[o].hasvnode = obj[o].hasvnode
                     /\ obj'[o].linked = obj[o].linked /\ (~obj[o].live => obj'[o] = obj[o])
  /\ \/ pc'[t] = pc[t] /\ loc'[t] = loc[t]
     \/ /\ pc[t] \notin {"insert", "dent", "link", "uninsert", "clear", "destroy", "undent", "orphan"}
        /\ pc'[t] # "orphan" /\ ~(pc[t] = "getvnode" /\ loc[t].fresh)
        /\ pc[t] = "test" => pc'[t] \in {"clear", "undent"} /\ loc'[t] = loc[t]
  /\ DirOf(t)'
  /\ pc'[t] \in Using => semtab[loc'[t].num] = loc'[t].sem

(* A step that changes none of them keeps the invariant. *)
LEMMA QuietStep ==
  ASSUME Base, FsInv, StateType', NEW t \in Threads, Step(t), Quiet(t)
  PROVE  FsInv'
<1>0. StateType
  BY Zenon DEF Base, TypeInv, StateType, Loc, Obj
<1>u. \A u \in Threads : u # t => pc'[u] = pc[u] /\ loc'[u] = loc[u] /\ fd'[u] = fd[u]
  BY OthersStay, Zenon DEF Base
<1>v. \A n \in Nums : vref[n] \in Nat /\ vref'[n] \in Nat /\ (vref'[n] > 0 <=> vref[n] > 0)
  BY <1>0, Zenon DEF StateType, Quiet
<1>1. TableInv'
  <2>1. \A n \in Nums : (\E u \in Threads : pc'[u] = "orphan" /\ loc'[u].num = n)
                        <=> (\E u \in Threads : pc[u] = "orphan" /\ loc[u].num = n)
    BY <1>u DEF Quiet
  <2> QED BY <1>0, <1>v, <2>1 DEF FsInv, TableInv, Quiet, StateType
<1>2. LinkInv'
  <2>1. ASSUME NEW a \in Names,
               \E u \in Threads : /\ loc[u].name = a /\ loc[u].num = dents[a]
                                  /\ \/ pc[u] = "getvnode" /\ loc[u].fresh
                                     \/ pc[u] \in {"link", "test", "clear", "destroy", "undent"}
        PROVE  \E u \in Threads : /\ loc'[u].name = a /\ loc'[u].num = dents[a]
                                  /\ \/ pc'[u] = "getvnode" /\ loc'[u].fresh
                                     \/ pc'[u] \in {"link", "test", "clear", "destroy", "undent"}
    BY <1>u, <2>1 DEF Quiet
  <2> QED BY <1>0, <2>1 DEF FsInv, LinkInv, Quiet, StateType
<1>3. DirInv'
  <2>1. ASSUME NEW u \in Threads, u # t PROVE DirOf(u)'
    <3>1. DirOf(u) /\ Call(u)
      BY Zenon DEF FsInv, DirInv, Base, CallInv
    <3>2. pc'[u] = pc[u] /\ loc'[u] = loc[u] /\ fd'[u] = fd[u]
      BY <1>u, <2>1, Zenon
    <3> QED BY <1>0, <1>v, <3>1, <3>2, SMTT(30) DEF DirOf, Call, Quiet, StateType, DirHeld
  <2> QED BY <2>1, Zenon DEF DirInv, Quiet
<1>4. LiveInv'
  <2>1. ASSUME NEW u \in Threads, pc'[u] \in Using PROVE semtab'[loc'[u].num] = loc'[u].sem
    BY <1>u, <2>1 DEF FsInv, LiveInv, Quiet, Using
  <2>2. ASSUME NEW o \in Objs, obj'[o].live
        PROVE  \/ \E n \in Nums : semtab'[n] = o
               \/ \E u \in Threads : pc'[u] \in {"insert", "destroy"} /\ loc'[u].sem = o
    <3>1. \/ \E n \in Nums : semtab[n] = o
          \/ \E u \in Threads : pc[u] \in {"insert", "destroy"} /\ loc[u].sem = o
      BY <2>2, Zenon DEF FsInv, LiveInv, Quiet
    <3> QED BY <1>u, <3>1, Zenon DEF Quiet
  <2>3. ASSUME NEW o \in Objs, ~obj'[o].live PROVE obj'[o] = FreeObj
    BY <2>3 DEF FsInv, LiveInv, Quiet
  <2>4. ASSUME NEW n \in Nums, semtab'[n] # NULL, vref'[n] = 0
        PROVE  \/ \E a \in Names : dents'[a] = n
               \/ \E u \in Threads : pc'[u] \in {"dent", "uninsert"} /\ loc'[u].num = n
    <3>1. \/ \E a \in Names : dents[a] = n
          \/ \E u \in Threads : pc[u] \in {"dent", "uninsert"} /\ loc[u].num = n
      BY <1>v, <2>4 DEF FsInv, LiveInv, Quiet
    <3> QED BY <1>u, <3>1 DEF Quiet
  <2> QED BY <2>1, <2>2, <2>3, <2>4, Zenon DEF LiveInv, Using
<1> QED BY <1>1, <1>2, <1>3, <1>4, Zenon DEF FsInv

(* The steps that are quiet. *)
LEMMA QuietActions ==
  ASSUME Base, CountInv, FsInv, NoRemoveRace, NEW t \in Threads, Step(t),
         \/ Block(t) \/ Begin(t) \/ (Search(t) /\ pc'[t] # "insert") \/ FindEntry(t) \/ semfs_getsem(t) \/ UnlockDir(t)
         \/ TestVnode(t) \/ vnode_decref(t) \/ semfs_reclaim(t) \/ ReadLock(t) \/ Consume(t)
         \/ semfs_write(t) \/ semfs_truncate(t)
         \/ (semfs_getvnode(t) /\ (vref[loc[t].num] # 0 \/ (~loc[t].fresh /\ vref' = vref)))
  PROVE  Quiet(t)
<1>0. StateType /\ loc[t] \in Loc /\ DOMAIN loc = Threads
  BY Zenon DEF Base, TypeInv, StateType, Loc, Obj
<1>c. Call(t) /\ DirOf(t)
  BY Zenon DEF Base, CallInv, FsInv, DirInv
<1>p. \A l \in Labels : Goto(t, l) => pc'[t] = l
  BY <1>0, Zenon DEF Goto, StateType
<1>i. Done(t) => pc'[t] = "idle"
  BY <1>p, Zenon DEF Done, Labels
<1>f. \A l \in {"idle", "creat", "lookup", "remove", "rsem", "wsem", "tsem", "decref", "unlock", "lost",
               "reclaim", "noVnode"} : pc'[t] = l => DirOf(t)' /\ pc'[t] \notin Using /\ pc'[t] # "orphan"
  BY Zenon DEF DirOf, Using
<1>g. \A l \in Using : pc'[t] = l => DirOf(t)' /\ pc'[t] # "orphan"
  BY Zenon DEF DirOf, Using
<1>1. CASE Block(t)
  <2>1. UNCHANGED <<semtab, obj, dents, vref, fd, pc, loc>>
    BY <1>1, Zenon DEF Block, fsvars
  <2>2. DirOf(t)'
    BY <1>c, <2>1, Zenon DEF DirOf
  <2>3. pc[t] \in Using => semtab[loc[t].num] = loc[t].sem
    BY Zenon DEF FsInv, LiveInv, Using
  <2> QED BY <2>1, <2>2, <2>3, Zenon DEF Quiet
<1>2. CASE Begin(t)
  <2>1. pc[t] = "idle" /\ UNCHANGED <<semtab, obj, dents, vref>>
    BY <1>2, Zenon DEF Begin, At, fsvars
  <2>2. pc'[t] \in {"creat", "lookup", "remove", "rsem", "wsem", "tsem", "decref"}
    BY <1>p, <1>2, Zenon DEF Begin, Labels
  <2> QED BY <1>f, <2>1, <2>2, Zenon DEF Quiet
<1>3. CASE Search(t) /\ pc'[t] # "insert"
  <2>0. pc[t] \in {"creat", "lookup"} /\ UNCHANGED <<semtab, dents, vref>> /\ ~loc[t].fresh
    BY <1>c, <1>3, Zenon DEF Search, At, Call
  <2>1. CASE pc'[t] = "unlock" /\ obj' = obj
    BY <1>f, <2>0, <2>1, Zenon DEF Quiet
  <2>2. CASE pc'[t] = "getvnode" /\ obj' = obj /\ loc' = [loc EXCEPT ![t].num = dents[loc[t].name]]
    <3>1. loc'[t].name = loc[t].name /\ loc'[t].num = dents[loc[t].name] /\ loc'[t].fresh = loc[t].fresh
      BY <1>0, <2>2, Zenon DEF Loc
    <3>2. DirOf(t)'
      BY <2>0, <2>2, <3>1, Zenon DEF DirOf
    <3> QED BY <2>0, <2>2, <3>2, Zenon DEF Quiet, Using
  <2>3. /\ Goto(t, "unlock") => pc'[t] = "unlock"
        /\ Goto(t, "getvnode") => pc'[t] = "getvnode"
        /\ Goto(t, "insert") => pc'[t] = "insert"
    BY <1>p, Zenon DEF Labels
  <2> QED BY <1>3, <2>1, <2>2, <2>3, Zenon DEF Search
<1>4. CASE FindEntry(t)
  <2>1. pc[t] = "remove" /\ UNCHANGED <<semtab, obj, dents, vref>>
    BY <1>4, Zenon DEF FindEntry, At, fsvars
  <2>2. loc'[t].name = loc[t].name /\ loc'[t].num = dents[loc[t].name]
    BY <1>0, <1>4, Zenon DEF FindEntry, Loc
  <2>3. pc'[t] \in {"unlock", "getsem"}
    BY <1>p, <1>4, Zenon DEF FindEntry, Labels
  <2>4. DirOf(t)'
    BY <2>1, <2>2, <2>3, Zenon DEF DirOf
  <2> QED BY <2>1, <2>3, <2>4, Zenon DEF Quiet, Using
<1>5. CASE semfs_getsem(t)
  <2>1. pc[t] \in {"getsem", "rsem", "wsem", "tsem"} /\ UNCHANGED <<semtab, obj, dents, vref>>
    BY <1>5, Zenon DEF semfs_getsem, fsvars
  <2>2. loc'[t].name = loc[t].name /\ loc'[t].num = loc[t].num /\ loc'[t].sem = semtab[loc[t].num]
    BY <1>0, <1>5, Zenon DEF semfs_getsem, Loc
  <2>3. pc'[t] \in {"lock", "read", "write", "truncate"} /\ (pc'[t] = "lock" <=> pc[t] = "getsem")
    BY <1>p, <1>5, <2>1 DEF semfs_getsem, Labels
  <2>4. DirOf(t)'
    BY <1>c, <2>1, <2>2, <2>3, Zenon DEF DirOf
  <2> QED BY <2>1, <2>2, <2>3, <2>4, Zenon DEF Quiet
<1>6. CASE UnlockDir(t)
  <2>1. pc[t] = "unlock" /\ UNCHANGED <<semtab, obj, dents, vref>>
    BY <1>6, Zenon DEF UnlockDir, At, fsvars
  <2>2. pc'[t] \in {"idle", "lost"}
    BY <1>p, <1>i, <1>6, Zenon DEF UnlockDir, Labels
  <2> QED BY <1>f, <2>1, <2>2, Zenon DEF Quiet
<1>7. CASE TestVnode(t)
  <2>1. pc[t] = "test" /\ UNCHANGED <<semtab, obj, dents, vref, loc>>
    BY <1>7, Zenon DEF TestVnode, At, fsvars
  <2>2. pc'[t] = IF obj[loc[t].sem].hasvnode THEN "undent" ELSE "clear"
    BY <1>p, <1>7, Zenon DEF TestVnode, Labels
  <2>3. /\ loc[t].num \in Nums /\ loc[t].sem \in Objs /\ semtab[loc[t].num] = loc[t].sem /\ ~obj[loc[t].sem].linked
        /\ dents[loc[t].name] = loc[t].num /\ loc[t].sem # NULL /\ vref[loc[t].num] \in Nat
    BY <1>0, <1>c, <2>1, SemfsAssumption, Zenon DEF Call, DirOf, StateType
  <2>4. ~\E u \in Threads : pc[u] = "orphan" /\ loc[u].num = loc[t].num
    BY <2>1, <2>3, Zenon DEF NoRemoveRace
  <2>5. obj[loc[t].sem].hasvnode <=> vref[loc[t].num] > 0
    BY <2>3, <2>4, Zenon DEF FsInv, TableInv
  <2>6. DirOf(t)'
    BY <2>1, <2>2, <2>3, <2>5, SMTT(30) DEF DirOf
  <2> QED BY <2>1, <2>2, <2>6, Zenon DEF Quiet, Using
<1>8. CASE vnode_decref(t) \/ semfs_reclaim(t)
  <2>1. pc[t] \in {"decref", "reclaim"} /\ UNCHANGED <<semtab, obj, dents>> /\ loc[t].num \in Nums
    BY <1>c, <1>8, Zenon DEF vnode_decref, semfs_reclaim, At, Call
  <2>2. vref' = vref \/ (vref[loc[t].num] > 1 /\ vref' = [vref EXCEPT ![loc[t].num] = @ - 1])
    BY <1>8, Zenon DEF vnode_decref, semfs_reclaim, StillUsed
  <2>3. \A n \in Nums : vref'[n] > 0 <=> vref[n] > 0
    BY <1>0, <2>1, <2>2 DEF StateType
  <2>4. pc'[t] \in {"idle", "reclaim", "noVnode"}
    BY <1>p, <1>i, <1>8, Zenon DEF vnode_decref, semfs_reclaim, Labels
  <2> QED BY <1>f, <2>1, <2>3, <2>4, Zenon DEF Quiet
<1>9. CASE ReadLock(t)
  <2>1. pc[t] = "read" /\ pc'[t] = "consume" /\ UNCHANGED <<semtab, obj, dents, vref, loc>>
    BY <1>p, <1>9, Zenon DEF ReadLock, At, fsvars, Labels
  <2>2. semtab[loc[t].num] = loc[t].sem
    BY <2>1, Zenon DEF FsInv, LiveInv
  <2> QED BY <1>g, <2>1, <2>2, Zenon DEF Quiet, Using
<1>10. CASE Consume(t) \/ semfs_write(t) \/ semfs_truncate(t)
  <2>1. pc[t] \in Using /\ UNCHANGED <<semtab, dents, vref>>
    BY <1>10, Zenon DEF Consume, semfs_write, semfs_truncate, At, Using
  <2>2. loc[t].sem \in Objs /\ loc[t].num \in Nums /\ semtab[loc[t].num] = loc[t].sem
    BY <1>c, <2>1, Zenon DEF FsInv, LiveInv, Using, Call
  <2>3. obj[loc[t].sem].live
    BY <2>2, SemfsAssumption, Zenon DEF FsInv, TableInv
  <2>4. obj' = obj \/ \E c : obj' = [obj EXCEPT ![loc[t].sem].count = c]
    BY <1>10, Zenon DEF Consume, semfs_write, semfs_truncate
  <2>5. \A o \in Objs : /\ obj'[o].live = obj[o].live /\ obj'[o].hasvnode = obj[o].hasvnode
                        /\ obj'[o].linked = obj[o].linked /\ (~obj[o].live => obj'[o] = obj[o])
    <3>1. ASSUME NEW c, obj' = [obj EXCEPT ![loc[t].sem].count = c], NEW o \in Objs
          PROVE  /\ obj'[o].live = obj[o].live /\ obj'[o].hasvnode = obj[o].hasvnode
                 /\ obj'[o].linked = obj[o].linked /\ (~obj[o].live => obj'[o] = obj[o])
      <4>1. CASE o # loc[t].sem
        BY <1>0, <3>1, <4>1, Zenon DEF StateType
      <4>2. CASE o = loc[t].sem
        <5>1. obj[o] \in Obj /\ obj'[o] = [obj[o] EXCEPT !.count = c]
          BY <1>0, <3>1, <4>2, Zenon DEF StateType
        <5> QED BY <2>3, <4>2, <5>1, Zenon DEF Obj
      <4> QED BY <4>1, <4>2, Zenon
    <3> QED BY <2>4, <3>1, Zenon
  <2>6. pc'[t] = "idle" \/ (pc'[t] = "read" /\ loc'[t].num = loc[t].num /\ loc'[t].sem = loc[t].sem)
    BY <1>0, <1>p, <1>i, <1>10, Zenon DEF Consume, semfs_write, semfs_truncate, Labels, Loc
  <2>7. DirOf(t)' /\ pc'[t] # "orphan"
    BY <1>f, <1>g, <2>6, Zenon DEF Using
  <2> QED BY <2>1, <2>2, <2>5, <2>6, <2>7, Zenon DEF Quiet, Using
<1>11. CASE semfs_getvnode(t) /\ (vref[loc[t].num] # 0 \/ (~loc[t].fresh /\ vref' = vref))
  <2>1. pc[t] = "getvnode" /\ loc[t].num \in Nums /\ semtab' = semtab /\ vref[loc[t].num] \in Nat
    BY <1>0, <1>c, <1>11, Zenon DEF semfs_getvnode, At, Call, StateType
  <2>2. ~loc[t].fresh
    BY <1>c, <1>11, <2>1, Zenon DEF DirOf
  <2>3. obj' = obj /\ dents' = dents /\ pc'[t] = "unlock"
    <3>1. CASE vref[loc[t].num] # 0
      BY <1>p, <1>11, <2>2, <3>1, Zenon DEF semfs_getvnode, Labels
    <3>2. CASE vref[loc[t].num] = 0 /\ vref' = vref
      BY <1>0, <1>p, <1>11, <2>1, <2>2, <3>2 DEF semfs_getvnode, Incref, Labels, StateType
    <3> QED BY <1>11, <3>1, <3>2, Zenon
  <2>4. \A n \in Nums : vref'[n] > 0 <=> vref[n] > 0
    BY <1>0, <1>11, <2>1 DEF semfs_getvnode, Incref, StateType
  <2> QED BY <1>f, <2>1, <2>2, <2>3, <2>4, Zenon DEF Quiet
<1> QED BY <1>1, <1>2, <1>3, <1>4, <1>5, <1>6, <1>7, <1>8, <1>9, <1>10, <1>11, Zenon

(* While a thread has the directory, others neither change it nor know of    *)
(* anything they are doing to it.                                            *)
LEMMA DirOthers ==
  ASSUME Base, NEW t \in Threads, Step(t), pc[t] \in DirHeld \/ owner["dir"] = NULL, NEW u \in Threads, u # t
  PROVE  pc'[u] = pc[u] /\ loc'[u] = loc[u] /\ fd'[u] = fd[u] /\ pc[u] \notin DirHeld /\ DirOf(u)'
<1>1. pc'[u] = pc[u] /\ loc'[u] = loc[u] /\ fd'[u] = fd[u]
  BY OthersStay, Zenon DEF Base
<1>2. pc[u] \notin DirHeld
  BY Alone, Zenon
<1>3. DirOf(u)'
  BY <1>1, <1>2, Zenon DEF DirOf, DirHeld
<1> QED BY <1>1, <1>2, <1>3, Zenon

(* semfs_creat makes a semaphore. *)
LEMMA MakeStep ==
  ASSUME Base, CountInv, FsInv, NEW t \in Threads, Step(t), Search(t), pc'[t] = "insert"
  PROVE  FsInv'
<1>0. StateType /\ loc[t] \in Loc /\ DOMAIN loc = Threads /\ NULL \notin Objs
  BY SemfsAssumption, Zenon DEF Base, TypeInv, StateType, Loc, Obj
<1>w. Wants(t) = "dir" /\ pc[t] \in {"creat", "lookup"}
  BY WantsLock, Zenon DEF Base, Search, At
<1>u. \A u \in Threads : u # t => pc'[u] = pc[u] /\ loc'[u] = loc[u] /\ fd'[u] = fd[u] /\ pc[u] \notin DirHeld /\ DirOf(u)'
  BY <1>w, DirOthers, Zenon DEF Search, Take, lock_acquire
<1>1. PICK o \in Objs : /\ ~obj[o].live /\ dents[loc[t].name] = NULL
                        /\ obj' = [obj EXCEPT ![o] = [FreeObj EXCEPT !.live = TRUE]]
                        /\ loc' = [loc EXCEPT ![t].sem = o, ![t].fresh = TRUE]
  BY Zenon DEF Search, Goto, Base, TypeInv
<1>2. loc'[t].sem = o /\ loc'[t].name = loc[t].name /\ UNCHANGED <<semtab, dents, vref, fd>>
  BY <1>0, <1>1, Zenon DEF Search, Loc
<1>3. /\ obj'[o].live /\ ~obj'[o].hasvnode /\ ~obj'[o].linked
      /\ \A x \in Objs : x # o => obj'[x] = obj[x]
  BY <1>0, <1>1, Zenon DEF StateType, FreeObj
<1>4. /\ \A n \in Nums : semtab[n] # o /\ (semtab[n] # NULL => obj'[semtab[n]] = obj[semtab[n]])
      /\ ~obj[o].linked
  BY <1>0, <1>1, <1>3 DEF FsInv, TableInv, LiveInv, FreeObj, StateType
<1>5. TableInv'
  <2>1. \A n \in Nums : (\E u \in Threads : pc'[u] = "orphan" /\ loc'[u].num = n)
                        <=> (\E u \in Threads : pc[u] = "orphan" /\ loc[u].num = n)
    BY <1>u, <1>w, Zenon
  <2> QED BY <1>2, <1>4, <2>1 DEF FsInv, TableInv
<1>6. LinkInv'
  <2>1. ASSUME NEW a \in Names, dents[a] # NULL PROVE semtab[dents[a]] # NULL /\ obj[semtab[dents[a]]].linked
    BY <1>u, <1>w, <2>1 DEF FsInv, LinkInv, DirHeld
  <2>2. \A a \in Names : dents[a] # NULL => dents[a] \in Nums
    BY <1>0, Zenon DEF StateType
  <2> QED BY <1>2, <1>3, <1>4, <2>1, <2>2 DEF FsInv, LinkInv
<1>7. DirInv'
  <2>1. DirOf(t)'
    BY <1>1, <1>2, <1>3, <1>4, Zenon DEF DirOf
  <2> QED BY <1>u, <2>1, Zenon DEF DirInv
<1>8. LiveInv'
  <2>1. \A u \in Threads : pc'[u] \in Using => semtab'[loc'[u].num] = loc'[u].sem
    BY <1>2, <1>u DEF FsInv, LiveInv, Using
  <2>2. \A x \in Objs : obj'[x].live => \/ \E n \in Nums : semtab'[n] = x
                                        \/ \E u \in Threads : pc'[u] \in {"insert", "destroy"} /\ loc'[u].sem = x
    BY <1>2, <1>3, <1>u, <1>w DEF FsInv, LiveInv
  <2>3. \A x \in Objs : ~obj'[x].live => obj'[x] = FreeObj
    BY <1>3, Zenon DEF FsInv, LiveInv
  <2>4. \A n \in Nums : semtab'[n] # NULL /\ vref'[n] = 0 =>
                 \/ \E a \in Names : dents'[a] = n
                 \/ \E u \in Threads : pc'[u] \in {"dent", "uninsert"} /\ loc'[u].num = n
    BY <1>2, <1>u, <1>w DEF FsInv, LiveInv
  <2> QED BY <2>1, <2>2, <2>3, <2>4, Zenon DEF LiveInv, Using
<1> QED BY <1>5, <1>6, <1>7, <1>8, Zenon DEF FsInv

(* semfs_sem_insert enters it in the table. *)
LEMMA InsertStep ==
  ASSUME LowestExists, Base, CountInv, FsInv, NEW t \in Threads, Step(t), semfs_sem_insert(t)
  PROVE  FsInv'
<1>0. StateType /\ loc[t] \in Loc /\ DOMAIN loc = Threads /\ NULL \notin Objs
  BY SemfsAssumption, Zenon DEF Base, TypeInv, StateType, Loc, Obj
<1>w. pc[t] = "insert" /\ loc[t].sem \in Objs /\ UNCHANGED <<dents, vref, fd>> /\ DirOf(t)
  BY Zenon DEF Base, CallInv, Call, semfs_sem_insert, At, FsInv, DirInv
<1>u. \A u \in Threads : u # t => pc'[u] = pc[u] /\ loc'[u] = loc[u] /\ fd'[u] = fd[u] /\ pc[u] \notin DirHeld /\ DirOf(u)'
  BY <1>w, DirOthers, Zenon DEF DirHeld
<1> DEFINE o == loc[t].sem
<1>1. /\ obj[o].live /\ ~obj[o].hasvnode /\ ~obj[o].linked /\ dents[loc[t].name] = NULL
      /\ \A m \in Nums : semtab[m] # o
  BY <1>w, Zenon DEF DirOf
<1>2. ASSUME NEW a \in Names, dents[a] # NULL
      PROVE  dents[a] \in Nums /\ semtab[dents[a]] # NULL /\ obj[semtab[dents[a]]].linked
  BY <1>0, <1>u, <1>w, <1>2 DEF FsInv, LinkInv, DirHeld, StateType
<1>3. pc'[t] \in {"dent", "unlock"}
  BY Zenon DEF semfs_sem_insert, Goto, Base, TypeInv
<1>o. \A n \in Nums : (\E u \in Threads : pc'[u] = "orphan" /\ loc'[u].num = n)
                      <=> (\E u \in Threads : pc[u] = "orphan" /\ loc[u].num = n)
  BY <1>u, <1>w, <1>3, Zenon
<1> DEFINE unused == {n \in Nums : semtab[n] = NULL}
           num == Min(unused)
<1>4. CASE unused # {} /\ semtab' = [semtab EXCEPT ![num] = o] /\ loc' = [loc EXCEPT ![t].num = num]
           /\ Goto(t, "dent") /\ obj' = obj
  <2>1. num \in Nums /\ semtab[num] = NULL
    BY <1>4, SemfsAssumption DEF LowestExists
  <2> HIDE DEF num, unused
  <2>2. /\ pc'[t] = "dent" /\ loc'[t].num = num /\ loc'[t].sem = o /\ loc'[t].name = loc[t].name
        /\ semtab'[num] = o /\ \A n \in Nums : n # num => semtab'[n] = semtab[n]
    BY <1>0, <1>4, <2>1, Zenon DEF Goto, StateType, Loc
  <2>3. vref[num] = 0 /\ \A a \in Names : dents[a] # num
    BY <1>0, <1>2, <2>1, SemfsAssumption DEF FsInv, TableInv, StateType
  <2>4. TableInv'
    BY <1>0, <1>1, <1>4, <1>o, <1>w, <2>1, <2>2, <2>3 DEF FsInv, TableInv
  <2>5. LinkInv'
    BY <1>2, <1>4, <1>w, <2>1, <2>2, <2>3 DEF FsInv, LinkInv
  <2>6. DirInv'
    <3>1. DirOf(t)'
      BY <1>1, <1>4, <1>w, <2>2, <2>3, Zenon DEF DirOf
    <3> QED BY <1>u, <3>1, Zenon DEF DirInv
  <2>7. LiveInv'
    <3>1. ASSUME NEW u \in Threads, pc'[u] \in Using PROVE semtab'[loc'[u].num] = loc'[u].sem
      <4>1. u # t /\ pc[u] \in Using /\ loc'[u] = loc[u]
        BY <1>3, <1>u, <3>1, Zenon DEF Using
      <4>2. loc[u].num \in Nums /\ loc[u].sem \in Objs /\ semtab[loc[u].num] = loc[u].sem
        BY <4>1, Zenon DEF Base, CallInv, Call, Using, FsInv, LiveInv
      <4> QED BY <1>0, <2>1, <2>2, <4>1, <4>2, Zenon
    <3>2. \A x \in Objs : obj'[x].live => \/ \E n \in Nums : semtab'[n] = x
                                          \/ \E u \in Threads : pc'[u] \in {"insert", "destroy"} /\ loc'[u].sem = x
      BY <1>0, <1>4, <1>u, <1>w, <2>1, <2>2 DEF FsInv, LiveInv
    <3>3. \A x \in Objs : ~obj'[x].live => obj'[x] = FreeObj
      BY <1>4, Zenon DEF FsInv, LiveInv
    <3>4. \A n \in Nums : semtab'[n] # NULL /\ vref'[n] = 0 =>
                 \/ \E a \in Names : dents'[a] = n
                 \/ \E u \in Threads : pc'[u] \in {"dent", "uninsert"} /\ loc'[u].num = n
      BY <1>u, <1>w, <2>2 DEF FsInv, LiveInv
    <3> QED BY <3>1, <3>2, <3>3, <3>4, Zenon DEF LiveInv, Using
  <2> QED BY <2>4, <2>5, <2>6, <2>7, Zenon DEF FsInv
<1>5. CASE obj' = [obj EXCEPT ![o] = FreeObj] /\ Goto(t, "unlock") /\ UNCHANGED <<semtab, loc>>
  <2>1. /\ pc'[t] = "unlock" /\ obj'[o] = FreeObj /\ \A x \in Objs : x # o => obj'[x] = obj[x]
        /\ ~FreeObj.live /\ ~FreeObj.linked
    BY <1>0, <1>5, <1>w, Zenon DEF Goto, StateType, FreeObj
  <2>2. \A n \in Nums : semtab[n] # NULL => semtab[n] \in Objs /\ obj'[semtab[n]] = obj[semtab[n]]
    BY <1>0, <1>1, <2>1, Zenon DEF StateType
  <2>3. TableInv'
    BY <1>5, <1>o, <1>w, <2>2 DEF FsInv, TableInv
  <2>4. LinkInv'
    BY <1>2, <1>5, <1>w, <2>1, <2>2 DEF FsInv, LinkInv
  <2>5. DirInv'
    <3>1. DirOf(t)'
      BY <2>1, Zenon DEF DirOf
    <3> QED BY <1>u, <3>1, Zenon DEF DirInv
  <2>6. LiveInv'
    <3>1. \A u \in Threads : pc'[u] \in Using => semtab'[loc'[u].num] = loc'[u].sem
      BY <1>5, <1>u, <2>1, Zenon DEF FsInv, LiveInv, Using
    <3>2. \A x \in Objs : obj'[x].live => \/ \E n \in Nums : semtab'[n] = x
                                          \/ \E u \in Threads : pc'[u] \in {"insert", "destroy"} /\ loc'[u].sem = x
      BY <1>5, <1>u, <2>1 DEF FsInv, LiveInv
    <3>3. \A x \in Objs : ~obj'[x].live => obj'[x] = FreeObj
      BY <2>1, Zenon DEF FsInv, LiveInv
    <3>4. \A n \in Nums : semtab'[n] # NULL /\ vref'[n] = 0 =>
                 \/ \E a \in Names : dents'[a] = n
                 \/ \E u \in Threads : pc'[u] \in {"dent", "uninsert"} /\ loc'[u].num = n
      BY <1>5, <1>u, <1>w, Zenon DEF FsInv, LiveInv
    <3> QED BY <3>1, <3>2, <3>3, <3>4, Zenon DEF LiveInv, Using
  <2> QED BY <2>3, <2>4, <2>5, <2>6, Zenon DEF FsInv
<1> QED BY <1>4, <1>5, Zenon DEF semfs_sem_insert

(* semfs_creat names it in the directory. *)
LEMMA EntryStep ==
  ASSUME Base, CountInv, FsInv, NEW t \in Threads, Step(t), AddEntry(t)
  PROVE  FsInv'
<1>0. StateType /\ loc[t] \in Loc /\ DOMAIN loc = Threads /\ NULL \notin Objs /\ NULL \notin Nums
  BY SemfsAssumption, Zenon DEF Base, TypeInv, StateType, Loc, Obj
<1>w. /\ pc[t] = "dent" /\ loc[t].name \in Names /\ loc[t].num \in Nums /\ loc[t].fresh
      /\ UNCHANGED <<semtab, obj, vref, fd>> /\ DirOf(t)
  BY Zenon DEF Base, CallInv, Call, AddEntry, At, FsInv, DirInv, DirHeld
<1>u. \A u \in Threads : u # t => pc'[u] = pc[u] /\ loc'[u] = loc[u] /\ fd'[u] = fd[u] /\ pc[u] \notin DirHeld /\ DirOf(u)'
  BY <1>w, DirOthers, Zenon DEF DirHeld
<1>e. /\ loc'[t].name = loc[t].name /\ loc'[t].num = loc[t].num /\ loc'[t].sem = loc[t].sem
      /\ loc'[t].fresh = loc[t].fresh
  BY <1>0, Zenon DEF AddEntry, Loc
<1>1. /\ semtab[loc[t].num] = loc[t].sem /\ ~obj[loc[t].sem].linked /\ vref[loc[t].num] = 0
      /\ dents[loc[t].name] = NULL /\ \A x \in Names : dents[x] # loc[t].num
  BY <1>w, Zenon DEF DirOf
<1>2. ASSUME NEW a \in Names, dents[a] # NULL
      PROVE  dents[a] \in Nums /\ semtab[dents[a]] # NULL /\ obj[semtab[dents[a]]].linked
  BY <1>0, <1>u, <1>w, <1>2 DEF FsInv, LinkInv, DirHeld, StateType
<1>3. \/ pc'[t] = "getvnode" /\ dents' = [dents EXCEPT ![loc[t].name] = loc[t].num]
      \/ pc'[t] = "uninsert" /\ dents' = dents
  BY Zenon DEF AddEntry, Goto, Base, TypeInv
<1>d. \A x \in Names : dents'[x] = dents[x] \/ (x = loc[t].name /\ dents'[x] = loc[t].num /\ pc'[t] = "getvnode")
  BY <1>0, <1>3, <1>w, Zenon DEF StateType
<1>o. \A n \in Nums : (\E u \in Threads : pc'[u] = "orphan" /\ loc'[u].num = n)
                      <=> (\E u \in Threads : pc[u] = "orphan" /\ loc[u].num = n)
  BY <1>u, <1>w, <1>3, Zenon
<1>4. TableInv'
  BY <1>1, <1>d, <1>o, <1>w DEF FsInv, TableInv
<1>5. LinkInv'
  <2>1. \A a \in Names : dents'[a] # NULL =>
          \/ semtab'[dents'[a]] # NULL /\ obj'[semtab'[dents'[a]]].linked
          \/ \E u \in Threads : /\ loc'[u].name = a /\ loc'[u].num = dents'[a]
                                /\ pc'[u] = "getvnode" /\ loc'[u].fresh
    BY <1>2, <1>d, <1>e, <1>w, Zenon
  <2>2. \A o \in Objs : obj'[o].linked => obj'[o].live /\ \E a \in Names : dents'[a] # NULL /\ semtab'[dents'[a]] = o
    BY <1>1, <1>d, <1>w DEF FsInv, LinkInv
  <2> QED BY <2>1, <2>2, Zenon DEF LinkInv
<1>6. DirInv'
  <2>1. pc'[t] = "getvnode" => dents'[loc[t].name] = loc[t].num
    BY <1>0, <1>3, <1>w, Zenon DEF StateType
  <2>2. DirOf(t)'
    BY <1>1, <1>3, <1>e, <1>w, <2>1, Zenon DEF DirOf
  <2> QED BY <1>u, <2>2, Zenon DEF DirInv
<1>7. LiveInv'
  <2>1. \A u \in Threads : pc'[u] \in Using => semtab'[loc'[u].num] = loc'[u].sem
    BY <1>3, <1>u, <1>w DEF FsInv, LiveInv, Using
  <2>2. \A x \in Objs : obj'[x].live => \/ \E n \in Nums : semtab'[n] = x
                                        \/ \E u \in Threads : pc'[u] \in {"insert", "destroy"} /\ loc'[u].sem = x
    BY <1>u, <1>w DEF FsInv, LiveInv
  <2>3. \A x \in Objs : ~obj'[x].live => obj'[x] = FreeObj
    BY <1>w, Zenon DEF FsInv, LiveInv
  <2>4. ASSUME NEW n \in Nums, semtab'[n] # NULL, vref'[n] = 0
        PROVE  \/ \E a \in Names : dents'[a] = n
               \/ \E u \in Threads : pc'[u] \in {"dent", "uninsert"} /\ loc'[u].num = n
    <3>1. CASE n = loc[t].num
      BY <1>0, <1>3, <1>e, <1>w, <3>1, Zenon DEF StateType
    <3>2. CASE n # loc[t].num
      <4>1. \E a \in Names : dents[a] = n
        BY <1>u, <1>w, <2>4, <3>2 DEF FsInv, LiveInv, DirHeld
      <4> QED BY <1>0, <1>1, <1>3, <1>w, <4>1, Zenon DEF StateType
    <3> QED BY <3>1, <3>2, Zenon
  <2> QED BY <2>1, <2>2, <2>3, <2>4, Zenon DEF LiveInv, Using
<1> QED BY <1>4, <1>5, <1>6, <1>7, Zenon DEF FsInv

(* semfs_getvnode opens it. *)
LEMMA GetvnodeStep ==
  ASSUME Base, CountInv, FsInv, NEW t \in Threads, Step(t), semfs_getvnode(t), vref[loc[t].num] = 0,
         loc[t].fresh \/ vref' # vref
  PROVE  FsInv'
<1>0. StateType /\ NULL \notin Objs /\ NULL \notin Nums
  BY SemfsAssumption, Zenon DEF Base, TypeInv, StateType, Loc, Obj
<1>w. /\ pc[t] = "getvnode" /\ loc[t].name \in Names /\ loc[t].num \in Nums
      /\ UNCHANGED <<semtab, loc>> /\ DirOf(t) /\ dents[loc[t].name] = loc[t].num
  BY Zenon DEF Base, CallInv, Call, semfs_getvnode, At, FsInv, DirInv, DirHeld, DirOf
<1>u. \A u \in Threads : u # t => pc'[u] = pc[u] /\ loc'[u] = loc[u] /\ fd'[u] = fd[u] /\ pc[u] \notin DirHeld /\ DirOf(u)'
  BY <1>w, DirOthers, Zenon DEF DirHeld
<1>t. \A u \in Threads : pc[u] # "orphan" /\ pc'[u] # "orphan"
  <2>1. owner["table"] = NULL
    BY <1>w, WantsLock, Zenon DEF semfs_getvnode, Locked, Section, Base
  <2>2. \A u \in Threads : pc[u] \notin TableHeld
    BY <2>1, Alone, Zenon
  <2>3. pc'[t] \in {"link", "unlock", "uninsert"}
    BY Zenon DEF semfs_getvnode, Goto, Base, TypeInv
  <2> QED BY <1>u, <2>2, <2>3, Zenon DEF TableHeld
<1>1. loc[t].fresh => semtab[loc[t].num] = loc[t].sem /\ ~obj[loc[t].sem].linked /\ loc[t].sem \in Objs
  BY <1>w, Zenon DEF DirOf, Base, CallInv, Call
<1>l. ASSUME NEW a \in Names, dents[a] # NULL
      PROVE  /\ dents[a] \in Nums
             /\ \/ semtab[dents[a]] # NULL /\ obj[semtab[dents[a]]].linked
                \/ loc[t].name = a /\ loc[t].num = dents[a] /\ loc[t].fresh
  BY <1>0, <1>u, <1>w, <1>l DEF FsInv, LinkInv, DirHeld, StateType
<1>v. \A n \in Nums : vref[n] \in Nat
  BY <1>0, Zenon DEF StateType
<1>2. CASE semtab[loc[t].num] # NULL /\ vref' = [vref EXCEPT ![loc[t].num] = 1] /\ fd' = [fd EXCEPT ![t] = loc[t].num]
           /\ obj' = [obj EXCEPT ![semtab[loc[t].num]].hasvnode = TRUE] /\ dents' = dents
           /\ Goto(t, IF loc[t].fresh THEN "link" ELSE "unlock")
  <2> DEFINE s == semtab[loc[t].num]
  <2>1. s \in Objs /\ obj[s].live /\ pc'[t] = (IF loc[t].fresh THEN "link" ELSE "unlock")
    BY <1>0, <1>2, <1>w DEF StateType, FsInv, TableInv, Goto
  <2> HIDE DEF s
  <2>2. /\ vref'[loc[t].num] = 1 /\ \A n \in Nums : n # loc[t].num => vref'[n] = vref[n]
        /\ fd'[t] = loc[t].num
    BY <1>0, <1>2, <1>w, Zenon DEF StateType
  <2>3. /\ obj'[s].hasvnode /\ \A x \in Objs : obj'[x].linked = obj[x].linked /\ obj'[x].live = obj[x].live
        /\ \A x \in Objs : x # s => obj'[x] = obj[x]
    BY <1>0, <1>2, <2>1 DEF StateType, Obj, s
  <2>4. \A n \in Nums : semtab[n] # NULL => semtab[n] \in Objs /\ (semtab[n] = s <=> n = loc[t].num)
    BY <1>0, <1>2, <1>w DEF StateType, FsInv, TableInv, s
  <2>5. TableInv'
    BY <1>t, <1>w, <1>2, <2>1, <2>2, <2>3, <2>4 DEF FsInv, TableInv, s
  <2>6. LinkInv'
    <3>1. ASSUME NEW a \in Names, dents[a] # NULL
          PROVE  \/ semtab[dents[a]] # NULL /\ obj'[semtab[dents[a]]].linked
                 \/ \E u \in Threads : loc'[u].name = a /\ loc'[u].num = dents[a] /\ pc'[u] = "link"
      BY <1>l, <1>w, <2>1, <2>3, <2>4, <3>1, Zenon
    <3>2. \A o \in Objs : obj'[o].linked => obj'[o].live /\ \E a \in Names : dents[a] # NULL /\ semtab[dents[a]] = o
      BY <2>3, Zenon DEF FsInv, LinkInv
    <3> QED BY <1>2, <1>w, <3>1, <3>2 DEF LinkInv
  <2>7. DirInv'
    <3>1. DirOf(t)'
      BY <1>1, <1>2, <1>w, <2>1, <2>2, <2>3, Zenon DEF DirOf
    <3> QED BY <1>u, <3>1, Zenon DEF DirInv
  <2>8. LiveInv'
    <3>1. \A u \in Threads : pc'[u] \in Using => semtab'[loc'[u].num] = loc'[u].sem
      BY <1>u, <1>w, <2>1, Zenon DEF FsInv, LiveInv, Using
    <3>2. \A x \in Objs : obj'[x].live => \/ \E n \in Nums : semtab'[n] = x
                                          \/ \E u \in Threads : pc'[u] \in {"insert", "destroy"} /\ loc'[u].sem = x
      BY <1>u, <1>w, <2>3 DEF FsInv, LiveInv
    <3>3. \A x \in Objs : ~obj'[x].live => obj'[x] = FreeObj
      BY <2>1, <2>3, Zenon DEF FsInv, LiveInv
    <3>4. \A n \in Nums : semtab'[n] # NULL /\ vref'[n] = 0 =>
                 \/ \E a \in Names : dents'[a] = n
                 \/ \E u \in Threads : pc'[u] \in {"dent", "uninsert"} /\ loc'[u].num = n
      BY <1>2, <1>u, <1>w, <2>2 DEF FsInv, LiveInv
    <3> QED BY <3>1, <3>2, <3>3, <3>4, Zenon DEF LiveInv, Using
  <2> QED BY <2>5, <2>6, <2>7, <2>8, Zenon DEF FsInv
<1>3. CASE loc[t].fresh /\ Goto(t, "uninsert") /\ dents' = [dents EXCEPT ![loc[t].name] = NULL]
           /\ UNCHANGED <<vref, obj, fd>>
  <2>1. /\ pc'[t] = "uninsert" /\ dents'[loc[t].name] = NULL
        /\ \A x \in Names : x # loc[t].name => dents'[x] = dents[x] /\ dents[x] # loc[t].num
    BY <1>0, <1>3, <1>w DEF Goto, StateType, FsInv, TableInv
  <2>2. TableInv'
    <3>1. \A a, b \in Names : dents'[a] = dents'[b] /\ dents'[a] # NULL => a = b
      BY <2>1 DEF FsInv, TableInv
    <3> QED BY <1>3, <1>t, <1>w, <3>1, Zenon DEF FsInv, TableInv
  <2>3. LinkInv'
    <3>1. ASSUME NEW a \in Names, dents'[a] # NULL PROVE semtab'[dents'[a]] # NULL /\ obj'[semtab'[dents'[a]]].linked
      BY <1>3, <1>l, <1>w, <2>1, <3>1, Zenon
    <3>2. \A o \in Objs : obj'[o].linked => obj'[o].live /\ \E a \in Names : dents'[a] # NULL /\ semtab'[dents'[a]] = o
      BY <1>1, <1>3, <1>w, <2>1 DEF FsInv, LinkInv
    <3> QED BY <3>1, <3>2, Zenon DEF LinkInv
  <2>4. DirInv'
    <3>1. DirOf(t)'
      BY <1>0, <1>1, <1>3, <1>w, <2>1 DEF DirOf
    <3> QED BY <1>u, <3>1, Zenon DEF DirInv
  <2>5. LiveInv'
    <3>1. \A u \in Threads : pc'[u] \in Using => semtab'[loc'[u].num] = loc'[u].sem
      BY <1>u, <1>w, <2>1, Zenon DEF FsInv, LiveInv, Using
    <3>2. \A x \in Objs : obj'[x].live => \/ \E n \in Nums : semtab'[n] = x
                                          \/ \E u \in Threads : pc'[u] \in {"insert", "destroy"} /\ loc'[u].sem = x
      BY <1>3, <1>u, <1>w DEF FsInv, LiveInv
    <3>3. \A x \in Objs : ~obj'[x].live => obj'[x] = FreeObj
      BY <1>3, Zenon DEF FsInv, LiveInv
    <3>4. \A n \in Nums : semtab'[n] # NULL /\ vref'[n] = 0 =>
                 \/ \E a \in Names : dents'[a] = n
                 \/ \E u \in Threads : pc'[u] \in {"dent", "uninsert"} /\ loc'[u].num = n
      BY <1>3, <1>u, <1>w, <2>1 DEF FsInv, LiveInv
    <3> QED BY <3>1, <3>2, <3>3, <3>4, Zenon DEF LiveInv, Using
  <2> QED BY <2>2, <2>3, <2>4, <2>5, Zenon DEF FsInv
<1> QED BY <1>2, <1>3 DEF semfs_getvnode, Incref

(* semfs_creat marks the structure as linked; semfs_remove marks it as not. *)
LEMMA LinkedStep ==
  ASSUME Base, CountInv, FsInv, NEW t \in Threads, Step(t), SetLinked(t) \/ Unlink(t)
  PROVE  FsInv'
<1>0. StateType /\ NULL \notin Objs /\ NULL \notin Nums /\ DOMAIN loc = Threads
  BY SemfsAssumption, Zenon DEF Base, TypeInv, StateType, Loc, Obj
<1> DEFINE o == loc[t].sem  n == loc[t].num  a == loc[t].name
<1>w. /\ pc[t] \in {"link", "lock"} /\ a \in Names /\ n \in Nums /\ o \in Objs
      /\ UNCHANGED <<semtab, dents, vref, fd>> /\ DirOf(t) /\ dents[a] = n /\ semtab[n] = o
  BY Zenon DEF Base, CallInv, Call, SetLinked, Unlink, At, FsInv, DirInv, DirHeld, DirOf
<1>u. \A u \in Threads : u # t => pc'[u] = pc[u] /\ loc'[u] = loc[u] /\ fd'[u] = fd[u] /\ pc[u] \notin DirHeld /\ DirOf(u)'
  BY <1>w, DirOthers, Zenon DEF DirHeld
<1>1. \/ pc'[t] = "idle" /\ obj' = [obj EXCEPT ![o].linked = TRUE]
      \/ pc[t] = "lock" /\ pc'[t] = "test" /\ loc' = loc /\ obj' = [obj EXCEPT ![o].linked = FALSE]
  BY Zenon DEF SetLinked, Unlink, Done, Goto, At, Base, TypeInv
<1>2. /\ obj[o].live
      /\ \A x \in Objs : obj'[x].live = obj[x].live /\ obj'[x].hasvnode = obj[x].hasvnode /\ (x # o => obj'[x] = obj[x])
      /\ obj'[o].linked <=> pc'[t] = "idle"
  <2>1. obj[o] \in Obj /\ obj[o].live
    BY <1>0, <1>w, Zenon DEF StateType, FsInv, TableInv
  <2>2. \A x \in Objs : x # o => obj'[x] = obj[x]
    BY <1>0, <1>1, Zenon DEF StateType
  <2>3. CASE pc'[t] = "idle"
    <3>1. obj'[o] = [obj[o] EXCEPT !.linked = TRUE]
      BY <1>0, <1>1, <1>w, <2>3, Zenon DEF StateType
    <3> QED BY <2>1, <2>2, <2>3, <3>1, Zenon DEF Obj
  <2>4. CASE pc'[t] = "test"
    <3>1. obj'[o] = [obj[o] EXCEPT !.linked = FALSE]
      BY <1>0, <1>1, <1>w, <2>4, Zenon DEF StateType
    <3> QED BY <2>1, <2>2, <2>4, <3>1, Zenon DEF Obj
  <2> QED BY <1>1, <2>3, <2>4, Zenon
<1>3. \A m \in Nums : semtab[m] # NULL => semtab[m] \in Objs /\ (semtab[m] = o => m = n)
  BY <1>0, <1>w DEF StateType, FsInv, TableInv
<1>o. \A m \in Nums : (\E u \in Threads : pc'[u] = "orphan" /\ loc'[u].num = m)
                      <=> (\E u \in Threads : pc[u] = "orphan" /\ loc[u].num = m)
  BY <1>u, <1>w, <1>1, Zenon
<1>l. ASSUME NEW x \in Names, dents[x] # NULL, x # a
      PROVE  dents[x] \in Nums /\ dents[x] # n /\ semtab[dents[x]] # NULL /\ obj[semtab[dents[x]]].linked
  BY <1>0, <1>u, <1>w, <1>l, SMTT(30) DEF FsInv, TableInv, LinkInv, DirHeld, StateType
<1>4. TableInv'
  BY <1>2, <1>3, <1>o, <1>w, SMTT(30) DEF FsInv, TableInv
<1>5. LinkInv'
  <2>1. ASSUME NEW x \in Names, dents[x] # NULL
        PROVE  \/ semtab[dents[x]] # NULL /\ obj'[semtab[dents[x]]].linked
               \/ \E u \in Threads : loc'[u].name = x /\ loc'[u].num = dents[x] /\ pc'[u] = "test"
    <3>1. CASE x = a
      BY <1>0, <1>1, <1>2, <1>w, <3>1, Zenon
    <3>2. CASE x # a
      BY <1>2, <1>3, <1>l, <1>w, <2>1, <3>2, Zenon
    <3> QED BY <3>1, <3>2, Zenon
  <2>2. \A x \in Objs : obj'[x].linked => obj'[x].live /\ \E y \in Names : dents[y] # NULL /\ semtab[dents[y]] = x
    BY <1>0, <1>2, <1>w DEF FsInv, LinkInv
  <2> QED BY <1>w, <2>1, <2>2, Zenon DEF LinkInv
<1>6. DirInv'
  <2>1. DirOf(t)'
    BY <1>1, <1>2, <1>w, Zenon DEF DirOf
  <2> QED BY <1>u, <2>1, Zenon DEF DirInv
<1>7. LiveInv'
  <2>1. \A u \in Threads : pc'[u] \in Using => semtab'[loc'[u].num] = loc'[u].sem
    BY <1>1, <1>u, <1>w DEF FsInv, LiveInv, Using
  <2>2. \A x \in Objs : obj'[x].live => \/ \E m \in Nums : semtab'[m] = x
                                        \/ \E u \in Threads : pc'[u] \in {"insert", "destroy"} /\ loc'[u].sem = x
    BY <1>u, <1>w, <1>2, SMTT(30) DEF FsInv, LiveInv
  <2>3. \A x \in Objs : ~obj'[x].live => obj'[x] = FreeObj
    BY <1>2 DEF FsInv, LiveInv
  <2>4. \A m \in Nums : semtab'[m] # NULL /\ vref'[m] = 0 =>
                 \/ \E x \in Names : dents'[x] = m
                 \/ \E u \in Threads : pc'[u] \in {"dent", "uninsert"} /\ loc'[u].num = m
    BY <1>u, <1>w, SMTT(30) DEF FsInv, LiveInv
  <2> QED BY <2>1, <2>2, <2>3, <2>4, Zenon DEF LiveInv, Using
<1> QED BY <1>4, <1>5, <1>6, <1>7, Zenon DEF FsInv

(* A structure that nobody has open is taken off the table. *)
LEMMA OffTableStep ==
  ASSUME Base, CountInv, FsInv, NEW t \in Threads, Step(t), Uninsert(t) \/ ClearEntry(t)
  PROVE  FsInv'
<1>0. StateType /\ NULL \notin Objs /\ NULL \notin Nums /\ DOMAIN loc = Threads
  BY SemfsAssumption, Zenon DEF Base, TypeInv, StateType, Loc, Obj
<1> DEFINE o == loc[t].sem  n == loc[t].num  a == loc[t].name
<1>w. /\ pc[t] \in {"uninsert", "clear"} /\ a \in Names /\ n \in Nums /\ o \in Objs
      /\ UNCHANGED <<dents, vref, fd, loc>> /\ DirOf(t) /\ semtab[n] = o /\ vref[n] = 0 /\ ~obj[o].linked
  BY Zenon DEF Base, CallInv, Call, Uninsert, ClearEntry, At, FsInv, DirInv, DirHeld, DirOf
<1>u. \A u \in Threads : u # t => pc'[u] = pc[u] /\ loc'[u] = loc[u] /\ fd'[u] = fd[u] /\ pc[u] \notin DirHeld /\ DirOf(u)'
  BY <1>w, DirOthers, Zenon DEF DirHeld
<1>1. \/ pc[t] = "uninsert" /\ pc'[t] = "unlock" /\ obj' = [obj EXCEPT ![o] = FreeObj]
      \/ pc[t] = "clear" /\ pc'[t] = "destroy" /\ obj' = obj
  BY Zenon DEF Uninsert, ClearEntry, Goto, At, Base, TypeInv
<1>2. /\ semtab'[n] = NULL /\ \A m \in Nums : m # n => semtab'[m] = semtab[m]
      /\ \A m \in Nums : semtab'[m] # o
      /\ \A m \in Nums : m # n /\ semtab[m] # NULL => semtab[m] \in Objs /\ semtab[m] # o
  BY <1>0, <1>w, SMTT(30) DEF Uninsert, ClearEntry, StateType, FsInv, TableInv
<1>3. /\ \A x \in Objs : x # o => obj'[x] = obj[x]
      /\ ~obj'[o].linked
      /\ pc'[t] = "unlock" => obj'[o] = FreeObj /\ ~obj'[o].live
      /\ pc'[t] = "destroy" => obj'[o].live
  <2>1. obj[o].live
    BY <1>0, <1>w, Zenon DEF FsInv, TableInv
  <2>2. CASE pc'[t] = "unlock"
    BY <1>0, <1>1, <1>w, <2>2 DEF StateType, FreeObj
  <2>3. CASE pc'[t] = "destroy"
    BY <1>1, <1>w, <2>1, <2>3, Zenon
  <2> QED BY <1>1, <2>2, <2>3, Zenon
<1>o. \A m \in Nums : (\E u \in Threads : pc'[u] = "orphan" /\ loc'[u].num = m)
                      <=> (\E u \in Threads : pc[u] = "orphan" /\ loc[u].num = m)
  BY <1>u, <1>w, <1>1, Zenon
<1>l. ASSUME NEW x \in Names, dents[x] # NULL
      PROVE  /\ dents[x] \in Nums
             /\ \/ dents[x] # n /\ semtab[dents[x]] # NULL /\ obj[semtab[dents[x]]].linked
                \/ x = a /\ dents[x] = n /\ pc[t] = "clear"
  <2>1. pc[t] = "clear" => dents[a] = n
    BY <1>w, Zenon DEF DirOf
  <2>2. pc[t] = "uninsert" => dents[x] # n
    BY <1>w, Zenon DEF DirOf
  <2>3. CASE pc[t] = "clear" /\ x # a
    BY <1>0, <1>l, <1>u, <1>w, <2>1, <2>3, SMTT(30) DEF FsInv, TableInv, LinkInv, DirHeld, StateType
  <2>4. CASE pc[t] = "uninsert"
    BY <1>0, <1>l, <1>u, <1>w, <2>2, <2>4, SMTT(30) DEF FsInv, LinkInv, DirHeld, StateType
  <2> QED BY <1>0, <1>l, <1>w, <2>1, <2>3, <2>4, Zenon DEF StateType
<1>4. TableInv'
  <2>0. ~(0 > 0)
    OBVIOUS
  <2>1. \A m \in Nums : vref'[m] > 0 => semtab'[m] # NULL
    BY <1>2, <1>w, <2>0 DEF FsInv, TableInv
  <2>2. \A m, k \in Nums : semtab'[m] = semtab'[k] /\ semtab'[m] # NULL => m = k
    <3>1. \A m, k \in Nums : semtab[m] = semtab[k] /\ semtab[m] # NULL => m = k
      BY Zenon DEF FsInv, TableInv
    <3>2. \A m \in Nums : semtab'[m] # NULL => semtab'[m] = semtab[m]
      BY <1>2, Zenon
    <3> QED BY <3>1, <3>2, Zenon
  <2>3. \A m \in Nums : semtab'[m] # NULL =>
          /\ semtab[m] # NULL /\ semtab'[m] = semtab[m] /\ obj'[semtab'[m]] = obj[semtab[m]]
    BY <1>2, <1>3, Zenon
  <2>4. \A m \in Nums : semtab'[m] # NULL =>
          /\ obj'[semtab'[m]].live
          /\ obj'[semtab'[m]].hasvnode
               <=> vref'[m] > 0 /\ ~\E u \in Threads : pc'[u] = "orphan" /\ loc'[u].num = m
    BY <1>o, <1>w, <2>3, Zenon DEF FsInv, TableInv
  <2> QED BY <1>w, <2>1, <2>2, <2>4, Zenon DEF FsInv, TableInv
<1>5. LinkInv'
  <2>1. ASSUME NEW x \in Names, dents[x] # NULL
        PROVE  \/ semtab'[dents[x]] # NULL /\ obj'[semtab'[dents[x]]].linked
               \/ \E u \in Threads : loc'[u].name = x /\ loc'[u].num = dents[x] /\ pc'[u] = "destroy"
    BY <1>1, <1>2, <1>3, <1>l, <1>w, <2>1
  <2>2. ASSUME NEW x \in Objs, obj'[x].linked
        PROVE  obj'[x].live /\ \E y \in Names : dents[y] # NULL /\ semtab'[dents[y]] = x
    <3>1. x # o /\ obj'[x] = obj[x]
      BY <1>3, <2>2, Zenon
    <3>2. obj[x].live /\ \E y \in Names : dents[y] # NULL /\ semtab[dents[y]] = x
      BY <2>2, <3>1, Zenon DEF FsInv, LinkInv
    <3> QED BY <1>2, <1>l, <1>w, <3>1, <3>2, Zenon
  <2> QED BY <1>w, <2>1, <2>2 DEF LinkInv
<1>6. DirInv'
  <2>1. DirOf(t)'
    BY <1>1, <1>2, <1>3, <1>w, Zenon DEF DirOf
  <2> QED BY <1>u, <2>1, Zenon DEF DirInv
<1>7. LiveInv'
  <2>1. ASSUME NEW u \in Threads, pc'[u] \in Using PROVE semtab'[loc'[u].num] = loc'[u].sem
    <3>1. u # t /\ pc[u] \in Using /\ loc'[u] = loc[u]
      BY <1>1, <1>u, <2>1, Zenon DEF Using
    <3>2. loc[u].num \in Nums /\ fd[u] = loc[u].num /\ semtab[loc[u].num] = loc[u].sem
      BY <3>1, Zenon DEF Base, CallInv, Call, Using, FsInv, LiveInv
    <3>3. loc[u].num # n
      BY <1>0, <1>w, <3>2, SMTT(30) DEF CountInv
    <3> QED BY <1>2, <3>1, <3>2, <3>3, Zenon
  <2>2. ASSUME NEW x \in Objs, obj'[x].live
        PROVE  \/ \E m \in Nums : semtab'[m] = x
               \/ \E u \in Threads : pc'[u] \in {"insert", "destroy"} /\ loc'[u].sem = x
    <3>1. CASE x = o
      BY <1>1, <1>3, <1>w, <2>2, <3>1, Zenon
    <3>2. CASE x # o
      <4>1. obj[x].live
        BY <1>3, <2>2, <3>2, Zenon
      <4>2. CASE \E m \in Nums : semtab[m] = x
        BY <1>2, <1>w, <3>2, <4>2, Zenon
      <4>3. CASE \E u \in Threads : pc[u] \in {"insert", "destroy"} /\ loc[u].sem = x
        BY <1>u, <1>w, <3>2, <4>3, Zenon
      <4> QED BY <4>1, <4>2, <4>3, Zenon DEF FsInv, LiveInv
    <3> QED BY <3>1, <3>2, Zenon
  <2>3. \A x \in Objs : ~obj'[x].live => obj'[x] = FreeObj
    BY <1>1, <1>3, Zenon DEF FsInv, LiveInv
  <2>4. ASSUME NEW m \in Nums, semtab'[m] # NULL, vref'[m] = 0
        PROVE  \/ \E x \in Names : dents'[x] = m
               \/ \E u \in Threads : pc'[u] \in {"dent", "uninsert"} /\ loc'[u].num = m
    <3>1. m # n /\ semtab[m] # NULL /\ vref[m] = 0 /\ dents' = dents
      BY <1>2, <1>w, <2>4, Zenon
    <3>2. CASE \E u \in Threads : pc[u] \in {"dent", "uninsert"} /\ loc[u].num = m
      BY <1>u, <3>1, <3>2, Zenon
    <3> QED BY <3>1, <3>2, Zenon DEF FsInv, LiveInv
  <2> QED BY <2>1, <2>2, <2>3, <2>4, Zenon DEF LiveInv, Using
<1> QED BY <1>4, <1>5, <1>6, <1>7, Zenon DEF FsInv

(* The structure is destroyed by semfs_remove, or left to semfs_reclaim; the *)
(* entry of the directory goes.                                              *)
LEMMA RemoveStep ==
  ASSUME Base, CountInv, FsInv, NEW t \in Threads, Step(t), RemoveDestroys(t)
  PROVE  FsInv'
<1>0. StateType /\ NULL \notin Objs /\ NULL \notin Nums /\ DOMAIN loc = Threads
  BY SemfsAssumption, Zenon DEF Base, TypeInv, StateType, Loc, Obj
<1> DEFINE o == loc[t].sem  n == loc[t].num  a == loc[t].name
<1>w. /\ pc[t] = "destroy" /\ pc'[t] = "undent" /\ a \in Names /\ n \in Nums /\ o \in Objs /\ dents[a] = n
      /\ UNCHANGED <<semtab, dents, vref, fd, loc>> /\ semtab[n] = NULL /\ (\A m \in Nums : semtab[m] # o)
      /\ obj' = [obj EXCEPT ![o] = FreeObj] /\ ~obj[o].linked
  BY DEF Base, TypeInv, CallInv, Call, RemoveDestroys, At, FsInv, DirInv, DirHeld, DirOf, Goto
<1>u. \A u \in Threads : u # t => pc'[u] = pc[u] /\ loc'[u] = loc[u] /\ fd'[u] = fd[u] /\ pc[u] \notin DirHeld /\ DirOf(u)'
  BY <1>w, DirOthers, Zenon DEF DirHeld
<1>1. /\ obj'[o] = FreeObj /\ ~FreeObj.live /\ ~FreeObj.linked
      /\ \A x \in Objs : x # o => obj'[x] = obj[x]
      /\ \A m \in Nums : semtab[m] # NULL => semtab[m] \in Objs /\ obj'[semtab[m]] = obj[semtab[m]]
  BY <1>0, <1>w, Zenon DEF StateType, FreeObj
<1>o. \A m \in Nums : (\E u \in Threads : pc'[u] = "orphan" /\ loc'[u].num = m)
                      <=> (\E u \in Threads : pc[u] = "orphan" /\ loc[u].num = m)
  BY <1>u, <1>w, Zenon
<1>2. TableInv'
  BY <1>1, <1>o, <1>w DEF FsInv, TableInv
<1>3. LinkInv'
  <2>1. ASSUME NEW x \in Names, dents[x] # NULL
        PROVE  \/ semtab[dents[x]] # NULL /\ obj'[semtab[dents[x]]].linked
               \/ \E u \in Threads : /\ loc'[u].name = x /\ loc'[u].num = dents[x]
                                     /\ \/ pc'[u] = "getvnode" /\ loc'[u].fresh
                                        \/ pc'[u] \in {"link", "test", "clear", "destroy", "undent"}
    <3>1. dents[x] \in Nums
      BY <1>0, <2>1, Zenon DEF StateType
    <3>2. CASE x = a
      BY <1>w, <3>2, Zenon
    <3>3. CASE x # a
      BY <1>1, <1>u, <1>w, <2>1, <3>1, <3>3 DEF FsInv, LinkInv, DirHeld
    <3> QED BY <3>2, <3>3, Zenon
  <2>2. \A x \in Objs : obj'[x].linked => obj'[x].live /\ \E y \in Names : dents[y] # NULL /\ semtab[dents[y]] = x
    BY <1>1, <1>w DEF FsInv, LinkInv
  <2>3. semtab' = semtab /\ dents' = dents
    BY <1>w, Zenon
  <2> QED BY <2>1, <2>2, <2>3, Zenon DEF LinkInv
<1>4. DirInv'
  <2>1. DirOf(t)'
    BY <1>w, Zenon DEF DirOf
  <2> QED BY <1>u, <2>1, Zenon DEF DirInv
<1>5. LiveInv'
  <2>1. \A u \in Threads : pc'[u] \in Using => semtab'[loc'[u].num] = loc'[u].sem
    BY <1>u, <1>w, Zenon DEF FsInv, LiveInv, Using
  <2>2. \A x \in Objs : obj'[x].live => \/ \E m \in Nums : semtab'[m] = x
                                        \/ \E u \in Threads : pc'[u] \in {"insert", "destroy"} /\ loc'[u].sem = x
    BY <1>1, <1>u, <1>w DEF FsInv, LiveInv
  <2>3. \A x \in Objs : ~obj'[x].live => obj'[x] = FreeObj
    BY <1>1, Zenon DEF FsInv, LiveInv
  <2>4. \A m \in Nums : semtab'[m] # NULL /\ vref'[m] = 0 =>
                 \/ \E x \in Names : dents'[x] = m
                 \/ \E u \in Threads : pc'[u] \in {"dent", "uninsert"} /\ loc'[u].num = m
    BY <1>u, <1>w DEF FsInv, LiveInv
  <2> QED BY <2>1, <2>2, <2>3, <2>4, Zenon DEF LiveInv, Using
<1> QED BY <1>2, <1>3, <1>4, <1>5, Zenon DEF FsInv

(* semfs_remove takes the name back. *)
LEMMA UndentStep ==
  ASSUME Base, CountInv, FsInv, NEW t \in Threads, Step(t), RemoveEntry(t)
  PROVE  FsInv'
<1>0. StateType /\ NULL \notin Objs /\ NULL \notin Nums /\ DOMAIN loc = Threads
  BY SemfsAssumption, Zenon DEF Base, TypeInv, StateType, Loc, Obj
<1> DEFINE n == loc[t].num  a == loc[t].name
<1>w. /\ pc[t] = "undent" /\ pc'[t] = "idle" /\ a \in Names /\ n \in Nums /\ dents[a] = n
      /\ UNCHANGED <<semtab, obj, vref, fd>> /\ dents' = [dents EXCEPT ![a] = NULL]
      /\ (semtab[n] # NULL => vref[n] > 0 /\ ~obj[semtab[n]].linked)
  BY Zenon DEF Base, TypeInv, CallInv, Call, RemoveEntry, At, FsInv, DirInv, DirHeld, DirOf, Done, Goto
<1>u. \A u \in Threads : u # t => pc'[u] = pc[u] /\ loc'[u] = loc[u] /\ fd'[u] = fd[u] /\ pc[u] \notin DirHeld /\ DirOf(u)'
  BY <1>w, DirOthers, Zenon DEF DirHeld
<1>1. dents'[a] = NULL /\ \A x \in Names : x # a => dents'[x] = dents[x]
  BY <1>0, <1>w, Zenon DEF StateType
<1>o. \A m \in Nums : (\E u \in Threads : pc'[u] = "orphan" /\ loc'[u].num = m)
                      <=> (\E u \in Threads : pc[u] = "orphan" /\ loc[u].num = m)
  BY <1>u, <1>w, Zenon
<1>2. TableInv'
  <2>1. \A x, y \in Names : dents'[x] = dents'[y] /\ dents'[x] # NULL => x = y
    <3>1. \A x, y \in Names : dents[x] = dents[y] /\ dents[x] # NULL => x = y
      BY Zenon DEF FsInv, TableInv
    <3> QED BY <1>1, <3>1, Zenon
  <2>2. semtab' = semtab /\ vref' = vref /\ obj' = obj
    BY <1>w, Zenon
  <2>3. \A m \in Nums : semtab'[m] # NULL =>
          /\ obj'[semtab'[m]].live
          /\ obj'[semtab'[m]].hasvnode
               <=> vref'[m] > 0 /\ ~\E u \in Threads : pc'[u] = "orphan" /\ loc'[u].num = m
    BY <1>o, <2>2, Zenon DEF FsInv, TableInv
  <2> QED BY <2>1, <2>2, <2>3, Zenon DEF FsInv, TableInv
<1>3. LinkInv'
  <2>1. \A x \in Names : dents'[x] # NULL => semtab[dents'[x]] # NULL /\ obj[semtab[dents'[x]]].linked
    BY <1>1, <1>u, <1>w, SMTT(30) DEF FsInv, LinkInv, DirHeld
  <2>2. ASSUME NEW x \in Objs, obj[x].linked
        PROVE  obj[x].live /\ \E y \in Names : dents'[y] # NULL /\ semtab[dents'[y]] = x
    <3>1. PICK y \in Names : dents[y] # NULL /\ semtab[dents[y]] = x
      BY <2>2, Zenon DEF FsInv, LinkInv
    <3>2. y # a
      BY <1>0, <1>w, <2>2, <3>1, Zenon
    <3> QED BY <1>1, <2>2, <3>1, <3>2, Zenon DEF FsInv, LinkInv
  <2> QED BY <1>w, <2>1, <2>2, Zenon DEF LinkInv
<1>4. DirInv'
  <2>1. DirOf(t)'
    BY <1>w, Zenon DEF DirOf
  <2> QED BY <1>u, <2>1, Zenon DEF DirInv
<1>5. LiveInv'
  <2>1. ASSUME NEW u \in Threads, pc'[u] \in Using
        PROVE  semtab'[loc'[u].num] = loc'[u].sem
    <3>1. u # t /\ semtab' = semtab
      BY <1>w, <2>1, Zenon DEF Using
    <3>2. pc[u] \in Using /\ loc'[u] = loc[u]
      BY <1>u, <2>1, <3>1, Zenon
    <3>3. \A v \in Threads : pc[v] \in {"read", "consume", "write", "truncate"} => semtab[loc[v].num] = loc[v].sem
      BY Zenon DEF FsInv, LiveInv
    <3> QED BY <3>1, <3>2, <3>3, Zenon DEF Using
  <2>2. \A x \in Objs : obj'[x].live => \/ \E m \in Nums : semtab'[m] = x
                                        \/ \E u \in Threads : pc'[u] \in {"insert", "destroy"} /\ loc'[u].sem = x
    BY <1>u, <1>w DEF FsInv, LiveInv
  <2>3. \A x \in Objs : ~obj'[x].live => obj'[x] = FreeObj
    BY <1>w, Zenon DEF FsInv, LiveInv
  <2>4. ASSUME NEW m \in Nums, semtab'[m] # NULL, vref'[m] = 0
        PROVE  \/ \E x \in Names : dents'[x] = m
               \/ \E u \in Threads : pc'[u] \in {"dent", "uninsert"} /\ loc'[u].num = m
    <3>1. m # n
      BY <1>w, <2>4
    <3> QED BY <1>1, <1>u, <1>w, <2>4, <3>1 DEF FsInv, LiveInv
  <2> QED BY <2>1, <2>2, <2>3, <2>4, Zenon DEF LiveInv, Using
<1> QED BY <1>2, <1>3, <1>4, <1>5, Zenon DEF FsInv

(* semfs_reclaim, beside whoever has the directory. *)
LEMMA ClearStep ==
  ASSUME Base, CountInv, FsInv, NEW t \in Threads, Step(t), ClearHasVnode(t)
  PROVE  FsInv'
<1>0. StateType /\ NULL \notin Objs /\ NULL \notin Nums
  BY SemfsAssumption, Zenon DEF Base, TypeInv, StateType, Loc, Obj
<1> DEFINE n == loc[t].num  s == semtab[loc[t].num]
<1>w. /\ pc[t] = "noVnode" /\ pc'[t] = "orphan" /\ n \in Nums /\ s # NULL
      /\ UNCHANGED <<semtab, dents, vref, fd, loc>> /\ obj' = [obj EXCEPT ![s].hasvnode = FALSE]
  BY Zenon DEF Base, TypeInv, CallInv, Call, ClearHasVnode, At, Goto
<1>u. \A u \in Threads : u # t => pc'[u] = pc[u]
  BY OthersStay, Zenon DEF Base
<1>1. s \in Objs /\ obj[s].live /\ obj[s] \in Obj
  BY <1>0, <1>w DEF StateType, FsInv, TableInv
<1>2. /\ ~obj'[s].hasvnode /\ \A x \in Objs : obj'[x].live = obj[x].live /\ obj'[x].linked = obj[x].linked
      /\ \A x \in Objs : x # s => obj'[x] = obj[x]
  <2>1. obj'[s] = [obj[s] EXCEPT !.hasvnode = FALSE] /\ \A x \in Objs : x # s => obj'[x] = obj[x]
    BY <1>0, <1>1, <1>w, Zenon DEF StateType
  <2> QED BY <1>1, <2>1, Zenon DEF Obj
<1>3. \A m \in Nums : semtab[m] # NULL => semtab[m] \in Objs /\ (semtab[m] = s => m = n)
  BY <1>0, <1>w DEF StateType, FsInv, TableInv
<1>4. TableInv'
  <2>1. ASSUME NEW m \in Nums, semtab[m] # NULL
        PROVE  obj'[semtab[m]].hasvnode <=> vref[m] > 0 /\ ~\E u \in Threads : pc'[u] = "orphan" /\ loc[u].num = m
    <3>1. CASE m = n
      BY <1>2, <1>w, <3>1, Zenon
    <3>2. CASE m # n
      <4>1. obj'[semtab[m]] = obj[semtab[m]]
        BY <1>2, <1>3, <2>1, <3>2, Zenon
      <4>2. (\E u \in Threads : pc'[u] = "orphan" /\ loc[u].num = m) <=> (\E u \in Threads : pc[u] = "orphan" /\ loc[u].num = m)
        BY <1>u, <1>w, <3>2, Zenon
      <4> QED BY <2>1, <4>1, <4>2, Zenon DEF FsInv, TableInv
    <3> QED BY <3>1, <3>2, Zenon
  <2>2. \A m \in Nums : semtab[m] # NULL => obj'[semtab[m]].live
    BY <1>2, <1>3, Zenon DEF FsInv, TableInv
  <2> QED BY <1>w, <2>1, <2>2, Zenon DEF FsInv, TableInv
<1>5. LinkInv'
  <2>1. ASSUME NEW a \in Names, dents[a] # NULL
        PROVE  \/ semtab[dents[a]] # NULL /\ obj'[semtab[dents[a]]].linked
               \/ \E u \in Threads : /\ loc[u].name = a /\ loc[u].num = dents[a]
                                     /\ \/ pc'[u] = "getvnode" /\ loc[u].fresh
                                        \/ pc'[u] \in {"link", "test", "clear", "destroy", "undent"}
    <3>1. dents[a] \in Nums
      BY <1>0, <2>1, Zenon DEF StateType
    <3>2. CASE semtab[dents[a]] # NULL /\ obj[semtab[dents[a]]].linked
      BY <1>2, <1>3, <3>1, <3>2, Zenon
    <3>3. CASE \E u \in Threads : /\ loc[u].name = a /\ loc[u].num = dents[a]
                                  /\ \/ pc[u] = "getvnode" /\ loc[u].fresh
                                     \/ pc[u] \in {"link", "test", "clear", "destroy", "undent"}
      BY <1>u, <1>w, <3>3, Zenon
    <3> QED BY <2>1, <3>2, <3>3, Zenon DEF FsInv, LinkInv
  <2>2. \A x \in Objs : obj'[x].linked => obj'[x].live /\ \E y \in Names : dents[y] # NULL /\ semtab[dents[y]] = x
    BY <1>2, Zenon DEF FsInv, LinkInv
  <2> QED BY <1>w, <2>1, <2>2, Zenon DEF LinkInv
<1>6. DirInv'
  <2>1. ASSUME NEW u \in Threads PROVE DirOf(u)'
    <3>1. CASE u = t
      BY <1>w, <3>1, Zenon DEF DirOf
    <3>2. CASE u # t
      <4>1. DirOf(u) /\ Call(u) /\ pc'[u] = pc[u]
        BY <1>u, <3>2, Zenon DEF FsInv, DirInv, Base, CallInv
      <4>2. pc[u] = "insert" => obj'[loc[u].sem] = obj[loc[u].sem]
        BY <1>2, <1>w, <4>1, Zenon DEF DirOf, Call
      <4>3. pc[u] = "undent" /\ semtab[loc[u].num] # NULL => semtab[loc[u].num] \in Objs
        BY <1>3, <4>1, Zenon DEF Call
      <4> QED BY <1>2, <1>w, <4>1, <4>2, <4>3, ZenonT(30) DEF DirOf, Call
    <3> QED BY <3>1, <3>2, Zenon
  <2> QED BY <2>1, Zenon DEF DirInv
<1>7. LiveInv'
  <2>1. \A u \in Threads : pc'[u] \in Using => semtab'[loc'[u].num] = loc'[u].sem
    BY <1>u, <1>w, Zenon DEF FsInv, LiveInv, Using
  <2>2. \A x \in Objs : obj'[x].live => \/ \E m \in Nums : semtab'[m] = x
                                        \/ \E u \in Threads : pc'[u] \in {"insert", "destroy"} /\ loc'[u].sem = x
    BY <1>2, <1>u, <1>w DEF FsInv, LiveInv
  <2>3. \A x \in Objs : ~obj'[x].live => obj'[x] = FreeObj
    BY <1>1, <1>2, Zenon DEF FsInv, LiveInv
  <2>4. \A m \in Nums : semtab'[m] # NULL /\ vref'[m] = 0 =>
                 \/ \E x \in Names : dents'[x] = m
                 \/ \E u \in Threads : pc'[u] \in {"dent", "uninsert"} /\ loc'[u].num = m
    BY <1>u, <1>w DEF FsInv, LiveInv
  <2> QED BY <2>1, <2>2, <2>3, <2>4, Zenon DEF LiveInv, Using
<1> QED BY <1>4, <1>5, <1>6, <1>7, Zenon DEF FsInv

(* semfs_reclaim, the second part: an orphan is destroyed. *)
LEMMA ReclaimStep ==
  ASSUME Base, CountInv, FsInv, NoRemoveRace, NEW t \in Threads, Step(t), ReclaimDestroys(t)
  PROVE  FsInv'
<1>0. StateType /\ NULL \notin Objs /\ NULL \notin Nums
  BY SemfsAssumption, Zenon DEF Base, TypeInv, StateType, Loc, Obj
<1> DEFINE n == loc[t].num  s == semtab[loc[t].num]
<1>w. /\ pc[t] = "orphan" /\ pc'[t] = "idle" /\ n \in Nums
      /\ UNCHANGED <<dents, fd>> /\ vref' = [vref EXCEPT ![n] = 0]
      /\ IF obj[s].linked THEN UNCHANGED <<obj, semtab>>
         ELSE obj' = [obj EXCEPT ![s] = FreeObj] /\ semtab' = [semtab EXCEPT ![n] = NULL]
  BY Zenon DEF Base, TypeInv, CallInv, Call, ReclaimDestroys, At, Done, Goto, Orphaned
<1>u. \A u \in Threads : u # t => pc'[u] = pc[u] /\ loc'[u] = loc[u] /\ fd'[u] = fd[u]
  BY OthersStay, Zenon DEF Base
<1>1. vref[n] = 1 /\ s # NULL /\ s \in Objs
  BY <1>0, <1>w DEF StateType, FsInv, TableInv, CountInv, LastInv, TableHeld
<1>2. vref'[n] = 0 /\ \A m \in Nums : m # n => vref'[m] = vref[m]
  BY <1>0, <1>w, Zenon DEF StateType
<1>3. \A m \in Nums : semtab[m] # NULL => semtab[m] \in Objs /\ (semtab[m] = s => m = n)
  BY <1>0, <1>w, <1>1 DEF StateType, FsInv, TableInv
<1>4. \A u \in Threads : fd[u] # n /\ (u # t => pc[u] # "orphan")
  BY <1>w, Alone, Zenon DEF CountInv, TableHeld
<1>5. ~obj[s].hasvnode /\ \A u \in Threads : pc'[u] # "orphan"
  BY <1>1, <1>4, <1>u, <1>w DEF FsInv, TableInv
<1>s. \A m \in Nums : m # n => semtab'[m] = semtab[m]
  BY <1>0, <1>w, Zenon DEF StateType
<1>x. \A x \in Objs : x # s => obj'[x] = obj[x]
  BY <1>0, <1>w, Zenon DEF StateType
<1>y. /\ obj[s].linked => obj'[s] = obj[s] /\ semtab'[n] = s
      /\ ~obj[s].linked => obj'[s] = FreeObj /\ semtab'[n] = NULL
      /\ ~FreeObj.live /\ ~FreeObj.linked
  BY <1>0, <1>1, <1>w, Zenon DEF StateType, FreeObj
<1>6. TableInv'
  <2>1. \A m, k \in Nums : semtab'[m] = semtab'[k] /\ semtab'[m] # NULL => m = k
    BY <1>1, <1>3, <1>s, <1>y, SMTT(30) DEF FsInv, TableInv
  <2>2. ASSUME NEW m \in Nums, semtab'[m] # NULL
        PROVE  /\ obj'[semtab'[m]].live
               /\ obj'[semtab'[m]].hasvnode <=> vref'[m] > 0
    <3>1. CASE m = n
      BY <1>1, <1>2, <1>5, <1>w, <1>y, <2>2, <3>1, SMTT(30) DEF FsInv, TableInv
    <3>2. CASE m # n
      <4>1. semtab[m] # NULL /\ semtab'[m] = semtab[m] /\ semtab[m] # s /\ obj'[semtab[m]] = obj[semtab[m]]
        BY <1>3, <1>s, <1>x, <2>2, <3>2, Zenon
      <4>2. ~\E u \in Threads : pc[u] = "orphan" /\ loc[u].num = m
        BY <1>4, <3>2, Zenon
      <4> QED BY <1>2, <3>2, <4>1, <4>2, Zenon DEF FsInv, TableInv
    <3> QED BY <3>1, <3>2, Zenon
  <2>3. \A m \in Nums : vref'[m] > 0 => semtab'[m] # NULL
    BY <1>2, <1>s, SMTT(30) DEF FsInv, TableInv
  <2> QED BY <1>5, <1>w, <2>1, <2>2, <2>3, Zenon DEF FsInv, TableInv
<1>7. LinkInv'
  <2>1. ASSUME NEW a \in Names, dents[a] # NULL
        PROVE  \/ semtab'[dents[a]] # NULL /\ obj'[semtab'[dents[a]]].linked
               \/ \E u \in Threads : /\ loc'[u].name = a /\ loc'[u].num = dents[a]
                                     /\ \/ pc'[u] = "getvnode" /\ loc'[u].fresh
                                        \/ pc'[u] \in {"link", "test", "clear", "destroy", "undent"}
    <3>1. dents[a] \in Nums
      BY <1>0, <2>1, Zenon DEF StateType
    <3>2. CASE semtab[dents[a]] # NULL /\ obj[semtab[dents[a]]].linked
      BY <1>1, <1>3, <1>s, <1>x, <1>y, <3>1, <3>2
    <3>3. CASE \E u \in Threads : /\ loc[u].name = a /\ loc[u].num = dents[a]
                                  /\ \/ pc[u] = "getvnode" /\ loc[u].fresh
                                     \/ pc[u] \in {"link", "test", "clear", "destroy", "undent"}
      BY <1>u, <1>w, <3>3, Zenon
    <3> QED BY <2>1, <3>2, <3>3, Zenon DEF FsInv, LinkInv
  <2>2. ASSUME NEW x \in Objs, obj'[x].linked
        PROVE  obj'[x].live /\ \E a \in Names : dents[a] # NULL /\ semtab'[dents[a]] = x
    <3>1. obj'[x] = obj[x] /\ (x = s => semtab'[n] = s)
      BY <1>x, <1>y, <2>2, Zenon
    <3>2. PICK a \in Names : dents[a] # NULL /\ semtab[dents[a]] = x
      BY <2>2, <3>1, Zenon DEF FsInv, LinkInv
    <3>3. dents[a] \in Nums /\ semtab'[dents[a]] = x
      BY <1>0, <1>s, <3>1, <3>2, Zenon DEF StateType
    <3> QED BY <2>2, <3>1, <3>2, <3>3, Zenon DEF FsInv, LinkInv
  <2> QED BY <1>w, <2>1, <2>2, Zenon DEF LinkInv
<1>8. DirInv'
  <2>1. ASSUME NEW u \in Threads PROVE DirOf(u)'
    <3>1. CASE u = t
      BY <1>w, <3>1, Zenon DEF DirOf
    <3>2. CASE u # t
      <4>1. DirOf(u) /\ Call(u) /\ pc'[u] = pc[u] /\ loc'[u] = loc[u] /\ fd'[u] = fd[u]
        BY <1>u, <3>2, Zenon DEF FsInv, DirInv, Base, CallInv
      <4> DEFINE m == loc[u].num  o == loc[u].sem  a == loc[u].name
      <4>2. pc[u] = "insert" => DirOf(u)'
        <5>1. SUFFICES ASSUME pc[u] = "insert" PROVE DirOf(u)'
          BY Zenon
        <5>2. o \in Objs /\ o # s /\ \A k \in Nums : semtab'[k] # o
          <6>1. o \in Objs /\ \A k \in Nums : semtab[k] # o
            BY <4>1, <5>1, Zenon DEF DirOf, Call
          <6> QED BY <1>0, <1>s, <1>w, <1>y, <6>1, Zenon
        <5> QED BY <1>w, <1>x, <4>1, <5>1, <5>2, Zenon DEF DirOf
      <4>3. pc[u] \in {"dent", "uninsert", "clear", "link", "lock"} \/ (pc[u] = "getvnode" /\ loc[u].fresh) => DirOf(u)'
        <5>1. SUFFICES ASSUME pc[u] \in {"dent", "uninsert", "clear", "link", "lock"} \/ (pc[u] = "getvnode" /\ loc[u].fresh)
                       PROVE  DirOf(u)'
          BY Zenon
        <5>2. m \in Nums /\ o \in Objs /\ semtab[m] = o /\ (pc[u] # "link" /\ pc[u] # "lock" => vref[m] = 0)
              /\ (pc[u] = "link" => fd[u] = m)
          BY <4>1, <5>1, Zenon DEF DirOf, Call
        <5>3. pc[u] = "lock" => obj[semtab[m]].linked
          <6>1. pc[u] = "lock" => a \in Names /\ dents[a] = m
            BY <4>1, Zenon DEF DirOf, Call, DirHeld
          <6>2. pc[u] = "lock" => ~\E v \in Threads : /\ loc[v].name = a /\ loc[v].num = dents[a]
                                                      /\ \/ pc[v] = "getvnode" /\ loc[v].fresh
                                                         \/ pc[v] \in {"link", "test", "clear", "destroy", "undent"}
            BY Alone, Zenon DEF DirHeld
          <6>3. \A x \in Names : dents[x] # NULL =>
                  \/ semtab[dents[x]] # NULL /\ obj[semtab[dents[x]]].linked
                  \/ \E v \in Threads : /\ loc[v].name = x /\ loc[v].num = dents[x]
                                        /\ \/ pc[v] = "getvnode" /\ loc[v].fresh
                                           \/ pc[v] \in {"link", "test", "clear", "destroy", "undent"}
            BY Zenon DEF FsInv, LinkInv
          <6>4. m # NULL
            BY <1>0, <5>2, Zenon
          <6> QED BY <6>1, <6>2, <6>3, <6>4, Zenon
        <5>4. m # n \/ (pc[u] = "lock" /\ obj[s].linked)
          BY <1>1, <1>4, <5>1, <5>2, <5>3
        <5>5. semtab'[m] = o /\ obj'[o] = obj[o] /\ (pc[u] # "lock" => vref'[m] = vref[m])
          BY <1>0, <1>2, <1>3, <1>s, <1>x, <1>y, <5>2, <5>4, Zenon
        <5> QED BY <1>w, <4>1, <5>1, <5>5, Zenon DEF DirOf
      <4>4. pc[u] = "test" => DirOf(u)'
        <5>1. SUFFICES ASSUME pc[u] = "test" PROVE DirOf(u)'
          BY Zenon
        <5>2. m \in Nums /\ o \in Objs /\ semtab[m] = o
          BY <4>1, <5>1, Zenon DEF DirOf, Call
        <5>3. o # s /\ m # n
          BY <1>w, <5>1, <5>2, Zenon DEF NoRemoveRace
        <5>4. semtab'[m] = o /\ obj'[o] = obj[o]
          BY <1>s, <1>x, <5>2, <5>3, Zenon
        <5> QED BY <1>w, <4>1, <5>1, <5>4, Zenon DEF DirOf
      <4>5. pc[u] = "destroy" => DirOf(u)'
        <5>1. SUFFICES ASSUME pc[u] = "destroy" PROVE DirOf(u)'
          BY Zenon
        <5>2. m \in Nums /\ o \in Objs /\ semtab[m] = NULL /\ o # s /\ m # n /\ \A k \in Nums : semtab'[k] # o
          <6>1. m \in Nums /\ o \in Objs /\ semtab[m] = NULL /\ \A k \in Nums : semtab[k] # o
            BY <4>1, <5>1, Zenon DEF DirOf, Call
          <6>2. o # s /\ m # n
            BY <1>1, <1>w, <6>1, Zenon
          <6>3. \A k \in Nums : semtab'[k] # o
            BY <1>0, <1>s, <1>y, <6>1, <6>2, Zenon
          <6> QED BY <6>1, <6>2, <6>3, Zenon
        <5>3. semtab'[m] = NULL /\ obj'[o] = obj[o] /\ vref'[m] = vref[m]
          BY <1>2, <1>s, <1>x, <5>2, Zenon
        <5> QED BY <1>w, <4>1, <5>1, <5>2, <5>3, Zenon DEF DirOf
      <4>6. pc[u] = "undent" => DirOf(u)'
        <5>1. SUFFICES ASSUME pc[u] = "undent" PROVE DirOf(u)'
          BY Zenon
        <5>2. m \in Nums /\ dents[a] = m
          BY <4>1, <5>1, Zenon DEF DirOf, Call
        <5>3. ASSUME semtab'[m] # NULL PROVE vref'[m] > 0 /\ ~obj'[semtab'[m]].linked
          <6>1. m # n
            BY <1>1, <1>y, <4>1, <5>1, <5>3, Zenon DEF DirOf
          <6>2. semtab'[m] = semtab[m] /\ vref'[m] = vref[m] /\ obj'[semtab[m]] = obj[semtab[m]]
            BY <1>2, <1>3, <1>s, <1>x, <5>2, <5>3, <6>1, Zenon
          <6> QED BY <4>1, <5>1, <5>3, <6>2, Zenon DEF DirOf
        <5> QED BY <1>w, <4>1, <5>1, <5>2, <5>3, Zenon DEF DirOf
      <4>7. pc[u] = "getsem" \/ (pc[u] = "getvnode" /\ ~loc[u].fresh) => DirOf(u)'
        BY <1>w, <4>1, Zenon DEF DirOf
      <4>8. pc[u] \notin {"insert", "dent", "uninsert", "clear", "link", "lock", "getvnode", "test", "destroy", "undent",
                          "getsem"} => DirOf(u)'
        BY <4>1, Zenon DEF DirOf
      <4> QED BY <4>2, <4>3, <4>4, <4>5, <4>6, <4>7, <4>8, Zenon
    <3> QED BY <3>1, <3>2, Zenon
  <2> QED BY <2>1, Zenon DEF DirInv
<1>9. LiveInv'
  <2>1. ASSUME NEW u \in Threads, pc'[u] \in Using PROVE semtab'[loc'[u].num] = loc'[u].sem
    <3>1. u # t /\ pc[u] \in Using /\ loc'[u] = loc[u]
      BY <1>u, <1>w, <2>1, Zenon DEF Using
    <3>2. loc[u].num \in Nums /\ fd[u] = loc[u].num /\ semtab[loc[u].num] = loc[u].sem
      BY <3>1, Zenon DEF Base, CallInv, Call, Using, FsInv, LiveInv
    <3> QED BY <1>4, <1>s, <3>1, <3>2, Zenon
  <2>2. ASSUME NEW x \in Objs, obj'[x].live
        PROVE  \/ \E m \in Nums : semtab'[m] = x
               \/ \E u \in Threads : pc'[u] \in {"insert", "destroy"} /\ loc'[u].sem = x
    <3>1. CASE x = s
      BY <1>w, <1>y, <2>2, <3>1, Zenon
    <3>2. CASE x # s
      <4>1. obj[x].live
        BY <1>x, <2>2, <3>2, Zenon
      <4>2. CASE \E m \in Nums : semtab[m] = x
        BY <1>s, <3>2, <4>2, Zenon
      <4>3. CASE \E u \in Threads : pc[u] \in {"insert", "destroy"} /\ loc[u].sem = x
        BY <1>u, <1>w, <4>3, Zenon
      <4> QED BY <4>1, <4>2, <4>3, Zenon DEF FsInv, LiveInv
    <3> QED BY <3>1, <3>2, Zenon
  <2>3. \A x \in Objs : ~obj'[x].live => obj'[x] = FreeObj
    BY <1>x, <1>y, SMTT(30) DEF FsInv, LiveInv
  <2>4. ASSUME NEW m \in Nums, semtab'[m] # NULL, vref'[m] = 0
        PROVE  \/ \E x \in Names : dents'[x] = m
               \/ \E u \in Threads : pc'[u] \in {"dent", "uninsert"} /\ loc'[u].num = m
    <3>1. CASE m = n
      <4>1. obj[s].linked
        BY <1>y, <2>4, <3>1, Zenon
      <4>2. PICK a \in Names : dents[a] # NULL /\ semtab[dents[a]] = s
        BY <1>1, <4>1, Zenon DEF FsInv, LinkInv
      <4>3. dents[a] = n
        BY <1>0, <1>1, <1>3, <4>2, Zenon DEF StateType
      <4> QED BY <1>w, <3>1, <4>3, Zenon
    <3>2. CASE m # n
      <4>1. semtab[m] # NULL /\ vref[m] = 0
        BY <1>2, <1>s, <2>4, <3>2, Zenon
      <4>2. CASE \E x \in Names : dents[x] = m
        BY <1>w, <4>2, Zenon
      <4>3. CASE \E u \in Threads : pc[u] \in {"dent", "uninsert"} /\ loc[u].num = m
        BY <1>u, <1>w, <4>3, Zenon
      <4> QED BY <4>1, <4>2, <4>3, Zenon DEF FsInv, LiveInv
    <3> QED BY <3>1, <3>2, Zenon
  <2> QED BY <2>1, <2>2, <2>3, <2>4, Zenon DEF LiveInv, Using
<1> QED BY <1>6, <1>7, <1>8, <1>9, Zenon DEF FsInv

(* Together, and where semfs_remove does not run between the decision of     *)
(* semfs_reclaim and its end, the table, the directory and the structures    *)
(* agree.                                                                    *)
LEMMA FsStep ==
  ASSUME LowestExists, Base, CountInv, FsInv, NoRemoveRace, Base', [Next]_vars
  PROVE  FsInv'
<1>1. ASSUME NEW t \in Threads, Step(t) PROVE FsInv'
  <2>0. StateType'
    BY Zenon DEF Base, TypeInv, StateType, Loc, Obj
  <2>1. CASE Search(t) /\ pc'[t] = "insert"
    BY <1>1, <2>1, MakeStep, Zenon
  <2>2. CASE semfs_sem_insert(t)
    BY <1>1, <2>2, InsertStep, Zenon
  <2>3. CASE AddEntry(t)
    BY <1>1, <2>3, EntryStep, Zenon
  <2>4. CASE semfs_getvnode(t) /\ vref[loc[t].num] = 0 /\ (loc[t].fresh \/ vref' # vref)
    BY <1>1, <2>4, GetvnodeStep, Zenon
  <2>5. CASE SetLinked(t) \/ Unlink(t)
    BY <1>1, <2>5, LinkedStep, Zenon
  <2>6. CASE Uninsert(t) \/ ClearEntry(t)
    BY <1>1, <2>6, OffTableStep, Zenon
  <2>7. CASE RemoveDestroys(t)
    BY <1>1, <2>7, RemoveStep, Zenon
  <2>8. CASE RemoveEntry(t)
    BY <1>1, <2>8, UndentStep, Zenon
  <2>9. CASE ClearHasVnode(t)
    BY <1>1, <2>9, ClearStep, Zenon
  <2>10. CASE ReclaimDestroys(t)
    BY <1>1, <2>10, ReclaimStep, Zenon
  <2>11. CASE \/ Block(t) \/ Begin(t) \/ (Search(t) /\ pc'[t] # "insert") \/ FindEntry(t) \/ semfs_getsem(t)
              \/ UnlockDir(t) \/ TestVnode(t) \/ vnode_decref(t) \/ semfs_reclaim(t) \/ ReadLock(t) \/ Consume(t)
              \/ semfs_write(t) \/ semfs_truncate(t)
              \/ (semfs_getvnode(t) /\ (vref[loc[t].num] # 0 \/ (~loc[t].fresh /\ vref' = vref)))
    <3>1. Quiet(t)
      BY <1>1, <2>11, QuietActions, Zenon
    <3> QED BY <1>1, <2>0, <3>1, QuietStep, Zenon
  <2> QED BY <1>1, <2>1, <2>2, <2>3, <2>4, <2>5, <2>6, <2>7, <2>8, <2>9, <2>10, <2>11, Zenon DEF Step
<1>2. CASE UNCHANGED vars
  <2>1. UNCHANGED <<semtab, obj, dents, vref, fd, pc, loc>>
    BY <1>2, Zenon DEF vars, fsvars
  <2>2. TableInv'
    BY <2>1, Zenon DEF FsInv, TableInv
  <2>3. LinkInv'
    BY <2>1, Zenon DEF FsInv, LinkInv
  <2>4. DirInv'
    BY <2>1, Zenon DEF FsInv, DirInv, DirOf
  <2>5. LiveInv'
    BY <2>1, Zenon DEF FsInv, LiveInv
  <2> QED BY <2>2, <2>3, <2>4, <2>5, Zenon DEF FsInv
<1> QED BY <1>1, <1>2, Zenon DEF Next
================================================================================

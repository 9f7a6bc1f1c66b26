-------------------------------- MODULE Semfs --------------------------------
(* The semaphore file system of kern/fs/semfs: threads that open, close,     *)
(* read, write, truncate and remove named semaphores through their vnodes,   *)
(* with the reference counts of kern/vfs/vnode.c and the locks and condition *)
(* variables of Synch.  The directory is a function from names; a vnode is   *)
(* known by its semaphore number.  A step ends where a lock is taken or      *)
(* given up, and between two accesses to sems_linked and sems_hasvnode, which *)
(* no common lock protects.                                                  *)
EXTENDS Synch, Integers, FiniteSets, FiniteSetsExt

CONSTANTS
  Threads, Names,
  Nums,        \* semaphore numbers
  Objs,        \* semaphore structures; a freed one may be reused
  UMOD,        \* 2^32: counts are unsigned
  Amounts,     \* bytes in one read or write
  Lengths,     \* lengths of a truncate
  Readers,     \* the threads that read
  NoMem        \* where memory may run out: subset of {"sem", "dent", "vnode"}

ASSUME SemfsAssumption ==
  /\ IsFiniteSet(Threads) /\ Nums \subseteq Nat /\ UMOD \in Nat \ {0}
  /\ Amounts \subseteq 0 .. UMOD - 1 /\ Lengths \subseteq 0 .. UMOD - 1
  /\ NULL \notin Threads /\ NULL \notin Names /\ NULL \notin Nums
  /\ {NULL, "dir", "table"} \cap Objs = {} /\ NULL \notin {"dir", "table"}

VARIABLES
  semtab,  \* semfs_sems: number -> structure or NULL
  obj,     \* the structures
  dents,   \* semfs_dents: name -> number or NULL
  vref,    \* vn_refcount of the vnode of each number, 0 when there is none
  fd,      \* the vnode each thread has open, by number
  pc, loc

fsvars == <<semtab, obj, dents, vref, fd>>
vars == <<syncvars, fsvars, pc, loc>>

Locks == {"dir", "table"} \cup Objs
FreeObj == [live |-> FALSE, count |-> 0, hasvnode |-> FALSE, linked |-> FALSE]
Idle == [name |-> NULL, num |-> NULL, sem |-> NULL, amount |-> 0, fresh |-> FALSE, lost |-> FALSE]

Labels == {"idle", "creat", "lookup", "insert", "dent", "getvnode", "link", "uninsert", "lost",
           "remove", "getsem", "lock", "unlink", "test", "clear", "destroy", "undent", "unlock",
           "decref", "reclaim", "noVnode", "orphan", "rsem", "read", "consume", "wsem", "write",
           "tsem", "truncate"}

TypeOK ==
  /\ owner \in [Locks -> Threads \cup {NULL}]
  /\ \A l \in Locks : lkq[l] \in Seq(Threads)
  /\ \A o \in Objs : cvq[o] \in Seq(Threads) /\ obj[o].count \in 0 .. UMOD - 1
  /\ semtab \in [Nums -> Objs \cup {NULL}] /\ dents \in [Names -> Nums \cup {NULL}]
  /\ vref \in [Nums -> 0 .. 2 * Cardinality(Threads)]
  /\ fd \in [Threads -> Nums \cup {NULL}] /\ pc \in [Threads -> Labels]

Init ==
  /\ owner = [l \in Locks |-> NULL] /\ lkq = [l \in Locks |-> <<>>] /\ cvq = [o \in Objs |-> <<>>]
  /\ semtab = [n \in Nums |-> NULL] /\ obj = [o \in Objs |-> FreeObj]
  /\ dents = [n \in Names |-> NULL] /\ vref = [n \in Nums |-> 0]
  /\ fd = [t \in Threads |-> NULL]
  /\ pc = [t \in Threads |-> "idle"] /\ loc = [t \in Threads |-> Idle]

(* The lock that the code at a label is about to take. *)
LockAt(l, sem) ==
  CASE l \in {"creat", "lookup", "remove"} -> "dir"
    [] l \in {"insert", "getvnode", "uninsert", "getsem", "clear", "reclaim", "rsem", "wsem", "tsem"} -> "table"
    [] l \in {"lock", "read", "write", "truncate"} -> sem
    [] OTHER -> NULL

(* In the mutant semfs_reclaim takes dirlock too, with the table locked. *)
WantsForReclaim(t) == IF pc[t] = "noVnode" THEN "dir" ELSE LockAt(pc[t], loc[t].sem)

Wants(t) == LockAt(pc[t], loc[t].sem)

Take(t) == lock_acquire(t, Wants(t))
Locked(t) == Section(t, Wants(t)) /\ UNCHANGED cvq

Goto(t, l) == pc' = [pc EXCEPT ![t] = l]
At(t, l) == pc[t] = l /\ ~Asleep(t)
Done(t) == Goto(t, "idle") /\ loc' = [loc EXCEPT ![t] = Idle]

(* lock_acquire goes to sleep, in any of the places that take a lock. *)
Block(t) ==
  /\ Wants(t) # NULL /\ ~Asleep(t)
  /\ LockSleep(t, Wants(t))
  /\ UNCHANGED <<fsvars, pc, loc>>
------------------------------------------------------------------------------
(* A call begins.  The kernel calls the file operations on an open vnode.    *)
Begin(t) ==
  /\ At(t, "idle")
  /\ \/ \E n \in Names, op \in {"creat", "lookup", "remove"} :
          /\ op = "remove" \/ fd[t] = NULL
          /\ Goto(t, op) /\ loc' = [loc EXCEPT ![t].name = n]
     \/ \E a \in Amounts \cup Lengths, op \in {"rsem", "wsem", "tsem"} :
          /\ fd[t] # NULL /\ (op = "rsem" => t \in Readers)
          /\ IF op = "tsem" THEN a \in Lengths ELSE a \in Amounts
          /\ Goto(t, op) /\ loc' = [loc EXCEPT ![t].num = fd[t], ![t].amount = a]
     \/ /\ fd[t] # NULL
        /\ Goto(t, "decref") /\ loc' = [loc EXCEPT ![t].num = fd[t]]
  /\ UNCHANGED <<syncvars, fsvars>>

(* semfs_creat and semfs_lookup: find the name with the directory locked;    *)
(* semfs_creat makes a structure when there is none.                         *)
Search(t) ==
  LET num == dents[loc[t].name] IN
  /\ At(t, "creat") \/ At(t, "lookup")
  /\ Take(t)
  /\ \/ /\ num # NULL
        /\ Goto(t, "getvnode") /\ loc' = [loc EXCEPT ![t].num = num]
        /\ UNCHANGED obj
     \/ /\ \/ num # NULL /\ pc[t] = "creat"      \* O_EXCL
           \/ num = NULL /\ (pc[t] = "lookup" \/ "sem" \in NoMem \/ \A o \in Objs : obj[o].live)
        /\ Goto(t, "unlock") /\ UNCHANGED <<obj, loc>>
     \/ /\ num = NULL /\ pc[t] = "creat"
        /\ \E o \in Objs :
             /\ ~obj[o].live
             /\ obj' = [obj EXCEPT ![o] = [FreeObj EXCEPT !.live = TRUE]]
             /\ loc' = [loc EXCEPT ![t].sem = o, ![t].fresh = TRUE]
        /\ Goto(t, "insert")
  /\ UNCHANGED <<semtab, dents, vref, fd>>

(* semfs_sem_insert: the lowest free number; ENOSPC when there is none. *)
semfs_sem_insert(t) ==
  LET unused == {n \in Nums : semtab[n] = NULL}
      num == Min(unused)
  IN
  /\ At(t, "insert")
  /\ Locked(t)
  /\ \/ /\ unused # {}
        /\ semtab' = [semtab EXCEPT ![num] = loc[t].sem]
        /\ loc' = [loc EXCEPT ![t].num = num]
        /\ Goto(t, "dent") /\ UNCHANGED obj
     \/ /\ "sem" \in NoMem \/ unused = {}
        /\ obj' = [obj EXCEPT ![loc[t].sem] = FreeObj]
        /\ Goto(t, "unlock") /\ UNCHANGED <<semtab, loc>>
  /\ UNCHANGED <<dents, vref, fd>>

(* The directory entry.  When there is no memory for the entry itself, not   *)
(* for the array, semfs_creat returns its result, still 0, with no vnode.    *)
AddEntry(t) ==
  /\ At(t, "dent")
  /\ \/ /\ dents' = [dents EXCEPT ![loc[t].name] = loc[t].num]
        /\ Goto(t, "getvnode") /\ UNCHANGED loc
     \/ /\ "dent" \in NoMem
        /\ \E nodent \in BOOLEAN : loc' = [loc EXCEPT ![t].lost = nodent]
        /\ Goto(t, "uninsert") /\ UNCHANGED dents
  /\ UNCHANGED <<syncvars, semtab, obj, vref, fd>>

(* VOP_INCREF on the vnode found.  The mutant forgets it. *)
NoIncref(num) == 1

Incref(num) == vref[num] + 1

(* semfs_getvnode: another reference, or a new vnode. *)
semfs_getvnode(t) ==
  LET num == loc[t].num  new == vref[num] = 0 IN
  /\ At(t, "getvnode")
  /\ Locked(t)
  /\ \/ /\ new => semtab[num] # NULL      \* KASSERT
        /\ vref' = [vref EXCEPT ![num] = Incref(num)]
        /\ obj' = IF new THEN [obj EXCEPT ![semtab[num]].hasvnode = TRUE] ELSE obj
        /\ fd' = [fd EXCEPT ![t] = num]
        /\ Goto(t, IF loc[t].fresh THEN "link" ELSE "unlock")
        /\ UNCHANGED dents
     \/ /\ new /\ "vnode" \in NoMem
        /\ Goto(t, IF loc[t].fresh THEN "uninsert" ELSE "unlock")
        /\ dents' = IF loc[t].fresh THEN [dents EXCEPT ![loc[t].name] = NULL] ELSE dents
        /\ UNCHANGED <<vref, obj, fd>>
  /\ UNCHANGED <<semtab, loc>>

SetLinked(t) ==
  /\ At(t, "link")
  /\ obj' = [obj EXCEPT ![loc[t].sem].linked = TRUE]
  /\ lock_release(t, "dir")
  /\ Done(t)
  /\ UNCHANGED <<semtab, dents, vref, fd>>

(* The failures of semfs_creat: off the table, then destroyed. *)
Uninsert(t) ==
  /\ At(t, "uninsert")
  /\ Locked(t)
  /\ semtab' = [semtab EXCEPT ![loc[t].num] = NULL]
  /\ obj' = [obj EXCEPT ![loc[t].sem] = FreeObj]
  /\ Goto(t, "unlock")
  /\ UNCHANGED <<dents, vref, fd, loc>>

(* Back to the caller.  After a 0 without a vnode vfs_open uses an undefined *)
(* pointer: the thread is lost.                                              *)
UnlockDir(t) ==
  /\ At(t, "unlock")
  /\ lock_release(t, "dir")
  /\ IF loc[t].lost THEN Goto(t, "lost") /\ UNCHANGED loc ELSE Done(t)
  /\ UNCHANGED fsvars
------------------------------------------------------------------------------
(* semfs_remove: the entry, then its structure, then sems_lock. *)
FindEntry(t) ==
  LET num == dents[loc[t].name] IN
  /\ At(t, "remove")
  /\ Take(t)
  /\ Goto(t, IF num = NULL THEN "unlock" ELSE "getsem")
  /\ loc' = [loc EXCEPT ![t].num = num]
  /\ UNCHANGED fsvars

(* semfs_getsem, for semfs_remove and for the operations on an open vnode.   *)
(* The caller takes the lock of what it returns: NULL would end in a panic.  *)
semfs_getsem(t) ==
  LET next == [getsem |-> "lock", rsem |-> "read", wsem |-> "write", tsem |-> "truncate"] IN
  /\ pc[t] \in DOMAIN next /\ ~Asleep(t)
  /\ Locked(t)
  /\ semtab[loc[t].num] # NULL
  /\ loc' = [loc EXCEPT ![t].sem = semtab[loc[t].num]]
  /\ Goto(t, next[pc[t]])
  /\ UNCHANGED fsvars

Unlink(t) ==
  /\ At(t, "lock")
  /\ Take(t)
  /\ obj' = [obj EXCEPT ![loc[t].sem].linked = FALSE]
  /\ Goto(t, "test")
  /\ UNCHANGED <<semtab, dents, vref, fd, loc>>

TestVnode(t) ==
  /\ At(t, "test")
  /\ IF obj[loc[t].sem].hasvnode
       THEN lock_release(t, loc[t].sem) /\ Goto(t, "undent")
       ELSE Goto(t, "clear") /\ UNCHANGED syncvars
  /\ UNCHANGED <<fsvars, loc>>

ClearEntry(t) ==
  /\ At(t, "clear")
  /\ Locked(t)
  /\ semtab' = [semtab EXCEPT ![loc[t].num] = NULL]
  /\ Goto(t, "destroy")
  /\ UNCHANGED <<obj, dents, vref, fd, loc>>

(* lock_release and semfs_sem_destroy. *)
RemoveDestroys(t) ==
  /\ At(t, "destroy")
  /\ lock_release(t, loc[t].sem)
  /\ obj' = [obj EXCEPT ![loc[t].sem] = FreeObj]
  /\ Goto(t, "undent")
  /\ UNCHANGED <<semtab, dents, vref, fd, loc>>

RemoveEntry(t) ==
  /\ At(t, "undent")
  /\ dents' = [dents EXCEPT ![loc[t].name] = NULL]
  /\ lock_release(t, "dir")
  /\ Done(t)
  /\ UNCHANGED <<semtab, obj, vref, fd>>
------------------------------------------------------------------------------
(* vnode_decref: the last reference is handed to semfs_reclaim. *)
vnode_decref(t) ==
  /\ At(t, "decref")
  /\ fd' = [fd EXCEPT ![t] = NULL]
  /\ IF vref[loc[t].num] > 1
       THEN vref' = [vref EXCEPT ![loc[t].num] = @ - 1] /\ Done(t)
       ELSE Goto(t, "reclaim") /\ UNCHANGED <<vref, loc>>
  /\ UNCHANGED <<syncvars, semtab, obj, dents>>

(* The count is looked at again once the table is locked.  The mutant trusts *)
(* the decision of vnode_decref.                                             *)
StillUsedNever(num) == FALSE

StillUsed(num) == vref[num] > 1

semfs_reclaim(t) ==
  LET num == loc[t].num IN
  /\ At(t, "reclaim")
  /\ IF StillUsed(num)
       THEN /\ Locked(t)
            /\ vref' = [vref EXCEPT ![num] = @ - 1]
            /\ Done(t)
       ELSE /\ Take(t)
            /\ Goto(t, "noVnode")
            /\ UNCHANGED <<vref, loc>>
  /\ UNCHANGED <<semtab, obj, dents, fd>>

ClearHasVnode(t) ==
  /\ At(t, "noVnode") /\ semtab[loc[t].num] # NULL
  /\ obj' = [obj EXCEPT ![semtab[loc[t].num]].hasvnode = FALSE]
  /\ Goto(t, "orphan")
  /\ UNCHANGED <<syncvars, semtab, dents, vref, fd, loc>>

(* Whether semfs_reclaim destroys the structure.  The mutant leaves it to    *)
(* semfs_remove.                                                             *)
OrphanedNever(o) == FALSE

Orphaned(o) == ~obj[o].linked

ReclaimDestroys(t) ==
  LET num == loc[t].num IN
  /\ At(t, "orphan")
  /\ IF Orphaned(semtab[num])
       THEN /\ obj' = [obj EXCEPT ![semtab[num]] = FreeObj]
            /\ semtab' = [semtab EXCEPT ![num] = NULL]
       ELSE UNCHANGED <<obj, semtab>>
  /\ vref' = [vref EXCEPT ![num] = 0]
  /\ lock_release(t, "table")
  /\ Done(t)
  /\ UNCHANGED <<dents, fd>>
------------------------------------------------------------------------------
(* semfs_read, with sems_lock: take what there is, sleep for the rest.       *)
ReadLock(t) ==
  /\ At(t, "read")
  /\ Take(t)
  /\ Goto(t, "consume")
  /\ UNCHANGED <<fsvars, loc>>

(* How much one round of semfs_read takes. *)
TakeUpTo(amount, count) == Min({amount, count})

Consume(t) ==
  LET o == loc[t].sem
      n == TakeUpTo(loc[t].amount, obj[o].count)
  IN
  /\ At(t, "consume")
  /\ obj' = [obj EXCEPT ![o].count = @ - n]
  /\ IF n = loc[t].amount
       THEN lock_release(t, o) /\ Done(t)
       ELSE /\ cv_wait(t, o, o)
            /\ loc' = [loc EXCEPT ![t].amount = @ - n]
            /\ Goto(t, "read")
  /\ UNCHANGED <<semtab, dents, vref, fd>>

(* semfs_wakeup, before the count changes.  In the mutant it comes after. *)
WakeupLate(o, newcount) == UNCHANGED cvq

semfs_wakeup(o, newcount) ==
  IF obj[o].count > 0 \/ newcount = 0 THEN UNCHANGED cvq
  ELSE IF newcount = 1 THEN cv_signal(o) ELSE cv_broadcast(o)

(* semfs_write: EFBIG when the count would wrap. *)
semfs_write(t) ==
  LET o == loc[t].sem
      newcount == (obj[o].count + loc[t].amount) % UMOD
  IN
  /\ At(t, "write")
  /\ Section(t, Wants(t))
  /\ IF newcount < obj[o].count
       THEN UNCHANGED <<cvq, obj>>
       ELSE semfs_wakeup(o, newcount) /\ obj' = [obj EXCEPT ![o].count = newcount]
  /\ Done(t)
  /\ UNCHANGED <<semtab, dents, vref, fd>>

semfs_truncate(t) ==
  LET o == loc[t].sem IN
  /\ At(t, "truncate")
  /\ Section(t, Wants(t))
  /\ semfs_wakeup(o, loc[t].amount)
  /\ obj' = [obj EXCEPT ![o].count = loc[t].amount]
  /\ Done(t)
  /\ UNCHANGED <<semtab, dents, vref, fd>>
------------------------------------------------------------------------------
Step(t) ==
  \/ Block(t) \/ Begin(t) \/ Search(t) \/ semfs_sem_insert(t) \/ AddEntry(t) \/ semfs_getvnode(t)
  \/ SetLinked(t) \/ Uninsert(t) \/ UnlockDir(t)
  \/ FindEntry(t) \/ semfs_getsem(t) \/ Unlink(t) \/ TestVnode(t) \/ ClearEntry(t)
  \/ RemoveDestroys(t) \/ RemoveEntry(t)
  \/ vnode_decref(t) \/ semfs_reclaim(t) \/ ClearHasVnode(t) \/ ReclaimDestroys(t)
  \/ ReadLock(t) \/ Consume(t) \/ semfs_write(t) \/ semfs_truncate(t)

Next == \E t \in Threads : Step(t)
Spec == Init /\ [][Next]_vars
------------------------------------------------------------------------------
(* The structure a thread has in hand, having looked it up or made it. *)
InHand(t) ==
  IF pc[t] \in {"insert", "dent", "getvnode", "link", "uninsert", "lock", "test", "clear", "destroy",
               "read", "consume", "write", "truncate"} THEN loc[t].sem
  ELSE IF pc[t] \in {"reclaim", "noVnode", "orphan"} THEN semtab[loc[t].num] ELSE NULL

(* A semaphore structure is destroyed once, by the later of semfs_remove and *)
(* semfs_reclaim, and by nobody while a thread is using it, has its vnode    *)
(* open, holds or waits for its lock, or sleeps on its condition variable.   *)
SemsAlive ==
  /\ \A t \in Threads : InHand(t) # NULL => obj[InHand(t)].live
  /\ \A n \in Nums : semtab[n] # NULL => obj[semtab[n]].live
  /\ \A n \in Nums : vref[n] > 0 => semtab[n] # NULL
  /\ \A o \in Objs : ~obj[o].live => owner[o] = NULL /\ lkq[o] = <<>> /\ cvq[o] = <<>>

(* No semaphore structure is leaked: one that is neither in the directory    *)
(* nor open is in the hands of a thread that is creating or destroying it.   *)
NoLeak == \A o \in Objs : obj[o].live =>
  \/ \E n \in Names : dents[n] # NULL /\ semtab[dents[n]] = o
  \/ \E n \in Nums : semtab[n] = o /\ vref[n] > 0
  \/ \E t \in Threads : InHand(t) = o

(* The reference count of a vnode is the number of threads that have it open *)
(* plus the reference that vnode_decref passed to semfs_reclaim, although    *)
(* the count is tested before the table is locked.                           *)
RefsExact == \A n \in Nums :
  vref[n] = Cardinality({t \in Threads : fd[t] = n})
            + Cardinality({t \in Threads : pc[t] \in {"reclaim", "noVnode", "orphan"} /\ loc[t].num = n})

(* No reader sleeps over a positive count unless another reader, awake, is   *)
(* on its way to it: semfs_write and semfs_truncate wake before they count.  *)
ReadersServed == \A o \in Objs : cvq[o] # <<>> /\ obj[o].count > 0 =>
  \E t \in Threads : pc[t] \in {"read", "consume"} /\ loc[t].sem = o /\ t \notin Range(cvq[o])

(* A lock that is free while threads sleep on it is on the way to one of     *)
(* them or to a newcomer: lock_release never leaves all of them asleep.      *)
LockHandedOn == \A l \in Locks : owner[l] = NULL /\ lkq[l] # <<>> =>
  \E t \in Threads : Wants(t) = l /\ ~Asleep(t)

(* The thread that t cannot go on without. *)
WaitsFor(t) == IF Wants(t) # NULL /\ Asleep(t) THEN owner[Wants(t)] ELSE NULL

(* No circle of lock owners waiting for one another: dirlock is taken before *)
(* sems_lock and sems_lock before tablelock.                                 *)
NoLockCycle ==
  LET Follow(S) == {WaitsFor(t) : t \in S} \ {NULL} IN
  \A t \in Threads : /\ t \notin Follow({t}) /\ t \notin Follow(Follow({t}))
                     /\ t \notin Follow(Follow(Follow({t})))

------------------------------------------------------------------------------
(* What the proofs rest on.  Labels at which a thread holds dirlock, a       *)
(* sems_lock or tablelock.                                                   *)
DirHeld == {"insert", "dent", "getvnode", "link", "uninsert", "getsem", "lock", "test", "clear",
            "destroy", "undent", "unlock"}
SemHeld == {"test", "clear", "destroy", "consume"}
TableHeld == {"noVnode", "orphan"}

TypeInv ==
  /\ owner \in [Locks -> Threads \cup {NULL}]
  /\ lkq \in [Locks -> Seq(Threads)] /\ cvq \in [Objs -> Seq(Threads)]
  /\ semtab \in [Nums -> Objs \cup {NULL}] /\ dents \in [Names -> Nums \cup {NULL}]
  /\ obj \in [Objs -> [live : BOOLEAN, count : 0 .. UMOD - 1, hasvnode : BOOLEAN, linked : BOOLEAN]]
  /\ vref \in [Nums -> Nat] /\ fd \in [Threads -> Nums \cup {NULL}] /\ pc \in [Threads -> Labels]
  /\ loc \in [Threads -> [name : Names \cup {NULL}, num : Nums \cup {NULL}, sem : Objs \cup {NULL},
                          amount : 0 .. UMOD - 1, fresh : BOOLEAN, lost : BOOLEAN]]

(* What a call knows of its arguments and results so far. *)
Call(t) ==
  /\ pc[t] \in {"creat", "lookup", "remove"} \cup (DirHeld \ {"unlock"}) => loc[t].name \in Names
  /\ pc[t] \in {"dent", "getvnode", "link", "uninsert", "getsem", "lock", "test", "clear", "destroy", "undent"}
       => loc[t].num \in Nums
  /\ pc[t] \in {"insert", "dent", "link", "uninsert"} => loc[t].fresh
  /\ pc[t] = "idle" => loc[t] = Idle
  /\ pc[t] \in {"creat", "lookup", "remove"} => ~loc[t].fresh /\ loc[t].sem = NULL
  /\ pc[t] = "getvnode" /\ ~loc[t].fresh => loc[t].sem = NULL
  /\ pc[t] \in {"insert", "dent", "link", "uninsert", "lock", "test", "clear", "destroy",
               "read", "consume", "write", "truncate"} => loc[t].sem \in Objs
  /\ pc[t] = "getvnode" /\ loc[t].fresh => loc[t].sem \in Objs
  /\ pc[t] \in {"creat", "lookup", "insert", "dent", "getvnode", "uninsert"} => fd[t] = NULL
  /\ pc[t] \in {"decref", "rsem", "wsem", "tsem", "read", "consume", "write", "truncate"}
       => loc[t].num \in Nums /\ fd[t] = loc[t].num
  /\ pc[t] \in {"reclaim", "noVnode", "orphan"} => loc[t].num \in Nums /\ fd[t] = NULL

CallInv == \A t \in Threads : Call(t)

(* Who holds which lock follows from where threads are, and so does where    *)
(* they sleep.                                                               *)
Holds(t) ==
  /\ owner["dir"] = t <=> pc[t] \in DirHeld
  /\ owner["table"] = t <=> pc[t] \in TableHeld
  /\ pc[t] \in SemHeld => owner[loc[t].sem] = t
  /\ \A o \in Objs : owner[o] = t => pc[t] \in SemHeld /\ loc[t].sem = o

Sleeps(t) ==
  /\ \A l \in Locks : t \in Range(lkq[l]) => Wants(t) = l
  /\ \A o \in Objs : t \in Range(cvq[o]) => pc[t] = "read" /\ loc[t].sem = o

LockInv == \A t \in Threads : Holds(t) /\ Sleeps(t)

(* The last reference: nobody else can get to the vnode. *)
LastInv == \A t \in Threads : pc[t] \in TableHeld => vref[loc[t].num] = 1

(* The table and the directory name each structure once. *)
TableInv ==
  /\ \A n, m \in Nums : semtab[n] = semtab[m] /\ semtab[n] # NULL => n = m
  /\ \A a, b \in Names : dents[a] = dents[b] /\ dents[a] # NULL => a = b
  /\ \A n \in Nums : semtab[n] # NULL => obj[semtab[n]].live
  /\ \A n \in Nums : vref[n] > 0 => semtab[n] # NULL
  /\ \A n \in Nums : semtab[n] # NULL =>
       (obj[semtab[n]].hasvnode <=> vref[n] > 0 /\ ~\E t \in Threads : pc[t] = "orphan" /\ loc[t].num = n)

(* A name leads to a structure that is marked as linked, but for the one     *)
(* that the holder of dirlock is adding or taking away; and the other way.   *)
LinkInv ==
  /\ \A a \in Names : dents[a] # NULL =>
       \/ semtab[dents[a]] # NULL /\ obj[semtab[dents[a]]].linked
       \/ \E t \in Threads : /\ loc[t].name = a /\ loc[t].num = dents[a]
                            /\ \/ pc[t] = "getvnode" /\ loc[t].fresh
                               \/ pc[t] \in {"link", "test", "clear", "destroy", "undent"}
  /\ \A o \in Objs : obj[o].linked => obj[o].live /\ \E a \in Names : dents[a] # NULL /\ semtab[dents[a]] = o

(* What the holder of dirlock knows of the structure it works on. *)
DirOf(t) ==
  LET n == loc[t].num  o == loc[t].sem  a == loc[t].name IN
  /\ pc[t] = "insert" =>
       /\ obj[o].live /\ ~obj[o].hasvnode /\ ~obj[o].linked /\ dents[a] = NULL
       /\ \A m \in Nums : semtab[m] # o
  /\ pc[t] \in {"dent", "uninsert"} =>
       /\ semtab[n] = o /\ ~obj[o].linked /\ vref[n] = 0
       /\ dents[a] = NULL /\ \A x \in Names : dents[x] # n
  /\ pc[t] \in {"getvnode", "link", "getsem", "lock", "test", "clear", "destroy", "undent"} => dents[a] = n
  /\ pc[t] = "getvnode" /\ loc[t].fresh => semtab[n] = o /\ ~obj[o].linked /\ vref[n] = 0
  /\ pc[t] = "link" => semtab[n] = o /\ ~obj[o].linked /\ fd[t] = n
  /\ pc[t] \in {"lock", "test", "clear"} => semtab[n] = o
  /\ pc[t] \in {"test", "clear", "destroy"} => ~obj[o].linked
  /\ pc[t] \in {"clear", "destroy"} => vref[n] = 0
  /\ pc[t] = "destroy" => semtab[n] = NULL /\ obj[o].live /\ \A m \in Nums : semtab[m] # o
  /\ pc[t] = "undent" /\ semtab[n] # NULL => vref[n] > 0 /\ ~obj[semtab[n]].linked

DirInv == \A t \in Threads : DirOf(t)

(* An open semaphore stays in the table; a live structure is in the table,   *)
(* or on its way in or out; one that nobody has open has a name or is being  *)
(* made.                                                                     *)
LiveInv ==
  /\ \A t \in Threads : pc[t] \in {"read", "consume", "write", "truncate"} => semtab[loc[t].num] = loc[t].sem
  /\ \A o \in Objs : obj[o].live =>
       \/ \E n \in Nums : semtab[n] = o
       \/ \E t \in Threads : pc[t] \in {"insert", "destroy"} /\ loc[t].sem = o
  /\ \A o \in Objs : ~obj[o].live => obj[o] = FreeObj
  /\ \A n \in Nums : semtab[n] # NULL /\ vref[n] = 0 =>
       \/ \E a \in Names : dents[a] = n
       \/ \E t \in Threads : pc[t] \in {"dent", "uninsert"} /\ loc[t].num = n

(* With one reader: it sleeps alone, over a count of zero. *)
ReaderInv ==
  /\ \A t \in Threads : pc[t] \in {"rsem", "read", "consume"} => t \in Readers
  /\ \A o \in Objs : cvq[o] # <<>> => Len(cvq[o]) = 1 /\ obj[o].count = 0

(* semfs_creat and semfs_lookup that return 0 deliver a vnode. *)
OpensDeliver == \A t \in Threads : pc[t] # "lost"

(* The executions in which semfs_remove does not run between the decision of *)
(* semfs_reclaim and its end, on one semaphore.                              *)
NoRemoveRace == \A t, u \in Threads :
  ~(pc[t] \in {"noVnode", "orphan"} /\ pc[u] = "test" /\ loc[u].sem = semtab[loc[t].num])
==============================================================================

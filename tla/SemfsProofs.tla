------------------------------ MODULE SemfsProofs ------------------------------
(* The locks of semfs are taken in one order; the references of its vnodes    *)
(* are counted exactly; no semaphore is destroyed in use or left behind; and   *)
(* a single reader of each semaphore is served.                                *)
EXTENDS SemfsStepProofs, FiniteSetTheorems, NaturalsInduction, WellFoundedInduction

(* A nonempty set of naturals has a least element. *)
LEMMA LeastNat ==
  ASSUME NEW S \in SUBSET Nat, S # {}
  PROVE  \E f \in S : \A g \in S : f <= g
<1> DEFINE R == {ss \in Nat \X Nat : ss[1] < ss[2]}
<1>1. IsWellFoundedOn(R, Nat)
  BY NatLessThanWellFounded, Zenon DEF OpToRel
<1>2. \A x, y \in Nat : y < x => <<y, x>> \in R
  OBVIOUS
<1> HIDE DEF R
<1>3. PICK x \in S : \A y \in S : ~(<<y, x>> \in R)
  BY <1>1, WFMin, Zenon
<1>4. ASSUME NEW y \in S PROVE x <= y
  <2>1. x \in Nat /\ y \in Nat
    OBVIOUS
  <2>2. ~(y < x)
    BY <1>2, <1>3, <2>1, Zenon
  <2> QED BY <2>1, <2>2
<1> QED BY <1>4

(* semfs_sem_insert finds the lowest free number: there is one. *)
LEMMA LeastNumber == LowestExists
<1> SUFFICES ASSUME NEW S \in SUBSET Nat, S # {} PROVE Min(S) \in S
  BY Zenon DEF LowestExists
<1>1. \E x \in S : \A y \in S : x =< y
  BY LeastNat, Zenon
<1> QED BY <1>1, Zenon DEF Min

(* wchan_wakeone takes threads off a queue only. *)
LEMMA WakeOne ==
  ASSUME NEW S, NEW q \in Seq(S)
  PROVE  /\ wchan_wakeone(q) \in Seq(S)
         /\ Range(wchan_wakeone(q)) \subseteq Range(q)
<1>1. CASE q = <<>>
  BY <1>1, Zenon DEF wchan_wakeone
<1>2. CASE q # <<>>
  <2>1. wchan_wakeone(q) = Tail(q)
    BY <1>2, Zenon DEF wchan_wakeone
  <2>2. Tail(q) \in Seq(S) /\ Len(Tail(q)) = Len(q) - 1 /\ \A i \in 1 .. Len(Tail(q)) : Tail(q)[i] = q[i + 1]
    BY <1>2
  <2>3. Len(q) \in Nat /\ DOMAIN q = 1 .. Len(q) /\ DOMAIN Tail(q) = 1 .. Len(Tail(q))
    BY <2>2
  <2> QED BY <2>1, <2>2, <2>3 DEF Range
<1> QED BY <1>1, <1>2, Zenon

(* Somebody waits in a queue that is not empty. *)
LEMMA FirstWaits ==
  ASSUME NEW S, NEW q \in Seq(S), q # <<>>
  PROVE  \E x \in S : x \in Range(q)
<1>1. Len(q) \in Nat /\ DOMAIN q = 1 .. Len(q) /\ Len(q) # 0
  OBVIOUS
<1>2. 1 \in DOMAIN q /\ q[1] \in S
  BY <1>1
<1> QED BY <1>2, Zenon DEF Range

(* Going to sleep adds the thread to the queue. *)
LEMMA RangeAppend ==
  ASSUME NEW S, NEW q \in Seq(S), NEW x \in S
  PROVE  Append(q, x) \in Seq(S) /\ Range(Append(q, x)) = Range(q) \cup {x}
<1>1. /\ Append(q, x) \in Seq(S) /\ Len(Append(q, x)) = Len(q) + 1
      /\ \A i \in 1 .. Len(q) : Append(q, x)[i] = q[i]
      /\ Append(q, x)[Len(q) + 1] = x
  OBVIOUS
<1>2. Len(q) \in Nat /\ DOMAIN q = 1 .. Len(q) /\ DOMAIN Append(q, x) = 1 .. Len(q) + 1
  BY <1>1
<1> QED BY <1>1, <1>2 DEF Range
------------------------------------------------------------------------------
(* The types of the locks, the queues and the records. *)
SyncType ==
  /\ owner \in [Locks -> Threads \cup {NULL}]
  /\ lkq \in [Locks -> Seq(Threads)] /\ cvq \in [Objs -> Seq(Threads)]

(* The operations of Synch keep the types of locks and queues. *)
LEMMA SyncTypes ==
  ASSUME SyncType, NEW t \in Threads
  PROVE  /\ UNCHANGED syncvars => SyncType'
         /\ \A l \in Locks : lock_acquire(t, l) => SyncType'
         /\ \A l \in Locks : LockSleep(t, l) => SyncType'
         /\ \A l \in Locks : lock_release(t, l) => SyncType'
         /\ \A l \in Locks : Released(l) /\ UNCHANGED cvq => SyncType'
         /\ \A l \in Locks, v \in Objs : Released(l) /\ cv_signal(v) => SyncType'
         /\ \A l \in Locks, v \in Objs : Released(l) /\ cv_broadcast(v) => SyncType'
         /\ \A l \in Locks, v \in Objs : cv_wait(t, v, l) => SyncType'
<1>1. UNCHANGED syncvars => SyncType'
  BY Zenon DEF SyncType, syncvars
<1>2. ASSUME NEW l \in Locks, lock_acquire(t, l) PROVE SyncType'
  BY <1>2, Zenon DEF SyncType, lock_acquire
<1>3. ASSUME NEW l \in Locks, LockSleep(t, l) PROVE SyncType'
  <2>1. Append(lkq[l], t) \in Seq(Threads)
    BY RangeAppend, Zenon DEF SyncType
  <2> QED BY <1>3, <2>1, Zenon DEF SyncType, LockSleep
<1>4. ASSUME NEW l \in Locks, Released(l)
      PROVE  owner' \in [Locks -> Threads \cup {NULL}] /\ lkq' \in [Locks -> Seq(Threads)]
  <2>1. wchan_wakeone(lkq[l]) \in Seq(Threads)
    BY WakeOne, Zenon DEF SyncType
  <2> QED BY <1>4, <2>1, Zenon DEF SyncType, Released
<1>5. ASSUME NEW v \in Objs, cv_signal(v) PROVE cvq' \in [Objs -> Seq(Threads)]
  <2>1. wchan_wakeone(cvq[v]) \in Seq(Threads)
    BY WakeOne, Zenon DEF SyncType
  <2> QED BY <1>5, <2>1, Zenon DEF SyncType, cv_signal
<1>6. ASSUME NEW v \in Objs, cv_broadcast(v) PROVE cvq' \in [Objs -> Seq(Threads)]
  <2>1. <<>> \in Seq(Threads)
    OBVIOUS
  <2> QED BY <1>6, <2>1, Zenon DEF SyncType, cv_broadcast
<1>7. ASSUME NEW l \in Locks, NEW v \in Objs, cv_wait(t, v, l) PROVE SyncType'
  <2>1. Append(cvq[v], t) \in Seq(Threads)
    BY RangeAppend, Zenon DEF SyncType
  <2>2. cvq' \in [Objs -> Seq(Threads)]
    BY <1>7, <2>1, Zenon DEF SyncType, cv_wait
  <2> QED BY <1>4, <1>7, <2>2, Zenon DEF SyncType, cv_wait
<1>8. ASSUME NEW l \in Locks, Released(l) /\ UNCHANGED cvq PROVE SyncType'
  BY <1>4, <1>8, Zenon DEF SyncType
<1>9. ASSUME NEW l \in Locks, lock_release(t, l) PROVE SyncType'
  BY <1>8, <1>9, Zenon DEF lock_release
<1> QED BY <1>1, <1>2, <1>3, <1>4, <1>5, <1>6, <1>7, <1>8, <1>9 DEF SyncType

(* A step keeps the types of locks and queues. *)
LEMMA SyncStep ==
  ASSUME TypeInv, CallInv, NEW t \in Threads, Step(t)
  PROVE  SyncType'
<1>0. SyncType
  BY Zenon DEF TypeInv, SyncType
<1>d. "dir" \in Locks /\ "table" \in Locks /\ \A o \in Objs : o \in Locks
  BY Zenon DEF Locks
<1>w. /\ Wants(t) \in Locks \cup {NULL}
      /\ pc[t] \in {"creat", "lookup", "remove"} => Wants(t) = "dir"
      /\ pc[t] \in {"insert", "getvnode", "uninsert", "getsem", "clear", "reclaim", "rsem", "wsem", "tsem"}
              => Wants(t) = "table"
      /\ pc[t] \in {"lock", "read", "write", "truncate"} => Wants(t) = loc[t].sem /\ loc[t].sem \in Objs
  BY WantsLock, Zenon
<1>1. CASE Block(t)
  BY <1>0, <1>1, <1>w, SyncTypes, Zenon DEF Block
<1>2. CASE UNCHANGED syncvars
  BY <1>0, <1>2, SyncTypes, Zenon
<1>3. CASE Search(t) \/ FindEntry(t) \/ Unlink(t) \/ ReadLock(t)
  <2>1. lock_acquire(t, Wants(t)) /\ Wants(t) \in Locks
    BY <1>3, <1>d, <1>w, Zenon DEF Search, FindEntry, Unlink, ReadLock, Take, At
  <2> QED BY <2>1, <1>0, SyncTypes, Zenon
<1>4. CASE semfs_sem_insert(t) \/ semfs_getvnode(t) \/ Uninsert(t) \/ semfs_getsem(t) \/ ClearEntry(t)
  <2>1. Locked(t) /\ Wants(t) \in Locks
    <3>1. CASE semfs_getsem(t)
      <4>1. pc[t] \in {"getsem", "rsem", "wsem", "tsem"}
        BY <3>1, Zenon DEF semfs_getsem
      <4> QED BY <4>1, <3>1, <1>d, <1>w, Zenon DEF semfs_getsem
    <3> QED BY <1>4, <3>1, <1>d, <1>w, Zenon DEF semfs_sem_insert, semfs_getvnode, Uninsert, ClearEntry, At
  <2> QED BY <2>1, <1>0, SyncTypes, Zenon DEF Locked, Section
<1>5. CASE SetLinked(t) \/ UnlockDir(t) \/ RemoveEntry(t)
  BY <1>5, <1>0, <1>d, SyncTypes, Zenon DEF SetLinked, UnlockDir, RemoveEntry
<1>6. CASE TestVnode(t) \/ RemoveDestroys(t)
  <2>1. loc[t].sem \in Locks
    BY <1>6, <1>d, Zenon DEF TestVnode, RemoveDestroys, At, CallInv, Call
  <2> QED BY <1>6, <2>1, <1>0, SyncTypes, Zenon DEF TestVnode, RemoveDestroys
<1>7. CASE semfs_reclaim(t)
  <2>1. Wants(t) \in Locks
    BY <1>7, <1>d, <1>w, Zenon DEF semfs_reclaim, At
  <2> QED BY <1>7, <2>1, <1>0, SyncTypes, Zenon DEF semfs_reclaim, Locked, Section, Take
<1>8. CASE ReclaimDestroys(t)
  BY <1>8, <1>0, <1>d, SyncTypes, Zenon DEF ReclaimDestroys
<1>9. CASE Consume(t)
  <2>1. loc[t].sem \in Objs /\ loc[t].sem \in Locks
    BY <1>9, <1>d, Zenon DEF Consume, At, CallInv, Call
  <2> QED BY <1>9, <2>1, <1>0, SyncTypes, Zenon DEF Consume
<1>10. CASE semfs_write(t) \/ semfs_truncate(t)
  <2>1. loc[t].sem \in Objs /\ Wants(t) \in Locks /\ Released(Wants(t))
    BY <1>10, <1>d, <1>w, Zenon DEF semfs_write, semfs_truncate, At, Section
  <2>2. UNCHANGED cvq \/ cv_signal(loc[t].sem) \/ cv_broadcast(loc[t].sem)
    BY <1>10, Zenon DEF semfs_write, semfs_truncate, semfs_wakeup
  <2> QED BY <2>1, <2>2, <1>0, SyncTypes, Zenon
<1>11. CASE Begin(t) \/ AddEntry(t) \/ vnode_decref(t) \/ ClearHasVnode(t)
  BY <1>11, <1>2, Zenon DEF Begin, AddEntry, vnode_decref, ClearHasVnode
<1> QED BY <1>1, <1>3, <1>4, <1>5, <1>6, <1>7, <1>8, <1>9, <1>10, <1>11, Zenon DEF Step

(* The smaller of two amounts is one of them. *)
LEMMA Lesser ==
  ASSUME NEW x \in Nat, NEW y \in Nat
  PROVE  Min({x, y}) \in Nat /\ Min({x, y}) =< x /\ Min({x, y}) =< y /\ Min({x, y}) \in {x, y}
<1>1. \E z \in {x, y} : \A w \in {x, y} : z =< w
  OBVIOUS
<1> QED BY <1>1, Zenon DEF Min

(* Records with a field changed. *)
LEMMA LocUpdate ==
  ASSUME NEW r \in Loc
  PROVE  /\ \A x \in Names : [r EXCEPT !.name = x] \in Loc
         /\ \A x \in Nums \cup {NULL} : [r EXCEPT !.num = x] \in Loc
         /\ \A x \in Objs : [r EXCEPT !.sem = x] \in Loc
         /\ \A x \in Objs : [r EXCEPT !.sem = x, !.fresh = TRUE] \in Loc
         /\ \A x \in BOOLEAN : [r EXCEPT !.lost = x] \in Loc
         /\ \A x \in 0 .. UMOD - 1 : [r EXCEPT !.amount = x] \in Loc
         /\ \A x \in Nums, y \in 0 .. UMOD - 1 : [r EXCEPT !.num = x, !.amount = y] \in Loc
  BY Zenon DEF Loc

(* A change of one field of a semaphore leaves a semaphore. *)
LEMMA ObjUpdate ==
  ASSUME NEW r \in Obj
  PROVE  /\ \A x \in 0 .. UMOD - 1 : [r EXCEPT !.count = x] \in Obj
         /\ \A x \in BOOLEAN : [r EXCEPT !.hasvnode = x] \in Obj
         /\ \A x \in BOOLEAN : [r EXCEPT !.linked = x] \in Obj
         /\ \A x \in BOOLEAN : [r EXCEPT !.live = x] \in Obj
  BY Zenon DEF Obj

(* The records that a call and a semaphore start with. *)
LEMMA NewRecords == Idle \in Loc /\ FreeObj \in Obj
<1>1. 0 \in 0 .. UMOD - 1
  BY SemfsAssumption
<1> QED BY <1>1, Zenon DEF Idle, FreeObj, Loc, Obj

(* A step keeps the types of everything else. *)
LEMMA StateStep ==
  ASSUME LowestExists, TypeInv, CallInv, NEW t \in Threads, Step(t)
  PROVE  StateType'
<1>0. StateType
  BY Zenon DEF TypeInv, StateType, Loc, Obj
<1>c. Idle \in Loc /\ FreeObj \in Obj /\ [FreeObj EXCEPT !.live = TRUE] \in Obj
  BY NewRecords, ObjUpdate, Zenon
<1>l. loc[t] \in Loc
  BY <1>0, Zenon DEF StateType
<1>p. \A l \in Labels : Goto(t, l) => pc' \in [Threads -> Labels]
  BY <1>0, Zenon DEF Goto, StateType
<1>d. Done(t) => loc' \in [Threads -> Loc] /\ pc' \in [Threads -> Labels]
  BY <1>0, <1>c DEF Done, Goto, StateType, Labels
<1>1. CASE Block(t)
  BY <1>0, <1>1, Zenon DEF Block, fsvars, StateType
<1>2. CASE Begin(t)
  <2>1. Amounts \cup Lengths \subseteq 0 .. UMOD - 1 /\ (fd[t] # NULL => fd[t] \in Nums)
    BY <1>0, SemfsAssumption DEF StateType
  <2>2. loc' \in [Threads -> Loc]
    <3>1. ASSUME NEW n \in Names, loc' = [loc EXCEPT ![t].name = n] PROVE loc' \in [Threads -> Loc]
      BY <1>0, <1>l, <3>1, LocUpdate, Zenon DEF StateType
    <3>2. ASSUME NEW a \in Amounts \cup Lengths, fd[t] # NULL, loc' = [loc EXCEPT ![t].num = fd[t], ![t].amount = a]
          PROVE  loc' \in [Threads -> Loc]
      <4>1. [loc[t] EXCEPT !.num = fd[t], !.amount = a] \in Loc
        BY <1>l, <2>1, <3>2, LocUpdate, Zenon
      <4> QED BY <1>0, <1>l, <3>2, <4>1 DEF StateType, Loc
    <3>3. ASSUME fd[t] # NULL, loc' = [loc EXCEPT ![t].num = fd[t]] PROVE loc' \in [Threads -> Loc]
      BY <1>0, <1>l, <2>1, <3>3, LocUpdate, Zenon DEF StateType
    <3> QED BY <1>2, <3>1, <3>2, <3>3 DEF Begin
  <2>3. pc' \in [Threads -> Labels]
    BY <1>2, <1>p DEF Begin, Labels
  <2> QED BY <1>0, <1>2, <2>2, <2>3 DEF Begin, fsvars, StateType
<1>3. CASE Search(t)
  <2>1. loc[t].name \in Names
    BY <1>3, Zenon DEF Search, At, CallInv, Call
  <2>2. loc' \in [Threads -> Loc]
    <3>1. dents[loc[t].name] \in Nums \cup {NULL}
      BY <1>0, <2>1 DEF StateType
    <3>2. [loc[t] EXCEPT !.num = dents[loc[t].name]] \in Loc
      BY <1>l, <3>1, LocUpdate, Zenon
    <3>3. \A o \in Objs : [loc[t] EXCEPT !.sem = o, !.fresh = TRUE] \in Loc
      BY <1>l, LocUpdate, Zenon
    <3>4. \/ loc' = loc
          \/ loc' = [loc EXCEPT ![t] = [loc[t] EXCEPT !.num = dents[loc[t].name]]]
          \/ \E o \in Objs : loc' = [loc EXCEPT ![t] = [loc[t] EXCEPT !.sem = o, !.fresh = TRUE]]
      <4>1. ASSUME NEW o \in Objs
            PROVE  [loc EXCEPT ![t].sem = o, ![t].fresh = TRUE]
                     = [loc EXCEPT ![t] = [loc[t] EXCEPT !.sem = o, !.fresh = TRUE]]
        BY <1>0, Zenon DEF StateType
      <4> QED BY <1>3, <4>1, Zenon DEF Search
    <3> QED BY <1>0, <3>2, <3>3, <3>4, Zenon DEF StateType
  <2>3. obj' \in [Objs -> Obj]
    BY <1>0, <1>c, <1>3, Zenon DEF Search, StateType
  <2>4. pc' \in [Threads -> Labels]
    BY <1>3, <1>p, Zenon DEF Search, Labels
  <2> QED BY <1>0, <1>3, <2>2, <2>3, <2>4 DEF Search, StateType
<1>4. CASE semfs_sem_insert(t)
  <2> DEFINE unused == {n \in Nums : semtab[n] = NULL}
  <2>1. loc[t].sem \in Objs
    BY <1>4, Zenon DEF semfs_sem_insert, At, CallInv, Call
  <2>2. unused # {} => Min(unused) \in Nums
    BY SemfsAssumption, Zenon DEF LowestExists
  <2>3. unused # {} => [loc[t] EXCEPT !.num = Min(unused)] \in Loc
    BY <1>l, <2>2, LocUpdate, Zenon
  <2>4. pc' \in [Threads -> Labels]
    BY <1>4, <1>p, Zenon DEF semfs_sem_insert, Labels
  <2>5. obj' \in [Objs -> Obj]
    BY <1>0, <1>c, <1>4, <2>1 DEF semfs_sem_insert, StateType
  <2>6. semtab' \in [Nums -> Objs \cup {NULL}]
    BY <1>0, <1>4, <2>1, Zenon DEF semfs_sem_insert, StateType
  <2>7. loc' \in [Threads -> Loc]
    BY <1>0, <1>4, <2>3, Zenon DEF semfs_sem_insert, StateType
  <2> QED BY <1>0, <1>4, <2>4, <2>5, <2>6, <2>7 DEF semfs_sem_insert, StateType
<1>5. CASE AddEntry(t)
  <2>1. loc[t].name \in Names /\ loc[t].num \in Nums
    BY <1>5, Zenon DEF AddEntry, At, CallInv, Call, DirHeld
  <2>2. pc' \in [Threads -> Labels]
    BY <1>5, <1>p DEF AddEntry, Labels
  <2>3. loc' \in [Threads -> Loc]
    BY <1>0, <1>l, <1>5, LocUpdate, Zenon DEF AddEntry, StateType
  <2> QED BY <1>0, <1>5, <2>1, <2>2, <2>3 DEF AddEntry, StateType
<1>6. CASE semfs_getvnode(t)
  <2>1. loc[t].name \in Names /\ loc[t].num \in Nums
    BY <1>6, Zenon DEF semfs_getvnode, At, CallInv, Call, DirHeld
  <2>2. pc' \in [Threads -> Labels]
    BY <1>6, <1>p, Zenon DEF semfs_getvnode, Labels
  <2>3. obj' \in [Objs -> Obj]
    <3>1. CASE obj' = obj
      BY <1>0, <3>1, Zenon DEF StateType
    <3>2. CASE semtab[loc[t].num] # NULL /\ obj' = [obj EXCEPT ![semtab[loc[t].num]].hasvnode = TRUE]
      <4>1. semtab[loc[t].num] \in Objs
        BY <1>0, <2>1, <3>2, Zenon DEF StateType
      <4> QED BY <1>0, <3>2, <4>1, ObjUpdate, Zenon DEF StateType
    <3> QED BY <1>6, <3>1, <3>2, Zenon DEF semfs_getvnode
  <2>4. dents' \in [Names -> Nums \cup {NULL}] /\ vref' \in [Nums -> Nat] /\ fd' \in [Threads -> Nums \cup {NULL}]
    BY <1>0, <1>6, <2>1 DEF semfs_getvnode, Incref, StateType
  <2> QED BY <1>0, <1>6, <2>2, <2>3, <2>4 DEF semfs_getvnode, StateType
<1>7. CASE SetLinked(t) \/ Uninsert(t) \/ UnlockDir(t)
  <2>1. obj' \in [Objs -> Obj]
    <3>1. CASE SetLinked(t)
      BY <1>0, <3>1, ObjUpdate, Zenon DEF SetLinked, At, CallInv, Call, StateType
    <3> QED BY <1>0, <1>c, <1>7, <3>1, Zenon DEF Uninsert, UnlockDir, fsvars, At, CallInv, Call, StateType
  <2>2. pc' \in [Threads -> Labels] /\ loc' \in [Threads -> Loc]
    BY <1>0, <1>d, <1>p, <1>7 DEF SetLinked, Uninsert, UnlockDir, Labels, StateType
  <2> QED BY <1>0, <1>7, <2>1, <2>2, Zenon DEF SetLinked, Uninsert, UnlockDir, fsvars, At, CallInv, Call, StateType
<1>8. CASE FindEntry(t)
  <2>1. dents[loc[t].name] \in Nums \cup {NULL}
    BY <1>0, <1>8 DEF FindEntry, At, CallInv, Call, StateType
  <2>2. [loc[t] EXCEPT !.num = dents[loc[t].name]] \in Loc
    BY <1>l, <2>1, LocUpdate, Zenon
  <2>3. pc' \in [Threads -> Labels]
    BY <1>8, <1>p, Zenon DEF FindEntry, Labels
  <2> QED BY <1>0, <1>8, <2>2, <2>3, Zenon DEF FindEntry, StateType, fsvars
<1>9. CASE semfs_getsem(t)
  <2>1. pc[t] \in {"getsem", "rsem", "wsem", "tsem"}
    BY <1>9, Zenon DEF semfs_getsem
  <2>2. semtab[loc[t].num] \in Objs
    BY <1>0, <1>9, <2>1 DEF semfs_getsem, CallInv, Call, StateType
  <2>3. [loc[t] EXCEPT !.sem = semtab[loc[t].num]] \in Loc
    BY <1>l, <2>2, LocUpdate, Zenon
  <2>4. pc' \in [Threads -> Labels]
    BY <1>9, <1>p, <2>1 DEF semfs_getsem, Labels
  <2> QED BY <1>0, <1>9, <2>3, <2>4, Zenon DEF semfs_getsem, StateType, fsvars
<1>10. CASE Unlink(t) \/ TestVnode(t) \/ ClearEntry(t) \/ RemoveDestroys(t) \/ RemoveEntry(t)
  <2>1. obj' \in [Objs -> Obj]
    <3>1. CASE Unlink(t)
      BY <1>0, <3>1, ObjUpdate, Zenon DEF Unlink, At, CallInv, Call, StateType
    <3> QED BY <1>0, <1>c, <1>10, <3>1 DEF TestVnode, ClearEntry, RemoveDestroys, RemoveEntry, fsvars, At,
              CallInv, Call, StateType
  <2>2. pc' \in [Threads -> Labels] /\ loc' \in [Threads -> Loc]
    BY <1>0, <1>d, <1>p, <1>10 DEF Unlink, TestVnode, ClearEntry, RemoveDestroys, RemoveEntry, Labels, StateType
  <2> QED BY <1>0, <1>10, <2>1, <2>2 DEF Unlink, TestVnode, ClearEntry, RemoveDestroys, RemoveEntry, fsvars, At,
            CallInv, Call, StateType
<1>11. CASE vnode_decref(t) \/ semfs_reclaim(t)
  <2>1. pc' \in [Threads -> Labels] /\ loc' \in [Threads -> Loc]
    BY <1>0, <1>d, <1>p, <1>11 DEF vnode_decref, semfs_reclaim, Labels, StateType
  <2>2. vref' \in [Nums -> Nat]
    BY <1>0, <1>11 DEF vnode_decref, semfs_reclaim, StillUsed, At, CallInv, Call, StateType
  <2> QED BY <1>0, <1>11, <2>1, <2>2 DEF vnode_decref, semfs_reclaim, StateType
<1>13. CASE ClearHasVnode(t) \/ ReclaimDestroys(t)
  <2>0. loc[t].num \in Nums
    BY <1>13 DEF ClearHasVnode, ReclaimDestroys, At, CallInv, Call
  <2>1. pc' \in [Threads -> Labels] /\ loc' \in [Threads -> Loc]
    BY <1>0, <1>d, <1>p, <1>13 DEF ClearHasVnode, ReclaimDestroys, Labels, StateType
  <2>2. obj' \in [Objs -> Obj]
    <3>1. CASE ClearHasVnode(t)
      <4>1. semtab[loc[t].num] \in Objs
        BY <1>0, <2>0, <3>1 DEF ClearHasVnode, StateType
      <4> QED BY <1>0, <3>1, <4>1, ObjUpdate, Zenon DEF ClearHasVnode, StateType
    <3>2. CASE ReclaimDestroys(t)
      BY <1>0, <1>c, <3>2, Zenon DEF ReclaimDestroys, StateType
    <3> QED BY <1>13, <3>1, <3>2
  <2> QED BY <1>0, <1>13, <2>0, <2>1, <2>2 DEF ClearHasVnode, ReclaimDestroys, StateType
<1>14. CASE ReadLock(t)
  BY <1>0, <1>14, <1>p DEF ReadLock, StateType, Labels, fsvars
<1>15. CASE Consume(t)
  <2>1. /\ loc[t].sem \in Objs /\ obj[loc[t].sem] \in Obj
        /\ obj[loc[t].sem].count \in 0 .. UMOD - 1 /\ loc[t].amount \in 0 .. UMOD - 1 /\ UMOD \in Nat
    BY <1>0, <1>15, SemfsAssumption DEF Consume, At, CallInv, Call, StateType, Loc, Obj
  <2> DEFINE n == TakeUpTo(loc[t].amount, obj[loc[t].sem].count)
  <2>2. n \in Nat /\ n =< loc[t].amount /\ n =< obj[loc[t].sem].count
    BY <2>1, Lesser DEF TakeUpTo
  <2>3. obj[loc[t].sem].count - n \in 0 .. UMOD - 1 /\ loc[t].amount - n \in 0 .. UMOD - 1
    BY <2>1, <2>2
  <2>4. [obj[loc[t].sem] EXCEPT !.count = @ - n] \in Obj /\ [loc[t] EXCEPT !.amount = @ - n] \in Loc
    BY <1>l, <2>1, <2>3, LocUpdate, ObjUpdate, Zenon
  <2>5. obj' = [obj EXCEPT ![loc[t].sem] = [obj[loc[t].sem] EXCEPT !.count = @ - n]]
    BY <1>15 DEF Consume
  <2>6. pc' \in [Threads -> Labels]
    BY <1>d, <1>p, <1>15 DEF Consume, Labels
  <2>7. loc' \in [Threads -> Loc]
    BY <1>0, <1>d, <1>15, <2>4 DEF Consume, StateType
  <2> HIDE DEF n
  <2> QED BY <1>0, <1>15, <2>4, <2>5, <2>6, <2>7, Zenon DEF Consume, StateType
<1>16. CASE semfs_write(t) \/ semfs_truncate(t)
  <2>1. /\ loc[t].sem \in Objs /\ obj[loc[t].sem] \in Obj
        /\ obj[loc[t].sem].count \in 0 .. UMOD - 1 /\ loc[t].amount \in 0 .. UMOD - 1 /\ UMOD \in Nat \ {0}
    BY <1>0, <1>16, SemfsAssumption, Zenon DEF semfs_write, semfs_truncate, At, CallInv, Call, StateType, Loc, Obj
  <2>2. (obj[loc[t].sem].count + loc[t].amount) % UMOD \in 0 .. UMOD - 1
    BY <2>1
  <2>3. obj' \in [Objs -> Obj]
    BY <1>0, <1>16, <2>1, <2>2, ObjUpdate DEF semfs_write, semfs_truncate, StateType
  <2> QED BY <1>0, <1>d, <1>16, <2>3 DEF semfs_write, semfs_truncate, StateType
<1> QED BY <1>1, <1>2, <1>3, <1>4, <1>5, <1>6, <1>7, <1>8, <1>9, <1>10, <1>11, <1>13, <1>14, <1>15, <1>16, Zenon
        DEF Step

(* A step keeps what a call knows. *)
LEMMA CallStep ==
  ASSUME LowestExists, TypeInv, CallInv, NEW t \in Threads, Step(t)
  PROVE  CallInv'
<1>1. ASSUME NEW u \in Threads, u # t PROVE Call(u)'
  <2>1. Call(u)
    BY DEF CallInv
  <2> QED BY <1>1, <2>1, OthersStay DEF Call
<1>0. StateType
  BY Zenon DEF TypeInv, StateType, Loc, Obj
<1>c. Call(t)
  BY Zenon DEF CallInv
<1>p. \A l \in Labels : Goto(t, l) => pc'[t] = l
  BY <1>0 DEF Goto, StateType
<1>l. /\ loc[t] \in Loc /\ DOMAIN loc = Threads
      /\ \A r : loc' = [loc EXCEPT ![t] = r] => loc'[t] = r
  BY <1>0 DEF StateType
<1>d. Done(t) => Call(t)'
  <2>1. Done(t) => pc'[t] = "idle" /\ loc'[t] = Idle
    BY <1>p, <1>l DEF Done, Labels
  <2> QED BY <2>1 DEF Call, DirHeld
<1>2. Call(t)'
  <2>1. CASE Block(t)
    BY <1>c, <2>1 DEF Block, fsvars, Call
  <2>2. CASE Begin(t)
    <3>0. loc[t] = Idle
      BY <1>c, <2>2, Zenon DEF Begin, At, Call
    <3>1. CASE \E n \in Names, op \in {"creat", "lookup", "remove"} :
                  /\ op = "remove" \/ fd[t] = NULL
                  /\ Goto(t, op) /\ loc' = [loc EXCEPT ![t].name = n]
      <4>1. PICK n \in Names, op \in {"creat", "lookup", "remove"} :
                  /\ op = "remove" \/ fd[t] = NULL
                  /\ Goto(t, op) /\ loc' = [loc EXCEPT ![t].name = n]
        BY <3>1, Zenon
      <4>2. pc'[t] = op /\ loc'[t].name = n /\ ~loc'[t].fresh /\ loc'[t].sem = NULL
        BY <1>p, <1>l, <3>0, <4>1 DEF Labels, Idle
      <4>3. fd' = fd
        BY <2>2, Zenon DEF Begin, fsvars
      <4> QED BY <4>1, <4>2, <4>3 DEF Call, DirHeld
    <3>2. CASE \E op \in {"rsem", "wsem", "tsem", "decref"} :
                 fd[t] # NULL /\ Goto(t, op) /\ loc'[t].num = fd[t]
      <4>1. PICK op \in {"rsem", "wsem", "tsem", "decref"} :
                 fd[t] # NULL /\ Goto(t, op) /\ loc'[t].num = fd[t]
        BY <3>2, Zenon
      <4>2. pc'[t] = op
        BY <1>p, <4>1, Zenon DEF Labels
      <4>3. fd' = fd /\ fd[t] \in Nums
        BY <1>0, <2>2, <4>1 DEF Begin, fsvars, StateType
      <4> QED BY <4>1, <4>2, <4>3, Zenon DEF Call, DirHeld
    <3>3. ASSUME NEW a, loc' = [loc EXCEPT ![t].num = fd[t], ![t].amount = a] PROVE loc'[t].num = fd[t]
      BY <1>l, <3>3, Zenon DEF Loc
    <3>4. loc' = [loc EXCEPT ![t].num = fd[t]] => loc'[t].num = fd[t]
      BY <1>l, Zenon DEF Loc
    <3> QED BY <2>2, <3>1, <3>2, <3>3, <3>4 DEF Begin
  <2>3. CASE Search(t)
    <3>0. /\ loc[t].name \in Names /\ ~loc[t].fresh /\ loc[t].sem = NULL /\ fd'[t] = NULL
      BY <1>c, <2>3, Zenon DEF Search, At, Call
    <3>1. dents[loc[t].name] \in Nums \cup {NULL}
      BY <1>0, <3>0, Zenon DEF StateType
    <3>2. CASE pc'[t] = "unlock"
      BY <3>2, Zenon DEF Call, DirHeld
    <3>3. CASE /\ dents[loc[t].name] # NULL
               /\ Goto(t, "getvnode") /\ loc' = [loc EXCEPT ![t].num = dents[loc[t].name]]
      <4>1. pc'[t] = "getvnode" /\ loc'[t].name = loc[t].name /\ loc'[t].fresh = loc[t].fresh
            /\ loc'[t].sem = loc[t].sem /\ loc'[t].num = dents[loc[t].name]
        BY <1>p, <1>l, <3>3, Zenon DEF Labels, Loc
      <4> QED BY <3>0, <3>1, <3>3, <4>1 DEF Call, DirHeld
    <3>4. CASE /\ Goto(t, "insert")
               /\ \E o \in Objs : loc' = [loc EXCEPT ![t].sem = o, ![t].fresh = TRUE]
      <4>1. pc'[t] = "insert" /\ loc'[t].name = loc[t].name /\ loc'[t].fresh /\ loc'[t].sem \in Objs
        BY <1>p, <1>l, <3>4 DEF Labels, Loc
      <4> QED BY <3>0, <4>1, Zenon DEF Call, DirHeld
    <3>5. Goto(t, "unlock") => pc'[t] = "unlock"
      BY <1>p, Zenon DEF Labels
    <3> QED BY <2>3, <3>2, <3>3, <3>4, <3>5, Zenon DEF Search
  <2>4. CASE semfs_sem_insert(t)
    <3>0. loc[t].name \in Names /\ loc[t].fresh /\ loc[t].sem \in Objs /\ fd'[t] = NULL
      BY <1>c, <2>4 DEF semfs_sem_insert, At, Call, DirHeld
    <3> DEFINE unused == {n \in Nums : semtab[n] = NULL}
    <3>1. unused # {} => Min(unused) \in Nums
      BY SemfsAssumption, Zenon DEF LowestExists
    <3> HIDE DEF unused
    <3>2. CASE unused # {} /\ loc' = [loc EXCEPT ![t].num = Min(unused)] /\ Goto(t, "dent")
      <4>1. pc'[t] = "dent" /\ loc'[t].name = loc[t].name /\ loc'[t].fresh = loc[t].fresh
            /\ loc'[t].sem = loc[t].sem /\ loc'[t].num = Min(unused)
        BY <1>p, <1>l, <3>2 DEF Labels, Loc
      <4> QED BY <3>0, <3>1, <3>2, <4>1 DEF Call, DirHeld
    <3>3. CASE Goto(t, "unlock")
      <4>1. pc'[t] = "unlock"
        BY <1>p, <3>3, Zenon DEF Labels
      <4> QED BY <4>1, Zenon DEF Call, DirHeld
    <3> QED BY <2>4, <3>2, <3>3, Zenon DEF semfs_sem_insert, unused
  <2>5. CASE AddEntry(t)
    <3>0. loc[t].name \in Names /\ loc[t].num \in Nums /\ loc[t].fresh /\ loc[t].sem \in Objs /\ fd'[t] = NULL
      BY <1>c, <2>5, Zenon DEF AddEntry, At, Call, DirHeld
    <3>1. loc'[t].name = loc[t].name /\ loc'[t].num = loc[t].num /\ loc'[t].fresh = loc[t].fresh
          /\ loc'[t].sem = loc[t].sem
      BY <1>l, <2>5, Zenon DEF AddEntry, Loc
    <3>2. pc'[t] \in {"getvnode", "uninsert"}
      BY <1>p, <2>5 DEF AddEntry, Labels
    <3> QED BY <3>0, <3>1, <3>2 DEF Call, DirHeld
  <2>6. CASE semfs_getvnode(t)
    <3>0. /\ loc[t].name \in Names /\ loc[t].num \in Nums /\ (loc[t].fresh => loc[t].sem \in Objs)
          /\ fd[t] = NULL /\ loc' = loc
      BY <1>c, <2>6 DEF semfs_getvnode, At, Call, DirHeld
    <3>1. \/ pc'[t] = "link" /\ loc[t].fresh
          \/ pc'[t] = "uninsert" /\ loc[t].fresh /\ fd' = fd
          \/ pc'[t] = "unlock"
      BY <1>p, <2>6 DEF semfs_getvnode, Labels
    <3> QED BY <3>0, <3>1, Zenon DEF Call, DirHeld
  <2>7. CASE Uninsert(t) \/ UnlockDir(t)
    <3>1. Done(t) \/ pc'[t] \in {"unlock", "lost"}
      BY <1>p, <2>7, Zenon DEF Uninsert, UnlockDir, Labels
    <3> QED BY <1>d, <3>1 DEF Call, DirHeld
  <2>8. CASE FindEntry(t)
    <3>1. loc[t].name \in Names /\ dents[loc[t].name] \in Nums \cup {NULL}
      BY <1>0, <1>c, <2>8 DEF FindEntry, At, Call, StateType
    <3>2. loc'[t].name = loc[t].name /\ loc'[t].num = dents[loc[t].name]
      BY <1>l, <2>8, Zenon DEF FindEntry, Loc
    <3>3. pc'[t] = IF dents[loc[t].name] = NULL THEN "unlock" ELSE "getsem"
      BY <1>p, <2>8 DEF FindEntry, Labels
    <3> QED BY <3>1, <3>2, <3>3 DEF Call, DirHeld
  <2>9. CASE semfs_getsem(t)
    <3>1. pc[t] \in {"getsem", "rsem", "wsem", "tsem"}
      BY <2>9, Zenon DEF semfs_getsem
    <3>2. loc[t].num \in Nums /\ (pc[t] = "getsem" => loc[t].name \in Names) /\ (pc[t] # "getsem" => fd[t] = loc[t].num)
      BY <1>c, <3>1, Zenon DEF Call, DirHeld
    <3>3. semtab[loc[t].num] \in Objs /\ fd' = fd
      BY <1>0, <2>9, <3>2, Zenon DEF semfs_getsem, StateType, fsvars
    <3>4. loc'[t].name = loc[t].name /\ loc'[t].num = loc[t].num /\ loc'[t].sem = semtab[loc[t].num]
      BY <1>l, <2>9, Zenon DEF semfs_getsem, Loc
    <3>5. pc'[t] \in {"lock", "read", "write", "truncate"} /\ (pc'[t] = "lock" <=> pc[t] = "getsem")
      BY <1>p, <2>9, <3>1 DEF semfs_getsem, Labels
    <3> QED BY <3>2, <3>3, <3>4, <3>5, Zenon DEF Call, DirHeld
  <2>10. CASE Unlink(t) \/ TestVnode(t) \/ ClearEntry(t) \/ RemoveDestroys(t)
    <3>1. /\ pc[t] \in {"lock", "test", "clear", "destroy"} /\ pc'[t] \in {"test", "clear", "destroy", "undent"}
          /\ loc' = loc
      BY <1>p, <2>10, Zenon DEF Unlink, TestVnode, ClearEntry, RemoveDestroys, At, Labels
    <3> QED BY <1>c, <3>1, Zenon DEF Call, DirHeld
  <2>11. CASE vnode_decref(t)
    <3>1. CASE Done(t)
      BY <1>d, <3>1, Zenon
    <3>2. CASE Goto(t, "reclaim") /\ loc' = loc
      <4>1. pc'[t] = "reclaim" /\ fd'[t] = NULL /\ loc[t].num \in Nums
        BY <1>0, <1>c, <1>p, <2>11, <3>2, Zenon DEF vnode_decref, At, Call, Labels, StateType
      <4> QED BY <3>2, <4>1, Zenon DEF Call, DirHeld
    <3> QED BY <2>11, <3>1, <3>2, Zenon DEF vnode_decref
  <2>12. CASE semfs_reclaim(t) \/ ClearHasVnode(t)
    <3>1. CASE Done(t)
      BY <1>d, <3>1, Zenon
    <3>2. CASE pc'[t] \in {"noVnode", "orphan"} /\ loc' = loc
      <4>1. pc[t] \in {"reclaim", "noVnode"} /\ fd' = fd
        BY <2>12, Zenon DEF semfs_reclaim, ClearHasVnode, At
      <4> QED BY <1>c, <3>2, <4>1, Zenon DEF Call, DirHeld
    <3> QED BY <1>p, <2>12, <3>1, <3>2 DEF semfs_reclaim, ClearHasVnode, Labels
  <2>13. CASE ReadLock(t)
    <3>1. pc[t] = "read" /\ pc'[t] = "consume" /\ loc' = loc /\ fd' = fd
      BY <1>p, <2>13, Zenon DEF ReadLock, At, Labels, fsvars
    <3> QED BY <1>c, <3>1, Zenon DEF Call, DirHeld
  <2>14. CASE Consume(t)
    <3>1. CASE Done(t)
      BY <1>d, <3>1, Zenon
    <3>2. CASE \E m : loc' = [loc EXCEPT ![t].amount = m] /\ Goto(t, "read")
      <4>1. pc[t] = "consume" /\ pc'[t] = "read" /\ fd' = fd /\ loc'[t].num = loc[t].num /\ loc'[t].sem = loc[t].sem
        BY <1>p, <1>l, <2>14, <3>2, Zenon DEF Consume, At, Labels, Loc
      <4> QED BY <1>c, <4>1, Zenon DEF Call, DirHeld
    <3> QED BY <2>14, <3>1, <3>2, Zenon DEF Consume
  <2>15. CASE SetLinked(t) \/ RemoveEntry(t) \/ ReclaimDestroys(t) \/ semfs_write(t) \/ semfs_truncate(t)
    BY <1>d, <2>15, Zenon DEF SetLinked, RemoveEntry, ReclaimDestroys, semfs_write, semfs_truncate
  <2> QED BY <2>1, <2>2, <2>3, <2>4, <2>5, <2>6, <2>7, <2>8, <2>9, <2>10, <2>11, <2>12, <2>13, <2>14, <2>15 DEF Step
<1> QED BY <1>1, <1>2 DEF CallInv

(* What a step does to the owners of locks. *)
Keeps(t) ==
  /\ owner' = owner
  /\ pc'[t] \in DirHeld <=> pc[t] \in DirHeld
  /\ pc'[t] \in TableHeld <=> pc[t] \in TableHeld
  /\ pc'[t] \in SemHeld <=> pc[t] \in SemHeld
  /\ pc[t] \in SemHeld => loc'[t].sem = loc[t].sem

Acquires(t, l) ==
  /\ owner[l] = NULL /\ owner' = [owner EXCEPT ![l] = t]
  /\ \/ /\ l = "dir" /\ pc[t] \in {"creat", "lookup", "remove"}
        /\ pc'[t] \in {"getvnode", "unlock", "insert", "getsem"}
     \/ l = "table" /\ pc[t] = "reclaim" /\ pc'[t] = "noVnode"
     \/ /\ l \in Objs /\ l = loc[t].sem /\ loc'[t].sem = l
        /\ \/ pc[t] = "lock" /\ pc'[t] = "test"
           \/ pc[t] = "read" /\ pc'[t] = "consume"

Releases(t, l) ==
  /\ owner[l] = t /\ owner' = [owner EXCEPT ![l] = NULL]
  /\ \/ l = "dir" /\ pc[t] \in {"link", "unlock", "undent"} /\ pc'[t] \in {"idle", "lost"}
     \/ l = "table" /\ pc[t] = "orphan" /\ pc'[t] = "idle"
     \/ /\ l \in Objs /\ l = loc[t].sem
        /\ \/ pc[t] \in {"test", "destroy"} /\ pc'[t] = "undent"
           \/ pc[t] = "consume" /\ pc'[t] \in {"idle", "read"}

(* Every step keeps the locks, takes one or gives one back. *)
LEMMA OwnerStep ==
  ASSUME TypeInv, CallInv, NEW t \in Threads, Step(t)
  PROVE  Keeps(t) \/ \E l \in Locks : Acquires(t, l) \/ Releases(t, l)
<1>0. SyncType /\ StateType
  BY Zenon DEF TypeInv, StateType, SyncType, Loc, Obj
<1>c. Call(t)
  BY Zenon DEF CallInv
<1>p. \A l \in Labels : Goto(t, l) => pc'[t] = l
  BY <1>0, Zenon DEF Goto, StateType
<1>l. loc[t] \in Loc /\ DOMAIN loc = Threads
  BY <1>0, Zenon DEF StateType
<1>i. Done(t) => pc'[t] = "idle"
  BY <1>p DEF Done, Labels
<1>k. "dir" \in Locks /\ "table" \in Locks /\ \A o \in Objs : o \in Locks
  BY Zenon DEF Locks
<1>w. /\ Wants(t) \in Locks \cup {NULL}
      /\ pc[t] \in {"creat", "lookup", "remove"} => Wants(t) = "dir"
      /\ pc[t] \in {"insert", "getvnode", "uninsert", "getsem", "clear", "reclaim", "rsem", "wsem", "tsem"}
              => Wants(t) = "table"
      /\ pc[t] \in {"lock", "read", "write", "truncate"} => Wants(t) = loc[t].sem /\ loc[t].sem \in Objs
  BY WantsLock, Zenon
<1>s. \A l \in Locks : Section(t, l) => owner' = owner
  BY <1>0, Zenon DEF Section, Released, SyncType
<1>1. CASE Block(t) \/ Begin(t) \/ AddEntry(t) \/ vnode_decref(t) \/ ClearHasVnode(t)
  <2>1. owner' = owner
    BY <1>1, Zenon DEF Block, LockSleep, Begin, AddEntry, vnode_decref, ClearHasVnode, syncvars
  <2>2. CASE Block(t)
    BY <2>1, <2>2, Zenon DEF Block, Keeps
  <2>3. CASE Begin(t)
    <3>1. pc[t] = "idle" /\ pc'[t] \in {"creat", "lookup", "remove", "rsem", "wsem", "tsem", "decref"}
      BY <1>p, <2>3, Zenon DEF Begin, At, Labels
    <3> QED BY <2>1, <3>1, Zenon DEF Keeps, DirHeld, SemHeld, TableHeld
  <2>4. CASE AddEntry(t)
    <3>1. pc[t] = "dent" /\ pc'[t] \in {"getvnode", "uninsert"}
      BY <1>p, <2>4, Zenon DEF AddEntry, At, Labels
    <3> QED BY <2>1, <3>1, Zenon DEF Keeps, DirHeld, SemHeld, TableHeld
  <2>5. CASE vnode_decref(t)
    <3>1. pc[t] = "decref" /\ pc'[t] \in {"idle", "reclaim"}
      BY <1>p, <1>i, <2>5 DEF vnode_decref, At, Labels
    <3> QED BY <2>1, <3>1, Zenon DEF Keeps, DirHeld, SemHeld, TableHeld
  <2>6. CASE ClearHasVnode(t)
    <3>1. pc[t] = "noVnode" /\ pc'[t] = "orphan"
      BY <1>p, <2>6, Zenon DEF ClearHasVnode, At, Labels
    <3> QED BY <2>1, <3>1, Zenon DEF Keeps, DirHeld, SemHeld, TableHeld
  <2> QED BY <1>1, <2>2, <2>3, <2>4, <2>5, <2>6
<1>2. CASE semfs_sem_insert(t) \/ semfs_getvnode(t) \/ Uninsert(t)
  <2>1. /\ pc[t] \in {"insert", "getvnode", "uninsert"} /\ Section(t, Wants(t))
        /\ pc'[t] \in {"dent", "unlock", "link", "uninsert"}
    BY <1>p, <1>2, Zenon DEF semfs_sem_insert, semfs_getvnode, Uninsert, At, Locked, Labels
  <2> QED BY <1>k, <1>s, <1>w, <2>1 DEF Keeps, DirHeld, SemHeld, TableHeld
<1>3. CASE semfs_getsem(t)
  <2>1. pc[t] \in {"getsem", "rsem", "wsem", "tsem"} /\ Section(t, Wants(t))
    BY <1>3, Zenon DEF semfs_getsem, Locked
  <2>2. pc'[t] \in {"lock", "read", "write", "truncate"} /\ (pc'[t] = "lock" <=> pc[t] = "getsem")
    BY <1>p, <1>3, <2>1 DEF semfs_getsem, Labels
  <2> QED BY <1>k, <1>s, <1>w, <2>1, <2>2 DEF Keeps, DirHeld, SemHeld, TableHeld
<1>4. CASE ClearEntry(t)
  <2>1. pc[t] = "clear" /\ Section(t, Wants(t)) /\ pc'[t] = "destroy" /\ loc' = loc
    BY <1>p, <1>4, Zenon DEF ClearEntry, At, Locked, Labels
  <2> QED BY <1>k, <1>s, <1>w, <2>1 DEF Keeps, DirHeld, SemHeld, TableHeld
<1>5. CASE semfs_write(t) \/ semfs_truncate(t)
  <2>1. pc[t] \in {"write", "truncate"} /\ Section(t, Wants(t)) /\ pc'[t] = "idle"
    BY <1>i, <1>5, Zenon DEF semfs_write, semfs_truncate, At
  <2> QED BY <1>k, <1>s, <1>w, <2>1 DEF Keeps, DirHeld, SemHeld, TableHeld
<1>6. CASE Search(t) \/ FindEntry(t)
  <2>1. /\ pc[t] \in {"creat", "lookup", "remove"} /\ lock_acquire(t, Wants(t))
        /\ pc'[t] \in {"getvnode", "unlock", "insert", "getsem"}
    BY <1>p, <1>6, Zenon DEF Search, FindEntry, Take, At, Labels
  <2>2. Acquires(t, "dir")
    BY <1>w, <2>1, Zenon DEF Acquires, lock_acquire
  <2> QED BY <1>k, <2>2, Zenon
<1>7. CASE Unlink(t) \/ ReadLock(t)
  <2>1. /\ lock_acquire(t, Wants(t)) /\ loc' = loc
        /\ \/ pc[t] = "lock" /\ pc'[t] = "test"
           \/ pc[t] = "read" /\ pc'[t] = "consume"
    BY <1>p, <1>7, Zenon DEF Unlink, ReadLock, Take, At, Labels
  <2>2. Acquires(t, loc[t].sem)
    BY <1>w, <2>1, Zenon DEF Acquires, lock_acquire
  <2> QED BY <1>k, <1>w, <2>1, <2>2, Zenon
<1>8. CASE semfs_reclaim(t)
  <2>1. CASE Locked(t) /\ Done(t)
    <3>1. pc[t] = "reclaim" /\ Section(t, Wants(t)) /\ pc'[t] = "idle"
      BY <1>i, <1>8, <2>1 DEF semfs_reclaim, Locked, At
    <3> QED BY <1>k, <1>s, <1>w, <3>1 DEF Keeps, DirHeld, SemHeld, TableHeld
  <2>2. CASE Take(t) /\ Goto(t, "noVnode")
    <3>1. pc[t] = "reclaim" /\ lock_acquire(t, Wants(t)) /\ pc'[t] = "noVnode"
      BY <1>p, <1>8, <2>2 DEF semfs_reclaim, Take, At, Labels
    <3>2. Acquires(t, "table")
      BY <1>w, <3>1, Zenon DEF Acquires, lock_acquire
    <3> QED BY <1>k, <3>2
  <2> QED BY <1>8, <2>1, <2>2 DEF semfs_reclaim
<1>9. CASE SetLinked(t) \/ UnlockDir(t) \/ RemoveEntry(t)
  <2>1. /\ pc[t] \in {"link", "unlock", "undent"} /\ lock_release(t, "dir")
        /\ pc'[t] \in {"idle", "lost"}
    BY <1>i, <1>p, <1>9 DEF SetLinked, UnlockDir, RemoveEntry, At, Labels
  <2>2. Releases(t, "dir")
    BY <2>1, Zenon DEF Releases, lock_release, Released
  <2> QED BY <1>k, <2>2
<1>10. CASE ReclaimDestroys(t)
  <2>1. pc[t] = "orphan" /\ lock_release(t, "table") /\ pc'[t] = "idle"
    BY <1>i, <1>10, Zenon DEF ReclaimDestroys, At
  <2>2. Releases(t, "table")
    BY <2>1, Zenon DEF Releases, lock_release, Released
  <2> QED BY <1>k, <2>2
<1>11. CASE TestVnode(t) \/ RemoveDestroys(t)
  <2>0. loc[t].sem \in Objs
    BY <1>c, <1>11 DEF TestVnode, RemoveDestroys, At, Call
  <2>1. CASE pc[t] \in {"test", "destroy"} /\ lock_release(t, loc[t].sem) /\ Goto(t, "undent")
    <3>1. pc'[t] = "undent"
      BY <1>p, <2>1 DEF Labels
    <3>2. Releases(t, loc[t].sem)
      BY <2>0, <2>1, <3>1 DEF Releases, lock_release, Released
    <3> QED BY <1>k, <2>0, <3>2
  <2>2. CASE pc[t] = "test" /\ owner' = owner /\ Goto(t, "clear") /\ loc' = loc
    <3>1. pc'[t] = "clear"
      BY <1>p, <2>2 DEF Labels
    <3> QED BY <2>2, <3>1 DEF Keeps, DirHeld, SemHeld, TableHeld
  <2> QED BY <1>11, <2>1, <2>2 DEF TestVnode, RemoveDestroys, At, syncvars
<1>12. CASE Consume(t)
  <2>0. pc[t] = "consume" /\ loc[t].sem \in Objs
    BY <1>c, <1>12 DEF Consume, At, Call
  <2>1. pc'[t] \in {"idle", "read"}
    BY <1>i, <1>p, <1>12 DEF Consume, Labels
  <2>2. Releases(t, loc[t].sem)
    BY <2>0, <2>1, <1>12 DEF Consume, Releases, lock_release, cv_wait, Released
  <2> QED BY <1>k, <2>0, <2>2
<1> QED BY <1>1, <1>2, <1>3, <1>4, <1>5, <1>6, <1>7, <1>8, <1>9, <1>10, <1>11, <1>12 DEF Step

(* Where threads are still says which locks they hold. *)
LEMMA HoldsStep ==
  ASSUME TypeInv, CallInv, LockInv, NEW t \in Threads, Step(t), NEW u \in Threads
  PROVE  Holds(u)'
<1>0. /\ owner \in [Locks -> Threads \cup {NULL}] /\ NULL \notin Threads
      /\ "dir" \in Locks /\ "table" \in Locks /\ (\A o \in Objs : o \in Locks /\ o \notin {"dir", "table"})
  BY SemfsAssumption DEF TypeInv, Locks
<1>1. Holds(t) /\ Holds(u)
  BY DEF LockInv
<1>2. CASE u # t
  <2>1. \A l \in Locks : owner'[l] = u <=> owner[l] = u
    BY <1>0, <1>2, OwnerStep DEF Keeps, Acquires, Releases
  <2>2. pc[u] \in SemHeld => loc[u].sem \in Objs
    BY DEF CallInv, Call, SemHeld
  <2> QED BY <1>0, <1>1, <1>2, <2>1, <2>2, OthersStay DEF Holds
<1>3. CASE u = t
  <2>1. CASE Keeps(t)
    BY <1>1, <1>3, <2>1 DEF Holds, Keeps
  <2>2. ASSUME NEW l \in Locks, Acquires(t, l) PROVE Holds(t)'
    <3>1. owner'[l] = t /\ \A k \in Locks : k # l => owner'[k] = owner[k]
      BY <1>0, <2>2 DEF Acquires
    <3>2. CASE l = "dir"
      BY <1>0, <1>1, <2>2, <3>1, <3>2 DEF Acquires, Holds, DirHeld, SemHeld, TableHeld
    <3>3. CASE l = "table"
      BY <1>0, <1>1, <2>2, <3>1, <3>3 DEF Acquires, Holds, DirHeld, SemHeld, TableHeld
    <3>4. CASE l \in Objs
      BY <1>0, <1>1, <2>2, <3>1, <3>4 DEF Acquires, Holds, DirHeld, SemHeld, TableHeld
    <3> QED BY <2>2, <3>2, <3>3, <3>4 DEF Acquires
  <2>3. ASSUME NEW l \in Locks, Releases(t, l) PROVE Holds(t)'
    <3>1. owner'[l] = NULL /\ \A k \in Locks : k # l => owner'[k] = owner[k]
      BY <1>0, <2>3 DEF Releases
    <3>2. CASE l = "dir"
      BY <1>0, <1>1, <2>3, <3>1, <3>2 DEF Releases, Holds, DirHeld, SemHeld, TableHeld
    <3>3. CASE l = "table"
      BY <1>0, <1>1, <2>3, <3>1, <3>3 DEF Releases, Holds, DirHeld, SemHeld, TableHeld
    <3>4. CASE l \in Objs
      BY <1>0, <1>1, <2>3, <3>1, <3>4 DEF Releases, Holds, DirHeld, SemHeld, TableHeld
    <3> QED BY <2>3, <3>2, <3>3, <3>4 DEF Releases
  <2> QED BY <1>3, <2>1, <2>2, <2>3, OwnerStep
<1> QED BY <1>2, <1>3

(* A step puts no other thread to sleep, and the thread itself only where it *)
(* goes for a lock that is taken, or for a count that is not there.          *)
LEMMA QueueStep ==
  ASSUME TypeInv, CallInv, NEW t \in Threads, Step(t)
  PROVE  /\ ~Asleep(t)
         /\ \A l \in Locks : Range(lkq'[l]) \subseteq Range(lkq[l]) \cup (IF Block(t) /\ Wants(t) = l THEN {t} ELSE {})
         /\ \A o \in Objs : Range(cvq'[o]) \subseteq Range(cvq[o])
              \cup (IF Consume(t) /\ loc[t].sem = o /\ ~Done(t) THEN {t} ELSE {})
<1>0. SyncType
  BY Zenon DEF TypeInv, SyncType
<1>k. "dir" \in Locks /\ "table" \in Locks /\ \A o \in Objs : o \in Locks
  BY Zenon DEF Locks
<1>w. Wants(t) \in Locks \cup {NULL}
  BY WantsLock
<1>n. ~Asleep(t)
  BY Zenon DEF Step, Block, Begin, Search, semfs_sem_insert, AddEntry, semfs_getvnode, SetLinked, Uninsert, UnlockDir,
    FindEntry, semfs_getsem, Unlink, TestVnode, ClearEntry, RemoveDestroys, RemoveEntry, vnode_decref, semfs_reclaim,
    ClearHasVnode, ReclaimDestroys, ReadLock, Consume, semfs_write, semfs_truncate, At
<1>r. ASSUME NEW k \in Locks, Released(k), NEW l \in Locks PROVE Range(lkq'[l]) \subseteq Range(lkq[l])
  <2>1. Range(wchan_wakeone(lkq[l])) \subseteq Range(lkq[l])
    BY <1>0, WakeOne DEF SyncType
  <2> QED BY <1>0, <1>r, <2>1 DEF Released, SyncType
<1>1. ASSUME NEW l \in Locks
      PROVE  Range(lkq'[l]) \subseteq Range(lkq[l]) \cup (IF Block(t) /\ Wants(t) = l THEN {t} ELSE {})
  <2>1. CASE Block(t)
    <3>1. Wants(t) \in Locks /\ lkq' = [lkq EXCEPT ![Wants(t)] = Append(@, t)]
      BY <1>w, <2>1 DEF Block, LockSleep
    <3>2. Range(Append(lkq[Wants(t)], t)) = Range(lkq[Wants(t)]) \cup {t}
      BY <1>0, <3>1, RangeAppend DEF SyncType
    <3> QED BY <1>0, <2>1, <3>1, <3>2 DEF SyncType
  <2>2. CASE lkq' = lkq
    BY <2>2
  <2>3. CASE \E k \in Locks : Released(k)
    BY <1>r, <2>3
  <2>4. CASE ~Block(t)
    <3>1. CASE Begin(t) \/ AddEntry(t) \/ vnode_decref(t) \/ ClearHasVnode(t)
      BY <2>2, <3>1, Zenon DEF Begin, AddEntry, vnode_decref, ClearHasVnode, syncvars
    <3>2. CASE Search(t) \/ FindEntry(t) \/ Unlink(t) \/ ReadLock(t)
      BY <2>2, <3>2 DEF Search, FindEntry, Unlink, ReadLock, Take, lock_acquire
    <3>3. CASE semfs_sem_insert(t) \/ semfs_getvnode(t) \/ Uninsert(t) \/ semfs_getsem(t) \/ ClearEntry(t)
      <4>1. Section(t, Wants(t))
        BY <3>3, Zenon DEF semfs_sem_insert, semfs_getvnode, Uninsert, semfs_getsem, ClearEntry, Locked
      <4>2. Wants(t) \in Locks
        <5>1. pc[t] \in {"insert", "getvnode", "uninsert", "getsem", "clear", "reclaim", "rsem", "wsem", "tsem"}
          BY <3>3, Zenon DEF semfs_sem_insert, semfs_getvnode, Uninsert, semfs_getsem, ClearEntry, At
        <5> QED BY <1>k, <5>1, WantsLock
      <4> QED BY <2>3, <4>1, <4>2, Zenon DEF Section
    <3>4. CASE SetLinked(t) \/ UnlockDir(t) \/ RemoveEntry(t) \/ ReclaimDestroys(t)
      BY <1>k, <2>3, <3>4 DEF SetLinked, UnlockDir, RemoveEntry, ReclaimDestroys, lock_release
    <3>5. CASE TestVnode(t) \/ RemoveDestroys(t) \/ Consume(t)
      <4>1. loc[t].sem \in Locks
        BY <1>k, <3>5 DEF TestVnode, RemoveDestroys, Consume, At, CallInv, Call
      <4> QED BY <2>2, <2>3, <3>5, <4>1, Zenon DEF TestVnode, RemoveDestroys, Consume, lock_release, cv_wait, syncvars
    <3>6. CASE semfs_reclaim(t)
      <4>1. Wants(t) \in Locks
        BY <1>k, <3>6, WantsLock, Zenon DEF semfs_reclaim, At
      <4> QED BY <2>2, <2>3, <3>6, <4>1 DEF semfs_reclaim, Locked, Section, Take, lock_acquire
    <3>7. CASE semfs_write(t) \/ semfs_truncate(t)
      <4>1. Wants(t) \in Locks
        BY <1>k, <3>7, WantsLock DEF semfs_write, semfs_truncate, At
      <4> QED BY <2>3, <3>7, <4>1 DEF semfs_write, semfs_truncate, Section
    <3> QED BY <2>4, <3>1, <3>2, <3>3, <3>4, <3>5, <3>6, <3>7, Zenon DEF Step
  <2> QED BY <2>1, <2>4
<1>2. ASSUME NEW o \in Objs
      PROVE  Range(cvq'[o]) \subseteq Range(cvq[o]) \cup (IF Consume(t) /\ loc[t].sem = o /\ ~Done(t) THEN {t} ELSE {})
  <2>1. CASE cvq' = cvq
    BY <2>1
  <2>2. CASE Consume(t) /\ cvq' # cvq
    <3>1. loc[t].sem \in Objs
      BY <2>2 DEF Consume, At, CallInv, Call
    <3>2. ~Done(t)
      <4>1. pc'[t] = "read"
        BY <2>2 DEF Consume, lock_release, Goto, TypeInv
      <4> QED BY <4>1 DEF Done, Goto, TypeInv
    <3>3. cvq' = [cvq EXCEPT ![loc[t].sem] = Append(@, t)]
      BY <2>2 DEF Consume, lock_release, cv_wait
    <3>4. Range(Append(cvq[loc[t].sem], t)) = Range(cvq[loc[t].sem]) \cup {t}
      BY <1>0, <3>1, RangeAppend DEF SyncType
    <3> QED BY <1>0, <2>2, <3>1, <3>2, <3>3, <3>4 DEF SyncType
  <2>3. CASE semfs_write(t) \/ semfs_truncate(t)
    <3>1. loc[t].sem \in Objs
      BY <2>3, Zenon DEF semfs_write, semfs_truncate, At, CallInv, Call
    <3>2. UNCHANGED cvq \/ cv_signal(loc[t].sem) \/ cv_broadcast(loc[t].sem)
      BY <2>3, Zenon DEF semfs_write, semfs_truncate, semfs_wakeup
    <3>3. Range(wchan_wakeone(cvq[o])) \subseteq Range(cvq[o])
      BY <1>0, WakeOne DEF SyncType
    <3>4. Range(<<>>) = {}
      BY DEF Range
    <3> QED BY <1>0, <3>1, <3>2, <3>3, <3>4, Zenon DEF SyncType, cv_signal, cv_broadcast
  <2>4. ~Consume(t) /\ ~semfs_write(t) /\ ~semfs_truncate(t) => cvq' = cvq
    BY Zenon DEF Step, Block, Begin, Search, semfs_sem_insert, AddEntry, semfs_getvnode, SetLinked, Uninsert, UnlockDir,
      FindEntry, semfs_getsem, Unlink, TestVnode, ClearEntry, RemoveDestroys, RemoveEntry, vnode_decref, semfs_reclaim,
      ClearHasVnode, ReclaimDestroys, ReadLock, LockSleep, Take, Locked, lock_acquire, lock_release, syncvars
  <2> QED BY <2>1, <2>2, <2>3, <2>4
<1> QED BY <1>n, <1>1, <1>2, Zenon

(* Sleeping threads stay where their queue says they are. *)
LEMMA SleepsStep ==
  ASSUME TypeInv, CallInv, LockInv, NEW t \in Threads, Step(t), NEW u \in Threads
  PROVE  Sleeps(u)'
<1>1. Sleeps(u)
  BY DEF LockInv
<1>2. CASE u # t
  <2>1. pc'[u] = pc[u] /\ loc'[u] = loc[u]
    BY <1>2, OthersStay
  <2>2. Wants(u)' = Wants(u)
    BY <2>1 DEF Wants
  <2>3. \A l \in Locks : u \in Range(lkq'[l]) => u \in Range(lkq[l])
    BY <1>2, QueueStep
  <2>4. \A o \in Objs : u \in Range(cvq'[o]) => u \in Range(cvq[o])
    BY <1>2, QueueStep
  <2> QED BY <1>1, <2>1, <2>2, <2>3, <2>4, Zenon DEF Sleeps
<1>3. CASE u = t
  <2>0. DOMAIN lkq = Locks /\ DOMAIN cvq = Objs /\ loc[t] \in Loc /\ DOMAIN loc = Threads /\ DOMAIN pc = Threads
    BY DEF TypeInv, Loc
  <2>1. (\A l \in Locks : t \notin Range(lkq[l])) /\ (\A o \in Objs : t \notin Range(cvq[o]))
    BY <2>0, QueueStep DEF Asleep
  <2>2. \A l \in Locks : t \in Range(lkq'[l]) => Block(t) /\ Wants(t) = l
    BY <2>1, QueueStep, Zenon
  <2>3. \A o \in Objs : t \in Range(cvq'[o]) => Consume(t) /\ loc[t].sem = o /\ ~Done(t)
    BY <2>1, QueueStep
  <2>4. Block(t) => Wants(t)' = Wants(t)
    BY DEF Block, Wants
  <2>5. Consume(t) /\ ~Done(t) => pc'[t] = "read" /\ loc'[t].sem = loc[t].sem
    BY <2>0 DEF Consume, Goto, Loc
  <2> QED BY <1>3, <2>2, <2>3, <2>4, <2>5 DEF Sleeps
<1> QED BY <1>2, <1>3, Zenon

(* At mount time no lock is held and no call is under way. *)
LEMMA BaseInit == Init => Base
<1> SUFFICES ASSUME Init PROVE Base
  OBVIOUS
<1>1. TypeInv
  <2>1. <<>> \in Seq(Threads)
    OBVIOUS
  <2> QED BY <2>1, NewRecords, SemfsAssumption DEF Init, TypeInv, Loc, Obj, Labels
<1>2. CallInv
  BY DEF Init, CallInv, Call, DirHeld
<1>3. LockInv
  <2>1. Range(<<>>) = {}
    BY DEF Range
  <2> QED BY <2>1, SemfsAssumption DEF Init, LockInv, Holds, Sleeps, Locks, DirHeld, SemHeld, TableHeld
<1> QED BY <1>1, <1>2, <1>3, Zenon DEF Base

(* Each operation keeps the lock discipline. *)
LEMMA BaseStep ==
  ASSUME LowestExists, Base, [Next]_vars
  PROVE  Base'
<1>1. ASSUME NEW t \in Threads, Step(t) PROVE Base'
  <2>1. TypeInv'
    BY <1>1, SyncStep, StateStep, Zenon DEF Base, TypeInv, SyncType, StateType, Loc, Obj
  <2>2. CallInv'
    BY <1>1, CallStep DEF Base
  <2>3. LockInv'
    BY <1>1, HoldsStep, SleepsStep DEF Base, LockInv
  <2> QED BY <2>1, <2>2, <2>3 DEF Base
<1>2. CASE UNCHANGED vars
  BY <1>2 DEF vars, syncvars, fsvars, Base, TypeInv, CallInv, Call, LockInv, Holds, Sleeps, Wants
<1> QED BY <1>1, <1>2 DEF Next

(* Each lock of semfs has the owner that the place in the code of its      *)
(* threads says, and only threads that wait for it sleep on it.              *)
THEOREM BaseSafe == Spec => []Base
<1>1. Base /\ [Next]_vars => Base'
  BY LeastNumber, BaseStep, Zenon
<1> QED BY <1>1, BaseInit, PTL DEF Spec

(* NoLockCycle: dirlock is taken before a sems_lock and a sems_lock before   *)
(* tablelock, in every operation of semfs_vnops.c and semfs_obj.c, so that   *)
(* no circle of owners wait for one another, whatever the number of threads. *)
THEOREM NoDeadlock == Spec => []NoLockCycle
<1>1. Base => NoLockCycle
  <2> SUFFICES ASSUME Base PROVE NoLockCycle
    OBVIOUS
  <2> DEFINE Rank(l) == IF l = "dir" THEN 1 ELSE IF l = "table" THEN 3 ELSE 2
  <2>1. ASSUME NEW t \in Threads, WaitsFor(t) # NULL
        PROVE  /\ WaitsFor(t) \in Threads
               /\ WaitsFor(WaitsFor(t)) # NULL => Rank(Wants(t)) < Rank(Wants(WaitsFor(t)))
    <3> DEFINE u == owner[Wants(t)]
    <3>1. Wants(t) # NULL /\ Wants(t) \in Locks /\ WaitsFor(t) = u
      BY <2>1, WantsLock DEF WaitsFor, Base
    <3>2. u \in Threads
      BY <2>1, <3>1 DEF Base, TypeInv
    <3> HIDE DEF u
    <3>3. Holds(u) /\ owner[Wants(t)] = u
      BY <3>2 DEF Base, LockInv, u
    <3>4. /\ pc[u] \in TableHeld => Wants(u) = NULL
          /\ pc[u] \in SemHeld => Wants(u) \in {NULL, "table"}
          /\ pc[u] \in DirHeld => Wants(u) # "dir"
      <4>1. pc[u] \in {"noVnode", "orphan", "test", "destroy", "consume"} => Wants(u) = NULL
        BY <3>2, WantsLock DEF Base
      <4>2. pc[u] = "clear" => Wants(u) = "table"
        BY <3>2, WantsLock DEF Base
      <4>3. pc[u] \in {"insert", "getvnode", "uninsert", "getsem"} => Wants(u) = "table"
        BY <3>2, WantsLock DEF Base
      <4>4. pc[u] = "lock" => Wants(u) \in Objs
        BY <3>2, WantsLock DEF Base
      <4>5. pc[u] \in {"dent", "link", "undent", "unlock"} => Wants(u) = NULL
        BY <3>2, WantsLock DEF Base
      <4> QED BY <4>1, <4>2, <4>3, <4>4, <4>5, SemfsAssumption DEF TableHeld, SemHeld, DirHeld
    <3>5. WaitsFor(u) # NULL => Wants(u) # NULL
      BY DEF WaitsFor
    <3>6. Rank(Wants(t)) < Rank(Wants(u)) \/ WaitsFor(u) = NULL
      <4>1. CASE Wants(t) = "dir"
        BY <3>3, <3>4, <4>1 DEF Holds
      <4>2. CASE Wants(t) = "table"
        BY <3>3, <3>4, <3>5, <4>2 DEF Holds
      <4>3. CASE Wants(t) \in Objs
        BY <3>3, <3>4, <3>5, <4>3, SemfsAssumption DEF Holds
      <4> QED BY <3>1, <4>1, <4>2, <4>3 DEF Locks
    <3> QED BY <3>1, <3>2, <3>6
  <2>2. \A l : Rank(l) \in Nat
    OBVIOUS
  <2>3. NULL \notin Threads
    BY SemfsAssumption
  <2> HIDE DEF Rank
  <2> DEFINE F(S) == {WaitsFor(t) : t \in S} \ {NULL}
  <2> SUFFICES ASSUME NEW t \in Threads
               PROVE  t \notin F({t}) /\ t \notin F(F({t})) /\ t \notin F(F(F({t})))
    BY DEF NoLockCycle
  <2> DEFINE u == WaitsFor(t)  v == WaitsFor(u)  w == WaitsFor(v)
  <2>4. F({t}) \subseteq {u} \ {NULL}
    OBVIOUS
  <2>5. F(F({t})) \subseteq (IF u = NULL THEN {} ELSE {v}) \ {NULL}
    BY <2>4
  <2>6. F(F(F({t}))) \subseteq (IF u = NULL \/ v = NULL THEN {} ELSE {w}) \ {NULL}
    BY <2>5
  <2>7. u # NULL => u # t
    BY <2>1, <2>2
  <2>8. u # NULL /\ v # NULL => v # t
    <3>1. SUFFICES ASSUME u # NULL, v # NULL, v = t PROVE FALSE
      OBVIOUS
    <3>2. u \in Threads /\ Rank(Wants(t)) < Rank(Wants(u))
      BY <2>1, <3>1
    <3>3. Rank(Wants(u)) < Rank(Wants(t))
      BY <2>1, <3>1, <3>2
    <3> QED BY <2>2, <3>2, <3>3
  <2>9. u # NULL /\ v # NULL /\ w # NULL => w # t
    <3>1. SUFFICES ASSUME u # NULL, v # NULL, w # NULL, w = t PROVE FALSE
      OBVIOUS
    <3>2. u \in Threads /\ Rank(Wants(t)) < Rank(Wants(u))
      BY <2>1, <3>1
    <3>3. v \in Threads /\ Rank(Wants(u)) < Rank(Wants(v))
      BY <2>1, <3>1, <3>2
    <3>4. Rank(Wants(v)) < Rank(Wants(t))
      BY <2>1, <3>1, <3>3
    <3> QED BY <2>2, <3>2, <3>3, <3>4
  <2> QED BY <2>3, <2>4, <2>5, <2>6, <2>7, <2>8, <2>9
<1> QED BY <1>1, BaseSafe, PTL
------------------------------------------------------------------------------
Openers(n) == {t \in Threads : fd[t] = n}
Reclaimers(n) == {t \in Threads : pc[t] \in Reclaiming /\ loc[t].num = n}

(* One thread more, one reference more. *)
LEMMA CountOne ==
  ASSUME NEW S \in SUBSET Threads, NEW x \in Threads \ S
  PROVE  Cardinality(S) \in Nat /\ Cardinality(S \cup {x}) = Cardinality(S) + 1
<1>1. IsFiniteSet(S)
  BY FS_Subset, SemfsAssumption, Zenon
<1> QED BY <1>1, FS_AddElement, FS_CardinalityType, Zenon

(* What a step does to a reference count and to the threads it counts. *)
RefsKept(t) ==
  /\ vref' = vref /\ fd' = fd
  /\ pc'[t] \in Reclaiming <=> pc[t] \in Reclaiming
  /\ pc[t] \in Reclaiming => loc'[t].num = loc[t].num

Opened(t, n) ==
  /\ vref' = [vref EXCEPT ![n] = @ + 1] /\ fd[t] = NULL /\ fd' = [fd EXCEPT ![t] = n]
  /\ pc[t] \notin Reclaiming /\ pc'[t] \notin Reclaiming /\ owner["table"] = NULL

Closed(t, n) ==
  /\ fd[t] = n /\ fd' = [fd EXCEPT ![t] = NULL] /\ pc[t] \notin Reclaiming
  /\ IF vref[n] > 1
       THEN vref' = [vref EXCEPT ![n] = @ - 1] /\ pc'[t] \notin Reclaiming
       ELSE vref' = vref /\ pc'[t] = "reclaim" /\ loc' = loc /\ loc[t].num = n

Dropped(t, n) ==
  /\ pc[t] \in Reclaiming /\ loc[t].num = n /\ pc'[t] \notin Reclaiming /\ fd' = fd
  /\ \/ pc[t] = "reclaim" /\ owner["table"] = NULL /\ vref[n] > 1 /\ vref' = [vref EXCEPT ![n] = @ - 1]
     \/ pc[t] = "orphan" /\ vref' = [vref EXCEPT ![n] = 0]

(* Every step keeps the references, opens one, closes one or reclaims the    *)
(* vnode of the last one.                                                    *)
LEMMA RefStep ==
  ASSUME Base, NEW t \in Threads, Step(t)
  PROVE  RefsKept(t) \/ \E n \in Nums : Opened(t, n) \/ Closed(t, n) \/ Dropped(t, n)
<1>0. StateType
  BY Zenon DEF Base, TypeInv, StateType, Loc, Obj
<1>c. Call(t)
  BY Zenon DEF Base, CallInv
<1>p. \A l \in Labels : Goto(t, l) => pc'[t] = l
  BY <1>0, Zenon DEF Goto, StateType
<1>i. Done(t) => pc'[t] = "idle"
  BY <1>p, Zenon DEF Done, Labels
<1>w. pc[t] \in {"getvnode", "reclaim"} => Wants(t) = "table"
  BY WantsLock, Zenon DEF Base
<1>1. CASE Block(t)
  BY <1>1, Zenon DEF Block, fsvars, RefsKept
<1>2. CASE Begin(t) \/ Search(t) \/ semfs_sem_insert(t) \/ AddEntry(t) \/ SetLinked(t) \/ Uninsert(t) \/ UnlockDir(t)
  <2>1. /\ pc[t] \in {"idle", "creat", "lookup", "insert", "dent", "link", "uninsert", "unlock"}
        /\ vref' = vref /\ fd' = fd
    BY <1>2, Zenon DEF Begin, Search, semfs_sem_insert, AddEntry, SetLinked, Uninsert, UnlockDir, At, fsvars
  <2>2. pc'[t] \in {"creat", "lookup", "remove", "rsem", "wsem", "tsem", "decref", "getvnode", "unlock", "insert",
                    "dent", "uninsert", "idle", "lost"}
    BY <1>p, <1>i, <1>2, Zenon DEF Begin, Search, semfs_sem_insert, AddEntry, SetLinked, Uninsert, UnlockDir, Labels
  <2> QED BY <2>1, <2>2, Zenon DEF RefsKept, Reclaiming
<1>3. CASE FindEntry(t) \/ Unlink(t) \/ TestVnode(t) \/ ClearEntry(t) \/ RemoveDestroys(t) \/ RemoveEntry(t)
           \/ ReadLock(t) \/ Consume(t) \/ semfs_write(t) \/ semfs_truncate(t)
  <2>1. /\ pc[t] \in {"remove", "lock", "test", "clear", "destroy", "undent", "read", "consume", "write", "truncate"}
        /\ vref' = vref /\ fd' = fd
    BY <1>3, Zenon DEF FindEntry, Unlink, TestVnode, ClearEntry, RemoveDestroys, RemoveEntry, ReadLock, Consume, semfs_write,
         semfs_truncate, At, fsvars
  <2>2. pc'[t] \in {"unlock", "getsem", "test", "undent", "clear", "destroy", "idle", "consume", "read"}
    BY <1>p, <1>i, <1>3 DEF FindEntry, Unlink, TestVnode, ClearEntry, RemoveDestroys, RemoveEntry, ReadLock, Consume,
         semfs_write, semfs_truncate, Labels
  <2> QED BY <2>1, <2>2, Zenon DEF RefsKept, Reclaiming
<1>4. CASE semfs_getsem(t)
  <2>1. pc[t] \in {"getsem", "rsem", "wsem", "tsem"} /\ vref' = vref /\ fd' = fd
    BY <1>4, Zenon DEF semfs_getsem, fsvars
  <2>2. pc'[t] \in {"lock", "read", "write", "truncate"}
    BY <1>p, <1>4, <2>1 DEF semfs_getsem, Labels
  <2> QED BY <2>1, <2>2, Zenon DEF RefsKept, Reclaiming
<1>5. CASE semfs_getvnode(t)
  <2>1. pc[t] = "getvnode" /\ fd[t] = NULL /\ loc[t].num \in Nums /\ owner["table"] = NULL
    BY <1>c, <1>w, <1>5 DEF semfs_getvnode, At, Call, DirHeld, Locked, Section
  <2>2. pc'[t] \in {"link", "uninsert", "unlock"}
    BY <1>p, <1>5, Zenon DEF semfs_getvnode, Labels
  <2>3. CASE vref' = [vref EXCEPT ![loc[t].num] = @ + 1] /\ fd' = [fd EXCEPT ![t] = loc[t].num]
    BY <2>1, <2>2, <2>3, Zenon DEF Opened, Reclaiming
  <2>4. CASE vref' = vref /\ fd' = fd
    BY <2>1, <2>2, <2>4, Zenon DEF RefsKept, Reclaiming
  <2> QED BY <1>5, <2>3, <2>4 DEF semfs_getvnode, Incref
<1>6. CASE vnode_decref(t)
  <2>1. pc[t] = "decref" /\ fd[t] = loc[t].num /\ loc[t].num \in Nums
    BY <1>c, <1>6, Zenon DEF vnode_decref, At, Call
  <2>2. Closed(t, loc[t].num)
    BY <1>i, <1>p, <1>6, <2>1, Zenon DEF vnode_decref, Closed, Reclaiming, Labels
  <2> QED BY <2>1, <2>2, Zenon
<1>7. CASE semfs_reclaim(t)
  <2>1. pc[t] = "reclaim" /\ loc[t].num \in Nums
    BY <1>c, <1>7, Zenon DEF semfs_reclaim, At, Call
  <2>2. CASE StillUsed(loc[t].num)
    <3>1. Dropped(t, loc[t].num)
      BY <1>i, <1>w, <1>7, <2>1, <2>2, Zenon DEF semfs_reclaim, StillUsed, Locked, Section, Dropped, Reclaiming
    <3> QED BY <2>1, <3>1, Zenon
  <2>3. CASE ~StillUsed(loc[t].num)
    BY <1>p, <1>7, <2>1, <2>3, Zenon DEF semfs_reclaim, RefsKept, Reclaiming, Labels
  <2> QED BY <2>2, <2>3, Zenon
<1>8. CASE ClearHasVnode(t)
  BY <1>p, <1>8, Zenon DEF ClearHasVnode, At, RefsKept, Reclaiming, Labels
<1>9. CASE ReclaimDestroys(t)
  <2>1. pc[t] = "orphan" /\ loc[t].num \in Nums
    BY <1>c, <1>9, Zenon DEF ReclaimDestroys, At, Call
  <2>2. Dropped(t, loc[t].num)
    BY <1>i, <1>9, <2>1, Zenon DEF ReclaimDestroys, Dropped, Reclaiming
  <2> QED BY <2>1, <2>2, Zenon
<1> QED BY <1>1, <1>2, <1>3, <1>4, <1>5, <1>6, <1>7, <1>8, <1>9 DEF Step

(* The count, and what it is at the last close. *)
RefsInv == RefsExact /\ LastInv

(* vref follows the files that are open and the reclaims under way. *)
LEMMA RefsStep ==
  ASSUME Base, RefsInv, NEW t \in Threads, Step(t)
  PROVE  RefsExact'
<1>0. /\ vref \in [Nums -> Nat] /\ fd \in [Threads -> Nums \cup {NULL}] /\ NULL \notin Nums
  BY SemfsAssumption, Zenon DEF Base, TypeInv
<1>e. \A n \in Nums : vref[n] = Cardinality(Openers(n)) + Cardinality(Reclaimers(n))
  BY Zenon DEF RefsInv, RefsExact, Openers, Reclaimers, Reclaiming
<1>f. \A n \in Nums : Cardinality(Openers(n)) \in Nat /\ Cardinality(Reclaimers(n)) \in Nat
  <2>1. \A n \in Nums : Openers(n) \subseteq Threads /\ Reclaimers(n) \subseteq Threads
    BY Zenon DEF Openers, Reclaimers
  <2> QED BY <2>1, FS_Subset, FS_CardinalityType, SemfsAssumption, Zenon
<1>u. \A u \in Threads : u # t => pc'[u] = pc[u] /\ loc'[u] = loc[u] /\ fd'[u] = fd[u]
  BY OthersStay, Zenon DEF Base
<1> SUFFICES ASSUME NEW n \in Nums
             PROVE  vref'[n] = Cardinality(Openers(n)') + Cardinality(Reclaimers(n)')
  BY Zenon DEF RefsExact, Openers, Reclaimers, Reclaiming
<1>g. /\ Openers(n) \subseteq Threads /\ Openers(n)' \subseteq Threads
      /\ Reclaimers(n) \subseteq Threads /\ Reclaimers(n)' \subseteq Threads
  BY Zenon DEF Openers, Reclaimers
<1>1. CASE RefsKept(t)
  <2>1. Openers(n)' = Openers(n) /\ Reclaimers(n)' = Reclaimers(n)
    BY <1>u, <1>1, Zenon DEF Openers, Reclaimers, RefsKept
  <2> QED BY <1>1, <1>e, <2>1, Zenon DEF RefsKept
<1>2. ASSUME NEW m \in Nums, Opened(t, m) PROVE vref'[n] = Cardinality(Openers(n)') + Cardinality(Reclaimers(n)')
  <2>1. Reclaimers(n)' = Reclaimers(n)
    BY <1>u, <1>2, Zenon DEF Reclaimers, Opened
  <2>2. t \notin Openers(n) /\ Openers(n)' = IF n = m THEN Openers(n) \cup {t} ELSE Openers(n)
    BY <1>0, <1>u, <1>2, Zenon DEF Openers, Opened
  <2>3. Cardinality(Openers(n)') = IF n = m THEN Cardinality(Openers(n)) + 1 ELSE Cardinality(Openers(n))
    BY <1>g, <2>2, CountOne, Zenon
  <2> QED BY <1>0, <1>2, <1>e, <1>f, <2>1, <2>3 DEF Opened
<1>3. ASSUME NEW m \in Nums, Closed(t, m) PROVE vref'[n] = Cardinality(Openers(n)') + Cardinality(Reclaimers(n)')
  <2>1. t \notin Openers(n)' /\ Openers(n) = IF n = m THEN Openers(n)' \cup {t} ELSE Openers(n)'
    BY <1>0, <1>u, <1>3, Zenon DEF Openers, Closed
  <2>2. /\ Cardinality(Openers(n)) = IF n = m THEN Cardinality(Openers(n)') + 1 ELSE Cardinality(Openers(n)')
        /\ Cardinality(Openers(n)') \in Nat
    BY <1>g, <2>1, CountOne, Zenon
  <2>3. CASE vref[m] > 1
    <3>1. Reclaimers(n)' = Reclaimers(n)
      BY <1>u, <1>3, <2>3, Zenon DEF Reclaimers, Closed
    <3> QED BY <1>0, <1>3, <1>e, <1>f, <2>2, <2>3, <3>1 DEF Closed
  <2>4. CASE ~(vref[m] > 1)
    <3>1. t \notin Reclaimers(n) /\ Reclaimers(n)' = IF n = m THEN Reclaimers(n) \cup {t} ELSE Reclaimers(n)
      BY <1>u, <1>3, <2>4, Zenon DEF Reclaimers, Closed, Reclaiming
    <3>2. Cardinality(Reclaimers(n)') = IF n = m THEN Cardinality(Reclaimers(n)) + 1 ELSE Cardinality(Reclaimers(n))
      BY <1>g, <3>1, CountOne
    <3> QED BY <1>0, <1>3, <1>e, <1>f, <2>2, <2>4, <3>2 DEF Closed
  <2> QED BY <2>3, <2>4, Zenon
<1>4. ASSUME NEW m \in Nums, Dropped(t, m) PROVE vref'[n] = Cardinality(Openers(n)') + Cardinality(Reclaimers(n)')
  <2>1. Openers(n)' = Openers(n)
    BY <1>u, <1>4 DEF Openers, Dropped
  <2>2. t \notin Reclaimers(n)' /\ Reclaimers(n) = IF n = m THEN Reclaimers(n)' \cup {t} ELSE Reclaimers(n)'
    BY <1>u, <1>4 DEF Reclaimers, Dropped
  <2>3. /\ Cardinality(Reclaimers(n)) = IF n = m THEN Cardinality(Reclaimers(n)') + 1 ELSE Cardinality(Reclaimers(n)')
        /\ Cardinality(Reclaimers(n)') \in Nat
    BY <1>g, <2>2, CountOne, Zenon
  <2>4. pc[t] = "orphan" => vref[m] = 1
    BY <1>4 DEF Dropped, RefsInv, LastInv, TableHeld
  <2> QED BY <1>0, <1>4, <1>e, <1>f, <2>1, <2>3, <2>4 DEF Dropped
<1> QED BY <1>1, <1>2, <1>3, <1>4, RefStep, Zenon

(* Between the decision of semfs_reclaim and its end, nobody else can get to *)
(* the vnode.                                                                *)
LEMMA LastStep ==
  ASSUME Base, RefsInv, NEW t \in Threads, Step(t)
  PROVE  LastInv'
<1>0. vref \in [Nums -> Nat] /\ NULL \notin Threads
  BY SemfsAssumption, Zenon DEF Base, TypeInv
<1>1. ASSUME NEW u \in Threads, pc'[u] \in TableHeld, pc[u] \in TableHeld, loc'[u].num = loc[u].num
      PROVE  vref'[loc'[u].num] = 1
  <2>1. vref[loc[u].num] = 1 /\ loc[u].num \in Nums /\ owner["table"] = u
    BY <1>1, Zenon DEF RefsInv, LastInv, Base, CallInv, Call, LockInv, Holds, TableHeld
  <2>2. CASE RefsKept(t)
    BY <1>1, <2>1, <2>2 DEF RefsKept
  <2>3. ASSUME NEW n \in Nums, Opened(t, n) PROVE FALSE
    BY <1>0, <2>1, <2>3 DEF Opened
  <2>4. ASSUME NEW n \in Nums, Closed(t, n) PROVE vref'[loc[u].num] = 1
    BY <1>0, <2>1, <2>4 DEF Closed
  <2>5. ASSUME NEW n \in Nums, Dropped(t, n) PROVE FALSE
    <3>1. pc[t] = "orphan"
      BY <1>0, <2>1, <2>5 DEF Dropped
    <3>2. owner["table"] = t
      BY <3>1, Zenon DEF Base, LockInv, Holds, TableHeld
    <3> QED BY <1>1, <2>1, <2>5, <3>2, Zenon DEF Dropped, Reclaiming, TableHeld
  <2> QED BY <1>1, <2>2, <2>3, <2>4, <2>5, RefStep
<1>2. ASSUME NEW u \in Threads, u # t, pc'[u] \in TableHeld PROVE vref'[loc'[u].num] = 1
  BY <1>1, <1>2, OthersStay DEF Base
<1>3. ASSUME pc'[t] \in TableHeld PROVE vref'[loc'[t].num] = 1
  <2>1. CASE pc[t] \in TableHeld /\ loc'[t].num = loc[t].num
    BY <1>1, <1>3, <2>1
  <2>2. CASE semfs_reclaim(t)
    <3>1. pc[t] = "reclaim" /\ loc[t].num \in Nums
      BY <2>2, Zenon DEF semfs_reclaim, At, Base, CallInv, Call
    <3>2. ~StillUsed(loc[t].num) /\ vref' = vref /\ loc' = loc
      BY <1>3, <2>2, Zenon DEF semfs_reclaim, Done, Goto, Base, TypeInv, TableHeld
    <3>3. vref[loc[t].num] >= 1
      <4> DEFINE n == loc[t].num
      <4>1. Reclaimers(n) = (Reclaimers(n) \ {t}) \cup {t} /\ Reclaimers(n) \ {t} \subseteq Threads
        BY <3>1 DEF Reclaimers, Reclaiming
      <4>2. Cardinality(Reclaimers(n)) = Cardinality(Reclaimers(n) \ {t}) + 1 /\ Cardinality(Reclaimers(n) \ {t}) \in Nat
        BY <4>1, CountOne
      <4>3. Cardinality(Openers(n)) \in Nat
        BY FS_Subset, FS_CardinalityType, SemfsAssumption DEF Openers
      <4>4. vref[n] = Cardinality(Openers(n)) + Cardinality(Reclaimers(n))
        BY <3>1, Zenon DEF RefsInv, RefsExact, Openers, Reclaimers, Reclaiming
      <4> QED BY <4>2, <4>3, <4>4
    <3> QED BY <1>0, <3>1, <3>2, <3>3 DEF StillUsed
  <2>3. semfs_reclaim(t) \/ (pc[t] \in TableHeld /\ loc'[t].num = loc[t].num)
    <3>1. CASE Keeps(t)
      <4>1. pc[t] \in TableHeld
        BY <1>3, <3>1, Zenon DEF Keeps
      <4> QED BY <1>3, <4>1, RefStep, Zenon DEF RefsKept, Opened, Closed, Dropped, Reclaiming, TableHeld
    <3>2. ASSUME NEW l \in Locks, Acquires(t, l) PROVE pc[t] = "reclaim" /\ pc'[t] = "noVnode"
      BY <1>3, <3>2, Zenon DEF Acquires, TableHeld
    <3>3. ASSUME NEW l \in Locks, Releases(t, l) PROVE FALSE
      BY <1>3, <3>3, Zenon DEF Releases, TableHeld
    <3>4. pc[t] = "reclaim" => semfs_reclaim(t) \/ Block(t)
      BY Zenon DEF Step, Begin, Search, semfs_sem_insert, AddEntry, semfs_getvnode, SetLinked, Uninsert, UnlockDir,
        FindEntry, semfs_getsem, Unlink, TestVnode, ClearEntry, RemoveDestroys, RemoveEntry, vnode_decref,
        ClearHasVnode, ReclaimDestroys, ReadLock, Consume, semfs_write, semfs_truncate, At
    <3>5. Block(t) => pc' = pc
      BY Zenon DEF Block
    <3> QED BY <3>1, <3>2, <3>3, <3>4, <3>5, OwnerStep DEF Base
  <2> QED BY <2>1, <2>2, <2>3
<1> QED BY <1>2, <1>3, Zenon DEF LastInv

(* The count of a semaphore's vnode is its open files and reclaims under     *)
(* way, and one that is being reclaimed has no other.                        *)
THEOREM RefsInvSafe == Spec => []RefsInv
<1>1. Init => RefsInv
  <2> SUFFICES ASSUME Init PROVE RefsInv
    BY Zenon
  <2>1. ASSUME NEW n \in Nums
        PROVE  /\ {t \in Threads : fd[t] = n} = {}
               /\ {t \in Threads : pc[t] \in {"reclaim", "noVnode", "orphan"} /\ loc[t].num = n} = {}
    BY SemfsAssumption, Zenon DEF Init
  <2>2. Cardinality({}) = 0
    BY FS_EmptySet, Zenon
  <2>3. \A n \in Nums : vref[n] = 0
    BY Zenon DEF Init
  <2>4. RefsExact
    BY <2>1, <2>2, <2>3 DEF RefsExact
  <2>5. LastInv
    BY Zenon DEF Init, LastInv, TableHeld
  <2> QED BY <2>4, <2>5 DEF RefsInv
<1>2. Base /\ RefsInv /\ [Next]_vars => RefsInv'
  <2> SUFFICES ASSUME Base, RefsInv, [Next]_vars PROVE RefsInv'
    BY Zenon
  <2>1. CASE Next
    BY <2>1, RefsStep, LastStep, Zenon DEF Next, RefsInv
  <2>2. CASE UNCHANGED vars
    BY <2>2, Zenon DEF vars, fsvars, RefsInv, RefsExact, LastInv
  <2> QED BY <2>1, <2>2, Zenon
<1> QED BY <1>1, <1>2, BaseSafe, PTL DEF Spec

(* RefsExact: the count of a vnode is the number of threads that have it     *)
(* open, plus the reference that vnode_decref handed to semfs_reclaim,       *)
(* although vnode_decref tests it before the table is locked.                *)
THEOREM RefsCounted == Spec => []RefsExact
<1>1. RefsInv => RefsExact
  BY Zenon DEF RefsInv
<1> QED BY <1>1, RefsInvSafe, PTL

(* An open vnode has references, and so has one that is being reclaimed; the *)
(* last reference is the only one.                                           *)
LEMMA Counted ==
  ASSUME Base, RefsInv
  PROVE  CountInv
<1> SUFFICES ASSUME NEW t \in Threads
             PROVE  /\ fd[t] # NULL => fd[t] \in Nums /\ vref[fd[t]] > 0
                    /\ pc[t] \in Reclaiming => vref[loc[t].num] > 0
                    /\ pc[t] \in TableHeld => \A u \in Threads : fd[u] # loc[t].num
  BY Zenon DEF CountInv, RefsInv
<1>1. ASSUME NEW n \in Nums
      PROVE  /\ Cardinality(Openers(n)) \in Nat /\ Cardinality(Reclaimers(n)) \in Nat
             /\ vref[n] = Cardinality(Openers(n)) + Cardinality(Reclaimers(n))
             /\ \A u \in Openers(n) : Cardinality(Openers(n)) > 0
             /\ \A u \in Reclaimers(n) : Cardinality(Reclaimers(n)) > 0
  <2>1. Openers(n) \subseteq Threads /\ Reclaimers(n) \subseteq Threads
    BY Zenon DEF Openers, Reclaimers
  <2>2. /\ IsFiniteSet(Openers(n)) /\ IsFiniteSet(Reclaimers(n))
        /\ Cardinality(Openers(n)) \in Nat /\ Cardinality(Reclaimers(n)) \in Nat
    BY <2>1, FS_Subset, FS_CardinalityType, SemfsAssumption
  <2>3. vref[n] = Cardinality(Openers(n)) + Cardinality(Reclaimers(n))
    BY Zenon DEF RefsInv, RefsExact, Openers, Reclaimers, Reclaiming
  <2>4. /\ Cardinality(Openers(n)) = 0 <=> Openers(n) = {}
        /\ Cardinality(Reclaimers(n)) = 0 <=> Reclaimers(n) = {}
    BY <2>2, FS_EmptySet
  <2> QED BY <2>2, <2>3, <2>4
<1>2. fd[t] # NULL => fd[t] \in Nums /\ t \in Openers(fd[t])
  BY Zenon DEF Base, TypeInv, Openers
<1>3. pc[t] \in Reclaiming => loc[t].num \in Nums /\ t \in Reclaimers(loc[t].num)
  BY Zenon DEF Base, CallInv, Call, Reclaimers, Reclaiming
<1>4. pc[t] \in TableHeld => vref[loc[t].num] = 1 /\ pc[t] \in Reclaiming
  BY Zenon DEF RefsInv, LastInv, TableHeld, Reclaiming
<1>5. ASSUME pc[t] \in TableHeld, NEW u \in Threads, fd[u] = loc[t].num PROVE FALSE
  <2>1. u \in Openers(loc[t].num)
    BY <1>5, Zenon DEF Openers
  <2> QED BY <1>1, <1>3, <1>4, <1>5, <2>1
<1>6. fd[t] # NULL => vref[fd[t]] > 0
  BY <1>1, <1>2
<1>7. pc[t] \in Reclaiming => vref[loc[t].num] > 0
  BY <1>1, <1>3
<1> QED BY <1>2, <1>5, <1>6, <1>7, Zenon

(* At mount time there is no semaphore. *)
LEMMA FsInit == Init => FsInv
<1> SUFFICES ASSUME Init PROVE FsInv
  BY Zenon
<1>1. TableInv
  BY DEF Init, TableInv
<1>2. LinkInv
  BY Zenon DEF Init, LinkInv, FreeObj
<1>3. DirInv
  BY Zenon DEF Init, DirInv, DirOf
<1>4. LiveInv
  BY Zenon DEF Init, LiveInv, FreeObj
<1> QED BY <1>1, <1>2, <1>3, <1>4 DEF FsInv

(* While no two threads remove names at a time, table, directory and        *)
(* semaphores agree: whatever semaphore a call holds on to is alive, and one *)
(* that is alive is in the table, named or open, or being made or removed.   *)
THEOREM FsSafe == Spec /\ []NoRemoveRace => []FsInv
<1>1. Base /\ RefsInv /\ FsInv /\ NoRemoveRace /\ Base' /\ [Next]_vars => FsInv'
  BY LeastNumber, Counted, FsStep, Zenon
<1> QED BY <1>1, FsInit, BaseSafe, RefsInvSafe, PTL DEF Spec

(* SemsAlive: where semfs_remove does not run between the decision of        *)
(* semfs_reclaim and its end, a semaphore structure is destroyed by nobody   *)
(* while a thread uses it, has its vnode open, holds or waits for its lock,  *)
(* or sleeps on its condition variable.                                      *)
THEOREM NoUseAfterFree == Spec /\ []NoRemoveRace => []SemsAlive
<1>1. Base /\ RefsInv /\ FsInv => SemsAlive
  <2> SUFFICES ASSUME Base, RefsInv, FsInv PROVE SemsAlive
    BY Zenon
  <2>0. NULL \notin Objs /\ NULL \notin Threads /\ StateType /\ SyncType
    BY SemfsAssumption, Zenon DEF Base, TypeInv, StateType, SyncType, Loc, Obj
  <2>t. /\ \A n \in Nums : semtab[n] # NULL => obj[semtab[n]].live
        /\ \A n \in Nums : vref[n] > 0 => semtab[n] # NULL
    BY Zenon DEF FsInv, TableInv
  <2>1. ASSUME NEW t \in Threads, InHand(t) # NULL PROVE obj[InHand(t)].live
    <3>0. Call(t) /\ DirOf(t)
      BY Zenon DEF Base, CallInv, FsInv, DirInv
    <3>1. CASE pc[t] \in {"insert", "destroy"}
      BY <3>0, <3>1, Zenon DEF DirOf, InHand
    <3>2. CASE pc[t] \in {"dent", "getvnode", "link", "uninsert", "lock", "test", "clear"}
      <4>1. InHand(t) = loc[t].sem /\ loc[t].num \in Nums
        BY <3>0, <3>2, Zenon DEF InHand, Call
      <4>2. semtab[loc[t].num] = loc[t].sem
        BY <2>1, <3>0, <3>2, <4>1, Zenon DEF DirOf, Call
      <4> QED BY <2>1, <2>t, <4>1, <4>2, Zenon
    <3>3. CASE pc[t] \in Using
      <4>1. InHand(t) = loc[t].sem /\ loc[t].num \in Nums /\ semtab[loc[t].num] = loc[t].sem
        BY <3>0, <3>3, Zenon DEF InHand, Call, Using, FsInv, LiveInv
      <4> QED BY <2>1, <2>t, <4>1, Zenon
    <3>4. CASE pc[t] \in Reclaiming
      <4>1. InHand(t) = semtab[loc[t].num] /\ loc[t].num \in Nums
        BY <3>0, <3>4, Zenon DEF InHand, Call, Reclaiming
      <4> QED BY <2>1, <2>t, <4>1, Zenon
    <3> QED BY <2>1, <3>1, <3>2, <3>3, <3>4 DEF InHand, Using, Reclaiming
  <2>2. ASSUME NEW o \in Objs, ~obj[o].live PROVE owner[o] = NULL /\ lkq[o] = <<>> /\ cvq[o] = <<>>
    <3>0. \A t \in Threads : InHand(t) # o
      BY <2>0, <2>1, <2>2, Zenon
    <3>o. o \in Locks
      BY Zenon DEF Locks
    <3>1. owner[o] = NULL
      <4>1. SUFFICES ASSUME owner[o] # NULL PROVE FALSE
        BY Zenon
      <4>2. PICK t \in Threads : owner[o] = t
        BY <2>0, <3>o, <4>1, Zenon DEF SyncType
      <4>3. pc[t] \in SemHeld /\ loc[t].sem = o
        BY <4>2, Zenon DEF Base, LockInv, Holds
      <4> QED BY <3>0, <4>3, Zenon DEF SemHeld, InHand
    <3>2. lkq[o] = <<>>
      <4>1. SUFFICES ASSUME lkq[o] # <<>> PROVE FALSE
        BY Zenon
      <4>2. PICK t \in Threads : t \in Range(lkq[o])
        BY <2>0, <3>o, <4>1, FirstWaits, Zenon DEF SyncType
      <4>3. Wants(t) = o
        BY <3>o, <4>2, Zenon DEF Base, LockInv, Sleeps
      <4>4. pc[t] \in {"lock", "read", "write", "truncate"} /\ loc[t].sem = o
        BY <4>3, SemfsAssumption, Zenon DEF Wants, LockAt
      <4> QED BY <3>0, <4>4, Zenon DEF InHand
    <3>3. cvq[o] = <<>>
      <4>1. SUFFICES ASSUME cvq[o] # <<>> PROVE FALSE
        BY Zenon
      <4>2. PICK t \in Threads : t \in Range(cvq[o])
        BY <2>0, <4>1, FirstWaits, Zenon DEF SyncType
      <4>3. pc[t] = "read" /\ loc[t].sem = o
        BY <4>2, Zenon DEF Base, LockInv, Sleeps
      <4> QED BY <3>0, <4>3, Zenon DEF InHand
    <3> QED BY <3>1, <3>2, <3>3, Zenon
  <2> QED BY <2>t, <2>1, <2>2, Zenon DEF SemsAlive
<1> QED BY <1>1, BaseSafe, RefsInvSafe, FsSafe, PTL

(* NoLeak: under the same condition, a live structure that is neither in the *)
(* directory nor open is in the hands of the thread that is creating or      *)
(* destroying it.                                                            *)
THEOREM NothingLeaks == Spec /\ []NoRemoveRace => []NoLeak
<1>1. Base /\ FsInv => NoLeak
  <2> SUFFICES ASSUME Base, FsInv, NEW o \in Objs, obj[o].live
               PROVE  \/ \E n \in Names : dents[n] # NULL /\ semtab[dents[n]] = o
                      \/ \E n \in Nums : semtab[n] = o /\ vref[n] > 0
                      \/ \E t \in Threads : InHand(t) = o
    BY Zenon DEF NoLeak
  <2>0. NULL \notin Objs /\ NULL \notin Nums /\ \A n \in Nums : vref[n] \in Nat
    BY SemfsAssumption, Zenon DEF Base, TypeInv
  <2>1. CASE \E t \in Threads : pc[t] \in {"insert", "destroy"} /\ loc[t].sem = o
    BY <2>1, Zenon DEF InHand
  <2>2. CASE \E n \in Nums : semtab[n] = o
    <3>1. PICK n \in Nums : semtab[n] = o
      BY <2>2, Zenon
    <3>2. CASE vref[n] > 0
      BY <3>1, <3>2, Zenon
    <3>3. CASE vref[n] = 0
      <4>1. CASE \E a \in Names : dents[a] = n
        BY <2>0, <3>1, <4>1, Zenon
      <4>2. CASE \E t \in Threads : pc[t] \in {"dent", "uninsert"} /\ loc[t].num = n
        <5>1. PICK t \in Threads : pc[t] \in {"dent", "uninsert"} /\ loc[t].num = n
          BY <4>2, Zenon
        <5>2. InHand(t) = loc[t].sem /\ semtab[n] = loc[t].sem
          BY <5>1, Zenon DEF FsInv, DirInv, DirOf, InHand
        <5> QED BY <3>1, <5>2, Zenon
      <4> QED BY <2>0, <3>1, <3>3, <4>1, <4>2, Zenon DEF FsInv, LiveInv
    <3> QED BY <2>0, <3>2, <3>3
  <2> QED BY <2>1, <2>2, Zenon DEF FsInv, LiveInv
<1> QED BY <1>1, BaseSafe, FsSafe, PTL

------------------------------------------------------------------------------
(* Only readers read. *)
LEMMA ReadersRead ==
  ASSUME Base, ReaderInv, NEW t \in Threads, Step(t), NEW u \in Threads, pc'[u] \in {"rsem", "read", "consume"}
  PROVE  u \in Readers
<1>1. CASE u # t
  BY <1>1, OthersStay, Zenon DEF Base, ReaderInv
<1>2. CASE u = t
  <2>p. \A l : Goto(t, l) => pc'[t] = l
    BY Zenon DEF Goto, Base, TypeInv
  <2>i. Done(t) => pc'[t] = "idle"
    BY <2>p, Zenon DEF Done
  <2>1. CASE pc[t] \in {"rsem", "read", "consume"}
    BY <1>2, <2>1, Zenon DEF ReaderInv
  <2>2. CASE pc[t] \notin {"rsem", "read", "consume"}
    <3>1. CASE Block(t)
      BY <1>2, <2>2, <3>1, Zenon DEF Block
    <3>2. CASE Begin(t)
      BY <1>2, <2>p, <3>2, Zenon DEF Begin
    <3>3. CASE semfs_getsem(t)
      <4>1. pc[t] \in {"getsem", "wsem", "tsem"}
        BY <2>2, <3>3, Zenon DEF semfs_getsem
      <4> QED BY <1>2, <2>p, <3>3, <4>1 DEF semfs_getsem
    <3>4. CASE Search(t) \/ semfs_sem_insert(t) \/ AddEntry(t) \/ semfs_getvnode(t) \/ SetLinked(t) \/ Uninsert(t)
               \/ UnlockDir(t) \/ FindEntry(t)
      BY <1>2, <2>p, <2>i, <3>4, Zenon DEF Search, semfs_sem_insert, AddEntry, semfs_getvnode, SetLinked, Uninsert, UnlockDir,
           FindEntry
    <3>5. CASE Unlink(t) \/ TestVnode(t) \/ ClearEntry(t) \/ RemoveDestroys(t) \/ RemoveEntry(t) \/ vnode_decref(t)
               \/ semfs_reclaim(t) \/ ClearHasVnode(t) \/ ReclaimDestroys(t) \/ semfs_write(t) \/ semfs_truncate(t)
      BY <1>2, <2>p, <2>i, <3>5, Zenon DEF Unlink, TestVnode, ClearEntry, RemoveDestroys, RemoveEntry, vnode_decref,
           semfs_reclaim, ClearHasVnode, ReclaimDestroys, semfs_write, semfs_truncate
    <3>6. ~ReadLock(t) /\ ~Consume(t)
      BY <2>2, Zenon DEF ReadLock, Consume, At
    <3> QED BY <3>1, <3>2, <3>3, <3>4, <3>5, <3>6 DEF Step
  <2> QED BY <2>1, <2>2, Zenon
<1> QED BY <1>1, <1>2, Zenon

(* Away from semfs_read, semfs_write and semfs_truncate counts only go to    *)
(* zero, with a structure that is made or destroyed.                         *)
LEMMA CountsStay ==
  ASSUME Base, NEW t \in Threads, Step(t), ~Consume(t), ~semfs_write(t), ~semfs_truncate(t), NEW o \in Objs
  PROVE  cvq' = cvq /\ (obj'[o].count = obj[o].count \/ obj'[o].count = 0)
<1>0. StateType
  BY Zenon DEF Base, TypeInv, StateType, Loc, Obj
<1>1. cvq' = cvq
  BY Zenon DEF Step, Block, Begin, Search, semfs_sem_insert, AddEntry, semfs_getvnode, SetLinked, Uninsert, UnlockDir,
    FindEntry, semfs_getsem, Unlink, TestVnode, ClearEntry, RemoveDestroys, RemoveEntry, vnode_decref, semfs_reclaim,
    ClearHasVnode, ReclaimDestroys, ReadLock, LockSleep, Take, Locked, lock_acquire, lock_release, syncvars
<1>2. \/ obj' = obj
      \/ \E x : obj' = [obj EXCEPT ![x] = FreeObj] \/ obj' = [obj EXCEPT ![x] = [FreeObj EXCEPT !.live = TRUE]]
      \/ \E x, b : obj' = [obj EXCEPT ![x].hasvnode = b] \/ obj' = [obj EXCEPT ![x].linked = b]
  BY Zenon DEF Step, Block, Begin, Search, semfs_sem_insert, AddEntry, semfs_getvnode, SetLinked, Uninsert, UnlockDir,
    FindEntry, semfs_getsem, Unlink, TestVnode, ClearEntry, RemoveDestroys, RemoveEntry, vnode_decref, semfs_reclaim,
    ClearHasVnode, ReclaimDestroys, ReadLock, fsvars
<1>3. obj[o] \in Obj /\ DOMAIN obj = Objs
  BY <1>0, Zenon DEF StateType
<1>4. ASSUME NEW x, obj' = [obj EXCEPT ![x] = FreeObj] \/ obj' = [obj EXCEPT ![x] = [FreeObj EXCEPT !.live = TRUE]]
      PROVE  obj'[o].count = obj[o].count \/ obj'[o].count = 0
  BY <1>3, <1>4 DEF FreeObj
<1>5. ASSUME NEW x, NEW b, obj' = [obj EXCEPT ![x].hasvnode = b] \/ obj' = [obj EXCEPT ![x].linked = b]
      PROVE  obj'[o].count = obj[o].count
  <2>1. CASE o # x
    BY <1>3, <1>5, <2>1, Zenon
  <2>2. CASE o = x
    <3>1. obj'[o] = [obj[o] EXCEPT !.hasvnode = b] \/ obj'[o] = [obj[o] EXCEPT !.linked = b]
      BY <1>3, <1>5, <2>2, Zenon
    <3> QED BY <1>3, <3>1, Zenon DEF Obj
  <2> QED BY <2>1, <2>2, Zenon
<1> QED BY <1>1, <1>2, <1>4, <1>5

(* ReadersServed, for the one reader it holds of: with two, semfs_wakeup can *)
(* leave one asleep over a positive count.  A write or a truncate wakes the  *)
(* reader before it makes the count positive.                                *)
THEOREM ReaderServed ==
  ASSUME \A r, s \in Readers : r = s
  PROVE  Spec => []ReadersServed
<1>1. Init => ReaderInv
  BY Zenon DEF Init, ReaderInv
<1>2. Base /\ ReaderInv /\ [Next]_vars => ReaderInv'
  <2> SUFFICES ASSUME Base, ReaderInv, [Next]_vars PROVE ReaderInv'
    BY Zenon
  <2>1. ASSUME NEW t \in Threads, Step(t), NEW o \in Objs, cvq'[o] # <<>>
        PROVE  Len(cvq'[o]) = 1 /\ obj'[o].count = 0
    <3>0. SyncType /\ StateType
      BY Zenon DEF Base, TypeInv, StateType, SyncType, Loc, Obj
    <3>c. Call(t) /\ cvq[o] \in Seq(Threads) /\ obj[o] \in Obj /\ obj[o].count \in Nat /\ UMOD \in Nat \ {0}
      BY <3>0, SemfsAssumption DEF Base, CallInv, SyncType, StateType, Obj
    <3>1. CASE ~Consume(t) /\ ~semfs_write(t) /\ ~semfs_truncate(t)
      BY <2>1, <3>1, CountsStay, Zenon DEF ReaderInv
    <3>2. CASE Consume(t)
      <4> DEFINE s == loc[t].sem  n == TakeUpTo(loc[t].amount, obj[s].count)
      <4>1. s \in Objs /\ obj[s].count \in Nat /\ loc[t].amount \in Nat /\ pc[t] = "consume" /\ obj[s] \in Obj
        BY <3>0, <3>2, <3>c, SemfsAssumption DEF Consume, At, Call, StateType, Loc, Obj
      <4>2. n \in {loc[t].amount, obj[s].count}
        BY <4>1, Lesser, Zenon DEF TakeUpTo
      <4>3. obj' = [obj EXCEPT ![s] = [obj[s] EXCEPT !.count = @ - n]]
        BY <3>2, Zenon DEF Consume
      <4>4. CASE o # s
        <5>1. obj'[o] = obj[o] /\ cvq'[o] = cvq[o]
          BY <3>0, <3>2, <4>3, <4>4, Zenon DEF Consume, lock_release, cv_wait, SyncType, StateType
        <5> QED BY <2>1, <5>1, Zenon DEF ReaderInv
      <4>5. CASE o = s
        <5>1. cvq[o] = <<>>
          <6>1. SUFFICES ASSUME cvq[o] # <<>> PROVE FALSE
            BY Zenon
          <6>2. PICK u \in Threads : u \in Range(cvq[o])
            BY <3>c, <6>1, FirstWaits, Zenon
          <6>3. pc[u] = "read"
            BY <6>2, Zenon DEF Base, LockInv, Sleeps
          <6>4. u = t
            BY <4>1, <6>3, Zenon DEF ReaderInv
          <6> QED BY <3>0, <4>1, <6>3, <6>4
        <5>2. n # loc[t].amount /\ cvq' = [cvq EXCEPT ![s] = Append(@, t)]
          BY <2>1, <3>2, <5>1, <4>5 DEF Consume, lock_release, cv_wait
        <5>3. obj'[o].count = 0
          <6>1. n = obj[s].count
            BY <4>2, <5>2, Zenon
          <6>2. obj'[o] = [obj[s] EXCEPT !.count = @ - n]
            BY <3>0, <4>1, <4>3, <4>5, Zenon DEF StateType
          <6> HIDE DEF n
          <6> QED BY <4>1, <6>1, <6>2 DEF Obj
        <5>4. Len(Append(<<>>, t)) = 1
          OBVIOUS
        <5> QED BY <3>0, <4>5, <5>1, <5>2, <5>3, <5>4 DEF SyncType
      <4> QED BY <4>4, <4>5, Zenon
    <3>3. CASE semfs_write(t) \/ semfs_truncate(t)
      <4> DEFINE s == loc[t].sem
      <4>1. s \in Objs /\ obj[s].count \in 0 .. UMOD - 1 /\ loc[t].amount \in 0 .. UMOD - 1 /\ obj[s] \in Obj
        BY <3>0, <3>3, <3>c, Zenon DEF semfs_write, semfs_truncate, At, Call, StateType, Loc, Obj
      <4>2. PICK k \in 0 .. UMOD - 1 :
              \/ cvq' = cvq /\ obj' = obj
              \/ semfs_wakeup(s, k) /\ obj' = [obj EXCEPT ![s].count = k]
        <5>1. (obj[s].count + loc[t].amount) % UMOD \in 0 .. UMOD - 1
          BY <3>c, <4>1
        <5> QED BY <3>3, <4>1, <5>1 DEF semfs_write, semfs_truncate
      <4>3. CASE cvq' = cvq /\ obj' = obj
        BY <2>1, <4>3 DEF ReaderInv
      <4>4. CASE semfs_wakeup(s, k) /\ obj' = [obj EXCEPT ![s].count = k]
        <5>1. cvq' = cvq \/ cv_signal(s) \/ cv_broadcast(s)
          BY <4>4, Zenon DEF semfs_wakeup
        <5>2. CASE o # s
          <6>1. obj'[o] = obj[o] /\ cvq'[o] = cvq[o]
            BY <3>0, <4>4, <5>1, <5>2 DEF cv_signal, cv_broadcast, SyncType, StateType
          <6> QED BY <2>1, <6>1 DEF ReaderInv
        <5>3. CASE o = s
          <6>1. obj'[o].count = k
            <7>1. obj'[o] = [obj[o] EXCEPT !.count = k]
              BY <3>0, <4>4, <5>3 DEF StateType
            <7> QED BY <3>c, <7>1, Zenon DEF Obj
          <6>2. CASE cvq[o] = <<>>
            BY <2>1, <3>0, <5>1, <5>3, <6>2 DEF cv_signal, cv_broadcast, wchan_wakeone, SyncType
          <6>3. CASE cvq[o] # <<>>
            <7>1. Len(cvq[o]) = 1 /\ obj[o].count = 0
              BY <6>3, Zenon DEF ReaderInv
            <7>2. Tail(cvq[o]) = <<>>
              <8>1. cvq[o] \in Seq(Threads)
                BY <3>c, Zenon
              <8>2. \A q \in Seq(Threads) : Len(q) = 1 => Tail(q) = <<>>
                <9> SUFFICES ASSUME NEW q \in Seq(Threads), Len(q) = 1 PROVE Tail(q) = <<>>
                  OBVIOUS
                <9>1. q # <<>>
                  OBVIOUS
                <9>2. Tail(q) \in Seq(Threads) /\ Len(Tail(q)) = Len(q) - 1
                  BY <9>1
                <9>3. Len(Tail(q)) = 0
                  BY <9>2
                <9>4. \A r \in Seq(Threads) : Len(r) = 0 => r = <<>>
                  OBVIOUS
                <9> QED BY <9>2, <9>3, <9>4, Zenon
              <8> QED BY <7>1, <8>1, <8>2, Zenon
            <7>3. ~cv_broadcast(s) /\ ~cv_signal(s)
              BY <2>1, <3>0, <5>3, <6>3, <7>2, Zenon DEF cv_signal, cv_broadcast, wchan_wakeone, SyncType
            <7>4. k = 0 /\ cvq' = cvq
              BY <4>4, <5>3, <7>1, <7>3 DEF semfs_wakeup
            <7> QED BY <6>1, <7>1, <7>4
          <6> QED BY <6>2, <6>3, Zenon
        <5> QED BY <5>2, <5>3
      <4> QED BY <4>2, <4>3, <4>4, Zenon
    <3> QED BY <3>1, <3>2, <3>3, Zenon
  <2>2. CASE Next
    BY <2>1, <2>2, ReadersRead, Zenon DEF Next, ReaderInv
  <2>3. CASE UNCHANGED vars
    BY <2>3, Zenon DEF vars, syncvars, fsvars, ReaderInv
  <2> QED BY <2>2, <2>3
<1>3. Base /\ ReaderInv => ReadersServed
  BY DEF ReaderInv, ReadersServed
<1> QED BY <1>1, <1>2, <1>3, BaseSafe, PTL DEF Spec
==============================================================================

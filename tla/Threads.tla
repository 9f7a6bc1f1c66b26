------------------------------- MODULE Threads -------------------------------
(* The thread system of kern/thread/thread.c: context switches, run queues,  *)
(* idling, interprocessor interrupts, migration, wait channels and zombies,  *)
(* under the timer of clock.c and with the semaphore of synch.c as the user  *)
(* of a wait channel.  A step is what a processor does between two points    *)
(* where another processor or an interrupt can see a difference: a stretch   *)
(* under one spinlock is one step unless a second lock is taken inside it.   *)
(* Spinning on a lock is waiting for the step to become enabled.  Interrupts *)
(* are taken only at pc "run" and "idle".                                    *)
EXTENDS Integers, Sequences, SequencesExt, FiniteSets

CONSTANTS
  NCPU,               \* number of processors
  Threads,            \* thread structures; a destroyed one may be reused
  NoThread,
  MIGRATE_HARDCLOCKS, \* hardclock calls between two migrations
  MaxCount,           \* bound on the semaphore count
  Calls               \* which of P, clocksleep, thread_fork and thread_exit threads call

CPUs == 0 .. NCPU - 1
NoCPU == -1
Chans == {"sem", "lbolt"}

VARIABLES
  pc,      \* what each processor is executing
  cur,     \* c_curthread: the thread whose stack the processor is on
  isidle,  \* c_isidle
  ipi,     \* IPI_UNIDLE is set in c_ipi_pending
  ticks,   \* c_hardclocks modulo MIGRATE_HARDCLOCKS
  runq,    \* c_runqueue
  rqlock,  \* holder of c_runqueue_lock
  zombies, \* c_zombies
  state,   \* t_state, "free" when there is no such thread
  tcpu,    \* t_cpu
  at,      \* the call a thread is inside of: none ("code"), P, clocksleep, thread_fork
  child,   \* the thread that thread_fork has made and not yet queued
  wchan,   \* wc_threads of the semaphore's channel and of lbolt
  wlock,   \* holder of the spinlock of each channel
  count,   \* sem_count
  chan,    \* the channel a processor is sleeping on or waking up
  waking,  \* threads a processor has taken off a channel and not yet queued
  mig      \* locals of thread_consider_migration

cpuvars  == <<pc, cur, isidle, ipi, ticks>>
rqvars   == <<runq, rqlock, zombies>>
thvars   == <<state, tcpu, at, child>>
semvars  == <<wchan, wlock, count, chan, waking>>
vars == <<cpuvars, rqvars, thvars, semvars, mig>>

NoMig == [i |-> 0, my |-> 0, total |-> 0, share |-> 0, send |-> 0, victims |-> <<>>]

TypeOK ==
  /\ pc \in [CPUs -> {"run", "sleep", "switch", "idle", "unidle", "exorcise", "wakeup",
                      "count", "take", "give", "putback", "yield"}]
  /\ cur \in [CPUs -> Threads] /\ isidle \in [CPUs -> BOOLEAN] /\ ipi \in [CPUs -> BOOLEAN]
  /\ ticks \in [CPUs -> 0 .. MIGRATE_HARDCLOCKS - 1]
  /\ \A c \in CPUs : /\ runq[c] \in Seq(Threads) /\ zombies[c] \in Seq(Threads)
                     /\ waking[c] \in Seq(Threads) /\ mig[c].victims \in Seq(Threads)
                     /\ mig[c].send >= 0
  /\ rqlock \in [CPUs -> CPUs \cup {NoCPU}] /\ wlock \in [Chans -> CPUs \cup {NoCPU}]
  /\ state \in [Threads -> {"free", "new", "run", "ready", "sleep", "zombie"}]
  /\ tcpu \in [Threads -> CPUs] /\ at \in [Threads -> {"code", "P", "clock", "fork"}]
  /\ child \in [Threads -> Threads \cup {NoThread}]
  /\ \A w \in Chans : wchan[w] \in Seq(Threads)
  /\ count \in 0 .. MaxCount /\ chan \in [CPUs -> Chans]

(* The state just after every secondary processor has come up: each runs     *)
(* the thread that thread_bootstrap or cpu_create gave it.                   *)
InitFrom(boot) ==
  /\ cur = boot
  /\ state = [t \in Threads |-> IF \E c \in CPUs : boot[c] = t THEN "run" ELSE "free"]
  /\ tcpu = [t \in Threads |-> IF \E c \in CPUs : boot[c] = t
                                 THEN CHOOSE c \in CPUs : boot[c] = t ELSE 0]
  /\ pc = [c \in CPUs |-> "run"]
  /\ isidle = [c \in CPUs |-> FALSE] /\ ipi = [c \in CPUs |-> FALSE]
  /\ ticks = [c \in CPUs |-> 0]
  /\ runq = [c \in CPUs |-> <<>>] /\ zombies = [c \in CPUs |-> <<>>]
  /\ rqlock = [c \in CPUs |-> NoCPU]
  /\ at = [t \in Threads |-> "code"] /\ child = [t \in Threads |-> NoThread]
  /\ wchan = [w \in Chans |-> <<>>] /\ wlock = [w \in Chans |-> NoCPU]
  /\ count = 0 /\ chan = [c \in CPUs |-> "sem"] /\ waking = [c \in CPUs |-> <<>>]
  /\ mig = [c \in CPUs |-> NoMig]

Init == \E boot \in [CPUs -> Threads] : IsInjective(boot) /\ InitFrom(boot)

Goto(c, l) == pc' = [pc EXCEPT ![c] = l]

(* spinlock_acquire and spinlock_release, which also turn interrupts off and on. *)
spinlock_acquire(lock, l, c) == lock[l] = NoCPU /\ lock' = [lock EXCEPT ![l] = c]
spinlock_release(lock, l, c) == lock[l] = c /\ lock' = [lock EXCEPT ![l] = NoCPU]

(* Where an interrupt handler, or a call that did not sleep, returns to: an  *)
(* idle processor goes round the loop of thread_switch.                      *)
Resume(c) == IF isidle[c] THEN "unidle" ELSE "run"

(* Running thread code, not in the middle of a call. *)
InCode(c) == pc[c] = "run" /\ at[cur[c]] = "code"

Called(call, c) == call \in Calls /\ InCode(c)
------------------------------------------------------------------------------
(* Whether d, whose run queue c has just added to, needs an interrupt.  The  *)
(* mutant looks at the wrong processor.                                      *)
SignalsFromIdle(c, d) == isidle[c] /\ d # c

Signals(c, d) == isidle[d] /\ d # c

(* Queueing a thread that another processor or this one makes runnable; the  *)
(* run queue lock is taken and released in the step.                         *)
thread_make_runnable(c, t) ==
  LET d == tcpu[t] IN
  /\ rqlock[d] = NoCPU
  /\ state' = [state EXCEPT ![t] = "ready"]
  /\ runq' = [runq EXCEPT ![d] = Append(@, t)]
  /\ ipi' = [ipi EXCEPT ![d] = @ \/ Signals(c, d)]

(* The first half of thread_switch: the current thread is put where newstate *)
(* says with the run queue locked, and the processor becomes idle.           *)
SwitchOut(c, newstate) ==
  /\ spinlock_acquire(rqlock, c, c)
  /\ state' = [state EXCEPT ![cur[c]] = newstate]
  /\ isidle' = [isidle EXCEPT ![c] = TRUE]
  /\ Goto(c, "switch")

(* The second half: take the next thread, continue on its stack and unlock   *)
(* (the tail of thread_switch, or thread_startup for a new thread).          *)
SwitchIn(c) ==
  /\ pc[c] = "switch" /\ runq[c] # <<>>
  /\ cur' = [cur EXCEPT ![c] = Head(runq[c])]
  /\ runq' = [runq EXCEPT ![c] = Tail(@)]
  /\ isidle' = [isidle EXCEPT ![c] = FALSE]
  /\ state' = [state EXCEPT ![Head(runq[c])] = "run"]
  /\ spinlock_release(rqlock, c, c)
  /\ Goto(c, "exorcise")
  /\ UNCHANGED <<ipi, ticks, zombies, tcpu, at, child, semvars, mig>>

GoIdle(c) ==
  /\ pc[c] = "switch" /\ runq[c] = <<>>
  /\ spinlock_release(rqlock, c, c)
  /\ Goto(c, "idle")
  /\ UNCHANGED <<cur, isidle, ipi, ticks, runq, zombies, thvars, semvars, mig>>

Unidle(c) ==
  /\ pc[c] = "unidle"
  /\ spinlock_acquire(rqlock, c, c)
  /\ Goto(c, "switch")
  /\ UNCHANGED <<cur, isidle, ipi, ticks, runq, zombies, thvars, semvars, mig>>

(* thread_destroy on every zombie of this processor. *)
exorcise(c) ==
  /\ pc[c] = "exorcise"
  /\ state' = [t \in Threads |-> IF t \in Range(zombies[c]) THEN "free" ELSE state[t]]
  /\ zombies' = [zombies EXCEPT ![c] = <<>>]
  /\ Goto(c, "run")
  /\ UNCHANGED <<cur, isidle, ipi, ticks, runq, rqlock, tcpu, at, child, semvars, mig>>

thread_exit(c) ==
  /\ Called("exit", c)
  /\ SwitchOut(c, "zombie")
  /\ zombies' = [zombies EXCEPT ![c] = Append(@, cur[c])]
  /\ UNCHANGED <<cur, ipi, ticks, runq, tcpu, at, child, semvars, mig>>

(* thread_fork up to the point where the new thread exists; the caller can   *)
(* be preempted and migrated before it queues the new thread.                *)
thread_fork(c) ==
  /\ Called("fork", c)
  /\ \E t \in Threads :
       /\ state[t] = "free"
       /\ state' = [state EXCEPT ![t] = "new"]
       /\ tcpu' = [tcpu EXCEPT ![t] = tcpu[cur[c]]]
       /\ child' = [child EXCEPT ![cur[c]] = t]
       /\ at' = [at EXCEPT ![cur[c]] = "fork", ![t] = "code"]
  /\ UNCHANGED <<cpuvars, rqvars, semvars, mig>>

ForkQueues(c) ==
  /\ pc[c] = "run" /\ at[cur[c]] = "fork"
  /\ thread_make_runnable(c, child[cur[c]])
  /\ at' = [at EXCEPT ![cur[c]] = "code"]
  /\ child' = [child EXCEPT ![cur[c]] = NoThread]
  /\ UNCHANGED <<pc, cur, isidle, ticks, rqlock, zombies, tcpu, semvars, mig>>
------------------------------------------------------------------------------
(* The semaphore: P once it holds the spinlock, whether on the first try or  *)
(* after wchan_sleep has returned.                                           *)
P(c) ==
  /\ Called("P", c) \/ (pc[c] = "run" /\ at[cur[c]] = "P")
  /\ wlock["sem"] = NoCPU
  /\ \/ /\ count > 0
        /\ count' = count - 1
        /\ at' = [at EXCEPT ![cur[c]] = "code"]
        /\ UNCHANGED <<pc, wlock, chan>>
     \/ /\ count = 0
        /\ spinlock_acquire(wlock, "sem", c)
        /\ at' = [at EXCEPT ![cur[c]] = "P"]
        /\ chan' = [chan EXCEPT ![c] = "sem"]
        /\ Goto(c, "sleep")
        /\ UNCHANGED count
  /\ UNCHANGED <<cur, isidle, ipi, ticks, rqvars, state, tcpu, child, wchan, waking, mig>>

(* clocksleep(1): sleep on lbolt, and leave once it is woken. *)
clocksleep(c) ==
  /\ pc[c] = "run"
  /\ wlock["lbolt"] = NoCPU
  /\ \/ /\ Called("clocksleep", c)
        /\ spinlock_acquire(wlock, "lbolt", c)
        /\ at' = [at EXCEPT ![cur[c]] = "clock"]
        /\ chan' = [chan EXCEPT ![c] = "lbolt"]
        /\ Goto(c, "sleep")
     \/ /\ at[cur[c]] = "clock"
        /\ at' = [at EXCEPT ![cur[c]] = "code"]
        /\ UNCHANGED <<pc, wlock, chan>>
  /\ UNCHANGED <<cur, isidle, ipi, ticks, rqvars, state, tcpu, child, wchan, count, waking, mig>>

(* wchan_sleep: thread_switch(S_SLEEP) queues the thread on the channel and  *)
(* only then unlocks the channel, with the run queue still locked.           *)
wchan_sleep(c) ==
  /\ pc[c] = "sleep"
  /\ SwitchOut(c, "sleep")
  /\ wchan' = [wchan EXCEPT ![chan[c]] = Append(@, cur[c])]
  /\ spinlock_release(wlock, chan[c], c)
  /\ UNCHANGED <<cur, ipi, ticks, runq, zombies, tcpu, at, child, count, chan, waking, mig>>

(* Taking the first n threads off channel w, to be made runnable with the    *)
(* channel still locked.                                                     *)
Wake(c, w, n) ==
  /\ wlock[w] = NoCPU
  /\ IF wchan[w] = <<>> \/ n = 0
       THEN Goto(c, Resume(c)) /\ UNCHANGED <<wlock, wchan, waking, chan>>
       ELSE /\ spinlock_acquire(wlock, w, c)
            /\ waking' = [waking EXCEPT ![c] = SubSeq(wchan[w], 1, n)]
            /\ wchan' = [wchan EXCEPT ![w] = SubSeq(@, n + 1, Len(@))]
            /\ chan' = [chan EXCEPT ![c] = w]
            /\ Goto(c, "wakeup")
  /\ UNCHANGED <<cur, isidle, ipi, ticks, rqvars, thvars, mig>>

(* How many sleepers V wakes.  In the first mutant only a V that finds the   *)
(* count zero wakes one, in the second none does.                            *)
WakeOneFromZero == IF count = 0 THEN 1 ELSE 0

WakeNone == 0

WakeOne == 1

(* V, called by the current thread or by the handler of a device interrupt. *)
V(c) ==
  /\ pc[c] \in {"run", "idle"}
  /\ count < MaxCount
  /\ count' = count + 1
  /\ Wake(c, "sem", WakeOne)

(* The once-a-second interrupt: wchan_wakeall on lbolt. *)
timerclock(c) ==
  /\ pc[c] \in {"run", "idle"}
  /\ Wake(c, "lbolt", Len(wchan["lbolt"]))
  /\ UNCHANGED count

(* wchan_wakeone and wchan_wakeall make the threads runnable one by one. *)
WakeNext(c) ==
  /\ pc[c] = "wakeup"
  /\ thread_make_runnable(c, Head(waking[c]))
  /\ waking' = [waking EXCEPT ![c] = Tail(@)]
  /\ IF Tail(waking[c]) = <<>>
       THEN spinlock_release(wlock, chan[c], c) /\ Goto(c, Resume(c))
       ELSE UNCHANGED <<wlock, pc>>
  /\ UNCHANGED <<cur, isidle, ticks, rqlock, zombies, tcpu, at, child, wchan, count, chan, mig>>
------------------------------------------------------------------------------
(* IPI_UNIDLE: waking the processor is all it does. *)
interprocessor_interrupt(c) ==
  /\ pc[c] \in {"run", "idle"} /\ ipi[c]
  /\ ipi' = [ipi EXCEPT ![c] = FALSE]
  /\ Goto(c, Resume(c))
  /\ UNCHANGED <<cur, isidle, ticks, rqvars, thvars, semvars, mig>>

(* The timer interrupt: migration every MIGRATE_HARDCLOCKS calls, then a yield. *)
hardclock(c) ==
  /\ pc[c] \in {"run", "idle"}
  /\ ticks' = [ticks EXCEPT ![c] = (@ + 1) % MIGRATE_HARDCLOCKS]
  /\ Goto(c, IF ticks'[c] = 0 THEN "count" ELSE "yield")
  /\ UNCHANGED <<cur, isidle, ipi, rqvars, thvars, semvars, mig>>

(* A thread that yields goes to the tail of the run queue, in the mutant to  *)
(* the head.                                                                 *)
RequeueAtHead(c) == <<cur[c]>> \o runq[c]

Requeue(c) == Append(runq[c], cur[c])

thread_yield(c) ==
  /\ pc[c] = "yield"
  /\ \/ /\ isidle[c]
        /\ Goto(c, "unidle")
        /\ UNCHANGED <<isidle, runq, rqlock, state>>
     \/ /\ ~isidle[c] /\ runq[c] = <<>> /\ rqlock[c] = NoCPU
        /\ Goto(c, "run")
        /\ UNCHANGED <<isidle, runq, rqlock, state>>
     \/ /\ ~isidle[c] /\ runq[c] # <<>>
        /\ SwitchOut(c, "ready")
        /\ runq' = [runq EXCEPT ![c] = Requeue(c)]
  /\ UNCHANGED <<cur, ipi, ticks, zombies, tcpu, at, child, semvars, mig>>

migvars == <<cur, isidle, ticks, rqlock, zombies, state, at, child, semvars>>

(* How many threads a processor with my on its run queue sends away. *)
ToSend(my, share) == IF my < share THEN 0 ELSE my - share

(* thread_consider_migration.  First the run queues are counted, each under  *)
(* its own lock; c sends what it has above one_share.                        *)
MigrationCounts(c) ==
  /\ pc[c] = "count"
  /\ rqlock[mig[c].i] = NoCPU
  /\ LET i == mig[c].i
         total == mig[c].total + Len(runq[i])
         my == IF i = c THEN Len(runq[c]) ELSE mig[c].my
         share == (total + NCPU - 1) \div NCPU
     IN IF i + 1 < NCPU
          THEN mig' = [mig EXCEPT ![c].i = i + 1, ![c].total = total, ![c].my = my] /\ UNCHANGED pc
          ELSE IF ToSend(my, share) = 0
            THEN mig' = [mig EXCEPT ![c] = NoMig] /\ Goto(c, "yield")
            ELSE /\ mig' = [mig EXCEPT ![c] = [NoMig EXCEPT !.share = share, !.send = ToSend(my, share)]]
                 /\ Goto(c, "take")
  /\ UNCHANGED <<ipi, runq, tcpu, migvars>>

(* The last to_send threads leave the run queue of c. *)
MigrationTakes(c) ==
  LET keep == Len(runq[c]) - mig[c].send IN
  /\ pc[c] = "take"
  /\ rqlock[c] = NoCPU
  /\ runq' = [runq EXCEPT ![c] = SubSeq(@, 1, keep)]
  /\ mig' = [mig EXCEPT ![c].victims = SubSeq(runq[c], keep + 1, Len(runq[c]))]
  /\ Goto(c, "give")
  /\ UNCHANGED <<ipi, tcpu, migvars>>

(* Mutant: curthread is migrated like any other thread. *)
OfferCurthread(c, r, t) ==
  IF r.send = 0 \/ Len(r.queue) >= mig[c].share THEN r
  ELSE [r EXCEPT !.victims = Tail(@), !.send = @ - 1, !.queue = Append(@, t)]

(* Mutant: the thread that is skipped is not kept. *)
OfferDropping(c, r, t) ==
  IF r.send = 0 \/ Len(r.queue) >= mig[c].share THEN r
  ELSE [r EXCEPT !.victims = Tail(@), !.send = @ - 1,
                 !.queue = IF t = cur[c] THEN @ ELSE Append(@, t)]

(* One victim is offered to a run queue that is short of one_share: it is    *)
(* sent there, or put at the end of the victims and skipped when its stack   *)
(* is the one this processor is on.                                          *)
Offer(c, r, t) ==
  IF r.send = 0 \/ Len(r.queue) >= mig[c].share THEN r
  ELSE IF t = cur[c]
    THEN [r EXCEPT !.victims = Append(Tail(@), t), !.send = @ - 1]
    ELSE [r EXCEPT !.victims = Tail(@), !.send = @ - 1, !.queue = Append(@, t)]

(* Passing over the processor's own run queue. *)
SkipSelf(c) == mig' = [mig EXCEPT ![c].i = @ + 1]

(* The victims go round the other processors, under the lock of each queue. *)
MigrationGives(c) ==
  LET i == mig[c].i
      start == [queue |-> runq[i], victims |-> mig[c].victims, send |-> mig[c].send]
      end == FoldLeft(LAMBDA r, t : Offer(c, r, t), start, mig[c].victims)
      given == Range(end.queue) \ Range(runq[i])
  IN
  /\ pc[c] = "give"
  /\ \/ /\ i < NCPU /\ mig[c].send > 0 /\ i # c
        /\ rqlock[i] = NoCPU
        /\ runq' = [runq EXCEPT ![i] = end.queue]
        /\ tcpu' = [t \in Threads |-> IF t \in given THEN i ELSE tcpu[t]]
        /\ ipi' = [ipi EXCEPT ![i] = @ \/ (given # {} /\ Signals(c, i))]
        /\ mig' = [mig EXCEPT ![c].i = i + 1, ![c].victims = end.victims, ![c].send = end.send]
        /\ UNCHANGED pc
     \/ /\ i < NCPU /\ mig[c].send > 0 /\ i = c
        /\ SkipSelf(c)
        /\ UNCHANGED <<pc, tcpu, runq, ipi>>
     \/ /\ i = NCPU \/ mig[c].send = 0
        /\ Goto(c, IF mig[c].victims = <<>> THEN "yield" ELSE "putback")
        /\ mig' = [mig EXCEPT ![c] = [NoMig EXCEPT !.victims = mig[c].victims]]
        /\ UNCHANGED <<tcpu, runq, ipi>>
  /\ UNCHANGED migvars

(* What could not be given away returns to the run queue of c. *)
MigrationPutsBack(c) ==
  /\ pc[c] = "putback"
  /\ rqlock[c] = NoCPU
  /\ runq' = [runq EXCEPT ![c] = @ \o mig[c].victims]
  /\ mig' = [mig EXCEPT ![c] = NoMig]
  /\ Goto(c, "yield")
  /\ UNCHANGED <<ipi, tcpu, migvars>>
------------------------------------------------------------------------------
(* What a processor does by itself once it has started: the kernel's own     *)
(* code between two choices of the thread it runs.                           *)
KernelStep(c) ==
  \/ SwitchIn(c) \/ GoIdle(c) \/ Unidle(c) \/ exorcise(c)
  \/ ForkQueues(c) \/ wchan_sleep(c) \/ WakeNext(c)
  \/ thread_yield(c)
  \/ MigrationCounts(c) \/ MigrationTakes(c) \/ MigrationGives(c) \/ MigrationPutsBack(c)

Next == \E c \in CPUs :
  \/ KernelStep(c)
  \/ thread_exit(c) \/ thread_fork(c)
  \/ P(c) \/ clocksleep(c) \/ V(c) \/ timerclock(c)
  \/ interprocessor_interrupt(c) \/ hardclock(c)

Spec == Init /\ [][Next]_vars
------------------------------------------------------------------------------
(* Every list a thread can be on, and the places of t on them. *)
Lists == {<<"runq", c, runq[c]>> : c \in CPUs} \cup {<<"zombies", c, zombies[c]>> : c \in CPUs}
         \cup {<<"waking", c, waking[c]>> : c \in CPUs} \cup {<<"victims", c, mig[c].victims>> : c \in CPUs}
         \cup {<<"wchan", w, wchan[w]>> : w \in Chans}
Places(t) == UNION {{<<l[1], l[2], i>> : i \in {j \in DOMAIN l[3] : l[3][j] = t}} : l \in Lists}

(* A thread that is ready, asleep or dead is on exactly one list, once, and  *)
(* any other thread on none: the single t_listnode is never linked twice and *)
(* no thread is lost between two lists while locks are dropped in migration  *)
(* and in the wakeups.                                                       *)
OnePlace == \A t \in Threads :
  Cardinality(Places(t)) = IF state[t] \in {"ready", "sleep", "zombie"} THEN 1 ELSE 0

(* No two processors are on one stack, no processor is on a destroyed one,   *)
(* and no other processor can be handed the stack a processor is on: the     *)
(* run queue lock is held from queueing the thread to leaving its stack, an  *)
(* idling processor keeps its last thread's stack, thread_consider_migration *)
(* skips curthread and exorcise runs on the next thread's stack.             *)
StacksExclusive == \A c \in CPUs :
  /\ state[cur[c]] # "free" /\ tcpu[cur[c]] = c
  /\ \A d \in CPUs \ {c} : cur[c] # cur[d] /\ cur[c] \notin Range(runq[d])
  /\ (isidle[c] /\ rqlock[c] # c) \/ state[cur[c]] = "run" \/ pc[c] = "switch"

(* A processor that waits in cpu_idle with work on its run queue has an      *)
(* interrupt on the way: whoever queued the work saw c_isidle under the run  *)
(* queue lock and posted IPI_UNIDLE.                                         *)
IdleWorkIsSignalled == \A c \in CPUs :
  pc[c] = "idle" /\ runq[c] # <<>> => ipi[c]

(* Threads that V has taken off the channel and that have not yet looked at  *)
(* the count again.                                                          *)
Woken == {t \in Threads : at[t] = "P" /\ t \notin Range(wchan["sem"])
                          /\ ~\E c \in CPUs : cur[c] = t /\ pc[c] = "sleep"}

(* No wakeup is lost: while threads sleep on the semaphore, every unit of    *)
(* its count has a thread that V woke and that is on its way to take it.     *)
(* wchan_sleep keeps the channel locked until the thread is on the list.     *)
NoLostWakeup == wchan["sem"] # <<>> => count <= Cardinality(Woken)
------------------------------------------------------------------------------
(* A processor goes on executing, and its timer interrupts it for ever.  A   *)
(* call it is inside of is finished; which call a thread makes next is free. *)
CallStep(c) ==
  \/ at[cur[c]] = "P" /\ P(c)
  \/ at[cur[c]] = "clock" /\ clocksleep(c)

Fairness == \A c \in CPUs :
  /\ SF_vars(KernelStep(c)) /\ SF_vars(CallStep(c))
  /\ SF_vars(hardclock(c))

FairSpec == Spec /\ Fairness

(* A thread that becomes ready runs: the run queue is first in first out, the *)
(* timer preempts, and neither migration nor idling strands it.              *)
ReadyRuns == \A t \in Threads : (state[t] = "ready") ~> (state[t] = "run")

(* A thread inside P is served while the count stays positive: the thread    *)
(* that V woke runs and takes the unit, or another thread took it before.    *)
SemaphoreServes == \A t \in Threads :
  (at[t] = "P" /\ count > 0) ~> (at[t] # "P" \/ count = 0)

(* No processor spins for ever or keeps a spinlock for ever: channel locks   *)
(* are taken before run queue locks everywhere.                              *)
SpinsEnd == \A c \in CPUs : (pc[c] \notin {"run", "idle"}) ~> (pc[c] \in {"run", "idle"})
==============================================================================

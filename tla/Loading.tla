------------------------------- MODULE Loading -------------------------------
(* A program from its ELF headers to its pages in memory: load_elf, the      *)
(* address space, vm_fault with the TLB, and load_page, which copies file    *)
(* bytes to the very page that is being set up and so faults on it again.    *)
(* One process; what happens to it while others run is Preempt.  A page and  *)
(* the frame it has go by one number.  A byte is the file offset it was read *)
(* from, Zero, or User once the program has stored to it.                    *)
EXTENDS Integers, Sequences, FiniteSets, FiniteSetsExt

CONSTANTS
  Programs,       \* sequences of program headers
  N_SEGMENTS, PAGE_SIZE, NUM_TLB,
  BLOCK,          \* VOP_READ copies to the next multiple of this offset
  STACK_MIN,      \* PROJECT_STACK_MIN_ADDRESS
  TOP,            \* MIPS_KSEG0
  Touched         \* the addresses that the program may access

ASSUME LoadingAssumption ==
  /\ N_SEGMENTS \in Nat \ {0} /\ PAGE_SIZE \in Nat \ {0} /\ NUM_TLB \in Nat \ {0} /\ BLOCK \in Nat \ {0}
  /\ STACK_MIN \in Nat /\ TOP \in Nat /\ STACK_MIN <= TOP /\ STACK_MIN % PAGE_SIZE = 0 /\ Touched \subseteq 0 .. TOP - 1
  /\ \A p \in Programs : Len(p) \in Nat /\ \A i \in 1 .. Len(p) : p[i].p_type = "load" =>
       p[i].p_vaddr \in Nat /\ p[i].p_memsz \in Nat /\ p[i].p_offset \in Nat /\ p[i].p_filesz \in Nat

VARIABLES
  prog, next,     \* the headers, and how many load_elf has seen
  segments,
  index,          \* shares its memory with ignore_permissions
  pages,          \* page -> "none", "in" (a frame) or "swap"
  fixed,          \* pages whose frame is fixed
  mem,            \* the bytes of each page
  tlb, next_victim,
  pc,             \* "elf", "user", "fault", "load", "write", "over", "overrun", "panic"
  at,             \* the fault address
  io              \* what is left of the copy: memory and file address, length

asvars == <<prog, next, segments>>
vars == <<asvars, index, pages, fixed, mem, tlb, next_victim, pc, at, io>>

Zero == -1
User == -2
ignore_permissions == index # 0
Page(a) == a \div PAGE_SIZE
Pages == 0 .. Page(TOP - 1)
Offsets == 0 .. PAGE_SIZE - 1
Slots == 0 .. NUM_TLB - 1
Invalid == [page |-> -1, dirty |-> FALSE]
NoSegment == [p_vaddr |-> TOP, p_memsz |-> 0, p_file_start |-> 0, p_file_end |-> 0, writable |-> FALSE]
NoIO == [to |-> 0, from |-> 0, len |-> 0]

TypeOK ==
  /\ segments \in Seq([p_vaddr : Nat, p_memsz : Nat, p_file_start : Nat, p_file_end : Nat, writable : BOOLEAN])
  /\ pages \in [Pages -> {"none", "in", "swap"}] /\ fixed \subseteq {g \in Pages : pages[g] = "in"}
  /\ mem \in [Pages -> [Offsets -> Int]]
  /\ tlb \in [Slots -> [page : Pages \cup {-1}, dirty : BOOLEAN]] /\ next_victim \in Slots
  /\ at \in 0 .. TOP - 1 /\ io.len \in 0 .. PAGE_SIZE

(* runprogram: a new address space for one of the programs. *)
Init ==
  /\ prog \in Programs /\ next = 0
  /\ segments = [i \in 1 .. N_SEGMENTS |-> NoSegment] /\ index = 0
  /\ pages = [g \in Pages |-> "none"] /\ fixed = {} /\ mem = [g \in Pages |-> [o \in Offsets |-> Zero]]
  /\ tlb = [s \in Slots |-> Invalid] /\ next_victim = 0
  /\ pc = "elf" /\ at = 0 /\ io = NoIO
------------------------------------------------------------------------------
(* as_define_region, and what load_elf adds to the region.  The test on      *)
(* index lets one region too many pass: segments[N_SEGMENTS] is the memory   *)
(* after the array.                                                          *)
Region(ph) ==
  [p_vaddr |-> ph.p_vaddr, p_memsz |-> ph.p_memsz, writable |-> ph.writable,
   p_file_start |-> ph.p_offset, p_file_end |-> ph.p_offset + ph.p_filesz]

as_define_region(ph) ==
  IF index >= N_SEGMENTS
    THEN pc' = (IF index > N_SEGMENTS THEN "panic" ELSE "overrun") /\ UNCHANGED <<next, segments, index>>
    ELSE /\ segments' = [segments EXCEPT ![index + 1] = Region(ph)]
         /\ index' = index + 1 /\ next' = next + 1 /\ UNCHANGED pc

(* load_elf: one header. *)
load_elf ==
  LET ph == prog[next + 1] IN
  /\ pc = "elf" /\ next < Len(prog)
  /\ \/ /\ ph.p_type = "skip"
        /\ next' = next + 1 /\ UNCHANGED <<segments, index, pc>>
     \/ /\ ph.p_type = "other"
        /\ pc' = "over" /\ UNCHANGED <<next, segments, index>>
     \/ ph.p_type = "load" /\ as_define_region(ph)
  /\ UNCHANGED <<prog, pages, fixed, mem, tlb, next_victim, at, io>>

(* enter_new_process: the first instruction is fetched from the entry point, *)
(* the start of the first segment.                                           *)
Enter ==
  /\ pc = "elf" /\ next = Len(prog)
  /\ pc' = "fault" /\ at' = segments[1].p_vaddr
  /\ UNCHANGED <<asvars, index, pages, fixed, mem, tlb, next_victim, io>>
------------------------------------------------------------------------------
Hit(g) == {s \in Slots : tlb[s].page = g}
Seg(a) == {i \in 1 .. N_SEGMENTS : a >= segments[i].p_vaddr /\ a < segments[i].p_vaddr + segments[i].p_memsz}
End(s) == s.p_vaddr + s.p_memsz

(* The program reads, fetches or stores.  Through a TLB entry the access is  *)
(* made, unless the entry forbids the store (VM_FAULT_READONLY ends the      *)
(* process); without one it faults.                                          *)
Access(a, store) ==
  /\ pc = "user"
  /\ at' = a
  /\ IF Hit(Page(a)) = {} THEN pc' = "fault" /\ UNCHANGED mem
     ELSE IF ~store THEN UNCHANGED <<pc, mem>>
     ELSE IF \E s \in Hit(Page(a)) : tlb[s].dirty
       THEN mem' = [mem EXCEPT ![Page(a)][a % PAGE_SIZE] = User] /\ UNCHANGED pc
       ELSE pc' = "over" /\ UNCHANGED mem
  /\ UNCHANGED <<asvars, index, pages, fixed, tlb, next_victim, io>>

(* The frames that may be swapped out. *)
Swappable == {h \in Pages : pages[h] = "in" /\ h \notin fixed}

(* get_user_frame, which may swap out a page of the process that is not      *)
(* fixed and takes its entry out of the TLB (invalidate_entry_by_paddr).     *)
GetFrame(g) ==
  \E out \in SUBSET Swappable :
    /\ Cardinality(out) <= 1
    /\ pages' = [h \in Pages |-> IF h = g THEN "in" ELSE IF h \in out THEN "swap" ELSE pages[h]]
    /\ tlb' = [s \in Slots |-> IF tlb[s].page \in out THEN Invalid ELSE tlb[s]]

(* load_page: how much to read of m bytes of memory when rest bytes of the   *)
(* segment are left in the file, and what to copy for a fault at address a.  *)
(* The mutant reads on past the end of the segment's file part.              *)
PastFileEnd(m, rest) == IF rest > 0 THEN m ELSE 0

f_size(m, rest) == Max({0, Min({m, rest})})

Copy(a) ==
  LET s == segments[Min(Seg(a))]
      v == Max({Page(a) * PAGE_SIZE, s.p_vaddr})
      m_size == Min({PAGE_SIZE - (v % PAGE_SIZE), End(s) - v})
      first_offset == s.p_file_start + (v - s.p_vaddr)
  IN [to |-> v, from |-> first_offset, len |-> f_size(m_size, s.p_file_end - first_offset)]

(* vm_fault up to the page's frame.  An address in no segment and below the  *)
(* stack ends the process.  A page without a frame gets a zeroed one; unless *)
(* it is on the stack or past the end of the file part it is loaded, with    *)
(* as_prepare_load before.                                                   *)
vm_fault ==
  LET g == Page(at) IN
  /\ pc = "fault"
  /\ \/ /\ Seg(at) = {} /\ at < STACK_MIN
        /\ pc' = "over" /\ UNCHANGED <<index, pages, fixed, mem, tlb, io>>
     \/ /\ Seg(at) # {} \/ at >= STACK_MIN
        /\ fixed' = fixed \cup {g}
        /\ \/ pages[g] = "in" /\ pc' = "write" /\ UNCHANGED <<index, pages, mem, tlb, io>>
           \/ pages[g] = "swap" /\ GetFrame(g) /\ pc' = "write" /\ UNCHANGED <<index, mem, io>>
           \/ /\ pages[g] = "none" /\ GetFrame(g)
              /\ mem' = [mem EXCEPT ![g] = [o \in Offsets |-> Zero]]
              /\ IF at >= STACK_MIN \/ Copy(at).len = 0
                   THEN pc' = "write" /\ UNCHANGED <<index, io>>
                   ELSE pc' = "load" /\ io' = Copy(at) /\ index' = 1
  /\ UNCHANGED <<asvars, next_victim, at>>

(* load_segment: VOP_READ copies a block through the TLB.  Without an entry  *)
(* the kernel faults on its own store; an entry that forbids it would end    *)
(* the process.  After the last block as_complete_load.                      *)
as_complete_load == 0

LoadBlock ==
  LET n == Min({io.len, BLOCK - (io.from % BLOCK)})
      g == Page(io.to)
      o == io.to % PAGE_SIZE
  IN
  /\ pc = "load" /\ Hit(g) # {}
  /\ IF \E s \in Hit(g) : tlb[s].dirty
       THEN /\ mem' = [mem EXCEPT ![g] = [p \in Offsets |-> IF p \in o .. o + n - 1 THEN io.from + (p - o) ELSE @[p]]]
            /\ IF n = io.len
                 THEN pc' = "write" /\ io' = NoIO /\ index' = as_complete_load
                 ELSE io' = [to |-> io.to + n, from |-> io.from + n, len |-> io.len - n] /\ UNCHANGED <<pc, index>>
       ELSE pc' = "panic" /\ UNCHANGED <<mem, io, index>>
  /\ UNCHANGED <<asvars, pages, fixed, tlb, next_victim, at>>

(* The read fails: load_page returns the error and the process exits. *)
LoadError ==
  /\ pc = "load"
  /\ pc' = "over" /\ io' = NoIO /\ index' = as_complete_load
  /\ UNCHANGED <<asvars, pages, fixed, mem, tlb, next_victim, at>>

(* The end of vm_fault: the slot that already maps the page or the first     *)
(* free one, whichever comes first, else the round-robin victim.  A page of  *)
(* a read-only segment may be stored to only while permissions are ignored,  *)
(* and a frame stays fixed that long.  The mutant always takes the first     *)
(* free slot.                                                                *)
FreeSlot(g) == {s \in Slots : tlb[s] = Invalid}

FreeOrSame(g) == {s \in Slots : tlb[s] = Invalid \/ tlb[s].page = g}

(* The mutants forget that the segment is read-only, and that it is loading. *)
AlwaysDirty(a) == TRUE

DirtyIfWritable(a) == Seg(a) = {} \/ segments[Min(Seg(a))].writable

Dirty(a) == ignore_permissions \/ Seg(a) = {} \/ segments[Min(Seg(a))].writable

tlb_write(a) ==
  LET g == Page(a)
      slot == IF FreeOrSame(g) # {} THEN Min(FreeOrSame(g)) ELSE next_victim
  IN
  /\ tlb' = [tlb EXCEPT ![slot] = [page |-> g, dirty |-> Dirty(a)]]
  /\ next_victim' = IF FreeOrSame(g) = {} THEN (next_victim + 1) % NUM_TLB ELSE next_victim
  /\ fixed' = IF ignore_permissions THEN fixed ELSE fixed \ {g}

EndFault ==
  /\ pc = "write"
  /\ tlb_write(at)
  /\ pc' = "user"
  /\ UNCHANGED <<asvars, index, pages, mem, at, io>>

(* The fault inside load_segment, with pt_lock held: the page has its frame. *)
NestedFault ==
  /\ pc = "load" /\ Hit(Page(io.to)) = {}
  /\ IF pages[Page(io.to)] = "in"
       THEN tlb_write(io.to) /\ UNCHANGED pc
       ELSE pc' = "panic" /\ UNCHANGED <<tlb, next_victim, fixed>>
  /\ UNCHANGED <<asvars, index, pages, mem, at, io>>

(* Another thread runs: frames that are not fixed may go to the swap file,   *)
(* and as_activate empties the TLB when the process is back.                 *)
Preempt ==
  /\ pc \in {"user", "fault", "load", "write"}
  /\ \E out \in SUBSET Swappable :
       pages' = [h \in Pages |-> IF h \in out THEN "swap" ELSE pages[h]]
  /\ tlb' = [s \in Slots |-> Invalid]
  /\ UNCHANGED <<asvars, index, fixed, mem, next_victim, pc, at, io>>

Next ==
  \/ load_elf \/ Enter
  \/ \E a \in Touched, store \in BOOLEAN : Access(a, store)
  \/ vm_fault \/ LoadBlock \/ LoadError \/ NestedFault \/ EndFault \/ Preempt

Spec == Init /\ [][Next]_vars
------------------------------------------------------------------------------
(* The image the headers ask for: byte a is the file's byte, or zero.  The   *)
(* reference that load_page's arithmetic is checked against.                 *)
Image(a) ==
  LET Of(ph) == ph.p_type = "load" /\ a \in ph.p_vaddr .. ph.p_vaddr + Min({ph.p_memsz, ph.p_filesz}) - 1 IN
  IF \E i \in DOMAIN prog : Of(prog[i])
    THEN LET ph == prog[CHOOSE i \in DOMAIN prog : Of(prog[i])] IN ph.p_offset + (a - ph.p_vaddr)
    ELSE Zero

Writable(a) == \/ a >= STACK_MIN
               \/ \E i \in DOMAIN prog : /\ prog[i].p_type = "load" /\ prog[i].writable
                                         /\ a \in prog[i].p_vaddr .. prog[i].p_vaddr + prog[i].p_memsz - 1

PageLoaded(g) == \A o \in Offsets : LET a == g * PAGE_SIZE + o IN
  (Seg(a) # {} \/ a >= STACK_MIN) => mem[g][o] = Image(a) \/ (mem[g][o] = User /\ Writable(a))

(* A page that the program can reach holds the bytes of its image, except    *)
(* those it has stored itself, whatever was preempted, swapped out or        *)
(* faulted in between; read-only bytes never change.                         *)
ImageLoaded == \A g \in Pages : pages[g] # "none" /\ ~(pc = "load" /\ g = Page(io.to)) /\ pc # "over" => PageLoaded(g)

(* Once the program runs, the TLB lets it store to no page of a read-only    *)
(* segment, though load_page needed such an entry a moment before and index, *)
(* nonzero after load_elf, is read as ignore_permissions.                    *)
TextProtected == pc = "user" =>
  \A s \in Slots : tlb[s].dirty => \E a \in tlb[s].page * PAGE_SIZE .. tlb[s].page * PAGE_SIZE + PAGE_SIZE - 1 : Writable(a)

(* A frame is fixed only during the fault that needs it: otherwise it could  *)
(* never be swapped out again.                                               *)
FixedInFault == pc = "user" => fixed = {}

(* No page is in the TLB twice, which the MIPS processor does not survive:   *)
(* the entry of the nested fault is found again by the outer one.            *)
TlbUnique == \A s, u \in Slots : s # u /\ tlb[s] # Invalid => tlb[s].page # tlb[u].page

(* What TlbUnique rests on.  An entry that is not Invalid names a page.  A   *)
(* fault starts with the page not in the TLB; when the nested fault has      *)
(* entered it, no slot before its own is free, so the search of the outer    *)
(* one stops there.  The rest says that addresses are natural numbers.       *)
TlbInv ==
  /\ prog \in Programs /\ next \in Nat /\ index \in Nat /\ at \in Nat
  /\ DOMAIN segments = 1 .. N_SEGMENTS
  /\ \A i \in 1 .. N_SEGMENTS :
       /\ segments[i].p_vaddr \in Nat /\ segments[i].p_memsz \in Nat
       /\ segments[i].p_file_start \in Nat /\ segments[i].p_file_end \in Nat
  /\ pc = "load" => io.to \in Nat /\ io.from \in Nat /\ io.len \in Nat
  /\ next_victim \in Slots /\ DOMAIN tlb = Slots
  /\ \A s \in Slots : tlb[s] = Invalid \/ tlb[s].page \in Nat
  /\ pc = "elf" => \A s \in Slots : tlb[s] = Invalid
  /\ pc = "fault" => Hit(Page(at)) = {}
  /\ pc \in {"load", "write"} => \A s \in Hit(Page(at)), u \in Slots : u < s => tlb[u] # Invalid
  /\ TlbUnique

(* The assertions of pt_get_frame_from_page under pt_lock, and the copy      *)
(* itself: load_segment stays on the page that vm_fault provided, and finds  *)
(* it writable.                                                              *)
LoadSucceeds == pc # "panic" /\ (pc = "load" => Page(io.to) = Page(at) /\ Page(io.to + io.len - 1) = Page(at))

(* as_define_region, "Too many regions!": a region that does not fit in      *)
(* segments is refused.                                                      *)
RegionsFit == pc # "overrun"
------------------------------------------------------------------------------
(* What TextProtected, LoadSucceeds and ImageLoaded rest on.  A linker makes *)
(* such programs: the segments share no page with one another or with the    *)
(* stack, and the first one, where the program starts, has file bytes.       *)
Loads(p) == {i \in 1 .. Len(p) : p[i].p_type = "load"}
Bytes(ph) == ph.p_vaddr .. ph.p_vaddr + ph.p_memsz - 1

WellLinked(p) ==
  /\ \A i \in Loads(p) : p[i].p_vaddr + p[i].p_memsz <= STACK_MIN /\ p[i].writable \in BOOLEAN
  /\ \A i, j \in Loads(p) : i # j => \A a \in Bytes(p[i]), b \in Bytes(p[j]) : Page(a) # Page(b)
  /\ \E i \in Loads(p) : p[i].p_memsz > 0 /\ p[i].p_filesz > 0 /\ \A j \in Loads(p) : i <= j

(* The segments are regions of headers that load_elf has seen, and the first *)
(* one is the first such header's.                                           *)
CodeFirst == segments[1].p_memsz > 0 /\ segments[1].p_file_end > segments[1].p_file_start

SegInv ==
  /\ next <= Len(prog) /\ index <= N_SEGMENTS
  /\ \A i \in 1 .. N_SEGMENTS : segments[i] = NoSegment \/ \E j \in Loads(prog) : segments[i] = Region(prog[j])
  /\ pc = "elf" => IF index = 0 THEN \A j \in Loads(prog) : j > next ELSE CodeFirst

(* The page of the fault is in memory and fixed while it is loaded, and the  *)
(* TLB lets the copy store to it; permissions are ignored only then and      *)
(* before the first fault, which is at the start of the code and loads it.   *)
Running == pc \in {"user", "fault", "load", "write"}
MayStore(g) == \E a \in g * PAGE_SIZE .. g * PAGE_SIZE + PAGE_SIZE - 1 : Writable(a)
Untouched == \A g \in Pages : pages[g] = "none"

FaultInv ==
  /\ pages \in [Pages -> {"none", "in", "swap"}] /\ mem \in [Pages -> [Offsets -> Int]]
  /\ pc # "panic" /\ (pc \in {"elf", "overrun"} => Untouched)
  /\ Running => at < TOP
  /\ pc \in {"user", "write"} => index = 0
  /\ pc = "fault" /\ index # 0 => CodeFirst /\ at = segments[1].p_vaddr /\ Untouched
  /\ pc = "load" => index # 0 /\ Seg(at) # {} /\ at < STACK_MIN /\ \A s \in Hit(Page(at)) : tlb[s].dirty
  /\ pc \in {"load", "write"} =>
       Page(at) \in fixed /\ pages[Page(at)] = "in" /\ (Seg(at) # {} \/ at >= STACK_MIN)
  /\ Running => \A s \in Slots : tlb[s].dirty => MayStore(tlb[s].page) \/ (pc \in {"load", "write"} /\ tlb[s].page = Page(at))

(* What is left of the copy lies in the page of the fault and in both the    *)
(* memory and the file part of its segment, and ends with one of the three;  *)
(* the bytes before it are the file's, the others still zero.                *)
CopyInv ==
  pc = "load" =>
    LET s == segments[Min(Seg(at))]
        lo == Page(at) * PAGE_SIZE
    IN
    /\ io.len > 0 /\ io.to >= lo /\ io.to >= s.p_vaddr /\ io.from = s.p_file_start + (io.to - s.p_vaddr)
    /\ io.to + io.len <= lo + PAGE_SIZE /\ io.to + io.len <= End(s) /\ io.from + io.len <= s.p_file_end
    /\ io.to + io.len = lo + PAGE_SIZE \/ io.to + io.len = End(s) \/ io.from + io.len = s.p_file_end
    /\ \A o \in Offsets :
         /\ lo + o >= s.p_vaddr /\ lo + o < io.to => mem[Page(at)][o] = s.p_file_start + (lo + o - s.p_vaddr)
         /\ lo + o >= io.to => mem[Page(at)][o] = Zero
==============================================================================

------------------------------- MODULE Kmalloc -------------------------------
(* The kernel heap of kern/vm/kmalloc.c: blocks of a few sizes cut from      *)
(* pages that alloc_kpages provides, each page described by a pageref.       *)
(* Everything done in one hold of kmalloc_spinlock is one step; the lock is  *)
(* not held around alloc_kpages and free_kpages.  An address is a number, a  *)
(* pageref the pair of its root and its index.                               *)
EXTENDS Integers, Sequences, SequencesExt, FiniteSets, FiniteSetsExt, Functions, TLC

CONSTANTS
  Threads,
  NPages,              \* pages that alloc_kpages has to give, numbered from 1
  PAGE_SIZE, sizes,    \* sizes: block types, a sequence from type 1
  Requests,            \* the sizes that are asked for
  NUM_PAGEREFPAGES, NPAGEREFS_PER_PAGE

VARIABLES
  free,       \* pages that alloc_kpages can give
  held,       \* address -> bytes, for the pointers kmalloc has returned
  root,       \* kheaproots
  pr,         \* the pagerefs in use for a page, freelist included
  sizebases, allbase,
  pc, loc

heap == <<root, pr, sizebases, allbase>>
vars == <<free, held, heap, pc, loc>>

Pages == 1 .. NPages
Types == 1 .. Len(sizes)
LARGEST_SUBPAGE_SIZE == sizes[Len(sizes)]
Roots == 0 .. NUM_PAGEREFPAGES - 1
Refs == Roots \X (0 .. NPAGEREFS_PER_PAGE - 1)
NoPage == 0
Nothing == [blk |-> 0, page |-> NoPage, ref |-> <<0, 0>>, va |-> NoPage]
NBlocks(blk) == PAGE_SIZE \div sizes[blk]

TypeOK ==
  /\ free \subseteq Pages
  /\ \A r \in Roots : root[r].page \in Pages \cup {NoPage} /\ root[r].numinuse \in 0 .. NPAGEREFS_PER_PAGE
  /\ DOMAIN pr \subseteq Refs /\ \A b \in Types : sizebases[b] \in Seq(DOMAIN pr)
  /\ allbase \in Seq(DOMAIN pr)
  /\ pc \in [Threads -> {"idle", "page", "ref", "refpage", "install", "spare", "link", "giveback", "freepage"}]

Init ==
  /\ free = Pages /\ held = <<>>
  /\ root = [r \in Roots |-> [page |-> NoPage, inuse |-> {}, numinuse |-> 0]]
  /\ pr = <<>> /\ sizebases = [b \in Types |-> <<>>] /\ allbase = <<>>
  /\ pc = [t \in Threads |-> "idle"] /\ loc = [t \in Threads |-> Nothing]

Goto(t, l) == pc' = [pc EXCEPT ![t] = l]
Done(t) == Goto(t, "idle") /\ loc' = [loc EXCEPT ![t] = Nothing]
Without(f, x) == Restrict(f, DOMAIN f \ {x})
------------------------------------------------------------------------------
(* alloc_kpages: n adjoining pages.  Page allocation is the subject of       *)
(* FramePool.                                                                *)
Run(p, n) == p .. p + n - 1
Runs(n) == {p \in Pages : Run(p, n) \subseteq free}

(* blocktype: the smallest that fits. *)
blocktype(sz) == Min({b \in Types : sz <= sizes[b]})

(* From the label doalloc: take the head of the freelist of r.  The mutant   *)
(* leaves it there.                                                          *)
PopNothing(p) == [p EXCEPT !.nfree = @ - 1]

Pop(p) == [p EXCEPT !.nfree = @ - 1, !.fl = Tail(@)]

doalloc(prs, r) ==
  /\ pr' = [prs EXCEPT ![r] = Pop(@)]
  /\ held' = (prs[r].page * PAGE_SIZE + Head(prs[r].fl)) :> sizes[prs[r].blk] @@ held

(* kmalloc, and subpage_kmalloc up to its first release of the lock. *)
kmalloc(t, sz) ==
  LET b == blocktype(sz)
      some == SelectSeq(sizebases[b], LAMBDA r : pr[r].nfree > 0)
  IN
  /\ pc[t] = "idle"
  /\ IF sz >= LARGEST_SUBPAGE_SIZE
       THEN LET n == (sz + PAGE_SIZE - 1) \div PAGE_SIZE IN
            /\ \E p \in Runs(n) : /\ free' = free \ Run(p, n)
                                  /\ held' = (p * PAGE_SIZE) :> (n * PAGE_SIZE) @@ held
            /\ UNCHANGED <<heap, pc, loc>>
       ELSE /\ IF some # <<>>
                 THEN doalloc(pr, Head(some)) /\ UNCHANGED <<pc, loc>>
                 ELSE Goto(t, "page") /\ loc' = [loc EXCEPT ![t].blk = b] /\ UNCHANGED <<pr, held>>
            /\ UNCHANGED <<free, root, sizebases, allbase>>

(* The new page; kmalloc returns NULL when there is none. *)
GetPage(t) ==
  /\ pc[t] = "page"
  /\ \/ \E p \in free :
          /\ free' = free \ {p}
          /\ loc' = [loc EXCEPT ![t].page = p]
          /\ Goto(t, "ref")
     \/ Done(t) /\ UNCHANGED free
  /\ UNCHANGED <<held, heap>>

(* The freelist of a new page: all its blocks, the last one first. *)
FreshList(b) == [i \in 1 .. NBlocks(b) |-> (NBlocks(b) - i) * sizes[b]]

(* The end of subpage_kmalloc: the pageref goes in front of both lists and   *)
(* one block is taken.                                                       *)
Link(t, r) ==
  LET b == loc[t].blk
      new == [page |-> loc[t].page, blk |-> b, nfree |-> NBlocks(b), fl |-> FreshList(b)]
  IN
  /\ doalloc(r :> new @@ pr, r)
  /\ sizebases' = [sizebases EXCEPT ![b] = <<r>> \o @]
  /\ allbase' = <<r>> \o allbase
  /\ Done(t)

(* allocpageref marks the first free pageref and then, for a root without a  *)
(* page, asks for one with the lock released.                                *)
allocpageref(t) ==
  LET room == {r \in Roots : root[r].numinuse < NPAGEREFS_PER_PAGE}
      r == Min(room)
      i == Min((0 .. NPAGEREFS_PER_PAGE - 1) \ root[r].inuse)
  IN
  /\ pc[t] = "ref"
  /\ IF room = {}
       THEN Goto(t, "giveback") /\ UNCHANGED <<heap, held, loc>>
       ELSE /\ root' = [root EXCEPT ![r].inuse = @ \cup {i}, ![r].numinuse = @ + 1]
            /\ IF root[r].page = NoPage
                 THEN /\ Goto(t, "refpage") /\ loc' = [loc EXCEPT ![t].ref = <<r, i>>]
                      /\ UNCHANGED <<pr, sizebases, allbase, held>>
                 ELSE Link(t, <<r, i>>)
  /\ UNCHANGED free

(* allocpagerefpage: alloc_kpages, and back under the lock. *)
allocpagerefpage(t) ==
  /\ pc[t] = "refpage"
  /\ \/ \E p \in free : free' = free \ {p} /\ loc' = [loc EXCEPT ![t].va = p]
     \/ UNCHANGED <<free, loc>>
  /\ Goto(t, "install")
  /\ UNCHANGED <<held, heap>>

(* Whether somebody else installed a page meanwhile.  The mutant trusts the  *)
(* test that was made before the lock was released.                          *)
NobodyElse(r) == FALSE

SomebodyElse(r) == root[r].page # NoPage

Install(t) ==
  LET r == loc[t].ref[1]  va == loc[t].va IN
  /\ pc[t] = "install"
  /\ \/ /\ va # NoPage /\ SomebodyElse(r)
        /\ Goto(t, "spare") /\ UNCHANGED <<heap, held, loc>>
     \/ /\ va # NoPage /\ ~SomebodyElse(r)
        /\ root' = [root EXCEPT ![r].page = va]
        /\ Link(t, loc[t].ref)
     \/ /\ va = NoPage
        /\ IF root[r].page = NoPage
             THEN Goto(t, "giveback") /\ UNCHANGED <<pr, sizebases, allbase, held, loc>>
             ELSE Link(t, loc[t].ref)
        /\ UNCHANGED root
  /\ UNCHANGED free

FreeSpare(t) ==
  /\ pc[t] = "spare"
  /\ free' = free \cup {loc[t].va}
  /\ loc' = [loc EXCEPT ![t].va = NoPage]
  /\ Goto(t, "link")
  /\ UNCHANGED <<held, heap>>

LinkAfterSpare(t) ==
  /\ pc[t] = "link"
  /\ Link(t, loc[t].ref)
  /\ UNCHANGED <<free, root>>
------------------------------------------------------------------------------
(* freepageref.  The mutant clears the bit and keeps the count. *)
BitOnly(w, i) == [w EXCEPT !.inuse = @ \ {i}]

freepageref(w, i) == [w EXCEPT !.inuse = @ \ {i}, !.numinuse = @ - 1]

remove_lists(r, b) ==
  /\ sizebases' = [sizebases EXCEPT ![b] = Remove(@, r)]
  /\ allbase' = Remove(allbase, r)

(* subpage_kfree of the block at address a on the page of r; the page is     *)
(* given back when all its blocks are free, after the lock is released.      *)
(* kfree hands what is on no heap page to free_kpages.                       *)
subpage_kfree(t, a, r) ==
  LET p == [pr[r] EXCEPT !.fl = <<a % PAGE_SIZE>> \o @, !.nfree = @ + 1]
  IN
  IF p.nfree = NBlocks(p.blk)
    THEN /\ remove_lists(r, p.blk)
         /\ root' = [root EXCEPT ![r[1]] = freepageref(@, r[2])]
         /\ pr' = Without(pr, r)
         /\ Goto(t, "freepage") /\ loc' = [loc EXCEPT ![t].page = p.page]
    ELSE /\ pr' = [pr EXCEPT ![r] = p]
         /\ UNCHANGED <<root, sizebases, allbase, pc, loc>>

kfree(t, a) ==
  LET on == SelectSeq(allbase, LAMBDA r : a \div PAGE_SIZE = pr[r].page) IN
  /\ pc[t] = "idle"
  /\ held' = Without(held, a)
  /\ IF on # <<>>
       THEN subpage_kfree(t, a, Head(on)) /\ UNCHANGED free
       ELSE free' = free \cup Run(a \div PAGE_SIZE, held[a] \div PAGE_SIZE) /\ UNCHANGED <<heap, pc, loc>>

(* free_kpages, for the page that has become empty and for the one that no   *)
(* pageref was found for.                                                    *)
FreePage(t) ==
  /\ pc[t] \in {"freepage", "giveback"}
  /\ free' = free \cup {loc[t].page}
  /\ Done(t)
  /\ UNCHANGED <<held, heap>>

Next == \E t \in Threads :
  \/ \E sz \in Requests : kmalloc(t, sz)
  \/ \E a \in DOMAIN held : kfree(t, a)
  \/ GetPage(t) \/ allocpageref(t) \/ allocpagerefpage(t) \/ Install(t) \/ FreeSpare(t) \/ LinkAfterSpare(t)
  \/ FreePage(t)

Spec == Init /\ [][Next]_vars
------------------------------------------------------------------------------
(* The pages that a thread has in its hands, and the pageref. *)
InHand(t) == {loc[t].page, loc[t].va} \ {NoPage}
Marked(t) == IF pc[t] \in {"refpage", "install", "spare", "link"} THEN {loc[t].ref} ELSE {}

(* What kmalloc has returned does not overlap: neither with another block or *)
(* page in use, nor with the pages that hold pagerefs.                       *)
BlocksDisjoint ==
  LET Bytes(a) == a .. a + held[a] - 1 IN
  /\ \A a, b \in DOMAIN held : a # b => Bytes(a) \cap Bytes(b) = {}
  /\ \A a \in DOMAIN held, r \in Roots :
       root[r].page # NoPage => Bytes(a) \cap (root[r].page * PAGE_SIZE .. (root[r].page + 1) * PAGE_SIZE - 1) = {}

(* subpage_stats: the blocks on the freelist, by index. *)
subpage_stats(r) == {pr[r].fl[i] \div sizes[pr[r].blk] : i \in DOMAIN pr[r].fl}

(* On every heap page nfree counts the freelist, no block is on it twice,    *)
(* and exactly the blocks that are not on it are in use: what subpage_stats  *)
(* prints and the assertions on nfree in subpage_kmalloc and subpage_kfree.  *)
FreelistsExact == \A r \in Range(allbase) :
  LET p == pr[r] IN
  /\ p.nfree = Len(p.fl) /\ p.nfree < NBlocks(p.blk)
  /\ Cardinality(subpage_stats(r)) = p.nfree
  /\ \A i \in 0 .. NBlocks(p.blk) - 1 :
       (i \in subpage_stats(r)) <=> (p.page * PAGE_SIZE + i * sizes[p.blk]) \notin DOMAIN held

(* Every page is in one place: free, on allbase, a pageref page, a large     *)
(* allocation, or in the hands of one thread that is inside the allocator.   *)
(* Nothing is lost when two threads bring the page for the same root.        *)
PagesAccounted == \A p \in Pages :
  Cardinality({p} \cap free)
  + Cardinality({r \in Range(allbase) : pr[r].page = p})
  + Cardinality({r \in Roots : root[r].page = p})
  + Cardinality({t \in Threads : p \in InHand(t)})
  + Cardinality({a \in DOMAIN held : held[a] >= PAGE_SIZE /\ p \in Run(a \div PAGE_SIZE, held[a] \div PAGE_SIZE)})
  = 1

(* A pageref is marked from before its page is linked until it is off both   *)
(* lists, numinuse counts the marks, and no pageref is given twice, whatever *)
(* happens while allocpagerefpage has released the lock.                     *)
PagerefsExact ==
  /\ \A r \in Roots : root[r].numinuse = Cardinality(root[r].inuse)
  /\ \A t \in Threads : \A x \in Marked(t) :
       x[2] \in root[x[1]].inuse /\ x \notin DOMAIN pr /\ \A u \in Threads \ {t} : x \notin Marked(u)
  /\ \A x \in DOMAIN pr :
       x[2] \in root[x[1]].inuse /\ x \in Range(allbase) /\ x \in Range(sizebases[pr[x].blk])

(* The assertion of freepageref on the roots it passes: when the pageref of  *)
(* a heap page is freed, an earlier root without a page has no marks.        *)
RefsFreeable == \A x \in Range(allbase), r \in Roots :
  r < x[1] /\ root[r].page = NoPage => root[r].numinuse = 0
==============================================================================

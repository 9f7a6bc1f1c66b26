------------------------------- MODULE Swapfile -------------------------------
(***************************************************************************)
(* kern/vm/swapfile.c: the slots of the swap file with their reference     *)
(* counts.  Every operation runs with swap_lock held, either taken by the  *)
(* operation itself or by its caller (pt_copy, pt_destroy), and nothing    *)
(* else reads or writes the counts or the file: an operation is one step,  *)
(* possible when the lock is free or the caller's.                         *)
(***************************************************************************)
EXTENDS Integers

CONSTANTS
  SWAP_MAX,  \* number of slots
  NoThread,  \* holder of a lock that is free
  Junk       \* content of a slot nobody refers to, which is not tracked

ASSUME SwapfileAssumption == SWAP_MAX \in Nat \ {0}

VARIABLES
  refs,       \* swap_file.refs
  stored,     \* what each slot of the file holds
  swap_lock   \* lock_holder of swap_lock

Slots == 0..SWAP_MAX-1

(* lock_do_i_hold(swap_lock), or lock_acquire(swap_lock) does not wait. *)
MayUseSwap(t) == swap_lock \in {NoThread, t}

FreeSlots == {s \in Slots : refs[s] = 0}
FirstFree == CHOOSE s \in FreeSlots : \A r \in FreeSlots : s <= r

(* The first free slot is taken and written; its count stays 1 even if the   *)
(* write fails. With no free slot the kernel panics: not enabled.            *)
swap_set(data) ==
  /\ FreeSlots # {}
  /\ refs' = [refs EXCEPT ![FirstFree] = 1]
  /\ stored' = [stored EXCEPT ![FirstFree] = data]

swap_getKeepsRef(s) == refs[s] > 0 /\ UNCHANGED <<refs, stored>>

swap_getForgetsSharing(s) ==
  /\ refs[s] > 0
  /\ refs' = [refs EXCEPT ![s] = 0]
  /\ stored' = [stored EXCEPT ![s] = Junk]

(* KASSERT(swap->refs[index] > 0), then one reference less, whether the page *)
(* is read (successfully or not) or only dropped.                            *)
swap_get(s) ==
  /\ refs[s] > 0
  /\ refs' = [refs EXCEPT ![s] = @ - 1]
  /\ stored' = [stored EXCEPT ![s] = IF refs[s] = 1 THEN Junk ELSE @]

swap_inc_refNever(s) == UNCHANGED <<refs, stored>>

swap_inc_ref(s) ==
  /\ refs' = [refs EXCEPT ![s] = @ + 1]
  /\ UNCHANGED stored
=============================================================================

---------------------------- MODULE LockedBuffer ----------------------------
(***************************************************************************)
(* The locked buffers of src/src/locked_buffer.rs over the page-wise locks *)
(* of the kernel.  mlock and munlock act on whole pages and do not nest:   *)
(* one munlock unlocks a page however often it was locked.  The allocator  *)
(* may put two buffers on one page.                                        *)
(*                                                                         *)
(* A buffer goes through alloc_zeroed, mlock, writes, the volatile erasing *)
(* loop, munlock and dealloc, each a step, with the steps of the other     *)
(* buffers (of other threads) and of the kernel's swapping in between.     *)
(***************************************************************************)
EXTENDS Naturals, FiniteSets

CONSTANTS
  Buffer,           \* LockedBuffer objects
  Page,             \* pages of the heap
  NoPage,           \* where a buffer lies that is not allocated
  SharePages        \* may the allocator put two buffers on one page?

ASSUME PageAssumption == NoPage \notin Page
ASSUME SharingAssumption == SharePages \in BOOLEAN

VARIABLES
  stage,    \* how far each buffer is
  page,     \* the page it lies on
  holds,    \* the secret in it: None, Kept, or Late if written after clear()
  pinned,   \* the pages the kernel keeps in memory
  swapped,  \* history: the secrets written to swap
  residue   \* history: the secrets left in freed memory

vars == <<stage, page, holds, pinned, swapped, residue>>
hist == <<swapped, residue>>

\* Secrets are told apart by when they were written.
Secret == {"Kept", "Late"}

\* none: no object; fresh: allocated and zeroed; locked: usable, the flag
\* `locked` is set; erased: clear() has zeroed it; open: munlocked, flag reset.
Stage == {"none", "fresh", "locked", "erased", "open"}

Init ==
  /\ stage = [x \in Buffer |-> "none"]
  /\ page = [x \in Buffer |-> NoPage]
  /\ holds = [x \in Buffer |-> "None"]
  /\ pinned = {} /\ swapped = {} /\ residue = {}

To(x, s) == stage' = [stage EXCEPT ![x] = s]

\* alloc_zeroed.
Allocate(x, p) ==
  /\ stage[x] = "none"
  /\ SharePages \/ \A y \in Buffer : page[y] # p
  /\ To(x, "fresh")
  /\ page' = [page EXCEPT ![x] = p]
  /\ UNCHANGED <<holds, pinned, hist>>

\* mlock succeeds, and new returns the buffer.
Mlock(x) ==
  /\ stage[x] = "fresh"
  /\ To(x, "locked")
  /\ pinned' = pinned \cup {page[x]}
  /\ UNCHANGED <<page, holds, hist>>

\* Mutant: a failed mlock is not noticed.
MlockFails_Ignored(x) ==
  /\ stage[x] = "fresh"
  /\ To(x, "locked")
  /\ UNCHANGED <<page, holds, pinned, hist>>

\* mlock fails (RLIMIT_MEMLOCK), new frees the memory and returns the error.
MlockFails(x) ==
  /\ stage[x] = "fresh"
  /\ To(x, "none")
  /\ page' = [page EXCEPT ![x] = NoPage]
  /\ UNCHANGED <<holds, pinned, hist>>

\* write_at, as_mut_slice and as_mut_ptr_raw do not look at the flag.
Write(x) ==
  /\ stage[x] \in {"locked", "open"}
  /\ holds' = [holds EXCEPT ![x] = IF stage[x] = "locked" THEN "Kept" ELSE "Late"]
  /\ UNCHANGED <<stage, page, pinned, hist>>

\* clear(), or the clear() of drop(): the loop of volatile writes.
Erase(x) ==
  /\ stage[x] = "locked"
  /\ To(x, "erased")
  /\ holds' = [holds EXCEPT ![x] = "None"]
  /\ UNCHANGED <<page, pinned, hist>>

Munlock(x) ==
  /\ stage[x] = "erased"
  /\ To(x, "open")
  /\ pinned' = pinned \ {page[x]}
  /\ UNCHANGED <<page, holds, hist>>

\* Mutant: drop() frees a buffer nobody cleared.
Dealloc_Uncleared(x) ==
  /\ stage[x] \in {"locked", "open"}
  /\ To(x, "none")
  /\ page' = [page EXCEPT ![x] = NoPage]
  /\ residue' = residue \cup ({holds[x]} \ {"None"})
  /\ holds' = [holds EXCEPT ![x] = "None"]
  /\ UNCHANGED <<pinned, swapped>>

\* drop(), after its clear(), which does nothing to a buffer already cleared.
Dealloc(x) ==
  /\ stage[x] = "open"
  /\ To(x, "none")
  /\ page' = [page EXCEPT ![x] = NoPage]
  /\ residue' = residue \cup ({holds[x]} \ {"None"})
  /\ holds' = [holds EXCEPT ![x] = "None"]
  /\ UNCHANGED <<pinned, swapped>>

\* The kernel writes a page that is not pinned to swap.
SwapOut(p) ==
  /\ p \notin pinned
  /\ swapped' = swapped \cup
       {holds[x] : x \in {y \in Buffer : page[y] = p /\ holds[y] # "None"}}
  /\ UNCHANGED <<stage, page, holds, pinned, residue>>

Next ==
  \/ \E x \in Buffer :
       \/ \E p \in Page : Allocate(x, p)
       \/ Mlock(x) \/ MlockFails(x)
       \/ Write(x)
       \/ Erase(x) \/ Munlock(x) \/ Dealloc(x)
  \/ \E p \in Page : SwapOut(p)

Spec == Init /\ [][Next]_vars

(***************************************************************************)
(* Properties                                                              *)
(***************************************************************************)
\* The types; and no page is held for a buffer that does not exist (new frees
\* the memory when mlock fails).
TypeOK ==
  /\ stage \in [Buffer -> Stage]
  /\ page \in [Buffer -> Page \cup {NoPage}]
  /\ holds \in [Buffer -> Secret \cup {"None"}]
  /\ pinned \subseteq Page
  /\ swapped \subseteq Secret /\ residue \subseteq Secret
  /\ \A x \in Buffer : stage[x] = "none" <=> page[x] = NoPage

\* A secret written before clear() never reaches swap, at any point between
\* mlock and munlock of its buffer, whatever the other buffers do.
NeverSwapped == "Kept" \notin swapped

\* Such a secret is erased before its memory goes back to the allocator; only
\* what is written after clear() is not, since clear() then does nothing.
FreedErased == "Kept" \notin residue
=============================================================================

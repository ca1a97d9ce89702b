------------------------- MODULE SecretBufferProofs -------------------------
(***************************************************************************)
(* Theorems of the two modules about buffers that hold secrets.            *)
(*                                                                         *)
(* LockedBuffer, for any set of buffers and pages: that no secret reaches  *)
(* swap rests on buffers having pages of their own; that none is left in   *)
(* freed memory does not.                                                  *)
(*                                                                         *)
(* PostureWatchdog: what the two threads of the key ceremony keep, however *)
(* they are interleaved.                                                   *)
(***************************************************************************)
EXTENDS LockedBuffer, PostureWatchdog, TLAPS

(***************************************************************************)
(* Locked buffers                                                          *)
(***************************************************************************)
LEMMA TypeInit == Init => TypeOK
BY PageAssumption DEF Init, TypeOK, Stage, Secret

LEMMA TypeStep == TypeOK /\ [Next]_vars => TypeOK'
<1> SUFFICES ASSUME TypeOK, [Next]_vars PROVE TypeOK'
  OBVIOUS
<1> USE PageAssumption DEF TypeOK, To, hist, Stage, Secret
<1>1. ASSUME NEW x \in Buffer, NEW p \in Page, Allocate(x, p) PROVE TypeOK'
  BY <1>1 DEF Allocate
<1>2. ASSUME NEW x \in Buffer, Mlock(x) PROVE TypeOK'
  BY <1>2 DEF Mlock
<1>3. ASSUME NEW x \in Buffer, MlockFails(x) PROVE TypeOK'
  BY <1>3 DEF MlockFails
<1>4. ASSUME NEW x \in Buffer, Write(x) PROVE TypeOK'
  BY <1>4 DEF Write
<1>5. ASSUME NEW x \in Buffer, Erase(x) PROVE TypeOK'
  BY <1>5 DEF Erase
<1>6. ASSUME NEW x \in Buffer, Munlock(x) PROVE TypeOK'
  BY <1>6 DEF Munlock
<1>7. ASSUME NEW x \in Buffer, Dealloc(x) PROVE TypeOK'
  BY <1>7 DEF Dealloc
<1>8. ASSUME NEW p \in Page, SwapOut(p) PROVE TypeOK'
  BY <1>8 DEF SwapOut
<1>9. CASE UNCHANGED vars
  BY <1>9 DEF vars
<1> QED
  BY <1>1, <1>2, <1>3, <1>4, <1>5, <1>6, <1>7, <1>8, <1>9 DEF Next

\* The types, and that memory is held for exactly the buffers that exist, so
\* that a failed mlock leaks nothing (LockedBuffer::new frees it).
THEOREM TypeCorrect == Spec => []TypeOK
BY TypeInit, TypeStep, PTL DEF Spec

(***************************************************************************)
(* Nothing is left in freed memory                                         *)
(***************************************************************************)
\* A secret written before clear() is in a buffer that clear() has yet to
\* see, so that no other buffer can be freed with one.
KeptIsLocked == \A x \in Buffer : holds[x] = "Kept" => stage[x] = "locked"

LEMMA KeptStep == TypeOK /\ KeptIsLocked /\ [Next]_vars => KeptIsLocked'
<1> SUFFICES ASSUME TypeOK, KeptIsLocked, [Next]_vars PROVE KeptIsLocked'
  OBVIOUS
<1> USE DEF TypeOK, KeptIsLocked, To, hist
<1>1. ASSUME NEW x \in Buffer, NEW p \in Page, Allocate(x, p) PROVE KeptIsLocked'
  BY <1>1 DEF Allocate
<1>2. ASSUME NEW x \in Buffer, Mlock(x) \/ MlockFails(x) PROVE KeptIsLocked'
  BY <1>2 DEF Mlock, MlockFails
<1>3. ASSUME NEW x \in Buffer, Write(x) PROVE KeptIsLocked'
  BY <1>3 DEF Write
<1>4. ASSUME NEW x \in Buffer, Erase(x) \/ Munlock(x) PROVE KeptIsLocked'
  BY <1>4 DEF Erase, Munlock
<1>5. ASSUME NEW x \in Buffer, Dealloc(x) PROVE KeptIsLocked'
  BY <1>5 DEF Dealloc
<1>6. ASSUME NEW p \in Page, SwapOut(p) PROVE KeptIsLocked'
  BY <1>6 DEF SwapOut
<1>7. CASE UNCHANGED vars
  BY <1>7 DEF vars
<1> QED
  BY <1>1, <1>2, <1>3, <1>4, <1>5, <1>6, <1>7 DEF Next

LEMMA FreedStep == TypeOK /\ KeptIsLocked /\ FreedErased /\ [Next]_vars => FreedErased'
<1> SUFFICES ASSUME TypeOK, KeptIsLocked, FreedErased, [Next]_vars PROVE FreedErased'
  OBVIOUS
<1>1. ASSUME NEW x \in Buffer, Dealloc(x) PROVE FreedErased'
  <2>1. holds[x] # "Kept"
    BY <1>1 DEF Dealloc, KeptIsLocked
  <2> QED
    BY <1>1, <2>1 DEF Dealloc, FreedErased
<1>2. CASE UNCHANGED residue
  BY <1>2 DEF FreedErased
<1> QED
  BY <1>1, <1>2 DEF Next, vars, hist, Allocate, Mlock, MlockFails, Write, Erase,
                    Munlock, SwapOut

\* Whatever is written before clear() is erased before the memory goes back to
\* the allocator, also when buffers share pages (the Drop of LockedBuffer).
THEOREM NothingLeftInFreedMemory == Spec => []FreedErased
<1>1. Init => KeptIsLocked /\ FreedErased
  BY DEF Init, KeptIsLocked, FreedErased
<1> QED
  BY <1>1, TypeCorrect, KeptStep, FreedStep, PTL DEF Spec

(***************************************************************************)
(* Nothing reaches swap                                                    *)
(***************************************************************************)
\* Buffers that exist lie on pages of their own.
OwnPages ==
  \A x, y \in Buffer : x # y /\ page[x] = page[y] => page[x] = NoPage

\* Between mlock and munlock the page of a buffer is pinned.
LockedIsPinned ==
  \A x \in Buffer : stage[x] \in {"locked", "erased"} => page[x] \in pinned

LEMMA OwnPagesStep ==
  ASSUME SharePages = FALSE
  PROVE  TypeOK /\ OwnPages /\ [Next]_vars => OwnPages'
<1> SUFFICES ASSUME TypeOK, OwnPages, [Next]_vars PROVE OwnPages'
  OBVIOUS
<1>1. ASSUME NEW x \in Buffer, NEW p \in Page, Allocate(x, p) PROVE OwnPages'
  BY <1>1 DEF Allocate, OwnPages, TypeOK
<1>2. ASSUME NEW x \in Buffer, page' = [page EXCEPT ![x] = NoPage] PROVE OwnPages'
  BY <1>2 DEF OwnPages, TypeOK
<1>3. CASE UNCHANGED page
  BY <1>3 DEF OwnPages
<1> QED
  BY <1>1, <1>2, <1>3 DEF Next, vars, hist, Mlock, MlockFails, Write, Erase,
                          Munlock, Dealloc, SwapOut

\* The one step that unpins a page leaves those of other buffers alone.
LEMMA PinnedStep ==
  TypeOK /\ OwnPages /\ LockedIsPinned /\ [Next]_vars => LockedIsPinned'
<1> SUFFICES ASSUME TypeOK, OwnPages, LockedIsPinned, [Next]_vars
             PROVE  LockedIsPinned'
  OBVIOUS
<1> USE DEF TypeOK, LockedIsPinned, To, hist
<1>1. ASSUME NEW x \in Buffer, NEW p \in Page, Allocate(x, p) PROVE LockedIsPinned'
  BY <1>1 DEF Allocate
<1>2. ASSUME NEW x \in Buffer, Mlock(x) PROVE LockedIsPinned'
  BY <1>2 DEF Mlock
<1>3. ASSUME NEW x \in Buffer, MlockFails(x) \/ Dealloc(x) PROVE LockedIsPinned'
  BY <1>3 DEF MlockFails, Dealloc
<1>4. ASSUME NEW x \in Buffer, Write(x) \/ Erase(x) PROVE LockedIsPinned'
  BY <1>4 DEF Write, Erase
<1>5. ASSUME NEW x \in Buffer, Munlock(x) PROVE LockedIsPinned'
  <2> SUFFICES ASSUME NEW y \in Buffer, stage'[y] \in {"locked", "erased"}
               PROVE  page'[y] \in pinned'
    OBVIOUS
  <2>1. y # x /\ stage[y] \in {"locked", "erased"}
    BY <1>5 DEF Munlock
  <2>2. page[y] # page[x]
    BY <1>5, <2>1 DEF Munlock, OwnPages
  <2> QED
    BY <1>5, <2>1, <2>2 DEF Munlock
<1>6. ASSUME NEW p \in Page, SwapOut(p) PROVE LockedIsPinned'
  BY <1>6 DEF SwapOut
<1>7. CASE UNCHANGED vars
  BY <1>7 DEF vars
<1> QED
  BY <1>1, <1>2, <1>3, <1>4, <1>5, <1>6, <1>7 DEF Next

LEMMA SwapStep ==
  TypeOK /\ KeptIsLocked /\ LockedIsPinned /\ NeverSwapped /\ [Next]_vars
    => NeverSwapped'
<1> SUFFICES ASSUME KeptIsLocked, LockedIsPinned, NeverSwapped, [Next]_vars
             PROVE  NeverSwapped'
  OBVIOUS
<1>1. ASSUME NEW p \in Page, SwapOut(p) PROVE NeverSwapped'
  <2>1. \A y \in Buffer : page[y] = p => holds[y] # "Kept"
    BY <1>1 DEF SwapOut, KeptIsLocked, LockedIsPinned
  <2> QED
    BY <1>1, <2>1 DEF SwapOut, NeverSwapped
<1>2. CASE UNCHANGED swapped
  BY <1>2 DEF NeverSwapped
<1> QED
  BY <1>1, <1>2 DEF Next, vars, hist, Allocate, Mlock, MlockFails, Write, Erase,
                    Munlock, Dealloc

\* If the allocator gives each buffer pages of its own, a secret written
\* before clear() is never on a page that the kernel may write to swap,
\* whatever the other buffers do (mlock and munlock of LockedBuffer).
THEOREM SecretsStayInMemory ==
  ASSUME SharePages = FALSE
  PROVE  Spec => []NeverSwapped
<1>1. Init => KeptIsLocked /\ OwnPages /\ LockedIsPinned /\ NeverSwapped
  BY DEF Init, KeptIsLocked, OwnPages, LockedIsPinned, NeverSwapped
<1> QED
  BY <1>1, TypeCorrect, KeptStep, OwnPagesStep, PinnedStep, SwapStep, PTL DEF Spec

(***************************************************************************)
(* The key ceremony and its watchdog                                       *)
(***************************************************************************)
\* As long as the watchdog has not tripped: keys are in locked buffers only;
\* the ceremony locks the buffers in order, writes when all are locked, and
\* has cleared those it has left.
InOrder ==
  /\ \A b \in filled : locked[b]
  /\ cpc = "enter" => \A i \in 1 .. 3 : i < ck => locked[Buffers[i]]
  /\ cpc \notin {"enter", "leave", "done"} => \A b \in Keys : locked[b]
  /\ cpc = "leave" => \A i \in 1 .. 3 : i > 4 - ck => ~locked[Buffers[i]]
  /\ cpc = "done" => \A b \in Keys : ~locked[b]

\* The ceremony before it has a monitor, and while it counts on one.
Alone == {"enter", "check", "start"}
Guarded == {"gate", "seed", "derive", "cycle", "stop", "join"}

WInv ==
  /\ WTypeOK /\ NeverSilent
  /\ mpc = "purge" => mk <= 3
  /\ cpc = "join" => stop
  /\ cpc \in Alone => mpc = "off"
  /\ cpc \in Guarded => mpc # "off"
  /\ mpc = "off" => filled = {}
  /\ ~Tripped => InOrder

LEMMA Names ==
  /\ Len(Buffers) = 3 /\ Len(Axes) = 3 /\ Keys = {"seed", "public", "secret"}
  /\ Buffers[1] = "seed" /\ Buffers[2] = "public" /\ Buffers[3] = "secret"
  /\ \A i \in 1 .. 3 : Axes[i] \in Axis
<1>1. /\ Len(Buffers) = 3 /\ DOMAIN Buffers = 1 .. 3
      /\ Buffers[1] = "seed" /\ Buffers[2] = "public" /\ Buffers[3] = "secret"
  BY DEF Buffers
<1>2. Len(Axes) = 3 /\ DOMAIN Axes = 1 .. 3
  BY DEF Axes
<1>3. 1 .. 3 = {1, 2, 3}
  OBVIOUS
<1>4. Keys = {Buffers[1], Buffers[2], Buffers[3]}
  BY <1>1, <1>3 DEF Keys
<1> QED
  BY <1>1, <1>2, <1>4 DEF Axis

LEMMA WInvInit == WInit => WInv
<1> SUFFICES ASSUME WInit PROVE WInv
  OBVIOUS
<1>1. WTypeOK
  <2>1. locked \in [Keys -> BOOLEAN] /\ seenOk \in [ceremony : BOOLEAN, monitor : BOOLEAN]
    BY DEF WInit
  <2> QED
    <3>1. clean \in [Axis -> BOOLEAN] /\ filled \subseteq Keys /\ stop \in BOOLEAN
      BY DEF WInit
    <3> QED
      BY <2>1, <3>1 DEF WInit, WTypeOK
<1> QED
  BY <1>1, Names DEF WInit, WInv, NeverSilent, Tripped, InOrder, Alone, Guarded

LEMMA CeremonyKeepsWInv == WInv /\ Ceremony => WInv'
<1> SUFFICES ASSUME WInv, Ceremony PROVE WInv'
  OBVIOUS
<1> USE Names DEF WInv, WTypeOK, NeverSilent, Tripped, InOrder, Alone, Guarded,
                  At, Goto, Again, monitor, buffers
<1>1. CASE Enter
  BY <1>1 DEF Enter
<1>2. CASE StartCheck
  BY <1>2 DEF StartCheck
<1>3. CASE StartThread
  BY <1>3 DEF StartThread
<1>4. CASE Gate
  BY <1>4 DEF Gate
<1>5. CASE Seed
  BY <1>5 DEF Seed
<1>6. CASE Derive
  BY <1>6 DEF Derive
<1>7. CASE Cycle
  BY <1>7 DEF Cycle, Cycles
<1>8. CASE StopWatchdog
  BY <1>8 DEF StopWatchdog
<1>9. CASE Join
  BY <1>9 DEF Join
<1>10. CASE Leave
  <2> DEFINE b == Buffers[Len(Buffers) + 1 - ck]
  <2>1. b \in Keys /\ ck \in 1 .. 3 /\ Len(Buffers) + 1 - ck = 4 - ck
    OBVIOUS
  <2>2. /\ locked' \in [Keys -> BOOLEAN] /\ filled' \subseteq filled
        /\ ~locked'[b] /\ \A c \in Keys : c # b => locked'[c] = locked[c]
        /\ ~Tripped => b \notin filled'
    BY <1>10, <2>1 DEF Leave, Clear
  <2>3. WTypeOK' /\ NeverSilent' /\ UNCHANGED <<mpc, mk, stop, result>>
    <3>1. UNCHANGED <<clean, result, mpc, mk, seenOk, stop, end>>
      BY <1>10 DEF Leave
    <3>2. cpc' \in {"leave", "done"} /\ ck' \in 1 .. 3
      BY <1>10 DEF Leave
    <3> QED
      BY <2>2, <3>1, <3>2
  <2>4. ASSUME ~Tripped PROVE InOrder'
    <3>1. /\ cpc = "leave" /\ b = Buffers[4 - ck]
          /\ IF ck < 3 THEN cpc' = "leave" /\ ck' = ck + 1 ELSE cpc' = "done"
      BY <1>10, <2>1 DEF Leave
    <3>2. \A i \in 1 .. 3 : i > 4 - ck => ~locked[Buffers[i]]
      BY <2>4, <3>1
    <3>3. \A i \in 1 .. 3 : i > 3 - ck => ~locked'[Buffers[i]]
      BY <2>1, <2>2, <3>1, <3>2
    <3>4. \A c \in filled' : locked'[c]
      BY <2>2, <2>4
    <3>5. cpc' = "done" => \A c \in Keys : ~locked'[c]
      BY <2>1, <3>1, <3>3
    <3> QED
      BY <2>1, <3>1, <3>3, <3>4, <3>5
  <2>5. cpc = "leave" /\ cpc' \in {"leave", "done"}
    BY <1>10 DEF Leave
  <2> QED
    BY <2>2, <2>3, <2>4, <2>5
<1>11. CASE Exit
  BY <1>11 DEF Exit
<1>12. CASE GiveUp
  BY <1>12 DEF GiveUp
<1> QED
  BY <1>1, <1>2, <1>3, <1>4, <1>5, <1>6, <1>7, <1>8, <1>9, <1>10, <1>11, <1>12
  DEF Ceremony

LEMMA MonitorKeepsWInv == WInv /\ Monitor => WInv'
<1> SUFFICES ASSUME WInv, Monitor PROVE WInv'
  OBVIOUS
<1> USE Names DEF WInv, WTypeOK, NeverSilent, Tripped, InOrder, Alone, Guarded,
                  MAt, MGoto, MAgain, ceremony, buffers
<1>1. CASE Loop
  <2>1. seenOk' \in [ceremony : BOOLEAN, monitor : BOOLEAN]
    BY <1>1 DEF Loop
  <2>2. mpc' = (IF stop THEN "ended" ELSE "check") /\ mk' = 1 /\ mpc = "loop"
    BY <1>1 DEF Loop
  <2>3. UNCHANGED <<clean, locked, filled, cpc, ck, result, stop, end>>
    BY <1>1 DEF Loop
  <2>4. WTypeOK'
    BY <2>1, <2>2, <2>3
  <2> QED
    BY <2>2, <2>3, <2>4
<1>2. CASE Check
  <2>1. Axes[mk] \in Axis
    BY <1>2 DEF Check
  <2>2. clean[Axes[mk]] \in BOOLEAN /\ seenOk.monitor \in BOOLEAN
    BY <2>1
  <2>3. seenOk' \in [ceremony : BOOLEAN, monitor : BOOLEAN]
    BY <1>2, <2>2 DEF Check
  <2> QED
    BY <1>2, <2>3 DEF Check
<1>3. CASE Judge
  BY <1>3 DEF Judge
<1>4. CASE CheckRaises
  BY <1>4 DEF CheckRaises
<1>5. CASE Purge
  <2>1. Buffers[mk] \in Keys
    BY <1>5 DEF Purge, MAt
  <2>2. locked' \in [Keys -> BOOLEAN] /\ filled' \subseteq filled
    BY <1>5, <2>1 DEF Purge, Clear
  <2> QED
    BY <1>5, <2>2 DEF Purge
<1>6. CASE Kill
  BY <1>6 DEF Kill, monitor
<1> QED
  BY <1>1, <1>2, <1>3, <1>4, <1>5, <1>6 DEF Monitor

LEMMA WInvAlways == WSpec => []WInv
<1>1. WInv /\ [WNext]_wvars => WInv'
  <2> SUFFICES ASSUME WInv, [WNext]_wvars PROVE WInv'
    OBVIOUS
  <2>1. CASE PostureChanges
    BY <2>1 DEF PostureChanges, WInv, WTypeOK, NeverSilent, Tripped, InOrder,
                buffers, ceremony, monitor
  <2>2. CASE UNCHANGED wvars
    BY <2>2 DEF wvars, WInv, WTypeOK, NeverSilent, Tripped, InOrder
  <2> QED
    BY <2>1, <2>2, CeremonyKeepsWInv, MonitorKeepsWInv DEF WNext
<1> QED
  BY <1>1, WInvInit, PTL DEF WSpec

\* The types, and that the counters of both threads stay inside what they
\* count, so that no buffer or check is looked up that is not there.
THEOREM CeremonyWellTyped == WSpec => []WTypeOK
BY WInvAlways, PTL DEF WInv

\* A ceremony that ends without the watchdog tripping, by itself or because a
\* call failed anywhere in it, leaves no key and no lock behind, and keys were
\* in the buffers only after the monitor was started (run_ceremony).
THEOREM CeremonyLeavesNothing == WSpec => []LeavesNothing
<1>1. WInv => LeavesNothing
  BY DEF WInv, WTypeOK, InOrder, LeavesNothing
<1> QED
  BY <1>1, WInvAlways, PTL

\* The monitor ends only because it was told to (_run_monitor_loop, Defect
\* 144): neither a check that raises nor a violation ends it silently.
THEOREM MonitorNeverSilent == WSpec => []NeverSilent
BY WInvAlways, PTL DEF WInv
=============================================================================

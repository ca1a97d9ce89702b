--------------------------- MODULE PostureWatchdog ---------------------------
(***************************************************************************)
(* The key ceremony of run_key_ceremony.py and the PostureWatchdog thread  *)
(* of posture_watchdog.py that guards it, in src/src/sovereign_core_       *)
(* verified.  The ceremony generates keys in three SecureKeyBuffers; the   *)
(* monitor thread checks swap, network and storage in turn, over and over, *)
(* and on a violation clears the buffers and sends its process a SIGKILL.  *)
(*                                                                         *)
(* The two threads interleave wherever the interpreter lets go of its lock *)
(* (at every FFI call and file access); the posture of the machine changes *)
(* at any time, also between the checks of one round.  Writing to stderr   *)
(* is taken to succeed.                                                    *)
(***************************************************************************)
EXTENDS Naturals, Sequences

\* The checks of one round and the buffers of the registry, in code order.
Axes == <<"swap", "network", "storage">>
Buffers == <<"seed", "public", "secret">>
Cycles == 3

VARIABLES
  clean,    \* what each check would find now
  locked,   \* SecureKeyBuffer._locked of each buffer
  filled,   \* buffers with key material in them
  cpc, ck,  \* where the ceremony thread is, and a counter of its loops
  result,   \* what run_ceremony returns
  mpc, mk,  \* where the monitor thread is, and a counter of its loops
  seenOk,   \* the checks of the round so far: of the ceremony, of the monitor
  stop,     \* PostureWatchdog._stop_event
  end       \* how the process ended: running, exit, killed

wvars == <<clean, locked, filled, cpc, ck, result, mpc, mk, seenOk, stop, end>>

Keys == {Buffers[i] : i \in DOMAIN Buffers}
Axis == {Axes[i] : i \in DOMAIN Axes}

WInit ==
  /\ clean \in [Axis -> BOOLEAN]
  /\ locked = [b \in Keys |-> FALSE] /\ filled = {}
  /\ cpc = "enter" /\ ck = 1 /\ result = "none"
  /\ mpc = "off" /\ mk = 1
  /\ seenOk = [ceremony |-> TRUE, monitor |-> TRUE]
  /\ stop = FALSE /\ end = "running"

\* Mutant: the buffer is unlocked but not erased.
Clear_Kept(b) == locked' = [locked EXCEPT ![b] = FALSE] /\ filled' = filled

\* SecureKeyBuffer.clear: erase and unlock, unless that was done before.
Clear(b) ==
  /\ locked' = [locked EXCEPT ![b] = FALSE]
  /\ filled' = IF locked[b] THEN filled \ {b} ELSE filled

(***************************************************************************)
(* run_ceremony                                                            *)
(***************************************************************************)
At(pc) == end = "running" /\ cpc = pc
Goto(pc) == cpc' = pc /\ ck' = 1
Again == cpc' = cpc /\ ck' = ck + 1
monitor == <<mpc, mk>>
buffers == <<locked, filled>>

\* The with statement enters one buffer after the other.
Enter ==
  /\ At("enter")
  /\ locked' = [locked EXCEPT ![Buffers[ck]] = TRUE]
  /\ IF ck < Len(Buffers) THEN Again ELSE Goto("check")
  /\ UNCHANGED <<clean, filled, result, monitor, seenOk, stop, end>>

\* start(): all three checks are made before any is looked at.
StartCheck ==
  /\ At("check")
  /\ seenOk' = [seenOk EXCEPT !.ceremony = @ /\ clean[Axes[ck]]]
  /\ IF ck < Len(Axes) THEN Again ELSE Goto("start")
  /\ UNCHANGED <<clean, buffers, result, monitor, stop, end>>

\* Mutant: start() is tried again until the posture is clean.
GiveUp_Retry ==
  /\ At("enter") \/ At("check") \/ At("start") \/ At("derive")
  /\ Goto(IF cpc \in {"check", "start"} THEN "check" ELSE "leave")
  /\ result' = "False"
  /\ seenOk' = [seenOk EXCEPT !.ceremony = TRUE]
  /\ UNCHANGED <<clean, buffers, monitor, stop, end>>

\* sodium_mlock fails, start() raises (an unclean posture, a check that
\* cannot be made, no thread to be had), or no key pair can be derived: the
\* with statement leaves the buffers, and the process will exit with 1.
GiveUp ==
  /\ At("enter") \/ At("check") \/ At("start") \/ At("derive")
  /\ Goto("leave")
  /\ result' = "False"
  /\ UNCHANGED <<clean, buffers, monitor, seenOk, stop, end>>

StartThread ==
  /\ At("start") /\ seenOk.ceremony
  /\ mpc' = "loop" /\ mk' = 1
  /\ Goto("gate")
  /\ UNCHANGED <<clean, buffers, result, seenOk, stop, end>>

IsAlive == mpc \notin {"off", "ended"}

\* Defect 144: no generation without a monitor.
Gate ==
  /\ At("gate")
  /\ \/ IsAlive /\ Goto("seed") /\ UNCHANGED result
     \/ ~IsAlive /\ Goto("leave") /\ result' = "False"
  /\ UNCHANGED <<clean, buffers, monitor, seenOk, stop, end>>

\* randombytes writes to the address of the buffer, locked or not.
Seed ==
  /\ At("seed")
  /\ filled' = filled \cup {"seed"}
  /\ Goto("derive")
  /\ UNCHANGED <<clean, locked, result, monitor, seenOk, stop, end>>

\* crypto_sign_seed_keypair, likewise.
Derive ==
  /\ At("derive")
  /\ filled' = filled \cup {"public", "secret"}
  /\ Goto("cycle")
  /\ UNCHANGED <<clean, locked, result, monitor, seenOk, stop, end>>

\* Mutant: one step more than is counted.
Cycle_OneMore ==
  /\ At("cycle")
  /\ IF ck <= Cycles THEN Again ELSE Goto("stop")
  /\ UNCHANGED <<clean, buffers, result, monitor, seenOk, stop, end>>

Cycle ==
  /\ At("cycle")
  /\ IF ck < Cycles THEN Again ELSE Goto("stop")
  /\ UNCHANGED <<clean, buffers, result, monitor, seenOk, stop, end>>

StopWatchdog ==
  /\ At("stop")
  /\ stop' = TRUE
  /\ Goto("join")
  /\ UNCHANGED <<clean, buffers, result, monitor, seenOk, end>>

\* The thread is joined, or has not ended within two intervals.
Join ==
  /\ At("join")
  /\ Goto("leave") /\ result' = "True"
  /\ UNCHANGED <<clean, buffers, monitor, seenOk, stop, end>>

\* The buffers are left in reverse; one never entered has nothing to clear.
Leave ==
  /\ At("leave")
  /\ Clear(Buffers[Len(Buffers) + 1 - ck])
  /\ IF ck < Len(Buffers) THEN Again ELSE Goto("done")
  /\ UNCHANGED <<clean, result, monitor, seenOk, stop, end>>

\* sys.exit; a daemon thread does not keep the process.
Exit ==
  /\ At("done")
  /\ end' = "exit"
  /\ UNCHANGED <<clean, buffers, cpc, ck, result, monitor, seenOk, stop>>

Ceremony ==
  \/ Enter \/ StartCheck \/ StartThread \/ Gate \/ Seed \/ Derive \/ Cycle
  \/ StopWatchdog \/ Join \/ Leave \/ Exit \/ GiveUp

(***************************************************************************)
(* The monitor thread                                                      *)
(***************************************************************************)
MAt(pc) == end = "running" /\ mpc = pc
MGoto(pc) == mpc' = pc /\ mk' = 1
MAgain == mpc' = mpc /\ mk' = mk + 1
ceremony == <<cpc, ck, result>>

\* The head of the loop; it is also where the wait between rounds ends.
Loop ==
  /\ MAt("loop")
  /\ seenOk' = [seenOk EXCEPT !.monitor = TRUE]
  /\ MGoto(IF stop THEN "ended" ELSE "check")
  /\ UNCHANGED <<clean, buffers, ceremony, stop, end>>

Check ==
  /\ MAt("check") /\ mk <= Len(Axes)
  /\ seenOk' = [seenOk EXCEPT !.monitor = @ /\ clean[Axes[mk]]]
  /\ MAgain
  /\ UNCHANGED <<clean, buffers, ceremony, stop, end>>

\* Mutant: only a violation of every axis trips.
Judge_AllAxes ==
  /\ MAt("check") /\ mk > Len(Axes)
  /\ MGoto(IF \A a \in Axis : ~clean[a] THEN "purge" ELSE "loop")
  /\ UNCHANGED <<clean, buffers, ceremony, seenOk, stop, end>>

\* All three were made: wait for the interval, or execute_hard_shutdown.
Judge ==
  /\ MAt("check") /\ mk > Len(Axes)
  /\ MGoto(IF seenOk.monitor THEN "loop" ELSE "purge")
  /\ UNCHANGED <<clean, buffers, ceremony, seenOk, stop, end>>

\* Mutant: an exception in a check ends the thread.
CheckRaises_Silent ==
  /\ MAt("check") /\ mk <= Len(Axes)
  /\ MGoto("ended")
  /\ UNCHANGED <<clean, buffers, ceremony, seenOk, stop, end>>

\* An exception in a check ends in execute_hard_shutdown as well.
CheckRaises ==
  /\ MAt("check") /\ mk <= Len(Axes)
  /\ MGoto("purge")
  /\ UNCHANGED <<clean, buffers, ceremony, seenOk, stop, end>>

Purge ==
  /\ MAt("purge")
  /\ Clear(Buffers[mk])
  /\ IF mk < Len(Buffers) THEN MAgain ELSE MGoto("kill")
  /\ UNCHANGED <<clean, ceremony, seenOk, stop, end>>

Kill ==
  /\ MAt("kill")
  /\ end' = "killed"
  /\ UNCHANGED <<clean, buffers, ceremony, monitor, seenOk, stop>>

Monitor == Loop \/ Check \/ Judge \/ CheckRaises \/ Purge \/ Kill

(***************************************************************************)
(* The specification                                                       *)
(***************************************************************************)
\* Swap is turned on, an interface comes up, a device is mounted; or back.
PostureChanges ==
  \E a \in Axis :
    /\ clean' = [clean EXCEPT ![a] = ~@]
    /\ UNCHANGED <<buffers, ceremony, monitor, seenOk, stop, end>>

WNext == Ceremony \/ Monitor \/ PostureChanges

WSpec == WInit /\ [][WNext]_wvars

\* The interpreter lets the monitor run; the ceremony may hang anywhere.
WFairSpec == WSpec /\ WF_wvars(Monitor)

(***************************************************************************)
(* Properties                                                              *)
(***************************************************************************)
Tripped == mpc \in {"purge", "kill"}

\* The types, and that the counters stay inside what they count.
WTypeOK ==
  /\ clean \in [Axis -> BOOLEAN] /\ locked \in [Keys -> BOOLEAN]
  /\ filled \subseteq Keys
  /\ cpc \in {"enter", "check", "start", "gate", "seed", "derive", "cycle",
              "stop", "join", "leave", "done"}
  /\ mpc \in {"off", "loop", "check", "purge", "kill", "ended"}
  /\ ck \in 1 .. 3 /\ mk \in 1 .. 4
  /\ result \in {"none", "True", "False"}
  /\ seenOk \in [ceremony : BOOLEAN, monitor : BOOLEAN]
  /\ stop \in BOOLEAN /\ end \in {"running", "exit", "killed"}
  /\ result = "True" => stop

\* However the ceremony ends, unless the watchdog has tripped meanwhile: when
\* it has left its buffers none holds a key and none is locked, and keys were
\* in them only if the monitor was running (run_key_ceremony.py).
LeavesNothing ==
  /\ cpc = "done" /\ ~Tripped => filled = {} /\ \A b \in Keys : ~locked[b]
  /\ filled # {} => mpc # "off"

\* The monitor never falls silent while keys may be generated (Defect 144):
\* it ends because it was told to, or with its process.
NeverSilent == mpc = "ended" => stop

\* When SIGKILL is sent the allocations are zeroed, as posture_watchdog.py:64
\* says.
ZeroedAtKill == mpc = "kill" => filled = {}

\* A violation that lasts ends the process, whatever the ceremony hangs in,
\* unless the watchdog is stopped first (_run_monitor_loop).
ViolationEnds ==
  \A a \in Axis :
    mpc # "off" /\ ~clean[a] ~> clean[a] \/ stop \/ end # "running"

\* The ceremony ends, whatever the watchdog does, if it does not hang.
CeremonyEnds == WF_wvars(Ceremony) => <>(end # "running")
=============================================================================

----------------------------- MODULE SafeOutput -----------------------------
(***************************************************************************)
(* What an output pin of the firmware with a max_duration promises: unless *)
(* a command renews it, a setting other than the default lasts for         *)
(* MaxDuration at most.  This is what turns a heater off when the host has *)
(* died.                                                                   *)
(***************************************************************************)
EXTENDS Naturals

CONSTANT MaxDuration    \* 0: no limit

VARIABLES active,   \* the output is not at its default
          age       \* for so long since a command last set it

vars == <<active, age>>

\* Only an output without a limit may start with another setting.
Init == active \in BOOLEAN /\ (MaxDuration # 0 => active = FALSE) /\ age = 0

\* A command takes effect, or the firmware falls back to the default.
Set == active' \in BOOLEAN /\ age' = 0

\* Time passes.
Tick ==
    /\ active /\ (MaxDuration # 0 => age < MaxDuration)
    /\ age' = age + 1
    /\ UNCHANGED active

Next == Set \/ Tick

Spec == Init /\ [][Next]_vars
=============================================================================

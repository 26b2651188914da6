---------------------------- MODULE EngineSetup ----------------------------
(***************************************************************************)
(* What spec.md promises of setting up the DWARF engine (sections 6, 7    *)
(* and 8), independent of how the sections are read.  Each add call       *)
(* registers link objects; afterwards the engine holds every well-formed  *)
(* compile unit of every registered object, each exactly once, and its    *)
(* address index covers exactly the units held.  A failure in one module  *)
(* or one unit loses only that piece: the process ends only over a unit  *)
(* the spec rejects outright (section 7).                                 *)
(*                                                                         *)
(* What the files contain is given by two variables that never change:    *)
(* good, the start offsets of each object's well-formed units (none for   *)
(* an object that does not map), and bad, the objects with a rejected     *)
(* unit.                                                                  *)
(***************************************************************************)
EXTENDS SequencesExt

VARIABLES
  good,        \* object -> offsets of its well-formed units
  bad,         \* objects with a unit section 7 rejects
  registered,  \* the link objects registered so far
  units,       \* the compile units held, as <<object, offset>>, in order
  index,       \* the units the address index covers
  alive        \* FALSE once the process has ended in fatal()

vars == <<good, bad, registered, units, index, alive>>

\* Every unit the files hold for the objects in objs.
GoodUnits(objs) == UNION {{<<lo, s>> : s \in good[lo]} : lo \in objs}

Init ==
  /\ registered = {}
  /\ units = << >>
  /\ index = {}
  /\ alive = TRUE

\* One add call: some objects registered, then either every good unit of
\* every registered object is held once and indexed, or the process ends
\* over a rejected unit.
Add ==
  /\ alive = TRUE
  /\ registered \subseteq registered'
  /\ registered' \subseteq DOMAIN good
  /\ \/ /\ alive' = TRUE
        /\ ToSet(units') = GoodUnits(registered')
        /\ IsInjective(units')
        /\ index' = ToSet(units')
     \/ /\ alive' = FALSE
        /\ registered' \cap bad # {}
  /\ UNCHANGED <<good, bad>>

Next == Add

Spec == Init /\ [][Next]_vars
=============================================================================

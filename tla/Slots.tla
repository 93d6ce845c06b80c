------------------------------- MODULE Slots -------------------------------
(***************************************************************************)
(* The state of a run over several components that do not share state: the *)
(* disjoint union of their state spaces.  `part` names the component a     *)
(* behaviour is about, from its first state to its last; the slots hold    *)
(* that component's variables and the rest of them is Unused.  A component   *)
(* the run's module extends keeps its own variables and has no slot.       *)
(***************************************************************************)
EXTENDS Naturals

CONSTANTS Components,  \* the components of the run
          Unused

VARIABLES part, s1, s2, s3, s4, s5, s6, s7, s8, s9, s10, s11, s12, s13, s14

slots == <<part, s1, s2, s3, s4, s5, s6, s7, s8, s9, s10, s11, s12, s13, s14>>

\* The component `name`, which has n variables, is chosen.
Chosen(name, n) ==
    /\ name \in Components /\ part = name
    /\ IF n < 1 THEN s1 = Unused /\ s2 = Unused ELSE TRUE
    /\ IF n < 3 THEN s3 = Unused ELSE TRUE
    /\ IF n < 4 THEN s4 = Unused ELSE TRUE
    /\ IF n < 5 THEN s5 = Unused ELSE TRUE
    /\ IF n < 6 THEN s6 = Unused ELSE TRUE
    /\ IF n < 7 THEN s7 = Unused ELSE TRUE
    /\ IF n < 8 THEN s8 = Unused ELSE TRUE
    /\ IF n < 9 THEN s9 = Unused ELSE TRUE
    /\ IF n < 10 THEN s10 = Unused ELSE TRUE
    /\ IF n < 11 THEN s11 = Unused ELSE TRUE
    /\ IF n < 12 THEN s12 = Unused ELSE TRUE
    /\ IF n < 13 THEN s13 = Unused ELSE TRUE
    /\ IF n < 14 THEN s14 = Unused ELSE TRUE

\* A step of the component `name`; its n variables are in the first n slots.
Moves(name, n) ==
    /\ part = name /\ part' = part
    /\ IF n < 1 THEN s1' = s1 /\ s2' = s2 ELSE TRUE
    /\ IF n < 3 THEN s3' = s3 ELSE TRUE
    /\ IF n < 4 THEN s4' = s4 ELSE TRUE
    /\ IF n < 5 THEN s5' = s5 ELSE TRUE
    /\ IF n < 6 THEN s6' = s6 ELSE TRUE
    /\ IF n < 7 THEN s7' = s7 ELSE TRUE
    /\ IF n < 8 THEN s8' = s8 ELSE TRUE
    /\ IF n < 9 THEN s9' = s9 ELSE TRUE
    /\ IF n < 10 THEN s10' = s10 ELSE TRUE
    /\ IF n < 11 THEN s11' = s11 ELSE TRUE
    /\ IF n < 12 THEN s12' = s12 ELSE TRUE
    /\ IF n < 13 THEN s13' = s13 ELSE TRUE
    /\ IF n < 14 THEN s14' = s14 ELSE TRUE

=============================================================================

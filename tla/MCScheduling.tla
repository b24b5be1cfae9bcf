---------------------------- MODULE MCScheduling ----------------------------
(***************************************************************************)
(* A finite instance of Scheduling.                                        *)
(***************************************************************************)
EXTENDS Scheduling, TLC

CONSTANTS u1, u2, u3, s1, teamA, teamB

OneOwner == [s \in Schedules |-> teamA]

\* Units are short, so that a window of a few ticks holds several shifts.
Ticks == [u \in {"W", "D", "H", "M", "S"} |->
             CASE u = "W" -> 4 [] u = "D" -> 3 [] u = "H" -> 2 [] OTHER -> 1]

Offsets == [z \in {"UTC", "East"} |-> IF z = "East" THEN 2 ELSE 0]

Daily == [zone |-> "UTC", rotation |-> <<u1, u2>>, duration |-> <<<<1, "D">>>>, start |-> 2]

\* A schedule that is accepted, one without a rotation and two bad durations.
Rows == {Daily, [Daily EXCEPT !.rotation = <<>>], [Daily EXCEPT !.duration = <<>>],
         [Daily EXCEPT !.duration = <<<<1, "H">>>>]}

Bodies == {[rotation |-> <<>>], [zone |-> "East"], [zone |-> "Nowhere"],
           [duration |-> <<<<"T">>, <<1, "H">>>>], [duration |-> <<<<"T">>, <<1, "D">>>>],
           [start |-> 0, rotation |-> <<u2, u1, u3>>]}

\* Inside one shift, across a change of shift, over two changes, and adjacent ones.
Spans == {<<3, 4>>, <<4, 6>>, <<1, 9>>, <<6, 8>>}

Symmetry == Permutations(Handlers) \cup Permutations(OverrideIds)
=============================================================================

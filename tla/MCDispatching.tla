---------------------------- MODULE MCDispatching ----------------------------
(* Instances of Dispatching for TLC.  With trucks of 33 and a tenth of       *)
(* margin, 33 containers need two trucks and 70 three, their sums three,     *)
(* four and five: orders that are equal, one truck and several apart, and    *)
(* two volumes, 33 and 66, for which the margin alone costs a truck.  In the *)
(* run of one dispatcher 90 and 330 are volumes that the floats of the code  *)
(* round up, and 330 is where the margin is a truckful.                      *)
EXTENDS Dispatching, TLC

MCVolume == {33, 70}

MCVolumeRounded == {33, 90, 330}

\* The totals up to 700 for which ceil(total * (1 + 0.10) / 33), in doubles, is
\* above the exact one.
MCRoundsUp == {90, 180, 210, 330, 360, 390, 420, 450, 660, 690}

\* A forecast of nothing as well, which orders no truck.
MCVolumeSmall == {0, 100}

\* Routes and requests are told apart by nothing else.
MCSymmetry == Permutations(Route) \cup Permutations(Dispatcher)
=============================================================================

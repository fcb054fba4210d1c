--------------------------- MODULE MC_ControlLoop ---------------------------
(* ControlLoop for TLC: the car armed over UDP, and the simulator behind its *)
(* start delay.                                                             *)
EXTENDS ControlLoop

MCSetups ==
  LET live == [mode |-> "Live", policy |-> "UdpArm", delay |-> 0,
               forceArm |-> FALSE, allowLiveForceArm |-> FALSE, gpio |-> FALSE]
  IN  {live,
       [live EXCEPT !.mode = "Sim", !.policy = "Delay", !.delay = 1,
                    !.allowLiveForceArm = TRUE]}

MCEstopLens == {1, 2}
MCDistances == {1, 2, 3, Infinity}
MCThrottles == {2, NaN}
MCSteerings == {0, 1}
=============================================================================

---------------------------- MODULE MC_StartGate ----------------------------
(* StartGate for TLC: every configuration the live, sim and replay entry    *)
(* points can build, and the rejected live force-arm StartGate itself       *)
(* guards against.                                                          *)
EXTENDS StartGate

Configured(mode, policy, delay) ==
  [mode |-> mode, policy |-> policy, delay |-> delay, forceArm |-> FALSE,
   allowLiveForceArm |-> FALSE, gpio |-> FALSE]

MCSetups ==
  LET live == Configured("Live", "UdpArm", 0)
      sim == [Configured("Sim", "Delay", 2) EXCEPT !.allowLiveForceArm = TRUE]
      replay == [Configured("Replay", "AlwaysOpen", 0)
                   EXCEPT !.allowLiveForceArm = TRUE]
  IN  {[live EXCEPT !.forceArm = force, !.allowLiveForceArm = allow,
                    !.gpio = wired] : force, allow, wired \in BOOLEAN}
        \cup {[s EXCEPT !.forceArm = force] : s \in {sim, replay},
                                              force \in BOOLEAN}
=============================================================================

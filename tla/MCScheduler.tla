---------------------------- MODULE MCScheduler ----------------------------
EXTENDS Scheduler

(* A reboot and a tower lock away from midnight; windows that overlap, the *)
(* clear before the apply; all of it round midnight, on the second day.    *)
Plain     == [reboot |-> 2, rebootDays |-> {}, start |-> 1, end |-> 4,
              towerDays |-> {}, update |-> Off]
Overlap   == [reboot |-> Off, rebootDays |-> {}, start |-> 3, end |-> 2,
              towerDays |-> {}, update |-> 3]
Midnight  == [reboot |-> 5, rebootDays |-> {1}, start |-> 5, end |-> 0,
              towerDays |-> {1}, update |-> 0]

MCSchedules == {Plain, Overlap, Midnight}
=============================================================================

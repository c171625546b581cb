--------------------------- MODULE MCDeviceStatus ---------------------------
(* DeviceStatus with the three project-conf.h files of the producers, and  *)
(* their real reading ranges.  The 40 s warm-up of the diesel generator is *)
(* 4 ticks of 10 s.  The last build is the diesel with fault injection, as *)
(* its project-conf.h allows, so that a fault may meet a warm-up.          *)
EXTENDS DeviceStatus

Solar  == [on |-> TRUE, delay |-> 0, injecting |-> TRUE,
           vbase |-> 32, vrange |-> 5, ibase |-> 15, irange |-> 3]
Wind   == [on |-> TRUE, delay |-> 0, injecting |-> FALSE,
           vbase |-> 22, vrange |-> 3, ibase |-> 15, irange |-> 3]
Diesel == [on |-> FALSE, delay |-> 4, injecting |-> FALSE,
           vbase |-> 220, vrange |-> 11, ibase |-> 5, irange |-> 11]

Producers == {Solar, Wind, Diesel, [Diesel EXCEPT !.injecting = TRUE]}
=============================================================================

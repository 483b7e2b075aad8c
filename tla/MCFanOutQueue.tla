--------------------------- MODULE MCFanOutQueue ---------------------------
(* Small instances of FanOutQueue for TLC.                                 *)
EXTENDS FanOutQueue

\* A reader that skips the whole data and may fall two windows behind, and one with
\* an interval of 0 whose first fan-out is brought forward.
Option(interval, delay, skipFirst) ==
  [interval |-> interval, delay |-> delay, access |-> "READ", skipSelf |-> TRUE,
   skipFirst |-> skipFirst, mask |-> {}]
Readers == {Option(1, 0, TRUE), Option(0, -1, FALSE)}
=============================================================================

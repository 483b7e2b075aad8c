------------------------------ MODULE MCFanOut ------------------------------
(* Small instances of FanOut for TLC.                                      *)
EXTENDS FanOut

Option(interval, delay, access, skipSelf, skipFirst, mask) ==
  [interval |-> interval, delay |-> delay, access |-> access, skipSelf |-> skipSelf,
   skipFirst |-> skipFirst, mask |-> mask]

\* A reader that skips the full state, a writer that is sent its own updates and
\* whose first fan-out is brought forward, and a reader with an interval of 0.
ReaderAndWriter ==
  {Option(1, 0, "READ", TRUE, TRUE, {}), Option(2, -1, "WRITE", FALSE, FALSE, {}),
   Option(0, 0, "READ", TRUE, FALSE, {})}

\* A reader of the whole data; a reader of one field of two.
Reader == {Option(1, 0, "READ", TRUE, FALSE, {})}
MaskedReader == {Option(1, 0, "READ", TRUE, FALSE, {"name"})}
=============================================================================

--------------------------- MODULE MCSimpleSignal ----------------------------
(* Model values and bounds for checking SimpleSignal with TLC.             *)
EXTENDS SimpleSignal, TLC

CONSTANTS c1, c2

MCCallbacks == {c1, c2}
==============================================================================

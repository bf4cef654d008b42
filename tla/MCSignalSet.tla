--------------------------- MODULE MCSignalSet ---------------------------
(* Instances of SignalSet for TLC.                                           *)
EXTENDS SignalSet, TLC

CONSTANTS context, other, signals, others

\* The first set is main's, of the first io_context.
Owner == [s \in Sets |-> IF s = signals THEN context ELSE CHOOSE v \in Services :
                            v # context \/ Services = {context}]
\* Both have signal 15, and the first has another.
Added == [s \in Sets |-> IF s = signals THEN Signals ELSE {15}]
=============================================================================

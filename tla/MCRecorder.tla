---------------------------- MODULE MCRecorder ----------------------------
\* Instances of Recorder for TLC: a report in order, one that lists a child
\* before its parent, and one whose call names an invocation it does not list.
EXTENDS Recorder

Nested == [parents |-> <<0, 1>>, call |-> 2]
ChildFirst == [parents |-> <<0, 3, 0>>, call |-> 1]
UnknownCall == [parents |-> <<0>>, call |-> 2]

Reports == {Nested, ChildFirst, UnknownCall}
=============================================================================

---------------------------- MODULE MCBrainSync ----------------------------
\* Instances of BrainSync for TLC: two days, so that a sync rewrites two files.
EXTENDS BrainSync

TwoDays == [e \in Entries |-> e % 2]
=============================================================================

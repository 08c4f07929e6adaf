---------------------------- MODULE MCExecution ----------------------------
EXTENDS BoundedExecution

\* One candidate of the actor with everything a capture can show, and an
\* opaque token of somebody else.
MCCandidates ==
    {[owner |-> "self", hint |-> "self", life |-> "fresh", baseline |-> TRUE,
      renewal |-> FALSE],
     [owner |-> "other", hint |-> Unknown, life |-> "fresh", baseline |-> TRUE,
      renewal |-> FALSE]}
=============================================================================

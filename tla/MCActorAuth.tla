----------------------------- MODULE MCActorAuth ----------------------------
EXTENDS ActorAuth

\* Every candidate of the actor's account and of one other.
MCCandidates ==
    {c \in [owner : Subjects, hint : Hints, life : Lifetimes,
            baseline : BOOLEAN, renewal : BOOLEAN] :
        c.hint \in {c.owner, Unknown}}
=============================================================================

------------------------------ MODULE MCCursors ------------------------------
EXTENDS Cursors, TLC

\* One customer makes all the shares.
OneOwner == [e \in Shares |-> "customer"]

\* A behaviour is about overlapping replays; about overlapping feeds; about one
\* feed after another, over two windows of time; or about a replay beside a feed,
\* with an event that both hand over.
MCCast(tasks, rows, until) == [tasks |-> tasks, rows |-> rows, until |-> until]
OneFeeder == {CHOOSE t \in Feeders : TRUE}
OneReplayer == {CHOOSE t \in Replayers : TRUE}
Casts == {MCCast(Replayers, Events \cap Internal, 1), MCCast(Feeders, Shares, 1),
          MCCast(OneFeeder, Shares, 2), MCCast(OneFeeder \cup OneReplayer, Events \ Internal, 2)}

VARIABLE cast

castVars == <<vars, cast>>

InCast ==
    /\ cast' = cast
    /\ now' <= cast.until
    /\ \A t \in Tasks \ cast.tasks : task'[t] = Idle
    /\ \A e \in Rows : row[e] = None /\ row'[e] # None => e \in cast.rows /\ now < cast.until

CastInit == Init /\ cast \in Casts
CastNext == Next /\ InCast

\* FairSpec, for the strands of the cast.
CastSpec ==
    /\ CastInit /\ [][CastNext]_castVars
    /\ WF_castVars(Tick /\ InCast)
    /\ WF_castVars((\E e \in Rows : Commit(e)) /\ InCast)
    /\ \A t \in Tasks : WF_castVars(Step(t) /\ InCast)
    /\ SF_castVars((\E t \in Replayers : StartReplay(t)) /\ InCast)
    /\ SF_castVars((\E t \in Feeders : StartFeed(t)) /\ InCast)

=============================================================================

-------------------------- MODULE MCSearchCampaign --------------------------
(* Plans, and what their tunes cost.                                        *)
EXTENDS SearchCampaign

\* On a grid of two levels with the accepted tune 1: what --schedule full
\* plans, what coord plans (the levels of lr, then those of apm, the accepted
\* tune among both), and a walk of fuzz that steps forth and back.  With three
\* jobs the last two name a tune twice in one chunk.
SomePlans == { <<0, 1, 2, 3>>, <<0, 1, 1, 3>>, <<2, 0, 2, 0>> }

\* No other shard, or one whose log holds tunes 1 and 3.
SomeShards == { {}, {1, 3} }

\* Two levels of each axis.  Tune 3 is the best, and the descent ends at 0,
\* from where every single step is a loss or a tie.
SweepCost == [t \in 0 .. 3 |-> CASE t = 0 -> 5 [] t = 1 -> 9 [] t = 2 -> 5 [] t = 3 -> 4]

BothAxes == <<"lr", "apm">>

SomeMoves == << [axis |-> "apm", by |-> 1], [axis |-> "lr", by |-> -1],
                [axis |-> "apm", by |-> -1], [axis |-> "lr", by |-> 2] >>
=============================================================================

----------------------------- MODULE MCRuntimeRun -----------------------------
(* One channel with schedules of up to two jobs; two channels with one job    *)
(* each, or two on one of them.                                               *)
EXTENDS RuntimeRun, TLC

CONSTANTS c1, c2

RenderJob(n, gap) == [kind |-> "render", target |-> n, gap |-> gap]
MixJob(n, gap) == [kind |-> "mix", target |-> n, gap |-> gap]

MCOnOne == [Channel -> {<<RenderJob(4, FALSE), MixJob(3, TRUE)>>,
                        <<MixJob(5, TRUE), RenderJob(0, FALSE)>>,
                        <<RenderJob(2, FALSE), RenderJob(1, FALSE)>>,
                        <<RenderJob(0, FALSE)>>}]

MCShort == [Channel -> {<<RenderJob(2, FALSE), MixJob(1, TRUE)>>, <<RenderJob(0, FALSE)>>}]

\* Both channels alike.
Alike(schedule) == [c \in Channel |-> schedule]
MCTwoBlocks == {Alike(<<RenderJob(2, FALSE)>>)}

\* A longer schedule on one channel, none on the other.
Uneven(c, schedule) == [d \in Channel |-> IF d = c THEN schedule ELSE <<>>]
MCOnTwo == {Alike(<<RenderJob(1, FALSE)>>)}
           \cup {Uneven(c, <<RenderJob(2, FALSE), MixJob(1, TRUE)>>) : c \in Channel}
           \cup {Uneven(c, <<RenderJob(0, FALSE)>>) : c \in Channel}

Symmetry == Permutations({c1, c2})
=============================================================================

----------------------------- MODULE MCDisplay -----------------------------
\* A panel of two by three pixels at an offset in padded memory, one of three by one
\* that fills its memory, and capabilities that are each wrong in one way.
EXTENDS Display

Panel == [bits |-> 8, gray |-> TRUE, width |-> 3, height |-> 1,
          virtualWidth |-> 3, virtualHeight |-> 1,
          xOffset |-> 0, yOffset |-> 0, line |-> 3, memory |-> 3]
Padded == [Panel EXCEPT !.width = 2, !.height = 3, !.virtualWidth = 4, !.virtualHeight = 5,
                        !.xOffset = 1, !.yOffset = 1, !.line = 5, !.memory = 26]
Capabilities ==
  {Panel, Padded,
   [Panel EXCEPT !.bits = 16], [Panel EXCEPT !.gray = FALSE], [Panel EXCEPT !.width = 0],
   [Padded EXCEPT !.xOffset = 3], [Padded EXCEPT !.yOffset = 3],
   [Padded EXCEPT !.line = 3], [Padded EXCEPT !.memory = 24],
   [Padded EXCEPT !.virtualWidth = 31, !.xOffset = 30]}

Refreshes ==
  {[partial |-> TRUE, full |-> TRUE, wait |-> 0],
   [partial |-> FALSE, full |-> TRUE, wait |-> 1],
   [partial |-> FALSE, full |-> FALSE, wait |-> 0]}

Completions == {0, 1}

\* Each quarter turn, with and without a swap; an inversion of either axis; a raw
\* range finer and one coarser than the panel.
Transforms ==
  {[rawX |-> <<0, 4>>, rawY |-> <<-1, 1>>, swap |-> s, invertX |-> r \in {1, 2},
    invertY |-> (r \in {2, 3}) # s, rotation |-> r] : s \in BOOLEAN, r \in 0 .. 3}

Colors == {White, [red |-> 0, green |-> 90, blue |-> 10]}
=============================================================================

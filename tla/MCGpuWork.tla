----------------------------- MODULE MCGpuWork -----------------------------
(* GpuWork with three cards: card0 is driven by an integrated GPU, card2 by a   *)
(* discrete one, and card1 by none that Vulkan knows; another discrete GPU, the *)
(* one selected when no card decides it, drives no card, and a last one cannot  *)
(* draw.  Two cards have an output.                                             *)
EXTENDS GpuWork

MCGpuType == <<"integrated", "discrete", "discrete", "other">>
MCGpuVersion ==
  << [major |-> 1, minor |-> 3], [major |-> 1, minor |-> 2],
     [major |-> 1, minor |-> 1], [major |-> 1, minor |-> 3] >>
MCGpuNode == <<100, None, 102, 101>>
MCCardNode == [c \in Card |-> 100 + c]
MCOutputCard == <<0, 2>>
MCOutputSize == << [width |-> 2, height |-> 2], [width |-> 1, height |-> 3] >>
\* A frame larger than either output, with padded rows; one pixel; a frame whose
\* last row is missing, one with a short stride and one without a row.
MCFrames ==
  { [width |-> 2, height |-> 3, stride |-> 12, length |-> 36],
    [width |-> 1, height |-> 1, stride |-> 4, length |-> 4],
    [width |-> 2, height |-> 2, stride |-> 12, length |-> 16],
    [width |-> 2, height |-> 1, stride |-> 4, length |-> 8],
    [width |-> 1, height |-> 0, stride |-> 4, length |-> 0] }
=============================================================================

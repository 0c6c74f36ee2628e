---------------------------- MODULE FrameLedger ----------------------------
(***************************************************************************)
(* What the ingesters, the normalize queue and the tilers promise about    *)
(* each frame of a raster feed: it is taken up at most once, filed in the  *)
(* index at most once, and once taken up it is dropped unfiled only by a   *)
(* crash or a failed call.                                                 *)
(***************************************************************************)
EXTENDS Naturals

CONSTANT LedgerFrame

VARIABLES
  stage,      \* [LedgerFrame -> Stage]
  faults      \* crashes and failed calls so far

Stage == {"unseen", "held", "filed", "gone"}

LedgerInit == stage = [f \in LedgerFrame |-> "unseen"] /\ faults = 0

\* A frame is taken up, filed, retired from the index by age; one that was
\* never taken up is missed when the feed no longer lists it.
Forward == {<<"unseen", "held">>, <<"held", "filed">>, <<"filed", "gone">>,
            <<"unseen", "gone">>}

Moved(f) == stage'[f] # stage[f]

\* At most one frame is filed at a time; others may be missed at once.
Progress ==
  /\ faults' = faults
  /\ \A f \in LedgerFrame : Moved(f) => <<stage[f], stage'[f]>> \in Forward
  /\ \A f, g \in LedgerFrame :
       stage'[f] = "filed" /\ Moved(f) /\ stage'[g] = "filed" /\ Moved(g) => f = g

\* A crash or a failed call loses the frames one worker held.
Loss ==
  /\ faults' = faults + 1
  /\ \A f \in LedgerFrame : Moved(f) => stage[f] \in {"held", "unseen"} /\ stage'[f] = "gone"

LedgerNext == Progress \/ Loss

LedgerSpec == LedgerInit /\ [][LedgerNext]_<<stage, faults>>

=============================================================================

-------------------------- MODULE MCFramePipeline --------------------------
(***************************************************************************)
(* Instances of FramePipeline for TLC: which sources feed which composite, *)
(* and where the frames have data.                                         *)
(***************************************************************************)
EXTENDS FramePipeline, TLC

NoTwin == [w \in {} |-> ""]
EcTwin == [w \in {"ec"} |-> "ec-type"]

\* One target over everything, as getTargets builds them per pool.
OneComposite == [n \in {"composite"} |-> Sources]

TwoPools ==
  [n \in {"composite", "composite-type"} |->
     IF n = "composite" THEN Sources \ TypeSources ELSE TypeSources]

\* Every frame has tiles on every zoom.
FullEcho == [f \in Frame |-> Zooms]

\* The pipeline while its compositor is stopped: feeds, ingesters, tilers and
\* cleanup over a longer stretch of time.
NextUpstream ==
  \/ EnvStep
  \/ \E s \in RasterSources : IngesterStep(s)
  \/ \E w \in Tilers : TilerStep(w)
  \/ CleanupStep

SpecUpstream == Init /\ [][NextUpstream]_vars

TilerSymmetry == Permutations(Tilers)

=============================================================================

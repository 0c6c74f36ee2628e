---------------------------- MODULE MCTileServer ----------------------------
(***************************************************************************)
(* Instances of TileServer for TLC: two stations, the first volume of the  *)
(* second of which has reflectivity but nothing else on the tile.  In      *)
(* "ages" every request is for the layer with that empty volume, until all *)
(* the caches have settled; in "layers" requests of two layers meet in     *)
(* them within two minutes of a change.                                    *)
(***************************************************************************)
EXTENDS TileServer, TLC

VARIABLE scene

FirstLayer == CHOOSE l \in Layers : TRUE

FirstOfSecondDry ==
  [l \in Layers |-> [s \in Stations |-> IF s = 2 /\ l # FirstLayer THEN {1} ELSE {}]]

InScene ==
  \/ scene = "ages" /\ \A r \in Requests : req'[r].layer # FirstLayer
  \/ scene = "layers" /\ settled' <= 2

InitScenes == Init /\ scene \in {"ages", "layers"}

NextScenes == Next /\ InScene /\ UNCHANGED scene

SpecScenes == InitScenes /\ [][NextScenes]_<<vars, scene>>

RequestSymmetry == Permutations(Requests)

=============================================================================

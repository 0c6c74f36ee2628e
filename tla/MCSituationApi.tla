--------------------------- MODULE MCSituationApi ---------------------------
(***************************************************************************)
(* Instances of SituationApi for TLC: what composites show, and scenes     *)
(* that between them keep the state space small.  In "clients" the sockets *)
(* come, go, share ids and answer pings in every order around updates that *)
(* do not overlap; in "frames" a single socket, left alone by pings,       *)
(* watches updates overlap and fail over a longer run of composites; in    *)
(* "regions" it watches an airport of a region and one of none; in         *)
(* "restart" clients come back to a process that has lost its table and    *)
(* finds Redis as it was; in "cells" queries overlap while another         *)
(* composite becomes the latest or the latest is written again, and the    *)
(* handlers of these, which share nothing with them, do not go on.         *)
(***************************************************************************)
EXTENDS SituationApi, TLC

VARIABLE scene

\* Dry; hail 15 nm away with less reflectivity than a caution needs, which
\* suspends the ramp; 34.6 dBZ on the airfield, which rounds to the 35 of a
\* caution while its severity stays light.
Dry      == {}
HailNear == {[nm |-> 15, dbz |-> 250, type |-> "hail"]}
Rounding == {[nm |-> 4, dbz |-> 346, type |-> "none"]}

ThreeSkies == {Dry, HailNear, Rounding}

\* Two tiles in a row, four pixels wide and two high.  At first a heavy cell lies
\* across the tiles, beside rain just below the lower threshold and with a corner
\* at a moderate cell, whose bounding box it reaches into once that is rounded up
\* to whole pixels; in the other writing only the moderate one is left.
TwoWritings ==
  [c \in {"first", "other"} |-> [p \in (0..3) \X (0..1) |->
     CASE p = <<0, 0>> -> 400
       [] c = "first" /\ p \in {<<1, 1>>, <<2, 1>>, <<2, 0>>} -> 550
       [] c = "first" /\ p = <<3, 1>> -> 349
       [] OTHER -> 0]]

WestAndBoth == {<<0, 0>>, <<0, 1>>}

FewEvents == subscribes' + published' + failures' + clock' <= 4

NoCells == asked' = 0 /\ \A t \in Stamps : writings'[t] \subseteq {"first"}

\* Nothing of an airport outside the regions.
RegionsOnly ==
  \A x \in Airports \ RegionAirports :
    /\ \A t \in Stamps : composite'[t] # NoValue => composite'[t][x] = Dry
    /\ \A c \in ClientIds : clients'[c] # NoEntry => x \notin clients'[c].watchlist

OnlySkies(some) ==
  \A t \in Stamps, x \in Airports : composite'[t] # NoValue => composite'[t][x] \in some

OneHandler == Cardinality({h \in Handlers : job'[h].step # "idle"}) <= 1

Calm == \A s \in Sockets : ~owesPong'[s] /\ Cardinality(usedIds'[s]) <= 1

\* One that stays, if there are more than two composites.
OneClient ==
  /\ Cardinality({s \in Sockets : socket'[s] # "new"}) <= 1 /\ subscribes' <= 1
  /\ published' > 2 => \A s \in Sockets : socket'[s] \in {"new", "open"}

InScene ==
  \/ /\ scene = "cells"
     /\ failures' = 0 /\ clock' <= published' /\ published' <= 2
     /\ published' = 1 => latestComposite' = 0 /\ shows'[0] = "first"
     /\ published' = 2 => shows'[latestComposite'] = "other"
     /\ OnlySkies({Dry})
     /\ \A h \in Handlers : job'[h].step \in {"idle", "sync"}
  \/ /\ scene = "clients"
     /\ clock' = 0 /\ failures' = 0 /\ published' <= 2
     /\ published' = 2 => subscribes' <= 1
     /\ NoCells /\ RegionsOnly /\ OnlySkies({Dry, HailNear})
     /\ OneHandler
  \/ /\ scene = "frames"
     /\ FewEvents /\ OneClient /\ Calm
     /\ NoCells /\ RegionsOnly /\ OnlySkies({Dry, Rounding})
  \/ /\ scene = "regions"
     /\ failures' = 0 /\ clock' = 0 /\ published' <= 2
     /\ NoCells /\ OneHandler /\ OneClient /\ Calm
  \/ /\ scene = "restart"
     /\ clock' = 0 /\ published' <= 2 /\ subscribes' <= 2
     /\ NoCells /\ RegionsOnly /\ OneHandler /\ Calm
     /\ failures' = failures \/ Restart

InitScenes == Init /\ scene \in {"clients", "frames", "regions", "restart", "cells"}

\* The announcements of these scenes; InScene would drop the others.
MayAnnounce ==
  /\ scene # "restart" => subscribes + published + failures + clock < 4
  /\ scene # "frames" => published < 2

NextScenes ==
  /\ \/ MayAnnounce /\ \E h \in Handlers : Announce(h)
     \/ HandlersStep
     \/ scene # "cells" /\ ClientsStep
     \/ scene = "cells" /\ QueriesStep
  /\ InScene
  /\ UNCHANGED scene

SpecScenes == InitScenes /\ [][NextScenes]_<<vars, scene>>

ClientSymmetry == Permutations(Sockets) \cup Permutations(ClientIds) \cup Permutations(Handlers)

=============================================================================

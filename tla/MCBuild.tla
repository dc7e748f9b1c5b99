------------------------------ MODULE MCBuild ------------------------------
\* Small scenes for Build: ground with up to two things on it, built in several ways.
EXTENDS Pipeline

Range3(lo, hi, area) == [bottom |-> lo, top |-> hi, area |-> area]
Shape(cells, lo, hi, area) == [c \in cells |-> Range3(lo, hi, area)]

Land == 2
Water == 1
Pillar(x, z) == Shape({<<x, z>>}, 0, 20, NullArea)
GroundShapes == {Shape(Cells, 1, 2, Land), Shape(Cells \ {<<2, 1>>}, 1, 2, Land)}
Things == {Pillar(1, 1), Pillar(3, 2),
           Shape({<<3, 1>>, <<3, 2>>}, 2, 3, NullArea),
           Shape({<<4, z>> : z \in 0..Height - 1}, 3, 6, Land),
           Shape({<<x, 2>> : x \in 0..3}, 13, 14, Land),
           Shape({<<2, 2>>, <<3, 2>>}, 4, 5, Water)}
MCScenes == {{g} \cup t : g \in GroundShapes, t \in {u \in SUBSET Things : Cardinality(u) <= 2}}

Pool == [kind |-> "box", min |-> <<2, 0, 2>>, max |-> <<5, 6, 3>>, area |-> Water]
Lake == [kind |-> "box", min |-> <<2, 0, 4>>, max |-> <<7, 6, 5>>, area |-> Water]
Well == [kind |-> "cylinder", at |-> <<7, 0, 5>>, radius |-> 3, height |-> 6, area |-> Water]
Field == [kind |-> "poly", corners |-> <<<<0, 1>>, <<6, 1>>, <<3, 8>>>>, low |-> 0, high |-> 6, area |-> Water]
Usual == [steps |-> TRUE, ledges |-> FALSE, clearance |-> TRUE, volumes |-> <<>>, radius |-> 0,
          median |-> FALSE, builder |-> "watershed", border |-> 0, minArea |-> 2, mergeSize |-> 4,
          error |-> [num |-> 169, den |-> 100], tess |-> [walls |-> FALSE, areas |-> FALSE, length |-> 0],
          nvp |-> 6, obstacles |-> <<>>]
Exact0 == [num |-> 0, den |-> 1]
Bordered == [Usual EXCEPT !.border = 1, !.error = Exact0, !.minArea = 0]
Tiles == [Usual EXCEPT !.builder = "tiles", !.error = Exact0]
Box == [kind |-> "box", min |-> <<2, 0, 2>>, max |-> <<5, 6, 3>>]
Barrel == [kind |-> "cylinder", at |-> <<9, 0, 5>>, radius |-> 1, height |-> 4]
Crate == [kind |-> "oriented", at |-> <<5, 0, 3>>, half |-> <<3, 2, 1>>, turn |-> <<-1, 0>>]
MCPlans == {Usual,
            [Usual EXCEPT !.volumes = <<Pool>>, !.minArea = 3, !.error = Exact0],
            [Usual EXCEPT !.radius = 1, !.median = TRUE, !.volumes = <<Field>>],
            [Usual EXCEPT !.builder = "monotone", !.volumes = <<Lake>>, !.mergeSize = 6, !.error = Exact0,
                          !.tess = [walls |-> TRUE, areas |-> TRUE, length |-> 2]],
            [Usual EXCEPT !.builder = "monotone", !.volumes = <<Pool>>, !.minArea = 0, !.mergeSize = 0,
                          !.error = Exact0, !.nvp = 4],
            [Bordered EXCEPT !.builder = "monotone", !.ledges = TRUE],
            [Usual EXCEPT !.builder = "layers", !.volumes = <<Well>>, !.error = Exact0],
            Bordered,
            [Tiles EXCEPT !.volumes = <<Pool>>],
            [Tiles EXCEPT !.obstacles = <<Box>>],
            [Tiles EXCEPT !.obstacles = <<Crate, Barrel>>, !.error = [num |-> 13, den |-> 10]],
            [Tiles EXCEPT !.border = 1]}

\* Plans whose border meets two regions.
MCBorders == {[Bordered EXCEPT !.builder = "monotone", !.mergeSize = 2],
              [Bordered EXCEPT !.builder = "layers"],
              [Bordered EXCEPT !.mergeSize = 0]}
=============================================================================

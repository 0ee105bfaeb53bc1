---------------------------- MODULE MCDesignStage ----------------------------
EXTENDS DesignStage

\* A topic with two good sources, one with two equally good ones, one with none.
Scores == [clear |-> <<6, 3, 2>>, vague |-> <<4, 4, 0>>, unknown |-> <<1, 0, 0>>]

Proposed(topic, mode, sides, sound) ==
  [topic |-> topic, mode |-> mode, sides |-> sides, sound |-> sound, understood |-> topic]

\* The valid ones differ in mode and evidence; one is not what the user reads.
Briefs == {Proposed("clear", "flat_front_back", {"back"}, TRUE),
           [Proposed("vague", "single_hero", {}, TRUE) EXCEPT !.understood = "clear"],
           Proposed("unknown", "three_view", {"front", "back", "side"}, TRUE),
           Proposed("clear", "three_view", {"front"}, TRUE), Proposed("clear", "other", {}, TRUE),
           Proposed("clear", "single_hero", {}, FALSE)}

Listed(source, category, intact) == [source |-> source, category |-> category, intact |-> intact]

\* In two orders, with a changed document, with one listed twice, and too short.
Files == {<<Listed(1, 1, TRUE), Listed(2, 2, TRUE), Listed(3, 3, TRUE)>>,
          <<Listed(3, 3, TRUE), Listed(2, 2, TRUE), Listed(1, 1, TRUE)>>,
          <<Listed(1, 1, TRUE), Listed(2, 2, FALSE), Listed(3, 3, TRUE)>>,
          <<Listed(1, 1, TRUE), Listed(2, 2, TRUE), Listed(2, 3, TRUE)>>,
          <<Listed(1, 1, TRUE)>>}
=============================================================================

\* Two owners and one projection of one leg: a close, a reopening, a second close
\* and two rewrites of the leg fit under the clock.
CONSTANTS
  Leg = {l1}
  Owner = {o1, o2}
  Writer = {w1}
  Nothing = Nothing
  MaxNow = 7
SPECIFICATION Spec
SYMMETRY Symmetry
INVARIANTS
  EveryLegIsReported
  FirstCloseCountsOnce
  HistoryIsAStory
\* The clock is bounded, and the bound ends every behaviour.
CHECK_DEADLOCK FALSE

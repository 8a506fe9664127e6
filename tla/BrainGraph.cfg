SPECIFICATION FairSpec
CONSTANTS
  Debounce = 1
  NoCall = NoCall
  Worlds <- BackendWorlds
  Plans <- BackendPlans
  MaxIterations = 3
INVARIANTS
  MotionIsLegal
  ObserveBeforeAct
PROPERTIES
  ActsAsConfirmed
  CommandEnds

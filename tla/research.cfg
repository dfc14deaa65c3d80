SPECIFICATION FairSpec
CONSTANTS
  t1 = t1  t2 = t2  h1 = h1  h2 = h2
  Starters = {t1, t2}
  Handlers = {h1, h2}
  MaxEvents = 3
INVARIANTS
  TypeOK
  NewestWins
  
PROPERTIES
  EndedNeverLands
  
  NoRunHangs
  SlotDecided
CHECK_DEADLOCK FALSE

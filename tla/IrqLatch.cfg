CONSTANTS
  Irqs <- FourIrqs
  Latched <- OneLatch
  MaxIrqs = 2
  MaxPrio = 1
SPECIFICATION FairSpec
INVARIANTS SleeperNotified PendingIffUnseen EnabledAsAsked
PROPERTIES IrqServed RequestTaken

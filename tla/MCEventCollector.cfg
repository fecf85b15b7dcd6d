SPECIFICATION CollectorSpec
CONSTANT
  MaxOthers = 2
INVARIANT
  NeverOvercounts
PROPERTY
  PassesWhenPrompt
CHECK_DEADLOCK FALSE

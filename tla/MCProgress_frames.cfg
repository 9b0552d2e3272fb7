SPECIFICATION CalmSpec
CONSTANTS Names <- MCNames GroupOf <- MCGroupOf Above <- MCAbove
  MaxUpdates = 4 MaxTicks = 2
CHECK_DEADLOCK FALSE
INVARIANTS TypeOK OneFrame FinalFrame

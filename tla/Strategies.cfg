\* All uses of the strategies, over ordinary keys.
SPECIFICATION Spec
CONSTANTS
  Values = {0, 1, 2}
  Keys = {1, 2, 3}
  Uses <- ProgramUses
  Stored <- MCStored
  Offered <- MCOffered
  MaxItems = 3
  DefaultTS = 3
  DeletedCutoff = 2
INVARIANTS MergedAsPromised DirtyIffChanged AppendFits AcceptsTheSorted
PROPERTY Returns
CHECK_DEADLOCK FALSE

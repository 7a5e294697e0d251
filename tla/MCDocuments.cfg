CONSTANTS
  Nodes <- MCNodes
  Subtree <- MCSubtree
  Values = {0, 1}
  Analyzed <- MCProcesses
  Evidence <- MCEvidence
  NoId = NoId
  NoTarget = NoTarget
  NoAnalysis = NoAnalysis
  Contentless = Contentless
  Circle = Circle
SPECIFICATION MCSpec
INVARIANTS RecoverySuffices XmlIsFaithful BudgetCoversAnalysis ValidIsUsable
CHECK_DEADLOCK FALSE

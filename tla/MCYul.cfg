SPECIFICATION Spec
CONSTANTS
  WordSize = 4
  MaxDepth = 2
  Fuels = {8, 14, 60}
  Patience = 12
  Statements <- MCStatements
  Conditions <- MCConditions
  Posts <- MCPosts
  Library <- MCLibrary
  Input = 2
  MaxSize = 4
INVARIANTS
  AnswersRight
  StaticCallPure
CHECK_DEADLOCK FALSE

SPECIFICATION Spec
CONSTANTS
  WordSize = 4
  MaxDepth = 2
  Fuels = {8, 14, 60}
  Patience = 12
  Statements <- Internal
  Conditions <- MCConditions
  Posts <- MCPosts
  Library <- MCLibrary
  Input = 2
  MaxSize = 4
INVARIANTS
  NonOkDoesNotMatter
CHECK_DEADLOCK FALSE

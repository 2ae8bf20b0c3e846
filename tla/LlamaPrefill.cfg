SPECIFICATION Spec
CONSTANTS
  Kinds = {"llama"}
  Prompts <- MCPrompts
  Tokens <- MCTokens
  Piece <- MCPiece
  StopSets <- MCStopSets
  MaxTokens = {0, 3}
  NCtx = 5
  NBatch = 2
INVARIANT ChunksArePrefilled

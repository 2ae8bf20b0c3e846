SPECIFICATION Spec
CONSTANTS
  Kinds = {"llama", "axcl", "npu"}
  Prompts <- MCPrompts
  Tokens <- MCTokens
  Piece <- MCPiece
  StopSets <- MCStopSets
  MaxTokens = {0, 3}
  NCtx = 5
  NBatch = 2
INVARIANTS SamplesFromOwnText HistoryIsTheCells StopsAreFound NoByteIsLost

SPECIFICATION SidebandSpec
CONSTANTS
  Prompts = {p}
  Prompt = p
  NoPrompt = NoPrompt
  MaxPromptHistory = 2
  Types <- MCTypes
  MaxPipe = 0
  MaxLines = 0
  MaxReady = 0
  MaxInterrupts <- MCInterrupts
  MaxBatches = 1
  BatchLines = 1
INVARIANT
  CompletionMeansRead

SPECIFICATION FairSidebandSpec
CONSTANTS
  Prompts = {p}
  Prompt = p
  NoPrompt = NoPrompt
  MaxPromptHistory = 2
  Types <- MCTypes
  MaxPipe = 0
  MaxLines = 0
  MaxReady = 0
  MaxInterrupts <- MCInterrupts
  MaxBatches = 2
  BatchLines = 2
INVARIANTS
  CompletedMeansRead
  LinesRunInOrder
  InterruptDiscards
PROPERTY
  BatchSettles

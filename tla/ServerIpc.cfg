SPECIFICATION Spec
CONSTANTS
  Prompts = {p}
  NoPrompt = NoPrompt
  MaxPromptHistory = 2
  Types <- MCTypes
  MaxPipe = 1
  MaxLines = 1
  MaxReady = 1
  MaxInterrupts <- MCInterrupts
INVARIANTS
  TypeOK
  FreshCompletion
  SettledInterrupt
  CompletionNotHidden
PROPERTY
  NothingAfterSessionEnd

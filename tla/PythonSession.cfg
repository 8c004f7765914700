SPECIFICATION Spec
CONSTANTS
  LinesPerPayload = 2
  Systems = {"unix", "windows"}
  Main = Main
  Readers = {r1}
  MainWaitsBehind = FALSE
  MaxInputs = 2
  MaxInterrupts = 2
  MaxReads = 2
INVARIANTS SettledMeansQuiet ConsumedInOrder
PROPERTY ServerIsAnswered
CHECK_DEADLOCK FALSE

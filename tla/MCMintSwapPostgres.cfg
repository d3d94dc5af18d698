SPECIFICATION Spec
CONSTANTS
  y1 = y1
  y2 = y2
  b1 = b1
  b2 = b2
  Ys <- MCYs
  Outs <- MCOuts
  InputsAmount <- MCInputsAmount
  OutAmount <- MCOutAmount
  OutputsAmount <- MCOutputsAmount
  InputFeePpk = 800
  NoOp = NoOp
  Ops = {o1, o2}
  SwapOps = {o1, o2}
  DbErrors = FALSE
  DeleteSagaFails = TRUE
  AbortedCommitsOk = TRUE
  SecondStart = FALSE
  MaxCrashes = 1
INVARIANTS
  AnsweredSwapKeepsInputs
CHECK_DEADLOCK FALSE

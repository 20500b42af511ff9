SPECIFICATION Spec
CONSTANTS
  p = p
  c = c
  o = o
  sA = sA
  sB = sB
  NoSpec = NoSpec
  NilError = NilError
  Errs <- MCErrs
  Via <- MCVia
  Size <- MCSize
  Specs = {sA, sB}
  MaxLines <- MCMaxLines
  MaxBytes <- MCMaxBytes
  Types <- MCTypes
  TTL <- MCTTL
  LinesFactor = 1
  MostSamples = 3
  Budgets <- MCBudgets
INVARIANT NoPanicOnError

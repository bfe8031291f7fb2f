SPECIFICATION Spec
CONSTANTS
  w1 = w1
  w2 = w2
  good = good
  other = other
  bad = bad
  Writers = {w1, w2}
  Payloads = {good, other}
  ValidPayloads = {good, other}
  NoPayload = NoPayload
  Faults <- PowerFaults
  MaxGeneration = 2
SYMMETRY WriterSymmetry
INVARIANT AckedIsDurable

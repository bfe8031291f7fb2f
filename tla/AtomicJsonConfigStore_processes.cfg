SPECIFICATION FairSpec
CONSTANTS
  w1 = w1
  w2 = w2
  good = good
  other = other
  bad = bad
  Writers = {w1, w2}
  Payloads = {good, other, bad}
  ValidPayloads = {good, other}
  NoPayload = NoPayload
  Faults <- ProcessFaults
  MaxGeneration = 2
INVARIANT TypeOK
INVARIANT OneWriterInside
INVARIANT OneAckPerGeneration
PROPERTY ReplacesWhatWasRead
PROPERTY OrphanFreezesStore
PROPERTY ImplementsRegister
PROPERTY EveryWriteAnswered

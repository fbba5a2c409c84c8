SPECIFICATION Spec
CONSTANTS
  RECV_INTERVAL = 2
  TRANS_LATENCY = 2
  MaxTyped = 3
  MaxSent = 2
INVARIANTS TypeOK InterruptsExact TestedTransfers
PROPERTIES IntervalsKept DevicesGoOn

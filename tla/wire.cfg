CONSTANTS
  Packet <- Packets
  MaxSent = 2
SPECIFICATION FairSpec
INVARIANTS TypeOK OddEnds GarbledRefused Inv
PROPERTIES LinkSpec Arrives LossNoticed
CHECK_DEADLOCK FALSE

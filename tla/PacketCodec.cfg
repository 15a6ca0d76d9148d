SPECIFICATION Spec
CONSTANTS
  Programs <- MCPrograms
  Sizes = {1, 9, 12, 14, 16, 18, 20, 22, 26, 30, 34, 36, 38, 42}
  MacBytes = 14
  UIntValues = 65536
INVARIANTS TypeOK ReadsInsidePacket ExtractReadsHeader EmitWritesHeader PayloadKept
CHECK_DEADLOCK FALSE

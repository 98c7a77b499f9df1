CONSTANTS
  Addresses <- TwoAddresses
  Sizes = {1, 2}
  Bytes = {0, 1}
  MaxCommands = 4
SPECIFICATION Spec
INVARIANTS OwnResponse ReadsLastWrite ExecutorsAgree
CHECK_DEADLOCK FALSE

SPECIFICATION BufferSpec
CONSTANTS
  Bytes = {b0, b1}
  Garbage = Garbage
  kDefaultSize = 2
  kShrinkSize = 4
  kEnlargeSize = 2
  MaxRead = 2
  MaxData = 3
  MaxCapacity = 9
PROPERTIES
  BufferIsFifo

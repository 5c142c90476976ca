CONSTANTS
    Sizes = {4, 5, 6, 7, 8, 10, 12, 13, 14}
    ByteBits = 2
    BlockBits = 4
    FirstBitmap = 1
    JournalSize = 1
    ResizeCarefully = TRUE
SPECIFICATION Spec
INVARIANT BitmapAgrees
PROPERTY ImplementsPool

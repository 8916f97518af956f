SPECIFICATION HeapSpec
CONSTANTS
    Regions <- ThreeRegions
    Sizes = {1, 5}
    SizeField = 2
    Overhead = 6
    NodeSize = 4
    Threshold = 6
INVARIANTS FreeListJoined NothingLost
PROPERTIES ImplementsAllocator

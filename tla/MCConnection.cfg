SPECIFICATION ConnectionSpec
CONSTANTS
    Zero = Zero
    Junk = Junk
    byte = byte
    MaxLength = 1
    Packages = {p1, p2, p3}
    Outgoing <- SomePackages
    Incoming <- SomeFrames
    Pooled <- PooledPackages
    Capacity = 1
INVARIANTS
    NothingBehindTheLast
    EndsClosed
PROPERTIES
    ConnectionsEnd
\* A connection ends.
CHECK_DEADLOCK FALSE

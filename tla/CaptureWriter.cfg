\* Four records; the buffer holds less than a header, or a record and part of its neighbour.
SPECIFICATION Spec
CONSTANTS
    Record <- TwoRecords
    BufferSizes = {1, 5}
    MaxRecords = 4
INVARIANTS
    TypeOK
    ExportHoldsAllBefore
PROPERTIES
    ImplementsLog

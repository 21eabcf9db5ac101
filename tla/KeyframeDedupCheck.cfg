CONSTANTS
    Offsets <- DedupOffsets
    Colours = {"green", "blue"}
    MaxEntries = 3
SPECIFICATION Spec
INVARIANT DedupPreservesPlayback

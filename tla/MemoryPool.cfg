CONSTANT N = 5
SPECIFICATION FairPoolSpec
INVARIANTS NextIsFree
PROPERTIES ReturnsIfRoom LastBlockIsFatal

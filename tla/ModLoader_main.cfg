\* Three ids of two files, each loaded up to twice: cycles, failures, retries.
SPECIFICATION Spec
CONSTANTS
  Ids = {"a", "a.js", "b"}
  Files = {"a.js", "b.js"}
  FileOf <- AliasFiles
  MaxLoads = 2
INVARIANTS NoNestedLoad NoHalfLoaded

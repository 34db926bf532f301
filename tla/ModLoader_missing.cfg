\* A require of a module that does not exist.
SPECIFICATION Spec
CONSTANTS
  Ids = {"a", "a.js", "b"}
  Files = {"a.js", "b.js"}
  FileOf <- AliasFiles
  MaxLoads = 2
PROPERTY MissingThrows

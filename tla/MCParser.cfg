\* a Python or a TypeScript file
CONSTANTS
  src = src
  lib = lib
  Segment = {src, lib}
  Dir <- MCDir
  MaxSegments = 5
  Nowhere = Nowhere
  Name = {f, g}
  Top = Top
  MaxSize = 4
  MaxImports = 1
  LongSize = 1
SYMMETRY NameSymmetry
SPECIFICATION ParserSpec
INVARIANTS WellFormed CallsAreFound ParsersAgree ReachesItsFile
PROPERTY IdsAreStable

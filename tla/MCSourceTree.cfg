\* two index runs and queries beside a developer who changes the tree twice
CONSTANTS
  top = top
  src = src
  deps = deps
  git = git
  tests = tests
  main = main
  util = util
  lib = lib
  notes = notes
  spec = spec
  config = config
  Dir <- MCDirs
  File <- MCFiles
  Root = top
  In <- MCIn
  Dotted = {git}
  Skipped = {deps}
  Supported = {main, util, lib, spec, config}
  Order <- MCOrder
  Given <- MCGiven
  Touched = {main, util, top, src}
  Content <- MCContent
  Place = {home, moved}
  Run = {r1, r2}
  Null = Null
  MaxEdits = 2
SPECIFICATION TreeSpec
INVARIANTS EveryFileIsAccountedFor QuietRunIsFresh SnippetsQuote
SYMMETRY Symmetric
\* both runs may be over
CHECK_DEADLOCK FALSE

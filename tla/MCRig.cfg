CONSTANTS
  core = core
  app = app
  app_ = app_
  Name = {core, app, app_}
  Safe <- MCSafe
  Path = {"root", "a", "b", "c"}
  Script = {"build", "serve"}
  HandId <- MCHandId
  Order <- MCOrder
  Contents <- MCContents
  Absent = Absent
  Broken = Broken
  IllTyped = IllTyped
SPECIFICATION Spec
INVARIANTS WellFormed NeverShadowed NothingIsSkipped FailsClosed

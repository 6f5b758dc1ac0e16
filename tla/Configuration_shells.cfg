CONSTANTS
  sh1 = sh1  sh2 = sh2
  i1 = i1  i2 = i2  i3 = i3
  home = home  work = work
  Home = home
  Gone = gone
  Shells <- TwoShells
  Relative = {}
  Dirs = {home}
  Inodes <- ThreeInodes
  Versions = {"a"}
  Others = TRUE

SPECIFICATION Spec
SYMMETRY ShellSymmetry

INVARIANTS TypeOK
PROPERTIES ExaminedBeforeTrusted NothingUnasked

CONSTANTS
  sh1 = sh1  sh2 = sh2
  i1 = i1  i2 = i2  i3 = i3
  home = home  work = work
  Home = home
  Gone = gone
  Shells <- OneShell
  Relative <- OneShell
  Dirs = {home, work}
  Inodes <- ThreeInodes
  Versions = {"a", "b"}
  Others = FALSE

SPECIFICATION Spec
SYMMETRY InodeSymmetry

PROPERTIES AskedMeansChanged

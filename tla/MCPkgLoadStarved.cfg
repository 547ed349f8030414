CONSTANTS
  r = r  a = a  b = b  c = c  main = main  w1 = w1  w2 = w2
  Pkgs <- MCPkgs
  Root = r
  Main = main
  Workers <- MCWorkers
  Projects <- FanProjects
  MayFail = FALSE
SPECIFICATION LoadSpec
PROPERTIES BuildEnds
CHECK_DEADLOCK FALSE

CONSTANTS
  s1 = s1
  s2 = s2
  main = main
  other = other
  f1 = f1
  upstream = upstream
  fork = fork
  Runs = {1, 2, 3, 4, 5}
  CreatedAt <- Created
  HeadSHA <- SHA
  HeadBranch <- BranchOf
  HeadRepo <- RepoOf
  Repo = upstream
  Branch = main
  None = None
SPECIFICATION Spec
INVARIANTS HeadServed RightBranch NewestServed

SPECIFICATION LibrarySpec
SYMMETRY Alike
CONSTANTS
  Null = Null
  Torn = Torn
  Writer = {w1, w2}
  Id = {a, b}
  Name = {n1, n2}
  Reals <- AnnotatedOrSuperseded
  MaxJobs <- JobsOf
  Roles = {"own", "owner", "overlay"}
  LibraryFaults = {"kill", "lost"}
INVARIANTS
  LibraryInv
PROPERTIES
  DescriptorsAreKept
  NamesAndGrantsAreKept

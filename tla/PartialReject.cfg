SPECIFICATION Spec
CONSTANTS
  x = x
  y = y
  n = n
  main = main
  dev = dev
  c1 = c1
  c2 = c2
  c3 = c3
  p1 = p1
  p2 = p2
  a1 = a1
  a2 = a2
  NoCommit = NoCommit
  NoBranch = NoBranch
  NoOwner = NoOwner
  Commit <- Commits
  Reach <- History
  Branch <- TwoBranches
  MainBranch = main
  Owner <- TwoOwners
  Name <- OneName
  Repo <- BothRepos
  Push <- TwoPushes
  RepoOf <- TwoToX
  Proposal <- Wants
  Origin <- Origins
  Announcement <- OneAnnouncement
  OwnerOf <- ByX
  NameOf <- ItsName
  PACK_COMPACTION_THRESHOLD = 1
  MAX_MANIFEST_PACKS = 2
  MAX_REPOS_PER_PUBKEY = 1
INVARIANT
  ReportedIsPublished
CHECK_DEADLOCK FALSE

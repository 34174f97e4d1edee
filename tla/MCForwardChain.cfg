SPECIFICATION FairSpec
CONSTANTS
  c1 = c1
  c2 = c2
  nochain = nochain
  Cidrs <- MCCidrs
  Rewritten <- MCRewritten
  KubeCount <- MCKubeCount
  Installed <- MCInstalled
  NoChain = nochain
  MaxChanges = 2
INVARIANTS TypeOK 
PROPERTIES OthersKept OneBackendForBoth JumpComesBack

SPECIFICATION FairSpec
CONSTANTS
  caddy = caddy
  ntfy = ntfy
  sso = sso
  media = media
  k3s = k3s
  pbs = pbs
  pbs2 = pbs2
  lcaddy = lcaddy
  lntfy = lntfy
  lsso = lsso
  lmedia = lmedia
  lk3s = lk3s
  r1 = r1
  r2 = r2
  l1 = l1
  l2 = l2
  Runs <- TheRuns
  Deploys <- TheDeploys
  Chain <- TheChain
  Want <- TheWant
  Labs <- TwoLabs
  Overlaps <- ApartOrNot
  ForeignTypes <- Containers
  Hosts <- FiveHosts
  Reserved <- Gateway
  Vmids <- SixVmids
  TemplateNic = "flat"
  MaxCrashes <- OneOrTwo
  MaxOthers = 1
CHECK_DEADLOCK FALSE
INVARIANTS
  TypeOK
  OnOwnGuest
  AddressesDiffer
  OneGuestPerInstance
  VmidAsMeant
PROPERTIES
  RerunsFinish

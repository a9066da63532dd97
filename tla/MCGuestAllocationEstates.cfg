SPECIFICATION Spec
CONSTANTS
  caddy = caddy
  ntfy = ntfy
  sso = sso
  media = media
  k3s = k3s
  pbs = pbs
  pbs2 = pbs2
  lcaddy = lcaddy
  lntfy = lntfy
  lsso = lsso
  lmedia = lmedia
  lk3s = lk3s
  r1 = r1
  r2 = r2
  l1 = l1
  l2 = l2
  Runs <- EstateRuns
  Deploys <- EstateDeploys
  Chain <- EstateChain
  Want <- EstateWant
  Labs <- EstateLab
  Overlaps <- Overlapping
  ForeignTypes <- Containers
  Hosts <- FiveHosts
  Reserved <- Gateway
  Vmids <- SixVmids
  TemplateNic = "flat"
  MaxCrashes <- NoCrash
  MaxOthers = 0
CHECK_DEADLOCK FALSE
INVARIANTS
  OnOwnGuest

SPECIFICATION FairSpec
CONSTANTS
  cfg = cfg  home = home  d1 = d1  d2 = d2
  p1 = p1  p2 = p2  c1 = c1  c2 = c2  c3 = c3
  tilde = tilde  here = here
  Name <- MCNames
  Driver = {"keepass"}
  Dir = {cfg, home, d1, d2}
  Base = {"vaults.yaml", "a", "b"}
  Home = home  ConfigHome = cfg  Tilde = tilde  Here = here
  VaultsYaml = "vaults.yaml"
  Unset = Unset  NoFile = NoFile  Broken = Broken  NoName = NoName  NoDriver = NoDriver  NoPath = NoPath
  NoDefault = NoDefault
  Program = {p1, p2}
  Call = {c1, c2, c3}
  Of <- MCOf
  Cwd <- AbsCwd
  Env <- Unlisted
  Modes <- OnlyAgent
  Wired = {p1, p2}
  Override <- NoOverride
  Prompters <- OnlyMap
  Known <- RightPassword
  Typed <- AllTyped
  Piped <- EmptyPipe
  Loads <- RelLoads
  Asked = {NoName}
  Contents <- OnlyWellKnown
  Edited = {}
  VaultFile <- AbsVaults
  Retries = 2
  MaxEdits = 0
  EditsDuringUnlock = FALSE
  NoCall = NoCall  Nothing = Nothing
PROPERTY KeptConnectionsLive
CHECK_DEADLOCK FALSE

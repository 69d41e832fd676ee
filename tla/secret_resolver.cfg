SPECIFICATION Spec
CONSTANTS
  cfg = cfg  home = home  d1 = d1  d2 = d2
  p1 = p1  p2 = p2  c1 = c1  c2 = c2  c3 = c3
  tilde = tilde  here = here
  Name <- MCNames
  Driver = {"keepass"}
  Dir = {cfg, home, d1, d2}
  Base = {"vaults.yaml", "a", "b"}
  Home = home  ConfigHome = cfg  Tilde = tilde  Here = here
  VaultsYaml = "vaults.yaml"
  Unset = Unset  NoFile = NoFile  Broken = Broken  NoName = NoName  NoDriver = NoDriver  NoPath = NoPath
  NoDefault = NoDefault
  Program = {p1, p2}
  Call = {c1, c2, c3}
  Of <- MCOf
  Cwd <- AbsCwd
  Env <- AbsEnv
  Modes <- AbsModes
  Wired = {p1}
  Override <- NoOverride
  Prompters <- AbsPrompters
  Known <- RightPassword
  Typed <- AllTyped
  Piped <- OnePipe
  Loads <- AbsLoads
  Asked = {NoName}
  Contents <- AbsContents
  Edited <- AbsEdited
  VaultFile <- AbsVaults
  Retries = 2
  MaxEdits = 1
  EditsDuringUnlock = FALSE
  NoCall = NoCall  Nothing = Nothing
INVARIANTS TypeOK OwnVaultOnly OneUnlockAtATime
  AnswersKeepContract LastFileWins
PROPERTY NeverAsksForAKeptVault
CHECK_DEADLOCK FALSE

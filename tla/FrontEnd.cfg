CONSTANTS
  lister = lister
  changer = changer
  Clients = {lister, changer}
  Requests <- MCRequests
  Probes <- MCProbes
  OtherResults <- MCOtherResults
  QueueKeys <- MCQueueKeys
  InitialPolicy <- MCInitialPolicy
  ServerAccount = "a"
  Modes = {"strict", "bypass"}
  AccessKeys <- MCKeys
  Registered <- MCRegistered
  SecretOf <- MCSecretOf
  TokenOf <- MCTokenOf
  AccountOf <- MCAccountOf
  ExpiryOf <- MCExpiryOf
  AllowedRegions = {"r"}
  Skew = 1
  DayLength = 2
  Never = 9
  NoToken = "none"
  NoAccount = "none"
  DeleteCooldown = 1
  MaxClock = 2
  MaxExits = 1
  MaxTasks = 1
  HTTPWritten <- MCHTTPWritten
  JSONDecoded <- MCJSONDecoded
  QueryDecoded <- MCQueryDecoded
  JSONEncoded <- MCJSONEncoded
  QueryEncoded <- MCQueryEncoded
  JSONError <- MCJSONError
  QueryError <- MCQueryError
  ReplyRead <- MCReplyRead
  MeaningOf <- MCMeaningOf
SPECIFICATION FairSpec
INVARIANTS FrontTypeOK HandledAsMeant ReadAsAnswered ListingsCarried ListingAccurate
PROPERTIES VerdictRight ListingEnds

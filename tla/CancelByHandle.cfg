CONSTANTS
  lister = lister
  changer = changer
  Clients = {lister, changer}
  Requests <- SDKRequests
  Probes <- NoProbes
  OtherResults <- MCOtherResults
  QueueKeys <- MCQueueKeys
  InitialPolicy <- MCInitialPolicy
  ServerAccount = "a"
  Modes = {"bypass"}
  AccessKeys <- MCKeys
  Registered <- MCRegistered
  SecretOf <- MCSecretOf
  TokenOf <- MCTokenOf
  AccountOf <- MCAccountOf
  ExpiryOf <- MCExpiryOf
  AllowedRegions = {"r"}
  Skew = 1
  DayLength = 2
  Never = 9
  NoToken = "none"
  NoAccount = "none"
  DeleteCooldown = 1
  MaxClock = 1
  MaxExits = 1
  MaxTasks = 1
  HTTPWritten <- MCHTTPWritten
  JSONDecoded <- MCJSONDecoded
  QueryDecoded <- MCQueryDecoded
  JSONEncoded <- MCJSONEncoded
  QueryEncoded <- MCQueryEncoded
  JSONError <- MCJSONError
  QueryError <- MCQueryError
  ReplyRead <- MCReplyRead
  MeaningOf <- MCMeaningOf
SPECIFICATION Spec
INVARIANT CancelFindsTask

SPECIFICATION DelayedSpec
CONSTANTS
  Requests = {r1, r2, r3, r4}
  Names <- MCNames
  Passwords <- MCPasswords
  NoPassword = NoPassword
  Providers <- MCProviders
  Externals <- MCExternals
  ProviderOf <- MCProviderOf
  MaxId = 5
  Keys <- MCKeys
  Base = 250
  MaxDelay = 8000
  NoKey = NoKey
  NameChoices <- MCNameChoices
  a = a
  b = b
  pw = pw
  github = github
  other = other
  x1 = x1
  x2 = x2
  x3 = x3
  home = home
  away = away
PROPERTY DeletesTheConfirmedAccount
CHECK_DEADLOCK FALSE

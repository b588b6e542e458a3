CONSTANTS
  Absolute = FALSE
  MaxSaves = 2
SPECIFICATION CredentialsSpec
INVARIANT CredentialsFound

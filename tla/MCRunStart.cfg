SPECIFICATION Spec
CONSTANTS
  Invocations <- MCInvocations
  Contents <- MCContents
  Worlds <- MCWorlds
  Passphrases <- MCPassphrases
  None = None
INVARIANTS
  ConsentUnlessOverridden
  StartedAsConfigured
PROPERTIES
  CodeNamesTheFault

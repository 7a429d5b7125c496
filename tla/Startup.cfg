SPECIFICATION Spec
CONSTANTS
  Digests <- MCDigests
  Files <- MCFiles
INVARIANTS
  TokensSeparate
  ValidationIsExact
  StartupReleases

SPECIFICATION Spec
CONSTANTS
  Sessions = {s1, s2, s3}
  allowlist <- MCAllowlist
  Ports <- MCPorts
  MaxConcurrency = 2
  None = None
INVARIANTS
  TypeOK
  OneSessionPerListener
PROPERTIES
  ImplementsPool

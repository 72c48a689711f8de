SPECIFICATION Spec
CONSTANTS
  a1 = a1
  a2 = a2
  k1 = k1
  k2 = k2
  pw = pw
  pk = pk
  None = None
  Unsent = Unsent
  Addrs <- MCAddrs
  HostKeys <- MCHostKeys
  Passwords <- MCPasswords
  PrivateKeys <- MCPrivateKeys
SYMMETRY Symmetry
INVARIANTS StoredStaysHome
PROPERTY PinOnlyReset

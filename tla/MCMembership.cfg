SPECIFICATION Spec
CONSTANTS
  k1 = k1  d1 = d1  d2 = d2
  Devices = {k1, d1, d2}
  Founders = {k1, d1, d2}
  Nowhere = Nowhere
  MaxInvites = 2
  MaxRequests = 2
  MaxErrors = 1
SYMMETRY Joiners
INVARIANTS TypeOK OneIdentityPerCode CredentialsAgree JoinIsRetrySafeUnlessError RosterIsPast

SPECIFICATION Spec
CONSTANTS
  Users = {u1, u2, u3}
  Key = Key
  Nobody = Nobody
  Grantable = {"admin"}
  Slots = {s1, s2}
  Transfers = {t1, t2}
SYMMETRY Symmetry
INVARIANTS OwnersAreFounded
PROPERTIES OwnershipIsAccepted

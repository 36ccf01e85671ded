SPECIFICATION Spec
CONSTANTS
  t1 = t1 t2 = t2
  Threads <- TwoThreads
  Boot = Boot
  Passwords = {"admin", "pw1", "pw2"}
  DefaultPassword = "admin"
  Salts = {"salt1", "salt2"}
  Nobody = Nobody
  None = None
  MaxCrashes = 2
  MaxFaults = 2
SYMMETRY ThreadSymmetry
INVARIANT
  PasswordStaysChanged

SPECIFICATION Spec

CONSTANTS
  w1 = w1
  w2 = w2
  pw1 = pw1
  pw2 = pw2
  u1 = u1
  d1 = d1
  NoPassword = NoPassword
  Absent = Absent
  Everything = Everything
  Workers = {w1}
  Passwords = {pw1, pw2}
  Awkward = {}
  Users = {u1}
  Databases = {d1}
  LoginHost = "localhost"
  Faults = {}
  MaxEvents = 1

INVARIANTS
  FailedMeansUnaltered

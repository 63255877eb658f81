\* Three keys, one of them from a mnemonic; three spellings of two names.
SPECIFICATION Spec
CONSTANTS
  k1 = k1
  k2 = k2
  k3 = k3
  words = words
  alice = alice
  bob = bob
  Alice = Alice
  bad = bad
  backup = backup
  Key = {k1, k2, k3}
  Mnemonic = {words}
  KeyOf <- MCKeyOf
  Name = {alice, bob}
  BodyName = {alice, bob, Alice, bad}
  Normalized <- MCNormalized
  Path = {backup}
  Active = Active
  NoName = NoName
  Invalid = Invalid
  Unwritable = Unwritable
  NoMnemonic = NoMnemonic
  None = None
  Torn = Torn
INVARIANT TypeOK
INVARIANT ActiveSaved
INVARIANT AnswersTrue
PROPERTY StartRestores

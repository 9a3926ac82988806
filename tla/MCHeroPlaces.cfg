\* Three heroes of one player with two slots, sent everywhere and back.  All may be
\* burned, and then nothing is left to do.
SPECIFICATION Spec
CONSTANTS
    ada = ada  ben = ben  h1 = h1  h2 = h2  h3 = h3  t1 = t1  t2 = t2  t3 = t3
    Players = {ada}
    Heroes = {h1, h2, h3}
    Templates = {t1, t2, t3}
    Accounts = {t1, t2, t3}
    Bears <- Own
    Rallies = {r1}
    Allies = {a1}
    Cities = {"rome"}
    Nothing = Nothing
    Anywhere = "anywhere"
    Template <- Singles
    Origin <- Origins
    Growth <- Flat
    HomeBonus <- Halves
    Scale = 2
    BuffMax = 8
    NumSlots = 2
    MaxLocked = 2
    LevelCap = 1
    MeditationCap = 1
    Leader <- AdaLeads
    NewCaps = {}
INVARIANTS EscrowsHold
PROPERTIES PlacesKept
CHECK_DEADLOCK FALSE

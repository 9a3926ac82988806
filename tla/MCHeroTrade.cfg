\* Two players with one slot each, who trade two heroes of one template.
SPECIFICATION Spec
CONSTANTS
    ada = ada  ben = ben  h1 = h1  h2 = h2  h3 = h3  t1 = t1  t2 = t2  t3 = t3
    Players = {ada, ben}
    Heroes = {h1, h2}
    Templates = {t1}
    Accounts = {t1}
    Bears <- Own
    Rallies = {r1}
    Allies = {}
    Cities = {"rome"}
    Nothing = Nothing
    Anywhere = "anywhere"
    Template <- Series
    Origin <- Origins
    Growth <- Flat
    HomeBonus <- Halves
    Scale = 2
    BuffMax = 8
    NumSlots = 1
    MaxLocked = 2
    LevelCap = 1
    MeditationCap = 1
    Leader <- AdaLeads
    NewCaps = {1, 2}
INVARIANTS SupplyCounts
PROPERTIES OwnersTrade
CHECK_DEADLOCK FALSE

\* Two heroes of one player who gain levels, at home in one city or in all, and
\* whose buffs reach the end of the counter.
SPECIFICATION Spec
CONSTANTS
    ada = ada  ben = ben  h1 = h1  h2 = h2  h3 = h3  t1 = t1  t2 = t2  t3 = t3
    Players = {ada}
    Heroes = {h1, h2}
    Templates = {t1, t2}
    Accounts = {t1, t2, t3}
    Bears <- Alike
    Rallies = {r1}
    Allies = {}
    Cities = {"rome", "oslo"}
    Nothing = Nothing
    Anywhere = "anywhere"
    Template <- Singles
    Origin <- Origins
    Growth <- Doubling
    HomeBonus <- Halves
    Scale = 2
    BuffMax = 8
    NumSlots = 2
    MaxLocked = 2
    LevelCap = 2
    MeditationCap = 2
    Leader <- AdaLeads
    NewCaps = {}
INVARIANTS TypeOK
PROPERTIES BuffsStayInSync
CHECK_DEADLOCK FALSE

-------------------------- MODULE HeroCustodyProofs --------------------------
(* Theorems about HeroCustody, for every value of its constants. *)
EXTENDS HeroCustody, SumsProofs

-----------------------------------------------------------------------------
(* Addresses, slots and worths *)

\* The addresses of the program are all different.
LEMMA Addresses ==
  ASSUME NEW p, NEW q, NEW e \in Escrows, NEW f \in Escrows
  PROVE  /\ Wallet(p) = Wallet(q) => p = q
         /\ Account(p) = Account(q) => p = q
         /\ <<e, p>> = <<f, q>> => e = f /\ p = q
         /\ Wallet(p) # Account(q) /\ Wallet(p) # <<e, q>> /\ Account(p) # <<e, q>>
         /\ Unminted # Burned
         /\ Wallet(p) \notin {Unminted, Burned}
         /\ Account(p) \notin {Unminted, Burned}
         /\ <<e, p>> \notin {Unminted, Burned}
BY DEF Wallet, Account, Unminted, Burned, Escrows

\* Every address that the instructions write is one that may hold an NFT.
LEMMA AddressTypes ==
  ASSUME NEW p \in Players, NEW e \in Escrows
  PROVE  /\ Wallet(p) \in Holders /\ Account(p) \in Holders /\ <<e, p>> \in Holders
         /\ Unminted \in Holders /\ Burned \in Holders
BY DEF Wallet, Account, Unminted, Burned, Escrows, Holders

\* The slots are finitely many, and there is one.
LEMMA SlotsFinite == IsFiniteSet(Slots) /\ NumSlots \in Slots
BY FS_Interval, HeroAssumption DEF Slots

\* A floored quotient of natural numbers is a natural number.
LEMMA QuotientType ==
  ASSUME NEW a \in Nat, NEW b \in Nat \ {0}
  PROVE  a \div b \in Nat
OBVIOUS

\* What a hero brings fits the u16, whatever account is read for its template.
LEMMA WorthAsType ==
  ASSUME NEW t \in Accounts, NEW l \in Levels, NEW b \in Nat
  PROVE  WorthAs(t, l, b) \in 0 .. BuffMax
<1> DEFINE v == (Growth[t][l] * (Scale + b)) \div Scale
<1>1. Growth[t][l] \in Nat
  BY HeroAssumption
<1>2. Growth[t][l] * (Scale + b) \in Nat
  BY <1>1, HeroAssumption
<1>3. v \in Nat
  <2> HIDE <1>2
  <2> QED BY <1>2, HeroAssumption, QuotientType
<1> HIDE DEF v
<1>4. WorthAs(t, l, b) = IF v > BuffMax THEN BuffMax ELSE v
  BY DEF WorthAs, v
<1> QED BY <1>3, <1>4, HeroAssumption

\* The location bonus is a natural number.
LEMMA BonusAsType ==
  ASSUME NEW h \in Heroes, NEW t \in Accounts, NEW c
  PROVE  BonusAs(h, t, c) \in Nat
BY HeroAssumption DEF BonusAs

\* The template of a hero, and what bears its number, are accounts.
LEMMA BearsType ==
  ASSUME NEW h \in Heroes
  PROVE  /\ Template[h] \in Accounts /\ Template[h] \in Bears[Template[h]]
         /\ Bears[Template[h]] \subseteq Accounts
BY HeroAssumption

\* The same of the template itself.
LEMMA WorthType ==
  ASSUME NEW h \in Heroes, NEW l \in Levels, NEW b \in Nat
  PROVE  Worth(h, l, b) \in 0 .. BuffMax
BY WorthAsType, BearsType DEF Worth

LEMMA BonusType ==
  ASSUME NEW h \in Heroes, NEW c
  PROVE  Bonus(h, c) \in Nat
BY BonusAsType, BearsType DEF Bonus

\* The saturating operations stay within the u16.
LEMMA PlusMinus ==
  ASSUME NEW x \in 0 .. BuffMax, NEW v \in Nat
  PROVE  Plus(x, v) \in 0 .. BuffMax /\ Minus(x, v) \in 0 .. BuffMax
BY HeroAssumption DEF Plus, Minus

-----------------------------------------------------------------------------
(* Type correctness *)

\* The fields of the account of a player have their types.
LEMMA AccountFields ==
  ASSUME NEW a \in PlayerAccount
  PROVE  /\ a.slots \in [Slots -> Heroes \cup {Nothing}] /\ a.bonus \in [Slots -> Nat]
         /\ a.buffs \in 0 .. BuffMax /\ a.meditating \in Slots \cup {Nothing}
         /\ a.city \in Cities
BY DEF PlayerAccount

\* An account stays an account when its fields are replaced by others of their types.
LEMMA AccountReplaced ==
  ASSUME NEW a \in PlayerAccount,
         NEW x \in [Slots -> Heroes \cup {Nothing}], NEW y \in [Slots -> Nat],
         NEW z \in 0 .. BuffMax, NEW m \in Slots \cup {Nothing}, NEW c \in Cities
  PROVE  /\ [a EXCEPT !.slots = x] \in PlayerAccount
         /\ [a EXCEPT !.buffs = z] \in PlayerAccount
         /\ [a EXCEPT !.buffs = z, !.meditating = m] \in PlayerAccount
         /\ [a EXCEPT !.meditating = m] \in PlayerAccount
         /\ [a EXCEPT !.city = c] \in PlayerAccount
         /\ [a EXCEPT !.city = c, !.bonus = y, !.buffs = z] \in PlayerAccount
         /\ [a EXCEPT !.slots = x, !.bonus = y, !.buffs = z] \in PlayerAccount
BY DEF PlayerAccount

\* What the returns of a rally do to the account of a player.
LEMMA SeatedAsFields ==
  ASSUME NEW a \in PlayerAccount, NEW s \in Slots, NEW h \in Heroes, NEW t \in Accounts,
         level \in [Heroes -> Levels]
  PROVE  /\ SeatedAs(a, s, h, t) \in PlayerAccount
         /\ \A z \in Slots :
               /\ SeatedAs(a, s, h, t).slots[z] = IF z = s THEN h ELSE a.slots[z]
               /\ SeatedAs(a, s, h, t).bonus[z]
                    = IF z = s THEN BonusAs(h, t, a.city) ELSE a.bonus[z]
         /\ SeatedAs(a, s, h, t).buffs
              = Plus(a.buffs, WorthAs(t, level[h], BonusAs(h, t, a.city)))
         /\ SeatedAs(a, s, h, t).city = a.city
<1> DEFINE b == BonusAs(h, t, a.city)
           x == [a.slots EXCEPT ![s] = h]
           y == [a.bonus EXCEPT ![s] = b]
           z == Plus(a.buffs, WorthAs(t, level[h], b))
<1>1. b \in Nat
  BY BonusAsType
<1>2. WorthAs(t, level[h], b) \in Nat
  <2> HIDE DEF b
  <2> QED BY <1>1, WorthAsType
<1>3. z \in 0 .. BuffMax
  BY <1>2, PlusMinus, AccountFields
<1>4. x \in [Slots -> Heroes \cup {Nothing}] /\ y \in [Slots -> Nat]
  <2> HIDE DEF b
  <2> QED BY <1>1, AccountFields
<1>5. SeatedAs(a, s, h, t) = [a EXCEPT !.slots = x, !.bonus = y, !.buffs = z]
  BY DEF SeatedAs, PlayerAccount
<1> HIDE DEF x, y, z
<1>6. [a EXCEPT !.slots = x, !.bonus = y, !.buffs = z] \in PlayerAccount
  BY <1>3, <1>4, AccountReplaced, AccountFields
<1>7. /\ SeatedAs(a, s, h, t).slots = x /\ SeatedAs(a, s, h, t).bonus = y
      /\ SeatedAs(a, s, h, t).buffs = z /\ SeatedAs(a, s, h, t).city = a.city
  BY <1>5 DEF PlayerAccount
<1>8. \A n \in Slots : /\ x[n] = IF n = s THEN h ELSE a.slots[n]
                       /\ y[n] = IF n = s THEN b ELSE a.bonus[n]
  <2> HIDE DEF b
  <2> QED BY AccountFields DEF x, y
<1> QED BY <1>5, <1>6, <1>7, <1>8 DEF z

\* What lock and the other returns do to it.
LEMMA SeatedFields ==
  ASSUME NEW a \in PlayerAccount, NEW s \in Slots, NEW h \in Heroes,
         level \in [Heroes -> Levels]
  PROVE  /\ Seated(a, s, h) \in PlayerAccount
         /\ \A z \in Slots :
               /\ Seated(a, s, h).slots[z] = IF z = s THEN h ELSE a.slots[z]
               /\ Seated(a, s, h).bonus[z] = IF z = s THEN Bonus(h, a.city) ELSE a.bonus[z]
         /\ Seated(a, s, h).buffs = Plus(a.buffs, Worth(h, level[h], Bonus(h, a.city)))
         /\ Seated(a, s, h).city = a.city
BY SeatedAsFields, BearsType DEF Seated, Bonus, Worth

\* What a rally does to it.
LEMMA UnseatedAsFields ==
  ASSUME NEW a \in PlayerAccount, NEW s \in Slots, a.slots[s] # Nothing, NEW t \in Accounts,
         level \in [Heroes -> Levels]
  PROVE  /\ UnseatedAs(a, s, t) \in PlayerAccount
         /\ \A z \in Slots :
               /\ UnseatedAs(a, s, t).slots[z] = IF z = s THEN Nothing ELSE a.slots[z]
               /\ UnseatedAs(a, s, t).bonus[z] = IF z = s THEN 0 ELSE a.bonus[z]
         /\ UnseatedAs(a, s, t).buffs
              = Minus(a.buffs, WorthAs(t, level[a.slots[s]], a.bonus[s]))
         /\ UnseatedAs(a, s, t).city = a.city
<1> DEFINE h == a.slots[s]
           x == [a.slots EXCEPT ![s] = Nothing]
           y == [a.bonus EXCEPT ![s] = 0]
           z == Minus(a.buffs, WorthAs(t, level[h], a.bonus[s]))
<1>1. h \in Heroes /\ a.bonus[s] \in Nat
  BY AccountFields
<1>2. WorthAs(t, level[h], a.bonus[s]) \in Nat
  <2> HIDE DEF h
  <2> QED BY <1>1, WorthAsType
<1>3. z \in 0 .. BuffMax
  BY <1>2, PlusMinus, AccountFields
<1>4. x \in [Slots -> Heroes \cup {Nothing}] /\ y \in [Slots -> Nat]
  BY AccountFields
<1>5. UnseatedAs(a, s, t) = [a EXCEPT !.slots = x, !.bonus = y, !.buffs = z]
  BY DEF UnseatedAs, PlayerAccount
<1> HIDE DEF x, y, z
<1>6. [a EXCEPT !.slots = x, !.bonus = y, !.buffs = z] \in PlayerAccount
  BY <1>3, <1>4, AccountReplaced, AccountFields
<1>7. /\ UnseatedAs(a, s, t).slots = x /\ UnseatedAs(a, s, t).bonus = y
      /\ UnseatedAs(a, s, t).buffs = z /\ UnseatedAs(a, s, t).city = a.city
  BY <1>5 DEF PlayerAccount
<1>8. \A n \in Slots : /\ x[n] = IF n = s THEN Nothing ELSE a.slots[n]
                       /\ y[n] = IF n = s THEN 0 ELSE a.bonus[n]
  BY AccountFields DEF x, y
<1> QED BY <1>5, <1>6, <1>7, <1>8 DEF z, h

\* What unlock and a garrison do to it.
LEMMA UnseatedFields ==
  ASSUME NEW a \in PlayerAccount, NEW s \in Slots, a.slots[s] # Nothing,
         level \in [Heroes -> Levels]
  PROVE  /\ Unseated(a, s) \in PlayerAccount
         /\ \A z \in Slots :
               /\ Unseated(a, s).slots[z] = IF z = s THEN Nothing ELSE a.slots[z]
               /\ Unseated(a, s).bonus[z] = IF z = s THEN 0 ELSE a.bonus[z]
         /\ Unseated(a, s).buffs
              = Minus(a.buffs, Worth(a.slots[s], level[a.slots[s]], a.bonus[s]))
         /\ Unseated(a, s).city = a.city
<1>1. a.slots[s] \in Heroes
  BY AccountFields
<1>2. Template[a.slots[s]] \in Accounts
  BY <1>1, BearsType
<1> QED BY <1>2, UnseatedAsFields DEF Unseated, Worth

\* What a gain of levels does to it.
LEMMA RaisedFields ==
  ASSUME NEW a \in PlayerAccount, NEW h \in Heroes,
         NEW l \in Levels, NEW n \in Levels, l <= n
  PROVE  LET d == Growth[Template[h]][n] - Growth[Template[h]][l] IN
         /\ d \in Nat
         /\ Raised(a, h, l, n) \in PlayerAccount
         /\ Raised(a, h, l, n)
              = [a EXCEPT !.buffs = Plus(a.buffs, IF d > BuffMax THEN BuffMax ELSE d)]
<1> DEFINE d == Growth[Template[h]][n] - Growth[Template[h]][l]
           v == IF d > BuffMax THEN BuffMax ELSE d
<1>1. d \in Nat
  <2>1. Template[h] \in Templates
    BY HeroAssumption
  <2>2. /\ Growth[Template[h]][n] \in Nat /\ Growth[Template[h]][l] \in Nat
        /\ Growth[Template[h]][l] <= Growth[Template[h]][n]
    BY <2>1, HeroAssumption
  <2> QED BY <2>2
<1>2. v \in Nat
  BY <1>1, HeroAssumption
<1>3. Raised(a, h, l, n) = [a EXCEPT !.buffs = Plus(a.buffs, v)]
  BY DEF Raised, PlayerAccount
<1> HIDE DEF v
<1>4. Plus(a.buffs, v) \in 0 .. BuffMax
  BY <1>2, PlusMinus, AccountFields
<1>5. [a EXCEPT !.buffs = Plus(a.buffs, v)] \in PlayerAccount
  BY <1>4, AccountReplaced, AccountFields
<1> QED BY <1>1, <1>3, <1>5 DEF v

\* What is read of slots of account a is read of accounts.
LEMMA ReadingType ==
  ASSUME NEW a \in PlayerAccount, NEW read \in Readings(a), NEW s \in DOMAIN read
  PROVE  /\ s \in Slots /\ a.slots[s] \in Heroes
         /\ read[s] \in Bears[Template[a.slots[s]]] /\ read[s] \in Accounts
<1>1. PICK given \in SUBSET Occupied(a) : read \in [given -> Accounts]
  BY DEF Readings
<1>2. s \in Slots /\ a.slots[s] \in Heroes /\ read[s] \in Accounts
  BY <1>1, AccountFields DEF Occupied
<1> QED BY <1>2 DEF Readings

\* What an arrival does to it.
LEMMA RecomputedType ==
  ASSUME NEW a \in PlayerAccount, NEW c \in Cities, NEW read \in Readings(a),
         level \in [Heroes -> Levels]
  PROVE  /\ Recomputed(a, c, read) \in PlayerAccount
         /\ Recomputed(a, c, read).slots = a.slots
<1> DEFINE y == [s \in Slots |-> IF s \in DOMAIN read THEN BonusAs(a.slots[s], read[s], c) ELSE 0]
           w == [s \in Slots |-> IF s \in DOMAIN read
                                 THEN WorthAs(read[s], level[a.slots[s]], y[s]) ELSE 0]
           z == Plus(Cleared(a), SumOver(w, Slots))
<1>1. \A s \in DOMAIN read : s \in Slots /\ a.slots[s] \in Heroes /\ read[s] \in Accounts
  BY ReadingType
<1>2. y \in [Slots -> Nat]
  BY <1>1, BonusAsType
<1>3. \A s \in Slots : w[s] \in Nat
  <2> SUFFICES ASSUME NEW s \in Slots PROVE w[s] \in Nat
    OBVIOUS
  <2> HIDE DEF y
  <2>1. CASE s \in DOMAIN read
    <3>1. WorthAs(read[s], level[a.slots[s]], y[s]) \in Nat
      BY <1>1, <1>2, <2>1, WorthAsType
    <3> QED BY <2>1, <3>1
  <2>2. CASE s \notin DOMAIN read
    BY <2>2
  <2> QED BY <2>1, <2>2
<1>4. SumOver(w, Slots) \in Nat
  <2> HIDE DEF w
  <2> QED BY <1>3, SumNat, SlotsFinite
<1>5. z \in 0 .. BuffMax
  BY <1>4, PlusMinus, HeroAssumption DEF Cleared
<1>6. Recomputed(a, c, read) = [a EXCEPT !.city = c, !.bonus = y, !.buffs = z]
  BY DEF Recomputed
<1> HIDE DEF y, w, z
<1>7. Recomputed(a, c, read) \in PlayerAccount
  BY <1>2, <1>5, <1>6 DEF PlayerAccount
<1> QED BY <1>6, <1>7 DEF PlayerAccount

\* The parts of the state have their types.
LEMMA StateTypes ==
  ASSUME TypeOK, NEW p \in Players
  PROVE  /\ player[p] \in PlayerAccount /\ level \in [Heroes -> Levels]
         /\ \A s \in Slots : player[p].slots[s] \in Heroes \cup {Nothing}
         /\ \A r \in Rallies : party[p][r] \in RallyParticipant
         /\ \A r \in Rallies : party[p][r].hero \in Heroes \cup {Nothing}
         /\ \A a \in Allies : ally[p][a] \in Heroes \cup {Nothing}
         /\ \A e \in Escrows : escrow[p][e] \in Heroes \cup {Nothing}
<1>1. /\ player[p] \in PlayerAccount /\ level \in [Heroes -> Levels]
      /\ \A r \in Rallies : party[p][r] \in RallyParticipant
      /\ \A a \in Allies : ally[p][a] \in Heroes \cup {Nothing}
      /\ \A e \in Escrows : escrow[p][e] \in Heroes \cup {Nothing}
  BY DEF TypeOK
<1>2. player[p].slots \in [Slots -> Heroes \cup {Nothing}]
  BY <1>1, AccountFields
<1>3. \A r \in Rallies : party[p][r].hero \in Heroes \cup {Nothing}
  BY <1>1 DEF RallyParticipant
<1> QED BY <1>1, <1>2, <1>3

\* A step that writes no more than an account, a holder and an escrow keeps the types.
LEMMA WriteTypes ==
  ASSUME TypeOK, NEW p \in Players, NEW h \in Heroes, NEW a \in PlayerAccount, NEW to \in Holders
  PROVE  /\ [player EXCEPT ![p] = a] \in [Players -> PlayerAccount]
         /\ [holder EXCEPT ![h] = to] \in [Heroes -> Holders]
BY DEF TypeOK

\* RestoreHero keeps the types.
LEMMA RestoreTypes ==
  ASSUME TypeOK, NEW p \in Players, NEW h \in Heroes, RestoreHero(p, h)
  PROVE  player' \in [Players -> PlayerAccount] /\ holder' \in [Heroes -> Holders]
<1>1. CASE FirstFree(player[p]) # {}
  <2>1. PICK s \in FirstFree(player[p]), t \in Bears[Template[h]] :
           player' = [player EXCEPT ![p] = SeatedAs(player[p], s, h, t)] /\ UNCHANGED holder
    BY <1>1 DEF RestoreHero
  <2>2. SeatedAs(player[p], s, h, t) \in PlayerAccount
    <3>1. s \in Slots /\ t \in Accounts
      BY BearsType DEF FirstFree
    <3> QED BY <3>1, SeatedAsFields, StateTypes
  <2> QED BY <2>1, <2>2, WriteTypes DEF TypeOK
<1>2. CASE FirstFree(player[p]) = {}
  <2>1. holder' = [holder EXCEPT ![h] = Wallet(p)] /\ UNCHANGED player
    BY <1>2 DEF RestoreHero, MovesFrom
  <2> QED BY <2>1, AddressTypes DEF TypeOK, Escrows
<1> QED BY <1>1, <1>2

\* GarrisonReturn keeps the types.
LEMMA GarrisonReturnTypes ==
  ASSUME TypeOK, NEW p \in Players, NEW q \in Players, GarrisonReturn(p, q)
  PROVE  TypeOK'
<1> DEFINE h == escrow[p]["garrison"]
<1>0. "garrison" \in Escrows
  BY DEF Escrows
<1>1. /\ h \in Heroes
      /\ escrow' = [escrow EXCEPT ![p]["garrison"] = Nothing]
      /\ \E to \in {Wallet(q), Account(p)} : holder' = [holder EXCEPT ![h] = to]
  BY <1>0, StateTypes DEF GarrisonReturn, Released
<1>2. \E a \in PlayerAccount : player' = [player EXCEPT ![p] = a]
  <2>1. CASE FirstFree(player[p]) = {}
    <3>1. player' = [player EXCEPT ![p] = player[p]]
      BY <2>1 DEF GarrisonReturn, TypeOK
    <3> QED BY <3>1, StateTypes
  <2>2. CASE FirstFree(player[p]) # {}
    <3>1. PICK s \in FirstFree(player[p]) : player' = [player EXCEPT ![p] = Seated(player[p], s, h)]
      BY <2>2 DEF GarrisonReturn
    <3>2. s \in Slots
      BY DEF FirstFree
    <3>3. Seated(player[p], s, h) \in PlayerAccount
      <4> HIDE DEF h
      <4> QED BY <1>1, <3>2, SeatedFields, StateTypes
    <3> QED BY <3>1, <3>3
  <2> QED BY <2>1, <2>2
<1>3. Wallet(q) \in Holders /\ Account(p) \in Holders
  BY <1>0, AddressTypes
<1> HIDE DEF h
<1>4. holder' \in [Heroes -> Holders] /\ player' \in [Players -> PlayerAccount]
  BY <1>1, <1>2, <1>3 DEF TypeOK
<1>5. escrow' \in [Players -> [Escrows -> Heroes \cup {Nothing}]]
  BY <1>0, <1>1 DEF TypeOK
<1> QED BY <1>4, <1>5 DEF GarrisonReturn, TypeOK

\* The initial state is well typed.
LEMMA TypeInit == Init => TypeOK
<1> SUFFICES ASSUME Init PROVE TypeOK
  OBVIOUS
<1>1. holder \in [Heroes -> Holders]
  BY DEF Init, Holders, Unminted
<1>2. level \in [Heroes -> Levels]
  BY HeroAssumption DEF Init, Levels
<1>3. player \in [Players -> PlayerAccount]
  <2>1. \A c \in Cities : [slots |-> [s \in Slots |-> Nothing], bonus |-> [s \in Slots |-> 0],
                           buffs |-> 0, meditating |-> Nothing, city |-> c] \in PlayerAccount
    BY HeroAssumption DEF PlayerAccount
  <2> QED BY <2>1 DEF Init
<1>4. party \in [Players -> [Rallies -> RallyParticipant]]
  BY DEF Init, NoParty, RallyParticipant
<1>5. supply \in [Templates -> [cap : Nat, minted : Nat]]
  BY DEF Init
<1> QED BY <1>1, <1>2, <1>3, <1>4, <1>5 DEF Init, TypeOK

\* The instructions that mint, burn, trade, lock and unlock heroes keep the types.
LEMMA TradeTypes ==
  ASSUME TypeOK, NEW p \in Players, NEW q \in Players, NEW h \in Heroes, NEW s \in Slots,
         \/ mint(p, h) \/ burn(p, h) \/ trade(p, q, h) \/ lock(p, s, h) \/ unlock(p, s)
  PROVE  TypeOK'
<1>0. /\ Wallet(p) \in Holders /\ Wallet(q) \in Holders /\ Account(p) \in Holders
      /\ Burned \in Holders
  BY AddressTypes DEF Escrows
<1>1. CASE mint(p, h)
  <2> DEFINE t == Template[h]
  <2>1. t \in Templates /\ supply[t] \in [cap : Nat, minted : Nat] /\ <<p, t>> \in Players \X Templates
    BY HeroAssumption DEF TypeOK
  <2>2. supply' = [supply EXCEPT ![t].minted = @ + 1] /\ receipts' = receipts \cup {<<p, t>>}
    BY <1>1 DEF mint
  <2> HIDE DEF t
  <2>3. supply' \in [Templates -> [cap : Nat, minted : Nat]] /\ receipts' \subseteq Players \X Templates
    BY <2>1, <2>2 DEF TypeOK
  <2> QED BY <1>0, <1>1, <2>3 DEF mint, TypeOK
<1>2. CASE burn(p, h)
  <2> DEFINE t == Template[h]
  <2>1. t \in Templates /\ supply[t] \in [cap : Nat, minted : Nat]
    BY HeroAssumption DEF TypeOK
  <2>2. supply' = [supply EXCEPT ![t].minted = Fewer(supply[t].minted)] /\ receipts' \subseteq receipts
    BY <1>2 DEF burn
  <2> HIDE DEF t
  <2>3. Fewer(supply[t].minted) \in Nat
    BY <2>1 DEF Fewer
  <2>4. supply' \in [Templates -> [cap : Nat, minted : Nat]] /\ receipts' \subseteq Players \X Templates
    BY <2>1, <2>2, <2>3 DEF TypeOK
  <2> QED BY <1>0, <1>2, <2>4 DEF burn, TypeOK
<1>3. CASE trade(p, q, h)
  BY <1>0, <1>3 DEF trade, TypeOK
<1>4. CASE lock(p, s, h)
  <2>1. Seated(player[p], s, h) \in PlayerAccount
    BY SeatedFields, StateTypes
  <2> QED BY <1>0, <1>4, <2>1, WriteTypes DEF lock, TypeOK
<1>5. CASE unlock(p, s)
  <2>1. Unseated(player[p], s) \in PlayerAccount
    BY <1>5, UnseatedFields, StateTypes DEF unlock
  <2>2. player[p].slots[s] \in Heroes
    BY <1>5, StateTypes DEF unlock
  <2> QED BY <1>0, <1>5, <2>1, <2>2, WriteTypes DEF unlock, MovesFrom, TypeOK
<1> QED BY <1>1, <1>2, <1>3, <1>4, <1>5

\* The instructions that raise levels keep the types.
LEMMA LevelTypes ==
  ASSUME TypeOK, NEW p \in Players, NEW h \in Heroes, NEW s \in Slots, NEW n \in 0 .. LevelCap,
         level_up(p, h) \/ start_meditation(p, s) \/ claim_meditation(p, n)
  PROVE  TypeOK'
<1>1. CASE level_up(p, h)
  <2>1. level[h] \in Levels /\ level[h] + 1 \in Levels /\ level[h] <= level[h] + 1
    BY <1>1, HeroAssumption DEF level_up, TypeOK, Levels
  <2>2. Raised(player[p], h, level[h], level[h] + 1) \in PlayerAccount
    BY <2>1, RaisedFields, StateTypes
  <2>3. level' \in [Heroes -> Levels] /\ player' \in [Players -> PlayerAccount]
    BY <1>1, <2>1, <2>2 DEF level_up, TypeOK
  <2> QED BY <1>1, <2>3 DEF level_up, TypeOK
<1>2. CASE start_meditation(p, s)
  <2>1. [player[p] EXCEPT !.meditating = s] \in PlayerAccount
    BY StateTypes DEF PlayerAccount
  <2> QED BY <1>2, <2>1 DEF start_meditation, TypeOK
<1>3. CASE claim_meditation(p, n)
  <2> DEFINE z == player[p].meditating
             g == player[p].slots[z]
             b == Raised(player[p], g, level[g], level[g] + n)
  <2>1. z \in Slots /\ g \in Heroes
    BY <1>3, StateTypes, AccountFields DEF claim_meditation
  <2>2. /\ level[g] \in Levels /\ level[g] + n \in Levels /\ level[g] <= level[g] + n
    <3>1. n <= (IF level[g] < MeditationCap THEN MeditationCap - level[g] ELSE 0)
      BY <1>3 DEF claim_meditation
    <3>2. level[g] \in Levels
      BY <2>1 DEF TypeOK
    <3> HIDE DEF g
    <3>3. /\ n \in Nat /\ level[g] \in 0 .. LevelCap
          /\ LevelCap \in Nat /\ MeditationCap \in 0 .. LevelCap
      BY <1>3, <3>2, HeroAssumption DEF Levels
    <3>4. level[g] + n \in 0 .. LevelCap /\ level[g] <= level[g] + n
      BY <3>1, <3>3
    <3> QED BY <3>2, <3>4 DEF Levels
  <2>3. level' = [level EXCEPT ![g] = level[g] + n]
    BY <1>3 DEF claim_meditation
  <2>4. player' = [player EXCEPT ![p] = [b EXCEPT !.meditating = Nothing]]
    BY <1>3 DEF claim_meditation
  <2>5. b \in PlayerAccount
    <3> HIDE DEF g
    <3> QED BY <2>1, <2>2, RaisedFields, StateTypes
  <2> HIDE DEF b, g
  <2>6. [b EXCEPT !.meditating = Nothing] \in PlayerAccount
    BY <2>5 DEF PlayerAccount
  <2>7. level' \in [Heroes -> Levels] /\ player' \in [Players -> PlayerAccount]
    BY <2>1, <2>2, <2>3, <2>4, <2>6 DEF TypeOK
  <2> QED BY <1>3, <2>7 DEF claim_meditation, TypeOK
<1> QED BY <1>1, <1>2, <1>3

\* Rallies and reinforcements keep the types.
LEMMA SendTypes ==
  ASSUME TypeOK, NEW p \in Players, NEW r \in Rallies,
         \/ rally_join(p, r) \/ rally_cancel(p, r) \/ rally_return(p, r)
  PROVE  TypeOK'
<1>1. CASE rally_join(p, r)
  <2>1. \E g \in Heroes \cup {Nothing} :
           party' = [party EXCEPT ![p][r] = [open |-> TRUE, counted |-> TRUE, hero |-> g]]
    BY <1>1, StateTypes DEF rally_join, Occupied
  <2>2. party' \in [Players -> [Rallies -> RallyParticipant]]
    <3>1. \A g \in Heroes \cup {Nothing} :
             [open |-> TRUE, counted |-> TRUE, hero |-> g] \in RallyParticipant
      BY DEF RallyParticipant
    <3> QED BY <2>1, <3>1 DEF TypeOK
  <2>3. player' \in [Players -> PlayerAccount]
    <3>1. ASSUME NEW z \in Occupied(player[p]), NEW t \in Bears[Template[player[p].slots[z]]]
          PROVE  UnseatedAs(player[p], z, t) \in PlayerAccount
      <4>1. z \in Slots /\ player[p].slots[z] \in Heroes /\ player[p].slots[z] # Nothing
        BY StateTypes DEF Occupied
      <4>2. t \in Accounts
        BY <4>1, BearsType
      <4> QED BY <4>1, <4>2, UnseatedAsFields, StateTypes
    <3>2. \/ UNCHANGED player
          \/ \E z \in Occupied(player[p]) : \E t \in Bears[Template[player[p].slots[z]]] :
                player' = [player EXCEPT ![p] = UnseatedAs(player[p], z, t)]
      BY <1>1 DEF rally_join
    <3>3. player \in [Players -> PlayerAccount]
      BY DEF TypeOK
    <3> QED BY <3>1, <3>2, <3>3
  <2> QED BY <1>1, <2>2, <2>3 DEF rally_join, TypeOK
<1>2. CASE rally_cancel(p, r)
  <2>1. [party[p][r] EXCEPT !.counted = FALSE] \in RallyParticipant
    BY StateTypes DEF RallyParticipant
  <2>2. party' \in [Players -> [Rallies -> RallyParticipant]]
    BY <1>2, <2>1 DEF rally_cancel, TypeOK
  <2> QED BY <1>2, <2>2 DEF rally_cancel, TypeOK
<1>3. CASE rally_return(p, r)
  <2>1. NoParty \in RallyParticipant
    BY DEF NoParty, RallyParticipant
  <2>2. party' \in [Players -> [Rallies -> RallyParticipant]]
    BY <1>3, <2>1 DEF rally_return, TypeOK
  <2>3. player' \in [Players -> PlayerAccount] /\ holder' \in [Heroes -> Holders]
    <3> DEFINE h == party[p][r].hero
    <3>1. CASE h = Nothing
      BY <1>3, <3>1 DEF rally_return, TypeOK
    <3>2. CASE h # Nothing
      <4>1. h \in Heroes /\ RestoreHero(p, h)
        BY <1>3, <3>2, StateTypes DEF rally_return
      <4> QED BY <4>1, RestoreTypes
    <3> QED BY <3>1, <3>2
  <2> QED BY <1>3, <2>2, <2>3 DEF rally_return, TypeOK
<1> QED BY <1>1, <1>2, <1>3

\* A reinforcement with a hero keeps the types.
LEMMA AllyTypes ==
  ASSUME TypeOK, NEW p \in Players, NEW a \in Allies, NEW s \in Slots,
         reinforcement_send(p, a, s) \/ reinforcement_return(p, a)
  PROVE  TypeOK'
<1>1. CASE reinforcement_send(p, a, s)
  <2>1. player[p].slots[s] \in Heroes \cup {Nothing}
    BY StateTypes
  <2>2. ally' \in [Players -> [Allies -> Heroes \cup {Nothing}]]
    BY <1>1, <2>1 DEF reinforcement_send, TypeOK
  <2>3. [player[p] EXCEPT !.slots[s] = Nothing] \in PlayerAccount
    BY StateTypes DEF PlayerAccount
  <2>4. player' \in [Players -> PlayerAccount]
    BY <1>1, <2>3 DEF reinforcement_send, TypeOK
  <2> QED BY <1>1, <2>2, <2>4 DEF reinforcement_send, TypeOK
<1>2. CASE reinforcement_return(p, a)
  <2> DEFINE x == [z \in Slots |-> IF z \in FirstFree(player[p]) THEN ally[p][a] ELSE player[p].slots[z]]
  <2>1. x \in [Slots -> Heroes \cup {Nothing}]
    BY StateTypes
  <2>2. player' = [player EXCEPT ![p] = [player[p] EXCEPT !.slots = x]]
    BY <1>2, StateTypes DEF reinforcement_return, PlayerAccount, TypeOK
  <2> HIDE DEF x
  <2>3. [player[p] EXCEPT !.slots = x] \in PlayerAccount
    BY <2>1, StateTypes DEF PlayerAccount
  <2>4. player' \in [Players -> PlayerAccount]
    BY <2>2, <2>3 DEF TypeOK
  <2>5. ally' \in [Players -> [Allies -> Heroes \cup {Nothing}]]
    BY <1>2 DEF reinforcement_return, TypeOK
  <2> QED BY <1>2, <2>4, <2>5 DEF reinforcement_return, TypeOK
<1> QED BY <1>1, <1>2

\* Released keeps the types.
LEMMA ReleasedTypes ==
  ASSUME TypeOK, NEW p \in Players, NEW e \in Escrows, NEW to \in Holders, Released(p, e, to)
  PROVE  /\ holder' \in [Heroes -> Holders]
         /\ escrow' \in [Players -> [Escrows -> Heroes \cup {Nothing}]]
BY DEF Released, TypeOK

\* Garrisons, expeditions and dungeons keep the types.
LEMMA EscrowTypes ==
  ASSUME TypeOK, NEW p \in Players, NEW q \in Players, NEW h \in Heroes, NEW s \in Slots,
         \/ join_garrison(p, s) \/ GarrisonReturn(p, q) \/ expedition_start(p, h)
         \/ expedition_end(p) \/ dungeon_enter(p, h) \/ dungeon_leave(p)
  PROVE  TypeOK'
<1>0. /\ "garrison" \in Escrows /\ "expedition" \in Escrows /\ "dungeon" \in Escrows
      /\ \A e \in Escrows : <<e, p>> \in Holders /\ Wallet(p) \in Holders
  BY AddressTypes DEF Escrows
<1>1. CASE join_garrison(p, s)
  <2> DEFINE g == player[p].slots[s]
  <2>1. g \in Heroes /\ Unseated(player[p], s) \in PlayerAccount
    BY <1>1, UnseatedFields, StateTypes DEF join_garrison
  <2>2. /\ holder' = [holder EXCEPT ![g] = <<"garrison", p>>]
        /\ escrow' = [escrow EXCEPT ![p]["garrison"] = g]
        /\ player' = [player EXCEPT ![p] = Unseated(player[p], s)]
    BY <1>1 DEF join_garrison, MovesFrom
  <2> HIDE DEF g
  <2>3. /\ holder' \in [Heroes -> Holders] /\ player' \in [Players -> PlayerAccount]
        /\ escrow' \in [Players -> [Escrows -> Heroes \cup {Nothing}]]
    BY <1>0, <2>1, <2>2 DEF TypeOK
  <2> QED BY <1>1, <2>3 DEF join_garrison, TypeOK
<1>2. CASE GarrisonReturn(p, q)
  BY <1>2, GarrisonReturnTypes
<1>3. CASE expedition_start(p, h)
  <2> DEFINE x == [z \in Slots |-> IF /\ holder[h] = Account(p)
                                      /\ player[p].slots[z] = h
                                      /\ \A y \in 1 .. z - 1 : player[p].slots[y] # h
                                   THEN Nothing ELSE player[p].slots[z]]
  <2>1. x \in [Slots -> Heroes \cup {Nothing}]
    BY StateTypes
  <2>2. player' = [player EXCEPT ![p] = [player[p] EXCEPT !.slots = x]]
    BY <1>3, StateTypes DEF expedition_start, PlayerAccount, TypeOK
  <2> HIDE DEF x
  <2>3. [player[p] EXCEPT !.slots = x] \in PlayerAccount
    BY <2>1, StateTypes DEF PlayerAccount
  <2>4. player' \in [Players -> PlayerAccount]
    BY <2>2, <2>3 DEF TypeOK
  <2>5. /\ holder' \in [Heroes -> Holders]
        /\ escrow' \in [Players -> [Escrows -> Heroes \cup {Nothing}]]
    BY <1>0, <1>3 DEF expedition_start, TypeOK
  <2> QED BY <1>3, <2>4, <2>5 DEF expedition_start, TypeOK
<1>4. CASE expedition_end(p)
  <2>1. CASE Released(p, "expedition", Wallet(p))
    BY <1>0, <1>4, <2>1, ReleasedTypes DEF expedition_end, TypeOK
  <2>2. CASE UNCHANGED holder /\ escrow' = [escrow EXCEPT ![p]["expedition"] = Nothing]
    BY <1>0, <1>4, <2>2 DEF expedition_end, TypeOK
  <2> QED BY <1>4, <2>1, <2>2 DEF expedition_end
<1>5. CASE dungeon_enter(p, h)
  <2>1. /\ holder' \in [Heroes -> Holders]
        /\ escrow' \in [Players -> [Escrows -> Heroes \cup {Nothing}]]
    BY <1>0, <1>5 DEF dungeon_enter, TypeOK
  <2> QED BY <1>5, <2>1 DEF dungeon_enter, TypeOK
<1>6. CASE dungeon_leave(p)
  BY <1>0, <1>6, ReleasedTypes DEF dungeon_leave, TypeOK
<1> QED BY <1>1, <1>2, <1>3, <1>4, <1>5, <1>6

\* Every step keeps the types.
LEMMA TypeStep == TypeOK /\ [Next]_vars => TypeOK'
<1> SUFFICES ASSUME TypeOK, [Next]_vars PROVE TypeOK'
  OBVIOUS
<1>1. CASE UNCHANGED vars
  BY <1>1 DEF vars, TypeOK
<1>2. ASSUME NEW t \in Templates, NEW c \in NewCaps, update_supply_cap(t, c) PROVE TypeOK'
  <2>1. c \in Nat /\ supply[t] \in [cap : Nat, minted : Nat]
    BY HeroAssumption DEF TypeOK
  <2>2. supply' \in [Templates -> [cap : Nat, minted : Nat]]
    BY <1>2, <2>1 DEF update_supply_cap, TypeOK
  <2> QED BY <1>2, <2>2 DEF update_supply_cap, TypeOK
<1>3. ASSUME NEW p \in Players, PlayerNext(p) PROVE TypeOK'
  <2>0. PICK z \in Slots : TRUE
    BY SlotsFinite
  <2>1. ASSUME NEW h \in Heroes,
               \/ mint(p, h) \/ burn(p, h) \/ \E q \in Players : trade(p, q, h)
               \/ \E s \in Slots : lock(p, s, h)
        PROVE  TypeOK'
    BY <2>0, <2>1, TradeTypes
  <2>2. ASSUME NEW s \in Slots, unlock(p, s) PROVE TypeOK'
    <3>1. player[p].slots[s] \in Heroes
      BY <2>2, StateTypes DEF unlock
    <3> QED BY <2>2, <3>1, TradeTypes
  <2>3. ASSUME NEW h \in Heroes, level_up(p, h) PROVE TypeOK'
    <3>1. 0 \in 0 .. LevelCap
      BY HeroAssumption
    <3> QED BY <2>0, <2>3, <3>1, LevelTypes
  <2>4. ASSUME NEW s \in Slots, start_meditation(p, s) PROVE TypeOK'
    <3>1. 0 \in 0 .. LevelCap /\ player[p].slots[s] \in Heroes
      BY <2>4, HeroAssumption, StateTypes DEF start_meditation
    <3> QED BY <2>4, <3>1, LevelTypes
  <2>5. ASSUME NEW n \in 0 .. LevelCap, claim_meditation(p, n) PROVE TypeOK'
    <3>1. player[p].slots[player[p].meditating] \in Heroes
      BY <2>5, StateTypes, AccountFields DEF claim_meditation
    <3> QED BY <2>0, <2>5, <3>1, LevelTypes
  <2>6. ASSUME NEW c \in Cities, NEW read \in Readings(player[p]), travel(p, c, read)
        PROVE  TypeOK'
    <3>1. [player[p] EXCEPT !.city = c] \in PlayerAccount
      BY StateTypes DEF PlayerAccount
    <3>2. Recomputed(player[p], c, read) \in PlayerAccount
      BY RecomputedType, StateTypes
    <3>3. player' \in [Players -> PlayerAccount]
      BY <2>6, <3>1, <3>2 DEF travel, TypeOK
    <3> QED BY <2>6, <3>3 DEF travel, TypeOK
  <2>7. ASSUME NEW r \in Rallies, rally_join(p, r) \/ rally_cancel(p, r) \/ rally_return(p, r)
        PROVE  TypeOK'
    BY <2>7, SendTypes
  <2>8. ASSUME NEW a \in Allies,
               (\E s \in Slots : reinforcement_send(p, a, s)) \/ reinforcement_return(p, a)
        PROVE  TypeOK'
    BY <2>0, <2>8, AllyTypes
  <2>9. ASSUME NEW h \in Heroes, expedition_start(p, h) \/ dungeon_enter(p, h) PROVE TypeOK'
    BY <2>0, <2>9, EscrowTypes
  <2>10. ASSUME NEW q \in Players, GarrisonReturn(p, q) PROVE TypeOK'
    BY <2>10, GarrisonReturnTypes
  <2>11. ASSUME NEW s \in Slots, join_garrison(p, s) PROVE TypeOK'
    <3>1. player[p].slots[s] \in Heroes
      BY <2>11, StateTypes DEF join_garrison
    <3> QED BY <2>11, <3>1, EscrowTypes
  <2>12. ASSUME expedition_end(p) \/ dungeon_leave(p) PROVE TypeOK'
    <3>1. \E h \in Heroes : TRUE
      BY <2>12, StateTypes DEF expedition_end, dungeon_leave, Released, Escrows
    <3> QED BY <2>0, <2>12, <3>1, EscrowTypes
  <2> QED BY <1>3, <2>1, <2>2, <2>3, <2>4, <2>5, <2>6, <2>7, <2>8, <2>9, <2>10, <2>11, <2>12
          DEF PlayerNext, leave_garrison, garrison_cleanup, relieve_garrison
<1> QED BY <1>1, <1>2, <1>3 DEF Next

\* Every reachable state of the hero accounts is well typed: slots, participants,
\* reinforcements and escrows name heroes or nothing, cached buffs stay within a
\* u16 and levels within the cap of the sanctuary.
THEOREM TypeCorrect == Spec => []TypeOK
BY TypeInit, TypeStep, PTL DEF Spec

-----------------------------------------------------------------------------
(* Where an NFT may go: every step as a transfer or none *)

\* Hero h leaves the wallet or the account of p for a wallet or that account.
Passes(p, q, h) ==
    /\ \/ holder[h] = Wallet(p) /\ holder' = [holder EXCEPT ![h] = Wallet(q)]
       \/ holder[h] = Wallet(p) /\ holder' = [holder EXCEPT ![h] = Account(p)]
       \/ holder[h] = Account(p) /\ holder' = [holder EXCEPT ![h] = Wallet(p)]
    /\ UNCHANGED escrow

\* Hero h of p enters the empty escrow e of p.
Enters(p, e, h) ==
    /\ OwnsForExpedition(p, h)
    /\ escrow[p][e] = Nothing
    /\ holder' = [holder EXCEPT ![h] = <<e, p>>]
    /\ escrow' = [escrow EXCEPT ![p][e] = h]

\* The hero of escrow e of p leaves it for p, or for a wallet named by a king when p
\* has no slot for it.
Leaves(p, e, q) ==
    \/ Released(p, e, Wallet(p))
    \/ Released(p, e, Account(p))
    \/ e = "garrison" /\ FirstFree(player[p]) = {} /\ Released(p, e, Wallet(q))

\* Nothing moves, but the account of an expedition may be closed without its hero.
Rests ==
    /\ UNCHANGED holder
    /\ \/ UNCHANGED escrow
       \/ \E p \in Players : escrow' = [escrow EXCEPT ![p]["expedition"] = Nothing]

Transfer ==
    \/ Rests
    \/ \E p, q \in Players, h \in Heroes : Passes(p, q, h)
    \/ \E p \in Players, e \in Escrows, h \in Heroes : Enters(p, e, h)
    \/ \E p, q \in Players, e \in Escrows : Leaves(p, e, q)

SupplyStays == \A t \in Templates : supply'[t].minted = supply[t].minted

\* A garrison returns its hero by a transfer.
LEMMA GarrisonReturnMoves ==
  ASSUME NEW p \in Players, NEW q \in Players, GarrisonReturn(p, q)
  PROVE  Leaves(p, "garrison", q) /\ UNCHANGED supply
<1>1. CASE FirstFree(player[p]) = {}
  BY <1>1 DEF GarrisonReturn, Leaves
<1>2. CASE FirstFree(player[p]) # {}
  BY <1>2 DEF GarrisonReturn, Leaves
<1> QED BY <1>1, <1>2 DEF GarrisonReturn

\* The return of a rally moves its hero to the wallet or not at all.
LEMMA RallyReturnMoves ==
  ASSUME TypeOK, NEW p \in Players, NEW r \in Rallies, rally_return(p, r)
  PROVE  Transfer /\ UNCHANGED supply
<1> DEFINE h == party[p][r].hero
<1>1. CASE h = Nothing
  BY <1>1 DEF rally_return, Transfer, Rests
<1>2. CASE h # Nothing
  <2>1. h \in Heroes /\ RestoreHero(p, h) /\ UNCHANGED escrow /\ UNCHANGED supply
    BY <1>2, StateTypes DEF rally_return
  <2> HIDE DEF h
  <2>2. UNCHANGED holder \/ (holder[h] = Account(p) /\ holder' = [holder EXCEPT ![h] = Wallet(p)])
    BY <2>1 DEF RestoreHero, MovesFrom
  <2>3. Rests \/ Passes(p, p, h)
    BY <2>1, <2>2 DEF Rests, Passes
  <2> QED BY <2>1, <2>3 DEF Transfer
<1> QED BY <1>1, <1>2

\* All other instructions move a hero from where it must be, or none.
LEMMA StepMoves ==
  ASSUME TypeOK, [Next]_vars
  PROVE  \/ \E p \in Players, h \in Heroes : mint(p, h) \/ burn(p, h)
         \/ Transfer /\ SupplyStays
<1>1. CASE UNCHANGED vars
  BY <1>1 DEF vars, Transfer, Rests, SupplyStays
<1>2. ASSUME NEW t \in Templates, NEW c \in NewCaps, update_supply_cap(t, c)
      PROVE  Transfer /\ SupplyStays
  <2>1. supply[t] \in [cap : Nat, minted : Nat]
    BY DEF TypeOK
  <2>2. SupplyStays
    BY <1>2, <2>1 DEF update_supply_cap, SupplyStays, TypeOK
  <2> QED BY <1>2, <2>2 DEF update_supply_cap, Transfer, Rests
<1>3. ASSUME NEW p \in Players, PlayerNext(p)
      PROVE  \/ \E h \in Heroes : mint(p, h) \/ burn(p, h)
             \/ Transfer /\ UNCHANGED supply
  <2>1. ASSUME NEW q \in Players, NEW h \in Heroes, trade(p, q, h)
        PROVE  Transfer /\ UNCHANGED supply
    BY <2>1 DEF trade, Transfer, Passes
  <2>2. ASSUME NEW h \in Heroes, NEW s \in Slots, lock(p, s, h) PROVE Transfer /\ UNCHANGED supply
    BY <2>2 DEF lock, Transfer, Passes
  <2>3. ASSUME NEW s \in Slots, unlock(p, s) PROVE Transfer /\ UNCHANGED supply
    <3> DEFINE h == player[p].slots[s]
    <3>1. h \in Heroes /\ MovesFrom(p, h, Wallet(p)) /\ UNCHANGED <<escrow, supply>>
      BY <2>3, StateTypes DEF unlock
    <3> HIDE DEF h
    <3> QED BY <3>1 DEF MovesFrom, Transfer, Passes
  <2>4. ASSUME \/ \E h \in Heroes : level_up(p, h)
               \/ \E s \in Slots : start_meditation(p, s)
               \/ \E n \in 0 .. LevelCap : claim_meditation(p, n)
               \/ \E c \in Cities, read \in Readings(player[p]) : travel(p, c, read)
               \/ \E r \in Rallies : rally_join(p, r) \/ rally_cancel(p, r)
               \/ \E s \in Slots, a \in Allies : reinforcement_send(p, a, s)
               \/ \E a \in Allies : reinforcement_return(p, a)
        PROVE  Transfer /\ UNCHANGED supply
    <3>1. UNCHANGED <<holder, escrow, supply>>
      BY <2>4 DEF level_up, start_meditation, claim_meditation, travel, rally_join,
                  rally_cancel, reinforcement_send, reinforcement_return
    <3> QED BY <3>1 DEF Transfer, Rests
  <2>5. ASSUME NEW r \in Rallies, rally_return(p, r) PROVE Transfer /\ UNCHANGED supply
    BY <2>5, RallyReturnMoves
  <2>6. ASSUME NEW s \in Slots, join_garrison(p, s) PROVE Transfer /\ UNCHANGED supply
    <3> DEFINE h == player[p].slots[s]
    <3>1. h \in Heroes /\ Enters(p, "garrison", h) /\ UNCHANGED supply
      BY <2>6, StateTypes DEF join_garrison, MovesFrom, Enters, OwnsForExpedition
    <3> QED BY <3>1 DEF Transfer, Escrows
  <2>7. ASSUME NEW q \in Players, GarrisonReturn(p, q) PROVE Transfer /\ UNCHANGED supply
    BY <2>7, GarrisonReturnMoves DEF Transfer, Escrows
  <2>8. ASSUME NEW h \in Heroes, expedition_start(p, h) PROVE Transfer /\ UNCHANGED supply
    <3>1. Enters(p, "expedition", h)
      BY <2>8 DEF expedition_start, Enters
    <3> QED BY <2>8, <3>1 DEF Transfer, Escrows, expedition_start
  <2>9. ASSUME NEW h \in Heroes, dungeon_enter(p, h) PROVE Transfer /\ UNCHANGED supply
    <3>1. Enters(p, "dungeon", h)
      BY <2>9 DEF dungeon_enter, Enters, OwnsForExpedition
    <3> QED BY <2>9, <3>1 DEF Transfer, Escrows, dungeon_enter
  <2>10. ASSUME expedition_end(p) PROVE Transfer /\ UNCHANGED supply
    <3>1. Rests \/ Leaves(p, "expedition", p)
      BY <2>10 DEF expedition_end, Rests, Leaves
    <3> QED BY <2>10, <3>1 DEF Transfer, Escrows, expedition_end
  <2>11. ASSUME dungeon_leave(p) PROVE Transfer /\ UNCHANGED supply
    <3>1. Leaves(p, "dungeon", p)
      BY <2>11 DEF dungeon_leave, Leaves
    <3> QED BY <2>11, <3>1 DEF Transfer, Escrows, dungeon_leave
  <2> QED BY <1>3, <2>1, <2>2, <2>3, <2>4, <2>5, <2>6, <2>7, <2>8, <2>9, <2>10, <2>11
          DEF PlayerNext, leave_garrison, garrison_cleanup, relieve_garrison
<1>4. UNCHANGED supply => SupplyStays
  BY DEF SupplyStays
<1> QED BY <1>1, <1>2, <1>3, <1>4 DEF Next

-----------------------------------------------------------------------------
(* Escrows *)

\* A transfer out of a wallet or an account keeps escrows and NFTs in line.
LEMMA PassKeepsEscrows ==
  ASSUME TypeOK, EscrowsHold, NEW p \in Players, NEW q \in Players, NEW h \in Heroes,
         Passes(p, q, h)
  PROVE  EscrowsHold'
<1>1. PICK to \in {Wallet(q), Account(p), Wallet(p)} : holder' = [holder EXCEPT ![h] = to]
  BY DEF Passes
<1>2. holder[h] \in {Wallet(p), Account(p)} /\ UNCHANGED escrow
  BY DEF Passes
<1>3. \A x \in Players, e \in Escrows : holder[h] # <<e, x>> /\ to # <<e, x>>
  BY <1>2, Addresses
<1>4. \A g \in Heroes : holder'[g] = IF g = h THEN to ELSE holder[g]
  BY <1>1 DEF TypeOK
<1> SUFFICES ASSUME NEW x \in Players, NEW e \in Escrows
             PROVE  /\ escrow'[x][e] # Nothing => holder'[escrow'[x][e]] = <<e, x>>
                    /\ \A g \in Heroes :
                          holder'[g] = <<e, x>> /\ e # "expedition" => escrow'[x][e] = g
  BY DEF EscrowsHold
<1>6. escrow'[x][e] = escrow[x][e] /\ escrow[x][e] \in Heroes \cup {Nothing}
  BY <1>2, StateTypes
<1>7. /\ escrow[x][e] # Nothing => holder[escrow[x][e]] = <<e, x>>
      /\ \A g \in Heroes : holder[g] = <<e, x>> /\ e # "expedition" => escrow[x][e] = g
  BY DEF EscrowsHold
<1>8. holder[h] # <<e, x>> /\ to # <<e, x>>
  BY <1>3
<1> QED BY <1>4, <1>6, <1>7, <1>8

\* So does entering an escrow, as the escrow was empty.
LEMMA EnterKeepsEscrows ==
  ASSUME TypeOK, EscrowsHold, NEW p \in Players, NEW e \in Escrows, NEW h \in Heroes,
         Enters(p, e, h)
  PROVE  EscrowsHold'
<1> DEFINE to == <<e, p>>
<1>1. holder' = [holder EXCEPT ![h] = to] /\ escrow' = [escrow EXCEPT ![p][e] = h]
  BY DEF Enters
<1>2. holder[h] \in {Wallet(p), Account(p)} /\ escrow[p][e] = Nothing
  BY DEF Enters, OwnsForExpedition
<1>3. /\ \A x \in Players, f \in Escrows : holder[h] # <<f, x>>
      /\ \A x \in Players, f \in Escrows : to = <<f, x>> => f = e /\ x = p
  BY <1>2, Addresses
<1>4. \A g \in Heroes : holder'[g] = IF g = h THEN to ELSE holder[g]
  BY <1>1 DEF TypeOK
<1>5. \A x \in Players, f \in Escrows :
         escrow'[x][f] = IF x = p /\ f = e THEN h ELSE escrow[x][f]
  BY <1>1 DEF TypeOK
<1>6. \A x \in Players, f \in Escrows : escrow[x][f] \in Heroes \cup {Nothing}
  BY StateTypes
<1> SUFFICES ASSUME NEW x \in Players, NEW f \in Escrows
             PROVE  /\ escrow'[x][f] # Nothing => holder'[escrow'[x][f]] = <<f, x>>
                    /\ \A g \in Heroes :
                          holder'[g] = <<f, x>> /\ f # "expedition" => escrow'[x][f] = g
  BY DEF EscrowsHold
<1>7. CASE x = p /\ f = e
  <2>1. escrow'[x][f] = h /\ holder'[h] = <<f, x>>
    BY <1>4, <1>5, <1>7
  <2>2. \A g \in Heroes : g # h => holder'[g] # <<f, x>> \/ f = "expedition"
    <3> SUFFICES ASSUME NEW g \in Heroes, g # h, f # "expedition"
                 PROVE  holder'[g] # <<f, x>>
      OBVIOUS
    <3>1. holder'[g] = holder[g]
      BY <1>4
    <3>2. holder[g] = <<f, x>> => escrow[x][f] = g
      BY DEF EscrowsHold
    <3>3. escrow[x][f] = Nothing /\ g # Nothing
      BY <1>2, <1>7, HeroAssumption
    <3> QED BY <3>1, <3>2, <3>3
  <2> QED BY <2>1, <2>2
<1>8. CASE ~(x = p /\ f = e)
  <2>1. escrow'[x][f] = escrow[x][f]
    BY <1>5, <1>8
  <2>2. escrow[x][f] # h
    <3>1. /\ escrow[x][f] # Nothing => holder[escrow[x][f]] = <<f, x>>
          /\ holder[h] # <<f, x>>
      BY <1>3 DEF EscrowsHold
    <3> QED BY <3>1, HeroAssumption
  <2>3. holder'[h] # <<f, x>>
    BY <1>3, <1>4, <1>8
  <2>4. /\ escrow[x][f] # Nothing => holder[escrow[x][f]] = <<f, x>>
        /\ \A g \in Heroes : holder[g] = <<f, x>> /\ f # "expedition" => escrow[x][f] = g
    BY DEF EscrowsHold
  <2>5. escrow[x][f] \in Heroes \cup {Nothing}
    BY <1>6
  <2> HIDE DEF to
  <2> QED BY <1>4, <2>1, <2>2, <2>3, <2>4, <2>5
<1> QED BY <1>7, <1>8

\* And leaving it, as no other escrow names the hero.
LEMMA LeaveKeepsEscrows ==
  ASSUME TypeOK, EscrowsHold, NEW p \in Players, NEW q \in Players, NEW e \in Escrows,
         Leaves(p, e, q)
  PROVE  EscrowsHold'
<1> DEFINE h == escrow[p][e]
<1>1. PICK to \in {Wallet(q), Account(p), Wallet(p)} : Released(p, e, to)
  BY DEF Leaves
<1>2. /\ h \in Heroes /\ holder[h] = <<e, p>>
      /\ holder' = [holder EXCEPT ![h] = to] /\ escrow' = [escrow EXCEPT ![p][e] = Nothing]
  BY <1>1, StateTypes DEF Released
<1> HIDE DEF h
<1>3. \A x \in Players, f \in Escrows : to # <<f, x>> /\ (<<e, p>> = <<f, x>> => f = e /\ x = p)
  BY Addresses
<1>4. \A g \in Heroes : holder'[g] = IF g = h THEN to ELSE holder[g]
  BY <1>2 DEF TypeOK
<1>5. \A x \in Players, f \in Escrows :
         escrow'[x][f] = IF x = p /\ f = e THEN Nothing ELSE escrow[x][f]
  BY <1>2 DEF TypeOK
<1>6. \A x \in Players, f \in Escrows : escrow[x][f] \in Heroes \cup {Nothing}
  BY StateTypes
<1> SUFFICES ASSUME NEW x \in Players, NEW f \in Escrows
             PROVE  /\ escrow'[x][f] # Nothing => holder'[escrow'[x][f]] = <<f, x>>
                    /\ \A g \in Heroes :
                          holder'[g] = <<f, x>> /\ f # "expedition" => escrow'[x][f] = g
  BY DEF EscrowsHold
<1>7. CASE x = p /\ f = e
  <2>1. escrow'[x][f] = Nothing
    BY <1>5, <1>7
  <2>2. \A g \in Heroes : holder'[g] = <<f, x>> /\ f # "expedition" => FALSE
    <3>1. \A g \in Heroes : holder[g] = <<e, p>> /\ e # "expedition" => h = g
      BY DEF EscrowsHold, h
    <3>2. to # <<f, x>>
      BY <1>3
    <3> QED BY <1>4, <1>7, <3>1, <3>2
  <2> QED BY <2>1, <2>2
<1>8. CASE ~(x = p /\ f = e)
  <2>1. escrow'[x][f] = escrow[x][f]
    BY <1>5, <1>8
  <2>2. escrow[x][f] # h \/ escrow[x][f] = Nothing
    BY <1>2, <1>3, <1>8 DEF EscrowsHold
  <2>3. holder'[h] # <<f, x>>
    BY <1>2, <1>3, <1>4
  <2>4. /\ escrow[x][f] # Nothing => holder[escrow[x][f]] = <<f, x>>
        /\ \A g \in Heroes : holder[g] = <<f, x>> /\ f # "expedition" => escrow[x][f] = g
    BY DEF EscrowsHold
  <2>5. escrow[x][f] \in Heroes \cup {Nothing}
    BY <1>6
  <2> QED BY <1>4, <2>1, <2>2, <2>3, <2>4, <2>5
<1> QED BY <1>7, <1>8

\* Every step keeps what the escrows name in what they hold.
LEMMA EscrowsStep == TypeOK /\ EscrowsHold /\ [Next]_vars => EscrowsHold'
<1> SUFFICES ASSUME TypeOK, EscrowsHold, [Next]_vars PROVE EscrowsHold'
  OBVIOUS
<1>1. ASSUME NEW p \in Players, NEW h \in Heroes, mint(p, h) \/ burn(p, h) PROVE EscrowsHold'
  <2>1. PICK to \in {Wallet(p), Burned} : holder' = [holder EXCEPT ![h] = to]
    BY <1>1 DEF mint, burn
  <2>2. holder[h] \in {Unminted, Wallet(p)} /\ UNCHANGED escrow
    BY <1>1 DEF mint, burn
  <2>3. \A x \in Players, e \in Escrows : holder[h] # <<e, x>> /\ to # <<e, x>>
    BY <2>2, Addresses
  <2>4. \A g \in Heroes : holder'[g] = IF g = h THEN to ELSE holder[g]
    BY <2>1 DEF TypeOK
  <2> SUFFICES ASSUME NEW x \in Players, NEW e \in Escrows
               PROVE  /\ escrow'[x][e] # Nothing => holder'[escrow'[x][e]] = <<e, x>>
                      /\ \A g \in Heroes :
                            holder'[g] = <<e, x>> /\ e # "expedition" => escrow'[x][e] = g
    BY DEF EscrowsHold
  <2>5. escrow'[x][e] = escrow[x][e] /\ escrow[x][e] \in Heroes \cup {Nothing}
    BY <2>2, StateTypes
  <2>6. /\ escrow[x][e] # Nothing => holder[escrow[x][e]] = <<e, x>>
        /\ \A g \in Heroes : holder[g] = <<e, x>> /\ e # "expedition" => escrow[x][e] = g
    BY DEF EscrowsHold
  <2>7. holder[h] # <<e, x>> /\ to # <<e, x>>
    BY <2>3
  <2> QED BY <2>4, <2>5, <2>6, <2>7
<1>2. CASE Rests
  <2>1. CASE UNCHANGED escrow
    BY <1>2, <2>1 DEF Rests, EscrowsHold
  <2>2. ASSUME NEW p \in Players, escrow' = [escrow EXCEPT ![p]["expedition"] = Nothing]
        PROVE  EscrowsHold'
    <3>1. \A x \in Players, e \in Escrows :
             escrow'[x][e] = IF x = p /\ e = "expedition" THEN Nothing ELSE escrow[x][e]
      BY <2>2 DEF TypeOK, Escrows
    <3> QED BY <1>2, <3>1 DEF Rests, EscrowsHold
  <2> QED BY <1>2, <2>1, <2>2 DEF Rests
<1> QED BY <1>1, <1>2, StepMoves, PassKeepsEscrows, EnterKeepsEscrows, LeaveKeepsEscrows
        DEF Transfer

\* In every reachable state a garrison, an expedition or a dungeon run that names a
\* hero holds its NFT, and a garrison or a dungeon run names what it holds, whatever
\* instructions of whomever came before; so no way out of them fails on the transfer.
THEOREM EscrowsCorrect == Spec => []EscrowsHold
<1>1. Init => EscrowsHold
  <2> SUFFICES ASSUME Init PROVE EscrowsHold
    OBVIOUS
  <2>1. \A p \in Players, e \in Escrows : escrow[p][e] = Nothing
    BY DEF Init
  <2>2. \A p \in Players, e \in Escrows, h \in Heroes : holder[h] # <<e, p>>
    BY Addresses DEF Init
  <2> QED BY <2>1, <2>2 DEF EscrowsHold
<1> QED BY <1>1, EscrowsStep, TypeCorrect, PTL DEF Spec

-----------------------------------------------------------------------------
(* Supply *)

\* The heroes of a template are finitely many.
LEMMA LivingFinite ==
  ASSUME NEW t
  PROVE  IsFiniteSet(Living(t)) /\ IsFiniteSet(Living(t)')
<1>1. Living(t) \subseteq Heroes /\ Living(t)' \subseteq Heroes
  BY DEF Living
<1> QED BY <1>1, FS_Subset, HeroAssumption

\* A transfer neither makes nor ends a hero.
LEMMA TransferKeepsLives ==
  ASSUME TypeOK, EscrowsHold, Transfer
  PROVE  \A h \in Heroes : holder'[h] \in {Unminted, Burned} <=> holder[h] \in {Unminted, Burned}
<1> DEFINE Gone == {Unminted, Burned}
<1>1. ASSUME NEW g \in Heroes, NEW to, holder' = [holder EXCEPT ![g] = to],
             holder[g] \notin Gone, to \notin Gone
      PROVE  \A h \in Heroes : holder'[h] \in Gone <=> holder[h] \in Gone
  BY <1>1 DEF TypeOK
<1>2. \A p \in Players, e \in Escrows :
         Wallet(p) \notin Gone /\ Account(p) \notin Gone /\ <<e, p>> \notin Gone
  BY Addresses
<1> HIDE DEF Gone
<1>3. ASSUME NEW p \in Players, NEW q \in Players, NEW h \in Heroes, Passes(p, q, h)
      PROVE  \A g \in Heroes : holder'[g] \in Gone <=> holder[g] \in Gone
  BY <1>1, <1>2, <1>3 DEF Passes, Escrows
<1>4. ASSUME NEW p \in Players, NEW e \in Escrows, NEW h \in Heroes, Enters(p, e, h)
      PROVE  \A g \in Heroes : holder'[g] \in Gone <=> holder[g] \in Gone
  BY <1>1, <1>2, <1>4 DEF Enters, OwnsForExpedition
<1>5. ASSUME NEW p \in Players, NEW q \in Players, NEW e \in Escrows, Leaves(p, e, q)
      PROVE  \A g \in Heroes : holder'[g] \in Gone <=> holder[g] \in Gone
  <2>1. escrow[p][e] \in Heroes
    BY <1>5, StateTypes DEF Leaves, Released
  <2> QED BY <1>1, <1>2, <1>5, <2>1 DEF Leaves, Released
<1>6. CASE Rests
  BY <1>6 DEF Rests
<1> QED BY <1>3, <1>4, <1>5, <1>6 DEF Transfer, Gone

\* Every step keeps the count of each template at the number of its living heroes.
LEMMA SupplyStep == TypeOK /\ EscrowsHold /\ SupplyCounts /\ [Next]_vars => SupplyCounts'
<1> SUFFICES ASSUME TypeOK, EscrowsHold, SupplyCounts, [Next]_vars PROVE SupplyCounts'
  OBVIOUS
<1>0. \A t \in Templates : supply[t].minted \in Nat
  BY DEF TypeOK
<1>1. ASSUME NEW p \in Players, NEW h \in Heroes, mint(p, h) PROVE SupplyCounts'
  <2>1. Unminted # Burned /\ Wallet(p) \notin {Unminted, Burned}
    BY Addresses DEF Escrows
  <2>2. \A g \in Heroes : holder'[g] = IF g = h THEN Wallet(p) ELSE holder[g]
    BY <1>1 DEF mint, TypeOK
  <2>3. h \notin Living(Template[h]) /\ Living(Template[h])' = Living(Template[h]) \cup {h}
    BY <1>1, <2>1, <2>2 DEF mint, Living
  <2>4. Cardinality(Living(Template[h])') = Cardinality(Living(Template[h])) + 1
    BY <2>3, LivingFinite, FS_AddElement
  <2>5. \A t \in Templates : t # Template[h] => Living(t)' = Living(t)
    BY <2>2 DEF Living
  <2>6. \A t \in Templates :
           supply'[t].minted = IF t = Template[h] THEN supply[t].minted + 1 ELSE supply[t].minted
    BY <1>1 DEF mint, TypeOK
  <2>7. \A t \in Templates : Cardinality(Living(t))' = Cardinality(Living(t)')
    OBVIOUS
  <2> QED BY <2>4, <2>5, <2>6 DEF SupplyCounts
<1>2. ASSUME NEW p \in Players, NEW h \in Heroes, burn(p, h) PROVE SupplyCounts'
  <2>1. Unminted # Burned /\ Wallet(p) \notin {Unminted, Burned}
    BY Addresses DEF Escrows
  <2>2. \A g \in Heroes : holder'[g] = IF g = h THEN Burned ELSE holder[g]
    BY <1>2 DEF burn, TypeOK
  <2>3. h \in Living(Template[h]) /\ Living(Template[h])' = Living(Template[h]) \ {h}
    BY <1>2, <2>1, <2>2 DEF burn, Living
  <2>4. /\ Cardinality(Living(Template[h])') = Cardinality(Living(Template[h])) - 1
        /\ Cardinality(Living(Template[h])') \in Nat
    BY <2>3, LivingFinite, FS_RemoveElement, FS_CardinalityType
  <2>5. \A t \in Templates : t # Template[h] => Living(t)' = Living(t)
    BY <2>2 DEF Living
  <2>6. \A t \in Templates :
           supply'[t].minted = IF t = Template[h] THEN Fewer(supply[t].minted) ELSE supply[t].minted
    BY <1>2 DEF burn, TypeOK
  <2>7. Template[h] \in Templates
    BY HeroAssumption
  <2>8. Cardinality(Living(Template[h])) = supply[Template[h]].minted
    BY <2>7 DEF SupplyCounts
  <2>9. Fewer(supply[Template[h]].minted) = supply[Template[h]].minted - 1
    BY <1>0, <2>4, <2>7, <2>8 DEF Fewer
  <2> QED BY <2>4, <2>5, <2>6, <2>8, <2>9 DEF SupplyCounts
<1>3. CASE Transfer /\ SupplyStays
  <2>1. \A t \in Templates : Living(t)' = Living(t)
    BY <1>3, TransferKeepsLives DEF Living
  <2> QED BY <1>3, <2>1 DEF SupplyStays, SupplyCounts
<1> QED BY <1>1, <1>2, <1>3, StepMoves

\* minted_count of every template is the number of its living heroes in every
\* reachable state: mint, burn and all transfers keep the count, so no supply is
\* lost or handed out twice.
THEOREM SupplyCorrect == Spec => []SupplyCounts
<1>1. Init => SupplyCounts
  <2> SUFFICES ASSUME Init, NEW t \in Templates PROVE supply[t].minted = Cardinality(Living(t))
    BY DEF SupplyCounts
  <2>1. Living(t) = {}
    BY DEF Init, Living
  <2> QED BY <2>1, FS_EmptySet DEF Init
<1> QED BY <1>1, SupplyStep, TypeCorrect, EscrowsCorrect, PTL DEF Spec

-----------------------------------------------------------------------------
(* Free slots *)

\* A set of slots has a least one.
LEMMA LeastSlot ==
  ASSUME NEW S \in SUBSET Slots, S # {}
  PROVE  \E s \in S : \A z \in 1 .. s - 1 : z \notin S
<1> SUFFICES ASSUME \A s \in S : \E z \in 1 .. s - 1 : z \in S PROVE FALSE
  OBVIOUS
<1> DEFINE Good == {n \in Nat : \A s \in S : s > n}
<1>0. Slots \subseteq Nat \ {0}
  BY HeroAssumption DEF Slots
<1>1. 0 \in Good
  BY <1>0
<1>2. ASSUME NEW n \in Nat, n \in Good PROVE n + 1 \in Good
  BY <1>0, <1>2
<1>3. Nat \subseteq Good
  <2> HIDE DEF Good
  <2> QED BY <1>1, <1>2, NatSetInduction
<1>4. ASSUME NEW s \in S PROVE FALSE
  <2>1. s \in Nat /\ s \in Good
    BY <1>0, <1>3
  <2> QED BY <2>1
<1> QED BY <1>4

\* An account without a first free slot has none, and it has only one first.
LEMMA FirstFreeMeans ==
  ASSUME NEW a
  PROVE  /\ FirstFree(a) = {} => Occupied(a) = Slots
         /\ \A s, z \in FirstFree(a) : s = z
<1> DEFINE S == {s \in Slots : a.slots[s] = Nothing}
<1>0. Slots \subseteq Nat /\ \A s \in Slots : \A z \in 1 .. s - 1 : z \in Slots
  BY HeroAssumption DEF Slots
<1>1. ASSUME FirstFree(a) = {} PROVE S = {}
  <2>1. ASSUME NEW s \in S PROVE \E z \in 1 .. s - 1 : z \in S
    BY <1>0, <1>1 DEF FirstFree
  <2> HIDE DEF S
  <2>2. S \subseteq Slots
    BY DEF S
  <2> QED BY <2>1, <2>2, LeastSlot
<1>2. ASSUME NEW s \in FirstFree(a), NEW z \in FirstFree(a) PROVE s = z
  BY <1>0 DEF FirstFree, Slots
<1> QED BY <1>1, <1>2 DEF Occupied

-----------------------------------------------------------------------------
(* Heroes change hands between wallets *)

\* The addresses where p keeps a hero: its wallet, its account, its escrows.
AddressesOf(p) == {Wallet(p), Account(p)} \cup {<<e, p>> : e \in Escrows}

\* The addresses of a player, one by one.
LEMMA OwnAddresses ==
  ASSUME NEW p
  PROVE  /\ Wallet(p) \in AddressesOf(p) /\ Account(p) \in AddressesOf(p)
         /\ \A e \in Escrows : <<e, p>> \in AddressesOf(p)
         /\ Unminted \notin AddressesOf(p) /\ Burned \notin AddressesOf(p)
<1>1. "garrison" \in Escrows
  BY DEF Escrows
<1>2. Unminted \notin AddressesOf(p) /\ Burned \notin AddressesOf(p)
  BY <1>1, Addresses DEF AddressesOf
<1> QED BY <1>2 DEF AddressesOf

\* What is at an address of p is not at one of q.
LEMMA OneKeeper ==
  ASSUME NEW p, NEW q, NEW x \in AddressesOf(p), x \in AddressesOf(q)
  PROVE  p = q
<1>1. "garrison" \in Escrows
  BY DEF Escrows
<1> QED BY <1>1, Addresses DEF AddressesOf

\* A step that gets a hero from one player to another is a transfer between wallets,
\* or the relief of a garrison whose owner has no free slot.
LEMMA TradeStep ==
  ASSUME TypeOK, [Next]_vars, NEW g \in Heroes, NEW p \in Players, NEW q \in Players, p # q,
         holder[g] \in AddressesOf(p), holder'[g] \in AddressesOf(q)
  PROVE  /\ holder'[g] = Wallet(q)
         /\ \/ holder[g] = Wallet(p)
            \/ holder[g] = <<"garrison", p>> /\ Occupied(player[p]) = Slots
<1>1. ASSUME NEW h \in Heroes, NEW to, holder' = [holder EXCEPT ![h] = to]
      PROVE  h = g /\ holder'[g] = to
  <2>1. holder'[g] = IF g = h THEN to ELSE holder[g]
    BY <1>1 DEF TypeOK
  <2>2. holder'[g] # holder[g]
    BY OneKeeper, OwnAddresses
  <2> QED BY <2>1, <2>2
<1>2. ASSUME NEW x \in Players, NEW h \in Heroes, mint(x, h) \/ burn(x, h) PROVE FALSE
  <2>1. CASE mint(x, h)
    BY <1>1, <2>1, OneKeeper, OwnAddresses DEF mint
  <2>2. CASE burn(x, h)
    BY <1>1, <2>2, OneKeeper, OwnAddresses DEF burn
  <2> QED BY <1>2, <2>1, <2>2
<1>3. ASSUME NEW x \in Players, NEW y \in Players, NEW h \in Heroes, Passes(x, y, h)
      PROVE  holder[g] = Wallet(p) /\ holder'[g] = Wallet(q)
  <2>1. PICK to \in {Wallet(y), Account(x), Wallet(x)} : holder' = [holder EXCEPT ![h] = to]
    BY <1>3 DEF Passes
  <2>2. h = g /\ holder'[g] = to
    BY <1>1, <2>1
  <2>3. holder[h] \in AddressesOf(x)
    BY <1>3, OneKeeper, OwnAddresses DEF Passes
  <2>4. x = p
    BY <2>2, <2>3, OneKeeper
  <2>5. to # Account(x) /\ to # Wallet(x)
    BY <2>2, <2>4, OneKeeper, OwnAddresses
  <2>6. to = Wallet(y) /\ Wallet(y) \in AddressesOf(y)
    BY <2>1, <2>5, OwnAddresses
  <2>8. y = q
    BY <2>2, <2>6, OneKeeper
  <2>7. holder[h] = Wallet(x)
    <3>1. CASE holder' = [holder EXCEPT ![h] = Account(x)]
      BY <1>1, <2>2, <2>5, <3>1
    <3>2. CASE holder' = [holder EXCEPT ![h] = Wallet(x)]
      BY <1>1, <2>2, <2>5, <3>2
    <3> QED BY <1>3, <3>1, <3>2 DEF Passes
  <2> QED BY <2>2, <2>4, <2>6, <2>7, <2>8
<1>4. ASSUME NEW x \in Players, NEW e \in Escrows, NEW h \in Heroes, Enters(x, e, h) PROVE FALSE
  <2>1. h = g /\ holder'[g] = <<e, x>> /\ holder[h] \in {Wallet(x), Account(x)}
    BY <1>1, <1>4 DEF Enters, OwnsForExpedition
  <2>2. x = p
    BY <2>1, OneKeeper, OwnAddresses
  <2> QED BY <2>1, <2>2, OneKeeper, OwnAddresses
<1>5. ASSUME NEW x \in Players, NEW y \in Players, NEW e \in Escrows, Leaves(x, e, y)
      PROVE  /\ holder[g] = <<"garrison", p>> /\ holder'[g] = Wallet(q)
             /\ Occupied(player[p]) = Slots
  <2> DEFINE h == escrow[x][e]
  <2>1. PICK to \in {Wallet(x), Account(x), Wallet(y)} : Released(x, e, to)
    BY <1>5 DEF Leaves
  <2>2. h \in Heroes /\ holder[h] = <<e, x>> /\ holder' = [holder EXCEPT ![h] = to]
    BY <2>1, StateTypes DEF Released
  <2>3. h = g /\ holder'[g] = to
    BY <1>1, <2>2
  <2>4. x = p
    <3>1. <<e, x>> \in AddressesOf(x) /\ <<e, x>> \in AddressesOf(p)
      BY <2>2, <2>3, OwnAddresses
    <3> QED BY <3>1, OneKeeper
  <2>5. to # Account(x) /\ to # Wallet(x)
    BY <2>3, <2>4, OneKeeper, OwnAddresses
  <2>6. to = Wallet(y) /\ Wallet(y) \in AddressesOf(y)
    BY <2>1, <2>5, OwnAddresses
  <2>8. y = q
    BY <2>3, <2>6, OneKeeper
  <2>7. e = "garrison" /\ FirstFree(player[x]) = {}
    <3>1. \A z \in {Wallet(x), Account(x)} : ~Released(x, e, z)
      BY <1>1, <2>2, <2>3, <2>5 DEF Released
    <3> QED BY <1>5, <3>1 DEF Leaves
  <2> QED BY <2>2, <2>3, <2>4, <2>6, <2>7, <2>8, FirstFreeMeans
<1>6. CASE Rests
  BY <1>6, OneKeeper, OwnAddresses DEF Rests
<1> QED BY <1>2, <1>3, <1>4, <1>5, <1>6, StepMoves DEF Transfer

\* On every step of every behaviour a hero that gets from one player to another gets
\* from wallet to wallet, or is sent by the king out of the garrison of a player
\* without a free slot to the wallet named; no rally, reinforcement, expedition or
\* dungeon run hands a hero to somebody else.
THEOREM OwnersTradeKept == Spec => OwnersTrade
<1>1. TypeOK /\ [Next]_vars =>
        \A h \in Heroes, p, q \in Players :
          p # q /\ holder[h] \in {Wallet(p), Account(p)} \cup {<<e, p>> : e \in Escrows}
                /\ holder'[h] \in {Wallet(q), Account(q)} \cup {<<e, q>> : e \in Escrows} =>
             /\ holder'[h] = Wallet(q)
             /\ \/ holder[h] = Wallet(p)
                \/ holder[h] = <<"garrison", p>> /\ Occupied(player[p]) = Slots
  BY TradeStep DEF AddressesOf
<1> QED BY <1>1, TypeCorrect, PTL DEF Spec, OwnersTrade

-----------------------------------------------------------------------------
(* Spots: where an account can name a hero *)

\* The spot of kind k and index i of p: a slot, a rally, a reinforcement, an escrow.
Kinds == {"slot", "rally", "ally", "escrow"}
Index(k) == CASE k = "slot" -> Slots [] k = "rally" -> Rallies
              [] k = "ally" -> Allies [] k = "escrow" -> Escrows

\* The hero that the spot names, and where its NFT should be.
At(k, p, i) == IF k = "slot" THEN player[p].slots[i]
               ELSE IF k = "rally" THEN party[p][i].hero
               ELSE IF k = "ally" THEN ally[p][i] ELSE escrow[p][i]
Home(k, p, i) == IF k = "escrow" THEN <<i, p>> ELSE Account(p)

\* Every spot that names h is the home of its NFT, and is the only one.
Kept(h) ==
    \A k \in Kinds, p \in Players : \A i \in Index(k) :
        At(k, p, i) = h =>
            /\ holder[h] = Home(k, p, i)
            /\ \A l \in Kinds, q \in Players : \A j \in Index(l) :
                  At(l, q, j) = h => l = k /\ q = p /\ j = i

\* Four finite sets have one member together, or none.
LEMMA AtMostOne ==
  ASSUME NEW A, NEW B, NEW C, NEW D,
         IsFiniteSet(A), IsFiniteSet(B), IsFiniteSet(C), IsFiniteSet(D)
  PROVE  Cardinality(A) + Cardinality(B) + Cardinality(C) + Cardinality(D) <= 1
           <=> /\ \A x, y \in A : x = y
               /\ \A x, y \in B : x = y
               /\ \A x, y \in C : x = y
               /\ \A x, y \in D : x = y
               /\ A = {} \/ B = {}
               /\ A = {} \/ C = {}
               /\ A = {} \/ D = {}
               /\ B = {} \/ C = {}
               /\ B = {} \/ D = {}
               /\ C = {} \/ D = {}
<1> DEFINE Few(S) == \A x, y \in S : x = y
<1>1. ASSUME NEW S, IsFiniteSet(S)
      PROVE  /\ Cardinality(S) \in Nat
             /\ Cardinality(S) = 0 <=> S = {}
             /\ Cardinality(S) <= 1 <=> Few(S)
  <2>1. Cardinality(S) \in Nat /\ (Cardinality(S) = 0 <=> S = {})
    BY <1>1, FS_CardinalityType, FS_EmptySet
  <2>2. ASSUME NEW x \in S
        PROVE  IsFiniteSet(S \ {x}) /\ Cardinality(S \ {x}) = Cardinality(S) - 1
    BY <1>1, FS_RemoveElement
  <2>3. ASSUME Cardinality(S) <= 1, NEW x \in S, NEW y \in S PROVE x = y
    <3>1. Cardinality(S \ {x}) \in Nat
      BY <2>2, FS_CardinalityType
    <3>2. Cardinality(S \ {x}) = 0
      BY <2>1, <2>2, <2>3, <3>1
    <3>3. S \ {x} = {}
      BY <2>2, <3>2, FS_EmptySet
    <3> QED BY <3>3
  <2>4. ASSUME Few(S) PROVE Cardinality(S) <= 1
    <3>1. CASE S = {}
      BY <2>1, <3>1
    <3>2. ASSUME NEW x \in S PROVE Cardinality(S) <= 1
      <4>1. S = {x}
        BY <2>4
      <4> QED BY <4>1, FS_Singleton
    <3> QED BY <3>1, <3>2
  <2> QED BY <2>1, <2>3, <2>4
<1>2. /\ Cardinality(A) \in Nat /\ (Cardinality(A) = 0 <=> A = {}) /\ (Cardinality(A) <= 1 <=> Few(A))
      /\ Cardinality(B) \in Nat /\ (Cardinality(B) = 0 <=> B = {}) /\ (Cardinality(B) <= 1 <=> Few(B))
      /\ Cardinality(C) \in Nat /\ (Cardinality(C) = 0 <=> C = {}) /\ (Cardinality(C) <= 1 <=> Few(C))
      /\ Cardinality(D) \in Nat /\ (Cardinality(D) = 0 <=> D = {}) /\ (Cardinality(D) <= 1 <=> Few(D))
  <2> HIDE DEF Few
  <2> QED BY <1>1
<1> DEFINE a == Cardinality(A)
           b == Cardinality(B)
           c == Cardinality(C)
           d == Cardinality(D)
<1>3. a + b + c + d <= 1 <=>
        /\ a <= 1 /\ b <= 1 /\ c <= 1 /\ d <= 1
        /\ a = 0 \/ b = 0
        /\ a = 0 \/ c = 0
        /\ a = 0 \/ d = 0
        /\ b = 0 \/ c = 0
        /\ b = 0 \/ d = 0
        /\ c = 0 \/ d = 0
  <2> HIDE DEF a, b, c, d, Few
  <2>1. a \in Nat /\ b \in Nat /\ c \in Nat /\ d \in Nat
    BY <1>2 DEF a, b, c, d
  <2> QED BY <2>1
<1>4. Cardinality(A) + Cardinality(B) + Cardinality(C) + Cardinality(D) <= 1 <=>
        /\ Few(A) /\ Few(B) /\ Few(C) /\ Few(D)
        /\ A = {} \/ B = {}
        /\ A = {} \/ C = {}
        /\ A = {} \/ D = {}
        /\ B = {} \/ C = {}
        /\ B = {} \/ D = {}
        /\ C = {} \/ D = {}
  <2> HIDE DEF Few
  <2> QED BY <1>2, <1>3
<1> QED BY <1>4

\* The accounts that name a hero are finitely many.
LEMMA NamedFinite ==
  ASSUME NEW h
  PROVE  /\ IsFiniteSet(NamedInSlot(h)) /\ IsFiniteSet(NamedInRally(h))
         /\ IsFiniteSet(NamedAsAlly(h)) /\ IsFiniteSet(NamedInEscrow(h))
<1>1. IsFiniteSet(Escrows)
  <2>1. IsFiniteSet({"garrison"})
    BY FS_Singleton
  <2>2. IsFiniteSet({"garrison"} \cup {"expedition"})
    BY <2>1, FS_AddElement
  <2>3. IsFiniteSet({"garrison"} \cup {"expedition"} \cup {"dungeon"})
    BY <2>2, FS_AddElement
  <2>4. Escrows = {"garrison"} \cup {"expedition"} \cup {"dungeon"}
    BY DEF Escrows
  <2> QED BY <2>3, <2>4
<1>2. /\ IsFiniteSet(Players \X Slots) /\ IsFiniteSet(Players \X Rallies)
      /\ IsFiniteSet(Players \X Allies) /\ IsFiniteSet(Players \X Escrows)
  BY <1>1, FS_Product, SlotsFinite, HeroAssumption
<1>3. /\ NamedInSlot(h) \subseteq Players \X Slots /\ NamedInRally(h) \subseteq Players \X Rallies
      /\ NamedAsAlly(h) \subseteq Players \X Allies /\ NamedInEscrow(h) \subseteq Players \X Escrows
  BY DEF NamedInSlot, NamedInRally, NamedAsAlly, NamedInEscrow
<1> QED BY <1>2, <1>3, FS_Subset

\* Spots of different kinds, or of different players, are not the same home.
LEMMA HomesDiffer ==
  ASSUME NEW k \in Kinds, NEW l \in Kinds, NEW p, NEW q, NEW i \in Index(k), NEW j \in Index(l),
         Home(k, p, i) = Home(l, q, j)
  PROVE  p = q /\ (k = "escrow" <=> l = "escrow") /\ (k = "escrow" => i = j)
<1>1. /\ k = "escrow" => i \in Escrows
      /\ l = "escrow" => j \in Escrows
      /\ "garrison" \in Escrows
  BY DEF Index, Kinds, Escrows
<1>2. CASE k = "escrow" /\ l = "escrow"
  BY <1>1, <1>2, Addresses DEF Home
<1>3. CASE k = "escrow" /\ l # "escrow"
  BY <1>1, <1>3, Addresses DEF Home
<1>4. CASE k # "escrow" /\ l = "escrow"
  BY <1>1, <1>4, Addresses DEF Home
<1>5. CASE k # "escrow" /\ l # "escrow"
  BY <1>1, <1>5, Addresses DEF Home
<1> QED BY <1>2, <1>3, <1>4, <1>5

\* A hero is in one place when it is at home in the only spot that names it.
LEMMA OnePlaceMeans == \A h \in Heroes : OnePlace(h) <=> Kept(h)
<1> SUFFICES ASSUME NEW h \in Heroes PROVE OnePlace(h) <=> Kept(h)
  OBVIOUS
<1> DEFINE A == NamedInSlot(h)
           B == NamedInRally(h)
           C == NamedAsAlly(h)
           D == NamedInEscrow(h)
<1>1. /\ Index("slot") = Slots /\ Index("rally") = Rallies /\ Index("ally") = Allies
      /\ Index("escrow") = Escrows
      /\ \A p, i : /\ At("slot", p, i) = player[p].slots[i] /\ Home("slot", p, i) = Account(p)
                   /\ At("rally", p, i) = party[p][i].hero /\ Home("rally", p, i) = Account(p)
                   /\ At("ally", p, i) = ally[p][i] /\ Home("ally", p, i) = Account(p)
                   /\ At("escrow", p, i) = escrow[p][i] /\ Home("escrow", p, i) = <<i, p>>
  BY DEF Index, At, Home
<1>2. /\ \A p \in Players, i \in Slots : At("slot", p, i) = h <=> <<p, i>> \in A
      /\ \A p \in Players, i \in Rallies : At("rally", p, i) = h <=> <<p, i>> \in B
      /\ \A p \in Players, i \in Allies : At("ally", p, i) = h <=> <<p, i>> \in C
      /\ \A p \in Players, i \in Escrows : At("escrow", p, i) = h <=> <<p, i>> \in D
  BY <1>1 DEF NamedInSlot, NamedInRally, NamedAsAlly, NamedInEscrow
<1>3. /\ \A x \in A : x = <<x[1], x[2]>> /\ x[1] \in Players /\ x[2] \in Slots
      /\ \A x \in B : x = <<x[1], x[2]>> /\ x[1] \in Players /\ x[2] \in Rallies
      /\ \A x \in C : x = <<x[1], x[2]>> /\ x[1] \in Players /\ x[2] \in Allies
      /\ \A x \in D : x = <<x[1], x[2]>> /\ x[1] \in Players /\ x[2] \in Escrows
  BY DEF NamedInSlot, NamedInRally, NamedAsAlly, NamedInEscrow
<1>4. OnePlace(h) <=>
        /\ \A x, y \in A : x = y
        /\ \A x, y \in B : x = y
        /\ \A x, y \in C : x = y
        /\ \A x, y \in D : x = y
        /\ A = {} \/ B = {}
        /\ A = {} \/ C = {}
        /\ A = {} \/ D = {}
        /\ B = {} \/ C = {}
        /\ B = {} \/ D = {}
        /\ C = {} \/ D = {}
        /\ \A x \in A \cup B \cup C : holder[h] = Account(x[1])
        /\ \A x \in D : holder[h] = <<x[2], x[1]>>
  BY AtMostOne, NamedFinite DEF OnePlace
<1> DEFINE N(k) == IF k = "slot" THEN A ELSE IF k = "rally" THEN B ELSE IF k = "ally" THEN C ELSE D
<1>5. /\ N("slot") = A /\ N("rally") = B /\ N("ally") = C /\ N("escrow") = D
      /\ \A k \in Kinds : k \in {"slot", "rally", "ally", "escrow"}
  BY DEF Kinds
<1> HIDE DEF A, B, C, D, N
<1>6. OnePlace(h) <=>
        /\ \A k \in Kinds : \A x, y \in N(k) : x = y
        /\ \A k, l \in Kinds : k # l => N(k) = {} \/ N(l) = {}
        /\ \A k \in Kinds : \A x \in N(k) : holder[h] = Home(k, x[1], x[2])
  BY <1>1, <1>4, <1>5 DEF Kinds
<1>7. \A k \in Kinds :
        /\ \A p \in Players : \A i \in Index(k) : At(k, p, i) = h <=> <<p, i>> \in N(k)
        /\ \A x \in N(k) : x = <<x[1], x[2]>> /\ x[1] \in Players /\ x[2] \in Index(k)
  BY <1>1, <1>2, <1>3, <1>5
<1>8. ASSUME OnePlace(h) PROVE Kept(h)
  <2> SUFFICES ASSUME NEW k \in Kinds, NEW p \in Players, NEW i \in Index(k), At(k, p, i) = h
               PROVE  /\ holder[h] = Home(k, p, i)
                      /\ \A l \in Kinds, q \in Players : \A j \in Index(l) :
                            At(l, q, j) = h => l = k /\ q = p /\ j = i
    BY DEF Kept
  <2>1. <<p, i>> \in N(k)
    BY <1>7
  <2>2. ASSUME NEW l \in Kinds, NEW q \in Players, NEW j \in Index(l), At(l, q, j) = h
        PROVE  l = k /\ q = p /\ j = i
    <3>1. <<q, j>> \in N(l)
      BY <1>7, <2>2
    <3>2. l = k
      BY <1>6, <1>8, <2>1, <3>1
    <3>3. <<q, j>> = <<p, i>>
      BY <1>6, <1>8, <2>1, <3>1, <3>2
    <3> QED BY <3>2, <3>3
  <2>3. holder[h] = Home(k, <<p, i>>[1], <<p, i>>[2])
    BY <1>6, <1>8, <2>1
  <2> QED BY <2>2, <2>3
<1>9. ASSUME Kept(h) PROVE OnePlace(h)
  <2>1. ASSUME NEW k \in Kinds, NEW x \in N(k)
        PROVE  /\ x = <<x[1], x[2]>> /\ x[1] \in Players /\ x[2] \in Index(k)
               /\ At(k, x[1], x[2]) = h
    BY <1>7
  <2>2. ASSUME NEW k \in Kinds, NEW x \in N(k), NEW l \in Kinds, NEW y \in N(l)
        PROVE  k = l /\ x = y
    <3>1. k = l /\ x[1] = y[1] /\ x[2] = y[2]
      BY <1>9, <2>1 DEF Kept
    <3> QED BY <2>1, <3>1
  <2>3. ASSUME NEW k \in Kinds, NEW x \in N(k) PROVE holder[h] = Home(k, x[1], x[2])
    BY <1>9, <2>1 DEF Kept
  <2> QED BY <1>6, <2>2, <2>3
<1> QED BY <1>8, <1>9

\* The NFT of h is in an account of a player and no spot that names h has this home.
Homeless(h) ==
    \E p \in Players :
        /\ holder[h] = Account(p)
        /\ \A k \in Kinds, q \in Players : \A i \in Index(k) :
              At(k, q, i) = h => Home(k, q, i) # Account(p)

\* A hero is parked when an account holds it whose player has no spot for it.
LEMMA ParkedMeans == \A h \in Heroes : Parked(h) <=> Homeless(h)
<1> SUFFICES ASSUME NEW h \in Heroes, NEW p \in Players
             PROVE  /\ ~InSlot(player[p], h)
                    /\ \A r \in Rallies : party[p][r].hero # h
                    /\ \A a \in Allies : ally[p][a] # h
                    <=> \A k \in Kinds, q \in Players : \A i \in Index(k) :
                           At(k, q, i) = h => Home(k, q, i) # Account(p)
  BY DEF Parked, Homeless
<1>1. /\ Index("slot") = Slots /\ Index("rally") = Rallies /\ Index("ally") = Allies
      /\ Index("escrow") = Escrows
      /\ \A q, i : /\ At("slot", q, i) = player[q].slots[i] /\ Home("slot", q, i) = Account(q)
                   /\ At("rally", q, i) = party[q][i].hero /\ Home("rally", q, i) = Account(q)
                   /\ At("ally", q, i) = ally[q][i] /\ Home("ally", q, i) = Account(q)
                   /\ At("escrow", q, i) = escrow[q][i] /\ Home("escrow", q, i) = <<i, q>>
  BY DEF Index, At, Home
<1>2. ASSUME NEW k \in Kinds, NEW q \in Players, NEW i \in Index(k), Home(k, q, i) = Account(p)
      PROVE  q = p /\ k # "escrow"
  <2>1. i \in Escrows \/ k # "escrow"
    BY <1>1
  <2>2. "garrison" \in Escrows
    BY DEF Escrows
  <2> QED BY <1>2, <2>1, <2>2, Addresses DEF Home
<1>3. (\A k \in Kinds, q \in Players : \A i \in Index(k) :
          At(k, q, i) = h => Home(k, q, i) # Account(p))
      <=> \A k \in Kinds \ {"escrow"} : \A i \in Index(k) : At(k, p, i) # h
  <2>1. \A k \in Kinds \ {"escrow"} : \A i : Home(k, p, i) = Account(p)
    BY DEF Home
  <2> QED BY <1>2, <2>1
<1>4. Kinds \ {"escrow"} = {"slot", "rally", "ally"}
  BY DEF Kinds
<1> QED BY <1>1, <1>3, <1>4 DEF InSlot

\* The two meanings hold after a step as well.
LEMMA MeaningsNext ==
  /\ (\A h \in Heroes : OnePlace(h) <=> Kept(h))'
  /\ (\A h \in Heroes : Parked(h) <=> Homeless(h))'
BY OnePlaceMeans, ParkedMeans, PTL

-----------------------------------------------------------------------------
(* Moves *)

\* The hero h of p moves: the spot of kind k and index i no longer names it, the one of
\* kind l and index j does, and its NFT goes to the address to.  "none" is no spot.
Move(p, h, k, i, l, j, to) ==
    /\ k # "none" => k \in Kinds /\ i \in Index(k) /\ At(k, p, i) = h
    /\ l # "none" => l \in Kinds /\ j \in Index(l) /\ At(l, p, j) = Nothing
    /\ \A m \in Kinds, q \in Players : \A n \in Index(m) :
          At(m, q, n)' = IF m = k /\ q = p /\ n = i THEN Nothing
                         ELSE IF m = l /\ q = p /\ n = j THEN h ELSE At(m, q, n)
    /\ \A g \in Heroes : holder'[g] = IF g = h THEN to ELSE holder[g]

\* A move takes its hero from the spot it leaves and finds the spot it goes to empty.
LEMMA MoveSpots ==
  ASSUME NEW p, NEW h, NEW k, NEW i, NEW l, NEW j, NEW to, Move(p, h, k, i, l, j, to),
         NEW m \in Kinds, NEW n
  PROVE  /\ m = k /\ n = i => At(m, p, n) = h
         /\ m = l /\ n = j => At(m, p, n) = Nothing
<1>1. m # "none"
  BY DEF Kinds
<1> QED BY <1>1 DEF Move

\* An NFT at this address is at the home of no spot.
Loose(x) == \A k \in Kinds, p \in Players : \A i \in Index(k) : x # Home(k, p, i)

\* A move out of a home, or of a loose hero, to the home of the spot it goes to.
LEMMA MoveKeeps ==
  ASSUME NEW p \in Players, NEW h \in Heroes, NEW k, NEW i, NEW l, NEW j, NEW to,
         Move(p, h, k, i, l, j, to),
         NEW g \in Heroes, Kept(g),
         g = h => /\ k # "none" \/ Loose(holder[h])
                  /\ \/ l = "none"
                     \/ to = Home(l, p, j)
                     \/ k # "none" /\ to = holder[h] /\ Home(k, p, i) = Home(l, p, j)
  PROVE  Kept(g)'
<1>0. /\ \A m \in Kinds, q \in Players : \A n \in Index(m) :
          At(m, q, n)' = IF m = k /\ q = p /\ n = i THEN Nothing
                         ELSE IF m = l /\ q = p /\ n = j THEN h ELSE At(m, q, n)
      /\ holder'[g] = IF g = h THEN to ELSE holder[g]
      /\ Nothing # g /\ Nothing # h
  BY HeroAssumption DEF Move
<1>1. CASE g # h
  <2>1. \A m \in Kinds, q \in Players : \A n \in Index(m) : At(m, q, n)' = g <=> At(m, q, n) = g
    BY <1>0, <1>1, MoveSpots
  <2>2. holder'[g] = holder[g]
    BY <1>0, <1>1
  <2> QED BY <2>1, <2>2 DEF Kept
<1>2. CASE g = h
  <2>1. ASSUME NEW m \in Kinds, NEW q \in Players, NEW n \in Index(m), At(m, q, n) = h
        PROVE  m = k /\ q = p /\ n = i
    BY <1>2, <2>1 DEF Kept, Move, Loose
  <2>2. ASSUME NEW m \in Kinds, NEW q \in Players, NEW n \in Index(m), At(m, q, n)' = h
        PROVE  m = l /\ q = p /\ n = j /\ l # "none"
    <3>1. l # "none" \/ m # l
      BY DEF Kinds
    <3> QED BY <1>0, <2>1, <2>2, <3>1
  <2>3. l # "none" => to = Home(l, p, j)
    BY <1>2 DEF Move, Kept
  <2>4. \A m, q, n : Home(m, q, n)' = Home(m, q, n)
    BY DEF Home, Account
  <2> QED BY <1>0, <1>2, <2>2, <2>3, <2>4 DEF Kept
<1> QED BY <1>1, <1>2

\* A move that does not leave the NFT in an account of a player without a spot there
\* parks no hero.
LEMMA MoveParksNone ==
  ASSUME NEW p \in Players, NEW h \in Heroes, NEW k, NEW i, NEW l, NEW j, NEW to,
         Move(p, h, k, i, l, j, to),
         NEW g \in Heroes, ~Parked(g),
         g = h => \/ \A q \in Players : to # Account(q)
                  \/ l # "none" /\ to = Home(l, p, j)
                  \/ k # "none" /\ l # "none" /\ to = holder[h] /\ Home(k, p, i) = Home(l, p, j)
  PROVE  ~Parked(g)'
<1>0. /\ \A m \in Kinds, q \in Players : \A n \in Index(m) :
          At(m, q, n)' = IF m = k /\ q = p /\ n = i THEN Nothing
                         ELSE IF m = l /\ q = p /\ n = j THEN h ELSE At(m, q, n)
      /\ holder'[g] = IF g = h THEN to ELSE holder[g]
      /\ Nothing # g /\ Nothing # h
  BY HeroAssumption DEF Move
<1>1. \A m, q, n : Home(m, q, n)' = Home(m, q, n) /\ Account(q)' = Account(q)
  BY DEF Home, Account
<1> SUFFICES ASSUME NEW q \in Players, holder'[g] = Account(q)
             PROVE  \E m \in Kinds, z \in Players : \E n \in Index(m) :
                       At(m, z, n)' = g /\ Home(m, z, n) = Account(q)
  BY <1>1, MeaningsNext DEF Homeless
<1>3. holder[g] = Account(q) => \E m \in Kinds, z \in Players : \E n \in Index(m) :
                                   At(m, z, n) = g /\ Home(m, z, n) = Account(q)
  BY ParkedMeans DEF Homeless
<1>4. CASE g # h
  BY <1>0, <1>3, <1>4, MoveSpots
<1>5. CASE g = h /\ l # "none" /\ to = Home(l, p, j)
  <2>1. l \in Kinds /\ j \in Index(l) /\ ~(l = k /\ j = i)
    BY <1>0, <1>5 DEF Move
  <2>2. At(l, p, j)' = g
    BY <1>0, <1>5, <2>1
  <2> QED BY <1>0, <1>5, <2>1, <2>2
<1>6. CASE g = h /\ k # "none" /\ l # "none" /\ to = holder[h] /\ Home(k, p, i) = Home(l, p, j)
  <2>1. PICK m \in Kinds, z \in Players : \E n \in Index(m) :
                 At(m, z, n) = g /\ Home(m, z, n) = Account(q)
    BY <1>0, <1>3, <1>6
  <2>2. PICK n \in Index(m) : At(m, z, n) = g /\ Home(m, z, n) = Account(q)
    BY <2>1
  <2>3. l \in Kinds /\ j \in Index(l) /\ ~(l = k /\ j = i) /\ At(l, p, j) = Nothing
    BY <1>0, <1>6 DEF Move
  <2>4. At(l, p, j)' = g
    BY <1>0, <1>6, <2>3
  <2>5. CASE m = k /\ z = p /\ n = i
    BY <1>6, <2>2, <2>3, <2>4, <2>5
  <2>6. CASE ~(m = k /\ z = p /\ n = i)
    <3>1. At(m, z, n)' = g
      BY <1>0, <1>6, <2>2, <2>3, <2>6
    <3> QED BY <2>2, <3>1
  <2> QED BY <2>5, <2>6
<1>7. CASE g = h /\ \A y \in Players : to # Account(y)
  BY <1>0, <1>7
<1> QED BY <1>4, <1>5, <1>6, <1>7

\* No spot changes and no NFT moves.
Stay ==
    /\ \A m \in Kinds, q \in Players : \A n \in Index(m) : At(m, q, n)' = At(m, q, n)
    /\ \A g \in Heroes : holder'[g] = holder[g]

\* A move that tears no hero from its place and parks none.
Settles(p, h, k, i, l, j, to) ==
    /\ h \in Heroes
    /\ Move(p, h, k, i, l, j, to)
    /\ k # "none" \/ Loose(holder[h])
    /\ \/ l = "none" /\ \A q \in Players : to # Account(q)
       \/ l # "none" /\ to = Home(l, p, j)
       \/ k # "none" /\ l # "none" /\ to = holder[h] /\ Home(k, p, i) = Home(l, p, j)

Settled(p) == \E h, k, i, l, j, to : Settles(p, h, k, i, l, j, to)

\* What is in one place stays in one, and what is not parked is not parked.
InOrder(g) == (OnePlace(g) => OnePlace(g)') /\ (~Parked(g) => ~Parked(g)')

\* Where no hero moves, every hero stays in order.
LEMMA StayInOrder ==
  ASSUME Stay, NEW g \in Heroes
  PROVE  InOrder(g)
<1>1. \A m, q, n : Home(m, q, n)' = Home(m, q, n) /\ Account(q)' = Account(q)
  BY DEF Home, Account
<1>2. (Kept(g) => Kept(g)') /\ (Homeless(g)' => Homeless(g))
  BY <1>1 DEF Stay, Kept, Homeless
<1> QED BY <1>2, OnePlaceMeans, ParkedMeans, MeaningsNext DEF InOrder

\* After a move from spot to spot, or out of all spots to a wallet, every hero is in order.
LEMMA SettledInOrder ==
  ASSUME NEW p \in Players, Settled(p), NEW g \in Heroes
  PROVE  InOrder(g)
<1>1. PICK h, k, i, l, j, to : Settles(p, h, k, i, l, j, to)
  BY DEF Settled
<1>2. ~Parked(g) => ~Parked(g)'
  <2> SUFFICES ASSUME ~Parked(g) PROVE ~Parked(g)'
    OBVIOUS
  <2> QED BY <1>1, MoveParksNone DEF Settles
<1>3. Kept(g) => Kept(g)'
  <2> SUFFICES ASSUME Kept(g) PROVE Kept(g)'
    OBVIOUS
  <2> QED BY <1>1, MoveKeeps DEF Settles
<1> QED BY <1>2, <1>3, OnePlaceMeans, MeaningsNext DEF InOrder

-----------------------------------------------------------------------------
(* The instructions as moves *)

\* The wallets are no home, and neither is the address of the unminted.
LEMMA LooseAddresses ==
  ASSUME NEW p
  PROVE  /\ Loose(Wallet(p)) /\ Loose(Unminted)
         /\ \A q : Wallet(p) # Account(q) /\ Burned # Account(q)
         /\ \A e \in Escrows : \A q : <<e, p>> # Account(q)
<1>1. "garrison" \in Escrows /\ \A k \in Kinds : \A i \in Index(k) : k = "escrow" => i \in Escrows
  BY DEF Escrows, Index, Kinds
<1>2. \A q : Wallet(p) # Account(q) /\ Burned # Account(q) /\ Unminted # Account(q)
  BY <1>1, Addresses
<1>3. \A e \in Escrows : \A q : <<e, p>> # Account(q) /\ Wallet(p) # <<e, q>> /\ Unminted # <<e, q>>
  BY Addresses
<1> QED BY <1>1, <1>2, <1>3 DEF Loose, Home

\* The spots, one kind after the other.
LEMMA Spots ==
  /\ Index("slot") = Slots /\ Index("rally") = Rallies /\ Index("ally") = Allies
  /\ Index("escrow") = Escrows
  /\ \A p, i : /\ At("slot", p, i) = player[p].slots[i]
               /\ At("rally", p, i) = party[p][i].hero
               /\ At("ally", p, i) = ally[p][i]
               /\ At("escrow", p, i) = escrow[p][i]
               /\ Home("slot", p, i) = Account(p) /\ Home("rally", p, i) = Account(p)
               /\ Home("ally", p, i) = Account(p) /\ Home("escrow", p, i) = <<i, p>>
  /\ Kinds = {"slot", "rally", "ally", "escrow"}
BY DEF Index, At, Home, Kinds

\* The spots after a step.
LEMMA SpotsNext ==
  \A p, i : /\ At("slot", p, i)' = player'[p].slots[i]
            /\ At("rally", p, i)' = party'[p][i].hero
            /\ At("ally", p, i)' = ally'[p][i]
            /\ At("escrow", p, i)' = escrow'[p][i]
BY DEF At

\* An NFT that moves.
LEMMA HolderWritten ==
  ASSUME TypeOK, NEW h \in Heroes, NEW to, holder' = [holder EXCEPT ![h] = to]
  PROVE  \A g \in Heroes : holder'[g] = IF g = h THEN to ELSE holder[g]
BY DEF TypeOK

\* mint, burn and trade move NFTs that no spot should name.
LEMMA TradeMoves ==
  ASSUME TypeOK, NEW p \in Players, NEW q \in Players, NEW h \in Heroes,
         mint(p, h) \/ burn(p, h) \/ trade(p, q, h)
  PROVE  Settled(p)
<1>1. PICK to \in {Wallet(p), Wallet(q), Burned} : holder' = [holder EXCEPT ![h] = to]
  BY DEF mint, burn, trade
<1>2. holder[h] \in {Unminted, Wallet(p)} /\ UNCHANGED <<player, party, ally, escrow>>
  BY DEF mint, burn, trade
<1>3. Move(p, h, "none", Nothing, "none", Nothing, to)
  <2>1. ASSUME NEW m \in Kinds, NEW y \in Players, NEW n \in Index(m)
        PROVE  At(m, y, n)' = IF m = "none" /\ y = p /\ n = Nothing THEN Nothing
                              ELSE IF m = "none" /\ y = p /\ n = Nothing THEN h ELSE At(m, y, n)
    BY <1>2 DEF At, Kinds
  <2>2. \A g \in Heroes : holder'[g] = IF g = h THEN to ELSE holder[g]
    BY <1>1, HolderWritten
  <2> QED BY <2>1, <2>2 DEF Move
<1>4. Settles(p, h, "none", Nothing, "none", Nothing, to)
  BY <1>1, <1>2, <1>3, LooseAddresses DEF Settles
<1> QED BY <1>4 DEF Settled

\* lock moves a hero into a slot.
LEMMA LockMoves ==
  ASSUME TypeOK, NEW p \in Players, NEW h \in Heroes, NEW s \in Slots, lock(p, s, h)
  PROVE  Settled(p)
<1>1. \A q \in Players, n \in Slots :
         player'[q].slots[n] = IF q = p /\ n = s THEN h ELSE player[q].slots[n]
  <2> DEFINE b == Seated(player[p], s, h)
  <2>0. player[p] \in PlayerAccount /\ level \in [Heroes -> Levels]
    BY StateTypes
  <2>1. \A z \in Slots : b.slots[z] = IF z = s THEN h ELSE player[p].slots[z]
    BY <2>0, SeatedFields
  <2>2. player' = [player EXCEPT ![p] = b]
    BY DEF lock
  <2> HIDE DEF b
  <2> QED BY <2>1, <2>2 DEF TypeOK
<1>2. /\ \A g \in Heroes : holder'[g] = IF g = h THEN Account(p) ELSE holder[g]
      /\ UNCHANGED <<party, ally, escrow>>
      /\ holder[h] = Wallet(p) /\ player[p].slots[s] = Nothing
  BY HolderWritten DEF lock
<1>3. Move(p, h, "none", Nothing, "slot", s, Account(p))
  <2>1. ASSUME NEW m \in Kinds, NEW q \in Players, NEW n \in Index(m)
        PROVE  At(m, q, n)' = IF m = "none" /\ q = p /\ n = Nothing THEN Nothing
                              ELSE IF m = "slot" /\ q = p /\ n = s THEN h ELSE At(m, q, n)
    BY <1>1, <1>2, Spots, SpotsNext
  <2> QED BY <1>2, <2>1, Spots DEF Move
<1>4. Settles(p, h, "none", Nothing, "slot", s, Account(p))
  BY <1>2, <1>3, LooseAddresses, Spots DEF Settles
<1> QED BY <1>4 DEF Settled

\* A hero that is unseated leaves its slot, whatever account is read for its template.
LEMMA UnseatedAsWritten ==
  ASSUME TypeOK, NEW p \in Players, NEW s \in Slots, player[p].slots[s] # Nothing,
         NEW t \in Accounts, player' = [player EXCEPT ![p] = UnseatedAs(player[p], s, t)]
  PROVE  \A q \in Players, n \in Slots :
            player'[q].slots[n] = IF q = p /\ n = s THEN Nothing ELSE player[q].slots[n]
<1> DEFINE b == UnseatedAs(player[p], s, t)
<1>1. player[p] \in PlayerAccount /\ level \in [Heroes -> Levels]
  BY StateTypes
<1>2. \A z \in Slots : b.slots[z] = IF z = s THEN Nothing ELSE player[p].slots[z]
  BY <1>1, UnseatedAsFields
<1>3. player' = [player EXCEPT ![p] = b]
  OBVIOUS
<1> HIDE DEF b
<1> QED BY <1>2, <1>3 DEF TypeOK

LEMMA UnseatedWritten ==
  ASSUME TypeOK, NEW p \in Players, NEW s \in Slots, player[p].slots[s] # Nothing,
         player' = [player EXCEPT ![p] = Unseated(player[p], s)]
  PROVE  \A q \in Players, n \in Slots :
            player'[q].slots[n] = IF q = p /\ n = s THEN Nothing ELSE player[q].slots[n]
<1>1. player[p].slots[s] \in Heroes
  BY StateTypes
<1>2. Template[player[p].slots[s]] \in Accounts
  BY <1>1, BearsType
<1> QED BY <1>2, UnseatedAsWritten DEF Unseated

\* A hero that is seated takes its slot, whatever account is read for its template.
SeatedAt(p, s, h, t) == player' = [player EXCEPT ![p] = SeatedAs(player[p], s, h, t)]
TakesSlot(p, s, h) ==
    \A q \in Players, n \in Slots :
        player'[q].slots[n] = IF q = p /\ n = s THEN h ELSE player[q].slots[n]

LEMMA SeatedWritten ==
  ASSUME TypeOK, NEW p \in Players, NEW s \in Slots, NEW h \in Heroes, NEW t \in Accounts,
         SeatedAt(p, s, h, t)
  PROVE  TakesSlot(p, s, h)
<1> DEFINE b == SeatedAs(player[p], s, h, t)
<1>1. player[p] \in PlayerAccount /\ level \in [Heroes -> Levels]
  BY StateTypes
<1>2. \A z \in Slots : b.slots[z] = IF z = s THEN h ELSE player[p].slots[z]
  BY <1>1, SeatedAsFields
<1>3. player' = [player EXCEPT ![p] = b]
  BY DEF SeatedAt
<1> HIDE DEF b
<1> QED BY <1>2, <1>3 DEF TypeOK, TakesSlot

\* unlock moves a hero from a slot to the wallet.
LEMMA UnlockMoves ==
  ASSUME TypeOK, NEW p \in Players, NEW s \in Slots, unlock(p, s)
  PROVE  Settled(p)
<1> DEFINE h == player[p].slots[s]
<1>1. h \in Heroes /\ holder' = [holder EXCEPT ![h] = Wallet(p)] /\ UNCHANGED <<party, ally, escrow>>
  BY StateTypes DEF unlock, MovesFrom
<1>2. \A q \in Players, n \in Slots :
         player'[q].slots[n] = IF q = p /\ n = s THEN Nothing ELSE player[q].slots[n]
  BY UnseatedWritten DEF unlock
<1>3. At("slot", p, s) = h
  BY Spots
<1> HIDE DEF h
<1>4. \A g \in Heroes : holder'[g] = IF g = h THEN Wallet(p) ELSE holder[g]
  BY <1>1, HolderWritten
<1>5. Move(p, h, "slot", s, "none", Nothing, Wallet(p))
  <2>1. ASSUME NEW m \in Kinds, NEW q \in Players, NEW n \in Index(m)
        PROVE  At(m, q, n)' = IF m = "slot" /\ q = p /\ n = s THEN Nothing
                              ELSE IF m = "none" /\ q = p /\ n = Nothing THEN h ELSE At(m, q, n)
    BY <1>1, <1>2, Spots, SpotsNext
  <2> QED BY <1>3, <1>4, <2>1, Spots DEF Move
<1>6. Settles(p, h, "slot", s, "none", Nothing, Wallet(p))
  BY <1>1, <1>5, LooseAddresses DEF Settles
<1> QED BY <1>6 DEF Settled

\* The account of a party that is not open names no hero.
ClosedNameNone == \A p \in Players, r \in Rallies : party[p][r].open \/ party[p][r].hero = Nothing

\* Joining a rally moves the hero of a slot to the rally, or no hero.
LEMMA JoinMoves ==
  ASSUME TypeOK, ClosedNameNone, NEW p \in Players, NEW r \in Rallies, rally_join(p, r)
  PROVE  Stay \/ Settled(p)
<1>0. UNCHANGED <<holder, ally, escrow>> /\ party[p][r].hero = Nothing
  BY DEF rally_join, ClosedNameNone
<1>1. ASSUME party' = [party EXCEPT ![p][r] = [open |-> TRUE, counted |-> TRUE, hero |-> Nothing]],
             UNCHANGED player
      PROVE  Stay
  <2>1. \A q \in Players, n \in Rallies : party'[q][n].hero = party[q][n].hero
    <3> DEFINE a == [open |-> TRUE, counted |-> TRUE, hero |-> Nothing]
    <3>1. a.hero = Nothing /\ party' = [party EXCEPT ![p][r] = a]
      BY <1>1
    <3> HIDE DEF a
    <3> QED BY <1>0, <3>1 DEF TypeOK
  <2>2. ASSUME NEW m \in Kinds, NEW q \in Players, NEW n \in Index(m)
        PROVE  At(m, q, n)' = At(m, q, n)
    BY <1>0, <1>1, <2>1, Spots, SpotsNext
  <2> QED BY <1>0, <2>2 DEF Stay
<1>2. ASSUME NEW s \in Occupied(player[p]),
             party' = [party EXCEPT ![p][r] = [open |-> TRUE, counted |-> TRUE,
                                               hero |-> player[p].slots[s]]],
             NEW t \in Bears[Template[player[p].slots[s]]],
             player' = [player EXCEPT ![p] = UnseatedAs(player[p], s, t)]
      PROVE  Settled(p)
  <2> DEFINE h == player[p].slots[s]
             a == [open |-> TRUE, counted |-> TRUE, hero |-> h]
  <2>1. s \in Slots /\ h \in Heroes /\ h # Nothing
    BY StateTypes DEF Occupied
  <2>2. \A q \in Players, n \in Slots :
           player'[q].slots[n] = IF q = p /\ n = s THEN Nothing ELSE player[q].slots[n]
    <3>1. t \in Accounts
      BY <2>1, BearsType
    <3> QED BY <1>2, <2>1, <3>1, UnseatedAsWritten
  <2>3. At("slot", p, s) = h /\ a.hero = h /\ party' = [party EXCEPT ![p][r] = a]
    BY <1>2, Spots
  <2> HIDE DEF h, a
  <2>4. \A q \in Players, n \in Rallies :
           party'[q][n].hero = IF q = p /\ n = r THEN h ELSE party[q][n].hero
    <3>1. \A q \in Players, n \in Rallies :
             party'[q][n] = IF q = p /\ n = r THEN a ELSE party[q][n]
      BY <2>3 DEF TypeOK
    <3> QED BY <2>3, <3>1
  <2>5. Move(p, h, "slot", s, "rally", r, holder[h])
    <3>1. ASSUME NEW m \in Kinds, NEW q \in Players, NEW n \in Index(m)
          PROVE  At(m, q, n)' = IF m = "slot" /\ q = p /\ n = s THEN Nothing
                                ELSE IF m = "rally" /\ q = p /\ n = r THEN h ELSE At(m, q, n)
      BY <1>0, <2>2, <2>4, Spots, SpotsNext
    <3> QED BY <1>0, <2>1, <2>3, <3>1, Spots DEF Move
  <2>6. Settles(p, h, "slot", s, "rally", r, holder[h])
    BY <2>1, <2>5, Spots DEF Settles
  <2> QED BY <2>6 DEF Settled
<1> QED BY <1>1, <1>2 DEF rally_join

\* A return of a rally moves its hero to a slot or to the wallet.
LEMMA ReturnMoves ==
  ASSUME TypeOK, ClosedNameNone, NEW p \in Players, NEW r \in Rallies, rally_return(p, r)
  PROVE  Stay \/ Settled(p)
<1> DEFINE h == party[p][r].hero
<1>0. UNCHANGED <<ally, escrow>> /\ party' = [party EXCEPT ![p][r] = NoParty] /\ NoParty.hero = Nothing
  BY DEF rally_return, NoParty
<1>1. \A q \in Players, n \in Rallies :
         party'[q][n].hero = IF q = p /\ n = r THEN Nothing ELSE party[q][n].hero
  <2>1. \A q \in Players, n \in Rallies :
           party'[q][n] = IF q = p /\ n = r THEN NoParty ELSE party[q][n]
    BY <1>0 DEF TypeOK
  <2> QED BY <1>0, <2>1
<1>2. CASE h = Nothing
  <2>1. UNCHANGED <<holder, player>>
    BY <1>2 DEF rally_return
  <2>2. ASSUME NEW m \in Kinds, NEW q \in Players, NEW n \in Index(m)
        PROVE  At(m, q, n)' = At(m, q, n)
    BY <1>0, <1>1, <1>2, <2>1, Spots, SpotsNext
  <2> QED BY <2>1, <2>2 DEF Stay
<1>3. CASE h # Nothing
  <2>1. h \in Heroes /\ RestoreHero(p, h) /\ At("rally", p, r) = h
    BY <1>3, StateTypes, Spots DEF rally_return
  <2> HIDE DEF h
  <2>2. ASSUME NEW s \in FirstFree(player[p]), NEW t \in Bears[Template[h]], UNCHANGED holder,
               player' = [player EXCEPT ![p] = SeatedAs(player[p], s, h, t)]
        PROVE  Settled(p)
    <3>1. s \in Slots /\ player[p].slots[s] = Nothing
      BY DEF FirstFree
    <3>2. \A q \in Players, n \in Slots :
             player'[q].slots[n] = IF q = p /\ n = s THEN h ELSE player[q].slots[n]
      <4>1. SeatedAt(p, s, h, t) /\ t \in Accounts
        BY <2>1, <2>2, BearsType DEF SeatedAt
      <4> QED BY <2>1, <3>1, <4>1, SeatedWritten DEF TakesSlot
    <3>3. Move(p, h, "rally", r, "slot", s, holder[h])
      <4>1. ASSUME NEW m \in Kinds, NEW q \in Players, NEW n \in Index(m)
            PROVE  At(m, q, n)' = IF m = "rally" /\ q = p /\ n = r THEN Nothing
                                  ELSE IF m = "slot" /\ q = p /\ n = s THEN h ELSE At(m, q, n)
        BY <1>0, <1>1, <3>2, Spots, SpotsNext
      <4> QED BY <2>1, <2>2, <3>1, <4>1, Spots DEF Move
    <3>4. Settles(p, h, "rally", r, "slot", s, holder[h])
      BY <2>1, <3>3, Spots DEF Settles
    <3> QED BY <3>4 DEF Settled
  <2>3. ASSUME MovesFrom(p, h, Wallet(p)), UNCHANGED player PROVE Settled(p)
    <3>1. \A g \in Heroes : holder'[g] = IF g = h THEN Wallet(p) ELSE holder[g]
      BY <2>1, <2>3, HolderWritten DEF MovesFrom
    <3>2. Move(p, h, "rally", r, "none", Nothing, Wallet(p))
      <4>1. ASSUME NEW m \in Kinds, NEW q \in Players, NEW n \in Index(m)
            PROVE  At(m, q, n)' = IF m = "rally" /\ q = p /\ n = r THEN Nothing
                                  ELSE IF m = "none" /\ q = p /\ n = Nothing THEN h ELSE At(m, q, n)
        BY <1>0, <1>1, <2>3, Spots, SpotsNext
      <4> QED BY <2>1, <3>1, <4>1, Spots DEF Move
    <3>3. Settles(p, h, "rally", r, "none", Nothing, Wallet(p))
      BY <2>1, <3>2, LooseAddresses DEF Settles
    <3> QED BY <3>3 DEF Settled
  <2> QED BY <2>1, <2>2, <2>3 DEF RestoreHero
<1> QED BY <1>2, <1>3

\* A reinforcement moves the hero of a slot to the ally and back.
LEMMA AllySendMoves ==
  ASSUME TypeOK, NEW p \in Players, NEW a \in Allies, NEW s \in Slots, reinforcement_send(p, a, s)
  PROVE  Settled(p)
<1> DEFINE h == player[p].slots[s]
<1>1. h \in Heroes /\ UNCHANGED <<holder, party, escrow>> /\ ally[p][a] = Nothing
  BY StateTypes DEF reinforcement_send
<1>2. \A q \in Players, n \in Slots :
         player'[q].slots[n] = IF q = p /\ n = s THEN Nothing ELSE player[q].slots[n]
  BY StateTypes DEF reinforcement_send, PlayerAccount, TypeOK
<1>3. \A q \in Players, n \in Allies : ally'[q][n] = IF q = p /\ n = a THEN h ELSE ally[q][n]
  BY DEF reinforcement_send, TypeOK
<1>4. At("slot", p, s) = h
  BY Spots
<1> HIDE DEF h
<1>5. Move(p, h, "slot", s, "ally", a, holder[h])
  <2>1. ASSUME NEW m \in Kinds, NEW q \in Players, NEW n \in Index(m)
        PROVE  At(m, q, n)' = IF m = "slot" /\ q = p /\ n = s THEN Nothing
                              ELSE IF m = "ally" /\ q = p /\ n = a THEN h ELSE At(m, q, n)
    BY <1>1, <1>2, <1>3, Spots, SpotsNext
  <2> QED BY <1>1, <1>4, <2>1, Spots DEF Move
<1>6. Settles(p, h, "slot", s, "ally", a, holder[h])
  BY <1>1, <1>5, Spots DEF Settles
<1> QED BY <1>6 DEF Settled

\* Without a free slot the hero is nowhere, and then the slots were full.
LEMMA AllyReturnMoves ==
  ASSUME TypeOK, NEW p \in Players, NEW a \in Allies, reinforcement_return(p, a)
  PROVE  \/ Settled(p)
         \/ /\ Occupied(player[p]) = Slots
            /\ ally[p][a] \in Heroes /\ ally'[p][a] = Nothing
            /\ Move(p, ally[p][a], "ally", a, "none", Nothing, holder[ally[p][a]])
<1> DEFINE h == ally[p][a]
<1>1. h \in Heroes /\ UNCHANGED <<holder, party, escrow>>
  BY StateTypes DEF reinforcement_return
<1>2. \A q \in Players, n \in Allies : ally'[q][n] = IF q = p /\ n = a THEN Nothing ELSE ally[q][n]
  BY DEF reinforcement_return, TypeOK
<1>3. \A q \in Players, n \in Slots :
         player'[q].slots[n] = IF q = p /\ n \in FirstFree(player[p]) THEN h ELSE player[q].slots[n]
  <2> DEFINE x == [z \in Slots |-> IF z \in FirstFree(player[p]) THEN h ELSE player[p].slots[z]]
  <2>1. player' = [player EXCEPT ![p].slots = x]
    BY StateTypes DEF reinforcement_return, TypeOK, PlayerAccount
  <2>2. \A z \in Slots : x[z] = IF z \in FirstFree(player[p]) THEN h ELSE player[p].slots[z]
    OBVIOUS
  <2> HIDE DEF x, h
  <2>3. \A q \in Players : player'[q].slots = IF q = p THEN x ELSE player[q].slots
    BY <2>1, StateTypes DEF TypeOK, PlayerAccount
  <2> QED BY <2>2, <2>3
<1>4. At("ally", p, a) = h
  BY Spots
<1>5. CASE FirstFree(player[p]) # {}
  <2>1. PICK s \in FirstFree(player[p]) : TRUE
    BY <1>5
  <2>2. /\ s \in Slots /\ player[p].slots[s] = Nothing
        /\ \A n \in Slots : n \in FirstFree(player[p]) <=> n = s
    BY FirstFreeMeans DEF FirstFree
  <2> HIDE DEF h
  <2>3. Move(p, h, "ally", a, "slot", s, holder[h])
    <3>1. ASSUME NEW m \in Kinds, NEW q \in Players, NEW n \in Index(m)
          PROVE  At(m, q, n)' = IF m = "ally" /\ q = p /\ n = a THEN Nothing
                                ELSE IF m = "slot" /\ q = p /\ n = s THEN h ELSE At(m, q, n)
      BY <1>1, <1>2, <1>3, <2>2, Spots, SpotsNext
    <3> QED BY <1>1, <1>4, <2>2, <3>1, Spots DEF Move
  <2>4. Settles(p, h, "ally", a, "slot", s, holder[h])
    BY <1>1, <2>3, Spots DEF Settles
  <2> QED BY <2>4 DEF Settled
<1>6. CASE FirstFree(player[p]) = {}
  <2>1. Occupied(player[p]) = Slots
    BY <1>6, FirstFreeMeans
  <2>2. ally'[p][a] = Nothing
    BY <1>2
  <2> HIDE DEF h
  <2>3. Move(p, h, "ally", a, "none", Nothing, holder[h])
    <3>1. ASSUME NEW m \in Kinds, NEW q \in Players, NEW n \in Index(m)
          PROVE  At(m, q, n)' = IF m = "ally" /\ q = p /\ n = a THEN Nothing
                                ELSE IF m = "none" /\ q = p /\ n = Nothing THEN h ELSE At(m, q, n)
      BY <1>1, <1>2, <1>3, <1>6, Spots, SpotsNext
    <3> QED BY <1>1, <1>4, <3>1, Spots DEF Move
  <2> QED BY <1>1, <2>1, <2>2, <2>3 DEF h
<1> QED BY <1>5, <1>6

\* A garrison takes the hero of a slot.
LEMMA GarrisonMoves ==
  ASSUME TypeOK, NEW p \in Players, NEW s \in Slots, join_garrison(p, s)
  PROVE  Settled(p)
<1> DEFINE h == player[p].slots[s]
           to == <<"garrison", p>>
<1>0. "garrison" \in Escrows
  BY DEF Escrows
<1>1. /\ h \in Heroes /\ UNCHANGED <<party, ally>> /\ escrow[p]["garrison"] = Nothing
      /\ holder' = [holder EXCEPT ![h] = to] /\ escrow' = [escrow EXCEPT ![p]["garrison"] = h]
  BY StateTypes DEF join_garrison, MovesFrom
<1>2. \A q \in Players, n \in Slots :
         player'[q].slots[n] = IF q = p /\ n = s THEN Nothing ELSE player[q].slots[n]
  BY UnseatedWritten DEF join_garrison
<1>3. At("slot", p, s) = h /\ Home("escrow", p, "garrison") = to
  BY Spots
<1> HIDE DEF h, to
<1>4. \A q \in Players, n \in Escrows :
         escrow'[q][n] = IF q = p /\ n = "garrison" THEN h ELSE escrow[q][n]
  BY <1>0, <1>1 DEF TypeOK
<1>5. \A g \in Heroes : holder'[g] = IF g = h THEN to ELSE holder[g]
  BY <1>1, HolderWritten
<1>6. Move(p, h, "slot", s, "escrow", "garrison", to)
  <2>1. ASSUME NEW m \in Kinds, NEW q \in Players, NEW n \in Index(m)
        PROVE  At(m, q, n)' = IF m = "slot" /\ q = p /\ n = s THEN Nothing
                              ELSE IF m = "escrow" /\ q = p /\ n = "garrison" THEN h ELSE At(m, q, n)
    BY <1>1, <1>2, <1>4, Spots, SpotsNext
  <2> QED BY <1>0, <1>1, <1>3, <1>5, <2>1, Spots DEF Move
<1>7. Settles(p, h, "slot", s, "escrow", "garrison", to)
  BY <1>1, <1>3, <1>6 DEF Settles
<1> QED BY <1>7 DEF Settled

\* An escrow that is closed without its hero names nothing, and one that lets it go
\* to a wallet neither.
LEMMA ReleaseMoves ==
  ASSUME TypeOK, EscrowsHold, NEW p \in Players, NEW e \in Escrows, escrow[p][e] # Nothing,
         escrow' = [escrow EXCEPT ![p][e] = Nothing], UNCHANGED <<player, party, ally>>,
         UNCHANGED holder \/ \E q \in Players : Released(p, e, Wallet(q))
  PROVE  Settled(p)
<1> DEFINE h == escrow[p][e]
<1>1. h \in Heroes /\ At("escrow", p, e) = h /\ holder[h] = <<e, p>>
  <2>1. h \in Heroes /\ At("escrow", p, e) = h
    BY StateTypes, Spots
  <2>2. holder[escrow[p][e]] = <<e, p>>
    BY DEF EscrowsHold
  <2> QED BY <2>1, <2>2
<1>2. PICK to : /\ \A g \in Heroes : holder'[g] = IF g = h THEN to ELSE holder[g]
                /\ \A q \in Players : to # Account(q)
  <2>1. CASE UNCHANGED holder
    BY <1>1, <2>1, LooseAddresses
  <2>2. ASSUME NEW q \in Players, Released(p, e, Wallet(q))
        PROVE  \A g \in Heroes : holder'[g] = IF g = h THEN Wallet(q) ELSE holder[g]
    BY <2>2 DEF Released, TypeOK
  <2> QED BY <2>1, <2>2, LooseAddresses
<1>3. \A q \in Players, n \in Escrows : escrow'[q][n] = IF q = p /\ n = e THEN Nothing ELSE escrow[q][n]
  BY DEF TypeOK
<1> HIDE DEF h
<1>4. Move(p, h, "escrow", e, "none", Nothing, to)
  <2>1. ASSUME NEW m \in Kinds, NEW q \in Players, NEW n \in Index(m)
        PROVE  At(m, q, n)' = IF m = "escrow" /\ q = p /\ n = e THEN Nothing
                              ELSE IF m = "none" /\ q = p /\ n = Nothing THEN h ELSE At(m, q, n)
    BY <1>3, Spots, SpotsNext
  <2> QED BY <1>1, <1>2, <2>1, Spots DEF Move
<1>5. Settles(p, h, "escrow", e, "none", Nothing, to)
  BY <1>1, <1>2, <1>4 DEF Settles
<1> QED BY <1>5 DEF Settled

\* A garrison gives its hero back to a slot or to a wallet.
LEMMA GarrisonReturnSettles ==
  ASSUME TypeOK, EscrowsHold, NEW p \in Players, NEW q \in Players, GarrisonReturn(p, q)
  PROVE  Settled(p)
<1> DEFINE h == escrow[p]["garrison"]
<1>0. "garrison" \in Escrows
  BY DEF Escrows
<1>1. /\ h \in Heroes /\ UNCHANGED <<party, ally>> /\ escrow' = [escrow EXCEPT ![p]["garrison"] = Nothing]
      /\ At("escrow", p, "garrison") = h
  BY <1>0, StateTypes, Spots DEF GarrisonReturn, Released
<1>2. CASE FirstFree(player[p]) = {}
  <2>1. Released(p, "garrison", Wallet(q)) /\ UNCHANGED player
    BY <1>2 DEF GarrisonReturn
  <2> QED BY <1>0, <1>1, <2>1, ReleaseMoves DEF Released
<1>3. CASE FirstFree(player[p]) # {}
  <2>1. PICK s \in FirstFree(player[p]) : player' = [player EXCEPT ![p] = Seated(player[p], s, h)]
    BY <1>3 DEF GarrisonReturn
  <2>2. holder' = [holder EXCEPT ![h] = Account(p)]
    BY <1>3 DEF GarrisonReturn, Released
  <2>3. s \in Slots /\ player[p].slots[s] = Nothing
    BY DEF FirstFree
  <2>4. \A y \in Players, n \in Escrows :
           escrow'[y][n] = IF y = p /\ n = "garrison" THEN Nothing ELSE escrow[y][n]
    BY <1>0, <1>1 DEF TypeOK
  <2> HIDE DEF h
  <2>5. \A y \in Players, n \in Slots :
           player'[y].slots[n] = IF y = p /\ n = s THEN h ELSE player[y].slots[n]
    <3>1. SeatedAt(p, s, h, Template[h]) /\ Template[h] \in Accounts
      BY <1>1, <2>1, BearsType DEF SeatedAt, Seated
    <3> QED BY <1>1, <2>3, <3>1, SeatedWritten DEF TakesSlot
  <2>6. \A g \in Heroes : holder'[g] = IF g = h THEN Account(p) ELSE holder[g]
    BY <1>1, <2>2, HolderWritten
  <2>7. Move(p, h, "escrow", "garrison", "slot", s, Account(p))
    <3>1. ASSUME NEW m \in Kinds, NEW y \in Players, NEW n \in Index(m)
          PROVE  At(m, y, n)' = IF m = "escrow" /\ y = p /\ n = "garrison" THEN Nothing
                                ELSE IF m = "slot" /\ y = p /\ n = s THEN h ELSE At(m, y, n)
      BY <1>1, <2>4, <2>5, Spots, SpotsNext
    <3> QED BY <1>0, <1>1, <2>3, <2>6, <3>1, Spots DEF Move
  <2>8. Settles(p, h, "escrow", "garrison", "slot", s, Account(p))
    BY <1>1, <2>7, Spots DEF Settles
  <2> QED BY <2>8 DEF Settled
<1> QED BY <1>2, <1>3

\* A hero of the wallet enters an expedition or a dungeon, slots and all others as they are.
LEMMA WalletEnters ==
  ASSUME TypeOK, NEW p \in Players, NEW h \in Heroes, NEW e \in Escrows, Enters(p, e, h),
         UNCHANGED <<party, ally>>,
         \A q \in Players, n \in Slots : player'[q].slots[n] = player[q].slots[n]
  PROVE  /\ Move(p, h, "none", Nothing, "escrow", e, <<e, p>>)
         /\ holder[h] = Wallet(p) => Settled(p)
<1> DEFINE to == <<e, p>>
<1>1. /\ escrow[p][e] = Nothing
      /\ holder' = [holder EXCEPT ![h] = to] /\ escrow' = [escrow EXCEPT ![p][e] = h]
  BY DEF Enters
<1>2. \A q \in Players, n \in Escrows : escrow'[q][n] = IF q = p /\ n = e THEN h ELSE escrow[q][n]
  BY <1>1 DEF TypeOK
<1>3. Home("escrow", p, e) = to
  BY Spots
<1> HIDE DEF to
<1>4. \A g \in Heroes : holder'[g] = IF g = h THEN to ELSE holder[g]
  BY <1>1 DEF TypeOK
<1>5. Move(p, h, "none", Nothing, "escrow", e, to)
  <2>1. ASSUME NEW m \in Kinds, NEW q \in Players, NEW n \in Index(m)
        PROVE  At(m, q, n)' = IF m = "none" /\ q = p /\ n = Nothing THEN Nothing
                              ELSE IF m = "escrow" /\ q = p /\ n = e THEN h ELSE At(m, q, n)
    BY <1>2, Spots, SpotsNext
  <2> QED BY <1>1, <1>4, <2>1, Spots DEF Move
<1>6. holder[h] = Wallet(p) => Settles(p, h, "none", Nothing, "escrow", e, to)
  BY <1>3, <1>5, LooseAddresses DEF Settles
<1> QED BY <1>5, <1>6 DEF Settled, to

\* An expedition takes its hero from the wallet, from the first slot that names it, or,
\* when no slot does, from wherever else the account of the player keeps it.
LEMMA ExpeditionMoves ==
  ASSUME TypeOK, NEW p \in Players, NEW h \in Heroes, expedition_start(p, h)
  PROVE  \/ Settled(p)
         \/ /\ holder[h] = Account(p) /\ ~InSlot(player[p], h)
            /\ Move(p, h, "none", Nothing, "escrow", "expedition", <<"expedition", p>>)
<1> DEFINE e == "expedition"
           Found(z) == /\ holder[h] = Account(p) /\ player[p].slots[z] = h
                       /\ \A y \in 1 .. z - 1 : player[p].slots[y] # h
<1>0. e \in Escrows /\ Slots \subseteq Nat
  BY HeroAssumption DEF Escrows, Slots
<1>1. Enters(p, e, h) /\ UNCHANGED <<party, ally>>
  BY DEF expedition_start, Enters
<1>2. \A q \in Players, n \in Slots :
         player'[q].slots[n] = IF q = p /\ Found(n) THEN Nothing ELSE player[q].slots[n]
  <2> DEFINE x == [z \in Slots |-> IF Found(z) THEN Nothing ELSE player[p].slots[z]]
  <2>1. player' = [player EXCEPT ![p].slots = x]
    BY StateTypes DEF expedition_start, TypeOK, PlayerAccount
  <2>2. \A z \in Slots : x[z] = IF Found(z) THEN Nothing ELSE player[p].slots[z]
    OBVIOUS
  <2> HIDE DEF x, Found
  <2>3. \A q \in Players : player'[q].slots = IF q = p THEN x ELSE player[q].slots
    BY <2>1, StateTypes DEF TypeOK, PlayerAccount
  <2> QED BY <2>2, <2>3
<1>3. CASE ~(holder[h] = Account(p) /\ InSlot(player[p], h))
  <2>1. \A q \in Players, n \in Slots : player'[q].slots[n] = player[q].slots[n]
    BY <1>2, <1>3 DEF InSlot
  <2> HIDE DEF e
  <2>2. Move(p, h, "none", Nothing, "escrow", e, <<e, p>>) /\ (holder[h] = Wallet(p) => Settled(p))
    BY <1>0, <1>1, <2>1, WalletEnters
  <2> QED BY <1>1, <1>3, <2>2 DEF Enters, OwnsForExpedition, e
<1>4. CASE holder[h] = Account(p) /\ InSlot(player[p], h)
  <2> DEFINE S == {z \in Slots : player[p].slots[z] = h}
             to == <<e, p>>
  <2>1. PICK s \in S : \A z \in 1 .. s - 1 : z \notin S
    <3>1. S \in SUBSET Slots /\ S # {}
      BY <1>4 DEF InSlot
    <3> HIDE DEF S
    <3> QED BY <3>1, LeastSlot
  <2>2. s \in Slots /\ player[p].slots[s] = h /\ \A n \in Slots : Found(n) <=> n = s
    <3>1. \A z \in 1 .. s - 1 : z \in Slots
      BY HeroAssumption DEF Slots
    <3>2. s \in Slots /\ player[p].slots[s] = h /\ \A z \in 1 .. s - 1 : player[p].slots[z] # h
      BY <2>1, <3>1
    <3>3. ASSUME NEW n \in Slots, Found(n) PROVE n = s
      <4>1. ~(n \in 1 .. s - 1) /\ ~(s \in 1 .. n - 1)
        BY <3>2, <3>3
      <4> QED BY <4>1, <3>2, HeroAssumption DEF Slots
    <3> QED BY <1>4, <3>2, <3>3
  <2> HIDE DEF Found
  <2>3. \A q \in Players, n \in Slots :
           player'[q].slots[n] = IF q = p /\ n = s THEN Nothing ELSE player[q].slots[n]
    BY <1>2, <2>2
  <2>4. /\ escrow[p][e] = Nothing
        /\ holder' = [holder EXCEPT ![h] = to] /\ escrow' = [escrow EXCEPT ![p][e] = h]
    BY <1>1 DEF Enters
  <2>5. \A q \in Players, n \in Escrows : escrow'[q][n] = IF q = p /\ n = e THEN h ELSE escrow[q][n]
    BY <1>0, <2>4 DEF TypeOK
  <2>6. Home("escrow", p, e) = to /\ At("slot", p, s) = h
    BY <2>2, Spots
  <2> HIDE DEF to, e
  <2>7. \A g \in Heroes : holder'[g] = IF g = h THEN to ELSE holder[g]
    BY <2>4, HolderWritten
  <2>8. Move(p, h, "slot", s, "escrow", e, to)
    <3>1. ASSUME NEW m \in Kinds, NEW q \in Players, NEW n \in Index(m)
          PROVE  At(m, q, n)' = IF m = "slot" /\ q = p /\ n = s THEN Nothing
                                ELSE IF m = "escrow" /\ q = p /\ n = e THEN h ELSE At(m, q, n)
      BY <1>1, <2>3, <2>5, Spots, SpotsNext
    <3> QED BY <1>0, <2>2, <2>4, <2>6, <2>7, <3>1, Spots DEF Move
  <2>9. Settles(p, h, "slot", s, "escrow", e, to)
    BY <2>6, <2>8 DEF Settles
  <2> QED BY <2>9 DEF Settled
<1> QED BY <1>3, <1>4

\* A dungeon takes its hero from the wallet.
LEMMA DungeonMoves ==
  ASSUME TypeOK, NEW p \in Players, NEW h \in Heroes, dungeon_enter(p, h)
  PROVE  Settled(p)
<1> DEFINE e == "dungeon"
<1>1. /\ e \in Escrows /\ Enters(p, e, h) /\ UNCHANGED <<party, ally, player>> /\ holder[h] = Wallet(p)
  BY DEF dungeon_enter, Enters, OwnsForExpedition, Escrows
<1> HIDE DEF e
<1> QED BY <1>1, WalletEnters

-----------------------------------------------------------------------------
(* Every step keeps the heroes in order, but for two *)

\* Every step leaves a party that is not open without a hero.
LEMMA ClosedStep == TypeOK /\ ClosedNameNone /\ [Next]_vars => ClosedNameNone'
<1> SUFFICES ASSUME TypeOK, ClosedNameNone, [Next]_vars PROVE ClosedNameNone'
  OBVIOUS
<1>1. CASE UNCHANGED party
  BY <1>1 DEF ClosedNameNone
<1>2. ASSUME NEW p \in Players, NEW r \in Rallies,
             rally_join(p, r) \/ rally_cancel(p, r) \/ rally_return(p, r)
      PROVE  ClosedNameNone'
  <2>1. PICK a : /\ party' = [party EXCEPT ![p][r] = a]
                 /\ a.open \/ a.hero = Nothing
    <3>1. CASE rally_join(p, r)
      <4>1. \E g : party' = [party EXCEPT ![p][r] = [open |-> TRUE, counted |-> TRUE, hero |-> g]]
        BY <3>1 DEF rally_join
      <4> QED BY <4>1
    <3>2. CASE rally_cancel(p, r)
      <4> DEFINE a == [party[p][r] EXCEPT !.counted = FALSE]
      <4>1. a.open = party[p][r].open /\ a.hero = party[p][r].hero
        BY StateTypes DEF RallyParticipant
      <4>2. party' = [party EXCEPT ![p][r] = a]
        BY <3>2 DEF rally_cancel, TypeOK
      <4> HIDE DEF a
      <4> QED BY <4>1, <4>2 DEF ClosedNameNone
    <3>3. CASE rally_return(p, r)
      <4>1. party' = [party EXCEPT ![p][r] = NoParty] /\ NoParty.hero = Nothing
        BY <3>3 DEF rally_return, NoParty
      <4> QED BY <4>1
    <3> QED BY <1>2, <3>1, <3>2, <3>3
  <2>2. \A q \in Players, n \in Rallies : party'[q][n] = IF q = p /\ n = r THEN a ELSE party[q][n]
    BY <2>1 DEF TypeOK
  <2> QED BY <2>1, <2>2 DEF ClosedNameNone
<1>3. ASSUME NEW p \in Players, PlayerNext(p)
      PROVE  \/ UNCHANGED party
             \/ \E r \in Rallies : rally_join(p, r) \/ rally_cancel(p, r) \/ rally_return(p, r)
  BY <1>3 DEF PlayerNext, mint, burn, trade, lock, level_up, expedition_start, dungeon_enter,
              unlock, start_meditation, reinforcement_send, join_garrison, claim_meditation,
              travel, reinforcement_return, leave_garrison, garrison_cleanup, relieve_garrison,
              GarrisonReturn, expedition_end, dungeon_leave
<1> QED BY <1>1, <1>2, <1>3 DEF Next, update_supply_cap, vars

\* Levels, travel and the end of a count name no hero.
LEMMA OthersStay ==
  ASSUME TypeOK, NEW p \in Players,
         \/ \E h \in Heroes : level_up(p, h)
         \/ \E s \in Slots : start_meditation(p, s)
         \/ \E n \in 0 .. LevelCap : claim_meditation(p, n)
         \/ \E c \in Cities, read \in Readings(player[p]) : travel(p, c, read)
         \/ \E r \in Rallies : rally_cancel(p, r)
  PROVE  Stay
<1>1. UNCHANGED <<holder, ally, escrow>>
  BY DEF level_up, start_meditation, claim_meditation, travel, rally_cancel
<1>2. \A q \in Players, n \in Rallies : party'[q][n].hero = party[q][n].hero
  <2>1. ASSUME NEW r \in Rallies, rally_cancel(p, r)
        PROVE  \A q \in Players, n \in Rallies : party'[q][n].hero = party[q][n].hero
    <3> DEFINE a == [party[p][r] EXCEPT !.counted = FALSE]
    <3>1. a.hero = party[p][r].hero
      BY StateTypes DEF RallyParticipant
    <3>2. party' = [party EXCEPT ![p][r] = a]
      BY <2>1 DEF rally_cancel, TypeOK
    <3> HIDE DEF a
    <3>3. \A q \in Players, n \in Rallies : party'[q][n] = IF q = p /\ n = r THEN a ELSE party[q][n]
      BY <3>2 DEF TypeOK
    <3> QED BY <3>1, <3>3
  <2> QED BY <2>1 DEF level_up, start_meditation, claim_meditation, travel
<1>3. \A q \in Players : player'[q].slots = player[q].slots
  <2>1. ASSUME NEW b, b.slots = player[p].slots, player' = [player EXCEPT ![p] = b]
        PROVE  \A q \in Players : player'[q].slots = player[q].slots
    BY <2>1 DEF TypeOK
  <2>2. ASSUME NEW h \in Heroes, NEW l, NEW n
        PROVE  /\ Raised(player[p], h, l, n).slots = player[p].slots
               /\ [Raised(player[p], h, l, n) EXCEPT !.meditating = Nothing].slots = player[p].slots
    BY StateTypes DEF Raised, PlayerAccount
  <2>3. ASSUME NEW h \in Heroes, level_up(p, h)
        PROVE  \A q \in Players : player'[q].slots = player[q].slots
    <3>1. \/ UNCHANGED player
          \/ player' = [player EXCEPT ![p] = Raised(player[p], h, level[h], level[h] + 1)]
      BY <2>3 DEF level_up
    <3> QED BY <2>1, <2>2, <3>1
  <2>4. ASSUME NEW s \in Slots, start_meditation(p, s)
        PROVE  \A q \in Players : player'[q].slots = player[q].slots
    BY <2>4, StateTypes DEF start_meditation, TypeOK, PlayerAccount
  <2>5. ASSUME NEW n \in 0 .. LevelCap, claim_meditation(p, n)
        PROVE  \A q \in Players : player'[q].slots = player[q].slots
    <3> DEFINE h == player[p].slots[player[p].meditating]
               b == [Raised(player[p], h, level[h], level[h] + n) EXCEPT !.meditating = Nothing]
    <3>1. h \in Heroes
      BY <2>5, StateTypes, AccountFields DEF claim_meditation
    <3>2. player' = [player EXCEPT ![p] = b]
      BY <2>5 DEF claim_meditation
    <3>3. b.slots = player[p].slots
      <4> HIDE DEF h
      <4> QED BY <2>2, <3>1
    <3> HIDE DEF b
    <3> QED BY <2>1, <3>2, <3>3
  <2>6. ASSUME NEW c \in Cities, NEW read \in Readings(player[p]), travel(p, c, read)
        PROVE  \A q \in Players : player'[q].slots = player[q].slots
    <3>1. [player[p] EXCEPT !.city = c].slots = player[p].slots
      BY StateTypes DEF PlayerAccount
    <3>2. Recomputed(player[p], c, read).slots = player[p].slots
      BY RecomputedType, StateTypes
    <3>3. \/ player' = [player EXCEPT ![p] = [player[p] EXCEPT !.city = c]]
          \/ player' = [player EXCEPT ![p] = Recomputed(player[p], c, read)]
      BY <2>6 DEF travel, TypeOK
    <3> QED BY <2>1, <3>1, <3>2, <3>3
  <2>7. ASSUME NEW r \in Rallies, rally_cancel(p, r) PROVE UNCHANGED player
    BY <2>7 DEF rally_cancel
  <2> QED BY <2>3, <2>4, <2>5, <2>6, <2>7
<1>4. ASSUME NEW m \in Kinds, NEW q \in Players, NEW n \in Index(m)
      PROVE  At(m, q, n)' = At(m, q, n)
  BY <1>1, <1>2, <1>3, Spots, SpotsNext
<1> QED BY <1>1, <1>4 DEF Stay

\* The two steps after which a hero may be out of order.
Tears(p, h) ==
    /\ h \in Heroes
    /\ holder[h] = Account(p) /\ ~InSlot(player[p], h)
    /\ Move(p, h, "none", Nothing, "escrow", "expedition", <<"expedition", p>>)

Parks(p, a) ==
    /\ a \in Allies
    /\ Occupied(player[p]) = Slots
    /\ ally[p][a] \in Heroes /\ ally'[p][a] = Nothing
    /\ Move(p, ally[p][a], "ally", a, "none", Nothing, holder[ally[p][a]])

\* Every step leaves the heroes where they are, settles one, or is one of the two.
LEMMA StepSettles ==
  ASSUME TypeOK, EscrowsHold, ClosedNameNone, [Next]_vars
  PROVE  \/ Stay
         \/ \E p \in Players : Settled(p) \/ (\E h : Tears(p, h)) \/ (\E a : Parks(p, a))
<1>1. CASE UNCHANGED <<holder, player, party, ally, escrow>>
  BY <1>1 DEF Stay, At
<1>2. ASSUME NEW p \in Players, PlayerNext(p)
      PROVE  Stay \/ Settled(p) \/ (\E h : Tears(p, h)) \/ (\E a : Parks(p, a))
  <2>1. ASSUME NEW h \in Heroes, mint(p, h) \/ burn(p, h) \/ \E q \in Players : trade(p, q, h)
        PROVE  Settled(p)
    BY <2>1, TradeMoves
  <2>2. ASSUME NEW h \in Heroes, expedition_start(p, h) PROVE Settled(p) \/ Tears(p, h)
    BY <2>2, ExpeditionMoves DEF Tears
  <2>3. ASSUME NEW a \in Allies, reinforcement_return(p, a) PROVE Settled(p) \/ Parks(p, a)
    BY <2>3, AllyReturnMoves DEF Parks
  <2>4. ASSUME expedition_end(p) PROVE Settled(p)
    <3>1. /\ "expedition" \in Escrows /\ escrow[p]["expedition"] # Nothing
          /\ escrow' = [escrow EXCEPT ![p]["expedition"] = Nothing]
          /\ UNCHANGED <<player, party, ally>>
          /\ UNCHANGED holder \/ Released(p, "expedition", Wallet(p))
      BY <2>4 DEF expedition_end, Released, Escrows
    <3> QED BY <3>1, ReleaseMoves
  <2>5. ASSUME dungeon_leave(p) PROVE Settled(p)
    <3>1. /\ "dungeon" \in Escrows /\ escrow[p]["dungeon"] # Nothing
          /\ escrow' = [escrow EXCEPT ![p]["dungeon"] = Nothing]
          /\ UNCHANGED <<player, party, ally>> /\ Released(p, "dungeon", Wallet(p))
      BY <2>5 DEF dungeon_leave, Released, Escrows
    <3> QED BY <3>1, ReleaseMoves
  <2>6. ASSUME NEW s \in Slots,
               \/ unlock(p, s) \/ join_garrison(p, s)
               \/ \E h \in Heroes : lock(p, s, h)
               \/ \E a \in Allies : reinforcement_send(p, a, s)
        PROVE  Settled(p)
    BY <2>6, UnlockMoves, GarrisonMoves, LockMoves, AllySendMoves
  <2>7. ASSUME NEW r \in Rallies, rally_join(p, r) \/ rally_return(p, r) PROVE Stay \/ Settled(p)
    BY <2>7, JoinMoves, ReturnMoves
  <2>8. ASSUME NEW q \in Players, GarrisonReturn(p, q) PROVE Settled(p)
    BY <2>8, GarrisonReturnSettles
  <2> QED BY <1>2, <2>1, <2>2, <2>3, <2>4, <2>5, <2>6, <2>7, <2>8, OthersStay, DungeonMoves
          DEF PlayerNext, leave_garrison, garrison_cleanup, relieve_garrison
<1> QED BY <1>1, <1>2 DEF Next, update_supply_cap, vars

\* An expedition that tears and a return that parks concern one hero only.
LEMMA TearsOne ==
  ASSUME NEW p \in Players, NEW h, Tears(p, h), NEW g \in Heroes
  PROVE  /\ ~Parked(g) => ~Parked(g)'
         /\ OnePlace(g) /\ ~OnePlace(g)' =>
               /\ holder[g] = Account(p) /\ holder'[g] = <<"expedition", p>>
               /\ ~InSlot(player[p], g)
<1> DEFINE to == <<"expedition", p>>
<1>1. /\ h \in Heroes /\ Move(p, h, "none", Nothing, "escrow", "expedition", to)
      /\ \A q : to # Account(q)
  BY LooseAddresses DEF Tears, Escrows
<1> HIDE DEF to
<1>2. ~Parked(g) => ~Parked(g)'
  <2> SUFFICES ASSUME ~Parked(g) PROVE ~Parked(g)'
    OBVIOUS
  <2> QED BY <1>1, MoveParksNone
<1>3. Kept(g) /\ g # h => Kept(g)'
  <2> SUFFICES ASSUME Kept(g), g # h PROVE Kept(g)'
    OBVIOUS
  <2> QED BY <1>1, MoveKeeps
<1>4. holder'[h] = to
  BY <1>1 DEF Move
<1> QED BY <1>2, <1>3, <1>4, OnePlaceMeans, MeaningsNext DEF Tears, to

\* A return to full slots parks no hero but the one that came home.
LEMMA ParksOne ==
  ASSUME NEW p \in Players, NEW a, Parks(p, a), NEW g \in Heroes
  PROVE  /\ OnePlace(g) => OnePlace(g)'
         /\ ~Parked(g) /\ Parked(g)' => ally[p][a] = g
<1> DEFINE h == ally[p][a]
<1>1. h \in Heroes /\ Move(p, h, "ally", a, "none", Nothing, holder[h])
  BY DEF Parks
<1>2. ~Parked(g) /\ g # h => ~Parked(g)'
  <2> SUFFICES ASSUME ~Parked(g), g # h PROVE ~Parked(g)'
    OBVIOUS
  <2> HIDE DEF h
  <2> QED BY <1>1, MoveParksNone
<1> HIDE DEF h
<1>3. Kept(g) => Kept(g)'
  <2> SUFFICES ASSUME Kept(g) PROVE Kept(g)'
    OBVIOUS
  <2> QED BY <1>1, MoveKeeps
<1> QED BY <1>2, <1>3, OnePlaceMeans, MeaningsNext DEF h

\* Every step keeps the heroes in their places but for the two.
LEMMA PlacesStep ==
  ASSUME TypeOK, EscrowsHold, ClosedNameNone, [Next]_vars
  PROVE  OnlyExpeditionsTear /\ OnlyFullSlotsPark
<1>1. CASE Stay
  BY <1>1, StayInOrder DEF InOrder, OnlyExpeditionsTear, OnlyFullSlotsPark
<1>2. ASSUME NEW p \in Players, Settled(p) PROVE OnlyExpeditionsTear /\ OnlyFullSlotsPark
  BY <1>2, SettledInOrder DEF InOrder, OnlyExpeditionsTear, OnlyFullSlotsPark
<1>3. ASSUME NEW p \in Players, NEW h, Tears(p, h) PROVE OnlyExpeditionsTear /\ OnlyFullSlotsPark
  BY <1>3, TearsOne DEF OnlyExpeditionsTear, OnlyFullSlotsPark
<1>4. ASSUME NEW p \in Players, NEW a, Parks(p, a) PROVE OnlyExpeditionsTear /\ OnlyFullSlotsPark
  BY <1>4, ParksOne DEF Parks, OnlyExpeditionsTear, OnlyFullSlotsPark
<1> QED BY <1>1, <1>2, <1>3, <1>4, StepSettles

\* Over all instructions, by whomever they are sent and in whatever order, a hero in one
\* place stays in one place except when an expedition takes it from the account of its
\* player while no slot names it, and a hero gets lost in that account only by the
\* return of a reinforcement to full slots.
THEOREM PlacesStay == Spec => PlacesKept
<1>1. Init => ClosedNameNone
  BY DEF Init, NoParty, ClosedNameNone
<1>2. Spec => []ClosedNameNone
  BY <1>1, ClosedStep, TypeCorrect, PTL DEF Spec
<1>3. TypeOK /\ EscrowsHold /\ ClosedNameNone /\ [Next]_vars
        => OnlyExpeditionsTear /\ OnlyFullSlotsPark
  BY PlacesStep
<1> QED BY <1>2, <1>3, TypeCorrect, EscrowsCorrect, PTL DEF Spec, PlacesKept

-----------------------------------------------------------------------------
(* Buffs *)

\* A growth without a bonus is brought as it is.
LEMMA WholeQuotient ==
  ASSUME NEW g \in Nat, NEW n \in Nat \ {0}
  PROVE  (g * n) \div n = g
OBVIOUS

\* Without a bonus a hero brings its growth, up to the end of the u16.
LEMMA WorthAway ==
  ASSUME NEW h \in Heroes, NEW l \in Levels
  PROVE  Worth(h, l, 0) = IF Growth[Template[h]][l] > BuffMax THEN BuffMax
                          ELSE Growth[Template[h]][l]
<1> DEFINE g == Growth[Template[h]][l]
<1>1. g \in Nat
  BY HeroAssumption
<1>2. Scale + 0 = Scale /\ Scale \in Nat \ {0}
  BY HeroAssumption
<1>3. (g * (Scale + 0)) \div Scale = g
  <2> HIDE DEF g
  <2> QED BY <1>1, <1>2, WholeQuotient
<1> QED BY <1>3 DEF Worth, WorthAs

\* What the heroes in the slots sl bring with bonuses bo at levels lv.
Bring(sl, bo, lv) ==
    [s \in Slots |-> IF sl[s] = Nothing THEN 0 ELSE Worth(sl[s], lv[sl[s]], bo[s])]

Total(sl, bo, lv) == SumOver(Bring(sl, bo, lv), Slots)

\* No slot brings more than the u16 holds, or more than all slots together.
LEMMA BringType ==
  ASSUME NEW sl \in [Slots -> Heroes \cup {Nothing}], NEW bo \in [Slots -> Nat],
         NEW lv \in [Heroes -> Levels]
  PROVE  /\ \A s \in Slots : Bring(sl, bo, lv)[s] \in 0 .. BuffMax
         /\ Total(sl, bo, lv) \in Nat
         /\ \A s \in Slots : Bring(sl, bo, lv)[s] <= Total(sl, bo, lv)
<1> DEFINE f == Bring(sl, bo, lv)
<1>1. ASSUME NEW s \in Slots PROVE f[s] \in 0 .. BuffMax
  <2>1. CASE sl[s] = Nothing
    BY <2>1, HeroAssumption DEF Bring
  <2>2. CASE sl[s] # Nothing
    <3>1. sl[s] \in Heroes /\ lv[sl[s]] \in Levels /\ bo[s] \in Nat
      BY <2>2
    <3>2. f[s] = Worth(sl[s], lv[sl[s]], bo[s])
      BY <2>2 DEF Bring
    <3> QED BY <3>1, <3>2, WorthType
  <2> QED BY <2>1, <2>2
<1> HIDE DEF f
<1>2. \A s \in Slots : f[s] \in Nat
  BY <1>1
<1>3. SumOver(f, Slots) \in Nat /\ \A s \in Slots : f[s] <= SumOver(f, Slots)
  BY <1>2, SumNat, SumMember, SlotsFinite
<1> QED BY <1>1, <1>3 DEF f, Total

\* The sum follows the one slot that changes.
LEMMA TotalChange ==
  ASSUME NEW sl \in [Slots -> Heroes \cup {Nothing}], NEW bo \in [Slots -> Nat],
         NEW lv \in [Heroes -> Levels],
         NEW sm \in [Slots -> Heroes \cup {Nothing}], NEW bn \in [Slots -> Nat],
         NEW lw \in [Heroes -> Levels],
         NEW y \in Slots,
         \A s \in Slots \ {y} : Bring(sm, bn, lw)[s] = Bring(sl, bo, lv)[s]
  PROVE  Total(sm, bn, lw) = Total(sl, bo, lv) - Bring(sl, bo, lv)[y] + Bring(sm, bn, lw)[y]
<1> DEFINE f == Bring(sl, bo, lv)
           g == Bring(sm, bn, lw)
<1>1. \A s \in Slots : f[s] \in Int /\ g[s] \in Int
  <2>1. \A s \in Slots : f[s] \in 0 .. BuffMax /\ g[s] \in 0 .. BuffMax
    BY BringType
  <2> HIDE DEF f, g
  <2> QED BY <2>1, HeroAssumption
<1>2. \A s \in Slots \ {y} : g[s] = f[s]
  OBVIOUS
<1> HIDE DEF f, g
<1>3. SumOver(g, Slots) = SumOver(f, Slots) - f[y] + g[y]
  BY <1>1, <1>2, SumChange, SlotsFinite
<1> QED BY <1>3 DEF f, g, Total

\* The sum stays where no slot brings more or less.
LEMMA TotalSame ==
  ASSUME NEW sl, NEW bo, NEW lv, NEW sm, NEW bn, NEW lw,
         \A s \in Slots : Bring(sm, bn, lw)[s] = Bring(sl, bo, lv)[s]
  PROVE  Total(sm, bn, lw) = Total(sl, bo, lv)
<1> DEFINE f == Bring(sl, bo, lv)
           g == Bring(sm, bn, lw)
<1>1. \A s \in Slots : g[s] = f[s]
  OBVIOUS
<1> HIDE DEF f, g
<1>2. SumOver(g, Slots) = SumOver(f, Slots)
  BY <1>1, SumAgree, SlotsFinite
<1> QED BY <1>2 DEF f, g, Total

\* An account is in sync when its buffs are this total, before and after a step.
LEMMA SyncMeans ==
  ASSUME NEW p
  PROVE  /\ InSync(p) <=> player[p].buffs = Total(player[p].slots, player[p].bonus, level)
         /\ InSync(p)' <=> player'[p].buffs = Total(player'[p].slots, player'[p].bonus, level')
BY DEF InSync, Brought, SlotWorth, Total, Bring

\* The fields of an account before and after a step.
LEMMA SyncTypes ==
  ASSUME TypeOK, TypeOK', NEW p \in Players
  PROVE  /\ player[p] \in PlayerAccount /\ player'[p] \in PlayerAccount
         /\ player[p].slots \in [Slots -> Heroes \cup {Nothing}]
         /\ player'[p].slots \in [Slots -> Heroes \cup {Nothing}]
         /\ player[p].bonus \in [Slots -> Nat] /\ player'[p].bonus \in [Slots -> Nat]
         /\ player[p].buffs \in 0 .. BuffMax /\ player'[p].buffs \in 0 .. BuffMax
         /\ level \in [Heroes -> Levels] /\ level' \in [Heroes -> Levels]
<1>1. player[p] \in PlayerAccount /\ player'[p] \in PlayerAccount
  BY DEF TypeOK
<1> QED BY <1>1, AccountFields DEF TypeOK

\* An account whose slots, bonuses and buffs stay, and whose heroes keep their levels,
\* stays in line.
LEMMA SyncSame ==
  ASSUME NEW p, InSync(p), level' = level, player'[p].slots = player[p].slots,
         player'[p].bonus = player[p].bonus, player'[p].buffs = player[p].buffs
  PROVE  InSync(p)'
BY SyncMeans

\* A hero that enters a free slot brings what it is worth, up to the end of the u16.
LEMMA SyncSeated ==
  ASSUME TypeOK, TypeOK', NEW p \in Players, NEW s \in Slots, NEW h \in Heroes,
         player[p].slots[s] = Nothing, player'[p] = Seated(player[p], s, h), level' = level,
         InSync(p)
  PROVE  InSync(p)' \/ player'[p].buffs = BuffMax
<1> DEFINE sl == player[p].slots
           bo == player[p].bonus
           sm == player'[p].slots
           bn == player'[p].bonus
           w == Worth(h, level[h], Bonus(h, player[p].city))
<1>1. /\ sl \in [Slots -> Heroes \cup {Nothing}] /\ sm \in [Slots -> Heroes \cup {Nothing}]
      /\ bo \in [Slots -> Nat] /\ bn \in [Slots -> Nat]
      /\ level \in [Heroes -> Levels] /\ player[p] \in PlayerAccount
      /\ player[p].buffs \in 0 .. BuffMax
  BY SyncTypes
<1>2. /\ \A z \in Slots : /\ sm[z] = IF z = s THEN h ELSE sl[z]
                          /\ bn[z] = IF z = s THEN Bonus(h, player[p].city) ELSE bo[z]
      /\ player'[p].buffs = Plus(player[p].buffs, w)
  BY <1>1, SeatedFields
<1> HIDE DEF sl, bo, sm, bn
<1>3. /\ Bring(sl, bo, level)[s] = 0 /\ Bring(sm, bn, level)[s] = w
      /\ \A z \in Slots \ {s} : Bring(sm, bn, level)[z] = Bring(sl, bo, level)[z]
  <2>1. sl[s] = Nothing /\ sm[s] = h /\ bn[s] = Bonus(h, player[p].city) /\ h # Nothing
    BY <1>2, HeroAssumption DEF sl
  <2> QED BY <1>2, <2>1 DEF Bring
<1>4. w \in 0 .. BuffMax
  BY <1>1, BonusType, WorthType
<1> HIDE DEF w
<1>5. Total(sm, bn, level) = Total(sl, bo, level) - 0 + w
  BY <1>1, <1>3, TotalChange
<1>6. player[p].buffs = Total(sl, bo, level)
  BY SyncMeans DEF sl, bo
<1>7. player'[p].buffs = Total(sm, bn, level) \/ player'[p].buffs = BuffMax
  BY <1>1, <1>2, <1>4, <1>5, <1>6, HeroAssumption DEF Plus
<1> QED BY <1>7, SyncMeans DEF sm, bn

\* A hero that leaves a slot takes with it what it brought.
LEMMA SyncUnseated ==
  ASSUME TypeOK, TypeOK', NEW p \in Players, NEW s \in Slots, player[p].slots[s] # Nothing,
         player'[p] = Unseated(player[p], s), level' = level, InSync(p)
  PROVE  InSync(p)'
<1> DEFINE sl == player[p].slots
           bo == player[p].bonus
           sm == player'[p].slots
           bn == player'[p].bonus
           w == Worth(sl[s], level[sl[s]], bo[s])
<1>1. /\ sl \in [Slots -> Heroes \cup {Nothing}] /\ sm \in [Slots -> Heroes \cup {Nothing}]
      /\ bo \in [Slots -> Nat] /\ bn \in [Slots -> Nat]
      /\ level \in [Heroes -> Levels] /\ player[p] \in PlayerAccount
      /\ player[p].buffs \in 0 .. BuffMax
  BY SyncTypes
<1>2. /\ \A z \in Slots : /\ sm[z] = IF z = s THEN Nothing ELSE sl[z]
                          /\ bn[z] = IF z = s THEN 0 ELSE bo[z]
      /\ player'[p].buffs = Minus(player[p].buffs, w)
  BY <1>1, UnseatedFields
<1>0. sl[s] # Nothing
  OBVIOUS
<1> HIDE DEF sl, bo, sm, bn
<1>3. /\ Bring(sl, bo, level)[s] = w /\ Bring(sm, bn, level)[s] = 0
      /\ \A z \in Slots \ {s} : Bring(sm, bn, level)[z] = Bring(sl, bo, level)[z]
  BY <1>0, <1>2 DEF Bring
<1> HIDE DEF w
<1>4. w \in 0 .. BuffMax /\ w <= Total(sl, bo, level)
  BY <1>1, <1>3, BringType
<1>5. Total(sm, bn, level) = Total(sl, bo, level) - w + 0
  BY <1>1, <1>3, TotalChange
<1>6. player[p].buffs = Total(sl, bo, level)
  BY SyncMeans DEF sl, bo
<1>7. player'[p].buffs = Total(sm, bn, level)
  BY <1>1, <1>2, <1>4, <1>5, <1>6, HeroAssumption DEF Minus
<1> QED BY <1>7, SyncMeans DEF sm, bn

\* A hero named by two slots, or held by a wallet while a slot names it, is not in one place.
LEMMA TwoPlaces ==
  ASSUME NEW p \in Players, NEW q \in Players, NEW s \in Slots, NEW z \in Slots, NEW h \in Heroes,
         player[p].slots[s] = h,
         \/ player[q].slots[z] = h /\ (p # q \/ s # z)
         \/ holder[h] = Wallet(q)
  PROVE  ~OnePlace(h)
<1> SUFFICES ASSUME Kept(h) PROVE FALSE
  BY OnePlaceMeans
<1>1. At("slot", p, s) = h /\ "slot" \in Kinds /\ s \in Index("slot") /\ z \in Index("slot")
  BY Spots
<1>2. CASE player[q].slots[z] = h /\ (p # q \/ s # z)
  <2>1. At("slot", q, z) = h
    BY <1>2, Spots
  <2>2. q = p /\ z = s
    BY <1>1, <2>1 DEF Kept
  <2> QED BY <1>2, <2>2
<1>3. CASE holder[h] = Wallet(q)
  <2>1. holder[h] = Home("slot", p, s)
    BY <1>1 DEF Kept
  <2>2. Home("slot", p, s) = Account(p)
    BY Spots
  <2>3. Wallet(q) # Account(p)
    BY LooseAddresses
  <2> QED BY <1>3, <2>1, <2>2, <2>3
<1> QED BY <1>2, <1>3

\* A slot whose hero gained a level that the buffs may not follow.
Drifts(p) ==
    \E s \in Slots :
        /\ player[p].slots[s] # Nothing
        /\ level'[player[p].slots[s]] # level[player[p].slots[s]]
        /\ player[p].bonus[s] > 0 \/ ~OnePlace(player[p].slots[s])

\* A level gained away from home, by a hero of one slot, raises the buffs by what that
\* slot brings more, up to the end of the u16.
LEMMA SyncRaised ==
  ASSUME TypeOK, TypeOK', NEW p \in Players, NEW h \in Heroes, NEW s \in Slots, NEW n \in Levels,
         level[h] <= n, \A g \in Heroes : level'[g] = IF g = h THEN n ELSE level[g],
         player[p].slots[s] = h, player[p].bonus[s] = 0,
         \A z \in Slots \ {s} : player[p].slots[z] # h,
         player'[p].slots = player[p].slots, player'[p].bonus = player[p].bonus,
         player'[p].buffs = Raised(player[p], h, level[h], n).buffs,
         InSync(p)
  PROVE  InSync(p)' \/ player'[p].buffs = BuffMax
<1> DEFINE sl == player[p].slots
           bo == player[p].bonus
           g == Growth[Template[h]][level[h]]
           k == Growth[Template[h]][n]
           d == k - g
           x == player[p].buffs
           v == Bring(sl, bo, level)[s]
           w == Bring(sl, bo, level')[s]
<1>1. /\ sl \in [Slots -> Heroes \cup {Nothing}] /\ bo \in [Slots -> Nat]
      /\ level \in [Heroes -> Levels] /\ level' \in [Heroes -> Levels]
      /\ player[p] \in PlayerAccount /\ x \in 0 .. BuffMax /\ level[h] \in Levels
  BY SyncTypes
<1>2. g \in Nat /\ k \in Nat /\ g <= k
  BY <1>1, HeroAssumption
<1>3. player'[p].buffs = Plus(x, IF d > BuffMax THEN BuffMax ELSE d)
  <2>1. Raised(player[p], h, level[h], n)
          = [player[p] EXCEPT !.buffs = Plus(x, IF d > BuffMax THEN BuffMax ELSE d)]
    BY <1>1, RaisedFields
  <2> QED BY <1>1, <2>1 DEF PlayerAccount
<1>4. h # Nothing /\ level'[h] = n /\ sl[s] = h /\ bo[s] = 0
  BY HeroAssumption
<1>5. /\ v = IF g > BuffMax THEN BuffMax ELSE g
      /\ w = IF k > BuffMax THEN BuffMax ELSE k
  <2> HIDE DEF sl, bo
  <2>1. v = Worth(h, level[h], 0) /\ w = Worth(h, n, 0)
    BY <1>4 DEF Bring
  <2> QED BY <1>1, <2>1, WorthAway
<1>6. \A z \in Slots \ {s} : Bring(sl, bo, level')[z] = Bring(sl, bo, level)[z]
  <2> SUFFICES ASSUME NEW z \in Slots \ {s}
               PROVE  Bring(sl, bo, level')[z] = Bring(sl, bo, level)[z]
    OBVIOUS
  <2>1. sl[z] = Nothing \/ (sl[z] \in Heroes /\ sl[z] # h)
    BY <1>1
  <2>2. sl[z] = Nothing \/ level'[sl[z]] = level[sl[z]]
    BY <2>1
  <2> HIDE DEF sl, bo
  <2> QED BY <2>2 DEF Bring
<1> HIDE DEF sl, bo, v, w, g, k, x
<1>7. Total(sl, bo, level') = Total(sl, bo, level) - v + w
  BY <1>1, <1>6, TotalChange DEF v, w
<1>8. x = Total(sl, bo, level) /\ v <= x
  BY <1>1, BringType, SyncMeans DEF sl, bo, x, v
<1>9. player'[p].buffs = Total(sl, bo, level') \/ player'[p].buffs = BuffMax
  <2> DEFINE t == Total(sl, bo, level')
             b == player'[p].buffs
  <2>1. /\ g \in Nat /\ k \in Nat /\ g <= k /\ x \in Nat /\ BuffMax \in Nat /\ x <= BuffMax
        /\ v = (IF g > BuffMax THEN BuffMax ELSE g) /\ w = (IF k > BuffMax THEN BuffMax ELSE k)
        /\ t = x - v + w /\ v <= x
        /\ b = Plus(x, IF k - g > BuffMax THEN BuffMax ELSE k - g)
    BY <1>1, <1>2, <1>3, <1>5, <1>7, <1>8, HeroAssumption
  <2> HIDE DEF t, b
  <2>2. b = t \/ b = BuffMax
    BY <2>1 DEF Plus
  <2> QED BY <2>2 DEF t, b
<1> QED BY <1>9, SyncMeans DEF sl, bo

\* A level gained by a hero of other slots disturbs no sum.
LEMMA SyncElsewhere ==
  ASSUME TypeOK, TypeOK', NEW p \in Players, NEW h \in Heroes, NEW n \in Levels,
         \A g \in Heroes : level'[g] = IF g = h THEN n ELSE level[g],
         \A s \in Slots : player[p].slots[s] = h => level[h] = n,
         player'[p].slots = player[p].slots, player'[p].bonus = player[p].bonus,
         player'[p].buffs = player[p].buffs,
         InSync(p)
  PROVE  InSync(p)'
<1> DEFINE sl == player[p].slots
           bo == player[p].bonus
<1>1. sl \in [Slots -> Heroes \cup {Nothing}]
  BY SyncTypes
<1>2. ASSUME NEW z \in Slots PROVE Bring(sl, bo, level')[z] = Bring(sl, bo, level)[z]
  <2>1. sl[z] = Nothing \/ level'[sl[z]] = level[sl[z]]
    BY <1>1
  <2> HIDE DEF sl, bo
  <2> QED BY <2>1 DEF Bring
<1> HIDE DEF sl, bo
<1>3. Total(sl, bo, level') = Total(sl, bo, level)
  BY <1>2, TotalSame
<1> QED BY <1>3, SyncMeans DEF sl, bo

\* Of the player whose hero gains a level the buffs follow, or the slot is one that drifts.
LEMMA SyncLevel ==
  ASSUME TypeOK, TypeOK', NEW p \in Players, NEW h \in Heroes, NEW s \in Slots, NEW n \in Levels,
         level[h] <= n, \A g \in Heroes : level'[g] = IF g = h THEN n ELSE level[g],
         player[p].slots[s] = h,
         player'[p].slots = player[p].slots, player'[p].bonus = player[p].bonus,
         player'[p].buffs = Raised(player[p], h, level[h], n).buffs,
         InSync(p)
  PROVE  InSync(p)' \/ Drifts(p) \/ player'[p].buffs = BuffMax
<1>0. /\ player[p] \in PlayerAccount /\ player[p].bonus \in [Slots -> Nat]
      /\ player[p].buffs \in 0 .. BuffMax /\ level[h] \in Levels
  BY SyncTypes
<1>1. CASE level[h] = n
  <2>1. Growth[Template[h]][n] \in Nat
    BY HeroAssumption
  <2>2. player'[p].buffs = player[p].buffs
    <3> DEFINE d == Growth[Template[h]][n] - Growth[Template[h]][level[h]]
    <3>1. d = 0
      BY <1>1, <2>1
    <3>2. Raised(player[p], h, level[h], n)
            = [player[p] EXCEPT !.buffs = Plus(player[p].buffs, IF d > BuffMax THEN BuffMax ELSE d)]
      BY <1>0, RaisedFields
    <3> HIDE DEF d
    <3>3. player'[p].buffs = Plus(player[p].buffs, IF d > BuffMax THEN BuffMax ELSE d)
      BY <1>0, <3>2 DEF PlayerAccount
    <3> QED BY <1>0, <3>1, <3>3, HeroAssumption DEF Plus
  <2> QED BY <1>1, <2>2, SyncElsewhere
<1>2. CASE level[h] # n
  <2>1. level'[h] # level[h] /\ h # Nothing
    BY <1>2, HeroAssumption
  <2>2. CASE player[p].bonus[s] > 0
    BY <2>1, <2>2 DEF Drifts
  <2>3. ASSUME NEW z \in Slots \ {s}, player[p].slots[z] = h PROVE Drifts(p)
    BY <2>1, <2>3, TwoPlaces DEF Drifts
  <2>4. CASE player[p].bonus[s] = 0 /\ \A z \in Slots \ {s} : player[p].slots[z] # h
    BY <2>4, SyncRaised
  <2> QED BY <1>0, <2>2, <2>3, <2>4
<1> QED BY <1>1, <1>2

\* What gets the buffs of p out of step.
Excused(p) ==
    \/ ally'[p] # ally[p]
    \/ /\ escrow'[p]["expedition"] # escrow[p]["expedition"]
       /\ player'[p].slots # player[p].slots
    \/ ReadsAnother(p)
    \/ Drifts(p)
    \/ player'[p].buffs = BuffMax

\* A step that writes the account of one player.
LEMMA OneWritten ==
  ASSUME TypeOK, NEW p \in Players, NEW b, player' = [player EXCEPT ![p] = b]
  PROVE  player'[p] = b /\ \A q \in Players \ {p} : player'[q] = player[q]
BY DEF TypeOK

\* The hero of a slot leaves, for the wallet, a rally or a garrison.
LEMMA LeavingInSync ==
  ASSUME TypeOK, TypeOK', NEW p \in Players, NEW q \in Players, InSync(q), NEW s \in Slots,
         player[p].slots[s] # Nothing, player' = [player EXCEPT ![p] = Unseated(player[p], s)],
         level' = level
  PROVE  InSync(q)'
<1> DEFINE b == Unseated(player[p], s)
<1>1. player' = [player EXCEPT ![p] = b]
  OBVIOUS
<1>2. player'[p] = b /\ \A y \in Players \ {p} : player'[y] = player[y]
  <2> HIDE DEF b
  <2> QED BY <1>1, OneWritten
<1>3. CASE q = p
  BY <1>2, <1>3, SyncUnseated
<1>4. CASE q # p
  <2>1. player'[q] = player[q]
    BY <1>2, <1>4
  <2> QED BY <2>1, SyncSame
<1> QED BY <1>3, <1>4

\* A hero takes a free slot, from the wallet, a rally or a garrison.
LEMMA ComingInSync ==
  ASSUME TypeOK, TypeOK', NEW p \in Players, NEW q \in Players, InSync(q), NEW s \in Slots,
         NEW h \in Heroes, player[p].slots[s] = Nothing,
         player' = [player EXCEPT ![p] = Seated(player[p], s, h)], level' = level
  PROVE  InSync(q)' \/ Excused(q)
<1> DEFINE b == Seated(player[p], s, h)
<1>1. player' = [player EXCEPT ![p] = b]
  OBVIOUS
<1>2. player'[p] = b /\ \A y \in Players \ {p} : player'[y] = player[y]
  <2> HIDE DEF b
  <2> QED BY <1>1, OneWritten
<1>3. CASE q = p
  <2>1. InSync(p)' \/ player'[p].buffs = BuffMax
    BY <1>2, <1>3, SyncSeated
  <2> QED BY <1>3, <2>1 DEF Excused
<1>4. CASE q # p
  <2>1. player'[q] = player[q]
    BY <1>2, <1>4
  <2> QED BY <2>1, SyncSame
<1> QED BY <1>3, <1>4

\* lock, unlock and the ways to a rally or a garrison and back keep the buffs in line.
LEMMA MovesInSync ==
  ASSUME TypeOK, TypeOK', NEW p \in Players, NEW q \in Players, InSync(q),
         \/ \E h \in Heroes, s \in Slots : lock(p, s, h)
         \/ \E s \in Slots : unlock(p, s) \/ join_garrison(p, s)
         \/ \E r \in Rallies : rally_join(p, r) \/ rally_return(p, r)
         \/ \E y \in Players : GarrisonReturn(p, y)
  PROVE  InSync(q)' \/ Excused(q)
<1>0. UNCHANGED level
  BY DEF lock, unlock, join_garrison, rally_join, rally_return, GarrisonReturn
<1>1. ASSUME NEW s \in Slots, NEW h \in Heroes, lock(p, s, h)
      PROVE  InSync(q)' \/ Excused(q)
  BY <1>0, <1>1, ComingInSync DEF lock
<1>2. ASSUME NEW s \in Slots, unlock(p, s) \/ join_garrison(p, s) PROVE InSync(q)'
  BY <1>0, <1>2, LeavingInSync DEF unlock, join_garrison
<1>3. ASSUME UNCHANGED player PROVE InSync(q)'
  BY <1>0, <1>3, SyncSame
<1>4. ASSUME NEW r \in Rallies, rally_join(p, r) PROVE InSync(q)' \/ Excused(q)
  <2>1. CASE UNCHANGED player
    BY <1>3, <2>1
  <2>2. ASSUME NEW s \in Slots, player[p].slots[s] # Nothing,
               NEW t \in Bears[Template[player[p].slots[s]]],
               player' = [player EXCEPT ![p] = UnseatedAs(player[p], s, t)]
        PROVE  InSync(q)' \/ Excused(q)
    <3> DEFINE h == player[p].slots[s]
               b == UnseatedAs(player[p], s, t)
    <3>1. CASE t = Template[h]
      BY <1>0, <2>2, <3>1, LeavingInSync DEF Unseated
    <3>2. player'[p] = b /\ \A y \in Players \ {p} : player'[y] = player[y]
      <4>1. player' = [player EXCEPT ![p] = b]
        BY <2>2
      <4> HIDE DEF b
      <4> QED BY <4>1, OneWritten
    <3>3. CASE q # p
      BY <1>0, <3>2, <3>3, SyncSame
    <3>4. CASE q = p /\ t # Template[h]
      <4>1. ~party[p][r].open /\ party'[p][r] # party[p][r]
        <5> DEFINE e == [open |-> TRUE, counted |-> TRUE, hero |-> Nothing]
                   f == [open |-> TRUE, counted |-> TRUE, hero |-> h]
        <5>0. ~party[p][r].open
          BY <1>4 DEF rally_join
        <5>1. ASSUME NEW z, z.open = TRUE, party' = [party EXCEPT ![p][r] = z]
              PROVE  party'[p][r] # party[p][r]
          BY <5>0, <5>1 DEF TypeOK
        <5>2. \E z : z.open = TRUE /\ party' = [party EXCEPT ![p][r] = z]
          BY <1>4 DEF rally_join
        <5> QED BY <5>0, <5>1, <5>2
      <4>2. h \in Heroes /\ h # Nothing /\ t \in Accounts
        <5>1. h \in Heroes /\ h # Nothing
          BY <2>2, StateTypes
        <5> QED BY <2>2, <5>1, BearsType
      <4>3. ReadsAnother(p)
        BY <3>2, <3>4, <4>1, <4>2 DEF ReadsAnother
      <4> QED BY <3>4, <4>3 DEF Excused
    <3> QED BY <3>1, <3>3, <3>4
  <2> QED BY <1>4, <2>1, <2>2 DEF rally_join, Occupied
<1>5. ASSUME NEW s \in FirstFree(player[p]), NEW h \in Heroes,
             player' = [player EXCEPT ![p] = Seated(player[p], s, h)]
      PROVE  InSync(q)' \/ Excused(q)
  BY <1>0, <1>5, ComingInSync DEF FirstFree
<1>6. ASSUME NEW r \in Rallies, rally_return(p, r) PROVE InSync(q)' \/ Excused(q)
  <2> DEFINE h == party[p][r].hero
  <2>1. CASE h = Nothing
    BY <1>3, <1>6, <2>1 DEF rally_return
  <2>2. CASE h # Nothing
    <3>1. h \in Heroes /\ RestoreHero(p, h)
      BY <1>6, <2>2, StateTypes DEF rally_return
    <3>2. ASSUME NEW s \in FirstFree(player[p]), NEW t \in Bears[Template[h]],
                 player' = [player EXCEPT ![p] = SeatedAs(player[p], s, h, t)]
          PROVE  InSync(q)' \/ Excused(q)
      <4> DEFINE b == SeatedAs(player[p], s, h, t)
      <4>1. CASE t = Template[h]
        <5> HIDE DEF h
        <5> QED BY <1>5, <3>1, <3>2, <4>1 DEF Seated
      <4>2. player'[p] = b /\ \A y \in Players \ {p} : player'[y] = player[y]
        <5>1. player' = [player EXCEPT ![p] = b]
          BY <3>2
        <5> HIDE DEF b
        <5> QED BY <5>1, OneWritten
      <4>3. CASE q # p
        BY <1>0, <4>2, <4>3, SyncSame
      <4>4. CASE q = p /\ t # Template[h]
        <5>1. party[p][r].open /\ party'[p][r] # party[p][r]
          BY <1>6 DEF rally_return, NoParty, TypeOK
        <5>2. s \in Slots /\ t \in Accounts
          BY <3>1, <3>2, BearsType DEF FirstFree
        <5>3. ReadsAnother(p)
          BY <2>2, <4>2, <4>4, <5>1, <5>2 DEF ReadsAnother
        <5> QED BY <4>4, <5>3 DEF Excused
      <4> QED BY <4>1, <4>3, <4>4
    <3> HIDE DEF h
    <3> QED BY <1>3, <3>1, <3>2 DEF RestoreHero
  <2> QED BY <2>1, <2>2
<1>7. ASSUME NEW y \in Players, GarrisonReturn(p, y) PROVE InSync(q)' \/ Excused(q)
  <2> DEFINE h == escrow[p]["garrison"]
  <2>1. /\ h \in Heroes
        /\ \/ UNCHANGED player
           \/ \E s \in FirstFree(player[p]) :
                 player' = [player EXCEPT ![p] = Seated(player[p], s, h)]
    BY <1>7, StateTypes DEF GarrisonReturn, Released, Escrows
  <2> HIDE DEF h
  <2> QED BY <1>3, <1>5, <2>1
<1> QED BY <1>1, <1>2, <1>4, <1>6, <1>7

\* An arrival that names every hero and its template leaves the buffs in line.
LEMMA ArrivedInSync ==
  ASSUME TypeOK, TypeOK', NEW p \in Players, NEW c \in Cities, level' = level,
         player'[p] = Recomputed(player[p], c, TrueReading(player[p]))
  PROVE  InSync(p)' \/ player'[p].buffs = BuffMax
<1> DEFINE read == TrueReading(player[p])
           sl == player[p].slots
           bo == [s \in Slots |-> IF s \in DOMAIN read THEN BonusAs(sl[s], read[s], c) ELSE 0]
           w == [s \in Slots |-> IF s \in DOMAIN read
                                 THEN WorthAs(read[s], level[sl[s]], bo[s]) ELSE 0]
<1>1. /\ player[p] \in PlayerAccount /\ player'[p].bonus \in [Slots -> Nat]
      /\ sl \in [Slots -> Heroes \cup {Nothing}] /\ level \in [Heroes -> Levels]
  BY SyncTypes
<1>2. player'[p].slots = sl /\ player'[p].bonus = bo /\ player'[p].buffs = Plus(0, SumOver(w, Slots))
  BY <1>1 DEF Recomputed, PlayerAccount, Cleared
<1>3. \A s \in Slots : w[s] = Bring(sl, bo, level)[s]
  <2> SUFFICES ASSUME NEW s \in Slots PROVE w[s] = Bring(sl, bo, level)[s]
    OBVIOUS
  <2> HIDE DEF bo
  <2>1. CASE sl[s] = Nothing
    BY <2>1 DEF Bring, TrueReading, Occupied
  <2>2. CASE sl[s] # Nothing
    BY <2>2 DEF Bring, TrueReading, Occupied, Worth
  <2> QED BY <2>1, <2>2
<1>4. SumOver(w, Slots) = Total(sl, bo, level)
  <2> DEFINE g == Bring(sl, bo, level)
  <2>1. \A s \in Slots : w[s] = g[s]
    BY <1>3
  <2> HIDE DEF w, g
  <2>2. SumOver(w, Slots) = SumOver(g, Slots)
    BY <2>1, SumAgree, SlotsFinite
  <2> QED BY <2>2 DEF g, Total
<1>5. bo \in [Slots -> Nat]
  BY <1>1, <1>2
<1> HIDE DEF read, sl, bo, w
<1>6. Total(sl, bo, level) \in Nat
  BY <1>1, <1>5, BringType
<1>7. player'[p].buffs = Total(sl, bo, level) \/ player'[p].buffs = BuffMax
  BY <1>2, <1>4, <1>6 DEF Plus
<1> QED BY <1>2, <1>7, SyncMeans

\* Reinforcements, expeditions and travel may part the buffs from the slots of the one
\* player they concern.
LEMMA JourneysExcused ==
  ASSUME TypeOK, TypeOK', NEW p \in Players, NEW q \in Players, InSync(q),
         \/ \E s \in Slots, a \in Allies : reinforcement_send(p, a, s)
         \/ \E a \in Allies : reinforcement_return(p, a)
         \/ \E h \in Heroes : expedition_start(p, h)
         \/ \E c \in Cities, read \in Readings(player[p]) : travel(p, c, read)
         \/ \E s \in Slots : start_meditation(p, s)
  PROVE  InSync(q)' \/ Excused(q)
<1>0. UNCHANGED level
  BY DEF reinforcement_send, reinforcement_return, expedition_start, travel, start_meditation
<1>1. CASE q # p
  <2>1. player'[q] = player[q]
    BY <1>1 DEF TypeOK, reinforcement_send, reinforcement_return, expedition_start, travel,
                start_meditation
  <2> QED BY <1>0, <2>1, SyncSame
<1>2. CASE q = p
  <2>1. ASSUME NEW s \in Slots, NEW a \in Allies, reinforcement_send(p, a, s) PROVE Excused(p)
    <3>1. ally[p][a] = Nothing /\ ally'[p][a] # Nothing
      BY <2>1 DEF reinforcement_send, TypeOK
    <3> QED BY <3>1 DEF Excused
  <2>2. ASSUME NEW a \in Allies, reinforcement_return(p, a) PROVE Excused(p)
    <3>1. ally[p][a] # Nothing /\ ally'[p][a] = Nothing
      BY <2>2 DEF reinforcement_return, TypeOK
    <3> QED BY <3>1 DEF Excused
  <2>3. ASSUME NEW h \in Heroes, expedition_start(p, h) PROVE InSync(p)' \/ Excused(p)
    <3>1. escrow[p]["expedition"] = Nothing /\ escrow'[p]["expedition"] # Nothing
      BY <2>3, HeroAssumption DEF expedition_start, TypeOK, Escrows
    <3>2. player'[p].bonus = player[p].bonus /\ player'[p].buffs = player[p].buffs
      <4>1. player[p] \in PlayerAccount /\ player \in [Players -> PlayerAccount]
        BY StateTypes DEF TypeOK
      <4>2. \E z : player' = [player EXCEPT ![p].slots = z]
        BY <2>3 DEF expedition_start
      <4>3. \E z : player'[p] = [player[p] EXCEPT !.slots = z]
        BY <4>1, <4>2
      <4> QED BY <4>1, <4>3 DEF PlayerAccount
    <3>3. CASE player'[p].slots = player[p].slots
      BY <1>0, <1>2, <3>2, <3>3, SyncSame
    <3> QED BY <3>1, <3>3 DEF Excused
  <2>4. ASSUME NEW c \in Cities, NEW read \in Readings(player[p]), travel(p, c, read)
        PROVE  InSync(p)' \/ Excused(p)
    <3>1. CASE read # TrueReading(player[p])
      BY <2>4, <3>1 DEF ReadsAnother, Excused
    <3>2. CASE read = TrueReading(player[p])
      <4>1. \/ player' = [player EXCEPT ![p] = [player[p] EXCEPT !.city = c]]
            \/ player' = [player EXCEPT ![p] = Recomputed(player[p], c, read)]
        BY <2>4 DEF travel, TypeOK
      <4>2. CASE player'[p] = [player[p] EXCEPT !.city = c]
        <5>1. /\ player'[p].slots = player[p].slots /\ player'[p].bonus = player[p].bonus
              /\ player'[p].buffs = player[p].buffs
          BY <4>2, SyncTypes DEF PlayerAccount
        <5> QED BY <1>0, <1>2, <5>1, SyncSame
      <4>3. CASE player'[p] = Recomputed(player[p], c, read)
        BY <1>0, <3>2, <4>3, ArrivedInSync DEF Excused
      <4> QED BY <4>1, <4>2, <4>3, OneWritten
    <3> QED BY <3>1, <3>2
  <2>5. ASSUME NEW s \in Slots, start_meditation(p, s) PROVE InSync(p)'
    <3>1. /\ player'[p].slots = player[p].slots /\ player'[p].bonus = player[p].bonus
          /\ player'[p].buffs = player[p].buffs
      <4>1. player[p] \in PlayerAccount /\ player \in [Players -> PlayerAccount]
        BY StateTypes DEF TypeOK
      <4>2. player' = [player EXCEPT ![p].meditating = s]
        BY <2>5 DEF start_meditation
      <4>3. player'[p] = [player[p] EXCEPT !.meditating = s]
        BY <4>1, <4>2
      <4> QED BY <4>1, <4>3 DEF PlayerAccount
    <3> QED BY <1>0, <1>2, <3>1, SyncSame
  <2> QED BY <1>2, <2>1, <2>2, <2>3, <2>4, <2>5
<1> QED BY <1>1, <1>2

\* A gain of levels of a hero that the account of p names, or its wallet holds.
LEMMA GainInSync ==
  ASSUME TypeOK, TypeOK', NEW p \in Players, NEW q \in Players, InSync(q),
         NEW h \in Heroes, NEW n \in Levels, level[h] <= n,
         \A g \in Heroes : level'[g] = IF g = h THEN n ELSE level[g],
         InSlot(player[p], h) \/ (holder[h] = Wallet(p) /\ UNCHANGED player),
         \A y \in Players \ {p} : player'[y] = player[y],
         InSlot(player[p], h) =>
            /\ player'[p].slots = player[p].slots /\ player'[p].bonus = player[p].bonus
            /\ player'[p].buffs = Raised(player[p], h, level[h], n).buffs
  PROVE  InSync(q)' \/ Excused(q)
<1>1. ASSUME q = p, InSlot(player[p], h) PROVE InSync(q)' \/ Excused(q)
  <2>1. PICK s \in Slots : player[p].slots[s] = h
    BY <1>1 DEF InSlot
  <2>2. InSync(p)' \/ Drifts(p) \/ player'[p].buffs = BuffMax
    BY <1>1, <2>1, SyncLevel
  <2> QED BY <1>1, <2>2 DEF Excused
<1>2. ASSUME q # p \/ ~InSlot(player[p], h) PROVE InSync(q)' \/ Excused(q)
  <2>1. player'[q] = player[q]
    BY <1>2
  <2>2. CASE \A s \in Slots : player[q].slots[s] = h => level[h] = n
    BY <2>1, <2>2, SyncElsewhere
  <2>3. ASSUME NEW s \in Slots, player[q].slots[s] = h, level[h] # n PROVE Excused(q)
    <3>1. h # Nothing /\ level'[h] # level[h]
      BY <2>3, HeroAssumption
    <3>2. CASE InSlot(player[p], h)
      <4>1. PICK z \in Slots : player[p].slots[z] = h
        BY <3>2 DEF InSlot
      <4>2. q # p
        BY <1>2, <3>2
      <4>3. ~OnePlace(h)
        BY <2>3, <4>1, <4>2, TwoPlaces
      <4> QED BY <2>3, <3>1, <4>3 DEF Excused, Drifts
    <3>3. CASE holder[h] = Wallet(p)
      <4>1. ~OnePlace(h)
        BY <2>3, <3>3, TwoPlaces
      <4> QED BY <2>3, <3>1, <4>1 DEF Excused, Drifts
    <3> QED BY <3>2, <3>3
  <2> QED BY <2>2, <2>3
<1> QED BY <1>1, <1>2

\* level_up and claim_meditation keep the buffs in line away from home.
LEMMA LevelsInSync ==
  ASSUME TypeOK, TypeOK', NEW p \in Players, NEW q \in Players, InSync(q),
         \/ \E h \in Heroes : level_up(p, h)
         \/ \E n \in 0 .. LevelCap : claim_meditation(p, n)
  PROVE  InSync(q)' \/ Excused(q)
<1>0. player[p] \in PlayerAccount /\ level \in [Heroes -> Levels] /\ level' \in [Heroes -> Levels]
  BY SyncTypes
<1>1. ASSUME NEW h \in Heroes, level_up(p, h) PROVE InSync(q)' \/ Excused(q)
  <2> DEFINE n == level[h] + 1
             b == Raised(player[p], h, level[h], n)
  <2>1. n \in Levels /\ level[h] <= n
    BY <1>0, <1>1, HeroAssumption DEF level_up, Levels
  <2>2. \A g \in Heroes : level'[g] = IF g = h THEN n ELSE level[g]
    BY <1>0, <1>1 DEF level_up
  <2>3. b.slots = player[p].slots /\ b.bonus = player[p].bonus
    BY <1>0 DEF Raised, PlayerAccount
  <2>4. /\ InSlot(player[p], h) \/ (holder[h] = Wallet(p) /\ UNCHANGED player)
        /\ InSlot(player[p], h) => player' = [player EXCEPT ![p] = b]
        /\ ~InSlot(player[p], h) => UNCHANGED player
    BY <1>1 DEF level_up
  <2> HIDE DEF b
  <2>5. /\ InSlot(player[p], h) => player'[p] = b
        /\ \A y \in Players \ {p} : player'[y] = player[y]
    BY <2>4, OneWritten
  <2>6. InSlot(player[p], h) =>
            /\ player'[p].slots = player[p].slots /\ player'[p].bonus = player[p].bonus
            /\ player'[p].buffs = Raised(player[p], h, level[h], n).buffs
    BY <2>3, <2>5 DEF b
  <2> HIDE DEF n
  <2> QED BY <2>1, <2>2, <2>4, <2>5, <2>6, GainInSync
<1>2. ASSUME NEW m \in 0 .. LevelCap, claim_meditation(p, m) PROVE InSync(q)' \/ Excused(q)
  <2> DEFINE s == player[p].meditating
             h == player[p].slots[s]
             n == level[h] + m
             b == [Raised(player[p], h, level[h], n) EXCEPT !.meditating = Nothing]
  <2>1. s \in Slots /\ h \in Heroes /\ InSlot(player[p], h)
    <3>1. s # Nothing /\ h # Nothing
      BY <1>2 DEF claim_meditation
    <3>2. s \in Slots \cup {Nothing} /\ player[p].slots \in [Slots -> Heroes \cup {Nothing}]
      BY <1>0, AccountFields
    <3> HIDE DEF s
    <3> QED BY <3>1, <3>2 DEF InSlot
  <2>2. \A g \in Heroes : level'[g] = IF g = h THEN n ELSE level[g]
    BY <1>0, <1>2 DEF claim_meditation
  <2>3. player' = [player EXCEPT ![p] = b]
    BY <1>2 DEF claim_meditation
  <2> HIDE DEF s, h
  <2>4. n \in Levels /\ level[h] <= n
    BY <1>0, <2>1, <2>2, HeroAssumption DEF Levels
  <2>5. /\ b.slots = player[p].slots /\ b.bonus = player[p].bonus
        /\ b.buffs = Raised(player[p], h, level[h], n).buffs
    BY <1>0 DEF Raised, PlayerAccount
  <2> HIDE DEF b
  <2>6. player'[p] = b /\ \A y \in Players \ {p} : player'[y] = player[y]
    BY <2>3, OneWritten
  <2>7. /\ player'[p].slots = player[p].slots /\ player'[p].bonus = player[p].bonus
        /\ player'[p].buffs = Raised(player[p], h, level[h], n).buffs
    BY <2>5, <2>6
  <2> HIDE DEF n
  <2> QED BY <2>1, <2>2, <2>4, <2>6, <2>7, GainInSync
<1> QED BY <1>1, <1>2

\* No step of anybody parts the buffs of a player from the slots without an excuse.
LEMMA BuffsStep ==
  ASSUME TypeOK, TypeOK', [Next]_vars, NEW q \in Players, InSync(q)
  PROVE  InSync(q)' \/ Excused(q)
<1>1. CASE UNCHANGED <<player, level>>
  BY <1>1, SyncSame
<1>2. ASSUME NEW p \in Players, PlayerNext(p) PROVE InSync(q)' \/ Excused(q)
  <2>1. \/ UNCHANGED <<player, level>>
        \/ \E h \in Heroes, s \in Slots : lock(p, s, h)
        \/ \E s \in Slots : unlock(p, s) \/ join_garrison(p, s)
        \/ \E r \in Rallies : rally_join(p, r) \/ rally_return(p, r)
        \/ \E y \in Players : GarrisonReturn(p, y)
        \/ \E s \in Slots, a \in Allies : reinforcement_send(p, a, s)
        \/ \E a \in Allies : reinforcement_return(p, a)
        \/ \E h \in Heroes : expedition_start(p, h)
        \/ \E c \in Cities, read \in Readings(player[p]) : travel(p, c, read)
        \/ \E s \in Slots : start_meditation(p, s)
        \/ \E h \in Heroes : level_up(p, h)
        \/ \E n \in 0 .. LevelCap : claim_meditation(p, n)
    BY <1>2 DEF PlayerNext, mint, burn, trade, rally_cancel, dungeon_enter, dungeon_leave,
                expedition_end, leave_garrison, garrison_cleanup, relieve_garrison
  <2> QED BY <1>1, <2>1, MovesInSync, JourneysExcused, LevelsInSync
<1> QED BY <1>1, <1>2 DEF Next, update_supply_cap, vars

\* Over all instructions the cached buffs stay the sum of what the heroes in the slots
\* brought, but for reinforcements, an expedition out of a slot, an instruction that reads
\* another account for a template or arrives without a hero, a level gained at home or by
\* a hero that is not in one place, and the end of the u16.
THEOREM BuffsSync == Spec => BuffsStayInSync
<1>1. TypeOK /\ TypeOK' /\ [Next]_vars =>
        \A p \in Players :
          InSync(p) /\ ~InSync(p)' =>
             \/ ally'[p] # ally[p]
             \/ /\ escrow'[p]["expedition"] # escrow[p]["expedition"]
                /\ player'[p].slots # player[p].slots
             \/ ReadsAnother(p)
             \/ \E s \in Slots :
                   /\ player[p].slots[s] # Nothing
                   /\ level'[player[p].slots[s]] # level[player[p].slots[s]]
                   /\ player[p].bonus[s] > 0 \/ ~OnePlace(player[p].slots[s])
             \/ player'[p].buffs = BuffMax
  BY BuffsStep DEF Excused, Drifts
<1> QED BY <1>1, TypeCorrect, PTL DEF Spec, BuffsStayInSync

=============================================================================

------------------------- MODULE ReinforcementProofs -------------------------
(* Theorems about Reinforcement, for every value of its constants. *)
EXTENDS Reinforcement, SumsProofs

-----------------------------------------------------------------------------
(* Arithmetic and armies *)

\* A floored quotient of natural numbers is one, and no larger than the quotient.
LEMMA QuotientBound ==
  ASSUME NEW m \in Nat, NEW n \in Nat, n > 0
  PROVE  m \div n \in Nat /\ (m \div n) * n <= m
<1>1. m \div n \in Int
  OBVIOUS
<1>2. m \div n >= 0
  OBVIOUS
<1>3. (m \div n) * n <= m
  OBVIOUS
<1> QED BY <1>1, <1>2, <1>3

\* A saturating difference of natural numbers is one, and no larger than its minuend.
LEMMA SatSubType ==
  ASSUME NEW m \in Nat, NEW n \in Nat
  PROVE  SatSub(m, n) \in Nat /\ SatSub(m, n) <= m
BY DEF SatSub

\* The constants are finite sets.
LEMMA FiniteConstants == IsFiniteSet(Players) /\ IsFiniteSet(Tiers) /\ IsFiniteSet(Pairs)
<1>1. IsFiniteSet(Players \X Players)
  BY ReinforcementAssumption, FS_Product
<1>2. Pairs \subseteq Players \X Players
  BY ReinforcementAssumption
<1> QED BY <1>1, <1>2, FS_Subset, ReinforcementAssumption

\* The two players of a pair are players.
LEMMA PairType ==
  ASSUME NEW pair \in Pairs
  PROVE  pair[1] \in Players /\ pair[2] \in Players
BY ReinforcementAssumption

\* The size of an army is a natural number.
LEMMA TotalNat ==
  ASSUME NEW army \in Army
  PROVE  Total(army) \in Nat
BY FiniteConstants, SumNat DEF Total, Army

\* Armies may be added and, with saturation, subtracted; nobody is an army.
LEMMA ArmyTypes ==
  ASSUME NEW x \in Army, NEW y \in Army
  PROVE  Plus(x, y) \in Army /\ Minus(x, y) \in Army /\ NoUnits \in Army
BY SatSubType DEF Army, Plus, Minus, NoUnits

\* The sizes of two armies add up.
LEMMA TotalPlus ==
  ASSUME NEW x \in Army, NEW y \in Army
  PROVE  Total(Plus(x, y)) = Total(x) + Total(y)
<1>1. /\ IsFiniteSet(Tiers)
      /\ \A t \in Tiers : x[t] \in Int /\ y[t] \in Int
  BY FiniteConstants DEF Army
<1>2. \A t \in Tiers : Plus(x, y)[t] = x[t] + y[t]
  BY DEF Plus
<1>3. SumOver(Plus(x, y), Tiers) = SumOver(x, Tiers) + SumOver(y, Tiers)
  BY <1>1, <1>2, SumAdd
<1> QED BY <1>3 DEF Total

-----------------------------------------------------------------------------
(* Type correctness *)

\* An address without an account holds a well formed nothing.
LEMMA NoAccountType == NoAccount \in ReinforcementAccount
BY DEF NoAccount, ReinforcementAccount, NoUnits, Army

\* The accounts, aggregates and armies of the state are well formed.
LEMMA StateTypes ==
  ASSUME TypeOK, NEW pair \in Pairs, NEW p \in Players
  PROVE  /\ now \in Nat /\ now > 0
         /\ account[pair] \in ReinforcementAccount
         /\ account[pair].units \in Army /\ account[pair].wounded \in Army
         /\ account[pair].journey \in Nat /\ account[pair].arrives_at \in Nat
         /\ account[pair].return_started_at \in Nat
         /\ account[pair].return_duration \in Nat
         /\ account[pair].return_started_at <= now
         /\ account[pair].status = "None" => account[pair] = NoAccount
         /\ units[p] \in Army /\ wounded[p] \in Army /\ gems[p] \in Nat
         /\ allies[p] \in Aggregate
         /\ allies[p].left \in Army /\ allies[p].original \in Nat
         /\ allies[p].source_count \in Nat
<1>1. account[pair] \in ReinforcementAccount /\ allies[p] \in Aggregate
  BY DEF TypeOK
<1>2. now \in Nat /\ now > 0
  BY ReinforcementAssumption DEF TypeOK
<1>3. /\ account[pair].units \in Army /\ account[pair].wounded \in Army
      /\ account[pair].journey \in Nat /\ account[pair].arrives_at \in Nat
      /\ account[pair].return_started_at \in Nat
      /\ account[pair].return_duration \in Nat
  BY <1>1 DEF ReinforcementAccount
<1>4. /\ allies[p].left \in Army /\ allies[p].original \in Nat
      /\ allies[p].source_count \in Nat
  BY <1>1 DEF Aggregate
<1>5. units[p] \in Army /\ wounded[p] \in Army /\ gems[p] \in Nat
  BY DEF TypeOK
<1>6. /\ account[pair].return_started_at <= now
      /\ account[pair].status = "None" => account[pair] = NoAccount
  BY DEF TypeOK
<1> QED BY <1>1, <1>2, <1>3, <1>4, <1>5, <1>6

\* A step of one account keeps the types if the new account is well formed.
LEMMA AccountStep ==
  ASSUME TypeOK, NEW pair \in Pairs, NEW a \in ReinforcementAccount,
         a.return_started_at <= now, a.status = "None" => a = NoAccount,
         now' = now, account' = [account EXCEPT ![pair] = a],
         units' \in [Players -> Army], allies' \in [Players -> Aggregate],
         wounded' \in [Players -> Army], gems' \in [Players -> Nat],
         sends' \in 0 .. MaxSends, battles' \in 0 .. MaxBattles
  PROVE  TypeOK'
<1>1. account' \in [Pairs -> ReinforcementAccount]
  BY DEF TypeOK
<1>2. ASSUME NEW other \in Pairs
      PROVE  /\ account'[other].status = "None" => account'[other] = NoAccount
             /\ account'[other].return_started_at <= now'
  <2>1. account'[other] = IF other = pair THEN a ELSE account[other]
    BY DEF TypeOK
  <2> QED BY <2>1 DEF TypeOK
<1>3. NoAccount' = NoAccount
  BY DEF NoAccount, NoUnits
<1> QED BY <1>1, <1>2, <1>3 DEF TypeOK

\* An account that starts for home is well formed.
LEMMA TurnRoundType ==
  ASSUME TypeOK, NEW a \in ReinforcementAccount, NEW army \in Army, NEW hurt \in Army
  PROVE  /\ TurnRound(a, army, hurt) \in ReinforcementAccount
         /\ TurnRound(a, army, hurt).status = "Returning"
         /\ TurnRound(a, army, hurt).units = army
         /\ TurnRound(a, army, hurt).return_started_at <= now
<1>1. now \in Nat /\ a.journey \in Nat
  BY ReinforcementAssumption DEF TypeOK, ReinforcementAccount
<1> DEFINE d == a.journey
           b == [a EXCEPT !.status = "Returning", !.units = army, !.wounded = hurt,
                          !.return_started_at = now, !.return_duration = d]
<1>2. TurnRound(a, army, hurt) = b
  BY DEF TurnRound
<1>3. b \in ReinforcementAccount
  <2> HIDE DEF d
  <2> QED BY <1>1 DEF ReinforcementAccount, d
<1>4. b.status = "Returning" /\ b.units = army /\ b.return_started_at = now
  BY DEF ReinforcementAccount
<1> QED BY <1>1, <1>2, <1>3, <1>4

\* The survival ratio, the share of an army and the aggregate without it are
\* well formed.
LEMMA ShareTypes ==
  ASSUME TypeOK, NEW pair \in Pairs
  PROVE  /\ SurvivalRatio(pair[2]) \in Nat
         /\ Share(pair) \in Army
         /\ TakeOut(pair) \in Aggregate
<1> DEFINE d == pair[2]
<1>1. d \in Players
  BY PairType
<1>2. /\ allies[d].left \in Army /\ allies[d].original \in Nat
      /\ allies[d].source_count \in Nat /\ account[pair].units \in Army
  BY <1>1, StateTypes
<1>3. Total(allies[d].left) \in Nat /\ Total(account[pair].units) \in Nat
  BY <1>2, TotalNat
<1>4. SurvivalRatio(d) \in Nat
  <2>1. CASE allies[d].original > 0
    <3>1. Total(allies[d].left) * BASIS_POINTS \in Nat
      BY <1>3 DEF BASIS_POINTS
    <3>2. (Total(allies[d].left) * BASIS_POINTS) \div allies[d].original \in Nat
      BY <3>1, <1>2, <2>1, QuotientBound
    <3> QED BY <2>1, <3>2 DEF SurvivalRatio
  <2>2. CASE ~(allies[d].original > 0)
    BY <2>2 DEF SurvivalRatio, BASIS_POINTS
  <2> QED BY <2>1, <2>2
<1>5. Share(pair) \in Army
  <2>1. ASSUME NEW t \in Tiers
        PROVE  (account[pair].units[t] * SurvivalRatio(d)) \div BASIS_POINTS \in Nat
    <3>1. account[pair].units[t] \in Nat
      BY <1>2 DEF Army
    <3>2. account[pair].units[t] * SurvivalRatio(d) \in Nat
      BY <3>1, <1>4, ProductNat
    <3> QED BY <3>2, QuotientBound DEF BASIS_POINTS
  <2> QED BY <2>1 DEF Share, Army
<1>6. TakeOut(pair) \in Aggregate
  <2>1. Minus(allies[d].left, Share(pair)) \in Army
    BY <1>2, <1>5, ArmyTypes
  <2>2. /\ SatSub(allies[d].original, Total(account[pair].units)) \in Nat
        /\ SatSub(allies[d].source_count, 1) \in Nat
    BY <1>2, <1>3, SatSubType
  <2> QED BY <2>1, <2>2 DEF TakeOut, Aggregate
<1> QED BY <1>4, <1>5, <1>6

\* The program starts well typed.
LEMMA InitType == Init => TypeOK
BY ReinforcementAssumption, NoAccountType
   DEF Init, TypeOK, NoAccount, NoUnits, Army, Aggregate

\* The passing of time keeps the types.
LEMMA TickType == TypeOK /\ Tick => TypeOK'
<1> SUFFICES ASSUME TypeOK, Tick PROVE TypeOK'
  OBVIOUS
<1>1. now' \in 1 .. MaxTime /\ now' = now + 1 /\ now \in Nat
  BY ReinforcementAssumption DEF Tick, TypeOK
<1>2. ASSUME NEW pair \in Pairs
      PROVE  /\ account'[pair].status = "None" => account'[pair] = NoAccount
             /\ account'[pair].return_started_at <= now'
  <2>1. /\ account[pair].return_started_at \in Nat
        /\ account[pair].return_started_at <= now
        /\ account[pair].status = "None" => account[pair] = NoAccount
    BY ReinforcementAssumption DEF TypeOK, ReinforcementAccount
  <2>2. account' = account
    BY DEF Tick
  <2> QED BY <1>1, <2>1, <2>2
<1>3. NoAccount' = NoAccount
  BY DEF NoAccount, NoUnits
<1> QED BY <1>1, <1>2, <1>3 DEF Tick, TypeOK

\* send keeps the types.
LEMMA SendType ==
  ASSUME TypeOK, NEW pair \in Pairs, NEW army \in Army, NEW journey \in JourneyTimes,
         Send(pair, army, journey)
  PROVE  TypeOK'
<1> DEFINE u == now + journey
           a == [NoAccount EXCEPT !.status = "Traveling", !.units = army,
                                  !.journey = journey, !.arrives_at = u]
<1>1. journey \in Nat /\ now \in Nat /\ u \in Nat
  BY ReinforcementAssumption DEF TypeOK
<1>2. /\ a \in ReinforcementAccount /\ a.status = "Traveling"
      /\ a.return_started_at = 0
  <2> HIDE DEF u
  <2> QED BY <1>1, NoAccountType DEF ReinforcementAccount, NoAccount
<1>3. units' \in [Players -> Army]
  <2>1. pair[1] \in Players
    BY PairType
  <2>2. Minus(units[pair[1]], army) \in Army
    BY <2>1, ArmyTypes DEF TypeOK
  <2>3. units' = [units EXCEPT ![pair[1]] = Minus(units[pair[1]], army)]
    BY DEF Send
  <2> QED BY <2>2, <2>3 DEF TypeOK
<1>4. sends' \in 0 .. MaxSends
  BY ReinforcementAssumption DEF Send, TypeOK
<1>5. /\ now' = now /\ account' = [account EXCEPT ![pair] = a]
      /\ allies' \in [Players -> Aggregate] /\ wounded' \in [Players -> Army]
      /\ gems' \in [Players -> Nat] /\ battles' \in 0 .. MaxBattles
  BY DEF Send, TypeOK
<1>6. a.return_started_at <= now /\ a.status # "None"
  <2> HIDE DEF a
  <2> QED BY <1>1, <1>2
<1> HIDE DEF a
<1> QED BY <1>2, <1>3, <1>4, <1>5, <1>6, AccountStep

\* process_arrival keeps the types.
LEMMA ProcessArrivalType ==
  ASSUME TypeOK, NEW pair \in Pairs, ProcessArrival(pair)
  PROVE  TypeOK'
<1> DEFINE d == pair[2]
           a == [account[pair] EXCEPT !.status = "Active"]
           agg == [left |-> Plus(allies[d].left, account[pair].units),
                   original |-> allies[d].original + Total(account[pair].units),
                   source_count |-> allies[d].source_count + 1]
<1>1. d \in Players
  BY PairType
<1>2. /\ account[pair] \in ReinforcementAccount /\ account[pair].units \in Army
      /\ account[pair].return_started_at <= now
      /\ allies[d].left \in Army /\ allies[d].original \in Nat
      /\ allies[d].source_count \in Nat
  BY <1>1, StateTypes
<1>3. /\ a \in ReinforcementAccount /\ a.status = "Active"
      /\ a.return_started_at <= now
  BY <1>2 DEF ReinforcementAccount
<1>4. agg \in Aggregate
  BY <1>2, ArmyTypes, TotalNat DEF Aggregate
<1>5. allies' \in [Players -> Aggregate]
  <2>1. allies' = [allies EXCEPT ![d] = agg]
    BY DEF ProcessArrival
  <2> HIDE DEF agg
  <2> QED BY <1>4, <2>1 DEF TypeOK
<1>6. account' = [account EXCEPT ![pair] = a]
  BY DEF ProcessArrival
<1>7. /\ now' = now /\ units' \in [Players -> Army] /\ wounded' \in [Players -> Army]
      /\ gems' \in [Players -> Nat] /\ sends' \in 0 .. MaxSends
      /\ battles' \in 0 .. MaxBattles
  BY DEF ProcessArrival, TypeOK
<1> HIDE DEF a
<1> QED BY <1>3, <1>5, <1>6, <1>7, AccountStep

\* What a defender keeps of a tier is a natural number, and no more than is left.
LEMMA OwnShareBound ==
  ASSUME NEW own \in Nat, NEW allied \in Nat, NEW left \in Nat
  PROVE  OwnShare(own, allied, left) \in Nat /\ OwnShare(own, allied, left) <= left
<1> DEFINE sum == own + allied
           ratio == (own * BASIS_POINTS) \div sum
           part == (left * ratio) \div BASIS_POINTS
<1>1. CASE sum = 0
  BY <1>1 DEF OwnShare
<1>2. CASE sum # 0
  <2>1. sum \in Nat /\ sum > 0 /\ own <= sum
    BY <1>2
  <2>2. own * BASIS_POINTS \in Nat /\ BASIS_POINTS \in Nat /\ BASIS_POINTS > 0
    BY DEF BASIS_POINTS
  <2> HIDE DEF sum
  <2>3. ratio \in Nat /\ ratio * sum <= own * BASIS_POINTS
    BY <2>1, <2>2, QuotientBound
  <2>4. ratio <= BASIS_POINTS
    <3> SUFFICES ASSUME ratio > BASIS_POINTS PROVE FALSE
      BY <2>2, <2>3
    <3> HIDE DEF ratio
    <3>1. (BASIS_POINTS + 1) * sum <= ratio * sum
      BY <2>1, <2>2, <2>3
    <3>2. own * BASIS_POINTS <= sum * BASIS_POINTS
      BY <2>1, <2>2 DEF BASIS_POINTS
    <3> QED BY <3>1, <3>2, <2>1, <2>2, <2>3 DEF BASIS_POINTS
  <2>5. left * ratio \in Nat
    BY <2>3, ProductNat
  <2>6. part \in Nat /\ part * BASIS_POINTS <= left * ratio
    <3> HIDE DEF ratio
    <3> QED BY <2>5, <2>2, QuotientBound
  <2>7. left * ratio <= left * BASIS_POINTS
    <3> HIDE DEF ratio
    <3> QED BY <2>2, <2>3, <2>4
  <2>8. part <= left
    <3> HIDE DEF part, ratio
    <3> QED BY <2>2, <2>5, <2>6, <2>7 DEF BASIS_POINTS
  <2>9. OwnShare(own, allied, left) = part
    BY <1>2 DEF OwnShare, sum
  <2> QED BY <2>6, <2>8, <2>9
<1> QED BY <1>1, <1>2

\* An attack on a defender with allies keeps the types.
LEMMA DefendType ==
  ASSUME TypeOK, NEW d \in Players, NEW left \in Army, Defend(d, left)
  PROVE  TypeOK'
<1> DEFINE own == [t \in Tiers |-> OwnShare(units[d][t], allies[d].left[t], left[t])]
<1>1. units[d] \in Army /\ allies[d] \in Aggregate /\ allies[d].left \in Army
  BY DEF TypeOK, Aggregate
<1>2. own \in Army
  BY <1>1, OwnShareBound DEF Army
<1>3. /\ units' = [units EXCEPT ![d] = own]
      /\ allies' = [allies EXCEPT ![d].left = Minus(left, own)]
      /\ wounded' = IF d \in Infirmary
                    THEN [wounded EXCEPT ![d] = Plus(@, Minus(units[d], own))] ELSE wounded
  BY DEF Defend
<1>4. /\ Minus(left, own) \in Army /\ Plus(wounded[d], Minus(units[d], own)) \in Army
  <2>1. wounded[d] \in Army
    BY DEF TypeOK
  <2> HIDE DEF own
  <2> QED BY <1>1, <1>2, <2>1, ArmyTypes
<1>5. battles' \in 0 .. MaxBattles
  BY ReinforcementAssumption DEF Defend, TypeOK
<1>6. UNCHANGED <<now, account, gems, sends>>
  BY DEF Defend
<1> HIDE DEF own
<1>7. units' \in [Players -> Army]
  BY <1>2, <1>3 DEF TypeOK
<1>8. allies' \in [Players -> Aggregate]
  BY <1>1, <1>3, <1>4 DEF TypeOK, Aggregate
<1>9. wounded' \in [Players -> Army]
  BY <1>3, <1>4 DEF TypeOK
<1>10. NoAccount' = NoAccount
  BY DEF NoAccount, NoUnits
<1> QED BY <1>5, <1>6, <1>7, <1>8, <1>9, <1>10 DEF TypeOK

\* recall keeps the types when the army is on the road.
LEMMA RecallTravelingType ==
  ASSUME TypeOK, NEW pair \in Pairs, RecallTraveling(pair)
  PROVE  TypeOK'
<1> DEFINE a == TurnRound(account[pair], account[pair].units, account[pair].wounded)
<1>1. /\ account[pair] \in ReinforcementAccount
      /\ account[pair].units \in Army /\ account[pair].wounded \in Army
  BY DEF TypeOK, ReinforcementAccount
<1>2. a \in ReinforcementAccount /\ a.status = "Returning" /\ a.return_started_at <= now
  BY <1>1, TurnRoundType
<1>3. account' = [account EXCEPT ![pair] = a]
  BY DEF RecallTraveling
<1>4. UNCHANGED <<now, units, allies, wounded, gems, sends, battles>>
  BY DEF RecallTraveling
<1> HIDE DEF a
<1> QED BY <1>2, <1>3, <1>4, AccountStep DEF TypeOK

\* recall and relieve keep the types when the army is at its destination.
LEMMA TakenHomeType ==
  ASSUME TypeOK, NEW pair \in Pairs, NEW hurt \in Army,
         account' = [account EXCEPT ![pair] = TurnRound(account[pair], Share(pair), hurt)],
         allies' = [allies EXCEPT ![pair[2]] = TakeOut(pair)],
         UNCHANGED <<now, units, wounded, gems, sends, battles>>
  PROVE  TypeOK'
<1> DEFINE a == TurnRound(account[pair], Share(pair), hurt)
<1>1. account[pair] \in ReinforcementAccount
  BY DEF TypeOK
<1>2. Share(pair) \in Army /\ TakeOut(pair) \in Aggregate
  BY ShareTypes
<1>3. a \in ReinforcementAccount /\ a.status = "Returning" /\ a.return_started_at <= now
  BY <1>1, <1>2, TurnRoundType
<1>4. allies' \in [Players -> Aggregate]
  BY <1>2 DEF TypeOK
<1> HIDE DEF a
<1>5. account' = [account EXCEPT ![pair] = a]
  BY DEF a
<1> QED BY <1>3, <1>4, <1>5, AccountStep DEF TypeOK

\* recall keeps the types when the army is at its destination.
LEMMA RecallActiveType ==
  ASSUME TypeOK, NEW pair \in Pairs, RecallActive(pair)
  PROVE  TypeOK'
<1> DEFINE hurt == Minus(account[pair].units, Share(pair))
<1>1. account[pair].units \in Army
  BY DEF TypeOK, ReinforcementAccount
<1>2. hurt \in Army
  BY <1>1, ShareTypes, ArmyTypes
<1>3. /\ account' = [account EXCEPT ![pair] = TurnRound(account[pair], Share(pair), hurt)]
      /\ allies' = [allies EXCEPT ![pair[2]] = TakeOut(pair)]
      /\ UNCHANGED <<now, units, wounded, gems, sends, battles>>
  BY DEF RecallActive
<1> HIDE DEF hurt
<1> QED BY <1>2, <1>3, TakenHomeType

\* relieve keeps the types.
LEMMA RelieveType ==
  ASSUME TypeOK, NEW pair \in Pairs, Relieve(pair)
  PROVE  TypeOK'
<1>1. account[pair].wounded \in Army
  BY DEF TypeOK, ReinforcementAccount
<1>2. /\ account' = [account EXCEPT ![pair] =
                        TurnRound(account[pair], Share(pair), account[pair].wounded)]
      /\ allies' = [allies EXCEPT ![pair[2]] = TakeOut(pair)]
      /\ UNCHANGED <<now, units, wounded, gems, sends, battles>>
  BY DEF Relieve
<1> QED BY <1>1, <1>2, TakenHomeType

\* process_return keeps the types.
LEMMA ProcessReturnType ==
  ASSUME TypeOK, NEW pair \in Pairs, NEW estate \in EstateAccounts,
         ProcessReturn(pair, estate)
  PROVE  TypeOK'
<1> DEFINE s == pair[1]
<1>1. s \in Players
  BY PairType
<1>2. /\ account[pair].units \in Army /\ account[pair].wounded \in Army
      /\ units[s] \in Army /\ wounded[s] \in Army
  BY <1>1, StateTypes
<1>3. /\ Plus(units[s], account[pair].units) \in Army
      /\ Plus(wounded[s], account[pair].wounded) \in Army
  BY <1>2, ArmyTypes
<1>4. units' \in [Players -> Army] /\ wounded' \in [Players -> Army]
  BY <1>3 DEF ProcessReturn, TypeOK
<1>5. NoAccount.return_started_at <= now
  BY ReinforcementAssumption DEF NoAccount, TypeOK
<1>6. /\ account' = [account EXCEPT ![pair] = NoAccount]
      /\ UNCHANGED <<now, allies, gems, sends, battles>>
  BY DEF ProcessReturn, Closed
<1> QED BY <1>4, <1>5, <1>6, NoAccountType, AccountStep DEF TypeOK

\* What a speedup leaves of a journey is a natural number, and so is the purse.
LEMMA SpeedupTypes ==
  ASSUME TypeOK, NEW p \in Players, NEW tier \in SpeedupTiers, NEW remaining \in Nat,
         Pay(p, remaining, tier)
  PROVE  RemainingAfter(remaining, tier) \in Nat /\ gems' \in [Players -> Nat]
<1>1. tier \in Nat /\ 2 * tier \in Nat /\ 2 * tier > 0
  BY DEF SpeedupTiers
<1>2. RemainingAfter(remaining, tier) \in Nat
  BY <1>1, QuotientBound DEF RemainingAfter
<1>3. remaining * tier \in Nat /\ gems[p] \in Nat
  BY <1>1, ProductNat DEF TypeOK
<1> DEFINE cost == remaining * tier
<1>4. gems[p] - cost \in Nat
  BY <1>3 DEF Pay
<1>5. gems' = [gems EXCEPT ![p] = gems[p] - cost]
  BY DEF Pay
<1> HIDE DEF cost
<1>6. gems' \in [Players -> Nat]
  BY <1>4, <1>5 DEF TypeOK
<1> QED BY <1>2, <1>6

\* The speedup of an army on its way to the destination keeps the types.
LEMMA SpeedupTravelingType ==
  ASSUME TypeOK, NEW pair \in Pairs, NEW tier \in SpeedupTiers,
         SpeedupTraveling(pair, tier)
  PROVE  TypeOK'
<1> DEFINE remaining == account[pair].arrives_at - now
           u == now + RemainingAfter(remaining, tier)
           a == [account[pair] EXCEPT !.arrives_at = u]
<1>1. /\ account[pair] \in ReinforcementAccount /\ pair[1] \in Players
      /\ account[pair].arrives_at \in Nat /\ now \in Nat
      /\ account[pair].return_started_at <= now
      /\ account[pair].status = "Traveling"
  BY PairType, StateTypes DEF SpeedupTraveling
<1>2. remaining \in Nat /\ Pay(pair[1], remaining, tier)
  BY <1>1 DEF SpeedupTraveling, Reached
<1>3. RemainingAfter(remaining, tier) \in Nat /\ gems' \in [Players -> Nat]
  <2> HIDE DEF remaining
  <2> QED BY <1>1, <1>2, SpeedupTypes
<1>4. u \in Nat
  BY <1>1, <1>3
<1>5. account' = [account EXCEPT ![pair] = a]
  BY DEF SpeedupTraveling
<1> HIDE DEF u, remaining
<1>6. /\ a \in ReinforcementAccount /\ a.status = "Traveling"
      /\ a.return_started_at <= now
  BY <1>1, <1>4 DEF ReinforcementAccount
<1>7. UNCHANGED <<now, units, allies, wounded, sends, battles>>
  BY DEF SpeedupTraveling
<1> HIDE DEF a
<1> QED BY <1>3, <1>5, <1>6, <1>7, AccountStep DEF TypeOK

\* The speedup of an army on its way home keeps the types.
LEMMA SpeedupReturningType ==
  ASSUME TypeOK, NEW pair \in Pairs, NEW tier \in SpeedupTiers,
         SpeedupReturning(pair, tier)
  PROVE  TypeOK'
<1> DEFINE b == account[pair]
           remaining == b.return_started_at + b.return_duration - now
           u == now - b.return_started_at + RemainingAfter(remaining, tier)
           a == [account[pair] EXCEPT !.return_duration = u]
<1>1. /\ account[pair] \in ReinforcementAccount /\ pair[1] \in Players
      /\ account[pair].return_started_at \in Nat /\ now \in Nat
      /\ account[pair].return_duration \in Nat
      /\ account[pair].return_started_at <= now
      /\ account[pair].status = "Returning"
  BY PairType, StateTypes DEF SpeedupReturning
<1>2. remaining \in Nat /\ Pay(pair[1], remaining, tier)
  BY <1>1 DEF SpeedupReturning, Reached
<1>3. RemainingAfter(remaining, tier) \in Nat /\ gems' \in [Players -> Nat]
  <2> HIDE DEF remaining
  <2> QED BY <1>1, <1>2, SpeedupTypes
<1>4. u \in Nat
  <2> DEFINE n == RemainingAfter(remaining, tier)
  <2>1. n \in Nat
    BY <1>3
  <2> HIDE DEF n
  <2>2. now - account[pair].return_started_at + n \in Nat
    BY <1>1, <2>1
  <2> QED BY <2>2 DEF n
<1>5. account' = [account EXCEPT ![pair] = a]
  BY DEF SpeedupReturning
<1> HIDE DEF u, remaining
<1>6. /\ a \in ReinforcementAccount /\ a.status = "Returning"
      /\ a.return_started_at <= now
  BY <1>1, <1>4 DEF ReinforcementAccount
<1>7. UNCHANGED <<now, units, allies, wounded, sends, battles>>
  BY DEF SpeedupReturning
<1> HIDE DEF a
<1> QED BY <1>3, <1>5, <1>6, <1>7, AccountStep DEF TypeOK

\* A step that changes nothing keeps the types.
LEMMA StutterType == TypeOK /\ UNCHANGED vars => TypeOK'
BY DEF TypeOK, vars, NoAccount, NoUnits

\* The armies within a limit are armies.
LEMMA WithinType ==
  ASSUME NEW limit, NEW army \in ArmiesWithin(limit), limit \in Army
  PROVE  army \in Army
BY TotalNat DEF ArmiesWithin, Army

\* Every step of the specification keeps the types.
LEMMA NextType == TypeOK /\ [Next]_vars => TypeOK'
<1> SUFFICES ASSUME TypeOK, [Next]_vars PROVE TypeOK'
  OBVIOUS
<1>1. CASE Tick
  BY <1>1, TickType
<1>2. ASSUME NEW d \in Players, Attacked(d) PROVE TypeOK'
  <2>1. PICK left \in ArmiesWithin(Plus(units[d], allies[d].left)) : Defend(d, left)
    BY <1>2 DEF Attacked
  <2>2. Plus(units[d], allies[d].left) \in Army
    BY ArmyTypes DEF TypeOK, Aggregate
  <2> QED BY <2>1, <2>2, WithinType, DefendType
<1>3. ASSUME NEW pair \in Pairs, NEW army \in ArmiesWithin(units[pair[1]]),
             NEW journey \in JourneyTimes, Send(pair, army, journey)
      PROVE  TypeOK'
  <2>1. units[pair[1]] \in Army
    BY PairType DEF TypeOK
  <2> QED BY <1>3, <2>1, WithinType, SendType
<1>4. ASSUME NEW pair \in Pairs, ProcessArrival(pair) PROVE TypeOK'
  BY <1>4, ProcessArrivalType
<1>5. ASSUME NEW pair \in Pairs, Recall(pair) PROVE TypeOK'
  BY <1>5, RecallTravelingType, RecallActiveType DEF Recall
<1>6. ASSUME NEW pair \in Pairs, Relieve(pair) PROVE TypeOK'
  BY <1>6, RelieveType
<1>7. ASSUME NEW pair \in Pairs,
             \E estate \in EstateAccounts : ProcessReturn(pair, estate)
      PROVE  TypeOK'
  BY <1>7, ProcessReturnType
<1>8. ASSUME NEW pair \in Pairs, NEW tier \in SpeedupTiers,
             SpeedupTraveling(pair, tier) \/ SpeedupReturning(pair, tier)
      PROVE  TypeOK'
  BY <1>8, SpeedupTravelingType, SpeedupReturningType
<1>9. CASE UNCHANGED vars
  BY <1>9, StutterType
<1> QED BY <1>1, <1>2, <1>3, <1>4, <1>5, <1>6, <1>7, <1>8, <1>9 DEF Next

\* Accounts, aggregates and armies keep their shape, whatever is sent and in
\* whatever order.
THEOREM TypeCorrect == Spec => []TypeOK
BY InitType, NextType, PTL DEF Spec

-----------------------------------------------------------------------------
(* The originals of an aggregate are those of the armies that are there *)

Sizes == [pair \in Pairs |-> Total(account[pair].units)]

\* The armies at a destination are finitely many, and their sizes are numbers.
LEMMA SizesType ==
  ASSUME TypeOK, NEW d
  PROVE  /\ IsFiniteSet(ActiveAt(d)) /\ ActiveAt(d) \subseteq Pairs
         /\ \A pair \in Pairs : Sizes[pair] \in Nat
<1>1. ActiveAt(d) \subseteq Pairs
  BY DEF ActiveAt
<1>2. \A pair \in Pairs : account[pair].units \in Army
  BY DEF TypeOK, ReinforcementAccount
<1> QED BY <1>1, <1>2, FiniteConstants, FS_Subset, TotalNat DEF Sizes

\* The books of one destination are right.
Matches(d) ==
    /\ allies[d].original = SumOver(Sizes, ActiveAt(d))
    /\ allies[d].source_count = Cardinality(ActiveAt(d))

\* The books match when those of every destination do.
LEMMA MatchEach == OriginalsMatch <=> \A d \in Players : Matches(d)
BY DEF OriginalsMatch, Matches, Sizes

\* And so they do after a step.
LEMMA MatchEachNext == OriginalsMatch' <=> \A d \in Players : Matches(d)'
BY DEF OriginalsMatch, Matches, Sizes

\* The books of a destination still match when its armies are the same and of
\* the same sizes.
LEMMA MatchSame ==
  ASSUME TypeOK, TypeOK', NEW d \in Players, Matches(d),
         ActiveAt(d)' = ActiveAt(d),
         \A pair \in ActiveAt(d) : account'[pair].units = account[pair].units,
         allies'[d].original = allies[d].original,
         allies'[d].source_count = allies[d].source_count
  PROVE  Matches(d)'
<1>1. IsFiniteSet(ActiveAt(d)) /\ ActiveAt(d) \subseteq Pairs
  BY SizesType
<1>2. \A pair \in ActiveAt(d) : Sizes[pair] = Sizes'[pair]
  BY <1>1 DEF Sizes, Total
<1>3. SumOver(Sizes, ActiveAt(d)) = SumOver(Sizes', ActiveAt(d))
  BY <1>1, <1>2, SumAgree
<1> QED BY <1>3 DEF Matches

\* The books match when nothing starts or stops being there.
LEMMA MatchElsewhere ==
  ASSUME TypeOK, TypeOK', OriginalsMatch, NEW pair \in Pairs, NEW a,
         account' = [account EXCEPT ![pair] = a],
         account[pair].status # "Active", a.status # "Active",
         \A d \in Players : /\ allies'[d].original = allies[d].original
                            /\ allies'[d].source_count = allies[d].source_count
  PROVE  OriginalsMatch'
<1> SUFFICES ASSUME NEW d \in Players PROVE Matches(d)'
  BY MatchEachNext
<1>1. \A other \in Pairs : other # pair => account'[other] = account[other]
  BY DEF TypeOK
<1>2. account'[pair] = a
  BY DEF TypeOK
<1>3. ActiveAt(d)' = ActiveAt(d)
  BY <1>1, <1>2 DEF ActiveAt
<1>4. \A other \in ActiveAt(d) : account'[other].units = account[other].units
  BY <1>1 DEF ActiveAt
<1>5. Matches(d)
  BY MatchEach
<1> QED BY <1>3, <1>4, <1>5, MatchSame

\* An arrival adds one army and its size, and the books with them.
LEMMA MatchArrival ==
  ASSUME TypeOK, TypeOK', OriginalsMatch, NEW pair \in Pairs, ProcessArrival(pair)
  PROVE  OriginalsMatch'
<1> SUFFICES ASSUME NEW d \in Players PROVE Matches(d)'
  BY MatchEachNext
<1>1. \A other \in Pairs : other # pair => account'[other] = account[other]
  BY DEF ProcessArrival, TypeOK
<1>2. /\ account[pair].status = "Traveling" /\ account'[pair].status = "Active"
      /\ account'[pair].units = account[pair].units
  BY DEF ProcessArrival, TypeOK, ReinforcementAccount
<1>3. Matches(d)
  BY MatchEach
<1>4. CASE pair[2] # d
  <2>1. ActiveAt(d)' = ActiveAt(d)
    BY <1>1, <1>4 DEF ActiveAt
  <2>2. \A other \in ActiveAt(d) : account'[other].units = account[other].units
    BY <1>1, <1>2 DEF ActiveAt
  <2>3. allies'[d] = allies[d]
    BY <1>4 DEF ProcessArrival, TypeOK
  <2> QED BY <1>3, <2>1, <2>2, <2>3, MatchSame
<1>5. CASE pair[2] = d
  <2> DEFINE A == ActiveAt(d)
  <2>1. A' = A \cup {pair} /\ pair \notin A
    BY <1>1, <1>2, <1>5 DEF ActiveAt
  <2>2. \A other \in Pairs : Sizes'[other] = Sizes[other]
    BY <1>1, <1>2 DEF Sizes, Total
  <2>3. /\ IsFiniteSet(A) /\ IsFiniteSet(A \cup {pair}) /\ A \subseteq Pairs
        /\ \A other \in Pairs : Sizes[other] \in Nat
    BY SizesType, FS_AddElement
  <2>4. SumOver(Sizes, A \cup {pair}) = Sizes[pair] + SumOver(Sizes, (A \cup {pair}) \ {pair})
    BY <2>3, SumSplit
  <2>5. (A \cup {pair}) \ {pair} = A
    BY <2>1
  <2>6. SumOver(Sizes', A \cup {pair}) = SumOver(Sizes, A \cup {pair})
    BY <2>2, <2>3, SumAgree
  <2>7. Cardinality(A \cup {pair}) = Cardinality(A) + 1
    BY <2>1, <2>3, FS_AddElement
  <2>8. /\ allies'[d].original = allies[d].original + Sizes[pair]
        /\ allies'[d].source_count = allies[d].source_count + 1
    BY <1>5 DEF ProcessArrival, TypeOK, Sizes
  <2>9. SumOver(Sizes, A) \in Nat /\ Sizes[pair] \in Nat
    BY <2>3, SumNat
  <2>10. allies'[d].original = SumOver(Sizes', A \cup {pair})
    BY <1>3, <2>4, <2>5, <2>6, <2>8, <2>9 DEF Matches
  <2>11. allies'[d].source_count = Cardinality(A \cup {pair})
    BY <1>3, <2>7, <2>8 DEF Matches
  <2> QED BY <2>1, <2>10, <2>11 DEF Matches
<1> QED BY <1>4, <1>5

\* The army of a pair that is there is no larger than the original, and it is
\* one of the sources.
LEMMA OriginalCovers ==
  ASSUME TypeOK, OriginalsMatch, NEW pair \in Pairs, account[pair].status = "Active"
  PROVE  LET A == ActiveAt(pair[2])
             aggregate == allies[pair[2]]
         IN
         /\ aggregate.original - Sizes[pair] = SumOver(Sizes, A \ {pair})
         /\ aggregate.original - Sizes[pair] \in Nat
         /\ aggregate.source_count - 1 = Cardinality(A \ {pair})
         /\ aggregate.source_count - 1 \in Nat
<1> DEFINE d == pair[2]
           A == ActiveAt(d)
<1>1. d \in Players /\ pair \in A
  BY PairType DEF ActiveAt
<1>2. Matches(d)
  BY <1>1, MatchEach
<1>3. IsFiniteSet(A) /\ A \subseteq Pairs /\ \A other \in Pairs : Sizes[other] \in Nat
  BY SizesType
<1>4. IsFiniteSet(A \ {pair}) /\ Cardinality(A \ {pair}) = Cardinality(A) - 1
  BY <1>1, <1>3, FS_RemoveElement
<1>5. Cardinality(A \ {pair}) \in Nat
  BY <1>4, FS_CardinalityType
<1>6. SumOver(Sizes, A) = Sizes[pair] + SumOver(Sizes, A \ {pair})
  BY <1>1, <1>3, SumSplit
<1>7. SumOver(Sizes, A \ {pair}) \in Nat /\ Sizes[pair] \in Nat
  BY <1>3, <1>4, SumNat
<1> QED BY <1>2, <1>4, <1>5, <1>6, <1>7 DEF Matches

\* Taking an army home takes it and its original size off the books, before
\* its account is overwritten.
LEMMA MatchTakenHome ==
  ASSUME TypeOK, TypeOK', OriginalsMatch, NEW pair \in Pairs, NEW a,
         account[pair].status = "Active", a.status # "Active",
         account' = [account EXCEPT ![pair] = a],
         allies' = [allies EXCEPT ![pair[2]] = TakeOut(pair)]
  PROVE  OriginalsMatch'
<1> SUFFICES ASSUME NEW d \in Players PROVE Matches(d)'
  BY MatchEachNext
<1>1. \A other \in Pairs : other # pair => account'[other] = account[other]
  BY DEF TypeOK
<1>2. account'[pair] = a
  BY DEF TypeOK
<1>3. Matches(d)
  BY MatchEach
<1>4. CASE pair[2] # d
  <2>1. ActiveAt(d)' = ActiveAt(d)
    BY <1>1, <1>4 DEF ActiveAt
  <2>2. \A other \in ActiveAt(d) : account'[other].units = account[other].units
    BY <1>1, <1>4 DEF ActiveAt
  <2>3. allies'[d] = allies[d]
    BY <1>4 DEF TypeOK
  <2> QED BY <1>3, <2>1, <2>2, <2>3, MatchSame
<1>5. CASE pair[2] = d
  <2> DEFINE A == ActiveAt(d)
  <2>1. A' = A \ {pair}
    BY <1>1, <1>2, <1>5 DEF ActiveAt
  <2>2. /\ IsFiniteSet(A \ {pair}) /\ A \subseteq Pairs
        /\ \A other \in Pairs : Sizes[other] \in Nat
    BY SizesType, FS_RemoveElement
  <2>3. \A other \in A \ {pair} : Sizes[other] = Sizes'[other]
    BY <1>1, <2>2 DEF Sizes, Total
  <2>4. SumOver(Sizes, A \ {pair}) = SumOver(Sizes', A \ {pair})
    BY <2>2, <2>3, SumAgree
  <2>5. /\ allies'[d].original = SatSub(allies[d].original, Sizes[pair])
        /\ allies'[d].source_count = SatSub(allies[d].source_count, 1)
    BY <1>5 DEF TakeOut, TypeOK, Sizes
  <2>6. /\ allies[d].original - Sizes[pair] = SumOver(Sizes, A \ {pair})
        /\ allies[d].original - Sizes[pair] \in Nat
        /\ allies[d].source_count - 1 = Cardinality(A \ {pair})
        /\ allies[d].source_count - 1 \in Nat
    BY <1>5, OriginalCovers
  <2>7. /\ allies[d].original \in Nat /\ allies[d].source_count \in Nat
        /\ Sizes[pair] \in Nat
    BY <2>2 DEF TypeOK, Aggregate
  <2>8. /\ allies'[d].original = SumOver(Sizes, A \ {pair})
        /\ allies'[d].source_count = Cardinality(A \ {pair})
    <3> HIDE DEF A
    <3>1. SatSub(allies[d].original, Sizes[pair]) = allies[d].original - Sizes[pair]
      BY <2>6, <2>7 DEF SatSub
    <3>2. SatSub(allies[d].source_count, 1) = allies[d].source_count - 1
      BY <2>6, <2>7 DEF SatSub
    <3> QED BY <2>5, <2>6, <3>1, <3>2
  <2> QED BY <2>1, <2>4, <2>8 DEF Matches
<1> QED BY <1>4, <1>5

\* No account of another status becomes active but by arriving.
LEMMA TurnRoundStatus ==
  ASSUME TypeOK, NEW pair \in Pairs, NEW army, NEW hurt
  PROVE  TurnRound(account[pair], army, hurt).status = "Returning"
BY DEF TurnRound, TypeOK, ReinforcementAccount

\* At the start nobody has lent anything.
LEMMA MatchInit == Init => OriginalsMatch
<1> SUFFICES ASSUME Init, NEW d \in Players PROVE Matches(d)
  BY MatchEach
<1>1. ActiveAt(d) = {}
  BY DEF Init, ActiveAt, NoAccount
<1>2. allies[d].original = 0 /\ allies[d].source_count = 0
  BY DEF Init
<1> QED BY <1>1, <1>2, SumEmpty, FS_EmptySet DEF Matches

\* The books match when neither accounts nor aggregates change, but for what is
\* left.
LEMMA MatchUnchanged ==
  ASSUME TypeOK, TypeOK', OriginalsMatch, account' = account,
         \A d \in Players : /\ allies'[d].original = allies[d].original
                            /\ allies'[d].source_count = allies[d].source_count
  PROVE  OriginalsMatch'
<1> SUFFICES ASSUME NEW d \in Players PROVE Matches(d)'
  BY MatchEachNext
<1>1. ActiveAt(d)' = ActiveAt(d)
  BY DEF ActiveAt
<1>2. Matches(d)
  BY MatchEach
<1> QED BY <1>1, <1>2, MatchSame

\* Every step keeps the books in order.
LEMMA MatchNext ==
  ASSUME TypeOK, TypeOK', OriginalsMatch, [Next]_vars
  PROVE  OriginalsMatch'
<1>1. CASE Tick
  BY <1>1, MatchUnchanged DEF Tick
<1>2. ASSUME NEW d \in Players, NEW left, Defend(d, left) PROVE OriginalsMatch'
  <2>1. account' = account
    BY <1>2 DEF Defend
  <2>2. \A e \in Players : /\ allies'[e].original = allies[e].original
                           /\ allies'[e].source_count = allies[e].source_count
    BY <1>2 DEF Defend, TypeOK, Aggregate
  <2> QED BY <2>1, <2>2, MatchUnchanged
<1>3. ASSUME NEW pair \in Pairs, NEW army, NEW journey, Send(pair, army, journey)
      PROVE  OriginalsMatch'
  <2> DEFINE a == [NoAccount EXCEPT !.status = "Traveling", !.units = army,
                                    !.journey = journey, !.arrives_at = now + journey]
  <2>1. /\ account' = [account EXCEPT ![pair] = a] /\ allies' = allies
        /\ account[pair].status # "Active"
    BY <1>3 DEF Send
  <2>2. a.status # "Active"
    BY DEF NoAccount
  <2> HIDE DEF a
  <2> QED BY <2>1, <2>2, MatchElsewhere
<1>4. ASSUME NEW pair \in Pairs, ProcessArrival(pair) PROVE OriginalsMatch'
  BY <1>4, MatchArrival
<1>5. ASSUME NEW pair \in Pairs, RecallTraveling(pair) PROVE OriginalsMatch'
  <2> DEFINE a == TurnRound(account[pair], account[pair].units, account[pair].wounded)
  <2>1. /\ account' = [account EXCEPT ![pair] = a] /\ allies' = allies
        /\ account[pair].status # "Active"
    BY <1>5 DEF RecallTraveling
  <2>2. a.status # "Active"
    BY TurnRoundStatus
  <2> HIDE DEF a
  <2> QED BY <2>1, <2>2, MatchElsewhere
<1>6. ASSUME NEW pair \in Pairs, RecallActive(pair) PROVE OriginalsMatch'
  <2> DEFINE a == TurnRound(account[pair], Share(pair), Minus(account[pair].units, Share(pair)))
  <2>1. /\ account' = [account EXCEPT ![pair] = a]
        /\ allies' = [allies EXCEPT ![pair[2]] = TakeOut(pair)]
        /\ account[pair].status = "Active"
    BY <1>6 DEF RecallActive
  <2>2. a.status # "Active"
    BY TurnRoundStatus
  <2> HIDE DEF a
  <2> QED BY <2>1, <2>2, MatchTakenHome
<1>7. ASSUME NEW pair \in Pairs, Relieve(pair) PROVE OriginalsMatch'
  <2> DEFINE a == TurnRound(account[pair], Share(pair), account[pair].wounded)
  <2>1. /\ account' = [account EXCEPT ![pair] = a]
        /\ allies' = [allies EXCEPT ![pair[2]] = TakeOut(pair)]
        /\ account[pair].status = "Active"
    BY <1>7 DEF Relieve
  <2>2. a.status # "Active"
    BY TurnRoundStatus
  <2> HIDE DEF a
  <2> QED BY <2>1, <2>2, MatchTakenHome
<1>8. ASSUME NEW pair \in Pairs,
             \E estate \in EstateAccounts : ProcessReturn(pair, estate)
      PROVE  OriginalsMatch'
  <2>1. /\ account' = [account EXCEPT ![pair] = NoAccount] /\ allies' = allies
        /\ account[pair].status # "Active"
    BY <1>8 DEF ProcessReturn, Closed
  <2>2. NoAccount.status # "Active"
    BY DEF NoAccount
  <2> QED BY <2>1, <2>2, MatchElsewhere
<1>9. ASSUME NEW pair \in Pairs, NEW tier, SpeedupTraveling(pair, tier)
      PROVE  OriginalsMatch'
  <2> DEFINE u == now + RemainingAfter(account[pair].arrives_at - now, tier)
             a == [account[pair] EXCEPT !.arrives_at = u]
  <2>1. /\ account' = [account EXCEPT ![pair] = a] /\ allies' = allies
        /\ account[pair].status # "Active"
    BY <1>9 DEF SpeedupTraveling
  <2> HIDE DEF u
  <2>2. a.status # "Active"
    BY <2>1 DEF TypeOK, ReinforcementAccount
  <2> HIDE DEF a
  <2> QED BY <2>1, <2>2, MatchElsewhere
<1>10. ASSUME NEW pair \in Pairs, NEW tier, SpeedupReturning(pair, tier)
       PROVE  OriginalsMatch'
  <2> DEFINE b == account[pair]
             remaining == b.return_started_at + b.return_duration - now
             u == now - b.return_started_at + RemainingAfter(remaining, tier)
             a == [account[pair] EXCEPT !.return_duration = u]
  <2>1. /\ account' = [account EXCEPT ![pair] = a] /\ allies' = allies
        /\ account[pair].status # "Active"
    BY <1>10 DEF SpeedupReturning
  <2> HIDE DEF u
  <2>2. a.status # "Active"
    BY <2>1 DEF TypeOK, ReinforcementAccount
  <2> HIDE DEF a
  <2> QED BY <2>1, <2>2, MatchElsewhere
<1>11. CASE UNCHANGED vars
  BY <1>11, MatchUnchanged DEF vars
<1> QED BY <1>1, <1>2, <1>3, <1>4, <1>5, <1>6, <1>7, <1>8, <1>9, <1>10, <1>11
        DEF Next, Attacked, Recall

\* The original size and the number of sources of an aggregate are those of
\* the armies that are there, in whatever order armies arrive, are recalled and
\* are relieved, and whatever battles do to them.
THEOREM OriginalsCorrect == Spec => []OriginalsMatch
<1>1. Init => TypeOK /\ OriginalsMatch
  BY InitType, MatchInit
<1>2. TypeOK /\ OriginalsMatch /\ [Next]_vars => (TypeOK /\ OriginalsMatch)'
  BY NextType, MatchNext
<1> QED BY <1>1, <1>2, PTL DEF Spec

-----------------------------------------------------------------------------
(* Units are accounted for *)

\* What is taken home of an army is no more than what is left of all.  The
\* survival ratio times the original is no more than what is left, and no army
\* is larger than the original.
LEMMA ShareFits ==
  ASSUME TypeOK, OriginalsMatch, NEW pair \in Pairs, account[pair].status = "Active"
  PROVE  Total(Share(pair)) <= Total(allies[pair[2]].left)
<1> DEFINE d == pair[2]
           R == SurvivalRatio(d)
           L == Total(allies[d].left)
           O == allies[d].original
           U == Total(account[pair].units)
           S == Total(Share(pair))
           dealt == [t \in Tiers |-> BASIS_POINTS * Share(pair)[t]]
           due == [t \in Tiers |-> R * account[pair].units[t]]
<1>1. /\ account[pair].units \in Army /\ allies[d].left \in Army /\ O \in Nat
      /\ Share(pair) \in Army /\ R \in Nat
  BY PairType, StateTypes, ShareTypes
<1>2. L \in Nat /\ U \in Nat /\ S \in Nat
  BY <1>1, TotalNat
<1>3. U <= O
  <2>1. O - Sizes[pair] \in Nat
    BY OriginalCovers
  <2>2. Sizes[pair] = U
    BY DEF Sizes
  <2> HIDE DEF U, O
  <2> QED BY <1>1, <1>2, <2>1, <2>2
<1>4. BASIS_POINTS \in Nat /\ BASIS_POINTS > 0
  BY DEF BASIS_POINTS
<1>5. BASIS_POINTS * S <= R * U
  <2>1. ASSUME NEW t \in Tiers
        PROVE  /\ dealt[t] \in Int /\ due[t] \in Int /\ dealt[t] <= due[t]
               /\ account[pair].units[t] \in Nat /\ Share(pair)[t] \in Nat
    <3>1. account[pair].units[t] \in Nat /\ Share(pair)[t] \in Nat
      BY <1>1 DEF Army
    <3> DEFINE n == account[pair].units[t] * R
    <3>2. n \in Nat /\ due[t] = n
      BY <1>1, <3>1, ProductNat
    <3>3. Share(pair)[t] = n \div BASIS_POINTS
      BY DEF Share
    <3> HIDE DEF n, due
    <3>4. (n \div BASIS_POINTS) * BASIS_POINTS <= n
      BY <1>4, <3>2, QuotientBound
    <3>5. dealt[t] = (n \div BASIS_POINTS) * BASIS_POINTS
      BY <1>4, <3>1, <3>3
    <3>6. dealt[t] \in Nat
      BY <1>4, <3>1, ProductNat
    <3> QED BY <3>1, <3>2, <3>4, <3>5, <3>6
  <2>2. SumOver(dealt, Tiers) <= SumOver(due, Tiers)
    <3> HIDE DEF dealt, due
    <3> QED BY <2>1, FiniteConstants, SumMono
  <2>3. SumOver(dealt, Tiers) = BASIS_POINTS * SumOver(Share(pair), Tiers)
    <3>1. \A t \in Tiers : /\ Share(pair)[t] \in Int
                           /\ dealt[t] = BASIS_POINTS * Share(pair)[t]
      BY <2>1
    <3> HIDE DEF dealt
    <3> QED BY <1>4, <3>1, FiniteConstants, SumScale
  <2>4. SumOver(due, Tiers) = R * SumOver(account[pair].units, Tiers)
    <3>1. \A t \in Tiers : /\ account[pair].units[t] \in Int
                           /\ due[t] = R * account[pair].units[t]
      BY <2>1
    <3> HIDE DEF due, R
    <3> QED BY <1>1, <3>1, FiniteConstants, SumScale
  <2> QED BY <2>2, <2>3, <2>4 DEF Total
<1>6. R * U <= L * BASIS_POINTS
  <2>1. CASE O > 0
    <3>1. L * BASIS_POINTS \in Nat
      BY <1>2, <1>4, ProductNat
    <3>2. R = (L * BASIS_POINTS) \div O
      BY <2>1 DEF SurvivalRatio
    <3> HIDE DEF R, L, O, U
    <3>3. R * O <= L * BASIS_POINTS
      BY <1>1, <2>1, <3>1, <3>2, QuotientBound
    <3>4. R * U <= R * O
      BY <1>1, <1>2, <1>3
    <3> QED BY <1>1, <1>2, <3>1, <3>3, <3>4
  <2>2. CASE ~(O > 0)
    <3> HIDE DEF R, L, O, U
    <3>1. U = 0
      BY <1>1, <1>2, <1>3, <2>2
    <3>2. R * U = 0 /\ L * BASIS_POINTS >= 0
      BY <1>1, <1>2, <1>4, <3>1, ProductNat
    <3> QED BY <3>2
  <2> QED BY <2>1, <2>2
<1>7. S <= L
  <2> HIDE DEF R, L, U, S
  <2>1. R * U \in Nat
    BY <1>1, <1>2, ProductNat
  <2>2. 10000 * S <= L * 10000
    BY <1>2, <1>5, <1>6, <2>1 DEF BASIS_POINTS
  <2> QED BY <1>2, <2>2
<1> QED BY <1>7

\* Taking an army out of one that covers it takes its size off.
LEMMA TotalMinus ==
  ASSUME NEW x \in Army, NEW y \in Army, \A t \in Tiers : y[t] <= x[t]
  PROVE  Total(Minus(x, y)) = Total(x) - Total(y)
<1>1. Minus(x, y) \in Army
  BY ArmyTypes
<1>2. Plus(Minus(x, y), y) = x
  <2>1. \A t \in Tiers : x[t] \in Nat /\ y[t] \in Nat
    BY DEF Army
  <2>2. \A t \in Tiers : Minus(x, y)[t] + y[t] = x[t]
    BY <2>1 DEF Minus, SatSub
  <2> QED BY <2>2 DEF Plus, Army
<1>3. Total(x) = Total(Minus(x, y)) + Total(y)
  BY <1>1, <1>2, TotalPlus
<1>4. Total(x) \in Nat /\ Total(y) \in Nat /\ Total(Minus(x, y)) \in Nat
  BY <1>1, TotalNat
<1> QED BY <1>3, <1>4

\* Units of a player and of the allies there, over all players; units on the road.
Present == [p \in Players |-> Total(units[p]) + Total(allies[p].left)]
AtHome == SumOver(Present, Players)
Abroad == SumOver(Sizes, OnTheRoad)

\* All units are those at home and those on the road.
LEMMA AllUnitsSplit == AllUnits = AtHome + Abroad /\ AllUnits' = AtHome' + Abroad'
BY DEF AllUnits, AtHome, Abroad, Present, Sizes

\* These are numbers.
LEMMA CountsType ==
  ASSUME TypeOK
  PROVE  /\ AtHome \in Nat /\ Abroad \in Nat
         /\ IsFiniteSet(OnTheRoad) /\ OnTheRoad \subseteq Pairs
         /\ \A p \in Players : Present[p] \in Nat
<1>1. OnTheRoad \subseteq Pairs
  BY DEF OnTheRoad
<1>2. IsFiniteSet(OnTheRoad)
  BY <1>1, FiniteConstants, FS_Subset
<1>3. \A pair \in Pairs : Sizes[pair] \in Nat
  BY SizesType
<1>4. \A p \in Players : Present[p] \in Nat
  <2> SUFFICES ASSUME NEW p \in Players PROVE Present[p] \in Nat
    OBVIOUS
  <2>1. units[p] \in Army /\ allies[p].left \in Army
    BY DEF TypeOK, Aggregate
  <2>2. Total(units[p]) \in Nat /\ Total(allies[p].left) \in Nat
    BY <2>1, TotalNat
  <2> QED BY <2>2 DEF Present
<1>5. AtHome \in Nat
  BY <1>4, FiniteConstants, SumNat DEF AtHome
<1>6. Abroad \in Nat
  BY <1>1, <1>2, <1>3, SumNat DEF Abroad
<1> QED BY <1>1, <1>2, <1>4, <1>5, <1>6

\* And they still are after a step.
LEMMA CountsTypeNext ==
  ASSUME TypeOK'
  PROVE  AtHome' \in Nat /\ Abroad' \in Nat /\ \A p \in Players : Present'[p] \in Nat
<1>1. OnTheRoad' \subseteq Pairs
  BY DEF OnTheRoad
<1>2. IsFiniteSet(OnTheRoad')
  BY <1>1, FiniteConstants, FS_Subset
<1>3. \A pair \in Pairs : Sizes'[pair] \in Nat
  <2>1. \A pair \in Pairs : account'[pair].units \in Army
    BY DEF TypeOK, ReinforcementAccount
  <2> QED BY <2>1, TotalNat DEF Sizes, Total
<1>4. \A p \in Players : Present'[p] \in Nat
  <2> SUFFICES ASSUME NEW p \in Players PROVE Present'[p] \in Nat
    OBVIOUS
  <2>1. units'[p] \in Army /\ allies'[p].left \in Army
    BY DEF TypeOK, Aggregate
  <2>2. Total(units'[p]) \in Nat /\ Total(allies'[p].left) \in Nat
    BY <2>1, TotalNat
  <2> QED BY <2>2 DEF Present, Total
<1>5. AtHome' \in Nat
  BY <1>4, FiniteConstants, SumNat DEF AtHome
<1>6. Abroad' \in Nat
  BY <1>1, <1>2, <1>3, SumNat DEF Abroad
<1> QED BY <1>4, <1>5, <1>6

\* When one player's units change, those at home change by as much.
LEMMA HomeChange ==
  ASSUME TypeOK, TypeOK', NEW p \in Players,
         \A q \in Players \ {p} : units'[q] = units[q] /\ allies'[q].left = allies[q].left
  PROVE  AtHome' = AtHome - Present[p] + Present'[p]
<1>1. \A q \in Players : Present[q] \in Int /\ Present'[q] \in Int
  BY CountsType, CountsTypeNext
<1>2. \A q \in Players \ {p} : Present'[q] = Present[q]
  BY DEF Present, Total
<1> QED BY <1>1, <1>2, FiniteConstants, SumChange DEF AtHome

\* An army that sets out adds to those on the road.
LEMMA RoadJoined ==
  ASSUME TypeOK, TypeOK', NEW pair \in Pairs, pair \notin OnTheRoad, pair \in OnTheRoad',
         \A other \in Pairs \ {pair} : account'[other] = account[other]
  PROVE  Abroad' = Abroad + Sizes'[pair]
<1> DEFINE A == OnTheRoad
<1>1. A' = A \cup {pair} /\ A = A' \ {pair}
  BY DEF OnTheRoad
<1>2. IsFiniteSet(A) /\ IsFiniteSet(A') /\ A \subseteq Pairs
  BY <1>1, CountsType, FS_AddElement
<1>3. \A other \in Pairs : Sizes'[other] \in Nat
  <2>1. \A other \in Pairs : account'[other].units \in Army
    BY DEF TypeOK, ReinforcementAccount
  <2> QED BY <2>1, TotalNat DEF Sizes, Total
<1>4. \A other \in A : Sizes[other] = Sizes'[other]
  BY <1>1, <1>2 DEF Sizes, Total
<1>5. SumOver(Sizes, A) = SumOver(Sizes', A)
  BY <1>2, <1>4, SumAgree
<1>6. \A other \in A' : Sizes'[other] \in Int
  BY <1>1, <1>2, <1>3
<1>7. SumOver(Sizes', A') = Sizes'[pair] + SumOver(Sizes', A' \ {pair})
  BY <1>1, <1>2, <1>6, SumSplit
<1>8. SumOver(Sizes, A) \in Nat /\ Sizes'[pair] \in Nat
  BY <1>3, CountsType DEF Abroad
<1>9. Abroad = SumOver(Sizes, A) /\ Abroad' = SumOver(Sizes', A')
  BY DEF Abroad
<1> HIDE DEF A
<1> QED BY <1>1, <1>5, <1>7, <1>8, <1>9

\* An army that gets where it goes is taken off those on the road.
LEMMA RoadLeft ==
  ASSUME TypeOK, TypeOK', NEW pair \in Pairs, pair \in OnTheRoad, pair \notin OnTheRoad',
         \A other \in Pairs \ {pair} : account'[other] = account[other]
  PROVE  Abroad' = Abroad - Sizes[pair]
<1> DEFINE A == OnTheRoad
<1>1. A' = A \ {pair}
  BY DEF OnTheRoad
<1>2. IsFiniteSet(A) /\ IsFiniteSet(A') /\ A \subseteq Pairs
  BY <1>1, CountsType, FS_RemoveElement
<1>3. \A other \in Pairs : Sizes[other] \in Nat
  BY SizesType
<1>4. \A other \in A' : Sizes[other] = Sizes'[other]
  BY <1>1, <1>2 DEF Sizes, Total
<1>5. SumOver(Sizes, A') = SumOver(Sizes', A')
  BY <1>2, <1>4, SumAgree
<1>6. \A other \in A : Sizes[other] \in Int
  BY <1>2, <1>3
<1>7. SumOver(Sizes, A) = Sizes[pair] + SumOver(Sizes, A \ {pair})
  BY <1>2, <1>6, SumSplit
<1>8. SumOver(Sizes', A') \in Nat /\ Sizes[pair] \in Nat
  BY <1>3, CountsTypeNext DEF Abroad
<1>9. Abroad = SumOver(Sizes, A) /\ Abroad' = SumOver(Sizes', A')
  BY DEF Abroad
<1> HIDE DEF A
<1> QED BY <1>1, <1>5, <1>7, <1>8, <1>9

\* Those on the road stay the same when the same armies are on it, unchanged.
LEMMA RoadKept ==
  ASSUME TypeOK, TypeOK', OnTheRoad' = OnTheRoad,
         \A pair \in Pairs : account'[pair].units = account[pair].units
  PROVE  Abroad' = Abroad
<1>1. IsFiniteSet(OnTheRoad) /\ OnTheRoad \subseteq Pairs
  BY CountsType
<1>2. \A pair \in OnTheRoad : Sizes'[pair] = Sizes[pair]
  BY <1>1 DEF Sizes, Total
<1> QED BY <1>1, <1>2, SumAgree DEF Abroad

\* Those at home stay the same when nothing happens at any home.
LEMMA HomeKept ==
  ASSUME units' = units, allies' = allies
  PROVE  AtHome' = AtHome
<1>1. Present' = Present
  BY DEF Present, Total
<1> QED BY <1>1 DEF AtHome

\* A journey that only takes another time keeps all units.
LEMMA JourneyKeepsUnits ==
  ASSUME TypeOK, TypeOK', NEW pair \in Pairs, NEW a, pair \in OnTheRoad,
         account' = [account EXCEPT ![pair] = a],
         a.status \in {"Traveling", "Returning"}, a.units = account[pair].units,
         units' = units, allies' = allies
  PROVE  AllUnits' <= AllUnits
<1>1. account'[pair] = a /\ \A other \in Pairs \ {pair} : account'[other] = account[other]
  BY DEF TypeOK
<1>2. OnTheRoad' = OnTheRoad
  BY <1>1 DEF OnTheRoad
<1>3. \A other \in Pairs : account'[other].units = account[other].units
  BY <1>1
<1>4. Abroad' = Abroad /\ AtHome' = AtHome
  BY <1>2, <1>3, RoadKept, HomeKept
<1> QED BY <1>4, AllUnitsSplit, CountsType

\* What a step may do to units, by the name it has in UnitsAccountedFor.
Accounted ==
    \/ AllUnits' <= AllUnits
    \/ \E pair \in Pairs :
          /\ account[pair].status = "Active"
          /\ account'[pair].status = "Returning"
          /\ Total(account'[pair].units) <= Total(allies[pair[2]].left)

\* An army that is sent leaves home and is on the road.
LEMMA SendAccounted ==
  ASSUME TypeOK, TypeOK', NEW pair \in Pairs, NEW army \in Army, NEW journey,
         Send(pair, army, journey)
  PROVE  AllUnits' <= AllUnits
<1> DEFINE s == pair[1]
           a == [NoAccount EXCEPT !.status = "Traveling", !.units = army,
                                  !.journey = journey, !.arrives_at = now + journey]
<1>1. s \in Players /\ units[s] \in Army /\ allies[s].left \in Army
  BY PairType DEF TypeOK, Aggregate
<1>2. /\ account' = [account EXCEPT ![pair] = a] /\ account[pair].status = "None"
      /\ units' = [units EXCEPT ![s] = Minus(units[s], army)] /\ allies' = allies
      /\ \A t \in Tiers : army[t] <= units[s][t]
  BY DEF Send
<1>3. a.status = "Traveling" /\ a.units = army
  BY DEF NoAccount
<1> HIDE DEF a
<1>4. /\ account'[pair] = a
      /\ \A other \in Pairs \ {pair} : account'[other] = account[other]
  BY <1>2 DEF TypeOK
<1>5. Abroad' = Abroad + Sizes'[pair]
  <2>1. pair \notin OnTheRoad /\ pair \in OnTheRoad'
    BY <1>2, <1>3, <1>4 DEF OnTheRoad
  <2> QED BY <1>4, <2>1, RoadJoined
<1>6. Sizes'[pair] = Total(army)
  BY <1>3, <1>4 DEF Sizes, Total
<1>7. AtHome' = AtHome - Present[s] + Present'[s]
  <2>1. \A q \in Players \ {s} : units'[q] = units[q] /\ allies'[q].left = allies[q].left
    BY <1>2 DEF TypeOK
  <2> QED BY <1>1, <2>1, HomeChange
<1>8. units'[s] = Minus(units[s], army)
  BY <1>1, <1>2 DEF TypeOK
<1>9. Total(Minus(units[s], army)) = Total(units[s]) - Total(army)
  BY <1>1, <1>2, TotalMinus
<1>10. /\ Present[s] = Total(units[s]) + Total(allies[s].left)
       /\ Present'[s] = Total(units[s]) - Total(army) + Total(allies[s].left)
  BY <1>1, <1>2, <1>8, <1>9 DEF Present, Total
<1>11. /\ Total(units[s]) \in Nat /\ Total(allies[s].left) \in Nat
       /\ Total(army) \in Nat
  BY <1>1, TotalNat
<1> HIDE DEF s
<1> QED BY <1>5, <1>6, <1>7, <1>10, <1>11, AllUnitsSplit, CountsType

\* An army that gets to its destination or home is no longer on the road, and
\* units at that place grow by as much.
LEMMA Arrived ==
  ASSUME TypeOK, TypeOK', NEW pair \in Pairs, NEW p \in Players,
         pair \in OnTheRoad, pair \notin OnTheRoad',
         \A other \in Pairs \ {pair} : account'[other] = account[other],
         \A q \in Players \ {p} : units'[q] = units[q] /\ allies'[q].left = allies[q].left,
         \/ /\ units'[p] = Plus(units[p], account[pair].units)
            /\ allies'[p].left = allies[p].left
         \/ /\ allies'[p].left = Plus(allies[p].left, account[pair].units)
            /\ units'[p] = units[p]
  PROVE  AllUnits' <= AllUnits
<1> DEFINE army == account[pair].units
<1>1. units[p] \in Army /\ allies[p].left \in Army /\ army \in Army
  BY StateTypes
<1>2. Abroad' = Abroad - Sizes[pair] /\ Sizes[pair] = Total(army)
  BY RoadLeft DEF Sizes
<1>3. AtHome' = AtHome - Present[p] + Present'[p]
  BY HomeChange
<1>4. /\ Total(Plus(units[p], army)) = Total(units[p]) + Total(army)
      /\ Total(Plus(allies[p].left, army)) = Total(allies[p].left) + Total(army)
  BY <1>1, TotalPlus
<1>5. /\ Total(units[p]) \in Nat /\ Total(allies[p].left) \in Nat
      /\ Total(army) \in Nat
  BY <1>1, TotalNat
<1>6. /\ Present[p] = Total(units[p]) + Total(allies[p].left)
      /\ Present'[p] = Total(units'[p]) + Total(allies'[p].left)
  BY DEF Present, Total
<1>7. Present'[p] = Present[p] + Total(army)
  <2> HIDE DEF army
  <2> QED BY <1>4, <1>5, <1>6 DEF army
<1> HIDE DEF army
<1> QED BY <1>2, <1>3, <1>5, <1>6, <1>7, AllUnitsSplit, CountsType

\* What is left after a battle is divided between a player and the allies
\* without adding to it.
LEMMA DefendAccounted ==
  ASSUME TypeOK, TypeOK', NEW d \in Players, NEW left \in Army, Defend(d, left)
  PROVE  AllUnits' <= AllUnits
<1> DEFINE own == [t \in Tiers |-> OwnShare(units[d][t], allies[d].left[t], left[t])]
<1>1. units[d] \in Army /\ allies[d].left \in Army /\ allies[d] \in Aggregate
  BY DEF TypeOK, Aggregate
<1>2. own \in Army /\ \A t \in Tiers : own[t] <= left[t]
  BY <1>1, OwnShareBound DEF Army
<1>3. /\ \A t \in Tiers : left[t] <= units[d][t] + allies[d].left[t]
      /\ units' = [units EXCEPT ![d] = own]
      /\ allies' = [allies EXCEPT ![d].left = Minus(left, own)]
      /\ account' = account
  BY DEF Defend
<1> HIDE DEF own
<1>4. Total(left) <= Total(Plus(units[d], allies[d].left))
  <2>1. Plus(units[d], allies[d].left) \in Army
    BY <1>1, ArmyTypes
  <2>2. \A t \in Tiers : left[t] <= Plus(units[d], allies[d].left)[t]
    BY <1>3 DEF Plus
  <2>3. \A t \in Tiers : left[t] \in Int /\ Plus(units[d], allies[d].left)[t] \in Int
    BY <2>1 DEF Army
  <2> QED BY <2>2, <2>3, FiniteConstants, SumMono DEF Total
<1>5. Total(Plus(units[d], allies[d].left)) = Total(units[d]) + Total(allies[d].left)
  BY <1>1, TotalPlus
<1>6. Total(Minus(left, own)) = Total(left) - Total(own)
  BY <1>2, TotalMinus
<1>7. units'[d] = own /\ allies'[d].left = Minus(left, own)
  BY <1>1, <1>3 DEF TypeOK, Aggregate
<1>8. /\ Total(left) \in Nat /\ Total(own) \in Nat
      /\ Total(units[d]) \in Nat /\ Total(allies[d].left) \in Nat
  BY <1>1, <1>2, TotalNat
<1>9. /\ Present[d] = Total(units[d]) + Total(allies[d].left)
      /\ Present'[d] = Total(units'[d]) + Total(allies'[d].left)
  BY DEF Present, Total
<1>10. Present'[d] <= Present[d] /\ Present[d] \in Nat /\ Present'[d] \in Nat
  <2>1. Present'[d] = Total(left)
    BY <1>6, <1>7, <1>8, <1>9
  <2> QED BY <1>4, <1>5, <1>8, <1>9, <2>1
<1>11. AtHome' = AtHome - Present[d] + Present'[d]
  <2>1. \A q \in Players \ {d} : units'[q] = units[q] /\ allies'[q].left = allies[q].left
    BY <1>3 DEF TypeOK
  <2> QED BY <2>1, HomeChange
<1>12. Abroad' = Abroad
  <2>1. OnTheRoad' = OnTheRoad
    BY <1>3 DEF OnTheRoad
  <2> QED BY <1>3, <2>1, RoadKept
<1> QED BY <1>10, <1>11, <1>12, AllUnitsSplit, CountsType

\* Every step accounts for all units.
LEMMA NextAccounted ==
  ASSUME TypeOK, TypeOK', OriginalsMatch, [Next]_vars
  PROVE  Accounted
<1>1. CASE Tick
  <2>1. AtHome' = AtHome /\ OnTheRoad' = OnTheRoad /\ account' = account
    BY <1>1, HomeKept DEF Tick, OnTheRoad
  <2>2. Abroad' = Abroad
    BY <2>1, RoadKept
  <2> QED BY <2>1, <2>2, AllUnitsSplit, CountsType DEF Accounted
<1>2. ASSUME NEW d \in Players, Attacked(d) PROVE Accounted
  <2>1. PICK left \in ArmiesWithin(Plus(units[d], allies[d].left)) : Defend(d, left)
    BY <1>2 DEF Attacked
  <2>2. Plus(units[d], allies[d].left) \in Army
    BY ArmyTypes DEF TypeOK, Aggregate
  <2> QED BY <2>1, <2>2, WithinType, DefendAccounted DEF Accounted
<1>3. ASSUME NEW pair \in Pairs, NEW army \in ArmiesWithin(units[pair[1]]),
             NEW journey \in JourneyTimes, Send(pair, army, journey)
      PROVE  Accounted
  <2>1. units[pair[1]] \in Army
    BY PairType DEF TypeOK
  <2> QED BY <1>3, <2>1, WithinType, SendAccounted DEF Accounted
<1>4. ASSUME NEW pair \in Pairs, ProcessArrival(pair) PROVE Accounted
  <2> DEFINE d == pair[2]
  <2>1. d \in Players
    BY PairType
  <2>2. /\ \A other \in Pairs \ {pair} : account'[other] = account[other]
        /\ account[pair].status = "Traveling" /\ account'[pair].status = "Active"
    BY <1>4 DEF ProcessArrival, TypeOK, ReinforcementAccount
  <2>3. pair \in OnTheRoad /\ pair \notin OnTheRoad'
    BY <2>2 DEF OnTheRoad
  <2>4. /\ \A q \in Players \ {d} : units'[q] = units[q] /\ allies'[q].left = allies[q].left
        /\ allies'[d].left = Plus(allies[d].left, account[pair].units)
        /\ units'[d] = units[d]
    BY <1>4, <2>1 DEF ProcessArrival, TypeOK
  <2> QED BY <2>1, <2>2, <2>3, <2>4, Arrived DEF Accounted
<1>5. ASSUME NEW pair \in Pairs, RecallTraveling(pair) PROVE Accounted
  <2> DEFINE a == TurnRound(account[pair], account[pair].units, account[pair].wounded)
  <2>1. /\ account' = [account EXCEPT ![pair] = a]
        /\ units' = units /\ allies' = allies
        /\ pair \in OnTheRoad
    BY <1>5 DEF RecallTraveling, OnTheRoad
  <2>2. a.status = "Returning" /\ a.units = account[pair].units
    <3>1. /\ account[pair] \in ReinforcementAccount
          /\ account[pair].units \in Army /\ account[pair].wounded \in Army
      BY DEF TypeOK, ReinforcementAccount
    <3> QED BY <3>1, TurnRoundType
  <2> HIDE DEF a
  <2> QED BY <2>1, <2>2, JourneyKeepsUnits DEF Accounted
<1>6. ASSUME NEW pair \in Pairs, RecallActive(pair) \/ Relieve(pair) PROVE Accounted
  <2>1. PICK hurt \in Army :
          /\ account[pair].status = "Active"
          /\ account' = [account EXCEPT ![pair] = TurnRound(account[pair], Share(pair), hurt)]
    <3>1. /\ account[pair].units \in Army /\ account[pair].wounded \in Army
          /\ Share(pair) \in Army
      BY ShareTypes DEF TypeOK, ReinforcementAccount
    <3>2. Minus(account[pair].units, Share(pair)) \in Army
      BY <3>1, ArmyTypes
    <3>3. CASE RecallActive(pair)
      BY <3>2, <3>3 DEF RecallActive
    <3>4. CASE Relieve(pair)
      BY <3>1, <3>4 DEF Relieve
    <3> QED BY <1>6, <3>3, <3>4
  <2> DEFINE a == TurnRound(account[pair], Share(pair), hurt)
  <2>2. account[pair] \in ReinforcementAccount /\ Share(pair) \in Army
    BY ShareTypes DEF TypeOK
  <2>3. a.status = "Returning" /\ a.units = Share(pair)
    BY <2>2, TurnRoundType
  <2>4. account'[pair] = a
    BY <2>1 DEF TypeOK
  <2> HIDE DEF a
  <2>5. /\ account'[pair].status = "Returning"
        /\ Total(account'[pair].units) <= Total(allies[pair[2]].left)
    BY <2>1, <2>3, <2>4, ShareFits
  <2> QED BY <2>1, <2>5 DEF Accounted
<1>7. ASSUME NEW pair \in Pairs,
             \E estate \in EstateAccounts : ProcessReturn(pair, estate)
      PROVE  Accounted
  <2> DEFINE s == pair[1]
  <2>1. s \in Players
    BY PairType
  <2>2. /\ \A other \in Pairs \ {pair} : account'[other] = account[other]
        /\ account[pair].status = "Returning" /\ account'[pair] = NoAccount
    BY <1>7 DEF ProcessReturn, Closed, TypeOK
  <2>3. pair \in OnTheRoad /\ pair \notin OnTheRoad'
    BY <2>2 DEF OnTheRoad, NoAccount
  <2>4. /\ \A q \in Players \ {s} : units'[q] = units[q] /\ allies'[q].left = allies[q].left
        /\ units'[s] = Plus(units[s], account[pair].units)
        /\ allies'[s].left = allies[s].left
    BY <1>7, <2>1 DEF ProcessReturn, TypeOK
  <2> QED BY <2>1, <2>2, <2>3, <2>4, Arrived DEF Accounted
<1>8. ASSUME NEW pair \in Pairs, NEW tier, SpeedupTraveling(pair, tier)
      PROVE  Accounted
  <2> DEFINE u == now + RemainingAfter(account[pair].arrives_at - now, tier)
             a == [account[pair] EXCEPT !.arrives_at = u]
  <2>1. /\ account' = [account EXCEPT ![pair] = a] /\ units' = units /\ allies' = allies
        /\ account[pair].status = "Traveling"
    BY <1>8 DEF SpeedupTraveling
  <2> HIDE DEF u
  <2>2. a.status = "Traveling" /\ a.units = account[pair].units
    BY <2>1 DEF TypeOK, ReinforcementAccount
  <2>3. pair \in OnTheRoad
    BY <2>1 DEF OnTheRoad
  <2> HIDE DEF a
  <2> QED BY <2>1, <2>2, <2>3, JourneyKeepsUnits DEF Accounted
<1>9. ASSUME NEW pair \in Pairs, NEW tier, SpeedupReturning(pair, tier)
      PROVE  Accounted
  <2> DEFINE b == account[pair]
             remaining == b.return_started_at + b.return_duration - now
             u == now - b.return_started_at + RemainingAfter(remaining, tier)
             a == [account[pair] EXCEPT !.return_duration = u]
  <2>1. /\ account' = [account EXCEPT ![pair] = a] /\ units' = units /\ allies' = allies
        /\ account[pair].status = "Returning"
    BY <1>9 DEF SpeedupReturning
  <2> HIDE DEF u
  <2>2. a.status = "Returning" /\ a.units = account[pair].units
    BY <2>1 DEF TypeOK, ReinforcementAccount
  <2>3. pair \in OnTheRoad
    BY <2>1 DEF OnTheRoad
  <2> HIDE DEF a
  <2> QED BY <2>1, <2>2, <2>3, JourneyKeepsUnits DEF Accounted
<1>10. CASE UNCHANGED vars
  <2>1. AtHome' = AtHome /\ OnTheRoad' = OnTheRoad /\ account' = account
    BY <1>10, HomeKept DEF vars, OnTheRoad
  <2>2. Abroad' = Abroad
    BY <2>1, RoadKept
  <2> QED BY <2>1, <2>2, AllUnitsSplit, CountsType DEF Accounted
<1> QED BY <1>1, <1>2, <1>3, <1>4, <1>5, <1>6, <1>7, <1>8, <1>9, <1>10
        DEF Next, Recall

\* No step makes units, but for the start of a journey home from the
\* destination; and that takes no more units along than are left of all armies
\* there, however floors and ratios fall.
THEOREM UnitsConserved == Spec => UnitsAccountedFor
<1>1. TypeOK /\ TypeOK' /\ OriginalsMatch /\ [Next]_vars => Accounted
  BY NextAccounted
<1>2. Accounted <=>
        \/ AllUnits' <= AllUnits
        \/ \E pair \in Pairs :
              /\ account[pair].status = "Active"
              /\ account'[pair].status = "Returning"
              /\ Total(account'[pair].units) <= Total(allies[pair[2]].left)
  BY DEF Accounted
<1> QED BY <1>1, <1>2, TypeCorrect, OriginalsCorrect, PTL DEF Spec, UnitsAccountedFor

-----------------------------------------------------------------------------
(* Without a battle armies go home whole *)

\* Nobody is wounded but in an army on its way home.
Unhurt == \A pair \in Pairs : account[pair].status # "Returning"
                                 => account[pair].wounded = NoUnits

\* Every step leaves without wounded who has not set out for home.
LEMMA UnhurtStep ==
  ASSUME TypeOK, Unhurt, NEW pair \in Pairs, NEW a,
         account' = [account EXCEPT ![pair] = a],
         a.status = "Returning" \/ a.wounded = NoUnits
  PROVE  Unhurt'
<1>1. \A other \in Pairs : account'[other] = IF other = pair THEN a ELSE account[other]
  BY DEF TypeOK
<1>2. NoUnits' = NoUnits
  BY DEF NoUnits
<1> QED BY <1>1, <1>2 DEF Unhurt

\* The same over the next-state relation with its stuttering.
LEMMA UnhurtNext ==
  ASSUME TypeOK, Unhurt, [Next]_vars
  PROVE  Unhurt'
<1>1. CASE account' = account
  BY <1>1 DEF Unhurt, NoUnits
<1>2. ASSUME NEW pair \in Pairs, NEW army, NEW journey, Send(pair, army, journey)
      PROVE  Unhurt'
  <2> DEFINE a == [NoAccount EXCEPT !.status = "Traveling", !.units = army,
                                    !.journey = journey, !.arrives_at = now + journey]
  <2>1. account' = [account EXCEPT ![pair] = a]
    BY <1>2 DEF Send
  <2>2. a.wounded = NoUnits
    BY DEF NoAccount
  <2> HIDE DEF a
  <2> QED BY <2>1, <2>2, UnhurtStep
<1>3. ASSUME NEW pair \in Pairs, ProcessArrival(pair) PROVE Unhurt'
  <2> DEFINE a == [account[pair] EXCEPT !.status = "Active"]
  <2>1. account' = [account EXCEPT ![pair] = a] /\ account[pair].status = "Traveling"
    BY <1>3 DEF ProcessArrival
  <2>2. a.wounded = account[pair].wounded
    BY DEF TypeOK, ReinforcementAccount
  <2> HIDE DEF a
  <2> QED BY <2>1, <2>2, UnhurtStep DEF Unhurt
<1>4. ASSUME NEW pair \in Pairs, NEW army, NEW hurt,
             account' = [account EXCEPT ![pair] = TurnRound(account[pair], army, hurt)]
      PROVE  Unhurt'
  BY <1>4, TurnRoundStatus, UnhurtStep
<1>5. ASSUME NEW pair \in Pairs, Recall(pair) \/ Relieve(pair) PROVE Unhurt'
  <2>1. \E army, hurt :
          account' = [account EXCEPT ![pair] = TurnRound(account[pair], army, hurt)]
    BY <1>5 DEF Recall, RecallTraveling, RecallActive, Relieve
  <2> QED BY <1>4, <2>1
<1>6. ASSUME NEW pair \in Pairs,
             \E estate \in EstateAccounts : ProcessReturn(pair, estate)
      PROVE  Unhurt'
  <2>1. account' = [account EXCEPT ![pair] = NoAccount]
    BY <1>6 DEF ProcessReturn, Closed
  <2>2. NoAccount.wounded = NoUnits
    BY DEF NoAccount
  <2> QED BY <2>1, <2>2, UnhurtStep
<1>7. ASSUME NEW pair \in Pairs, NEW tier, SpeedupTraveling(pair, tier) PROVE Unhurt'
  <2> DEFINE u == now + RemainingAfter(account[pair].arrives_at - now, tier)
             a == [account[pair] EXCEPT !.arrives_at = u]
  <2>1. account' = [account EXCEPT ![pair] = a] /\ account[pair].status = "Traveling"
    BY <1>7 DEF SpeedupTraveling
  <2> HIDE DEF u
  <2>2. a.wounded = account[pair].wounded
    BY DEF TypeOK, ReinforcementAccount
  <2> HIDE DEF a
  <2> QED BY <2>1, <2>2, UnhurtStep DEF Unhurt
<1>8. ASSUME NEW pair \in Pairs, NEW tier, SpeedupReturning(pair, tier) PROVE Unhurt'
  <2> DEFINE b == account[pair]
             remaining == b.return_started_at + b.return_duration - now
             u == now - b.return_started_at + RemainingAfter(remaining, tier)
             a == [account[pair] EXCEPT !.return_duration = u]
  <2>1. account' = [account EXCEPT ![pair] = a] /\ account[pair].status = "Returning"
    BY <1>8 DEF SpeedupReturning
  <2> HIDE DEF u
  <2>2. a.status = account[pair].status
    BY DEF TypeOK, ReinforcementAccount
  <2> HIDE DEF a
  <2> QED BY <2>1, <2>2, UnhurtStep
<1> QED BY <1>1, <1>2, <1>3, <1>5, <1>6, <1>7, <1>8
        DEF Next, Tick, Attacked, Defend, vars

\* The units of one tier, army by army.
OfTier(t) == [pair \in Pairs |-> account[pair].units[t]]

\* The units of a tier are natural numbers.
LEMMA TierTypes ==
  ASSUME TypeOK, NEW t \in Tiers, NEW d
  PROVE  /\ IsFiniteSet(ActiveAt(d)) /\ ActiveAt(d) \subseteq Pairs
         /\ \A pair \in Pairs : OfTier(t)[pair] \in Nat
<1>1. \A pair \in Pairs : account[pair].units \in Army
  BY DEF TypeOK, ReinforcementAccount
<1> QED BY <1>1, SizesType DEF OfTier, Army

\* What PeaceKeepsArmies says of a destination that is not attacked.
Peaceful(d) ==
    /\ Intact(d)'
    /\ \A pair \in ActiveAt(d) : account'[pair].units = account[pair].units
                                 /\ account'[pair].wounded = NoUnits

\* At a destination that a step does not touch peace is kept.
LEMMA PeaceElsewhere ==
  ASSUME TypeOK, Unhurt, NEW d \in Players, Intact(d), allies'[d].left = allies[d].left,
         \A pair \in Pairs : \/ account'[pair] = account[pair]
                             \/ pair \notin ActiveAt(d) /\ pair \notin ActiveAt(d)'
  PROVE  Peaceful(d)
<1> DEFINE A == ActiveAt(d)
<1>1. \A pair \in A : account'[pair] = account[pair]
  BY DEF ActiveAt
<1>2. A' = A
  BY DEF ActiveAt
<1>3. ASSUME NEW t \in Tiers PROVE allies'[d].left[t] = SumOver(OfTier(t)', A')
  <2>1. IsFiniteSet(A) /\ A \subseteq Pairs
    BY TierTypes
  <2>2. \A pair \in A : OfTier(t)[pair] = OfTier(t)'[pair]
    BY <1>1, <2>1 DEF OfTier
  <2> HIDE DEF A
  <2>3. ASSUME NEW f, NEW h, \A pair \in A : f[pair] = h[pair]
        PROVE  SumOver(f, A) = SumOver(h, A)
    BY <2>1, <2>3, SumAgree
  <2>4. SumOver(OfTier(t), A) = SumOver(OfTier(t)', A)
    BY <2>2, <2>3
  <2> QED BY <1>2, <2>4 DEF Intact, OfTier, A
<1>4. Intact(d)'
  BY <1>3 DEF Intact, OfTier
<1>5. \A pair \in A : account[pair].wounded = NoUnits
  BY DEF Unhurt, ActiveAt
<1> QED BY <1>1, <1>4, <1>5 DEF Peaceful

\* An army that arrives joins the armies there, whole.
LEMMA PeaceArrival ==
  ASSUME TypeOK, Unhurt, NEW pair \in Pairs, ProcessArrival(pair), Intact(pair[2])
  PROVE  Peaceful(pair[2])
<1> DEFINE d == pair[2]
           A == ActiveAt(d)
<1>1. \A other \in Pairs : other # pair => account'[other] = account[other]
  BY DEF ProcessArrival, TypeOK
<1>2. /\ account[pair].status = "Traveling" /\ account'[pair].status = "Active"
      /\ account'[pair].units = account[pair].units
  BY DEF ProcessArrival, TypeOK, ReinforcementAccount
<1>3. A' = A \cup {pair} /\ pair \notin A
  BY <1>1, <1>2 DEF ActiveAt
<1>4. d \in Players /\ IsFiniteSet(A) /\ A \subseteq Pairs
  BY PairType, SizesType
<1>5. allies'[d].left = Plus(allies[d].left, account[pair].units)
  BY <1>4 DEF ProcessArrival, TypeOK
<1>6. ASSUME NEW t \in Tiers PROVE allies'[d].left[t] = SumOver(OfTier(t)', A')
  <2>1. \A other \in Pairs : OfTier(t)'[other] = OfTier(t)[other]
    BY <1>1, <1>2 DEF OfTier
  <2>2. \A other \in Pairs : OfTier(t)[other] \in Nat
    BY TierTypes
  <2>3. allies[d].left[t] = SumOver(OfTier(t), A)
    BY DEF Intact, OfTier
  <2>4. allies'[d].left[t] = allies[d].left[t] + OfTier(t)[pair]
    BY <1>5 DEF Plus, OfTier
  <2> HIDE DEF A, d
  <2>5. IsFiniteSet(A \cup {pair}) /\ (A \cup {pair}) \ {pair} = A
    BY <1>3, <1>4, FS_AddElement
  <2>6. ASSUME NEW f, \A other \in Pairs : f[other] \in Nat
        PROVE  SumOver(f, A \cup {pair}) = f[pair] + SumOver(f, A) /\ SumOver(f, A) \in Nat
    <3>1. \A other \in A \cup {pair} : f[other] \in Int
      BY <1>4, <2>6
    <3>2. SumOver(f, A \cup {pair}) = f[pair] + SumOver(f, (A \cup {pair}) \ {pair})
      BY <2>5, <3>1, SumSplit
    <3>3. \A other \in A : f[other] \in Nat
      BY <1>4, <2>6
    <3> QED BY <1>4, <2>5, <3>2, <3>3, SumNat
  <2>7. ASSUME NEW f, NEW h, \A other \in Pairs : f[other] = h[other]
        PROVE  SumOver(f, A \cup {pair}) = SumOver(h, A \cup {pair})
    BY <1>4, <2>5, <2>7, SumAgree
  <2>8. SumOver(OfTier(t)', A \cup {pair}) = SumOver(OfTier(t), A \cup {pair})
    BY <2>1, <2>7
  <2>9. /\ SumOver(OfTier(t), A \cup {pair}) = OfTier(t)[pair] + SumOver(OfTier(t), A)
        /\ SumOver(OfTier(t), A) \in Nat /\ OfTier(t)[pair] \in Nat
    BY <2>2, <2>6
  <2> QED BY <1>3, <2>3, <2>4, <2>8, <2>9
<1>7. Intact(d)'
  BY <1>6 DEF Intact, OfTier
<1>8. \A other \in A : account'[other] = account[other]
  BY <1>1, <1>3, <1>4
<1>9. \A other \in A : account[other].wounded = NoUnits
  BY DEF Unhurt, ActiveAt
<1> QED BY <1>7, <1>8, <1>9 DEF Peaceful

\* When no ally has lost a unit, what is left is what there was.
LEMMA NothingLost ==
  ASSUME TypeOK, OriginalsMatch, NEW d \in Players, Intact(d)
  PROVE  Total(allies[d].left) = allies[d].original
<1> DEFINE A == ActiveAt(d)
           m == [pair \in Pairs |-> account[pair].units]
           cols == [t \in Tiers |-> SumOver([pair \in A |-> m[pair][t]], A)]
<1>1. IsFiniteSet(A) /\ A \subseteq Pairs /\ IsFiniteSet(Tiers)
  BY SizesType, FiniteConstants
<1>2. \A pair \in A : \A t \in Tiers : m[pair][t] \in Int
  <2>1. \A pair \in Pairs : account[pair].units \in Army
    BY DEF TypeOK, ReinforcementAccount
  <2> QED BY <1>1, <2>1 DEF Army
<1>3. \A pair \in A : Sizes[pair] = SumOver(m[pair], Tiers)
  BY <1>1 DEF Sizes, Total
<1>4. SumOver(Sizes, A) = SumOver(cols, Tiers)
  <2> HIDE DEF A, m
  <2> QED BY <1>1, <1>2, <1>3, SumSwap
<1>5. \A t \in Tiers : cols[t] = allies[d].left[t]
  <2> SUFFICES ASSUME NEW t \in Tiers PROVE cols[t] = allies[d].left[t]
    OBVIOUS
  <2> DEFINE f == [pair \in A |-> m[pair][t]]
  <2>1. allies[d].left[t] = SumOver(OfTier(t), A)
    BY DEF Intact, OfTier
  <2>2. \A pair \in A : f[pair] = OfTier(t)[pair]
    BY <1>1 DEF OfTier
  <2>3. cols[t] = SumOver(f, A)
    OBVIOUS
  <2> HIDE DEF f, A, cols
  <2>4. SumOver(f, A) = SumOver(OfTier(t), A)
    BY <1>1, <2>2, SumAgree
  <2> QED BY <2>1, <2>3, <2>4
<1>6. SumOver(cols, Tiers) = SumOver(allies[d].left, Tiers)
  <2> HIDE DEF cols
  <2> QED BY <1>1, <1>5, SumAgree
<1>7. allies[d].original = SumOver(Sizes, A)
  BY MatchEach DEF Matches
<1> QED BY <1>4, <1>6, <1>7 DEF Total

\* And then the share of an army is the army.
LEMMA ShareWhole ==
  ASSUME TypeOK, OriginalsMatch, NEW pair \in Pairs, Intact(pair[2])
  PROVE  Share(pair) = account[pair].units
<1> DEFINE d == pair[2]
           O == allies[d].original
<1>1. d \in Players /\ O \in Nat /\ account[pair].units \in Army
  BY PairType, StateTypes
<1>2. ASSUME NEW n \in Nat, NEW k \in Nat, k > 0 PROVE (n * k) \div k = n
  BY <1>2
<1>3. SurvivalRatio(d) = BASIS_POINTS
  <2>1. CASE O > 0
    <3>1. SurvivalRatio(d) = (O * BASIS_POINTS) \div O
      BY <1>1, <2>1, NothingLost DEF SurvivalRatio
    <3> HIDE DEF O
    <3>2. O * BASIS_POINTS = BASIS_POINTS * O /\ BASIS_POINTS \in Nat
      BY <1>1 DEF BASIS_POINTS
    <3> QED BY <1>1, <1>2, <2>1, <3>1, <3>2
  <2>2. CASE ~(O > 0)
    BY <2>2 DEF SurvivalRatio
  <2> QED BY <2>1, <2>2
<1>4. \A t \in Tiers : Share(pair)[t] = account[pair].units[t]
  <2> SUFFICES ASSUME NEW t \in Tiers PROVE Share(pair)[t] = account[pair].units[t]
    OBVIOUS
  <2>1. account[pair].units[t] \in Nat
    BY <1>1 DEF Army
  <2>2. Share(pair)[t] = (account[pair].units[t] * BASIS_POINTS) \div BASIS_POINTS
    BY <1>3 DEF Share
  <2> QED BY <1>2, <2>1, <2>2 DEF BASIS_POINTS
<1>5. Share(pair) \in Army
  BY ShareTypes
<1> QED BY <1>1, <1>4, <1>5 DEF Army

\* An army taken home in peace goes whole, and leaves the others whole.
LEMMA PeaceTakenHome ==
  ASSUME TypeOK, OriginalsMatch, Unhurt, NEW pair \in Pairs,
         RecallActive(pair) \/ Relieve(pair), Intact(pair[2])
  PROVE  Peaceful(pair[2])
<1> DEFINE d == pair[2]
           A == ActiveAt(d)
           army == account[pair].units
<1>1. /\ d \in Players /\ army \in Army /\ account[pair] \in ReinforcementAccount
      /\ IsFiniteSet(A) /\ A \subseteq Pairs /\ allies[d].left \in Army
  BY PairType, StateTypes, SizesType
<1>2. Share(pair) = army
  BY ShareWhole
<1>3. /\ account[pair].status = "Active"
      /\ account[pair].wounded = NoUnits
      /\ allies' = [allies EXCEPT ![d] = TakeOut(pair)]
  BY DEF RecallActive, Relieve, Unhurt
<1>4. Minus(army, army) = NoUnits
  <2>1. \A t \in Tiers : army[t] \in Nat
    BY <1>1 DEF Army
  <2> HIDE DEF army
  <2> QED BY <2>1 DEF Minus, NoUnits, SatSub
<1>5. account' = [account EXCEPT ![pair] = TurnRound(account[pair], army, NoUnits)]
  <2>1. CASE RecallActive(pair)
    BY <1>2, <1>4, <2>1 DEF RecallActive
  <2>2. CASE Relieve(pair)
    BY <1>2, <1>3, <2>2 DEF Relieve
  <2> QED BY <2>1, <2>2
<1>6. /\ account'[pair].status = "Returning" /\ account'[pair].units = army
      /\ account'[pair].wounded = NoUnits
      /\ \A other \in Pairs : other # pair => account'[other] = account[other]
  <2>1. NoUnits \in Army
    BY <1>1, ArmyTypes
  <2> DEFINE a == TurnRound(account[pair], army, NoUnits)
  <2>2. a.status = "Returning" /\ a.units = army
    <3>1. account[pair] \in ReinforcementAccount /\ army \in Army
      BY <1>1
    <3> HIDE DEF army
    <3> QED BY <2>1, <3>1, TurnRoundType
  <2>3. a.wounded = NoUnits
    BY <1>1 DEF TurnRound, ReinforcementAccount
  <2> HIDE DEF a
  <2>4. /\ account'[pair] = a
        /\ \A other \in Pairs : other # pair => account'[other] = account[other]
    BY <1>5 DEF TypeOK, a
  <2> QED BY <2>2, <2>3, <2>4
<1>7. A' = A \ {pair} /\ pair \in A
  BY <1>3, <1>6 DEF ActiveAt
<1>8. allies'[d].left = Minus(allies[d].left, army)
  BY <1>1, <1>2, <1>3 DEF TakeOut, TypeOK
<1> HIDE DEF army
<1>9. ASSUME NEW t \in Tiers PROVE allies'[d].left[t] = SumOver(OfTier(t)', A')
  <2>1. \A other \in A : OfTier(t)[other] \in Nat
    BY <1>1, TierTypes
  <2>2. allies[d].left[t] = SumOver(OfTier(t), A)
    BY DEF Intact, OfTier
  <2>3. allies'[d].left[t] = SatSub(allies[d].left[t], OfTier(t)[pair])
    BY <1>8 DEF Minus, OfTier, army
  <2>4. \A other \in A \ {pair} : OfTier(t)[other] = OfTier(t)'[other]
    BY <1>1, <1>6 DEF OfTier
  <2> HIDE DEF A, d
  <2>5. IsFiniteSet(A \ {pair})
    BY <1>1, FS_RemoveElement
  <2>6. SumOver(OfTier(t), A) = OfTier(t)[pair] + SumOver(OfTier(t), A \ {pair})
    <3>1. ASSUME NEW f, \A other \in A : f[other] \in Nat
          PROVE  SumOver(f, A) = f[pair] + SumOver(f, A \ {pair})
      <4>1. \A other \in A : f[other] \in Int
        BY <3>1
      <4> QED BY <1>1, <1>7, <4>1, SumSplit
    <3> QED BY <2>1, <3>1
  <2>7. SumOver(OfTier(t), A \ {pair}) \in Nat /\ OfTier(t)[pair] \in Nat
    <3>1. ASSUME NEW f, \A other \in A : f[other] \in Nat
          PROVE  SumOver(f, A \ {pair}) \in Nat
      BY <2>5, <3>1, SumNat
    <3> QED BY <1>7, <2>1, <3>1
  <2>8. SumOver(OfTier(t), A \ {pair}) = SumOver(OfTier(t)', A \ {pair})
    <3>1. ASSUME NEW f, NEW h, \A other \in A \ {pair} : f[other] = h[other]
          PROVE  SumOver(f, A \ {pair}) = SumOver(h, A \ {pair})
      BY <2>5, <3>1, SumAgree
    <3> QED BY <2>4, <3>1
  <2>9. allies'[d].left[t] = SumOver(OfTier(t), A \ {pair})
    <3> DEFINE x == OfTier(t)[pair]
               y == SumOver(OfTier(t), A \ {pair})
    <3>1. allies'[d].left[t] = SatSub(x + y, x)
      BY <2>2, <2>3, <2>6
    <3>2. x \in Nat /\ y \in Nat
      BY <2>7
    <3> HIDE DEF x, y
    <3>3. SatSub(x + y, x) = y
      BY <3>2 DEF SatSub
    <3> QED BY <3>1, <3>3 DEF y
  <2> QED BY <1>7, <2>8, <2>9
<1>10. Intact(d)'
  BY <1>9 DEF Intact, OfTier
<1>11. \A other \in A : account[other].wounded = NoUnits
  BY DEF Unhurt, ActiveAt
<1>12. \A other \in A : account'[other].units = account[other].units
                        /\ account'[other].wounded = NoUnits
  BY <1>1, <1>6, <1>11 DEF army
<1> QED BY <1>10, <1>12 DEF Peaceful

\* Every step keeps armies whole where nothing was lost.
LEMMA PeaceNext ==
  ASSUME TypeOK, OriginalsMatch, Unhurt, [Next]_vars, NEW d \in Players, Intact(d)
  PROVE  Attacked(d) \/ Peaceful(d)
<1>1. CASE Tick \/ UNCHANGED vars
  <2>1. allies' = allies /\ account' = account
    BY <1>1 DEF Tick, vars
  <2> QED BY <2>1, PeaceElsewhere
<1>2. ASSUME NEW e \in Players, Attacked(e) PROVE Attacked(d) \/ Peaceful(d)
  <2>1. CASE e # d
    <3>1. account' = account /\ allies'[d].left = allies[d].left
      BY <1>2, <2>1 DEF Attacked, Defend, TypeOK
    <3> QED BY <3>1, PeaceElsewhere
  <2> QED BY <1>2, <2>1
<1>3. ASSUME NEW pair \in Pairs, pair \notin ActiveAt(d), pair \notin ActiveAt(d)',
             \A other \in Pairs \ {pair} : account'[other] = account[other],
             allies'[d].left = allies[d].left
      PROVE  Peaceful(d)
  BY <1>3, PeaceElsewhere
<1>4. ASSUME NEW pair \in Pairs, NEW a, account' = [account EXCEPT ![pair] = a],
             account[pair].status # "Active" \/ pair[2] # d,
             a.status # "Active" \/ pair[2] # d, allies'[d] = allies[d]
      PROVE  Peaceful(d)
  <2>1. /\ account'[pair] = a
        /\ \A other \in Pairs \ {pair} : account'[other] = account[other]
    BY <1>4 DEF TypeOK
  <2>2. pair \notin ActiveAt(d) /\ pair \notin ActiveAt(d)'
    BY <1>4, <2>1 DEF ActiveAt
  <2> QED BY <1>3, <1>4, <2>1, <2>2
<1>5. ASSUME NEW pair \in Pairs, NEW army, NEW journey, Send(pair, army, journey)
      PROVE  Peaceful(d)
  <2> DEFINE a == [NoAccount EXCEPT !.status = "Traveling", !.units = army,
                                    !.journey = journey, !.arrives_at = now + journey]
  <2>1. /\ account' = [account EXCEPT ![pair] = a] /\ allies' = allies
        /\ account[pair].status # "Active"
    BY <1>5 DEF Send
  <2>2. a.status # "Active"
    BY DEF NoAccount
  <2> HIDE DEF a
  <2> QED BY <1>4, <2>1, <2>2
<1>6. ASSUME NEW pair \in Pairs, ProcessArrival(pair) PROVE Peaceful(d)
  <2>1. CASE pair[2] = d
    BY <1>6, <2>1, PeaceArrival
  <2>2. CASE pair[2] # d
    <3> DEFINE a == [account[pair] EXCEPT !.status = "Active"]
    <3>1. account' = [account EXCEPT ![pair] = a] /\ allies'[d] = allies[d]
      BY <1>6, <2>2 DEF ProcessArrival, TypeOK
    <3> HIDE DEF a
    <3> QED BY <1>4, <2>2, <3>1
  <2> QED BY <2>1, <2>2
<1>7. ASSUME NEW pair \in Pairs, RecallTraveling(pair) PROVE Peaceful(d)
  <2> DEFINE a == TurnRound(account[pair], account[pair].units, account[pair].wounded)
  <2>1. /\ account' = [account EXCEPT ![pair] = a] /\ allies' = allies
        /\ account[pair].status # "Active"
    BY <1>7 DEF RecallTraveling
  <2>2. a.status # "Active"
    BY TurnRoundStatus
  <2> HIDE DEF a
  <2> QED BY <1>4, <2>1, <2>2
<1>8. ASSUME NEW pair \in Pairs, RecallActive(pair) \/ Relieve(pair) PROVE Peaceful(d)
  <2>1. CASE pair[2] = d
    BY <1>8, <2>1, PeaceTakenHome
  <2>2. CASE pair[2] # d
    <3>1. /\ \E a : account' = [account EXCEPT ![pair] = a]
          /\ allies'[d] = allies[d]
      BY <1>8, <2>2 DEF RecallActive, Relieve, TypeOK
    <3> QED BY <1>4, <2>2, <3>1
  <2> QED BY <2>1, <2>2
<1>9. ASSUME NEW pair \in Pairs,
             \E estate \in EstateAccounts : ProcessReturn(pair, estate)
      PROVE  Peaceful(d)
  <2>1. /\ account' = [account EXCEPT ![pair] = NoAccount] /\ allies' = allies
        /\ account[pair].status # "Active"
    BY <1>9 DEF ProcessReturn, Closed
  <2>2. NoAccount.status # "Active"
    BY DEF NoAccount
  <2> QED BY <1>4, <2>1, <2>2
<1>10. ASSUME NEW pair \in Pairs, NEW tier, SpeedupTraveling(pair, tier) PROVE Peaceful(d)
  <2> DEFINE u == now + RemainingAfter(account[pair].arrives_at - now, tier)
             a == [account[pair] EXCEPT !.arrives_at = u]
  <2>1. /\ account' = [account EXCEPT ![pair] = a] /\ allies' = allies
        /\ account[pair].status # "Active"
    BY <1>10 DEF SpeedupTraveling
  <2> HIDE DEF u
  <2>2. a.status # "Active"
    BY <2>1 DEF TypeOK, ReinforcementAccount
  <2> HIDE DEF a
  <2> QED BY <1>4, <2>1, <2>2
<1>11. ASSUME NEW pair \in Pairs, NEW tier, SpeedupReturning(pair, tier) PROVE Peaceful(d)
  <2> DEFINE b == account[pair]
             remaining == b.return_started_at + b.return_duration - now
             u == now - b.return_started_at + RemainingAfter(remaining, tier)
             a == [account[pair] EXCEPT !.return_duration = u]
  <2>1. /\ account' = [account EXCEPT ![pair] = a] /\ allies' = allies
        /\ account[pair].status # "Active"
    BY <1>11 DEF SpeedupReturning
  <2> HIDE DEF u
  <2>2. a.status # "Active"
    BY <2>1 DEF TypeOK, ReinforcementAccount
  <2> HIDE DEF a
  <2> QED BY <1>4, <2>1, <2>2
<1> QED BY <1>1, <1>2, <1>5, <1>6, <1>7, <1>8, <1>9, <1>10, <1>11 DEF Next, Recall

\* As long as nobody attacks it, a destination gives every ally back the army
\* it lent, to the unit: the survival ratio is exact when nothing was lost.
THEOREM PeaceKept == Spec => PeaceKeepsArmies
<1> DEFINE Kept == \A d \in Players : Intact(d) => Attacked(d) \/ Peaceful(d)
<1>1. Init => Unhurt
  BY DEF Init, Unhurt, NoAccount
<1>2. TypeOK /\ Unhurt /\ [Next]_vars => Unhurt'
  BY UnhurtNext
<1>3. TypeOK /\ OriginalsMatch /\ Unhurt /\ [Next]_vars => Kept
  BY PeaceNext
<1>4. Kept => \A d \in Players : Intact(d) =>
          \/ Attacked(d)
          \/ /\ Intact(d)'
             /\ \A pair \in ActiveAt(d) :
                   account'[pair].units = account[pair].units
                   /\ account'[pair].wounded = NoUnits
  BY DEF Peaceful
<1> HIDE DEF Kept
<1> QED BY <1>1, <1>2, <1>3, <1>4, TypeCorrect, OriginalsCorrect, PTL
        DEF Spec, PeaceKeepsArmies

=============================================================================

----------------------------- MODULE RallyProofs -----------------------------
(***************************************************************************)
(* Theorems about Rally, for every value of its constants: its types, who  *)
(* marched and what it cost, that Rally implements ArmyCustody, that its   *)
(* counters tell the truth, and that no rally hands out more loot than its *)
(* target gave up.                                                         *)
(***************************************************************************)
EXTENDS Rally, SumsProofs

-----------------------------------------------------------------------------
(* Arithmetic *)

\* A saturating increment of a byte stays within the byte.
LEMMA SatIncType ==
  ASSUME NEW n \in 0 .. U8Max
  PROVE  SatInc(n) \in 0 .. U8Max /\ SatInc(n) >= n
BY RallyAssumption DEF SatInc

\* A saturating difference of natural numbers is one, and is no larger than its minuend.
LEMMA SatSubType ==
  ASSUME NEW m \in Nat, NEW n \in Nat
  PROVE  SatSub(m, n) \in Nat /\ SatSub(m, n) <= m
BY DEF SatSub

(* What a set of armies adds up to, and that it is no less than any of them. *)
LEMMA ArmyType ==
  ASSUME AccountsOK, NEW r \in Rallies, NEW S \in SUBSET Players
  PROVE  Army(r, S) \in Nat
<1> DEFINE f == [p \in Players |-> part[r][p].units_committed]
<1>1. IsFiniteSet(S)
  BY RallyAssumption, FS_Subset
<1>2. \A p \in S : f[p] \in Nat
  BY DEF AccountsOK, RallyParticipant
<1> HIDE DEF f
<1>3. SumOver(f, S) \in Nat
  BY <1>1, <1>2, SumNat
<1> QED BY <1>3 DEF Army, f

-----------------------------------------------------------------------------
(* Type correctness *)

\* The program starts well typed.
LEMMA InitType == Init => AccountsOK
BY RallyAssumption DEF Init, AccountsOK, NoRally, NoParticipant, RallyAccount, RallyParticipant, Status

\* The passing of time keeps the types.
LEMMA TickType == AccountsOK /\ Tick => AccountsOK'
BY RallyAssumption DEF Tick, AccountsOK, RallyAccount, RallyParticipant

(* The accounts of the state are well formed, one at a time. *)
LEMMA AccountTypes ==
  ASSUME AccountsOK, NEW r \in Rallies, NEW p \in Players
  PROVE  /\ rally[r] \in RallyAccount
         /\ rally[r].participant_count \in 0 .. U8Max
         /\ rally[r].returned_count \in 0 .. U8Max
         /\ part[r][p] \in RallyParticipant
         /\ part[r][p].travel_started_at <= now
         /\ part[r][p].return_started_at <= now
         /\ part[r][p].open => part[r][p].units_committed > 0
         /\ ~part[r][p].open => part[r][p] = NoParticipant
<1>1. rally[r] \in RallyAccount /\ part[r][p] \in RallyParticipant
  BY DEF AccountsOK
<1>2. rally[r].participant_count \in Nat /\ rally[r].returned_count \in Nat
  BY <1>1 DEF RallyAccount
<1> QED BY <1>1, <1>2 DEF AccountsOK

(* The forms in which the actions rewrite an account, and their types. *)
Opened(t, m, n) ==
    [NoRally("Gathering") EXCEPT !.gather_at = t, !.participant_count = 1,
                                 !.arrived_count = m, !.total_units = n]
Recounted(acc, k, m, n) ==
    [acc EXCEPT !.participant_count = k, !.arrived_count = m, !.total_units = n]
Enlisted(n, t, u, b) ==
    [NoParticipant EXCEPT !.open = TRUE, !.units_committed = n,
                          !.travel_started_at = t, !.arrives_at_rally = u,
                          !.arrived_at_rally = b]

\* A rally account that create opens is well formed.
LEMMA OpenedType ==
  ASSUME NEW t \in Nat, NEW m \in Nat, NEW n \in Nat
  PROVE  /\ Opened(t, m, n) \in RallyAccount
         /\ Opened(t, m, n).participant_count = 1
         /\ Opened(t, m, n).returned_count = 0
<1>1. NoRally("Gathering") \in RallyAccount /\ NoRally("Gathering").returned_count = 0
  BY DEF NoRally, RallyAccount, Status
<1> QED BY <1>1 DEF Opened, RallyAccount

\* A rally account stays well formed when its members and totals are counted anew.
LEMMA RecountedType ==
  ASSUME NEW acc \in RallyAccount, NEW k \in Nat, NEW m \in Nat, NEW n \in Nat
  PROVE  /\ Recounted(acc, k, m, n) \in RallyAccount
         /\ Recounted(acc, k, m, n).participant_count = k
         /\ Recounted(acc, k, m, n).returned_count = acc.returned_count
BY DEF RallyAccount, Recounted

\* The participant account of an army that joins is well formed.
LEMMA EnlistedType ==
  ASSUME NEW n \in Nat, NEW t \in Nat, NEW u \in Nat, NEW b \in BOOLEAN
  PROVE  /\ Enlisted(n, t, u, b) \in RallyParticipant
         /\ Enlisted(n, t, u, b).open
         /\ Enlisted(n, t, u, b).units_committed = n
         /\ Enlisted(n, t, u, b).travel_started_at = t
         /\ Enlisted(n, t, u, b).return_started_at = 0
<1>1. NoParticipant \in RallyParticipant /\ NoParticipant.return_started_at = 0
  BY DEF NoParticipant, RallyParticipant
<1> QED BY <1>1 DEF Enlisted, RallyParticipant

\* The account of an army that starts for home is well formed.
LEMMA SetOutType ==
  ASSUME NEW a \in RallyParticipant, now \in Nat, NEW d \in Nat
  PROVE  /\ SetOut(a, d) \in RallyParticipant
         /\ SetOut(a, d).open = a.open
         /\ SetOut(a, d).units_committed = a.units_committed
         /\ SetOut(a, d).travel_started_at = a.travel_started_at
         /\ SetOut(a, d).return_started_at = now
BY DEF RallyParticipant, SetOut

\* Taking an army off the totals of a rally leaves its account well formed.
LEMMA WithdrawType ==
  ASSUME AccountsOK, NEW r \in Rallies, NEW p \in Players
  PROVE  /\ Withdraw(r, part[r][p]) \in RallyAccount
         /\ Withdraw(r, part[r][p]).participant_count <= U8Max
         /\ Withdraw(r, part[r][p]).returned_count <= U8Max
<1> DEFINE acc == rally[r]
           a == part[r][p]
           k == SatSub(acc.participant_count, 1)
           m == IF AtRallyPoint(a) THEN SatSub(acc.arrived_count, 1) ELSE acc.arrived_count
           n == SatSub(acc.total_units, a.units_committed)
<1>1. /\ acc \in RallyAccount /\ acc.participant_count \in 0 .. U8Max
      /\ acc.returned_count <= U8Max
      /\ acc.arrived_count \in Nat /\ acc.total_units \in Nat
      /\ a.units_committed \in Nat
  BY AccountTypes DEF RallyAccount, RallyParticipant
<1>2. k \in Nat /\ k <= U8Max /\ m \in Nat /\ n \in Nat
  <2> HIDE DEF acc, a
  <2>1. 1 \in Nat /\ U8Max \in Nat /\ acc.participant_count \in Nat
        /\ acc.participant_count <= U8Max
    BY <1>1, RallyAssumption
  <2>2. k \in Nat /\ k <= U8Max
    BY <2>1 DEF SatSub
  <2>3. m \in Nat
    BY <1>1, <2>1, SatSubType
  <2>4. n \in Nat
    BY <1>1, SatSubType
  <2> QED BY <2>2, <2>3, <2>4
<1>3. Withdraw(r, part[r][p]) = Recounted(acc, k, m, n)
  BY DEF Withdraw, Recounted
<1> HIDE DEF acc, a, k, m, n
<1>4. /\ Recounted(acc, k, m, n) \in RallyAccount
      /\ Recounted(acc, k, m, n).participant_count = k
      /\ Recounted(acc, k, m, n).returned_count = acc.returned_count
  <2>1. acc \in RallyAccount /\ k \in Nat /\ m \in Nat /\ n \in Nat
    BY <1>1, <1>2
  <2> QED BY <2>1, RecountedType
<1> QED BY <1>1, <1>2, <1>3, <1>4

(* A step that changes one participant account and one rally account keeps the
   types if the new accounts are well formed. *)
\* The accounts written by the instructions have their types.
LEMMA AccountsType ==
  ASSUME AccountsOK, NEW r \in Rallies, NEW p \in Players,
         NEW acc \in RallyAccount, NEW a \in RallyParticipant,
         acc.participant_count <= U8Max, acc.returned_count <= U8Max,
         IF a.open THEN a.units_committed > 0 ELSE a = NoParticipant,
         a.travel_started_at <= now, a.return_started_at <= now,
         now' = now,
         rally' = [rally EXCEPT ![r] = acc],
         part' = [part EXCEPT ![r][p] = a],
         units' \in [Players -> Nat], wounded' \in [Players -> 0 .. U32Max],
         joined' \in [Players -> 0 .. U8Max],
         gems' \in [Players -> Nat], loot' \in [Players -> Nat]
  PROVE  AccountsOK'
<1>1. rally' \in [Rallies -> RallyAccount]
  BY DEF AccountsOK
<1>2. part' \in [Rallies -> [Players -> RallyParticipant]]
  BY DEF AccountsOK
<1>3. ASSUME NEW s \in Rallies
      PROVE  rally'[s].participant_count <= U8Max /\ rally'[s].returned_count <= U8Max
  BY DEF AccountsOK
<1>4. ASSUME NEW s \in Rallies, NEW q \in Players
      PROVE  /\ IF part'[s][q].open THEN part'[s][q].units_committed > 0
                                    ELSE part'[s][q] = NoParticipant
             /\ part'[s][q].travel_started_at <= now'
             /\ part'[s][q].return_started_at <= now'
  <2>1. part'[s][q] = IF s = r /\ q = p THEN a ELSE part[s][q]
    BY DEF AccountsOK
  <2> QED BY <2>1 DEF AccountsOK
<1> QED BY <1>1, <1>2, <1>3, <1>4 DEF AccountsOK

\* Handing an army to a rally, in create or join, keeps the types.
LEMMA CommitType ==
  ASSUME AccountsOK, NEW r \in Rallies, NEW p \in Players, NEW n \in CommitSizes,
         Commit(r, p, n), NEW acc \in RallyAccount,
         acc.participant_count <= U8Max, acc.returned_count <= U8Max,
         rally' = [rally EXCEPT ![r] = acc]
  PROVE  AccountsOK'
<1> DEFINE a == NewParticipant(r, p, n)
           u == now + TravelTo[r][p]
           b == (TravelTo[r][p] = 0)
<1>1. n \in Nat /\ n > 0 /\ now \in Nat /\ u \in Nat /\ b \in BOOLEAN
  <2>1. n \in Nat /\ n > 0 /\ TravelTo[r][p] \in Nat /\ now \in Nat
    <3>1. n \in Nat /\ n > 0
      BY RallyAssumption
    <3>2. TravelTo[r][p] \in Nat
      BY RallyAssumption
    <3>3. now \in Nat
      BY RallyAssumption DEF AccountsOK
    <3> QED BY <3>1, <3>2, <3>3
  <2> QED BY <2>1
<1>2. a = Enlisted(n, now, u, b)
  BY DEF NewParticipant, Enlisted
<1>3. /\ a \in RallyParticipant
      /\ a.open /\ a.units_committed > 0
      /\ a.travel_started_at <= now /\ a.return_started_at <= now
  <2> HIDE DEF a, u, b
  <2> QED BY <1>1, <1>2, EnlistedType
<1>4. units' \in [Players -> Nat] /\ joined' \in [Players -> 0 .. U8Max]
  BY <1>1, RallyAssumption DEF Commit, AccountsOK, SatInc
<1>5. /\ now' = now /\ part' = [part EXCEPT ![r][p] = a]
      /\ wounded' \in [Players -> 0 .. U32Max] /\ gems' \in [Players -> Nat]
      /\ loot' \in [Players -> Nat]
  BY DEF Commit, AccountsOK
<1> HIDE DEF a
<1> QED BY <1>3, <1>4, <1>5, AccountsType

\* create keeps the types.
LEMMA CreateType ==
  ASSUME AccountsOK, NEW r \in Rallies, NEW n \in CommitSizes, NEW d \in GatherDurations,
         Create(r, n, d)
  PROVE  AccountsOK'
<1> DEFINE p == LeaderOf[r]
           m == IF TravelTo[r][p] = 0 THEN 1 ELSE 0
           acc == Opened(now + d, m, n)
<1>1. now + d \in Nat /\ m \in Nat /\ n \in Nat /\ U8Max \in Nat \ {0}
  BY RallyAssumption DEF AccountsOK
<1>2. acc \in RallyAccount /\ acc.participant_count <= U8Max /\ acc.returned_count <= U8Max
  <2> HIDE DEF m
  <2> QED BY <1>1, OpenedType
<1>3. Commit(r, p, n) /\ rally' = [rally EXCEPT ![r] = acc] /\ p \in Players
  BY RallyAssumption DEF Create, Opened
<1> HIDE DEF acc, p
<1> QED BY <1>2, <1>3, CommitType

\* join keeps the types.
LEMMA JoinType ==
  ASSUME AccountsOK, NEW r \in Rallies, NEW p \in Players, NEW n \in CommitSizes,
         Join(r, p, n)
  PROVE  AccountsOK'
<1> DEFINE x == rally[r]
           k == SatInc(x.participant_count)
           m == IF TravelTo[r][p] = 0 THEN SatInc(x.arrived_count) ELSE x.arrived_count
           t == x.total_units + n
           acc == Admit(r, p, n)
<1>1. x \in RallyAccount /\ x.participant_count \in 0 .. U8Max
      /\ x.returned_count <= U8Max
      /\ x.arrived_count \in Nat /\ x.total_units \in Nat
  BY AccountTypes DEF RallyAccount
<1>2. k \in Nat /\ k <= U8Max /\ m \in Nat /\ t \in Nat
  <2> HIDE DEF x
  <2> QED BY <1>1, RallyAssumption DEF SatInc
<1>3. acc \in RallyAccount /\ acc.participant_count <= U8Max /\ acc.returned_count <= U8Max
  <2>a. acc = Recounted(x, k, m, t)
    BY DEF Admit, Recounted
  <2> HIDE DEF x, k, m, t, acc
  <2>1. /\ acc \in RallyAccount
        /\ acc.participant_count = k
        /\ acc.returned_count = x.returned_count
    <3>1. x \in RallyAccount /\ k \in Nat /\ m \in Nat /\ t \in Nat
      BY <1>1, <1>2
    <3>2. /\ Recounted(x, k, m, t) \in RallyAccount
          /\ Recounted(x, k, m, t).participant_count = k
          /\ Recounted(x, k, m, t).returned_count = x.returned_count
      BY <3>1, RecountedType
    <3> QED BY <2>a, <3>2
  <2> QED BY <1>1, <1>2, <2>1
<1>4. Commit(r, p, n)
  BY DEF Join
<1>5. rally' = [rally EXCEPT ![r] = acc]
  BY DEF Join
<1> HIDE DEF acc
<1> QED BY <1>3, <1>4, <1>5, CommitType

(* The time an army needs to get home is a natural number. *)
LEMMA ReturnDurationType ==
  ASSUME AccountsOK, NEW r \in Rallies, NEW p \in Players
  PROVE  ReturnDuration(r, p) \in Nat
<1>1. TravelBack[r][p] \in Nat
  BY RallyAssumption
<1>2. now \in Nat /\ part[r][p].travel_started_at \in Nat
      /\ part[r][p].travel_started_at <= now
  BY RallyAssumption, AccountTypes DEF AccountsOK, RallyParticipant
<1> QED BY <1>1, <1>2 DEF ReturnDuration

\* leave keeps the types.
LEMMA LeaveType ==
  ASSUME AccountsOK, NEW r \in Rallies, NEW p \in Players, Leave(r, p)
  PROVE  AccountsOK'
<1> DEFINE acc == Withdraw(r, part[r][p])
           a == SetOut(part[r][p], ReturnDuration(r, p))
<1>1. acc \in RallyAccount /\ acc.participant_count <= U8Max /\ acc.returned_count <= U8Max
  BY WithdrawType
<1>2. /\ part[r][p] \in RallyParticipant /\ part[r][p].open
      /\ part[r][p].units_committed > 0 /\ part[r][p].travel_started_at <= now
      /\ now \in Nat /\ ReturnDuration(r, p) \in Nat
  BY AccountTypes, ReturnDurationType, RallyAssumption DEF Leave, AccountsOK
<1>3. /\ a \in RallyParticipant
      /\ a.open /\ a.units_committed > 0
      /\ a.travel_started_at <= now /\ a.return_started_at <= now
  <2>1. /\ a \in RallyParticipant /\ a.open = part[r][p].open
        /\ a.units_committed = part[r][p].units_committed
        /\ a.travel_started_at = part[r][p].travel_started_at
        /\ a.return_started_at = now
    BY <1>2, SetOutType
  <2> HIDE DEF a
  <2> QED BY <1>2, <2>1
<1>4. now' = now /\ rally' = [rally EXCEPT ![r] = acc]
  BY DEF Leave
<1>5. part' = [part EXCEPT ![r][p] = a]
  BY DEF Leave
<1>6. /\ units' \in [Players -> Nat] /\ joined' \in [Players -> 0 .. U8Max]
      /\ wounded' \in [Players -> 0 .. U32Max] /\ gems' \in [Players -> Nat]
      /\ loot' \in [Players -> Nat]
  BY DEF Leave, AccountsOK
<1> HIDE DEF acc, a
<1> QED BY <1>1, <1>2, <1>3, <1>4, <1>5, <1>6, AccountsType

\* cancel keeps the types.
LEMMA CancelType ==
  ASSUME AccountsOK, NEW r \in Rallies, Cancel(r)
  PROVE  AccountsOK'
<1> DEFINE p == LeaderOf[r]
           back == IF AtRallyPoint(part[r][p]) THEN TravelTo[r][p]
                   ELSE now - part[r][p].travel_started_at
           acc == [rally[r] EXCEPT !.status = "Cancelled"]
           a == SetOut(part[r][p], back)
<1>1. p \in Players
  BY RallyAssumption
<1>2. acc \in RallyAccount /\ acc.participant_count <= U8Max /\ acc.returned_count <= U8Max
  BY <1>1, AccountTypes DEF RallyAccount, Status
<1>3. /\ part[r][p] \in RallyParticipant /\ part[r][p].open
      /\ part[r][p].units_committed > 0 /\ part[r][p].travel_started_at <= now
      /\ now \in Nat
  BY <1>1, AccountTypes, RallyAssumption DEF Cancel, AccountsOK
<1>4. back \in Nat
  BY <1>1, <1>3, RallyAssumption DEF RallyParticipant
<1>5. now' = now /\ rally' = [rally EXCEPT ![r] = acc]
  BY DEF Cancel
<1>6. part' = [part EXCEPT ![r][p] = a]
  BY DEF Cancel
<1>7. /\ units' \in [Players -> Nat] /\ joined' \in [Players -> 0 .. U8Max]
      /\ wounded' \in [Players -> 0 .. U32Max] /\ gems' \in [Players -> Nat]
      /\ loot' \in [Players -> Nat]
  <2>1. joined' = [joined EXCEPT ![p] = SatSub(joined[p], 1)]
    BY DEF Cancel
  <2>2. joined[p] \in 0 .. U8Max
    BY <1>1 DEF AccountsOK
  <2>3. U8Max \in Nat
    BY RallyAssumption
  <2>4. SatSub(joined[p], 1) \in 0 .. U8Max
    BY <2>2, <2>3 DEF SatSub
  <2>5. joined' \in [Players -> 0 .. U8Max]
    BY <2>1, <2>4 DEF AccountsOK
  <2> QED BY <2>5 DEF Cancel, AccountsOK
<1> HIDE DEF back, p
<1>8. /\ a \in RallyParticipant
      /\ a.open /\ a.units_committed > 0
      /\ a.travel_started_at <= now /\ a.return_started_at <= now
  <2>1. /\ a \in RallyParticipant /\ a.open = part[r][p].open
        /\ a.units_committed = part[r][p].units_committed
        /\ a.travel_started_at = part[r][p].travel_started_at
        /\ a.return_started_at = now
    BY <1>3, <1>4, SetOutType
  <2> HIDE DEF a
  <2> QED BY <1>3, <2>1
<1> HIDE DEF acc, a
<1> QED BY <1>1, <1>2, <1>5, <1>6, <1>7, <1>8, AccountsType

-----------------------------------------------------------------------------
(* Type correctness of the battle and of the way home *)

\* What a participant contributes to a battle is a natural number.
LEMMA ContributionType ==
  ASSUME AccountsOK, NEW r \in Rallies, NEW p \in Players
  PROVE  /\ Contribution(r, p) \in Nat
         /\ part[r][p].units_committed \in Nat
         /\ Contribution(r, p) >= part[r][p].units_committed
<1>1. Arms[p] \in Nat
  BY RallyAssumption
<1>2. part[r][p].units_committed \in Nat
  BY AccountTypes DEF RallyParticipant
<1> QED BY <1>1, <1>2 DEF Contribution

\* What the marchers contribute together is a natural number.
LEMMA PowerType ==
  ASSUME AccountsOK, NEW r \in Rallies, NEW S \in SUBSET Players, NEW p \in S
  PROVE  Power(r, S) \in Nat /\ Power(r, S) >= Contribution(r, p)
<1> DEFINE f == [q \in Players |-> Contribution(r, q)]
<1>1. IsFiniteSet(S) /\ IsFiniteSet(S \ {p})
  BY RallyAssumption, FS_Subset
<1>2. \A q \in S : f[q] \in Nat /\ f[q] \in Int
  BY ContributionType
<1>3. f[p] = Contribution(r, p) /\ Power(r, S) = SumOver(f, S)
  BY DEF Power
<1> HIDE DEF f
<1>4. SumOver(f, S) = f[p] + SumOver(f, S \ {p})
  BY <1>1, <1>2, SumSplit
<1>5. SumOver(f, S \ {p}) \in Nat /\ SumOver(f, S) \in Nat
  BY <1>1, <1>2, SumNat
<1>6. SumOver(f, S) >= f[p]
  BY <1>2, <1>4, <1>5
<1> QED BY <1>3, <1>5, <1>6

\* A participant's share of the casualties is a natural number.
LEMMA CasualtyShareType ==
  ASSUME AccountsOK, NEW r \in Rallies, NEW p \in Players,
         NEW dead \in Nat, NEW power \in Nat, power > 0
  PROVE  /\ CasualtyShare(r, p, dead, power) \in Nat
         /\ CasualtyShare(r, p, dead, power) <= part[r][p].units_committed
<1> DEFINE u == part[r][p].units_committed
           prod == dead * Contribution(r, p)
           share == prod \div power
<1>1. u \in Nat
  BY ContributionType
<1>2. prod \in Nat
  BY ContributionType, ProductNat
<1>3. share \in Nat
  <2> HIDE DEF prod
  <2> QED BY <1>2, QuotientNat
<1>4. CasualtyShare(r, p, dead, power) = IF share < u THEN share ELSE u
  BY DEF CasualtyShare
<1> HIDE DEF share, u
<1>5. (IF share < u THEN share ELSE u) \in Nat /\ (IF share < u THEN share ELSE u) <= u
  BY <1>1, <1>3
<1> QED BY <1>4, <1>5 DEF u

\* A participant's share of the loot is a natural number.
LEMMA LootShareType ==
  ASSUME AccountsOK, NEW r \in Rallies, NEW p \in Players,
         NEW pool \in Nat, NEW power \in Nat, power > 0
  PROVE  LootShare(r, p, pool, power) \in Nat
<1> DEFINE x == Contribution(r, p) * 10000
           bps == x \div power
           prod == pool * bps
<1>1. x \in Nat
  BY ContributionType
<1>2. bps \in Nat
  <2> HIDE DEF x
  <2> QED BY <1>1, QuotientNat
<1>3. prod \in Nat
  <2> HIDE DEF bps
  <2> QED BY <1>2, ProductNat
<1>4. prod \div 10000 \in Nat
  <2> HIDE DEF prod
  <2> QED BY <1>3, QuotientNat
<1> QED BY <1>4 DEF LootShare

(* What execute makes of a participant account. *)
Marched(a, c, l, t, d) ==
    [a EXCEPT !.arrived_at_rally = TRUE, !.included_in_march = TRUE,
              !.casualties = c, !.loot = l,
              !.return_started_at = t, !.return_duration = d]

\* The account of an army that has fought and starts for home is well formed.
LEMMA MarchedType ==
  ASSUME NEW a \in RallyParticipant, NEW c \in Nat, NEW l \in Nat,
         NEW t \in Nat, NEW d \in Nat
  PROVE  /\ Marched(a, c, l, t, d) \in RallyParticipant
         /\ Marched(a, c, l, t, d).open = a.open
         /\ Marched(a, c, l, t, d).units_committed = a.units_committed
         /\ Marched(a, c, l, t, d).travel_started_at = a.travel_started_at
         /\ Marched(a, c, l, t, d).arrives_at_rally = a.arrives_at_rally
         /\ Marched(a, c, l, t, d).arrived_at_rally
         /\ Marched(a, c, l, t, d).included_in_march
         /\ Marched(a, c, l, t, d).casualties = c
         /\ Marched(a, c, l, t, d).loot = l
         /\ Marched(a, c, l, t, d).return_started_at = t
BY DEF RallyParticipant, Marched

TurnedRound(a, t, d) == [a EXCEPT !.return_started_at = t, !.return_duration = d]

\* The account of an army that was too late and is turned round is well formed.
LEMMA TurnedRoundType ==
  ASSUME NEW a \in RallyParticipant, NEW t \in Nat, NEW d \in Nat
  PROVE  /\ TurnedRound(a, t, d) \in RallyParticipant
         /\ TurnedRound(a, t, d).open = a.open
         /\ TurnedRound(a, t, d).units_committed = a.units_committed
         /\ TurnedRound(a, t, d).travel_started_at = a.travel_started_at
         /\ TurnedRound(a, t, d).arrives_at_rally = a.arrives_at_rally
         /\ TurnedRound(a, t, d).arrived_at_rally = a.arrived_at_rally
         /\ TurnedRound(a, t, d).included_in_march = a.included_in_march
         /\ TurnedRound(a, t, d).casualties = a.casualties
         /\ TurnedRound(a, t, d).loot = a.loot
         /\ TurnedRound(a, t, d).return_started_at = t
BY DEF RallyParticipant, TurnedRound

(* b is the account a after a battle in which it was, or was not, a marcher. *)
FoughtWell(a, b, marcher) ==
    /\ b \in RallyParticipant
    /\ b.open = a.open
    /\ b.units_committed = a.units_committed
    /\ b.travel_started_at = a.travel_started_at
    /\ b.arrives_at_rally = a.arrives_at_rally
    /\ b.return_started_at <= now
    /\ marcher => /\ b.arrived_at_rally /\ b.included_in_march
                  /\ b.casualties <= a.units_committed
                  /\ b.return_started_at = now
    /\ ~marcher => /\ b.arrived_at_rally = a.arrived_at_rally
                   /\ b.included_in_march = a.included_in_march
                   /\ b.casualties = a.casualties
                   /\ b.loot = a.loot
    /\ ~marcher /\ a.return_started_at > 0 => b.return_started_at = a.return_started_at

(* An army that takes part in execute stays where it is in the books. *)
LEMMA FoughtType ==
  ASSUME AccountsOK, NEW r \in Rallies, NEW p \in Players, NEW M \in SUBSET Players,
         NEW dead \in Nat, NEW won \in BOOLEAN, NEW pool \in Nat,
         NEW power \in Nat, power > 0
  PROVE  FoughtWell(part[r][p], Fought(r, p, M, dead, won, pool, power), p \in M)
<1> DEFINE a == part[r][p]
           b == Fought(r, p, M, dead, won, pool, power)
           c == CasualtyShare(r, p, dead, power)
           l == IF won THEN LootShare(r, p, pool, power) ELSE a.loot
           d == TravelTo[r][p]
           e == now - a.travel_started_at
<1>1. a \in RallyParticipant
  BY AccountTypes
<1>2. /\ a.units_committed \in Nat /\ a.loot \in Nat /\ a.travel_started_at \in Nat
      /\ a.return_started_at \in Nat
  BY <1>1 DEF RallyParticipant
<1>3. now \in Nat
  BY RallyAssumption DEF AccountsOK
<1>4. a.travel_started_at <= now /\ a.return_started_at <= now
  BY AccountTypes
<1>5. e \in Nat
  <2> HIDE DEF a
  <2> QED BY <1>2, <1>3, <1>4
<1>6. c \in Nat /\ c <= a.units_committed
  BY <1>2, CasualtyShareType
<1>7. l \in Nat
  BY <1>2, LootShareType
<1>8. d \in Nat
  BY RallyAssumption
<1>9. CASE p \in M
  <2>1. b = Marched(a, c, l, now, d)
    BY <1>9 DEF Fought, Marched
  <2> HIDE DEF a, b, c, l, d
  <2>2. /\ Marched(a, c, l, now, d) \in RallyParticipant
        /\ Marched(a, c, l, now, d).open = a.open
        /\ Marched(a, c, l, now, d).units_committed = a.units_committed
        /\ Marched(a, c, l, now, d).travel_started_at = a.travel_started_at
        /\ Marched(a, c, l, now, d).arrives_at_rally = a.arrives_at_rally
        /\ Marched(a, c, l, now, d).arrived_at_rally
        /\ Marched(a, c, l, now, d).included_in_march
        /\ Marched(a, c, l, now, d).casualties = c
        /\ Marched(a, c, l, now, d).loot = l
        /\ Marched(a, c, l, now, d).return_started_at = now
    BY <1>1, <1>3, <1>6, <1>7, <1>8, MarchedType
  <2>3. now <= now
    BY <1>3
  <2> QED BY <1>6, <1>9, <2>1, <2>2, <2>3 DEF a, b, FoughtWell
<1>10. CASE p \notin M /\ a.return_started_at = 0
  <2>1. b = TurnedRound(a, now, e)
    BY <1>10 DEF Fought, TurnedRound
  <2> HIDE DEF a, b, e
  <2>2. /\ TurnedRound(a, now, e) \in RallyParticipant
        /\ TurnedRound(a, now, e).open = a.open
        /\ TurnedRound(a, now, e).units_committed = a.units_committed
        /\ TurnedRound(a, now, e).travel_started_at = a.travel_started_at
        /\ TurnedRound(a, now, e).arrives_at_rally = a.arrives_at_rally
        /\ TurnedRound(a, now, e).arrived_at_rally = a.arrived_at_rally
        /\ TurnedRound(a, now, e).included_in_march = a.included_in_march
        /\ TurnedRound(a, now, e).casualties = a.casualties
        /\ TurnedRound(a, now, e).loot = a.loot
        /\ TurnedRound(a, now, e).return_started_at = now
    BY <1>1, <1>3, <1>5, TurnedRoundType
  <2>3. now <= now /\ ~(a.return_started_at > 0)
    BY <1>3, <1>10
  <2> QED BY <1>10, <2>1, <2>2, <2>3 DEF a, b, FoughtWell
<1>11. CASE p \notin M /\ a.return_started_at # 0
  <2>1. b = a
    BY <1>11 DEF Fought
  <2> HIDE DEF b, a
  <2> QED BY <1>1, <1>4, <1>11, <2>1 DEF a, b, FoughtWell
<1> QED BY <1>9, <1>10, <1>11

\* The dead of a battle.
BattleDead(r, M, percent) == (Army(r, M) * percent) \div 100

\* The figures of a battle: those who march are participants, their contributions
\* add up to something, and the dead are a natural number.
LEMMA BattleTypes ==
  ASSUME AccountsOK, NEW r \in Rallies, NEW S \in SUBSET Out(r),
         NEW percent \in CasualtyPercents, NEW won \in BOOLEAN,
         NEW pool \in LootPools \cup {0}, Execute(r, S, percent, won, pool)
  PROVE  LET M == Marchers(r, S) IN
         /\ S \subseteq Players /\ M \subseteq S
         /\ IsFiniteSet(M) /\ Cardinality(M) \in Nat
         /\ Army(r, M) \in Nat
         /\ Power(r, M) \in Nat /\ Power(r, M) > 0
         /\ pool \in Nat
         /\ BattleDead(r, M, percent) \in Nat
<1> DEFINE M == Marchers(r, S)
           army == Army(r, M)
           power == Power(r, M)
           dead == (army * percent) \div 100
<1>1. S \subseteq Players /\ M \subseteq S
  BY DEF Out, Marchers
<1>2. IsFiniteSet(M) /\ Cardinality(M) \in Nat
  <2>1. IsFiniteSet(M)
    BY <1>1, RallyAssumption, FS_Subset
  <2> QED BY <2>1, FS_CardinalityType
<1>3. M # {}
  <2>1. Cardinality(M) >= 2
    BY DEF Execute, MIN_RALLY_PARTICIPANTS
  <2> HIDE DEF M
  <2> QED BY <1>2, <2>1, FS_EmptySet
<1>4. army \in Nat
  BY <1>1, ArmyType
<1>5. power \in Nat /\ power > 0
  <2> PICK p \in M : TRUE
    BY <1>3
  <2>1. p \in Players /\ part[r][p].open
    BY <1>1 DEF Out
  <2>2. part[r][p].units_committed > 0 /\ part[r][p].units_committed \in Nat
    BY <2>1, AccountTypes DEF RallyParticipant
  <2>3. Contribution(r, p) \in Nat /\ Contribution(r, p) >= part[r][p].units_committed
    BY <2>1, ContributionType
  <2>4. power \in Nat /\ power >= Contribution(r, p)
    BY <1>1, PowerType
  <2> HIDE DEF power
  <2> QED BY <2>2, <2>3, <2>4
<1>6. pool \in Nat /\ percent \in Nat
  BY RallyAssumption
<1>7. dead \in Nat
  <2> DEFINE x == army * percent
  <2>1. x \in Nat
    <3> HIDE DEF army
    <3> QED BY <1>4, <1>6, ProductNat
  <2> HIDE DEF x
  <2>2. x \div 100 \in Nat
    BY <2>1, QuotientNat
  <2> QED BY <2>2 DEF x
<1>8. BattleDead(r, M, percent) = dead
  BY DEF BattleDead
<1> HIDE DEF M, army, power, dead
<1> QED BY <1>1, <1>2, <1>4, <1>5, <1>6, <1>7, <1>8 DEF M, army, power

\* execute keeps the types.
LEMMA ExecuteType ==
  ASSUME AccountsOK, NEW r \in Rallies, NEW S \in SUBSET Out(r),
         NEW percent \in CasualtyPercents, NEW won \in BOOLEAN,
         NEW pool \in LootPools \cup {0}, Execute(r, S, percent, won, pool)
  PROVE  AccountsOK'
<1> DEFINE M == Marchers(r, S)
           army == Army(r, M)
           power == Power(r, M)
           dead == (army * percent) \div 100
           acc == [rally[r] EXCEPT
                     !.status = "Returning", !.marched_count = Cardinality(M),
                     !.total_units = army, !.total_loot = pool, !.attacker_won = won]
           b(p) == IF p \in S THEN Fought(r, p, M, dead, won, pool, power) ELSE part[r][p]
<1>1. S \subseteq Players /\ M \subseteq S
  BY DEF Out, Marchers
<1>2. Cardinality(M) \in Nat
  BY BattleTypes
<1>4. army \in Nat
  BY BattleTypes
<1>5. power \in Nat /\ power > 0
  BY BattleTypes
<1>6. pool \in Nat
  BY BattleTypes
<1>7. dead \in Nat
  <2>1. BattleDead(r, M, percent) \in Nat
    BY BattleTypes
  <2> QED BY <2>1 DEF BattleDead
<1>8. acc \in RallyAccount
  <2>1. rally[r] \in RallyAccount
    BY DEF AccountsOK
  <2> HIDE DEF army, M
  <2> QED BY <1>2, <1>4, <1>6, <2>1 DEF RallyAccount, Status
<1>9. acc.participant_count <= U8Max /\ acc.returned_count <= U8Max
  <2>1. /\ rally[r].participant_count <= U8Max /\ rally[r].returned_count <= U8Max
        /\ rally[r] \in RallyAccount
    BY DEF AccountsOK
  <2>2. acc.participant_count = rally[r].participant_count
        /\ acc.returned_count = rally[r].returned_count
    BY <2>1 DEF RallyAccount
  <2> QED BY <2>1, <2>2
<1>10. ASSUME NEW p \in Players
       PROVE  /\ b(p) \in RallyParticipant
              /\ IF b(p).open THEN b(p).units_committed > 0 ELSE b(p) = NoParticipant
              /\ b(p).travel_started_at <= now /\ b(p).return_started_at <= now
  <2>1. /\ part[r][p] \in RallyParticipant
        /\ part[r][p].travel_started_at <= now
        /\ part[r][p].return_started_at <= now
        /\ part[r][p].open => part[r][p].units_committed > 0
        /\ ~part[r][p].open => part[r][p] = NoParticipant
    BY AccountTypes
  <2>2. CASE p \in S
    <3> DEFINE f == Fought(r, p, M, dead, won, pool, power)
    <3>1. part[r][p].open
      BY <2>2 DEF Out
    <3>2. M \in SUBSET Players
      BY <1>1
    <3> HIDE DEF M, power, dead
    <3>3. /\ f \in RallyParticipant /\ f.open = part[r][p].open
          /\ f.units_committed = part[r][p].units_committed
          /\ f.travel_started_at = part[r][p].travel_started_at
          /\ f.return_started_at <= now
      <4>1. FoughtWell(part[r][p], f, p \in M)
        BY <1>4, <1>5, <1>6, <1>7, <3>2, FoughtType
      <4> HIDE DEF f
      <4> QED BY <4>1 DEF FoughtWell
    <3>4. b(p) = f
      BY <2>2
    <3> HIDE DEF f, b
    <3> QED BY <2>1, <3>1, <3>3, <3>4
  <2>3. CASE p \notin S
    BY <2>1, <2>3
  <2> QED BY <2>2, <2>3
<1>11. /\ rally' = [rally EXCEPT ![r] = acc]
       /\ part' = [part EXCEPT ![r] = [p \in Players |-> b(p)]]
       /\ UNCHANGED <<now, units, wounded, joined, gems, loot>>
  BY DEF Execute
<1> HIDE DEF acc, b
<1>12. rally' \in [Rallies -> RallyAccount]
  BY <1>8, <1>11 DEF AccountsOK
<1>13. part' \in [Rallies -> [Players -> RallyParticipant]]
  BY <1>10, <1>11 DEF AccountsOK
<1>14. ASSUME NEW s \in Rallies
       PROVE  rally'[s].participant_count <= U8Max /\ rally'[s].returned_count <= U8Max
  <2>1. rally'[s] = IF s = r THEN acc ELSE rally[s]
    BY <1>11 DEF AccountsOK
  <2> QED BY <1>9, <2>1 DEF AccountsOK
<1>15. ASSUME NEW s \in Rallies, NEW p \in Players
       PROVE  /\ IF part'[s][p].open THEN part'[s][p].units_committed > 0
                                     ELSE part'[s][p] = NoParticipant
              /\ part'[s][p].travel_started_at <= now'
              /\ part'[s][p].return_started_at <= now'
  <2>1. part'[s][p] = IF s = r THEN b(p) ELSE part[s][p]
    BY <1>11 DEF AccountsOK
  <2>2. now' = now
    BY <1>11
  <2> QED BY <1>10, <2>1, <2>2 DEF AccountsOK
<1> QED BY <1>11, <1>12, <1>13, <1>14, <1>15 DEF AccountsOK

(* The rally account that process_return leaves behind, in its two steps. *)
LEMMA RallyWithoutType ==
  ASSUME AccountsOK, NEW r \in Rallies, NEW p \in Players
  PROVE  /\ RallyWithout(r, p) \in RallyAccount
         /\ RallyWithout(r, p).participant_count <= U8Max
         /\ RallyWithout(r, p).returned_count <= U8Max
<1>1. CASE SettingOut(r, p) /\ rally[r].status = "Gathering"
  BY <1>1, WithdrawType DEF RallyWithout
<1>2. CASE ~(SettingOut(r, p) /\ rally[r].status = "Gathering")
  <2>1. RallyWithout(r, p) = rally[r]
    BY <1>2 DEF RallyWithout
  <2> QED BY <2>1 DEF AccountsOK
<1> QED BY <1>1, <1>2

Returned(acc, n, st) == [acc EXCEPT !.returned_count = n, !.status = st]

\* A rally account that counts an army as home is well formed.
LEMMA ReturnedType ==
  ASSUME NEW acc \in RallyAccount, NEW n \in Nat, NEW st \in Status
  PROVE  /\ Returned(acc, n, st) \in RallyAccount
         /\ Returned(acc, n, st).status = st
         /\ Returned(acc, n, st).returned_count = n
         /\ Returned(acc, n, st).participant_count = acc.participant_count
         /\ Returned(acc, n, st).total_units = acc.total_units
BY DEF RallyAccount, Returned

\* Counting a return leaves the rally account well formed, whatever completes.
LEMMA CountReturnType ==
  ASSUME NEW acc \in RallyAccount, acc.returned_count <= U8Max
  PROVE  /\ CountReturn(acc) \in RallyAccount
         /\ CountReturn(acc).participant_count = acc.participant_count
         /\ CountReturn(acc).returned_count = SatInc(acc.returned_count)
         /\ CountReturn(acc).returned_count <= U8Max
         /\ CountReturn(acc).total_units = acc.total_units
         /\ CountReturn(acc).status =
               IF acc.status = "Returning" /\ SatInc(acc.returned_count) >= acc.participant_count
               THEN "Completed" ELSE acc.status
<1> DEFINE n == SatInc(acc.returned_count)
           st == IF acc.status = "Returning" /\ n >= acc.participant_count
                 THEN "Completed" ELSE acc.status
<1>1. acc.returned_count \in 0 .. U8Max
  <2>1. acc.returned_count \in Nat /\ U8Max \in Nat
    BY RallyAssumption DEF RallyAccount
  <2> QED BY <2>1
<1>2. n \in 0 .. U8Max
  BY <1>1, SatIncType
<1>3. n \in Nat /\ n <= U8Max
  <2>1. U8Max \in Nat
    BY RallyAssumption
  <2> HIDE DEF n
  <2> QED BY <1>2, <2>1
<1>4. st \in Status
  BY DEF RallyAccount, Status
<1>5. CountReturn(acc) = Returned(acc, n, st)
  BY DEF CountReturn, Returned
<1> HIDE DEF n, st
<1>6. /\ Returned(acc, n, st) \in RallyAccount
      /\ Returned(acc, n, st).status = st
      /\ Returned(acc, n, st).returned_count = n
      /\ Returned(acc, n, st).participant_count = acc.participant_count
      /\ Returned(acc, n, st).total_units = acc.total_units
  BY <1>3, <1>4, ReturnedType
<1> QED BY <1>3, <1>5, <1>6 DEF n, st

\* The first call of process_return keeps the types.
LEMMA StartReturnType ==
  ASSUME AccountsOK, NEW r \in Rallies, NEW p \in Players, StartReturn(r, p)
  PROVE  AccountsOK'
<1> DEFINE acc == RallyWithout(r, p)
           d == ReturnDuration(r, p)
           a == TurnedRound(part[r][p], now, d)
<1>1. acc \in RallyAccount /\ acc.participant_count <= U8Max /\ acc.returned_count <= U8Max
  BY RallyWithoutType
<1>2. /\ part[r][p] \in RallyParticipant
      /\ part[r][p].travel_started_at <= now
      /\ part[r][p].open => part[r][p].units_committed > 0
  BY AccountTypes
<1>3. part[r][p].open
  BY DEF StartReturn, MayReturn
<1>4. now \in Nat /\ now <= now
  BY RallyAssumption DEF AccountsOK
<1>5. d \in Nat
  BY ReturnDurationType
<1>6. /\ now' = now
      /\ rally' = [rally EXCEPT ![r] = acc]
      /\ part' = [part EXCEPT ![r][p] = a]
      /\ UNCHANGED <<units, wounded, joined, gems, loot>>
  BY DEF StartReturn, TurnedRound
<1>7. /\ units' \in [Players -> Nat] /\ joined' \in [Players -> 0 .. U8Max]
      /\ wounded' \in [Players -> 0 .. U32Max] /\ gems' \in [Players -> Nat]
      /\ loot' \in [Players -> Nat]
  BY <1>6 DEF AccountsOK
<1>8. /\ a \in RallyParticipant
      /\ a.open = part[r][p].open
      /\ a.units_committed = part[r][p].units_committed
      /\ a.travel_started_at = part[r][p].travel_started_at
      /\ a.return_started_at = now
  <2> HIDE DEF d
  <2> QED BY <1>2, <1>4, <1>5, TurnedRoundType
<1> HIDE DEF acc, a
<1>9. /\ IF a.open THEN a.units_committed > 0 ELSE a = NoParticipant
      /\ a.travel_started_at <= now /\ a.return_started_at <= now
  BY <1>2, <1>3, <1>4, <1>8
<1> QED BY <1>1, <1>6, <1>7, <1>8, <1>9, AccountsType

\* The survivors of an army are a natural number.
LEMMA SurvivorsType ==
  ASSUME NEW a \in RallyParticipant
  PROVE  Survivors(a) \in Nat
<1>1. a.units_committed \in Nat /\ a.casualties \in Nat
  BY DEF RallyParticipant
<1> QED BY <1>1, SatSubType DEF Survivors

\* The infirmary takes in no more than fell, and no more than it can count.
LEMMA InfirmedType ==
  ASSUME NEW pool \in 0 .. U32Max, NEW fallen \in Nat
  PROVE  /\ Infirmed(pool, fallen) \in 0 .. U32Max
         /\ Infirmed(pool, fallen) - pool \in 0 .. fallen
<1>1. U32Max \in Nat
  BY RallyAssumption
<1>2. fallen % (U32Max + 1) \in 0 .. fallen
  <2>1. ASSUME NEW k \in Nat \ {0} PROVE fallen % k \in 0 .. fallen
    OBVIOUS
  <2> QED BY <1>1, <2>1
<1> QED BY <1>1, <1>2 DEF Infirmed

\* The call of process_return that settles an army keeps the types.
LEMMA FinishReturnType ==
  ASSUME AccountsOK, NEW r \in Rallies, NEW p \in Players, FinishReturn(r, p)
  PROVE  AccountsOK'
<1> DEFINE acc == CountReturn(RallyWithout(r, p))
           a == part[r][p]
<1>1. acc \in RallyAccount /\ acc.participant_count <= U8Max /\ acc.returned_count <= U8Max
  <2> DEFINE x == RallyWithout(r, p)
  <2>1. x \in RallyAccount /\ x.participant_count <= U8Max /\ x.returned_count <= U8Max
    BY RallyWithoutType
  <2> HIDE DEF x
  <2>2. /\ CountReturn(x) \in RallyAccount
        /\ CountReturn(x).participant_count = x.participant_count
        /\ CountReturn(x).returned_count <= U8Max
    BY <2>1, CountReturnType
  <2> QED BY <2>1, <2>2 DEF x
<1>2. a \in RallyParticipant
  BY AccountTypes
<1>3. /\ NoParticipant \in RallyParticipant /\ ~NoParticipant.open
      /\ NoParticipant.travel_started_at = 0 /\ NoParticipant.return_started_at = 0
  BY DEF NoParticipant, RallyParticipant
<1>4. 0 <= now
  BY RallyAssumption DEF AccountsOK
<1>5. units' \in [Players -> Nat]
  <2>1. units' = [units EXCEPT ![p] = units[p] + Survivors(a)]
    BY DEF FinishReturn
  <2>2. units[p] \in Nat /\ Survivors(a) \in Nat
    BY <1>2, SurvivorsType DEF AccountsOK
  <2>3. units[p] + Survivors(a) \in Nat
    BY <2>2
  <2> QED BY <2>1, <2>3 DEF AccountsOK
<1>6. a.loot \in Nat /\ a.casualties \in Nat
  BY <1>2 DEF RallyParticipant
<1>7. loot' \in [Players -> Nat]
  <2>1. loot' = loot \/ loot' = [loot EXCEPT ![p] = loot[p] + a.loot]
    BY DEF FinishReturn
  <2>2. loot[p] + a.loot \in Nat
    BY <1>6 DEF AccountsOK
  <2> QED BY <2>1, <2>2 DEF AccountsOK
<1>8. wounded' \in [Players -> 0 .. U32Max]
  <2>1. \/ wounded' = wounded
        \/ wounded' = [wounded EXCEPT ![p] = Infirmed(wounded[p], a.casualties)]
    BY DEF FinishReturn
  <2>2. Infirmed(wounded[p], a.casualties) \in 0 .. U32Max
    BY <1>6, InfirmedType DEF AccountsOK
  <2> QED BY <2>1, <2>2 DEF AccountsOK
<1>9. joined' \in [Players -> 0 .. U8Max]
  <2>1. joined' = joined \/ joined' = [joined EXCEPT ![p] = SatSub(joined[p], 1)]
    BY DEF FinishReturn
  <2>2. joined[p] \in 0 .. U8Max
    BY DEF AccountsOK
  <2>3. U8Max \in Nat
    BY RallyAssumption
  <2>4. SatSub(joined[p], 1) \in 0 .. U8Max
    BY <2>2, <2>3 DEF SatSub
  <2> QED BY <2>1, <2>4 DEF AccountsOK
<1>10. /\ now' = now /\ gems' \in [Players -> Nat]
       /\ rally' = [rally EXCEPT ![r] = acc]
       /\ part' = [part EXCEPT ![r][p] = NoParticipant]
  BY DEF FinishReturn, AccountsOK
<1> HIDE DEF acc
<1> QED BY <1>1, <1>3, <1>4, <1>5, <1>7, <1>8, <1>9, <1>10, AccountsType

\* close keeps the types.
LEMMA CloseType ==
  ASSUME AccountsOK, NEW r \in Rallies, Close(r)
  PROVE  AccountsOK'
<1> DEFINE acc == NoRally("Closed")
           p == LeaderOf[r]
           a == part[r][p]
<1>1. p \in Players
  BY RallyAssumption
<1>2. /\ acc \in RallyAccount /\ acc.participant_count = 0 /\ acc.returned_count = 0
  BY DEF NoRally, RallyAccount, Status
<1>3. 0 <= U8Max
  BY RallyAssumption
<1>4. /\ a \in RallyParticipant
      /\ a.open => a.units_committed > 0
      /\ ~a.open => a = NoParticipant
      /\ a.travel_started_at <= now /\ a.return_started_at <= now
  BY <1>1, AccountTypes
<1>5. part' = [part EXCEPT ![r][p] = a]
  BY <1>1 DEF Close, AccountsOK
<1>6. now' = now /\ rally' = [rally EXCEPT ![r] = acc]
  BY DEF Close
<1>7. /\ units' \in [Players -> Nat] /\ joined' \in [Players -> 0 .. U8Max]
      /\ wounded' \in [Players -> 0 .. U32Max] /\ gems' \in [Players -> Nat]
      /\ loot' \in [Players -> Nat]
  BY DEF Close, AccountsOK
<1> HIDE DEF acc, p, a
<1> QED BY <1>1, <1>2, <1>3, <1>4, <1>5, <1>6, <1>7, AccountsType

(* What a speedup costs is a natural number, and so is what it leaves. *)
LEMMA SpeedupTypes ==
  ASSUME NEW m \in Nat, NEW tier \in Tiers
  PROVE  m * tier \in Nat /\ RemainingAfter(m, tier) \in Nat
<1>1. tier = 1 \/ tier = 2
  BY DEF Tiers
<1>2. m \div 2 \in Nat /\ m \div 4 \in Nat
  BY QuotientNat
<1>3. 2 * tier = 2 \/ 2 * tier = 4
  BY <1>1
<1>4. RemainingAfter(m, tier) = m \div 2 \/ RemainingAfter(m, tier) = m \div 4
  BY <1>3 DEF RemainingAfter
<1> QED BY <1>1, <1>2, <1>4

\* Paying for a speedup leaves every purse a natural number.
LEMMA PayType ==
  ASSUME AccountsOK, NEW payer \in Players, NEW m \in Nat, NEW tier \in Tiers,
         Pay(payer, m, tier)
  PROVE  gems' \in [Players -> Nat]
<1> DEFINE price == m * tier
<1>1. price \in Nat
  BY SpeedupTypes
<1>2. gems[payer] >= price /\ gems' = [gems EXCEPT ![payer] = gems[payer] - price]
  BY DEF Pay
<1> HIDE DEF price
<1>3. gems[payer] - price \in Nat
  BY <1>1, <1>2 DEF AccountsOK
<1> QED BY <1>2, <1>3 DEF AccountsOK

Hastened(a, t) == [a EXCEPT !.arrives_at_rally = t]
Shortened(a, d) == [a EXCEPT !.return_duration = d]

\* An account whose arrival is moved forward is well formed.
LEMMA HastenedType ==
  ASSUME NEW a \in RallyParticipant, NEW t \in Nat
  PROVE  /\ Hastened(a, t) \in RallyParticipant
         /\ Hastened(a, t).open = a.open
         /\ Hastened(a, t).units_committed = a.units_committed
         /\ Hastened(a, t).travel_started_at = a.travel_started_at
         /\ Hastened(a, t).arrives_at_rally = t
         /\ Hastened(a, t).arrived_at_rally = a.arrived_at_rally
         /\ Hastened(a, t).included_in_march = a.included_in_march
         /\ Hastened(a, t).casualties = a.casualties
         /\ Hastened(a, t).loot = a.loot
         /\ Hastened(a, t).return_started_at = a.return_started_at
BY DEF RallyParticipant, Hastened

\* An account whose journey home is shortened is well formed.
LEMMA ShortenedType ==
  ASSUME NEW a \in RallyParticipant, NEW d \in Nat
  PROVE  /\ Shortened(a, d) \in RallyParticipant
         /\ Shortened(a, d).open = a.open
         /\ Shortened(a, d).units_committed = a.units_committed
         /\ Shortened(a, d).travel_started_at = a.travel_started_at
         /\ Shortened(a, d).arrives_at_rally = a.arrives_at_rally
         /\ Shortened(a, d).arrived_at_rally = a.arrived_at_rally
         /\ Shortened(a, d).included_in_march = a.included_in_march
         /\ Shortened(a, d).casualties = a.casualties
         /\ Shortened(a, d).loot = a.loot
         /\ Shortened(a, d).return_started_at = a.return_started_at
BY DEF RallyParticipant, Shortened

\* The speedup of an army on its way to the rally point keeps the types.
LEMMA SpeedupGatherType ==
  ASSUME AccountsOK, NEW r \in Rallies, NEW p \in Players, NEW payer \in Players,
         NEW tier \in Tiers, SpeedupGather(r, p, payer, tier)
  PROVE  AccountsOK'
<1> DEFINE a == part[r][p]
           m == a.arrives_at_rally - now
           t == now + RemainingAfter(m, tier)
           b == Hastened(a, t)
           acc == rally[r]
<1>1. /\ acc \in RallyAccount
      /\ acc.participant_count <= U8Max /\ acc.returned_count <= U8Max
  BY DEF AccountsOK
<1>2. /\ a \in RallyParticipant
      /\ a.travel_started_at <= now /\ a.return_started_at <= now
      /\ a.open => a.units_committed > 0
  BY AccountTypes
<1>3. now \in Nat
  BY RallyAssumption DEF AccountsOK
<1>4. a.open
  BY DEF SpeedupGather
<1>5. m \in Nat
  <2>1. a.arrives_at_rally \in Nat
    BY <1>2 DEF RallyParticipant
  <2>2. ~(now >= a.arrives_at_rally)
    BY DEF SpeedupGather, AtRallyPoint, Reached
  <2> HIDE DEF a
  <2> QED BY <1>3, <2>1, <2>2
<1>6. t \in Nat
  <2> HIDE DEF m
  <2>1. RemainingAfter(m, tier) \in Nat
    BY <1>5, SpeedupTypes
  <2> QED BY <1>3, <2>1
<1>7. Pay(payer, m, tier)
  BY DEF SpeedupGather
<1>8. gems' \in [Players -> Nat]
  <2> HIDE DEF m
  <2> QED BY <1>5, <1>7, PayType
<1>9. part' = [part EXCEPT ![r][p] = b]
  BY DEF SpeedupGather, Hastened
<1>10. /\ now' = now /\ units' \in [Players -> Nat]
       /\ wounded' \in [Players -> 0 .. U32Max] /\ joined' \in [Players -> 0 .. U8Max]
       /\ loot' \in [Players -> Nat]
  BY DEF SpeedupGather, AccountsOK
<1>11. rally' = [rally EXCEPT ![r] = acc]
  BY DEF SpeedupGather, AccountsOK
<1> HIDE DEF t, a, acc
<1>12. /\ b \in RallyParticipant /\ b.open = a.open
       /\ b.units_committed = a.units_committed
       /\ b.travel_started_at = a.travel_started_at
       /\ b.return_started_at = a.return_started_at
  BY <1>2, <1>6, HastenedType
<1> HIDE DEF b
<1>13. /\ IF b.open THEN b.units_committed > 0 ELSE b = NoParticipant
       /\ b.travel_started_at <= now /\ b.return_started_at <= now
  BY <1>2, <1>4, <1>12
<1> QED BY <1>1, <1>8, <1>9, <1>10, <1>11, <1>12, <1>13, AccountsType

\* The speedup of an army on its way home keeps the types.
LEMMA SpeedupReturnType ==
  ASSUME AccountsOK, NEW r \in Rallies, NEW p \in Players, NEW payer \in Players,
         NEW tier \in Tiers, SpeedupReturn(r, p, payer, tier)
  PROVE  AccountsOK'
<1> DEFINE a == part[r][p]
           m == a.return_started_at + a.return_duration - now
           d == now - a.return_started_at + RemainingAfter(m, tier)
           b == Shortened(a, d)
           acc == rally[r]
<1>1. /\ acc \in RallyAccount
      /\ acc.participant_count <= U8Max /\ acc.returned_count <= U8Max
  BY DEF AccountsOK
<1>2. /\ a \in RallyParticipant
      /\ a.travel_started_at <= now /\ a.return_started_at <= now
      /\ a.open => a.units_committed > 0
  BY AccountTypes
<1>3. now \in Nat
  BY RallyAssumption DEF AccountsOK
<1>4. a.open
  BY DEF SpeedupReturn
<1>5. a.return_started_at \in Nat /\ a.return_duration \in Nat
  BY <1>2 DEF RallyParticipant
<1>6. m \in Nat
  <2>1. ~(now >= a.return_started_at + a.return_duration)
    BY DEF SpeedupReturn, Reached
  <2> HIDE DEF a
  <2> QED BY <1>3, <1>5, <2>1
<1>7. d \in Nat
  <2> HIDE DEF m, a
  <2>1. RemainingAfter(m, tier) \in Nat
    BY <1>6, SpeedupTypes
  <2> QED BY <1>2, <1>3, <1>5, <2>1
<1>8. Pay(payer, m, tier)
  BY DEF SpeedupReturn
<1>9. gems' \in [Players -> Nat]
  <2> HIDE DEF m
  <2> QED BY <1>6, <1>8, PayType
<1>10. part' = [part EXCEPT ![r][p] = b]
  BY DEF SpeedupReturn, Shortened
<1>11. /\ now' = now /\ units' \in [Players -> Nat]
       /\ wounded' \in [Players -> 0 .. U32Max] /\ joined' \in [Players -> 0 .. U8Max]
       /\ loot' \in [Players -> Nat]
  BY DEF SpeedupReturn, AccountsOK
<1>12. rally' = [rally EXCEPT ![r] = acc]
  BY DEF SpeedupReturn, AccountsOK
<1> HIDE DEF d, a, acc
<1>13. /\ b \in RallyParticipant /\ b.open = a.open
       /\ b.units_committed = a.units_committed
       /\ b.travel_started_at = a.travel_started_at
       /\ b.return_started_at = a.return_started_at
  BY <1>2, <1>7, ShortenedType
<1> HIDE DEF b
<1>14. /\ IF b.open THEN b.units_committed > 0 ELSE b = NoParticipant
       /\ b.travel_started_at <= now /\ b.return_started_at <= now
  BY <1>2, <1>4, <1>13
<1> QED BY <1>1, <1>9, <1>10, <1>11, <1>12, <1>13, <1>14, AccountsType

\* The target of a rally changes, or nothing does.
AccountsStay == UNCHANGED <<now, rally, part, units, wounded, joined, gems, loot>>

LEMMA StayingSteps ==
  (\E r \in Rallies : TargetChanges(r)) \/ UNCHANGED vars => AccountsStay
BY DEF AccountsStay, TargetChanges, vars

\* A step that leaves the accounts alone keeps the types.
LEMMA StutterType ==
  AccountsOK /\ AccountsStay => AccountsOK'
BY DEF AccountsOK, AccountsStay

\* Every step of the specification keeps the types.
LEMMA NextType == AccountsOK /\ [Next]_vars => AccountsOK'
<1> SUFFICES ASSUME AccountsOK, [Next]_vars PROVE AccountsOK'
  OBVIOUS
<1>1. CASE Tick
  BY <1>1, TickType
<1>2. ASSUME NEW r \in Rallies, NEW n \in CommitSizes, NEW d \in GatherDurations,
             Create(r, n, d)
      PROVE  AccountsOK'
  BY <1>2, CreateType
<1>3. ASSUME NEW r \in Rallies, Cancel(r) PROVE AccountsOK'
  BY <1>3, CancelType
<1>4. ASSUME NEW r \in Rallies, ExecuteAny(r) PROVE AccountsOK'
  BY <1>4, ExecuteType DEF ExecuteAny
<1>5. ASSUME NEW r \in Rallies, Close(r) PROVE AccountsOK'
  BY <1>5, CloseType
<1>6. ASSUME NEW r \in Rallies, NEW p \in Players, NEW n \in CommitSizes, Join(r, p, n)
      PROVE  AccountsOK'
  BY <1>6, JoinType
<1>7. ASSUME NEW r \in Rallies, NEW p \in Players, Leave(r, p) PROVE AccountsOK'
  BY <1>7, LeaveType
<1>8. ASSUME NEW r \in Rallies, NEW p \in Players, ProcessReturn(r, p) PROVE AccountsOK'
  BY <1>8, StartReturnType, FinishReturnType DEF ProcessReturn
<1>9. ASSUME NEW r \in Rallies, NEW p \in Players, NEW payer \in Players,
             NEW tier \in Tiers, SpeedupGather(r, p, payer, tier)
      PROVE  AccountsOK'
  BY <1>9, SpeedupGatherType
<1>10. ASSUME NEW r \in Rallies, NEW p \in Players, NEW payer \in Players,
              NEW tier \in Tiers, SpeedupReturn(r, p, payer, tier)
       PROVE  AccountsOK'
  BY <1>10, SpeedupReturnType
<1>11. CASE AccountsStay
  BY <1>11, StutterType
<1> QED BY <1>1, <1>2, <1>3, <1>4, <1>5, <1>6, <1>7, <1>8, <1>9, <1>10, <1>11, StayingSteps
        DEF Next

\* Every step keeps the types of the two variables that are no accounts.
LEMMA NextBeside == TypeOK /\ [Next]_vars => TypeOK'
<1> SUFFICES ASSUME TypeOK, [Next]_vars PROVE TypeOK'
  OBVIOUS
<1>1. AccountsOK'
  BY NextType DEF TypeOK
<1>2. CASE UNCHANGED <<attackable, adopted>>
  BY <1>1, <1>2 DEF TypeOK
<1>3. ASSUME NEW r \in Rallies, NEW n \in CommitSizes, NEW d \in GatherDurations,
             Create(r, n, d)
      PROVE  TypeOK'
  BY <1>1, <1>3 DEF Create, TypeOK, Out
<1>4. ASSUME NEW r \in Rallies, TargetChanges(r) PROVE TypeOK'
  BY <1>1, <1>4 DEF TargetChanges, TypeOK
<1>5. Tick \/ UNCHANGED vars => UNCHANGED <<attackable, adopted>>
  BY DEF Tick, vars
<1>6. ASSUME NEW r \in Rallies, Cancel(r) \/ Close(r) \/ ExecuteAny(r)
      PROVE  UNCHANGED <<attackable, adopted>>
  BY <1>6 DEF Cancel, Close, ExecuteAny, Execute
<1>7. ASSUME NEW r \in Rallies, NEW p \in Players,
             \/ \E n \in CommitSizes : Join(r, p, n)
             \/ Leave(r, p)
             \/ ProcessReturn(r, p)
      PROVE  UNCHANGED <<attackable, adopted>>
  BY <1>7 DEF Join, Leave, ProcessReturn, StartReturn, FinishReturn
<1>8. ASSUME NEW r \in Rallies, NEW p \in Players, NEW payer \in Players, NEW tier \in Tiers,
             SpeedupGather(r, p, payer, tier) \/ SpeedupReturn(r, p, payer, tier)
      PROVE  UNCHANGED <<attackable, adopted>>
  BY <1>8 DEF SpeedupGather, SpeedupReturn
<1> QED BY <1>2, <1>3, <1>4, <1>5, <1>6, <1>7, <1>8 DEF Next

(* The accounts keep their shape, whatever is sent and in whatever order. *)
THEOREM TypeCorrect == Spec => []TypeOK
<1>1. Init => TypeOK
  BY InitType DEF Init, TypeOK
<1> QED BY <1>1, NextBeside, PTL DEF Spec

\* The part of it that the other proofs rest on.
COROLLARY AccountsCorrect == Spec => []AccountsOK
<1>1. TypeOK => AccountsOK
  BY DEF TypeOK
<1> QED BY <1>1, TypeCorrect, PTL

-----------------------------------------------------------------------------
(* Who marched *)

\* Where an account stands in a rally of status st: an earlier rally may have left
\* it behind.
Standing(r, p, st) == IF p \in adopted[r] THEN "Adopted" ELSE st

\* The standings of an army that may have fought.
AfterBattle == {"Returning", "Completed", "Closed", "Adopted"}

\* At time t, the account a of standing st tells the truth about the battle: a
\* recorded arrival is past, losses are covered by the army, only an army of a
\* rally that fought or of an earlier one has marched, and only one that marched
\* has losses or loot.
TruthfulAccount(a, st, t) ==
    /\ a.arrived_at_rally => t >= a.arrives_at_rally \/ t = MaxTime
    /\ a.casualties <= a.units_committed
    /\ a.included_in_march => /\ a.arrived_at_rally
                              /\ a.return_started_at > 0
                              /\ st \in AfterBattle
    /\ ~a.included_in_march => a.casualties = 0 /\ a.loot = 0

\* A leader has no old account at the address of a new rally.
MarchInv ==
    /\ \A r \in Rallies, p \in Players :
          TruthfulAccount(part[r][p], Standing(r, p, rally[r].status), now)
    /\ adopted \in [Rallies -> SUBSET Players]
    /\ \A r \in Rallies : LeaderOf[r] \notin adopted[r]

\* The invariant is stronger than the property the runs check.
LEMMA MarchInvSuffices == AccountsOK /\ MarchInv => OnlyMarchersFought
<1> SUFFICES ASSUME AccountsOK, MarchInv, NEW r \in Rallies, NEW p \in Players
             PROVE  LET a == part[r][p] IN
                    /\ a.casualties <= a.units_committed
                    /\ a.included_in_march =>
                          /\ a.arrived_at_rally /\ Reached(a.arrives_at_rally)
                          /\ a.return_started_at > 0
                          /\ p \notin adopted[r] =>
                                rally[r].status \in {"Returning", "Completed", "Closed"}
                    /\ ~a.included_in_march => a.casualties = 0 /\ a.loot = 0
  BY DEF OnlyMarchersFought
<1>1. TruthfulAccount(part[r][p], Standing(r, p, rally[r].status), now)
  BY DEF MarchInv
<1>2. p \notin adopted[r] /\ Standing(r, p, rally[r].status) \in AfterBattle =>
         rally[r].status \in {"Returning", "Completed", "Closed"}
  <2>1. rally[r].status # "Adopted"
    BY DEF AccountsOK, RallyAccount, Status
  <2> QED BY <2>1 DEF Standing, AfterBattle
<1> QED BY <1>1, <1>2 DEF TruthfulAccount, Reached

\* An address with no participant account tells the truth.
LEMMA NoParticipantTruthful ==
  ASSUME NEW st, NEW t
  PROVE  TruthfulAccount(NoParticipant, st, t)
BY DEF TruthfulAccount, NoParticipant

\* An account stays truthful when the status of its rally does not go back.
LEMMA TruthfulForward ==
  ASSUME NEW a, NEW st, NEW next, NEW t, TruthfulAccount(a, st, t),
         st \in AfterBattle => next \in AfterBattle
  PROVE  TruthfulAccount(a, next, t)
BY DEF TruthfulAccount

\* A step of one participant and one rally account keeps the invariant if the
\* new account is truthful and the status does not go back.
LEMMA MarchStep ==
  ASSUME AccountsOK, MarchInv, NEW r \in Rallies, NEW p \in Players, NEW acc, NEW a,
         now' = now, adopted' = adopted,
         rally' = [rally EXCEPT ![r] = acc],
         part' = [part EXCEPT ![r][p] = a],
         TruthfulAccount(a, Standing(r, p, acc.status), now),
         rally[r].status \in AfterBattle => acc.status \in AfterBattle
  PROVE  MarchInv'
<1> SUFFICES ASSUME NEW s \in Rallies, NEW q \in Players
             PROVE  TruthfulAccount(part'[s][q], Standing(s, q, rally'[s].status), now)
  BY DEF MarchInv, TruthfulAccount, Standing
<1>1. /\ rally'[s] = IF s = r THEN acc ELSE rally[s]
      /\ part'[s][q] = IF s = r /\ q = p THEN a ELSE part[s][q]
  BY DEF AccountsOK
<1>2. TruthfulAccount(part[s][q], Standing(s, q, rally[s].status), now)
  BY DEF MarchInv
<1>3. CASE s = r /\ q = p
  BY <1>1, <1>3
<1>4. CASE s = r /\ q # p
  <2>1. Standing(s, q, rally[s].status) \in AfterBattle
           => Standing(s, q, acc.status) \in AfterBattle
    BY <1>4 DEF Standing
  <2> QED BY <1>1, <1>2, <1>4, <2>1, TruthfulForward
<1>5. CASE s # r
  BY <1>1, <1>2, <1>5
<1> QED BY <1>3, <1>4, <1>5

\* At the start nobody has marched.
LEMMA MarchInit == Init => MarchInv
<1> SUFFICES ASSUME Init, NEW r \in Rallies, NEW p \in Players
             PROVE  TruthfulAccount(part[r][p], Standing(r, p, rally[r].status), now)
  BY DEF MarchInv, Init
<1> QED BY NoParticipantTruthful DEF Init

\* Arrivals in the past stay there.
LEMMA MarchTick == AccountsOK /\ MarchInv /\ Tick => MarchInv'
<1> SUFFICES ASSUME AccountsOK, MarchInv, Tick, NEW r \in Rallies, NEW p \in Players
             PROVE  TruthfulAccount(part[r][p], Standing(r, p, rally[r].status), now')
  BY DEF MarchInv, TruthfulAccount, Standing, Tick
<1>1. TruthfulAccount(part[r][p], Standing(r, p, rally[r].status), now)
  BY DEF MarchInv
<1>2. now \in Nat /\ now' = now + 1 /\ now # MaxTime
  BY RallyAssumption DEF Tick, AccountsOK
<1>3. part[r][p].arrives_at_rally \in Nat
  BY AccountTypes DEF RallyParticipant
<1> QED BY <1>1, <1>2, <1>3 DEF TruthfulAccount

\* The account of an army that just set out has not marched; it is at the rally
\* point only if it lives there.
LEMMA FreshTruthful ==
  ASSUME AccountsOK, NEW r \in Rallies, NEW p \in Players, NEW n \in CommitSizes, NEW st
  PROVE  TruthfulAccount(NewParticipant(r, p, n), st, now)
<1> DEFINE u == now + TravelTo[r][p]
           b == (TravelTo[r][p] = 0)
           a == NewParticipant(r, p, n)
<1>1. n \in Nat /\ now \in Nat /\ TravelTo[r][p] \in Nat
  <2>1. n \in Nat
    BY RallyAssumption
  <2>2. TravelTo[r][p] \in Nat
    BY RallyAssumption
  <2>3. now \in Nat
    BY RallyAssumption DEF AccountsOK
  <2> QED BY <2>1, <2>2, <2>3
<1>2. b => u <= now
  BY <1>1
<1>3. /\ a.arrived_at_rally = b /\ a.arrives_at_rally = u
      /\ a.casualties = 0 /\ a.loot = 0 /\ ~a.included_in_march
      /\ a.units_committed = n
  BY DEF NewParticipant, NoParticipant
<1> HIDE DEF a, b
<1>4. a.arrived_at_rally => now >= a.arrives_at_rally
  BY <1>1, <1>2, <1>3
<1>5. TruthfulAccount(a, st, now)
  BY <1>1, <1>3, <1>4 DEF TruthfulAccount
<1> QED BY <1>5 DEF a

\* join adds such an account.
LEMMA MarchJoin ==
  ASSUME AccountsOK, MarchInv, NEW r \in Rallies, NEW p \in Players, NEW n \in CommitSizes,
         Commit(r, p, n), adopted' = adopted, NEW acc,
         rally' = [rally EXCEPT ![r] = acc], rally[r].status \notin AfterBattle
  PROVE  MarchInv'
<1> DEFINE a == NewParticipant(r, p, n)
<1>1. part' = [part EXCEPT ![r][p] = a] /\ now' = now
  BY DEF Commit
<1>2. TruthfulAccount(a, Standing(r, p, acc.status), now)
  BY FreshTruthful
<1> HIDE DEF a
<1> QED BY <1>1, <1>2, MarchStep

\* create adds one, and adopts whoever is at the address.
LEMMA MarchCreate ==
  ASSUME AccountsOK, MarchInv, NEW r \in Rallies, NEW n \in CommitSizes,
         NEW d \in GatherDurations, Create(r, n, d)
  PROVE  MarchInv'
<1> DEFINE p == LeaderOf[r]
           a == NewParticipant(r, p, n)
<1>1. /\ p \in Players /\ ~part[r][p].open /\ now' = now
      /\ part' = [part EXCEPT ![r][p] = a]
      /\ adopted' = [adopted EXCEPT ![r] = Out(r)]
      /\ \A s \in Rallies \ {r} : rally'[s] = rally[s]
  BY RallyAssumption DEF Create, Commit, AccountsOK
<1>2. \A s \in Rallies, q \in Players :
         part'[s][q] = IF s = r /\ q = p THEN a ELSE part[s][q]
  BY <1>1 DEF AccountsOK
<1>3. /\ adopted' \in [Rallies -> SUBSET Players]
      /\ \A s \in Rallies : adopted'[s] = IF s = r THEN Out(r) ELSE adopted[s]
      /\ p \notin Out(r)
  BY <1>1 DEF MarchInv, Out
<1>4. ASSUME NEW st PROVE TruthfulAccount(a, st, now)
  BY <1>1, FreshTruthful
<1>5. ASSUME NEW q \in Players
      PROVE  TruthfulAccount(part[r][q], Standing(r, q, rally[r].status)', now)
  <2>1. CASE q \in Out(r)
    <3>1. Standing(r, q, rally[r].status)' = "Adopted"
      BY <1>3, <2>1 DEF Standing
    <3>2. TruthfulAccount(part[r][q], Standing(r, q, rally[r].status), now)
      BY DEF MarchInv
    <3>3. "Adopted" \in AfterBattle
      BY DEF AfterBattle
    <3> QED BY <3>1, <3>2, <3>3, TruthfulForward
  <2>2. CASE q \notin Out(r)
    <3>1. part[r][q] = NoParticipant
      BY <2>2, AccountTypes DEF Out
    <3> QED BY <3>1, NoParticipantTruthful
  <2> QED BY <2>1, <2>2
<1> HIDE DEF a, p
<1>6. ASSUME NEW s \in Rallies, NEW q \in Players
      PROVE  TruthfulAccount(part'[s][q], Standing(s, q, rally[s].status)', now)
  <2>1. TruthfulAccount(part[s][q], Standing(s, q, rally[s].status), now)
    BY DEF MarchInv
  <2>2. CASE s # r
    <3>1. rally'[s] = rally[s] /\ part'[s][q] = part[s][q] /\ adopted'[s] = adopted[s]
      BY <1>1, <1>2, <1>3, <2>2
    <3> QED BY <2>1, <3>1 DEF Standing
  <2>3. CASE s = r /\ q = p
    BY <1>2, <1>4, <2>3
  <2>4. CASE s = r /\ q # p
    BY <1>2, <1>5, <2>4
  <2> QED BY <2>2, <2>3, <2>4
<1>7. \A s \in Rallies : LeaderOf[s] \notin adopted'[s]
  BY <1>3 DEF MarchInv, p
<1> QED BY <1>1, <1>3, <1>6, <1>7 DEF MarchInv, TruthfulAccount

\* An army that starts for home before the battle did not march.
LEMMA MarchSetOut ==
  ASSUME AccountsOK, NEW r \in Rallies, NEW p \in Players, NEW d, NEW st, NEW next, NEW t,
         TruthfulAccount(part[r][p], st, t), part[r][p].open,
         st \notin AfterBattle \/ part[r][p].return_started_at = 0
  PROVE  /\ TruthfulAccount(SetOut(part[r][p], d), next, t)
         /\ ~part[r][p].included_in_march /\ ~SetOut(part[r][p], d).included_in_march
<1> DEFINE a == part[r][p]
           b == SetOut(a, d)
<1>1. a \in RallyParticipant
  BY AccountTypes
<1>2. ~a.included_in_march /\ a.casualties = 0 /\ a.loot = 0
  BY DEF TruthfulAccount
<1>3. /\ b.arrived_at_rally = a.arrived_at_rally /\ b.arrives_at_rally = a.arrives_at_rally
      /\ b.casualties = a.casualties /\ b.units_committed = a.units_committed
      /\ b.loot = a.loot /\ ~b.included_in_march
  BY <1>1 DEF SetOut, RallyParticipant
<1> HIDE DEF a, b
<1>4. TruthfulAccount(b, next, t)
  <2>1. TruthfulAccount(a, st, t)
    BY DEF a
  <2> QED BY <1>2, <1>3, <2>1 DEF TruthfulAccount
<1> QED BY <1>2, <1>3, <1>4 DEF a, b

\* The account of a rally that forgets a member keeps its status.
LEMMA WithoutStatus ==
  ASSUME AccountsOK, NEW r \in Rallies, NEW p \in Players
  PROVE  /\ Withdraw(r, part[r][p]).status = rally[r].status
         /\ RallyWithout(r, p).status = rally[r].status
<1>1. rally[r] \in RallyAccount
  BY DEF AccountsOK
<1>2. Withdraw(r, part[r][p]).status = rally[r].status
  BY <1>1 DEF Withdraw, RallyAccount
<1> QED BY <1>2 DEF RallyWithout

\* What a rally that executes does to its participants.
LEMMA MarchExecute ==
  ASSUME AccountsOK, MarchInv, NEW r \in Rallies, ExecuteAny(r)
  PROVE  MarchInv'
<1> PICK S \in SUBSET Out(r), percent \in CasualtyPercents, won \in BOOLEAN,
         pool \in LootPools \cup {0} : Execute(r, S, percent, won, pool)
  BY DEF ExecuteAny
<1> DEFINE M == Marchers(r, S)
           power == Power(r, M)
           dead == (Army(r, M) * percent) \div 100
           b(p) == IF p \in S THEN Fought(r, p, M, dead, won, pool, power) ELSE part[r][p]
<1>1. /\ now' = now /\ rally'[r].status = "Returning"
      /\ \A s \in Rallies \ {r} : rally'[s] = rally[s] /\ part'[s] = part[s]
      /\ \A p \in Players : part'[r][p] = b(p)
      /\ rally[r].status \in {"Gathering", "Marching"}
  BY DEF Execute, AccountsOK, RallyAccount
<1>2. /\ S \subseteq Players /\ M \subseteq S /\ power \in Nat /\ power > 0
      /\ pool \in Nat /\ dead \in Nat
  <2>1. S \subseteq Players /\ M \subseteq S
    BY DEF Out, Marchers
  <2>2. power \in Nat /\ power > 0
    BY BattleTypes
  <2>3. pool \in Nat
    BY BattleTypes
  <2>4. dead \in Nat
    <3>1. BattleDead(r, M, percent) \in Nat
      BY BattleTypes
    <3> QED BY <3>1 DEF BattleDead
  <2> QED BY <2>1, <2>2, <2>3, <2>4
<1>3. \A p \in S : p \in M <=> AtRallyPoint(part[r][p])
  BY DEF Marchers
<1> HIDE DEF M, power, dead
<1>4. ASSUME NEW p \in Players PROVE TruthfulAccount(b(p), "Returning", now)
  <2>1. TruthfulAccount(part[r][p], Standing(r, p, rally[r].status), now)
    BY DEF MarchInv
  <2>3. CASE p \notin S
    <3>1. b(p) = part[r][p]
      BY <2>3
    <3>2. "Returning" \in AfterBattle
      BY DEF AfterBattle
    <3> QED BY <2>1, <3>1, <3>2, TruthfulForward
  <2>4. CASE p \in S
    <3> DEFINE f == Fought(r, p, M, dead, won, pool, power)
    <3>1. FoughtWell(part[r][p], f, p \in M)
      <4>1. M \in SUBSET Players
        BY <1>2
      <4> QED BY <1>2, <4>1, FoughtType
    <3>2. b(p) = f
      BY <2>4
    <3> HIDE DEF f, b
    <3>3. now \in Nat /\ now > 0
      BY RallyAssumption DEF AccountsOK
    <3>4. CASE p \in M
      <4>1. now >= part[r][p].arrives_at_rally \/ now = MaxTime
        BY <1>3, <2>1, <2>4, <3>4 DEF AtRallyPoint, Reached, TruthfulAccount
      <4>2. /\ f.arrived_at_rally /\ f.included_in_march
            /\ f.casualties <= f.units_committed /\ f.return_started_at > 0
            /\ f.arrives_at_rally = part[r][p].arrives_at_rally
        BY <3>1, <3>3, <3>4 DEF FoughtWell
      <4> QED BY <3>2, <4>1, <4>2 DEF TruthfulAccount, AfterBattle
    <3>5. CASE p \notin M
      <4>1. /\ ~part[r][p].included_in_march
            /\ part[r][p].casualties = 0 /\ part[r][p].loot = 0
        BY <1>3, <2>1, <2>4, <3>5 DEF TruthfulAccount, AtRallyPoint
      <4>2. /\ f.arrived_at_rally = part[r][p].arrived_at_rally
            /\ f.arrives_at_rally = part[r][p].arrives_at_rally
            /\ f.units_committed = part[r][p].units_committed
            /\ ~f.included_in_march /\ f.casualties = 0 /\ f.loot = 0
        BY <3>1, <3>5, <4>1 DEF FoughtWell
      <4> QED BY <2>1, <3>2, <4>1, <4>2 DEF TruthfulAccount
    <3> QED BY <3>4, <3>5
  <2> QED BY <2>3, <2>4
<1> HIDE DEF b
<1>a. adopted' = adopted
  BY DEF Execute
<1> SUFFICES ASSUME NEW s \in Rallies, NEW p \in Players
             PROVE  TruthfulAccount(part'[s][p], Standing(s, p, rally'[s].status), now)
  BY <1>1, <1>a DEF MarchInv, TruthfulAccount, Standing
<1>5. CASE s = r
  <2>1. "Returning" \in AfterBattle => Standing(r, p, "Returning") \in AfterBattle
    BY DEF Standing, AfterBattle
  <2> QED BY <1>1, <1>4, <1>5, <2>1, TruthfulForward
<1>6. CASE s # r
  BY <1>1, <1>6 DEF MarchInv
<1> QED BY <1>5, <1>6

\* Every step keeps the invariant.
LEMMA MarchNext == AccountsOK /\ MarchInv /\ [Next]_vars => MarchInv'
<1> SUFFICES ASSUME AccountsOK, MarchInv, [Next]_vars PROVE MarchInv'
  OBVIOUS
<1>1. CASE Tick
  BY <1>1, MarchTick
<1>2. ASSUME NEW r \in Rallies, NEW n \in CommitSizes, NEW d \in GatherDurations,
             Create(r, n, d)
      PROVE  MarchInv'
  BY <1>2, MarchCreate
<1>3. ASSUME NEW r \in Rallies, Cancel(r) PROVE MarchInv'
  <2> DEFINE p == LeaderOf[r]
             back == IF AtRallyPoint(part[r][p]) THEN TravelTo[r][p]
                     ELSE now - part[r][p].travel_started_at
             acc == [rally[r] EXCEPT !.status = "Cancelled"]
             a == SetOut(part[r][p], back)
  <2>1. /\ now' = now /\ rally' = [rally EXCEPT ![r] = acc]
        /\ part' = [part EXCEPT ![r][p] = a]
        /\ rally[r].status = "Gathering" /\ part[r][p].open /\ p \in Players
        /\ adopted' = adopted
    BY <1>3, RallyAssumption DEF Cancel
  <2>2. TruthfulAccount(part[r][p], "Gathering", now)
    BY <2>1 DEF MarchInv, Standing
  <2> HIDE DEF acc, back, p
  <2>3. TruthfulAccount(a, Standing(r, p, acc.status), now)
    BY <2>1, <2>2, MarchSetOut DEF AfterBattle
  <2> HIDE DEF a
  <2> QED BY <2>1, <2>3, MarchStep DEF AfterBattle
<1>4. ASSUME NEW r \in Rallies, ExecuteAny(r) PROVE MarchInv'
  BY <1>4, MarchExecute
<1>5. ASSUME NEW r \in Rallies, Close(r) PROVE MarchInv'
  <2> DEFINE p == LeaderOf[r]
             acc == NoRally("Closed")
             a == part[r][p]
  <2>1. p \in Players
    BY RallyAssumption
  <2>2. /\ now' = now /\ adopted' = adopted /\ rally' = [rally EXCEPT ![r] = acc]
        /\ part' = [part EXCEPT ![r][p] = a]
    BY <1>5, <2>1 DEF Close, CanClose, AccountsOK
  <2>3. acc.status = "Closed"
    BY DEF NoRally
  <2>4. TruthfulAccount(a, Standing(r, p, rally[r].status), now)
    BY <2>1 DEF MarchInv
  <2> HIDE DEF acc, a, p
  <2>5. TruthfulAccount(a, Standing(r, p, acc.status), now)
    BY <2>3, <2>4, TruthfulForward DEF AfterBattle, Standing
  <2> QED BY <2>1, <2>2, <2>3, <2>5, MarchStep DEF AfterBattle
<1>6. ASSUME NEW r \in Rallies, NEW p \in Players, NEW n \in CommitSizes, Join(r, p, n)
      PROVE  MarchInv'
  <2> DEFINE acc == Admit(r, p, n)
  <2>1. /\ Commit(r, p, n) /\ rally' = [rally EXCEPT ![r] = acc]
        /\ rally[r].status = "Gathering" /\ adopted' = adopted
    BY <1>6 DEF Join
  <2>2. rally[r].status \notin AfterBattle
    BY <2>1 DEF AfterBattle
  <2> HIDE DEF acc
  <2> QED BY <2>1, <2>2, MarchJoin
<1>7. ASSUME NEW r \in Rallies, NEW p \in Players, Leave(r, p) PROVE MarchInv'
  <2> DEFINE acc == Withdraw(r, part[r][p])
             d == ReturnDuration(r, p)
             a == SetOut(part[r][p], d)
  <2>1. /\ now' = now /\ rally' = [rally EXCEPT ![r] = acc]
        /\ part' = [part EXCEPT ![r][p] = a]
        /\ rally[r].status = "Gathering" /\ part[r][p].open
        /\ part[r][p].return_started_at = 0 /\ adopted' = adopted
    BY <1>7 DEF Leave
  <2>2. acc.status = "Gathering"
    BY <2>1, WithoutStatus
  <2>3. TruthfulAccount(part[r][p], Standing(r, p, rally[r].status), now)
    BY DEF MarchInv
  <2> HIDE DEF acc, d
  <2>4. TruthfulAccount(a, Standing(r, p, acc.status), now)
    BY <2>1, <2>3, MarchSetOut
  <2> HIDE DEF a
  <2> QED BY <2>1, <2>2, <2>4, MarchStep DEF AfterBattle
<1>8. ASSUME NEW r \in Rallies, NEW p \in Players, StartReturn(r, p) PROVE MarchInv'
  <2> DEFINE acc == RallyWithout(r, p)
             d == ReturnDuration(r, p)
             a == TurnedRound(part[r][p], now, d)
  <2>1. /\ now' = now /\ rally' = [rally EXCEPT ![r] = acc]
        /\ part' = [part EXCEPT ![r][p] = a]
        /\ part[r][p].return_started_at = 0
        /\ part[r][p].included_in_march => part[r][p].return_started_at > 0
        /\ adopted' = adopted
    BY <1>8 DEF StartReturn, TurnedRound, SettingOut, MayReturn
  <2>2. acc.status = rally[r].status
    BY WithoutStatus
  <2>3. TruthfulAccount(part[r][p], Standing(r, p, rally[r].status), now)
    BY DEF MarchInv
  <2>4. part[r][p] \in RallyParticipant /\ now \in Nat /\ d \in Nat
    BY AccountTypes, ReturnDurationType, RallyAssumption DEF AccountsOK
  <2> HIDE DEF acc, d
  <2>5. /\ a.open = part[r][p].open
        /\ a.units_committed = part[r][p].units_committed
        /\ a.arrives_at_rally = part[r][p].arrives_at_rally
        /\ a.arrived_at_rally = part[r][p].arrived_at_rally
        /\ a.included_in_march = part[r][p].included_in_march
        /\ a.casualties = part[r][p].casualties
        /\ a.loot = part[r][p].loot
    BY <2>4, TurnedRoundType
  <2> HIDE DEF a
  <2>6. ~part[r][p].included_in_march
    BY <2>1
  <2>7. TruthfulAccount(a, Standing(r, p, rally[r].status), now)
    BY <2>3, <2>5, <2>6 DEF TruthfulAccount
  <2> QED BY <2>1, <2>2, <2>7, MarchStep
<1>9. ASSUME NEW r \in Rallies, NEW p \in Players, FinishReturn(r, p) PROVE MarchInv'
  <2> DEFINE x == RallyWithout(r, p)
             acc == CountReturn(x)
  <2>1. /\ now' = now /\ adopted' = adopted /\ rally' = [rally EXCEPT ![r] = acc]
        /\ part' = [part EXCEPT ![r][p] = NoParticipant]
    BY <1>9 DEF FinishReturn
  <2>2. x \in RallyAccount /\ x.returned_count <= U8Max /\ x.status = rally[r].status
    BY RallyWithoutType, WithoutStatus
  <2> HIDE DEF x
  <2>3. acc.status = x.status \/ (x.status = "Returning" /\ acc.status = "Completed")
    <3>1. /\ CountReturn(x).participant_count = x.participant_count
          /\ CountReturn(x).status =
               IF x.status = "Returning" /\ SatInc(x.returned_count) >= x.participant_count
               THEN "Completed" ELSE x.status
      BY <2>2, CountReturnType
    <3> QED BY <3>1
  <2> HIDE DEF acc
  <2> QED BY <2>1, <2>2, <2>3, NoParticipantTruthful, MarchStep DEF AfterBattle
<1>10. ASSUME NEW r \in Rallies, NEW p \in Players, NEW payer \in Players,
              NEW tier \in Tiers, SpeedupGather(r, p, payer, tier)
       PROVE  MarchInv'
  <2> DEFINE u == now + RemainingAfter(part[r][p].arrives_at_rally - now, tier)
             a == [part[r][p] EXCEPT !.arrives_at_rally = u]
             acc == rally[r]
  <2>1. /\ now' = now /\ adopted' = adopted /\ rally' = [rally EXCEPT ![r] = acc]
        /\ part' = [part EXCEPT ![r][p] = a]
        /\ ~part[r][p].arrived_at_rally
    BY <1>10 DEF SpeedupGather, AtRallyPoint, AccountsOK
  <2>2. part[r][p] \in RallyParticipant
    BY AccountTypes
  <2> HIDE DEF u
  <2>3. /\ ~a.arrived_at_rally /\ a.open = part[r][p].open
        /\ a.units_committed = part[r][p].units_committed
        /\ a.included_in_march = part[r][p].included_in_march
        /\ a.casualties = part[r][p].casualties
        /\ a.loot = part[r][p].loot
    BY <2>1, <2>2 DEF RallyParticipant
  <2>4. TruthfulAccount(part[r][p], Standing(r, p, acc.status), now)
    BY DEF MarchInv
  <2> HIDE DEF a
  <2>5. TruthfulAccount(a, Standing(r, p, acc.status), now)
    BY <2>1, <2>3, <2>4 DEF TruthfulAccount
  <2> QED BY <2>1, <2>5, MarchStep
<1>11. ASSUME NEW r \in Rallies, NEW p \in Players, NEW payer \in Players,
              NEW tier \in Tiers, SpeedupReturn(r, p, payer, tier)
       PROVE  MarchInv'
  <2> DEFINE b == part[r][p]
             left == b.return_started_at + b.return_duration - now
             u == now - b.return_started_at + RemainingAfter(left, tier)
             a == [part[r][p] EXCEPT !.return_duration = u]
             acc == rally[r]
  <2>1. /\ now' = now /\ adopted' = adopted /\ rally' = [rally EXCEPT ![r] = acc]
        /\ part' = [part EXCEPT ![r][p] = a]
    BY <1>11 DEF SpeedupReturn, AccountsOK
  <2>2. part[r][p] \in RallyParticipant
    BY AccountTypes
  <2> HIDE DEF u
  <2>3. /\ a.open = part[r][p].open
        /\ a.units_committed = part[r][p].units_committed
        /\ a.arrives_at_rally = part[r][p].arrives_at_rally
        /\ a.arrived_at_rally = part[r][p].arrived_at_rally
        /\ a.included_in_march = part[r][p].included_in_march
        /\ a.casualties = part[r][p].casualties
        /\ a.loot = part[r][p].loot
        /\ a.return_started_at = part[r][p].return_started_at
    BY <2>2 DEF RallyParticipant
  <2>4. TruthfulAccount(part[r][p], Standing(r, p, acc.status), now)
    BY DEF MarchInv
  <2> HIDE DEF a
  <2>5. TruthfulAccount(a, Standing(r, p, acc.status), now)
    BY <2>3, <2>4 DEF TruthfulAccount
  <2> QED BY <2>1, <2>5, MarchStep
<1>12. CASE AccountsStay /\ adopted' = adopted
  BY <1>12 DEF AccountsStay, MarchInv, TruthfulAccount, Standing
<1>13. (\E r \in Rallies : TargetChanges(r)) \/ UNCHANGED vars => adopted' = adopted
  BY DEF TargetChanges, vars
<1> QED BY <1>1, <1>2, <1>3, <1>4, <1>5, <1>6, <1>7, <1>8, <1>9, <1>10, <1>11, <1>12,
           <1>13, StayingSteps DEF Next, ProcessReturn

\* The accounts of participants tell the truth about the battle in every
\* reachable state.
THEOREM MarchAlways == Spec => []MarchInv
<1>1. Init => AccountsOK /\ MarchInv
  BY InitType, MarchInit
<1>2. AccountsOK /\ MarchInv /\ [Next]_vars => (AccountsOK /\ MarchInv)'
  BY NextType, MarchNext
<1> QED BY <1>1, <1>2, PTL DEF Spec

\* Only an army that had the time to walk to the rally point of a rally that
\* fought has losses or loot, it never loses more than itself, and a rally that
\* gathers has hurt nobody but armies left at its address.
THEOREM MarchersCorrect == Spec => []OnlyMarchersFought
BY AccountsCorrect, MarchAlways, MarchInvSuffices, PTL

-----------------------------------------------------------------------------
(* Rally implements ArmyCustody *)

\* The program starts with nothing in custody.
LEMMA CustodyInit == Init => Custody!Init
<1> SUFFICES ASSUME Init PROVE Custody!Init
  OBVIOUS
<1>1. \A r \in Rallies : rally[r].status = "Unused"
  BY DEF Init, NoRally
<1>2. \A r \in Rallies, p \in Players : part[r][p] = NoParticipant
  BY DEF Init
<1>3. Mustering = [r \in Rallies |-> FALSE]
  <2>1. \A r \in Rallies : (rally[r].status \in {"Gathering", "Marching"}) = FALSE
    BY <1>1
  <2> QED BY <2>1 DEF Mustering
<1>4. /\ Held = [r \in Rallies |-> [p \in Players |-> 0]]
      /\ Fallen = [r \in Rallies |-> [p \in Players |-> 0]]
  BY <1>2 DEF Held, Fallen, NoParticipant
<1>5. FoughtIn = [r \in Rallies |-> {}]
  BY <1>2 DEF FoughtIn, NoParticipant
<1>6. units = [p \in Players |-> InitUnits] /\ wounded = [p \in Players |-> 0]
  BY DEF Init
<1> QED BY <1>3, <1>4, <1>5, <1>6 DEF Custody!Init, Mustering, Held, FoughtIn, Fallen

\* Nothing happens to what is in custody.
Untouched == UNCHANGED <<Mustering, units, wounded, Held, FoughtIn, Fallen>>

\* Then ArmyCustody takes a stuttering step.
LEMMA CustodyStutters == Untouched => UNCHANGED Custody!vars
BY DEF Untouched, Custody!vars, Mustering, Held, FoughtIn, Fallen

\* A step of a participant account that neither takes in nor hands back its army,
\* and of a rally account that does not end the rally, touches nothing.
LEMMA StepUntouched ==
  ASSUME AccountsOK, NEW r \in Rallies, NEW p \in Players, NEW acc, NEW a,
         rally' = [rally EXCEPT ![r] = acc],
         part' = [part EXCEPT ![r][p] = a],
         units' = units, wounded' = wounded,
         acc.status \in {"Gathering", "Marching"}
            <=> rally[r].status \in {"Gathering", "Marching"},
         a.units_committed = part[r][p].units_committed,
         a.included_in_march = part[r][p].included_in_march,
         a.casualties = part[r][p].casualties
  PROVE  Untouched
<1>1. \A s \in Rallies : rally'[s] = IF s = r THEN acc ELSE rally[s]
  BY DEF AccountsOK
<1>2. \A s \in Rallies, q \in Players :
         part'[s][q] = IF s = r /\ q = p THEN a ELSE part[s][q]
  BY DEF AccountsOK
<1>3. Mustering' = Mustering
  BY <1>1 DEF Mustering
<1>4. \A s \in Rallies, q \in Players :
         /\ part'[s][q].units_committed = part[s][q].units_committed
         /\ part'[s][q].included_in_march = part[s][q].included_in_march
         /\ part'[s][q].casualties = part[s][q].casualties
  BY <1>2
<1>5. Held' = Held /\ Fallen' = Fallen
  BY <1>4 DEF Held, Fallen
<1>6. FoughtIn' = FoughtIn
  BY <1>4 DEF FoughtIn
<1> QED BY <1>3, <1>5, <1>6 DEF Untouched

\* A table of armies that changes in one place is that table with the change.
LEMMA TableUpdate ==
  ASSUME NEW f, NEW g, NEW r \in Rallies, NEW p \in Players, NEW v,
         f = [s \in Rallies |-> [q \in Players |-> f[s][q]]],
         g = [s \in Rallies |-> [q \in Players |-> g[s][q]]],
         \A s \in Rallies, q \in Players :
            g[s][q] = IF s = r /\ q = p THEN v ELSE f[s][q]
  PROVE  g = [f EXCEPT ![r][p] = v]
<1>1. \A s \in Rallies \ {r} : g[s] = f[s]
  OBVIOUS
<1>2. g[r] = [f[r] EXCEPT ![p] = v]
  <2>1. f[r] = [q \in Players |-> f[r][q]]
    OBVIOUS
  <2>2. g[r] = [q \in Players |-> g[r][q]]
    OBVIOUS
  <2>3. \A q \in Players : g[r][q] = IF q = p THEN v ELSE f[r][q]
    OBVIOUS
  <2> QED BY <2>1, <2>2, <2>3
<1>3. [f EXCEPT ![r][p] = v] = [f EXCEPT ![r] = [f[r] EXCEPT ![p] = v]]
  OBVIOUS
<1> QED BY <1>1, <1>2, <1>3

\* create and join hand over an army.
LEMMA CustodyHand ==
  ASSUME AccountsOK, NEW r \in Rallies, NEW p \in Players, NEW n \in CommitSizes,
         Commit(r, p, n), ~part[r][p].open
  PROVE  Custody!Hand(r, p)
<1> DEFINE a == NewParticipant(r, p, n)
<1>1. /\ part' = [part EXCEPT ![r][p] = a] /\ n <= units[p]
      /\ units' = [units EXCEPT ![p] = units[p] - n] /\ wounded' = wounded
  BY DEF Commit
<1>2. a.units_committed = n /\ ~a.included_in_march /\ a.casualties = 0
  BY DEF NewParticipant, NoParticipant
<1> HIDE DEF a
<1>3. part[r][p] = NoParticipant
  BY AccountTypes
<1>5. \A s \in Rallies, q \in Players :
         part'[s][q] = IF s = r /\ q = p THEN a ELSE part[s][q]
  BY <1>1 DEF AccountsOK
<1>7. \A s \in Rallies, q \in Players :
         /\ part'[s][q].included_in_march <=> part[s][q].included_in_march
         /\ part'[s][q].casualties = part[s][q].casualties
  BY <1>2, <1>3, <1>5 DEF NoParticipant
<1>8. Fallen' = Fallen
  BY <1>7 DEF Fallen
<1>9. FoughtIn' = FoughtIn
  BY <1>7 DEF FoughtIn
<1>10. Held' = [Held EXCEPT ![r][p] = n]
  <2>1. \A s \in Rallies, q \in Players :
           Held'[s][q] = IF s = r /\ q = p THEN n ELSE Held[s][q]
    BY <1>2, <1>5 DEF Held
  <2>2. /\ Held = [s \in Rallies |-> [q \in Players |-> Held[s][q]]]
        /\ Held' = [s \in Rallies |-> [q \in Players |-> Held'[s][q]]]
    BY DEF Held
  <2> QED BY <2>1, <2>2, TableUpdate
<1>11. Held[r][p] = 0
  BY <1>3 DEF Held, NoParticipant
<1>12. n \in 1 .. units[p]
  <2>1. n \in Nat /\ n > 0
    BY RallyAssumption
  <2>2. units[p] \in Nat
    BY DEF AccountsOK
  <2> QED BY <1>1, <2>1, <2>2
<1> QED BY <1>1, <1>8, <1>9, <1>10, <1>11, <1>12
        DEF Custody!Hand, Held, FoughtIn, Fallen

\* create opens a muster, also where an earlier rally was.
LEMMA CustodyMuster ==
  ASSUME AccountsOK, NEW r \in Rallies, NEW n \in CommitSizes, NEW d \in GatherDurations,
         Create(r, n, d)
  PROVE  Custody!Muster(r, LeaderOf[r])
<1>1. LeaderOf[r] \in Players
  BY RallyAssumption
<1>2. Custody!Hand(r, LeaderOf[r])
  BY <1>1, CustodyHand DEF Create
<1>3. /\ rally[r].status \in {"Unused", "Closed"} /\ rally'[r].status = "Gathering"
      /\ \A s \in Rallies \ {r} : rally'[s] = rally[s]
  BY DEF Create, HasRally, NoRally, AccountsOK
<1>4. Mustering' = [Mustering EXCEPT ![r] = TRUE] /\ ~Mustering[r]
  BY <1>3 DEF Mustering
<1> QED BY <1>2, <1>4 DEF Custody!Muster, Mustering

\* join adds to it.
LEMMA CustodyCommit ==
  ASSUME AccountsOK, NEW r \in Rallies, NEW p \in Players, NEW n \in CommitSizes,
         Join(r, p, n)
  PROVE  Custody!Commit(r, p)
<1>1. Custody!Hand(r, p)
  BY CustodyHand DEF Join
<1>2. rally[r] \in RallyAccount /\ rally[r].status = "Gathering"
  BY DEF AccountsOK, Join
<1>3. rally'[r].status = "Gathering" /\ \A s \in Rallies \ {r} : rally'[s] = rally[s]
  BY <1>2 DEF Join, Admit, RallyAccount, AccountsOK
<1>4. Mustering' = Mustering /\ Mustering[r]
  BY <1>2, <1>3 DEF Mustering
<1> QED BY <1>1, <1>4 DEF Custody!Commit, Mustering

\* A rally that fights or is called off musters no longer.
LEMMA MusterEnds ==
  ASSUME NEW r \in Rallies, rally[r].status \in {"Gathering", "Marching"},
         rally'[r].status \in {"Returning", "Cancelled"},
         \A s \in Rallies \ {r} : rally'[s] = rally[s]
  PROVE  Mustering' = [Mustering EXCEPT ![r] = FALSE] /\ Mustering[r]
<1>1. (rally'[r].status \in {"Gathering", "Marching"}) = FALSE
  OBVIOUS
<1>2. Mustering[r] /\ DOMAIN Mustering = Rallies
  BY DEF Mustering
<1>3. \A s \in Rallies : Mustering'[s] = IF s = r THEN FALSE ELSE Mustering[s]
  BY <1>1 DEF Mustering
<1>4. Mustering' = [s \in Rallies |-> Mustering'[s]]
  BY DEF Mustering
<1> QED BY <1>2, <1>3, <1>4 DEF Mustering

\* cancel calls the rally off.
LEMMA CustodyCancel ==
  ASSUME AccountsOK, MarchInv, NEW r \in Rallies, Cancel(r)
  PROVE  Custody!CallOff(r)
<1> DEFINE p == LeaderOf[r]
           back == IF AtRallyPoint(part[r][p]) THEN TravelTo[r][p]
                   ELSE now - part[r][p].travel_started_at
           a == SetOut(part[r][p], back)
<1>1. /\ rally' = [rally EXCEPT ![r].status = "Cancelled"]
      /\ part' = [part EXCEPT ![r][p] = a]
      /\ rally[r].status = "Gathering" /\ part[r][p].open /\ p \in Players
      /\ units' = units /\ wounded' = wounded
  BY RallyAssumption DEF Cancel
<1>2. TruthfulAccount(part[r][p], "Gathering", now)
  BY <1>1 DEF MarchInv, Standing
<1> HIDE DEF back, p
<1>3. ~part[r][p].included_in_march /\ ~a.included_in_march
  BY <1>1, <1>2, MarchSetOut DEF AfterBattle
<1>4. a.units_committed = part[r][p].units_committed /\ a.casualties = part[r][p].casualties
  <2>1. part[r][p] \in RallyParticipant
    BY <1>1, AccountTypes
  <2> QED BY <2>1 DEF SetOut, RallyParticipant
<1> HIDE DEF a
<1>5. /\ rally'[r].status = "Cancelled"
      /\ \A s \in Rallies \ {r} : rally'[s] = rally[s]
  BY <1>1 DEF AccountsOK, RallyAccount
<1>6. \A s \in Rallies, q \in Players :
         part'[s][q] = IF s = r /\ q = p THEN a ELSE part[s][q]
  BY <1>1 DEF AccountsOK
<1>7. Mustering' = [Mustering EXCEPT ![r] = FALSE] /\ Mustering[r]
  BY <1>1, <1>5, MusterEnds
<1>8. Held' = Held /\ Fallen' = Fallen
  BY <1>4, <1>6 DEF Held, Fallen
<1>9. FoughtIn' = FoughtIn
  BY <1>3, <1>6 DEF FoughtIn
<1> QED BY <1>1, <1>7, <1>8, <1>9 DEF Custody!CallOff, Mustering, Held, FoughtIn, Fallen

\* execute is a battle.
LEMMA CustodyExecute ==
  ASSUME AccountsOK, MarchInv, NEW r \in Rallies, ExecuteAny(r)
  PROVE  Custody!Battle(r)
<1> PICK S \in SUBSET Out(r), percent \in CasualtyPercents, won \in BOOLEAN,
         pool \in LootPools \cup {0} : Execute(r, S, percent, won, pool)
  BY DEF ExecuteAny
<1> DEFINE M == Marchers(r, S)
           power == Power(r, M)
           dead == (Army(r, M) * percent) \div 100
           b(p) == IF p \in S THEN Fought(r, p, M, dead, won, pool, power) ELSE part[r][p]
<1>1. /\ rally'[r].status = "Returning"
      /\ \A s \in Rallies \ {r} : rally'[s] = rally[s] /\ part'[s] = part[s]
      /\ \A p \in Players : part'[r][p] = b(p)
      /\ rally[r].status \in {"Gathering", "Marching"}
      /\ units' = units /\ wounded' = wounded
      /\ Cardinality(M) >= MIN_RALLY_PARTICIPANTS
  BY DEF Execute, AccountsOK, RallyAccount
<1>2. /\ S \subseteq Players /\ M \subseteq S /\ power \in Nat /\ power > 0
      /\ pool \in Nat /\ dead \in Nat
  <2>1. S \subseteq Players /\ M \subseteq S
    BY DEF Out, Marchers
  <2>2. power \in Nat /\ power > 0
    BY BattleTypes
  <2>3. pool \in Nat
    BY BattleTypes
  <2>4. dead \in Nat
    <3>1. BattleDead(r, M, percent) \in Nat
      BY BattleTypes
    <3> QED BY <3>1 DEF BattleDead
  <2> QED BY <2>1, <2>2, <2>3, <2>4
<1> HIDE DEF M, power, dead
<1>3. ASSUME NEW p \in Players
      PROVE  /\ b(p).units_committed = part[r][p].units_committed
             /\ b(p).included_in_march <=> p \in M \/ part[r][p].included_in_march
             /\ p \in M => b(p).casualties \in 0 .. part[r][p].units_committed
             /\ p \notin M => b(p).casualties = part[r][p].casualties
  <2>1. TruthfulAccount(part[r][p], Standing(r, p, rally[r].status), now)
    BY DEF MarchInv
  <2>2. p \in S /\ p \notin M => ~part[r][p].included_in_march /\ part[r][p].casualties = 0
    BY <2>1 DEF TruthfulAccount, Marchers, AtRallyPoint, M
  <2>3. CASE p \notin S
    <3>1. b(p) = part[r][p] /\ p \notin M
      BY <1>2, <2>3
    <3> HIDE DEF b
    <3> QED BY <3>1
  <2>4. CASE p \in S
    <3> DEFINE f == Fought(r, p, M, dead, won, pool, power)
    <3>1. FoughtWell(part[r][p], f, p \in M)
      <4>1. M \in SUBSET Players
        BY <1>2
      <4> QED BY <1>2, <4>1, FoughtType
    <3>2. b(p) = f
      BY <2>4
    <3> HIDE DEF f, b
    <3>3. /\ f.units_committed = part[r][p].units_committed
          /\ p \in M => f.included_in_march /\ f.casualties <= part[r][p].units_committed
          /\ p \notin M => ~f.included_in_march /\ f.casualties = part[r][p].casualties
                           /\ ~part[r][p].included_in_march
      BY <2>2, <2>4, <3>1 DEF FoughtWell
    <3>4. f \in RallyParticipant /\ part[r][p].units_committed \in Nat
      BY <3>1, AccountTypes DEF FoughtWell, RallyParticipant
    <3>5. f.casualties \in Nat
      BY <3>4 DEF RallyParticipant
    <3> QED BY <3>2, <3>3, <3>4, <3>5
  <2> QED BY <2>3, <2>4
<1> HIDE DEF b
<1>4. Mustering' = [Mustering EXCEPT ![r] = FALSE] /\ Mustering[r]
  BY <1>1, MusterEnds
<1>5. Held' = Held
  BY <1>1, <1>3 DEF Held
<1>6. FoughtIn' = [FoughtIn EXCEPT ![r] = FoughtIn[r] \cup M]
  <2>1. FoughtIn'[r] = FoughtIn[r] \cup M
    BY <1>1, <1>2, <1>3 DEF FoughtIn
  <2>2. \A s \in Rallies \ {r} : FoughtIn'[s] = FoughtIn[s]
    BY <1>1 DEF FoughtIn
  <2> QED BY <2>1, <2>2 DEF FoughtIn
<1>7. M \in SUBSET {p \in Players : Held[r][p] > 0}
  <2> SUFFICES ASSUME NEW p \in M PROVE p \in Players /\ Held[r][p] > 0
    OBVIOUS
  <2>1. p \in Players /\ part[r][p].open
    BY <1>2 DEF Out
  <2> QED BY <2>1, AccountTypes DEF Held
<1>8. \A p \in M : Fallen'[r][p] \in 0 .. Held[r][p]
  BY <1>1, <1>2, <1>3 DEF Fallen, Held
<1>9. Fallen' = [Fallen EXCEPT ![r] = [p \in Players |-> IF p \in M THEN Fallen'[r][p] ELSE Fallen[r][p]]]
  <2>1. \A p \in Players : Fallen'[r][p] = IF p \in M THEN Fallen'[r][p] ELSE Fallen[r][p]
    BY <1>1, <1>3 DEF Fallen
  <2>2. Fallen'[r] = [p \in Players |-> IF p \in M THEN Fallen'[r][p] ELSE Fallen[r][p]]
    BY <2>1 DEF Fallen
  <2>3. \A s \in Rallies \ {r} : Fallen'[s] = Fallen[s]
    BY <1>1 DEF Fallen
  <2> QED BY <2>2, <2>3 DEF Fallen
<1>10. \E T \in {T \in SUBSET Players : Cardinality(T) >= MIN_RALLY_PARTICIPANTS} :
          /\ \A p \in T : Held[r][p] > 0 /\ Fallen'[r][p] \in 0 .. Held[r][p]
          /\ FoughtIn' = [FoughtIn EXCEPT ![r] = FoughtIn[r] \cup T]
          /\ Fallen' = [Fallen EXCEPT ![r] =
                [p \in Players |-> IF p \in T THEN Fallen'[r][p] ELSE Fallen[r][p]]]
  <2>1. M \in {T \in SUBSET Players : Cardinality(T) >= MIN_RALLY_PARTICIPANTS}
    BY <1>1, <1>7
  <2>2. \A p \in M : Held[r][p] > 0
    BY <1>7
  <2> WITNESS M \in {T \in SUBSET Players : Cardinality(T) >= MIN_RALLY_PARTICIPANTS}
  <2> QED BY <2>2, <1>6, <1>8, <1>9
<1>11. units' = units /\ wounded' = wounded
  BY <1>1
<1> QED BY <1>4, <1>5, <1>10, <1>11 DEF Custody!Battle

\* Settling an army hands it back.
LEMMA CustodyRelease ==
  ASSUME AccountsOK, MarchInv, NEW r \in Rallies, NEW p \in Players, FinishReturn(r, p)
  PROVE  Custody!Release(r, p)
<1> DEFINE x == RallyWithout(r, p)
           acc == CountReturn(x)
           a == part[r][p]
<1>1. /\ rally' = [rally EXCEPT ![r] = acc]
      /\ part' = [part EXCEPT ![r][p] = NoParticipant]
      /\ units' = [units EXCEPT ![p] = units[p] + Survivors(a)]
      /\ wounded' = IF p \in Infirmary
                    THEN [wounded EXCEPT ![p] = Infirmed(wounded[p], a.casualties)] ELSE wounded
      /\ a.open
  BY DEF FinishReturn, MayReturn
<1>2. a.units_committed \in Nat /\ a.casualties \in Nat /\ units[p] \in Nat
  BY AccountTypes DEF RallyParticipant, AccountsOK
<1>3. a.units_committed > 0 /\ a.casualties <= a.units_committed
  <2>1. TruthfulAccount(a, Standing(r, p, rally[r].status), now)
    BY DEF MarchInv
  <2> QED BY <1>1, <2>1, AccountTypes DEF TruthfulAccount
<1>4. units[p] + Survivors(a) = units[p] + a.units_committed - a.casualties
  <2> HIDE DEF a
  <2> QED BY <1>2, <1>3 DEF Survivors, SatSub
<1>5. x \in RallyAccount /\ x.returned_count <= U8Max /\ x.status = rally[r].status
  BY RallyWithoutType, WithoutStatus
<1> HIDE DEF x
<1>6. acc.status = x.status \/ (x.status = "Returning" /\ acc.status = "Completed")
  <2>1. /\ CountReturn(x).participant_count = x.participant_count
        /\ CountReturn(x).status =
             IF x.status = "Returning" /\ SatInc(x.returned_count) >= x.participant_count
             THEN "Completed" ELSE x.status
    BY <1>5, CountReturnType
  <2> QED BY <2>1
<1> HIDE DEF acc
<1>7. \A s \in Rallies : rally'[s] = IF s = r THEN acc ELSE rally[s]
  BY <1>1 DEF AccountsOK
<1>8. Mustering' = Mustering
  BY <1>5, <1>6, <1>7 DEF Mustering
<1>9. \A s \in Rallies, q \in Players :
         part'[s][q] = IF s = r /\ q = p THEN NoParticipant ELSE part[s][q]
  BY <1>1 DEF AccountsOK
<1>10. Held' = [Held EXCEPT ![r][p] = 0] /\ Fallen' = [Fallen EXCEPT ![r][p] = 0]
  <2>1. \A s \in Rallies, q \in Players :
           /\ Held'[s][q] = IF s = r /\ q = p THEN 0 ELSE Held[s][q]
           /\ Fallen'[s][q] = IF s = r /\ q = p THEN 0 ELSE Fallen[s][q]
    BY <1>9 DEF Held, Fallen, NoParticipant
  <2>2. /\ Held = [s \in Rallies |-> [q \in Players |-> Held[s][q]]]
        /\ Held' = [s \in Rallies |-> [q \in Players |-> Held'[s][q]]]
    BY DEF Held
  <2>3. /\ Fallen = [s \in Rallies |-> [q \in Players |-> Fallen[s][q]]]
        /\ Fallen' = [s \in Rallies |-> [q \in Players |-> Fallen'[s][q]]]
    BY DEF Fallen
  <2>4. Held' = [Held EXCEPT ![r][p] = 0]
    BY <2>1, <2>2, TableUpdate
  <2>5. Fallen' = [Fallen EXCEPT ![r][p] = 0]
    BY <2>1, <2>3, TableUpdate
  <2> QED BY <2>4, <2>5
<1>11. FoughtIn' = [FoughtIn EXCEPT ![r] = FoughtIn[r] \ {p}]
  <2>1. FoughtIn'[r] = FoughtIn[r] \ {p}
    BY <1>9 DEF FoughtIn, NoParticipant
  <2>2. \A s \in Rallies \ {r} : FoughtIn'[s] = FoughtIn[s]
    BY <1>9 DEF FoughtIn
  <2> QED BY <2>1, <2>2 DEF FoughtIn
<1>12. Held[r][p] = a.units_committed /\ Fallen[r][p] = a.casualties
  BY DEF Held, Fallen
<1> HIDE DEF a
<1>13. Held[r][p] > 0
  BY <1>3, <1>12
<1>14. units' = [units EXCEPT ![p] = units[p] + Held[r][p] - Fallen[r][p]]
  BY <1>1, <1>4, <1>12
<1>15. IF p \in Infirmary
       THEN \E w \in 0 .. Fallen[r][p] : wounded' = [wounded EXCEPT ![p] = wounded[p] + w]
       ELSE wounded' = wounded
  <2> DEFINE w == Infirmed(wounded[p], a.casualties) - wounded[p]
  <2>1. wounded[p] \in 0 .. U32Max
    BY DEF AccountsOK
  <2>2. /\ w \in 0 .. a.casualties
        /\ wounded[p] + w = Infirmed(wounded[p], a.casualties)
    <3>1. /\ Infirmed(wounded[p], a.casualties) \in 0 .. U32Max
          /\ Infirmed(wounded[p], a.casualties) - wounded[p] \in 0 .. a.casualties
      BY <1>2, <2>1, InfirmedType
    <3> QED BY <2>1, <3>1, RallyAssumption
  <2> HIDE DEF w
  <2> QED BY <1>1, <1>12, <2>2
<1> QED BY <1>8, <1>10, <1>11, <1>13, <1>14, <1>15
        DEF Custody!Release, Mustering, Held, FoughtIn, Fallen

\* Every step of a rally is a step of the custody of armies or leaves it alone.
\* MarchInv excludes the accounts that would break this: losses without a battle,
\* more dead than there were units, and a march of a rally that has yet to fight.
LEMMA CustodyStep == AccountsOK /\ MarchInv /\ [Next]_vars => [Custody!Next]_(Custody!vars)
<1> DEFINE Goal == [Custody!Next]_(Custody!vars)
<1> SUFFICES ASSUME AccountsOK, MarchInv, [Next]_vars PROVE Goal
  OBVIOUS
<1>a. Untouched => Goal
  BY CustodyStutters
<1>b. ASSUME NEW r \in Rallies, NEW p \in Players,
             Custody!Muster(r, p) \/ Custody!Commit(r, p)
      PROVE  Goal
  BY <1>b DEF Custody!Next
<1>c. ASSUME NEW r \in Rallies, Custody!CallOff(r) PROVE Goal
  BY <1>c DEF Custody!Next
<1>d. ASSUME NEW r \in Rallies, Custody!Battle(r) PROVE Goal
  BY <1>d DEF Custody!Next
<1>e. ASSUME NEW r \in Rallies, NEW p \in Players, Custody!Release(r, p) PROVE Goal
  BY <1>e DEF Custody!Next
<1> HIDE DEF Goal
<1>1. CASE Tick
  <2>1. UNCHANGED <<rally, part, units, wounded>>
    BY <1>1 DEF Tick
  <2> QED BY <2>1, <1>a DEF Untouched, Mustering, Held, FoughtIn, Fallen
<1>2. ASSUME NEW r \in Rallies, NEW n \in CommitSizes, NEW d \in GatherDurations,
             Create(r, n, d)
      PROVE  Goal
  <2>1. LeaderOf[r] \in Players
    BY RallyAssumption
  <2> QED BY <1>2, <2>1, <1>b, CustodyMuster
<1>3. ASSUME NEW r \in Rallies, Cancel(r) PROVE Goal
  BY <1>3, <1>c, CustodyCancel
<1>4. ASSUME NEW r \in Rallies, ExecuteAny(r) PROVE Goal
  BY <1>4, <1>d, CustodyExecute
<1>5. ASSUME NEW r \in Rallies, Close(r) PROVE Goal
  <2>1. /\ rally' = [rally EXCEPT ![r] = NoRally("Closed")]
        /\ UNCHANGED <<part, units, wounded>>
        /\ rally[r].status \in {"Completed", "Cancelled"}
    BY <1>5 DEF Close, CanClose
  <2>2. \A s \in Rallies : rally'[s] = IF s = r THEN NoRally("Closed") ELSE rally[s]
    BY <2>1 DEF AccountsOK
  <2>3. Mustering' = Mustering
    BY <2>1, <2>2 DEF Mustering, NoRally
  <2> QED BY <2>1, <2>3, <1>a DEF Untouched, Held, FoughtIn, Fallen
<1>6. ASSUME NEW r \in Rallies, NEW p \in Players, NEW n \in CommitSizes, Join(r, p, n)
      PROVE  Goal
  BY <1>6, <1>b, CustodyCommit
<1>7. ASSUME NEW r \in Rallies, NEW p \in Players, Leave(r, p) PROVE Goal
  <2> DEFINE acc == Withdraw(r, part[r][p])
             d == ReturnDuration(r, p)
             a == SetOut(part[r][p], d)
  <2>1. /\ rally' = [rally EXCEPT ![r] = acc] /\ part' = [part EXCEPT ![r][p] = a]
        /\ units' = units /\ wounded' = wounded
        /\ rally[r].status = "Gathering" /\ part[r][p].open
        /\ part[r][p].return_started_at = 0
    BY <1>7 DEF Leave
  <2>2. acc.status = rally[r].status
    BY WithoutStatus
  <2>3. TruthfulAccount(part[r][p], Standing(r, p, rally[r].status), now)
    BY DEF MarchInv
  <2> HIDE DEF acc, d
  <2>4. ~part[r][p].included_in_march /\ ~a.included_in_march
    BY <2>1, <2>3, MarchSetOut
  <2>5. /\ part[r][p] \in RallyParticipant
        /\ part[r][p].included_in_march \in BOOLEAN
    BY AccountTypes DEF RallyParticipant
  <2>6. /\ a.units_committed = part[r][p].units_committed
        /\ a.casualties = part[r][p].casualties
        /\ a.included_in_march = FALSE
    BY <2>5 DEF SetOut, RallyParticipant
  <2> HIDE DEF a
  <2>7. a.included_in_march = part[r][p].included_in_march
    BY <2>4, <2>5, <2>6
  <2>8. Untouched
    BY <2>1, <2>2, <2>6, <2>7, StepUntouched
  <2> QED BY <2>8, <1>a
<1>8. ASSUME NEW r \in Rallies, NEW p \in Players, StartReturn(r, p) PROVE Goal
  <2> DEFINE acc == RallyWithout(r, p)
             d == ReturnDuration(r, p)
             a == TurnedRound(part[r][p], now, d)
  <2>1. /\ rally' = [rally EXCEPT ![r] = acc] /\ part' = [part EXCEPT ![r][p] = a]
        /\ units' = units /\ wounded' = wounded
    BY <1>8 DEF StartReturn, TurnedRound
  <2>2. acc.status = rally[r].status
    BY WithoutStatus
  <2>3. part[r][p] \in RallyParticipant /\ now \in Nat /\ d \in Nat
    BY AccountTypes, ReturnDurationType, RallyAssumption DEF AccountsOK
  <2> HIDE DEF acc, d
  <2>4. /\ a.units_committed = part[r][p].units_committed
        /\ a.included_in_march = part[r][p].included_in_march
        /\ a.casualties = part[r][p].casualties
    BY <2>3, TurnedRoundType
  <2> HIDE DEF a
  <2>5. Untouched
    BY <2>1, <2>2, <2>4, StepUntouched
  <2> QED BY <2>5, <1>a
<1>9. ASSUME NEW r \in Rallies, NEW p \in Players, FinishReturn(r, p) PROVE Goal
  BY <1>9, <1>e, CustodyRelease
<1>10. ASSUME NEW r \in Rallies, NEW p \in Players, NEW payer \in Players,
              NEW tier \in Tiers, SpeedupGather(r, p, payer, tier)
       PROVE  Goal
  <2> DEFINE u == now + RemainingAfter(part[r][p].arrives_at_rally - now, tier)
             a == [part[r][p] EXCEPT !.arrives_at_rally = u]
             acc == rally[r]
  <2>1. /\ rally' = [rally EXCEPT ![r] = acc] /\ part' = [part EXCEPT ![r][p] = a]
        /\ units' = units /\ wounded' = wounded
    BY <1>10 DEF SpeedupGather, AccountsOK
  <2>2. part[r][p] \in RallyParticipant
    BY AccountTypes
  <2> HIDE DEF u
  <2>3. /\ a.units_committed = part[r][p].units_committed
        /\ a.included_in_march = part[r][p].included_in_march
        /\ a.casualties = part[r][p].casualties
    BY <2>2 DEF RallyParticipant
  <2> HIDE DEF a
  <2>4. Untouched
    BY <2>1, <2>3, StepUntouched
  <2> QED BY <2>4, <1>a
<1>11. ASSUME NEW r \in Rallies, NEW p \in Players, NEW payer \in Players,
              NEW tier \in Tiers, SpeedupReturn(r, p, payer, tier)
       PROVE  Goal
  <2> DEFINE b == part[r][p]
             left == b.return_started_at + b.return_duration - now
             u == now - b.return_started_at + RemainingAfter(left, tier)
             a == [part[r][p] EXCEPT !.return_duration = u]
             acc == rally[r]
  <2>1. /\ rally' = [rally EXCEPT ![r] = acc] /\ part' = [part EXCEPT ![r][p] = a]
        /\ units' = units /\ wounded' = wounded
    BY <1>11 DEF SpeedupReturn, AccountsOK
  <2>2. part[r][p] \in RallyParticipant
    BY AccountTypes
  <2> HIDE DEF u
  <2>3. /\ a.units_committed = part[r][p].units_committed
        /\ a.included_in_march = part[r][p].included_in_march
        /\ a.casualties = part[r][p].casualties
    BY <2>2 DEF RallyParticipant
  <2> HIDE DEF a
  <2>4. Untouched
    BY <2>1, <2>3, StepUntouched
  <2> QED BY <2>4, <1>a
<1>12. CASE AccountsStay
  BY <1>12, <1>a DEF AccountsStay, Untouched, Mustering, Held, FoughtIn, Fallen
<1> QED BY <1>1, <1>2, <1>3, <1>4, <1>5, <1>6, <1>7, <1>8, <1>9, <1>10, <1>11, <1>12,
           StayingSteps DEF Next, ProcessReturn

\* Rallies implement the custody of armies (ArmyCustody), whatever the numbers of
\* players and rallies, the travel times and the outcomes of battles.
THEOREM CustodyImplemented == Spec => ImplementsCustody
<1>1. Init => AccountsOK /\ MarchInv /\ Custody!Init
  BY InitType, MarchInit, CustodyInit
<1>2. AccountsOK /\ MarchInv /\ [Next]_vars => (AccountsOK /\ MarchInv)'
  BY NextType, MarchNext
<1>3. AccountsOK /\ MarchInv /\ [Next]_vars => [Custody!Next]_(Custody!vars)
  BY CustodyStep
<1> QED BY <1>1, <1>2, <1>3, PTL DEF Spec, ImplementsCustody, Custody!Spec

-----------------------------------------------------------------------------
(* What each instruction does to the accounts that are counted *)

\* A step that touches no rally but r and no participant account but that of p.
OnlyHere(r, p) ==
    /\ \A s \in Rallies \ {r} : rally'[s] = rally[s] /\ part'[s] = part[s]
    /\ \A q \in Players \ {p} : part'[r][q] = part[r][q]

\* A step that writes one rally and one participant touches no other.
LEMMA OneAccount ==
  ASSUME AccountsOK, NEW r \in Rallies, NEW p \in Players, NEW acc, NEW a,
         rally' = [rally EXCEPT ![r] = acc], part' = [part EXCEPT ![r][p] = a]
  PROVE  OnlyHere(r, p) /\ rally'[r] = acc /\ part'[r][p] = a
BY DEF AccountsOK, OnlyHere

\* What committing an army writes.
LEMMA CommitEffect ==
  ASSUME AccountsOK, NEW r \in Rallies, NEW p \in Players, NEW n \in CommitSizes, Commit(r, p, n)
  PROVE  /\ \E a \in RallyParticipant :
               /\ part' = [part EXCEPT ![r][p] = a]
               /\ a.open /\ a.return_started_at = 0 /\ a.units_committed = n
         /\ joined' = [joined EXCEPT ![p] = SatInc(@)]
<1> DEFINE u == now + TravelTo[r][p]
           b == (TravelTo[r][p] = 0)
           a == NewParticipant(r, p, n)
<1>1. n \in Nat /\ now \in Nat /\ TravelTo[r][p] \in Nat
  <2>1. n \in Nat
    BY RallyAssumption
  <2>2. TravelTo[r][p] \in Nat
    BY RallyAssumption
  <2>3. now \in Nat
    BY RallyAssumption DEF AccountsOK
  <2> QED BY <2>1, <2>2, <2>3
<1>2. u \in Nat /\ b \in BOOLEAN
  BY <1>1
<1>3. a = Enlisted(n, now, u, b)
  BY DEF NewParticipant, Enlisted
<1> HIDE DEF u, b, a
<1>4. /\ a \in RallyParticipant /\ a.open /\ a.units_committed = n
      /\ a.return_started_at = 0
  <2>1. /\ Enlisted(n, now, u, b) \in RallyParticipant
        /\ Enlisted(n, now, u, b).open
        /\ Enlisted(n, now, u, b).units_committed = n
        /\ Enlisted(n, now, u, b).return_started_at = 0
    BY <1>1, <1>2, EnlistedType
  <2> QED BY <1>3, <2>1
<1>5. part' = [part EXCEPT ![r][p] = a]
  BY DEF Commit, a
<1> QED BY <1>4, <1>5 DEF Commit

\* What creating a rally writes.
LEMMA CreateEffect ==
  ASSUME AccountsOK, NEW r \in Rallies, NEW n \in CommitSizes, NEW d \in GatherDurations,
         Create(r, n, d)
  PROVE  LET p == LeaderOf[r] IN
         /\ p \in Players /\ OnlyHere(r, p)
         /\ ~HasRally(r) /\ ~part[r][p].open
         /\ rally'[r].status = "Gathering" /\ rally'[r].participant_count = 1
         /\ rally'[r].returned_count = 0 /\ rally'[r].total_units = n
         /\ part'[r][p].open /\ part'[r][p].return_started_at = 0
         /\ part'[r][p].units_committed = n
         /\ joined' = [joined EXCEPT ![p] = SatInc(@)]
<1> DEFINE p == LeaderOf[r]
           m == IF TravelTo[r][p] = 0 THEN 1 ELSE 0
           acc == Opened(now + d, m, n)
<1>1. p \in Players
  BY RallyAssumption
<1>2. PICK a \in RallyParticipant :
         /\ part' = [part EXCEPT ![r][p] = a]
         /\ a.open /\ a.return_started_at = 0 /\ a.units_committed = n
  BY <1>1, CommitEffect DEF Create
<1>3. rally' = [rally EXCEPT ![r] = acc]
  BY DEF Create, Opened
<1>4. /\ acc.status = "Gathering" /\ acc.participant_count = 1
      /\ acc.returned_count = 0 /\ acc.total_units = n
  BY DEF Opened, NoRally
<1>5. joined' = [joined EXCEPT ![p] = SatInc(@)]
  BY <1>1, CommitEffect DEF Create
<1>6. ~HasRally(r) /\ ~part[r][p].open
  BY DEF Create
<1> HIDE DEF acc, p
<1>7. OnlyHere(r, p) /\ rally'[r] = acc /\ part'[r][p] = a
  BY <1>1, <1>2, <1>3, OneAccount
<1> QED BY <1>1, <1>2, <1>4, <1>5, <1>6, <1>7 DEF p

\* What joining writes.
LEMMA JoinEffect ==
  ASSUME AccountsOK, NEW r \in Rallies, NEW p \in Players, NEW n \in CommitSizes, Join(r, p, n)
  PROVE  /\ OnlyHere(r, p) /\ p # LeaderOf[r]
         /\ rally[r].status = "Gathering" /\ ~part[r][p].open
         /\ rally[r].participant_count < MaxParticipants[r]
         /\ rally'[r].status = "Gathering"
         /\ rally'[r].participant_count = SatInc(rally[r].participant_count)
         /\ rally'[r].returned_count = rally[r].returned_count
         /\ rally'[r].total_units = rally[r].total_units + n
         /\ part'[r][p].open /\ part'[r][p].return_started_at = 0
         /\ part'[r][p].units_committed = n
         /\ joined' = [joined EXCEPT ![p] = SatInc(@)]
<1> DEFINE acc == Admit(r, p, n)
<1>1. PICK a \in RallyParticipant :
         /\ part' = [part EXCEPT ![r][p] = a]
         /\ a.open /\ a.return_started_at = 0 /\ a.units_committed = n
  BY CommitEffect DEF Join
<1>2. joined' = [joined EXCEPT ![p] = SatInc(@)]
  BY CommitEffect DEF Join
<1>3. rally' = [rally EXCEPT ![r] = acc]
  BY DEF Join
<1>4. rally[r] \in RallyAccount
  BY DEF AccountsOK
<1>5. /\ acc.status = rally[r].status
      /\ acc.participant_count = SatInc(rally[r].participant_count)
      /\ acc.returned_count = rally[r].returned_count
      /\ acc.total_units = rally[r].total_units + n
  BY <1>4 DEF Admit, RallyAccount
<1>6. /\ p # LeaderOf[r] /\ rally[r].status = "Gathering" /\ ~part[r][p].open
      /\ rally[r].participant_count < MaxParticipants[r]
  BY DEF Join
<1> HIDE DEF acc
<1>7. OnlyHere(r, p) /\ rally'[r] = acc /\ part'[r][p] = a
  BY <1>1, <1>3, OneAccount
<1> QED BY <1>1, <1>2, <1>5, <1>6, <1>7

\* The account of a rally that forgets a member.
LEMMA WithdrawEffect ==
  ASSUME AccountsOK, NEW r \in Rallies, NEW p \in Players
  PROVE  LET acc == Withdraw(r, part[r][p]) IN
         /\ acc.status = rally[r].status
         /\ acc.participant_count = SatSub(rally[r].participant_count, 1)
         /\ acc.returned_count = rally[r].returned_count
         /\ acc.total_units = SatSub(rally[r].total_units, part[r][p].units_committed)
<1>1. rally[r] \in RallyAccount
  BY DEF AccountsOK
<1> QED BY <1>1 DEF Withdraw, RallyAccount

\* What leaving writes.
LEMMA LeaveEffect ==
  ASSUME AccountsOK, NEW r \in Rallies, NEW p \in Players, Leave(r, p)
  PROVE  /\ OnlyHere(r, p) /\ rally'[r] = Withdraw(r, part[r][p])
         /\ rally[r].status = "Gathering"
         /\ part[r][p].open /\ part[r][p].return_started_at = 0
         /\ part'[r][p].open = part[r][p].open /\ part'[r][p].return_started_at > 0
         /\ joined' = joined
<1> DEFINE d == ReturnDuration(r, p)
           a == SetOut(part[r][p], d)
<1>1. d \in Nat /\ now \in Nat /\ now > 0 /\ part[r][p] \in RallyParticipant
  BY ReturnDurationType, AccountTypes, RallyAssumption DEF AccountsOK
<1> HIDE DEF d
<1>2. a.open = part[r][p].open /\ a.return_started_at = now
  BY <1>1, SetOutType
<1>3. /\ rally' = [rally EXCEPT ![r] = Withdraw(r, part[r][p])]
      /\ part' = [part EXCEPT ![r][p] = a]
  BY DEF Leave, d
<1>4. /\ rally[r].status = "Gathering" /\ part[r][p].open
      /\ part[r][p].return_started_at = 0 /\ joined' = joined
  BY DEF Leave
<1> HIDE DEF a
<1>5. OnlyHere(r, p) /\ rally'[r] = Withdraw(r, part[r][p]) /\ part'[r][p] = a
  BY <1>3, OneAccount
<1> QED BY <1>1, <1>2, <1>4, <1>5

\* What cancelling writes.
LEMMA CancelEffect ==
  ASSUME AccountsOK, NEW r \in Rallies, Cancel(r)
  PROVE  LET p == LeaderOf[r] IN
         /\ p \in Players /\ OnlyHere(r, p)
         /\ rally[r].status = "Gathering" /\ part[r][p].open
         /\ rally'[r].status = "Cancelled"
         /\ rally'[r].participant_count = rally[r].participant_count
         /\ rally'[r].returned_count = rally[r].returned_count
         /\ part'[r][p].open = part[r][p].open
         /\ joined' = [joined EXCEPT ![p] = SatSub(@, 1)]
<1> DEFINE p == LeaderOf[r]
           acc == [rally[r] EXCEPT !.status = "Cancelled"]
           d == IF AtRallyPoint(part[r][p]) THEN TravelTo[r][p]
                ELSE now - part[r][p].travel_started_at
           a == SetOut(part[r][p], d)
<1>1. p \in Players
  BY RallyAssumption
<1>2. rally[r] \in RallyAccount /\ part[r][p] \in RallyParticipant
  BY <1>1 DEF AccountsOK
<1>3. a.open = part[r][p].open
  BY <1>2 DEF SetOut, RallyParticipant
<1>4. /\ acc.status = "Cancelled" /\ acc.participant_count = rally[r].participant_count
      /\ acc.returned_count = rally[r].returned_count
  BY <1>2 DEF RallyAccount
<1>5. part' = [part EXCEPT ![r][p] = a]
  BY DEF Cancel
<1>6. rally' = [rally EXCEPT ![r] = acc]
  BY DEF Cancel
<1>7. /\ rally[r].status = "Gathering" /\ part[r][p].open
      /\ joined' = [joined EXCEPT ![p] = SatSub(@, 1)]
  BY DEF Cancel
<1> HIDE DEF p, acc, a
<1>8. OnlyHere(r, p) /\ rally'[r] = acc /\ part'[r][p] = a
  BY <1>1, <1>5, <1>6, OneAccount
<1> QED BY <1>1, <1>3, <1>4, <1>7, <1>8 DEF p

\* What the battle writes.
LEMMA ExecuteEffect ==
  ASSUME AccountsOK, NEW r \in Rallies, ExecuteAny(r)
  PROVE  /\ \A s \in Rallies \ {r} : rally'[s] = rally[s] /\ part'[s] = part[s]
         /\ \A p \in Players : part'[r][p].open = part[r][p].open
         /\ rally[r].status \in {"Gathering", "Marching"}
         /\ rally'[r].status = "Returning"
         /\ rally'[r].participant_count = rally[r].participant_count
         /\ rally'[r].returned_count = rally[r].returned_count
         /\ Out(r) # {}
         /\ joined' = joined
<1> PICK S \in SUBSET Out(r), percent \in CasualtyPercents, won \in BOOLEAN,
         pool \in LootPools \cup {0} : Execute(r, S, percent, won, pool)
  BY DEF ExecuteAny
<1> DEFINE M == Marchers(r, S)
           power == Power(r, M)
           dead == (Army(r, M) * percent) \div 100
<1>1. rally[r] \in RallyAccount
  BY DEF AccountsOK
<1>2. /\ \A s \in Rallies \ {r} : rally'[s] = rally[s] /\ part'[s] = part[s]
      /\ rally[r].status \in {"Gathering", "Marching"}
      /\ joined' = joined
  BY DEF Execute, AccountsOK
<1>3. rally'[r] = [rally[r] EXCEPT !.status = "Returning",
                    !.marched_count = Cardinality(M),
                    !.total_units = Army(r, M),
                    !.total_loot = pool,
                    !.attacker_won = won]
  BY DEF Execute, AccountsOK
<1>4. /\ rally'[r].status = "Returning"
      /\ rally'[r].participant_count = rally[r].participant_count
      /\ rally'[r].returned_count = rally[r].returned_count
  BY <1>1, <1>3 DEF RallyAccount
<1>5. \A p \in Players : part'[r][p] = IF p \in S THEN Fought(r, p, M, dead, won, pool, power)
                                                  ELSE part[r][p]
  BY DEF Execute, AccountsOK
<1>6. /\ M \in SUBSET Players /\ power \in Nat /\ power > 0
      /\ pool \in Nat /\ dead \in Nat
  <2>1. M \in SUBSET Players
    BY DEF Out, Marchers
  <2>2. power \in Nat /\ power > 0
    BY BattleTypes
  <2>3. pool \in Nat
    BY BattleTypes
  <2>4. dead \in Nat
    <3>1. BattleDead(r, M, percent) \in Nat
      BY BattleTypes
    <3> QED BY <3>1 DEF BattleDead
  <2> QED BY <2>1, <2>2, <2>3, <2>4
<1> HIDE DEF M, power, dead
<1>7. ASSUME NEW p \in Players PROVE part'[r][p].open = part[r][p].open
  <2>1. FoughtWell(part[r][p], Fought(r, p, M, dead, won, pool, power), p \in M)
    BY <1>6, FoughtType
  <2> QED BY <1>5, <2>1 DEF FoughtWell
<1>8. Out(r) # {}
  <2>1. Cardinality(M) >= 2 /\ M \subseteq Out(r)
    BY DEF Execute, MIN_RALLY_PARTICIPANTS, M, Marchers
  <2> QED BY <2>1, FS_EmptySet
<1> QED BY <1>2, <1>4, <1>7, <1>8

\* What closing the account of a rally writes.
LEMMA CloseEffect ==
  ASSUME AccountsOK, NEW r \in Rallies, Close(r)
  PROVE  /\ part' = part /\ joined' = joined
         /\ \A s \in Rallies \ {r} : rally'[s] = rally[s]
         /\ rally'[r].status = "Closed"
         /\ rally'[r].participant_count = 0 /\ rally'[r].returned_count = 0
BY DEF AccountsOK, Close, NoRally

\* What setting out for home writes.
LEMMA StartReturnEffect ==
  ASSUME AccountsOK, NEW r \in Rallies, NEW p \in Players, StartReturn(r, p)
  PROVE  /\ OnlyHere(r, p) /\ rally'[r] = RallyWithout(r, p)
         /\ part[r][p].open /\ part[r][p].return_started_at = 0
         /\ part'[r][p].open = part[r][p].open /\ part'[r][p].return_started_at > 0
         /\ joined' = joined
<1> DEFINE d == ReturnDuration(r, p)
           a == TurnedRound(part[r][p], now, d)
<1>1. d \in Nat /\ now \in Nat /\ now > 0 /\ part[r][p] \in RallyParticipant
  BY ReturnDurationType, AccountTypes, RallyAssumption DEF AccountsOK
<1>2. /\ rally' = [rally EXCEPT ![r] = RallyWithout(r, p)]
      /\ part' = [part EXCEPT ![r][p] = a]
  BY DEF StartReturn, TurnedRound
<1> HIDE DEF d
<1>3. a.open = part[r][p].open /\ a.return_started_at = now
  BY <1>1, TurnedRoundType
<1>4. part[r][p].open /\ part[r][p].return_started_at = 0 /\ joined' = joined
  BY DEF StartReturn, MayReturn, SettingOut
<1> HIDE DEF a
<1>5. OnlyHere(r, p) /\ rally'[r] = RallyWithout(r, p) /\ part'[r][p] = a
  BY <1>2, OneAccount
<1> QED BY <1>1, <1>3, <1>4, <1>5

\* What coming home writes.
LEMMA FinishReturnEffect ==
  ASSUME AccountsOK, NEW r \in Rallies, NEW p \in Players, FinishReturn(r, p)
  PROVE  /\ OnlyHere(r, p) /\ rally'[r] = CountReturn(RallyWithout(r, p))
         /\ HasRally(r) /\ part[r][p].open
         /\ part'[r][p] = NoParticipant /\ ~part'[r][p].open
         /\ joined' = IF StillJoined(r, p)
                      THEN [joined EXCEPT ![p] = SatSub(@, 1)] ELSE joined
<1>1. /\ rally' = [rally EXCEPT ![r] = CountReturn(RallyWithout(r, p))]
      /\ part' = [part EXCEPT ![r][p] = NoParticipant]
      /\ joined' = IF StillJoined(r, p)
                   THEN [joined EXCEPT ![p] = SatSub(@, 1)] ELSE joined
      /\ HasRally(r) /\ part[r][p].open
  BY DEF FinishReturn, MayReturn
<1>2. /\ OnlyHere(r, p) /\ part'[r][p] = NoParticipant
      /\ rally'[r] = CountReturn(RallyWithout(r, p))
  BY <1>1, OneAccount
<1>3. ~ NoParticipant.open
  BY DEF NoParticipant
<1> QED BY <1>1, <1>2, <1>3

\* Accounts that differ in nothing that is counted.
CountsAlike(a, b) ==
    /\ b.open = a.open
    /\ b.units_committed = a.units_committed
    /\ b.return_started_at = a.return_started_at

\* What a speedup writes.
LEMMA SpeedupEffect ==
  ASSUME AccountsOK, NEW r \in Rallies, NEW p \in Players, NEW payer \in Players, NEW tier \in Tiers,
         SpeedupGather(r, p, payer, tier) \/ SpeedupReturn(r, p, payer, tier)
  PROVE  /\ OnlyHere(r, p) /\ rally' = rally /\ joined' = joined
         /\ CountsAlike(part[r][p], part'[r][p])
<1>1. part[r][p] \in RallyParticipant
  BY AccountTypes
<1>2. rally' = rally /\ joined' = joined /\ rally' = [rally EXCEPT ![r] = rally[r]]
  BY DEF SpeedupGather, SpeedupReturn, AccountsOK
<1>3. ASSUME SpeedupGather(r, p, payer, tier)
      PROVE  \E a : part' = [part EXCEPT ![r][p] = a] /\ CountsAlike(part[r][p], a)
  <2> DEFINE t == now + RemainingAfter(part[r][p].arrives_at_rally - now, tier)
             a == [part[r][p] EXCEPT !.arrives_at_rally = t]
  <2>1. part' = [part EXCEPT ![r][p] = a]
    BY <1>3 DEF SpeedupGather
  <2> HIDE DEF t
  <2>2. CountsAlike(part[r][p], a)
    BY <1>1 DEF RallyParticipant, CountsAlike
  <2> HIDE DEF a
  <2> QED BY <2>1, <2>2
<1>4. ASSUME SpeedupReturn(r, p, payer, tier)
      PROVE  \E a : part' = [part EXCEPT ![r][p] = a] /\ CountsAlike(part[r][p], a)
  <2> DEFINE m == part[r][p].return_started_at + part[r][p].return_duration - now
             d == now - part[r][p].return_started_at + RemainingAfter(m, tier)
             a == [part[r][p] EXCEPT !.return_duration = d]
  <2>1. part' = [part EXCEPT ![r][p] = a]
    BY <1>4 DEF SpeedupReturn
  <2> HIDE DEF d
  <2>2. CountsAlike(part[r][p], a)
    BY <1>1 DEF RallyParticipant, CountsAlike
  <2> HIDE DEF a
  <2> QED BY <2>1, <2>2
<1>5. PICK a : part' = [part EXCEPT ![r][p] = a] /\ CountsAlike(part[r][p], a)
  BY <1>3, <1>4
<1>6. OnlyHere(r, p) /\ part'[r][p] = a
  BY <1>2, <1>5, OneAccount
<1> QED BY <1>2, <1>5, <1>6

-----------------------------------------------------------------------------
(* The rallies a player has joined *)

\* Whether the participant account of p in r counts for p, or may.
Away(r, p) ==
    part[r][p].open /\ ~(p = LeaderOf[r] /\ rally[r].status \in {"Cancelled", "Closed"})
MaybeAway(r, p) ==
    part[r][p].open /\ p = LeaderOf[r] /\ rally[r].status = "Closed"

CounterRight(p) ==
    /\ Cardinality(Counted(p)) <= joined[p]
    /\ joined[p] <= Cardinality(Counted(p) \cup MaybeCounted(p))

\* The counters of rallies joined, player by player.
LEMMA CountersRight == JoinedCounter <=> \A p \in Players : CounterRight(p)
BY DEF JoinedCounter, CounterRight

\* The rallies counted for a player, as sets.
LEMMA CountedSets ==
  ASSUME NEW p \in Players
  PROVE  /\ Counted(p) = {r \in Rallies : Away(r, p)}
         /\ MaybeCounted(p) = {r \in Rallies : MaybeAway(r, p)}
BY DEF Counted, MaybeCounted, Away, MaybeAway

\* The rallies counted for a player are finitely many.
LEMMA CountedFinite ==
  ASSUME NEW p \in Players
  PROVE  /\ IsFiniteSet(Counted(p)) /\ IsFiniteSet(MaybeCounted(p))
         /\ IsFiniteSet(Counted(p) \cup MaybeCounted(p))
         /\ Cardinality(Counted(p)) \in Nat
         /\ Cardinality(Counted(p) \cup MaybeCounted(p)) \in Nat
<1>1. Counted(p) \in SUBSET Rallies /\ MaybeCounted(p) \in SUBSET Rallies
  BY DEF Counted, MaybeCounted
<1>2. IsFiniteSet(Rallies)
  BY RallyAssumption
<1>3. /\ IsFiniteSet(Counted(p)) /\ IsFiniteSet(MaybeCounted(p))
      /\ IsFiniteSet(Counted(p) \cup MaybeCounted(p))
  BY <1>1, <1>2, FS_Subset
<1> QED BY <1>3, FS_CardinalityType

\* The counter of a player whose accounts all count as before.
LEMMA CounterSame ==
  ASSUME NEW p \in Players, CounterRight(p), joined'[p] = joined[p],
         \A r \in Rallies : Away(r, p)' = Away(r, p) /\ MaybeAway(r, p)' = MaybeAway(r, p)
  PROVE  CounterRight(p)'
<1>1. Counted(p)' = Counted(p) /\ MaybeCounted(p)' = MaybeCounted(p)
  BY Zenon DEF Counted, MaybeCounted, Away, MaybeAway
<1> QED BY <1>1 DEF CounterRight

\* An army that leaves home is counted, without saturation: a player has no more
\* than one army in each rally.
LEMMA CounterUp ==
  ASSUME AccountsOK, NEW p \in Players, CounterRight(p), NEW r \in Rallies,
         ~Away(r, p), ~MaybeAway(r, p), Away(r, p)', ~MaybeAway(r, p)',
         \A s \in Rallies \ {r} : Away(s, p)' = Away(s, p) /\ MaybeAway(s, p)' = MaybeAway(s, p),
         joined'[p] = SatInc(joined[p])
  PROVE  CounterRight(p)'
<1> DEFINE C == Counted(p)
           M == MaybeCounted(p)
<1>1. r \notin C /\ r \notin M
  BY CountedSets
<1>2. Counted(p)' = C \cup {r} /\ MaybeCounted(p)' = M
  <2>1. /\ Counted(p)' = {s \in Rallies : Away(s, p)'}
        /\ MaybeCounted(p)' = {s \in Rallies : MaybeAway(s, p)'}
    BY DEF Counted, MaybeCounted, Away, MaybeAway
  <2>2. Counted(p)' = C \cup {r}
    BY <2>1, CountedSets, Zenon
  <2>3. MaybeCounted(p)' = M
    BY <2>1, CountedSets, Zenon
  <2> QED BY <2>2, <2>3
<1>3. Cardinality(C \cup {r}) = Cardinality(C) + 1
  BY <1>1, CountedFinite, FS_AddElement
<1>4. Cardinality((C \cup M) \cup {r}) = Cardinality(C \cup M) + 1
  BY <1>1, CountedFinite, FS_AddElement
<1>5. (C \cup {r}) \cup M = (C \cup M) \cup {r}
  OBVIOUS
<1>6. Cardinality((C \cup M) \cup {r}) <= Cardinality(Rallies)
  <2>1. ((C \cup M) \cup {r}) \in SUBSET Rallies
    BY DEF Counted, MaybeCounted
  <2> QED BY <2>1, RallyAssumption, FS_Subset
<1>7. Cardinality(Rallies) \in Nat /\ Cardinality(Rallies) <= U8Max /\ U8Max \in Nat
  BY RallyAssumption, FS_CardinalityType
<1>8. joined[p] \in Nat /\ joined[p] <= Cardinality(C \cup M) /\ Cardinality(C) <= joined[p]
  BY <1>7 DEF AccountsOK, CounterRight
<1>9. Cardinality(C) \in Nat /\ Cardinality(C \cup M) \in Nat
  BY CountedFinite
<1>10. joined'[p] = joined[p] + 1
  BY <1>4, <1>6, <1>7, <1>8, <1>9 DEF SatInc
<1>11. Cardinality(Counted(p)') = Cardinality(C) + 1
  BY <1>2, <1>3
<1>12. Cardinality(Counted(p)' \cup MaybeCounted(p)') = Cardinality(C \cup M) + 1
  BY <1>2, <1>4, <1>5
<1> HIDE DEF C, M
<1> QED BY <1>8, <1>9, <1>10, <1>11, <1>12 DEF CounterRight

\* An army that stops counting takes one off the counter.
LEMMA CounterDown ==
  ASSUME AccountsOK, NEW p \in Players, CounterRight(p), NEW r \in Rallies,
         Away(r, p), ~MaybeAway(r, p), ~Away(r, p)', ~MaybeAway(r, p)',
         \A s \in Rallies \ {r} : Away(s, p)' = Away(s, p) /\ MaybeAway(s, p)' = MaybeAway(s, p),
         joined'[p] = SatSub(joined[p], 1)
  PROVE  CounterRight(p)'
<1> DEFINE C == Counted(p)
           M == MaybeCounted(p)
<1>1. r \in C /\ r \notin M
  BY CountedSets
<1>2. Counted(p)' = C \ {r} /\ MaybeCounted(p)' = M
  <2>1. /\ Counted(p)' = {s \in Rallies : Away(s, p)'}
        /\ MaybeCounted(p)' = {s \in Rallies : MaybeAway(s, p)'}
    BY DEF Counted, MaybeCounted, Away, MaybeAway
  <2>2. Counted(p)' = C \ {r}
    BY <2>1, CountedSets, Zenon
  <2>3. MaybeCounted(p)' = M
    BY <2>1, CountedSets, Zenon
  <2> QED BY <2>2, <2>3
<1>3. Cardinality(C \ {r}) = Cardinality(C) - 1
  BY <1>1, CountedFinite, FS_RemoveElement
<1>4. Cardinality((C \cup M) \ {r}) = Cardinality(C \cup M) - 1
  BY <1>1, CountedFinite, FS_RemoveElement
<1>5. (C \ {r}) \cup M = (C \cup M) \ {r}
  BY <1>1
<1>6. Cardinality(C) # 0
  BY <1>1, CountedFinite, FS_EmptySet
<1>7. joined[p] \in Nat /\ joined[p] <= Cardinality(C \cup M) /\ Cardinality(C) <= joined[p]
  BY RallyAssumption DEF AccountsOK, CounterRight
<1>8. Cardinality(C) \in Nat /\ Cardinality(C \cup M) \in Nat
  BY CountedFinite
<1>9. joined'[p] = joined[p] - 1
  BY <1>6, <1>7, <1>8 DEF SatSub
<1>10. Cardinality(Counted(p)') = Cardinality(C) - 1
  BY <1>2, <1>3
<1>11. Cardinality(Counted(p)' \cup MaybeCounted(p)') = Cardinality(C \cup M) - 1
  BY <1>2, <1>4, <1>5
<1> HIDE DEF C, M
<1> QED BY <1>7, <1>8, <1>9, <1>10, <1>11 DEF CounterRight

\* When a rally is closed over an army of its leader, the rally no longer says
\* whether it counts.
LEMMA CounterClosed ==
  ASSUME NEW p \in Players, CounterRight(p), NEW r \in Rallies, joined'[p] = joined[p],
         AccountsOK, ~Away(r, p)', MaybeAway(r, p)',
         \A s \in Rallies \ {r} : Away(s, p)' = Away(s, p) /\ MaybeAway(s, p)' = MaybeAway(s, p)
  PROVE  CounterRight(p)'
<1>1. Counted(p)' = Counted(p) \ {r} /\ MaybeCounted(p)' = MaybeCounted(p) \cup {r}
  BY Zenon DEF Counted, MaybeCounted, Away, MaybeAway
<1>2. /\ Counted(p)' \in SUBSET Counted(p)
      /\ Counted(p) \cup MaybeCounted(p) \in SUBSET (Counted(p)' \cup MaybeCounted(p)')
  BY <1>1
<1>3. IsFiniteSet(Counted(p)') /\ IsFiniteSet(Counted(p)' \cup MaybeCounted(p)')
  <2>1. IsFiniteSet(Counted(p) \cup MaybeCounted(p) \cup {r})
    BY CountedFinite, FS_AddElement
  <2>2. Counted(p)' \cup MaybeCounted(p)' = Counted(p) \cup MaybeCounted(p) \cup {r}
    BY <1>1
  <2> QED BY <1>2, <2>1, <2>2, CountedFinite, FS_Subset
<1>4. /\ Cardinality(Counted(p)') <= Cardinality(Counted(p))
      /\ Cardinality(Counted(p) \cup MaybeCounted(p))
            <= Cardinality(Counted(p)' \cup MaybeCounted(p)')
  BY <1>2, <1>3, CountedFinite, FS_Subset
<1>5. /\ Cardinality(Counted(p)') \in Nat /\ Cardinality(Counted(p)) \in Nat
      /\ Cardinality(Counted(p) \cup MaybeCounted(p)) \in Nat
      /\ Cardinality(Counted(p)' \cup MaybeCounted(p)') \in Nat
  BY <1>3, CountedFinite, FS_CardinalityType
<1>6. joined[p] \in Nat
  BY RallyAssumption DEF AccountsOK
<1> QED BY <1>4, <1>5, <1>6 DEF CounterRight

\* A status that matters to the leader's counter.
Gone(status) == status \in {"Cancelled", "Closed"}

\* Which accounts count is a matter of the accounts and, for the leader, of the
\* status of the rally.
LEMMA AwaySame ==
  ASSUME NEW r \in Rallies, NEW p \in Players,
         part'[r][p].open = part[r][p].open,
         p = LeaderOf[r] => \/ rally'[r].status = rally[r].status
                            \/ ~Gone(rally[r].status) /\ ~Gone(rally'[r].status)
  PROVE  Away(r, p)' = Away(r, p) /\ MaybeAway(r, p)' = MaybeAway(r, p)
BY DEF Away, MaybeAway, Gone

\* A step at one participant account changes no other player's counter.
LEMMA CounterStep ==
  ASSUME AccountsOK, JoinedCounter, NEW r \in Rallies, NEW p \in Players, OnlyHere(r, p),
         \/ p = LeaderOf[r]
         \/ rally'[r].status = rally[r].status
         \/ ~Gone(rally[r].status) /\ ~Gone(rally'[r].status),
         \A q \in Players \ {p} : joined'[q] = joined[q],
         CounterRight(p)'
  PROVE  JoinedCounter'
<1> SUFFICES ASSUME NEW q \in Players, q # p PROVE CounterRight(q)'
  BY DEF JoinedCounter, CounterRight
<1>1. \A s \in Rallies : Away(s, q)' = Away(s, q) /\ MaybeAway(s, q)' = MaybeAway(s, q)
  BY AwaySame DEF OnlyHere
<1>2. CounterRight(q)
  BY DEF JoinedCounter, CounterRight
<1> QED BY <1>1, <1>2, CounterSame

\* A step at one rally changes nothing that is counted of the others.
LEMMA ElsewhereSame ==
  ASSUME NEW r \in Rallies, NEW p \in Players, OnlyHere(r, p)
  PROVE  \A s \in Rallies \ {r} : Away(s, p)' = Away(s, p) /\ MaybeAway(s, p)' = MaybeAway(s, p)
BY AwaySame DEF OnlyHere

\* A step that leaves every account open or closed and every status alone, or
\* away from the statuses that matter.
LEMMA CountersStay ==
  ASSUME JoinedCounter, joined' = joined,
         \A r \in Rallies, p \in Players :
            /\ part'[r][p].open = part[r][p].open
            /\ \/ rally'[r].status = rally[r].status
               \/ ~Gone(rally[r].status) /\ ~Gone(rally'[r].status)
  PROVE  JoinedCounter'
<1> SUFFICES ASSUME NEW p \in Players PROVE CounterRight(p)'
  BY DEF JoinedCounter, CounterRight
<1>1. \A r \in Rallies : Away(r, p)' = Away(r, p) /\ MaybeAway(r, p)' = MaybeAway(r, p)
  BY AwaySame
<1>2. CounterRight(p)
  BY DEF JoinedCounter, CounterRight
<1> QED BY <1>1, <1>2, CounterSame

\* Creating and joining count one more.
LEMMA CounterCommit ==
  ASSUME AccountsOK, JoinedCounter, NEW r \in Rallies, NEW p \in Players, OnlyHere(r, p),
         ~part[r][p].open, part'[r][p].open,
         p = LeaderOf[r] \/ ~Gone(rally[r].status), ~Gone(rally'[r].status),
         joined' = [joined EXCEPT ![p] = SatInc(@)]
  PROVE  JoinedCounter'
<1>1. ~Away(r, p) /\ ~MaybeAway(r, p) /\ Away(r, p)' /\ ~MaybeAway(r, p)'
  BY DEF Away, MaybeAway, Gone
<1>2. joined'[p] = SatInc(joined[p]) /\ \A q \in Players \ {p} : joined'[q] = joined[q]
  BY DEF AccountsOK
<1>3. CounterRight(p)
  BY DEF JoinedCounter, CounterRight
<1>4. CounterRight(p)'
  BY <1>1, <1>2, <1>3, ElsewhereSame, CounterUp
<1> QED BY <1>2, <1>4, CounterStep

\* Cancelling counts the leader one less.
LEMMA CounterCancel ==
  ASSUME AccountsOK, JoinedCounter, NEW r \in Rallies, Cancel(r)
  PROVE  JoinedCounter'
<1> DEFINE p == LeaderOf[r]
<1>1. /\ p \in Players /\ OnlyHere(r, p)
      /\ rally[r].status = "Gathering" /\ part[r][p].open
      /\ rally'[r].status = "Cancelled"
      /\ joined' = [joined EXCEPT ![p] = SatSub(@, 1)]
  BY CancelEffect
<1>2. Away(r, p) /\ ~MaybeAway(r, p) /\ ~Away(r, p)' /\ ~MaybeAway(r, p)'
  BY <1>1 DEF Away, MaybeAway
<1>3. p = LeaderOf[r]
  OBVIOUS
<1> HIDE DEF p
<1>4. joined'[p] = SatSub(joined[p], 1) /\ \A q \in Players \ {p} : joined'[q] = joined[q]
  BY <1>1 DEF AccountsOK
<1>5. CounterRight(p)
  BY <1>1 DEF JoinedCounter, CounterRight
<1>6. CounterRight(p)'
  BY <1>1, <1>2, <1>4, <1>5, ElsewhereSame, CounterDown
<1> QED BY <1>1, <1>3, <1>4, <1>6, CounterStep

\* Closing a rally counts nobody.
LEMMA CounterClose ==
  ASSUME AccountsOK, JoinedCounter, NEW r \in Rallies, Close(r)
  PROVE  JoinedCounter'
<1>1. /\ part' = part /\ joined' = joined
      /\ \A s \in Rallies \ {r} : rally'[s] = rally[s]
      /\ rally'[r].status = "Closed"
  BY CloseEffect
<1> SUFFICES ASSUME NEW p \in Players PROVE CounterRight(p)'
  BY DEF JoinedCounter, CounterRight
<1>2. CounterRight(p)
  BY DEF JoinedCounter, CounterRight
<1>3. \A s \in Rallies \ {r} : Away(s, p)' = Away(s, p) /\ MaybeAway(s, p)' = MaybeAway(s, p)
  BY <1>1, AwaySame
<1>4. CASE p = LeaderOf[r] /\ part[r][p].open
  <2>1. ~Away(r, p)' /\ MaybeAway(r, p)'
    BY <1>1, <1>4 DEF Away, MaybeAway
  <2> QED BY <1>1, <1>2, <1>3, <2>1, CounterClosed
<1>5. CASE ~(p = LeaderOf[r] /\ part[r][p].open)
  <2>1. Away(r, p)' = Away(r, p) /\ MaybeAway(r, p)' = MaybeAway(r, p)
    BY <1>1, <1>5 DEF Away, MaybeAway
  <2>2. \A s \in Rallies : Away(s, p)' = Away(s, p) /\ MaybeAway(s, p)' = MaybeAway(s, p)
    BY <1>3, <2>1
  <2> QED BY <1>1, <1>2, <2>2, CounterSame
<1> QED BY <1>4, <1>5

\* The statuses before and after an army is back.
LEMMA ReturnStatus ==
  ASSUME AccountsOK, NEW r \in Rallies, NEW p \in Players
  PROVE  /\ RallyWithout(r, p).status = rally[r].status
         /\ LET after == CountReturn(RallyWithout(r, p)).status IN
            \/ after = rally[r].status
            \/ rally[r].status = "Returning" /\ after = "Completed"
<1>1. RallyWithout(r, p).status = rally[r].status
  BY WithdrawEffect DEF RallyWithout
<1>2. RallyWithout(r, p) \in RallyAccount /\ RallyWithout(r, p).returned_count <= U8Max
  BY RallyWithoutType
<1> QED BY <1>1, <1>2, CountReturnType

\* Coming home counts one less, unless it was counted before.
LEMMA CounterFinish ==
  ASSUME AccountsOK, JoinedCounter, NEW r \in Rallies, NEW p \in Players, FinishReturn(r, p)
  PROVE  JoinedCounter'
<1>1. /\ OnlyHere(r, p) /\ HasRally(r) /\ part[r][p].open /\ ~part'[r][p].open
      /\ joined' = IF StillJoined(r, p)
                   THEN [joined EXCEPT ![p] = SatSub(@, 1)] ELSE joined
  BY FinishReturnEffect
<1>2. \/ rally'[r].status = rally[r].status
      \/ ~Gone(rally[r].status) /\ ~Gone(rally'[r].status)
  BY ReturnStatus, FinishReturnEffect DEF Gone
<1>3. ~Away(r, p)' /\ ~MaybeAway(r, p)'
  BY <1>1 DEF Away, MaybeAway
<1>4. CounterRight(p)
  BY DEF JoinedCounter, CounterRight
<1>5. \A q \in Players \ {p} : joined'[q] = joined[q]
  BY <1>1 DEF AccountsOK
<1>6. CASE StillJoined(r, p)
  <2>1. Away(r, p) /\ ~MaybeAway(r, p)
    BY <1>1, <1>6 DEF Away, MaybeAway, StillJoined, HasRally
  <2>2. joined'[p] = SatSub(joined[p], 1)
    BY <1>1, <1>6 DEF AccountsOK
  <2>3. CounterRight(p)'
    BY <1>1, <1>3, <1>4, <2>1, <2>2, ElsewhereSame, CounterDown
  <2> QED BY <1>1, <1>2, <1>5, <2>3, CounterStep
<1>7. CASE ~StillJoined(r, p)
  <2>1. ~Away(r, p) /\ ~MaybeAway(r, p)
    BY <1>7 DEF Away, MaybeAway, StillJoined
  <2>2. Away(r, p)' = Away(r, p) /\ MaybeAway(r, p)' = MaybeAway(r, p)
    BY <1>3, <2>1 DEF Away, MaybeAway
  <2>3. CounterRight(p)'
    BY <1>1, <1>4, <1>7, <2>2, ElsewhereSame, CounterSame
  <2> QED BY <1>1, <1>2, <1>5, <2>3, CounterStep
<1> QED BY <1>6, <1>7

\* Every step keeps the counter right.
LEMMA CounterNext ==
  ASSUME AccountsOK, JoinedCounter, [Next]_vars
  PROVE  JoinedCounter'
<1>1. CASE UNCHANGED <<rally, part, joined>>
  BY <1>1, CountersStay
<1>2. ASSUME NEW r \in Rallies, NEW n \in CommitSizes, NEW d \in GatherDurations, Create(r, n, d)
      PROVE  JoinedCounter'
  BY <1>2, CreateEffect, CounterCommit DEF Gone
<1>3. ASSUME NEW r \in Rallies, ExecuteAny(r) PROVE JoinedCounter'
  <2>1. \A s \in Rallies, p \in Players :
          /\ part'[s][p].open = part[s][p].open
          /\ \/ rally'[s].status = rally[s].status
             \/ ~Gone(rally[s].status) /\ ~Gone(rally'[s].status)
    BY <1>3, ExecuteEffect DEF Gone
  <2>2. joined' = joined
    BY <1>3, ExecuteEffect
  <2> QED BY <2>1, <2>2, CountersStay
<1>4. ASSUME NEW r \in Rallies, NEW p \in Players, NEW n \in CommitSizes, Join(r, p, n)
      PROVE  JoinedCounter'
  BY <1>4, JoinEffect, CounterCommit DEF Gone
<1>5. ASSUME NEW r \in Rallies, NEW p \in Players, OnlyHere(r, p), joined' = joined,
             part'[r][p].open = part[r][p].open, rally'[r].status = rally[r].status
      PROVE  JoinedCounter'
  <2>1. \A s \in Rallies, q \in Players :
          part'[s][q].open = part[s][q].open /\ rally'[s].status = rally[s].status
    BY <1>5 DEF OnlyHere
  <2> QED BY <1>5, <2>1, CountersStay
<1>6. ASSUME NEW r \in Rallies, NEW p \in Players, Leave(r, p) PROVE JoinedCounter'
  BY <1>5, <1>6, LeaveEffect, WithdrawEffect
<1>7. ASSUME NEW r \in Rallies, NEW p \in Players, StartReturn(r, p) PROVE JoinedCounter'
  BY <1>5, <1>7, StartReturnEffect, ReturnStatus
<1>8. ASSUME NEW r \in Rallies, NEW p \in Players, NEW payer \in Players, NEW tier \in Tiers,
             SpeedupGather(r, p, payer, tier) \/ SpeedupReturn(r, p, payer, tier)
      PROVE  JoinedCounter'
  BY <1>5, <1>8, SpeedupEffect DEF CountsAlike
<1> QED BY <1>1, <1>2, <1>3, <1>4, <1>6, <1>7, <1>8, CounterCancel, CounterClose, CounterFinish,
           StayingSteps
        DEF Next, ProcessReturn, Tick, AccountsStay

\* The counter is right at the start.
LEMMA CounterInit == Init => JoinedCounter
<1> SUFFICES ASSUME Init, NEW p \in Players PROVE CounterRight(p)
  BY DEF JoinedCounter, CounterRight
<1>1. Counted(p) = {} /\ MaybeCounted(p) = {} /\ joined[p] = 0
  BY DEF Init, Counted, MaybeCounted, NoParticipant
<1> QED BY <1>1, FS_EmptySet DEF CounterRight

\* However many rallies a player leads, joins, leaves and sees cancelled, the
\* counter that keeps him from other activities is the number of his armies out.
THEOREM CounterCorrect == Spec => []JoinedCounter
<1>1. AccountsOK /\ JoinedCounter /\ [Next]_vars => JoinedCounter'
  BY CounterNext
<1> QED BY <1>1, CounterInit, AccountsCorrect, PTL DEF Spec

-----------------------------------------------------------------------------
(* The way home *)

\* The armies that are out are finitely many.
LEMMA OutFinite ==
  ASSUME NEW r \in Rallies
  PROVE  IsFiniteSet(Out(r)) /\ Cardinality(Out(r)) \in Nat
<1>1. Out(r) \in SUBSET Players
  BY DEF Out
<1>2. IsFiniteSet(Out(r))
  BY <1>1, RallyAssumption, FS_Subset
<1> QED BY <1>2, FS_CardinalityType

ReturnRight(r) ==
    /\ rally[r].participant_count <= rally[r].returned_count + Cardinality(Out(r))
    /\ rally[r].status = "Returning" => Out(r) # {}

\* A rally that is left alone, or whose member only changes course.
LEMMA ReturnSame ==
  ASSUME AccountsOK, NEW r \in Rallies, ReturnRight(r),
         \A p \in Players : part'[r][p].open = part[r][p].open,
         rally'[r].participant_count \in Nat,
         rally'[r].participant_count <= rally[r].participant_count,
         rally'[r].returned_count = rally[r].returned_count,
         rally'[r].status = "Returning" => rally[r].status = "Returning" \/ Out(r) # {}
  PROVE  ReturnRight(r)'
<1>1. Out(r)' = Out(r)
  BY DEF Out
<1>2. /\ rally[r].participant_count \in Nat /\ rally[r].returned_count \in Nat
      /\ Cardinality(Out(r)) \in Nat
  BY OutFinite DEF AccountsOK, RallyAccount
<1> QED BY <1>1, <1>2 DEF ReturnRight

\* A step at one rally leaves the others able to complete.
LEMMA ReturnElsewhere ==
  ASSUME AccountsOK, ReturnCanComplete, NEW r \in Rallies, NEW p \in Players, OnlyHere(r, p),
         ReturnRight(r)'
  PROVE  ReturnCanComplete'
<1> SUFFICES ASSUME NEW s \in Rallies, s # r PROVE ReturnRight(s)'
  BY DEF ReturnCanComplete, ReturnRight
<1>1. rally'[s] = rally[s] /\ Out(s)' = Out(s)
  BY DEF OnlyHere, Out
<1> QED BY <1>1 DEF ReturnCanComplete, ReturnRight

\* An army that comes home is counted as returned.
LEMMA ReturnFinish ==
  ASSUME AccountsOK, NEW r \in Rallies, NEW p \in Players, ReturnRight(r), FinishReturn(r, p)
  PROVE  ReturnRight(r)'
<1> DEFINE acc == RallyWithout(r, p)
<1>1. /\ OnlyHere(r, p) /\ rally'[r] = CountReturn(acc)
      /\ part[r][p].open /\ ~part'[r][p].open
  BY FinishReturnEffect
<1>2. p \in Out(r) /\ Out(r)' = Out(r) \ {p}
  BY <1>1 DEF OnlyHere, Out
<1>3. Cardinality(Out(r)') = Cardinality(Out(r)) - 1 /\ Cardinality(Out(r)) \in Nat
  BY <1>2, OutFinite, FS_RemoveElement
<1>4. /\ rally[r].participant_count \in Nat /\ rally[r].returned_count \in Nat
      /\ rally[r].returned_count <= U8Max /\ U8Max \in Nat
  BY RallyAssumption DEF AccountsOK, RallyAccount
<1>5. /\ acc \in RallyAccount /\ acc.participant_count <= U8Max
      /\ acc.returned_count = rally[r].returned_count
      /\ acc.participant_count <= rally[r].participant_count
      /\ acc.participant_count \in Nat
  <2>1. acc \in RallyAccount /\ acc.participant_count <= U8Max
    BY RallyWithoutType
  <2>2. acc.returned_count = rally[r].returned_count
    BY WithdrawEffect DEF RallyWithout
  <2>3. acc.participant_count <= rally[r].participant_count
    BY <1>4, WithdrawEffect DEF RallyWithout, SatSub
  <2>4. acc.participant_count \in Nat
    BY <2>1 DEF RallyAccount
  <2> QED BY <2>1, <2>2, <2>3, <2>4
<1>6. /\ rally'[r].participant_count = acc.participant_count
      /\ rally'[r].returned_count = SatInc(rally[r].returned_count)
      /\ rally'[r].status = "Returning" =>
            SatInc(rally[r].returned_count) < acc.participant_count
  <2> HIDE DEF acc
  <2>1. SatInc(rally[r].returned_count) \in Nat
    BY <1>4 DEF SatInc
  <2> QED BY <1>1, <1>4, <1>5, <2>1, CountReturnType
<1> HIDE DEF acc
<1>7. SatInc(rally[r].returned_count) =
         IF rally[r].returned_count < U8Max THEN rally[r].returned_count + 1
         ELSE rally[r].returned_count
  BY DEF SatInc
<1>8. rally[r].participant_count <= rally[r].returned_count + Cardinality(Out(r))
  BY DEF ReturnRight
<1>9. rally'[r].participant_count <= rally'[r].returned_count + Cardinality(Out(r)')
  <2>0. Cardinality(Out(r)') \in Nat
    <3>1. Cardinality(Out(r)) # 0
      BY <1>2, OutFinite, FS_EmptySet
    <3> QED BY <1>3, <3>1
  <2>1. CASE rally[r].returned_count < U8Max
    BY <1>3, <1>4, <1>5, <1>6, <1>7, <1>8, <2>1
  <2>2. CASE ~(rally[r].returned_count < U8Max)
    BY <1>4, <1>5, <1>6, <1>7, <2>0, <2>2
  <2> QED BY <2>1, <2>2
<1>10. rally'[r].status = "Returning" => Out(r)' # {}
  <2> SUFFICES ASSUME rally'[r].status = "Returning", Out(r)' = {} PROVE FALSE
    OBVIOUS
  <2>1. Cardinality(Out(r)') = 0
    BY FS_EmptySet
  <2>2. SatInc(rally[r].returned_count) \in Nat
    BY <1>4, <1>7
  <2> QED BY <1>5, <1>6, <1>9, <2>1, <2>2
<1> QED BY <1>9, <1>10 DEF ReturnRight

\* Every step leaves each rally able to complete.
LEMMA ReturnNext ==
  ASSUME AccountsOK, ReturnCanComplete, [Next]_vars
  PROVE  ReturnCanComplete'
<1>0. \A r \in Rallies :
        /\ ReturnRight(r) /\ rally[r].participant_count \in Nat
        /\ rally[r].returned_count \in Nat
        /\ SatSub(rally[r].participant_count, 1) \in Nat
        /\ SatSub(rally[r].participant_count, 1) <= rally[r].participant_count
  BY DEF ReturnCanComplete, ReturnRight, AccountsOK, RallyAccount, SatSub
<1>1. CASE UNCHANGED <<rally, part>>
  BY <1>1 DEF ReturnCanComplete, Out
<1>2. ASSUME NEW r \in Rallies, NEW p \in Players, ~part[r][p].open, part'[r][p].open, OnlyHere(r, p)
      PROVE  /\ Out(r)' = Out(r) \cup {p}
             /\ Cardinality(Out(r)') = Cardinality(Out(r)) + 1
  <2>1. p \notin Out(r) /\ Out(r)' = Out(r) \cup {p}
    BY <1>2 DEF OnlyHere, Out
  <2> QED BY <2>1, OutFinite, FS_AddElement
<1>3. ASSUME NEW r \in Rallies, NEW n \in CommitSizes, NEW d \in GatherDurations, Create(r, n, d)
      PROVE  ReturnCanComplete'
  <2> DEFINE p == LeaderOf[r]
  <2>1. /\ p \in Players /\ OnlyHere(r, p) /\ ~part[r][p].open /\ part'[r][p].open
        /\ rally'[r].status = "Gathering" /\ rally'[r].participant_count = 1
        /\ rally'[r].returned_count = 0
    BY <1>3, CreateEffect
  <2> HIDE DEF p
  <2>2. ReturnRight(r)'
    BY <1>2, <2>1, OutFinite DEF ReturnRight
  <2> QED BY <2>1, <2>2, ReturnElsewhere
<1>4. ASSUME NEW r \in Rallies, NEW p \in Players, NEW n \in CommitSizes, Join(r, p, n)
      PROVE  ReturnCanComplete'
  <2>1. /\ OnlyHere(r, p) /\ ~part[r][p].open /\ part'[r][p].open
        /\ rally'[r].status = "Gathering"
        /\ rally'[r].participant_count = SatInc(rally[r].participant_count)
        /\ rally'[r].returned_count = rally[r].returned_count
    BY <1>4, JoinEffect
  <2>2. ReturnRight(r)'
    BY <1>0, <1>2, <2>1, OutFinite, RallyAssumption DEF ReturnRight, SatInc
  <2> QED BY <2>1, <2>2, ReturnElsewhere
<1>5. ASSUME NEW r \in Rallies, NEW p \in Players, OnlyHere(r, p),
             part'[r][p].open = part[r][p].open,
             rally'[r].participant_count \in Nat,
             rally'[r].participant_count <= rally[r].participant_count,
             rally'[r].returned_count = rally[r].returned_count,
             rally'[r].status = "Returning" => rally[r].status = "Returning"
      PROVE  ReturnCanComplete'
  <2>1. ReturnRight(r)'
    BY <1>0, <1>5, ReturnSame DEF OnlyHere
  <2> QED BY <1>5, <2>1, ReturnElsewhere
<1>6. ASSUME NEW r \in Rallies, NEW p \in Players, Leave(r, p) PROVE ReturnCanComplete'
  BY <1>0, <1>5, <1>6, LeaveEffect, WithdrawEffect
<1>7. ASSUME NEW r \in Rallies, Cancel(r) PROVE ReturnCanComplete'
  <2> DEFINE p == LeaderOf[r]
  <2>1. /\ p \in Players /\ OnlyHere(r, p) /\ part'[r][p].open = part[r][p].open
        /\ rally'[r].status = "Cancelled"
        /\ rally'[r].participant_count = rally[r].participant_count
        /\ rally'[r].returned_count = rally[r].returned_count
    BY <1>7, CancelEffect
  <2> HIDE DEF p
  <2> QED BY <1>0, <1>5, <2>1
<1>8. ASSUME NEW r \in Rallies, ExecuteAny(r) PROVE ReturnCanComplete'
  <2>1. /\ \A s \in Rallies \ {r} : rally'[s] = rally[s] /\ part'[s] = part[s]
        /\ \A p \in Players : part'[r][p].open = part[r][p].open
        /\ rally'[r].participant_count = rally[r].participant_count
        /\ rally'[r].returned_count = rally[r].returned_count
        /\ Out(r) # {}
    BY <1>8, ExecuteEffect
  <2>2. ReturnRight(r)'
    BY <1>0, <2>1, ReturnSame
  <2>3. \A s \in Rallies \ {r} : ReturnRight(s)'
    BY <1>0, <2>1 DEF ReturnRight, Out
  <2> QED BY <2>2, <2>3 DEF ReturnCanComplete, ReturnRight
<1>9. ASSUME NEW r \in Rallies, Close(r) PROVE ReturnCanComplete'
  <2>1. /\ part' = part /\ \A s \in Rallies \ {r} : rally'[s] = rally[s]
        /\ rally'[r].status = "Closed"
        /\ rally'[r].participant_count = 0 /\ rally'[r].returned_count = 0
    BY <1>9, CloseEffect
  <2>2. \A s \in Rallies : Out(s)' = Out(s)
    BY <2>1 DEF Out
  <2>3. ReturnRight(r)'
    BY <2>1, <2>2, OutFinite DEF ReturnRight
  <2>4. \A s \in Rallies \ {r} : ReturnRight(s)'
    BY <1>0, <2>1, <2>2 DEF ReturnRight
  <2> QED BY <2>3, <2>4 DEF ReturnCanComplete, ReturnRight
<1>10. ASSUME NEW r \in Rallies, NEW p \in Players, StartReturn(r, p) PROVE ReturnCanComplete'
  <2>1. /\ RallyWithout(r, p).participant_count \in Nat
        /\ RallyWithout(r, p).participant_count <= rally[r].participant_count
        /\ RallyWithout(r, p).returned_count = rally[r].returned_count
    BY <1>0, WithdrawEffect DEF RallyWithout
  <2> QED BY <1>5, <1>10, <2>1, StartReturnEffect, ReturnStatus
<1>11. ASSUME NEW r \in Rallies, NEW p \in Players, FinishReturn(r, p) PROVE ReturnCanComplete'
  <2>1. OnlyHere(r, p) /\ ReturnRight(r)'
    BY <1>0, <1>11, FinishReturnEffect, ReturnFinish
  <2> QED BY <2>1, ReturnElsewhere
<1>12. ASSUME NEW r \in Rallies, NEW p \in Players, NEW payer \in Players, NEW tier \in Tiers,
              SpeedupGather(r, p, payer, tier) \/ SpeedupReturn(r, p, payer, tier)
       PROVE  ReturnCanComplete'
  <2>1. OnlyHere(r, p) /\ rally' = rally /\ part'[r][p].open = part[r][p].open
    BY <1>12, SpeedupEffect DEF CountsAlike
  <2> QED BY <1>0, <1>5, <2>1
<1> QED BY <1>1, <1>3, <1>4, <1>6, <1>7, <1>8, <1>9, <1>10, <1>11, <1>12, StayingSteps
        DEF Next, ProcessReturn, Tick, AccountsStay

\* No rally is left on its way home for want of an army to return: whoever left
\* early, joined late or was counted twice, the last return completes it.
THEOREM ReturnsComplete == Spec => []ReturnCanComplete
<1>1. Init => ReturnCanComplete
  <2> SUFFICES ASSUME Init, NEW r \in Rallies PROVE ReturnRight(r)
    BY DEF ReturnCanComplete, ReturnRight
  <2>1. rally[r].participant_count = 0 /\ rally[r].returned_count = 0
        /\ rally[r].status = "Unused"
    BY DEF Init, NoRally
  <2> QED BY <2>1, OutFinite DEF ReturnRight
<1>2. AccountsOK /\ ReturnCanComplete /\ [Next]_vars => ReturnCanComplete'
  BY ReturnNext
<1> QED BY <1>1, <1>2, AccountsCorrect, PTL DEF Spec

-----------------------------------------------------------------------------
(* The count that execute is held to *)

Staying(r) == {p \in Out(r) : SettingOut(r, p)}

Units(r) == [p \in Players |-> part[r][p].units_committed]

HeadcountRight(r) ==
    rally[r].status = "Gathering" =>
        /\ rally[r].participant_count <= Cardinality(Staying(r))
        /\ rally[r].participant_count <= MaxParticipants[r]
        /\ adopted[r] = {} =>
              /\ rally[r].participant_count = Cardinality(Staying(r))
              /\ rally[r].total_units = Army(r, Staying(r))

\* The two totals, rally by rally.
LEMMA HeadcountsRight == GatheringHeadcount <=> \A r \in Rallies : HeadcountRight(r)
BY DEF GatheringHeadcount, HeadcountRight, Staying

\* The armies that stay are finitely many, and their sizes are natural numbers.
LEMMA StayingFacts ==
  ASSUME AccountsOK, NEW r \in Rallies
  PROVE  /\ Staying(r) \in SUBSET Players /\ IsFiniteSet(Staying(r))
         /\ Cardinality(Staying(r)) \in Nat
         /\ \A p \in Players : Units(r)[p] \in Nat
         /\ \A S \in SUBSET Players : IsFiniteSet(S) /\ Army(r, S) \in Nat
<1>1. Staying(r) \in SUBSET Players
  BY DEF Staying, Out
<1>2. \A S \in SUBSET Players : IsFiniteSet(S)
  BY RallyAssumption, FS_Subset
<1>3. \A p \in Players : Units(r)[p] \in Nat
  BY AccountTypes DEF Units, RallyParticipant
<1> QED BY <1>1, <1>2, <1>3, ArmyType, FS_CardinalityType

\* An army more, or less, adds or takes its units.
LEMMA ArmyWithout ==
  ASSUME AccountsOK, NEW r \in Rallies, NEW S \in SUBSET Players, NEW p \in S
  PROVE  Army(r, S) = part[r][p].units_committed + Army(r, S \ {p})
<1>1. IsFiniteSet(S) /\ \A q \in S : Units(r)[q] \in Int
  BY StayingFacts
<1>2. SumOver(Units(r), S) = Units(r)[p] + SumOver(Units(r), S \ {p})
  BY <1>1, SumSplit
<1> QED BY <1>2 DEF Army, Units

\* The units of armies that a step leaves alone.
LEMMA ArmySame ==
  ASSUME AccountsOK, NEW r \in Rallies, NEW S \in SUBSET Players,
         \A p \in S : part'[r][p].units_committed = part[r][p].units_committed
  PROVE  Army(r, S)' = Army(r, S)
<1>1. IsFiniteSet(S)
  BY StayingFacts
<1>2. \A p \in S : Units(r)'[p] = Units(r)[p]
  BY DEF Units
<1>3. ASSUME NEW f, NEW h, \A p \in S : f[p] = h[p] PROVE SumOver(f, S) = SumOver(h, S)
  BY <1>1, <1>3, SumAgree
<1>4. SumOver(Units(r)', S) = SumOver(Units(r), S)
  BY <1>2, <1>3
<1> QED BY <1>4 DEF Army, Units

\* Where no army of a rally changes its totals stay right.
LEMMA HeadcountSame ==
  ASSUME AccountsOK, NEW r \in Rallies, HeadcountRight(r), adopted' = adopted,
         rally'[r].status = "Gathering" =>
            /\ rally[r].status = "Gathering"
            /\ rally'[r].participant_count = rally[r].participant_count
            /\ rally'[r].total_units = rally[r].total_units
            /\ Staying(r)' = Staying(r)
            /\ \A p \in Staying(r) : part'[r][p].units_committed = part[r][p].units_committed
  PROVE  HeadcountRight(r)'
<1> SUFFICES ASSUME rally'[r].status = "Gathering" PROVE HeadcountRight(r)'
  BY DEF HeadcountRight
<1>1. Army(r, Staying(r))' = Army(r, Staying(r))
  <2>1. \A S \in SUBSET Players :
          (\A p \in S : part'[r][p].units_committed = part[r][p].units_committed)
             => Army(r, S)' = Army(r, S)
    BY ArmySame
  <2>2. ASSUME NEW S \in SUBSET Players, S = Staying(r)
        PROVE  Army(r, S)' = Army(r, Staying(r))
    BY <2>1, <2>2
  <2> QED BY <2>2, StayingFacts DEF Army
<1> QED BY <1>1 DEF HeadcountRight

\* A member who sets out for home, or whose account is closed.
LEMMA HeadcountDown ==
  ASSUME AccountsOK, NEW r \in Rallies, HeadcountRight(r), adopted' = adopted,
         rally[r].status = "Gathering", NEW p \in Staying(r),
         Staying(r)' = Staying(r) \ {p}, OnlyHere(r, p),
         rally'[r].participant_count = SatSub(rally[r].participant_count, 1),
         rally'[r].total_units = SatSub(rally[r].total_units, part[r][p].units_committed)
  PROVE  HeadcountRight(r)'
<1> DEFINE S == Staying(r)
           rest == Army(r, S \ {p})
           u == part[r][p].units_committed
<1>1. Cardinality(S \ {p}) = Cardinality(S) - 1 /\ Cardinality(S) \in Nat /\ Cardinality(S) # 0
  BY StayingFacts, FS_RemoveElement, FS_EmptySet
<1>2. Army(r, S) = u + rest /\ rest \in Nat /\ u \in Nat
  BY StayingFacts, ArmyWithout DEF Units
<1>3. Army(r, S \ {p})' = rest
  <2>1. \A q \in S \ {p} : part'[r][q] = part[r][q]
    BY StayingFacts DEF OnlyHere
  <2>2. S \ {p} \in SUBSET Players
    BY StayingFacts
  <2>3. ASSUME NEW T \in SUBSET Players, T = S \ {p}
        PROVE  Army(r, T)' = rest
    BY <2>1, <2>3, ArmySame
  <2> QED BY <2>2, <2>3 DEF Army
<1>4. Army(r, Staying(r))' = rest
  BY <1>3 DEF Army
<1>5. /\ rally[r].participant_count \in Nat /\ rally[r].total_units \in Nat
      /\ rally[r].participant_count <= Cardinality(S)
      /\ rally[r].participant_count <= MaxParticipants[r]
      /\ adopted[r] = {} => /\ rally[r].participant_count = Cardinality(S)
                            /\ rally[r].total_units = u + rest
      /\ MaxParticipants[r] \in Nat
  BY <1>2, RallyAssumption DEF HeadcountRight, AccountsOK, RallyAccount
<1>6. /\ rally'[r].participant_count <= Cardinality(S) - 1
      /\ rally'[r].participant_count <= MaxParticipants[r]
      /\ adopted[r] = {} => /\ rally'[r].participant_count = Cardinality(S) - 1
                            /\ rally'[r].total_units = rest
  <2> HIDE DEF S, rest
  <2>1. SatSub(u + rest, u) = rest
    BY <1>2 DEF SatSub
  <2> HIDE DEF u
  <2>2. SatSub(rally[r].participant_count, 1) \in Nat
    BY <1>5 DEF SatSub
  <2>3. \/ SatSub(rally[r].participant_count, 1) = rally[r].participant_count - 1
        \/ SatSub(rally[r].participant_count, 1) = 0 /\ rally[r].participant_count = 0
    BY <1>5 DEF SatSub
  <2> QED BY <1>1, <1>5, <2>1, <2>2, <2>3 DEF u
<1>7. Cardinality(Staying(r)') = Cardinality(S) - 1
  BY <1>1
<1> HIDE DEF S, rest, u
<1> QED BY <1>1, <1>4, <1>6, <1>7 DEF HeadcountRight

\* A member who joins.
LEMMA HeadcountUp ==
  ASSUME AccountsOK, NEW r \in Rallies, HeadcountRight(r), adopted' = adopted,
         rally[r].status = "Gathering", NEW p \in Players, p \notin Staying(r),
         Staying(r)' = Staying(r) \cup {p}, OnlyHere(r, p), AccountsOK',
         rally[r].participant_count < MaxParticipants[r],
         rally'[r].participant_count = SatInc(rally[r].participant_count),
         rally'[r].total_units = rally[r].total_units + part'[r][p].units_committed
  PROVE  HeadcountRight(r)'
<1> DEFINE S == Staying(r)
           T == S \cup {p}
<1>1. Cardinality(T) = Cardinality(S) + 1 /\ Cardinality(S) \in Nat
  BY StayingFacts, FS_AddElement
<1>2. S \in SUBSET Players /\ T \in SUBSET Players /\ p \in T /\ T \ {p} = S
  BY StayingFacts
<1>3. ASSUME NEW U \in SUBSET Players, NEW q \in U
      PROVE  Army(r, U)' = part'[r][q].units_committed + Army(r, U \ {q})'
  <2>1. IsFiniteSet(U) /\ \A x \in U : Units(r)'[x] \in Int
    BY StayingFacts, RallyAssumption DEF AccountsOK, RallyParticipant, Units
  <2>2. ASSUME NEW f, \A x \in U : f[x] \in Int
        PROVE  SumOver(f, U) = f[q] + SumOver(f, U \ {q})
    BY <2>1, <2>2, SumSplit
  <2>3. SumOver(Units(r)', U) = Units(r)'[q] + SumOver(Units(r)', U \ {q})
    BY <2>1, <2>2
  <2> QED BY <2>3 DEF Army, Units
<1>4. ASSUME NEW U \in SUBSET Players, p \notin U PROVE Army(r, U)' = Army(r, U)
  BY <1>4, ArmySame DEF OnlyHere
<1>5. \A U \in SUBSET Players : p \notin U =>
         Army(r, U \cup {p})' = part'[r][p].units_committed + Army(r, U)
  <2> SUFFICES ASSUME NEW U \in SUBSET Players, p \notin U
               PROVE  Army(r, U \cup {p})' = part'[r][p].units_committed + Army(r, U)
    OBVIOUS
  <2> DEFINE V == U \cup {p}
  <2>1. V \in SUBSET Players /\ p \in V /\ V \ {p} = U
    OBVIOUS
  <2> HIDE DEF V
  <2>2. Army(r, V)' = part'[r][p].units_committed + Army(r, V \ {p})'
    BY <1>3, <2>1
  <2>3. Army(r, V \ {p})' = Army(r, U)'
    BY <2>1 DEF Army
  <2> QED BY <1>4, <2>2, <2>3 DEF V
<1>6. \A U \in SUBSET Players : p \notin U /\ U = Staying(r) =>
         Army(r, Staying(r))' = part'[r][p].units_committed + Army(r, Staying(r))
  BY <1>5 DEF Army
<1>7. Army(r, Staying(r))' = part'[r][p].units_committed + Army(r, Staying(r))
  BY <1>2, <1>6
<1>8. /\ rally[r].participant_count \in Nat
      /\ rally[r].participant_count <= Cardinality(S)
      /\ adopted[r] = {} => /\ rally[r].participant_count = Cardinality(S)
                            /\ rally[r].total_units = Army(r, Staying(r))
      /\ MaxParticipants[r] \in 1 .. U8Max /\ U8Max \in Nat
  BY RallyAssumption DEF HeadcountRight, AccountsOK, RallyAccount
<1>9. rally'[r].participant_count = rally[r].participant_count + 1
  BY <1>8 DEF SatInc
<1>10. Cardinality(Staying(r)') = Cardinality(S) + 1
  BY <1>1
<1>11. adopted[r] = {} => rally'[r].total_units = Army(r, Staying(r))'
  <2>1. part'[r][p].units_committed \in Nat /\ Army(r, Staying(r)) \in Nat
    BY <1>2, StayingFacts DEF AccountsOK, RallyParticipant
  <2> QED BY <1>7, <1>8, <2>1
<1>12. rally'[r].participant_count <= MaxParticipants[r]
  BY <1>8, <1>9
<1>13. /\ rally'[r].participant_count <= Cardinality(Staying(r)')
       /\ adopted[r] = {} => rally'[r].participant_count = Cardinality(Staying(r)')
  BY <1>1, <1>8, <1>9, <1>10
<1> QED BY <1>11, <1>12, <1>13 DEF HeadcountRight

\* A rally starts with the army of its leader, beside what an earlier one left.
LEMMA HeadcountCreate ==
  ASSUME AccountsOK, MarchInv, NEW r \in Rallies, NEW n \in CommitSizes, NEW d \in GatherDurations,
         Create(r, n, d)
  PROVE  HeadcountRight(r)'
<1> DEFINE p == LeaderOf[r]
<1>1. /\ p \in Players /\ OnlyHere(r, p)
      /\ rally'[r].participant_count = 1 /\ rally'[r].total_units = n
      /\ part'[r][p].open /\ part'[r][p].return_started_at = 0
      /\ part'[r][p].units_committed = n
  BY CreateEffect
<1> HIDE DEF p
<1>2. adopted'[r] = {} => Staying(r)' = {p}
  <2> SUFFICES ASSUME adopted'[r] = {} PROVE Staying(r)' = {p}
    OBVIOUS
  <2>1. Out(r) = {}
    BY DEF Create, MarchInv
  <2>2. \A q \in Players \ {p} : ~part'[r][q].open
    BY <1>1, <2>1 DEF OnlyHere, Out
  <2> QED BY <1>1, <2>2 DEF Staying, Out, SettingOut
<1>3. Cardinality({p}) = 1
  BY FS_Singleton
<1>a. 1 <= Cardinality(Staying(r)')
  <2>1. {p} \in SUBSET Staying(r)' /\ Staying(r)' \in SUBSET Players
    BY <1>1 DEF Staying, Out, SettingOut
  <2>2. IsFiniteSet(Staying(r)')
    BY <2>1, RallyAssumption, FS_Subset
  <2>3. Cardinality({p}) <= Cardinality(Staying(r)')
    BY <2>1, <2>2, FS_Subset
  <2> QED BY <1>3, <2>3
<1>4. Army(r, {p})' = n
  <2>1. IsFiniteSet({p}) /\ \A x \in {p} : Units(r)'[x] \in Int
    <3>1. IsFiniteSet({p})
      BY FS_Singleton
    <3>2. Units(r)'[p] = n
      BY <1>1 DEF Units
    <3>3. n \in Int
      BY RallyAssumption
    <3> QED BY <3>1, <3>2, <3>3
  <2>2. ASSUME NEW f, f[p] \in Int PROVE SumOver(f, {p}) = f[p]
    <3>1. SumOver(f, {p}) = f[p] + SumOver(f, {p} \ {p})
      BY <2>1, <2>2, SumSplit
    <3>2. {p} \ {p} = {}
      OBVIOUS
    <3> QED BY <2>2, <3>1, <3>2, SumEmpty
  <2>3. SumOver(Units(r)', {p}) = Units(r)'[p]
    BY <2>1, <2>2
  <2> QED BY <1>1, <2>3 DEF Army, Units
<1>5. adopted'[r] = {} => Army(r, Staying(r))' = n /\ Cardinality(Staying(r)') = 1
  BY <1>2, <1>3, <1>4 DEF Army
<1>6. MaxParticipants[r] \in 1 .. U8Max /\ U8Max \in Nat
  BY RallyAssumption
<1> QED BY <1>1, <1>a, <1>5, <1>6 DEF HeadcountRight

\* Who joins is added to both totals.
LEMMA HeadcountJoin ==
  ASSUME AccountsOK, AccountsOK', NEW r \in Rallies, HeadcountRight(r), NEW p \in Players,
         NEW n \in CommitSizes, Join(r, p, n)
  PROVE  HeadcountRight(r)'
<1>1. /\ OnlyHere(r, p) /\ rally[r].status = "Gathering" /\ ~part[r][p].open
      /\ rally[r].participant_count < MaxParticipants[r]
      /\ rally'[r].participant_count = SatInc(rally[r].participant_count)
      /\ rally'[r].total_units = rally[r].total_units + part'[r][p].units_committed
      /\ part'[r][p].open /\ part'[r][p].return_started_at = 0
  BY JoinEffect
<1>2. p \notin Staying(r) /\ Staying(r)' = Staying(r) \cup {p}
  BY <1>1 DEF Staying, Out, SettingOut, OnlyHere
<1>3. adopted' = adopted
  BY DEF Join
<1> QED BY <1>1, <1>2, <1>3, HeadcountUp

\* Who sets out for home, and who is home, no longer stays.
LEMMA StayingLess ==
  ASSUME NEW r \in Rallies, NEW p \in Players, OnlyHere(r, p),
         part'[r][p].open => part'[r][p].return_started_at # 0
  PROVE  Staying(r)' = Staying(r) \ {p}
BY DEF Staying, Out, SettingOut, OnlyHere

\* Who leaves is taken off both totals.
LEMMA HeadcountLeave ==
  ASSUME AccountsOK, NEW r \in Rallies, HeadcountRight(r), NEW p \in Players, Leave(r, p)
  PROVE  HeadcountRight(r)'
<1>1. /\ OnlyHere(r, p) /\ rally'[r] = Withdraw(r, part[r][p])
      /\ rally[r].status = "Gathering" /\ part[r][p].open
      /\ part[r][p].return_started_at = 0 /\ part'[r][p].return_started_at # 0
  BY LeaveEffect
<1>2. p \in Staying(r) /\ Staying(r)' = Staying(r) \ {p}
  BY <1>1, StayingLess DEF Staying, Out, SettingOut
<1>3. adopted' = adopted
  BY DEF Leave
<1> QED BY <1>1, <1>2, <1>3, WithdrawEffect, HeadcountDown

\* Who sets out for home before the battle is taken off both totals.
LEMMA HeadcountStart ==
  ASSUME AccountsOK, NEW r \in Rallies, HeadcountRight(r), NEW p \in Players, StartReturn(r, p)
  PROVE  HeadcountRight(r)'
<1>1. /\ OnlyHere(r, p) /\ rally'[r] = RallyWithout(r, p) /\ part[r][p].open
      /\ part[r][p].return_started_at = 0 /\ part'[r][p].return_started_at # 0
  BY StartReturnEffect
<1>2. p \in Staying(r) /\ Staying(r)' = Staying(r) \ {p} /\ SettingOut(r, p)
  BY <1>1, StayingLess DEF Staying, Out, SettingOut
<1>3. adopted' = adopted
  BY DEF StartReturn
<1>4. CASE rally[r].status = "Gathering"
  BY <1>1, <1>2, <1>3, <1>4, WithdrawEffect, HeadcountDown DEF RallyWithout
<1>5. CASE rally[r].status # "Gathering"
  BY <1>1, <1>5 DEF RallyWithout, HeadcountRight
<1> QED BY <1>4, <1>5

\* Coming home leaves the totals those of the armies that stay.
LEMMA HeadcountFinish ==
  ASSUME AccountsOK, NEW r \in Rallies, HeadcountRight(r), NEW p \in Players, FinishReturn(r, p)
  PROVE  HeadcountRight(r)'
<1> DEFINE acc == RallyWithout(r, p)
<1>1. /\ OnlyHere(r, p) /\ rally'[r] = CountReturn(acc)
      /\ part[r][p].open /\ ~part'[r][p].open
  BY FinishReturnEffect
<1>2. Staying(r)' = Staying(r) \ {p}
  BY <1>1, StayingLess
<1>3. acc \in RallyAccount /\ acc.returned_count <= U8Max
  BY RallyWithoutType
<1>4. /\ rally'[r].participant_count = acc.participant_count
      /\ rally'[r].total_units = acc.total_units
      /\ rally'[r].status = "Gathering" => rally[r].status = "Gathering"
  BY <1>1, <1>3, CountReturnType, ReturnStatus
<1>a. adopted' = adopted
  BY DEF FinishReturn
<1>5. CASE rally[r].status = "Gathering" /\ SettingOut(r, p)
  <2>1. p \in Staying(r)
    BY <1>1, <1>5 DEF Staying, Out
  <2>2. acc = Withdraw(r, part[r][p])
    BY <1>5 DEF RallyWithout
  <2> HIDE DEF acc
  <2> QED BY <1>1, <1>2, <1>a, <1>4, <1>5, <2>1, <2>2, WithdrawEffect, HeadcountDown
<1>6. CASE ~(rally[r].status = "Gathering" /\ SettingOut(r, p))
  <2>1. acc = rally[r]
    BY <1>6 DEF RallyWithout
  <2>2. rally'[r].status = "Gathering" => Staying(r)' = Staying(r)
    BY <1>2, <1>4, <1>6 DEF Staying
  <2>3. \A q \in Staying(r) \ {p} : part'[r][q].units_committed = part[r][q].units_committed
    BY <1>1, StayingFacts DEF OnlyHere
  <2> HIDE DEF acc
  <2> QED BY <1>2, <1>a, <1>4, <2>1, <2>2, <2>3, HeadcountSame
<1> QED BY <1>5, <1>6

\* Every step keeps the totals right.
LEMMA HeadcountNext ==
  ASSUME AccountsOK, MarchInv, GatheringHeadcount, [Next]_vars
  PROVE  GatheringHeadcount'
<1>0. AccountsOK' /\ \A r \in Rallies : HeadcountRight(r)
  BY NextType, HeadcountsRight
<1>1. ASSUME NEW s \in Rallies, rally'[s] = rally[s], part'[s] = part[s],
             adopted'[s] = adopted[s]
      PROVE  HeadcountRight(s)'
  <2>1. Staying(s)' = Staying(s) /\ Army(s, Staying(s))' = Army(s, Staying(s))
    BY <1>1 DEF Staying, Out, SettingOut, Army
  <2> QED BY <1>0, <1>1, <2>1 DEF HeadcountRight
<1>2. ASSUME NEW r \in Rallies, HeadcountRight(r)',
             \A s \in Rallies \ {r} : /\ rally'[s] = rally[s] /\ part'[s] = part[s]
                                      /\ adopted'[s] = adopted[s]
      PROVE  GatheringHeadcount'
  <2>1. \A s \in Rallies : HeadcountRight(s)'
    BY <1>1, <1>2
  <2> QED BY <2>1 DEF GatheringHeadcount, HeadcountRight, Staying
<1>3. CASE UNCHANGED <<rally, part, adopted>>
  <2>1. \A s \in Rallies : HeadcountRight(s)'
    BY <1>1, <1>3
  <2> QED BY <2>1 DEF GatheringHeadcount, HeadcountRight, Staying
<1>4. ASSUME NEW r \in Rallies, Cancel(r) \/ ExecuteAny(r) \/ Close(r)
      PROVE  GatheringHeadcount'
  <2>1. /\ rally'[r].status # "Gathering"
        /\ \A s \in Rallies \ {r} : rally'[s] = rally[s] /\ part'[s] = part[s]
    BY <1>4, CancelEffect, ExecuteEffect, CloseEffect DEF OnlyHere
  <2>2. adopted' = adopted
    BY <1>4 DEF Cancel, ExecuteAny, Execute, Close
  <2>3. HeadcountRight(r)'
    BY <2>1 DEF HeadcountRight
  <2> QED BY <1>2, <2>1, <2>2, <2>3
<1>5. ASSUME NEW r \in Rallies, NEW n \in CommitSizes, NEW d \in GatherDurations, Create(r, n, d)
      PROVE  GatheringHeadcount'
  <2>1. \A s \in Rallies \ {r} : adopted'[s] = adopted[s]
    BY <1>5 DEF Create, MarchInv
  <2> QED BY <1>0, <1>2, <1>5, <2>1, CreateEffect, HeadcountCreate DEF OnlyHere
<1>6. ASSUME NEW r \in Rallies, NEW p \in Players, NEW n \in CommitSizes, Join(r, p, n)
      PROVE  GatheringHeadcount'
  <2>1. adopted' = adopted
    BY <1>6 DEF Join
  <2> QED BY <1>0, <1>2, <1>6, <2>1, JoinEffect, HeadcountJoin DEF OnlyHere
<1>7. ASSUME NEW r \in Rallies, NEW p \in Players, Leave(r, p) PROVE GatheringHeadcount'
  <2>1. adopted' = adopted
    BY <1>7 DEF Leave
  <2> QED BY <1>0, <1>2, <1>7, <2>1, LeaveEffect, HeadcountLeave DEF OnlyHere
<1>8. ASSUME NEW r \in Rallies, NEW p \in Players, StartReturn(r, p) PROVE GatheringHeadcount'
  <2>1. adopted' = adopted
    BY <1>8 DEF StartReturn
  <2> QED BY <1>0, <1>2, <1>8, <2>1, StartReturnEffect, HeadcountStart DEF OnlyHere
<1>9. ASSUME NEW r \in Rallies, NEW p \in Players, FinishReturn(r, p) PROVE GatheringHeadcount'
  <2>1. adopted' = adopted
    BY <1>9 DEF FinishReturn
  <2> QED BY <1>0, <1>2, <1>9, <2>1, FinishReturnEffect, HeadcountFinish DEF OnlyHere
<1>10. ASSUME NEW r \in Rallies, NEW p \in Players, NEW payer \in Players, NEW tier \in Tiers,
              SpeedupGather(r, p, payer, tier) \/ SpeedupReturn(r, p, payer, tier)
       PROVE  GatheringHeadcount'
  <2>1. OnlyHere(r, p) /\ rally' = rally /\ CountsAlike(part[r][p], part'[r][p])
    BY <1>10, SpeedupEffect
  <2>2. \A q \in Players : CountsAlike(part[r][q], part'[r][q])
    BY <2>1 DEF OnlyHere, CountsAlike
  <2>3. Staying(r)' = Staying(r)
    BY <2>2 DEF Staying, Out, SettingOut, CountsAlike
  <2>4. \A q \in Staying(r) : part'[r][q].units_committed = part[r][q].units_committed
    BY <2>2, StayingFacts DEF CountsAlike
  <2>5. adopted' = adopted
    BY <1>10 DEF SpeedupGather, SpeedupReturn
  <2>6. HeadcountRight(r)'
    BY <1>0, <2>1, <2>3, <2>4, <2>5, HeadcountSame
  <2> QED BY <1>2, <2>1, <2>5, <2>6 DEF OnlyHere
<1> QED BY <1>3, <1>4, <1>5, <1>6, <1>7, <1>8, <1>9, <1>10
        DEF Next, ProcessReturn, Tick, TargetChanges, vars

\* While a rally gathers its headcount and total are those of the armies that
\* execute can be given, however members join, turn back and are turned round.
THEOREM HeadcountCorrect == Spec => []GatheringHeadcount
<1>1. Init => GatheringHeadcount
  BY DEF Init, NoRally, GatheringHeadcount
<1>2. AccountsOK /\ MarchInv /\ GatheringHeadcount /\ [Next]_vars => GatheringHeadcount'
  BY HeadcountNext
<1> QED BY <1>1, <1>2, AccountsCorrect, MarchAlways, PTL DEF Spec

-----------------------------------------------------------------------------
(* No rally is ever left marching *)

\* Execute goes straight from Gathering to Returning.
NobodyMarches == \A r \in Rallies : rally[r].status # "Marching"

\* How the status of a rally moves, if it does.
LawfulMove(r) ==
    rally'[r].status # rally[r].status =>
        <<rally[r].status, rally'[r].status>> \in
            { <<"Unused", "Gathering">>, <<"Closed", "Gathering">>,
              <<"Gathering", "Returning">>,
              <<"Gathering", "Cancelled">>, <<"Returning", "Completed">>,
              <<"Completed", "Closed">>, <<"Cancelled", "Closed">> }

\* Every instruction moves the status of one rally at most, and lawfully.
LEMMA MovesLawful ==
  ASSUME AccountsOK, NobodyMarches, [Next]_vars
  PROVE  \A r \in Rallies : LawfulMove(r)
<1>1. ASSUME NEW s \in Rallies, rally'[s] = rally[s] PROVE LawfulMove(s)
  BY <1>1 DEF LawfulMove
<1>2. ASSUME NEW r \in Rallies, \A s \in Rallies \ {r} : rally'[s] = rally[s], LawfulMove(r)
      PROVE  \A s \in Rallies : LawfulMove(s)
  BY <1>1, <1>2
<1>3. CASE UNCHANGED rally
  BY <1>1, <1>3
<1>4. ASSUME NEW r \in Rallies, NEW n \in CommitSizes, NEW d \in GatherDurations, Create(r, n, d)
      PROVE  \A s \in Rallies : LawfulMove(s)
  <2>1. rally[r].status \in {"Unused", "Closed"} /\ rally'[r].status = "Gathering"
    BY <1>4, CreateEffect DEF HasRally
  <2> QED BY <1>2, <1>4, <2>1, CreateEffect DEF OnlyHere, LawfulMove
<1>5. ASSUME NEW r \in Rallies, Cancel(r) PROVE \A s \in Rallies : LawfulMove(s)
  BY <1>2, <1>5, CancelEffect DEF OnlyHere, LawfulMove
<1>6. ASSUME NEW r \in Rallies, ExecuteAny(r) PROVE \A s \in Rallies : LawfulMove(s)
  BY <1>2, <1>6, ExecuteEffect DEF NobodyMarches, LawfulMove
<1>7. ASSUME NEW r \in Rallies, Close(r) PROVE \A s \in Rallies : LawfulMove(s)
  BY <1>2, <1>7, CloseEffect DEF Close, CanClose, LawfulMove
<1>8. ASSUME NEW r \in Rallies, NEW p \in Players, NEW n \in CommitSizes, Join(r, p, n)
      PROVE  \A s \in Rallies : LawfulMove(s)
  BY <1>2, <1>8, JoinEffect DEF OnlyHere, LawfulMove
<1>9. ASSUME NEW r \in Rallies, NEW p \in Players, Leave(r, p)
      PROVE  \A s \in Rallies : LawfulMove(s)
  BY <1>2, <1>9, LeaveEffect, WithoutStatus DEF OnlyHere, LawfulMove
<1>10. ASSUME NEW r \in Rallies, NEW p \in Players, StartReturn(r, p)
       PROVE  \A s \in Rallies : LawfulMove(s)
  BY <1>2, <1>10, StartReturnEffect, WithoutStatus DEF OnlyHere, LawfulMove
<1>11. ASSUME NEW r \in Rallies, NEW p \in Players, FinishReturn(r, p)
       PROVE  \A s \in Rallies : LawfulMove(s)
  BY <1>2, <1>11, FinishReturnEffect, ReturnStatus DEF OnlyHere, LawfulMove
<1>12. ASSUME NEW r \in Rallies, NEW p \in Players, NEW payer \in Players, NEW tier \in Tiers,
              SpeedupGather(r, p, payer, tier) \/ SpeedupReturn(r, p, payer, tier)
       PROVE  \A s \in Rallies : LawfulMove(s)
  BY <1>3, <1>12, SpeedupEffect
<1> QED BY <1>3, <1>4, <1>5, <1>6, <1>7, <1>8, <1>9, <1>10, <1>11, <1>12
        DEF Next, ProcessReturn, Tick, TargetChanges, vars

\* No step makes a rally march.
LEMMA StillNobodyMarches ==
  AccountsOK /\ NobodyMarches /\ [Next]_vars => NobodyMarches'
BY MovesLawful DEF NobodyMarches, LawfulMove

\* Both counters serve whoever compares them, in every instance and at any time.
THEOREM HeadcountsServed == Spec => []HeadcountsServe
BY HeadcountCorrect, ReturnsComplete, PTL DEF HeadcountsServe

-----------------------------------------------------------------------------
(* Floored shares *)

\* A positive factor may be cancelled.
LEMMA CancelFactor ==
  ASSUME NEW n \in Nat, n > 0, NEW a \in Int, NEW b \in Int, n * a <= n * b
  PROVE  a <= b
OBVIOUS

\* The shares of those who march, each a floor of a floor, fit into the pool.
LEMMA SharesFit ==
  ASSUME NEW M, IsFiniteSet(M), NEW c, \A p \in M : c[p] \in Nat,
         SumOver(c, M) > 0, NEW pool \in Nat,
         NEW share, \A p \in M :
            share[p] = (pool * ((c[p] * 10000) \div SumOver(c, M))) \div 10000
  PROVE  SumOver(share, M) <= pool
<1> DEFINE power == SumOver(c, M)
           ten == [p \in M |-> 10000 * c[p]]
           q == [p \in M |-> (c[p] * 10000) \div power]
           pq == [p \in M |-> power * q[p]]
<1>1. power \in Nat /\ power > 0
  BY SumNat
<1> HIDE DEF power
<1>2. \A p \in M : q[p] \in Nat /\ power * q[p] <= 10000 * c[p]
  <2> SUFFICES ASSUME NEW p \in M PROVE q[p] \in Nat /\ power * q[p] <= 10000 * c[p]
    OBVIOUS
  <2>1. c[p] * 10000 \in Nat /\ c[p] * 10000 = 10000 * c[p]
    OBVIOUS
  <2>2. q[p] = (c[p] * 10000) \div power
    OBVIOUS
  <2> DEFINE m == c[p] * 10000
             d == m \div power
  <2>3. m \in Nat /\ m = 10000 * c[p] /\ q[p] = d
    BY <2>1, <2>2
  <2> HIDE DEF q, m
  <2>4. d \in Nat /\ power * d <= m
    BY <1>1, <2>3, FlooredQuotient
  <2> HIDE DEF d
  <2>5. q[p] \in Nat
    BY <2>3, <2>4
  <2>6. power * q[p] = power * d
    BY <2>3
  <2>7. power * q[p] <= m
    BY <2>4, <2>6
  <2> QED BY <2>3, <2>5, <2>7
<1>3. \A p \in M : share[p] = (pool * q[p]) \div 10000
  BY DEF power
<1> HIDE DEF q
<1>4. \A p \in M : power * q[p] \in Nat
  BY <1>1, <1>2, ProductNat
<1>5. SumOver(q, M) <= 10000
  <2>1. \A p \in M : q[p] \in Int /\ pq[p] = power * q[p]
    BY <1>2
  <2>2. \A p \in M : c[p] \in Int /\ ten[p] = 10000 * c[p]
    OBVIOUS
  <2>3. \A p \in M : pq[p] \in Int /\ ten[p] \in Int /\ pq[p] <= ten[p]
    BY <1>2, <1>4
  <2> HIDE DEF pq, ten
  <2>4. SumOver(pq, M) = power * SumOver(q, M)
    BY <1>1, <2>1, SumScale
  <2>5. SumOver(ten, M) = 10000 * power
    BY <2>2, SumScale DEF power
  <2>6. SumOver(pq, M) <= SumOver(ten, M)
    BY <2>3, SumMono
  <2>7. SumOver(q, M) \in Int
    BY <2>1, SumInt
  <2> DEFINE sq == SumOver(q, M)
  <2> HIDE DEF sq
  <2>8. power * sq <= power * 10000
    <3>1. 10000 * power = power * 10000
      BY <1>1
    <3> QED BY <2>4, <2>5, <2>6, <3>1 DEF sq
  <2>9. sq <= 10000
    BY <1>1, <2>7, <2>8, CancelFactor DEF sq
  <2> QED BY <2>9 DEF sq
<1> QED BY <1>2, <1>3, <1>5, BasisPointsFit

-----------------------------------------------------------------------------
(* The loot of one rally *)

LootIn(r) == [p \in Players |-> part[r][p].loot]
Abroad == [r \in Rallies |-> SumOver(LootIn(r), Players)]

\* The loot targets give up in a step, rally by rally.
Pools == [r \in Rallies |->
             IF rally[r].status = "Gathering" THEN rally'[r].total_loot ELSE 0]

LootGrows == LootAbroad' <= LootAbroad + SumOver(Pools, Rallies)

\* Loot, pools and shares are natural numbers.
LEMMA LootTypes ==
  ASSUME AccountsOK
  PROVE  /\ IsFiniteSet(Players) /\ IsFiniteSet(Rallies)
         /\ \A p \in Players : loot[p] \in Nat
         /\ \A r \in Rallies : \A p \in Players : LootIn(r)[p] \in Nat
         /\ \A r \in Rallies : Abroad[r] \in Nat
<1>1. IsFiniteSet(Players) /\ IsFiniteSet(Rallies)
  BY RallyAssumption
<1>2. \A p \in Players : loot[p] \in Nat
  BY DEF AccountsOK
<1>3. ASSUME NEW r \in Rallies, NEW p \in Players PROVE LootIn(r)[p] \in Nat
  BY AccountTypes DEF LootIn, RallyParticipant
<1>4. ASSUME NEW r \in Rallies PROVE Abroad[r] \in Nat
  <2>1. SumOver(LootIn(r), Players) \in Nat
    BY <1>1, <1>3, SumNat
  <2> QED BY <2>1 DEF Abroad
<1> QED BY <1>1, <1>2, <1>3, <1>4

\* The pools handed out are natural numbers.
LEMMA PoolTypes ==
  ASSUME AccountsOK'
  PROVE  /\ SumOver(Pools, Rallies) \in Nat
         /\ \A r \in Rallies : Pools[r] <= SumOver(Pools, Rallies)
<1>1. \A r \in Rallies : rally'[r].total_loot \in Nat
  BY DEF AccountsOK, RallyAccount
<1>2. IsFiniteSet(Rallies) /\ \A r \in Rallies : Pools[r] \in Nat
  BY <1>1, RallyAssumption DEF Pools
<1>3. SumOver(Pools, Rallies) \in Nat
  BY <1>2, SumNat
<1>4. \A r \in Rallies : Pools[r] <= SumOver(Pools, Rallies)
  BY <1>2, SumMember
<1> QED BY <1>3, <1>4

\* A step that touches one rally: the rest of the loot abroad is what it was.
LEMMA LootStep ==
  ASSUME AccountsOK, AccountsOK', NEW r \in Rallies,
         \A s \in Rallies \ {r} : part'[s] = part[s],
         NEW extra \in Nat, extra <= SumOver(Pools, Rallies),
         SumOver(loot', Players) + Abroad'[r]
            <= SumOver(loot, Players) + Abroad[r] + extra
  PROVE  LootGrows
<1>1. IsFiniteSet(Rallies) /\ IsFiniteSet(Players)
  BY RallyAssumption
<1>2. \A s \in Rallies : Abroad[s] \in Int /\ Abroad'[s] \in Int
  <2>1. \A s \in Rallies : Abroad[s] \in Nat
    BY LootTypes
  <2>2. ASSUME NEW s \in Rallies PROVE Abroad'[s] \in Nat
    <3> DEFINE f == [p \in Players |-> part'[s][p].loot]
    <3>1. part' \in [Rallies -> [Players -> RallyParticipant]]
      BY DEF AccountsOK
    <3>2. \A p \in Players : f[p] \in Nat
      BY <3>1 DEF RallyParticipant
    <3>3. Abroad'[s] = SumOver(f, Players)
      BY DEF Abroad, LootIn
    <3> HIDE DEF f
    <3> QED BY <1>1, <3>2, <3>3, SumNat
  <2> QED BY <2>1, <2>2
<1>3. \A s \in Rallies \ {r} : Abroad'[s] = Abroad[s]
  BY DEF Abroad, LootIn
<1>4. SumOver(Abroad', Rallies) = SumOver(Abroad, Rallies) - Abroad[r] + Abroad'[r]
  <2>1. ASSUME NEW f, NEW h, \A s \in Rallies : f[s] \in Int /\ h[s] \in Int,
               \A s \in Rallies \ {r} : h[s] = f[s]
        PROVE  SumOver(h, Rallies) = SumOver(f, Rallies) - f[r] + h[r]
    BY <1>1, <2>1, SumChange
  <2> QED BY <1>2, <1>3, <2>1
<1>5. /\ SumOver(Abroad, Rallies) \in Int /\ SumOver(loot, Players) \in Int
      /\ SumOver(loot', Players) \in Int /\ SumOver(Pools, Rallies) \in Nat
  <2>1. \A p \in Players : loot[p] \in Int /\ loot'[p] \in Int
    BY DEF AccountsOK
  <2>2. SumOver(Abroad, Rallies) \in Int
    BY <1>1, <1>2, SumInt
  <2>3. SumOver(loot, Players) \in Int
    BY <1>1, <2>1, SumInt
  <2>4. SumOver(loot', Players) \in Int
    BY <1>1, <2>1, SumInt
  <2> QED BY <2>2, <2>3, <2>4, PoolTypes
<1>6. /\ LootAbroad = SumOver(loot, Players) + SumOver(Abroad, Rallies)
      /\ LootAbroad' = SumOver(loot', Players) + SumOver(Abroad', Rallies)
  BY DEF LootAbroad, Abroad, LootIn
<1>7. Abroad[r] \in Int /\ Abroad'[r] \in Int
  BY <1>2
<1> HIDE DEF Abroad, Pools, LootAbroad
<1> QED BY <1>4, <1>5, <1>6, <1>7 DEF LootGrows

\* A step that changes the loot of no account.
LEMMA LootStays ==
  ASSUME AccountsOK, AccountsOK', loot' = loot,
         \A r \in Rallies : \A p \in Players : part'[r][p].loot = part[r][p].loot
  PROVE  LootGrows
<1>1. LootAbroad' = LootAbroad
  <2>1. \A r \in Rallies : LootIn(r)' = LootIn(r)
    BY DEF LootIn
  <2>2. Abroad' = Abroad
    BY <2>1 DEF Abroad
  <2> QED BY <2>2 DEF LootAbroad, Abroad, LootIn
<1>2. SumOver(Pools, Rallies) \in Nat
  BY PoolTypes
<1>3. LootAbroad \in Int
  <2>1. SumOver(loot, Players) \in Nat
    BY LootTypes, SumNat
  <2>2. SumOver(Abroad, Rallies) \in Nat
    BY LootTypes, SumNat
  <2> QED BY <2>1, <2>2 DEF LootAbroad, Abroad, LootIn
<1> QED BY <1>1, <1>2, <1>3 DEF LootGrows

\* A step that rewrites one account and leaves its loot alone.
LEMMA LootAlone ==
  ASSUME AccountsOK, AccountsOK', NEW r \in Rallies, NEW p \in Players, NEW a,
         part' = [part EXCEPT ![r][p] = a], a.loot = part[r][p].loot, loot' = loot
  PROVE  LootGrows
<1>1. \A s \in Rallies : \A q \in Players : part'[s][q].loot = part[s][q].loot
  BY DEF AccountsOK
<1> QED BY <1>1, LootStays

-----------------------------------------------------------------------------
(* The instructions, one by one *)

\* An army that sets out brings no loot.
LEMMA LootCommit ==
  ASSUME AccountsOK, AccountsOK', NEW r \in Rallies, NEW p \in Players, NEW n \in CommitSizes,
         ~part[r][p].open, Commit(r, p, n)
  PROVE  LootGrows
<1> DEFINE a == NewParticipant(r, p, n)
<1>1. part' = [part EXCEPT ![r][p] = a] /\ loot' = loot
  BY DEF Commit
<1>2. a.loot = 0
  BY DEF NewParticipant, NoParticipant
<1>3. part[r][p].loot = 0
  BY DEF AccountsOK, NoParticipant
<1> HIDE DEF a
<1> QED BY <1>1, <1>2, <1>3, LootAlone

\* An army that turns round keeps the loot it has.
LEMMA LootTurn ==
  ASSUME AccountsOK, AccountsOK', NEW r \in Rallies,
         Cancel(r) \/ \E p \in Players : Leave(r, p) \/ StartReturn(r, p)
  PROVE  LootGrows
<1>1. ASSUME NEW a \in RallyParticipant, NEW d
      PROVE  SetOut(a, d).loot = a.loot
  BY DEF SetOut, RallyParticipant
<1>2. CASE Cancel(r)
  <2> DEFINE p == LeaderOf[r]
             d == IF AtRallyPoint(part[r][p]) THEN TravelTo[r][p]
                  ELSE now - part[r][p].travel_started_at
             a == SetOut(part[r][p], d)
  <2>1. p \in Players
    BY RallyAssumption
  <2>2. part' = [part EXCEPT ![r][p] = a] /\ loot' = loot
    BY <1>2 DEF Cancel
  <2>3. part[r][p] \in RallyParticipant
    BY <2>1, AccountTypes
  <2>4. a.loot = part[r][p].loot
    BY <1>1, <2>3
  <2> HIDE DEF a, p
  <2> QED BY <2>1, <2>2, <2>4, LootAlone
<1>3. ASSUME NEW p \in Players, Leave(r, p) PROVE LootGrows
  <2> DEFINE a == SetOut(part[r][p], ReturnDuration(r, p))
  <2>1. part' = [part EXCEPT ![r][p] = a] /\ loot' = loot
    BY <1>3 DEF Leave
  <2>2. a.loot = part[r][p].loot
    BY <1>1, AccountTypes
  <2> HIDE DEF a
  <2> QED BY <2>1, <2>2, LootAlone
<1>4. ASSUME NEW p \in Players, StartReturn(r, p) PROVE LootGrows
  <2> DEFINE d == ReturnDuration(r, p)
             a == TurnedRound(part[r][p], now, d)
  <2>1. part' = [part EXCEPT ![r][p] = a] /\ loot' = loot
    BY <1>4 DEF StartReturn, TurnedRound
  <2>2. d \in Nat /\ now \in Nat /\ part[r][p] \in RallyParticipant
    BY ReturnDurationType, AccountTypes, RallyAssumption DEF AccountsOK
  <2> HIDE DEF d
  <2>3. a.loot = part[r][p].loot
    BY <2>2, TurnedRoundType
  <2> HIDE DEF a
  <2> QED BY <2>1, <2>3, LootAlone
<1> QED BY <1>2, <1>3, <1>4

\* Gems buy time and no loot.
LEMMA LootSpeedup ==
  ASSUME AccountsOK, AccountsOK', NEW r \in Rallies, NEW p \in Players, NEW payer \in Players,
         NEW tier \in Tiers,
         SpeedupGather(r, p, payer, tier) \/ SpeedupReturn(r, p, payer, tier)
  PROVE  LootGrows
<1>1. part[r][p] \in RallyParticipant
  BY AccountTypes
<1>2. CASE SpeedupGather(r, p, payer, tier)
  <2> DEFINE t == now + RemainingAfter(part[r][p].arrives_at_rally - now, tier)
             a == [part[r][p] EXCEPT !.arrives_at_rally = t]
  <2>1. part' = [part EXCEPT ![r][p] = a] /\ loot' = loot
    BY <1>2 DEF SpeedupGather
  <2> HIDE DEF t
  <2>2. a.loot = part[r][p].loot
    BY <1>1 DEF RallyParticipant
  <2> HIDE DEF a
  <2> QED BY <2>1, <2>2, LootAlone
<1>3. CASE SpeedupReturn(r, p, payer, tier)
  <2> DEFINE m == part[r][p].return_started_at + part[r][p].return_duration - now
             d == now - part[r][p].return_started_at + RemainingAfter(m, tier)
             a == [part[r][p] EXCEPT !.return_duration = d]
  <2>1. part' = [part EXCEPT ![r][p] = a] /\ loot' = loot
    BY <1>3 DEF SpeedupReturn
  <2> HIDE DEF d
  <2>2. a.loot = part[r][p].loot
    BY <1>1 DEF RallyParticipant
  <2> HIDE DEF a
  <2> QED BY <2>1, <2>2, LootAlone
<1> QED BY <1>2, <1>3

\* What an army comes home with is what its owner is paid, at most.
LEMMA LootFinish ==
  ASSUME AccountsOK, AccountsOK', NEW r \in Rallies, NEW p \in Players, FinishReturn(r, p)
  PROVE  LootGrows
<1> DEFINE l == part[r][p].loot
<1>1. l \in Nat /\ loot[p] \in Nat /\ IsFiniteSet(Players)
  BY LootTypes DEF LootIn
<1>2. OnlyHere(r, p) /\ part'[r][p] = NoParticipant
  BY FinishReturnEffect
<1>3. \/ loot' = [loot EXCEPT ![p] = @ + l]
      \/ loot' = loot
  BY DEF FinishReturn
<1>4. \A s \in Rallies \ {r} : part'[s] = part[s]
  BY <1>2 DEF OnlyHere
<1> HIDE DEF l
<1>5. ASSUME NEW f, NEW h, \A q \in Players : f[q] \in Int /\ h[q] \in Int,
             \A q \in Players \ {p} : h[q] = f[q]
      PROVE  /\ SumOver(h, Players) = SumOver(f, Players) - f[p] + h[p]
             /\ SumOver(f, Players) \in Int
  BY <1>1, <1>5, SumChange, SumInt
<1>6. /\ SumOver(loot', Players) <= SumOver(loot, Players) + l
      /\ SumOver(loot, Players) \in Int /\ SumOver(loot', Players) \in Int
  <2>1. \A q \in Players : loot[q] \in Int /\ loot'[q] \in Int
    BY DEF AccountsOK
  <2>2. \A q \in Players \ {p} : loot'[q] = loot[q]
    BY <1>3 DEF AccountsOK
  <2>3. loot'[p] \in Int /\ loot'[p] <= loot[p] + l
    BY <1>1, <1>3, <2>1 DEF AccountsOK
  <2>4. /\ SumOver(loot', Players) = SumOver(loot, Players) - loot[p] + loot'[p]
        /\ SumOver(loot, Players) \in Int
    BY <1>5, <2>1, <2>2
  <2> QED BY <1>1, <2>3, <2>4
<1>7. /\ Abroad'[r] = Abroad[r] - l
      /\ Abroad[r] \in Int
  <2> DEFINE f == LootIn(r)
             h == LootIn(r)'
  <2>1. Abroad[r] = SumOver(f, Players) /\ Abroad'[r] = SumOver(h, Players)
    BY DEF Abroad
  <2>2. \A q \in Players : f[q] = part[r][q].loot /\ h[q] = part'[r][q].loot
    BY DEF LootIn
  <2>3. \A q \in Players : f[q] \in Nat
    BY LootTypes
  <2>4. f[p] = l /\ h[p] = 0
    BY <1>2, <2>2 DEF NoParticipant, l
  <2>5. \A q \in Players \ {p} : h[q] = f[q]
    BY <1>2, <2>2 DEF OnlyHere
  <2> HIDE DEF f, h
  <2>6. \A q \in Players : f[q] \in Int /\ h[q] \in Int
    BY <2>3, <2>4, <2>5
  <2>7. SumOver(h, Players) = SumOver(f, Players) - l + 0 /\ SumOver(f, Players) \in Int
    BY <1>5, <2>4, <2>5, <2>6
  <2> QED BY <1>1, <2>1, <2>7
<1>8. SumOver(loot', Players) + Abroad'[r] <= SumOver(loot, Players) + Abroad[r] + 0
  <2> HIDE DEF Abroad
  <2> QED BY <1>1, <1>6, <1>7
<1>9. 0 \in Nat /\ 0 <= SumOver(Pools, Rallies)
  BY PoolTypes
<1> QED BY <1>4, <1>8, <1>9, LootStep

\* Execute hands out no more than the pool.
LEMMA LootExecute ==
  ASSUME AccountsOK, AccountsOK', NobodyMarches, NEW r \in Rallies, ExecuteAny(r)
  PROVE  LootGrows
<1> PICK S \in SUBSET Out(r), percent \in CasualtyPercents, won \in BOOLEAN,
         pool \in LootPools \cup {0} : Execute(r, S, percent, won, pool)
  BY DEF ExecuteAny
<1> DEFINE M == Marchers(r, S)
           power == Power(r, M)
           dead == (Army(r, M) * percent) \div 100
           c == [q \in Players |-> Contribution(r, q)]
           share == [p \in Players |-> IF won /\ p \in M THEN LootShare(r, p, pool, power)
                                                         ELSE 0]
           all == [p \in Players |-> LootIn(r)[p] + share[p]]
           new == LootIn(r)'
<1>1. /\ M \in SUBSET Players /\ M \subseteq S /\ power \in Nat /\ power > 0
      /\ pool \in Nat /\ dead \in Nat /\ IsFiniteSet(M) /\ IsFiniteSet(Players)
  <2>1. M \in SUBSET Players /\ M \subseteq S
    BY DEF Out, Marchers
  <2>2. power \in Nat /\ power > 0 /\ IsFiniteSet(M)
    BY BattleTypes
  <2>3. pool \in Nat /\ dead \in Nat
    <3>1. pool \in Nat /\ BattleDead(r, M, percent) \in Nat
      BY BattleTypes
    <3> QED BY <3>1 DEF BattleDead
  <2> QED BY <2>1, <2>2, <2>3, RallyAssumption
<1>2. /\ \A s \in Rallies \ {r} : part'[s] = part[s]
      /\ rally[r].status = "Gathering" /\ loot' = loot
  <2>1. loot' = loot
    BY DEF Execute
  <2> QED BY <2>1, ExecuteEffect DEF NobodyMarches
<1>3. pool <= SumOver(Pools, Rallies)
  <2>1. rally[r] \in RallyAccount
    BY DEF AccountsOK
  <2>2. rally'[r].total_loot = pool
    BY <2>1 DEF Execute, AccountsOK, RallyAccount
  <2>3. Pools[r] = pool
    BY <1>2, <2>2 DEF Pools
  <2> QED BY <2>3, PoolTypes
<1>4. \A p \in Players : part'[r][p] = IF p \in S THEN Fought(r, p, M, dead, won, pool, power)
                                                  ELSE part[r][p]
  BY DEF Execute, AccountsOK
<1>5. \A p \in Players : share[p] \in Nat
  <2> SUFFICES ASSUME NEW p \in Players PROVE share[p] \in Nat
    OBVIOUS
  <2>1. LootShare(r, p, pool, power) \in Nat
    <3> HIDE DEF power, M
    <3> QED BY <1>1, LootShareType
  <2> QED BY <2>1
<1>6. SumOver(share, Players) <= pool /\ SumOver(share, Players) \in Nat
  <2>1. SumOver(share, Players) = SumOver(share, M) /\ SumOver(share, Players) \in Nat
    <3>1. \A p \in Players \ M : share[p] = 0
      OBVIOUS
    <3>2. \A p \in Players : share[p] \in Int
      BY <1>5
    <3> HIDE DEF share, M
    <3>3. SumOver(share, Players) = SumOver(share, M)
      BY <1>1, <3>1, <3>2, SumSupport
    <3>4. SumOver(share, Players) \in Nat
      BY <1>1, <1>5, SumNat
    <3> QED BY <3>3, <3>4
  <2>2. CASE won
    <3>1. \A p \in M : c[p] \in Nat
      BY <1>1, ContributionType
    <3>2. SumOver(c, M) = power
      BY DEF Power
    <3>3. ASSUME NEW p \in M
          PROVE  share[p] = (pool * ((c[p] * 10000) \div SumOver(c, M))) \div 10000
      <4>1. p \in Players
        BY <1>1, <3>3
      <4>2. share[p] = LootShare(r, p, pool, power)
        BY <2>2, <3>3, <4>1
      <4>3. c[p] = Contribution(r, p)
        BY <4>1
      <4> HIDE DEF share, c, power, M
      <4> QED BY <3>2, <4>2, <4>3 DEF LootShare
    <3> HIDE DEF share, c, power, M
    <3>4. SumOver(share, M) <= pool
      BY <1>1, <3>1, <3>2, <3>3, SharesFit
    <3> QED BY <2>1, <3>4
  <2>3. CASE ~won
    <3>1. \A p \in Players \ {} : share[p] = 0
      BY <2>3
    <3>2. \A p \in Players : share[p] \in Int
      BY <1>5
    <3> HIDE DEF share
    <3>3. SumOver(share, Players) = SumOver(share, {})
      BY <1>1, <3>1, <3>2, SumSupport
    <3> QED BY <1>1, <2>1, <3>3, SumEmpty
  <2> QED BY <2>2, <2>3
<1>7. \A p \in Players : new[p] \in Nat /\ new[p] <= all[p]
  <2> SUFFICES ASSUME NEW p \in Players PROVE new[p] \in Nat /\ new[p] <= all[p]
    OBVIOUS
  <2>1. new[p] = part'[r][p].loot /\ all[p] = part[r][p].loot + share[p]
    BY DEF LootIn
  <2>2. part'[r][p].loot \in Nat
    <3>1. part' \in [Rallies -> [Players -> RallyParticipant]]
      BY DEF AccountsOK
    <3> QED BY <3>1 DEF RallyParticipant
  <2>3. part[r][p].loot \in Nat
    BY AccountTypes DEF RallyParticipant
  <2>4. part'[r][p].loot = part[r][p].loot \/ part'[r][p].loot = share[p]
    <3>1. CASE p \in S
      <4>1. Fought(r, p, M, dead, won, pool, power).loot =
              IF won /\ p \in M THEN LootShare(r, p, pool, power) ELSE part[r][p].loot
        <5>1. pool \in Nat /\ dead \in Nat /\ power \in Nat /\ power > 0 /\ M \in SUBSET Players
          BY <1>1
        <5>2. ASSUME NEW m \in SUBSET Players, NEW d \in Nat, NEW w \in Nat, w > 0
              PROVE  Fought(r, p, m, d, won, pool, w).loot =
                       IF won /\ p \in m THEN LootShare(r, p, pool, w) ELSE part[r][p].loot
          <6> DEFINE a == part[r][p]
                     b == Fought(r, p, m, d, won, pool, w)
                     cas == CasualtyShare(r, p, d, w)
                     l == IF won THEN LootShare(r, p, pool, w) ELSE a.loot
                     to == TravelTo[r][p]
          <6> HIDE DEF M, power, dead, c, share, all, new
          <6>1. CASE p \in m
            <7>1. b = Marched(a, cas, l, now, to)
              BY <6>1 DEF Fought, Marched
            <7>2. a \in RallyParticipant /\ a.loot \in Nat
              BY AccountTypes DEF RallyParticipant
            <7>3. cas \in Nat
              BY <5>2, CasualtyShareType
            <7>4. l \in Nat
              BY <5>1, <5>2, <7>2, LootShareType
            <7>5. to \in Nat /\ now \in Nat
              BY RallyAssumption DEF AccountsOK
            <7> HIDE DEF a, b, cas, l, to
            <7>6. Marched(a, cas, l, now, to).loot = l
              BY <7>2, <7>3, <7>4, <7>5, MarchedType
            <7>7. b.loot = l
              BY <7>1, <7>6
            <7> QED BY <6>1, <7>7 DEF a, b, l
          <6>2. CASE p \notin m
            <7>1. FoughtWell(a, b, p \in m)
              BY <5>1, <5>2, FoughtType
            <7> HIDE DEF b
            <7> QED BY <6>2, <7>1 DEF FoughtWell, b
          <6> QED BY <6>1, <6>2
        <5> HIDE DEF M, power, dead
        <5> QED BY ONLY <5>1, <5>2
      <4> QED BY <1>4, <3>1, <4>1
    <3>2. CASE p \notin S
      BY <1>4, <3>2
    <3> QED BY <3>1, <3>2
  <2>5. share[p] \in Nat
    BY <1>5
  <2> HIDE DEF new, all, share
  <2> QED BY <2>1, <2>2, <2>3, <2>4, <2>5
<1>8. Abroad'[r] <= Abroad[r] + pool
  <2> DEFINE old == LootIn(r)
  <2>1. \A p \in Players : old[p] \in Nat
    BY LootTypes
  <2>2. \A p \in Players : old[p] \in Int /\ share[p] \in Int /\ all[p] = old[p] + share[p]
    BY <1>5, <2>1
  <2>3. Abroad[r] = SumOver(old, Players) /\ Abroad'[r] = SumOver(new, Players)
    BY DEF Abroad
  <2> HIDE DEF old, new, all, share
  <2>4. SumOver(all, Players) = SumOver(old, Players) + SumOver(share, Players)
    BY <1>1, <2>2, SumAdd
  <2>5. \A p \in Players : new[p] \in Int /\ all[p] \in Int /\ new[p] <= all[p]
    BY <1>7, <2>2
  <2>6. SumOver(new, Players) <= SumOver(all, Players)
    <3>1. ASSUME NEW f, NEW h, \A p \in Players : f[p] \in Int /\ h[p] \in Int /\ f[p] <= h[p]
          PROVE  SumOver(f, Players) <= SumOver(h, Players)
      BY <1>1, <3>1, SumMono
    <3> QED BY <2>5, <3>1
  <2>7. SumOver(old, Players) \in Int /\ SumOver(all, Players) \in Int
    BY <1>1, <2>2, <2>5, SumInt
  <2>8. SumOver(new, Players) \in Int
    <3>1. ASSUME NEW f, \A p \in Players : f[p] \in Int PROVE SumOver(f, Players) \in Int
      BY <1>1, <3>1, SumInt
    <3> QED BY <2>5, <3>1
  <2> QED BY <1>1, <1>6, <2>3, <2>4, <2>6, <2>7, <2>8
<1>9. SumOver(loot', Players) + Abroad'[r] <= SumOver(loot, Players) + Abroad[r] + pool
  <2>1. SumOver(loot, Players) \in Int
    <3>1. \A p \in Players : loot[p] \in Int
      BY LootTypes
    <3> QED BY <1>1, <3>1, SumInt
  <2>2. Abroad[r] \in Int
    BY LootTypes
  <2>3. Abroad'[r] \in Int
    <3>1. \A p \in Players : new[p] \in Int
      BY <1>7
    <3>2. Abroad'[r] = SumOver(new, Players)
      BY DEF Abroad
    <3> HIDE DEF new
    <3>3. ASSUME NEW f, \A p \in Players : f[p] \in Int PROVE SumOver(f, Players) \in Int
      BY <1>1, <3>3, SumInt
    <3> QED BY <3>1, <3>2, <3>3
  <2> DEFINE s == SumOver(loot, Players)
             x == Abroad[r]
             y == Abroad'[r]
  <2>4. SumOver(loot', Players) = s
    BY <1>2
  <2>5. s \in Int /\ x \in Int /\ y \in Int /\ y <= x + pool
    BY <1>8, <2>1, <2>2, <2>3
  <2> HIDE DEF s, x, y
  <2>6. s + y <= s + x + pool
    BY <1>1, <2>5
  <2> QED BY <2>4, <2>6 DEF s, x, y
<1> HIDE DEF M, power, dead, c, share, all, new
<1> QED BY <1>1, <1>2, <1>3, <1>9, LootStep

\* Every step keeps the loot within the pools.
LEMMA LootNext ==
  ASSUME AccountsOK, NobodyMarches, [Next]_vars
  PROVE  LootGrows
<1>1. AccountsOK'
  BY NextType
<1>2. CASE UNCHANGED <<part, loot>>
  <2>1. \A r \in Rallies : \A p \in Players : part'[r][p].loot = part[r][p].loot
    BY <1>2
  <2> QED BY <1>1, <1>2, <2>1, LootStays
<1>3. ASSUME NEW r \in Rallies, NEW n \in CommitSizes, NEW d \in GatherDurations, Create(r, n, d)
      PROVE  LootGrows
  <2>1. /\ LeaderOf[r] \in Players /\ ~part[r][LeaderOf[r]].open
        /\ Commit(r, LeaderOf[r], n)
    BY <1>3, RallyAssumption DEF Create
  <2> QED BY <1>1, <2>1, LootCommit
<1>4. ASSUME NEW r \in Rallies, NEW p \in Players, NEW n \in CommitSizes, Join(r, p, n)
      PROVE  LootGrows
  <2>1. ~part[r][p].open /\ Commit(r, p, n)
    BY <1>4 DEF Join
  <2> QED BY <1>1, <2>1, LootCommit
<1>5. ASSUME NEW r \in Rallies, ExecuteAny(r) PROVE LootGrows
  BY <1>1, <1>5, LootExecute
<1>6. ASSUME NEW r \in Rallies,
             Cancel(r) \/ \E p \in Players : Leave(r, p) \/ StartReturn(r, p)
      PROVE  LootGrows
  BY <1>1, <1>6, LootTurn
<1>7. ASSUME NEW r \in Rallies, NEW p \in Players, FinishReturn(r, p) PROVE LootGrows
  BY <1>1, <1>7, LootFinish
<1>8. ASSUME NEW r \in Rallies, NEW p \in Players, NEW payer \in Players, NEW tier \in Tiers,
             SpeedupGather(r, p, payer, tier) \/ SpeedupReturn(r, p, payer, tier)
      PROVE  LootGrows
  BY <1>1, <1>8, LootSpeedup
<1>9. ASSUME NEW r \in Rallies, Close(r) PROVE LootGrows
  <2>1. UNCHANGED <<part, loot>>
    BY <1>9 DEF Close
  <2> QED BY <1>2, <2>1
<1> QED BY <1>2, <1>3, <1>4, <1>5, <1>6, <1>7, <1>8, <1>9
        DEF Next, ProcessReturn, Tick, TargetChanges, vars

\* All the loot there is, paid out and on its way, came out of the pools of the
\* targets that were beaten, floors and late returns notwithstanding.
THEOREM LootConserved == Spec => LootComesFromPools
<1>1. Init => NobodyMarches
  BY DEF Init, NoRally, NobodyMarches
<1>2. AccountsOK /\ NobodyMarches /\ [Next]_vars => [LootGrows]_vars
  BY LootNext
<1>3. Spec => [][LootGrows]_vars
  BY <1>1, <1>2, StillNobodyMarches, AccountsCorrect, PTL DEF Spec
<1> QED BY <1>3, PTL DEF LootComesFromPools, LootGrows, Pools

==============================================================================

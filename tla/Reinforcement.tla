---------------------------- MODULE Reinforcement ----------------------------
(***************************************************************************)
(* Reinforcements: a player lends defensive units to a team mate.  What    *)
(* has arrived is kept by the destination as one aggregate for all its     *)
(* allies; a battle wears the aggregate down; whoever takes an army home   *)
(* gets a share of what is left of all.  One action per instruction of     *)
(* programs/novus_mundus/src/processor/reinforcement, and one for what     *)
(* combat/attack_player.rs does to the units of a defender.                *)
(*                                                                         *)
(* Abstractions.  Weapons follow the arithmetic of units and are left out, *)
(* as are heroes and their bonuses.  The damage of a battle is any loss.   *)
(* Guards on team and travel only restrict who sends, which Pairs stands   *)
(* for.  One tick is the minute in which speedups are priced.              *)
(***************************************************************************)
EXTENDS Integers, FiniteSets, Sums

CONSTANTS
    Players,            \* wallets
    Tiers,              \* unit types, 1 .. 3 in the program
    Pairs,              \* <<sender, destination>>, team mates
    JourneyTimes,       \* minutes between the cities of a pair
    InitUnits,          \* InitUnits[p][t]: defensive units at the start
    InitGems,
    Capacity,           \* Capacity[p]: MAX_REINFORCEMENT_RECEIVE with the hero bonus of p
    Estates,            \* players who own an estate
    Infirmary,          \* players whose estate has an Infirmary
    MaxTime,            \* bound on the clock; see Reached
    MaxSends,           \* bound on the armies sent,
    MaxBattles          \* and on the battles fought, for TLC

ASSUME ReinforcementAssumption ==
    /\ IsFiniteSet(Players) /\ IsFiniteSet(Tiers)
    /\ Pairs \subseteq {pair \in Players \X Players : pair[1] # pair[2]}
    /\ JourneyTimes \subseteq Nat
    /\ InitUnits \in [Players -> [Tiers -> Nat]]
    /\ InitGems \in Nat
    /\ Capacity \in [Players -> Nat]
    /\ Infirmary \subseteq Estates /\ Estates \subseteq Players
    /\ MaxTime \in Nat \ {0}
    /\ MaxSends \in Nat /\ MaxBattles \in Nat

VARIABLES
    now,        \* the Clock sysvar
    units,      \* units[p][t]: defensive units of p, at home
    account,    \* account[<<s, d>>]: the ReinforcementAccount from s to d
    allies,     \* allies[d]: the aggregate of d (team section of the player account)
    wounded,    \* wounded[p][t]: wounded pool of the estate of p
    gems,       \* gems[p]
    sends,      \* armies sent so far, of MaxSends,
    battles     \* and battles fought, of MaxBattles

vars == <<now, units, account, allies, wounded, gems, sends, battles>>

Army == [Tiers -> Nat]
Total(army) == SumOver(army, Tiers)
NoUnits == [t \in Tiers |-> 0]
Plus(x, y) == [t \in Tiers |-> x[t] + y[t]]
SatSub(m, n) == IF m > n THEN m - n ELSE 0
Minus(x, y) == [t \in Tiers |-> SatSub(x[t], y[t])]

ReinforcementAccount ==
    [status : {"None", "Traveling", "Active", "Returning"},
     units : Army, wounded : Army, journey : Nat,
     arrives_at : Nat, return_started_at : Nat, return_duration : Nat]

NoAccount ==
    [status |-> "None", units |-> NoUnits, wounded |-> NoUnits, journey |-> 0,
     arrives_at |-> 0, return_started_at |-> 0, return_duration |-> 0]

\* The aggregate: what is left of the armies that arrived, how many units they
\* were (reinforcement_original_units), and how many armies.
Aggregate == [left : Army, original : Nat, source_count : Nat]

\* now >= t.  The last instant of the clock stands for all later ones.
Reached(t) == now >= t \/ now = MaxTime

-----------------------------------------------------------------------------
Init ==
    /\ now = 1
    /\ units = InitUnits
    /\ account = [pair \in Pairs |-> NoAccount]
    /\ allies = [d \in Players |-> [left |-> NoUnits, original |-> 0, source_count |-> 0]]
    /\ wounded = [p \in Players |-> NoUnits]
    /\ gems = [p \in Players |-> InitGems]
    /\ sends = 0 /\ battles = 0

Tick ==
    /\ now < MaxTime
    /\ now' = now + 1
    /\ UNCHANGED <<units, account, allies, wounded, gems, sends, battles>>

\* send.rs: the army leaves home.  Room at the destination is judged by what
\* is left of the armies that have arrived.
Send(pair, army, journey) ==
    LET s == pair[1]
        d == pair[2]
    IN
    /\ sends < MaxSends
    /\ account[pair].status = "None"
    /\ Total(army) > 0
    /\ \A t \in Tiers : army[t] <= units[s][t]
    /\ Total(allies[d].left) + Total(army) <= Capacity[d]
    /\ units' = [units EXCEPT ![s] = Minus(@, army)]
    /\ account' = [account EXCEPT ![pair] =
          [NoAccount EXCEPT !.status = "Traveling", !.units = army,
                            !.journey = journey, !.arrives_at = now + journey]]
    /\ sends' = sends + 1
    /\ UNCHANGED <<now, allies, wounded, gems, battles>>

\* process_arrival.rs, anybody's call: the army joins the aggregate.
ProcessArrival(pair) ==
    LET d == pair[2]
        army == account[pair].units
    IN
    /\ account[pair].status = "Traveling"
    /\ Reached(account[pair].arrives_at)
    /\ account' = [account EXCEPT ![pair].status = "Active"]
    /\ allies' = [allies EXCEPT ![d] =
          [left |-> Plus(@.left, army),
           original |-> @.original + Total(army),
           source_count |-> @.source_count + 1]]
    /\ UNCHANGED <<now, units, wounded, gems, sends, battles>>

-----------------------------------------------------------------------------
(* Battle and survival *)

BASIS_POINTS == 10000

\* attack_player.rs: what is left of a tier of the defender and its allies is
\* divided in the ratio of before the battle, the floor to the defender.
OwnShare(own, allied, left) ==
    IF own + allied = 0 THEN 0
    ELSE (left * ((own * BASIS_POINTS) \div (own + allied))) \div BASIS_POINTS

\* A player and the allies at hand are attacked and left.left remains.
Defend(d, left) ==
    LET own == [t \in Tiers |-> OwnShare(units[d][t], allies[d].left[t], left[t])] IN
    /\ battles < MaxBattles /\ battles' = battles + 1
    /\ \A t \in Tiers : left[t] <= units[d][t] + allies[d].left[t]
    /\ units' = [units EXCEPT ![d] = own]
    /\ allies' = [allies EXCEPT ![d].left = Minus(left, own)]
    /\ wounded' = IF d \in Infirmary
                  THEN [wounded EXCEPT ![d] = Plus(@, Minus(units[d], own))] ELSE wounded
    /\ UNCHANGED <<now, account, gems, sends>>

\* state/player.rs reinforcement_survival_ratio, for units.
SurvivalRatio(d) ==
    IF allies[d].original > 0
    THEN (Total(allies[d].left) * BASIS_POINTS) \div allies[d].original
    ELSE BASIS_POINTS

\* What is taken home of the army of a pair that is at its destination.
Share(pair) ==
    [t \in Tiers |-> (account[pair].units[t] * SurvivalRatio(pair[2])) \div BASIS_POINTS]

\* Mutants of TakeOut: subtracting once the account holds the share, and
\* forgetting the original.
TakeOutAfterwards(pair) ==
    [left |-> Minus(allies[pair[2]].left, Share(pair)),
     original |-> SatSub(allies[pair[2]].original, Total(Share(pair))),
     source_count |-> SatSub(allies[pair[2]].source_count, 1)]
KeepLeft(pair) ==
    [left |-> allies[pair[2]].left,
     original |-> SatSub(allies[pair[2]].original, Total(account[pair].units)),
     source_count |-> SatSub(allies[pair[2]].source_count, 1)]

\* The aggregate without the army of a pair.
TakeOut(pair) ==
    [left |-> Minus(allies[pair[2]].left, Share(pair)),
     original |-> SatSub(allies[pair[2]].original, Total(account[pair].units)),
     source_count |-> SatSub(allies[pair[2]].source_count, 1)]

\* A mutant of TurnRound: the time of departure is not recorded.
TurnRoundUnstamped(a, army, hurt) ==
    [a EXCEPT !.status = "Returning", !.units = army, !.wounded = hurt,
              !.return_duration = a.journey]

\* An account that starts for home with some units and some wounded.
TurnRound(a, army, hurt) ==
    [a EXCEPT !.status = "Returning", !.units = army, !.wounded = hurt,
              !.return_started_at = now, !.return_duration = a.journey]

\* recall.rs, by the sender: from the road the army comes back whole.
RecallTraveling(pair) ==
    /\ account[pair].status = "Traveling"
    /\ account' = [account EXCEPT ![pair] = TurnRound(@, @.units, @.wounded)]
    /\ UNCHANGED <<now, units, allies, wounded, gems, sends, battles>>

\* recall.rs, by the sender: from the destination the share of the survivors
\* comes back, and the rest is wounded.
RecallActive(pair) ==
    /\ account[pair].status = "Active"
    /\ account' = [account EXCEPT ![pair] =
          TurnRound(@, Share(pair), Minus(@.units, Share(pair)))]
    /\ allies' = [allies EXCEPT ![pair[2]] = TakeOut(pair)]
    /\ UNCHANGED <<now, units, wounded, gems, sends, battles>>

Recall(pair) == RecallTraveling(pair) \/ RecallActive(pair)

\* relieve.rs, by the destination: the same, but nobody is wounded.
Relieve(pair) ==
    /\ account[pair].status = "Active"
    /\ account' = [account EXCEPT ![pair] = TurnRound(@, Share(pair), @.wounded)]
    /\ allies' = [allies EXCEPT ![pair[2]] = TakeOut(pair)]
    /\ UNCHANGED <<now, units, wounded, gems, sends, battles>>

\* Mutants of Closed: the account survives its return, or only its status goes.
StillThere(a) == a
StatusOnly(a) == [a EXCEPT !.status = "None"]

\* The data of the account is cleared and its rent refunded.
Closed(a) == NoAccount

HasReturned(a) ==
    a.return_started_at > 0 /\ Reached(a.return_started_at + a.return_duration)

\* What a caller of process_return gives for the estate of the sender: that
\* estate, as every client and the crank do, or another account of the program.
EstateAccounts == {"own", "other"}

\* process_return.rs, anybody's call: the army is home.  The estate account must
\* be the program's, and the sender's own only where there are wounded.
ProcessReturn(pair, estate) ==
    LET s == pair[1]
        a == account[pair]
    IN
    /\ a.status = "Returning"
    /\ HasReturned(a)
    /\ estate = "own" => s \in Estates
    /\ Total(a.wounded) > 0 => estate = "own"
    /\ units' = [units EXCEPT ![s] = Plus(@, a.units)]
    /\ wounded' = IF s \in Infirmary
                  THEN [wounded EXCEPT ![s] = Plus(@, a.wounded)] ELSE wounded
    /\ account' = [account EXCEPT ![pair] = Closed(@)]
    /\ UNCHANGED <<now, allies, gems, sends, battles>>

\* speedup.rs: gems of the sender for a half or three quarters of what remains
\* of the journey there or back.
SpeedupTiers == {1, 2}
RemainingAfter(remaining, tier) == remaining \div (2 * tier)

Pay(p, remaining, tier) ==
    /\ gems[p] >= remaining * tier
    /\ gems' = [gems EXCEPT ![p] = @ - remaining * tier]

SpeedupTraveling(pair, tier) ==
    LET remaining == account[pair].arrives_at - now IN
    /\ account[pair].status = "Traveling"
    /\ ~Reached(account[pair].arrives_at)
    /\ Pay(pair[1], remaining, tier)
    /\ account' = [account EXCEPT ![pair].arrives_at =
                      now + RemainingAfter(remaining, tier)]
    /\ UNCHANGED <<now, units, allies, wounded, sends, battles>>

SpeedupReturning(pair, tier) ==
    LET a == account[pair]
        remaining == a.return_started_at + a.return_duration - now
    IN
    /\ a.status = "Returning"
    /\ ~Reached(a.return_started_at + a.return_duration)
    /\ Pay(pair[1], remaining, tier)
    /\ account' = [account EXCEPT ![pair].return_duration =
                      now - a.return_started_at + RemainingAfter(remaining, tier)]
    /\ UNCHANGED <<now, units, allies, wounded, sends, battles>>

-----------------------------------------------------------------------------
\* The armies there can be with no more than so many units of each tier.
ArmiesWithin(limit) == {army \in [Tiers -> 0 .. Total(limit)] :
                           \A t \in Tiers : army[t] <= limit[t]}

Attacked(d) ==
    \E left \in ArmiesWithin(Plus(units[d], allies[d].left)) : Defend(d, left)

Next ==
    \/ Tick
    \/ \E d \in Players : Attacked(d)
    \/ \E pair \in Pairs :
          \/ \E army \in ArmiesWithin(units[pair[1]]), journey \in JourneyTimes :
                Send(pair, army, journey)
          \/ ProcessArrival(pair)
          \/ Recall(pair)
          \/ Relieve(pair)
          \/ \E estate \in EstateAccounts : ProcessReturn(pair, estate)
          \/ \E tier \in SpeedupTiers :
                SpeedupTraveling(pair, tier) \/ SpeedupReturning(pair, tier)

Spec == Init /\ [][Next]_vars

\* Time passes, and the job cron/reinforcements/route.ts cranks what is due:
\* arrivals, and returns with the estate of the sender.  Nobody is obliged to
\* send, recall, relieve, attack or pay, or to give another account.
Fairness ==
    /\ WF_vars(Tick)
    /\ \A pair \in Pairs :
          WF_vars(ProcessArrival(pair)) /\ WF_vars(ProcessReturn(pair, "own"))

FairSpec == Spec /\ Fairness

-----------------------------------------------------------------------------
(* What reinforcement guarantees *)

\* Type invariant: accounts, aggregates and armies keep their shape, and an
\* address with no account holds nothing.
TypeOK ==
    /\ now \in 1 .. MaxTime
    /\ units \in [Players -> Army]
    /\ account \in [Pairs -> ReinforcementAccount]
    /\ allies \in [Players -> Aggregate]
    /\ wounded \in [Players -> Army]
    /\ gems \in [Players -> Nat]
    /\ sends \in 0 .. MaxSends /\ battles \in 0 .. MaxBattles
    /\ \A pair \in Pairs :
          /\ account[pair].status = "None" => account[pair] = NoAccount
          /\ account[pair].return_started_at <= now

ActiveAt(d) == {pair \in Pairs : pair[2] = d /\ account[pair].status = "Active"}

\* The original size and the number of sources that arrivals add up and that
\* recalls and reliefs take down belong to the armies that are there, so that the
\* survival ratio divides by what they were.
OriginalsMatch ==
    \A d \in Players :
        /\ allies[d].original = SumOver([pair \in Pairs |-> Total(account[pair].units)], ActiveAt(d))
        /\ allies[d].source_count = Cardinality(ActiveAt(d))

\* Units at home, on the road, and in aggregates.
OnTheRoad == {pair \in Pairs : account[pair].status \in {"Traveling", "Returning"}}
AllUnits ==
    SumOver([p \in Players |-> Total(units[p]) + Total(allies[p].left)], Players)
    + SumOver([pair \in Pairs |-> Total(account[pair].units)], OnTheRoad)

\* No step makes more units than there were, but for the start of a journey home
\* from the destination; and even that takes no more units along than are left
\* of all armies there.
UnitsAccountedFor ==
    [][ \/ AllUnits' <= AllUnits
        \/ \E pair \in Pairs :
              /\ account[pair].status = "Active"
              /\ account'[pair].status = "Returning"
              /\ Total(account'[pair].units) <= Total(allies[pair[2]].left) ]_vars

\* The aggregate of d is the armies at d, none of which has lost a unit.
Intact(d) ==
    \A t \in Tiers :
        allies[d].left[t] = SumOver([pair \in Pairs |-> account[pair].units[t]], ActiveAt(d))

\* As long as a destination is not attacked its allies lose nothing, and each
\* army that is taken home is taken home whole, in whatever order armies
\* arrive, are recalled and are relieved.
PeaceKeepsArmies ==
    [][ \A d \in Players : Intact(d) =>
          \/ Attacked(d)
          \/ /\ Intact(d)'
             /\ \A pair \in ActiveAt(d) :
                   account'[pair].units = account[pair].units
                   /\ account'[pair].wounded = NoUnits ]_vars

\* An army that is on the road gets where it goes, home or to the ally, and one
\* on its way home is not lost; but for a sender without an estate the crank can
\* name no account, wounded or not, and the army waits for somebody who does.
JourneysEnd ==
    \A pair \in Pairs :
        /\ account[pair].status = "Traveling" ~> account[pair].status # "Traveling"
        /\ account[pair].status = "Returning" /\ pair[1] \in Estates
           ~> account[pair].status = "None"

-----------------------------------------------------------------------------
(* What the documentation says and the code does not do *)

\* process_return.rs: "Returns surviving units/weapons to sender".  The share is
\* taken of the sum over the tiers and subtracted tier by tier, with
\* saturation: units of a tier that was wiped out come home all the same.
NoUnitsFromNothing == [][ AllUnits' <= AllUnits ]_vars

=============================================================================

-------------------------------- MODULE Rally --------------------------------
(***************************************************************************)
(* Rallies: team attacks in which every member commits an army, the armies *)
(* gather, fight one battle and walk home.  One action per instruction of  *)
(* programs/novus_mundus/src/processor/rally; an instruction is a          *)
(* transaction, so an action is a whole handler and its error paths are    *)
(* the states where it is disabled.  Any player, in any order and at any   *)
(* time, may send any of them; execute, process_return, close_rally and    *)
(* the speedups take anybody's signature.                                  *)
(*                                                                         *)
(* Abstractions.  Unit types are one number.  Weapons weigh in the shares  *)
(* but are not followed home; heroes and buffs are left to other modules.  *)
(* Of the target the model keeps whether it may be attacked; what the      *)
(* battle does is the nondeterministic outcome of Execute.  Guards on      *)
(* other components (team membership, extensions, Citadel, travel) only    *)
(* restrict who sends an instruction, which the model already leaves open, *)
(* except for Teammates.  One tick of the clock is the minute in which     *)
(* speedups are priced.                                                    *)
(***************************************************************************)
EXTENDS Integers, FiniteSets, Sums

CONSTANTS
    Players,            \* wallets
    Rallies,            \* (creator, rally_id) pairs: the addresses of rallies, each
                        \* with the target and the ways of all its rallies
    LeaderOf,           \* LeaderOf[r]: the creator of r
    Teammates,          \* Teammates[r]: players on the team of r
    TravelTo,           \* TravelTo[r][p]: minutes from the home of p to the rally point
    TravelBack,         \* TravelBack[r][p]: minutes from the rally city to the home city
    TargetType,         \* TargetType[r] \in {"player", "encounter", "castle"}
    GatherDurations,    \* recruiting periods a creator asks for
    CommitSizes,        \* army sizes a player commits
    Arms,               \* Arms[p]: weapons p sends along with an army
    MaxParticipants,    \* MaxParticipants[r]: tier, hero and Citadel cap, at most 20
    InitUnits, InitGems,
    Estates,            \* players who own an estate
    Infirmary,          \* players whose estate has an Infirmary
    CasualtyPercents,   \* casualty ratios combat may produce, in 0 .. 100
    LootPools,          \* what a target may yield
    U8Max,              \* largest value of a u8 counter (255 in the program)
    U32Max,             \* largest value of the wounded pool
    MaxTime             \* bound on the clock; see Reached

ASSUME RallyAssumption ==
    /\ IsFiniteSet(Players) /\ IsFiniteSet(Rallies)
    /\ LeaderOf \in [Rallies -> Players]
    /\ Teammates \in [Rallies -> SUBSET Players]
    /\ TravelTo \in [Rallies -> [Players -> Nat]]
    /\ TravelBack \in [Rallies -> [Players -> Nat]]
    /\ TargetType \in [Rallies -> {"player", "encounter", "castle"}]
    /\ GatherDurations \subseteq Nat \ {0}
    /\ CommitSizes \subseteq Nat \ {0}
    /\ Arms \in [Players -> Nat]
    /\ U8Max \in Nat \ {0} /\ Cardinality(Rallies) <= U8Max
    /\ U32Max \in Nat \ {0}
    /\ MaxParticipants \in [Rallies -> 1 .. U8Max]
    /\ InitUnits \in Nat /\ InitGems \in Nat
    /\ Infirmary \subseteq Estates /\ Estates \subseteq Players
    /\ CasualtyPercents \subseteq 0 .. 100
    /\ LootPools \subseteq Nat
    /\ MaxTime \in Nat \ {0}

MIN_RALLY_PARTICIPANTS == 2

VARIABLES
    now,        \* the Clock sysvar
    rally,      \* rally[r]: the RallyAccount
    part,       \* part[r][p]: the RallyParticipant of p in r
    units,      \* units[p]: defensive units at home
    wounded,    \* wounded[p]: wounded pool of the estate of p
    joined,     \* joined[p]: rally_stats.current_rallies_joined
    gems,       \* gems[p]
    loot,       \* loot[p]: loot paid out to p
    attackable, \* attackable[r]: the target of r exists and may be attacked
    adopted     \* adopted[r], a history variable that restricts no step: players
                \* whose accounts were at the address when r was last created

vars == <<now, rally, part, units, wounded, joined, gems, loot, attackable, adopted>>

-----------------------------------------------------------------------------
(* Accounts *)

Status == {"Unused", "Gathering", "Marching", "Returning", "Completed",
           "Cancelled", "Closed"}

RallyAccount ==
    [status : Status, gather_at : Nat,
     participant_count : Nat, arrived_count : Nat,
     marched_count : Nat, returned_count : Nat,
     total_units : Nat, total_loot : Nat, attacker_won : BOOLEAN]

RallyParticipant ==
    [open : BOOLEAN, units_committed : Nat,
     travel_started_at : Nat, arrives_at_rally : Nat,
     arrived_at_rally : BOOLEAN, included_in_march : BOOLEAN,
     casualties : Nat, loot : Nat,
     return_started_at : Nat, return_duration : Nat]

\* The address of an account that does not exist, before or after its life.
NoRally(status) ==
    [status |-> status, gather_at |-> 0,
     participant_count |-> 0, arrived_count |-> 0,
     marched_count |-> 0, returned_count |-> 0,
     total_units |-> 0, total_loot |-> 0, attacker_won |-> FALSE]

NoParticipant ==
    [open |-> FALSE, units_committed |-> 0,
     travel_started_at |-> 0, arrives_at_rally |-> 0,
     arrived_at_rally |-> FALSE, included_in_march |-> FALSE,
     casualties |-> 0, loot |-> 0,
     return_started_at |-> 0, return_duration |-> 0]

HasRally(r) == rally[r].status \notin {"Unused", "Closed"}

Out(r) == {p \in Players : part[r][p].open}

-----------------------------------------------------------------------------
(* Arithmetic and time *)

\* saturating_add(1) on a u8, saturating_sub on a u8 or u64.
UncheckedInc(n) == n + 1                                        \* a mutant
SatInc(n) == IF n < U8Max THEN n + 1 ELSE n
SatSub(m, n) == IF m > n THEN m - n ELSE 0

\* now >= t.  The clock stops at MaxTime, which stands for every later
\* instant, so that there whatever has a deadline is past it.
Reached(t) == now >= t \/ now = MaxTime

\* The participant stands at the rally point.
AtRallyPoint(a) == a.arrived_at_rally \/ Reached(a.arrives_at_rally)

\* A participant who set out for home without having marched (leave.rs, or a
\* late joiner turned round): return_started_at set, not included.
IsEarlyLeaver(a) == ~a.included_in_march /\ a.return_started_at > 0

-----------------------------------------------------------------------------
Init ==
    /\ now = 1
    /\ rally = [r \in Rallies |-> NoRally("Unused")]
    /\ part = [r \in Rallies |-> [p \in Players |-> NoParticipant]]
    /\ units = [p \in Players |-> InitUnits]
    /\ wounded = [p \in Players |-> 0]
    /\ joined = [p \in Players |-> 0]
    /\ gems = [p \in Players |-> InitGems]
    /\ loot = [p \in Players |-> 0]
    /\ attackable = [r \in Rallies |-> FALSE]
    /\ adopted = [r \in Rallies |-> {}]

Tick ==
    /\ now < MaxTime
    /\ now' = now + 1
    /\ UNCHANGED <<rally, part, units, wounded, joined, gems, loot, attackable, adopted>>

\* The RallyParticipant of a player who sets out with n units.
NewParticipant(r, p, n) ==
    [NoParticipant EXCEPT !.open = TRUE, !.units_committed = n,
                          !.travel_started_at = now,
                          !.arrives_at_rally = now + TravelTo[r][p],
                          !.arrived_at_rally = (TravelTo[r][p] = 0)]

\* The army of p leaves home for r.
Commit(r, p, n) ==
    /\ n <= units[p]
    /\ part' = [part EXCEPT ![r][p] = NewParticipant(r, p, n)]
    /\ units' = [units EXCEPT ![p] = @ - n]
    /\ joined' = [joined EXCEPT ![p] = SatInc(@)]
    /\ UNCHANGED <<now, wounded, gems, loot>>

\* create.rs: the creator opens a rally at any address without an account and
\* commits the first army.  The address may have held a rally before: accounts
\* it left behind then belong to the new one.  Nothing is asked of the target.
\* The clock's last instant, which stands for all later ones, creates nothing.
Create(r, n, duration) ==
    LET p == LeaderOf[r] IN
    /\ ~HasRally(r)
    /\ now < MaxTime
    /\ ~part[r][p].open
    /\ Commit(r, p, n)
    /\ \E may \in BOOLEAN : attackable' = [attackable EXCEPT ![r] = may]
    /\ adopted' = [adopted EXCEPT ![r] = Out(r)]
    /\ rally' = [rally EXCEPT ![r] =
          [NoRally("Gathering") EXCEPT
              !.gather_at = now + duration,
              !.participant_count = 1,
              !.arrived_count = IF TravelTo[r][p] = 0 THEN 1 ELSE 0,
              !.total_units = n]]

\* The account r with the army of p, n units.
Admit(r, p, n) ==
    [rally[r] EXCEPT
        !.participant_count = SatInc(@),
        !.arrived_count = IF TravelTo[r][p] = 0 THEN SatInc(@) ELSE @,
        !.total_units = @ + n]

\* join.rs: a team mate commits an army while recruiting is open.
Join(r, p, n) ==
    /\ rally[r].status = "Gathering"
    /\ ~Reached(rally[r].gather_at)
    /\ rally[r].participant_count < MaxParticipants[r]
    /\ p # LeaderOf[r]
    /\ p \in Teammates[r]
    /\ ~part[r][p].open
    /\ Commit(r, p, n)
    /\ rally' = [rally EXCEPT ![r] = Admit(r, p, n)]
    /\ UNCHANGED <<attackable, adopted>>

\* A mutant of Withdraw: the leaver is still counted.
WithdrawUnitsOnly(r, a) ==
    [rally[r] EXCEPT !.total_units = SatSub(@, a.units_committed)]

\* The account r without participant a, who goes home before the march.
Withdraw(r, a) ==
    [rally[r] EXCEPT
        !.participant_count = SatSub(@, 1),
        !.arrived_count = IF AtRallyPoint(a) THEN SatSub(@, 1) ELSE @,
        !.total_units = SatSub(@, a.units_committed)]

\* How long a participant who did not march needs to get home.
ReturnDuration(r, p) ==
    LET a == part[r][p] IN
    IF AtRallyPoint(a) THEN TravelBack[r][p]
    ELSE now - a.travel_started_at

\* A participant account that starts for home without having marched.
SetOut(a, duration) ==
    [a EXCEPT !.return_started_at = now,
              !.return_duration = duration,
              !.included_in_march = FALSE]

\* leave.rs: a participant other than the creator turns round while the rally
\* gathers, even after gather_at.
Leave(r, p) ==
    /\ rally[r].status = "Gathering"
    /\ p # LeaderOf[r]
    /\ part[r][p].open
    /\ part[r][p].return_started_at = 0
    /\ rally' = [rally EXCEPT ![r] = Withdraw(r, part[r][p])]
    /\ part' = [part EXCEPT ![r][p] = SetOut(@, ReturnDuration(r, p))]
    /\ UNCHANGED <<now, units, wounded, joined, gems, loot, attackable, adopted>>

\* cancel.rs: the creator calls the rally off, unless it is due and viable.
\* The creator stops counting as joined at once.
Cancel(r) ==
    LET p == LeaderOf[r] IN
    /\ rally[r].status = "Gathering"
    /\ ~( /\ Reached(rally[r].gather_at)
          /\ rally[r].participant_count >= MIN_RALLY_PARTICIPANTS )
    /\ part[r][p].open
    /\ rally' = [rally EXCEPT ![r].status = "Cancelled"]
    /\ part' = [part EXCEPT ![r][p] =
          SetOut(@, IF AtRallyPoint(@) THEN TravelTo[r][p]
                    ELSE now - @.travel_started_at)]
    /\ joined' = [joined EXCEPT ![p] = SatSub(@, 1)]
    /\ UNCHANGED <<now, units, wounded, gems, loot, attackable, adopted>>

\* The target changes under a rally that gathers: cleanup.rs closes an encounter
\* for good, a castle comes under protection or out of it, and a player
\* account stays what it is.
TargetChanges(r) ==
    /\ rally[r].status = "Gathering"
    /\ \/ TargetType[r] = "encounter" /\ attackable[r]
       \/ TargetType[r] = "castle"
    /\ attackable' = [attackable EXCEPT ![r] = ~@]
    /\ UNCHANGED <<now, rally, part, units, wounded, joined, gems, loot, adopted>>

-----------------------------------------------------------------------------
(* The battle *)

Army(r, S) == SumOver([p \in Players |-> part[r][p].units_committed], S)

\* Of the accounts given to execute, those whose armies march.
EveryoneGiven(r, S) == S                                        \* a mutant
Marchers(r, S) == {p \in S : AtRallyPoint(part[r][p])}

\* What an army counts for: its units and its weapons.
Contribution(r, p) == part[r][p].units_committed + Arms[p]
Power(r, S) == SumOver([p \in Players |-> Contribution(r, p)], S)

\* Shares are floors (logic/safe_math.rs): the dead are shared by contribution,
\* though no army loses more units than it has, and the loot by contribution
\* in basis points.
CasualtyShare(r, p, dead, power) ==
    LET share == (dead * Contribution(r, p)) \div power IN
    IF share < part[r][p].units_committed THEN share ELSE part[r][p].units_committed

LootShareRoundedUp(r, p, pool, power) ==                        \* a mutant
    (pool * ((Contribution(r, p) * 10000) \div power) + 9999) \div 10000

LootShare(r, p, pool, power) ==
    (pool * ((Contribution(r, p) * 10000) \div power)) \div 10000

\* What execute's combat branches can come to: a casualty ratio, whether the
\* attackers won, and the pool.  An encounter kills nobody and is always won;
\* a lost battle yields nothing.
BattleOutcome(r, percent, won, pool) ==
    /\ TargetType[r] = "encounter" => percent = 0 /\ won
    /\ ~won => pool = 0

\* A participant account after the battle, at home or abroad.
Fought(r, p, marchers, dead, won, pool, power) ==
    LET a == part[r][p] IN
    IF p \in marchers
    THEN [a EXCEPT !.arrived_at_rally = TRUE,
                   !.included_in_march = TRUE,
                   !.casualties = CasualtyShare(r, p, dead, power),
                   !.loot = IF won THEN LootShare(r, p, pool, power) ELSE @,
                   !.return_started_at = now,
                   !.return_duration = TravelTo[r][p]]
    ELSE IF a.return_started_at = 0
    THEN [a EXCEPT !.return_started_at = now,
                   !.return_duration = now - a.travel_started_at]
    ELSE a

\* execute.rs: anybody, with participant_count distinct participant accounts
\* of the rally, S, of which at least two are at the rally point.  The target
\* has to be an account of the program, and a castle open to attack.
Execute(r, S, percent, won, pool) ==
    LET marchers == Marchers(r, S)
        army == Army(r, marchers)
        dead == (army * percent) \div 100
    IN
    /\ rally[r].status \in {"Gathering", "Marching"}
    /\ rally[r].participant_count >= MIN_RALLY_PARTICIPANTS
    /\ Reached(rally[r].gather_at)
    /\ attackable[r]
    /\ Cardinality(S) = rally[r].participant_count
    /\ Cardinality(marchers) >= MIN_RALLY_PARTICIPANTS
    /\ BattleOutcome(r, percent, won, pool)
    /\ rally' = [rally EXCEPT ![r] =
          [@ EXCEPT !.status = "Returning",
                    !.marched_count = Cardinality(marchers),
                    !.total_units = army,
                    !.total_loot = pool,
                    !.attacker_won = won]]
    /\ part' = [part EXCEPT ![r] = [p \in Players |->
          IF p \in S THEN Fought(r, p, marchers, dead, won, pool, Power(r, marchers))
          ELSE part[r][p]]]
    /\ UNCHANGED <<now, units, wounded, joined, gems, loot, attackable, adopted>>

ExecuteAny(r) ==
    \E S \in SUBSET Out(r), percent \in CasualtyPercents, won \in BOOLEAN,
       pool \in LootPools \cup {0} : Execute(r, S, percent, won, pool)

-----------------------------------------------------------------------------
(* Going home *)

\* process_return.rs, the guards: the journey home is over for a marcher or an
\* early leaver; the others are let go once the rally has fought or is called
\* off, or while it gathers if they would arrive too late.
MayReturn(r, p) ==
    LET a == part[r][p] IN
    /\ HasRally(r)
    /\ a.open
    /\ \/ IsEarlyLeaver(a)
       \/ rally[r].status = "Gathering" /\ ~a.included_in_march
                                        /\ a.arrives_at_rally > rally[r].gather_at
       \/ rally[r].status \in {"Returning", "Completed", "Cancelled"}
    /\ a.included_in_march => a.return_started_at > 0
    /\ a.return_started_at > 0 => Reached(a.return_started_at + a.return_duration)

\* The participant has yet to set out, and the rally forgets one who turns
\* round while it gathers.
SettingOut(r, p) == part[r][p].return_started_at = 0

RallyWithout(r, p) ==
    IF SettingOut(r, p) /\ rally[r].status = "Gathering"
    THEN Withdraw(r, part[r][p])
    ELSE rally[r]

\* A mutant of StartReturn: an error rolls the start of the journey back.
StartReturnRolledBack(r, p) == FALSE

\* process_return.rs, first call for one who has yet to set out: only the
\* start of the journey is recorded.
StartReturn(r, p) ==
    /\ MayReturn(r, p)
    /\ SettingOut(r, p)
    /\ ReturnDuration(r, p) > 0
    /\ rally' = [rally EXCEPT ![r] = RallyWithout(r, p)]
    /\ part' = [part EXCEPT ![r][p] =
          [@ EXCEPT !.return_started_at = now,
                    !.return_duration = ReturnDuration(r, p)]]
    /\ UNCHANGED <<now, units, wounded, joined, gems, loot, attackable, adopted>>

\* A mutant of CountReturn: the returned are not counted.
CompleteOnly(acc) ==
    [acc EXCEPT !.status = IF @ = "Returning" /\ acc.returned_count >= acc.participant_count
                           THEN "Completed" ELSE @]

\* The rally account once one more participant is home.
CountReturn(acc) ==
    LET n == SatInc(acc.returned_count) IN
    [acc EXCEPT
        !.returned_count = n,
        !.status = IF @ = "Returning" /\ n >= acc.participant_count
                   THEN "Completed" ELSE @]

\* What is left of an army, surviving_units.
AllCommitted(a) == a.units_committed                            \* a mutant
Survivors(a) == SatSub(a.units_committed, a.casualties)

\* The return of p takes r off current_rallies_joined: cancel has already done
\* it for the leader.
AlwaysJoined(r, p) == TRUE                                      \* a mutant
StillJoined(r, p) == ~(rally[r].status = "Cancelled" /\ p = LeaderOf[r])

\* cas as u32 drops the high bits, and the pool saturates.
Infirmed(pool, fallen) ==
    LET sum == pool + (fallen % (U32Max + 1)) IN
    IF sum < U32Max THEN sum ELSE U32Max

\* process_return.rs, the army is home: survivors and loot to the player, the
\* fallen to the infirmary, the participant account closed.  Casualties need
\* the estate account of the player.
FinishReturn(r, p) ==
    LET a == part[r][p] IN
    /\ MayReturn(r, p)
    /\ ~(SettingOut(r, p) /\ ReturnDuration(r, p) > 0)
    /\ a.casualties > 0 => p \in Estates
    /\ units' = [units EXCEPT ![p] = @ + Survivors(a)]
    /\ loot' = IF rally[r].attacker_won THEN [loot EXCEPT ![p] = @ + a.loot] ELSE loot
    /\ wounded' = IF p \in Infirmary
                  THEN [wounded EXCEPT ![p] = Infirmed(@, a.casualties)] ELSE wounded
    /\ rally' = [rally EXCEPT ![r] = CountReturn(RallyWithout(r, p))]
    /\ joined' = IF StillJoined(r, p)
                 THEN [joined EXCEPT ![p] = SatSub(@, 1)] ELSE joined
    /\ part' = [part EXCEPT ![r][p] = NoParticipant]
    /\ UNCHANGED <<now, gems, attackable, adopted>>

ProcessReturn(r, p) == StartReturn(r, p) \/ FinishReturn(r, p)

\* state/rally.rs can_close.
CanClose(r) ==
    /\ rally[r].status \in {"Completed", "Cancelled"}
    /\ rally[r].returned_count >= rally[r].participant_count

\* close_rally.rs: anybody closes the account, the rent goes to the leader.
Close(r) ==
    /\ CanClose(r)
    /\ rally' = [rally EXCEPT ![r] = NoRally("Closed")]
    /\ UNCHANGED <<now, part, units, wounded, joined, gems, loot, attackable, adopted>>

-----------------------------------------------------------------------------
(* Speedups: gems of any payer for a half or three quarters of what remains *)

Tiers == {1, 2}
RemainingAfter(remaining, tier) == remaining \div (2 * tier)

Pay(payer, remaining, tier) ==
    /\ gems[payer] >= remaining * tier
    /\ gems' = [gems EXCEPT ![payer] = @ - remaining * tier]

\* speedup.rs, SPEEDUP_GATHER: on the way to the rally point.
SpeedupGather(r, p, payer, tier) ==
    LET a == part[r][p]
        remaining == a.arrives_at_rally - now
    IN
    /\ a.open
    /\ rally[r].status = "Gathering"
    /\ ~AtRallyPoint(a)
    /\ Pay(payer, remaining, tier)
    /\ part' = [part EXCEPT ![r][p].arrives_at_rally =
                   now + RemainingAfter(remaining, tier)]
    /\ UNCHANGED <<now, rally, units, wounded, joined, loot, attackable, adopted>>

\* speedup.rs, SPEEDUP_RETURN: on the way home.
SpeedupReturn(r, p, payer, tier) ==
    LET a == part[r][p]
        remaining == a.return_started_at + a.return_duration - now
    IN
    /\ a.open
    /\ HasRally(r)
    /\ a.return_started_at > 0
    /\ ~Reached(a.return_started_at + a.return_duration)
    /\ Pay(payer, remaining, tier)
    /\ part' = [part EXCEPT ![r][p].return_duration =
                   now - a.return_started_at + RemainingAfter(remaining, tier)]
    /\ UNCHANGED <<now, rally, units, wounded, joined, loot, attackable, adopted>>

-----------------------------------------------------------------------------
Next ==
    \/ Tick
    \/ \E r \in Rallies :
          \/ \E n \in CommitSizes, d \in GatherDurations : Create(r, n, d)
          \/ Cancel(r)
          \/ TargetChanges(r)
          \/ ExecuteAny(r)
          \/ Close(r)
          \/ \E p \in Players :
                \/ \E n \in CommitSizes : Join(r, p, n)
                \/ Leave(r, p)
                \/ ProcessReturn(r, p)
                \/ \E payer \in Players, tier \in Tiers :
                      \/ SpeedupGather(r, p, payer, tier)
                      \/ SpeedupReturn(r, p, payer, tier)

Spec == Init /\ [][Next]_vars

\* Time passes.  Nobody is obliged to send anything: no crank executes rallies
\* or brings armies home, so a property that needs a call made says so itself.
FairSpec == Spec /\ WF_vars(Tick)

-----------------------------------------------------------------------------
(* What a rally guarantees *)

\* The accounts keep the shape state/rally.rs gives them, and an address with no
\* account holds nothing; an open participant account holds an army, and no
\* journey starts in the future.
AccountsOK ==
    /\ now \in 1 .. MaxTime
    /\ rally \in [Rallies -> RallyAccount]
    /\ part \in [Rallies -> [Players -> RallyParticipant]]
    /\ units \in [Players -> Nat]
    /\ wounded \in [Players -> 0 .. U32Max]
    /\ joined \in [Players -> 0 .. U8Max]
    /\ gems \in [Players -> Nat]
    /\ loot \in [Players -> Nat]
    /\ \A r \in Rallies :
          /\ rally[r].participant_count <= U8Max
          /\ rally[r].returned_count <= U8Max
          /\ \A p \in Players :
                /\ IF part[r][p].open THEN part[r][p].units_committed > 0
                                      ELSE part[r][p] = NoParticipant
                /\ part[r][p].travel_started_at <= now
                /\ part[r][p].return_started_at <= now

\* Type invariant: well-formed accounts, and the two variables that are none.
TypeOK ==
    /\ AccountsOK
    /\ attackable \in [Rallies -> BOOLEAN]
    /\ adopted \in [Rallies -> SUBSET Players]

\* While a rally gathers, the counts kept by join, leave and the turning round
\* of late joiners are those of the participants who have not set out for home,
\* and accounts an earlier rally left at the address, which may leave without
\* having been counted in, never make them more; so execute, which wants
\* exactly participant_count accounts, can be served.
GatheringHeadcount ==
    \A r \in Rallies : rally[r].status = "Gathering" =>
        LET staying == {p \in Out(r) : SettingOut(r, p)} IN
        /\ rally[r].participant_count <= Cardinality(staying)
        /\ rally[r].participant_count <= MaxParticipants[r]
        /\ adopted[r] = {} =>
              /\ rally[r].participant_count = Cardinality(staying)
              /\ rally[r].total_units = Army(r, staying)

\* Rallies whose army of p counts in current_rallies_joined, and those where
\* it may: a leader left out by a closed rally, which no longer says whether
\* it was cancelled.
Counted(p) ==
    {r \in Rallies : part[r][p].open
                     /\ ~(p = LeaderOf[r] /\ rally[r].status \in {"Cancelled", "Closed"})}
MaybeCounted(p) ==
    {r \in Rallies : part[r][p].open /\ p = LeaderOf[r] /\ rally[r].status = "Closed"}

\* The counter that keeps a player from travel, dungeons and attacks is the
\* number of rallies with an army of theirs out, over create, join, cancel
\* (which takes the leader out early) and process_return (which must not do so
\* again).
JoinedCounter ==
    \A p \in Players :
        /\ Cardinality(Counted(p)) <= joined[p]
        /\ joined[p] <= Cardinality(Counted(p) \cup MaybeCounted(p))

\* Only an army that had the time to walk to the rally point of a rally that
\* fought has losses or loot, it never loses more than itself, and a rally that
\* gathers or was called off has hurt nobody but armies an earlier rally at its
\* address left behind.
OnlyMarchersFought ==
    \A r \in Rallies, p \in Players :
        LET a == part[r][p] IN
        /\ a.casualties <= a.units_committed
        /\ a.included_in_march =>
              /\ a.arrived_at_rally /\ Reached(a.arrives_at_rally)
              /\ a.return_started_at > 0
              /\ p \notin adopted[r] =>
                    rally[r].status \in {"Returning", "Completed", "Closed"}
        /\ ~a.included_in_march => a.casualties = 0 /\ a.loot = 0

\* A rally on its way home never runs out of armies: enough are out to bring
\* returned_count up to participant_count, and one is left for the call that
\* completes the rally, at an address used again too.  Whether that call can be
\* made is another matter: ArmiesComeHome.
ReturnCanComplete ==
    \A r \in Rallies :
        /\ rally[r].participant_count <= rally[r].returned_count + Cardinality(Out(r))
        /\ rally[r].status = "Returning" => Out(r) # {}

\* The two counters that five instructions keep by their own rules serve the
\* instructions that compare them: execute while the rally gathers, the
\* completion of process_return when it is on its way home.
HeadcountsServe == GatheringHeadcount /\ ReturnCanComplete

\* Loot paid out or waiting in participant accounts.
LootAbroad ==
    SumOver(loot, Players)
    + SumOver([r \in Rallies |-> SumOver([p \in Players |-> part[r][p].loot], Players)], Rallies)

\* Loot appears only when a rally executes, no more of it than the pool the
\* target gave up; going home pays it out without adding to it.
LootComesFromPools ==
    [][ LootAbroad' <= LootAbroad + SumOver(
            [r \in Rallies |->
                IF rally[r].status = "Gathering" THEN rally'[r].total_loot ELSE 0],
            Rallies) ]_vars

\* What the accounts say of the armies in custody.
Mustering == [r \in Rallies |-> rally[r].status \in {"Gathering", "Marching"}]
Held == [r \in Rallies |-> [p \in Players |-> part[r][p].units_committed]]
FoughtIn == [r \in Rallies |-> {p \in Players : part[r][p].included_in_march}]
Fallen == [r \in Rallies |-> [p \in Players |-> part[r][p].casualties]]

\* Rallies implement the custody of armies: no army is taken in or led to battle
\* once the rally has fought or was called off, until its address is used again;
\* every army committed is handed back at most once, with no loss but the last
\* one a battle gave it, and no army that set out for home early, late or twice
\* is handed back twice.
Custody == INSTANCE ArmyCustody WITH
    mustering <- Mustering,
    home <- units,
    held <- Held,
    fought <- FoughtIn,
    fallen <- Fallen,
    Parties <- {S \in SUBSET Players : Cardinality(S) >= MIN_RALLY_PARTICIPANTS}

ImplementsCustody == Custody!Spec

\* An army that is free to go home gets there if somebody keeps asking, unless
\* the rally account is closed first or the player has losses and no estate to
\* take them to: the two calls late joiners need, the first of which only starts
\* the journey, are always there to be made.
ArmiesComeHome ==
    \A r \in Rallies, p \in Players : WF_vars(ProcessReturn(r, p)) =>
        ( /\ part[r][p].open
          /\ \/ IsEarlyLeaver(part[r][p])
             \/ rally[r].status \in {"Returning", "Completed", "Cancelled"} )
        ~> ( \/ ~part[r][p].open
             \/ ~HasRally(r)
             \/ part[r][p].casualties > 0 /\ p \notin Estates )

\* "Past the gather deadline, a viable rally is committed and must execute"
\* (cancel.rs): it does if somebody keeps asking, unless members leave until it
\* is no longer viable or the target is not to be attacked.
ViableRallyExecutes ==
    \A r \in Rallies : WF_vars(ExecuteAny(r)) =>
        ( /\ rally[r].status = "Gathering"
          /\ Reached(rally[r].gather_at)
          /\ rally[r].participant_count >= MIN_RALLY_PARTICIPANTS )
        ~> ( \/ rally[r].status # "Gathering"
             \/ rally[r].participant_count < MIN_RALLY_PARTICIPANTS
             \/ ~attackable[r] )

-----------------------------------------------------------------------------
(* What the documentation says and the code does not do *)

\* close_rally.rs: "All participants must have returned".  Leavers and late
\* joiners leave participant_count but enter returned_count, so the account
\* goes while armies are out, and process_return needs one at its address to
\* let them home.
NoOneLeftBehind ==
    \A r \in Rallies : rally[r].status = "Closed" => Out(r) = {}

=============================================================================

------------------------------- MODULE Castle -------------------------------
(***************************************************************************)
(* One castle: the contest for its throne, its garrison and its court.     *)
(* One action per instruction of                                           *)
(* programs/novus_mundus/src/processor/castle, and the attack of a rally   *)
(* on the castle (rally/execute.rs).                                       *)
(*                                                                         *)
(* Abstractions.  Level, networth, range and travel only restrict who may  *)
(* act.  A contribution is its units: weapons follow the same arithmetic   *)
(* and heroes the same accounts; in a battle the units of an account are   *)
(* all killed or all spared.  Daily rewards, captured weapons and the      *)
(* price of upgrades read the state modelled here and change none of it,   *)
(* and so does the configuration by the DAO; they are left out.  Of the    *)
(* five upgrades that of the chambers is here, the one that changes a cap. *)
(* The joined_at_epoch of a contribution and the copy of a position in the *)
(* account of its holder are read by clients only.                         *)
(***************************************************************************)
EXTENDS Integers, FiniteSets, Sums

CONSTANTS
    Players, Teams, Nobody,  \* Nobody is the null address of a player or a team
    Caps,               \* garrison caps of the subscription tiers
    InitCap,            \* max_garrison of a new castle (25)
    InitCourt,          \* max_court of a new castle, by its tier
    Positions,          \* court positions
    Contributions,      \* numbers of units that may join the garrison
    InitUnits,          \* InitUnits[p]: defensive units at the start
    MAX_CASTLES_PER_KING,
    OtherCastles,       \* OtherCastles[p]: castles that p holds at the start
    CONTEST_DURATION, PROTECTION_DURATION, UPGRADE_DURATION,
    MAX_CHAMBERS_LEVEL,
    EpochMax,           \* the largest membership_epoch (a u32)
    MaxTime             \* bound on the clock, for TLC

ASSUME CastleAssumption ==
    /\ IsFiniteSet(Players) /\ IsFiniteSet(Positions)
    /\ Nobody \notin Players \cup Teams
    /\ Caps \subseteq Nat \ {0} /\ InitCap \in Nat /\ InitCourt \in Nat
    /\ Contributions \subseteq Nat
    /\ InitUnits \in [Players -> Nat]
    /\ MAX_CASTLES_PER_KING \in Nat
    /\ OtherCastles \in [Players -> 0 .. MAX_CASTLES_PER_KING]
    /\ CONTEST_DURATION \in Nat /\ PROTECTION_DURATION \in Nat /\ UPGRADE_DURATION \in Nat
    /\ MAX_CHAMBERS_LEVEL \in Nat /\ EpochMax \in Nat /\ MaxTime \in Nat

VARIABLES
    now,        \* the Clock sysvar
    castle,     \* the CastleAccount
    garrison,   \* garrison[p]: the GarrisonContributionAccount of p
    court,      \* court[i]: holder of the CourtPositionAccount of position i
    registry,   \* registry[p]: entries of the KingRegistryAccount of p, by what they name
    units,      \* units[p]: defensive units of p, at home
    team_of     \* team_of[p]: team_address of p

vars == <<now, castle, garrison, court, registry, units, team_of>>

Status == {"VACANT", "CONTEST", "PROTECTED", "VULNERABLE", "TRANSITIONING"}
Upgrade == {"NONE", "CHAMBERS"}

CastleAccount ==
    [status : Status, king : Players \cup {Nobody}, team : Teams \cup {Nobody},
     contest_end_at : Nat, garrison_count : Nat, max_garrison : Nat,
     court_count : Nat, max_court : Nat, chambers_level : Nat,
     upgrade_type : Upgrade, upgrade_target_level : Nat, upgrade_end_at : Nat,
     transition_new_king : Players \cup {Nobody}, membership_epoch : 0 .. EpochMax]

NewCastle ==
    [status |-> "VACANT", king |-> Nobody, team |-> Nobody,
     contest_end_at |-> 0, garrison_count |-> 0, max_garrison |-> InitCap,
     court_count |-> 0, max_court |-> InitCourt, chambers_level |-> 0,
     upgrade_type |-> "NONE", upgrade_target_level |-> 0, upgrade_end_at |-> 0,
     transition_new_king |-> Nobody, membership_epoch |-> 0]

GarrisonContribution == [open : BOOLEAN, units : Nat, is_king : BOOLEAN]
NoContribution == [open |-> FALSE, units |-> 0, is_king |-> FALSE]

Garrison == {p \in Players : garrison[p].open}
Court == {i \in Positions : court[i] # Nobody}

\* An entry of a registry names this castle or another one.
Entries == {"here", "elsewhere"}

\* The players that the war table admits to the thread of the castle.
KeyHolders ==
    ({castle.king} \cup Garrison \cup {court[i] : i \in Positions}) \ {Nobody}

SatInc(n, max) == IF n < max THEN n + 1 ELSE n

\* A mutant of SatDec, without the subtraction.
NoDec(n) == n
SatDec(n) == IF n > 0 THEN n - 1 ELSE 0

\* A mutant of NextEpoch: the key stays.
SameEpoch == castle.membership_epoch
NextEpoch == SatInc(castle.membership_epoch, EpochMax)

Init ==
    /\ now = 0
    /\ castle = NewCastle
    /\ garrison = [p \in Players |-> NoContribution]
    /\ court = [i \in Positions |-> Nobody]
    /\ registry = [p \in Players |->
                     [e \in Entries |-> IF e = "here" THEN 0 ELSE OtherCastles[p]]]
    /\ units = InitUnits
    /\ team_of \in [Players -> Teams \cup {Nobody}]

-----------------------------------------------------------------------------
(* The throne *)

castle_count(reg, p) == reg[p]["here"] + reg[p]["elsewhere"]

\* A mutant of can_claim_castle, off by one.
can_claim_one_more(p) == castle_count(registry, p) <= MAX_CASTLES_PER_KING

can_claim_castle(p) == castle_count(registry, p) < MAX_CASTLES_PER_KING

\* remove_castle takes out the first entry with the numbers given.
Unlisted(reg, p, e) == [reg EXCEPT ![p][e] = SatDec(@)]

Listed(reg, p, e) == [reg EXCEPT ![p][e] = @ + 1]

claim_vacant_castle(p, cap) ==
    /\ team_of[p] # Nobody
    /\ castle.status = "VACANT" /\ castle.king = Nobody
    /\ castle.garrison_count = 0 /\ castle.court_count = 0
    /\ can_claim_castle(p)
    /\ registry' = Listed(registry, p, "here")
    /\ castle' = [castle EXCEPT !.king = p, !.membership_epoch = NextEpoch,
                                !.team = team_of[p],
                                !.contest_end_at = now + CONTEST_DURATION,
                                !.status = "CONTEST", !.max_garrison = cap]
    /\ UNCHANGED <<now, garrison, court, units, team_of>>

ShieldEnd == castle.contest_end_at + PROTECTION_DURATION

update_castle_status ==
    /\ \/ /\ castle.status = "CONTEST" /\ now >= castle.contest_end_at
          /\ castle' = [castle EXCEPT !.status = "PROTECTED"]
       \/ /\ castle.status = "PROTECTED" /\ now >= ShieldEnd
          /\ castle' = [castle EXCEPT !.status = "VULNERABLE"]
    /\ UNCHANGED <<now, garrison, court, registry, units, team_of>>

can_be_attacked ==
    \/ castle.status \in {"CONTEST", "TRANSITIONING"} /\ now < castle.contest_end_at
    \/ castle.status = "VULNERABLE"
    \/ castle.status = "PROTECTED" /\ now >= ShieldEnd

\* p is to be the new king, unless another conquers the castle in time.
Conquered(p) ==
    [castle EXCEPT !.status = "TRANSITIONING", !.transition_new_king = p,
                   !.contest_end_at = now + CONTEST_DURATION]

\* The units of the contributions in g.
UnitsOf(g) == SumOver([q \in Players |-> garrison[q].units], g)

\* p attacks the contributions in present, the accounts that the transaction
\* names, and has left units after it.  What decides is the number of casualties
\* computed for all of them together; who falls is computed account by account,
\* by shares of power, and need not come to the same.
attack_castle(p, present, casualties, fallen, left) ==
    LET total == UnitsOf(present)
        remaining == total - casualties
        conquers == remaining < total \div 10 \/ total = 0
    IN
    /\ can_be_attacked
    /\ units[p] > 0
    /\ present \subseteq Garrison /\ fallen \subseteq present
    /\ casualties \in 0 .. total /\ (casualties = 0 => fallen = {})
    /\ left = units[p] \/ (left = 0 /\ total > 0)
    /\ units' = [units EXCEPT ![p] = left]
    /\ garrison' = [q \in Players |->
                      IF q \in fallen THEN [garrison[q] EXCEPT !.units = 0] ELSE garrison[q]]
    /\ \/ remaining > 0 /\ castle' = castle
       \/ /\ remaining = 0 \/ left > 0
          /\ castle' = IF conquers THEN Conquered(p) ELSE castle
    /\ UNCHANGED <<now, court, registry, team_of>>

\* A rally led by p conquers the castle: it takes no units from the garrison.
rally_attack(p) ==
    /\ can_be_attacked
    /\ castle' = Conquered(p)
    /\ UNCHANGED <<now, garrison, court, registry, units, team_of>>

\* A mutant of NoKing: the team of the king stays.
TeamStays(status) ==
    [castle EXCEPT !.status = status, !.king = Nobody, !.transition_new_king = Nobody,
                   !.membership_epoch = NextEpoch]

NoKing(status) ==
    [castle EXCEPT !.status = status, !.king = Nobody, !.team = Nobody,
                   !.transition_new_king = Nobody, !.membership_epoch = NextEpoch]

\* A mutant of CleanedUp: the court may stay.
GarrisonGone == castle.garrison_count = 0

CleanedUp == castle.garrison_count = 0 /\ castle.court_count = 0

\* The registry of the old king, when the transaction names it.
Dethroned(reg, named, e) ==
    IF named /\ castle.king # Nobody THEN Unlisted(reg, castle.king, e) ELSE reg

\* Nobody compares the numbers of the castle that the transaction gives, for the
\* registries, with the castle of the transition: e is what they name.
finalize_transition(cap, named, e) ==
    LET k == castle.transition_new_king IN
    /\ castle.status = "TRANSITIONING"
    /\ now >= castle.contest_end_at
    /\ CleanedUp
    /\ \/ /\ k = Nobody
          /\ castle' = [NoKing("VACANT") EXCEPT !.contest_end_at = 0]
          /\ registry' = Dethroned(registry, named, e)
       \/ /\ k # Nobody
          /\ can_claim_castle(k)
          /\ castle' = [castle EXCEPT !.king = k, !.team = team_of[k], !.max_garrison = cap,
                                      !.transition_new_king = Nobody, !.status = "PROTECTED",
                                      !.membership_epoch = NextEpoch, !.contest_end_at = now]
          /\ registry' = Dethroned(Listed(registry, k, e), named, e)
    /\ UNCHANGED <<now, garrison, court, units, team_of>>

\* Nor here: the numbers may be those of a castle that is not in the registry.
force_remove_king ==
    /\ castle.king # Nobody
    /\ registry' \in {registry} \cup {Unlisted(registry, castle.king, e) : e \in Entries}
    /\ castle' = NoKing("TRANSITIONING")
    /\ UNCHANGED <<now, garrison, court, units, team_of>>

\* p wins or loses another castle; when a transition ends there, the numbers given
\* may be those of this one.
other_castle(p, e) ==
    /\ \/ can_claim_castle(p) /\ registry' = Listed(registry, p, e)
       \/ registry[p][e] > 0 /\ registry' = Unlisted(registry, p, e)
    /\ UNCHANGED <<now, castle, garrison, court, units, team_of>>

-----------------------------------------------------------------------------
(* The garrison *)

\* A mutant of HasRoom, off by one.
HasRoomForOneMore == castle.garrison_count <= castle.max_garrison

HasRoom == castle.garrison_count < castle.max_garrison

join_garrison(p, n) ==
    /\ castle.max_garrison > 0 /\ HasRoom
    /\ team_of[p] = castle.team
    /\ ~ garrison[p].open
    /\ n <= units[p]
    /\ units' = [units EXCEPT ![p] = @ - n]
    /\ garrison' = [garrison EXCEPT
                      ![p] = [open |-> TRUE, units |-> n, is_king |-> castle.king = p]]
    /\ castle' = [castle EXCEPT !.garrison_count = @ + 1]
    /\ UNCHANGED <<now, court, registry, team_of>>

\* A mutant of GoesHome: the account is closed with the units in it.
UnitsLost(p) == 0
Returned(p) == garrison[p].units

\* The contribution of p is given back and its account closed.
GoesHome(p) ==
    /\ garrison[p].open
    /\ units' = [units EXCEPT ![p] = @ + Returned(p)]
    /\ garrison' = [garrison EXCEPT ![p] = NoContribution]
    /\ castle' = [castle EXCEPT !.garrison_count = SatDec(@), !.membership_epoch = NextEpoch]
    /\ UNCHANGED <<now, court, registry, team_of>>

leave_garrison(p) == GoesHome(p)

\* The accounts of the king and of the relieved player must not be the same.
relieve_garrison(p) ==
    /\ castle.king # Nobody /\ p # castle.king
    /\ GoesHome(p)

garrison_cleanup(p) ==
    /\ castle.status = "TRANSITIONING" /\ castle.garrison_count > 0
    /\ GoesHome(p)

-----------------------------------------------------------------------------
(* The court *)

appoint_court(i, p) ==
    /\ castle.king # Nobody
    /\ castle.status \notin {"CONTEST", "TRANSITIONING"}
    /\ castle.max_court > 0 /\ castle.court_count < castle.max_court
    /\ court[i] = Nobody
    /\ team_of[p] = castle.team
    /\ p # castle.king
    /\ court' = [court EXCEPT ![i] = p]
    /\ castle' = [castle EXCEPT !.court_count = @ + 1]
    /\ UNCHANGED <<now, garrison, registry, units, team_of>>

\* The holder of position i gives it up and its account is closed.
StepsDown(i) ==
    /\ court[i] # Nobody
    /\ court' = [court EXCEPT ![i] = Nobody]
    /\ castle' = [castle EXCEPT !.court_count = SatDec(@), !.membership_epoch = NextEpoch]
    /\ UNCHANGED <<now, garrison, registry, units, team_of>>

dismiss_court(i) == castle.king # Nobody /\ StepsDown(i)

resign_court(i) == StepsDown(i)

court_cleanup(i) == castle.status = "TRANSITIONING" /\ StepsDown(i)

-----------------------------------------------------------------------------
(* Upgrades *)

initiate_upgrade ==
    /\ castle.king # Nobody
    /\ castle.status \notin {"CONTEST", "TRANSITIONING"}
    /\ castle.upgrade_type = "NONE"
    /\ castle.chambers_level < MAX_CHAMBERS_LEVEL
    /\ LET target == castle.chambers_level + 1 IN
       castle' = [castle EXCEPT !.upgrade_type = "CHAMBERS", !.upgrade_target_level = target,
                                !.upgrade_end_at = now + UPGRADE_DURATION * target]
    /\ UNCHANGED <<now, garrison, court, registry, units, team_of>>

NoUpgrade(c) ==
    [c EXCEPT !.upgrade_type = "NONE", !.upgrade_target_level = 0, !.upgrade_end_at = 0]

complete_upgrade ==
    /\ castle.upgrade_type # "NONE"
    /\ now >= castle.upgrade_end_at
    /\ castle' = NoUpgrade([castle EXCEPT !.chambers_level = castle.upgrade_target_level,
                                          !.max_court = castle.upgrade_target_level])
    /\ UNCHANGED <<now, garrison, court, registry, units, team_of>>

cancel_upgrade ==
    /\ castle.king # Nobody
    /\ castle.upgrade_type # "NONE"
    /\ castle' = NoUpgrade(castle)
    /\ UNCHANGED <<now, garrison, court, registry, units, team_of>>

-----------------------------------------------------------------------------
(* The players and the clock *)

\* Module Team has the instructions that change the team of a player.
change_team(p, t) ==
    /\ team_of[p] = Nobody \/ t = Nobody
    /\ team_of' = [team_of EXCEPT ![p] = t]
    /\ UNCHANGED <<now, castle, garrison, court, registry, units>>

Tick ==
    /\ now < MaxTime
    /\ now' = now + 1
    /\ UNCHANGED <<castle, garrison, court, registry, units, team_of>>

Throne ==
    \/ \E p \in Players, cap \in Caps : claim_vacant_castle(p, cap)
    \/ update_castle_status
    \/ \E p \in Players : \E present \in SUBSET Garrison : \E fallen \in SUBSET present :
         \E casualties \in 0 .. UnitsOf(present), left \in {0, units[p]} :
           attack_castle(p, present, casualties, fallen, left)
    \/ \E p \in Players : rally_attack(p)
    \/ \E cap \in Caps, named \in BOOLEAN, e \in Entries : finalize_transition(cap, named, e)
    \/ force_remove_king
    \/ \E p \in Players, e \in Entries : other_castle(p, e)

Seats ==
    \/ \E p \in Players, n \in Contributions : join_garrison(p, n)
    \/ \E p \in Players : leave_garrison(p) \/ relieve_garrison(p) \/ garrison_cleanup(p)
    \/ \E i \in Positions, p \in Players : appoint_court(i, p)
    \/ \E i \in Positions : dismiss_court(i) \/ resign_court(i) \/ court_cleanup(i)

Upgrades ==
    \/ initiate_upgrade
    \/ complete_upgrade
    \/ cancel_upgrade

Next ==
    \/ Throne \/ Seats \/ Upgrades
    \/ \E p \in Players, t \in Teams \cup {Nobody} : change_team(p, t)
    \/ Tick

Spec == Init /\ [][Next]_vars

(* The scheduled crank cleans up castles in transition and finalizes them. *)
Crank ==
    /\ \A p \in Players : WF_vars(garrison_cleanup(p))
    /\ \A i \in Positions : WF_vars(court_cleanup(i))
    /\ WF_vars(\E cap \in Caps : finalize_transition(cap, TRUE, "here"))

FairSpec == Spec /\ Crank

-----------------------------------------------------------------------------
(* Properties *)

\* The accounts are well formed, and no registry holds more castles than a king
\* may rule.
TypeOK ==
    /\ now \in Nat
    /\ castle \in CastleAccount
    /\ garrison \in [Players -> GarrisonContribution]
    /\ court \in [Positions -> Players \cup {Nobody}]
    /\ registry \in [Players -> [Entries -> Nat]]
    /\ units \in [Players -> Nat]
    /\ team_of \in [Players -> Teams \cup {Nobody}]
    /\ \A p \in Players : castle_count(registry, p) <= MAX_CASTLES_PER_KING

\* The headcounts of the castle are the numbers of open accounts, and the
\* garrison is within a cap that changes with the king: what finalize_transition
\* and claim_vacant_castle rely on when they look at the counts only.
HeadcountsMatch ==
    /\ castle.garrison_count = Cardinality(Garrison)
    /\ castle.court_count = Cardinality(Court)
    /\ castle.garrison_count <= castle.max_garrison

\* There is no king, and then no team, exactly in a vacant castle, or while the
\* DAO's removal of a king is cleaned up; somebody waits for the throne only in
\* a transition.
ThroneMatchesStatus ==
    /\ castle.king = Nobody =>
          /\ castle.status \in {"VACANT", "TRANSITIONING"}
          /\ castle.team = Nobody
    /\ castle.status = "VACANT" => castle.king = Nobody /\ castle.court_count = 0
    /\ castle.transition_new_king # Nobody => castle.status = "TRANSITIONING"

\* Seats given under one king do not outlast the reign: who is king sits at no
\* court, and is the one whose contribution is marked as the king's.  A member of
\* garrison or court may conquer the castle from within.
SeatsMatchThrone ==
    castle.king # Nobody =>
        /\ \A i \in Positions : court[i] # castle.king
        /\ \A p \in Garrison : garrison[p].is_king <=> p = castle.king

\* The throne is sound: status, king and seats tell of the same reign, over every
\* sequence of claims, conquests, removals and finalizations.
ThroneSound == ThroneMatchesStatus /\ SeatsMatchThrone

\* Whoever loses access to the castle's thread, by any instruction, loses it
\* together with the key.
KeyStep ==
    ~ (KeyHolders \subseteq KeyHolders') =>
        \/ castle'.membership_epoch > castle.membership_epoch
        \/ castle.membership_epoch = EpochMax
KeyRotates == [][KeyStep]_vars

\* No player's units become more, at home and in the garrison taken together,
\* nor fewer but in a battle that the castle's status allows at the time.
ArmiesStep ==
    \A p \in Players :
        LET before == units[p] + garrison[p].units
            after == units'[p] + garrison'[p].units
        IN  after <= before /\ (after < before => can_be_attacked)
PeaceKeepsArmies == [][ArmiesStep]_vars

\* A transition that is due is over at some time, or the registry of the new king
\* is full, unless members of the old team join the garrison again and again.
Due == castle.status = "TRANSITIONING" /\ now >= castle.contest_end_at
Full(p) == p # Nobody /\ ~ can_claim_castle(p)
TransitionsEnd ==
    \/ []<><<\E p \in Players, n \in Contributions : join_garrison(p, n)>>_vars
    \/ Due ~> castle.status # "TRANSITIONING" \/ Full(castle.transition_new_king)

=============================================================================

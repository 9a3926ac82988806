----------------------------- MODULE HeroCustody -----------------------------
(***************************************************************************)
(* Where the heroes are.  A hero is an NFT; its holder is a wallet or an   *)
(* account of the program.  The accounts of the program name heroes as     *)
(* well: the slots of a player, the participant of a rally, a              *)
(* reinforcement, a garrison, an expedition, a dungeon run.  Ten groups of *)
(* instructions move heroes, each keeping holder, names and the cached     *)
(* buffs of the player in line on its own; this module has all of them.    *)
(*                                                                         *)
(* Abstractions.  Armies, costs, timers and the course of a rally are in   *)
(* the modules of those components, or only restrict who may act.  A       *)
(* template has one buff, given by its value at each level.  Rallies and   *)
(* journeys compare no more of the account they read as a template than    *)
(* its number, so an account is here what such a reading finds in it.      *)
(* Garrisons, expeditions and reinforcements without a hero are left out:  *)
(* they only keep their owner from having one with a hero.  The blessed    *)
(* hero, the defensive slot and the stamps of abilities are read by no     *)
(* guard here.                                                             *)
(***************************************************************************)
EXTENDS Integers, FiniteSets, Sums

CONSTANTS
    Players, Heroes, Templates, Rallies, Allies, Cities,
    Nothing,        \* the null address
    Anywhere,       \* origin city 0: at home in every city
    Template,       \* Template[h]: the template of hero h
    Accounts,       \* what may be read as a template: the templates, and others
    Bears,          \* Bears[t]: accounts with the number of template t, t among them
    Origin,         \* Origin[t]: meditation city of template t
    Growth,         \* Growth[t][l]: value of the buff of account t at level l
    HomeBonus,      \* HomeBonus[t]: location bonus of the tier of account t
    Scale,          \* the whole of which a bonus is a part (10000)
    BuffMax,        \* the largest cached buff (a u16)
    NumSlots,       \* active_heroes of a player (3)
    MaxLocked,      \* heroes the sanctuary lets a player lock
    LevelCap, MeditationCap,  \* hero levels the sanctuary allows
    Leader,         \* Leader[r]: creator of rally r
    NewCaps         \* supply caps the DAO may set

Slots == 1 .. NumSlots
Levels == 1 .. LevelCap

ASSUME HeroAssumption ==
    /\ IsFiniteSet(Players) /\ IsFiniteSet(Heroes)
    /\ IsFiniteSet(Rallies) /\ IsFiniteSet(Allies)
    /\ Nothing \notin Heroes
    /\ Template \in [Heroes -> Templates]
    /\ Templates \subseteq Accounts
    /\ Bears \in [Templates -> SUBSET Accounts] /\ \A t \in Templates : t \in Bears[t]
    /\ Origin \in [Templates -> Cities \cup {Anywhere}]
    /\ HomeBonus \in [Accounts -> Nat]
    /\ Scale \in Nat \ {0} /\ BuffMax \in Nat
    /\ NumSlots \in Nat \ {0} /\ MaxLocked \in Nat
    /\ LevelCap \in Nat \ {0} /\ MeditationCap \in Levels
    /\ Growth \in [Accounts -> [Levels -> Nat]]
    /\ \A t \in Templates, l, n \in Levels : l <= n => Growth[t][l] <= Growth[t][n]
    /\ Leader \in [Rallies -> Players]
    /\ NewCaps \subseteq Nat

VARIABLES
    holder,     \* holder[h]: owner of the NFT of h
    level,      \* level[h]: the attribute Level of h
    player,     \* player[p]: the PlayerAccount of p
    party,      \* party[p][r]: the RallyParticipant account of p in rally r
    ally,       \* ally[p][a]: hero of the ReinforcementAccount a of p
    escrow,     \* escrow[p][e]: hero of the account e of p that holds NFTs itself
    supply,     \* supply[t]: supply_cap and minted_count of template t
    receipts    \* <<p, t>>: the mint receipt of p for t exists

vars == <<holder, level, player, party, ally, escrow, supply, receipts>>

Escrows == {"garrison", "expedition", "dungeon"}

\* The addresses that may own an NFT: the wallet of a player, the account of
\* a player and the escrows.
Wallet(p) == <<"wallet", p>>
Account(p) == <<"player", p>>
Unminted == <<"unminted">>
Burned == <<"burned">>

Holders == ({"wallet", "player"} \cup Escrows) \X Players \cup {<<"unminted">>, <<"burned">>}

PlayerAccount ==
    [slots : [Slots -> Heroes \cup {Nothing}], bonus : [Slots -> Nat],
     buffs : 0 .. BuffMax, meditating : Slots \cup {Nothing}, city : Cities]

RallyParticipant == [open : BOOLEAN, counted : BOOLEAN, hero : Heroes \cup {Nothing}]
NoParty == [open |-> FALSE, counted |-> FALSE, hero |-> Nothing]

TypeOK ==
    /\ holder \in [Heroes -> Holders]
    /\ level \in [Heroes -> Levels]
    /\ player \in [Players -> PlayerAccount]
    /\ party \in [Players -> [Rallies -> RallyParticipant]]
    /\ ally \in [Players -> [Allies -> Heroes \cup {Nothing}]]
    /\ escrow \in [Players -> [Escrows -> Heroes \cup {Nothing}]]
    /\ supply \in [Templates -> [cap : Nat, minted : Nat]]
    /\ receipts \subseteq Players \X Templates

Init ==
    /\ holder = [h \in Heroes |-> Unminted]
    /\ level = [h \in Heroes |-> 1]
    /\ player \in [Players -> {[slots |-> [s \in Slots |-> Nothing], bonus |-> [s \in Slots |-> 0],
                                buffs |-> 0, meditating |-> Nothing, city |-> c] : c \in Cities}]
    /\ party = [p \in Players |-> [r \in Rallies |-> NoParty]]
    /\ ally = [p \in Players |-> [a \in Allies |-> Nothing]]
    /\ escrow = [p \in Players |-> [e \in Escrows |-> Nothing]]
    /\ supply = [t \in Templates |-> [cap |-> 0, minted |-> 0]]
    /\ receipts = {}

-----------------------------------------------------------------------------
(* Slots and buffs *)

Occupied(a) == {s \in Slots : a.slots[s] # Nothing}

\* A mutant of FirstFree: the loop stops one slot early.
FirstFreeButLast(a) ==
    {s \in Slots \ {NumSlots} : a.slots[s] = Nothing /\ \A z \in 1 .. s - 1 : a.slots[z] # Nothing}

\* The first empty slot of account a, if any.
FirstFree(a) == {s \in Slots : a.slots[s] = Nothing /\ \A z \in 1 .. s - 1 : a.slots[z] # Nothing}

\* A mutant of Plus, without saturation.
PlusUnbounded(x, v) == x + v

Plus(x, v) == IF x + v > BuffMax THEN BuffMax ELSE x + v
Minus(x, v) == IF v > x THEN 0 ELSE x - v

\* The bonus of hero h in city c by the tier of account t.
BonusAs(h, t, c) == IF Origin[Template[h]] \in {Anywhere, c} THEN HomeBonus[t] ELSE 0
Bonus(h, c) == BonusAs(h, Template[h], c)

\* What a hero of level l brings by account t with location bonus b, cached as a u16.
WorthAs(t, l, b) == LET v == (Growth[t][l] * (Scale + b)) \div Scale
                    IN  IF v > BuffMax THEN BuffMax ELSE v
Worth(h, l, b) == WorthAs(Template[h], l, b)

\* Hero h enters slot s of account a, its bonus by the city of the moment; t is read
\* for its template.
SeatedAs(a, s, h, t) ==
    [a EXCEPT !.slots[s] = h, !.bonus[s] = BonusAs(h, t, a.city),
              !.buffs = Plus(@, WorthAs(t, level[h], BonusAs(h, t, a.city)))]
Seated(a, s, h) == SeatedAs(a, s, h, Template[h])

\* Mutants of UnseatedAs: the bonus is forgotten before it is used; the slot stays.
UnseatedNoBonus(a, s, t) ==
    [a EXCEPT !.slots[s] = Nothing, !.bonus[s] = 0,
              !.buffs = Minus(@, WorthAs(t, level[a.slots[s]], 0))]
UnseatedStays(a, s, t) ==
    [a EXCEPT !.bonus[s] = 0,
              !.buffs = Minus(@, WorthAs(t, level[a.slots[s]], a.bonus[s]))]

\* The hero in slot s leaves with what it brought when it came.
UnseatedAs(a, s, t) ==
    [a EXCEPT !.slots[s] = Nothing, !.bonus[s] = 0,
              !.buffs = Minus(@, WorthAs(t, level[a.slots[s]], a.bonus[s]))]
Unseated(a, s) == UnseatedAs(a, s, Template[a.slots[s]])

\* What the slots of account a should bring together.
SlotWorth(a) == [s \in Slots |-> IF a.slots[s] = Nothing THEN 0
                                 ELSE Worth(a.slots[s], level[a.slots[s]], a.bonus[s])]
Brought(a) == SumOver(SlotWorth(a), Slots)

\* The level of h rises from l to n: the buffs rise by the difference, as it is
\* away from home.
Raised(a, h, l, n) ==
    LET d == Growth[Template[h]][n] - Growth[Template[h]][l]
    IN  [a EXCEPT !.buffs = Plus(@, IF d > BuffMax THEN BuffMax ELSE d)]

-----------------------------------------------------------------------------
(* Heroes: mint, burn, trade, lock, unlock, level *)

CapLeavesRoom(t) == supply[t].cap > 0 => supply[t].minted < supply[t].cap

mint(p, h) ==
    LET t == Template[h] IN
    /\ holder[h] = Unminted
    /\ <<p, t>> \notin receipts
    /\ CapLeavesRoom(t)
    /\ holder' = [holder EXCEPT ![h] = Wallet(p)]
    /\ supply' = [supply EXCEPT ![t].minted = @ + 1]
    /\ receipts' = receipts \cup {<<p, t>>}
    /\ UNCHANGED <<level, player, party, ally, escrow>>

\* A mutant of Fewer: the count stays.
NoFewer(n) == n
Fewer(n) == IF n > 0 THEN n - 1 ELSE 0

\* The receipt is closed when the caller names it; another account is ignored.
burn(p, h) ==
    LET t == Template[h] IN
    /\ holder[h] = Wallet(p)
    /\ \A s \in Slots : player[p].slots[s] # h
    /\ holder' = [holder EXCEPT ![h] = Burned]
    /\ supply' = [supply EXCEPT ![t].minted = Fewer(@)]
    /\ receipts' \in {receipts, receipts \ {<<p, t>>}}
    /\ UNCHANGED <<level, player, party, ally, escrow>>

update_supply_cap(t, c) ==
    /\ c > supply[t].cap
    /\ supply' = [supply EXCEPT ![t].cap = c]
    /\ UNCHANGED <<holder, level, player, party, ally, escrow, receipts>>

\* The owner of an NFT may give it to anybody.
trade(p, q, h) ==
    /\ holder[h] = Wallet(p) /\ p # q
    /\ holder' = [holder EXCEPT ![h] = Wallet(q)]
    /\ UNCHANGED <<level, player, party, ally, escrow, supply, receipts>>

lock(p, s, h) ==
    /\ player[p].slots[s] = Nothing
    /\ Cardinality(Occupied(player[p])) < MaxLocked
    /\ holder[h] = Wallet(p)
    /\ holder' = [holder EXCEPT ![h] = Account(p)]
    /\ player' = [player EXCEPT ![p] = Seated(@, s, h)]
    /\ UNCHANGED <<level, party, ally, escrow, supply, receipts>>

\* A transfer out of the account of p, which only its owner signs for.
MovesFrom(p, h, to) ==
    /\ holder[h] = Account(p)
    /\ holder' = [holder EXCEPT ![h] = to]

unlock(p, s) ==
    LET h == player[p].slots[s] IN
    /\ h # Nothing
    /\ MovesFrom(p, h, Wallet(p))
    /\ player' = [player EXCEPT ![p] = Unseated(@, s)]
    /\ UNCHANGED <<level, party, ally, escrow, supply, receipts>>

InSlot(a, h) == \E s \in Slots : a.slots[s] = h

level_up(p, h) ==
    /\ holder[h] \notin {Unminted, Burned}
    /\ InSlot(player[p], h) \/ holder[h] = Wallet(p)
    /\ level[h] < LevelCap
    /\ level' = [level EXCEPT ![h] = @ + 1]
    /\ player' = IF InSlot(player[p], h)
                 THEN [player EXCEPT ![p] = Raised(@, h, level[h], level[h] + 1)]
                 ELSE player
    /\ UNCHANGED <<holder, party, ally, escrow, supply, receipts>>

-----------------------------------------------------------------------------
(* Sanctuary and travel *)

start_meditation(p, s) ==
    LET h == player[p].slots[s] IN
    /\ player[p].meditating = Nothing
    /\ h # Nothing
    /\ holder[h] # Burned
    /\ Origin[Template[h]] \in {Anywhere, player[p].city}
    /\ level[h] < MeditationCap
    /\ player' = [player EXCEPT ![p].meditating = s]
    /\ UNCHANGED <<holder, level, party, ally, escrow, supply, receipts>>

\* The time decides how many levels n the hero gains, up to the cap.
claim_meditation(p, n) ==
    LET s == player[p].meditating
        h == player[p].slots[s]
    IN
    /\ s # Nothing
    /\ h # Nothing
    /\ holder[h] # Burned
    /\ n <= (IF level[h] < MeditationCap THEN MeditationCap - level[h] ELSE 0)
    /\ level' = [level EXCEPT ![h] = @ + n]
    /\ player' = [player EXCEPT ![p] = [Raised(@, h, level[h], level[h] + n)
                                        EXCEPT !.meditating = Nothing]]
    /\ UNCHANGED <<holder, party, ally, escrow, supply, receipts>>

\* The slots whose heroes a caller names, each with an account for its template;
\* and all of them, with the templates themselves.
Readings(a) ==
    {read \in UNION {[given -> Accounts] : given \in SUBSET Occupied(a)} :
        \A s \in DOMAIN read : read[s] \in Bears[Template[a.slots[s]]]}
TrueReading(a) == [s \in Occupied(a) |-> Template[a.slots[s]]]

\* A mutant of Cleared: an arrival adds to the buffs of the journey.
NotCleared(a) == a.buffs
Cleared(a) == 0

\* Account a in city c, its buffs computed anew; slots that are not named bring nothing.
Recomputed(a, c, read) ==
    LET given == DOMAIN read
        bonus == [s \in Slots |-> IF s \in given THEN BonusAs(a.slots[s], read[s], c) ELSE 0]
        worth == [s \in Slots |-> IF s \in given
                                  THEN WorthAs(read[s], level[a.slots[s]], bonus[s]) ELSE 0]
    IN  [a EXCEPT !.city = c, !.bonus = bonus, !.buffs = Plus(Cleared(a), SumOver(worth, Slots))]

Joined(p) == {r \in Rallies : party[p][r].counted}

\* Arrival in city c, the one where the journey began if it was cancelled.  With no
\* hero accounts the buffs stay as they are.
travel(p, c, read) ==
    /\ Joined(p) = {}
    /\ \A s \in DOMAIN read : holder[player[p].slots[s]] # Burned
    /\ \/ player' = [player EXCEPT ![p].city = c]
       \/ /\ Occupied(player[p]) # {}
          /\ player' = [player EXCEPT ![p] = Recomputed(@, c, read)]
    /\ UNCHANGED <<holder, level, party, ally, escrow, supply, receipts>>

-----------------------------------------------------------------------------
(* Rallies and reinforcements: the hero leaves its slot, the NFT stays *)

\* Creating or joining rally r without a hero, or with the one in slot s.
rally_join(p, r) ==
    /\ ~party[p][r].open
    /\ \/ /\ party' = [party EXCEPT ![p][r] = [open |-> TRUE, counted |-> TRUE, hero |-> Nothing]]
          /\ UNCHANGED player
       \/ \E s \in Occupied(player[p]) :
             /\ holder[player[p].slots[s]] # Burned
             /\ party' = [party EXCEPT ![p][r] = [open |-> TRUE, counted |-> TRUE,
                                                  hero |-> player[p].slots[s]]]
             /\ \E t \in Bears[Template[player[p].slots[s]]] :
                   player' = [player EXCEPT ![p] = UnseatedAs(@, s, t)]
    /\ UNCHANGED <<holder, level, ally, escrow, supply, receipts>>

\* The leader no longer counts a cancelled rally, though its army is still out.
rally_cancel(p, r) ==
    /\ Leader[r] = p /\ party[p][r].counted
    /\ party' = [party EXCEPT ![p][r].counted = FALSE]
    /\ UNCHANGED <<holder, level, player, ally, escrow, supply, receipts>>

\* The hero goes to the first free slot, whoever holds its NFT, and to the
\* wallet when there is none.
RestoreHero(p, h) ==
    IF FirstFree(player[p]) # {}
    THEN \E s \in FirstFree(player[p]), t \in Bears[Template[h]] :
            /\ player' = [player EXCEPT ![p] = SeatedAs(@, s, h, t)]
            /\ UNCHANGED holder
    ELSE MovesFrom(p, h, Wallet(p)) /\ UNCHANGED player

rally_return(p, r) ==
    LET h == party[p][r].hero IN
    /\ party[p][r].open
    /\ party' = [party EXCEPT ![p][r] = NoParty]
    /\ IF h = Nothing THEN UNCHANGED <<holder, player>>
       ELSE holder[h] # Burned /\ RestoreHero(p, h)
    /\ UNCHANGED <<level, ally, escrow, supply, receipts>>

\* The buffs and the bonus of the slot are left as they are.
reinforcement_send(p, a, s) ==
    /\ ally[p][a] = Nothing
    /\ player[p].slots[s] # Nothing
    /\ player[p].meditating # s
    /\ ally' = [ally EXCEPT ![p][a] = player[p].slots[s]]
    /\ player' = [player EXCEPT ![p].slots[s] = Nothing]
    /\ UNCHANGED <<holder, level, party, escrow, supply, receipts>>

\* Without a free slot no account names the hero any more.
reinforcement_return(p, a) ==
    /\ ally[p][a] # Nothing
    /\ ally' = [ally EXCEPT ![p][a] = Nothing]
    /\ player' = [player EXCEPT ![p].slots =
                    [s \in Slots |-> IF s \in FirstFree(player[p]) THEN ally[p][a] ELSE @[s]]]
    /\ UNCHANGED <<holder, level, party, escrow, supply, receipts>>

-----------------------------------------------------------------------------
(* Garrisons, expeditions and dungeons: the NFT moves as well *)

join_garrison(p, s) ==
    LET h == player[p].slots[s] IN
    /\ escrow[p]["garrison"] = Nothing
    /\ h # Nothing
    /\ MovesFrom(p, h, <<"garrison", p>>)
    /\ player' = [player EXCEPT ![p] = Unseated(@, s)]
    /\ escrow' = [escrow EXCEPT ![p]["garrison"] = h]
    /\ UNCHANGED <<level, party, ally, supply, receipts>>

\* A mutant of Released: the NFT stays behind.
ReleasedUnsent(p, e, to) ==
    /\ escrow[p][e] # Nothing
    /\ holder[escrow[p][e]] = <<e, p>>
    /\ escrow' = [escrow EXCEPT ![p][e] = Nothing]
    /\ UNCHANGED holder

\* The account e of p is closed and its hero goes to the holder named.
Released(p, e, to) ==
    /\ escrow[p][e] # Nothing
    /\ holder[escrow[p][e]] = <<e, p>>
    /\ holder' = [holder EXCEPT ![escrow[p][e]] = to]
    /\ escrow' = [escrow EXCEPT ![p][e] = Nothing]

\* Back to the first free slot, or to the wallet of q.
GarrisonReturn(p, q) ==
    LET free == FirstFree(player[p]) IN
    /\ IF free = {}
       THEN Released(p, "garrison", Wallet(q)) /\ UNCHANGED player
       ELSE /\ Released(p, "garrison", Account(p))
            /\ \E s \in free :
                  player' = [player EXCEPT ![p] = Seated(@, s, escrow[p]["garrison"])]
    /\ UNCHANGED <<level, party, ally, supply, receipts>>

leave_garrison(p) == GarrisonReturn(p, p)
garrison_cleanup(p) == GarrisonReturn(p, p)

\* The king names the wallet that a hero without a slot goes to.
relieve_garrison(p, q) == GarrisonReturn(p, q)

\* A mutant of OwnsForExpedition: the wallet of anybody will do.
OwnsLoosely(p, h) == holder[h] \in {Account(p)} \cup {Wallet(q) : q \in Players}

OwnsForExpedition(p, h) == holder[h] \in {Wallet(p), Account(p)}

\* A hero held by the player's account leaves its slot, with buffs and bonus as
\* they are; nothing asks whether it is in one.
expedition_start(p, h) ==
    /\ escrow[p]["expedition"] = Nothing
    /\ OwnsForExpedition(p, h)
    /\ holder' = [holder EXCEPT ![h] = <<"expedition", p>>]
    /\ escrow' = [escrow EXCEPT ![p]["expedition"] = h]
    /\ player' = [player EXCEPT ![p].slots =
          [s \in Slots |-> IF /\ holder[h] = Account(p)
                              /\ @[s] = h
                              /\ \A z \in 1 .. s - 1 : @[z] # h
                           THEN Nothing ELSE @[s]]]
    /\ UNCHANGED <<level, party, ally, supply, receipts>>

\* Claiming or aborting: the account closes, and the hero goes to the wallet
\* when its accounts were given.
expedition_end(p) ==
    /\ \/ Released(p, "expedition", Wallet(p))
       \/ /\ escrow[p]["expedition"] # Nothing
          /\ escrow' = [escrow EXCEPT ![p]["expedition"] = Nothing]
          /\ UNCHANGED holder
    /\ UNCHANGED <<level, player, party, ally, supply, receipts>>

dungeon_enter(p, h) ==
    /\ escrow[p]["dungeon"] = Nothing
    /\ Joined(p) = {}
    /\ holder[h] = Wallet(p)
    /\ holder' = [holder EXCEPT ![h] = <<"dungeon", p>>]
    /\ escrow' = [escrow EXCEPT ![p]["dungeon"] = h]
    /\ UNCHANGED <<level, player, party, ally, supply, receipts>>

\* Fleeing, or claiming after the last room.
dungeon_leave(p) ==
    /\ Released(p, "dungeon", Wallet(p))
    /\ UNCHANGED <<level, player, party, ally, supply, receipts>>

-----------------------------------------------------------------------------
PlayerNext(p) ==
    \/ \E h \in Heroes :
          \/ mint(p, h)
          \/ burn(p, h)
          \/ \E q \in Players : trade(p, q, h)
          \/ \E s \in Slots : lock(p, s, h)
          \/ level_up(p, h)
          \/ expedition_start(p, h)
          \/ dungeon_enter(p, h)
    \/ \E s \in Slots :
          \/ unlock(p, s)
          \/ start_meditation(p, s)
          \/ \E a \in Allies : reinforcement_send(p, a, s)
          \/ join_garrison(p, s)
    \/ \E n \in 0 .. LevelCap : claim_meditation(p, n)
    \/ \E c \in Cities, read \in Readings(player[p]) : travel(p, c, read)
    \/ \E r \in Rallies : rally_join(p, r) \/ rally_cancel(p, r) \/ rally_return(p, r)
    \/ \E a \in Allies : reinforcement_return(p, a)
    \/ leave_garrison(p)
    \/ garrison_cleanup(p)
    \/ \E q \in Players : relieve_garrison(p, q)
    \/ expedition_end(p)
    \/ dungeon_leave(p)

Next ==
    \/ \E p \in Players : PlayerNext(p)
    \/ \E t \in Templates, c \in NewCaps : update_supply_cap(t, c)

Spec == Init /\ [][Next]_vars

-----------------------------------------------------------------------------
(* Properties *)

\* Whatever a garrison, an expedition or a dungeon run names as its hero, it
\* holds; and a hero held by a garrison or a dungeon run is named by it, so that
\* leave_garrison, garrison_cleanup and dungeon/flee can give it back.  Shows
\* that the transfers and the accounts of join_garrison, expedition/start and
\* dungeon/enter stay together over all ways out.
EscrowsHold ==
    \A p \in Players, e \in Escrows :
        /\ escrow[p][e] # Nothing => holder[escrow[p][e]] = <<e, p>>
        /\ \A h \in Heroes :
              holder[h] = <<e, p>> /\ e # "expedition" => escrow[p][e] = h

\* Where the program names hero h.
NamedInSlot(h) == {x \in Players \X Slots : player[x[1]].slots[x[2]] = h}
NamedInRally(h) == {x \in Players \X Rallies : party[x[1]][x[2]].hero = h}
NamedAsAlly(h) == {x \in Players \X Allies : ally[x[1]][x[2]] = h}
NamedInEscrow(h) == {x \in Players \X Escrows : escrow[x[1]][x[2]] = h}

\* At most one account names h, and the NFT is where that account says.
OnePlace(h) ==
    /\ Cardinality(NamedInSlot(h)) + Cardinality(NamedInRally(h))
         + Cardinality(NamedAsAlly(h)) + Cardinality(NamedInEscrow(h)) <= 1
    /\ \A x \in NamedInSlot(h) \cup NamedInRally(h) \cup NamedAsAlly(h) :
          holder[h] = Account(x[1])
    /\ \A x \in NamedInEscrow(h) : holder[h] = <<x[2], x[1]>>

\* A hero that is in one place stays in one place, whatever instructions follow
\* one another, but for one: expedition/start takes a hero from the account of
\* the player while no slot but a rally or a reinforcement names it.
OnlyExpeditionsTear ==
    \A h \in Heroes :
        OnePlace(h) /\ ~OnePlace(h)' =>
            \E p \in Players :
                /\ holder[h] = Account(p) /\ holder'[h] = <<"expedition", p>>
                /\ ~InSlot(player[p], h)

\* The account of p holds h and names it nowhere: neither unlock nor any return
\* reaches it.
Parked(h) ==
    \E p \in Players :
        /\ holder[h] = Account(p)
        /\ ~InSlot(player[p], h)
        /\ \A r \in Rallies : party[p][r].hero # h
        /\ \A a \in Allies : ally[p][a] # h

\* Only reinforcement/process_return with all slots taken leaves a hero in the
\* player's account that no account names; every other return and every unlock
\* brings it to a slot or to a wallet, also after an expedition took it from a
\* rally.
OnlyFullSlotsPark ==
    \A h \in Heroes :
        ~Parked(h) /\ Parked(h)' =>
            \E p \in Players, a \in Allies :
                /\ ally[p][a] = h /\ ally'[p][a] = Nothing
                /\ Occupied(player[p]) = Slots

\* Over all instructions that move a hero, by whomever they are sent, NFT and
\* accounts part in these two ways only.
PlacesKept == [][OnlyExpeditionsTear /\ OnlyFullSlotsPark]_vars

InSync(p) == player[p].buffs = Brought(player[p])

\* An arrival that leaves out a hero of p or reads another account for its template,
\* and a way to or from a rally that does.
ReadsAnother(p) ==
    \/ \E c \in Cities, read \in Readings(player[p]) :
          travel(p, c, read) /\ read # TrueReading(player[p])
    \/ \E r \in Rallies, s \in Slots, t \in Accounts :
          LET h == IF party[p][r].open THEN party[p][r].hero ELSE player[p].slots[s] IN
          /\ party'[p][r] # party[p][r]
          /\ h # Nothing /\ t # Template[h]
          /\ player'[p] = IF party[p][r].open THEN SeatedAs(player[p], s, h, t)
                          ELSE UnseatedAs(player[p], s, t)

\* The cached buffs are the sum of what the heroes in the slots brought, through
\* any sequence of lock, unlock, rally, garrison, level_up and travel.  They get
\* out of step only by sending or returning a reinforcement, by an expedition
\* that takes a hero from its slot, by an instruction that reads another account
\* for a template or that arrives without a hero, by a level gained at home or of
\* a hero that is not in one place, and at the end of the u16.
BuffsStayInSync ==
    [][\A p \in Players :
          InSync(p) /\ ~InSync(p)' =>
             \/ ally'[p] # ally[p]
             \/ /\ escrow'[p]["expedition"] # escrow[p]["expedition"]
                /\ player'[p].slots # player[p].slots
             \/ ReadsAnother(p)
             \/ \E s \in Slots :
                   /\ player[p].slots[s] # Nothing
                   /\ level'[player[p].slots[s]] # level[player[p].slots[s]]
                   /\ player[p].bonus[s] > 0 \/ ~OnePlace(player[p].slots[s])
             \/ player'[p].buffs = BuffMax]_vars

Living(t) == {h \in Heroes : Template[h] = t /\ holder[h] \notin {Unminted, Burned}}

\* minted_count of a template is the number of its heroes that live, wherever
\* they are and whoever burned the others, so the supply that burn gives back is
\* the supply that mint takes.
SupplyCounts == \A t \in Templates : supply[t].minted = Cardinality(Living(t))

\* A hero gets from one player to another only from wallet to wallet, but for
\* relieve_garrison with full slots, which sends it to the wallet the king named.
OwnersTrade ==
    [][\A h \in Heroes, p, q \in Players :
          p # q /\ holder[h] \in {Wallet(p), Account(p)} \cup {<<e, p>> : e \in Escrows}
                /\ holder'[h] \in {Wallet(q), Account(q)} \cup {<<e, q>> : e \in Escrows} =>
             /\ holder'[h] = Wallet(q)
             /\ \/ holder[h] = Wallet(p)
                \/ holder[h] = <<"garrison", p>> /\ Occupied(player[p]) = Slots]_vars

=============================================================================

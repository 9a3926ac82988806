# Novus Mundus in TLA+

Novus Mundus is a strategy game whose rules are one Solana program
(`src/programs/novus_mundus`, Rust).  Every operation of the game is an
*instruction*: a transaction that runs alone, reads and writes accounts, and
either commits all it did or, on an error, nothing.  So one instruction is one
atomic action here, a handler's early returns are the states in which the action
is disabled, and what makes the program hard is not the inside of a handler but
the order in which many signers send them: players act when they please, most
clean-up instructions may be sent by anybody (scheduled cranks do), and time is
the clock that passes between two instructions.

The project has one module per component, modules `MC*` that instantiate them for
TLC, and modules `*Proofs` with what TLAPS proves of them.

## Inventory

| component | state | operations | interacts with |
|---|---|---|---|
| rally (`processor/rally`) | `RallyAccount`, one `RallyParticipant` per member | create, join, leave, cancel, execute, process_return, close, speedup | player (units, weapons, counters), estate (wounded), team, hero, the target, war table key |
| reinforcement (`processor/reinforcement`) | one `ReinforcementAccount` per (sender, destination), aggregates in the destination's player account | send, process_arrival, recall, relieve, process_return, speedup | player, team, hero, estate; combat reduces the aggregates |
| team and treasury (`processor/team`) | `TeamAccount`, member slots, invites, treasury requests | create, join, invite, kick, leave, promote, demote, transfer, disband; deposit, request, approve, reject, execute, cancel | player, rally, reinforcement, war table |
| castle (`processor/castle`) | `CastleAccount`, court positions, garrison entries, king's registry | claim, attack, garrison join/leave/relieve, court appoint/dismiss/resign, transition, upgrades, rewards, cleanups | player, team, rally (castle target) |
| token (`processor/token`, parts of `economy`) | reserved, locked and liquid NOVI of a player | reserve to lock, two-step withdrawal with a seven day wait, vault transfer | player, SPL token program |
| hero (`processor/hero`, `sanctuary`) | the NFTs (MPL Core), hero slots, cached buffs, meditation slot, supply of a template, mint receipts | mint, lock, unlock, level up, burn, assign, meditate | rally, reinforcement, castle, expedition, dungeon, travel |
| event (`processor/event`, `helpers/event_scoring.rs`) | `EventAccount` with its leaderboard and prize pool, one `EventParticipation` per player, `current_event` of the player | create, join, leave, finalize, claim_prize, and update_event_score | combat, purchases and collections score; the treasury of the winner's estate adds to a prize |
| arena | season accounts, participation, loadouts | create, join, challenge, finalize, claim | player, clock |
| expedition, dungeon, travel, research, estate, forge | a timer in the player's own accounts | start, strike, speedup, claim, abort | player only |
| economy, shop, subscription, oracle | balances, prices, caps | purchase, transfer, collect | price feeds, token program |
| combat, encounter, loot | healths and stashes | attack, spawn, claim | player, rally, castle |
| war table, program | none of its own; reads `membership_epoch` | access, post, pin, react, delete: checks and a log entry | rally, team, castle |
| war table, web store (`war-table.ts`, `useWarTable.ts`, `wartable.ts` of the SDK) | one `ThreadEntry` per thread: bubbles, reaction records, pending tombstones, pin | ingest, merge a reconcile, load older pages, echo, roll back | the chain through RPC: notifications, reads |
| initialization | game engine, cities, templates | create, update | everything, once |
| TypeScript client, command line, web application | none the program relies on | send instructions; cranks close rallies, bring reinforcements home, clean up castles | the program |

What is hard, over the components:

- **Two counters for one set.**  A rally decides that it is complete, and that its
  account may go, by comparing a count of members with a count of returns that
  several instructions keep.
- **Permissionless steps.**  Whoever sends `execute` chooses the participant
  accounts; whoever sends `process_return` chooses the moment.
- **Two-call protocols.**  A late joiner goes home in two calls of one instruction.
- **Deadlines against late answers.**  Recruiting ends at an instant; armies arrive
  before or after it; gems move arrivals.
- **Floors.**  Casualties and loot are shared by floors of floors.
- **The same fact in several places.**  Who is in a team is in a count, in slots and in
  player accounts; who is in a garrison in a count and in accounts; who is king in the
  castle and in registries.
- **Rights that outlive their reason.**  A request survives its owner's rank, a seat in
  the garrison the king it was given under.
- **Who holds and who names.**  A hero's NFT has a holder; which hero is away is written in
  another account; what the hero brings is cached in a third.  Ten groups of instructions
  keep them in line, each on its own.
- **A ranking kept by exchanges.**  A leaderboard is never sorted: each score moves one
  entry past its neighbours, and the last of a full board falls off.
- **Answers out of order.**  The client is notified late, twice or never, and reads what
  was true some time ago.
- **Nobody is obliged to act.**  What must eventually happen needs a call that
  somebody can make, and an account that is still there to be named.

`PROJECT.json` lists the hazards at their lines, each with the properties that
would catch it going wrong.

## Modules

`Rally` models every instruction of `processor/rally`.

| model | code |
|---|---|
| `rally[r]` | `RallyAccount` (state/rally.rs:55); `status` `"Unused"`, `"Closed"`: no account, before the first rally at the address or after one |
| `part[r][p]` | `RallyParticipant` (state/rally.rs:310); `open = FALSE`: no account |
| `units`, `wounded`, `joined`, `gems`, `loot` | the player's defensive units, the estate's wounded pool, `rally_stats.current_rallies_joined`, gems, and what a rally paid out |
| `now` | the Clock sysvar, in minutes |
| `attackable[r]` | the account of the target exists and may be attacked (`require_owner` and `can_be_attacked` in `execute`) |
| `adopted[r]` | history, read by properties only: whose accounts an earlier rally had left at the address when `r` was created |
| `Create`, `Join`, `Leave`, `Cancel`, `Execute`, `Close` | the handlers of the same names |
| `StartReturn`, `FinishReturn` | the two ways `process_return` commits: only starting the journey of an army that has not set out, and settling one that is home |
| `TargetChanges` | what happens to the target while a rally gathers: an encounter is cleaned up for good (`encounter/cleanup.rs`), a castle comes under protection or out of it |
| `SpeedupGather`, `SpeedupReturn` | the two kinds of `speedup`; the third, for a march, needs status Marching, which no instruction sets |

Abstractions.  The three unit types are one number.  Weapons weigh in the shares of
casualties and loot but are not followed home.  Combat is what it can come to: any
casualty ratio, victory or not, any pool, within the bounds the branches of
`execute` keep (an encounter kills nobody and is always won; a defeat yields
nothing).  Guards on other components (team, travel, extensions, Citadel) only
restrict who may send an instruction, which the model leaves open, except for
membership of the rally's team.  Heroes and buffs are in `HeroCustody`; events are left out.

An address is that of a creator and a number, and may be used again: `create` takes any
number without an account (create.rs:105, 365), and the command line takes the lowest
(`cli/lib/commands/rally.ts:1032`).  A participant's address is made of the rally's and the
player's, so the accounts that an earlier rally left behind are the new one's from its
first moment: its members do not count in it, can not join it, may leave it, may be given
to `execute`, and get home when it ends.  `Create` says so, and `adopted` remembers them.

`ArmyCustody` is the abstract specification: while a rally musters, players hand it
armies; a muster ends with at most one battle, fought by armies the rally holds; an army is
handed back once, less its fallen.  A rally may muster again, and then still holds the
armies it has not handed back.  `Rally!ImplementsCustody` says that `Rally` implements it
under the mapping in the `INSTANCE` (an army is in custody while its participant
account is open).

`Reinforcement` models every instruction of `processor/reinforcement`, and what an
attack does to a player with allies.

| model | code |
|---|---|
| `account[<<s, d>>]` | the `ReinforcementAccount` at the address made of sender and destination; status `"None"`: no account |
| `allies[d]` | the aggregates of the destination's team section: `reinforcement_def_1..3` (`left`), `reinforcement_original_units`, `reinforcement_source_count` |
| `units`, `wounded`, `gems` | the sender's and destination's own units per tier, the estates' wounded pools, gems |
| `Send`, `ProcessArrival`, `Relieve`, `ProcessReturn` | the handlers of the same names; `EstateAccounts` is what a caller of `process_return` gives for the sender's estate, which is always asked for (process_return.rs:55) |
| `RecallTraveling`, `RecallActive` | the two branches of `recall` |
| `SpeedupTraveling`, `SpeedupReturning` | the two branches of `speedup` |
| `Defend`, `Attacked` | step 11 of `combat/attack_player.rs`: what is left of each tier is divided between the defender and the allies, floor to the defender |

Here the unit types matter, since the survival ratio is taken of their sum and the
share is subtracted from each: an army is a function of `Tiers`.  Weapons follow the
same arithmetic and are left out, heroes are in `HeroCustody`; the loss in a battle is any loss.  The
number of sources is a byte in the program and a natural number here: a destination has
at most the members of its team as sources, 50 (constants.rs), so the byte is never full.

`Team` models every instruction of `processor/team` for one team, except `set_motd`,
which only changes a text.

| model | code |
|---|---|
| `team` | the `TeamAccount` (state/team.rs:13) with its treasury, settings and `membership_epoch`; `disbanded` stands for the closed account |
| `slot[i]` | the `TeamMemberSlot` of index `i`: player, rank, what was withdrawn today |
| `members`, `team_slot_index` | the team address and the slot index in the players' own accounts |
| `invite[p]`, `request[p]` | the `TeamInviteAccount` (its expiry, 0: none) and the `TreasuryRequest` of `p` |
| `Join`, `AcceptInvite`, `Leave`, `Kick`, `Promote`, ... | the handlers of the same names; `Withdraw` to `CancelRequest` are the `treasury_*` handlers |

An instruction that acts for a member names the member's slot and checks that it is the
signer's, so here the slot is the actor.  Where a handler closes an account and then
returns an error (an expired request, treasury_execute_request.rs:119) the closing is
rolled back: such a call is not a step.

`Castle` models one castle: `processor/castle` without rewards, captured weapons, prices
and heroes (for which see `HeroCustody`), and the castle branch of `rally/execute.rs`.

| model | code |
|---|---|
| `castle` | the `CastleAccount` (state/castle.rs:191); `Nobody` is the null address |
| `garrison[p]` | the `GarrisonContributionAccount` of `p`; `open = FALSE`: no account |
| `court[i]` | the holder in the `CourtPositionAccount` of position `i` |
| `registry[p]` | how many entries the `KingRegistryAccount` of `p` has that name this castle (`"here"`) and others (`"elsewhere"`): `finalize_transition` and `force_remove_king` list and unlist by numbers that the caller gives and nobody compares with the castle |
| `other_castle` | what the same handlers do to the registry for other castles |
| `units[p]`, `team_of[p]` | the player's defensive units at home, and team address |
| one action per handler, under its name | `attack_castle` is given the contributions the transaction names, how many fall of all of them (which decides about the conquest) and which of them fall (computed account by account) |
| `change_team` | whatever `processor/team` does to a player's team address |

`HeroCustody` models where the heroes are: every instruction that mints, burns, moves,
names or levels one, in `processor/hero`, `sanctuary`, `rally`, `reinforcement`, `castle`,
`expedition`, `dungeon` and `travel`.

| model | code |
|---|---|
| `holder[h]` | the owner of the NFT, kept by MPL Core: a wallet, a player's account, or an account of the program that holds NFTs itself |
| `level[h]` | the NFT's attribute Level |
| `player[p]` | of `HeroesSection` and the player: the slots with their location bonus, the cached buffs, the meditating slot, the city |
| `party[p][r]` | `RallyParticipant.hero`; `counted`: the rally is in `current_rallies_joined` |
| `ally[p][a]` | the hero of a `ReinforcementAccount` |
| `escrow[p][e]` | the hero of the garrison contribution, the expedition, the dungeon run |
| `supply[t]`, `receipts` | `supply_cap` and `minted_count` of the template, the `HeroMintReceipt` accounts |
| `GarrisonReturn` | what `leave_garrison`, `garrison_cleanup` and `relieve_garrison` do alike |
| `expedition_end`, `dungeon_leave` | claim and abort; flee and claim |
| `trade` | a transfer by the owner, outside the program |
| `Accounts`, `Bears` | what may be read as a template: rallies and arrivals ask of the account no more than the number of the hero's template |
| `travel` | an arrival, in the same city after a cancelled journey (intercity_cancel.rs:273); `Readings` is which heroes the caller names, and with which accounts |

A template has one buff, given by its value at each level; armies, timers, prices and the
course of a rally or an expedition are left out or in the modules above.  The blessed hero,
the defensive slot and the stamps of abilities are left out: none of these instructions
decides by them.  Each handler's own idea of where a hero comes from and goes to, and of
what it does to the buffs, is kept: `lock`, rallies and garrisons seat and unseat a hero
with its buffs (`Seated`, `Unseated`; where the account read for the template is the
caller's choice, `SeatedAs`, `UnseatedAs`), reinforcements and expeditions touch only the slot.

`Event` models every instruction of `processor/event`, and the scoring that other
instructions call.

| model | code |
|---|---|
| `event[e]` | the `EventAccount` (state/event.rs:21) of id `e`; `terms` is what the DAO announced; status `"none"`: no account |
| `participation[e][p]` | the `EventParticipation` of `p`; `open = FALSE`: no account |
| `current_event[p]` | the field of the player's account, in which 0 stands for none |
| `paid[e][p]` | what `p` was paid from the pool: locked NOVI, gems, cash or tokens |
| `Create`, `Join`, `Leave`, `Finalize`, `ClaimPrize` | the handlers of the same names |
| `Score` | `update_event_score` for one side of a fight, purchase or collection; with `counts = FALSE` the type of action is not that of the event, and the call only activates it |
| `HighestSwap`, `LowestSwap`, `InsertionPoint` | where the loops of `update_leaderboard` stop; `Raised` and `Lowered` are the boards they leave |

Ranks count from 1.  The product that makes a share must fit a u64 or the claim is refused
(`apply_bp`), the product with the bonus saturates.  Who may join or claim (level,
reputation, subscription, age of the account, attacks, transfers) is left open.  The status
cancelled is in the code, but no instruction sets it.

`WarTableThread` models how the web client sees one thread of the war table: the
messages on the chain, the three ways they come (`Deliver`: the subscription, in any order
or never; `ApplyPage`, `LoadOlder`: raw pages; `ApplyReconcile`: what the SDK's
`foldThread` has made of the last transactions, when the answer is late, too), and the
store that folds them, its operators under the names of the functions of `war-table.ts`
(`ingest`, `mergeThreadMessages`, `seedReactionRecords`, ...).

| model | code |
|---|---|
| `chain` | the envelopes the program has logged; an id is a place in it |
| `inflight`, `reads` | notifications being decrypted, answers not yet applied |
| `thread` | the `ThreadEntry` (war-table.ts:108): bubbles, reaction records, pending tombstones, pin |
| `posts` | the reader's own sends: `Post` puts an echo into the store, `Land` the message on the chain, `Fail` rolls back |
| `pinsSeen` | history, for one property |

Every action is synchronous in the code from the end of its `await` to the last `set`.
Reaction records are kept at places, in their order (`Push`, `Without`), and a batch or the
rebuilt records of a reconcile are folds over a set with the last member picked first
(`LastIn`, `LastSeeded`): the code's loops over sorted lists, in a form that can be
proved about.  A read is a whole stretch of
the thread: the SDK skips a transaction that the node lists but does not give, or gives
without its logs (wartable.ts:746, 775), and such reads with holes are not modelled.
`ReconcileCatchesUp` therefore speaks of complete reads only; the other properties speak of
what was read, whatever it was, but are checked for whole stretches.  `WarTableAssumption` says that limits are sizes, that a text is not empty and
that what the chain holds at the start was posted bit by bit (`Postable`).

`Sums` adds up a function over a finite set; `SumsProofs` proves its laws (`SumEmpty`,
`SumNat`, `SumSplit`, `SumAgree`, `SumChange`, `SumAdd`, `SumMono`, `SumScale`,
`SumSupport`, `SumMember`, `SumSwap`) and those of products and floors that shares need
(`ProductNat`, `FlooredQuotient`, `BasisPointsFit`).  The modules `MC*` give TLC its instances.

## Runs

| run | instance | shows |
|---|---|---|
| `rally_three` | one rally, three players: at the point, one minute and two minutes away; recruiting for one minute, so that the third is late; one better armed than manned, one without an estate; four units each and armies of three, so that a member has but one army out; the address is used again | `TypeOK`, `HeadcountsServe`, `OnlyMarchersFought`, `LootComesFromPools`, `ImplementsCustody` |
| `rally_live` | two rallies that share a member, who has no estate; one leader two minutes away, a gem each to hurry; targets that are a castle and an encounter and may cease to be attackable; battles over the castle that kill everybody; under `FairSpec` | `JoinedCounter`, `ArmiesComeHome`, `ViableRallyExecutes` |
| `rally_left_behind` | as `rally_three`, recruiting for one minute or three, armies of one or three | violates `NoOneLeftBehind` |
| `reinforcement_safe` | two allies of one player, armies of different tiers, one ally without an estate, a gem each; three sends, two battles; under `FairSpec` | `TypeOK`, `OriginalsMatch`, `UnitsAccountedFor`, `PeaceKeepsArmies`, `JourneysEnd` |
| `reinforcement_nothing` | as `reinforcement_safe` | violates `NoUnitsFromNothing` |
| `team_safe` | three players, a team of up to two, a founder with money; lenient or tight treasury settings; two days | `TypeOK`, `MembershipSound`, `KeyRotates`, `MoneyConserved`, `PaymentsOnTerms`, `DailyCapHolds` |
| `castle_safe` | two players of one team or none, caps of one and two, one court position; one castle per king, and one of the players holds another; under `FairSpec` | `TypeOK`, `HeadcountsMatch`, `ThroneSound`, `KeyRotates`, `PeaceKeepsArmies`, `TransitionsEnd` |
| `hero_places` | three heroes of one player with two slots, a rally, a reinforcement, a garrison, an expedition, a dungeon run | `EscrowsHold`, `PlacesKept` |
| `hero_buffs` | two heroes, one at home in one of two cities and one in both, two levels, an account with the number of the first one's template, a cache that overflows | `TypeOK`, `BuffsStayInSync` |
| `hero_trade` | two players, two heroes of one template, caps of one and two | `SupplyCounts`, `OwnersTrade` |
| `event_safe` | three players, events 0 and 1 with a window of one tick; a prize of 5 that adds up, or of 20 that takes the best; a board of two places, of 60 and 40 in 100; scores of 0, 40000 and 70000 under a limit of 100000 | `LeaderboardTrue`, `PrizesInOrder` |
| `war_table_safe` | a reader and another member; a thread of up to four messages, one echo, pages of two, reconciles of three | `TypeOK`, `ChipsAreCurrent`, `EchoesSettle`, `LatestPinWins`, `DeletedStaysDeleted`, `ReconcileCatchesUp` |

Properties about one subject are one formula, the conjunction of parts that have names of
their own: `HeadcountsServe` is `GatheringHeadcount` (what the rally counts while it
gathers are the armies that stay) and `ReturnCanComplete` (the two counters can meet);
`LeaderboardTrue` is `BoardSorted`, `BoardCurrent` and `BoardBest` of each event,
`PrizesInOrder` is `OneEventAtATime`, `PaidOnce`, `PoolAccounted` and `SharesCovered`;
`MembershipSound` is `RosterMatches`, `OneLeader` and `DisbandedIsOver`; `ThroneSound` is
`ThroneMatchesStatus` and `SeatsMatchThrone`; `EchoesSettle` is
`NeverBoth`, `WrittenStays` and `EchoCountedOnce`; `DeletedStaysDeleted` is
`EarlyTombstonesHold` and, of steps, `HiddenStep`; `PlacesKept` is `OnlyExpeditionsTear`
and `OnlyFullSlotsPark`.

**Bounds.**  `MaxTime` stops the clock.  In its last state every deadline counts as
past (`Reached`), so an action that waits for an instant is never disabled merely
because the model ran out of time.  The last instant stands for all later ones, so
`Create` is not taken in it.  Five minutes are enough for a rally to gather,
fight, walk home and close, with leave and rejoin on the way, and for a second rally at its
address to fight with an army of the first among its participants.  `U8Max` stands for 255
and `U32Max` for the largest 32 bit number, and both are small, so that the saturation of
`returned_count` and of the wounded pool and the lost bits of `cas as u32` happen.  Two
casualty ratios and unequal arms give shares
that round; a ratio of 70 in 100 with arms of 4 gives a share larger than the army.  In
`rally_live` nobody survives a battle over the castle, so the member without an estate meets
process_return.rs:361, and an encounter, which kills nobody, lets that member home.
`MaxSends` and `MaxBattles` bound what else would repeat
for ever: three armies and two battles are the least with which an army can fall, be
followed by another, and both be taken home before and after a second battle.  Symmetry
is not used: players differ in where they live.
In `Team`, `MaxEpoch`, `MaxPending` and `MaxDrawn` bound how often access is lost, what
is pending at once and what is drawn on a day; a day is two ticks long and the
clock goes to 3, so that allowances, cooldowns and requests run out.  The two players who did not found the team are interchangeable
(`SYMMETRY`; the properties of these runs are safety properties).  In `Castle`, the key's
epoch stops at 1, the clock at 2: a contest, a shield and a transition take one tick each, so
that a castle is claimed, conquered, handed over and conquered again, and a king who was
removed may claim it back.  One castle per king
(5 in the program) is the least cap, and one entry fills a registry.  An army
of ten against contributions of none or ten meets the threshold of a tenth of the
garrison, and `EpochMax` stands for the largest 32 bit number, so the saturated counter
is met.  Nothing in `Castle` stops but the clock, and deadlock is checked.  In
`war_table_safe` the chain starts with two or three messages, which a page of two misses
in part, and `PostsOrComesBack` keeps apart the two long stories of an instance: the
reader sends something, or leaves and opens the thread again.
In `HeroCustody`, one slot more or fewer than heroes is what decides where a hero goes on its
return, so two slots and three heroes stand for three and many; `BuffMax` is small and stands
for 65535, so that sums and single buffs saturate; a bonus of one half rounds.  Growth is
`Flat` where buffs are not in question.  One account that is not the template but bears its
number is enough for a hero to bring one worth and take another away.  A player has one rally, one reinforcement and one of
each escrow at a time, enough for a hero to be named twice.
In `Event`, three players and two places are the least with which a full board turns
somebody away and somebody falls off it; two scores of 70000 saturate, two of 40000 do not,
zeros and equals tie.  A pool of 5 does not divide by 60 and 40 in 100; with a bonus of a
half the two shares pass it; 20 times 6000 passes the limit of 100000, so that claim is
refused.  Players are interchangeable (`SYMMETRY`), the count of participants saturates at 2.
Deadlock is not checked in the other runs: when every event is over, every rally is closed, every army home, a
team disbanded, the thread full or every hero burned, and the clock stands, the model rightly
stops.

**Fairness.**  Time passes (`WF(Tick)`).  Of rallies nothing else is assumed: nobody has to
execute one, and the repository's cranks (`apps/web/src/app/api/cron/rallies`,
`cli/lib/cranks/rallies.ts`) close rallies but leave `process_return` to the members on
purpose (cranks/rallies.ts:12).  So the two liveness properties of `Rally` are conditional:
`ArmiesComeHome` says that, *if* somebody keeps asking for an army's return
(`WF(ProcessReturn)`), an army that is free to go home gets there, unless its rally's account
is closed or its owner has losses and no estate; `ViableRallyExecutes` that, if somebody keeps
executing, a viable rally that is due is fought, unless members leave or the target is not to
be attacked.  They show that the way is never blocked, and name what does block it.

The arrival and the return of a reinforcement are sent by a scheduled job
(`apps/web/src/app/api/cron/reinforcements/route.ts`), which gives the estate account of the
sender: weak fairness is assumed of `ProcessArrival` and of `ProcessReturn` with that
account only, and `JourneysEnd` promises the end of a journey home only to senders who have
an estate.  Of a castle in transition the crank (`cli/lib/cranks/castles.ts`) closes the
contributions and positions and finalizes it with the castle's own numbers (`Crank`).
Nothing obliges a player to create, join, leave,
cancel, close, send, recall, relieve, attack, upgrade or pay.  A player of the old team may
join the garrison of a castle in transition, be sent home by the crank and join again, for
ever, and a new king whose registry is full can not be enthroned; `TransitionsEnd` is
therefore stated for behaviours in which joining stops, and ends with either.
`HeroCustody`, `Team`, `Event` and `WarTableThread` have no liveness property: every step of
the first three is somebody's choice, a hero's return from a rally with its army included,
and of the last that of a network that promises nothing.

## What the runs found

- `rally_left_behind`.  `close_rally` promises that all participants have returned; the
  comparison it makes does not say so, since a leaver is taken off
  `participant_count` when leaving and added to `returned_count` when home.  After one
  leaver the account of a rally that has fought or was called off can be closed with
  an army out, and that army can not be brought home while there is no account at the
  rally's address (`process_return` needs one).  Only the leader can open the address
  again, by a rally with the same number; it adopts the army and lets it home at its end.
  `ArmiesComeHome` therefore excepts closed rallies.
- `reinforcement_nothing`.  `process_return` says that it returns survivors.  The
  survival ratio is one for all tiers, the share is subtracted tier by tier and
  saturates: units of a tier that was wiped out come home and are subtracted from
  nothing, once another army has raised the ratio.  `UnitsAccountedFor` is what does
  hold: a recall never takes more than all that is left there.

Met while modelling, and not made a run.

*Rallies and reinforcements.*  `leave` says that a leaver will not take part (leave.rs:167);
`execute` takes any participant accounts that have arrived, a leaver's too.
`docs/state-machines/reinforcement.md` has recall and relieve record the fallen as wounded;
`relieve` does not.  `rally.md` frees a leaver's
`current_rallies_joined` at once, the code does when the army is home; `rally.md` lets `cancel_rally` only before
`gather_at`, the code also later while the rally is not viable; `rally.md` draws
`Cancelled -> Completed`, which the code never does; the comment at cancel.rs:158 names
`included_in_march` as what `process_return` tests, it tests the status and `is_leader`;
a leader whose own army would be late can be sent home by anybody, after which nobody
can cancel the rally; room for reinforcements counts only those that have arrived; the
hero bonus of an ally stays after the ally left.

A rally at an address used again inherits what the earlier one left: a stray's losses and
loot are of a battle the new rally never fought; the loot is paid only if the *new* rally
wins (process_return.rs asks `attacker_won` of the account at the address), and is lost
otherwise; and a stray who leaves takes a member off a count that never had it.
`OnlyMarchersFought`, `GatheringHeadcount` and `ArmyCustody` say what holds nevertheless.
The grace hour of `encounter/cleanup.rs:24` is meant to let rallies finish, but the
recruiting period a creator asks for has no upper bound (create.rs:139): once the target is
gone `execute` fails at `require_owner` for good, and past the deadline a viable rally can
not be cancelled either (cancel.rs:91); its members can leave, its leader's army waits until
they have.  `process_return` of a reinforcement asks for an estate account of the program
whether or not there are wounded (process_return.rs:55), and the job and every client give
the sender's (route.ts:40): a sender without an estate gets the army home only by naming
some other account of the program, and with wounded not at all.

*Heroes.*  Anybody may bring an army home, says the comment; when the slots are full the
hero goes to the wallet by a transfer that only the owner can pay for
(rally/process_return.rs:525).  A claim or an abort of an expedition closes its account
whether or not the hero's accounts were passed; then the NFT's holder is an address without
an account (expedition/claim.rs:442).  `expedition/start` takes any hero the player's account
holds, also one that a rally or a reinforcement names and that comes back to its slot
meanwhile; `PlacesKept` shows that nothing else sends a hero that is away.  A hero
returned from a reinforcement to full slots is not "still unlocked": the player's account
holds it and nothing names it; `PlacesKept` shows that nothing else does this.  The
meditation is that of a slot: its hero may leave, and the next one in the slot is paid.
Levels raise the cached buffs without the bonus with which `unlock` takes them away;
`BuffsStayInSync` names all the ways in which the cache gets out of step.  The first cap of
a template without one may be less than was minted.  A hero that a rally or a reinforcement names can be taken by an expedition, brought
to the wallet and burned; a burned asset has no attributes to read, so the rally's army can
then not come home at all.  `relieve_garrison` does not compare the wallet that the hero goes to
with the owner's (`OwnersTrade` has it as its exception).  Travelling without the hero accounts
leaves the buffs of the last city.  A cancelled journey ends where it began
(intercity_cancel.rs:273) and computes the buffs anew there as well, from the heroes the
caller names (intercity_complete.rs:203).  Rallies and arrivals compare of the account they
read as a template no more than the template's number (rally/create.rs:318, join.rs:286,
process_return.rs:401, travel/intercity_complete.rs:234, intercity_teleport.rs:378), neither
its owner nor its address; `BuffsStayInSync` has both among its exceptions.  A meditating hero is not left out of the buffs, as
`docs/onchain/04-systems/sanctuary.md` has it.

*Teams.*  A comment explains that an approver must outrank the requester, lest two members of
rank 1 approve each other's withdrawals without the leader.  The rank compared is that of
the moment, and a request outlives its owner's membership: who asked at rank 1, left and
came back at the bottom can be seconded by anybody above.  A handler that finds a request expired, or its owner gone, closes the account and
then returns an error, so the account stays and blocks a new one until it is cancelled.
What a member drew today is in the slot: who leaves and comes back has a fresh allowance.

*Castles.*  `finalize_transition` and `force_remove_king` take the city's and the castle's
numbers from the transaction and never compare them with the castle (finalize_transition.rs:60,
force_remove_king.rs:68), though they list and unlist it by them: that a castle is in the
registry of its king does not hold, and is not claimed.  The program itself reads of a
registry only how many entries it has, and `TypeOK` bounds that number.  The first upgrade of the chambers sets `max_court` to 1, where a new Stronghold
has 3 (complete_upgrade.rs:71, create_castle.rs:257), below the number of positions that may
be held: invariant 4 of `docs/state-machines/kings_castle.md` does not hold.  A castle
without a team has the null address, and so have players without a team: they may join the
garrison of a vacant castle (join_garrison.rs:109), which then can not be claimed until they
leave.  Whether a garrison is defeated is judged by the contributions the attack names; and
the fallen of the third tier are computed from the survivors of the first two instead of the
casualties already dealt (attack_castle.rs:452).  A rally's attack leaves the garrison's
units as they were, and both kinds of attack take the captured weapons from nobody.  Loot
can be claimed once per stay: the flag is never reset (claim_garrison_loot.rs:109).
Leaving drops loot that was not claimed; the cleanup returns it.  The rewards account of an
earlier stay goes on counting when its cleanup is left out (against invariant 10).

*Events.*  An event may have the id 0, and one of the tests has it
(tests/e2e/22-lifecycle.test.ts:209), but 0 in `current_event` means none: its players may
join a second event beside it, and claiming the prize of the first clears the mark of the
second (claim_prize.rs:342), which then neither scores nor can be left; attacks on
encounters never score for it (attack_encounter.rs:708).  `OneEventAtATime` has this
as its exception.  The Treasury's bonus is paid from the pool the shares come from: after a
bonus the last winners may find too little left (claim_prize.rs:215), and since winners may
not leave (leave.rs:102), they are in that event for good; so are winners whose share is
zero, does not fit, or who do not meet the requirements.  `finalize` says that an event
nobody activated should be cancelled by the DAO (finalize.rs:64); there is no such
instruction, and an event without `auto_activate` never becomes active at all.  The comment
at claim_prize.rs:33 has other weights than `PRIZE_DISTRIBUTION` (constants.rs:185).

*The war table's store* (line numbers in `war-table.ts`).  An echo stays beside its copy when
the copy comes already deleted (180).  A failed un-react is not taken back, and the reconcile
does not correct it (484).  A reaction whose record was rebuilt from a chip is counted again
when its raw copy comes (233); the rebuilding gives the reader's own reaction id to the chip's
first wallet, whoever that is (347).  A reconcile forgets which pin was the latest, and an
older one may then win (116); after an echo of a pin any pin from the chain does (258).  One
copy from the chain takes away all equal echoes, where the comment says at most one (211).  A
read made before a deletion shows the message again when it is applied afterwards (17).  The
"full pin history" of a reconcile is that of its last transactions (603).  The tombstone of a
pin that comes before the pin is ignored.  `subscribeThread` numbers only messages within a
transaction, `readThreadWithSystem` everything the program logged there (wartable.ts:1029,
1147).  The properties name these as their exceptions where they touch them.

## Proofs

`RallyProofs` proves, for every value of the constants that satisfies
`RallyAssumption`, `TypeCorrect == Spec => []TypeOK`.  `TypeOK` is inductive as it
stands, and so is its part `AccountsOK`, from which the rest of the module starts: it says,
besides the shapes, that the two counters that are compared fit a byte,
that an account that is not open is empty, that an open one holds an army and that no
journey starts in the future, which the durations `now - started` need to be natural
numbers.  There is one lemma per action.  A record update whose new values are
conditional is first given a name and a type (`Recounted`, `Enlisted`, `Fought`, ...),
then the action is shown to be that update.

`RallyProofs` goes on with `MarchersCorrect == Spec =>
[]OnlyMarchersFought` and `CustodyImplemented == Spec => ImplementsCustody`, the
refinement.  Neither property is inductive: that an early leaver was not in the march
needs that only a rally that fought has marchers, and that an army comes home less its
fallen needs that nobody loses more than was committed and that losses are those of a
battle.  `MarchInv` adds this, as `TruthfulAccount` of each participant account, whose *standing* is
the status of its rally, or that it is adopted; a leader's account is never adopted, since
`create` finds none at its address.  With `AccountsOK` it is inductive.  The refinement
then has one lemma for each step of `ArmyCustody` (`CustodyMuster` for create, `CustodyCommit` for join,
`CustodyCancel`, `CustodyExecute`, `CustodyRelease`; `MusterEnds` for what the last
but one have in common), and `StepUntouched` for what moves
nobody in or out: leaving, starting home, the speedups, and closing the account of a
rally.

`ReinforcementProofs` proves, from `ReinforcementAssumption`, four theorems.
`TypeCorrect` as above.  `OriginalsCorrect == Spec => []OriginalsMatch`: `TypeOK /\
OriginalsMatch` is inductive; an arrival adds one army to the sum (`MatchArrival`), a
recall or relief takes one off before its account is overwritten (`MatchTakenHome`, where
`OriginalCovers` shows that the saturating subtractions do not saturate), any other step
leaves the armies that are there alone.  `UnitsConserved == Spec => UnitsAccountedFor`:
`ShareFits` bounds what goes home, since ratio times original is at most what is left,
share times 10000 at most units times ratio, and units at most the original, which is
where `OriginalsMatch` is needed; the other actions move units between home and road
(`RoadJoined`, `RoadLeft`, `HomeChange`), and a battle divides without adding
(`OwnShareBound`).  `PeaceKept == Spec => PeaceKeepsArmies`: the aggregate is kept by
tiers and its original size by armies, so that nothing is lost only if the double sum may
be taken in either order (`NothingLost`, from `SumSwap` and `OriginalsMatch`); then the
ratio is exactly 10000 (`ShareWhole`) and the subtraction of the whole army leaves the sum
of the others.  `Unhurt`, inductive with `TypeOK`, says that nobody has wounded before
setting out for home, which a relief, unlike a recall, does not set.

The second part of `RallyProofs` proves what counts accounts.  `CounterCorrect == Spec =>
[]JoinedCounter`: with `AccountsOK` it is inductive; a step that opens or closes an account
changes the set that is counted by one rally (`Counted`), and the saturating counter never
saturates since there are no more rallies than a byte holds.  `ReturnsComplete == Spec =>
[]ReturnCanComplete`: who comes home leaves the armies that are out and enters
`returned_count`, so their sum covers `participant_count`; adopted accounts only add to them.
`AccountsOK /\ ReturnCanComplete` is inductive.  `HeadcountCorrect == Spec =>
[]GatheringHeadcount`: `participant_count` and `total_units` are the number and the sum of
the armies that stay, and at most these when some are adopted; one lemma per
instruction, with `SumsProofs` for the sums.  `HeadcountsServed` is the two together, the
property of the run.  `MovesLawful` says how the status of a rally moves, and from it
`StillNobodyMarches`: `Execute` would take a rally that is `Marching`, but no instruction
makes it one.

It ends with `LootConserved == Spec => LootComesFromPools`.  `SharesFit` is the
arithmetic: shares in basis points add up to at most 10000, so the floors of the pool times
them add up to at most the pool (`BasisPointsFit` of `SumsProofs`, which `EventProofs` uses
too).  `LootStep` reduces a step to the one rally it touches,
and then `LootExecute` adds no more than the pool and `LootFinish` moves what an army
brings home.  It needs `NobodyMarches`, since the pools counted are those of rallies
that were gathering.

`TeamProofs` proves, from `TeamAssumption`, type correctness and the five other properties of
`team_safe`.  `TypeCorrect` is inductive by itself.  `RosterCorrect`, `LeaderCorrect`,
`DisbandCorrect` and `KeyRotation` share `IInv == TypeOK /\ RosterMatches /\ OneLeader /\
DisbandedIsOver /\ EpochsPast`: that a counter is enough to disband a team needs that it
counts the slots and that the leader is in one of them; that leadership is in one slot needs
that slots and players name each other; and `EpochsPast` says that no slot's epoch is in the
future; `MembershipCorrect` is the conjunction the run checks.  `MoneyKept`, `PaymentTerms` and `DailyCap` go through the actions that pay.

`CastleProofs` proves, from `CastleAssumption`, the safety properties of `castle_safe`, the throne's
parts one by one and together (`ThroneSoundAlways`).
Types first: a registry changes one entry at a time (`OneEntry`), and an entry is added only
where there is room, so the count stays within the cap whatever castle the entry names
(`ListedOK`, `UnlistedOK`, `DethronedOK`).
`IInv == TypeOK /\ HeadcountsMatch /\ ThroneMatchesStatus /\ SeatsMatchThrone /\
ClosedIsEmpty` is inductive.  The point is `FinalizeKeeps`: the two counts
are zero, so by `HeadcountsMatch` there is no account left whose mark or seat could belong to
the new king; joining counts up under the cap and the cap changes only with an empty
garrison.  `KeyRotation` and `ArmiesKept` follow action by action, with `ClosedIsEmpty` for
who joins (an address without an account holds no units).

`HeroCustodyProofs` proves, from `HeroAssumption`, every property of the three
`hero_` runs.  `TypeCorrect` is inductive by itself; that a recomputed bonus is a natural
number and a buff at most `BuffMax` follows operator by operator, whatever account is read (`SeatedAsFields`,
`UnseatedAsFields`, `RaisedFields`, `RecomputedType`).

`StepMoves` says what all instructions have in common for the NFTs: a step mints or burns
one, lets all rest, or passes one between wallet and account (`Passes`), into an escrow
(`Enters`) or out of one (`Leaves`).  From these `EscrowsCorrect == Spec => []EscrowsHold`
(inductive with `TypeOK`), `SupplyCorrect == Spec => []SupplyCounts` (a transfer kills
nobody, and `minted_count` is at least the one who is burned, so the saturating subtraction
is exact) and `OwnersTradeKept == Spec => OwnersTrade`.

`PlacesStay == Spec => PlacesKept` treats the four kinds of places that can name a hero as
*spots*, with a home for the NFT of each.  `OnePlaceMeans` turns the sum of four
cardinalities into what it means: every spot that names the hero is its home and the only
one.  An instruction is then a `Move` of one hero from a spot or none to a spot or none,
and `Settles` says which moves are in order; there is one lemma per instruction
(`LockMoves`, `JoinMoves`, `AllyReturnMoves`, ...), and two moves that are not in order,
which are the exceptions the property names (`Tears`, `Parks`).  One fact is needed
beside `EscrowsHold`: a rally's account that is not open names no hero (`ClosedNameNone`,
inductive), so that joining does not overwrite one.

`BuffsSync == Spec => BuffsStayInSync` is about sums: what a slot brings changes in one
slot at a time (`TotalChange`).  A hero that comes adds its worth, or the cache saturates
(`SyncSeated`); one that leaves takes away no more than it brought, so the subtraction does
not saturate (`SyncUnseated`); an arrival that names every hero with its own template computes
the sum itself (`ArrivedInSync`), any other is an exception; a level raises the buffs by the difference of two growths,
which is the difference of two worths only without a bonus and in one slot, and otherwise
up to the end of the u16 (`SyncRaised`).  `TwoPlaces` is where `OnePlace` comes in: a hero
in the slots of two players, or in a slot while a wallet holds it, gains levels for one of
them only.

`EventProofs` proves, from `EventAssumption`, both properties of `event_safe`, and
`TypeCorrect == Spec => []TypeOK`.

*The board.*  The model says where the loops of `update_leaderboard` stop by `CHOOSE`, so it
is first shown that there is such a place and what it is (`LeastMember`, `HighestSwapIs`,
`InsertionPointIs`).  Rising past lower entries and shifting the rest down is one operation
of sequences: `RaisedInOrder` says of any board that is sorted but for one place that it is
sorted after it and holds the same entries but for the one replaced.  Then a listed player
who scores (`ListedScore`), and one who is not listed and is inserted, takes the last place
or is turned away (`UnlistedScore`), keep `BoardInv`, with `GapFilled` for what they have in
common.  A score that falls does not occur, since scores only rise (`NewScoreFits`): the
branch that moves an entry down is never taken.

*The pool.*  `Covered` compares the shares of those who wait with what is left and the extras
of those who were served.  `SharesFitPrize` starts it (the floors of basis points that add
up to 10000 fit into the prize), `PaidCovered` carries it over a claim, with the laws of
`SumsProofs`.

*The invariant.*  `EventInv` says of one event, its participations and payments, besides the
properties, that nothing is paid and nobody listed has left before the event is finalized,
that who takes no part has no score, and that an event which was not announced has no
participants.  Without them somebody could leave and join again under an old entry, and
`BoardCurrent` would fail.
With `TypeOK`, `ScoresFit` (additions saturate) and `OneEventAtATime` it is inductive:
`IInv`.  A step touches one event (`MovesKeeps`); there is one lemma per action, and
`SeatFreed` for what a leave and a claim do to the player's seat.  `LeaderboardCorrect` and
`PrizesCorrect` follow.

`WarTableProofs` proves, from `WarTableAssumption`, every property of `war_table_safe`, for
threads, pages, batches and numbers of echoes of any size.

*The folds.*  `MapThenFoldSet` is defined by a function that is chosen, so it is shown
that the function exists (`FoldExists`) and, once, that a fold does its last member after
the others (`FoldUnfolds`).  The induction over a batch is one over the subsets of a finite
set, stated with the set of the good ones (`SubsetInduction` of `SumsProofs`, from the
well-foundedness of strict subsets).  What one `ingest` does is said by kind
(`IngestStep`: what is shown, awaited, recorded, pinned, counted), and `BatchIngested`
and `BatchKept` carry it over a batch; `UnionOfSeeds` does the same for the records that a
reconcile rebuilds.

*The invariant.*  None of the properties is inductive.  `StoreStaysInStep == Spec =>
[]WarTableInv` is, and `TypeCorrect`, `ChipsCurrent`, `EchoesSettled`, `LatestPin` follow
from it.  It says of the chain that whatever names a message names an earlier one of the
right kind (`WorldFine`), and of the store (`StoreInv`):

- `ThreadFine`: every bubble, record and pin is of a message of the chain or of an
  echo of the reader's, and ids are apart;
- `CurrentBut`, `Early`, `Settled`: chips, early tombstones, and an echo beside its copy;
- `PinOf`: `maxPinId` is the latest pin seen, and its target is shown unless it was
  deleted.  The tombstone of a pin that comes before the pin is ignored, and the latest
  pin of a session is safe from the reader only because nobody is offered to delete a
  pin (`PinsStay`);
- `Counted`: of a message without rebuilt records, the reader's own records have different
  ids, echoes come after the others, and there are no more of echoes and of records of what
  the reader posted than there were posts.  Echoes must come last because a copy from the
  chain takes all echoes away but only one post has landed;
- `MineKnown`: a rebuilt record may carry the reader's reaction id under another's name,
  and then the reader's own reaction is recorded too, so that the mix-up cannot hide a
  reaction that `ReconcileCatchesUp` does not except.

The two action properties follow step by step: `DeletedStays` from what a batch shows
(a bubble is bare only when the batch brings it bare), `ReconcileCaughtUp` from the merge
of a reconcile, in which nobody who reacted is left out, for their record is among the
rebuilt, or one of the store's stands for it.

Every safety property the passing runs check is thus a theorem.  Out of the prover's
reach, and left to TLC, are the liveness properties (`ArmiesComeHome`,
`ViableRallyExecutes`, `JourneysEnd`, `TransitionsEnd`), and what a
recursive definition computes for every input (sums and folds are used through laws, which
are proved).

## Plan

1. The rewards and the loot of a castle, and the castle as the target of a `Rally`.
2. `Allies`: rallies and reinforcements over one player's units, composed.
3. `Vesting`: the two steps of a withdrawal of reserved NOVI.
4. Arena: seasons, challenges, loadouts, and rewards claimed once.

## Not modelled

Initialization, single-player timers, pricing, the client's encoding of instructions and
the rest of the web application, for the reasons `PROJECT.json` gives at each component.
The war table's program keeps no state: what it checks is `KeyHolders` of `Castle` and
`membership_epoch` of `Team`.  Terrain, rendering and sound (`terrain-builder`,
`components/world`) draw what the accounts say and decide nothing.

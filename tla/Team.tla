-------------------------------- MODULE Team --------------------------------
(***************************************************************************)
(* One team: who is in it and at which rank, and its treasury.  One action *)
(* per instruction of programs/novus_mundus/src/processor/team, except     *)
(* set_motd, which only changes a text.                                    *)
(*                                                                         *)
(* An instruction that acts for a member names the member's slot account   *)
(* and checks that it is the signer's; here the slot stands for both.  An  *)
(* instruction that ends in an error changes nothing, also where it has    *)
(* closed an account before: the transaction is rolled back.               *)
(*                                                                         *)
(* Abstractions.  Levels, extensions, the kingdom and the fee only         *)
(* restrict who may found or join.  A player in another team is one who    *)
(* does not join this one.                                                 *)
(***************************************************************************)
EXTENDS Integers, FiniteSets, Sums

CONSTANTS
    Players, Nobody,
    Founders,           \* players who can pay to create a team
    Slots,              \* slot indexes, from 0
    Caps,               \* capacities a leader's subscription tier may give
    InitCash,           \* InitCash[p]: cash on hand at the start
    Amounts,            \* of one deposit, withdrawal or request
    TreasurySettings,   \* the settings a leader may choose, the default among them
    DefaultSettings,
    InviteTimes,        \* lifetimes of an invitation
    RanksGiven,         \* ranks that promotions and demotions aim at
    DAY,                \* length of a day,
    REQUEST_LIFETIME,   \* and of a treasury request (7 days), in ticks
    MaxTime,            \* bound on the clock,
    MaxEpoch,           \* on the times somebody loses access,
    MaxPending,         \* on the invitations and requests pending at once,
    MaxDrawn            \* and on what a slot draws without a request on a day, for TLC

Ranks == 0 .. 4

ASSUME TeamAssumption ==
    /\ IsFiniteSet(Players) /\ Nobody \notin Players
    /\ Founders \subseteq Players
    /\ Slots \subseteq Nat /\ IsFiniteSet(Slots) /\ 0 \in Slots
    /\ Caps \subseteq Nat \ {0}
    /\ InitCash \in [Players -> Nat]
    /\ Amounts \subseteq Nat \ {0}
    /\ TreasurySettings \subseteq
          [instant_limit : [1 .. 4 -> Nat], daily_cap : [1 .. 4 -> Nat], cooldown : Nat \ {0}]
    /\ DefaultSettings \in TreasurySettings
    /\ InviteTimes \subseteq Nat \ {0}
    /\ RanksGiven \subseteq 1 .. 4
    /\ DAY \in Nat \ {0} /\ REQUEST_LIFETIME \in Nat 
    /\ MaxTime \in Nat /\ MaxEpoch \in Nat /\ MaxPending \in Nat
    /\ MaxDrawn \in Nat

VARIABLES
    now,                \* the Clock sysvar
    team,               \* the TeamAccount
    slot,               \* slot[i]: the TeamMemberSlot with index i
    members,            \* players whose team_address is this team
    team_slot_index,    \* team_slot_index[p]
    invite,             \* invite[p]: expires_at of the TeamInviteAccount of p, 0 without one
    request,            \* request[p]: the TreasuryRequest of p
    cash                \* cash[p]: cash_on_hand

vars == <<now, team, slot, members, team_slot_index, invite, request, cash>>
roster == <<slot, members, team_slot_index>>

TeamAccount ==
    [leader : Players \cup {Nobody}, disbanded : BOOLEAN, member_count : Nat,
     max_members : Nat, treasury : Nat, public : BOOLEAN,
     settings : TreasurySettings, membership_epoch : Nat]

NoTeam ==
    [leader |-> Nobody, disbanded |-> FALSE, member_count |-> 0, max_members |-> 0,
     treasury |-> 0, public |-> FALSE, settings |-> DefaultSettings, membership_epoch |-> 0]

TeamMemberSlot ==
    [player : Players \cup {Nobody}, rank : Ranks, joined_at_epoch : Nat,
     withdrawn_today : Nat, last_day : Nat]

NewSlot(p, rank, epoch) ==
    [player |-> p, rank |-> rank, joined_at_epoch |-> epoch,
     withdrawn_today |-> 0, last_day |-> 0]

NoSlot == NewSlot(Nobody, 4, 0)

TreasuryRequest ==
    [amount : Nat, created_at : Nat, executable_at : Nat]

NoRequest == [amount |-> 0, created_at |-> 0, executable_at |-> 0]

Pending == {p \in Players : invite[p] # 0} \cup {p \in Players : request[p] # NoRequest}

SatSub(m, n) == IF m > n THEN m - n ELSE 0

-----------------------------------------------------------------------------
(* Ranks and rights *)

role_permissions ==
    [r \in Ranks |->
        IF r <= 1 THEN {"INVITE", "KICK", "MOTD", "PROMOTE", "TREASURY", "SETTINGS"}
        ELSE IF r = 2 THEN {"INVITE", "KICK", "MOTD"} ELSE {}]

\* Slot i is that of a member of this team.
Member(i) == slot[i].player \in members

HasPermission(i, permission) == Member(i) /\ permission \in role_permissions[slot[i].rank]

HasTreasuryAccess(rank) ==
    /\ "TREASURY" \in role_permissions[rank]
    /\ rank # 0 => team.settings.instant_limit[rank] > 0 \/ team.settings.daily_cap[rank] > 0

\* A mutant of CanWithdrawInstant, without the daily cap.
OneAtATime(rank, amount, already) ==
    HasTreasuryAccess(rank) /\ (rank # 0 => amount <= team.settings.instant_limit[rank])

\* The leader's limits are the largest u64.
CanWithdrawInstant(rank, amount, already) ==
    /\ HasTreasuryAccess(rank)
    /\ rank # 0 => /\ amount <= team.settings.instant_limit[rank]
                   /\ amount <= SatSub(team.settings.daily_cap[rank], already)

Day(t) == t \div DAY

WithdrawnToday(i) == IF slot[i].last_day = Day(now) THEN slot[i].withdrawn_today ELSE 0

Expired(r) == now > r.created_at + REQUEST_LIFETIME

\* A mutant of Executable, with the cooldown of when it was made only.
PastFirstCooldown(r) == now >= r.executable_at

\* Past the cooldown of when it was made, and past that of now.
Executable(r) ==
    /\ now >= r.executable_at
    /\ now >= r.created_at + team.settings.cooldown

-----------------------------------------------------------------------------
Init ==
    /\ now = 0
    /\ team = NoTeam
    /\ slot = [i \in Slots |-> NoSlot]
    /\ members = {}
    /\ team_slot_index = [p \in Players |-> 0]
    /\ invite = [p \in Players |-> 0]
    /\ request = [p \in Players |-> NoRequest]
    /\ cash = InitCash

Tick ==
    /\ now < MaxTime
    /\ now' = now + 1
    /\ UNCHANGED <<team, roster, invite, request, cash>>

\* A mutant of Enter: the player's slot index is left at 0.
EnterUnindexed(p, i, rank, epoch) ==
    /\ slot' = [slot EXCEPT ![i] = NewSlot(p, rank, epoch)]
    /\ members' = members \cup {p}
    /\ UNCHANGED team_slot_index

\* Player p takes slot i.
Enter(p, i, rank, epoch) ==
    /\ slot' = [slot EXCEPT ![i] = NewSlot(p, rank, epoch)]
    /\ members' = members \cup {p}
    /\ team_slot_index' = [team_slot_index EXCEPT ![p] = i]

\* The team with one member less, who must not read on.
FewerSameKey == [team EXCEPT !.member_count = SatSub(@, 1)]      \* a mutant
OneFewer == [team EXCEPT !.member_count = SatSub(@, 1), !.membership_epoch = @ + 1]

\* The owner of slot i is out; the slot account is closed.
Exit(i) ==
    /\ team.membership_epoch < MaxEpoch
    /\ team' = OneFewer
    /\ slot' = [slot EXCEPT ![i] = NoSlot]
    /\ members' = members \ {slot[i].player}
    /\ team_slot_index' = [team_slot_index EXCEPT ![slot[i].player] = 0]

Create(p, cap) ==
    /\ team = NoTeam
    /\ team' = [NoTeam EXCEPT !.leader = p, !.member_count = 1, !.max_members = cap]
    /\ Enter(p, 0, 0, 0)
    /\ UNCHANGED <<now, invite, request, cash>>

\* What join.rs and accept_invite.rs share.  cap is what the leader's tier gives
\* now; capacity never falls below the number of members.
Admit(p, i, rank, cap) ==
    LET max_members == IF cap > team.member_count THEN cap ELSE team.member_count IN
    /\ team.leader # Nobody
    /\ p \notin members
    /\ team.member_count < max_members
    /\ i < max_members
    /\ slot[i].player = Nobody
    /\ team' = [team EXCEPT !.member_count = @ + 1, !.max_members = max_members]
    /\ Enter(p, i, rank, team.membership_epoch)

Join(p, i, cap) ==
    /\ team.public
    /\ Admit(p, i, 4, cap)
    /\ UNCHANGED <<now, invite, request, cash>>

Invite(i, p, cap, lifetime) ==
    /\ ~team.disbanded
    /\ HasPermission(i, "INVITE")
    /\ p \notin members
    /\ team.member_count < cap
    /\ invite[p] = 0 /\ Cardinality(Pending) < MaxPending
    /\ invite' = [invite EXCEPT ![p] = now + lifetime]
    /\ UNCHANGED <<now, team, roster, request, cash>>

AcceptInvite(p, i, cap) ==
    /\ invite[p] # 0 /\ now < invite[p]
    /\ Admit(p, i, 3, cap)
    /\ invite' = [invite EXCEPT ![p] = 0]
    /\ UNCHANGED <<now, request, cash>>

\* cancel_invite.rs by a member, decline_invite.rs by the invited.
WithdrawInvite(p) ==
    /\ invite[p] # 0
    /\ invite' = [invite EXCEPT ![p] = 0]
    /\ UNCHANGED <<now, team, roster, request, cash>>

CancelInvite(i, p) == HasPermission(i, "INVITE") /\ WithdrawInvite(p)
DeclineInvite(p) == WithdrawInvite(p)

\* A mutant of Leave: leaders may go too.
LeaveAtAll(i) == Member(i) /\ Exit(i) /\ UNCHANGED <<now, invite, request, cash>>

Leave(i) ==
    /\ Member(i)
    /\ slot[i].player # team.leader
    /\ Exit(i)
    /\ UNCHANGED <<now, invite, request, cash>>

Kick(i, j) ==
    /\ ~team.disbanded
    /\ HasPermission(i, "KICK")
    /\ Member(j) /\ slot[j].player # slot[i].player
    /\ slot[i].rank < slot[j].rank
    /\ Exit(j)
    /\ UNCHANGED <<now, invite, request, cash>>

\* The target of a promotion or a demotion is a slot account of this team.
SetRank(j, rank) ==
    /\ slot[j].player # Nobody
    /\ slot' = [slot EXCEPT ![j].rank = rank]
    /\ UNCHANGED <<now, team, members, team_slot_index, invite, request, cash>>

Promote(i, j, rank) ==
    /\ ~team.disbanded
    /\ HasPermission(i, "PROMOTE")
    /\ slot[i].rank < rank
    /\ slot[j].rank > rank
    /\ SetRank(j, rank)

Demote(i, j, rank) ==
    /\ ~team.disbanded
    /\ Member(i)
    /\ slot[j].rank # 0 /\ slot[i].rank < slot[j].rank
    /\ rank > slot[j].rank
    /\ SetRank(j, rank)

TransferLeadership(i, j) ==
    /\ slot[i].player = team.leader /\ Member(i) /\ slot[i].rank = 0
    /\ Member(j) /\ slot[j].player # slot[i].player
    /\ slot' = [slot EXCEPT ![i].rank = 1, ![j].rank = 0]
    /\ team' = [team EXCEPT !.leader = slot[j].player]
    /\ UNCHANGED <<now, members, team_slot_index, invite, request, cash>>

LeadsTeam(p) == p \in members /\ team.leader = p                 \* a mutant
MayDisband(p) == p \in members /\ team.leader = p /\ team.member_count <= 1

\* disband.rs: the slot account of the leader stays.
Disband(p) ==
    /\ MayDisband(p)
    /\ team.membership_epoch < MaxEpoch
    /\ cash' = [cash EXCEPT ![p] = @ + team.treasury]
    /\ team' = [team EXCEPT !.treasury = 0, !.disbanded = TRUE, !.member_count = 0,
                            !.leader = Nobody, !.membership_epoch = @ + 1]
    /\ members' = members \ {p}
    /\ UNCHANGED <<now, slot, team_slot_index, invite, request>>

UpdateSettings(i, public) ==
    /\ ~team.disbanded
    /\ HasPermission(i, "SETTINGS")
    /\ team' = [team EXCEPT !.public = public]
    /\ UNCHANGED <<now, roster, invite, request, cash>>

-----------------------------------------------------------------------------
(* The treasury *)

UpdateTreasurySettings(i, settings) ==
    /\ ~team.disbanded
    /\ Member(i) /\ slot[i].rank = 0
    /\ team' = [team EXCEPT !.settings = settings]
    /\ UNCHANGED <<now, roster, invite, request, cash>>

Deposit(p, amount) ==
    /\ ~team.disbanded
    /\ p \in members
    /\ cash[p] >= amount
    /\ cash' = [cash EXCEPT ![p] = @ - amount]
    /\ team' = [team EXCEPT !.treasury = @ + amount]
    /\ UNCHANGED <<now, roster, invite, request>>

\* Mutants of PayOut: beyond what there is, and without taking it off.
PayOutAnyAmount(p, amount) ==
    /\ team' = [team EXCEPT !.treasury = @ - amount]
    /\ cash' = [cash EXCEPT ![p] = @ + amount]
PayOutFromNothing(p, amount) ==
    /\ team.treasury >= amount
    /\ cash' = [cash EXCEPT ![p] = @ + amount] /\ UNCHANGED team

PayOut(p, amount) ==
    /\ team.treasury >= amount
    /\ team' = [team EXCEPT !.treasury = @ - amount]
    /\ cash' = [cash EXCEPT ![p] = @ + amount]

Withdraw(i, amount) ==
    /\ ~team.disbanded
    /\ Member(i)
    /\ CanWithdrawInstant(slot[i].rank, amount, WithdrawnToday(i))
    /\ WithdrawnToday(i) + amount <= MaxDrawn
    /\ PayOut(slot[i].player, amount)
    /\ slot' = [slot EXCEPT ![i].withdrawn_today = WithdrawnToday(i) + amount,
                            ![i].last_day = Day(now)]
    /\ UNCHANGED <<now, members, team_slot_index, invite, request>>

RequestWithdraw(i, amount) ==
    LET p == slot[i].player IN
    /\ ~team.disbanded
    /\ Member(i)
    /\ HasTreasuryAccess(slot[i].rank)
    /\ team.treasury >= amount
    /\ request[p] = NoRequest /\ Cardinality(Pending) < MaxPending
    /\ request' = [request EXCEPT ![p] =
          [amount |-> amount, created_at |-> now,
           executable_at |-> now + team.settings.cooldown]]
    /\ UNCHANGED <<now, team, roster, invite, cash>>

\* The account of a request that has been dealt with is closed.
CloseRequest(p) ==
    /\ request[p] # NoRequest
    /\ request' = [request EXCEPT ![p] = NoRequest]

\* The approver outranks the requester as they stand now.
ApproveRequest(i, p) ==
    /\ ~team.disbanded
    /\ Member(i)
    /\ p \in members /\ slot[team_slot_index[p]].player = p
    /\ slot[i].rank < slot[team_slot_index[p]].rank
    /\ CloseRequest(p)
    /\ ~Expired(request[p])
    /\ PayOut(p, request[p].amount)
    /\ UNCHANGED <<now, roster, invite>>

ExecuteRequest(i) ==
    LET p == slot[i].player IN
    /\ ~team.disbanded
    /\ Member(i)
    /\ HasTreasuryAccess(slot[i].rank)
    /\ CloseRequest(p)
    /\ Executable(request[p]) /\ ~Expired(request[p])
    /\ PayOut(p, request[p].amount)
    /\ UNCHANGED <<now, roster, invite>>

RejectRequest(i, p) ==
    /\ Member(i) /\ slot[i].rank <= 1
    /\ CloseRequest(p)
    /\ UNCHANGED <<now, team, roster, invite, cash>>

\* Also by one who has left.
CancelRequest(p) ==
    /\ CloseRequest(p)
    /\ UNCHANGED <<now, team, roster, invite, cash>>

-----------------------------------------------------------------------------
Membership ==
    \/ \E p \in Founders, cap \in Caps : Create(p, cap)
    \/ \E p \in Players, cap \in Caps :
          \/ \E i \in Slots : Join(p, i, cap) \/ AcceptInvite(p, i, cap)
          \/ \E i \in Slots, lifetime \in InviteTimes : Invite(i, p, cap, lifetime)
    \/ \E i \in Slots, p \in Players : CancelInvite(i, p)
    \/ \E p \in Players : DeclineInvite(p) \/ Disband(p)
    \/ \E i \in Slots : Leave(i) \/ \E public \in BOOLEAN : UpdateSettings(i, public)
    \/ \E i, j \in Slots :
          \/ Kick(i, j) \/ TransferLeadership(i, j)
          \/ \E rank \in RanksGiven : Promote(i, j, rank) \/ Demote(i, j, rank)

Treasury ==
    \/ \E i \in Slots :
          \/ ExecuteRequest(i)
          \/ \E settings \in TreasurySettings : UpdateTreasurySettings(i, settings)
          \/ \E amount \in Amounts : Withdraw(i, amount) \/ RequestWithdraw(i, amount)
          \/ \E p \in Players : ApproveRequest(i, p) \/ RejectRequest(i, p)
    \/ \E p \in Players : CancelRequest(p) \/ \E amount \in Amounts : Deposit(p, amount)

Next == Tick \/ Membership \/ Treasury

Spec == Init /\ [][Next]_vars

-----------------------------------------------------------------------------
(* Properties *)

\* The accounts keep the shape the program gives them; an account that does
\* not exist holds nothing.
TypeOK ==
    /\ now \in Nat
    /\ team \in TeamAccount
    /\ slot \in [Slots -> TeamMemberSlot]
    /\ members \subseteq Players
    /\ team_slot_index \in [Players -> Slots]
    /\ invite \in [Players -> Nat]
    /\ request \in [Players -> TreasuryRequest]
    /\ cash \in [Players -> Nat]

LiveSlots == {i \in Slots : slot[i].player # Nobody}

\* The three places that record who is in the team agree, however members came
\* and went: member_count, the slot accounts, and each player's team address
\* and slot index (join.rs, leave.rs, kick_member.rs and disband.rs write all
\* three; the team's capacity and the disband check rely on the count).
RosterMatches ==
    /\ \A p \in members : slot[team_slot_index[p]].player = p
    /\ ~team.disbanded =>
          /\ team.member_count = Cardinality(LiveSlots)
          /\ \A i \in LiveSlots : Member(i) /\ team_slot_index[slot[i].player] = i

\* An active team has one slot of rank 0, that of the player it names as its
\* leader (transfer_leadership.rs writes both slots and the team, promotion and
\* demotion must not get there, and a leader can neither leave nor be kicked).
OneLeader ==
    team.leader # Nobody =>
        /\ team.leader \in members
        /\ \A i \in LiveSlots : slot[i].rank = 0 <=> slot[i].player = team.leader

\* A disbanded team has no members and no money is left in it: disband.rs tests
\* only a counter, and whatever reached the treasury later would be lost.
DisbandedIsOver ==
    team.disbanded => members = {} /\ team.leader = Nobody /\ team.treasury = 0

\* Who is in the team, who leads it and whether it is over is one account of it,
\* in all the places where it is written.
MembershipSound == RosterMatches /\ OneLeader /\ DisbandedIsOver

\* Whoever loses access does so under a new epoch of the war-table key, and the
\* epoch from which a member may read is never ahead of the team's (leave.rs,
\* kick_member.rs and disband.rs rotate, joining snapshots).
EpochStep ==
    /\ team'.membership_epoch >= team.membership_epoch
    /\ members \subseteq members' \/ team'.membership_epoch > team.membership_epoch
    /\ \A i \in Slots : slot'[i].joined_at_epoch <= team'.membership_epoch
KeyRotates == [][EpochStep]_vars

\* Cash moves between players and the treasury and none is made or lost, over
\* deposits, both ways to withdraw, approvals and the disbanding of the team.
MoneyStep ==
    team'.treasury + SumOver(cash', Players) = team.treasury + SumOver(cash, Players)
MoneyConserved == [][MoneyStep]_vars

\* A requested amount is paid to a member, in full, while the request is fresh;
\* and one who leads the team by then, whom nobody can approve, has waited for
\* the cooldown of when it was requested and for that of now, whatever changed
\* in between (treasury_approve_request.rs and treasury_execute_request.rs).
Paid(p) ==
    /\ request[p] # NoRequest /\ request'[p] = NoRequest
    /\ cash'[p] > cash[p]
PaymentStep ==
    \A p \in Players : Paid(p) =>
        /\ p \in members /\ ~Expired(request[p])
        /\ cash'[p] = cash[p] + request[p].amount
        /\ p = team.leader =>
              /\ now >= request[p].executable_at
              /\ now >= request[p].created_at + team.settings.cooldown
PaymentsOnTerms == [][PaymentStep]_vars

\* What one slot draws without a request on one day stays within the daily cap
\* of its rank, over any sequence of withdrawals, promotions, transfers of
\* leadership and changes of settings: the record of the day is what left the
\* treasury (withdraw_treasury.rs and the daily reset of state/team.rs).
DrawStep ==
    \A i \in Slots :
        slot'[i].withdrawn_today # slot[i].withdrawn_today /\ slot'[i].player # Nobody
                /\ slot'[i].player = slot[i].player =>
            /\ slot'[i].withdrawn_today = WithdrawnToday(i) + (team.treasury - team'.treasury)
            /\ \/ slot[i].rank = 0
               \/ slot'[i].withdrawn_today <= team.settings.daily_cap[slot[i].rank]
DailyCapHolds == [][DrawStep]_vars

=============================================================================

----------------------------- MODULE ArmyCustody -----------------------------
(***************************************************************************)
(* What a rally promises about armies, with none of its mechanism.  While  *)
(* it musters players hand it armies; a muster ends with at most one       *)
(* battle, fought with armies the rally holds; an army is handed back      *)
(* once, whole if it did not fight and otherwise without its fallen, of    *)
(* whom the infirmary of a player who has one takes in what it can.  The   *)
(* same rally may muster again, and then holds the armies it has not       *)
(* handed back.  Rally.tla implements this specification.                  *)
(***************************************************************************)
EXTENDS Integers

CONSTANTS
    Players,        \* wallets
    Rallies,        \* rally ids
    InitUnits,      \* the army each player starts with
    Infirmary,      \* players whose estate has an Infirmary
    Parties         \* sets of players that are enough for a battle

VARIABLES
    mustering,      \* mustering[r]: r takes in armies and may fight
    home,           \* home[p]: units at the disposal of p
    wounded,        \* wounded[p]: units in the infirmary of p
    held,           \* held[r][p]: units of p in the custody of r (0: none)
    fought,         \* fought[r]: players whose held army has fought
    fallen          \* fallen[r][p]: how many of held[r][p] fell

vars == <<mustering, home, wounded, held, fought, fallen>>

-----------------------------------------------------------------------------

Init ==
    /\ mustering = [r \in Rallies |-> FALSE]
    /\ home = [p \in Players |-> InitUnits]
    /\ wounded = [p \in Players |-> 0]
    /\ held = [r \in Rallies |-> [p \in Players |-> 0]]
    /\ fought = [r \in Rallies |-> {}]
    /\ fallen = [r \in Rallies |-> [p \in Players |-> 0]]

\* A player hands an army to a rally that holds none of theirs.
Hand(r, p) ==
    /\ held[r][p] = 0
    /\ \E n \in 1 .. home[p] :
          /\ home' = [home EXCEPT ![p] = @ - n]
          /\ held' = [held EXCEPT ![r][p] = n]
    /\ UNCHANGED <<wounded, fought, fallen>>

\* A player opens a muster and hands it the first army.
Muster(r, p) ==
    /\ ~mustering[r]
    /\ mustering' = [mustering EXCEPT ![r] = TRUE]
    /\ Hand(r, p)

\* A player joins the muster.
Commit(r, p) ==
    /\ mustering[r]
    /\ Hand(r, p)
    /\ UNCHANGED mustering

\* The rally fights with the armies of S; an army loses at most itself.
Battle(r) ==
    /\ mustering[r]
    /\ mustering' = [mustering EXCEPT ![r] = FALSE]
    /\ \E S \in Parties :
          /\ \A p \in S : held[r][p] > 0 /\ fallen'[r][p] \in 0 .. held[r][p]
          /\ fought' = [fought EXCEPT ![r] = @ \cup S]
          /\ fallen' = [fallen EXCEPT ![r] =
                           [p \in Players |-> IF p \in S THEN fallen'[r][p] ELSE @[p]]]
    /\ UNCHANGED <<home, wounded, held>>

\* The muster ends without a battle.
CallOff(r) ==
    /\ mustering[r]
    /\ mustering' = [mustering EXCEPT ![r] = FALSE]
    /\ UNCHANGED <<home, wounded, held, fought, fallen>>

\* The army comes home, without its fallen, and is in custody no more.
Release(r, p) ==
    /\ held[r][p] > 0
    /\ home' = [home EXCEPT ![p] = @ + held[r][p] - fallen[r][p]]
    /\ IF p \in Infirmary
       THEN \E w \in 0 .. fallen[r][p] : wounded' = [wounded EXCEPT ![p] = @ + w]
       ELSE UNCHANGED wounded
    /\ held' = [held EXCEPT ![r][p] = 0]
    /\ fought' = [fought EXCEPT ![r] = @ \ {p}]
    /\ fallen' = [fallen EXCEPT ![r][p] = 0]
    /\ UNCHANGED mustering

Next ==
    \E r \in Rallies :
        \/ Battle(r)
        \/ CallOff(r)
        \/ \E p \in Players : Muster(r, p) \/ Commit(r, p) \/ Release(r, p)

Spec == Init /\ [][Next]_vars

=============================================================================

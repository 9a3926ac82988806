---------------------------- MODULE WarTableThread ----------------------------
(***************************************************************************)
(* What one reader sees of one war-table thread: the messages on the chain,*)
(* the three ways they reach the web client (the live subscription, raw    *)
(* pages, and the periodic reconcile, which the SDK has folded), the       *)
(* reader's own posts with their optimistic echoes, and the store that     *)
(* folds all of it into bubbles, reaction chips and a pin                  *)
(* (apps/web/src/lib/store/war-table.ts, hooks/useWarTable.ts and          *)
(* sdks/novus-mundus-ts/src/wartable.ts).                                  *)
(*                                                                         *)
(* Abstractions.  A message's id is its place on the chain, an echo's      *)
(* temporary id comes after all of these, and 0 is ZERO_ID.  A reply is a  *)
(* text here, presence pings and derived system lines are left out, there  *)
(* is one emoji, every message can be decrypted, and a transaction holds   *)
(* one message.  hexToId throws on an id that is not a chain id, so what   *)
(* the reader does to a message names a chain id or does nothing.          *)
(***************************************************************************)
EXTENDS Integers, Sequences, FiniteSets, Functions, Folds

CONSTANTS
    Me, Others,         \* wallets: the reader's, and other members'
    Bodies,             \* texts, and
    NoText,             \* the empty one
    Histories,          \* what the chain may hold when the thread is opened
    PageLimit,          \* transactions in a page
    Window,             \* and in a reconcile
    MaxPosts,           \* bound on the chain,
    MaxEchoes,          \* on the reader's own posts,
    MaxReads,           \* on the reconciles under way at once,
    MaxOpened           \* and on the times the thread is opened

Wallets == {Me} \cup Others
ChainIds == 1 .. MaxPosts
TempIds == MaxPosts + 1 .. MaxPosts + MaxEchoes
ZERO_ID == 0
SEED_ID == -1           \* the synthetic id of a record rebuilt from a chip

VARIABLES
    chain,              \* the thread's messages, oldest first
    inflight,           \* ids the subscription has been notified of and is decrypting
    reads,              \* pages and reconciles that have been answered, not yet applied
    olderCursor,        \* newest id of the next older page, 0 at the start, -1 unknown
    opened,             \* times the thread was opened
    posts,              \* posts[k]: the reader's k-th post
    thread,             \* the store's ThreadEntry
    pinsSeen            \* history: pins folded in since a reconcile or an echo decided

vars == <<chain, inflight, reads, olderCursor, opened, posts, thread, pinsSeen>>

WtMessage ==
    [kind : {"text", "reaction", "tombstone", "pin"}, sender : Wallets,
     parent : ChainIds \cup {ZERO_ID}, body : Bodies \cup {NoText}]

\* A chip counts the live reactions of each wallet.
Chips == [Wallets -> Nat]
NoChips == [w \in Wallets |-> 0]

Bubble ==
    [id : ChainIds \cup TempIds, msg : WtMessage, tombstoned : BOOLEAN,
     pending : BOOLEAN, chips : Chips]

ReactionRecord ==
    [id : ChainIds \cup TempIds \cup {SEED_ID}, parent : ChainIds, sender : Wallets,
     tombstoned : BOOLEAN, pending : BOOLEAN]

\* The records lie in the order of their places; one that goes leaves its empty.
ReactionRecords == UNION {[places -> ReactionRecord] : places \in SUBSET Nat}

ThreadEntry ==
    [messages : SUBSET Bubble, pendingTombstones : SUBSET ChainIds,
     pinnedId : ChainIds \cup {ZERO_ID}, maxPinId : ChainIds \cup TempIds \cup {ZERO_ID},
     pinPending : BOOLEAN, reactionRecords : ReactionRecords]

emptyThread ==
    [messages |-> {}, pendingTombstones |-> {}, pinnedId |-> ZERO_ID,
     maxPinId |-> ZERO_ID, pinPending |-> FALSE, reactionRecords |-> <<>>]

MaxOf(S) == CHOOSE x \in S : \A y \in S : y <= x
MinOf(S) == CHOOSE x \in S : \A y \in S : x <= y

-----------------------------------------------------------------------------
(* The SDK's fold of the transactions lo .. hi *)

OfKind(kind, ids) == {i \in ids : chain[i].kind = kind}
Targets(ids) == {chain[i].parent : i \in OfKind("tombstone", ids)}

\* The latest pin, unless that very pin was deleted.
FoldPin(ids) ==
    LET pins == OfKind("pin", ids) IN
    IF pins = {} \/ MaxOf(pins) \in Targets(ids) THEN ZERO_ID ELSE chain[MaxOf(pins)].parent

LiveReactions(m, ids) ==
    {i \in OfKind("reaction", ids) \ Targets(ids) : chain[i].parent = m}

aggregateReactions(m, ids) ==
    [w \in Wallets |-> Cardinality({i \in LiveReactions(m, ids) : chain[i].sender = w})]

\* One message as a bubble: raw, or as folded within ids.
RawBubble(i, m, pending) ==
    [id |-> i, msg |-> m, tombstoned |-> FALSE, pending |-> pending, chips |-> NoChips]

Hidden(bubble) == [bubble EXCEPT !.msg.body = NoText, !.tombstoned = TRUE]

FoldedBubble(i, ids) ==
    LET raw == [RawBubble(i, chain[i], FALSE) EXCEPT !.chips = aggregateReactions(i, ids)]
    IN IF i \in Targets(ids) THEN Hidden(raw) ELSE raw

foldThread(ids) ==
    {FoldedBubble(i, ids) : i \in OfKind("text", ids) \cup OfKind("tombstone", ids)}

-----------------------------------------------------------------------------
(* The store's fold *)

Ids(bubbles) == {b.id : b \in bubbles}

RecordsOf(records, m) == {k \in DOMAIN records : records[k].parent = m}

summarizeReactions(records, m) ==
    [w \in Wallets |->
        Cardinality({k \in RecordsOf(records, m) :
                        records[k].sender = w /\ ~records[k].tombstoned})]

\* A record comes after the others; and some go.
Push(records, record) ==
    LET place == MaxOf({0} \cup DOMAIN records) + 1
    IN [k \in DOMAIN records \cup {place} |-> IF k = place THEN record ELSE records[k]]

Without(records, gone) == Restrict(records, DOMAIN records \ gone)

\* A mutant of applyReactions: the bubble keeps its chips.
KeepChips(bubbles, m, records) == bubbles

\* The bubble of m shows what its records say.
applyReactions(bubbles, m, records) ==
    {IF b.id = m THEN [b EXCEPT !.chips = summarizeReactions(records, m)] ELSE b : b \in bubbles}

insertSorted(bubbles, bubble) == {b \in bubbles : b.id # bubble.id} \cup {bubble}

\* Mutants of matchesPending: whoever wrote it; and never.
matchesAnyPending(pending, real) == pending.pending
matchesById(pending, real) == pending.pending /\ pending.id = real.id

matchesPending(pending, real) == pending.pending /\ pending.msg = real.msg

echoNeverConfirmed(record, bubble) == FALSE                       \* a mutant
confirmsEcho(record, bubble) ==
    /\ record.pending /\ ~bubble.pending
    /\ record.parent = bubble.msg.parent /\ record.sender = bubble.msg.sender

ingestReaction(e, bubble) ==
    LET m == bubble.msg.parent
        all == e.reactionRecords
        kept == Without(all, {k \in DOMAIN all : confirmsEcho(all[k], bubble)})
        record == [id |-> bubble.id, parent |-> m, sender |-> bubble.msg.sender,
                   tombstoned |-> bubble.id \in e.pendingTombstones,
                   pending |-> bubble.pending]
        records == IF \E k \in RecordsOf(kept, m) : kept[k].id = bubble.id
                   THEN kept ELSE Push(kept, record)
    IN [e EXCEPT !.reactionRecords = records,
                 !.messages = applyReactions(@, m, records)]

AnyPin(e, bubble) == TRUE                                         \* a mutant
outranks(e, bubble) == (~bubble.pending /\ e.pinPending) \/ bubble.id > e.maxPinId

PinItself(bubble) == bubble.id                                    \* a mutant
PinTarget(bubble) == bubble.msg.parent

ingestPin(e, bubble) ==
    IF outranks(e, bubble)
    THEN [e EXCEPT !.maxPinId = bubble.id, !.pinnedId = PinTarget(bubble),
                   !.pinPending = bubble.pending]
    ELSE e

\* The target of a tombstone is the pin, a reaction, a bubble, or not here yet.
ingestTombstone(e, bubble) ==
    LET target == bubble.msg.parent
        reaction == {k \in DOMAIN e.reactionRecords : e.reactionRecords[k].id = target}
        at == MinOf(reaction)
        records == [e.reactionRecords EXCEPT ![at].tombstoned = TRUE]
        hidden == {IF b.id = target THEN Hidden(b) ELSE b : b \in e.messages}
    IN IF target = e.maxPinId THEN [e EXCEPT !.pinnedId = ZERO_ID]
       ELSE IF reaction # {}
       THEN [e EXCEPT !.reactionRecords = records,
                      !.messages = applyReactions(@, records[at].parent, records)]
       ELSE IF target \in Ids(e.messages)
       THEN [e EXCEPT !.messages = insertSorted(hidden, bubble)]
       ELSE [e EXCEPT !.messages = insertSorted(@, bubble),
                      !.pendingTombstones = @ \cup {target}]

Unremembered(e, bubble) == bubble                                 \* a mutant
remembered(e, bubble) == IF bubble.id \in e.pendingTombstones THEN Hidden(bubble) ELSE bubble

ingestText(e, bubble) ==
    LET incoming == remembered(e, bubble)
        stamped == IF RecordsOf(e.reactionRecords, bubble.id) # {}
                   THEN [incoming EXCEPT !.chips = summarizeReactions(e.reactionRecords, bubble.id)]
                   ELSE incoming
    IN [e EXCEPT !.messages = insertSorted(@, stamped)]

\* A message that is not an echo confirms the echoes like it.
ingest(prev, bubble) ==
    LET e == IF bubble.pending THEN prev
             ELSE [prev EXCEPT !.messages = {b \in @ : ~matchesPending(b, bubble)}]
    IN CASE bubble.msg.kind = "reaction" -> ingestReaction(e, bubble)
         [] bubble.msg.kind = "pin" -> ingestPin(e, bubble)
         [] bubble.msg.kind = "tombstone" -> ingestTombstone(e, bubble)
         [] bubble.msg.kind = "text" -> ingestText(e, bubble)

\* A mutant of LastIn: the newest message of a page goes first, as the RPC has it.
NewestFirst(bubbles) == CHOOSE b \in bubbles : \A c \in bubbles : b.id <= c.id
LastIn(bubbles) == CHOOSE b \in bubbles : \A c \in bubbles : c.id <= b.id

\* A batch, oldest message first.
ingestMessages(e, bubbles) ==
    MapThenFoldSet(LAMBDA b, before : ingest(before, b), e, LAMBDA b : b, LastIn, bubbles)

\* The reactions in the chips of what the SDK folded; and the record rebuilt from
\* one.  The first wallet of the chip is given the reader's own reaction id, when
\* there is one.
Seeded(ids) == UNION {LiveReactions(m, ids) : m \in OfKind("text", ids)}

seedReactionRecords(i, ids) ==
    LET m == chain[i].parent
        mine == {j \in LiveReactions(m, ids) : chain[j].sender = Me}
        first == i = MinOf(LiveReactions(m, ids))
    IN [id |-> IF first /\ mine # {} THEN MinOf(mine) ELSE SEED_ID,
        parent |-> m, sender |-> chain[i].sender, tombstoned |-> FALSE, pending |-> FALSE]

SameReaction(record, seeded) ==
    /\ record.parent = seeded.parent
    /\ record.sender = seeded.sender \/ (record.id = seeded.id /\ seeded.id # SEED_ID)

\* A reaction the store has already stays as it is, unless it is an echo.
unionRecord(records, seeded) ==
    LET same == {k \in DOMAIN records : SameReaction(records[k], seeded)}
        first == MinOf(same)
    IN IF same = {} THEN Push(records, seeded)
       ELSE IF records[first].pending THEN [records EXCEPT ![first] = seeded]
       ELSE records

\* Message by message, and in a message reaction by reaction.
LastSeeded(S) ==
    CHOOSE i \in S : \A j \in S : \/ chain[j].parent < chain[i].parent
                                  \/ chain[j].parent = chain[i].parent /\ j <= i

unionRecords(records, ids) ==
    MapThenFoldSet(LAMBDA i, before : unionRecord(before, seedReactionRecords(i, ids)),
                   records, LAMBDA i : i, LastSeeded, Seeded(ids))

\* A mutant of Visible: the victim must be in the reconcile as well.
VisibleInBatch(e, incoming) ==
    {b \in incoming : b.msg.kind # "tombstone" \/ b.msg.parent \in Ids(incoming)}
\* The tombstones of reactions and pins, which the SDK leaves in, are no bubbles.
Visible(e, incoming) ==
    {b \in incoming : \/ b.msg.kind # "tombstone"
                      \/ b.msg.parent \in Ids(e.messages) \cup Ids(incoming)}

\* A reconcile is folded in message by message; then its reactions are added to
\* those of the store, and its pin decides.
mergeThreadMessages(e, ids) ==
    LET incoming == foldThread(ids)
        folded == ingestMessages(e, Visible(e, incoming))
        chipped == {chain[i].parent : i \in Seeded(ids)}
        records == unionRecords(folded.reactionRecords, ids)
        stamped == {IF b.id \in chipped
                    THEN [b EXCEPT !.chips = summarizeReactions(records, b.id)] ELSE b
                    : b \in folded.messages}
    IN [folded EXCEPT !.messages = stamped, !.reactionRecords = records,
                      !.pinnedId = IF incoming = {} THEN ZERO_ID ELSE FoldPin(ids),
                      !.maxPinId = ZERO_ID, !.pinPending = FALSE]

\* A failed post: the echo goes, and the pin with it if the echo was one.
removeMessage(e, id) ==
    LET echoes == {k \in DOMAIN e.reactionRecords : e.reactionRecords[k].id = id}
        records == Without(e.reactionRecords, echoes)
        parents == {e.reactionRecords[k].parent : k \in echoes}
        left == {IF b.id \in parents
                 THEN [b EXCEPT !.chips = summarizeReactions(records, b.id)] ELSE b
                 : b \in {b \in e.messages : b.id # id}}
        kept == [e EXCEPT !.messages = left, !.reactionRecords = records]
    IN IF e.pinPending /\ e.maxPinId = id
       THEN [kept EXCEPT !.pinnedId = ZERO_ID, !.maxPinId = ZERO_ID, !.pinPending = FALSE]
       ELSE kept

-----------------------------------------------------------------------------
(* The chain, the ways from it, and the reader *)

\* A read of the latest limit transactions up to hi.  The SDK skips a transaction that
\* the node lists but does not give, or gives without its logs; such a read with a hole
\* is not modelled.
Read(kind, limit, hi) ==
    [kind |-> kind, lo |-> IF hi > limit THEN hi - limit + 1 ELSE 1, hi |-> hi]

Message(kind, sender, parent, body) ==
    [kind |-> kind, sender |-> sender, parent |-> parent, body |-> body]

\* What a wallet can post when the chain is c: members delete what is theirs.
Postable(w, c) ==
    LET texts == {i \in DOMAIN c : c[i].kind = "text"} IN
    {Message("text", w, ZERO_ID, b) : b \in Bodies}
    \cup {Message("reaction", w, m, NoText) : m \in texts}
    \cup {Message("pin", w, m, NoText) : m \in texts \cup {ZERO_ID}}
    \cup {Message("tombstone", w, m, NoText) :
            m \in {i \in DOMAIN c : c[i].sender = w /\ c[i].kind # "tombstone"}}

\* Limits are sizes, a text is not empty, and a history was posted bit by bit.
ASSUME WarTableAssumption ==
    /\ {PageLimit, Window, MaxPosts, MaxEchoes} \subseteq Nat
    /\ NoText \notin Bodies
    /\ \A c \in Histories :
          /\ c \in Seq(WtMessage) /\ Len(c) <= MaxPosts
          /\ \A i \in DOMAIN c : c[i] \in Postable(c[i].sender, SubSeq(c, 1, i - 1))

Init ==
    /\ chain \in Histories
    /\ inflight = {}
    /\ reads = {Read("seed", PageLimit, Len(chain))}
    /\ olderCursor = -1
    /\ opened = 1
    /\ posts = <<>>
    /\ thread = emptyThread
    /\ pinsSeen = {}

\* The chain takes a message; the subscription is notified of it, or is not.
Append1(m) ==
    /\ Len(chain) < MaxPosts
    /\ chain' = Append(chain, m)
    /\ inflight' \in {inflight, inflight \cup {Len(chain) + 1}}

\* Somebody else posts, or the reader from another device.
PostElsewhere(w, m) ==
    /\ Append1(m)
    /\ UNCHANGED <<reads, olderCursor, opened, posts, thread, pinsSeen>>

\* What the store takes in, and the pins among it.
Take(bubbles) ==
    LET pins == {b.id : b \in {b \in bubbles : b.msg.kind = "pin"}} IN
    /\ thread' = ingestMessages(thread, bubbles)
    /\ pinsSeen' = IF thread.pinPending /\ pins # {} THEN pins ELSE pinsSeen \cup pins

\* The subscription decrypts and hands over one message, in any order.
Deliver(i) ==
    /\ i \in inflight
    /\ inflight' = inflight \ {i}
    /\ Take({RawBubble(i, chain[i], FALSE)})
    /\ UNCHANGED <<chain, reads, olderCursor, opened, posts>>

\* What a read brings: a first page, the chain of the moment the node answers.
Answers(r) ==
    IF r.kind = "seed" THEN {Read("seed", PageLimit, hi) : hi \in r.hi .. Len(chain)} ELSE {r}

\* A page is there; an answer that fails is one that never comes.
ApplyPage(r) ==
    /\ r \in reads /\ r.kind \in {"seed", "older"}
    /\ reads' = reads \ {r}
    /\ \E page \in Answers(r) :
          /\ olderCursor' = page.lo - 1
          /\ Take({RawBubble(i, chain[i], FALSE) : i \in page.lo .. page.hi})
    /\ UNCHANGED <<chain, inflight, opened, posts>>

LoadOlder ==
    /\ olderCursor > 0
    /\ reads' = reads \cup {Read("older", PageLimit, olderCursor)}
    /\ UNCHANGED <<chain, inflight, olderCursor, opened, posts, thread, pinsSeen>>

\* Every 25 seconds and on focus: the reconcile reads the chain as it is now,
Reconcile ==
    /\ Cardinality({r \in reads : r.kind = "reconcile"}) < MaxReads
    /\ reads' = reads \cup {Read("reconcile", Window, Len(chain))}
    /\ UNCHANGED <<chain, inflight, olderCursor, opened, posts, thread, pinsSeen>>

\* and its answer is merged later.
ApplyReconcile(r) ==
    /\ r \in reads /\ r.kind = "reconcile"
    /\ reads' = reads \ {r}
    /\ thread' = mergeThreadMessages(thread, r.lo .. r.hi)
    /\ pinsSeen' = {}
    /\ UNCHANGED <<chain, inflight, olderCursor, opened, posts>>

\* A new session: the effect starts again and drops what it had under way, except
\* an older page; the store stays.
Reopen ==
    /\ opened < MaxOpened
    /\ opened' = opened + 1
    /\ inflight' = {}
    /\ reads' = {r \in reads : r.kind = "older"} \cup {Read("seed", PageLimit, Len(chain))}
    /\ olderCursor' = -1
    /\ UNCHANGED <<chain, posts, thread, pinsSeen>>

\* The reader's reaction to m that a click on its chip takes back.
myReactionId(m) ==
    LET mine == {k \in RecordsOf(thread.reactionRecords, m) :
                    /\ thread.reactionRecords[k].sender = Me
                    /\ ~thread.reactionRecords[k].tombstoned}
    IN IF mine = {} THEN ZERO_ID
       ELSE thread.reactionRecords[MinOf(mine)].id

\* What the reader can do to what is shown.
Offered(m) ==
    LET shown == {b \in thread.messages : ~b.tombstoned /\ ~b.pending /\ b.msg.kind = "text"} IN
    \/ m.kind = "text"
    \/ m.kind = "reaction" /\ m.parent \in Ids(shown)
    \/ m.kind = "pin" /\ m.parent \in Ids(shown) \ {thread.pinnedId}
    \/ m.kind = "pin" /\ m.parent = ZERO_ID /\ thread.pinnedId \in Ids(shown)
    \/ m.kind = "tombstone" /\ \E b \in shown : b.id = m.parent \/ myReactionId(b.id) = m.parent

\* The echo is shown under a temporary id while the transaction is sent.
Post(m) ==
    LET k == Len(posts) + 1
        echo == RawBubble(MaxPosts + k, m, TRUE) IN
    /\ k <= MaxEchoes
    /\ Offered(m)
    /\ posts' = Append(posts, [msg |-> m, at |-> 0, failed |-> FALSE])
    /\ thread' = ingest(thread, echo)
    /\ UNCHANGED <<chain, inflight, reads, olderCursor, opened, pinsSeen>>

\* The transaction lands, whatever the client was told, or never does.
Land(k) ==
    /\ posts[k].at = 0
    /\ Append1(posts[k].msg)
    /\ posts' = [posts EXCEPT ![k].at = Len(chain) + 1]
    /\ UNCHANGED <<reads, olderCursor, opened, thread, pinsSeen>>

\* The client is told that sending failed.
Fail(k) ==
    /\ ~posts[k].failed
    /\ posts' = [posts EXCEPT ![k].failed = TRUE]
    /\ thread' = removeMessage(thread, MaxPosts + k)
    /\ pinsSeen' = IF thread.pinPending /\ thread.maxPinId = MaxPosts + k THEN {} ELSE pinsSeen
    /\ UNCHANGED <<chain, inflight, reads, olderCursor, opened>>

Next ==
    \/ \E w \in Wallets : \E m \in Postable(w, chain) : PostElsewhere(w, m)
    \/ \E m \in Postable(Me, chain) : Post(m)
    \/ \E i \in inflight : Deliver(i)
    \/ \E r \in reads : ApplyPage(r) \/ ApplyReconcile(r)
    \/ LoadOlder \/ Reconcile \/ Reopen
    \/ \E k \in DOMAIN posts : Land(k) \/ Fail(k)

Spec == Init /\ [][Next]_vars

-----------------------------------------------------------------------------
(* Properties *)

\* The store keeps its shape: bubbles and records under one id each, and a pin
\* that names a message, never an echo.
TypeOK ==
    /\ chain \in Seq(WtMessage)
    /\ inflight \subseteq DOMAIN chain /\ pinsSeen \subseteq DOMAIN chain
    /\ thread.messages \subseteq Bubble
    /\ Cardinality(Ids(thread.messages)) = Cardinality(thread.messages)
    /\ thread.pendingTombstones \subseteq ChainIds
    /\ thread.pinnedId \in ChainIds \cup {ZERO_ID}
    /\ DOMAIN thread.reactionRecords \subseteq Nat
    /\ \A k \in DOMAIN thread.reactionRecords : thread.reactionRecords[k] \in ReactionRecord

\* The chips under a bubble are those of the records the store has of it,
\* whichever of the two came first and by whichever way (war-table.ts keeps the
\* two apart and recomputes the one from the other in six places).
ChipsAreCurrent ==
    \A b \in thread.messages : b.chips = summarizeReactions(thread.reactionRecords, b.id)

\* An echo and its copy from the chain are never both shown (war-table.ts:180),
\* except when the copy was deleted before it came: it then comes without its
\* text, and nothing tells that it is the same.
NeverBoth ==
    \A k \in DOMAIN posts, b \in thread.messages :
        b.id = posts[k].at /\ ~b.tombstoned => MaxPosts + k \notin Ids(thread.messages)

\* What the reader wrote stays in sight, as an echo or as a message of the same
\* text, unless the client said that sending failed; nobody else's message is
\* taken for it.
WrittenStays ==
    \A k \in DOMAIN posts :
        posts[k].msg.kind = "text" /\ ~posts[k].failed =>
            \/ MaxPosts + k \in Ids(thread.messages)
            \/ \E b \in thread.messages : ~b.pending /\ chain[b.id] = posts[k].msg

\* The reader's reaction is not counted twice, as echo and as message, however
\* the two meet; until a reconcile has rebuilt records of that message.
Rebuilt(r) == r.id = SEED_ID \/ (r.id \in ChainIds /\ chain[r.id].sender # r.sender)
ActsOfReacting(m) ==
    LET here == {k \in DOMAIN posts : posts[k].msg = Message("reaction", Me, m, NoText)} IN
    Cardinality(here)
      + Cardinality({i \in DOMAIN chain : /\ chain[i] = Message("reaction", Me, m, NoText)
                                          /\ \A k \in here : posts[k].at # i})
EchoCountedOnce ==
    \A m \in DOMAIN chain :
        (\A k \in RecordsOf(thread.reactionRecords, m) : ~Rebuilt(thread.reactionRecords[k]))
            => summarizeReactions(thread.reactionRecords, m)[Me] <= ActsOfReacting(m)

\* An echo settles: beside its copy it is gone, without a copy it stays, and what
\* it says is counted once.
EchoesSettle == NeverBoth /\ WrittenStays /\ EchoCountedOnce

\* A tombstone that came before what it deletes holds for good: its victim is
\* never shown, by whichever way it comes.
EarlyTombstonesHold ==
    \A b \in thread.messages : b.id \in thread.pendingTombstones => b.tombstoned

\* Of the pins that have come since a reconcile or an echo last decided, the
\* latest is shown, in whatever order they came, or none if it was deleted.
LatestPinWins ==
    pinsSeen # {} /\ ~thread.pinPending =>
        LET latest == MaxOf(pinsSeen) IN
        \/ thread.pinnedId = chain[latest].parent
        \/ thread.pinnedId = ZERO_ID /\ latest \in Targets(DOMAIN chain)

\* A message that has been hidden is shown again only when a copy of it arrives
\* that does not bring its tombstone along: one of the subscription's, or a read
\* that was made before it was deleted.
BareCopy(i) ==
    \/ i \in inflight \ inflight'
    \/ \E r \in reads \ reads' : \E page \in Answers(r) :
          i \in (page.lo .. page.hi) \ Targets(page.lo .. page.hi)
HiddenStep ==
    \A b \in thread.messages, c \in thread'.messages :
        b.id = c.id /\ b.tombstoned /\ ~c.tombstoned => BareCopy(b.id)

\* What was deleted stays deleted, whichever of tombstone and message came first.
DeletedStaysDeleted == [][HiddenStep /\ EarlyTombstonesHold']_vars

\* A reconcile whose every transaction the node gave with its logs makes up for
\* what was missed: what it read is shown, and hidden if it was deleted, also when
\* the deleted message is older than what it read; and who reacted is counted, as
\* far as the store has not recorded that the reaction was taken back, nor mixes it
\* up with the reader's own.
CaughtUp(ids) ==
    /\ \A i \in OfKind("text", ids) : i \in Ids(thread'.messages)
    /\ \A b \in thread'.messages :
          /\ b.id \in Targets(ids) => b.tombstoned
          /\ (b.id \in OfKind("text", ids) \ Targets(ids) /\ b.tombstoned) =>
                b.id \in thread'.pendingTombstones
    /\ \A i \in OfKind("reaction", ids) \ Targets(ids) :
          LET m == chain[i].parent
              known == {k \in RecordsOf(thread.reactionRecords, m) :
                           \/ thread.reactionRecords[k].sender = chain[i].sender
                           \/ thread.reactionRecords[k].sender = Me}
          IN m \in ids /\ known = {} =>
                summarizeReactions(thread'.reactionRecords, m)[chain[i].sender] = 1
ReconcileCatchesUp ==
    [][\A r \in reads \ reads' : ApplyReconcile(r) => CaughtUp(r.lo .. r.hi)]_vars

=============================================================================

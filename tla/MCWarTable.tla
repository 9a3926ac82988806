----------------------------- MODULE MCWarTable -----------------------------
(* Instances of WarTableThread for TLC. *)
EXTENDS WarTableThread, TLC

CONSTANTS ada, ben, hello, nothing

Text(w) == Message("text", w, ZERO_ID, hello)

\* What the chain holds when the reader first opens the thread: a message that ben
\* has reacted to; and longer ones, of which a page misses the oldest.
Short == {<<Text(ben), Message("reaction", ben, 1, nothing)>>}
Long ==
    {<<Text(ada), Text(ben), Message("pin", ben, 1, nothing)>>,
     <<Text(ben), Text(ben), Message("reaction", ada, 1, nothing)>>}

AllHistories == Short \cup Long

\* The reader posts, or leaves and comes back.
PostsOrComesBack == opened + Len(posts) <= 2

=============================================================================

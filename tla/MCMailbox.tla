---------------------------- MODULE MCMailbox ----------------------------
(***************************************************************************)
(* Instances of Mailbox for TLC.                                           *)
(***************************************************************************)
EXTENDS Mailbox, TLC

CONSTANTS a, b, c1, c2

MCNames == {a, b}
MCOneClient == {c1}
MCTwoClients == {c1, c2}
ClientSymmetry == Permutations(MCTwoClients)
MCTokenSends == {[from |-> a, to |-> b, auth |-> TRUE]}
MCSpoofedToo == MCTokenSends \cup {[from |-> a, to |-> b, auth |-> FALSE]}
MCTask == {"task"}
MCNoDeadline == {}
MCOneMs == {1}

\* The default read, and one that takes the oldest task and leaves receipts.
DefaultRead == [unreadOnly |-> TRUE, inactive |-> FALSE, oldest |-> FALSE,
                exclude |-> {}, limit |-> 20]
MCDefaultRead == {DefaultRead}
MCReceiptReads == {DefaultRead, [DefaultRead EXCEPT !.exclude = {"receipt"},
                              !.oldest = TRUE, !.limit = 1]}
=============================================================================

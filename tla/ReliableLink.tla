---------------------------- MODULE ReliableLink ----------------------------
(***************************************************************************)
(* What the host may assume of the link to a micro-controller: the blocks  *)
(* it queues, numbered 1, 2, ..., are executed at most once and in order,  *)
(* without a gap once the first one has been executed, and a block is      *)
(* confirmed to its sender only after it was executed.                     *)
(***************************************************************************)
EXTENDS Naturals, Sequences

VARIABLES queued,       \* blocks accepted from the sender
          delivered,    \* the blocks executed, in order
          confirmed     \* blocks whose sender was told so

linkVars == <<queued, delivered, confirmed>>

LinkInit == queued = 0 /\ delivered = <<>> /\ confirmed = {}

Queue == queued' = queued + 1 /\ UNCHANGED <<delivered, confirmed>>

Deliver ==
    /\ \E b \in 1 .. queued :
          /\ delivered # <<>> => b = delivered[Len(delivered)] + 1
          /\ delivered' = Append(delivered, b)
    /\ UNCHANGED <<queued, confirmed>>

Confirm ==
    /\ \E s \in SUBSET {delivered[i] : i \in DOMAIN delivered} : confirmed' = confirmed \cup s
    /\ UNCHANGED <<queued, delivered>>

LinkSpec == LinkInit /\ [][Queue \/ Deliver \/ Confirm]_linkVars
=============================================================================

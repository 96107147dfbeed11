------------------------------- MODULE Reorg -------------------------------
(***************************************************************************)
(* The pure reorg primitives of src/domain/reorg.ts.                       *)
(*                                                                         *)
(* A block is identified by its hash, and a hash fixes the header it is    *)
(* the hash of: its number and its parent hash are the functions Height    *)
(* and Parent.  A window of held blocks is the sequence of the blocks the  *)
(* scanner accepted, oldest first.                                         *)
(***************************************************************************)
EXTENDS Arrays

CONSTANTS
    Block,        \* the blocks (hashes) any provider may serve for the chain
    NoBlock,      \* "no block": null, or a parent outside Block
    Height,       \* block -> number
    Parent,       \* block -> parent hash
    WindowLimit   \* DEFAULT_WINDOW

ASSUME BlockAssumption ==
    /\ NoBlock \notin Block
    /\ Height \in [Block -> Nat]
    /\ Parent \in [Block -> Block \cup {NoBlock}]

ASSUME WindowLimitAssumption == WindowLimit \in Nat \ {0}

\* A block's number is one more than its parent's.  Every real chain has this
\* property; the code never checks it.
WellFormed ==
    \A b \in Block : Parent[b] # NoBlock => Height[b] = Height[Parent[b]] + 1

-----------------------------------------------------------------------------

HeldIn(w) == {w[i] : i \in DOMAIN w}

Tip(w) == w[Len(w)]

\* The held block whose hash is the candidate's parent hash, or null.
FindAncestor(w, parent) == IF parent \in HeldIn(w) THEN parent ELSE NoBlock

\* Mutant: the first orphan is missed.
OrphanedHeightsShort(w, ancestor) ==
    {Height[b] : b \in {c \in HeldIn(w) : Height[c] > Height[ancestor] + 1}}

\* The numbers of the held blocks on the orphaned side of the ancestor.
OrphanedHeights(w, ancestor) ==
    {Height[b] : b \in {c \in HeldIn(w) : Height[c] > Height[ancestor]}}

\* Mutant: the first orphan stays in the window.
PruneToLoose(w, ancestor) ==
    Filtered(w, {i \in DOMAIN w : Height[w[i]] <= Height[ancestor] + 1})

\* What is left of the window once the orphaned side is dropped.
PruneTo(w, ancestor) ==
    Filtered(w, {i \in DOMAIN w : Height[w[i]] <= Height[ancestor]})

\* The window after a block is accepted: the last WindowLimit blocks.
PushWindow(w, b) ==
    LET longer == Append(w, b)
    IN  IF Len(longer) > WindowLimit
          THEN SubSeq(longer, Len(longer) - WindowLimit + 1, Len(longer))
          ELSE longer

\* The verdict on a candidate block, given the hash of the cursor.
ClassifyChain(w, candidate, cursorHash) ==
    IF cursorHash \in {NoBlock, Parent[candidate]} THEN "ok"
    ELSE IF FindAncestor(w, Parent[candidate]) = NoBlock THEN "unresolvable"
    ELSE "reorg"
=============================================================================

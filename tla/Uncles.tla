------------------------------- MODULE Uncles -------------------------------
(***************************************************************************)
(* Uncle inclusion and block rewards of src/consensus/xdnoc/dnpoc.go:      *)
(* VerifyUncles, which the chain runs on every block it inserts, and       *)
(* Finalize with PocRewards, which credits the block's author and the      *)
(* authors of its uncles.                                                  *)
(*                                                                         *)
(* The blocks the node knows form a tree: tree[id] is the block with hash  *)
(* id, its parent's id (0 for genesis, whose parent GetBlock does not      *)
(* find), its number, its uncle list (ids of known headers, in order) and  *)
(* the credits Finalize made to the state, as [to, amount] records where   *)
(* "to" is the id of the block whose coinbase is paid.  Amounts are in     *)
(* units of blockReward / 32.  A block enters the tree only when           *)
(* VerifyUncles accepts it; the header checks of verifyHeader are those    *)
(* of Dnpoc and are taken as passed.                                       *)
(***************************************************************************)
EXTENDS Naturals, Sequences, FiniteSets, SequencesExt

CONSTANTS
    InitTree,    \* the blocks known when the model starts, genesis first
    MaxBlocks    \* bound: the number of blocks in the tree

(* blockReward, scaled: 10^18 becomes 32, so that / 32 and / 8 are exact. *)
BlockReward == 32

(* maxUncles: at most 2 uncles in a single block. *)
MaxUncles == 2

(* The number of ancestors VerifyUncles walks back (for i := 0; i < 7). *)
AncestorDepth == 7

Block == [parent : Nat, number : Nat, uncles : Seq(Nat),
          credits : Seq([to : Nat, amount : Int])]

ASSUME InitTree \in Seq(Block) /\ MaxBlocks \in Nat

VARIABLES tree

vars == <<tree>>

Ids == DOMAIN tree

(* The ids of a, its parent, ... : up to depth blocks, stopping where     *)
(* GetBlock finds no parent (below genesis).                               *)
RECURSIVE AncestorsFrom(_, _, _)
AncestorsFrom(t, a, depth) ==
    IF depth = 0 \/ a = 0 THEN {}
    ELSE {a} \cup AncestorsFrom(t, t[a].parent, depth - 1)

(* Fault: the walk goes two blocks deeper than the code's seven. *)
AncestorWindowDeep(t, p) == AncestorsFrom(t, p, AncestorDepth + 2)

(* The ancestors loop of VerifyUncles, from the new block's parent p. *)
AncestorWindow(t, p) == AncestorsFrom(t, p, AncestorDepth)

(* Fault: only the new block is put in the uncle set. *)
PastUnclesOwnOnly(t, anc, b) == {b}

(* The set uncles: every uncle of the walked ancestors, and the new      *)
(* block's own hash.                                                     *)
PastUncles(t, anc, b) == UNION {ToSet(t[a].uncles) : a \in anc} \cup {b}

(* The checks of one uncle u of the new block b with parent p, given the *)
(* set of uncles seen so far and the ancestors map (which holds b).      *)
UncleVerdict(t, u, seen, ancs, p) ==
    IF u \in seen THEN "duplicate uncle"
    ELSE IF u \in ancs THEN "uncle is ancestor"
    ELSE IF t[u].parent \notin ancs \/ t[u].parent = p THEN "uncle's parent is not ancestor"
    ELSE "ok"

(* The loop over block.Uncles(): the first error, or "ok"; each uncle is *)
(* added to the set before the next is checked.                          *)
RECURSIVE CheckUncles(_, _, _, _, _)
CheckUncles(t, us, seen, ancs, p) ==
    IF us = <<>> THEN "ok"
    ELSE IF UncleVerdict(t, Head(us), seen, ancs, p) # "ok"
         THEN UncleVerdict(t, Head(us), seen, ancs, p)
    ELSE CheckUncles(t, Tail(us), seen \cup {Head(us)}, ancs, p)

(* VerifyUncles of a block with id b, parent p and uncle list us. *)
VerifyUncles(t, b, p, us) ==
    IF Len(us) > MaxUncles THEN "too many uncles"
    ELSE LET anc == AncestorWindow(t, p)
         IN CheckUncles(t, us, PastUncles(t, anc, b), anc \cup {b}, p)

(* PocRewards for a block of number n with uncle list us: each uncle's  *)
(* coinbase gets (uncle.Number + 8 - n) * blockReward / 8, then the      *)
(* author gets blockReward * 15 / 2 plus blockReward / 32 per uncle.     *)
PocRewards(t, b, n, us) ==
    [k \in 1 .. Len(us) |->
        [to |-> us[k], amount |-> ((t[us[k]].number + 8 - n) * BlockReward) \div 8]]
    \o << [to |-> b,
           amount |-> (BlockReward * 15) \div 2 + Len(us) * (BlockReward \div 32)] >>

-----------------------------------------------------------------------------
Init == tree = InitTree

(* A block with parent p and uncle list us reaches the chain: it is      *)
(* inserted only if VerifyUncles accepts it, and its state is the one    *)
(* Finalize leaves after PocRewards.                                     *)
InsertBlock(p, us) ==
    LET b == Len(tree) + 1
        n == tree[p].number + 1
    IN
    /\ Len(tree) < MaxBlocks
    /\ VerifyUncles(tree, b, p, us) = "ok"
    /\ tree' = Append(tree, [parent |-> p, number |-> n, uncles |-> us,
                             credits |-> PocRewards(tree, b, n, us)])

(* Uncle lists offered: up to maxUncles known headers, and one longer    *)
(* list, which stands for all of them: it is refused before any of its   *)
(* uncles is read.                                                       *)
UncleLists ==
    UNION {[1 .. k -> Ids] : k \in 0 .. MaxUncles}
    \cup {[k \in 1 .. MaxUncles + 1 |-> 1]}

Next == \E p \in Ids, us \in UncleLists : InsertBlock(p, us)

Spec == Init /\ [][Next]_vars

-----------------------------------------------------------------------------
(* The ids on the chain ending at x: x and all of its ancestors. *)
ChainOf(x) == AncestorsFrom(tree, x, Len(tree))

(* Every uncle is rewarded only once (the comment in VerifyUncles): on   *)
(* the chain to any block, a header is paid as an uncle at most once,    *)
(* and never when it is itself on that chain.  A block paying an uncle   *)
(* may sit many blocks after another paying it, beyond the window of     *)
(* ancestors whose uncles VerifyUncles collects.                         *)
UncleRewardedOnce ==
    \A x \in Ids : \A u \in Ids :
        LET payers == {<<a, k>> \in ChainOf(x) \X (1 .. MaxUncles) :
                          k \in DOMAIN tree[a].uncles /\ tree[a].uncles[k] = u}
        IN /\ Cardinality(payers) <= 1
           /\ payers # {} => u \notin ChainOf(x)

(* The uncle rewards PocRewards credits are positive: the window of      *)
(* ancestors VerifyUncles accepts an uncle's parent from keeps           *)
(* uncle.Number + 8 - header.Number above zero, so no balance is ever    *)
(* debited.                                                               *)
UncleRewardPositive ==
    \A x \in Ids : \A c \in ToSet(tree[x].credits) : c.amount > 0
=============================================================================

------------------------------ MODULE Notifier ------------------------------
(***************************************************************************)
(* The chain of notifier blocks that is told when an address comes up or   *)
(* goes down (kernelenv.c, ipv4.c).  A block is the memory of the module   *)
(* that registers it; the chain is threaded through the blocks, and a      *)
(* block that has left the chain keeps its next pointer.  The walk calls   *)
(* the modules back, and a callback may register and unregister blocks,    *)
(* so the walk reads the next pointer of a block that may have moved.      *)
(* The memory of an unloaded module stays readable here; in the code a     *)
(* walk that meets a block left behind there faults.                       *)
(***************************************************************************)
EXTENDS Integers, Sequences, SequencesExt, FiniteSets

CONSTANTS
    Block,      \* the blocks of all modules
    Priority    \* [Block -> Int]

NULL == "NULL"

ASSUME BlockAssumption == /\ IsFiniteSet(Block) /\ NULL \notin Block
                          /\ Priority \in [Block -> Int]

VARIABLES
    inetaddr_chain, \* the first block
    next,           \* the next pointer of every block
    fields,         \* fields attached to every block, to find the ones left behind
    walk            \* the event under way

chainVars == <<inetaddr_chain, next, fields, walk>>

NoWalk == [at |-> NULL]

\* at: the block whose callback runs; called: the blocks called for this event, in
\* order; steady: the ones registered from its start on; moved: the chain changed
\* after the running block had left it.
WalkOK(w) ==
    \/ w = NoWalk
    \/ /\ w.at \in Block /\ w.called \in Seq(Block)
       /\ w.steady \subseteq Block /\ w.moved \in BOOLEAN

ChainTypeOK ==
    /\ inetaddr_chain \in Block \cup {NULL}
    /\ next \in [Block -> Block \cup {NULL}]
    /\ fields \in [Block -> 0 .. 1]
    /\ WalkOK(walk)

ChainInit ==
    /\ inetaddr_chain = NULL
    /\ next = [b \in Block |-> NULL]
    /\ fields = [b \in Block |-> 0]
    /\ walk = NoWalk

\* The i-th entry of a list, NULL behind its end.
EntryAt(s, i) == IF i > Len(s) THEN NULL ELSE s[i]

\* The list s is what a walk over next finds.
Follows(s) ==
    /\ inetaddr_chain = EntryAt(s, 1)
    /\ \A i \in DOMAIN s : next[s[i]] = EntryAt(s, i + 1)

\* The blocks from the first one on.
Chain == CHOOSE s \in UNION { [1 .. n -> Block] : n \in 0 .. Cardinality(Block) } : Follows(s)

Registered == Range(Chain)

\* The walk notes what a change of the chain does to it: whether its block had left
\* the chain before, and which blocks are no longer there for the whole event.
Disturb(n) ==
    IF walk = NoWalk THEN walk
    ELSE [walk EXCEPT !.moved = @ \/ walk.at \notin Registered,
                      !.steady = @ \ {n}]

\* Where the block goes: behind every block of its priority or a higher one.
Place(n) ==
    LET lower == { i \in DOMAIN Chain : Priority[n] > Priority[Chain[i]] }
    IN  IF lower = {} THEN Len(Chain) + 1 ELSE CHOOSE i \in lower : \A j \in lower : i <= j

\* A block is registered once, its owner's duty.
notifier_chain_register(n) ==
    /\ n \notin Registered
    /\ LET i == Place(n)
           behind == EntryAt(Chain, i)
       IN  IF i = 1
           THEN /\ inetaddr_chain' = n
                /\ next' = [next EXCEPT ![n] = behind]
           ELSE /\ next' = [next EXCEPT ![n] = behind, ![Chain[i - 1]] = n]
                /\ UNCHANGED inetaddr_chain
    /\ fields' = [fields EXCEPT ![n] = @ + 1]
    /\ walk' = Disturb(n)

notifier_chain_unregister_NextCleared(n) ==
    /\ n \in Registered
    /\ LET i == CHOOSE j \in DOMAIN Chain : Chain[j] = n
       IN  IF i = 1
           THEN /\ inetaddr_chain' = next[n]
                /\ next' = [next EXCEPT ![n] = NULL]
           ELSE /\ next' = [next EXCEPT ![Chain[i - 1]] = next[n], ![n] = NULL]
                /\ UNCHANGED inetaddr_chain
    /\ fields' = [fields EXCEPT ![n] = 0]
    /\ walk' = Disturb(n)

\* The block keeps its own next pointer.  (For a block that is not in the chain the
\* code returns -ENOENT and changes nothing.)
notifier_chain_unregister(n) ==
    /\ n \in Registered
    /\ LET i == CHOOSE j \in DOMAIN Chain : Chain[j] = n
       IN  IF i = 1
           THEN inetaddr_chain' = next[n] /\ UNCHANGED next
           ELSE /\ next' = [next EXCEPT ![Chain[i - 1]] = next[n]]
                /\ UNCHANGED inetaddr_chain
    /\ fields' = [fields EXCEPT ![n] = 0]
    /\ walk' = Disturb(n)

\* notifier_call_chain: the first callback is called.  Without a block it returns at
\* once.
CallChain ==
    /\ walk = NoWalk
    /\ inetaddr_chain # NULL
    /\ walk' = [at |-> inetaddr_chain, called |-> <<inetaddr_chain>>,
                steady |-> Registered, moved |-> FALSE]
    /\ UNCHANGED <<inetaddr_chain, next, fields>>

\* The callback returns; unless it says to stop, the next pointer of its block,
\* wherever the block is by now, names the one to call.
CallbackReturns ==
    /\ walk # NoWalk
    /\ \E stop \in BOOLEAN :
        walk' = IF stop \/ next[walk.at] = NULL THEN NoWalk
                ELSE [walk EXCEPT !.at = next[walk.at],
                                  !.called = Append(@, next[walk.at])]
    /\ UNCHANGED <<inetaddr_chain, next, fields>>
-----------------------------------------------------------------------------
\* An event is told to every block that stays registered while it is told, once, and
\* to no block that has left the chain (notifier_call_chain, which reads nb->next
\* after the callback) - even when a callback unregisters its own block - unless a
\* callback changes the chain again after its own block has left it.
EventReachesAll ==
    [][ walk # NoWalk /\ ~walk.moved
        => /\ walk' # NoWalk /\ walk'.at # walk.at
              => walk'.at \in Registered \ (Range(walk.called) \cap walk.steady)
           /\ walk' = NoWalk /\ next[walk.at] = NULL
              => walk.steady \subseteq Range(walk.called) ]_chainVars
=============================================================================

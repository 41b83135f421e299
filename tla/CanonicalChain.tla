--------------------------- MODULE CanonicalChain ---------------------------
(***************************************************************************)
(* What the store promises a node that follows a chain: one gap-free chain *)
(* of parent-linked blocks.  It begins with a genesis block, its upper     *)
(* part may be replaced above a block that stays, and its lower part may   *)
(* be forgotten.                                                           *)
(***************************************************************************)
EXTENDS Integers

CONSTANTS Blocks, NoBlock, Parent

VARIABLE chain   \* function from an interval of heights to blocks

Gapless(c) == \A h, k \in DOMAIN c : \A m \in h..k : m \in DOMAIN c

Linked(c) == \A h \in DOMAIN c : h + 1 \in DOMAIN c => Parent[c[h + 1]] = c[h]

IsChain(c) == /\ \A h \in DOMAIN c : c[h] \in Blocks
              /\ Gapless(c)
              /\ Linked(c)

Init == DOMAIN chain = {}

\* The first block of an empty chain is a genesis block at height 0.
Begin ==
  /\ DOMAIN chain = {}
  /\ DOMAIN chain' = {0}
  /\ IsChain(chain')
  /\ Parent[chain'[0]] = NoBlock

\* Blocks above height k go and others come; the chain up to k stays.
Replace ==
  /\ \E k \in DOMAIN chain :
       \A h \in DOMAIN chain \cup DOMAIN chain' :
         h <= k => /\ h \in DOMAIN chain \cap DOMAIN chain'
                   /\ chain'[h] = chain[h]
  /\ IsChain(chain')

\* The lowest blocks are pruned, never all of them.
Forget ==
  /\ DOMAIN chain' \subseteq DOMAIN chain
  /\ DOMAIN chain' # {}
  /\ \A h \in DOMAIN chain, k \in DOMAIN chain' : h >= k => h \in DOMAIN chain'
  /\ \A h \in DOMAIN chain' : chain'[h] = chain[h]

Next == Begin \/ Replace \/ Forget
Spec == Init /\ [][Next]_chain

=============================================================================

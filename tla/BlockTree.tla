------------------------------ MODULE BlockTree ------------------------------
(***************************************************************************)
(* What a chain of blocks promises, whatever executes it: a tree that only *)
(* grows, by blocks whose parent is in it, that link to their parent, and  *)
(* whose state is the one that their header commits to.                    *)
(***************************************************************************)
EXTENDS Integers, Sequences

VARIABLES
  headers, \* every block made so far; a hash is a position
  tree     \* the accepted blocks: pairs of a hash and a state

LinksTo(b, parent) ==
  /\ b.number = parent.number + 1
  /\ b.timestamp > parent.timestamp

Init ==
  /\ Len(headers) = 1
  /\ tree = {[hash |-> 1, sigma |-> headers[1].stateRoot]}

Make ==
  /\ Len(headers') = Len(headers) + 1
  /\ \A h \in DOMAIN headers : headers'[h] = headers[h]
  /\ UNCHANGED tree

Accept(h) ==
  LET b == headers[h]
  IN  /\ \E node \in tree : node.hash = b.parent
      /\ LinksTo(b, headers[b.parent])
      /\ tree' = tree \cup {[hash |-> h, sigma |-> b.stateRoot]}
      /\ UNCHANGED headers

Next == Make \/ \E h \in DOMAIN headers : Accept(h)

Spec == Init /\ [][Next]_<<headers, tree>>
=============================================================================

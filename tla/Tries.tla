-------------------------------- MODULE Tries --------------------------------
(***************************************************************************)
(* Merkle Patricia tries, EllipticCurvesPy/trie.py, as trie_root.py uses   *)
(* them: a program fills a dictionary and takes its root.                  *)
(*                                                                         *)
(* A node becomes an RLP item; keccak256 of an encoded item is a digest    *)
(* that holds the item, since the hash is taken to be injective, and       *)
(* counts as HashLength bytes where lengths matter.  Python dictionaries   *)
(* keep the order of insertion, so a dictionary is a sequence of entries.  *)
(***************************************************************************)
EXTENDS Rlp, FiniteSets

CONSTANTS
  Radix,       \* 16: the branches of a node; a byte has two nibbles
  HashLength,  \* 32: the bytes of a digest; shorter nodes are inlined
  Keys,        \* the keys that may be set
  Values,      \* the values that may be set, as items
  KeyDigest,   \* keccak256 of each key, for the tries that hash their keys
  ListKeys,    \* the keys of list tries: the encodings of the positions
  MaxEntries   \* bound on the entries of a trie

ASSUME RadixAssumption == Radix * Radix = 2 ^ ByteBits /\ Radix >= 4

Default == [class |-> "None"]

VARIABLES
  secured,  \* Trie.secured
  data,     \* Trie._data, the entries in the order of insertion
  content   \* what was set last for each key, for the properties only

trieVars == <<secured, data, content>>

----------------------------------------------------------------------------
(* Nodes *)

LeafNode(rest_of_key, value) ==
  [node |-> "leaf", rest_of_key |-> rest_of_key, value |-> value]
ExtensionNode(key_segment, subnode) ==
  [node |-> "extension", key_segment |-> key_segment, subnode |-> subnode]
BranchNode(subnodes, value) ==
  [node |-> "branch", subnodes |-> subnodes, value |-> value]
NoNode == [node |-> "None"]

\* An exception on the way passes through every caller.
Raised(exception) == [node |-> "raised", class |-> "raised", exception |-> exception]

keccak256(item) == [class |-> "digest", of |-> item]

\* A digest has HashLength bytes wherever its length is asked for.
RECURSIVE Concrete(_)
Concrete(item) ==
  CASE item.class = "digest" -> Bytes([i \in 1 .. HashLength |-> 0])
    [] item.class = "Sequence" ->
         Items([i \in DOMAIN item.items |-> Concrete(item.items[i])])
    [] OTHER -> item
EncodedLength(item) == Len(encode(Concrete(item)))

\* Pairs of nibbles, after a flag for the kind of node and the parity.
\* mutant: the flag of a leaf is forgotten when the length is odd
nibble_list_to_compact_NoOddLeaf(x, is_leaf) ==
  LET flag == IF is_leaf THEN 2 ELSE 0
      odd == Len(x) % 2
      flagged == IF odd = 0 THEN <<flag, 0>> \o x ELSE <<1>> \o x
  IN [i \in 1 .. Len(flagged) \div 2 |-> Radix * flagged[2 * i - 1] + flagged[2 * i]]
nibble_list_to_compact(x, is_leaf) ==
  LET flag == IF is_leaf THEN 2 ELSE 0
      flagged == IF Len(x) % 2 = 0 THEN <<flag, 0>> \o x ELSE <<flag + 1>> \o x
  IN [i \in 1 .. Len(flagged) \div 2 |-> Radix * flagged[2 * i - 1] + flagged[2 * i]]

bytes_to_nibble_list(bytes) ==
  [i \in 1 .. 2 * Len(bytes) |->
     IF i % 2 = 1 THEN bytes[(i + 1) \div 2] \div Radix ELSE bytes[i \div 2] % Radix]

\* The RLP item of a node.
Unencoded(node) ==
  CASE node.node = "None" -> Bytes(<<>>)
    [] node.node = "leaf" ->
         Items(<<Bytes(nibble_list_to_compact(node.rest_of_key, TRUE)), node.value>>)
    [] node.node = "extension" ->
         Items(<<Bytes(nibble_list_to_compact(node.key_segment, FALSE)), node.subnode>>)
    [] node.node = "branch" -> Items(Append(node.subnodes, node.value))

\* mutant: off by one in the test for inlining
encode_internal_node_AtMost(node) ==
  IF node.node = "raised" THEN node
  ELSE IF EncodedLength(Unencoded(node)) <= HashLength THEN Unencoded(node)
  ELSE keccak256(Unencoded(node))
encode_internal_node(node) ==
  IF node.node = "raised" THEN node
  ELSE IF EncodedLength(Unencoded(node)) < HashLength THEN Unencoded(node)
  ELSE keccak256(Unencoded(node))

common_prefix_length(a, b) ==
  CHOOSE n \in 0 .. Len(a) :
    /\ n <= Len(b) /\ SubSeq(a, 1, n) = SubSeq(b, 1, n)
    /\ n < Len(a) /\ n < Len(b) => a[n + 1] # b[n + 1]

From(key, level) == SubSeq(key, level + 1, Len(key))

\* The nibbles that all keys have in common from the level on.
\* mutant: the search ends at the second key
SharedPrefix_FirstTwo(obj, level) ==
  common_prefix_length(From(obj[1].key, level), From(obj[2].key, level))
SharedPrefix(obj, level) ==
  LET lengths == {common_prefix_length(From(obj[1].key, level), From(obj[i].key, level)) :
                    i \in DOMAIN obj}
  IN CHOOSE n \in lengths : \A m \in lengths : n <= m

\* The entries of a branch keep their order.
Branch(obj, level, nibble) ==
  SelectSeq(obj, LAMBDA e : Len(e.key) > level /\ e.key[level + 1] = nibble)

\* A key that ends at a branch would have its value there; the code first tests
\* the value against Account, a name that trie.py does not define.
RECURSIVE patricialize(_, _)
patricialize(obj, level) ==
  IF obj = <<>> THEN NoNode
  ELSE IF Len(obj) = 1 THEN LeafNode(From(obj[1].key, level), obj[1].value)
  ELSE LET length == SharedPrefix(obj, level)
           subnode == encode_internal_node(patricialize(obj, level + length))
           subnodes == [k \in 1 .. Radix |->
             encode_internal_node(patricialize(Branch(obj, level, k - 1), level + 1))]
       IN CASE length > 0 /\ subnode.class = "raised" -> subnode
            [] length > 0 /\ subnode.class # "raised" ->
                 ExtensionNode(SubSeq(obj[1].key, level + 1, level + length), subnode)
            [] length = 0 ->
                 IF \/ \E i \in DOMAIN obj : Len(obj[i].key) = level
                    \/ \E k \in 1 .. Radix : subnodes[k].class = "raised"
                 THEN Raised("NameError")
                 ELSE BranchNode(subnodes, Bytes(<<>>))

----------------------------------------------------------------------------
(* Roots *)

\* Values that are no bytes go to previous_trie, which tests them against
\* Account first, another name that is not defined.
previous_encode_node(value) ==
  IF value.class = "bytes" THEN value ELSE Raised("NameError")
encode_node(value) ==
  IF value.class = "bytes" THEN value ELSE previous_encode_node(value)

_prepare_trie(entries, hashed) ==
  LET encoded == [i \in DOMAIN entries |-> encode_node(entries[i].value)]
      bad == {i \in DOMAIN entries : encoded[i].class = "raised" \/ encoded[i] = Bytes(<<>>)}
      first == CHOOSE i \in bad : \A j \in bad : i <= j
      Key(e) == IF hashed THEN KeyDigest[e.key] ELSE e.key
  IN IF bad # {}
     THEN <<IF encoded[first].class = "raised" THEN encoded[first] ELSE Raised("AssertionError")>>
     ELSE [i \in DOMAIN entries |->
             [class |-> "entry", key |-> bytes_to_nibble_list(Key(entries[i])),
              value |-> encoded[i]]]

\* The digest of the root node, which is hashed however short it is.
root(entries, hashed) ==
  LET obj == _prepare_trie(entries, hashed)
      node == encode_internal_node(patricialize(obj, 0))
  IN CASE obj # <<>> /\ obj[1].class = "raised" -> obj[1]
       [] OTHER -> IF node.class \in {"raised", "digest"} THEN node ELSE keccak256(node)

----------------------------------------------------------------------------
(* The program *)

Init ==
  /\ secured \in BOOLEAN
  /\ data = <<>>
  /\ content = [k \in Keys |-> Default]

Position(key) == {i \in DOMAIN data : data[i].key = key}

\* The default value deletes; a key that is there keeps its place.
trie_set(key, value) ==
  /\ data' = IF value = Default THEN SelectSeq(data, LAMBDA e : e.key # key)
             ELSE IF Position(key) = {} THEN Append(data, [key |-> key, value |-> value])
             ELSE [i \in DOMAIN data |->
                     IF data[i].key = key THEN [data[i] EXCEPT !.value = value] ELSE data[i]]
  /\ Len(data') <= MaxEntries
  /\ content' = [content EXCEPT ![key] = value]
  /\ UNCHANGED secured

Next == \E key \in Keys, value \in Values \union {Default} : trie_set(key, value)

Spec == Init /\ [][Next]_trieVars

----------------------------------------------------------------------------
(* Properties *)

Root == root(data, secured)
Stored == {k \in Keys : content[k] # Default}
KeyNibbles(key) == bytes_to_nibble_list(IF secured THEN KeyDigest[key] ELSE key)

\* The root is a function of what is stored: the order in which the keys were
\* inserted, overwritten and deleted, which patricialize sees in the dictionary
\* and takes an arbitrary key from, does not matter.
RootOfContent ==
  LET keys == SetToSeq(Stored)
      Sorted == [i \in DOMAIN keys |-> [key |-> keys[i], value |-> content[keys[i]]]]
  IN Root.class = "digest" => Root = root(Sorted, secured)

\* How a verifier reads a trie: the nibbles and the kind of a compact key, and
\* the way down from a digest or an inlined node.
Uncompacted(compact) == LET nibbles == bytes_to_nibble_list(compact)
                        IN From(nibbles, IF nibbles[1] % 2 = 1 THEN 1 ELSE 2)
IsLeaf(item) == item.items[1].value[1] \div Radix >= 2
RECURSIVE Found(_, _)
Found(item, nibbles) ==
  LET segment == Uncompacted(item.items[1].value)
  IN CASE item.class = "digest" -> Found(item.of, nibbles)
       [] item.class = "bytes" -> Default
       [] Len(item.items) = 2 ->
            IF IsLeaf(item) THEN IF segment = nibbles THEN item.items[2] ELSE Default
            ELSE IF IsPrefix(segment, nibbles)
                 THEN Found(item.items[2], From(nibbles, Len(segment))) ELSE Default
       [] Len(item.items) = Radix + 1 ->
            IF nibbles = <<>> THEN Default ELSE Found(item.items[nibbles[1] + 1], Tail(nibbles))

\* From the root alone every key is found with the value that was set last, and
\* a key that was not set or was deleted is not found.  So two tries with the
\* same root have the same content.
EveryKeyFound ==
  Root.class = "digest" =>
    \A k \in Keys : Found(Root, KeyNibbles(k)) = content[k]

\* The nodes below a node, itself included, with how they are referred to.
RECURSIVE Nodes(_)
Nodes(item) ==
  CASE item.class = "digest" -> {item} \union Nodes(item.of)
    [] item.class = "bytes" -> {}
    [] item.class = "Sequence" ->
         {item} \union
           UNION {Nodes(item.items[i]) : i \in {j \in DOMAIN item.items :
              item.items[j].class # "bytes"}}

\* The tree is the canonical one: a branch has at least two ways on, an
\* extension is not empty and leads to a branch, and a node below the root is
\* hashed exactly when it is not shorter than a digest.
CanonicalShape ==
  LET Target(item) == IF item.class = "digest" THEN item.of ELSE item
  IN Root.class = "digest" =>
       \A item \in Nodes(Root) \ {Root} :
         CASE item.class = "digest" -> EncodedLength(item.of) >= HashLength
           [] Len(item.items) = 2 ->
                /\ EncodedLength(item) < HashLength \/ keccak256(item) \in Nodes(Root)
                /\ ~IsLeaf(item) => /\ Uncompacted(item.items[1].value) # <<>>
                                    /\ item.items[2].class # "bytes"
                                    /\ Len(Target(item.items[2]).items) = Radix + 1
           [] OTHER ->
                Cardinality({i \in 1 .. Radix : item.items[i] # Bytes(<<>>)}) >= 2

==============================================================================

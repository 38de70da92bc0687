---------------------------- MODULE LiftedMerkle ----------------------------
(***************************************************************************)
(* The lifted Merkle trees of vcs_lifted, as pure operators: committing    *)
(* with all layers or with checkpoints, opening either, and verifying an   *)
(* opening.                                                                *)
(*                                                                         *)
(* A column is [log |-> n, at |-> [0 .. 2^n - 1 -> values]] with n >= 1.   *)
(* The hash is an injective constructor: a leaf is the 1-tuple of the row  *)
(* its hasher absorbed, a node is the pair of its children.  update_leaf   *)
(* only streams, so feeding it in chunks of 16 (build_leaves) or all at    *)
(* once (verify) makes the same leaf.                                      *)
(***************************************************************************)
EXTENDS Naturals, Sequences, SequencesExt

Leaf(row) == <<row>>
Parent(left, right) == <<left, right>>

(* The members of S in increasing order, for S within 0 .. bound - 1.      *)
Sorted(S, bound) ==
  LET below[n \in 0 .. bound] ==
        IF n = 0 THEN <<>>
        ELSE IF n - 1 \in S THEN Append(below[n - 1], n - 1) ELSE below[n - 1]
  IN  below[bound]

(* The elements of s at some of its places, in order: a filter of s.       *)
ElementsAt(s, places) ==
  LET order == Sorted(places, Len(s) + 1) IN [k \in DOMAIN order |-> s[order[k]]]

(* s cut before the elements at some of its places.                        *)
CutAt(s, cuts) ==
  LET starts == Sorted(cuts, Len(s) + 1)
      chunks == Cardinality(cuts)
      End(k) == IF k = chunks THEN Len(s) ELSE starts[k + 1] - 1
  IN  [k \in 1 .. chunks |-> SubSeq(s, starts[k], End(k))]
(* Rust's chunk_by: the maximal runs of s whose neighbours are related.    *)
ChunkBy(Related(_, _), s) ==
  CutAt(s, {i \in DOMAIN s : i = 1 \/ ~Related(s[i - 1], s[i])})

Firsts(chunks) == [k \in DOMAIN chunks |-> chunks[k][1]]
(* Vec::dedup and itertools' dedup remove consecutive repetitions only.    *)
Dedup(s) == Firsts(ChunkBy(LAMBDA a, b : a = b, s))

Sibling(p) == IF p % 2 = 0 THEN p + 1 ELSE p - 1
SiblingPairs(s) == ChunkBy(LAMBDA a, b : Sibling(a) = b, s)
(* The row of a column that a row of a 2^shift times larger one is lifted from. *)
Lift(position, shift) == (position \div 2 ^ (shift + 1)) * 2 + (position % 2)

-----------------------------------------------------------------------------
(* Committing *)

(* sorted_by_key is stable.                                                *)
SortedByLog(columns, lifting) ==
  FlattenSeq([l \in 1 .. lifting |->
                ElementsAt(columns, {c \in DOMAIN columns : columns[c].log = l})])

(* The row each hasher has absorbed after the first n of the sorted        *)
(* columns.  Between columns of different sizes the hashers are lifted.    *)
AbsorbedRows(columns) ==
  LET log(n) == IF n = 0 THEN 1 ELSE columns[n].log
      row[s \in (0 .. Len(columns)) \X Nat] ==
        LET n == s[1]  i == s[2]
        IN  IF n = 0 THEN <<>>
            ELSE Append(row[<<n - 1, Lift(i, log(n) - log(n - 1))>>], columns[n].at[i])
  IN  row

build_leaves(columns, lifting) ==
  IF columns = <<>> THEN [i \in {0} |-> Leaf(<<>>)]
  ELSE LET n == Len(columns)
           rows == AbsorbedRows(columns)
       IN  [i \in 0 .. 2 ^ lifting - 1 |-> Leaf(rows[<<n, Lift(i, lifting - columns[n].log)>>])]

(* Leaves of four rows of one column, as the FRI layers pack them.         *)
PackedLeafSize == 4
LogPackedLeafSize == 2
pack_leaves_input(column) ==
  [o \in 1 .. PackedLeafSize |->
     [log |-> column.log - LogPackedLeafSize,
      at |-> [i \in 0 .. 2 ^ (column.log - LogPackedLeafSize) - 1 |->
                column.at[i * PackedLeafSize + o - 1]]]]

(* The hash of node i of layer l, over a source layer of log size from     *)
(* that is known at the leaves below that node at least.                   *)
NodesOver(source, from) ==
  LET node[n \in (0 .. from) \X Nat] ==
        IF n[1] = from THEN source[n[2]]
        ELSE Parent(node[<<n[1] + 1, 2 * n[2]>>], node[<<n[1] + 1, 2 * n[2] + 1>>])
  IN  node

LayerOver(source, from, l) == [i \in 0 .. 2 ^ l - 1 |-> NodesOver(source, from)[<<l, i>>]]
Root(leaves, height) == NodesOver(leaves, height)[<<0, 0>>]

(* MerkleProverLifted: all the layers, by log size.                        *)
commit(leaves, height) ==
  [root |-> Root(leaves, height), height |-> height,
   layers |-> [l \in 0 .. height |-> LayerOver(leaves, height, l)]]

should_store_checkpoint(l, height, stride) == l > 0 /\ l < height /\ (height - l) % stride = 0

(* CheckpointedMerkleProverLifted: some layers.  When the leaves were      *)
(* streamed into the first layer above them, that layer is not kept.       *)
commit_checkpointed(leaves, height, stride, streamed) ==
  LET kept == {l \in 1 .. height : /\ should_store_checkpoint(l, height, stride)
                                   /\ ~(streamed /\ l = height - 1)}
  IN  [root |-> Root(leaves, height), height |-> height,
       checkpoints |-> [l \in kept |-> LayerOver(leaves, height, l)]]

-----------------------------------------------------------------------------
(* Opening *)

(* The queries that reach each layer, from those of the leaves upwards.    *)
QueriesByLayer(leafQueries, height) ==
  LET queries[l \in 0 .. height] ==
        IF l = height THEN leafQueries
        ELSE LET pairs == SiblingPairs(queries[l + 1])
             IN  [k \in DOMAIN pairs |-> pairs[k][1] \div 2]
  IN  queries

(* The siblings of the queries of one layer that no query gives.           *)
MissingSiblings(queries) ==
  LET chunks == SiblingPairs(queries)
      alone == ElementsAt(chunks, {k \in DOMAIN chunks : Len(chunks[k]) = 1})
  IN  [k \in DOMAIN alone |-> Sibling(alone[k][1])]

(* hash_witness, from the leaves' layer up; hash gives node i of layer l.   *)
HashWitness(leafQueries, height, hash) ==
  LET queries == QueriesByLayer(leafQueries, height)
      Of(l) == LET missing == MissingSiblings(queries[l])
               IN  [k \in DOMAIN missing |-> hash[<<l, missing[k]>>]]
  IN  FlattenSeq([k \in 1 .. height |-> Of(height + 1 - k)])

decommit(tree, positions) ==
  HashWitness(Dedup(positions), tree.height,
              [n \in (0 .. tree.height) \X Nat |-> tree.layers[n[1]][n[2]]])

(* The layers a checkpointed tree can start from, and the next one above.  *)
SourceLayers(tree) == {tree.height} \cup DOMAIN tree.checkpoints
SourceOf(tree, l) == CHOOSE s \in SourceLayers(tree) :
                       s >= l /\ \A t \in SourceLayers(tree) : t >= l => s <= t
TargetOf(tree, s) == CHOOSE t \in {0} \cup SourceLayers(tree) :
                       t < s /\ \A u \in SourceLayers(tree) : u < s => u <= t

(* Segment by segment, every layer recomputed from the nearest source.     *)
decommit_from_leaves(tree, positions, leaves) ==
  LET Source(s) == IF s = tree.height THEN leaves ELSE tree.checkpoints[s]
  IN  HashWitness(Dedup(positions), tree.height,
        [n \in (0 .. tree.height) \X Nat |->
           LET s == SourceOf(tree, n[1]) IN NodesOver(Source(s), s)[n]])

(* The same from the leaves under the queries only: each segment reads the *)
(* aligned blocks of its source that hold a query; source_hashes gives the *)
(* leaves of a set of positions.                                           *)
decommit_with_source(tree, positions, source_hashes) ==
  LET sorted == Sorted(Range(positions), 2 ^ tree.height)
      queries == QueriesByLayer(sorted, tree.height)
      Blocks(s) ==
        LET size == 2 ^ (s - TargetOf(tree, s))
            starts == {(p \div size) * size : p \in Range(queries[s])}
        IN  UNION {b .. b + size - 1 : b \in starts}
      Source(s) == IF s = tree.height THEN source_hashes[Blocks(s)]
                   ELSE [i \in Blocks(s) |-> tree.checkpoints[s][i]]
  IN  HashWitness(sorted, tree.height,
        [n \in (0 .. tree.height) \X Nat |->
           LET s == SourceOf(tree, n[1]) IN NodesOver(Source(s), s)[n]])

-----------------------------------------------------------------------------
(* Verifying *)

(* One layer of the verifier: nodes are <<index, hash>>, used witnesses    *)
(* have been consumed.                                                     *)
Climb(state, witness) ==
  LET chunks == ChunkBy(LAMBDA a, b : Sibling(a[1]) = b[1], state.nodes)
      alone(k) == Len(chunks[k]) = 1
      Taken(k) == state.used + Len(SelectSeq(SubSeq(chunks, 1, k), LAMBDA c : Len(c) = 1))
      short == Taken(Len(chunks)) > Len(witness)
      Up(k) == LET index == chunks[k][1][1]
                   hash == chunks[k][1][2]
               IN  <<index \div 2,
                     IF ~alone(k) THEN Parent(hash, chunks[k][2][2])
                     ELSE IF index % 2 = 0 THEN Parent(hash, witness[Taken(k)])
                     ELSE Parent(witness[Taken(k)], hash)>>
  IN  IF state.short \/ short THEN [state EXCEPT !.short = TRUE]
      ELSE [nodes |-> [k \in DOMAIN chunks |-> Up(k)], used |-> Taken(Len(chunks)), short |-> FALSE]

(* The leaves the queried values make: one per run of equal positions, of  *)
(* the values of the columns sorted by log size.                           *)
QueriedLeaves(logs, height, positions, values) ==
  LET runs == ChunkBy(LAMBDA a, b : positions[a] = positions[b], [i \in DOMAIN positions |-> i])
      columns == [c \in DOMAIN logs |-> [log |-> logs[c], at |-> values[c]]]
      sorted == SortedByLog(columns, height)
  IN  [k \in DOMAIN runs |->
         <<positions[runs[k][1]], Leaf([c \in DOMAIN sorted |-> sorted[c].at[runs[k][1]]])>>]

(* MerkleVerifierLifted::verify.  "Panic" is any of its asserts and        *)
(* unwraps.                                                                *)
verify(root, logs, height, positions, values, witness) ==
  IF height = 0 THEN "ok"
  ELSE IF \/ Len(values) # Len(logs)
          \/ \E c \in DOMAIN values : Len(values[c]) # Len(positions)
          \/ \E i \in 2 .. Len(positions) :
               positions[i] = positions[i - 1] /\ \E c \in DOMAIN values : values[c][i] # values[c][i - 1]
  THEN "Panic"
  ELSE LET climbed[l \in 0 .. height] ==
             IF l = 0 THEN [nodes |-> QueriedLeaves(logs, height, positions, values),
                            used |-> 0, short |-> FALSE]
             ELSE Climb(climbed[l - 1], witness)
           top == climbed[height]
       IN  CASE top.short -> "WitnessTooShort"
             [] ~top.short /\ top.used < Len(witness) -> "WitnessTooLong"
             [] ~top.short /\ top.used = Len(witness) /\ Len(top.nodes) # 1 -> "Panic"
             [] OTHER -> IF top.nodes[1][2] = root THEN "ok" ELSE "RootMismatch"
=============================================================================

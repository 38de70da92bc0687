---------------------------- MODULE MixedMerkle ----------------------------
(***************************************************************************)
(* The earlier Merkle trees of vcs, where a column joins the tree at the   *)
(* layer of its own size: committing, opening layer by layer, and          *)
(* verifying.  The hash is an injective constructor.  Layers go by log     *)
(* size; columns are rows from 0, in the order of their trees.             *)
(***************************************************************************)
EXTENDS Integers, Sequences, SequencesExt, TLC

VARIABLES mixed_tree, decommitment, at_layer, layer_nodes, verdict
mixed_vars == <<mixed_tree, decommitment, at_layer, layer_nodes, verdict>>

HashNode(children, row) == [children |-> children, row |-> row]
ColumnsOfLog(log) == SelectSeq(mixed_tree.columns, LAMBDA c : c.log = log)
RowAt(log, n) == [k \in DOMAIN ColumnsOfLog(log) |-> ColumnsOfLog(log)[k].at[n]]
ColumnMaxLog == IF mixed_tree.columns = <<>> THEN 0
                ELSE CHOOSE l \in 0 .. 9 : /\ ColumnsOfLog(l) # <<>>
                                           /\ \A c \in DOMAIN mixed_tree.columns : mixed_tree.columns[c].log <= l

(* commit: each layer from the one below it.                               *)
MixedLayers ==
  LET layers[log \in 0 .. ColumnMaxLog] ==
        [n \in 0 .. 2 ^ log - 1 |->
           HashNode(IF log = ColumnMaxLog THEN <<>> ELSE <<layers[log + 1][2 * n], layers[log + 1][2 * n + 1]>>,
                    RowAt(log, n))] @@ <<>>
  IN  layers @@ <<>>
MixedRoot == MixedLayers[0][0]

(* next_decommitment_node: parents of the layer below and column queries,  *)
(* merged in increasing order.                                             *)
QueriesAt(log) == mixed_tree.queries[log]
NodesOf(log, below) ==
  SelectSeq([i \in 1 .. 2 ^ log |-> i - 1],
            LAMBDA n : n \in QueriesAt(log) \/ \E q \in below : q \div 2 = n)

(* --- requests ---                                                        *)
MixedColumns(logs) ==
  [c \in DOMAIN logs |-> [log |-> logs[c], at |-> [i \in 0 .. 2 ^ logs[c] - 1 |-> 16 * c + i]]]
QueriesOf(zero, small, low, top, high) ==
  [l \in 0 .. 3 |-> IF l = 0 THEN zero ELSE IF l = small THEN low ELSE IF l = top THEN high ELSE {}] @@ <<>>
MixedRequests ==
  UNION {{[columns |-> MixedColumns(r[1]), queries |-> QueriesOf(zero, r[2], low, r[3], high)] :
            zero \in {{}, {0}}, low \in {{}, {1}, {0, 1}}, high \in {{0}, {1, 2}, {2, 3}}} :
         r \in {<<<<2>>, 1, 2>>, <<<<1, 3, 1>>, 1, 3>>, <<<<2, 0, 1>>, 1, 2>>}}

NoDecommitment == [hash_witness |-> <<>>, column_witness |-> <<>>, queried |-> <<>>]
NoMixedTree == [columns |-> <<>>, queries |-> [l \in 0 .. 3 |-> {}]]
MixedIdle ==
  /\ mixed_tree = NoMixedTree /\ decommitment = NoDecommitment
  /\ at_layer = [phase |-> "none", log |-> 0, genuine |-> TRUE] /\ layer_nodes = <<>> /\ verdict = "none"
MixedInit ==
  /\ mixed_tree \in MixedRequests
  /\ decommitment = NoDecommitment
  /\ at_layer = [phase |-> "decommit", log |-> ColumnMaxLog, genuine |-> TRUE]
  /\ layer_nodes = <<>> /\ verdict = "none"

(* decommit: a layer gives the hashes nobody computes below and the rows,  *)
(* to the answers where they were asked for and to the witness elsewhere.  *)
DecommitLayer ==
  LET log == at_layer.log
      below == {layer_nodes[i] : i \in DOMAIN layer_nodes}
      nodes == NodesOf(log, below)
      layers == MixedLayers
      Missing(n) == SelectSeq(<<2 * n, 2 * n + 1>>, LAMBDA child : child \notin below)
      Hashes(n) == IF log = ColumnMaxLog THEN <<>>
                   ELSE [k \in DOMAIN Missing(n) |-> layers[log + 1][Missing(n)[k]]]
      Rows(keep(_)) == FlattenSeq([i \in DOMAIN nodes |-> IF keep(nodes[i]) THEN RowAt(log, nodes[i]) ELSE <<>>])
  IN  /\ at_layer.phase = "decommit"
      /\ decommitment' =
           [hash_witness |-> decommitment.hash_witness \o FlattenSeq([i \in DOMAIN nodes |-> Hashes(nodes[i])]),
            column_witness |-> decommitment.column_witness \o Rows(LAMBDA n : n \notin QueriesAt(log)),
            queried |-> decommitment.queried \o Rows(LAMBDA n : n \in QueriesAt(log))]
      /\ layer_nodes' = IF log = 0 THEN <<>> ELSE nodes
      /\ at_layer' = IF log = 0 THEN [at_layer EXCEPT !.phase = "send", !.log = ColumnMaxLog] ELSE [at_layer EXCEPT !.log = log - 1]
      /\ UNCHANGED <<mixed_tree, verdict>>

(* The proof as it arrives: as sent, or with one list changed.             *)
Changed(list, other) ==
  {[list EXCEPT ![i] = other] : i \in {1, Len(list)} \cap DOMAIN list}
    \union {Append(list, other)} \union (IF list = <<>> THEN {} ELSE {Front(list)})
Forged == HashNode(<<>>, <<-1>>)
Arrive ==
  /\ at_layer.phase = "send"
  /\ \/ decommitment' = decommitment
     \/ \E hashes \in Changed(decommitment.hash_witness, Forged) :
          decommitment' = [decommitment EXCEPT !.hash_witness = hashes]
     \/ \E rows \in Changed(decommitment.column_witness, -1) :
          decommitment' = [decommitment EXCEPT !.column_witness = rows]
     \/ \E rows \in Changed(decommitment.queried, -1) :
          decommitment' = [decommitment EXCEPT !.queried = rows]
  /\ at_layer' = [at_layer EXCEPT !.phase = "verify", !.genuine = (decommitment' = decommitment)]
  /\ UNCHANGED <<mixed_tree, layer_nodes, verdict>>

(* verify: a node reads its children below or in the witness, then as many *)
(* values as the layer has columns.                                        *)
ReadNode(log, n, read) ==
  LET known == {read.below[i][1] : i \in DOMAIN read.below}
      HashOf(child) == (CHOOSE entry \in {read.below[i] : i \in DOMAIN read.below} : entry[1] = child)[2]
      missing == SelectSeq(<<2 * n, 2 * n + 1>>, LAMBDA child : child \notin known)
      needed == IF log = ColumnMaxLog THEN 0 ELSE Len(missing)
      Child(k) == LET child == 2 * n + k - 1
                  IN  IF child \in known THEN HashOf(child)
                      ELSE read.hash_witness[IF k = 2 /\ needed = 2 THEN 2 ELSE 1]
      asked == n \in QueriesAt(log)
      values == IF asked THEN read.queried ELSE read.column_witness
      count == Len(ColumnsOfLog(log))
  IN  IF read.error # "none" THEN read
      ELSE IF Len(read.hash_witness) < needed THEN [read EXCEPT !.error = "WitnessTooShort"]
      ELSE IF Len(values) < count
           THEN [read EXCEPT !.error = IF asked THEN "TooFewQueriedValues" ELSE "WitnessTooShort"]
      ELSE [read EXCEPT
              !.hash_witness = SubSeq(@, needed + 1, Len(@)),
              !.queried = IF asked THEN SubSeq(@, count + 1, Len(@)) ELSE @,
              !.column_witness = IF asked THEN @ ELSE SubSeq(@, count + 1, Len(@)),
              !.out = Append(@, <<n, HashNode(IF log = ColumnMaxLog THEN <<>> ELSE <<Child(1), Child(2)>>,
                                              SubSeq(values, 1, count))>>)]
(* Mutant: rows left over in the column witness are not refused. *)
VerdictLeftover(read) ==
  CASE read.error # "none" -> read.error
    [] read.error = "none" /\ read.hash_witness # <<>> -> "WitnessTooLong"
    [] read.error = "none" /\ read.hash_witness = <<>> /\ read.queried # <<>> -> "TooManyQueriedValues"
    [] read.error = "none" /\ read.hash_witness = <<>> /\ read.queried = <<>> ->
         IF read.out[1][2] # MixedRoot THEN "RootMismatch" ELSE "ok"
Verdict(read) ==
  CASE read.error # "none" -> read.error
    [] read.error = "none" /\ read.hash_witness # <<>> -> "WitnessTooLong"
    [] read.error = "none" /\ read.hash_witness = <<>> /\ read.queried # <<>> -> "TooManyQueriedValues"
    [] read.error = "none" /\ read.hash_witness = <<>> /\ read.queried = <<>> ->
         IF read.column_witness # <<>> THEN "WitnessTooLong"
         ELSE IF read.out[1][2] # MixedRoot THEN "RootMismatch" ELSE "ok"
VerifyLayer ==
  LET log == at_layer.log
      nodes == NodesOf(log, {layer_nodes[i][1] : i \in DOMAIN layer_nodes})
      start == [below |-> layer_nodes, out |-> <<>>, error |-> "none", queried |-> decommitment.queried,
                hash_witness |-> decommitment.hash_witness, column_witness |-> decommitment.column_witness]
      read == FoldLeft(LAMBDA acc, n : ReadNode(log, n, acc), start, nodes)
  IN  /\ at_layer.phase = "verify" /\ verdict = "none"
      /\ decommitment' = [hash_witness |-> read.hash_witness, column_witness |-> read.column_witness,
                          queried |-> read.queried]
      /\ layer_nodes' = read.out
      /\ IF log > 0 /\ read.error = "none"
         THEN at_layer' = [at_layer EXCEPT !.log = log - 1] /\ UNCHANGED verdict
         ELSE verdict' = Verdict(read) /\ UNCHANGED at_layer
      /\ UNCHANGED mixed_tree

MixedNext == DecommitLayer \/ Arrive \/ VerifyLayer

(* PROPERTIES *)
(* The opening of a tree is accepted as it was sent, and no other list of  *)
(* values or hashes is: not longer, not shorter, and not with one changed. *)
MixedTreesOpen == verdict # "none" => (verdict = "ok" <=> at_layer.genuine)
=============================================================================

---------------------------- MODULE LeafBuilders ----------------------------
(***************************************************************************)
(* How the SIMD backend builds the layers of a Merkle tree: one hash state *)
(* per lane, absorbed chunk by chunk into two buffers or, in low memory    *)
(* mode, in place from the last row to the first; then the layers above.   *)
(*                                                                         *)
(* The compression is an injective constructor: word w of a state is       *)
(* <<chain, w>>, where chain is <<previous chain, block, bytes, final>>,   *)
(* and <<chain, w, rest>> once reduced modulo P.  What is reduced is the   *)
(* word's bits: leaf_job.word, the same for every word of a tree, so that  *)
(* each of HashWordValues is met wherever a reduction is made.  Words of a *)
(* column are 1-tuples.  A column is [log |-> n, at |-> rows], rows from 0.*)
(***************************************************************************)
EXTENDS Integers, Sequences, FiniteSets, TLC, LaneLifting, PackedFields

CONSTANTS HashLogLanes,  \* LOG_N_LANES of the hash kernels; 16 words a block, 8 a state there
          HashWordValues \* bits of a word of a hash, of the u32s

ASSUME HashWordsAssumption == HashWordValues \subseteq Lane

VARIABLES leaf_job, states, next_states, absorbed, layer
leaf_vars == <<leaf_job, states, next_states, absorbed, layer>>

Lifted == INSTANCE LiftedMerkle

HashLanes == 2 ^ HashLogLanes
MsgWords == HashLanes
StateWords == HashLanes \div 2
HashVector == 0 .. HashLanes - 1
Upto(n) == 0 .. n - 1
Built(f) == f @@ <<>>
PadWord == <<0>>
PadVector == Built([l \in HashVector |-> PadWord])
Uninit == Built([w \in Upto(StateWords) |-> Built([l \in HashVector |-> <<-1>>])])

(* --- words of a vector ---                                               *)
deinterleave(a, b) ==
  LET both(i) == IF i < HashLanes THEN a[i] ELSE b[i - HashLanes]
  IN  <<Built([l \in HashVector |-> both(2 * l)]), Built([l \in HashVector |-> both(2 * l + 1)])>>
interleave(a, b) ==
  LET both(i) == IF i % 2 = 0 THEN a[i \div 2] ELSE b[i \div 2]
  IN  <<Built([l \in HashVector |-> both(l)]), Built([l \in HashVector |-> both(HashLanes + l)])>>
transpose_msgs(msgs) ==
  LET Round(data) ==
        LET pairs == Built([j \in Upto(MsgWords \div 2) |-> deinterleave(data[2 * j], data[2 * j + 1])])
        IN  Built([j \in Upto(MsgWords) |-> pairs[j % (MsgWords \div 2)][1 + j \div (MsgWords \div 2)]])
      rounds[r \in 0 .. HashLogLanes] == IF r = 0 THEN msgs ELSE Round(rounds[r - 1])
  IN  rounds[HashLogLanes]
untranspose_states(vectors) ==
  LET half == StateWords \div 2
      Round(data) ==
        LET pairs == Built([j \in Upto(half) |-> interleave(data[j], data[j + half])])
        IN  Built([j \in Upto(StateWords) |-> pairs[j \div 2][1 + (j % 2)]])
      rounds[r \in 0 .. HashLogLanes - 1] == IF r = 0 THEN vectors ELSE Round(rounds[r - 1])
  IN  rounds[HashLogLanes - 1]

to_lifted_simd(x, r, idx) == Built([l \in HashVector |-> x[LiftedLane(HashLogLanes, r, idx, l)]])

(* --- compression ---                                                     *)
ChainOf(words) ==
  LET chain == words[0][1]
  IN  IF \A w \in Upto(StateWords) : words[w] = <<chain, w>> THEN chain ELSE <<words>>
(* A block of the words of two hashes is kept as the two chains.           *)
BlockOf(words) ==
  LET n == Len(words[1])
      Rest(from) == SubSeq(words[from], 3, n)
      Whole(from) == \A w \in Upto(StateWords) :
        words[from + w] = <<words[from][1], w>> \o Rest(from)
  IN  IF n > 1 /\ Whole(1) /\ Whole(StateWords + 1)
      THEN <<words[1][1], words[StateWords + 1][1], Rest(1), Rest(StateWords + 1)>> ELSE words
compress16(vectors, msgs, bytes, final) ==
  LET chain == Built([l \in HashVector |->
                 <<ChainOf([w \in Upto(StateWords) |-> vectors[w][l]]),
                   BlockOf([j \in 1 .. MsgWords |-> msgs[j - 1][l]]), bytes, final>>])
  IN  Built([w \in Upto(StateWords) |-> Built([l \in HashVector |-> <<chain[l], w>>])])
compress_unfinalized(vectors, msgs, bytes) == compress16(vectors, msgs, bytes, FALSE)
compress_finalize(vectors, msgs, bytes) == compress16(vectors, msgs, bytes, TRUE)
INITIAL_STATE == Built([w \in Upto(StateWords) |-> Built([l \in HashVector |-> <<<<>>, w>>])])
(* M31::reduce of 64 bits; reduce_to_m31_simd has the 32 of the word.      *)
Reduced(word, m31) == IF m31 THEN Append(word, ReduceWide(leaf_job.word)) ELSE word

(* The streaming hasher of Blake2s.                                        *)
ScalarHash(words, m31) ==
  LET n == Len(words)
      blocks == IF n = 0 THEN 1 ELSE (n + MsgWords - 1) \div MsgWords
      Block(k) == [j \in 1 .. MsgWords |->
                     LET at == (k - 1) * MsgWords + j IN IF at <= n THEN words[at] ELSE PadWord]
      chain[k \in 0 .. blocks] ==
        IF k = 0 THEN <<>>
        ELSE <<chain[k - 1], BlockOf(Block(k)), 4 * (IF k = blocks THEN n ELSE k * MsgWords), k = blocks>>
  IN  Built([w \in Upto(StateWords) |-> Reduced(<<chain[blocks], w>>, m31)])
HashWords(hash) == [w \in 1 .. StateWords |-> hash[w - 1]]
hash_children(left, right, m31) == ScalarHash(HashWords(left) \o HashWords(right), m31)
hash_node(children, values, m31) ==
  ScalarHash((IF children = <<>> THEN <<>> ELSE HashWords(children[1]) \o HashWords(children[2])) \o values, m31)

(* Casts between hashes and vectors of their words.                        *)
HashesOf(vectors) ==
  Built([m \in HashVector |->
    Built([w \in Upto(StateWords) |->
      LET n == m * StateWords + w IN vectors[n \div HashLanes][n % HashLanes]])])
ChildWords(children, i) ==
  Built([j \in Upto(MsgWords) |-> Built([k \in HashVector |->
    LET n == HashLanes * j + k
    IN  children[2 * HashLanes * i + n \div StateWords][n % StateWords]])])
ReducedVectors(vectors, m31) ==
  Built([j \in Upto(StateWords) |-> Built([l \in HashVector |->
    IF m31 THEN Append(vectors[j][l], ReduceToM31Simd(leaf_job.word)) ELSE vectors[j][l]])])

(* --- columns ---                                                         *)
ColumnLog(c) == c.log - HashLogLanes
Data(column, i) == Built([l \in HashVector |-> column.at[i * HashLanes + l]])
LiftedData(column, log, i) ==
  LET r == log - ColumnLog(column) IN to_lifted_simd(Data(column, i \div 2 ^ r), r, i)
(* A block of columns from start, lifted to log; zeros past the last one.  *)
LiftedMessage(columns, start, log, i) ==
  Built([j \in Upto(MsgWords) |->
     IF start + j < Len(columns) THEN LiftedData(columns[start + j + 1], log, i)
     ELSE PadVector])
LiftState(vectors, r, i) == Built([w \in Upto(StateWords) |-> to_lifted_simd(vectors[w], r, i)])

LastChunkIndex(columns) == ((Len(columns) - 1) \div MsgWords) * MsgWords
get_lifting_indices(columns, last) ==
  LET chunks == (Len(columns) - 1) \div MsgWords
      found[k \in 0 .. chunks] ==
        IF k = 0 THEN [size |-> 0, at |-> <<>>]
        ELSE LET size == 2 ^ ColumnLog(columns[k * MsgWords + 1])
             IN  IF size > found[k - 1].size
                 THEN [size |-> size, at |-> Append(found[k - 1].at, (k - 1) * MsgWords)]
                 ELSE found[k - 1]
  IN  Append(found[chunks].at, last)

(* Row i after the columns of one window: the first block lifts its        *)
(* columns and the state, the others are of the size of the last column.   *)
AbsorbWindow(columns, source, start, end, ratio, bytes, i) ==
  LET log == ColumnLog(columns[end])
      blocks == (end - start) \div MsgWords
      absorb[k \in 1 .. blocks] ==
        IF k = 1
        THEN compress_unfinalized(LiftState(source, ratio, i),
                                  LiftedMessage(columns, start, log, i), bytes + 4 * MsgWords)
        ELSE compress_unfinalized(absorb[k - 1],
               Built([j \in Upto(MsgWords) |-> Data(columns[start + (k - 1) * MsgWords + j + 1], i)]),
               bytes + 4 * k * MsgWords)
  IN  absorb[blocks]
AbsorbLast(columns, source, ratio, bytes, i) ==
  compress_finalize(LiftState(source, ratio, i),
    LiftedMessage(columns, LastChunkIndex(columns), ColumnLog(columns[Len(columns)]), i), bytes)

(* build_next_layer: small layers hash by hash, others by lanes.           *)
NextLayerChunk(children, m31, i) ==
  HashesOf(ReducedVectors(untranspose_states(
    compress_finalize(INITIAL_STATE, transpose_msgs(ChildWords(children, i)), 4 * MsgWords)), m31))
SizeOf(f) == Cardinality(DOMAIN f)
build_next_layer(children, m31) ==
  LET size == SizeOf(children) \div 2
      chunks == Built([i \in Upto(size \div HashLanes) |-> NextLayerChunk(children, m31, i)])
  IN  IF size < HashLanes
      THEN Built([i \in Upto(size) |-> hash_children(children[2 * i], children[2 * i + 1], m31)])
      ELSE Built([i \in Upto(size) |-> chunks[i \div HashLanes][i % HashLanes]])

-----------------------------------------------------------------------------
(* The other layers a backend builds in one call. *)

(* commit_on_layer of the earlier trees, whose layers may have columns.    *)
CommitChunk(children, columns, i) ==
  LET blocks == (Len(columns) + MsgWords - 1) \div MsgWords
      first == IF children = <<>> THEN INITIAL_STATE
               ELSE compress_unfinalized(INITIAL_STATE, transpose_msgs(ChildWords(children, i)), 4 * MsgWords)
      before == IF children = <<>> THEN 0 ELSE 4 * MsgWords
      Block(k) == Built([j \in Upto(MsgWords) |->
                     LET at == (k - 1) * MsgWords + j + 1
                     IN  IF at <= Len(columns) THEN Data(columns[at], i) ELSE PadVector])
      absorb[k \in 0 .. blocks] ==
        IF k = 0 THEN first
        ELSE IF k < blocks THEN compress_unfinalized(absorb[k - 1], Block(k), before + 4 * k * MsgWords)
        ELSE compress_finalize(absorb[k - 1], Block(k), before + 4 * Len(columns))
      zeros == [j \in Upto(MsgWords) |-> PadVector]
  IN  HashesOf(untranspose_states(
        IF columns # <<>> THEN absorb[blocks]
        ELSE IF children = <<>> THEN compress_finalize(INITIAL_STATE, zeros, 0)
        ELSE compress_finalize(INITIAL_STATE, transpose_msgs(ChildWords(children, i)), 4 * MsgWords)))
RowOf(columns, i) == [c \in DOMAIN columns |-> columns[c].at[i]]
commit_on_layer_cpu(log, children, columns, m31) ==
  Built([i \in Upto(2 ^ log) |->
    hash_node(IF children = <<>> THEN <<>> ELSE <<children[2 * i], children[2 * i + 1]>>, RowOf(columns, i), m31)])
commit_on_layer_m31(hashes, m31) ==
  Built([i \in DOMAIN hashes |-> Built([w \in Upto(StateWords) |-> Reduced(hashes[i][w], m31)])])
commit_on_layer(log, children, columns, m31) ==
  LET chunks == Built([i \in Upto(2 ^ log \div HashLanes) |-> CommitChunk(children, columns, i)])
  IN  IF log < HashLogLanes
      THEN commit_on_layer_m31(commit_on_layer_cpu(log, children, columns, FALSE), m31)
      ELSE commit_on_layer_m31([i \in Upto(2 ^ log) |-> chunks[i \div HashLanes][i % HashLanes]], m31)

(* pack_leaves_input: rows of PACKED_LEAF_SIZE vectors are transposed, and *)
(* a column too short for that is packed row by row.                       *)
PACKED_LEAF_SIZE == 4
transpose_packed_leaf(values) ==
  [offset \in Upto(PACKED_LEAF_SIZE) |->
     [lane \in HashVector |->
        LET width == HashLanes \div PACKED_LEAF_SIZE
        IN  values[lane \div width][(lane % width) * PACKED_LEAF_SIZE + offset]]]
pack_leaves_input(column) ==
  LET length == 2 ^ column.log \div PACKED_LEAF_SIZE
      rows == [row \in Upto(length \div HashLanes) |->
                 transpose_packed_leaf([j \in Upto(PACKED_LEAF_SIZE) |-> Data(column, row * PACKED_LEAF_SIZE + j)])]
  IN  [o \in 1 .. PACKED_LEAF_SIZE |->
         [log |-> column.log - 2,
          at |-> Built([i \in Upto(length) |->
                   IF i < (length \div HashLanes) * HashLanes
                   THEN rows[i \div HashLanes][o - 1][i % HashLanes]
                   ELSE column.at[i * PACKED_LEAF_SIZE + o - 1]])]]

(* Poseidon252: states of three felts are the chain of what they absorbed. *)
ELEMENTS_IN_BLOCK == MsgWords \div 2
FeltsOf(words) ==
  [k \in 1 .. (Len(words) + ELEMENTS_IN_BLOCK - 1) \div ELEMENTS_IN_BLOCK |->
     SubSeq(words, (k - 1) * ELEMENTS_IN_BLOCK + 1,
            IF k * ELEMENTS_IN_BLOCK < Len(words) THEN k * ELEMENTS_IN_BLOCK ELSE Len(words))]
poseidon_update(state, felts) == Append(state, felts)
(* Two felts are absorbed first; the rest is padded in the state itself.   *)
poseidon_finalize(state, felts) ==
  IF Len(felts) = 2 THEN Append(Append(state, felts), <<>>) ELSE Append(state, felts)
PoseidonLeafCpu(row) ==
  LET whole == Len(row) \div MsgWords
      fed[k \in 0 .. whole] ==
        IF k = 0 THEN <<>>
        ELSE poseidon_update(fed[k - 1], FeltsOf(SubSeq(row, (k - 1) * MsgWords + 1, k * MsgWords)))
  IN  poseidon_finalize(fed[whole], FeltsOf(SubSeq(row, whole * MsgWords + 1, Len(row))))
PoseidonLeaves(columns, lifting) ==
  LET chunks == (Len(columns) - 1) \div MsgWords
      End(k) == IF k > chunks THEN Len(columns) ELSE k * MsgWords
      LogAt(k) == IF k = 0 THEN 1 ELSE columns[End(k)].log
      Message(k, i) == [j \in 1 .. End(k) - (k - 1) * MsgWords |->
                          LET c == columns[(k - 1) * MsgWords + j] IN c.at[Lifted!Lift(i, LogAt(k) - c.log)]]
      fed[k \in 0 .. chunks] ==
        IF k = 0 THEN [i \in Upto(2) |-> <<>>]
        ELSE Built([i \in Upto(2 ^ LogAt(k)) |->
               poseidon_update(fed[k - 1][Lifted!Lift(i, LogAt(k) - LogAt(k - 1))], FeltsOf(Message(k, i)))])
      top == LogAt(chunks + 1)
      leaves == Built([i \in Upto(2 ^ top) |->
                  poseidon_finalize(fed[chunks][Lifted!Lift(i, top - LogAt(chunks))], FeltsOf(Message(chunks + 1, i)))])
  IN  Built([i \in Upto(2 ^ lifting) |-> leaves[Lifted!Lift(i, lifting - top)]])

-----------------------------------------------------------------------------
(* Building a tree. *)

(* Bounds: columns by their logs, in groups of increasing size.            *)
Groups == {<<<<HashLogLanes, 3>>>>,
           <<<<HashLogLanes + 1, MsgWords>>>>,
           <<<<HashLogLanes, MsgWords + 2>>, <<HashLogLanes + 1, MsgWords - 1>>>>,
           <<<<HashLogLanes, 2>>, <<HashLogLanes + 1, 3 * MsgWords>>, <<HashLogLanes + 2, 1>>>>,
           <<<<HashLogLanes, MsgWords>>, <<HashLogLanes + 2, MsgWords + 1>>>>,
           <<<<1, 2>>, <<HashLogLanes + 1, MsgWords>>>>}
LogsOf(groups) ==
  LET logs[k \in 0 .. Len(groups)] ==
        IF k = 0 THEN <<>> ELSE logs[k - 1] \o [j \in 1 .. groups[k][2] |-> groups[k][1]]
  IN  logs[Len(groups)]
ColumnsOf(logs) ==
  [c \in DOMAIN logs |-> [log |-> logs[c], at |-> Built([i \in Upto(2 ^ logs[c]) |-> <<64 * c + i>>])]]
NoTree == [op |-> "none", logs |-> <<>>, lifting |-> 0, mmap |-> FALSE, m31 |-> FALSE, word |-> 0]
ColumnsByLogs == Built([logs \in {LogsOf(g) : g \in Groups} \union {<<log>> : log \in 3 .. HashLogLanes + 3} \union {<<>>} |-> ColumnsOf(logs)])
TreeColumns == ColumnsByLogs[leaf_job.logs]
Top(logs) == logs[Len(logs)]
Tree(op, logs, lifting, mmap, m31) ==
  {[op |-> op, logs |-> logs, lifting |-> lifting, mmap |-> mmap, m31 |-> m31, word |-> word] :
     word \in IF m31 THEN HashWordValues ELSE {0}}
LeafRequests ==
  UNION {Tree(op, logs, Top(logs) + above, mmap, ~mmap) :
           op \in {"leaves", "first_layer", "poseidon"}, logs \in {LogsOf(g) : g \in Groups},
           above \in {0, 2}, mmap \in BOOLEAN}
    \union Tree("leaves", <<>>, 0, FALSE, FALSE)
    \union UNION {Tree("pack", <<log>>, log - 2, FALSE, FALSE) : log \in 3 .. HashLogLanes + 3}
    \union UNION {Tree("mixed", logs, Top(logs), FALSE, m31) : logs \in {LogsOf(g) : g \in Groups}, m31 \in BOOLEAN}
Feasible(r) == ~(r.op \in {"leaves", "poseidon"} /\ r.mmap)

NotStarted == [stage |-> "start", window |-> 1, row |-> 0, bytes |-> 0, log |-> 0]
LeafIdle == leaf_job = NoTree /\ states = <<>> /\ next_states = <<>> /\ absorbed = NotStarted /\ layer = <<>>
LeafInit ==
  /\ leaf_job \in {r \in LeafRequests : Feasible(r)}
  /\ states = <<>> /\ next_states = <<>> /\ layer = <<>>
  /\ absorbed = NotStarted

Lanewise == leaf_job.logs # <<>> /\ TreeColumns[1].log >= HashLogLanes
              /\ (leaf_job.op = "first_layer" => leaf_job.lifting > HashLogLanes)
CpuLeaves ==
  LET leaves == Lifted!build_leaves(TreeColumns, leaf_job.lifting)
  IN  Built([i \in DOMAIN leaves |-> ScalarHash(leaves[i][1], leaf_job.m31)])
MaxLog == ColumnLog(TreeColumns[Len(TreeColumns)])
Windows == get_lifting_indices(TreeColumns, LastChunkIndex(TreeColumns))
LogOfWindow(k) == IF k < Len(Windows) THEN ColumnLog(TreeColumns[Windows[k + 1]]) ELSE MaxLog
Enter(k, bytes, log) ==
  absorbed' = [stage |-> IF k < Len(Windows) THEN "absorb" ELSE "last", window |-> k,
               row |-> 2 ^ LogOfWindow(k) - 1, bytes |-> bytes, log |-> log]
RowsBefore == leaf_job.op \in {"leaves", "first_layer"}

(* Layers of one call, and small trees, which go to the CPU.               *)
BuildSmall ==
  /\ absorbed.stage = "start" /\ RowsBefore /\ ~Lanewise
  /\ layer' = IF leaf_job.op = "first_layer" THEN build_next_layer(CpuLeaves, leaf_job.m31) ELSE CpuLeaves
  /\ absorbed' = [NotStarted EXCEPT !.stage = "built"]
  /\ UNCHANGED <<leaf_job, states, next_states>>
BuildPoseidon ==
  /\ absorbed.stage = "start" /\ leaf_job.op = "poseidon"
  /\ LET leaves == Lifted!build_leaves(TreeColumns, leaf_job.lifting)
     IN  layer' = IF TreeColumns[1].log < HashLogLanes
                  THEN Built([i \in DOMAIN leaves |-> PoseidonLeafCpu(leaves[i][1])])
                  ELSE PoseidonLeaves(TreeColumns, leaf_job.lifting)
  /\ absorbed' = [NotStarted EXCEPT !.stage = "done"]
  /\ UNCHANGED <<leaf_job, states, next_states>>
PackLeaves ==
  /\ absorbed.stage = "start" /\ leaf_job.op = "pack"
  /\ layer' = pack_leaves_input(TreeColumns[1])
  /\ absorbed' = [NotStarted EXCEPT !.stage = "done"]
  /\ UNCHANGED <<leaf_job, states, next_states>>
(* Both buffers are of the largest size; only the first is initialized.    *)
Allocate ==
  /\ absorbed.stage = "start" /\ RowsBefore /\ Lanewise
  /\ states' = Built([i \in Upto(2 ^ MaxLog) |-> INITIAL_STATE])
  /\ next_states' = IF leaf_job.mmap THEN <<>> ELSE Built([i \in Upto(2 ^ MaxLog) |-> Uninit])
  /\ Enter(1, 0, 0)
  /\ UNCHANGED <<leaf_job, layer>>

Ratio == LogOfWindow(absorbed.window) - absorbed.log
(* Low memory: a row is overwritten by what it and lower rows hold.        *)
AbsorbInPlace ==
  LET i == absorbed.row
      k == absorbed.window
      bytes == absorbed.bytes + 4 * (Windows[k + 1] - Windows[k])
  IN  /\ absorbed.stage = "absorb" /\ leaf_job.mmap
      /\ states' = [states EXCEPT ![i] =
           AbsorbWindow(TreeColumns, states[i \div 2 ^ Ratio], Windows[k], Windows[k + 1], Ratio, absorbed.bytes, i)]
      /\ IF i > 0 THEN absorbed' = [absorbed EXCEPT !.row = i - 1]
         ELSE Enter(k + 1, bytes, LogOfWindow(k))
      /\ UNCHANGED <<leaf_job, next_states, layer>>
(* Otherwise the rows of a window go to the other buffer, then a swap.     *)
AbsorbAndSwap ==
  LET k == absorbed.window
      bytes == absorbed.bytes + 4 * (Windows[k + 1] - Windows[k])
  IN  /\ absorbed.stage = "absorb" /\ ~leaf_job.mmap
      /\ states' = [i \in Upto(2 ^ LogOfWindow(k)) |->
           AbsorbWindow(TreeColumns, states[i \div 2 ^ Ratio], Windows[k], Windows[k + 1], Ratio, absorbed.bytes, i)]
             @@ next_states
      /\ next_states' = states
      /\ Enter(k + 1, bytes, LogOfWindow(k))
      /\ UNCHANGED <<leaf_job, layer>>
(* The last chunk finalizes.                                               *)
FinalBytes == absorbed.bytes + 4 * (Len(TreeColumns) - LastChunkIndex(TreeColumns))
FinishInPlace ==
  LET i == absorbed.row
  IN  /\ absorbed.stage = "last" /\ leaf_job.mmap
      /\ states' = [states EXCEPT ![i] =
           AbsorbLast(TreeColumns, states[i \div 2 ^ Ratio], Ratio, FinalBytes, i)]
      /\ absorbed' = IF i > 0 THEN [absorbed EXCEPT !.row = i - 1] ELSE [absorbed EXCEPT !.stage = "output"]
      /\ UNCHANGED <<leaf_job, next_states, layer>>
FinishToNext ==
  /\ absorbed.stage = "last" /\ ~leaf_job.mmap
  /\ next_states' = [i \in Upto(2 ^ MaxLog) |->
       AbsorbLast(TreeColumns, states[i \div 2 ^ Ratio], Ratio, FinalBytes, i)] @@ next_states
  /\ absorbed' = [absorbed EXCEPT !.stage = "output"]
  /\ UNCHANGED <<leaf_job, states, layer>>

Finished == IF leaf_job.mmap THEN states ELSE next_states
LeafVectors(i) ==
  LET r == leaf_job.lifting - HashLogLanes - MaxLog
  IN  ReducedVectors(untranspose_states(LiftState(Finished[i \div 2 ^ r], r, i)), leaf_job.m31)
WriteLeaves ==
  /\ absorbed.stage = "output" /\ leaf_job.op = "leaves"
  /\ LET chunks == Built([i \in Upto(2 ^ (leaf_job.lifting - HashLogLanes)) |-> HashesOf(LeafVectors(i))])
     IN  layer' = Built([i \in Upto(2 ^ leaf_job.lifting) |-> chunks[i \div HashLanes][i % HashLanes]])
  /\ absorbed' = [absorbed EXCEPT !.stage = "built"]
  /\ UNCHANGED <<leaf_job, states, next_states>>
(* The leaves of two states are hashed in registers, never stored.         *)
ParentsOf(k) ==
  LET even == LeafVectors(2 * k)
      odd == LeafVectors(2 * k + 1)
      msgs == [j \in Upto(MsgWords) |-> IF j < StateWords THEN even[j] ELSE odd[j - StateWords]]
  IN  HashesOf(ReducedVectors(untranspose_states(
        compress_finalize(INITIAL_STATE, transpose_msgs(msgs), 4 * MsgWords)), leaf_job.m31))
WriteFirstLayer ==
  /\ absorbed.stage = "output" /\ leaf_job.op = "first_layer"
  /\ LET chunks == Built([k \in Upto(2 ^ (leaf_job.lifting - HashLogLanes - 1)) |-> ParentsOf(k)])
     IN  layer' = Built([i \in Upto(2 ^ (leaf_job.lifting - 1)) |-> chunks[i \div HashLanes][i % HashLanes]])
  /\ absorbed' = [absorbed EXCEPT !.stage = "built"]
  /\ UNCHANGED <<leaf_job, states, next_states>>
NextLayer ==
  /\ absorbed.stage = "built" /\ 1 \in DOMAIN layer
  /\ layer' = build_next_layer(layer, leaf_job.m31)
  /\ UNCHANGED <<leaf_job, states, next_states, absorbed>>
(* The earlier trees: each layer with the columns of its size.             *)
ColumnsAt(log) == SelectSeq(TreeColumns, LAMBDA c : c.log = log)
CommitLayer ==
  LET log == IF layer = <<>> THEN leaf_job.lifting ELSE absorbed.row - 1
  IN  /\ leaf_job.op = "mixed" /\ (layer = <<>> \/ absorbed.row > 0)
      /\ layer' = commit_on_layer(log, layer, ColumnsAt(log), leaf_job.m31)
      /\ absorbed' = [absorbed EXCEPT !.stage = "built_mixed", !.row = log]
      /\ UNCHANGED <<leaf_job, states, next_states>>

LeafNext ==
  \/ BuildSmall \/ BuildPoseidon \/ PackLeaves \/ Allocate
  \/ AbsorbInPlace \/ AbsorbAndSwap \/ FinishInPlace \/ FinishToNext
  \/ WriteLeaves \/ WriteFirstLayer \/ NextLayer \/ CommitLayer
LeafSpec == LeafInit /\ [][LeafNext]_leaf_vars

(* PROPERTIES *)
NodeOfLeaves ==
  LET leaves == CpuLeaves
      node[n \in (0 .. leaf_job.lifting) \X Nat] ==
        IF n[1] = leaf_job.lifting THEN leaves[n[2]]
        ELSE hash_children(node[<<n[1] + 1, 2 * n[2]>>], node[<<n[1] + 1, 2 * n[2] + 1>>], leaf_job.m31)
  IN  node
MixedNode ==
  LET node[n \in (0 .. leaf_job.lifting) \X Nat] ==
        hash_node(IF n[1] = leaf_job.lifting THEN <<>>
                  ELSE <<node[<<n[1] + 1, 2 * n[2]>>], node[<<n[1] + 1, 2 * n[2] + 1>>]>>,
                  RowOf(ColumnsAt(n[1]), n[2]), leaf_job.m31)
  IN  node
HeightOf(l) == CHOOSE h \in 0 .. 12 : 2 ^ h = SizeOf(l)
(* Every layer is the one that the scalar hasher makes of the rows of the  *)
(* lifted columns.                                                         *)
LayersAreScalar ==
  /\ absorbed.stage = "built" => LET node == NodeOfLeaves IN \A i \in DOMAIN layer : layer[i] = node[<<HeightOf(layer), i>>]
  /\ absorbed.stage = "built_mixed" => LET node == MixedNode IN \A i \in DOMAIN layer : layer[i] = node[<<absorbed.row, i>>]
(* A layer, or one under it, has its words reduced in the 32 bits of a     *)
(* lane: the leaves, or a layer above them that is not too small.          *)
ReducedByLanes ==
  /\ absorbed.stage = "built" /\ leaf_job.m31
  /\ Lanewise \/ (SizeOf(layer) < 2 ^ leaf_job.lifting /\ leaf_job.lifting > HashLogLanes)
=============================================================================

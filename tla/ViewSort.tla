----------------------------- MODULE ViewSort -----------------------------
(* How a task of the DC benchmark makes one view (NPB3.4-OMP/DC/extbuild.c):*)
(* the rows of the parent are aggregated in a tree; each time the tree is   *)
(* full it is written to a file as a sorted chunk; in the end the chunks are*)
(* merged through buffers that share the memory of the tree.  With IN_CORE  *)
(* the tree has to be enough.                                               *)
(* A row is in memory and in the files one record; sizes and offsets count  *)
(* records.                                                                 *)
EXTENDS Integers, Sequences, FiniteSets, FiniteSetsExt, RedBlackTree, Heaps

CONSTANTS Inputs,             \* sequences of rows a view is made from
          Memories,           \* memoryLimit, as tree nodes and as records
          StaleChunks,        \* what earlier views may have left in the file of chunks
          MAX_NUM_OF_CHUNKS   \* 1024 in the code

\* The rows a view is made from have the same attributes.
ASSUME InputsAssumption ==
  \A list \in Inputs :
    /\ list \in Seq([key : Seq(Int), sum : Int])
    /\ \A i, j \in DOMAIN list : Len(list[i].key) = Len(list[j].key)

\* A tree node takes at least the memory of a row.  A memory without room for
\* one node is not checked for: the counter of free nodes would wrap.
ASSUME MemoriesAssumption ==
  \A m \in Memories : m.nodes \in Nat \ {0} /\ m.records \in Nat /\ m.records >= m.nodes
ASSUME ChunksAssumption == MAX_NUM_OF_CHUNKS \in Nat \ {0}

VARIABLES
  rows,          \* the rows to read: the input file, or the parent view
  memory,        \* memoryLimit
  inCore,        \* built with IN_CORE
  pc,            \* where the task is
  iRec,          \* rows read
  tree,
  fileOfChunks,  \* its records
  filePos,       \* position of the next chunk in it
  chunksParams,  \* the chunks, in the order they were written
  memPool,       \* multiChunkBuffer: records by position, while merging
  outputBuffer,  \* the row that is being aggregated; none at first (first_one)
  view,          \* rows written to viewFile (in core: those the checksum has seen)
  nViewRows,
  mSums,
  checksums

viewVars == <<rows, memory, inCore, pc, iRec, tree, fileOfChunks, filePos, chunksParams, memPool,
          outputBuffer, view, nViewRows, mSums, checksums>>

formed == <<rows, memory, inCore, iRec, tree, fileOfChunks, filePos>>

G == INSTANCE GroupBy WITH
       answer <- [state |-> IF pc \in {"done", "failed"} THEN pc ELSE "pending",
                  view |-> IF pc = "done" THEN view ELSE <<>>,
                  checksum |-> IF pc = "done" THEN checksums ELSE 0]

-----------------------------------------------------------------------------
numberOfChunks == Len(chunksParams)

\* mutant: a part is put aside for the output.
PartForOutput == memory.records \div (numberOfChunks + 1)

\* The memory is dealt to the chunks in equal parts.
regSubChunkSize == IF numberOfChunks = 0 THEN 0 ELSE memory.records \div numberOfChunks

NoRow == [key |-> <<>>, sum |-> 0]

\* fwrite() at a position: what follows it stays in the file.
Overwrite(file, pos, records) ==
  SubSeq(file, 1, pos) \o records \o SubSeq(file, pos + Len(records) + 1, Len(file))

\* InitAdcViewCntl(), the rewound files and the tree RunFormation() starts with.
ViewInit ==
  /\ rows \in Inputs /\ memory \in Memories /\ inCore \in BOOLEAN
  /\ pc = "form" /\ iRec = 0
  /\ tree = CreateEmptyTree(memory)
  /\ fileOfChunks \in StaleChunks /\ filePos = 0
  /\ chunksParams = <<>> /\ memPool = [i \in 0 .. memory.records - 1 |-> NoRow]
  /\ outputBuffer = NoRow /\ view = <<>>
  /\ nViewRows = 0 /\ mSums = 0 /\ checksums = 0

\* mutant: the records of the next chunk are looked for one record too early.
OffsetOneTooSmall(t) ==
  chunksParams' = Append(chunksParams, [curChunkNum |-> Count(t),
                                        chunkOffset |-> Max({0, filePos - 1}),
                                        posSubChunk |-> 0, curSubChunk |-> 0])

\* The parameters of the next chunk.
AddChunk(t) ==
  chunksParams' = Append(chunksParams, [curChunkNum |-> Count(t), chunkOffset |-> filePos,
                                        posSubChunk |-> 0, curSubChunk |-> 0])

\* WriteChunkToDisk()
WriteChunk(t) ==
  /\ fileOfChunks' = Overwrite(fileOfChunks, filePos, InOrder(t))
  /\ filePos' = filePos + Count(t)

NoWrite == UNCHANGED <<fileOfChunks, filePos>>

\* A turn of the loop of RunFormation(), SelectToView() included.
FormRun ==
  /\ pc = "form" /\ ~inCore /\ iRec < Len(rows)
  /\ iRec' = iRec + 1
  /\ LET grown == TreeInsert(tree, rows[iRec + 1])
     IN  IF ~grown.memoryIsFull
         THEN tree' = grown /\ NoWrite /\ UNCHANGED <<chunksParams, pc>>
         ELSE /\ AddChunk(grown)
              /\ IF numberOfChunks + 1 >= MAX_NUM_OF_CHUNKS
                 THEN tree' = grown /\ NoWrite /\ pc' = "failed"
                 ELSE tree' = InitializeTree(memory.nodes) /\ WriteChunk(grown) /\ pc' = pc
  /\ UNCHANGED <<rows, memory, inCore, memPool, outputBuffer, view, nViewRows, mSums, checksums>>

\* After the loop: what is left in the tree is the last chunk, if there are others.
EndRuns ==
  /\ pc = "form" /\ ~inCore /\ iRec = Len(rows)
  /\ IF numberOfChunks # 0 /\ Count(tree) # 0 THEN AddChunk(tree) /\ WriteChunk(tree)
     ELSE UNCHANGED chunksParams /\ NoWrite
  /\ pc' = IF numberOfChunks = 0 THEN "write" ELSE "merge"
  /\ UNCHANGED <<rows, memory, inCore, iRec, tree, memPool, outputBuffer, view, nViewRows,
                 mSums, checksums>>

\* ComputeMemoryFittedView(): a tree that is full after the last row fails too.
FitInMemory ==
  /\ pc = "form" /\ inCore
  /\ IF iRec < Len(rows)
     THEN LET grown == TreeInsert(tree, rows[iRec + 1])
          IN  tree' = grown /\ iRec' = iRec + 1 /\ pc' = IF grown.memoryIsFull THEN "failed" ELSE pc
     ELSE UNCHANGED <<tree, iRec>> /\ pc' = "write"
  /\ UNCHANGED <<rows, memory, inCore, fileOfChunks, filePos, chunksParams, memPool,
                 outputBuffer, view, nViewRows, mSums, checksums>>

\* No chunk was needed.  WriteViewToDiskCS(), or computeChecksum() in core,
\* which adds up no mSums.
WriteView ==
  /\ pc = "write"
  /\ view' = InOrder(tree)
  /\ nViewRows' = Count(tree)
  /\ mSums' = IF inCore THEN mSums ELSE MapThenSumSet(LAMBDA i : view'[i].sum, DOMAIN view')
  /\ checksums' = MapThenSumSet(LAMBDA i : (i * view'[i].sum) % measbound, DOMAIN view')
  /\ pc' = "done"
  /\ UNCHANGED <<formed, chunksParams, memPool, outputBuffer>>

\* mutant: what is read is not subtracted from what is left in the file.
ChunkNumKept(c) ==
  LET p == chunksParams[c]
      n == Min({p.curChunkNum, regSubChunkSize})
      pos == IF n < regSubChunkSize THEN regSubChunkSize - n ELSE 0
  IN  [param |-> [p EXCEPT !.posSubChunk = pos, !.curSubChunk = n],
       first |-> (c - 1) * regSubChunkSize + pos,
       records |-> SubSeq(fileOfChunks, p.chunkOffset + 1, p.chunkOffset + n)]

\* ReadSubChunk(): the next records of a chunk go to the part of the memory
\* that is its own, the rest of a chunk to the end of that part.
SubChunk(c) ==
  LET p == chunksParams[c]
      n == Min({p.curChunkNum, regSubChunkSize})
      pos == IF n < regSubChunkSize THEN regSubChunkSize - n ELSE 0
  IN  [param |-> [curChunkNum |-> p.curChunkNum - n,
                  chunkOffset |-> IF n < regSubChunkSize THEN -1 ELSE p.chunkOffset + n,
                  posSubChunk |-> pos, curSubChunk |-> n],
       first |-> (c - 1) * regSubChunkSize + pos,
       records |-> SubSeq(fileOfChunks, p.chunkOffset + 1, p.chunkOffset + n)]

\* SeekAndReadNextSubChunk()
Filled(pool, s) ==
  [i \in DOMAIN pool |-> IF i - s.first + 1 \in 1 .. Len(s.records)
                         THEN s.records[i - s.first + 1] ELSE pool[i]]

\* MultiWayMerge() before its loop: the first records of every chunk.
StartMerge ==
  /\ pc = "merge"
  /\ nViewRows' = 0
  /\ IF regSubChunkSize = 0
     THEN pc' = "failed" /\ UNCHANGED <<chunksParams, memPool>>
     ELSE /\ pc' = "merging"
          /\ chunksParams' = [c \in 1 .. numberOfChunks |-> SubChunk(c).param]
          /\ memPool' = [i \in DOMAIN memPool |->
               LET c == i \div regSubChunkSize + 1
               IN  IF c <= numberOfChunks THEN Filled(memPool, SubChunk(c))[i] ELSE memPool[i]]
  /\ UNCHANGED <<formed, outputBuffer, view, mSums, checksums>>

\* The row a chunk has to offer.
FirstOf(c) == memPool[(c - 1) * regSubChunkSize + chunksParams[c].posSubChunk]

\* mutant: the chunks are emptied one after the other.
FirstOffering == Min({c \in 1 .. numberOfChunks : chunksParams[c].curSubChunk > 0})

\* The first of the chunks that offer the least key.
Least ==
  LET offering == {c \in 1 .. numberOfChunks : chunksParams[c].curSubChunk > 0}
  IN  Min({c \in offering : \A d \in offering : KeyComp(FirstOf(d).key, FirstOf(c).key) >= 0})

\* The aggregated row is complete: it is written and counted.
Put(row) ==
  /\ view' = Append(view, row)
  /\ nViewRows' = nViewRows + 1
  /\ mSums' = mSums + row.sum
  /\ checksums' = checksums + (((nViewRows + 1) * row.sum) % measbound)

\* Equal keys are aggregated, another key puts out the row so far.
Aggregate(row) ==
  IF outputBuffer # NoRow /\ KeyComp(outputBuffer.key, row.key) = 0
  THEN outputBuffer' = [outputBuffer EXCEPT !.sum = @ + row.sum]
       /\ UNCHANGED <<view, nViewRows, mSums, checksums>>
  ELSE /\ outputBuffer' = row
       /\ IF outputBuffer = NoRow THEN UNCHANGED <<view, nViewRows, mSums, checksums>>
          ELSE Put(outputBuffer)

\* A turn of the loop of MultiWayMerge().
MergeStep ==
  /\ pc = "merging"
  /\ LET c == Least
         p == chunksParams[c]
         stepped == [p EXCEPT !.curSubChunk = @ - 1, !.posSubChunk = @ + 1]
         others == {d \in 1 .. numberOfChunks : d # c}
         empty == /\ stepped.curSubChunk = 0 /\ stepped.curChunkNum = 0
                  /\ \A d \in others : chunksParams[d].curSubChunk = 0 /\ chunksParams[d].curChunkNum = 0
         refill == ~empty /\ stepped.curSubChunk = 0 /\ p.curChunkNum > 0
     IN  /\ Aggregate(FirstOf(c))
         /\ chunksParams' = [chunksParams EXCEPT ![c] = IF refill THEN SubChunk(c).param ELSE stepped]
         /\ memPool' = IF refill THEN Filled(memPool, SubChunk(c)) ELSE memPool
         /\ pc' = IF empty THEN "flush" ELSE pc
  /\ UNCHANGED formed

\* mutant: the last row stays in the buffer.
LastRowStays ==
  /\ pc = "flush"
  /\ pc' = "done"
  /\ UNCHANGED <<formed, chunksParams, memPool, outputBuffer, view, nViewRows, mSums, checksums>>

\* MultiWayMerge() after its loop.
EndMerge ==
  /\ pc = "flush"
  /\ Put(outputBuffer)
  /\ pc' = "done"
  /\ UNCHANGED <<formed, chunksParams, memPool, outputBuffer>>

ViewReturn == pc \in {"done", "failed"} /\ UNCHANGED viewVars

ViewNext ==
  \/ FormRun \/ EndRuns \/ FitInMemory \/ WriteView
  \/ StartMerge \/ MergeStep \/ EndMerge
  \/ ViewReturn

ViewSpec == ViewInit /\ [][ViewNext]_viewVars

-----------------------------------------------------------------------------
Working == pc \in {"form", "write"}

\* Insertions keep the tree a search tree with all its nodes, and so balanced
\* that a descent stays far below the MAX_TREE_HEIGHT of nodes[] and drcts[].
TreeIsBalanced ==
  Working =>
    /\ Balanced(tree)
    /\ Sorted(InOrder(tree)) /\ Len(InOrder(tree)) = Count(tree)
    /\ Bit[Height(tree)] <= (Count(tree) + 1) * (Count(tree) + 1)
    /\ tree.freeNodeCounter + Count(tree) = memory.nodes

\* Making a view fails only when its rows are too many for the memory: in core
\* when they do not leave a node of the tree free, otherwise when they give
\* more chunks than there may be, or than the memory has room for a record of.
FailsOnlyWhenSmall ==
  pc = "failed" =>
    IF inCore THEN Cardinality({rows[i].key : i \in DOMAIN rows}) >= memory.nodes
    ELSE Len(rows) >= memory.nodes * MAX_NUM_OF_CHUNKS \/ Len(rows) > memory.nodes * memory.records

\* The view that comes out, with its checksum, is the group-by of the rows,
\* whatever the chunks they went through; and none fails to come out but where
\* memory is too small for it.
IsGroupBy == G!GSpec /\ []FailsOnlyWhenSmall

RecordsLeft ==
  MapThenSumSet(LAMBDA c : chunksParams[c].curSubChunk + chunksParams[c].curChunkNum,
                1 .. numberOfChunks)

WorkLeft ==
  CASE pc = "form" -> 2 * Len(rows) - iRec + 4
    [] pc = "merge" -> Len(rows) + 3
    [] pc = "merging" -> RecordsLeft + 2
    [] pc \in {"write", "flush"} -> 1
    [] OTHER -> 0

\* Every step leaves less to do, down to nothing: the loops end, the one of
\* MultiWayMerge(), which has no condition of its own, included.
LoopsEnd == [][WorkLeft' < WorkLeft]_viewVars
=============================================================================

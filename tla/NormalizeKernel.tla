--------------------------- MODULE NormalizeKernel ---------------------------
(***************************************************************************)
(* launch_normalize and normalize_kernel: a capped grid of threads, each   *)
(* walking the NCHW tensor with the stride of the grid, in any order.  The *)
(* stub engine's row copying is here too, since the CUDA engine promises   *)
(* to shape its output the same way.                                       *)
(*                                                                         *)
(* An element is the row and column of the batch it came from and the      *)
(* channels it was normalised with.                                        *)
(***************************************************************************)
EXTENDS Integers, Sequences

CONSTANTS
    kBlockSize,  \* threads per block
    kMaxBlocks   \* the cap on the grid

ASSUME KernelAssumption == kBlockSize \in Nat \ {0} /\ kMaxBlocks \in Nat \ {0}

VARIABLES
    grid,  \* total, c, hw and the stride of the launch
    idx,   \* where each thread of the grid is
    data   \* the tensor, by flat index

kernelVars == <<grid, idx, data>>

Element(row, col) == [row |-> row, col |-> col, by |-> <<>>]
Zero == Element(-1, 0)
NoGrid == [total |-> 0, c |-> 1, hw |-> 1, stride |-> 1]

KernelInit == grid = NoGrid /\ idx = <<>> /\ data = <<>>

\* A batch as the scheduler concatenates it: n rows of input_elems.
Batch(n, input_elems) ==
    [k \in 0..(n * input_elems - 1) |-> Element(k \div input_elems, k % input_elems)]

\* Row i of the output starts with the first elements of row i of the source;
\* the rest of it stays zero.
CopyRows(source, n, input_elems, output_elems) ==
    LET copy_elems == IF input_elems < output_elems THEN input_elems ELSE output_elems
    IN  [k \in 0..(n * output_elems - 1) |->
           LET i == k \div output_elems
               j == k % output_elems
           IN  IF j < copy_elems THEN source[i * input_elems + j] ELSE Zero]

\* Mutant: the grid has no block for a last, partial one.
BlocksRoundedDown(total) ==
    LET needed == total \div kBlockSize
    IN  IF needed < kMaxBlocks THEN needed ELSE kMaxBlocks

Blocks(total) ==
    LET needed == (total + kBlockSize - 1) \div kBlockSize
    IN  IF needed < kMaxBlocks THEN needed ELSE kMaxBlocks

\* What launch_normalize checks before it launches; the pointers are those of
\* the engine's own buffers.
Launchable(n, c, hw) == n > 0 /\ c > 0 /\ hw > 0

Launch(n, c, hw) ==
    LET total == n * c * hw
        stride == kBlockSize * Blocks(total)
    IN  /\ Launchable(n, c, hw)
        /\ grid' = [total |-> total, c |-> c, hw |-> hw, stride |-> stride]
        /\ idx' = [t \in 0..(stride - 1) |-> t]

\* One turn of a thread's loop: the constants of the element's channel, as they
\* are in device memory, are applied in place.
KernelStep(t, constants) ==
    LET k == idx[t]
        channel == (k \div grid.hw) % grid.c
    IN  /\ k < grid.total
        /\ data' = [data EXCEPT ![k].by = Append(@, constants[channel])]
        /\ idx' = [idx EXCEPT ![t] = k + grid.stride]
        /\ UNCHANGED grid

KernelDone == \A t \in DOMAIN idx : idx[t] >= grid.total
=============================================================================

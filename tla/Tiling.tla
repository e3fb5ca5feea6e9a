-------------------------------- MODULE Tiling --------------------------------
(***************************************************************************)
(* main and im2col of hello_world.c: the convolution in DDR3 memory.       *)
(* im2col copies the image into a matrix, one row for each weight of a     *)
(* filter and one column for each output.  Two loops then add the product  *)
(* of weights and matrix to the outputs, tile by tile: first in software   *)
(* (gemm_cpu), then with the accelerator, which gets of each block of      *)
(* PE_SIZE_Y rows only the words on its diagonals.  Both run over the same *)
(* outputs, so the second adds the convolution a second time.              *)
(*                                                                         *)
(* A step is one row of im2col or one tile: the program is sequential and  *)
(* reads all of a tile before it stores it.  What the accelerator makes of *)
(* a tile is the convolution that Accelerator shows; the order of the      *)
(* additions does not matter here, words are integers.  Tile_m_size is 1.  *)
(***************************************************************************)
EXTENDS Integers

CONSTANTS
    Sizes,                      \* the literals of main, a record for each variant
    Ksize, Stride, Pad,
    PE_SIZE_X, PE_SIZE_Y,
    Image(_), Weights(_)        \* the words of the two files

ASSUME SizesAssumption ==
    /\ {Ksize, Stride, PE_SIZE_X, PE_SIZE_Y} \subseteq Nat \ {0}
    /\ Pad \in Nat
    /\ \A s \in Sizes :
          /\ {s.c, s.h, s.w, s.num_filters, s.Tile_n_size, s.Tile_k_size}
                \subseteq Nat \ {0}
          /\ {s.IMAGE, s.IMG2COL, s.OUTPUT} \subseteq Nat
          /\ \A a \in 0 .. s.num_filters * Ksize * Ksize * s.c - 1 : Weights(a) \in Int
          /\ \A a \in 0 .. s.h * s.w * s.c - 1 : Image(a) \in Int

VARIABLES
    size,       \* the variant that is run
    DDR,
    loop,       \* where main is: "im2col", "gemm", "pe" or "done"
    c, i, j     \* its loop variables

tilingVars == <<size, DDR, loop, c, i, j>>

m == size.num_filters
n == size.h * size.w
k == Ksize * Ksize * size.c
height_col == (size.h + 2 * Pad - Ksize) \div Stride + 1
width_col == (size.w + 2 * Pad - Ksize) \div Stride + 1

Zone(base, words) == base .. base + words - 1
Output == Zone(size.OUTPUT, m * n)

\* What a loop over number terms adds up, in its order.
Total(terms, number) ==
    LET sum[q \in 0 .. number] == IF q = 0 THEN 0 ELSE sum[q - 1] + terms[q - 1]
    IN  sum[number]

-----------------------------------------------------------------------------
\* main has written image and weights and has cleared the outputs.
TilingInit ==
    /\ size \in Sizes
    /\ DDR = [a \in 0 .. size.OUTPUT + m * n - 1 |->
                IF a \in Output THEN 0
                ELSE IF a \in Zone(0, m * k) THEN Weights(a)
                ELSE IF a \in Zone(size.IMAGE, n * size.c)
                     THEN Image(a - size.IMAGE) ELSE 0]
    /\ loop = "im2col"
    /\ c = 0 /\ i = 0 /\ j = 0

get_pixel(row, col, channel) ==
    IF row - Pad \in 0 .. size.h - 1 /\ col - Pad \in 0 .. size.w - 1
    THEN DDR[size.IMAGE + col - Pad + size.w * (row - Pad + size.h * channel)]
    ELSE 0

col_index(h, w) == (c * height_col + h) * width_col + w

Im2col ==
    /\ loop = "im2col"
    /\ LET row == size.IMG2COL + col_index(0, 0)
       IN  DDR' = [a \in DOMAIN DDR |->
             IF a \in Zone(row, height_col * width_col)
             THEN get_pixel(((c \div Ksize) % Ksize) + ((a - row) \div width_col) * Stride,
                            (c % Ksize) + ((a - row) % width_col) * Stride,
                            (c \div Ksize) \div Ksize)
             ELSE DDR[a]]
    /\ c' = c + 1
    /\ loop' = IF c' = k THEN "gemm" ELSE loop
    /\ UNCHANGED <<size, i, j>>

-----------------------------------------------------------------------------
(***************************************************************************)
(* The product of tile p of the weights of filter i with tile (p, j) of    *)
(* the matrix, for column x of the tile.                                   *)
(***************************************************************************)
Tile_Weight(p, row) == DDR[i * k + p * size.Tile_k_size + row]
TileBase(p) == size.IMG2COL + p * size.Tile_k_size * n + j * size.Tile_n_size

gemm_cpu(p, x) ==
    Total([row \in 0 .. size.Tile_k_size - 1 |->
             Tile_Weight(p, row) * DDR[TileBase(p) + row * n + x]], size.Tile_k_size)

\* Slip: the edge group takes the column after its last one.
b_AddressPastTheEdge(group, block, index, width) ==
    group * PE_SIZE_X + block * PE_SIZE_Y * n
        + (IF index < width THEN index ELSE width + (index - width + 1) * n)

\* Where Tile_Img2Col_Reduced takes the words of a block from: the first row
\* for all columns of the group, then the other rows for its last column only.
b_Address(group, block, index, width) ==
    group * PE_SIZE_X + block * PE_SIZE_Y * n
        + (IF index < width THEN index ELSE width - 1 + (index - width + 1) * n)

\* Row r of the array meets word r + x of the block in column x.
PE_Instruction(p, x) ==
    LET group == x \div PE_SIZE_X
        width == IF group < size.Tile_n_size \div PE_SIZE_X THEN PE_SIZE_X
                                           ELSE size.Tile_n_size % PE_SIZE_X
    IN  Total([row \in 0 .. size.Tile_k_size - 1 |->
            Tile_Weight(p, row)
              * DDR[TileBase(p) + b_Address(group, row \div PE_SIZE_Y,
                                            (row % PE_SIZE_Y) + (x % PE_SIZE_X), width)]],
            size.Tile_k_size)

TileProduct(p, x) == IF loop = "pe" THEN PE_Instruction(p, x) ELSE gemm_cpu(p, x)

\* Load a tile of outputs, add the products of all p, store it.
AddToTile ==
    LET first == size.OUTPUT + i * n + j * size.Tile_n_size
    IN  DDR' = [a \in DOMAIN DDR |->
           IF a \in Zone(first, size.Tile_n_size)
           THEN DDR[a] + Total([p \in 0 .. k \div size.Tile_k_size - 1 |->
                                    TileProduct(p, a - first)], k \div size.Tile_k_size)
           ELSE DDR[a]]

\* Tiles that do not fit into n whole are left out.
NextTile(after) ==
    /\ j' = IF j + 1 < n \div size.Tile_n_size THEN j + 1 ELSE 0
    /\ i' = IF j' # 0 THEN i ELSE IF i + 1 < m THEN i + 1 ELSE 0
    /\ loop' = IF i' = 0 /\ j' = 0 THEN after ELSE loop
    /\ UNCHANGED <<size, c>>

GemmTile == loop = "gemm" /\ AddToTile /\ NextTile("pe")
PETile == loop = "pe" /\ AddToTile /\ NextTile("done")

TilingNext == Im2col \/ GemmTile \/ PETile

TilingSpec == TilingInit /\ [][TilingNext]_tilingVars

-----------------------------------------------------------------------------
\* Weights, image and matrix, as far as they go, and outputs are zones that do not overlap.
ZonesApart(s) ==
    LET matrix == Ksize * Ksize * s.c
    IN  /\ s.num_filters * matrix <= s.IMAGE
        /\ s.IMAGE + s.h * s.w * s.c <= s.IMG2COL
        /\ s.IMG2COL + matrix * (s.h * s.w) <= s.OUTPUT

\* Tiles cover the weights in whole blocks, and end where rows of the image end.
WholeTiles(s) ==
    /\ s.w % s.Tile_n_size = 0
    /\ (Ksize * Ksize * s.c) % s.Tile_k_size = 0
    /\ s.Tile_k_size % PE_SIZE_Y = 0

\* A block of the array is a row of the filter, and as many outputs as pixels.
SameSize == PE_SIZE_Y = Ksize /\ Stride = 1 /\ Ksize = 2 * Pad + 1

(***************************************************************************)
(* The convolution, from the files, and how often it has been added to an  *)
(* output: by no loop, by the software, by both.                           *)
(***************************************************************************)
Pixel(row, col, channel) ==
    IF row \in 0 .. size.h - 1 /\ col \in 0 .. size.w - 1
    THEN Image(col + size.w * (row + size.h * channel)) ELSE 0

Convolution(filter, row, col) ==
    Total([channel \in 0 .. size.c - 1 |->
      Total([down \in 0 .. Ksize - 1 |->
        Total([right \in 0 .. Ksize - 1 |->
            Weights(filter * k + (channel * Ksize + down) * Ksize + right)
              * Pixel(row + down - Pad, col + right - Pad, channel)],
          Ksize)], Ksize)], size.c)

Rounds(filter, x) ==
    LET tile == x \div size.Tile_n_size
        this == IF filter < i \/ (filter = i /\ tile < j) THEN 1 ELSE 0
    IN  CASE tile >= n \div size.Tile_n_size -> 0
          [] loop = "im2col" -> 0
          [] loop = "gemm" -> this
          [] loop = "pe" -> 1 + this
          [] loop = "done" -> 2

\* Every output holds the convolution as often as a loop has stored its tile:
\* the accelerator, on the diagonals of a block, adds what the software adds.
OutputCorrect ==
    \A filter \in 0 .. m - 1, x \in 0 .. n - 1 :
        DDR[size.OUTPUT + filter * n + x] =
            Rounds(filter, x) * Convolution(filter, x \div size.w, x % size.w)

\* The outputs that main has cleared (hello_world.c:345-350) are clear until the
\* first tile is stored: im2col stays out of them.
OutputCleared ==
    loop = "im2col" \/ (loop = "gemm" /\ i = 0 /\ j = 0) => \A a \in Output : DDR[a] = 0
=============================================================================

------------------------------ MODULE MC_Tiling ------------------------------
(***************************************************************************)
(* Small variants of main: images of one and two channels, tiles of whole  *)
(* rows and of parts of rows, with and without a narrow last group, one    *)
(* and two tiles of weights.  Memory is as tight as it can be.             *)
(***************************************************************************)
EXTENDS Tiling

Weight(a) == a + 1
Pix(a) == 1 + ((a * a) % 11)

\* The four zones one after the other.
Variant(ch, h, w, filters, tile_n, tile_k) ==
    [c |-> ch, h |-> h, w |-> w, num_filters |-> filters,
     Tile_n_size |-> tile_n, Tile_k_size |-> tile_k,
     IMAGE |-> filters * 9 * ch,
     IMG2COL |-> filters * 9 * ch + ch * h * w,
     OUTPUT |-> filters * 9 * ch + ch * h * w + 9 * ch * h * w]

\* Tiles that end where an image row ends.
Aligned ==
    {Variant(ch, h, w, filters, tile_n, tile_k) :
        ch \in {1, 2}, h \in {1, 3}, w \in {4, 5, 6, 10}, filters \in {1, 2},
        tile_n \in {4, 5, 6}, tile_k \in {9, 18}}
MCAligned == {s \in Aligned : ZonesApart(s) /\ WholeTiles(s)}

\* Tiles that do not, as in main, where 14 does not divide 122.
MCAcross == {Variant(1, 3, 6, 1, 4, 9)}

\* main's memory, all zones scaled to an image of 10 * 10 words: of the 400000
\* words between matrix and outputs, for an image of 122 * 122, 2687 remain.
MCMemory ==
    {[Variant(3, 10, 10, 16, 10, 27) EXCEPT
        !.OUTPUT = @ - 27 * 100 + (400000 * 100) \div (122 * 122)]}

\* main's image: every word is 5.
Five(a) == 5
=============================================================================

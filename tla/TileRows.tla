------------------------------ MODULE TileRows ------------------------------
(***************************************************************************)
(* The rows a compound without edges is packed into (cose-base.js:         *)
(* tileNodes, insertNodeToRow, canAddHorizontal, adjustLocations).         *)
(*                                                                         *)
(* An organization is a record of rows of nodes, the width and height of   *)
(* every row, and the width and height of the whole.  Sizes are whole      *)
(* numbers; ratios are compared by cross multiplication.                   *)
(***************************************************************************)
EXTENDS Naturals, FiniteSets, Sequences, SequencesExt

CONSTANTS Gap,      \* TILING_PADDING_VERTICAL and TILING_PADDING_HORIZONTAL
          Padding   \* the padding of a compound on the page, on each of its sides

ASSUME TileAssumption == Gap \in Nat /\ Padding \in Nat

Width(s) == s[1]
Height(s) == s[2]
minWidth(padding) == 2 * padding

\* tileNodesByFavoringDim starts with a height of minWidth.
NoRows(padding) ==
    [rows |-> <<>>, rowWidth |-> <<>>, rowHeight |-> <<>>, width |-> 0, height |-> minWidth(padding)]

\* getShortestRowIndex, rows counted from 1
ShortestRow(org) ==
    CHOOSE r \in DOMAIN org.rows :
        /\ \A q \in DOMAIN org.rows : org.rowWidth[r] <= org.rowWidth[q]
        /\ \A q \in 1..(r - 1) : org.rowWidth[r] < org.rowWidth[q]

\* The height s adds to row r: the first row has no gap above it.
Needs(r, s) == Height(s) + (IF r > 1 THEN Gap ELSE 0)

\* ratios <<n, d>> made at least 1
Normal(q) == IF q[1] < q[2] THEN <<q[2], q[1]>> ELSE q
Less(p, q) == p[1] * q[2] < q[1] * p[2]
Larger(m, n) == IF m > n THEN m ELSE n

\* There is room in the shortest row, or a node there leaves the whole nearer to
\* a square than a row more would.
canAddHorizontal(org, s) ==
    LET r == ShortestRow(org)
        grow == IF r > 1 /\ org.rowHeight[r] < Height(s) THEN Needs(r, s) - org.rowHeight[r] ELSE 0
        intoRow == <<org.height + grow, org.width>>
        newRow == <<org.height + Height(s) + Gap, Larger(org.width, Width(s))>>
    IN  \/ org.rowWidth[r] + Gap + Width(s) <= org.width
        \/ Less(Normal(intoRow), Normal(newRow))

\* mutant: no gap between two nodes of a row
insertNodeToRow_gapless(org, n, s, r, padding) ==
    LET new == r > Len(org.rows)
        wide == (IF new THEN minWidth(padding) ELSE org.rowWidth[r]) + Width(s)
    IN  [rows |-> IF new THEN Append(org.rows, <<n>>) ELSE [org.rows EXCEPT ![r] = Append(@, n)],
         rowWidth |-> IF new THEN Append(org.rowWidth, wide) ELSE [org.rowWidth EXCEPT ![r] = wide],
         rowHeight |-> IF new THEN Append(org.rowHeight, Needs(r, s)) ELSE org.rowHeight,
         width |-> Larger(org.width, wide),
         height |-> org.height + (IF new THEN Needs(r, s) ELSE 0)]

\* insertNodeToRow
insertNodeToRow(org, n, s, r, padding) ==
    LET new == r > Len(org.rows)
        wide == (IF new THEN minWidth(padding) ELSE org.rowWidth[r] + Gap) + Width(s)
        high == IF new THEN 0 ELSE org.rowHeight[r]
        higher == Larger(high, Needs(r, s))
    IN  [rows |-> IF new THEN Append(org.rows, <<n>>) ELSE [org.rows EXCEPT ![r] = Append(@, n)],
         rowWidth |-> IF new THEN Append(org.rowWidth, wide) ELSE [org.rowWidth EXCEPT ![r] = wide],
         rowHeight |-> IF new THEN Append(org.rowHeight, higher) ELSE [org.rowHeight EXCEPT ![r] = higher],
         width |-> Larger(org.width, wide),
         height |-> org.height + (higher - high)]

\* shiftToLastRow would move the last node of the longest row to the last row; but it
\* reads node.width and a layout node has none, so the space it asks for is not a
\* number, no row has it, and the organization stays as it is.
shiftToLastRow(org) == org

\* tileNodes: the largest first, into the shortest row or a new one.  Both of its
\* attempts come to the same rows, for no comparison function is set.
RowFor(org, s) ==
    IF org.rows = <<>> THEN 1
    ELSE IF canAddHorizontal(org, s) THEN ShortestRow(org)
    ELSE Len(org.rows) + 1
Largest(S, sizes) ==
    LET area(n) == Width(sizes[n]) * Height(sizes[n])
    IN  CHOOSE n \in S : \A m \in S : area(m) <= area(n)
tileNodes(S, sizes, padding) ==
    LET pack[k \in 0..Cardinality(S)] ==
            IF k = 0 THEN [left |-> S, org |-> NoRows(padding)]
            ELSE LET before == pack[k - 1]
                     n == Largest(before.left, sizes)
                 IN  [left |-> before.left \ {n},
                      org |-> shiftToLastRow(insertNodeToRow(before.org, n, sizes[n],
                                                 RowFor(before.org, sizes[n]), padding))]
    IN  pack[Cardinality(S)].org

------------------------------------------------------------------------------
\* adjustLocations: where row r begins below the compound's top, and the node at
\* place i of it to the right of the compound's left side.
Tallest(row, sizes) == CHOOSE h \in {Height(sizes[n]) : n \in ToSet(row)} :
                           \A n \in ToSet(row) : Height(sizes[n]) <= h
RowTop(org, sizes, padding, r) ==
    LET top[q \in DOMAIN org.rows] ==
            IF q = 1 THEN padding
            ELSE top[q - 1] + Tallest(org.rows[q - 1], sizes) + Gap
    IN  top[r]
TileLeft(row, sizes, padding, i) ==
    LET left[j \in DOMAIN row] ==
            IF j = 1 THEN padding ELSE left[j - 1] + Width(sizes[row[j - 1]]) + Gap
    IN  left[i]

\* The offset of node n from the corner of its compound.
OffsetIn(org, sizes, padding, n) ==
    LET r == CHOOSE r \in DOMAIN org.rows : n \in ToSet(org.rows[r])
        i == CHOOSE i \in DOMAIN org.rows[r] : org.rows[r][i] = n
    IN  <<TileLeft(org.rows[r], sizes, padding, i), RowTop(org, sizes, padding, r)>>
=============================================================================

------------------------------ MODULE OrderBook ------------------------------
(***************************************************************************)
(* A market's rows of orderbook_levels, as the projector writes them and    *)
(* the API server reads them: a function from levels (a side and a price)   *)
(* to a quantity and to the sequence of the delta that wrote it, NoLevel    *)
(* where there is no row.                                                   *)
(***************************************************************************)
EXTENDS Integers, FiniteSets

NoLevel == [quantity |-> 0, seq |-> 0]

\* apply_orderbook_level_in_tx: quantity 0 deletes the level.
LevelAfter(row, l, e) ==
  IF row.seq < e.id /\ \E x \in e.levels : x[1] = l
    THEN LET q == (CHOOSE x \in e.levels : x[1] = l)[2]
         IN [quantity |-> q, seq |-> IF q = 0 THEN 0 ELSE e.id]
    ELSE row

\* Rows of a side that ORDER BY gives before l: bids from the highest price,
\* asks from the lowest.
Ahead(rows, l) ==
  {k \in DOMAIN rows :
     /\ rows[k] # NoLevel /\ k.side = l.side
     /\ IF l.side = "BID" THEN k.price > l.price ELSE k.price < l.price}

\* get_levels: the best rows of a side, at most depth of them.
TopLevels(rows, side, depth) ==
  {l \in DOMAIN rows :
     l.side = side /\ rows[l] # NoLevel /\ Cardinality(Ahead(rows, l)) < depth}
=============================================================================

---------------------------- MODULE MCManfConf ----------------------------
(***************************************************************************)
(* ManfConf for TLC, with the sizes of the code: 256 cells, 16 rows.       *)
(***************************************************************************)
EXTENDS ManfConf

\* A row with n bytes after its length.
Row(n, b) == <<n>> \o [i \in 1 .. n |-> b]
Same(rows, n, b) == [i \in 1 .. rows |-> Row(n, b)]

\* No value; ten rows, as in the file that is delivered; a full table and one
\* whose last row is shorter; short rows; a row that is too long for its place;
\* rows that claim more than they have.
SomeRowLines ==
  {<<>>, Same(10, 9, 1), Same(16, 15, 2), Same(15, 15, 3) \o Same(1, 14, 3),
   Same(15, 15, 6) \o Same(1, 13, 6),
   Same(2, 3, 4), <<Row(20, 5), Row(2, 5)>>, <<<<255, 7>>, <<15, 7>>>>}

\* No value; three records, as delivered; two records; not a whole number.
SomeRecordLines ==
  {<<>>, <<<<5, 1, 1, 1, 1, 1>>, <<5, 2, 2, 2, 2, 2>>, <<5, 3, 3, 3, 3, 3>>>>,
   <<<<5, 4, 4, 4, 4, 4>>, <<5, 5, 5, 5, 5, 5>>>>,
   <<<<5, 6, 6, 6, 6, 6>>, <<7>>>>}

SomeParas == {{}, {0}, 0 .. 3, {1, 9}, Rows \ {15}, Rows}
=============================================================================

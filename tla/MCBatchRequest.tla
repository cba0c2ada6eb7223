--------------------------- MODULE MCBatchRequest ---------------------------
(* A small instance of BatchRequest: groups of one and two paragraphs.  An *)
(* envelope costs as much as its paragraphs, so that one may no longer fit *)
(* where a single paragraph of another group still does.                   *)
EXTENDS BatchRequest, TLC

ThreeGroups == (1 :> 2) @@ (2 :> 2) @@ (3 :> 1)
CostOf == [g \in Groups |-> [st \in 1 .. 3 |->
             [inputBytes |-> IF st = 3 THEN 1 ELSE Size[g], outputTokens |-> 1]]]
\* Nothing; part of group 1; all of it under one contract; the two halves
\* under different backends; the whole request.
SomeCaches == {{}, {CacheRow(1, 1, "batch", "p")},
               {CacheRow(1, i, "single", "p") : i \in 1 .. 2} \cup {CacheRow(3, 1, "batch", "f")},
               {CacheRow(1, 1, "batch", "p"), CacheRow(1, 2, "batch", "f")},
               {CacheRow(g, i, "batch", "p") : <<g, i>> \in {<<1, 1>>, <<1, 2>>, <<2, 1>>, <<2, 2>>, <<3, 1>>}}}
=============================================================================

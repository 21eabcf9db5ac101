------------------------ MODULE MCDistributedScaling ------------------------
(***************************************************************************)
(* The tables of gen_distributed_scaling.py (lines 47-179), translated.   *)
(* Fractional node coordinates are in hundredths; a box is               *)
(* <<x, y, width, height>>.                                               *)
(* A caption's text is abstracted to its claim: "consistent" (all values *)
(* are consistent), "db_change" (a DB change in hosts), "invalidation"    *)
(* (invalidation reaches hosts) or "recompute" (hosts recompute, with     *)
(* the values they read: "full chain"); cached are the hosts the text     *)
(* says are already consistent or computed ("cache hit").                 *)
(***************************************************************************)
EXTENDS AnimatedDiagram

\* Column layout (lines 35-49); the comments there give stale values.
COL_W == 280
BOX_W == 200
box_x(col_x) == col_x + (COL_W - BOX_W) \div 2
CX == box_x(10)
AX == box_x(295)
BX == box_x(580)

MC_HOSTS == <<
  <<"C1", [box |-> <<CX, 42, BOX_W, 70>>, nodes |-> <<<<18, 35>>, <<52, 68>>, <<85, 38>>>>,
           edges |-> <<<<0, 1>>, <<1, 2>>>>, affected |-> {0, 1, 2}]>>,
  <<"C2", [box |-> <<CX, 120, BOX_W, 82>>,
           nodes |-> <<<<15, 50>>, <<50, 18>>, <<50, 82>>, <<85, 50>>>>,
           edges |-> <<<<0, 1>>, <<0, 2>>, <<1, 3>>, <<2, 3>>>>, affected |-> {0, 1}]>>,
  <<"C3", [box |-> <<CX, 210, BOX_W, 96>>,
           nodes |-> <<<<10, 50>>, <<38, 20>>, <<38, 80>>, <<68, 50>>, <<92, 30>>>>,
           edges |-> <<<<0, 1>>, <<0, 2>>, <<1, 3>>, <<2, 3>>, <<3, 4>>>>, affected |-> {}]>>,
  <<"C4", [box |-> <<CX, 330, BOX_W, 70>>, nodes |-> <<<<18, 50>>, <<82, 22>>, <<82, 78>>>>,
           edges |-> <<<<0, 1>>, <<0, 2>>>>, affected |-> {0, 1}]>>,
  <<"C5", [box |-> <<CX, 408, BOX_W, 82>>,
           nodes |-> <<<<15, 32>>, <<52, 25>>, <<52, 78>>, <<85, 58>>>>,
           edges |-> <<<<0, 1>>, <<0, 2>>, <<1, 3>>>>, affected |-> {}]>>,
  <<"A1", [box |-> <<AX, 42, BOX_W, 248>>,
           nodes |-> <<<<12, 20>>, <<48, 16>>, <<85, 18>>, <<85, 62>>>>,
           edges |-> <<<<0, 1>>, <<1, 2>>, <<0, 3>>>>, affected |-> {0, 1, 2}]>>,
  <<"A2", [box |-> <<AX, 318, BOX_W, 172>>,
           nodes |-> <<<<12, 22>>, <<42, 16>>, <<42, 75>>, <<80, 18>>, <<80, 80>>>>,
           edges |-> <<<<0, 1>>, <<0, 2>>, <<1, 3>>, <<2, 4>>>>, affected |-> {0, 1, 3}]>>,
  <<"B1", [box |-> <<BX, 42, BOX_W, 96>>,
           nodes |-> <<<<18, 28>>, <<18, 72>>, <<78, 28>>, <<78, 72>>>>,
           edges |-> <<<<0, 2>>, <<1, 3>>>>, affected |-> {}, db |-> {2, 3}]>>,
  <<"B2", [box |-> <<BX, 174, BOX_W, 108>>,
           nodes |-> <<<<14, 22>>, <<14, 78>>, <<42, 50>>, <<82, 50>>>>,
           edges |-> <<<<0, 2>>, <<1, 2>>, <<2, 3>>>>, affected |-> {0, 1, 2}, db |-> {3}]>>,
  <<"B3", [box |-> <<BX, 318, BOX_W, 96>>,
           nodes |-> <<<<20, 28>>, <<20, 72>>, <<78, 28>>, <<78, 72>>>>,
           edges |-> <<<<0, 2>>, <<1, 3>>>>, affected |-> {}, db |-> {2, 3}]>> >>

MC_CROSS_AFFECTED ==
  << <<"C1", 2, "A1", 0>>, <<"C2", 1, "A1", 0>>, <<"C4", 1, "A2", 0>>,
     <<"A1", 2, "B2", 0>>, <<"A2", 3, "B2", 1>> >>

MC_CROSS_SAFE ==
  << <<"C3", 4, "A1", 3>>, <<"C4", 2, "A2", 2>>, <<"C5", 3, "A2", 2>>,
     <<"A1", 3, "B1", 0>>, <<"A2", 4, "B3", 0>> >>

MC_INV ==
  << <<"B2", 8>>, <<"A1", 11>>, <<"A2", 11>>, <<"C1", 14>>, <<"C2", 15>>, <<"C4", 18>> >>

\* Fault: B2 turning green after A1, which reads B2-0.
MC_RECOMP_LateB2 ==
  << <<"C1", [appear |-> 30, green |-> 44]>>,
     <<"A1", [appear |-> 32, green |-> 40, cache_hits |-> <<52>>]>>,
     <<"B2", [appear |-> 34, green |-> 42, cache_hits |-> <<66>>]>>,
     <<"C2", [appear |-> 50, green |-> 56]>>,
     <<"C4", [appear |-> 62, green |-> 72]>>,
     <<"A2", [appear |-> 64, green |-> 70]>> >>

MC_RECOMP ==
  << <<"C1", [appear |-> 30, green |-> 44]>>,
     <<"A1", [appear |-> 32, green |-> 40, cache_hits |-> <<52>>]>>,
     <<"B2", [appear |-> 34, green |-> 38, cache_hits |-> <<66>>]>>,
     <<"C2", [appear |-> 50, green |-> 56]>>,
     <<"C4", [appear |-> 62, green |-> 72]>>,
     <<"A2", [appear |-> 64, green |-> 70]>> >>

MC_NODE_RECOMP == << << <<"B2", 1>>, [appear |-> 66, green |-> 70] >> >>

MC_CROSS_DISC_RECON ==
  << << <<"C1", 2, "A1", 0>>, <<14, 30>> >>, << <<"C2", 1, "A1", 0>>, <<15, 50>> >>,
     << <<"C4", 1, "A2", 0>>, <<18, 62>> >>, << <<"A1", 2, "B2", 0>>, <<11, 32>> >>,
     << <<"A2", 3, "B2", 1>>, <<11, 64>> >> >>

MC_DESCRIPTIONS ==
  << [start |-> 0, end |-> 6, claim |-> "consistent", hosts |-> {}, cached |-> {}],
     [start |-> 7, end |-> 10, claim |-> "db_change", hosts |-> {"B2"}, cached |-> {}],
     [start |-> 11, end |-> 22, claim |-> "invalidation",
      hosts |-> {"A1", "A2", "C1", "C2", "C4"}, cached |-> {}],
     [start |-> 30, end |-> 44, claim |-> "recompute", hosts |-> {"C1"}, cached |-> {}],
     [start |-> 50, end |-> 56, claim |-> "recompute", hosts |-> {"C2"}, cached |-> {"A1"}],
     [start |-> 62, end |-> 72, claim |-> "recompute", hosts |-> {"C4"}, cached |-> {"B2"}],
     [start |-> 78, end |-> 100, claim |-> "consistent", hosts |-> {}, cached |-> {}] >>

=============================================================================

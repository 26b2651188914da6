------------------------ MODULE MCDwarfAddressIndex ------------------------
(***************************************************************************)
(* Debug information for checking DwarfAddressIndex, with 5-bit addresses *)
(* (0..31, base-selection marker 31).  Entry ids are the DIE offsets.      *)
(***************************************************************************)
EXTENDS DwarfAddressIndex

\* One DIE: tag, DW_AT_low_pc, DW_AT_high_pc and its form, DW_AT_ranges,
\* DW_AT_specification.
D(tag, lo, hi, form, rg, spec) ==
  [tag |-> tag, lo |-> lo, hi |-> hi, form |-> form, ranges |-> rg, spec |-> spec]

Sub(lo, hi, form) == D("subprogram", lo, hi, form, NoAttr, NoAttr)
Plain(tag)        == D(tag, NoAttr, NoAttr, "addr", NoAttr, NoAttr)

(***************************************************************************)
(* Two compile units as gcc lays them out.  CU 1 is DWARF 4 (high_pc as a  *)
(* data-form length): f; g inside a namespace, with a lexical block whose *)
(* range list is the first in .debug_ranges; h split into two ranges; the *)
(* out-of-line definition (9) of a method declared in a class (8).  CU 11 *)
(* is DWARF 2 (absolute high_pc): a variable first, f2 with a lexical     *)
(* block, h2 whose range list starts with a base-selection entry, and p   *)
(* which has only a low_pc.  As gcc emits them, range lists without a   *)
(* base-selection entry are relative to the CU's low_pc.  Names and the   *)
(* qualified name of each function are given for get_full_name.           *)
(***************************************************************************)
GccPair ==
  [cus     |-> <<1, 11>>,
   version |-> <<4, 2>>,
   ranges  |-> << 3, 4, 5, 6, 0, 0,              \* 0: lexical block 5
                  8, 10, 12, 13, 0, 0,           \* 6: h
                  1, 7, 8, 14, 0, 0,             \* 12: CU 1
                  31, 16, 4, 6, 8, 9, 0, 0,      \* 18: h2
                  1, 2, 0, 0 >>,                 \* 26: lexical block 15, CU-relative
   die     |-> (1 :> D("compile_unit", 0, NoAttr, "addr", 12, NoAttr)) @@
               (2 :> Sub(1, 2, "data")) @@
               (3 :> Plain("namespace_type")) @@
               (4 :> Sub(3, 2, "data")) @@
               (5 :> D("lexical_block", NoAttr, NoAttr, "addr", 0, NoAttr)) @@
               (6 :> D("subprogram", NoAttr, NoAttr, "addr", 6, NoAttr)) @@
               (7 :> Plain("class_type")) @@
               (8 :> Plain("subprogram")) @@
               (9 :> D("subprogram", 10, 2, "data", NoAttr, 8)) @@
               (11 :> D("compile_unit", 16, 31, "addr", NoAttr, NoAttr)) @@
               (12 :> Plain("variable")) @@
               (13 :> Sub(17, 20, "addr")) @@
               (14 :> D("subprogram", NoAttr, NoAttr, "addr", 18, NoAttr)) @@
               (15 :> D("lexical_block", NoAttr, NoAttr, "addr", 26, NoAttr)) @@
               (16 :> Sub(26, NoAttr, "addr")),
   kids    |-> (1 :> <<2, 3, 6, 7, 9>>) @@ (3 :> <<4>>) @@ (4 :> <<5>>) @@
               (7 :> <<8>>) @@ (11 :> <<12, 13, 14, 16>>) @@ (13 :> <<15>>) @@
               [e \in {2, 5, 6, 8, 9, 12, 14, 15, 16} |-> << >>],
   body    |-> (2 :> << <<1, 3>> >>) @@ (4 :> << <<3, 5>> >>) @@
               (6 :> << <<8, 10>>, <<12, 13>> >>) @@ (9 :> << <<10, 12>> >>) @@
               (13 :> << <<17, 20>> >>) @@ (14 :> << <<20, 22>>, <<24, 25>> >>) @@
               (16 :> << <<26, 27>> >>) @@
               [e \in {1, 3, 5, 7, 8, 11, 12, 15} |-> << >>],
   \* DW_AT_name; the out-of-line definition 9 has only its specification.
   name    |-> (2 :> "f") @@ (3 :> "ns") @@ (4 :> "g") @@ (6 :> "h") @@ (7 :> "C") @@
               (8 :> "m") @@ (12 :> "v") @@ (13 :> "f2") @@ (14 :> "h2") @@ (16 :> "p") @@
               [e \in {1, 5, 9, 11, 15} |-> NoAttr],
   \* Each function's C++ qualified name, as its parts.
   qname   |-> (2 :> <<"f">>) @@ (4 :> <<"ns", "g">>) @@ (6 :> <<"h">>) @@ (9 :> <<"C", "m">>) @@
               (13 :> <<"f2">>) @@ (14 :> <<"h2">>) @@ (16 :> <<"p">>)]

(***************************************************************************)
(* Single-CU fixtures, each isolating one way the fallback scan and the    *)
(* index disagree, or one entry the index loses.                          *)
(***************************************************************************)
\* A DWARF-2 CU whose only child is a function.
FirstChildCu ==
  [cus |-> <<1>>, version |-> <<2>>, ranges |-> << >>,
   die  |-> (1 :> D("compile_unit", 0, 31, "addr", NoAttr, NoAttr)) @@ (2 :> Sub(1, 4, "addr")),
   kids |-> (1 :> <<2>>) @@ (2 :> << >>),
   body |-> (1 :> << >>) @@ (2 :> << <<1, 4>> >>)]

\* A DWARF-2 CU with two adjacent functions: f ends where g begins.
AdjacentCu ==
  [cus |-> <<1>>, version |-> <<2>>, ranges |-> << >>,
   die  |-> (1 :> D("compile_unit", 0, 31, "addr", NoAttr, NoAttr)) @@
            (2 :> Plain("variable")) @@ (3 :> Sub(1, 4, "addr")) @@ (4 :> Sub(4, 8, "addr")),
   kids |-> (1 :> <<2, 3, 4>>) @@ [e \in {2, 3, 4} |-> << >>],
   body |-> (3 :> << <<1, 4>> >>) @@ (4 :> << <<4, 8>> >>) @@ [e \in {1, 2} |-> << >>]]

\* A DWARF-4 CU whose function has a data-form (length) high_pc.
Dwarf4Cu ==
  [cus |-> <<1>>, version |-> <<4>>, ranges |-> << >>,
   die  |-> (1 :> D("compile_unit", 0, 31, "addr", NoAttr, NoAttr)) @@
            (2 :> Plain("variable")) @@ (3 :> Sub(5, 3, "data")),
   kids |-> (1 :> <<2, 3>>) @@ [e \in {2, 3} |-> << >>],
   body |-> (3 :> << <<5, 8>> >>) @@ [e \in {1, 2} |-> << >>]]

\* A DWARF-4 CU whose split function owns the range list at offset 0.
RangesAtZeroCu ==
  [cus |-> <<1>>, version |-> <<4>>,
   ranges |-> << 8, 10, 12, 13, 0, 0,      \* 0: h
                 1, 14, 0, 0 >>,           \* 6: the CU
   die  |-> (1 :> D("compile_unit", 0, NoAttr, "addr", 6, NoAttr)) @@
            (2 :> Sub(1, 2, "data")) @@
            (3 :> D("subprogram", NoAttr, NoAttr, "addr", 0, NoAttr)),
   kids |-> (1 :> <<2, 3>>) @@ [e \in {2, 3} |-> << >>],
   body |-> (2 :> << <<1, 3>> >>) @@ (3 :> << <<8, 10>>, <<12, 13>> >>) @@ (1 :> << >>)]

\* A DWARF-2 CU at 16 whose function has a CU-relative range list.
CuBaseCu ==
  [cus |-> <<1>>, version |-> <<2>>,
   ranges |-> << 1, 2, 0, 0,             \* 0: lexical block 4
                 1, 3, 5, 6, 0, 0 >>,    \* 4: f
   die  |-> (1 :> D("compile_unit", 16, 31, "addr", NoAttr, NoAttr)) @@
            (2 :> Plain("variable")) @@
            (3 :> D("subprogram", NoAttr, NoAttr, "addr", 4, NoAttr)) @@
            (4 :> D("lexical_block", NoAttr, NoAttr, "addr", 0, NoAttr)),
   kids |-> (1 :> <<2, 3>>) @@ (3 :> <<4>>) @@ [e \in {2, 4} |-> << >>],
   body |-> (3 :> << <<17, 19>>, <<21, 22>> >>) @@ [e \in {1, 2, 4} |-> << >>]]

\* A DWARF-2 CU with a method declared in a class and defined out of line.
OutOfLineCu ==
  [cus |-> <<1>>, version |-> <<2>>, ranges |-> << >>,
   die  |-> (1 :> D("compile_unit", 0, 31, "addr", NoAttr, NoAttr)) @@
            (2 :> Plain("variable")) @@ (3 :> Plain("class_type")) @@
            (4 :> Plain("subprogram")) @@ (5 :> D("subprogram", 8, 12, "addr", NoAttr, 4)),
   kids |-> (1 :> <<2, 3, 5>>) @@ (3 :> <<4>>) @@ [e \in {2, 4, 5} |-> << >>],
   body |-> (5 :> << <<8, 12>> >>) @@ [e \in {1, 2, 3, 4} |-> << >>]]

\* A DWARF-2 CU whose function is the second entry of a namespace.
NamespaceCu ==
  [cus |-> <<1>>, version |-> <<2>>, ranges |-> << >>,
   die  |-> (1 :> D("compile_unit", 0, 31, "addr", NoAttr, NoAttr)) @@
            (2 :> Plain("variable")) @@ (3 :> Plain("namespace_type")) @@
            (4 :> Plain("variable")) @@ (5 :> Sub(8, 12, "addr")),
   kids |-> (1 :> <<2, 3>>) @@ (3 :> <<4, 5>>) @@ [e \in {2, 4, 5} |-> << >>],
   body |-> (5 :> << <<8, 12>> >>) @@ [e \in {1, 2, 3, 4} |-> << >>]]

MCFixtures           == {GccPair}
FirstChildFixtures   == {FirstChildCu}
AdjacentFixtures     == {AdjacentCu}
Dwarf4Fixtures       == {Dwarf4Cu}
RangesAtZeroFixtures == {RangesAtZeroCu}
CuBaseFixtures       == {CuBaseCu}
OutOfLineFixtures    == {OutOfLineCu}
NamespaceFixtures    == {NamespaceCu}

\* Each of these makes the fallback scan and the index disagree.
ScanFixtures ==
  FirstChildFixtures \cup AdjacentFixtures \cup Dwarf4Fixtures \cup
  OutOfLineFixtures \cup NamespaceFixtures

\* Each of these holds a function the index loses.
LostFixtures == RangesAtZeroFixtures \cup CuBaseFixtures
=============================================================================

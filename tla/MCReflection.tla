---------------------------- MODULE MCReflection ----------------------------
(***************************************************************************)
(* Debug information entries for checking Reflection, keyed by offset, as *)
(* gcc emits them for two small C/C++ compile units on x86_64.            *)
(***************************************************************************)
EXTENDS Reflection

\* An entry with no attributes but its tag.
E(tag) ==
  [tag |-> tag, type |-> NoRef, byte_size |-> NoAttr, encoding |-> NoAttr,
   count |-> NoAttr, upper |-> NoAttr, low_pc |-> NoAttr, name |-> NoAttr, kids |-> << >>]

Base(n, enc, bs) == [E("base_type") EXCEPT !.name = n, !.encoding = enc, !.byte_size = bs]
Called(e, n)   == [e EXCEPT !.name = n]
Of(tag, t)     == [E(tag) EXCEPT !.type = t]
Sized(tag, bs) == [E(tag) EXCEPT !.byte_size = bs]
Array(t, ks)   == [E("array_type") EXCEPT !.type = t, !.kids = ks]
Bound(up)      == [E("subrange_type") EXCEPT !.upper = up]
Count(n)       == [E("subrange_type") EXCEPT !.count = n]
Fn(lo, t, ks)  == [E("subprogram") EXCEPT !.low_pc = lo, !.type = t, !.kids = ks]

(***************************************************************************)
(* CU 1 (C): int, signed char, unsigned char, double, _Bool; typedef      *)
(* myint, const myint, const myint *, const void *; struct s; enum e and  *)
(* an incomplete enum; int a[3], int m[2][3] (gcc: DW_AT_upper_bound) and  *)
(* char buf[4] (DW_AT_count); main(int, const myint p[]) at 8,          *)
(* void f(struct s p[], ...) at 4, an enum-returning declaration, and an  *)
(* unnamed artificial function at 12; a pointer to a subroutine type      *)
(* int(const myint *p, ...) and a pointer to int[3].                     *)
(* CU 40 (C++): union u, class c, struct s &, and c g(_Bool, struct s &,   *)
(* union u, cb) at 16, cb a pointer to the subroutine type above.         *)
(* The functions are main, f, h (the declaration) and g.                  *)
(***************************************************************************)
Gcc ==
  [cus      |-> << 1, 40 >>,
   dangling |-> {99},
   limit    |-> 90,
   die      |->
     (1 :> [E("compile_unit") EXCEPT !.kids = << 2, 3, 4, 5, 6, 7, 8, 9, 10, 11, 12, 13, 14,
                                                 15, 17, 20, 23, 27, 28, 29, 50, 53, 54 >>]) @@
     (2 :> Base("int", "signed", 4)) @@ (3 :> Base("char", "signed_char", 1)) @@
     (4 :> Base("unsigned char", "unsigned_char", 1)) @@ (5 :> Base("double", "float", 8)) @@
     (6 :> Base("_Bool", "boolean", 1)) @@
     (7 :> Called(Of("typedef", 2), "myint")) @@ (8 :> Of("const_type", 7)) @@ (9 :> Of("pointer_type", 8)) @@
     (10 :> Of("const_type", NoRef)) @@ (11 :> Of("pointer_type", 10)) @@
     (12 :> Called(Sized("structure_type", 16), "s")) @@
     (13 :> Called(Sized("enumeration_type", 4), "e")) @@ (14 :> E("enumeration_type")) @@
     (15 :> Array(2, << 16 >>)) @@ (16 :> Bound(2)) @@
     (17 :> Array(2, << 18, 19 >>)) @@ (18 :> Bound(1)) @@ (19 :> Bound(2)) @@
     (20 :> Called(Fn(8, 2, << 21, 22 >>), "main")) @@ (21 :> Of("formal_parameter", 2)) @@
     (22 :> Of("formal_parameter", 9)) @@
     (23 :> Called(Fn(4, NoRef, << 24, 25, 26 >>), "f")) @@ (24 :> Of("formal_parameter", 30)) @@
     (25 :> E("unspecified_parameters")) @@ (26 :> Of("formal_parameter", 3)) @@
     (27 :> Called(Fn(NoAttr, 13, << >>), "h")) @@
     (28 :> Fn(12, NoRef, << >>)) @@
     (29 :> Array(4, << 31 >>)) @@ (31 :> Count(4)) @@
     (30 :> Of("pointer_type", 12)) @@
     (50 :> [E("subroutine_type") EXCEPT !.type = 2, !.kids = << 51, 52 >>]) @@
     (51 :> Called(Of("formal_parameter", 9), "p")) @@ (52 :> E("unspecified_parameters")) @@
     (53 :> Of("pointer_type", 50)) @@ (54 :> Of("pointer_type", 15)) @@
     (40 :> [E("compile_unit") EXCEPT !.kids = << 41, 42, 43, 44 >>]) @@
     (41 :> Called(Sized("union_type", 8), "u")) @@ (42 :> Called(Sized("class_type", 1), "c")) @@
     (43 :> Of("reference_type", 12)) @@
     (44 :> Called(Fn(16, 42, << 45, 46, 47, 48 >>), "g")) @@ (45 :> Of("formal_parameter", 6)) @@
     (46 :> Of("formal_parameter", 43)) @@ (47 :> Of("formal_parameter", 41)) @@
     (48 :> Called(Of("formal_parameter", 53), "cb")),
   funcs    |-> {20, 23, 27, 28, 44},
   types    |-> {2, 3, 4, 5, 6, 7, 8, 9, 10, 11, 12, 13, 14, 15, 17, 29, 30, 41, 42, 43}]

MCFixture == Gcc


\* The same units with the two pointer declarators among the types queried,
\* for the type-query run alone (they multiply the cache states).
MCTypeFixture == [Gcc EXCEPT !.types = @ \cup {53, 54}]
=============================================================================

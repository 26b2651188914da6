---------------------------- MODULE MCDwarfLoader ----------------------------
(***************************************************************************)
(* Files for checking DwarfLoader on a 64-bit host (x86_64 Linux).  Unit   *)
(* lengths are in bytes after the length field.                           *)
(***************************************************************************)
EXTENDS DwarfLoader

\* A 32-bit-format unit gcc would write: address size 8, readable, its
\* entries using abbreviation codes 1 and 2 from the table at entry 0.
U(len, v) ==
  [is64 |-> FALSE, len |-> len, version |-> v, addrsize |-> 8, abbrev |-> 0,
   codes |-> {1, 2}, attrs |-> TRUE, lines |-> TRUE, cut |-> 0]

\* A .debug_abbrev entry: its code, and whether abbrev_t::read decodes it.
A(code) == [code |-> code, ok |-> TRUE]
Undecodable == [code |-> 3, ok |-> FALSE]

\* One table declaring codes 1 and 2.
Abbrevs == << A(1), A(2), A(0) >>

\* The same unit in the 64-bit format (gcc -gdwarf64).
U64(len, v) == [U(len, v) EXCEPT !.is64 = TRUE]

\* A unit whose attributes cannot be read.
Broken(len, v) == [U(len, v) EXCEPT !.attrs = FALSE]

Libc == "/lib/x86_64-linux-gnu/libc.so.6"
Vdso == "linux-vdso.so.1"

(***************************************************************************)
(* A test executable linked with a shared library, run as the process     *)
(* sees it: the executable (NULL name), libc and the vDSO (both ignored), *)
(* the library, reported twice.  Add-able by name too: a stripped helper  *)
(* with no debug sections and a file with a DWARF 5 unit.  The library's   *)
(* last unit has unreadable attributes, and its .debug_abbrev has a      *)
(* declaration after its table's codes that fails to decode.           *)
(***************************************************************************)
Process ==
  [platform     |-> << NoName, Libc, "libnp.so", Vdso, "libnp.so" >>,
   exe          |-> "exe",
   files        |-> {"exe", "libnp.so", "stripped", "dwarf5"},
   ignored      |-> {Libc, Vdso},
   mappable     |-> {"exe", "libnp.so", "stripped", "dwarf5", Libc, Vdso},
   withSections |-> {"exe", "libnp.so", "dwarf5", Libc},
   info         |-> [f \in {"exe", "libnp.so", "dwarf5", Libc} |->
                      CASE f = "exe"      -> << U(20, 4), U(9, 2), U(30, 3) >>
                        [] f = "libnp.so" -> << U(12, 4), Broken(10, 4) >>
                        [] f = "dwarf5"   -> << U(9, 2), U(12, 5) >>
                        [] OTHER          -> << U(9, 4) >>],
   abbrev       |-> [f \in {"exe", "libnp.so", "dwarf5", Libc} |->
                      IF f = "libnp.so" THEN << A(1), A(2), Undecodable, A(4), A(0) >>
                      ELSE Abbrevs]]

\* An executable whose first unit is in the 64-bit format.
Dwarf64 == [Process EXCEPT !.info["exe"] = << U64(20, 4), U(9, 2) >>]

\* A library whose first unit has unreadable attributes.
BrokenFirst == [Process EXCEPT !.info["libnp.so"] = << Broken(10, 4), U(12, 4) >>]

\* A file that fails to map, given to add_executable before add_self.
Unmappable == [Process EXCEPT !.files = @ \cup {"gone"}]

\* The library's section ends 8 bytes short of the end its last unit claims.
Truncated == [Process EXCEPT !.info["libnp.so"] = << U(12, 4), [U(40, 3) EXCEPT !.cut = 8] >>]

\* The library reported by the platform carries a DWARF 5 unit.
Dwarf5Lib == [Process EXCEPT !.info["libnp.so"] = << U(12, 4), U(9, 5), U(9, 2) >>]

\* The library's second unit has its own table, whose first code is the
\* largest a code can be: the vector is resized to code+1, which wraps to 0.
HugeCode ==
  [Process EXCEPT !.info["libnp.so"] = << U(12, 4), [U(10, 4) EXCEPT !.abbrev = 3, !.codes = {1}] >>,
                  !.abbrev["libnp.so"] = << A(1), A(2), A(0), A(CodeWord - 1), A(1), A(0) >>]

\* The library's second unit uses a code its table does not declare.
Undeclared == [Process EXCEPT !.info["libnp.so"] = << U(12, 4), [U(10, 4) EXCEPT !.codes = {2, 4}] >>]

ProcessFixtures == {Process, Truncated, Dwarf5Lib, Undeclared}
LossFixtures    == {Dwarf64, BrokenFirst, Unmappable, HugeCode}
SetupFixtures   == ProcessFixtures \cup LossFixtures
=============================================================================

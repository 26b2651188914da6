------------------------- MODULE DwarfAddressIndex -------------------------
(***************************************************************************)
(* The address-to-function resolution of np::spiegel::dwarf::state_t       *)
(* (src/np/spiegel/dwarf/state.cxx): prepare_address_index() with          *)
(* insert_ranges(), which fills the range tree address_index_, and         *)
(* describe_address(), which answers from that tree when it is non-empty   *)
(* and otherwise falls back to a linear scan of the DIE trees with         *)
(* is_within().                                                            *)
(*                                                                         *)
(* The debug information is data: a "fixture" is one loaded set of compile *)
(* units (their DIE trees, attributes and the .debug_ranges contents), and *)
(* Init picks one fixture.  Each subprogram of a fixture also carries      *)
(* "body", the address ranges the compiler meant it to occupy, so the      *)
(* properties can compare what the code decodes with what was encoded.    *)
(* Addresses are AddrBits wide and wrap like the code's addr_t.            *)
(***************************************************************************)
EXTENDS Integers, Sequences, FiniteSets, TLC

CONSTANTS
  AddrBits,   \* width of an address in the model (addr_t is 64 bits)
  Fixtures,   \* the debug information the engine may have loaded
  NoAttr      \* an absent attribute (get_*_attribute returns 0 for it)

ASSUME AddrBits \in 2..6

NAddr   == 2^AddrBits
Addr    == 0..(NAddr - 1)
MaxAddr == NAddr - 1            \* _NP_MAXADDR, the base-selection marker

\* DIE tags the scan descends into (state.cxx:779-783).
DescendTags == {"class_type", "structure_type", "union_type", "namespace_type"}

VARIABLES
  dwarf,     \* the loaded debug information (one of Fixtures)
  index,     \* address_index_: a set of [lo, hi, ref] entries, hi exclusive
  scanned,   \* the last answer describe_address gave while the index was empty
  last       \* the most recent answer of describe_address

vars == <<dwarf, index, scanned, last>>

NotAsked == [found |-> FALSE, funcref |-> NoAttr, offset |-> 0, mode |-> "none", addr |-> 0]

(***************************************************************************)
(* Attribute access as entry_t does it: an absent numeric attribute reads  *)
(* as 0, and get_attribute() tells presence.                               *)
(***************************************************************************)
Has(v)        == v # NoAttr
Val(v)        == IF v = NoAttr THEN 0 ELSE v
Die(d, e)     == d.die[e]

(***************************************************************************)
(* The range-list decoding loop shared by insert_ranges and is_within     *)
(* (state.cxx:614-634, 680-704): pairs of addresses read from the         *)
(* attribute's offset (in address units), (0,0) ends the list, a pair     *)
(* (MaxAddr, b) sets the base, and a pair that cannot be read ends it.    *)
(* Each decoded range keeps the base it was read under.                   *)
(***************************************************************************)
\* Fault variant: the base-selection entry is read but does not move the base.
RECURSIVE RangeListFixedBase(_, _, _)
RangeListFixedBase(sec, pos, base) ==
  IF pos + 2 > Len(sec) THEN << >>
  ELSE LET s == sec[pos + 1]
           t == sec[pos + 2]
       IN  IF s = 0 /\ t = 0 THEN << >>
           ELSE IF s = MaxAddr THEN RangeListFixedBase(sec, pos + 2, base)
           ELSE << [lo |-> (s + base) % NAddr, hi |-> (t + base) % NAddr, base |-> base] >>
                  \o RangeListFixedBase(sec, pos + 2, base)

RECURSIVE RangeList(_, _, _)
RangeList(sec, pos, base) ==
  IF pos + 2 > Len(sec) THEN << >>
  ELSE LET s == sec[pos + 1]
           t == sec[pos + 2]
       IN  IF s = 0 /\ t = 0 THEN << >>
           ELSE IF s = MaxAddr THEN RangeList(sec, pos + 2, t)
           ELSE << [lo |-> (s + base) % NAddr, hi |-> (t + base) % NAddr, base |-> base] >>
                  \o RangeList(sec, pos + 2, base)

\* The ranges read for entry e (base starts at 0, "TODO: compile unit base").
EntryRanges(d, e) == RangeList(d.ranges, Val(Die(d, e).ranges), 0)

(***************************************************************************)
(* insert_ranges (state.cxx:592-640): the index entries one subprogram     *)
(* contributes.  A DWARF-4 high_pc in a non-address form is an offset.     *)
(***************************************************************************)
\* Fault variant: high_pc always taken as an absolute address.
HighPcAsRecorded(d, v, e) == Val(Die(d, e).hi)

HighPc(d, v, e) ==
  IF d.version[v] = 4 /\ Die(d, e).form # "addr"
  THEN (Val(Die(d, e).hi) + Val(Die(d, e).lo)) % NAddr
  ELSE Val(Die(d, e).hi)

\* Fault variant: the index stores the specification target, not the entry.
InsertRangesSpecRef(d, v, e) ==
  LET x == Die(d, e) IN
  IF Has(x.lo) /\ Has(x.hi)
    THEN {[lo |-> x.lo, hi |-> HighPc(d, v, e), ref |-> x.spec]}
  ELSE IF Val(x.ranges) # 0
    THEN {[lo |-> r.lo, hi |-> r.hi, ref |-> x.spec] : r \in {EntryRanges(d, e)[i] : i \in DOMAIN EntryRanges(d, e)}}
  ELSE IF Has(x.lo)
    THEN {[lo |-> x.lo, hi |-> x.lo + 1, ref |-> x.spec]}
  ELSE {}

InsertRanges(d, v, e) ==
  LET x == Die(d, e) IN
  IF Has(x.lo) /\ Has(x.hi)
    THEN {[lo |-> x.lo, hi |-> HighPc(d, v, e), ref |-> e]}
  ELSE IF Val(x.ranges) # 0
    THEN {[lo |-> r.lo, hi |-> r.hi, ref |-> e] : r \in {EntryRanges(d, e)[i] : i \in DOMAIN EntryRanges(d, e)}}
  ELSE IF Has(x.lo)
    THEN {[lo |-> x.lo, hi |-> x.lo + 1, ref |-> e]}
  ELSE {}

\* All entries of the tree under e (walker_t preorder from a CU root).
RECURSIVE Subtree(_, _)
Subtree(d, e) == {e} \cup UNION {Subtree(d, d.kids[e][i]) : i \in DOMAIN d.kids[e]}

(***************************************************************************)
(* is_within (state.cxx:657-716): whether addr lies in entry e, and the    *)
(* offset it reports.  A low/high pair is tested as the closed interval    *)
(* [lo, hi] with hi taken as recorded; a range list reports addr - base;  *)
(* an entry whose range list misses addr still matches its low_pc.        *)
(***************************************************************************)
IsWithin(d, addr, e) ==
  LET x   == Die(d, e)
      rl  == IF Val(x.ranges) # 0 THEN EntryRanges(d, e) ELSE << >>
      hit == {i \in DOMAIN rl : addr >= rl[i].lo /\ addr < rl[i].hi}
  IN  IF Has(x.lo) /\ Has(x.hi)
        THEN [in |-> addr >= x.lo /\ addr <= x.hi, off |-> (addr - x.lo) % NAddr]
      ELSE IF hit # {}
        THEN LET i == CHOOSE j \in hit : \A k \in hit : j <= k
             IN  [in |-> TRUE, off |-> (addr - rl[i].base) % NAddr]
      ELSE IF Has(x.lo)
        THEN [in |-> addr = x.lo, off |-> 0]
      ELSE [in |-> FALSE, off |-> 0]

\* The one specification indirection describe_address follows (775-776).
Canonical(d, e) == IF Has(Die(d, e).spec) THEN Die(d, e).spec ELSE e

\* The entry whose children list holds e (the walker's move_up).
ParentOf(d, e) == CHOOSE p \in DOMAIN d.kids : \E i \in DOMAIN d.kids[p] : d.kids[p][i] = e

(***************************************************************************)
(* get_full_name (state.cxx:792-816): from the entry up to its compile    *)
(* unit, each level first moved to its DW_AT_specification, the DW_AT_name *)
(* of every named level joined with "::", outermost first.  A full name   *)
(* is the sequence of its parts.                                          *)
(***************************************************************************)
\* Fault variant: DW_AT_specification is not followed.
RECURSIVE FullNameFromNoSpec(_, _, _)
FullNameFromNoSpec(d, e, acc) ==
  IF Die(d, e).tag = "compile_unit" THEN acc
  ELSE FullNameFromNoSpec(d, ParentOf(d, e),
         IF Has(d.name[e]) THEN << d.name[e] >> \o acc ELSE acc)

RECURSIVE FullNameFrom(_, _, _)
FullNameFrom(d, e, acc) ==
  LET s == Canonical(d, e) IN
  IF Die(d, s).tag = "compile_unit" THEN acc
  ELSE FullNameFrom(d, ParentOf(d, s),
         IF Has(d.name[s]) THEN << d.name[s] >> \o acc ELSE acc)

FullName(d, e) == FullNameFrom(d, e, << >>)

(***************************************************************************)
(* The fallback scan of describe_address (state.cxx:760-789), one CU's    *)
(* sibling list at a time.  After move_down() the loop's own move_next()  *)
(* runs, so scanning continues at the second child; a move_down() that    *)
(* finds no children leaves the walker where it was.  The scan never      *)
(* climbs back out of a list it descended into.                           *)
(***************************************************************************)
RECURSIVE ScanList(_, _, _, _)
ScanList(d, addr, sibs, i) ==
  IF i > Len(sibs) THEN [found |-> FALSE, funcref |-> NoAttr, offset |-> 0]
  ELSE LET e == sibs[i]
           w == IsWithin(d, addr, e)
           t == Die(d, e).tag
       IN  IF ~w.in THEN ScanList(d, addr, sibs, i + 1)
           ELSE IF t = "subprogram"
             THEN [found |-> TRUE, funcref |-> Canonical(d, e), offset |-> w.off]
           ELSE IF t \in DescendTags \cup {"compile_unit"} /\ d.kids[e] # << >>
             THEN ScanList(d, addr, d.kids[e], 2)
           ELSE ScanList(d, addr, sibs, i + 1)

RECURSIVE ScanCus(_, _, _)
ScanCus(d, addr, c) ==
  IF c > Len(d.cus) THEN [found |-> FALSE, funcref |-> NoAttr, offset |-> 0]
  ELSE LET r == ScanList(d, addr, << d.cus[c] >>, 1)
       IN  IF r.found THEN r ELSE ScanCus(d, addr, c + 1)

\* The answers a lookup in the range tree can give (rangetree::find).
IndexAnswers(addr) ==
  LET hits == {x \in index : x.lo <= addr /\ addr < x.hi} IN
  IF hits = {} THEN {[found |-> FALSE, funcref |-> NoAttr, offset |-> 0]}
  ELSE {[found |-> TRUE, funcref |-> x.ref, offset |-> (addr - x.lo) % NAddr] : x \in hits}

\* The entries of CU c a preorder walk filtered on DW_TAG_subprogram visits.
Subprograms(d, c) == {x \in Subtree(d, d.cus[c]) : Die(d, x).tag = "subprogram"}

-----------------------------------------------------------------------------
Init ==
  /\ dwarf \in Fixtures
  /\ index = {}
  /\ scanned = NotAsked
  /\ last = NotAsked

(***************************************************************************)
(* prepare_address_index (state.cxx:642-655): every subprogram of every    *)
(* CU, found by a preorder walk filtered on DW_TAG_subprogram.            *)
(***************************************************************************)
PrepareAddressIndex ==
  /\ index' = index \cup
        UNION {UNION {InsertRanges(dwarf, c, e) : e \in Subprograms(dwarf, c)} :
                 c \in DOMAIN dwarf.cus}
  /\ UNCHANGED <<dwarf, scanned, last>>

(***************************************************************************)
(* describe_address (state.cxx:739-790): results start as "dunno"; a      *)
(* non-empty index answers with one lookup (750-758), otherwise every CU   *)
(* is scanned (760-789).                                                  *)
(***************************************************************************)
DescribeFromIndex(addr) ==
  /\ index # {}
  /\ \E r \in IndexAnswers(addr) : last' = r @@ [mode |-> "index", addr |-> addr]
  /\ UNCHANGED <<dwarf, index, scanned>>

DescribeByScan(addr) ==
  /\ index = {}
  /\ last' = ScanCus(dwarf, addr, 1) @@ [mode |-> "scan", addr |-> addr]
  /\ scanned' = last'
  /\ UNCHANGED <<dwarf, index>>

DescribeAddress(addr) == DescribeFromIndex(addr) \/ DescribeByScan(addr)

Next ==
  \/ PrepareAddressIndex
  \/ \E a \in Addr : DescribeAddress(a)

Spec == Init /\ [][Next]_vars

-----------------------------------------------------------------------------
Answer == [found : BOOLEAN, funcref : {NoAttr} \cup DOMAIN dwarf.die,
           offset : Addr, mode : {"none", "scan", "index"}, addr : Addr]

TypeOK ==
  /\ dwarf \in Fixtures
  /\ index \subseteq [lo : Addr, hi : 0..NAddr, ref : DOMAIN dwarf.die]
  /\ scanned \in Answer
  /\ last \in Answer

\* The subprograms of the loaded fixture that occupy code.
Functions == {e \in DOMAIN dwarf.die : Die(dwarf, e).tag = "subprogram" /\ dwarf.body[e] # << >>}

\* The entry address of function f: the start of its first body range.
EntryPc(f) == dwarf.body[f][1][1]

(***************************************************************************)
(* Once the index is built, describe_address at the entry address of any  *)
(* function that occupies code names that function at offset 0 (spec §8: *)
(* "querying every inserted function's low-PC must return that exact      *)
(* function's reference").  Depends on insert_ranges picking the right     *)
(* encoding of high_pc and of the range list for each entry.              *)
(***************************************************************************)
IndexResolvesEachFunction ==
  (last.mode = "index" /\ \E f \in Functions : EntryPc(f) = last.addr)
    => \E f \in Functions :
          /\ EntryPc(f) = last.addr
          /\ last.found /\ last.funcref = f /\ last.offset = 0

(***************************************************************************)
(* Every answer the index gives lies in the function it names: the address *)
(* is inside one of that function's real ranges, and the offset is from   *)
(* the start of that range.  Depends on the base-address handling of the  *)
(* range-list decoding and on the high_pc form rules.                     *)
(***************************************************************************)
IndexAnswerIsSound ==
  (last.mode = "index" /\ last.found)
    => \E i \in DOMAIN dwarf.body[last.funcref] :
          LET r == dwarf.body[last.funcref][i] IN
          /\ r[1] <= last.addr /\ last.addr < r[2]
          /\ last.offset = last.addr - r[1]

(***************************************************************************)
(* state.hxx:33-35 says the index only speeds describe_address up ("Or     *)
(* don't call it, if you don't need to build stack traces"): an address   *)
(* the scan described must be described the same way by the index.       *)
(***************************************************************************)
IndexOnlySpeedsUp ==
  (last.mode = "index" /\ scanned.mode = "scan" /\ scanned.addr = last.addr)
    => /\ last.found = scanned.found
       /\ last.funcref = scanned.funcref
       /\ last.offset = scanned.offset

(***************************************************************************)
(* The function the index names for an address has, through               *)
(* function_t::get_full_name, the qualified name the source gives it:     *)
(* enclosing namespaces and classes outermost first, also for a method    *)
(* defined out of line, whose definition has no name of its own and lies  *)
(* outside its class.  Depends on get_full_name following                 *)
(* DW_AT_specification before reading the name and climbing.              *)
(***************************************************************************)
IndexAnswerFullName ==
  (last.mode = "index" /\ last.found)
    => FullName(dwarf, last.funcref) = dwarf.qname[last.funcref]
=============================================================================

---------------------------- MODULE DwarfLoader ----------------------------
(***************************************************************************)
(* Setting up np::spiegel::dwarf::state_t (src/np/spiegel/dwarf/state.cxx, *)
(* compile_unit.cxx): add_self() and add_executable() register link        *)
(* objects, read_link_objects() maps each one and reads its compile units  *)
(* with read_compile_units(), which parses each header with               *)
(* compile_unit_t::read_header(), and a successful add ends with           *)
(* prepare_address_index().                                               *)
(*                                                                         *)
(* The files are data: a fixture says which objects the platform layer    *)
(* reports, which names filename_is_ignored() matches, which files map    *)
(* and have debug sections, and the compile-unit headers of each file's   *)
(* .debug_info, laid out back to back, and each file's .debug_abbrev as a *)
(* sequence of declarations.  A header is a record of the values it       *)
(* encodes, with the codes its entries use; a declaration is its code and *)
(* whether abbrev_t::read decodes it; read_attributes and                 *)
(* read_lineno_program are reduced to whether they succeed.               *)
(***************************************************************************)
EXTENDS Integers, SequencesExt

CONSTANTS
  Fixtures,      \* the files and platform objects the engine may meet
  NoName,        \* a platform object with a NULL name (the executable)
  HostAddrSize,  \* _NP_ADDRSIZE
  HeaderLength,  \* compile_unit_t::header_length
  MinVersion,    \* MIN_DWARF_VERSION
  MaxVersion,    \* MAX_DWARF_VERSION
  MaxAdds,       \* how many add_self/add_executable calls a run makes
  CodeWord       \* 2^(width of an abbreviation code), uint32_t in the code

ASSUME HostAddrSize \in {4, 8} /\ MaxAdds \in Nat \ {0}

VARIABLES
  fx,             \* the fixture loaded (constant)
  link_objects,   \* link_objects_, by filename, in order of creation
  mapped,         \* the objects whose mappings are in link_object_index_
  compile_units,  \* compile_units_: [lo, start, end, version] per unit
  indexed,        \* the units prepare_address_index inserted, in order
  phase,          \* "up", "fatal" once fatal() has ended the process, or
                  \* "crashed" after undefined behaviour
  adds,           \* add_self/add_executable calls made
  result          \* what the last add returned

vars == <<fx, link_objects, mapped, compile_units, indexed, phase, adds, result>>

(***************************************************************************)
(* The layout of a .debug_info section: unit i starts where unit i-1      *)
(* ends, and a unit is its length field (4 bytes, or 12 for the 64-bit    *)
(* escape plus 8) followed by the number of bytes that field gives.  A    *)
(* truncated section ends cut bytes before the end its last unit claims.  *)
(***************************************************************************)
LenField(c)      == IF c.is64 THEN 12 ELSE 4
UnitSize(c)      == LenField(c) + c.len
UnitStart(sec, i) == SumFunction([j \in 1..(i - 1) |-> UnitSize(sec[j])])
SecLen(sec)      ==
  SumFunction([j \in DOMAIN sec |-> UnitSize(sec[j])]) - (IF sec = << >> THEN 0 ELSE Last(sec).cut)

\* The check of compile_unit.cxx:64, length < (unsigned)(header_length -
\* the bytes read so far).  unsigned int is 32 bits: in the 64-bit format
\* the difference d is negative and the cast makes it 2^32 + d, which every
\* length is below.  Written so that no term leaves TLC's 32-bit integers.
ShortLength(c) ==
  LET d == HeaderLength - (IF c.is64 THEN 14 ELSE 6) IN
  IF d >= 0 THEN c.len < d ELSE c.len - 2147483647 - 2 < 2147483647 + d

(***************************************************************************)
(* read_header (compile_unit.cxx:28-95) at section offset pos: "end" when  *)
(* the length cannot be read, "fatal" for each fatal() check, otherwise    *)
(* the unit.  The later short reads that return false (the version, the   *)
(* abbreviation offset and the address size) need a unit shorter than its *)
(* header at the very end of the section, which no fixture has.  Otherwise *)
(* it gives the unit's extent and the offset the outer reader skips to.  The *)
(* reader only ever stops at unit starts: every header that does not end  *)
(* in fatal() skips exactly to the next unit, so an offset between two     *)
(* unit starts is taken as the end of the section.                        *)
(***************************************************************************)
\* Fault variant: the MIN/MAX_DWARF_VERSION check left out.
ReadHeaderAnyVersion(sec, pos) ==
  LET at == {i \in DOMAIN sec : UnitStart(sec, i) = pos}
      c  == sec[CHOOSE i \in at : TRUE]
  IN  IF SecLen(sec) - pos < 4 \/ at = {} THEN [kind |-> "end"]
      ELSE IF c.is64 /\ HostAddrSize = 4 THEN [kind |-> "fatal"]
      ELSE IF c.len > SecLen(sec) - pos - LenField(c) THEN [kind |-> "fatal"]
      ELSE IF ShortLength(c) THEN [kind |-> "fatal"]
      ELSE IF c.addrsize # HostAddrSize THEN [kind |-> "fatal"]
      ELSE [kind |-> "cu", start |-> pos, end |-> pos + UnitSize(c), version |-> c.version,
            next |-> pos + LenField(c) + 7 + UnitSize(c) - HeaderLength]

ReadHeader(sec, pos) ==
  LET at == {i \in DOMAIN sec : UnitStart(sec, i) = pos}
      c  == sec[CHOOSE i \in at : TRUE]
  IN  IF SecLen(sec) - pos < 4 \/ at = {} THEN [kind |-> "end"]
      ELSE IF c.is64 /\ HostAddrSize = 4 THEN [kind |-> "fatal"]
      ELSE IF c.len > SecLen(sec) - pos - LenField(c) THEN [kind |-> "fatal"]
      ELSE IF c.version < MinVersion \/ c.version > MaxVersion THEN [kind |-> "fatal"]
      ELSE IF ShortLength(c) THEN [kind |-> "fatal"]
      ELSE IF c.addrsize # HostAddrSize THEN [kind |-> "fatal"]
      ELSE [kind |-> "cu", start |-> pos, end |-> pos + UnitSize(c), version |-> c.version,
            next |-> pos + LenField(c) + 7 + UnitSize(c) - HeaderLength]

(***************************************************************************)
(* read_abbrevs (compile_unit.cxx:96-119) from entry k of the file's      *)
(* .debug_abbrev: codes are read until code 0, the end of the section, or *)
(* an entry abbrev_t::read fails on.  abbrevs_ is a vector indexed by     *)
(* code, resized to a->code+1 whenever the code is not below its size;    *)
(* code is uint32_t, so a code of CodeWord-1 makes the new size 0 and the *)
(* store lands past the end of the vector.  tbl is [size, at], at the     *)
(* code -> entry map of the vector's non-null slots.                      *)
(***************************************************************************)
\* Fault variant: an entry that fails to decode is skipped, not the end.
RECURSIVE ReadAbbrevsSkipBad(_, _, _)
ReadAbbrevsSkipBad(sec, k, tbl) ==
  IF k > Len(sec) \/ sec[k].code = 0 THEN [ub |-> FALSE, at |-> tbl.at]
  ELSE IF ~sec[k].ok THEN ReadAbbrevsSkipBad(sec, k + 1, tbl)
  ELSE LET c    == sec[k].code
           size == IF c >= tbl.size THEN (c + 1) % CodeWord ELSE tbl.size
       IN  IF c >= size THEN [ub |-> TRUE, at |-> tbl.at]
           ELSE ReadAbbrevsSkipBad(sec, k + 1, [size |-> size, at |-> (c :> k) @@ tbl.at])

RECURSIVE ReadAbbrevs(_, _, _)
ReadAbbrevs(sec, k, tbl) ==
  IF k > Len(sec) \/ sec[k].code = 0 \/ ~sec[k].ok THEN [ub |-> FALSE, at |-> tbl.at]
  ELSE LET c    == sec[k].code
           size == IF c >= tbl.size THEN (c + 1) % CodeWord ELSE tbl.size
       IN  IF c >= size THEN [ub |-> TRUE, at |-> tbl.at]
           ELSE ReadAbbrevs(sec, k + 1, [size |-> size, at |-> (c :> k) @@ tbl.at])

\* The table of a unit whose abbreviations start at entry offset off.
AbbrevsOf(lo, off) == ReadAbbrevs(fx.abbrev[lo], off + 1, [size |-> 0, at |-> << >>])

\* read_attributes (not under src/) decodes the unit's entries with its
\* table: it fails when an entry's attributes are unreadable or its code is
\* not in the table.
Readable(c, at) == c.attrs /\ c.codes \subseteq DOMAIN at

(***************************************************************************)
(* read_compile_units (state.cxx:51-78): per unit read_header,            *)
(* read_abbrevs, read_attributes and read_lineno_program; a failing      *)
(* header, attribute or line read ends the loop, and the unit is dropped. *)
(* stop says how the section ended: "end", "fatal" for a fatal() in       *)
(* read_header, "ub" for the out-of-bounds store in read_abbrevs.         *)
(***************************************************************************)
\* Fault variant: only the first unit of a section is read.
ReadCompileUnitsOnce(lo, sec, pos, cus) ==
  LET h  == ReadHeader(sec, pos)
      c  == sec[CHOOSE i \in DOMAIN sec : UnitStart(sec, i) = pos]
      ab == AbbrevsOf(lo, c.abbrev)
  IN  IF h.kind # "cu" THEN [stop |-> h.kind, cus |-> cus]
      ELSE IF ab.ub THEN [stop |-> "ub", cus |-> cus]
      ELSE IF ~Readable(c, ab.at) \/ ~c.lines THEN [stop |-> "end", cus |-> cus]
      ELSE [stop |-> "end",
            cus |-> Append(cus, [lo |-> lo, start |-> h.start, end |-> h.end,
                                 version |-> h.version, abbrevs |-> ab.at])]

RECURSIVE ReadCompileUnits(_, _, _, _)
ReadCompileUnits(lo, sec, pos, cus) ==
  LET h  == ReadHeader(sec, pos)
      c  == sec[CHOOSE i \in DOMAIN sec : UnitStart(sec, i) = pos]
      ab == AbbrevsOf(lo, c.abbrev)
  IN  IF h.kind # "cu" THEN [stop |-> h.kind, cus |-> cus]
      ELSE IF ab.ub THEN [stop |-> "ub", cus |-> cus]
      ELSE IF ~Readable(c, ab.at) \/ ~c.lines THEN [stop |-> "end", cus |-> cus]
      ELSE ReadCompileUnits(lo, sec, h.next,
             Append(cus, [lo |-> lo, start |-> h.start, end |-> h.end,
                          version |-> h.version, abbrevs |-> ab.at]))

(***************************************************************************)
(* read_link_objects (state.cxx:210-233): every link object in order; an  *)
(* object whose sections fail to map makes it return false at once, and   *)
(* one that maps but has no sections is skipped.  stop is "ok",           *)
(* "unmapped", or how a section's reading ended the process.              *)
(***************************************************************************)
RECURSIVE ReadLinkObjects(_, _, _)
ReadLinkObjects(los, i, cus) ==
  IF i > Len(los) THEN [stop |-> "ok", cus |-> cus]
  ELSE LET lo == los[i] IN
       IF lo \notin fx.mappable THEN [stop |-> "unmapped", cus |-> cus]
       ELSE IF lo \notin fx.withSections THEN ReadLinkObjects(los, i + 1, cus)
       ELSE LET r == ReadCompileUnits(lo, fx.info[lo], 0, cus) IN
            IF r.stop \in {"fatal", "ub"} THEN r
            ELSE ReadLinkObjects(los, i + 1, r.cus)

(***************************************************************************)
(* The loop of add_self (state.cxx:123-166) over the platform's objects: a *)
(* NULL name is the executable, an ignored prefix is skipped, a name      *)
(* already registered is skipped, and a new object is made and its        *)
(* mappings put in link_object_index_.                                    *)
(***************************************************************************)
RECURSIVE SelfObjects(_, _, _)
SelfObjects(plat, i, st) ==
  IF i > Len(plat) THEN st
  ELSE LET f == IF plat[i] = NoName THEN fx.exe ELSE plat[i] IN
       IF f \in fx.ignored \/ f \in ToSet(st.los) THEN SelfObjects(plat, i + 1, st)
       ELSE SelfObjects(plat, i + 1, [los |-> Append(st.los, f), mapped |-> st.mapped \cup {f}])

\* The unit keys prepare_address_index (642-655) walks, in order.
UnitKeys(cus) == [i \in DOMAIN cus |-> <<cus[i].lo, cus[i].start>>]

\* What read_link_objects and the prepare_address_index after it leave.
Load(los) ==
  LET r == ReadLinkObjects(los, 1, compile_units) IN
  /\ compile_units' = r.cus
  /\ phase' = CASE r.stop = "fatal" -> "fatal" [] r.stop = "ub" -> "crashed" [] OTHER -> "up"
  /\ indexed' = IF r.stop = "ok" THEN indexed \o UnitKeys(r.cus) ELSE indexed
  /\ result' = (r.stop = "ok")
  /\ adds' = adds + 1

-----------------------------------------------------------------------------
Init ==
  /\ fx \in Fixtures
  /\ link_objects = << >>
  /\ mapped = {}
  /\ compile_units = << >>
  /\ indexed = << >>
  /\ phase = "up"
  /\ adds = 0
  /\ result = FALSE

\* add_self (state.cxx:112-173).
AddSelf ==
  /\ phase = "up" /\ adds < MaxAdds
  /\ LET st == SelfObjects(fx.platform, 1, [los |-> link_objects, mapped |-> mapped]) IN
     /\ link_objects' = st.los
     /\ mapped' = st.mapped
     /\ Load(st.los)
  /\ UNCHANGED fx

\* add_executable (state.cxx:175-186): an unknown name makes a new object.
AddExecutable(f) ==
  /\ phase = "up" /\ adds < MaxAdds
  /\ link_objects' = IF f \in ToSet(link_objects) THEN link_objects ELSE Append(link_objects, f)
  /\ Load(link_objects')
  /\ UNCHANGED <<fx, mapped>>

Next ==
  \/ AddSelf
  \/ \E f \in fx.files : AddExecutable(f)

Spec == Init /\ [][Next]_vars

-----------------------------------------------------------------------------
\* A code -> entry table: codes 1..CodeWord-2 (0 ends a table, and
\* CodeWord-1 is never stored), entries of the object's .debug_abbrev.
AbbrevTable(lo) == UNION {[S -> DOMAIN fx.abbrev[lo]] : S \in SUBSET (1..(CodeWord - 2))}

Unit == [lo : fx.withSections, start : Nat, end : Nat, version : MinVersion..MaxVersion,
         abbrevs : UNION {AbbrevTable(lo) : lo \in fx.withSections}]

TypeOK ==
  /\ fx \in Fixtures
  /\ link_objects \in Seq(fx.files)
  /\ mapped \subseteq fx.files
  /\ compile_units \in Seq(Unit)
  /\ phase \in {"up", "fatal", "crashed"} /\ adds \in 0..MaxAdds /\ result \in BOOLEAN

\* The units of the section of link object lo, as the compiler wrote them.
Units(lo) == IF lo \in fx.withSections THEN fx.info[lo] ELSE << >>

\* What spec section 7 makes fatal: unsupported version, wrong address
\* size, a length past the section, the 64-bit format on a 32-bit host.
Rejected(lo, j) ==
  LET c == Units(lo)[j] IN
  \/ c.version < MinVersion \/ c.version > MaxVersion
  \/ c.addrsize # HostAddrSize
  \/ c.len > SecLen(Units(lo)) - UnitStart(Units(lo), j) - LenField(c)
  \/ c.is64 /\ HostAddrSize = 4

\* The abbreviation table spec section 4 declares at entry offset off of
\* lo's .debug_abbrev: each code read before the first terminator, end of
\* section or undecodable entry, to the last entry with that code.
DeclaredAbbrevs(lo, off) ==
  LET sec  == fx.abbrev[lo]
      stop == Min({k \in (off + 1)..(Len(sec) + 1) :
                     k > Len(sec) \/ sec[k].code = 0 \/ ~sec[k].ok})
      ks   == (off + 1)..(stop - 1)
  IN  [c \in {sec[k].code : k \in ks} |-> Max({k \in ks : sec[k].code = c})]

\* A unit nothing is wrong with: accepted, every code its entries use
\* declared, and its attributes and line program read.
WellFormed(lo, j) ==
  LET c == Units(lo)[j] IN
  ~Rejected(lo, j) /\ c.attrs /\ c.codes \subseteq DOMAIN DeclaredAbbrevs(lo, c.abbrev) /\ c.lines

(***************************************************************************)
(* Spec section 4: the abbreviation table each held unit decodes its      *)
(* entries with holds exactly the codes its .debug_abbrev declares before *)
(* the terminator, each to its own declaration, and a declaration that    *)
(* fails to decode ends the table.  Depends on read_abbrevs' loop exit,   *)
(* the break on a failing abbrev_t::read, and the resize of the code-     *)
(* indexed vector.                                                        *)
(***************************************************************************)
AbbrevTableAsDeclared ==
  \A u \in ToSet(compile_units) :
    \E j \in DOMAIN Units(u.lo) :
      /\ u.start = UnitStart(Units(u.lo), j)
      /\ u.abbrevs = DeclaredAbbrevs(u.lo, Units(u.lo)[j].abbrev)

\* What the files hold, as EngineSetup sees it: the offsets of the
\* well-formed units of each object that maps, and the objects that map
\* and have a unit section 7 rejects.
GoodOffsets ==
  [lo \in fx.files |->
     IF lo \in fx.mappable
     THEN {UnitStart(Units(lo), j) : j \in {j \in DOMAIN Units(lo) : WellFormed(lo, j)}}
     ELSE {}]

BadObjects ==
  {lo \in fx.files \cap fx.mappable : \E j \in DOMAIN Units(lo) : Rejected(lo, j)}

Setup == INSTANCE EngineSetup
           WITH good <- GoodOffsets, bad <- BadObjects,
                registered <- ToSet(link_objects), units <- UnitKeys(compile_units),
                index <- ToSet(indexed), alive <- phase = "up"

(***************************************************************************)
(* Spec sections 6-8: add_self and add_executable, in any order and any   *)
(* number, implement EngineSetup: after each call every well-formed unit  *)
(* of every registered object that maps is held exactly once and the      *)
(* address index covers exactly the units held, and the process ends in   *)
(* fatal() only over a rejected unit.  Covers the re-read of every link   *)
(* object on each add, read_link_objects returning at the first object    *)
(* that does not map, the break in read_compile_units, the address index  *)
(* left stale when an add fails, and read_header's length check, which   *)
(* rejects every 64-bit unit.                                             *)
(***************************************************************************)
SetupRefinement == Setup!Spec
=============================================================================

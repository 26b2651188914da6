----------------------------- MODULE Reflection -----------------------------
(***************************************************************************)
(* The reflection layer of spiegel (src/np/spiegel/spiegel.cxx) over a     *)
(* fixed set of loaded debug-information entries: the _factory_t object   *)
(* cache (make_type, make_function, find, add), the upper compile-unit     *)
(* objects of state_t::cu_from_lower, compile_unit_t::get_functions,        *)
(* function_t::populate, get_return_type, get_parameter_types, invoke and *)
(* to_string, state_t::describe_address, and the type queries             *)
(* get_classification, get_sizeof and to_string.                          *)
(*                                                                         *)
(* A reflection object is identified by the reference it wraps; the model *)
(* counts how many objects each reference was ever given (created), which *)
(* is what the cache exists to keep at one.  The loaded entries are the   *)
(* constant Fixture.                                                       *)
(***************************************************************************)
EXTENDS Integers, SequencesExt, TLC

CONSTANTS
  Fixture,    \* the entries the engine has loaded
  NoRef,      \* reference_t::null
  NoAttr,     \* an attribute the entry does not have
  AddrSize,   \* _NP_ADDRSIZE
  IntSize,    \* sizeof(int)
  SizeBits,   \* width of get_sizeof's uint32_t (TLC's integers stop below 2^31)
  Slide       \* the load bias link_object_t::live_address adds

VARIABLES
  cache,     \* _factory_t::cache_: reference -> "type" or "function"
  uppers,    \* lower compile units that have an upper object (set_upper)
  created,   \* reflection objects constructed and kept, per reference
  last       \* the latest query and its answer

vars == <<cache, uppers, created, last>>

fx == Fixture

Word == 2^SizeBits                 \* uint32_t arithmetic in get_sizeof

\* An entry resolves when the walker finds it (w.move_next() != 0).
Resolves(r) == r \in DOMAIN fx.die

\* get_uint32_attribute: 0 when the attribute is absent.
Val(a) == IF a = NoAttr THEN 0 ELSE a

AllRefs == DOMAIN fx.die \cup fx.dangling \cup {NoRef}

\* Create one more object for reference r.
Bump(c, r) == [c EXCEPT ![r] = @ + 1]

-----------------------------------------------------------------------------
(***************************************************************************)
(* type_t::get_classification (77-132).  A classification is the major    *)
(* class, signedness and byte width packed by the TC_ constants.          *)
(***************************************************************************)
Cls(major, sgn, width) == [major |-> major, signed |-> sgn, width |-> width]
Invalid == Cls("invalid", FALSE, 0)
Wrappers == {"typedef", "volatile_type", "const_type"}
Fixed == [pointer_type |-> "pointer", reference_type |-> "reference",
          structure_type |-> "struct", union_type |-> "union",
          class_type |-> "class", array_type |-> "array"]

\* Fault variant: signed_char grouped with the unsigned encodings.
BaseClassCharUnsigned(e) ==
  CASE e.encoding = "float"                         -> Cls("float", FALSE, Val(e.byte_size))
    [] e.encoding = "signed"                        -> Cls("integer", TRUE, Val(e.byte_size))
    [] e.encoding \in {"unsigned", "unsigned_char", "signed_char"} -> Cls("integer", FALSE, Val(e.byte_size))
    [] OTHER                                        -> Invalid

\* The DW_TAG_base_type case: DW_AT_encoding, then DW_AT_byte_size.
BaseClass(e) ==
  CASE e.encoding = "float"                         -> Cls("float", FALSE, Val(e.byte_size))
    [] e.encoding \in {"signed", "signed_char"}     -> Cls("integer", TRUE, Val(e.byte_size))
    [] e.encoding \in {"unsigned", "unsigned_char"} -> Cls("integer", FALSE, Val(e.byte_size))
    [] OTHER                                        -> Invalid

RECURSIVE Classification(_)
Classification(r) ==
  IF r = NoRef THEN Cls("void", FALSE, 0)
  ELSE IF ~Resolves(r) THEN Invalid
  ELSE LET e == fx.die[r] IN
       CASE e.tag = "base_type"        -> BaseClass(e)
         [] e.tag \in Wrappers         -> Classification(e.type)
         [] e.tag = "enumeration_type" ->
              Cls("integer", TRUE, IF Val(e.byte_size) = 0 THEN IntSize ELSE e.byte_size)
         [] e.tag \in DOMAIN Fixed     -> Cls(Fixed[e.tag], FALSE, 0)
         [] OTHER                      -> Invalid

(***************************************************************************)
(* type_t::get_sizeof (157-198).  For an array without DW_AT_byte_size the *)
(* loop over its children multiplies in each subrange's DW_AT_count or,    *)
(* failing that, DW_AT_upper_bound, skipping those where both read 0.      *)
(***************************************************************************)
RECURSIVE SubrangeProduct(_, _, _)
SubrangeProduct(kids, i, bs) ==
  IF i > Len(kids) THEN bs
  ELSE LET k     == fx.die[kids[i]]
           count == IF Val(k.count) # 0 THEN Val(k.count) ELSE Val(k.upper)
       IN  SubrangeProduct(kids, i + 1,
             IF k.tag = "subrange_type" /\ count # 0
             THEN ((IF bs # 0 THEN bs ELSE 1) * count) % Word
             ELSE bs)

RECURSIVE Sizeof(_)
Sizeof(r) ==
  IF r = NoRef \/ ~Resolves(r) THEN 0
  ELSE LET e == fx.die[r] IN
       CASE e.tag = "array_type" /\ Val(e.byte_size) = 0 ->
              (SubrangeProduct(e.kids, 1, 0) * Sizeof(e.type)) % Word
         [] e.tag \in Wrappers -> Sizeof(e.type)
         [] e.tag \in {"pointer_type", "reference_type"} -> AddrSize
         [] OTHER -> Val(e.byte_size)

(***************************************************************************)
(* type_t::to_string (235-337): the declarator is built inside out, inner  *)
(* holding what is already written around the name.  A string is the      *)
(* sequence of its tokens; the spaces between them are left out.  A       *)
(* dimension is "[n]" as snprintf("[%u]") writes it.                      *)
(***************************************************************************)
NameOr(e, dflt) == IF e.name = NoAttr THEN dflt ELSE e.name
\* A parameter or function name as the inner declarator ("" when absent).
NameTok(e) == IF e.name = NoAttr THEN << >> ELSE << e.name >>
Keyword == [structure_type |-> "struct", union_type |-> "union", class_type |-> "class",
            enumeration_type |-> "enum", namespace_type |-> "namespace"]
PrefixOp == [pointer_type |-> "*", reference_type |-> "&",
             volatile_type |-> "volatile", const_type |-> "const"]

\* The "[count]" of each subrange with a nonzero DW_AT_count or, failing
\* that, DW_AT_upper_bound; "[]" when there is none.
Dims(kids) ==
  LET ds == FlattenSeq([i \in DOMAIN kids |->
              LET k == fx.die[kids[i]]
                  c == IF Val(k.count) # 0 THEN Val(k.count) ELSE Val(k.upper)
              IN  IF k.tag = "subrange_type" /\ c # 0 THEN << "[" \o ToString(c) \o "]" >> ELSE << >>])
  IN  IF ds = << >> THEN << "[]" >> ELSE ds

RECURSIVE ToStr(_, _), Params(_, _, _, _)
ToStr(r, inner) ==
  IF r = NoRef THEN << "void" >> \o inner
  ELSE IF ~Resolves(r) THEN << "wtf?" >> \o inner
  ELSE LET e == fx.die[r] IN
       CASE e.tag \in {"base_type", "typedef"} -> << NameOr(e, "wtf?") >> \o inner
         [] e.tag \in DOMAIN PrefixOp -> ToStr(e.type, << PrefixOp[e.tag] >> \o inner)
         [] e.tag \in DOMAIN Keyword  -> << Keyword[e.tag], NameOr(e, "{...}") >> \o inner
         [] e.tag = "array_type"      -> ToStr(e.type, inner \o Dims(e.kids))
         [] e.tag = "subroutine_type" ->
              ToStr(e.type, << "(" >> \o inner \o << ")", "(" >> \o Params(e.kids, 1, FALSE, 0) \o << ")" >>)
         [] OTHER -> << e.tag >> \o inner

\* The subroutine_type parameter loop: formal parameters until "...",
\* each written as its type around its name, separated by ",".
Params(kids, i, ellipsis, n) ==
  IF i > Len(kids) THEN << >>
  ELSE LET k   == fx.die[kids[i]]
           sep == IF n > 0 THEN << "," >> ELSE << >>
       IN  IF ~ellipsis /\ k.tag = "formal_parameter"
           THEN sep \o ToStr(k.type, NameTok(k))
                    \o Params(kids, i + 1, FALSE, n + 1)
           ELSE IF k.tag = "unspecified_parameters"
           THEN sep \o << "..." >> \o Params(kids, i + 1, TRUE, n + 1)
           ELSE Params(kids, i + 1, ellipsis, n)

-----------------------------------------------------------------------------
(***************************************************************************)
(* _factory_t (682-732).  st is [cache, created]; make_type and           *)
(* make_function consult find() and only construct and add() on a miss.   *)
(***************************************************************************)
\* Fault variant: make_type constructs without consulting find().
MakeTypeStNoFind(st, r) ==
  [cache |-> (r :> "type") @@ st.cache, created |-> Bump(st.created, r)]

MakeTypeSt(st, r) ==
  IF r \in DOMAIN st.cache THEN st
  ELSE [cache |-> st.cache @@ (r :> "type"), created |-> Bump(st.created, r)]

\* make_function(ref) and make_function(walker): populate() reads the
\* entry the walker already found, so it succeeds and the object is added.
MakeFunctionSt(st, r) ==
  IF r = NoRef \/ ~Resolves(r) THEN st
  ELSE IF r \in DOMAIN st.cache THEN st
  ELSE [cache |-> st.cache @@ (r :> "function"), created |-> Bump(st.created, r)]

\* The DW_AT_type of each formal_parameter child, up to the first
\* unspecified_parameters (get_parameter_types, 513-519).
RECURSIVE ParamTypes(_, _)
ParamTypes(kids, i) ==
  IF i > Len(kids) THEN << >>
  ELSE LET k == fx.die[kids[i]] IN
       IF k.tag = "formal_parameter" THEN << k.type >> \o ParamTypes(kids, i + 1)
       ELSE IF k.tag = "unspecified_parameters" THEN << >>
       ELSE ParamTypes(kids, i + 1)

(***************************************************************************)
(* reference_t::resolve, i.e. state_t::resolve_link_object_reference      *)
(* (state.cxx 577-590): the compile unit whose [start, end) offsets hold  *)
(* the reference, or none.  A unit ends where the next begins; the last   *)
(* one at the fixture's limit.                                             *)
(***************************************************************************)
UnitEnd(cu) ==
  LET later == {c \in ToSet(fx.cus) : c > cu} IN
  IF later = {} THEN fx.limit ELSE Min(later)

\* Fault variant: the off < get_end_offset() test left out.
ResolveNoEnd(r) ==
  LET hit == {cu \in ToSet(fx.cus) : cu <= r} IN
  IF hit = {} THEN NoRef ELSE CHOOSE cu \in hit : TRUE

Resolve(r) ==
  LET hit == {cu \in ToSet(fx.cus) : cu <= r /\ r < UnitEnd(cu)} IN
  IF hit = {} THEN NoRef ELSE CHOOSE cu \in hit : TRUE

\* The named subprogram children of a compile unit (get_functions, 404-411).
Named(cu) ==
  SelectSeq(fx.die[cu].kids, LAMBDA k : fx.die[k].tag = "subprogram" /\ fx.die[k].name # NoAttr)

\* std::sort by get_address(): any order of the list sorted by low_pc_.
ByAddress(fs) ==
  {s \in SetToSeqs(ToSet(fs)) :
     \A i \in 1..(Len(s) - 1) : Val(fx.die[s[i]].low_pc) <= Val(fx.die[s[i + 1]].low_pc)}

\* get_live_address (607-612): DW_AT_low_pc (0 when absent) moved by the
\* module's slide (link_object_t::live_address, spec section 4.6).
LiveAddress(f) == Val(fx.die[f].low_pc) + Slide

\* The call invoke makes through the function pointer, by the return
\* type's classification (637-645); "invalid" when it makes none.
CallKind(cls) ==
  CASE cls = Cls("void", FALSE, 0)         -> "void"
    [] cls = Cls("integer", TRUE, IntSize) -> "sint"
    [] cls = Cls("pointer", FALSE, 0)      -> "pointer"
    [] OTHER                               -> "invalid"

State == [cache |-> cache, created |-> created]

\* Take the factory state st as the next state.
Commit(st) == cache' = st.cache /\ created' = st.created

(***************************************************************************)
(* function_t::to_string (562-587): the return type written around        *)
(* name_(parameters).  Unlike type_t::to_string's loop, this one breaks    *)
(* at DW_TAG_unspecified_parameters, after writing "...".                  *)
(***************************************************************************)
\* Fault variant: the loop goes on past "..." as type_t::to_string's does.
RECURSIVE FnParamsNoBreak(_, _, _)
FnParamsNoBreak(kids, i, n) ==
  IF i > Len(kids) THEN << >>
  ELSE LET k   == fx.die[kids[i]]
           sep == IF n > 0 THEN << "," >> ELSE << >>
       IN  CASE k.tag = "formal_parameter" ->
                  sep \o ToStr(k.type, NameTok(k)) \o FnParamsNoBreak(kids, i + 1, n + 1)
             [] k.tag = "unspecified_parameters" -> sep \o << "..." >> \o FnParamsNoBreak(kids, i + 1, n + 1)
             [] OTHER -> FnParamsNoBreak(kids, i + 1, n)

RECURSIVE FnParams(_, _, _)
FnParams(kids, i, n) ==
  IF i > Len(kids) THEN << >>
  ELSE LET k   == fx.die[kids[i]]
           sep == IF n > 0 THEN << "," >> ELSE << >>
       IN  CASE k.tag = "formal_parameter" ->
                  sep \o ToStr(k.type, NameTok(k)) \o FnParams(kids, i + 1, n + 1)
             [] k.tag = "unspecified_parameters" -> sep \o << "..." >>
             [] OTHER -> FnParams(kids, i + 1, n)

FnString(f) ==
  LET e == fx.die[f] IN
  ToStr(e.type, NameTok(e) \o << "(" >> \o FnParams(e.kids, 1, 0) \o << ")" >>)

-----------------------------------------------------------------------------
Init ==
  /\ cache = [r \in {} |-> "type"]
  /\ uppers = {}
  /\ created = [r \in AllRefs |-> 0]
  /\ last = [op |-> "none", ref |-> NoRef, val |-> 0]

\* state_t::get_compile_units (378-386) with cu_from_lower (366-376).
GetCompileUnits ==
  /\ uppers' = uppers \cup ToSet(fx.cus)
  /\ created' = [r \in AllRefs |->
                   IF r \in ToSet(fx.cus) \ uppers THEN created[r] + 1 ELSE created[r]]
  /\ last' = [op |-> "cus", ref |-> NoRef, val |-> fx.cus]
  /\ UNCHANGED cache

\* compile_unit_t::get_functions (394-417) on an upper compile unit.
GetFunctions(cu) ==
  /\ cu \in uppers
  /\ Commit(FoldLeft(MakeFunctionSt, State, Named(cu)))
  /\ \E s \in ByAddress(Named(cu)) : last' = [op |-> "functions", ref |-> cu, val |-> s]
  /\ UNCHANGED uppers

\* Fault variant: make_function given the unit's reference, not funcref.
DescribeAddressSwapped(f) ==
  LET cu == Resolve(f) IN
  \/ /\ last' = [op |-> "describe", ref |-> f, val |-> NoRef]
     /\ UNCHANGED <<cache, uppers, created>>
  \/ /\ uppers' = uppers \cup {cu}
     /\ Commit(MakeFunctionSt([cache |-> cache,
                               created |-> IF cu \in uppers THEN created ELSE Bump(created, cu)], cu))
     /\ last' = [op |-> "describe", ref |-> f, val |-> cu]

(***************************************************************************)
(* state_t::describe_address (653-679) once the address index has found   *)
(* function f (DwarfAddressIndex models that search; the index gives no   *)
(* compile unit, so curef is null): funcref.resolve() names the unit, and  *)
(* when get_source_line finds the address in it, cu_from_lower makes the  *)
(* unit's upper object and make_function(funcref) the function's.         *)
(***************************************************************************)
DescribeAddress(f) ==
  LET cu == Resolve(f) IN
  \/ /\ last' = [op |-> "describe", ref |-> f, val |-> NoRef]
     /\ UNCHANGED <<cache, uppers, created>>
  \/ /\ uppers' = uppers \cup {cu}
     /\ Commit(MakeFunctionSt([cache |-> cache,
                               created |-> IF cu \in uppers THEN created ELSE Bump(created, cu)], f))
     /\ last' = [op |-> "describe", ref |-> f, val |-> cu]

\* function_t::get_return_type (498-504).
GetReturnType(f) ==
  /\ f \in DOMAIN cache /\ cache[f] = "function"
  /\ Commit(MakeTypeSt(State, fx.die[f].type))
  /\ last' = [op |-> "return", ref |-> f, val |-> fx.die[f].type]
  /\ UNCHANGED uppers

\* function_t::get_parameter_types (506-521).
GetParameterTypes(f) ==
  /\ f \in DOMAIN cache /\ cache[f] = "function"
  /\ Commit(FoldLeft(MakeTypeSt, State, ParamTypes(fx.die[f].kids, 1)))
  /\ last' = [op |-> "params", ref |-> f, val |-> ParamTypes(fx.die[f].kids, 1)]
  /\ UNCHANGED uppers

\* function_t::invoke (622-648): no call without a live address or with
\* parameters; get_parameter_types and get_return_type make type objects.
InvokeSt(st, f) ==
  LET ps == ParamTypes(fx.die[f].kids, 1)
      st1 == FoldLeft(MakeTypeSt, st, ps)
  IN  IF LiveAddress(f) = 0 THEN [st |-> st, call |-> "invalid"]
      ELSE IF ps # << >> THEN [st |-> st1, call |-> "invalid"]
      ELSE [st |-> MakeTypeSt(st1, fx.die[f].type),
            call |-> CallKind(Classification(fx.die[f].type))]

Invoke(f) ==
  /\ f \in DOMAIN cache /\ cache[f] = "function"
  /\ LET r == InvokeSt(State, f) IN
     /\ Commit(r.st)
     /\ last' = [op |-> "invoke", ref |-> f, val |-> r.call]
  /\ UNCHANGED uppers

\* function_t::to_string on a function object; it makes no objects.
GetFunctionString(f) ==
  /\ f \in DOMAIN cache /\ cache[f] = "function"
  /\ last' = [op |-> "fstring", ref |-> f, val |-> FnString(f)]
  /\ UNCHANGED <<cache, uppers, created>>

\* type_t::get_classification on a type reference.
GetClassification(r) ==
  /\ last' = [op |-> "class", ref |-> r, val |-> Classification(r)]
  /\ UNCHANGED <<cache, uppers, created>>

\* type_t::get_sizeof on a type reference.
GetSizeof(r) ==
  /\ last' = [op |-> "sizeof", ref |-> r, val |-> Sizeof(r)]
  /\ UNCHANGED <<cache, uppers, created>>

\* type_t::to_string() on a type reference.
GetString(r) ==
  /\ last' = [op |-> "string", ref |-> r, val |-> ToStr(r, << >>)]
  /\ UNCHANGED <<cache, uppers, created>>

TypeQueries == fx.types \cup fx.dangling \cup {NoRef}

Next ==
  \/ GetCompileUnits
  \/ \E cu \in uppers : GetFunctions(cu)
  \/ \E f \in fx.funcs : fx.die[f].low_pc # NoAttr /\ DescribeAddress(f)
  \/ \E f \in DOMAIN cache : GetReturnType(f) \/ GetParameterTypes(f) \/ Invoke(f) \/ GetFunctionString(f)
  \/ \E r \in TypeQueries : GetClassification(r) \/ GetSizeof(r) \/ GetString(r)

Spec == Init /\ [][Next]_vars

-----------------------------------------------------------------------------
TypeOK ==
  /\ DOMAIN cache \subseteq AllRefs
  /\ \A r \in DOMAIN cache :
       \/ cache[r] = "type"
       \/ cache[r] = "function" /\ r # NoRef /\ Resolves(r) /\ fx.die[r].tag = "subprogram"
  /\ uppers \subseteq ToSet(fx.cus)
  /\ created \in [AllRefs -> Nat]

\* The reflection objects alive, seen as ReflectionCache sees them: the
\* factory's cache entries and the upper compile-unit objects.
Objects ==
  [r \in DOMAIN cache \cup uppers |->
     IF r \in uppers THEN "compile_unit" ELSE cache[r]]

Cache == INSTANCE ReflectionCache
           WITH Kinds <- {"type", "function", "compile_unit"},
                objects <- Objects, made <- created

(***************************************************************************)
(* Spec section 4.6 (spec.md:54, :57): the factory keeps one reflection   *)
(* object per reference and never replaces it, so get_functions,          *)
(* describe_address, get_return_type, get_parameter_types and             *)
(* get_compile_units, called in any order and any number of times, hand   *)
(* out the identical object for the same entry; a query only ever adds    *)
(* objects.  The factory implements ReflectionCache under Objects: this   *)
(* is Cache!Spec, with the steps that leave the factory alone (and so the *)
(* mapped objects too) recognised as stuttering before Objects is built.  *)
(***************************************************************************)
CacheRefinement ==
  /\ Cache!Init
  /\ [][UNCHANGED <<cache, uppers, created>> \/ Cache!Next]_<<cache, uppers, created>>

(***************************************************************************)
(* type_t::get_classification answers with the classification spec.md:54 *)
(* and :67 describe: typedef, const and                                   *)
(* volatile are seen through; base types give integer (with signedness)   *)
(* or float with their byte size; an enumeration is a signed integer of   *)
(* its byte size, or of int's size when it has none; pointer, reference,  *)
(* struct, union, class and array are their own class; the null          *)
(* reference is void; an unknown tag or encoding, or an entry that does   *)
(* not resolve, is invalid.                                               *)
(***************************************************************************)
Encodings ==
  [float |-> Cls("float", FALSE, 0), signed |-> Cls("integer", TRUE, 0),
   signed_char |-> Cls("integer", TRUE, 0), unsigned |-> Cls("integer", FALSE, 0),
   unsigned_char |-> Cls("integer", FALSE, 0)]

RECURSIVE SpecClass(_)
SpecClass(r) ==
  LET e == fx.die[r] IN
  CASE r = NoRef                                      -> Cls("void", FALSE, 0)
    [] ~Resolves(r)                                   -> Invalid
    [] e.tag \in Wrappers                             -> SpecClass(e.type)
    [] e.tag = "base_type" /\ e.encoding \in DOMAIN Encodings ->
         [Encodings[e.encoding] EXCEPT !.width = Val(e.byte_size)]
    [] e.tag = "enumeration_type" /\ e.byte_size = NoAttr -> Cls("integer", TRUE, IntSize)
    [] e.tag = "enumeration_type"                     -> Cls("integer", TRUE, e.byte_size)
    [] e.tag \in DOMAIN Fixed                         -> Cls(Fixed[e.tag], FALSE, 0)
    [] OTHER                                          -> Invalid

ClassificationMatchesSpec ==
  last.op = "class" => last.val = SpecClass(last.ref)

(***************************************************************************)
(* type_t::get_sizeof answers as spec.md:54 and :76 say: the size of a    *)
(* typedef, const or volatile is that of                                  *)
(* what it wraps; of a pointer or reference the address size; of an array *)
(* without DW_AT_byte_size the element size times the product of its      *)
(* subrange counts, where a subrange gives DW_AT_count or, for C's        *)
(* zero-based arrays, DW_AT_upper_bound + 1.                              *)
(***************************************************************************)
SpecCount(k) ==
  IF k.count # NoAttr THEN k.count ELSE IF k.upper # NoAttr THEN k.upper + 1 ELSE 0

RECURSIVE SpecSize(_)
SpecSize(r) ==
  LET e    == fx.die[r]
      subs == SelectSeq(e.kids, LAMBDA k : fx.die[k].tag = "subrange_type")
  IN
  CASE r = NoRef \/ ~Resolves(r) -> 0
    [] e.tag \in Wrappers -> SpecSize(e.type)
    [] e.tag \in {"pointer_type", "reference_type"} -> AddrSize
    [] e.tag = "array_type" /\ e.byte_size = NoAttr ->
         SpecSize(e.type) * FoldLeft(LAMBDA a, k : a * SpecCount(fx.die[k]), 1, subs)
    [] OTHER -> Val(e.byte_size)

SizeofMatchesSpec ==
  last.op = "sizeof" => last.val = SpecSize(last.ref)

(***************************************************************************)
(* Spec 4.6: to_string writes a C declarator (as tokens).  A pointer,      *)
(* reference or qualifier goes before what it applies to; an array or      *)
(* parameter-list suffix binds tighter, so a declarator that begins with  *)
(* a prefix is parenthesised before the suffix is added, and a bare        *)
(* suffix is not; an array dimension is the subrange's element count.     *)
(***************************************************************************)
Grouped(d) ==
  IF d # << >> /\ Head(d) \in Range(PrefixOp) THEN << "(" >> \o d \o << ")" >> ELSE d

RECURSIVE SpecDecl(_, _), SpecParams(_)
SpecDecl(r, d) ==
  LET e    == fx.die[r]
      subs == SelectSeq(e.kids, LAMBDA k : fx.die[k].tag = "subrange_type" /\ SpecCount(fx.die[k]) # 0)
  IN
  CASE r = NoRef -> << "void" >> \o d
    [] ~Resolves(r) -> << "wtf?" >> \o d
    [] e.tag \in DOMAIN PrefixOp -> SpecDecl(e.type, << PrefixOp[e.tag] >> \o d)
    [] e.tag = "array_type" ->
         SpecDecl(e.type, Grouped(d) \o
           IF subs = << >> THEN << "[]" >>
           ELSE FlattenSeq([i \in DOMAIN subs |-> << "[" \o ToString(SpecCount(fx.die[subs[i]])) \o "]" >>]))
    [] e.tag = "subroutine_type" ->
         SpecDecl(e.type, Grouped(d) \o << "(" >> \o SpecParams(e.kids) \o << ")" >>)
    [] e.tag \in {"base_type", "typedef"} -> << NameOr(e, "wtf?") >> \o d
    [] e.tag \in DOMAIN Keyword -> << Keyword[e.tag], NameOr(e, "{...}") >> \o d
    [] OTHER -> << e.tag >> \o d

\* A parameter list: the formal parameters before the first "...", then
\* "..." if there is one, separated by ",".
SpecParams(kids) ==
  LET tags   == [i \in DOMAIN kids |-> fx.die[kids[i]].tag]
      cut    == IF \E i \in DOMAIN kids : tags[i] = "unspecified_parameters"
                THEN Min({i \in DOMAIN kids : tags[i] = "unspecified_parameters"})
                ELSE Len(kids) + 1
      formal == SelectSeq(SubSeq(kids, 1, cut - 1), LAMBDA k : fx.die[k].tag = "formal_parameter")
      decls  == [i \in DOMAIN formal |->
                   SpecDecl(fx.die[formal[i]].type,
                            IF fx.die[formal[i]].name = NoAttr THEN << >> ELSE << fx.die[formal[i]].name >>)]
                \o (IF cut <= Len(kids) THEN << << "..." >> >> ELSE << >>)
  IN  FlattenSeq([i \in DOMAIN decls |-> IF i = 1 THEN decls[i] ELSE << "," >> \o decls[i]])

DeclaratorMatchesSpec ==
  last.op = "string" => last.val = SpecDecl(last.ref, << >>)

(***************************************************************************)
(* function_t::to_string writes the C declaration of the function (spec   *)
(* 4.6 and the example of spec.md:77, int add(int, int)): its return type *)
(* around its name and the declarators of the parameters it takes, the   *)
(* variadic "..." last.  A parameter list that runs on past "..." or a    *)
(* declarator built in the wrong order breaks it.                         *)
(***************************************************************************)
FunctionStringMatchesSpec ==
  last.op = "fstring" =>
    LET e == fx.die[last.ref] IN
    last.val = SpecDecl(e.type, NameTok(e) \o << "(" >> \o SpecParams(e.kids) \o << ")" >>)

(***************************************************************************)
(* describe_address reports as the location's compile unit the unit whose  *)
(* tree holds the function it found: the offset ranges resolve() tests     *)
(* (start <= off < end over every loaded unit) agree with the units'       *)
(* trees, at each unit boundary.                                           *)
(***************************************************************************)
DescribeAddressNamesItsUnit ==
  (last.op = "describe" /\ last.val # NoRef) => last.ref \in ToSet(fx.die[last.val].kids)

\* The answers of both type queries that the spec describes by formula.
TypeQueriesMatchSpec == SizeofMatchesSpec /\ DeclaratorMatchesSpec

=============================================================================

---------------------------- MODULE TestNodeTree ----------------------------
(***************************************************************************)
(* The test-registration tree np::testnode_t (src/np/testnode.cxx).        *)
(* Discovery builds it with make_path(), set_function(), add_mock() and    *)
(* add_parameter(), then detach_common() cuts off the chain of single-     *)
(* child ancestors; the run phase walks it with preorder_iterator and asks *)
(* get_fixtures() for the before/after functions of a test, and pre_run()  *)
(* and post_run() to install and uninstall the intercepts around it.      *)
(*                                                                         *)
(* Nodes come from a pool; Root is the nameless root the tree starts as.  *)
(* The children_/next_ linked list of a node is the sequence kids[n].     *)
(* A name part is a model value; a path is the sequence of parts          *)
(* spiegel::tok_t yields for "/"-separated names (empty parts skipped).    *)
(***************************************************************************)
EXTENDS Integers, SequencesExt

CONSTANTS
  Names,      \* name parts of test names
  MaxDepth,   \* longest path make_path is given
  MaxNodes,   \* size of the node pool
  FuncTypes,  \* the functype_t values set_function is called with
  MaxMocks,   \* cap on intercepts_.size() per node
  MaxParams,  \* cap on parameters_.size() per node
  NoName      \* the root's NULL name_

ASSUME MaxNodes \in Nat \ {0} /\ MaxDepth \in Nat \ {0}
ASSUME FuncTypes \subseteq {"before", "test", "after"}
ASSUME MaxMocks \in 0..1 /\ MaxParams \in 0..1

Nodes     == 1..MaxNodes
Root      == 1
None      == 0
Paths     == UNION {[1..k -> Names] : k \in 1..MaxDepth}

VARIABLES
  name,      \* name_ of each node
  parent,    \* parent_ of each node (None for a root)
  kids,      \* children_ followed along next_
  alloc,     \* the nodes allocated so far
  funcs,     \* the function types set in funcs_[] of each node
  mocks,     \* intercepts_.size()
  params,    \* parameters_.size()
  top,       \* the root the program holds
  phase,     \* "build", "run", or "crashed" after a null dereference
  made,      \* the path given to the last make_path and the node it returned
  cut,       \* the ancestors detach_common cut off the tree
  iter,      \* a preorder_iterator: its base, node and the nodes it yielded
  fixtures,  \* the last get_fixtures() answer: [node, type, list]
  installed, \* intercepts installed, in order; <<n, i>> is intercepts_[i] of n
  running    \* the node between its pre_run() and post_run(), or None

vars == <<name, parent, kids, alloc, funcs, mocks, params, top, phase, made, cut, iter, fixtures,
          installed, running>>

\* next_ of node n: the sibling after it in its parent's list.
NextOf(n) ==
  IF parent[n] = None THEN None
  ELSE LET s == kids[parent[n]]
           i == CHOOSE j \in DOMAIN s : s[j] = n
       IN  IF i < Len(s) THEN s[i + 1] ELSE None

\* Mutant: the strcmp loop never matches, so every part is appended anew.
ChildNamedNever(k, nm, n, part) == None

\* The child of n named part, or None (the strcmp loop of make_path).
ChildNamed(k, nm, n, part) ==
  LET c == {j \in DOMAIN k[n] : nm[k[n][j]] = part} IN
  IF c = {} THEN None ELSE k[n][CHOOSE j \in c : \A i \in c : j <= i]

(***************************************************************************)
(* make_path (testnode.cxx:25-53): for each part, the child of that name  *)
(* or a new one appended at the tail of the children list.  The state is *)
(* threaded as a record; "cur" is the node reached.                       *)
(***************************************************************************)
\* Mutant: a found child is not descended into (parent = child dropped).
RECURSIVE MkPathStay(_, _, _)
MkPathStay(st, cur, p) ==
  IF p = << >> THEN [st EXCEPT !.cur = cur]
  ELSE LET c == ChildNamed(st.kids, st.name, cur, Head(p)) IN
       IF c # None THEN MkPathStay(st, cur, Tail(p))
       ELSE LET n == CHOOSE x \in Nodes \ st.alloc : \A y \in Nodes \ st.alloc : x <= y
            IN  MkPathStay([st EXCEPT !.alloc  = @ \cup {n},
                                      !.name   = [@ EXCEPT ![n] = Head(p)],
                                      !.parent = [@ EXCEPT ![n] = cur],
                                      !.kids   = [@ EXCEPT ![cur] = Append(@, n), ![n] = << >>]],
                           n, Tail(p))

\* Mutant: the new node is linked in but never taken from the pool.
RECURSIVE MkPathNoAlloc(_, _, _)
MkPathNoAlloc(st, cur, p) ==
  IF p = << >> THEN [st EXCEPT !.cur = cur]
  ELSE LET c == ChildNamed(st.kids, st.name, cur, Head(p)) IN
       IF c # None THEN MkPathNoAlloc(st, c, Tail(p))
       ELSE LET n == CHOOSE x \in Nodes \ st.alloc : \A y \in Nodes \ st.alloc : x <= y
            IN  MkPathNoAlloc([st EXCEPT !.name   = [@ EXCEPT ![n] = Head(p)],
                                         !.parent = [@ EXCEPT ![n] = cur],
                                         !.kids   = [@ EXCEPT ![cur] = Append(@, n), ![n] = << >>]],
                              n, Tail(p))

RECURSIVE MkPath(_, _, _)
MkPath(st, cur, p) ==
  IF p = << >> THEN [st EXCEPT !.cur = cur]
  ELSE LET c == ChildNamed(st.kids, st.name, cur, Head(p)) IN
       IF c # None THEN MkPath(st, c, Tail(p))
       ELSE LET n == CHOOSE x \in Nodes \ st.alloc : \A y \in Nodes \ st.alloc : x <= y
            IN  MkPath([st EXCEPT !.alloc  = @ \cup {n},
                                  !.name   = [@ EXCEPT ![n] = Head(p)],
                                  !.parent = [@ EXCEPT ![n] = cur],
                                  !.kids   = [@ EXCEPT ![cur] = Append(@, n), ![n] = << >>]],
                       n, Tail(p))

\* How many nodes make_path(p) would create under top.
RECURSIVE Missing(_, _)
Missing(cur, p) ==
  IF p = << >> THEN 0
  ELSE LET c == ChildNamed(kids, name, cur, Head(p)) IN
       IF c # None THEN Missing(c, Tail(p)) ELSE Len(p)

(***************************************************************************)
(* detach_common (testnode.cxx:132-150): descend while the node has no    *)
(* intercepts, no parameters and exactly one child.                       *)
(***************************************************************************)
\* Fault variant: the intercepts_.size() test left out of the loop.
RECURSIVE HighestIgnoringMocks(_)
HighestIgnoringMocks(tn) ==
  IF params[tn] = 0 /\ Len(kids[tn]) = 1
  THEN HighestIgnoringMocks(kids[tn][1]) ELSE tn

RECURSIVE Highest(_)
Highest(tn) ==
  IF mocks[tn] = 0 /\ params[tn] = 0 /\ Len(kids[tn]) = 1
  THEN Highest(kids[tn][1]) ELSE tn

(***************************************************************************)
(* preorder_iterator::operator++ (testnode.cxx:217-229).                  *)
(***************************************************************************)
Succ(n, base) ==
  IF kids[n] # << >> THEN kids[n][1]
  ELSE IF n # base /\ NextOf(n) # None THEN NextOf(n)
  ELSE IF parent[n] # base /\ parent[n] # None THEN NextOf(parent[n])
  ELSE None

\* The ancestors of n from n up to the root, n first (the parent_ chain).
RECURSIVE UpChain(_)
UpChain(n) == IF n = None THEN << >> ELSE << n >> \o UpChain(parent[n])

(***************************************************************************)
(* get_fixtures (testnode.cxx:152-169): walking from n to the root,       *)
(* FT_BEFORE functions are pushed at the front, others at the back.  A    *)
(* function is named by the node it is set on.                            *)
(***************************************************************************)
\* Mutant: FT_BEFORE functions pushed at the back like the others.
RECURSIVE CollectFixturesAppend(_, _, _)
CollectFixturesAppend(chain, type, acc) ==
  IF chain = << >> THEN acc
  ELSE LET a == Head(chain) IN
       CollectFixturesAppend(Tail(chain), type,
         IF type \notin funcs[a] THEN acc ELSE Append(acc, a))

RECURSIVE CollectFixtures(_, _, _)
CollectFixtures(chain, type, acc) ==
  IF chain = << >> THEN acc
  ELSE LET a == Head(chain) IN
       CollectFixtures(Tail(chain), type,
         IF type \notin funcs[a] THEN acc
         ELSE IF type = "before" THEN << a >> \o acc ELSE Append(acc, a))

GetFixturesList(n, type) == CollectFixtures(UpChain(n), type, << >>)

\* The preorder of the subtree under n, first child first.
RECURSIVE PreorderOf(_), PreorderList(_)
PreorderOf(n) == << n >> \o PreorderList(kids[n])
PreorderList(s) == IF s = << >> THEN << >> ELSE PreorderOf(Head(s)) \o PreorderList(Tail(s))

\* The intercepts_ of node a, in vector order.
Intercepts(a) == [i \in 1..mocks[a] |-> <<a, i>>]

\* The intercepts pre_run and post_run walk: those of n and of each
\* ancestor along parent_, innermost first (testnode.cxx:190-196, 211-216).
ChainIntercepts(n) == FlattenSeq([j \in DOMAIN UpChain(n) |-> Intercepts(UpChain(n)[j])])

\* The names along parent_ from the outermost named node down to n, a
\* NULL name_ skipped: the parts get_fullname (115-129) visits (the "."
\* join is left out; make_path, whose result this describes, takes paths).
NamePath(n) == LET up == SelectSeq(UpChain(n), LAMBDA a : name[a] # NoName)
               IN  [i \in 1..Len(up) |-> name[up[Len(up) + 1 - i]]]

-----------------------------------------------------------------------------
Init ==
  /\ name = [n \in Nodes |-> NoName]
  /\ parent = [n \in Nodes |-> None]
  /\ kids = [n \in Nodes |-> << >>]
  /\ alloc = {Root}
  /\ funcs = [n \in Nodes |-> {}]
  /\ mocks = [n \in Nodes |-> 0]
  /\ params = [n \in Nodes |-> 0]
  /\ top = Root
  /\ phase = "build"
  /\ made = [node |-> None, path |-> << >>]
  /\ cut = {}
  /\ iter = [base |-> None, node |-> None, visited |-> << >>]
  /\ fixtures = [node |-> None, type |-> "before", list |-> << >>]
  /\ installed = << >>
  /\ running = None

Build == UNCHANGED <<top, phase, cut, iter, fixtures, installed, running>>

\* The variables the run-phase calls leave alone.
Tree == <<name, parent, kids, alloc, funcs, mocks, params, top, phase, made, cut>>

MakePath(p) ==
  /\ phase = "build"
  /\ Missing(top, p) <= Cardinality(Nodes \ alloc)
  /\ LET st == MkPath([name |-> name, parent |-> parent, kids |-> kids,
                       alloc |-> alloc, cur |-> None], top, p)
     IN  /\ name' = st.name /\ parent' = st.parent /\ kids' = st.kids
         /\ alloc' = st.alloc /\ made' = [node |-> st.cur, path |-> p]
  /\ UNCHANGED <<funcs, mocks, params>> /\ Build

\* set_function (55-68): the first function of a type is kept.
SetFunction(n, ft) ==
  /\ phase = "build" /\ n \in alloc
  /\ funcs' = [funcs EXCEPT ![n] = @ \cup {ft}]
  /\ UNCHANGED <<name, parent, kids, alloc, mocks, params, made>> /\ Build

\* add_mock (76-80) and add_parameter (302-306) append to a vector.
AddMock(n) ==
  /\ phase = "build" /\ n \in alloc /\ mocks[n] < MaxMocks
  /\ mocks' = [mocks EXCEPT ![n] = @ + 1]
  /\ UNCHANGED <<name, parent, kids, alloc, funcs, params, made>> /\ Build

AddParameter(n) ==
  /\ phase = "build" /\ n \in alloc /\ params[n] < MaxParams
  /\ params' = [params EXCEPT ![n] = @ + 1]
  /\ UNCHANGED <<name, parent, kids, alloc, funcs, mocks, made>> /\ Build

DetachCommon ==
  /\ phase = "build"
  /\ LET tn == Highest(top) IN
     \/ /\ parent[tn] # None
        /\ kids' = [kids EXCEPT ![parent[tn]] = << >>]
        /\ parent' = [parent EXCEPT ![tn] = None]
        /\ top' = tn
        /\ phase' = "run"
        /\ cut' = {a \in alloc : a # tn /\ \E i \in DOMAIN UpChain(tn) : UpChain(tn)[i] = a}
     \/ /\ parent[tn] = None            \* tn->parent_->children_ = 0
        /\ phase' = "crashed"
        /\ UNCHANGED <<kids, parent, top, cut>>
  /\ UNCHANGED <<name, alloc, funcs, mocks, params, made, iter, fixtures, installed, running>>

\* for (preorder_iterator i = base ...) starts at the base itself.
BeginIteration(b) ==
  /\ phase = "run" /\ iter.node = None
  /\ iter' = [base |-> b, node |-> b, visited |-> << b >>]
  /\ UNCHANGED <<Tree, fixtures, installed, running>>

StepIteration ==
  /\ iter.node # None
  /\ LET n == Succ(iter.node, iter.base) IN
       iter' = [iter EXCEPT !.node = n,
                            !.visited = IF n = None THEN @ ELSE Append(@, n)]
  /\ UNCHANGED <<Tree, fixtures, installed, running>>

GetFixtures(n, type) ==
  /\ phase = "run"
  /\ fixtures' = [node |-> n, type |-> type, list |-> GetFixturesList(n, type)]
  /\ UNCHANGED <<Tree, iter, installed, running>>

\* pre_run (187-197) before a test: install the chain's intercepts,
\* innermost first.  The runner pairs it with a post_run.
PreRun(n) ==
  /\ phase = "run" /\ running = None
  /\ installed' = installed \o ChainIntercepts(n)
  /\ running' = n
  /\ UNCHANGED <<Tree, iter, fixtures>>

\* post_run (199-215) after it: uninstall the same chain's intercepts.
PostRun ==
  /\ running # None
  /\ installed' = SelectSeq(installed, LAMBDA x : x \notin ToSet(ChainIntercepts(running)))
  /\ running' = None
  /\ UNCHANGED <<Tree, iter, fixtures>>

\* The nodes reachable from the root the program holds.
RECURSIVE Reach(_)
Reach(n) == {n} \cup UNION {Reach(kids[n][i]) : i \in DOMAIN kids[n]}

Next ==
  \/ \E p \in Paths : MakePath(p)
  \/ \E n \in alloc, ft \in FuncTypes : SetFunction(n, ft)
  \/ \E n \in alloc : AddMock(n) \/ AddParameter(n)
  \/ DetachCommon
  \/ \E b \in Reach(top) : BeginIteration(b)
  \/ StepIteration
  \/ \E n \in Reach(top), type \in FuncTypes \ {"test"} : GetFixtures(n, type)
  \/ \E n \in Reach(top) : PreRun(n)
  \/ PostRun

Spec == Init /\ [][Next]_vars

-----------------------------------------------------------------------------
TypeOK ==
  /\ alloc \subseteq Nodes /\ Root \in alloc /\ top \in alloc
  /\ name \in [Nodes -> Names \cup {NoName}]
  /\ parent \in [Nodes -> Nodes \cup {None}]
  /\ kids \in [Nodes -> Seq(alloc)]
  /\ funcs \in [Nodes -> SUBSET FuncTypes]
  /\ mocks \in [Nodes -> 0..MaxMocks] /\ params \in [Nodes -> 0..MaxParams]
  /\ cut \subseteq Nodes
  /\ phase \in {"build", "run", "crashed"}
  /\ made.node \in Nodes \cup {None}
  /\ iter.node \in Nodes \cup {None} /\ iter.visited \in Seq(Nodes)
  /\ installed \in Seq(Nodes \X (1..MaxMocks)) /\ running \in Nodes \cup {None}

(***************************************************************************)
(* The children lists and parent_ pointers of the tree agree, and no two   *)
(* children of a node share a name, however make_path calls interleave    *)
(* with the other discovery calls: make_path must find the existing child *)
(* rather than append a second one of the same name.                      *)
(***************************************************************************)
TreeWellFormed ==
  \A n \in Reach(top) :
    \A i, j \in DOMAIN kids[n] :
      /\ parent[kids[n][i]] = n
      /\ i # j => name[kids[n][i]] # name[kids[n][j]]

(***************************************************************************)
(* The node make_path returns is the one its path names: the names from   *)
(* the root down to it are the parts of the path, in order.               *)
(***************************************************************************)
MakePathResolves ==
  (phase = "build" /\ made.node # None) => NamePath(made.node) = made.path

(***************************************************************************)
(* A preorder_iterator started at a node yields exactly the nodes of its  *)
(* subtree, each once, in preorder, and then ends (how the run phase      *)
(* enumerates the tests under a node).                                    *)
(***************************************************************************)
IteratorVisitsSubtree ==
  (iter.base # None /\ iter.node = None) => iter.visited = PreorderOf(iter.base)

(***************************************************************************)
(* get_fixtures runs FT_BEFORE functions from the outermost node in and   *)
(* FT_AFTER functions from the innermost node out (the comment at         *)
(* testnode.cxx:157-158).                                                 *)
(***************************************************************************)
FixturesNest ==
  fixtures.node # None =>
    LET has(a) == fixtures.type \in funcs[a]
        out == SelectSeq(Reverse(UpChain(fixtures.node)), has)
    IN  fixtures.list = IF fixtures.type = "before" THEN out ELSE Reverse(out)

(***************************************************************************)
(* detach_common leaves the run phase the tests discovery built: it       *)
(* returns (it never dereferences the null parent_ of a root, which ends  *)
(* the process), and once the run phase has tests it has cut off no node  *)
(* carrying a before or after function, which applied to every test     *)
(* below it and which get_fixtures could no longer reach.                 *)
(***************************************************************************)
DetachCommonPreservesTests ==
  /\ phase # "crashed"
  /\ (phase = "run" /\ \E t \in Reach(top) : "test" \in funcs[t])
       => \A n \in cut : funcs[n] \cap {"before", "after"} = {}
(***************************************************************************)
(* While a test runs, exactly the intercepts of the nodes it was          *)
(* discovered under are installed: add_mock on any ancestor, including    *)
(* one detach_common has since cut off (whose parent_ link pre_run can no *)
(* longer follow), redirects the test's calls, and nothing a previous      *)
(* test's pre_run installed is left behind by its post_run.  Depends on   *)
(* detach_common refusing to cut a node with intercepts and on pre_run    *)
(* and post_run walking the same chain.                                   *)
(***************************************************************************)
PreRunInstallsEveryMock ==
  running # None =>
    ToSet(installed) = UNION {ToSet(Intercepts(a)) : a \in ToSet(UpChain(running)) \cup cut}
=============================================================================

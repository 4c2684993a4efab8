----------------------------- MODULE Selection -----------------------------
(***************************************************************************)
(* How a failed test is found again: the runs of one suite, or of one shard*)
(* of it, and the narrowed runs after them (operators/_reselect.py, with   *)
(* its callers in pytest_operator.py, 415-436 and 505-533).                *)
(*                                                                         *)
(* A report names a test relative to pytest's rootdir, which depends on    *)
(* what the run was asked for.  reselect() looks the name up in the tree of*)
(* the suite and pins the rootdir it infers.  The tree does not change     *)
(* between runs; `lost` and `faulty` in PytestOperator stand for the rest. *)
(***************************************************************************)
EXTENDS Shards, NodeIds, FiniteSets

CONSTANTS
  Layouts,     \* the projects: see Layout
  MaxShards,   \* bound on num_shards
  MaxRounds    \* bound on the narrowed runs

\* A test of the project: an absolute file, and the rest as in a node-id.  The
\* suite is what test_path names, directories or files; `own` a --rootdir in
\* pytest_args.  Test files are those of the tests.  Of the directories,
\*   inis    hold a file pytest takes its configuration from,
\*   named   one with a name that reselect() knows (_CONFIGS): of any content,
\*           and without .pytest.ini,
\*   bare    a pyproject.toml without pytest's table, as newer pytests may use,
\*   setups  a setup.py.
NoDir == <<"none">>
Test == [file : Seq(STRING) \ {<<>>}, scopes : Seq(STRING), name : STRING, param : Seq(STRING)]
Folders == SUBSET Seq(STRING)
Layout == [tests : SUBSET Test, suite : Folders, own : Seq(STRING),
           inis : Folders, named : Folders, bare : Folders, setups : Folders]

\* What names a test in its file, in pytest's command line.
RestOf(t) == t.scopes \o <<t.name>> \o t.param

\* Two tests differ by name, every target exists and has a test, and a rootdir
\* of the user's is a folder that holds the suite.  NoDir is the name of none.
ASSUME LayoutsAssumption ==
  \A l \in Layouts :
    /\ l \in Layout /\ IsFiniteSet(l.tests) /\ l.suite # {}
    /\ \A t, u \in l.tests : t.file = u.file /\ RestOf(t) = RestOf(u) => t = u
    /\ \A p \in l.suite : \E t \in l.tests : IsPrefix(p, t.file)
    /\ l.own # NoDir => \A p \in l.suite : IsPrefix(l.own, p)
    /\ \A t \in l.tests : t.file # l.own /\ ~IsPrefix(NoDir, t.file)
ASSUME BoundsAssumption == MaxShards \in Nat \ {0} /\ MaxRounds \in Nat

VARIABLES
  layout,      \* fixed
  targets,     \* test_path: the suite, or the files of the tests of a shard
  mine,        \* the tests it stands for
  asked,       \* the tests the latest run executed
  args,        \* the files and directories it was asked for
  rootdir,     \* pytest's, in that run
  bad,         \* the tests of it that failed, and their ids in the report
  pending,
  stuck,       \* ids no selector reaches
  strays,      \* ghost: the tests they name
  round,       \* narrowed runs so far
  refused      \* pytest found no test for a selector

choosing == <<layout, targets, mine>>
running  == <<asked, args, rootdir, bad, pending, stuck, strays, round, refused>>
all == <<sharding, choosing, running>>

----------------------------------------------------------------------------
(* Paths *)

FilesOf(tests) == {t.file : t \in tests}
Under(dir, path) == IsPrefix(dir, path)

\* The tests a target names: those of a directory or file.
Collected(suite) == {t \in layout.tests : \E p \in suite : Under(p, t.file)}

\* The directory of a target: of the path, or of the file it is.
DirOf(path) == IF path \in FilesOf(layout.tests) THEN Front(path) ELSE path
Common(paths) == LongestCommonPrefix({DirOf(p) : p \in paths})

\* The closest of the marked directories at or above one.
Nearest(dir, marked) ==
  {d \in marked : Under(d, dir) /\ \A e \in marked : Under(e, dir) => Under(e, d)}

\* Where pytest's search upward from the directories, in one order or another,
\* ends: at a configuration, or for want of any at a pyproject.toml.
Configs(dirs) ==
  LET found == UNION {Nearest(d, layout.inis) : d \in dirs}
  IN  IF found # {} THEN found ELSE UNION {Nearest(d, layout.bare) : d \in dirs}

\* pytest's own choice, which may hang on the order of its arguments: what it
\* finds above all of them, a setup.py there, what it finds above one of them,
\* or else their common directory, from which the runner starts it (no cwd and no -c
\* of the user's).
DerivedRootdirs(paths) ==
  LET dir   == Common(paths)
      above == Configs({dir})
      setup == Nearest(dir, layout.setups)
      each  == Configs({DirOf(p) : p \in paths})
  IN  IF above # {} THEN above
      ELSE IF setup # {} THEN setup
      ELSE IF each # {} THEN each ELSE {dir}

\* An explicit --rootdir wins over a pinned one, which wins over pytest's own.
RootdirsFor(paths, pinned) ==
  IF layout.own # NoDir THEN {layout.own}
  ELSE IF pinned # NoDir THEN {pinned}
  ELSE DerivedRootdirs(paths)

\* pytest's node-id of a test, and the package's: relative to the rootdir or,
\* where the test is not below that, to the argument it is collected from.
IdOf(t, dir) ==
  Split([t EXCEPT !.file = SubSeq(@, Len(dir) + 1, Len(@))])
Origin(t, dir, paths) ==
  IF Under(dir, t.file) THEN dir ELSE CHOOSE p \in Nearest(t.file, paths) : TRUE

----------------------------------------------------------------------------
(* _reselect.py *)

\* suite_root()
Root == Common(targets)

\* _locate(): the deepest of the root and its parents from which the file
\* exists, inside the root.
Bases(file) ==
  LET root  == Root
      found == {n \in 0..Len(root) :
                  LET p == SubSeq(root, 1, n) \o file
                  IN  Under(root, p) /\ p \in FilesOf(layout.tests)}
  IN  {n \in found : \A m \in found : m <= n}

Located(id) == Converted(id).file # NoFile /\ Bases(Converted(id).file) # {}
BaseOf(id) == SubSeq(Root, 1, CHOOSE n \in Bases(Converted(id).file) : TRUE)
SelectorOf(id) ==
  [file |-> BaseOf(id) \o Converted(id).file, rest |-> Converted(id).rest]

\* Bug: only a directory with one of _CONFIGS is a plausible rootdir.
PlausibleConfig(dirs) ==
  IF Cardinality(dirs) # 1 THEN NoDir
  ELSE LET dir == CHOOSE d \in dirs : TRUE
       IN  IF dir \in layout.named THEN dir ELSE NoDir

\* _plausible_rootdir() of the one base all located ids share.
Plausible(dirs) ==
  IF Cardinality(dirs) # 1 THEN NoDir
  ELSE LET dir == CHOOSE d \in dirs : TRUE
       IN  IF dir = Root \/ dir \in layout.named THEN dir ELSE NoDir

\* reselect()
Plan(ids) ==
  LET located == {i \in ids : Located(i)}
  IN  [selectors |-> {SelectorOf(i) : i \in located},
       missing   |-> ids \ located,
       pinned    |-> Plausible({BaseOf(i) : i \in located})]

\* The tests pytest takes a selector for.
Hit(selector) ==
  {t \in layout.tests :
     t.file = selector.file /\ RestOf(t) = selector.rest}

----------------------------------------------------------------------------
(* Runs *)

\* The tests of `tests` that fail, and the report they leave.  pytest has
\* rejected the command line if a selector hits nothing: exit code 4, an error.
RunOf(tests, paths, pinned) ==
  /\ asked' = tests /\ args' = paths /\ rootdir' \in RootdirsFor(paths, pinned)
  /\ \E f \in SUBSET tests :
       bad' = f /\ pending' = {IdOf(t, Origin(t, rootdir', paths)) : t \in f}

\* The suite as it stands, or the ids of one shard.
SelectionInit ==
  /\ layout \in Layouts
  /\ targets = layout.suite /\ mine = {}
  /\ count = Cardinality(Collected(layout.suite)) /\ wanted \in 1..MaxShards
  /\ groups = <<>> /\ start = 0
  /\ asked = {} /\ args = {} /\ rootdir = NoDir /\ bad = {} /\ pending = {} /\ stuck = {} /\ strays = {}
  /\ round = 0 /\ refused = FALSE

\* Any order will do: pytest groups what it collects by file.
Order == SetToSeq(Collected(layout.suite))
Group(g) == {Order[j] : j \in g.first..g.last}

Shard == Cut /\ UNCHANGED <<choosing, running>>

\* The whole test_path, as a first run and a fallback ask for it.
WholeRun == RunOf(mine', targets', NoDir) /\ UNCHANGED refused

\* A mapped task takes a group as its test_path; an only one may take the suite.
FirstRun ==
  /\ Sharded /\ mine = {}
  /\ \/ wanted = 1 /\ mine' = Collected(targets) /\ UNCHANGED targets
     \/ \E k \in DOMAIN groups :
          mine' = Group(groups[k]) /\ targets' = FilesOf(mine')
  /\ WholeRun
  /\ UNCHANGED <<sharding, layout, stuck, strays, round>>

Narrowed(plan) ==
  LET hits == {Hit(s) : s \in plan.selectors}
  IN  IF {} \in hits
      THEN /\ refused' = TRUE
           /\ UNCHANGED <<asked, args, rootdir, bad, pending>>
      ELSE /\ RunOf(UNION hits, {s.file : s \in plan.selectors}, plan.pinned)
           /\ UNCHANGED refused

\* A round of rerun_failed: what cannot be selected is stuck, the rest runs.
Rerun ==
  /\ round < MaxRounds /\ ~refused
  /\ Plan(pending).selectors # {}
  /\ stuck' = stuck \cup Plan(pending).missing
  /\ strays' = strays \cup {t \in bad : IdOf(t, Origin(t, rootdir, args)) \in Plan(pending).missing}
  /\ round' = round + 1
  /\ Narrowed(Plan(pending))
  /\ UNCHANGED <<sharding, choosing>>

\* The next attempt under failed_only: all that still fails, or else the suite.
Retry ==
  /\ round < MaxRounds /\ ~refused /\ pending \cup stuck # {}
  /\ round' = round + 1 /\ stuck' = {} /\ strays' = {}
  /\ UNCHANGED <<sharding, choosing>>
  /\ LET plan == Plan(pending \cup stuck)
     IN  IF plan.missing = {} THEN Narrowed(plan) ELSE WholeRun

SelectionNext == Shard \/ FirstRun \/ Rerun \/ Retry

SelectionSpec == SelectionInit /\ [][SelectionNext]_all

----------------------------------------------------------------------------
(* What the reruns rely on *)

\* The file an id names, from the root or any parent of it, is that of its test
\* or is not there.  So no directory of the suite repeats the end of the suite's
\* own path, since the deepest base wins, and none is another's name with a slash
\* for its dot.
NoEcho ==
  LET root == Root
  IN  \A t \in layout.tests, g \in FilesOf(layout.tests) :
        \A m, n \in 0..Len(root) :
          /\ Under(root, t.file) /\ Under(root, g)
          /\ SubSeq(g, m + 1, Len(g)) = Converted(IdOf(t, SubSeq(root, 1, n))).file
          => g = t.file /\ m = n

\* The rootdir of a run of the whole test_path is one the inference knows: the
\* common directory, or one above it with a file of _CONFIGS.  It may be another:
\* a directory with a setup.py or .pytest.ini, or the one of several targets that
\* has a config file; the ids of the others then lead out of it.
Anchored ==
  \/ layout.own # NoDir
  \/ \E dir \in DerivedRootdirs(targets) :
       /\ DerivedRootdirs(targets) = {dir}
       /\ dir = Root \/ (dir \in layout.named /\ Under(dir, Root))

Failing == bad \cup strays

\* The convention of utils/node_id.py: names that look like classes are, names
\* of classes do, and no folder has a dot in its name.
Conventional(t) ==
  /\ \A i \in DOMAIN t.file : t.file[i] \notin ClassLike \cup DOMAIN Dotted
  /\ t.scopes # <<>> => t.scopes[1] \in ClassLike

\* Where the rootdir is one the code can infer, a narrowed run executes just the
\* tests that still fail, and pytest finds all it is asked for.  A test whose name
\* breaks the convention may be out of reach; it is then known to be, or the whole
\* suite is run again (78-124; rounds of rerun_failed, 505-533; failed_only, 415-436).
RerunExact ==
  [][round' > round /\ NoEcho /\ Anchored =>
       /\ ~refused'
       /\ asked' = mine \/ (asked' \subseteq Failing /\ Failing \subseteq asked' \cup strays')
       /\ asked' # Failing => \E t \in Failing : ~Conventional(t)
       /\ \A t \in strays' : ~Conventional(t)]_all

\* Where the rootdir is one the code can infer, every narrowed run keeps it, however
\* few tests are left and whatever config files lie nearer to them: the ids of its
\* report mean what they meant before (comment at 22-37, 131-146; _pin_rootdir).
RootdirKept ==
  [][round' > round /\ NoEcho /\ Anchored => rootdir' = rootdir]_all
=============================================================================

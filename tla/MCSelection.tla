---------------------------- MODULE MCSelection ----------------------------
(* The projects Selection is checked with. *)
EXTENDS Selection, TLC

Pieced == "v1.2" :> <<"v1", "2">>

TestIn(dir, rest) == [rest EXCEPT !.file = dir \o <<"m">>]
Plain == [file |-> <<>>, scopes |-> <<>>, name |-> "t", param |-> <<>>]
Rests ==
  {Plain, [Plain EXCEPT !.scopes = <<"TestC">>], [Plain EXCEPT !.scopes = <<"TestC", "Inner">>],
   [Plain EXCEPT !.scopes = <<"Suite">>], [Plain EXCEPT !.param = <<"x", "y">>]}

\* Below a and a/b, some in folders that look like classes, hold a dot, spell
\* another's dot as a slash, or repeat the way down.
Dirs == {<<"a">>, <<"a", "b">>, <<"a", "b", "c">>, <<"a", "c">>, <<"a", "TestD">>,
         <<"a", "v1.2">>, <<"a", "v1", "2">>, <<"a", "b", "b">>}
Tests == {TestIn(d, Plain) : d \in Dirs} \cup {TestIn(<<"a", "b">>, r) : r \in Rests}

Suites == {{<<"a">>}, {<<"a", "b">>}, {<<"a", "b">>, <<"a", "c">>}, {<<"a", "b", "m">>}}

\* Every pair of tests, and four that do not divide evenly into three shards.
Several == {TestIn(<<"a">>, Plain), TestIn(<<"a", "b">>, Plain), TestIn(<<"a", "c">>, Plain),
            TestIn(<<"a", "b">>, [Plain EXCEPT !.scopes = <<"TestC">>])}
\* Where pytest's configuration is: nowhere, at the root, above it with another
\* below; at one target only, or in each of two.  A tox.ini of another tool, a
\* pyproject.toml without a table, a setup.py; a .pytest.ini, alone and above a
\* pytest.ini.
NoTree == [inis |-> {}, named |-> {}, bare |-> {}, setups |-> {}]
ConfigAt(dirs) == [NoTree EXCEPT !.inis = dirs, !.named = dirs]
Known == {NoTree, ConfigAt({<<"a">>}), ConfigAt({<<>>, <<"a", "b">>})}
Unknown ==
  {ConfigAt({<<"a", "b">>}), ConfigAt({<<"a", "b">>, <<"a", "c">>}),
   [ConfigAt({<<"a", "b">>}) EXCEPT !.setups = {<<>>}],
   [ConfigAt({<<"a", "b">>}) EXCEPT !.inis = {<<>>, <<"a", "b">>}],
   [NoTree EXCEPT !.inis = {<<"a">>}],
   [NoTree EXCEPT !.named = {<<"a">>}],
   [NoTree EXCEPT !.named = {<<>>}, !.bare = {<<>>}]}

Project(tests, tree, suite, own) ==
  [tests |-> tests, inis |-> tree.inis, named |-> tree.named, bare |-> tree.bare,
   setups |-> tree.setups, suite |-> suite, own |-> own]
Projects ==
  {l \in {Project(tests, tree, suite, own) :
            tests \in {T \in SUBSET Tests : Cardinality(T) \in 1..2} \cup {Several},
            tree \in Known, suite \in Suites, own \in {NoDir, <<>>}}
       \cup {Project(tests, tree, suite, NoDir) :
            tests \in {T \in SUBSET Tests : Cardinality(T) \in 1..2} \cup {Several},
            tree \in Unknown, suite \in Suites} :
     \A p \in l.suite : \E t \in l.tests : IsPrefix(p, t.file)}
=============================================================================

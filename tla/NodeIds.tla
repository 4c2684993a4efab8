------------------------------ MODULE NodeIds ------------------------------
(***************************************************************************)
(* The three shapes of a test's name: pytest's node-id, the dotted id of a *)
(* report (reporters/json_parser.py, _split_nodeid(); models.py, node_id)  *)
(* and the selector it is converted to (utils/node_id.py).                 *)
(*                                                                         *)
(* A path is a sequence of names.  A node-id is [file, scopes, name, param]*)
(* where the file is relative to the rootdir, scopes are classes and param *)
(* is the bracketed suffix, cut at the "::" a parameter may hold.          *)
(***************************************************************************)
EXTENDS Integers, SequencesExt

CONSTANTS
  ClassLike,   \* names that begin with "Test"
  Dotted       \* the names that hold a dot, mapped to their pieces

ASSUME DottedAssumption ==
  \A d \in DOMAIN Dotted : Dotted[d] \in Seq(STRING \ DOMAIN Dotted) \ {<<>>}

\* The name between two slashes, after "/" became "." and "." a separator.
Pieces(name) == IF name \in DOMAIN Dotted THEN Dotted[name] ELSE <<name>>
Segments(path) == FlattenSeq([i \in DOMAIN path |-> Pieces(path[i])])

\* Bug: the "::" of a parameter are separators like any other.
SplitEverywhere(id) ==
  LET parts == id.scopes \o <<id.name>> \o id.param
  IN  [path |-> Segments(id.file) \o SubSeq(parts, 1, Len(parts) - 1),
       leaf |-> <<Last(parts)>>]

\* _split_nodeid(): classname and name.  The suffix in brackets stays with the
\* name, whatever it holds.
Split(id) ==
  [path |-> Segments(id.file) \o id.scopes, leaf |-> <<id.name>> \o id.param]

NoFile == <<>>

\* _convert_one(): the segments before the first class-like one name the file.
\* An id without any is left as it is, and names no file.
Converted(id) ==
  LET n == Len(id.path)
      classes == {i \in 1..n : id.path[i] \in ClassLike}
      k == IF classes = {} THEN n
           ELSE (CHOOSE i \in classes : \A j \in classes : i <= j) - 1
  IN  IF k = 0 THEN [file |-> NoFile, rest |-> id.leaf]
      ELSE [file |-> SubSeq(id.path, 1, k), rest |-> SubSeq(id.path, k + 1, n) \o id.leaf]
=============================================================================

---------------------------- MODULE MCNamespace ----------------------------
(* A root and three more inodes, three names, so that the root may hold enough *)
(* directories for its count to pass LinkMax (indexed) or wrap (linear); paths *)
(* down to three components, and those that end in a slash or a dot record.    *)
EXTENDS Namespace

MCPaths == {<<"a">>, <<"b">>, <<"c">>, <<"a", "b">>,
            <<"a", "b", "a">>, <<"">>, <<"a", "">>, <<"a", ".">>, <<"a", "..">>}
MCIno == 1 .. 4
=============================================================================

--------------------------- MODULE MCBundleReader ---------------------------
(***************************************************************************)
(* BundleReader on a small instance: two artifacts, each in a directory of *)
(* its own, two contents, and the segments that path.Clean treats          *)
(* differently.                                                            *)
(***************************************************************************)
EXTENDS BundleReader

CONSTANTS c1, c2

MCArtifactPaths == {<<"artifacts", "a">>, <<"derived", "d">>}
MCContents      == {c1, c2}
MCSegments      == {"", ".", "..", "x"}
=============================================================================

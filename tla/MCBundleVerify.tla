---------------------------- MODULE MCBundleVerify ----------------------------
(***************************************************************************)
(* BundleVerify on a small instance: two bundles, sealed from drafts that   *)
(* between them trip every check the producer alone can trip.              *)
(***************************************************************************)
EXTENDS BundleVerify, TLC

CONSTANTS b1, b2, k1, k2, c1, c2

MCBundles       == {b1, b2}
MCKeys          == {k1, k2}
MCContents      == {c1, c2}
MCArtifactPaths == {"artifacts/x", "derived/y"}
MCOtherPaths    == {"notes"}

Artifact(path, content) ==
  [stored_path |-> path, content |-> content, hashed |-> TRUE,
   policy_state |-> "export_allowed"]

Draft(key, class, artifacts, stamp) ==
  [key |-> key, package_class |-> class, artifacts |-> artifacts, stamp |-> stamp]

\* Two artifacts; one outside the directories, with a token, and one with a token
\* of the wrong algorithm; an artifact without a digest and one without a path;
\* two that share a path; an internal one for disclosure.
MCDrafts ==
  LET x == Artifact("artifacts/x", c1)
      y == Artifact("derived/y", c2)
      n == Artifact("notes", c1)
  IN  {Draft(k1, "evidence", <<x, y>>, "none"),
       Draft(k2, "sanitized", <<n>>, "SHA256"),
       Draft(k2, "snapshot", <<y>>, "SHA512"),
       Draft(k1, "evidence", <<[x EXCEPT !.hashed = FALSE]>>, "none"),
       Draft(k1, "snapshot", <<[y EXCEPT !.stored_path = ""]>>, "none"),
       Draft(k1, "evidence", <<x, [x EXCEPT !.content = c2]>>, "none"),
       Draft(k2, "disclosure", <<[y EXCEPT !.policy_state = "internal_only"]>>, "none")}
=============================================================================

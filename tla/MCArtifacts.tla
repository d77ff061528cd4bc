----------------------------- MODULE MCArtifacts -----------------------------
(***************************************************************************)
(* Artifacts with three places for a schema, two of which have the same    *)
(* stem, and two siblings.                                                 *)
(***************************************************************************)
EXTENDS Artifacts

CoreA == [tier |-> "core", stem |-> "a"]
ExtA == [tier |-> "extended", stem |-> "a"]
ExtB == [tier |-> "extended", stem |-> "b"]
MCFiles == {CoreA, ExtA, ExtB}

Schema(id, body) == [id |-> id, complete |-> TRUE, body |-> body]
MCContents == {Schema("a", 1), Schema("a", 2), Schema("extended/a", 1),
               Schema("extended/b", 1), Schema(NoId, 1)}

\* A new content, another schema's $id, another schema's stem, no $id, removal.
MCDrafts == [f \in Files |->
  CASE f = CoreA -> {Schema("a", 2), Schema("extended/b", 1)}
    [] f = ExtA -> {Schema("extended/a", 1)}
    [] OTHER -> {Schema(NoId, 1), NoFile}]

MCVersions == {"0.8.0", "0.9.0"}
MCSemver == {"0.2.0", "0.3.0", "0.8.0", "0.9.0"}
MCContinues == [v \in MCSemver |-> IF v = "0.3.0" THEN {v, "0.3.0.1"} ELSE {v}]
MCRank == [v \in MCSemver \cup {"0.3.0.1"} |->
             CASE v = "0.2.0" -> 1 [] v = "0.3.0" -> 2 [] v = "0.3.0.1" -> 3
               [] v = "0.8.0" -> 4 [] OTHER -> 5]
MCDistName == [name \in {"agent-kernel", "ChainWeaver"} |->
                 IF name = "ChainWeaver" THEN "chainweaver" ELSE name]

Entry(name) == [name |-> name, complete |-> TRUE, status |-> "unverified",
                supported_spec_versions |-> {}, tested_version |-> Null, declaration |-> FALSE]
Verified(name, v) == [Entry(name) EXCEPT !.status = "verified", !.declaration = TRUE,
                        !.supported_spec_versions = {"0.8.0"}, !.tested_version = v]
Manifest(repositories) ==
  [schema_version |-> 1, contract_versions |-> MCVersions, repositories |-> repositories]
Unverified == Manifest(<<Entry("agent-kernel"), Entry("ChainWeaver")>>)

\* Claimed without a declaration, verified twice, and a version dropped.
Claimed(name) == [Verified(name, "0.3.0") EXCEPT !.declaration = FALSE]
MCManifests ==
  {Unverified,
   Manifest(<<Claimed("agent-kernel"), Entry("ChainWeaver")>>),
   Manifest(<<Verified("agent-kernel", "0.2.0"), Verified("agent-kernel", "0.3.0"),
              Entry("ChainWeaver")>>),
   [Unverified EXCEPT !.contract_versions = {"0.9.0"}]}

Require(name, op, v) == [name |-> name, clauses |-> {[op |-> op, version |-> v]}]
Stack(runtime) == [project |-> TRUE, runtime |-> runtime]
MCPyprojects ==
  {Stack({}),
   Stack({Require("agent-kernel", ">=", "0.3.0")}),
   Stack({Require("agent-kernel", "<", "0.3.0")})}

\* The tree before its generated files, and with them.
Handwritten ==
  [schemas |-> [f \in Files |-> CASE f = CoreA -> Schema("a", 1)
                                  [] f = ExtB -> Schema("extended/b", 1)
                                  [] OTHER -> NoFile],
   version |-> "0.8.0", stated |-> [x \in SOURCES |-> MCVersions],
   index |-> NoFile, bundle |-> NoFile, coverage |-> NoFile,
   classes |-> {CoreA}, payloads |-> {"a"}, roundtrip |-> {CoreA}, schema_test |-> {},
   manifest |-> Unverified, pyproject |-> Stack({})]
Indexed == [Handwritten EXCEPT !.index = build_index(Handwritten)]
MCInitial == [Indexed EXCEPT !.bundle = build_bundle(Indexed), !.coverage = build_table(Indexed)]

\* Lost, of another version, of another content.
MCHandIndexes ==
  {NoFile,
   [Indexed.index EXCEPT !.version = "0.9.0"],
   [Indexed.index EXCEPT !.rows =
      {IF row.path = CoreA THEN [row EXCEPT !.sha256 = Schema("a", 2)] ELSE row : row \in @}]}
MCHandBundles ==
  {NoFile,
   [MCInitial.bundle EXCEPT !.defs = {d \in @ : d.name = "a"}]}
=============================================================================

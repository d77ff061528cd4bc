---------------------------- MODULE Compatibility ----------------------------
(***************************************************************************)
(* The two validators behind the compatibility promise, as predicates:     *)
(* scripts/validate_compatibility.py on compatibility.yaml, and            *)
(* scripts/validate_meta_package.py on the pins of weaver-stack.  A list   *)
(* of errors is reduced to whether it is empty.                            *)
(*                                                                         *)
(* A manifest has a sequence of entries, since nothing keeps two entries   *)
(* from naming one repository.  A requirement is the distribution name as  *)
(* it is spelled, in lower case, and a set of clauses.                     *)
(***************************************************************************)
EXTENDS Integers, Sequences

CONSTANTS
  REQUIRED_REPOS,    \* the repositories a manifest must have
  DIST_NAME,         \* what each repository is called on the index
  Referenced,        \* the names that docs/VERSIONING.md mentions
  Semver,            \* the versions that are MAJOR.MINOR.PATCH
  Continues,         \* Continues[v]: texts that begin with v's, no digit after it
  Rank,              \* Rank[v]: where an installer sorts a version
  Null               \* a null in the manifest

\* No plain version is the beginning of another one, up to a digit.
ASSUME CompatibilityOK == \A v \in Semver : Continues[v] \cap Semver = {v}
ASSUME RankOK == \A v \in Semver : Rank[v] \in Int

ALLOWED_STATUS == {"verified", "provisional", "unverified", "incompatible"}
TEST_BACKED == {"verified", "provisional"}

-----------------------------------------------------------------------------
(* validate_compatibility.py                                               *)

\* A claimed status must be backed by a declaration and concrete versions.
Backed(e) == e.declaration /\ e.supported_spec_versions # {} /\ e.tested_version # Null

ValidEntry(e, contract_versions) ==
  /\ e.complete
  /\ e.name \in Referenced
  /\ e.status \in ALLOWED_STATUS
  /\ e.supported_spec_versions \subseteq Semver \cap contract_versions
  /\ e.tested_version \in Semver \cup {Null}
  /\ e.status \in {"verified", "provisional"} => Backed(e)

ValidManifest(m) ==
  /\ m.schema_version = 1
  /\ m.contract_versions # {} /\ m.contract_versions \subseteq Semver
  /\ m.repositories # <<>>
  /\ \A i \in DOMAIN m.repositories : ValidEntry(m.repositories[i], m.contract_versions)
  /\ \A name \in REQUIRED_REPOS :
       \E i \in DOMAIN m.repositories : m.repositories[i].name = name

-----------------------------------------------------------------------------
(* validate_meta_package.py                                                *)

\* The entries of a distribution whose tested version is to be pinned.  Of two,
\* the later one overwrites the earlier.
TestBacked(m, dist) ==
  {i \in DOMAIN m.repositories : /\ DIST_NAME[m.repositories[i].name] = dist
                                 /\ m.repositories[i].status \in TEST_BACKED
                                 /\ m.repositories[i].tested_version # Null}
expected_runtime_pins(m) ==
  {m.repositories[i] : i \in {j \in DOMAIN m.repositories :
     LET same == TestBacked(m, DIST_NAME[m.repositories[j].name])
     IN  j \in same /\ \A k \in same : k <= j}}

known_siblings(m) == {DIST_NAME[m.repositories[i].name] : i \in DOMAIN m.repositories}

\* The text of the version is found behind == or >=.
_admits_version(requirement, version) ==
  \E c \in requirement.clauses : c.op \in {"==", ">="} /\ c.version \in Continues[version]

\* Each test-backed sibling is pinned, by pins that admit its tested version.
PinsEachBacked(m, runtime) ==
  \A e \in expected_runtime_pins(m) :
    LET matching == {r \in runtime : r.name = DIST_NAME[e.name]}
    IN  /\ matching # {}
        /\ \A r \in matching : _admits_version(r, e.tested_version)

\* No sibling is pinned that is not test-backed.  (PinsAnySibling is the faulty
\* variant without this check.)
PinsAnySibling(m, runtime) == TRUE
PinsBackedOnly(m, runtime) ==
  \A r \in runtime : r.name \in known_siblings(m) =>
    \E e \in expected_runtime_pins(m) : DIST_NAME[e.name] = r.name

\* The name, requires-python and the dependency on weaver_contracts are one bit.
ValidPins(m, pyproject) ==
  /\ pyproject.project
  /\ PinsEachBacked(m, pyproject.runtime)
  /\ PinsBackedOnly(m, pyproject.runtime)

-----------------------------------------------------------------------------
(* What the validators are there for.                                      *)

\* What an installer makes of a clause.
Satisfies(version, c) ==
  CASE c.op = "==" -> Rank[version] = Rank[c.version]
    [] c.op = ">=" -> Rank[version] >= Rank[c.version]
    [] c.op = ">"  -> Rank[version] > Rank[c.version]
    [] c.op = "<"  -> Rank[version] < Rank[c.version]
    [] c.op = "!=" -> Rank[version] # Rank[c.version]
    [] OTHER -> FALSE
Admits(requirement, version) == \A c \in requirement.clauses : Satisfies(version, c)

\* A requirement of one clause, on a plain version.
Plain(r) == \E c \in r.clauses : r.clauses = {c} /\ c.version \in Semver

\* Every pin of a sibling rests on an entry of the manifest that has a
\* declaration and was tested against a supported contract version; and what it
\* was tested at is admitted, as far as a reader of one clause can tell.
Vouched(m, r) ==
  \E i \in DOMAIN m.repositories :
    LET e == m.repositories[i]
    IN  /\ DIST_NAME[e.name] = r.name
        /\ Backed(e)
        /\ e.supported_spec_versions \subseteq m.contract_versions
        /\ Plain(r) => Admits(r, e.tested_version)
=============================================================================

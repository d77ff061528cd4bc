--------------------------- MODULE ReleaseIdentity ---------------------------
(***************************************************************************)
(* What a publication promises, whatever jobs carry it out: a release      *)
(* (package and version) is bound once, to one build of one commit that    *)
(* its tag has pointed at and that is fit to be that release, and all its  *)
(* distribution files come from that build.  It is the "immutable release  *)
(* identity" of .github/workflows/publish.yml, and Publish implements it.  *)
(***************************************************************************)
CONSTANTS
  Releases,   \* package-and-version pairs
  Commits,
  Builds,     \* records with a field commit: the commit that was built
  Files,      \* the distribution files of one release
  Fit(_, _),  \* Fit(rel, c): commit c declares rel and passes rel's gate
  Unbound     \* no build is bound yet

VARIABLES
  vouched,    \* vouched[rel]: the commits a tag naming rel has pointed at
  identity,   \* identity[rel]: the build bound to rel, or Unbound
  files       \* files[rel]: the files of rel that can be downloaded

vars == <<vouched, identity, files>>

Init ==
  /\ vouched = [rel \in Releases |-> {}]
  /\ identity = [rel \in Releases |-> Unbound]
  /\ files = [rel \in Releases |-> {}]

\* Tags name commits as releases; what was once named stays vouched for.
Vouch ==
  /\ vouched' \in [Releases -> SUBSET Commits]
  /\ \A rel \in Releases : vouched[rel] \subseteq vouched'[rel]
  /\ UNCHANGED <<identity, files>>

\* The first file of rel binds it to the build the file came from.
Bind(rel, b, f) ==
  /\ identity[rel] = Unbound
  /\ b.commit \in vouched[rel]
  /\ Fit(rel, b.commit)
  /\ identity' = [identity EXCEPT ![rel] = b]
  /\ files' = [files EXCEPT ![rel] = {f}]
  /\ UNCHANGED vouched

\* A later file of the build rel is bound to.
Attach(rel, f) ==
  /\ identity[rel] # Unbound
  /\ files' = [files EXCEPT ![rel] = @ \cup {f}]
  /\ UNCHANGED <<vouched, identity>>

Next ==
  \/ Vouch
  \/ \E rel \in Releases, f \in Files :
       \/ \E b \in Builds : Bind(rel, b, f)
       \/ Attach(rel, f)

Spec == Init /\ [][Next]_vars
=============================================================================

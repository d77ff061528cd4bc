-------------------------- MODULE ConformanceProofs --------------------------
(***************************************************************************)
(* Proofs about Conformance, for any schemas, payloads, corpus, manifest   *)
(* and any number of edits, calls and kills.  What the cache holds was     *)
(* loaded by this process, under the $id it is kept by: where no $id has   *)
(* changed its content, a cached validator is one compiled now.            *)
(***************************************************************************)
EXTENDS Conformance, TLAPS

\* The validators in the cache were made of schemas that the process loaded.
Among(v, S) ==
  v.schema \in S /\ \A i \in DOMAIN v.registry : v.registry[i] \in S /\ v.registry[i].id = i
Holding(c, S) == \A k \in DOMAIN c : Among(c[k], S) /\ c[k].schema.id = k
CacheInv == Holding(cache, bound)
OneContent(S) == \A a, b \in S : a.id = b.id => a = b

\* What is about to be written: a pass stems from a call of today.
CallInv ==
  pc = "result" =>
    (call.failures = {} => [day |-> now, version |-> tree.version] \in attested)

\* A pass in the result stems from a call whose day is the date, but for a skew.
ResultInv ==
  result \notin {NoFile, Torn} /\ result.status = "pass" =>
    \E a \in attested :
      a.version = result.version /\ \E skew \in Skews : result.generated_at = a.day + skew

WriteInv ==
  /\ pc = "badge" => result \notin {NoFile, Torn}
  /\ pc # "badge" /\ ~interrupted =>
       \/ result = NoFile /\ badge = NoFile
       \/ result \notin {NoFile, Torn} /\ badge = build_shields_endpoint(result)

TreeInv == DOMAIN tree = {"schemas", "positive", "negative", "invariants", "version"}

Inv == TypeOK /\ TreeInv /\ CacheInv /\ CallInv /\ ResultInv /\ WriteInv /\ BadgeIsEarned

-----------------------------------------------------------------------------
(* Validators.                                                             *)

LEMMA FreshIsLoaded ==
  ASSUME NEW t, NEW s \in Stems(t)
  PROVE  Fresh(t, s).schema = t.schemas[s] /\ Among(Fresh(t, s), Binds(t))
<1>1. Fresh(t, s).schema = t.schemas[s] /\ t.schemas[s] \in Binds(t)
  BY DEF Fresh, Validator, Binds
<1>2. Fresh(t, s).registry = Registry(t)
  BY DEF Fresh, Validator
<1>3. ASSUME NEW i \in DOMAIN Registry(t)
      PROVE  Registry(t)[i] \in Binds(t) /\ Registry(t)[i].id = i
  <2>1. i \in Ids(t)
    BY <1>3 DEF Registry
  <2>2. PICK s0 \in Stems(t) : t.schemas[s0].id = i
    BY <2>1 DEF Ids
  <2>3. Registry(t)[i] = t.schemas[CHOOSE r \in Stems(t) : t.schemas[r].id = i]
    BY <2>1 DEF Registry
  <2> DEFINE c == CHOOSE r \in Stems(t) : t.schemas[r].id = i
  <2>4. c \in Stems(t) /\ t.schemas[c].id = i
    BY <2>2
  <2> QED
    BY <2>3, <2>4 DEF Binds
<1> QED
  BY <1>1, <1>2, <1>3 DEF Among

\* Two validators of one schema whose $refs lead to schemas of the same $ids, in
\* a set in which an $id has one content, find the same.
LEMMA SameFindings ==
  ASSUME NEW S, NEW v, NEW w, NEW p,
         OneContent(S), Among(v, S), Among(w, S), v.schema = w.schema, Closed(v), Closed(w)
  PROVE  /\ Resolves(v, p)
         /\ schema_error_details(p, v) = schema_error_details(p, w)
<1>1. Parts(v, p) = Parts(w, p) /\ Parts(v, p) \subseteq DOMAIN v.schema.refs
  BY DEF Parts
<1>2. ASSUME NEW q \in Parts(v, p)
      PROVE  /\ v.schema.refs[q] \in DOMAIN v.registry
             /\ v.registry[v.schema.refs[q]] = w.registry[w.schema.refs[q]]
  BY <1>1, <1>2 DEF Closed, Among, OneContent
<1>3. {Missing(v.registry[v.schema.refs[q]], p.keys[q]) : q \in Parts(v, p)}
        = {Missing(w.registry[w.schema.refs[q]], p.keys[q]) : q \in Parts(w, p)}
  BY <1>1, <1>2
<1>4. schema_error_details(p, v) = schema_error_details(p, w)
  BY <1>3 DEF schema_error_details
<1> QED
  BY <1>2, <1>4 DEF Resolves

LEMMA HeldIsFresh ==
  ASSUME NEW t, NEW c, NEW S, Holding(c, S), OneContent(S \cup Binds(t)),
         \A s \in Stems(t) : Closed(Fresh(t, s)), \A k \in DOMAIN c : Closed(c[k]),
         NEW s \in Stems(t), CacheKey(t, s) \in DOMAIN c, NEW p
  PROVE  LET v == c[CacheKey(t, s)]
         IN  /\ Resolves(v, p)
             /\ Resolves(Fresh(t, s), p)
             /\ schema_error_details(p, v) = schema_error_details(p, Fresh(t, s))
<1> DEFINE v == c[CacheKey(t, s)]
           w == Fresh(t, s)
           U == S \cup Binds(t)
<1>1. Among(v, U) /\ v.schema.id = t.schemas[s].id
  BY DEF Holding, CacheKey, Among
<1>2. Among(w, U) /\ w.schema = t.schemas[s]
  BY FreshIsLoaded DEF Among
<1>3. v.schema = w.schema
  BY <1>1, <1>2 DEF OneContent, Among
<1>4. Closed(v) /\ Closed(w) /\ OneContent(U)
  OBVIOUS
<1> HIDE DEF v, w, U
<1>5. Resolves(v, p) /\ schema_error_details(p, v) = schema_error_details(p, w)
  BY <1>1, <1>2, <1>3, <1>4, SameFindings
<1>6. Resolves(w, p)
  BY <1>1, <1>2, <1>3, <1>4, SameFindings
<1> QED
  BY <1>5, <1>6 DEF v, w

-----------------------------------------------------------------------------
(* The actions.                                                            *)

LEMMA CachedHolds ==
  ASSUME CacheInv, NEW stems, stems \subseteq Stems(tree),
         NEW first \in [Keys(tree, stems) -> stems],
         \A k \in Keys(tree, stems) : CacheKey(tree, first[k]) = k
  PROVE  Holding(Cached(tree, cache, first, stems), bound \cup Binds(tree))
<1> DEFINE c == Cached(tree, cache, first, stems)
<1>1. DOMAIN c = DOMAIN cache \cup Keys(tree, stems)
  BY DEF Cached
<1>2. ASSUME NEW k \in DOMAIN cache
      PROVE  Among(c[k], bound \cup Binds(tree)) /\ c[k].schema.id = k
  <2>1. c[k] = cache[k]
    BY <1>2 DEF Cached
  <2> QED
    BY <1>2, <2>1 DEF CacheInv, Holding, Among
<1>3. ASSUME NEW k \in Keys(tree, stems), k \notin DOMAIN cache
      PROVE  Among(c[k], bound \cup Binds(tree)) /\ c[k].schema.id = k
  <2>1. c[k] = Fresh(tree, first[k])
    BY <1>3 DEF Cached
  <2>2. first[k] \in Stems(tree) /\ tree.schemas[first[k]].id = k
    BY <1>3 DEF CacheKey
  <2>3. Among(Fresh(tree, first[k]), Binds(tree)) /\ Fresh(tree, first[k]).schema.id = k
    BY <2>2, FreshIsLoaded
  <2> QED
    BY <2>1, <2>3 DEF Among
<1> QED
  BY <1>1, <1>2, <1>3 DEF Holding

LEMMA DiesKeeps ==
  ASSUME Inv, pc = "idle", Dies
  PROVE  Inv'
<1> USE DEF Dies, files
<1>1. CacheInv' /\ TypeOK'
  BY DEF Inv, TypeOK, CacheInv, Holding, Empty
<1>2. TreeInv' /\ CallInv' /\ ResultInv' /\ WriteInv' /\ BadgeIsEarned'
  BY DEF Inv, TreeInv, CallInv, ResultInv, WriteInv, BadgeIsEarned, build_shields_endpoint
<1> QED
  BY <1>1, <1>2 DEF Inv

LEMMA EndsKeeps ==
  ASSUME Inv, pc = "idle", NEW mode, NEW failures, NEW c,
         Holding(c, bound \cup Binds(tree)), Ends(mode, failures, tree, c)
  PROVE  Inv'
<1> USE DEF Ends, files
<1>1. attested \subseteq attested' /\ attested' \subseteq [day : 0..MaxDay, version : Versions]
  BY DEF Inv, TypeOK
<1>2. CacheInv'
  BY DEF Holding, CacheInv
<1>3. TypeOK'
  <2>1. \A k \in DOMAIN cache' :
          cache'[k].schema \in bound' /\
          \A i \in DOMAIN cache'[k].registry : cache'[k].registry[i] \in bound'
    BY DEF Holding, Among
  <2> QED
    BY <1>1, <2>1 DEF Inv, TypeOK
<1>4. TreeInv'
  BY DEF Inv, TreeInv
<1>5. CallInv'
  BY DEF CallInv
<1>6. ResultInv'
  BY <1>1 DEF Inv, ResultInv
<1>7. WriteInv'
  BY DEF Inv, WriteInv, build_shields_endpoint
<1>8. BadgeIsEarned'
  BY <1>1 DEF Inv, BadgeIsEarned
<1> QED
  BY <1>2, <1>3, <1>4, <1>5, <1>6, <1>7, <1>8 DEF Inv

LEMMA RunKeeps ==
  ASSUME Inv, Run
  PROVE  Inv'
<1>1. PICK first \in FirstUses(tree, Used(tree)) :
        LET V == [s \in Used(tree) |-> _validator_for(tree, cache, first, s)]
        IN  IF Raises(tree, V) THEN Dies
            ELSE Ends("corpus", Failures(tree, V), tree, Cached(tree, cache, first, Used(tree)))
  BY DEF Run
<1> DEFINE V == [s \in Used(tree) |-> _validator_for(tree, cache, first, s)]
<1>2. pc = "idle" /\ CacheInv
  BY DEF Run, Inv
<1>3. Holding(Cached(tree, cache, first, Used(tree)), bound \cup Binds(tree))
  BY <1>1, <1>2, CachedHolds DEF FirstUses, Used
<1>4. CASE Raises(tree, V)
  BY <1>1, <1>2, <1>4, DiesKeeps
<1>5. CASE ~Raises(tree, V)
  BY <1>1, <1>2, <1>3, <1>5, EndsKeeps
<1> QED
  BY <1>4, <1>5

LEMMA RunBundleKeeps ==
  ASSUME Inv, NEW f \in DOMAIN External, RunBundle(f)
  PROVE  Inv'
<1> DEFINE x == External[f]
           asked == {s \in Stems(tree) : s = "trace_bundle" /\ x.problem = "none"}
           first == [k \in Keys(tree, asked) |-> "trace_bundle"]
           v == _validator_for(tree, cache, first, "trace_bundle")
           c == Cached(tree, cache, first, asked)
<1>1. pc = "idle" /\ CacheInv
  BY DEF RunBundle, Inv
<1>2. Dies \/ Ends("bundle", BundleFailures(tree, v, x), tree, c)
  BY DEF RunBundle
<1>3. Holding(c, bound \cup Binds(tree))
  <2>1. \A k \in Keys(tree, asked) :
          "trace_bundle" \in asked /\ CacheKey(tree, "trace_bundle") = k
    BY DEF Keys
  <2>2. first \in [Keys(tree, asked) -> asked] /\ \A k \in Keys(tree, asked) : CacheKey(tree, first[k]) = k
    BY <2>1
  <2>3. asked \subseteq Stems(tree)
    OBVIOUS
  <2> HIDE DEF first, asked
  <2> QED
    BY <1>1, <2>2, <2>3, CachedHolds
<1> HIDE DEF v, c, x
<1>4. CASE Dies
  BY <1>1, <1>4, DiesKeeps
<1>5. CASE Ends("bundle", BundleFailures(tree, v, x), tree, c)
  BY <1>1, <1>3, <1>5, EndsKeeps
<1> QED
  BY <1>2, <1>4, <1>5

LEMMA EmitResultKeeps ==
  ASSUME Inv, EmitResult
  PROVE  Inv'
<1> USE DEF EmitResult, process
<1>1. PICK skew \in Skews : result' = build_result(call, tree.version, now + skew)
  OBVIOUS
<1>2. result' \in Results /\ result' \notin {NoFile, Torn}
  <2>1. now + skew \in Nat /\ tree.version \in Versions
    BY ConformanceAssumption DEF Inv, TypeOK
  <2>2. result' \in Results
    BY <1>1, <2>1 DEF build_result, Results
  <2> QED
    BY <2>2, FileAssumption
<1>3. TypeOK'
  BY <1>2 DEF Inv, TypeOK
<1>4. TreeInv' /\ CacheInv' /\ BadgeIsEarned'
  BY DEF Inv, TreeInv, CacheInv, BadgeIsEarned
<1>5. CallInv' /\ WriteInv'
  BY <1>2 DEF CallInv, WriteInv
<1>6. ResultInv'
  <2>1. SUFFICES ASSUME result'.status = "pass"
                 PROVE  \E a \in attested : /\ a.version = result'.version
                                            /\ result'.generated_at = a.day + skew
    BY <1>1 DEF ResultInv
  <2>2. result'.version = tree.version /\ result'.generated_at = now + skew
    BY <1>1 DEF build_result
  <2>3. call.failures = {}
    BY <1>1, <2>1 DEF build_result
  <2>4. [day |-> now, version |-> tree.version] \in attested
    BY <2>3 DEF Inv, CallInv
  <2> QED
    BY <2>2, <2>4
<1> QED
  BY <1>3, <1>4, <1>5, <1>6 DEF Inv

LEMMA EmitBadgeKeeps ==
  ASSUME Inv, EmitBadge
  PROVE  Inv'
<1> USE DEF EmitBadge, process
<1>1. result \in Results /\ result \notin {NoFile, Torn}
  BY DEF Inv, TypeOK, WriteInv
<1>2. badge' \in Badges
  BY <1>1 DEF build_shields_endpoint, Badges, Results
<1>3. TypeOK'
  BY <1>2 DEF Inv, TypeOK
<1>4. TreeInv' /\ CacheInv' /\ CallInv' /\ ResultInv' /\ WriteInv'
  BY <1>1 DEF Inv, TreeInv, CacheInv, CallInv, ResultInv, WriteInv, build_shields_endpoint
<1>5. BadgeIsEarned'
  BY <1>1 DEF Inv, ResultInv, BadgeIsEarned, build_shields_endpoint
<1> QED
  BY <1>3, <1>4, <1>5 DEF Inv

LEMMA KillKeeps ==
  ASSUME Inv, Kill
  PROVE  Inv'
<1> USE DEF Kill
<1>1. result' \in {result, Torn} /\ badge' \in {badge, Torn}
  OBVIOUS
<1>2. TypeOK'
  BY <1>1 DEF Inv, TypeOK, Empty
<1>3. TreeInv' /\ CacheInv' /\ CallInv' /\ WriteInv'
  BY DEF Inv, TreeInv, CacheInv, Holding, CallInv, WriteInv, Empty
<1>4. ResultInv' /\ BadgeIsEarned'
  BY <1>1 DEF Inv, ResultInv, BadgeIsEarned
<1> QED
  BY <1>2, <1>3, <1>4 DEF Inv

LEMMA EditKeeps ==
  ASSUME Inv, Edit
  PROVE  Inv'
<1> USE DEF Edit, process, files
<1>1. TreeInv' /\ tree'.version \in Versions
  BY DEF Inv, TreeInv, TypeOK
<1>2. TypeOK'
  BY <1>1, ConformanceAssumption DEF Inv, TypeOK
<1>3. CacheInv' /\ CallInv' /\ ResultInv' /\ WriteInv' /\ BadgeIsEarned'
  BY DEF Inv, CacheInv, CallInv, ResultInv, WriteInv, BadgeIsEarned, build_shields_endpoint
<1> QED
  BY <1>1, <1>2, <1>3 DEF Inv

LEMMA DayKeeps ==
  ASSUME Inv, Day
  PROVE  Inv'
<1> USE DEF Day, process, files
<1>1. TypeOK'
  BY ConformanceAssumption DEF Inv, TypeOK
<1>2. TreeInv' /\ CacheInv' /\ CallInv' /\ ResultInv' /\ WriteInv' /\ BadgeIsEarned'
  BY DEF Inv, TreeInv, CacheInv, CallInv, ResultInv, WriteInv, BadgeIsEarned,
         build_shields_endpoint
<1> QED
  BY <1>1, <1>2 DEF Inv

LEMMA StutterKeeps ==
  ASSUME Inv, UNCHANGED vars
  PROVE  Inv'
<1> USE DEF vars, process, files
<1>1. TypeOK' /\ TreeInv' /\ CacheInv' /\ CallInv'
  BY DEF Inv, TypeOK, TreeInv, CacheInv, CallInv
<1>2. ResultInv' /\ WriteInv' /\ BadgeIsEarned'
  BY DEF Inv, ResultInv, WriteInv, BadgeIsEarned, build_shields_endpoint
<1> QED
  BY <1>1, <1>2 DEF Inv

LEMMA InitHolds ==
  ASSUME Init
  PROVE  Inv
<1> USE DEF Init, Empty
<1>1. TypeOK
  <2>1. edits \in 0..MaxEdits /\ now \in 0..MaxDay
    BY ConformanceAssumption
  <2>2. tree.version \in Versions
    BY InitialAssumption
  <2>3. \A k \in DOMAIN cache :
          cache[k].schema \in bound /\ \A i \in DOMAIN cache[k].registry : cache[k].registry[i] \in bound
    OBVIOUS
  <2> QED
    BY <2>1, <2>2, <2>3 DEF TypeOK
<1>2. TreeInv /\ CacheInv /\ CallInv /\ ResultInv /\ WriteInv /\ BadgeIsEarned
  BY InitialAssumption DEF TreeInv, CacheInv, Holding, CallInv, ResultInv, WriteInv, BadgeIsEarned
<1> QED
  BY <1>1, <1>2 DEF Inv

LEMMA StepKeeps ==
  ASSUME Inv, [Next]_vars
  PROVE  Inv'
<1>1. CASE Edit
  BY <1>1, EditKeeps
<1>2. CASE Run
  BY <1>2, RunKeeps
<1>3. CASE \E f \in DOMAIN External : RunBundle(f)
  BY <1>3, RunBundleKeeps
<1>4. CASE EmitResult
  BY <1>4, EmitResultKeeps
<1>5. CASE EmitBadge
  BY <1>5, EmitBadgeKeeps
<1>6. CASE Kill
  BY <1>6, KillKeeps
<1>7. CASE Quit
  BY <1>7, DiesKeeps DEF Quit
<1>8. CASE Day
  BY <1>8, DayKeeps
<1>9. CASE UNCHANGED vars
  BY <1>9, StutterKeeps
<1> QED
  BY <1>1, <1>2, <1>3, <1>4, <1>5, <1>6, <1>7, <1>8, <1>9 DEF Next

\* The inductive invariant: types, where the cached validators come from, and for
\* the result and the badge the call that each of them tells of.
THEOREM Invariance == Spec => []Inv
BY InitHolds, StepKeeps, PTL DEF Spec

-----------------------------------------------------------------------------
(* What main() and is_result_fresh() tell.                                 *)

\* Every variable has its type, and what the cache holds was loaded by this
\* process.
THEOREM TypeCorrect == Spec => []TypeOK
<1>1. Inv => TypeOK
  BY DEF Inv
<1> QED
  BY <1>1, Invariance, PTL

\* For any history of edits, calls and restarts: a validator from the cache finds
\* in a payload what one compiled now would find, if no $id has changed its
\* content since the process has started and every $ref leads to a schema.
THEOREM CacheIsTransparent == Spec => []CacheTransparent
<1>1. Inv => CacheTransparent
  BY HeldIsFresh DEF Inv, CacheInv, Steady, OneContent, CacheTransparent
<1> QED
  BY <1>1, Invariance, PTL

\* A result that says pass and is fresh stems from a call without failures, of
\* this MAJOR, no longer ago than the maximal age and a clock's error.
THEOREM FreshIsRecent == Spec => []FreshMeansRecentPass
<1>1. ASSUME Inv PROVE FreshMeansRecentPass
  <2>1. SUFFICES ASSUME result \notin {NoFile, Torn}, result.status = "pass",
                        is_result_fresh(result, tree, now)
                 PROVE  \E a \in attested :
                          /\ Major[a.version] = Major[tree.version]
                          /\ \E skew \in Skews : now - a.day <= RESULT_MAX_AGE + skew
    BY DEF FreshMeansRecentPass
  <2>2. PICK a \in attested, skew \in Skews :
          a.version = result.version /\ result.generated_at = a.day + skew
    BY <1>1, <2>1 DEF Inv, ResultInv
  <2>3. Major[result.version] = Major[tree.version]
    BY <2>1 DEF is_result_fresh, Stale
  <2>4. ~(now - result.generated_at > RESULT_MAX_AGE)
    BY <2>1 DEF is_result_fresh, Stale
  <2>5. a.day \in Nat /\ now \in Nat /\ skew \in Nat /\ RESULT_MAX_AGE \in Nat
    BY <1>1, ConformanceAssumption DEF Inv, TypeOK
  <2>6. now - a.day <= RESULT_MAX_AGE + skew
    BY <2>2, <2>4, <2>5
  <2> QED
    BY <2>2, <2>3, <2>6
<1> QED
  BY <1>1, Invariance, PTL

\* A badge that is no error names a version under which a call found no failures.
THEOREM BadgesAreEarned == Spec => []BadgeIsEarned
<1>1. Inv => BadgeIsEarned
  BY DEF Inv
<1> QED
  BY <1>1, Invariance, PTL

\* Between calls, the badge says what the result says, unless the process was
\* killed between the two or in one of them.
THEOREM ResultAndBadgeAgree == Spec => []NeverDrift
<1>1. ASSUME Inv PROVE NeverDrift
  <2>1. SUFFICES ASSUME pc = "idle", ~interrupted, result \notin {NoFile, Torn},
                        badge = build_shields_endpoint(result)
                 PROVE  /\ badge \notin {NoFile, Torn}
                        /\ badge.isError <=> result.status # "pass"
                        /\ badge.message =
                             IF result.status = "pass" THEN result.version ELSE "failing"
    BY <1>1 DEF Inv, WriteInv, NeverDrift
  <2>2. result \in Results
    BY <1>1, <2>1 DEF Inv, TypeOK
  <2>3. badge \in Badges
    BY <2>1, <2>2 DEF build_shields_endpoint, Badges, Results
  <2> QED
    BY <2>1, <2>3, FileAssumption DEF build_shields_endpoint
<1> QED
  BY <1>1, Invariance, PTL

-----------------------------------------------------------------------------
(* What a run without failures tells of the tree.                          *)

\* Validators that find what those compiled now find.
Faithful(t, V) ==
  \A s \in Used(t) : \A e \in t.positive \cup t.negative :
    LET p == Payload[e.payload]
    IN  /\ Resolves(Fresh(t, s), p)
        /\ schema_error_details(p, V[s]) = schema_error_details(p, Fresh(t, s))

\* Without failures, every positive entry is valid and its bundle sound, every
\* negative one is rejected for its reason, and no invariant is broken.
LEMMA NoFailures ==
  ASSUME NEW t, NEW V, Faithful(t, V), ~Raises(t, V), Failures(t, V) = {}
  PROVE  /\ \A e \in t.positive :
              /\ Valid(t, e)
              /\ e.schema = "trace_bundle" =>
                   check_trace_bundle(Payload[e.payload].bundle).errors = {}
         /\ \A e \in t.negative :
              \/ /\ e.by = "schema"
                 /\ \E d \in schema_error_details(Payload[e.payload], Fresh(t, e.schema)) :
                      d.kw = e.violates.kw
              \/ /\ e.by = "invariant"
                 /\ Valid(t, e)
                 /\ \E check \in BUNDLE_INVARIANTS : ~Holds(check, Payload[e.payload].bundle)
         /\ \A inv \in t.invariants : Supported(inv) /\ ~Breaks(t, inv)
<1>1. ASSUME NEW e \in t.positive \cup t.negative
      PROVE  /\ e.schema \in Stems(t)
             /\ Resolves(Fresh(t, e.schema), Payload[e.payload])
             /\ Details(V, e) = schema_error_details(Payload[e.payload], Fresh(t, e.schema))
  <2>1. e.schema \in Used(t)
    BY DEF Raises, UnknownSchema, Used
  <2> QED
    BY <2>1 DEF Faithful, Details, Used
<1>2. ASSUME NEW e \in t.positive
      PROVE  /\ Valid(t, e)
             /\ e.schema = "trace_bundle" =>
                  check_trace_bundle(Payload[e.payload].bundle).errors = {}
  <2>1. Details(V, e) = {}
    <3>1. <<"positive", e>> \notin Failures(t, V)
      OBVIOUS
    <3> QED
      BY <3>1 DEF Failures
  <2>2. e.schema = "trace_bundle" => check_trace_bundle(Payload[e.payload].bundle).errors = {}
    <3>1. <<"tracebundle", e>> \notin Failures(t, V)
      OBVIOUS
    <3> QED
      BY <3>1 DEF Failures, Of
  <2> QED
    BY <1>1, <2>1, <2>2 DEF Valid
<1>3. ASSUME NEW e \in t.negative
      PROVE  \/ /\ e.by = "schema"
                /\ \E d \in schema_error_details(Payload[e.payload], Fresh(t, e.schema)) :
                     d.kw = e.violates.kw
             \/ /\ e.by = "invariant"
                /\ Valid(t, e)
                /\ \E check \in BUNDLE_INVARIANTS : ~Holds(check, Payload[e.payload].bundle)
  <2>1. Rejected(t, V, e)
    <3>1. <<"negative", e>> \notin Failures(t, V)
      OBVIOUS
    <3> QED
      BY <3>1 DEF Failures
  <2>2. CASE e.by = "schema" /\ negative_schema_reason_met(e.violates, Details(V, e))
    BY <1>1, <2>2 DEF negative_schema_reason_met
  <2>3. CASE e.by = "invariant" /\ Details(V, e) = {} /\ Violates(_assertion_for(t, e.violates), e)
    BY <1>1, <2>3 DEF Valid, Violates
  <2> QED
    BY <2>1, <2>2, <2>3 DEF Rejected
<1>4. ASSUME NEW inv \in t.invariants
      PROVE  Supported(inv) /\ ~Breaks(t, inv)
  <2>1. <<"invariant", inv>> \notin Failures(t, V)
    OBVIOUS
  <2> QED
    BY <2>1 DEF Failures, Raises
<1> QED
  BY <1>2, <1>3, <1>4

LEMMA GreenRunConforms ==
  ASSUME NEW t, NEW V, Faithful(t, V), ~Raises(t, V), Failures(t, V) = {}
  PROVE  Conforms(t, Checks(t))
<1>1. \A inv \in t.invariants : Supported(inv) /\ ~Breaks(t, inv)
  BY NoFailures
<1>2. ASSUME NEW e \in t.positive, e.schema = "capability_token", e.schema \in Checks(t)
      PROVE  capability_token_scoped(Payload[e.payload])
  <2>1. PICK inv \in t.invariants : inv.applies_to = "capability_token"
    BY <1>1, <1>2 DEF Checks, Supported, BUNDLE_INVARIANTS
  <2> QED
    BY <1>1, <1>2, <2>1 DEF Breaks, Of
<1>3. ASSUME NEW e \in t.positive, e.schema = "trace_bundle",
             NEW check \in Checks(t) \cap BUNDLE_INVARIANTS
      PROVE  Holds(check, Payload[e.payload].bundle)
  <2>1. PICK inv \in t.invariants : inv.applies_to = "trace_bundle" /\ inv.assertion = check
    BY <1>1 DEF Checks, Supported, BUNDLE_INVARIANTS
  <2> QED
    BY <1>1, <1>3, <2>1 DEF Breaks, Of
<1>4. \A inv \in t.invariants :
        inv.applies_to = "core_schemas" => core_required_surface_stable(inv.baseline, t.schemas)
  BY <1>1 DEF Breaks
<1>5. /\ \A e \in t.positive :
            /\ Valid(t, e)
            /\ e.schema = "trace_bundle" =>
                 check_trace_bundle(Payload[e.payload].bundle).errors = {}
      /\ \A e \in t.negative :
            \/ /\ e.by = "schema"
               /\ \E d \in schema_error_details(Payload[e.payload], Fresh(t, e.schema)) :
                    d.kw = e.violates.kw
            \/ /\ e.by = "invariant"
               /\ Valid(t, e)
               /\ \E check \in BUNDLE_INVARIANTS : ~Holds(check, Payload[e.payload].bundle)
  BY NoFailures
<1> QED
  BY <1>2, <1>3, <1>4, <1>5 DEF Conforms

LEMMA BothGreenConform ==
  ASSUME NEW t, Agreement(t)
  PROVE  /\ Conforms(t, AllChecks)
         /\ \A e \in t.positive : Payload[e.payload].strict = {} /\ Payload[e.payload].json
<1> DEFINE V == [s \in Stems(t) |-> Fresh(t, s)]
<1>1. ~Raises(t, V) /\ Failures(t, V) = {}
  BY DEF Agreement, PythonGreen
<1>2. Faithful(t, V)
  <2>1. \A s \in Used(t) : \A q \in DOMAIN t.schemas[s].refs : t.schemas[s].refs[q] \in Ids(t)
    BY DEF Agreement, JavaScriptGreen, Throws
  <2> QED
    BY <2>1 DEF Faithful, Used, Resolves, Parts, Fresh, Validator, Registry
<1> HIDE DEF V
<1>3. /\ \A e \in t.positive :
            /\ Valid(t, e)
            /\ e.schema = "trace_bundle" =>
                 check_trace_bundle(Payload[e.payload].bundle).errors = {}
      /\ \A e \in t.negative :
            \/ /\ e.by = "schema"
               /\ \E d \in schema_error_details(Payload[e.payload], Fresh(t, e.schema)) :
                    d.kw = e.violates.kw
            \/ /\ e.by = "invariant"
               /\ Valid(t, e)
               /\ \E check \in BUNDLE_INVARIANTS : ~Holds(check, Payload[e.payload].bundle)
      /\ \A inv \in t.invariants : Supported(inv) /\ ~Breaks(t, inv)
  BY <1>1, <1>2, NoFailures
<1>4. \A e \in t.positive : Accepts(t, e)
  BY DEF Agreement, JavaScriptGreen
<1>5. ASSUME NEW e \in t.positive
      PROVE  /\ e.schema = "capability_token" => capability_token_scoped(Payload[e.payload])
             /\ e.schema = "trace_bundle" =>
                  \A check \in BUNDLE_INVARIANTS : Holds(check, Payload[e.payload].bundle)
             /\ Payload[e.payload].strict = {} /\ Payload[e.payload].json
  <2>1. Accepts(t, e)  BY <1>4
  <2>2. e.schema \in Stems(t) /\ JsDetails(t, e) = {}  BY <2>1 DEF Accepts
  <2>3. Payload[e.payload].strict = {}  BY <2>2 DEF JsDetails
  <2>4. Payload[e.payload].json  BY <2>2 DEF Agreement, JavaScriptGreen, Throws
  <2> QED BY <2>1, <2>3, <2>4 DEF Accepts
<1>6. \A inv \in t.invariants :
        inv.applies_to = "core_schemas" => core_required_surface_stable(inv.baseline, t.schemas)
  BY <1>3 DEF Breaks
<1> QED
  BY <1>3, <1>5, <1>6 DEF Conforms, AllChecks

LEMMA RunIsGreen ==
  ASSUME Inv, GreenMeansConforming, Run
  PROVE  GreenMeansConforming'
<1>1. PICK first \in FirstUses(tree, Used(tree)) :
        LET V == [s \in Used(tree) |-> _validator_for(tree, cache, first, s)]
        IN  IF Raises(tree, V) THEN Dies
            ELSE Ends("corpus", Failures(tree, V), tree, Cached(tree, cache, first, Used(tree)))
  BY DEF Run
<1> DEFINE V == [s \in Used(tree) |-> _validator_for(tree, cache, first, s)]
           c == Cached(tree, cache, first, Used(tree))
<1>2. CASE Raises(tree, V)
  BY <1>1, <1>2 DEF Run, Dies, GreenMeansConforming
<1>3. CASE ~Raises(tree, V)
  <2>1. Ends("corpus", Failures(tree, V), tree, c) /\ tree' = tree
    BY <1>1, <1>3 DEF Ends
  <2>2. SUFFICES ASSUME pc' # "idle", call'.failures = {}, Steady'
                 PROVE  Conforms(tree, Checks(tree))
    BY <2>1 DEF GreenMeansConforming
  <2>3. Failures(tree, V) = {}
    BY <2>1, <2>2 DEF Ends
  <2>4. cache' = c /\ bound' = bound \cup Binds(tree)
    BY <2>1 DEF Ends
  <2>5. Holding(c, bound')
    <3>1. CacheInv
      BY DEF Inv
    <3> QED
      BY <1>1, <2>4, <3>1, CachedHolds DEF FirstUses, Used
  <2>6. /\ OneContent(bound' \cup Binds(tree))
        /\ \A s \in Stems(tree) : Closed(Fresh(tree, s))
        /\ \A k \in DOMAIN c : Closed(c[k])
    BY <2>1, <2>2, <2>4 DEF Steady, OneContent
  <2>7. ASSUME NEW s \in Used(tree)
        PROVE  CacheKey(tree, s) \in DOMAIN c /\ V[s] = c[CacheKey(tree, s)]
    BY <2>7 DEF Cached, Keys, _validator_for
  <2>8. Faithful(tree, V)
    <3>1. ASSUME NEW s \in Used(tree), NEW p
          PROVE  /\ Resolves(Fresh(tree, s), p)
                 /\ schema_error_details(p, V[s]) = schema_error_details(p, Fresh(tree, s))
      <4>1. s \in Stems(tree) /\ CacheKey(tree, s) \in DOMAIN c /\ V[s] = c[CacheKey(tree, s)]
        BY <2>7 DEF Used
      <4> HIDE DEF c, V
      <4>2. /\ Resolves(Fresh(tree, s), p)
            /\ schema_error_details(p, c[CacheKey(tree, s)]) = schema_error_details(p, Fresh(tree, s))
        BY <2>5, <2>6, <4>1, HeldIsFresh
      <4> QED
        BY <4>1, <4>2
    <3> HIDE DEF V
    <3> QED
      BY <3>1 DEF Faithful
  <2> HIDE DEF V
  <2> QED
    BY <1>3, <2>3, <2>8, GreenRunConforms
<1> QED
  BY <1>2, <1>3

LEMMA GreenKept ==
  ASSUME Inv, GreenMeansConforming, [Next]_vars
  PROVE  GreenMeansConforming'
<1>1. CASE Run
  BY <1>1, RunIsGreen
<1>2. CASE \E f \in DOMAIN External : RunBundle(f)
  <2>1. PICK f \in DOMAIN External : RunBundle(f)
    BY <1>2
  <2>2. (pc' = pc /\ pc = "idle") \/ \E failures, c : Ends("bundle", failures, tree, c)
    BY <2>1 DEF RunBundle, Dies
  <2>3. pc' = "idle" \/ call'.mode = "bundle"
    BY <2>2 DEF Ends
  <2> QED
    BY <2>3 DEF GreenMeansConforming
<1>3. CASE EmitResult
  BY <1>3 DEF EmitResult, process, GreenMeansConforming, Steady
<1>4. CASE Edit \/ EmitBadge \/ Kill \/ Quit \/ Day
  BY <1>4 DEF Edit, EmitBadge, Kill, Quit, Dies, Day, GreenMeansConforming
<1>5. CASE UNCHANGED vars
  BY <1>5 DEF vars, process, GreenMeansConforming, Steady
<1> QED
  BY <1>1, <1>2, <1>3, <1>4, <1>5 DEF Next

\* A corpus run without failures, also in a process that has run before, means
\* that the tree conforms to all that its manifest asks for, as long as no $id
\* has changed its content.
THEOREM GreenRunsConform == Spec => []GreenMeansConforming
<1>1. Init => GreenMeansConforming
  BY DEF Init, GreenMeansConforming
<1>2. Inv /\ GreenMeansConforming /\ [Next]_vars => GreenMeansConforming'
  BY GreenKept
<1> QED
  BY <1>1, <1>2, Invariance, PTL DEF Spec

\* Whatever has become of the manifest: if both implementations are green, the
\* tree conforms to all four static invariants, and nothing in it passes only
\* because Python reads it leniently.
THEOREM AgreementConforms == Spec => []AgreementMeansConforming
<1>1. AgreementMeansConforming
  BY BothGreenConform DEF AgreementMeansConforming, Thorough
<1> QED
  BY <1>1, PTL

-----------------------------------------------------------------------------
(* Where the two implementations come to one verdict.                      *)

\* What is edited keeps what CorpusAssumption says of the tree at first.
CorpusInv ==
  /\ \A a, b \in tree.invariants : a.id = b.id => a = b
  /\ \A e \in tree.positive :
       e.schema = "trace_bundle" => Payload[e.payload].bundle # NoBundle

LEMMA CorpusKept ==
  ASSUME Inv, CorpusInv, [Next]_vars
  PROVE  CorpusInv'
<1>1. CASE Edit
  <2>1. DOMAIN tree = {"schemas", "positive", "negative", "invariants", "version"}
    BY DEF Inv, TreeInv
  <2>2. ASSUME NEW e \in Positives, tree' = [tree EXCEPT !.positive = Toggled(@, e)]
        PROVE  CorpusInv'
    BY <2>1, <2>2, CorpusAssumption DEF CorpusAssumption, CorpusInv, Toggled
  <2>3. ASSUME NEW b \in Blocks,
               tree' = [tree EXCEPT !.invariants = Toggled({x \in @ : x.id = b.id => x = b}, b)]
        PROVE  CorpusInv'
    BY <2>1, <2>3 DEF CorpusInv, Toggled
  <2>4. ASSUME tree'.positive = tree.positive, tree'.invariants = tree.invariants
        PROVE  CorpusInv'
    BY <2>4 DEF CorpusInv
  <2>5. ASSUME NEW d \in SchemaDrafts,
               tree' = [tree EXCEPT !.schemas =
                          [s \in Stems(tree) |-> IF s \in DOMAIN d THEN d[s] ELSE tree.schemas[s]]]
        PROVE  CorpusInv'
    BY <2>1, <2>4, <2>5
  <2>6. ASSUME NEW e \in Negatives, tree' = [tree EXCEPT !.negative = Toggled(@, e)]
        PROVE  CorpusInv'
    BY <2>1, <2>4, <2>6
  <2>7. ASSUME NEW v \in Versions, tree' = [tree EXCEPT !.version = v]
        PROVE  CorpusInv'
    BY <2>1, <2>4, <2>7
  <2> QED BY <1>1, <2>2, <2>3, <2>5, <2>6, <2>7 DEF Edit
<1>2. CASE tree' = tree
  BY <1>2 DEF CorpusInv
<1>3. CASE Run
  <2>1. tree' = tree  BY <1>3 DEF Run, Dies, Ends
  <2> QED BY <1>2, <2>1
<1>4. CASE \E f \in DOMAIN External : RunBundle(f)
  <2>1. tree' = tree  BY <1>4 DEF RunBundle, Dies, Ends
  <2> QED BY <1>2, <2>1
<1>5. CASE EmitResult \/ EmitBadge \/ Kill \/ Quit \/ Day \/ UNCHANGED vars
  <2>1. tree' = tree  BY <1>5 DEF EmitResult, EmitBadge, Kill, Quit, Dies, Day, vars
  <2> QED BY <1>2, <2>1
<1> QED BY <1>1, <1>3, <1>4, <1>5 DEF Next

LEMMA CorpusInvariance == Spec => []CorpusInv
<1>1. Init => CorpusInv
  BY CorpusAssumption DEF CorpusAssumption, Init, CorpusInv
<1> QED BY <1>1, CorpusKept, Invariance, PTL DEF Spec

\* What Python makes of a bundle, case by case.
LEMMA BundleCases ==
  ASSUME NEW b
  PROVE  LET s == b.signature
             entry == Keyring[s.kid]
         IN  check_trace_bundle(b).errors = {} <=>
               /\ b.canonical
               /\ \/ s = Unsigned
                  \/ /\ EnvelopeErrors(s) = {}
                     /\ \/ entry = NoEntry
                        \/ /\ entry.alg = s.alg
                           /\ ~CryptoInstalled \/ SignedContent(entry.key, b)
<1> DEFINE s == b.signature
           entry == Keyring[s.kid]
<1>1. /\ \A note : Passed(note).errors = {}
      /\ \A errors : Failed(errors).errors = errors
      /\ {"jcs"} # {} /\ {"key alg"} # {} /\ {"signature"} # {}
  BY DEF Passed, Failed
<1>2. CASE ~b.canonical \/ s = Unsigned
  BY <1>1, <1>2 DEF check_trace_bundle
<1>3. CASE b.canonical /\ s # Unsigned
  <2>1. check_trace_bundle(b) = CheckSignature(b, s, entry)
    BY <1>3 DEF check_trace_bundle
  <2> HIDE DEF s, entry
  <2>2. CASE EnvelopeErrors(s) # {}
    BY <1>1, <1>3, <2>1, <2>2 DEF CheckSignature, s
  <2>3. CASE EnvelopeErrors(s) = {} /\ entry = NoEntry
    BY <1>1, <1>3, <2>1, <2>3 DEF CheckSignature, s, entry
  <2>4. CASE EnvelopeErrors(s) = {} /\ entry # NoEntry
    <3>1. CheckSignature(b, s, entry) =
            IF entry.alg # s.alg THEN Failed({"key alg"})
            ELSE IF ~CryptoInstalled THEN Passed("no crypto")
            ELSE IF SignedContent(entry.key, b) THEN Passed("verified")
            ELSE Failed({"signature"})
      BY <2>4 DEF CheckSignature
    <3>2. CheckSignature(b, s, entry).errors = {}
            <=> entry.alg = s.alg /\ (~CryptoInstalled \/ SignedContent(entry.key, b))
      BY <1>1, <3>1
    <3> QED BY <1>3, <2>1, <2>4, <3>2 DEF s, entry
  <2> QED BY <2>2, <2>3, <2>4
<1> QED BY <1>2, <1>3

\* A bundle that Python passes, with a canonicalization that is stated, JavaScript
\* passes; and conversely, if JCS can serialise it and the schema accepts its
\* envelope.
LEMMA BundlesAlike ==
  ASSUME NEW b
  PROVE  /\ /\ check_trace_bundle(b).errors = {} /\ CryptoInstalled
            /\ b.signature # Unsigned => b.signature.canonicalization # "omitted"
            => verifyTraceBundleIntegrity(b)
         /\ /\ verifyTraceBundleIntegrity(b) /\ b.canonical
            /\ b.signature # Unsigned => EnvelopeErrors(b.signature) = {}
            => check_trace_bundle(b).errors = {}
<1>1. CASE b.signature = Unsigned
  BY <1>1, BundleCases DEF verifyTraceBundleIntegrity
<1>2. CASE b.signature # Unsigned
  <2>1. EnvelopeErrors(b.signature) = {} /\ b.signature.canonicalization # "omitted"
          => Supports(b.signature)
    BY DEF EnvelopeErrors, Supports
  <2>2. ASSUME Keyring[b.signature.kid] # NoEntry
        PROVE  Verifies(b) <=> /\ Keyring[b.signature.kid].alg = b.signature.alg /\ b.canonical
                               /\ SignedContent(Keyring[b.signature.kid].key, b)
    BY <2>2 DEF Verifies
  <2>3. verifyTraceBundleIntegrity(b) <=>
          Supports(b.signature) /\ (Keyring[b.signature.kid] = NoEntry \/ Verifies(b))
    BY <1>2 DEF verifyTraceBundleIntegrity
  <2> QED BY <1>2, <2>1, <2>2, <2>3, BundleCases
<1> QED BY <1>1, <1>2

LEMMA EnvelopeLooked ==
  ASSUME NEW p, NEW v
  PROVE  Envelope(p) \subseteq schema_error_details(p, v)
BY DEF schema_error_details

\* A manifest that is in step.
LEMMA InStepBlocks ==
  ASSUME NEW t, InStep(t)
  PROVE  /\ \A id \in STATIC_INVARIANT_IDS :
              Invariant(t, id) \in t.invariants /\ Invariant(t, id).id = id
         /\ \A inv \in t.invariants : inv.id \in STATIC_INVARIANT_IDS
<1>1. InvariantIds(t) = STATIC_INVARIANT_IDS  BY DEF InStep
<1>2. ASSUME NEW id \in STATIC_INVARIANT_IDS
      PROVE  Invariant(t, id) \in t.invariants /\ Invariant(t, id).id = id
  <2>1. \E inv \in t.invariants : inv.id = id  BY <1>1 DEF InvariantIds
  <2> QED BY <2>1 DEF Invariant
<1> QED BY <1>1, <1>2 DEF InvariantIds

LEMMA PythonThenJavaScript ==
  ASSUME NEW t, ~JavaScriptLooks(t), InStep(t), PythonGreen(t),
         \A e \in t.positive : e.schema = "trace_bundle" => Payload[e.payload].bundle # NoBundle
  PROVE  JavaScriptGreen(t)
<1> DEFINE V == [s \in Stems(t) |-> Fresh(t, s)]
<1>1. ~Raises(t, V) /\ Failures(t, V) = {}  BY DEF PythonGreen
<1>2. \A e \in t.positive \cup t.negative :
        /\ e.schema \in Stems(t)
        /\ Details(V, e) = schema_error_details(Payload[e.payload], Fresh(t, e.schema))
        /\ JsDetails(t, e) = Details(V, e) \cup Payload[e.payload].strict
        /\ Payload[e.payload].json
  BY <1>1 DEF Raises, UnknownSchema, Details, JsDetails, JavaScriptLooks
<1>3. /\ \A e \in t.positive : JsDetails(t, e) = Details(V, e)
      /\ \A e \in t.negative : e.by = "invariant" => JsDetails(t, e) = Details(V, e)
  BY <1>2 DEF JavaScriptLooks
<1>4. \A inv \in t.invariants : Supported(inv)  BY <1>1 DEF Raises
<1> HIDE DEF V
<1>5. ASSUME NEW inv \in t.invariants PROVE ~Breaks(t, inv)
  <2>1. <<"invariant", inv>> \notin Failures(t, V)  BY <1>1
  <2> QED BY <2>1 DEF Failures
<1>6. ASSUME NEW e \in t.positive PROVE Details(V, e) = {}
  <2>1. <<"positive", e>> \notin Failures(t, V)  BY <1>1
  <2> QED BY <2>1 DEF Failures
<1>7. ASSUME NEW e \in t.negative PROVE Rejected(t, V, e)
  <2>1. <<"negative", e>> \notin Failures(t, V)  BY <1>1
  <2> QED BY <2>1 DEF Failures
<1>8. ASSUME NEW e \in t.positive, e.schema = "trace_bundle"
      PROVE  check_trace_bundle(Payload[e.payload].bundle).errors = {}
  <2>1. <<"tracebundle", e>> \notin Failures(t, V)  BY <1>1
  <2> QED BY <1>8, <2>1 DEF Failures, Of
<1>9. ~Throws(t)
  <2>1. ASSUME NEW s \in Used(t), NEW q \in DOMAIN t.schemas[s].refs
        PROVE  t.schemas[s].refs[q] \in Ids(t)
    BY <2>1 DEF JavaScriptLooks, Used, Closed, Fresh, Validator, Registry
  <2> QED BY <1>2, <2>1 DEF Throws, JavaScriptLooks, InStep
<1>10. /\ Invariant(t, "I-04").baseline # NoBaseline
      /\ core_required_surface_stable(Invariant(t, "I-04").baseline, t.schemas)
  <2> DEFINE inv == Invariant(t, "I-04")
  <2>1. inv \in t.invariants /\ inv.id = "I-04"  BY InStepBlocks DEF STATIC_INVARIANT_IDS
  <2>2. inv.applies_to = "core_schemas"  BY <2>1 DEF InStep
  <2> QED BY <1>4, <1>5, <2>1, <2>2 DEF Supported, Breaks
<1>11. ASSUME NEW e \in t.positive PROVE Accepts(t, e)
  <2> DEFINE p == Payload[e.payload]
  <2>1. ASSUME e.schema = "capability_token" PROVE capability_token_scoped(p)
    <3> DEFINE inv == Invariant(t, "I-06")
    <3>1. inv \in t.invariants /\ inv.id = "I-06"  BY InStepBlocks DEF STATIC_INVARIANT_IDS
    <3>2. inv.applies_to = "capability_token"  BY <3>1 DEF InStep
    <3> QED BY <1>5, <2>1, <3>1, <3>2 DEF Breaks, Of
  <2>2. ASSUME e.schema = "trace_bundle", NEW check \in BUNDLE_INVARIANTS
        PROVE  Holds(check, p.bundle)
    <3>1. PICK id \in DOMAIN JsCheck : JsCheck[id] = check
      BY DEF JsCheck, BUNDLE_INVARIANTS
    <3> DEFINE inv == Invariant(t, id)
    <3>2. inv \in t.invariants /\ inv.id = id
      BY InStepBlocks DEF STATIC_INVARIANT_IDS, JsCheck
    <3>3. inv.applies_to = "trace_bundle" /\ inv.assertion = check  BY <3>1, <3>2 DEF InStep
    <3> QED BY <1>5, <2>2, <3>2, <3>3 DEF Breaks, Of
  <2>3. ASSUME e.schema = "trace_bundle" PROVE verifyTraceBundleIntegrity(p.bundle)
    <3>1. p.bundle # NoBundle  BY <2>3
    <3>2. /\ CryptoInstalled
          /\ p.bundle.signature # Unsigned => p.bundle.signature.canonicalization # "omitted"
      BY <3>1 DEF JavaScriptLooks
    <3> QED BY <1>8, <2>3, <3>2, BundlesAlike
  <2> QED BY <1>2, <1>6, <1>3, <2>1, <2>2, <2>3 DEF Accepts
<1>12. ASSUME NEW e \in t.negative PROVE Rejects(t, e)
  <2>1. CASE e.by = "schema" /\ negative_schema_reason_met(e.violates, Details(V, e))
    <3>1. e.schema \in Stems(t) /\ Details(V, e) \subseteq JsDetails(t, e)  BY <1>2
    <3>2. negative_schema_reason_met(e.violates, JsDetails(t, e))
      BY <2>1, <3>1 DEF negative_schema_reason_met
    <3> QED BY <2>1, <3>1, <3>2 DEF Rejects
  <2>2. CASE /\ e.by = "invariant" /\ Details(V, e) = {}
             /\ Violates(_assertion_for(t, e.violates), e)
    <3> DEFINE inv == Invariant(t, e.violates)
    <3>1. e.violates \in STATIC_INVARIANT_IDS
      BY <1>1, <2>2 DEF Raises, InStep
    <3>2. inv \in t.invariants /\ inv.id = e.violates  BY <3>1, InStepBlocks
    <3>3. e.violates \in DOMAIN JsCheck /\ inv.assertion = JsCheck[e.violates]
      BY <2>2, <3>2 DEF InStep, Violates, _assertion_for
    <3>4. JsDetails(t, e) = {}  BY <1>3, <2>2
    <3>5. Violates(JsCheck[e.violates], e)  BY <2>2, <3>3 DEF _assertion_for
    <3>6. e.schema \in Stems(t)  BY <1>2
    <3> QED BY <2>2, <3>3, <3>4, <3>5, <3>6 DEF Rejects
  <2> QED BY <1>7, <2>1, <2>2 DEF Rejected
<1> QED BY <1>9, <1>10, <1>11, <1>12 DEF JavaScriptGreen

LEMMA JavaScriptThenPython ==
  ASSUME NEW t, ~PythonLooks(t), InStep(t), JavaScriptGreen(t),
         \A a, b \in t.invariants : a.id = b.id => a = b,
         \A e \in t.positive : e.schema = "trace_bundle" => Payload[e.payload].bundle # NoBundle
  PROVE  PythonGreen(t)
<1> DEFINE V == [s \in Stems(t) |-> Fresh(t, s)]
<1>1. /\ \A e \in t.positive : Accepts(t, e)
      /\ \A e \in t.negative : Rejects(t, e)
  BY DEF JavaScriptGreen
<1>2. \A e \in t.positive \cup t.negative :
        /\ e.schema \in Stems(t)
        /\ Details(V, e) = schema_error_details(Payload[e.payload], Fresh(t, e.schema))
        /\ JsDetails(t, e) = Details(V, e)
  <2>1. ASSUME NEW e \in t.positive \cup t.negative
        PROVE  e.schema \in Stems(t) /\ Payload[e.payload].strict = {}
    <3>1. CASE e \in t.positive  BY <1>1, <3>1 DEF Accepts, JsDetails
    <3>2. CASE e \in t.negative /\ e.by = "schema"  BY <1>1, <3>2 DEF Rejects, PythonLooks
    <3>3. CASE e \in t.negative /\ e.by # "schema"  BY <1>1, <3>3 DEF Rejects, JsDetails
    <3> QED BY <2>1, <3>1, <3>2, <3>3
  <2> QED BY <2>1 DEF Details, JsDetails
<1>3. \A e \in t.positive \cup t.negative : Resolves(V[e.schema], Payload[e.payload])
  <2> SUFFICES ASSUME NEW e \in t.positive \cup t.negative
               PROVE  Resolves(Fresh(t, e.schema), Payload[e.payload])
    BY <1>2
  <2>1. e.schema \in Used(t)  BY <1>2 DEF Used
  <2>2. \A x \in DOMAIN t.schemas[e.schema].refs : t.schemas[e.schema].refs[x] \in Ids(t)
    BY <2>1 DEF JavaScriptGreen, Throws
  <2> QED BY <2>2 DEF Resolves, Parts, Fresh, Validator, Registry
<1> HIDE DEF V
<1>4. ASSUME NEW inv \in t.invariants
      PROVE  Supported(inv) /\ ~Breaks(t, inv)
  <2>1. inv.id \in STATIC_INVARIANT_IDS  BY InStepBlocks
  <2>2. CASE inv.id \in DOMAIN JsCheck
    <3>1. inv.applies_to = "trace_bundle" /\ inv.assertion \in BUNDLE_INVARIANTS
      BY <2>2 DEF InStep, JsCheck, BUNDLE_INVARIANTS
    <3>2. \A e \in Of(t, "trace_bundle") : Holds(inv.assertion, Payload[e.payload].bundle)
      BY <1>1, <3>1 DEF Of, Accepts
    <3> QED BY <3>1, <3>2 DEF Supported, Breaks
  <2>3. CASE inv.id = "I-04"
    <3>1. inv = Invariant(t, "I-04")  BY <2>3, InStepBlocks DEF STATIC_INVARIANT_IDS
    <3>2. inv.applies_to = "core_schemas"  BY <2>3 DEF InStep
    <3>3. inv.baseline # NoBaseline /\ core_required_surface_stable(inv.baseline, t.schemas)
      BY <3>1 DEF JavaScriptGreen
    <3> QED BY <3>2, <3>3 DEF Supported, Breaks
  <2>4. CASE inv.id = "I-06"
    <3>1. inv.applies_to = "capability_token"  BY <2>4 DEF InStep
    <3>2. \A e \in Of(t, "capability_token") : capability_token_scoped(Payload[e.payload])
      BY <1>1 DEF Of, Accepts
    <3> QED BY <3>1, <3>2 DEF Supported, Breaks
  <2> QED BY <2>1, <2>2, <2>3, <2>4 DEF STATIC_INVARIANT_IDS, JsCheck
<1>5. ASSUME NEW e \in t.negative, e.by = "invariant", Details(V, e) = {}
      PROVE  /\ e.violates \in InvariantIds(t)
             /\ e.violates \in DOMAIN JsCheck /\ Violates(JsCheck[e.violates], e)
  <2>1. e.violates \in DOMAIN JsCheck /\ Violates(JsCheck[e.violates], e)
    BY <1>1, <1>5 DEF Rejects
  <2>2. InvariantIds(t) = STATIC_INVARIANT_IDS  BY DEF InStep
  <2> QED BY <2>1, <2>2 DEF JsCheck, STATIC_INVARIANT_IDS
<1>6. ~Raises(t, V)
  BY <1>2, <1>3, <1>4, <1>5 DEF Raises, UnknownSchema
<1>7. \A e \in t.positive : Details(V, e) = {}
  BY <1>1, <1>2 DEF Accepts
<1>8. ASSUME NEW e \in t.negative PROVE Rejected(t, V, e)
  <2>1. CASE e.by = "schema"
    BY <1>1, <1>2, <2>1 DEF Rejects, Rejected
  <2>2. CASE e.by = "invariant" /\ e.by # "schema"
    <3>1. Details(V, e) = {}  BY <1>1, <1>2, <2>2 DEF Rejects
    <3>2. e.violates \in DOMAIN JsCheck /\ Violates(JsCheck[e.violates], e)
      BY <1>5, <2>2, <3>1
    <3>3. /\ Invariant(t, e.violates) \in t.invariants
          /\ Invariant(t, e.violates).id = e.violates
      BY <3>2, InStepBlocks DEF STATIC_INVARIANT_IDS, JsCheck
    <3>4. Invariant(t, e.violates).assertion = JsCheck[e.violates]  BY <3>2, <3>3 DEF InStep
    <3> QED BY <2>2, <3>1, <3>2, <3>4 DEF Rejected, _assertion_for
  <2> QED BY <1>1, <2>1, <2>2 DEF Rejects
<1>9. ASSUME NEW e \in Of(t, "trace_bundle")
      PROVE  check_trace_bundle(Payload[e.payload].bundle).errors = {}
  <2> DEFINE p == Payload[e.payload]
  <2>1. e \in t.positive /\ e.schema = "trace_bundle"  BY DEF Of
  <2>2. p.bundle # NoBundle /\ verifyTraceBundleIntegrity(p.bundle)
    BY <1>1, <2>1 DEF Accepts
  <2>3. p.bundle.canonical  BY <2>1, <2>2 DEF PythonLooks
  <2>4. p.bundle.signature # Unsigned => EnvelopeErrors(p.bundle.signature) = {}
    <3>1. Envelope(p) = {}  BY <1>2, <1>7, <2>1, EnvelopeLooked
    <3> QED BY <2>2, <3>1 DEF Envelope
  <2> QED BY <2>2, <2>3, <2>4, BundlesAlike
<1>10. Failures(t, V) = {}
  BY <1>4, <1>7, <1>8, <1>9 DEF Failures
<1> QED BY <1>6, <1>10 DEF PythonGreen, V

\* Where the manifest has the blocks that the JavaScript side knows, a tree that
\* one implementation passes and the other does not has something that only the
\* other looks at.
THEOREM OneVerdict == Spec => []ReferencesAgree
<1>1. CorpusInv => ReferencesAgree
  BY PythonThenJavaScript, JavaScriptThenPython DEF CorpusInv, ReferencesAgree, Undivided
<1> QED BY <1>1, CorpusInvariance, PTL

=============================================================================

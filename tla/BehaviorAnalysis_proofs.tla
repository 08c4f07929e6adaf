------------------------- MODULE BehaviorAnalysis_proofs -------------------------
(***************************************************************************)
(* The rows of the backlog, for every table of what the snapshots lead to  *)
(* that presents one member of each cluster worth showing: the decisions   *)
(* taken of a row outlive every analysis, and the queue asks each question *)
(* once.                                                                   *)
(***************************************************************************)
EXTENDS BehaviorAnalysis, FiniteSetTheorems, WellFoundedInduction, TLAPS

-----------------------------------------------------------------------------
(* Numbers and rules                                                       *)

\* A non-empty set of naturals has a least element.
LEMMA LeastNatural ==
    ASSUME NEW T, T \subseteq Nat, T # {}
    PROVE  \E x \in T : \A y \in T : x <= y
<1>1. IsWellFoundedOn(OpToRel(<, Nat), Nat)
  BY NatLessThanWellFounded
<1>2. PICK x \in T : \A y \in T : <<y, x>> \notin OpToRel(<, Nat)
  BY <1>1, WFMin
<1>3. ASSUME NEW y \in T
      PROVE  x <= y
  <2>1. <<y, x>> \in Nat \X Nat
    OBVIOUS
  <2>2. ~(y < x)
    BY <1>2, <2>1 DEF OpToRel
  <2> QED  BY <2>2
<1> QED  BY <1>3

\* Something has the largest of bounded weights.
LEMMA Heaviest ==
    ASSUME NEW T, T # {}, NEW w, NEW bound \in Nat, \A x \in T : w[x] \in 0..bound
    PROVE  \E x \in T : \A y \in T : w[y] <= w[x]
<1> DEFINE L == {bound - w[x] : x \in T}
<1>1. L \subseteq Nat /\ L # {}
  OBVIOUS
<1>2. PICK l \in L : \A k \in L : l <= k
  <2> HIDE DEF L
  <2> QED  BY <1>1, LeastNatural
<1>3. PICK x \in T : l = bound - w[x]
  OBVIOUS
<1>4. ASSUME NEW y \in T
      PROVE  w[y] <= w[x]
  <2>1. bound - w[x] <= bound - w[y]
    BY <1>2, <1>3
  <2>2. w[x] \in 0..bound /\ w[y] \in 0..bound
    OBVIOUS
  <2> QED  BY <2>1, <2>2
<1> QED  BY <1>4

\* The first of three rules that holds
LEMMA FirstOfThree ==
    ASSUME NEW a \in BOOLEAN, NEW b \in BOOLEAN, NEW c \in BOOLEAN,
           NEW x, NEW y, NEW z, NEW otherwise
    PROVE  FirstRule(<< <<a, x>>, <<b, y>>, <<c, z>> >>, otherwise)
             = IF a THEN x ELSE IF b THEN y ELSE IF c THEN z ELSE otherwise
<1> DEFINE rules == << <<a, x>>, <<b, y>>, <<c, z>> >>
           hits == {i \in DOMAIN rules : rules[i][1]}
<1>1. hits = {i \in 1..3 : (i = 1 /\ a) \/ (i = 2 /\ b) \/ (i = 3 /\ c)}
  OBVIOUS
<1>2. FirstRule(rules, otherwise) = IF hits = {} THEN otherwise ELSE rules[Min(hits)][2]
  BY DEF FirstRule
<1>3. rules[1][2] = x /\ rules[2][2] = y /\ rules[3][2] = z
  OBVIOUS
<1> HIDE DEF rules, hits
<1>4. ASSUME NEW i \in hits, \A j \in hits : i <= j
      PROVE  Min(hits) = i
  <2>1. hits \subseteq Int
    BY <1>1
  <2>2. Min(hits) \in hits /\ \A j \in hits : Min(hits) <= j
    BY <1>4 DEF Min
  <2>3. i \in Int /\ Min(hits) \in Int /\ i <= Min(hits) /\ Min(hits) <= i
    BY <2>1, <2>2, <1>4
  <2> QED  BY <2>3
<1>5. CASE a
  <2>1. 1 \in hits /\ \A j \in hits : 1 <= j
    BY <1>1, <1>5
  <2>2. Min(hits) = 1
    BY <2>1, <1>4
  <2> QED  BY <1>2, <1>3, <1>5, <2>1, <2>2 DEF rules
<1>6. CASE ~a /\ b
  <2>1. 2 \in hits /\ \A j \in hits : 2 <= j
    BY <1>1, <1>6
  <2>2. Min(hits) = 2
    BY <2>1, <1>4
  <2> QED  BY <1>2, <1>3, <1>6, <2>1, <2>2 DEF rules
<1>7. CASE ~a /\ ~b /\ c
  <2>1. 3 \in hits /\ \A j \in hits : 3 <= j
    BY <1>1, <1>7
  <2>2. Min(hits) = 3
    BY <2>1, <1>4
  <2> QED  BY <1>2, <1>3, <1>7, <2>1, <2>2 DEF rules
<1>8. CASE ~a /\ ~b /\ ~c
  BY <1>1, <1>2, <1>8 DEF rules
<1> QED  BY <1>5, <1>6, <1>7, <1>8

-----------------------------------------------------------------------------
(* What an analysis drafts                                                 *)

\* The hypotheses of an analysis as _hypothesis and calibrate_hypotheses make
\* them: identified, scored in four parts from one to five, and promoted.
Calibration(H) ==
    /\ \A h \in H, k \in H : h.id = k.id => h = k
    /\ \A h \in H : /\ h.kind \in {"SECURITY_HYPOTHESIS", "RESEARCH_TASK"}
                    /\ h.promotion \in 0..5 /\ h.research \in 0..111
                    /\ h.score.likelihood \in 1..5 /\ h.score.impact \in 1..5
                    /\ h.score.readiness \in 1..5 /\ h.score.confidence \in 1..5

LEMMA TotalBounds ==
    ASSUME NEW H, Calibration(H), NEW h \in H
    PROVE  Total(h.score) \in 4..20
  BY DEF Calibration, Total

\* Promotion, research score and total, as one number that orders them
InOrder3(a, b, c) == 1904 * a + 17 * b + c
Top3 == 11427

LEMMA Top3Natural == Top3 \in Nat
  BY DEF Top3

LEMMA InOrder3Bounds ==
    ASSUME NEW a \in 0..5, NEW b \in 0..111, NEW c \in 4..20
    PROVE  InOrder3(a, b, c) \in 0..Top3
<1>1. InOrder3(a, b, c) \in Nat /\ InOrder3(a, b, c) <= Top3
  BY DEF InOrder3, Top3
<1> QED  BY <1>1, Top3Natural

LEMMA InOrder3Grows ==
    ASSUME NEW a \in 0..5, NEW b \in 0..111, NEW c \in 4..20,
           NEW d \in 0..5, NEW e \in 0..111, NEW f \in 4..20,
           a > d \/ (a = d /\ b > e) \/ (a = d /\ b = e /\ c > f)
    PROVE  InOrder3(a, b, c) > InOrder3(d, e, f)
  BY DEF InOrder3

\* Somebody stands for every cluster.
LEMMA SomebodyStands ==
    ASSUME NEW H, Calibration(H), NEW T, T \subseteq H, T # {}
    PROVE  StandsFor(T) \in T
<1> DEFINE w == [h \in T |-> InOrder3(h.promotion, h.research, Total(h.score))]
<1>1. \A h \in T : h.promotion \in 0..5 /\ h.research \in 0..111 /\ Total(h.score) \in 4..20
  BY TotalBounds DEF Calibration
<1>2. ASSUME NEW h \in T
      PROVE  w[h] \in 0..Top3
  <2>1. InOrder3(h.promotion, h.research, Total(h.score)) \in 0..Top3
    BY <1>1, InOrder3Bounds
  <2> QED  BY <2>1
<1>3. ASSUME NEW h \in T, NEW k \in T, Better(h, k)
      PROVE  w[h] > w[k]
  <2>1. /\ h.promotion \in 0..5 /\ h.research \in 0..111 /\ Total(h.score) \in 4..20
        /\ k.promotion \in 0..5 /\ k.research \in 0..111 /\ Total(k.score) \in 4..20
    BY <1>1
  <2>2. \/ h.promotion > k.promotion
        \/ h.promotion = k.promotion /\ h.research > k.research
        \/ h.promotion = k.promotion /\ h.research = k.research /\ Total(h.score) > Total(k.score)
    BY <1>3 DEF Better
  <2>3. InOrder3(h.promotion, h.research, Total(h.score))
           > InOrder3(k.promotion, k.research, Total(k.score))
    BY <2>1, <2>2, InOrder3Grows
  <2> QED  BY <2>3
<1>4. Top3 \in Nat
  BY Top3Natural
<1> HIDE DEF w
<1>5. PICK best \in T : \A k \in T : w[k] <= w[best]
  BY <1>2, <1>4, Heaviest
<1>6. ~\E k \in T : Better(k, best)
  <2> SUFFICES ASSUME NEW k \in T, Better(k, best) PROVE FALSE
    OBVIOUS
  <2>1. w[k] > w[best] /\ w[k] <= w[best]
    BY <1>3, <1>5
  <2>2. w[k] \in Int /\ w[best] \in Int
    BY <1>2, <1>4
  <2> QED  BY <2>1, <2>2
<1> QED  BY <1>6 DEF StandsFor

\* Those that ask the question of h
AskedWith(H, h) == {k \in H : k.question = h.question}

LEMMA ClusterFacts ==
    ASSUME NEW H, Calibration(H), NEW h \in H
    PROVE  /\ Cluster(AskedWith(H, h)) \in Clusters(H)
           /\ Cluster(AskedWith(H, h)).members = {k.id : k \in AskedWith(H, h)}
           /\ \E k \in AskedWith(H, h) : Cluster(AskedWith(H, h)).representative = k.id
           /\ \A c \in Clusters(H) : h.id \in c.members => c = Cluster(AskedWith(H, h))
<1> DEFINE A == AskedWith(H, h)
           V == {k \in A : k.promotion # Promotion.SUPPRESSED}
           T == IF V = {} THEN A ELSE V
<1>1. Cluster(A) \in Clusters(H)
  BY DEF Clusters, AskedWith
<1>2. \A S : Cluster(S).members = {k.id : k \in S}
  BY DEF Cluster
<1>3. Cluster(A).representative = StandsFor(T).id
  BY DEF Cluster
<1>4. T \subseteq H /\ T # {} /\ T \subseteq A
  BY DEF AskedWith
<1>5. StandsFor(T) \in A
  <2> HIDE DEF T, A
  <2> QED  BY <1>4, SomebodyStands
<1>6. ASSUME NEW c \in Clusters(H), h.id \in c.members
      PROVE  c = Cluster(A)
  <2>1. PICK k \in H : c = Cluster(AskedWith(H, k))
    BY DEF Clusters, AskedWith
  <2>2. PICK g \in AskedWith(H, k) : g.id = h.id
    BY <1>2, <1>6, <2>1
  <2>3. g = h
    BY <2>2 DEF AskedWith, Calibration
  <2>4. AskedWith(H, k) = A
    BY <2>2, <2>3 DEF AskedWith
  <2> QED  BY <2>1, <2>4
<1> QED  BY <1>1, <1>2, <1>3, <1>5, <1>6

\* A hypothesis is presented when it stands for a cluster worth showing.
LEMMA PresentedWhen ==
    ASSUME NEW H, Calibration(H), NEW h \in H, NEW d,
           d.disposition = Disposition(h, Cluster(AskedWith(H, h))), d.kind = h.kind
    PROVE  BaseVisible(d) <=> /\ Shown(Cluster(AskedWith(H, h)))
                              /\ Cluster(AskedWith(H, h)).representative = h.id
<1> DEFINE c == Cluster(AskedWith(H, h))
<1> HIDE DEF c
<1>1. Shown(c) \in BOOLEAN
  BY DEF Shown
<1> DEFINE other == c.representative # h.id
           poor == ~Shown(c)
           tested == h.kind = "SECURITY_HYPOTHESIS"
<1>2. Disposition(h, c) = IF other THEN "SUPPRESSED_DUPLICATE"
                          ELSE IF poor THEN "SUPPRESSED_INSUFFICIENT_EVIDENCE"
                          ELSE IF tested THEN "ACTIVE" ELSE "NEEDS_RESEARCH"
  <2>1. other \in BOOLEAN /\ poor \in BOOLEAN /\ tested \in BOOLEAN
    BY <1>1
  <2>2. Disposition(h, c) =
          FirstRule(<< <<other, "SUPPRESSED_DUPLICATE">>,
                       <<poor, "SUPPRESSED_INSUFFICIENT_EVIDENCE">>,
                       <<tested, "ACTIVE">> >>, "NEEDS_RESEARCH")
    BY DEF Disposition
  <2> HIDE DEF other, poor, tested
  <2> QED  BY <2>1, <2>2, FirstOfThree
<1>3. h.kind \in {"SECURITY_HYPOTHESIS", "RESEARCH_TASK"}
  BY DEF Calibration
<1>4. d.disposition = Disposition(h, c) /\ d.kind = h.kind
  BY DEF c
<1> QED  BY <1>1, <1>2, <1>3, <1>4 DEF BaseVisible, c

\* Whatever calibrate_hypotheses made of the hypotheses, _backlog_draft
\* presents the member that stands for each cluster worth showing, and no
\* other: what TableAssumption asks of a table.
THEOREM AnalysesDraftWell ==
    ASSUME NEW M, NEW H, Calibration(H), NEW rejections, NEW number,
           \A h \in H, k \in H : number[h.id] = number[k.id] => h.id = k.id
    PROVE  WellDrafted(ResultOf(M, [hypotheses |-> H, clusters |-> Clusters(H),
                                    rejections |-> rejections], number))
<1> DEFINE analysis == [hypotheses |-> H, clusters |-> Clusters(H), rejections |-> rejections]
           result == ResultOf(M, analysis, number)
           The(n) == CHOOSE h \in H : number[h.id] = n
           Numbered(c) == [shown |-> Shown(c), members |-> {number[id] : id \in c.members},
                           representative |-> number[c.representative]]
           At(h) == CHOOSE c \in Clusters(H) : h.id \in c.members
<1>1. /\ result.drafts = [n \in {number[h.id] : h \in H} |-> Drafted(The(n), Clusters(H))]
      /\ result.clusters = {Numbered(c) : c \in Clusters(H)}
  BY DEF ResultOf
<1> HIDE DEF result
<1>2. ASSUME NEW h \in H
      PROVE  /\ number[h.id] \in DOMAIN result.drafts
             /\ result.drafts[number[h.id]].score = Total(h.score)
             /\ result.drafts[number[h.id]].kind = h.kind
             /\ result.drafts[number[h.id]].disposition
                  = Disposition(h, Cluster(AskedWith(H, h)))
  <2>1. The(number[h.id]) = h
    <3>1. \A k \in H : number[k.id] = number[h.id] => k = h
      BY DEF Calibration
    <3> QED  BY <3>1
  <2>2. At(h) = Cluster(AskedWith(H, h))
    <3>1. h.id \in Cluster(AskedWith(H, h)).members
      BY ClusterFacts DEF AskedWith
    <3> QED  BY <3>1, ClusterFacts
  <2>3. number[h.id] \in DOMAIN result.drafts
    BY <1>1
  <2>4. result.drafts[number[h.id]] = Drafted(h, Clusters(H))
    BY <1>1, <2>1
  <2>5. /\ Drafted(h, Clusters(H)).score = Total(h.score)
        /\ Drafted(h, Clusters(H)).kind = h.kind
        /\ Drafted(h, Clusters(H)).disposition = Disposition(h, At(h))
    BY DEF Drafted
  <2> HIDE DEF At
  <2> QED  BY <2>2, <2>3, <2>4, <2>5
<1>3. ASSUME NEW n \in DOMAIN result.drafts
      PROVE  result.drafts[n].score \in 4..20
  <2>1. PICK h \in H : n = number[h.id]
    BY <1>1
  <2> QED  BY <2>1, <1>2, TotalBounds
<1>4. ASSUME NEW d \in result.clusters
      PROVE  /\ d.representative \in d.members /\ d.members \subseteq DOMAIN result.drafts
             /\ \A n \in d.members :
                   BaseVisible(result.drafts[n]) <=> d.shown /\ n = d.representative
  <2>1. PICK c \in Clusters(H) : d = Numbered(c)
    BY <1>1
  <2>2. PICK g \in H : c = Cluster(AskedWith(H, g))
    BY DEF Clusters, AskedWith
  <2>3. /\ d.shown = Shown(c) /\ d.representative = number[c.representative]
        /\ d.members = {number[id] : id \in c.members}
    BY <2>1
  <2>4. /\ c.members = {k.id : k \in AskedWith(H, g)}
        /\ \E k \in AskedWith(H, g) : c.representative = k.id
    BY <2>2, ClusterFacts
  <2>5. PICK r \in AskedWith(H, g) : c.representative = r.id
    BY <2>4
  <2>6. r \in H /\ AskedWith(H, g) \subseteq H
    BY <2>5 DEF AskedWith
  <2>7. d.representative \in d.members
    BY <2>3, <2>4, <2>5
  <2>8. d.members \subseteq DOMAIN result.drafts
    BY <1>2, <2>3, <2>4, <2>6
  <2>9. ASSUME NEW n \in d.members
        PROVE  BaseVisible(result.drafts[n]) <=> d.shown /\ n = d.representative
    <3>1. PICK k \in AskedWith(H, g) : n = number[k.id]
      BY <2>3, <2>4
    <3>2. k \in H /\ AskedWith(H, k) = AskedWith(H, g)
      BY <3>1 DEF AskedWith
    <3>3. BaseVisible(result.drafts[n]) <=> Shown(c) /\ c.representative = k.id
      <4>1. /\ result.drafts[n].disposition = Disposition(k, Cluster(AskedWith(H, k)))
            /\ result.drafts[n].kind = k.kind
        BY <1>2, <3>1, <3>2
      <4> QED  BY <4>1, <3>2, <2>2, PresentedWhen
    <3>4. c.representative = k.id <=> n = d.representative
      BY <2>3, <2>5, <2>6, <3>1, <3>2
    <3> QED  BY <3>3, <3>4, <2>3
  <2> QED  BY <2>7, <2>8, <2>9
<1> QED  BY <1>3, <1>4 DEF WellDrafted, result

-----------------------------------------------------------------------------
(* Rows                                                                    *)

RowFields == {"disposition", "kind", "epistemic", "status", "visible", "drafted"}

\* A row, whatever its fields hold
IsRow(r) == r = [f \in RowFields |-> r[f]]

\* A row of identifier n that some snapshot was the source of
RowFrom(n, r) == IsRow(r) /\ r.drafted \in Snapshots /\ n \in Found(r.drafted)

LEMMA DraftIsRow ==
    ASSUME NEW s, NEW n, NEW e
    PROVE  /\ IsRow(Draft(s, n, e))
           /\ Draft(s, n, e).disposition = Results[s].drafts[n].disposition
           /\ Draft(s, n, e).kind = Results[s].drafts[n].kind
           /\ Draft(s, n, e).epistemic = e /\ Draft(s, n, e).status = "NOT_TESTED"
           /\ Draft(s, n, e).drafted = s
  BY DEF Draft, IsRow, RowFields

\* One changed field leaves a row with the others.
LEMMA FieldSet ==
    ASSUME NEW r, IsRow(r), NEW f \in RowFields, NEW v
    PROVE  /\ IsRow([r EXCEPT ![f] = v]) /\ [r EXCEPT ![f] = v][f] = v
           /\ \A g \in RowFields \ {f} : [r EXCEPT ![f] = v][g] = r[g]
  BY DEF IsRow

LEMMA MergedIsRow ==
    ASSUME NEW r, NEW d, IsRow(d)
    PROVE  /\ IsRow(Merged(r, d))
           /\ Merged(r, d).disposition = d.disposition /\ Merged(r, d).kind = d.kind
           /\ Merged(r, d).drafted = d.drafted
           /\ Merged(r, d).status = r.status /\ Merged(r, d).epistemic = r.epistemic
<1> DEFINE one == [d EXCEPT !["status"] = r.status]
           two == [one EXCEPT !["epistemic"] = r.epistemic]
<1>1. Merged(r, d) = two
  BY DEF Merged
<1>2. /\ IsRow(one) /\ one.status = r.status
      /\ \A g \in RowFields \ {"status"} : one[g] = d[g]
  BY FieldSet DEF RowFields
<1> HIDE DEF one
<1>3. /\ IsRow(two) /\ two.epistemic = r.epistemic
      /\ \A g \in RowFields \ {"epistemic"} : two[g] = one[g]
  BY <1>2, FieldSet DEF RowFields
<1> HIDE DEF two
<1> QED  BY <1>1, <1>2, <1>3 DEF RowFields

LEMMA RetiredIsRow ==
    ASSUME NEW r, IsRow(r)
    PROVE  /\ IsRow(Retired(r))
           /\ Retired(r).disposition = "SUPPRESSED_INSUFFICIENT_EVIDENCE"
           /\ Retired(r).status = r.status /\ Retired(r).drafted = r.drafted
<1> DEFINE one == [r EXCEPT !["kind"] = "RESEARCH_TASK"]
           two == [one EXCEPT !["epistemic"] = "RESEARCH_TASK"]
           three == [two EXCEPT !["disposition"] = "SUPPRESSED_INSUFFICIENT_EVIDENCE"]
<1>1. Retired(r) = three
  BY DEF Retired
<1>2. IsRow(one) /\ \A g \in RowFields \ {"kind"} : one[g] = r[g]
  BY FieldSet DEF RowFields
<1> HIDE DEF one
<1>3. IsRow(two) /\ \A g \in RowFields \ {"epistemic"} : two[g] = one[g]
  BY <1>2, FieldSet DEF RowFields
<1> HIDE DEF two
<1>4. /\ IsRow(three) /\ three.disposition = "SUPPRESSED_INSUFFICIENT_EVIDENCE"
      /\ \A g \in RowFields \ {"disposition"} : three[g] = two[g]
  BY <1>3, FieldSet DEF RowFields
<1> HIDE DEF three
<1> QED  BY <1>1, <1>2, <1>3, <1>4 DEF RowFields

-----------------------------------------------------------------------------
(* The row that stands for the ones that ask the same                      *)

\* What a snapshot says of a hypothesis has a score from 4 to 20.
LEMMA Scores ==
    ASSUME NEW n, NEW r, RowFrom(n, r)
    PROVE  Content(n, r).score \in 4..20
  BY TableAssumption DEF RowFrom, Content, Results, Found, WellDrafted

\* The order in which _primary prefers rows, as one number
Asked(r) == IF BaseVisible(r) THEN 1 ELSE 0
Tested(r) == IF r.kind = "SECURITY_HYPOTHESIS" THEN 1 ELSE 0
Weight(n, r) == 42 * Asked(r) + 21 * Tested(r) + Content(n, r).score

LEMMA WeightBounds ==
    ASSUME NEW n, NEW r, RowFrom(n, r)
    PROVE  /\ Asked(r) \in 0..1 /\ Tested(r) \in 0..1 /\ Content(n, r).score \in 4..20
           /\ Weight(n, r) \in 0..100
<1>1. Asked(r) \in 0..1 /\ Tested(r) \in 0..1
  BY DEF Asked, Tested
<1>2. Content(n, r).score \in 4..20
  BY Scores
<1> QED  BY <1>1, <1>2 DEF Weight

LEMMA NotBoth == \A a, b \in 0..100 : ~(a > b /\ a <= b)
  OBVIOUS

\* Among rows there is a first one, and it is presented when one of them is.
LEMMA PrimaryIsFirst ==
    ASSUME NEW rows, NEW ids, ids # {}, \A n \in ids : RowFrom(n, rows[n])
    PROVE  /\ Primary(ids, rows) \in ids
           /\ (\E n \in ids : BaseVisible(rows[n])) => BaseVisible(rows[Primary(ids, rows)])
<1> DEFINE Order(n) == <<IF BaseVisible(rows[n]) THEN 1 ELSE 0,
                         IF rows[n].kind = "SECURITY_HYPOTHESIS" THEN 1 ELSE 0,
                         Content(n, rows[n]).score>>
           Above(m, n) == \E i \in 1..3 : /\ Order(m)[i] > Order(n)[i]
                                          /\ \A j \in 1..(i - 1) : Order(m)[j] = Order(n)[j]
           w == [n \in ids |-> Weight(n, rows[n])]
<1>1. \A n \in ids : /\ Order(n)[1] = Asked(rows[n]) /\ Order(n)[2] = Tested(rows[n])
                      /\ Order(n)[3] = Content(n, rows[n]).score
  BY DEF Asked, Tested
<1> HIDE DEF Order
<1>2. ASSUME NEW m \in ids, NEW n \in ids, Above(m, n)
      PROVE  w[m] > w[n]
  <2>1. PICK i \in 1..3 : /\ Order(m)[i] > Order(n)[i]
                          /\ \A j \in 1..(i - 1) : Order(m)[j] = Order(n)[j]
    BY <1>2
  <2>2. w[m] = 42 * Order(m)[1] + 21 * Order(m)[2] + Order(m)[3]
    BY <1>1 DEF Weight
  <2>3. w[n] = 42 * Order(n)[1] + 21 * Order(n)[2] + Order(n)[3]
    BY <1>1 DEF Weight
  <2>4. /\ Order(m)[1] \in 0..1 /\ Order(m)[2] \in 0..1 /\ Order(m)[3] \in 4..20
        /\ Order(n)[1] \in 0..1 /\ Order(n)[2] \in 0..1 /\ Order(n)[3] \in 4..20
    BY <1>1, WeightBounds
  <2>5. CASE i = 1
    BY <2>1, <2>2, <2>3, <2>4, <2>5
  <2>6. CASE i = 2
    <3>1. Order(m)[1] = Order(n)[1] /\ Order(m)[2] > Order(n)[2]
      BY <2>1, <2>6
    <3> QED  BY <3>1, <2>2, <2>3, <2>4
  <2>7. CASE i = 3
    <3>1. Order(m)[1] = Order(n)[1] /\ Order(m)[2] = Order(n)[2] /\ Order(m)[3] > Order(n)[3]
      BY <2>1, <2>7
    <3> QED  BY <3>1, <2>2, <2>3, <2>4
  <2> QED  BY <2>5, <2>6, <2>7
<1>3. \A n \in ids : w[n] \in 0..100
  BY WeightBounds
<1>4. PICK best \in ids : \A n \in ids : w[n] <= w[best]
  <2> HIDE DEF w
  <2> QED  BY <1>3, Heaviest, 100 \in Nat
<1>5. ~\E m \in ids : Above(m, best)
  <2> HIDE DEF w, Above
  <2> SUFFICES ASSUME NEW m \in ids, Above(m, best) PROVE FALSE
    OBVIOUS
  <2>1. w[m] > w[best] /\ w[m] <= w[best]
    BY <1>2, <1>4
  <2>2. w[m] \in 0..100 /\ w[best] \in 0..100
    BY <1>3
  <2> QED  BY <2>1, <2>2, NotBoth
<1>6. Primary(ids, rows) = CHOOSE n \in ids : ~\E m \in ids : Above(m, n)
  BY DEF Primary, Order
<1> DEFINE p == Primary(ids, rows)
<1>7. p \in ids /\ ~\E m \in ids : Above(m, p)
  <2> HIDE DEF Above
  <2> QED  BY <1>5, <1>6
<1>8. ASSUME NEW n \in ids, BaseVisible(rows[n])
      PROVE  BaseVisible(rows[p])
  <2> SUFFICES ASSUME ~BaseVisible(rows[p]) PROVE FALSE
    OBVIOUS
  <2>1. Order(n)[1] > Order(p)[1]
    BY <1>1, <1>7, <1>8 DEF Asked
  <2>2. Above(n, p)
    BY <2>1
  <2> QED  BY <2>2, <1>7
<1> QED  BY <1>7, <1>8

-----------------------------------------------------------------------------
(* finalize_hypothesis_store                                               *)

\* Rows that ask the same
Same(rows, n) == {m \in DOMAIN rows : Content(m, rows[m]).key = Content(n, rows[n]).key}

LEMMA FinalizedRows ==
    ASSUME NEW rows, \A n \in DOMAIN rows : RowFrom(n, rows[n])
    PROVE  /\ DOMAIN Finalized(rows) = DOMAIN rows
           /\ \A n \in DOMAIN rows :
                /\ IsRow(Finalized(rows)[n])
                /\ \A f \in RowFields \ {"visible"} : Finalized(rows)[n][f] = rows[n][f]
                /\ Finalized(rows)[n].visible
                     = (BaseVisible(rows[n]) /\ Primary(Same(rows, n), rows) = n)
<1> DEFINE V(n) == BaseVisible(rows[n]) /\ Primary(Same(rows, n), rows) = n
<1>1. Finalized(rows) = [n \in DOMAIN rows |-> [rows[n] EXCEPT !["visible"] = V(n)]]
  BY DEF Finalized, Same
<1> HIDE DEF V
<1>2. ASSUME NEW n \in DOMAIN rows
      PROVE  /\ IsRow([rows[n] EXCEPT !["visible"] = V(n)])
             /\ [rows[n] EXCEPT !["visible"] = V(n)]["visible"] = V(n)
             /\ \A f \in RowFields \ {"visible"} :
                   [rows[n] EXCEPT !["visible"] = V(n)][f] = rows[n][f]
  BY <1>2, FieldSet DEF RowFields, RowFrom
<1>3. /\ DOMAIN Finalized(rows) = DOMAIN rows
      /\ \A n \in DOMAIN rows : Finalized(rows)[n] = [rows[n] EXCEPT !["visible"] = V(n)]
  BY <1>1
<1>4. ASSUME NEW n \in DOMAIN rows
      PROVE  /\ IsRow(Finalized(rows)[n])
             /\ \A f \in RowFields \ {"visible"} : Finalized(rows)[n][f] = rows[n][f]
             /\ Finalized(rows)[n].visible = V(n)
  <2> DEFINE r == [rows[n] EXCEPT !["visible"] = V(n)]
  <2>1. /\ IsRow(r) /\ r["visible"] = V(n)
        /\ \A f \in RowFields \ {"visible"} : r[f] = rows[n][f]
    BY <1>2
  <2>2. Finalized(rows)[n] = r
    BY <1>3
  <2> HIDE DEF r
  <2> QED  BY <2>1, <2>2
<1>5. \A n \in DOMAIN rows :
         V(n) = (BaseVisible(rows[n]) /\ Primary(Same(rows, n), rows) = n)
  BY DEF V
<1> QED  BY <1>3, <1>4, <1>5

\* A presented row is shown, or another one that asks the same.
LEMMA OneOfTheSameShows ==
    ASSUME NEW rows, \A n \in DOMAIN rows : RowFrom(n, rows[n]),
           NEW n \in DOMAIN rows, BaseVisible(rows[n])
    PROVE  \E m \in DOMAIN rows : /\ BaseVisible(rows[m]) /\ Primary(Same(rows, m), rows) = m
                                  /\ Content(m, rows[m]).key = Content(n, rows[n]).key
<1> DEFINE p == Primary(Same(rows, n), rows)
<1>1. n \in Same(rows, n) /\ \A m \in Same(rows, n) : RowFrom(m, rows[m])
  BY DEF Same
<1>2. p \in Same(rows, n) /\ BaseVisible(rows[p])
  BY <1>1, PrimaryIsFirst
<1>3. Same(rows, p) = Same(rows, n)
  BY <1>2 DEF Same
<1>4. p \in DOMAIN rows /\ Content(p, rows[p]).key = Content(n, rows[n]).key
  BY <1>2 DEF Same
<1> QED  BY <1>2, <1>3, <1>4

-----------------------------------------------------------------------------
(* _sync_backlog                                                           *)

RowsOK(rows) == \A n \in DOMAIN rows : RowFrom(n, rows[n])

\* A row of the draft that was merged, or of a pattern that is gone
FromDraft(s, n, row) ==
    /\ row.disposition = Results[s].drafts[n].disposition
    /\ row.kind = Results[s].drafts[n].kind
    /\ row.drafted = s

LEMMA UpdatedRows ==
    ASSUME NEW rows, RowsOK(rows), NEW s \in Snapshots, NEW said
    PROVE  /\ DOMAIN Updated(rows, s, said) = Found(s) \cup DOMAIN rows
           /\ RowsOK(Updated(rows, s, said))
           /\ \A n \in Found(s) : FromDraft(s, n, Updated(rows, s, said)[n])
           /\ \A n \in DOMAIN rows \ Found(s) : ~BaseVisible(Updated(rows, s, said)[n])
           /\ \A n \in DOMAIN rows : Updated(rows, s, said)[n].status = rows[n].status
           /\ \A n \in DOMAIN rows \cap Found(s) :
                Updated(rows, s, said)[n].epistemic = rows[n].epistemic
<1> DEFINE U == Updated(rows, s, said)
           D(n) == Draft(s, n, said[n])
<1>1. U = [n \in Found(s) \cup DOMAIN rows |->
             IF n \notin Found(s) THEN Retired(rows[n])
             ELSE IF n \in DOMAIN rows THEN Merged(rows[n], D(n)) ELSE D(n)]
  BY DEF Updated
<1> HIDE DEF U, D
<1>2. DOMAIN U = Found(s) \cup DOMAIN rows
  BY <1>1
<1>3. ASSUME NEW n \in Found(s)
      PROVE  /\ IsRow(D(n)) /\ FromDraft(s, n, D(n))
  BY DraftIsRow DEF D, FromDraft
<1>4. ASSUME NEW n \in Found(s), n \in DOMAIN rows
      PROVE  /\ IsRow(U[n]) /\ FromDraft(s, n, U[n])
             /\ U[n].status = rows[n].status /\ U[n].epistemic = rows[n].epistemic
  <2>1. U[n] = Merged(rows[n], D(n))
    BY <1>1, <1>4
  <2> QED  BY <2>1, <1>3, MergedIsRow DEF FromDraft
<1>5. ASSUME NEW n \in Found(s), n \notin DOMAIN rows
      PROVE  IsRow(U[n]) /\ FromDraft(s, n, U[n])
  <2>1. U[n] = D(n)
    BY <1>1, <1>5
  <2> QED  BY <2>1, <1>3
<1>6. ASSUME NEW n \in DOMAIN rows, n \notin Found(s)
      PROVE  RowFrom(n, U[n]) /\ ~BaseVisible(U[n]) /\ U[n].status = rows[n].status
  <2>1. U[n] = Retired(rows[n])
    BY <1>1, <1>6
  <2>2. RowFrom(n, rows[n])
    BY DEF RowsOK
  <2>3. /\ IsRow(U[n]) /\ U[n].disposition = "SUPPRESSED_INSUFFICIENT_EVIDENCE"
        /\ U[n].status = rows[n].status /\ U[n].drafted = rows[n].drafted
    BY <2>1, <2>2, RetiredIsRow DEF RowFrom
  <2> QED  BY <2>2, <2>3 DEF RowFrom, BaseVisible
<1>7. ASSUME NEW n \in Found(s)
      PROVE  RowFrom(n, U[n]) /\ FromDraft(s, n, U[n])
  BY <1>4, <1>5 DEF RowFrom, FromDraft
<1>8. RowsOK(U)
  BY <1>2, <1>6, <1>7 DEF RowsOK
<1>9. /\ \A n \in Found(s) : FromDraft(s, n, U[n])
      /\ \A n \in DOMAIN rows \ Found(s) : ~BaseVisible(U[n])
      /\ \A n \in DOMAIN rows : U[n].status = rows[n].status
      /\ \A n \in DOMAIN rows \cap Found(s) : U[n].epistemic = rows[n].epistemic
  BY <1>4, <1>6, <1>7
<1> QED  BY <1>2, <1>8, <1>9 DEF U

\* The queue of an analysis of snapshot s: its drafts, and no other pattern,
\* are presented; what shows is presented; and what is presented shows,
\* itself or through a row that asks the same.
QueueOf(s, rows) ==
    /\ Found(s) \subseteq DOMAIN rows
    /\ \A n \in Found(s) : FromDraft(s, n, rows[n])
    /\ \A n \in DOMAIN rows \ Found(s) : ~BaseVisible(rows[n])
    /\ \A n \in DOMAIN rows : rows[n].visible => BaseVisible(rows[n])
    /\ \A n \in DOMAIN rows : BaseVisible(rows[n]) =>
         \E m \in DOMAIN rows : /\ rows[m].visible
                               /\ Content(m, rows[m]).key = Content(n, rows[n]).key

LEMMA SyncedRows ==
    ASSUME NEW rows, RowsOK(rows), NEW s \in Snapshots, NEW said
    PROVE  /\ DOMAIN rows \subseteq DOMAIN Synced(rows, s, said)
           /\ RowsOK(Synced(rows, s, said))
           /\ QueueOf(s, Synced(rows, s, said))
           /\ \A n \in DOMAIN rows : Synced(rows, s, said)[n].status = rows[n].status
           /\ \A n \in DOMAIN rows \cap Found(s) :
                Synced(rows, s, said)[n].epistemic = rows[n].epistemic
<1> DEFINE U == Updated(rows, s, said)
           F == Finalized(U)
<1>1. /\ DOMAIN U = Found(s) \cup DOMAIN rows /\ RowsOK(U)
      /\ \A n \in Found(s) : FromDraft(s, n, U[n])
      /\ \A n \in DOMAIN rows \ Found(s) : ~BaseVisible(U[n])
      /\ \A n \in DOMAIN rows : U[n].status = rows[n].status
      /\ \A n \in DOMAIN rows \cap Found(s) : U[n].epistemic = rows[n].epistemic
  BY UpdatedRows
<1>2. Synced(rows, s, said) = F
  BY DEF Synced
<1> HIDE DEF U
<1>3. /\ DOMAIN F = DOMAIN U
      /\ \A n \in DOMAIN U :
           /\ IsRow(F[n]) /\ \A f \in RowFields \ {"visible"} : F[n][f] = U[n][f]
           /\ F[n].visible = (BaseVisible(U[n]) /\ Primary(Same(U, n), U) = n)
  BY <1>1, FinalizedRows DEF RowsOK
<1> HIDE DEF F
<1>4. \A n \in DOMAIN U :
         /\ F[n].disposition = U[n].disposition /\ F[n].kind = U[n].kind
         /\ F[n].status = U[n].status /\ F[n].epistemic = U[n].epistemic
         /\ F[n].drafted = U[n].drafted
  BY <1>3 DEF RowFields
<1>5. \A n \in DOMAIN U : /\ BaseVisible(F[n]) = BaseVisible(U[n])
                          /\ Content(n, F[n]) = Content(n, U[n])
  BY <1>4 DEF BaseVisible, Content
<1>6. RowsOK(F)
  BY <1>1, <1>3, <1>4 DEF RowsOK, RowFrom
<1>7. \A n \in Found(s) : FromDraft(s, n, F[n])
  BY <1>1, <1>4 DEF FromDraft
<1>8. \A n \in DOMAIN F \ Found(s) : ~BaseVisible(F[n])
  BY <1>1, <1>3, <1>5
<1>9. \A n \in DOMAIN F : F[n].visible => BaseVisible(F[n])
  BY <1>3, <1>5
<1>10. ASSUME NEW n \in DOMAIN F, BaseVisible(F[n])
       PROVE  \E m \in DOMAIN F : F[m].visible /\ Content(m, F[m]).key = Content(n, F[n]).key
  <2>1. PICK m \in DOMAIN U : /\ BaseVisible(U[m]) /\ Primary(Same(U, m), U) = m
                              /\ Content(m, U[m]).key = Content(n, U[n]).key
    BY <1>1, <1>3, <1>5, <1>10, OneOfTheSameShows DEF RowsOK
  <2>2. F[m].visible /\ Content(m, F[m]).key = Content(n, F[n]).key
    BY <2>1, <1>3, <1>5, <1>10
  <2> QED  BY <2>2, <1>3
<1>11. QueueOf(s, F)
  BY <1>1, <1>3, <1>7, <1>8, <1>9, <1>10 DEF QueueOf
<1>12. /\ \A n \in DOMAIN rows : F[n].status = rows[n].status
       /\ \A n \in DOMAIN rows \cap Found(s) : F[n].epistemic = rows[n].epistemic
  BY <1>1, <1>4
<1> QED  BY <1>1, <1>2, <1>3, <1>6, <1>11, <1>12

-----------------------------------------------------------------------------
(* The invariant                                                           *)

\* The files are made from captures, and the rows from snapshots of them:
\* nothing was drafted yet, or the queue is the one of the last analysis.
BehaviorInv ==
    /\ surveyed \subseteq imported /\ imported \subseteq Captures
    /\ RowsOK(backlog)
    /\ DOMAIN backlog = {} \/ \E s \in Snapshots : QueueOf(s, backlog)

LEMMA NowIsSnapshot ==
    ASSUME BehaviorInv
    PROVE  Now \in Snapshots
  BY DEF BehaviorInv, Now, Snapshots

LEMMA InitBehavior == Init => BehaviorInv
  BY DEF Init, BehaviorInv, RowsOK

LEMMA SyncStep ==
    ASSUME BehaviorInv, SyncBacklog
    PROVE  /\ BehaviorInv'
           /\ \A id \in DOMAIN backlog :
                /\ id \in DOMAIN backlog' /\ backlog'[id].status = backlog[id].status
                /\ id \in Found(Now) => backlog'[id].epistemic = backlog[id].epistemic
<1>1. Now \in Snapshots
  BY NowIsSnapshot
<1>2. /\ RowsOK(backlog)
      /\ backlog' = Synced(backlog, Now, logic.said) /\ UNCHANGED <<imported, surveyed>>
  BY DEF SyncBacklog, BehaviorInv
<1>3. /\ DOMAIN backlog \subseteq DOMAIN backlog'
      /\ RowsOK(backlog') /\ QueueOf(Now, backlog')
      /\ \A n \in DOMAIN backlog : backlog'[n].status = backlog[n].status
      /\ \A n \in DOMAIN backlog \cap Found(Now) :
           backlog'[n].epistemic = backlog[n].epistemic
  BY <1>1, <1>2, SyncedRows
<1>4. BehaviorInv'
  BY <1>1, <1>2, <1>3 DEF BehaviorInv
<1> QED  BY <1>3, <1>4

\* A decision changes two fields the queue does not read.
LEMMA DecideStep ==
    ASSUME BehaviorInv, NEW id \in DOMAIN backlog, NEW status, DecideRow(id, status)
    PROVE  BehaviorInv'
<1> DEFINE one == [backlog[id] EXCEPT !["status"] = status]
           row == [one EXCEPT !["epistemic"] = EpistemicOf[status]]
<1>1. backlog' = [n \in DOMAIN backlog |-> IF n = id THEN row ELSE backlog[n]]
  BY DEF DecideRow
<1>2. RowFrom(id, backlog[id])
  BY DEF BehaviorInv, RowsOK
<1>3. IsRow(one) /\ \A g \in RowFields \ {"status"} : one[g] = backlog[id][g]
  BY <1>2, FieldSet DEF RowFields, RowFrom
<1> HIDE DEF one
<1>4. IsRow(row) /\ \A g \in RowFields \ {"epistemic"} : row[g] = one[g]
  BY <1>3, FieldSet DEF RowFields
<1> HIDE DEF row
<1>5. /\ row.disposition = backlog[id].disposition /\ row.kind = backlog[id].kind
      /\ row.visible = backlog[id].visible /\ row.drafted = backlog[id].drafted
  BY <1>3, <1>4 DEF RowFields
<1>6. /\ DOMAIN backlog' = DOMAIN backlog
      /\ \A n \in DOMAIN backlog :
           /\ IsRow(backlog'[n])
           /\ backlog'[n].disposition = backlog[n].disposition
           /\ backlog'[n].kind = backlog[n].kind /\ backlog'[n].visible = backlog[n].visible
           /\ backlog'[n].drafted = backlog[n].drafted
  BY <1>1, <1>4, <1>5 DEF BehaviorInv, RowsOK, RowFrom
<1>7. RowsOK(backlog')
  BY <1>6 DEF BehaviorInv, RowsOK, RowFrom
<1>8. \A n \in DOMAIN backlog : /\ BaseVisible(backlog'[n]) = BaseVisible(backlog[n])
                                /\ Content(n, backlog'[n]) = Content(n, backlog[n])
  BY <1>6 DEF BaseVisible, Content
<1>9. ASSUME NEW s \in Snapshots, QueueOf(s, backlog)
      PROVE  QueueOf(s, backlog')
  <2>1. \A n \in Found(s) : FromDraft(s, n, backlog'[n])
    BY <1>6, <1>9 DEF QueueOf, FromDraft
  <2>2. \A n \in DOMAIN backlog : backlog'[n].visible => BaseVisible(backlog'[n])
    BY <1>6, <1>8, <1>9 DEF QueueOf
  <2>3. ASSUME NEW n \in DOMAIN backlog, BaseVisible(backlog'[n])
        PROVE  \E m \in DOMAIN backlog : /\ backlog'[m].visible
                  /\ Content(m, backlog'[m]).key = Content(n, backlog'[n]).key
    BY <1>6, <1>8, <1>9, <2>3 DEF QueueOf
  <2>4. \A n \in DOMAIN backlog \ Found(s) : ~BaseVisible(backlog'[n])
    BY <1>8, <1>9 DEF QueueOf
  <2> QED  BY <1>6, <1>9, <2>1, <2>2, <2>3, <2>4 DEF QueueOf
<1>10. UNCHANGED <<imported, surveyed>>
  BY DEF DecideRow
<1> QED  BY <1>6, <1>7, <1>9, <1>10 DEF BehaviorInv

LEMMA BehaviorStep == BehaviorInv /\ [Next]_vars => BehaviorInv'
<1> SUFFICES ASSUME BehaviorInv, [Next]_vars
             PROVE  BehaviorInv'
  OBVIOUS
<1>1. ASSUME NEW c \in Captures, Import(c) PROVE BehaviorInv'
  BY <1>1 DEF Import, BehaviorInv
<1>2. CASE Inventory
  BY <1>2 DEF Inventory, BehaviorInv
<1>3. CASE Build \/ Analyze
  BY <1>3 DEF Build, Analyze, Start, BehaviorInv
<1>4. CASE WriteArtifact \/ WriteRules \/ WriteLogic
  BY <1>4 DEF WriteArtifact, WriteRules, WriteLogic, BehaviorInv
<1>5. CASE SyncBacklog
  BY <1>5, SyncStep
<1>6. ASSUME NEW id \in DOMAIN backlog, NEW status \in Decisions, DecideRow(id, status)
      PROVE  BehaviorInv'
  BY <1>6, DecideStep
<1>7. CASE DecideLogic \/ Kill
  BY <1>7 DEF DecideLogic, Kill, BehaviorInv
<1>8. CASE UNCHANGED vars
  BY <1>8 DEF vars, BehaviorInv
<1> QED  BY <1>1, <1>2, <1>3, <1>4, <1>5, <1>6, <1>7, <1>8 DEF Next

\* The rows are always those of snapshots, and what is presented is what the
\* last analysis found.
THEOREM BehaviorInvariant == Spec => []BehaviorInv
<1> QED  BY InitBehavior, BehaviorStep, PTL DEF Spec

\* Neither the merge of _sync_backlog nor finalize_hypothesis_store changes
\* the status of a row, whether its pattern is found again or not; a row that
\* is found keeps what was said of it.
THEOREM AnalysesKeepDecisions == Spec => DecisionsOutliveAnalyses
<1> DEFINE Keeps == \A id \in DOMAIN backlog :
                       /\ id \in DOMAIN backlog' /\ backlog'[id].status = backlog[id].status
                       /\ id \in Found(Now) => backlog'[id].epistemic = backlog[id].epistemic
<1>1. ASSUME BehaviorInv, [Next]_vars
      PROVE  [at.command # "none" => Keeps]_vars
  <2> SUFFICES ASSUME at.command # "none", Next PROVE Keeps
    BY <1>1
  <2>1. at # Idle
    <3>1. Idle.command = "none"
      BY DEF Idle
    <3> QED  BY <3>1
  <2>2. CASE SyncBacklog
    BY <2>2, <1>1, SyncStep
  <2>3. CASE WriteArtifact \/ WriteRules \/ WriteLogic \/ DecideLogic \/ Kill
    BY <2>3 DEF WriteArtifact, WriteRules, WriteLogic, DecideLogic, Kill
  <2> QED  BY <2>1, <2>2, <2>3 DEF Next, Import, Inventory, Build, Analyze, Start, DecideRow
<1>2. BehaviorInv /\ [Next]_vars => [at.command # "none" => Keeps]_vars
  BY <1>1
<1> HIDE DEF Keeps
<1>3. Spec => [][at.command # "none" => Keeps]_vars
  BY <1>2, BehaviorInvariant, PTL DEF Spec
<1> QED  BY <1>3 DEF Keeps, DecisionsOutliveAnalyses

\* Of a queue, the property
LEMMA QueueAsksOnce ==
    ASSUME NEW s \in Snapshots, QueueOf(s, backlog)
    PROVE  QueueAsksEachQuestionOnce
<1> DEFINE shown == {n \in DOMAIN backlog : backlog[n].visible}
           Key(n) == Content(n, backlog[n]).key
           analyses == {backlog[n].drafted : n \in shown}
<1>1. ASSUME NEW n \in shown
      PROVE  n \in Found(s) /\ BaseVisible(backlog[n]) /\ FromDraft(s, n, backlog[n])
  BY DEF QueueOf
<1>2. analyses \subseteq {s}
  BY <1>1 DEF FromDraft
<1>3. Cardinality(analyses) <= 1
  <2> HIDE DEF analyses
  <2>1. IsFiniteSet({s}) /\ Cardinality({s}) = 1
    BY FS_Singleton
  <2>2. Cardinality(analyses) <= Cardinality({s})
    BY <1>2, <2>1, FS_Subset
  <2> QED  BY <2>1, <2>2
<1>4. WellDrafted(Results[s])
  BY TableAssumption DEF Results
<1>5. \A n \in Found(s) : BaseVisible(backlog[n]) = BaseVisible(Results[s].drafts[n])
  BY DEF QueueOf, FromDraft, BaseVisible
<1>6. ASSUME NEW c \in Results[s].clusters
      PROVE  /\ Cardinality(c.members \cap shown) <= (IF c.shown THEN 1 ELSE 0)
             /\ c.shown => \E m \in shown : Key(m) = Results[s].drafts[c.representative].key
  <2> DEFINE both == c.members \cap shown
             r == c.representative
  <2>1. /\ r \in c.members /\ c.members \subseteq Found(s)
        /\ \A n \in c.members : BaseVisible(Results[s].drafts[n]) <=> c.shown /\ n = r
    BY <1>4 DEF WellDrafted, Found
  <2>2. \A n \in both : c.shown /\ n = r
    BY <1>1, <1>5, <2>1
  <2>3. CASE c.shown
    <3>1. both \subseteq {r}
      BY <2>2
    <3>2. IsFiniteSet({r}) /\ Cardinality({r}) = 1
      BY FS_Singleton
    <3>3. Cardinality(both) <= Cardinality({r})
      <4> HIDE DEF both
      <4> QED  BY <3>1, <3>2, FS_Subset
    <3>4. BaseVisible(backlog[r]) /\ r \in DOMAIN backlog
      BY <1>5, <2>1, <2>3 DEF QueueOf
    <3>5. PICK m \in DOMAIN backlog : /\ backlog[m].visible
                                      /\ Content(m, backlog[m]).key = Content(r, backlog[r]).key
      BY <3>4 DEF QueueOf
    <3>6. Content(r, backlog[r]) = Results[s].drafts[r]
      BY <2>1 DEF QueueOf, FromDraft, Content
    <3> QED  BY <2>3, <3>2, <3>3, <3>5, <3>6
  <2>4. CASE ~c.shown
    <3>1. both = {}
      BY <2>2, <2>4
    <3> QED  BY <2>4, <3>1, FS_EmptySet
  <2> QED  BY <2>3, <2>4
<1>7. \A t \in analyses : \A c \in Results[t].clusters :
         /\ Cardinality(c.members \cap shown) <= (IF c.shown THEN 1 ELSE 0)
         /\ c.shown => \E m \in shown : Key(m) = Results[t].drafts[c.representative].key
  <2> HIDE DEF analyses, shown, Key
  <2> QED  BY <1>2, <1>6
<1> QED  BY <1>3, <1>7 DEF QueueAsksEachQuestionOnce

\* What shows is of one analysis, one row at most of each of its clusters,
\* and for each cluster worth showing a row that asks its question.
THEOREM QuestionsAreAskedOnce == Spec => []QueueAsksEachQuestionOnce
<1>1. ASSUME DOMAIN backlog = {}
      PROVE  QueueAsksEachQuestionOnce
  <2>1. {backlog[n].drafted : n \in {m \in DOMAIN backlog : backlog[m].visible}} = {}
    BY <1>1
  <2> QED  BY <2>1, FS_EmptySet DEF QueueAsksEachQuestionOnce
<1>2. BehaviorInv => QueueAsksEachQuestionOnce
  BY <1>1, QueueAsksOnce DEF BehaviorInv
<1> QED  BY <1>2, BehaviorInvariant, PTL
=============================================================================

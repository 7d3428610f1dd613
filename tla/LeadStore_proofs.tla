-------------------------- MODULE LeadStore_proofs --------------------------
(***************************************************************************)
(* What LeadStore keeps for every set of e-mails, jobs, hosts, files and   *)
(* sheets.  The invariant adds to the types that the cached map is the     *)
(* catalog's or marked (Fresh), that a save waiting for its map still      *)
(* waits with an unknown e-mail and a seed of its own job (Building), that *)
(* snapshots of leads exist (Linked), that what a recomputation holds      *)
(* agrees with the table where nobody wrote (HeldRight), and that a score  *)
(* is right or held by every recomputation that can make scores count      *)
(* again (Scores).  Attribution needs one fact more, that no id ever stood *)
(* for two organisations (OneTitle).                                       *)
(***************************************************************************)
EXTENDS LeadStore, FiniteSetTheorems, WellFoundedInduction, TLAPS

-----------------------------------------------------------------------------
(* Least and greatest numbers *)

LEMMA Least ==
  ASSUME NEW S \in SUBSET Nat, S # {}
  PROVE  \E i \in S : \A j \in S : i <= j
<1> DEFINE R == {ss \in Nat \X Nat : ss[1] < ss[2]}
<1>1. IsWellFoundedOn(R, Nat)
  BY NatLessThanWellFounded DEF OpToRel
<1>2. \E x \in S : \A y \in S : ~(<<y, x>> \in R)
  <2> HIDE DEF R
  <2> QED
    BY <1>1, WFMin
<1>3. PICK x \in S : \A y \in S : ~(<<y, x>> \in R)
  BY <1>2
<1>4. \A y \in S : x <= y
  <2> SUFFICES ASSUME NEW y \in S PROVE x <= y
    OBVIOUS
  <2>1. ~(y < x)
    BY <1>3
  <2> QED
    BY <2>1
<1> QED
  BY <1>4

LEMMA Greatest ==
  ASSUME NEW n \in Nat, NEW S \in SUBSET (0..n), S # {}
  PROVE  /\ \E i \in S : \A j \in S : j <= i
         /\ Max(S) \in S /\ \A j \in S : j <= Max(S)
<1> DEFINE T == {n - i : i \in S}
<1>1. T \in SUBSET Nat /\ T # {}
  <2>1. \A i \in 0..n : n - i \in Nat
    OBVIOUS
  <2> QED
    BY <2>1
<1>2. PICK k \in T : \A j \in T : k <= j
  <2> HIDE DEF T
  <2> QED
    BY <1>1, Least
<1>3. PICK i \in S : k = n - i
  BY <1>2
<1>4. \A j \in S : j <= i
  <2> SUFFICES ASSUME NEW j \in S PROVE j <= i
    OBVIOUS
  <2>1. k <= n - j
    BY <1>2
  <2> QED
    BY <1>3, <2>1
<1>5. \E x \in S : \A y \in S : x >= y
  BY <1>4
<1>6. Max(S) \in S /\ \A y \in S : Max(S) >= y
  BY <1>5 DEF Max
<1> QED
  BY <1>4, <1>6

-----------------------------------------------------------------------------
(* The catalog *)

Numbered(n) == [id : 1..n, org : Orgs, cat : Cats, title : Titles, state : States,
                netloc : Hosts \cup {None}]

(* The netloc map holds rows of the catalog, with their ids. *)
LEMMA NetlocMapIs ==
  ASSUME NEW n \in Nat, NEW rows, rows \in [DOMAIN rows -> Domain], DOMAIN rows \subseteq 1..n
  PROVE  /\ NetlocMap(rows) \in [DOMAIN NetlocMap(rows) -> Numbered(n)]
         /\ \A h \in DOMAIN NetlocMap(rows) :
              \E i \in DOMAIN rows : NetlocMap(rows)[h] = WithId(rows[i], i)
<1> DEFINE ids(h) == {i \in DOMAIN rows : rows[i].netloc = h}
           nets   == {rows[i].netloc : i \in DOMAIN rows} \ {None}
           First(h) == CHOOSE i \in ids(h) : \A j \in ids(h) : i <= j
           map    == [h \in nets |-> WithId(rows[First(h)], First(h))]
<1>1. NetlocMap(rows) = map
  BY DEF NetlocMap
<1>2. ASSUME NEW h \in nets
      PROVE  First(h) \in DOMAIN rows
  <2>1. ids(h) \in SUBSET Nat /\ ids(h) # {}
    OBVIOUS
  <2>2. \E i \in ids(h) : \A j \in ids(h) : i <= j
    <3> HIDE DEF ids
    <3> QED
      BY <2>1, Least
  <2>3. First(h) \in ids(h)
    <3> HIDE DEF ids
    <3> QED
      BY <2>2
  <2> QED
    BY <2>3
<1>3. \A i \in DOMAIN rows : WithId(rows[i], i) \in Numbered(n)
  BY DEF WithId, Numbered, Domain
<1> HIDE DEF nets, First
<1> QED
  BY <1>1, <1>2, <1>3

(* A page belongs to an entry of the map or to none. *)
LEMMA ResolveIs ==
  ASSUME NEW host \in DOMAIN Up, NEW map
  PROVE  ResolveDomain(host, map) = None \/ \E h \in DOMAIN map : ResolveDomain(host, map) = map[h]
<1> DEFINE tried == {k \in DOMAIN Up[host] : \A j \in 1..k : Up[host][j] \notin Public}
           hits  == {k \in tried : Up[host][k] \in DOMAIN map}
           Best  == CHOOSE k \in hits : \A j \in hits : k <= j
<1>1. hits \in SUBSET Nat
  BY LeadAssumption
<1>2. CASE hits = {}
  BY <1>2 DEF ResolveDomain
<1>3. CASE hits # {}
  <2>1. \E k \in hits : \A j \in hits : k <= j
    <3> HIDE DEF hits
    <3> QED
      BY <1>1, <1>3, Least
  <2>2. Best \in hits
    <3> HIDE DEF hits
    <3> QED
      BY <2>1
  <2>3. Up[host][Best] \in DOMAIN map
    BY <2>2
  <2>4. ResolveDomain(host, map) = map[Up[host][Best]]
    BY <1>3 DEF ResolveDomain
  <2> QED
    BY <2>3, <2>4
<1> QED
  BY <1>2, <1>3

(* An import reads entries of its file, ... *)
LEMMA GatherIs ==
  ASSUME NEW f \in Files, NEW cats
  PROVE  /\ Gather(f, cats) \in [DOMAIN Gather(f, cats) -> Domain]
         /\ DOMAIN Gather(f, cats) \subseteq DOMAIN f
<1>1. \A k \in DOMAIN f : f[k] \in Entries
  BY DEF Entries
<1>2. \A e \in Entries : ResolveEntry(e) \in Domain
  BY LeadAssumption DEF ResolveEntry, Domain, Orgs, Cats, Titles, States
<1> QED
  BY <1>1, <1>2 DEF Gather

(* ... and what replaces the catalog is among what it read. *)
LEMMA DedupeIs ==
  ASSUME NEW n \in Nat, NEW es, es \in [DOMAIN es -> Domain], DOMAIN es \subseteq 1..n
  PROVE  /\ Dedupe(es) \in [DOMAIN Dedupe(es) -> Domain]
         /\ DOMAIN Dedupe(es) \subseteq DOMAIN es
<1> DEFINE same(k) == {j \in DOMAIN es : EntryKey(es, j) = EntryKey(es, k)}
           firsts  == {k \in DOMAIN es : \A j \in same(k) : k <= j}
           Latest(k) == CHOOSE j \in same(k) : \A i \in same(k) : i <= j
<1>1. Dedupe(es) = [k \in firsts |-> es[Latest(k)]]
  BY DEF Dedupe
<1>2. ASSUME NEW k \in DOMAIN es
      PROVE  Latest(k) \in DOMAIN es
  <2>1. same(k) \in SUBSET (0..n) /\ k \in same(k)
    OBVIOUS
  <2>2. \E j \in same(k) : \A i \in same(k) : i <= j
    <3> HIDE DEF same
    <3> QED
      BY <2>1, Greatest
  <2>3. Latest(k) \in same(k)
    <3> HIDE DEF same
    <3> QED
      BY <2>2
  <2> QED
    BY <2>3
<1>3. firsts \subseteq DOMAIN es
  OBVIOUS
<1> HIDE DEF firsts, Latest
<1> QED
  BY <1>1, <1>2, <1>3

(* A snapshot that exists is returned, never overwritten. *)
LEMMA GetOrInsertIs ==
  ASSUME NEW ss, NEW new
  PROVE  /\ GetOrInsert(ss, new) = [k \in DOMAIN GetOrInsert(ss, new) |-> GetOrInsert(ss, new)[k]]
         /\ DOMAIN GetOrInsert(ss, new) = DOMAIN ss \cup DOMAIN new
         /\ \A k \in DOMAIN ss : GetOrInsert(ss, new)[k] = ss[k]
         /\ \A k \in DOMAIN new \ DOMAIN ss : GetOrInsert(ss, new)[k] = new[k]
BY DEF GetOrInsert

LEMMA FrozenType ==
  ASSUME NEW d, d.org \in Orgs, d.cat \in Cats, d.title \in Titles, d.state \in States,
         d.netloc \in Hosts \cup {None}, NEW seed \in BOOLEAN
  PROVE  Frozen(d, seed) \in Snapshot /\ Frozen(d, seed).org = d.org
BY DEF Frozen, Snapshot

-----------------------------------------------------------------------------
(* Scores *)

Alike(l, m) == l.channel = m.channel /\ l.band = m.band /\ l.name = m.name

(* Nothing but the band, the name and the channel counts. *)
LEMMA ScoreIs ==
  ASSUME NEW w \in WeightSets, NEW l
  PROVE  /\ Score(l, w) \in Nat
         /\ \A m : Alike(l, m) => Score(l, w) = Score(m, w)
<1>1. w.high \in Nat /\ w.low \in Nat /\ w.name \in Nat
  BY LeadAssumption
<1>2. Score(l, w) \in Nat
  BY <1>1 DEF Score
<1>3. \A m : Alike(l, m) => Score(l, w) = Score(m, w)
  BY DEF Score, Alike
<1> QED
  BY <1>2, <1>3

LEMMA ScoredIs ==
  ASSUME NEW l \in Lead, weights \in WeightSets
  PROVE  /\ Scored(l) \in Lead /\ Scored(l).score = Score(Scored(l), weights)
         /\ \A x \in {"job", "snap", "host", "name", "dept", "band", "channel", "state"} : Scored(l)[x] = l[x]
<1>1. Score(l, weights) \in Nat
  BY ScoreIs
<1> DEFINE n == Score(l, weights)
           m == [l EXCEPT !.score = n]
<1>2. Scored(l) = m
  BY DEF Scored
<1>3. m \in Lead /\ m.score = n /\ \A x \in {"job", "snap", "host", "name", "dept", "band", "channel", "state"} : m[x] = l[x]
  <2> HIDE DEF n
  <2> QED
    BY <1>1 DEF n, Lead
<1>4. Alike(l, m)
  BY <1>3 DEF Alike
<1> HIDE DEF m
<1>5. Score(l, weights) = Score(m, weights)
  BY <1>4, ScoreIs
<1> QED
  BY <1>2, <1>3, <1>5

-----------------------------------------------------------------------------
(* Leads *)

(* What captures, uploads and edits make of a lead *)
Filling(l, n, d, b) == [l EXCEPT !.name = n, !.dept = d, !.band = b]

LEMMA Filled ==
  ASSUME NEW l \in Lead, NEW n \in Names \cup {None}, NEW d \in {f.dept : f \in Finds} \cup Orgs \cup {None},
         NEW b \in {"HIGH", "LOW", None}
  PROVE  LET m == Filling(l, n, d, b)
         IN  /\ m \in Lead /\ m.name = n /\ m.dept = d /\ m.band = b
             /\ \A x \in {"job", "snap", "host", "channel"} : m[x] = l[x]
<1> DEFINE l1 == [l EXCEPT !.name = n]
<1>1. l1 \in Lead /\ l1.name = n /\ \A x \in {"job", "snap", "host", "channel"} : l1[x] = l[x]
  BY DEF Lead
<1> HIDE DEF l1
<1> DEFINE l2 == [l1 EXCEPT !.dept = d]
<1>2. l2 \in Lead /\ l2.name = n /\ l2.dept = d /\ \A x \in {"job", "snap", "host", "channel"} : l2[x] = l[x]
  BY <1>1 DEF Lead
<1> HIDE DEF l2
<1> DEFINE l3 == [l2 EXCEPT !.band = b]
<1>3. l3 \in Lead /\ l3.name = n /\ l3.dept = d /\ l3.band = b /\ \A x \in {"job", "snap", "host", "channel"} : l3[x] = l[x]
  BY <1>2 DEF Lead
<1>4. l3 = Filling(l, n, d, b)
  BY DEF l2, l1, Filling
<1> QED
  BY <1>3, <1>4

LEMMA RankType ==
  ASSUME NEW b
  PROVE  Rank(b) \in Int
BY DEF Rank

LEMMA EnrichIs ==
  ASSUME NEW l \in Lead, NEW c \in Capture, weights \in WeightSets, NEW m, m = Enrich(l, c)
  PROVE  /\ m \in Lead /\ (m = l \/ m.score = Score(m, weights))
         /\ \A x \in {"job", "snap", "host", "channel"} : m[x] = l[x]
         /\ \A x \in {"name", "dept"} : l[x] # None => m[x] = l[x]
         /\ Rank(m.band) >= Rank(l.band)
<1> DEFINE n == Fill(l.name, c.name)
           d == Fill(l.dept, c.dept)
           b == IF Rank(c.band) > Rank(l.band) THEN c.band ELSE l.band
           k == Filling(l, n, d, b)
<1>1. /\ n \in Names \cup {None} /\ d \in {f.dept : f \in Finds} \cup Orgs \cup {None}
      /\ b \in {"HIGH", "LOW", None}
  BY DEF Fill, Lead, Capture
<1>2. /\ l.name # None => n = l.name
      /\ l.dept # None => d = l.dept
      /\ Rank(b) >= Rank(l.band)
  BY RankType DEF Fill
<1>3. Enrich(l, c) = IF k = l THEN l ELSE Scored(k)
  BY DEF Enrich, Filling
<1> HIDE DEF n, d, b
<1>4. /\ k \in Lead /\ k.name = n /\ k.dept = d /\ k.band = b
      /\ \A x \in {"job", "snap", "host", "channel"} : k[x] = l[x]
  BY <1>1, Filled
<1> HIDE DEF k
<1>5. CASE k = l
  BY <1>3, <1>5, RankType
<1>6. CASE k # l
  <2>1. m = Scored(k)
    BY <1>3, <1>6
  <2> QED
    BY <1>2, <1>4, <2>1, ScoredIs
<1> QED
  BY <1>5, <1>6

LEMMA EditIs ==
  ASSUME NEW l \in Lead, NEW n \in Names \cup {None}, NEW st \in {None, "somewhere"},
         weights \in WeightSets, NEW m, m = Edit(l, n, st)
  PROVE  /\ m \in Lead /\ (m = l \/ m.score = Score(m, weights))
         /\ \A x \in {"job", "snap", "host", "channel"} : m[x] = l[x]
<1> DEFINE s == Fill(st, l.state)
           k == [l EXCEPT !.name = n, !.state = s]
<1>1. Edit(l, n, st) = IF st # None /\ l.channel # "manual" THEN l ELSE Scored(k)
  BY DEF Edit
<1>2. s \in {"somewhere", None}
  BY DEF Fill, Lead
<1> HIDE DEF s
<1>3. k \in Lead /\ \A x \in {"job", "snap", "host", "channel"} : k[x] = l[x]
  <2> DEFINE l1 == [l EXCEPT !.name = n]
  <2>1. l1 \in Lead /\ \A x \in {"job", "snap", "host", "channel"} : l1[x] = l[x]
    BY DEF Lead
  <2> HIDE DEF l1
  <2> DEFINE l2 == [l1 EXCEPT !.state = s]
  <2>2. l2 \in Lead /\ \A x \in {"job", "snap", "host", "channel"} : l2[x] = l[x]
    BY <1>2, <2>1 DEF Lead
  <2>3. l2 = k
    BY DEF l1
  <2> QED
    BY <2>2, <2>3
<1> HIDE DEF k
<1> QED
  BY <1>1, <1>3, ScoredIs

LEMMA UpsertRowIs ==
  ASSUME NEW l \in Lead \cup {None}, NEW row \in [email : Emails, name : Names \cup {None}],
         weights \in WeightSets, NEW m, m = UpsertRow(l, row)
  PROVE  /\ m \in Lead /\ (m = l \/ m.score = Score(m, weights))
         /\ l = None => m.channel = "manual" /\ m.snap = None
         /\ l # None => \A x \in {"job", "snap", "host", "channel"} : m[x] = l[x]
         /\ l # None /\ l.channel # "manual" => m = l
<1>1. CASE l = None
  <2>1. m = NewManual(row)
    BY <1>1 DEF UpsertRow
  <2>2. m \in Lead /\ m.channel = "manual" /\ m.snap = None /\ m.score = 0
    BY <2>1 DEF NewManual, Lead
  <2> QED
    BY <1>1, <2>2 DEF Score
<1>2. CASE l # None /\ l.channel = "manual"
  <2> DEFINE n == Fill(row.name, l.name)
             k == [l EXCEPT !.name = n]
  <2>1. m = Scored(k)
    BY <1>2 DEF UpsertRow
  <2>2. n \in Names \cup {None}
    BY <1>2 DEF Fill, Lead
  <2> HIDE DEF n
  <2>3. k \in Lead /\ \A x \in {"job", "snap", "host", "channel"} : k[x] = l[x]
    BY <1>2, <2>2 DEF Lead
  <2> HIDE DEF k
  <2> QED
    BY <1>2, <2>1, <2>3, ScoredIs
<1>3. CASE l # None /\ l.channel # "manual"
  BY <1>3 DEF UpsertRow
<1> QED
  BY <1>1, <1>2, <1>3

-----------------------------------------------------------------------------
(* The inductive invariant *)

(* A map in use that was not built across an import is the catalog's, and   *)
(* while one is being built there is none.                                  *)
Fresh ==
  /\ build # None => cache = None
  /\ cache # None /\ ~crossed /\ imp.pc # "committed" => cache = NetlocMap(domains)

(* A capture comes with a seed of its own job. *)
OwnSeed(c) == c.snap # None => c.snap \in DOMAIN snaps /\ c.snap[1] = c.job

(* The e-mail a save waits with is still unknown. *)
Building == build # None => leads[build.capture.email] = None /\ OwnSeed(build.capture)

Linked ==
  \A e \in Saved :
    leads[e].snap # None => leads[e].channel = "crawl" /\ leads[e].snap \in DOMAIN snaps

(* What a recomputation holds agrees with the table and the weights, where   *)
(* nobody has changed them since.                                           *)
HeldRight ==
  \A r \in Recomputes : \A e \in Emails :
    /\ readRows[r][e] # None =>
         leads[e] # None /\ (e \in shaken[r] \/ Alike(readRows[r][e], leads[e]))
    /\ newScores[r][e] # None =>
         leads[e] # None /\ (e \in shaken[r] \/ newScores[r][e] = Score(leads[e], weights))

Right(e) == leads[e].score = Score(leads[e], weights)

(* Once a recomputation that read the rows after the last change of the      *)
(* weights has committed every score is right; before, it is or every such   *)
(* recomputation holds the lead.                                            *)
Scores ==
  \A e \in Saved \ outdated :
    /\ rescored => Right(e)
    /\ \A r \in began : e \in Held(r) \/ Right(e)

IInv == TypeOK /\ Fresh /\ Building /\ Linked /\ HeldRight /\ Scores

-----------------------------------------------------------------------------
(* What the handlers do to leads and snapshots *)

SnapsGrow ==
  /\ snaps' \in [DOMAIN snaps' -> Snapshot] /\ DOMAIN snaps' \subseteq Jobs \X (1..lastId)
  /\ \A k \in DOMAIN snaps : k \in DOMAIN snaps' /\ snaps'[k] = snaps[k]

(* The row that a new lead becomes *)
Row(c, s, ss) ==
  Scored([job |-> c.job, snap |-> s, host |-> c.host, name |-> c.name,
          dept |-> Department(c, s, ss), band |-> c.band,
          channel |-> "crawl", state |-> None, score |-> 0])

LEMMA RowIs ==
  ASSUME NEW c \in Capture, weights \in WeightSets, NEW ss, ss \in [DOMAIN ss -> Snapshot],
         NEW s \in SnapId \cup {None}, s # None => s \in DOMAIN ss
  PROVE  /\ Row(c, s, ss) \in Lead /\ Row(c, s, ss).score = Score(Row(c, s, ss), weights)
         /\ Row(c, s, ss).snap = s /\ Row(c, s, ss).host = c.host /\ Row(c, s, ss).channel = "crawl"
<1> DEFINE dept == Department(c, s, ss)
           l == [job |-> c.job, snap |-> s, host |-> c.host, name |-> c.name,
                 dept |-> dept, band |-> c.band,
                 channel |-> "crawl", state |-> None, score |-> 0]
<1>1. dept \in {f.dept : f \in Finds} \cup Orgs \cup {None}
  BY DEF Department, Capture, Snapshot
<1>2. Row(c, s, ss) = Scored(l)
  BY DEF Row
<1> HIDE DEF dept
<1>3. l \in Lead /\ l.snap = s /\ l.host = c.host /\ l.channel = "crawl"
  BY <1>1 DEF Lead, Capture
<1> HIDE DEF l
<1> QED
  BY <1>2, <1>3, ScoredIs

(* save_lead, for an unknown e-mail *)
LEMMA InsertLeadIs ==
  ASSUME TypeOK, NEW c \in Capture, OwnSeed(c), NEW map, map \in [DOMAIN map -> Numbered(lastId)],
         InsertLead(c, map)
  PROVE  LET d == ResolveDomain(c.host, map)
             s == IF d = None THEN None ELSE <<c.job, d.id>>
         IN  /\ SnapsGrow
             /\ Row(c, s, snaps') \in Lead /\ Write(c.email, Row(c, s, snaps'))
             /\ s # None => s \in DOMAIN snaps'
             /\ d # None => s # None /\ \E h \in DOMAIN map : d = map[h]
             /\ \A k \in DOMAIN snaps' \ DOMAIN snaps :
                  d # None /\ k = <<c.job, d.id>> /\ snaps'[k].org = d.org
<1> DEFINE d == ResolveDomain(c.host, map)
           s == IF d = None THEN None ELSE <<c.job, d.id>>
           new == CreateSnapshot(snaps, c.job, d, FALSE)
           Kept == d = None \/ (c.snap # None /\ c.snap[2] = d.id)
<1>1. /\ snaps' = IF Kept THEN snaps ELSE new
      /\ Write(c.email, Row(c, s, snaps'))
  BY DEF InsertLead, Row
<1>2. /\ snaps \in [DOMAIN snaps -> Snapshot] /\ DOMAIN snaps \subseteq Jobs \X (1..lastId)
      /\ lastId \in Nat /\ weights \in WeightSets
  BY DEF TypeOK
<1>3. d = None \/ \E h \in DOMAIN map : d = map[h]
  BY ResolveIs DEF Capture
<1>4. d # None => d \in Numbered(lastId)
  BY <1>3
<1> HIDE DEF d
<1>5. d # None => /\ <<c.job, d.id>> \in Jobs \X (1..lastId) /\ Frozen(d, FALSE) \in Snapshot
                  /\ Frozen(d, FALSE).org = d.org
  BY <1>4, FrozenType DEF Numbered, Capture
<1> DEFINE Done(ss) ==
             /\ ss \in [DOMAIN ss -> Snapshot] /\ DOMAIN ss \subseteq Jobs \X (1..lastId)
             /\ \A k \in DOMAIN snaps : k \in DOMAIN ss /\ ss[k] = snaps[k]
             /\ d # None => <<c.job, d.id>> \in DOMAIN ss
             /\ \A k \in DOMAIN ss \ DOMAIN snaps :
                  d # None /\ k = <<c.job, d.id>> /\ ss[k].org = d.org
<1>6. Kept => Done(snaps)
  <2> SUFFICES ASSUME Kept, d # None PROVE <<c.job, d.id>> \in DOMAIN snaps
    BY <1>2
  <2>1. c.snap \in DOMAIN snaps /\ c.snap[1] = c.job /\ c.snap[2] = d.id
    BY DEF OwnSeed
  <2>2. c.snap = <<c.snap[1], c.snap[2]>>
    BY <1>2, <2>1
  <2> QED
    BY <2>1, <2>2
<1>7. ~Kept => Done(new)
  <2> SUFFICES ASSUME d # None PROVE Done(new)
    OBVIOUS
  <2> DEFINE key == <<c.job, d.id>>
             row == Frozen(d, FALSE)
             dom == DOMAIN snaps \cup {key}
  <2>1. new = [k \in dom |-> IF k \in DOMAIN snaps THEN snaps[k] ELSE row]
    BY DEF CreateSnapshot, GetOrInsert
  <2>5. row \in Snapshot /\ key \in Jobs \X (1..lastId) /\ row.org = d.org
    BY <1>5
  <2> HIDE DEF new, key, row
  <2>2. /\ new \in [DOMAIN new -> Snapshot] /\ DOMAIN new = DOMAIN snaps \cup {key}
        /\ \A k \in DOMAIN snaps : new[k] = snaps[k]
        /\ key \notin DOMAIN snaps => new[key] = row
    BY <1>2, <2>1, <2>5
  <2>4. \A k \in DOMAIN new \ DOMAIN snaps : k = key /\ new[k].org = d.org
    BY <2>5, <2>2
  <2> QED
    BY <1>2, <2>5, <2>2, <2>4 DEF key
<1>8. Done(snaps')
  BY <1>1, <1>6, <1>7
<1> HIDE DEF new, Kept
<1>9. s \in SnapId \cup {None} /\ (d # None => s # None) /\ (s # None => s \in DOMAIN snaps')
  BY <1>5, <1>8, LeadAssumption DEF SnapId
<1> HIDE DEF s
<1>10. Row(c, s, snaps') \in Lead
  BY <1>2, <1>8, <1>9, RowIs
<1>11. SnapsGrow
  BY <1>8 DEF SnapsGrow
<1> HIDE DEF Done
<1>12. \A k \in DOMAIN snaps' \ DOMAIN snaps : d # None /\ k = <<c.job, d.id>> /\ snaps'[k].org = d.org
  BY <1>8 DEF Done
<1> QED
  BY <1>1, <1>3, <1>9, <1>10, <1>11, <1>12 DEF s, d

(* Leads are written with the score that the weights in force give them,    *)
(* and remembered where a recomputation still holds what they were.         *)
ShakenGrow ==
  /\ outdated' \subseteq Emails /\ shaken' \in [Recomputes -> SUBSET Emails]
  /\ \A r \in Recomputes : shaken[r] \subseteq shaken'[r]

LeadsWritten ==
  /\ leads' \in [Emails -> Lead \cup {None}] /\ ShakenGrow
  /\ \A e \in Emails :
       /\ leads'[e] = leads[e] => (e \in outdated => e \in outdated')
       /\ leads'[e] # leads[e] =>
            /\ leads'[e] # None /\ leads'[e].score = Score(leads'[e], weights)
            /\ \A r \in Recomputes : e \in Held(r) => e \in shaken'[r]

(* Where a lead came from stays. *)
OriginsStay ==
  \A e \in Saved : leads'[e] # None /\ \A x \in {"job", "snap", "host", "channel"} : leads'[e][x] = leads[e][x]

(* A crawled lead only gets better. *)
Improved ==
  \A e \in Saved : ~Manual(e) =>
    /\ \A x \in {"name", "dept"} : leads[e][x] # None => leads'[e][x] = leads[e][x]
    /\ Rank(leads'[e].band) >= Rank(leads[e].band)

NewLinked ==
  \A e \in Emails \ Saved :
    leads'[e] # None /\ leads'[e].snap # None => leads'[e].channel = "crawl" /\ leads'[e].snap \in DOMAIN snaps'

Written == LeadsWritten /\ SnapsGrow /\ OriginsStay /\ NewLinked

LEMMA RewrittenIs ==
  ASSUME TypeOK, NEW E \in SUBSET Emails, Rewritten(E)
  PROVE  /\ ShakenGrow
         /\ \A e \in outdated \ E : e \in outdated'
         /\ \A r \in Recomputes : \A e \in E : e \in Held(r) => e \in shaken'[r]
<1>1. /\ outdated \subseteq Emails /\ shaken \in [Recomputes -> SUBSET Emails]
      /\ outdated' = outdated \ E
      /\ shaken' = [r \in Recomputes |-> shaken[r] \cup (E \cap Held(r))]
  BY DEF TypeOK, Rewritten
<1> QED
  BY <1>1 DEF ShakenGrow

LEMMA WriteIs ==
  ASSUME TypeOK, NEW e \in Emails, NEW l \in Lead, l = leads[e] \/ l.score = Score(l, weights), Write(e, l)
  PROVE  LeadsWritten /\ leads'[e] = l /\ \A x \in Emails \ {e} : leads'[x] = leads[x]
<1>1. leads \in [Emails -> Lead \cup {None}] /\ l # None
  BY LeadAssumption DEF TypeOK
<1>2. /\ leads' \in [Emails -> Lead \cup {None}] /\ leads'[e] = l
      /\ \A x \in Emails \ {e} : leads'[x] = leads[x]
  BY <1>1 DEF Write
<1>3. PICK E \in SUBSET Emails : E = (IF l = leads[e] THEN {} ELSE {e}) /\ Rewritten(E)
  BY DEF Write
<1>4. /\ ShakenGrow
      /\ \A x \in outdated \ E : x \in outdated'
      /\ \A r \in Recomputes : \A x \in E : x \in Held(r) => x \in shaken'[r]
  BY <1>3, RewrittenIs
<1>5. \A x \in Emails : x \in E <=> leads'[x] # leads[x]
  BY <1>2, <1>3
<1> QED
  BY <1>1, <1>2, <1>4, <1>5 DEF LeadsWritten

LEMMA SnapsKept ==
  ASSUME TypeOK, UNCHANGED snaps
  PROVE  SnapsGrow
BY DEF TypeOK, SnapsGrow

LEMMA CapturesAre ==
  ASSUME TypeOK, NEW c \in Captures
  PROVE  c \in Capture /\ (c.snap # None => c.snap \in DOMAIN snaps)
<1>1. PICK f \in Finds, j \in Jobs, e \in Emails, s \in (UNION {SeedsOf(i) : i \in Jobs}) \cup {None} :
        c = [host |-> f.host, name |-> f.name, dept |-> f.dept, band |-> f.band,
             job |-> j, email |-> e, snap |-> s]
  BY DEF Captures
<1>2. s # None => s \in DOMAIN snaps
  <2> SUFFICES ASSUME s # None PROVE s \in DOMAIN snaps
    OBVIOUS
  <2>1. PICK i \in Jobs : s \in SeedsOf(i)
    OBVIOUS
  <2> QED
    BY <2>1 DEF SeedsOf
<1>3. s \in SnapId \cup {None}
  BY <1>2 DEF TypeOK, SnapId
<1>4. /\ f.host \in DOMAIN Up /\ f.name \in Names \cup {None} /\ f.band \in {"HIGH", "LOW", None}
      /\ f.dept \in {g.dept : g \in Finds} /\ f.band \in {"HIGH", "LOW"}
  BY LeadAssumption
<1> QED
  BY <1>1, <1>2, <1>3, <1>4 DEF Capture

LEMMA MapType ==
  ASSUME TypeOK, cache # None
  PROVE  cache \in [DOMAIN cache -> Numbered(lastId)]
BY DEF TypeOK, Numbered

(* A new e-mail *)
LEMMA Inserted ==
  ASSUME TypeOK, NEW c \in Capture, OwnSeed(c), NEW map, map \in [DOMAIN map -> Numbered(lastId)],
         InsertLead(c, map), leads[c.email] = None
  PROVE  Written /\ Improved
<1> DEFINE d == ResolveDomain(c.host, map)
           s == IF d = None THEN None ELSE <<c.job, d.id>>
           l == Row(c, s, snaps')
<1>1. /\ SnapsGrow /\ l \in Lead /\ Write(c.email, l) /\ (s # None => s \in DOMAIN snaps')
      /\ (d # None => s # None)
      /\ \A k \in DOMAIN snaps' \ DOMAIN snaps :
            d # None /\ k = <<c.job, d.id>> /\ snaps'[k].org = d.org
  BY InsertLeadIs
<1> HIDE DEF s
<1>2. s \in SnapId \cup {None}
  <2>1. DOMAIN snaps' \subseteq Jobs \X (1..lastId) /\ lastId \in Nat
    BY <1>1 DEF SnapsGrow, TypeOK
  <2> QED
    BY <1>1, <2>1 DEF SnapId
<1>3. l.score = Score(l, weights) /\ l.snap = s /\ l.channel = "crawl"
  BY <1>1, <1>2, RowIs DEF SnapsGrow, TypeOK
<1> HIDE DEF l
<1>4. c.email \in Emails
  BY DEF Capture
<1>5. LeadsWritten /\ leads'[c.email] = l /\ \A x \in Emails \ {c.email} : leads'[x] = leads[x]
  BY <1>1, <1>3, <1>4, WriteIs
<1>6. \A e \in Saved : leads'[e] = leads[e] /\ leads[e] # None
  BY <1>5 DEF Saved
<1>7. \A e \in Emails \ Saved : leads'[e] # None => leads'[e] = l
  BY <1>5 DEF Saved
<1>8. OriginsStay /\ Improved
  BY <1>6, RankType DEF OriginsStay, Improved
<1>9. NewLinked
  BY <1>1, <1>3, <1>7 DEF NewLinked
<1> QED
  BY <1>1, <1>5, <1>8, <1>9 DEF Written

LEMMA SaveLeadDoes ==
  ASSUME TypeOK, SaveLead
  PROVE  Written /\ Improved
<1>1. PICK c \in Captures :
        /\ c.snap # None => c.snap[1] = c.job
        /\ RecordOccurrence(c.email, c.job)
        /\ SaveKnown(c) \/ (leads[c.email] = None /\ cache # None /\ InsertLead(c, cache))
  BY DEF SaveLead
<1>2. c \in Capture /\ OwnSeed(c)
  BY <1>1, CapturesAre DEF OwnSeed
<1>3. CASE SaveKnown(c)
  <2> DEFINE l == leads[c.email]
             m == Enrich(l, c)
  <2>1. l \in Lead /\ l # None /\ Write(c.email, m) /\ UNCHANGED snaps /\ c.email \in Emails /\ weights \in WeightSets
    BY <1>2, <1>3 DEF SaveKnown, TypeOK, Capture
  <2>2. /\ m \in Lead /\ (m = l \/ m.score = Score(m, weights))
        /\ \A x \in {"job", "snap", "host", "channel"} : m[x] = l[x]
        /\ \A x \in {"name", "dept"} : l[x] # None => m[x] = l[x]
        /\ Rank(m.band) >= Rank(l.band)
    BY <1>2, <2>1, EnrichIs
  <2> HIDE DEF m
  <2>3. LeadsWritten /\ leads'[c.email] = m /\ \A x \in Emails \ {c.email} : leads'[x] = leads[x]
    BY <2>1, <2>2, WriteIs
  <2>4. m # None
    BY <2>2, LeadAssumption
  <2>5. OriginsStay
    BY <2>2, <2>3, <2>4 DEF OriginsStay, Saved
  <2>6. Improved
    BY <2>2, <2>3, RankType DEF Improved, Saved
  <2>7. NewLinked
    BY <2>1, <2>3 DEF NewLinked, Saved
  <2> QED
    BY <2>1, <2>3, <2>5, <2>6, <2>7, SnapsKept DEF Written
<1>4. CASE leads[c.email] = None /\ cache # None /\ InsertLead(c, cache)
  BY <1>2, <1>4, Inserted, MapType
<1> QED
  BY <1>1, <1>3, <1>4

LEMMA FinishBuildDoes ==
  ASSUME TypeOK, Building, FinishBuild
  PROVE  Written /\ Improved
<1>1. /\ build # None /\ build.capture \in Capture /\ OwnSeed(build.capture)
      /\ leads[build.capture.email] = None /\ IsCatalog(build.rows) /\ lastId \in Nat
      /\ InsertLead(build.capture, NetlocMap(build.rows))
  BY DEF FinishBuild, TypeOK, Building
<1> DEFINE map == NetlocMap(build.rows)
<1>2. map \in [DOMAIN map -> Numbered(lastId)]
  BY <1>1, NetlocMapIs DEF IsCatalog
<1> HIDE DEF map
<1>3. InsertLead(build.capture, map)
  BY <1>1 DEF map
<1> QED
  BY <1>1, <1>2, <1>3, Inserted

LEMMA UpdateLeadDoes ==
  ASSUME TypeOK, UpdateLead
  PROVE  Written
<1>1. PICK e \in Emails, n \in Names \cup {None}, st \in {None, "somewhere"} :
        leads[e] # None /\ Write(e, Edit(leads[e], n, st)) /\ UNCHANGED snaps
  BY DEF UpdateLead
<1> DEFINE l == leads[e]
           m == Edit(l, n, st)
<1>2. l \in Lead /\ weights \in WeightSets
  BY <1>1 DEF TypeOK
<1>3. /\ m \in Lead /\ (m = l \/ m.score = Score(m, weights))
      /\ \A x \in {"job", "snap", "host", "channel"} : m[x] = l[x]
  BY <1>2, EditIs
<1>4. Write(e, m)
  BY <1>1
<1> HIDE DEF m
<1>5. LeadsWritten /\ leads'[e] = m /\ \A x \in Emails \ {e} : leads'[x] = leads[x]
  BY <1>3, <1>4, WriteIs
<1>6. m # None
  BY <1>3, LeadAssumption
<1>7. OriginsStay
  BY <1>3, <1>5, <1>6 DEF OriginsStay, Saved
<1>8. NewLinked
  BY <1>1, <1>5 DEF NewLinked, Saved
<1> QED
  BY <1>1, <1>5, <1>7, <1>8, SnapsKept DEF Written

(* parse_contacts_csv: rows are lines with an address *)
LEMMA ContactsAre ==
  ASSUME NEW sheet \in Sheets
  PROVE  ParseContacts(sheet) \subseteq [email : Emails, name : Names \cup {None}]
<1> DEFINE R == [email : Emails \cup {None}, name : Names \cup {None}]
<1>1. sheet \in Seq(R)
  BY LeadAssumption
<1>2. \A k \in DOMAIN sheet : sheet[k] \in R
  <2> HIDE DEF R
  <2> QED
    BY <1>1
<1>3. \A row \in ParseContacts(sheet) : \E k \in DOMAIN sheet : row = sheet[k] /\ sheet[k].email # None
  BY DEF ParseContacts
<1> QED
  BY <1>2, <1>3

LEMMA ImportCsvDoes ==
  ASSUME TypeOK, ImportCsv
  PROVE  /\ Written /\ Improved
         /\ \A e \in Emails \ Saved : leads'[e] # None => leads'[e].channel = "manual"
<1>1. PICK sheet \in Sheets :
       LET rows  == ParseContacts(sheet)
           Rows(e) == {row \in rows : row.email = e}
           new   == [e \in Emails |-> IF Rows(e) = {} THEN leads[e]
                                      ELSE UpsertRow(leads[e], CHOOSE row \in Rows(e) : TRUE)]
           hit   == {e \in Emails : Rows(e) # {}}
       IN  leads' = new /\ Rewritten({e \in hit : new[e] # leads[e]})
  BY DEF ImportCsv
<1> DEFINE Rows(e) == {row \in ParseContacts(sheet) : row.email = e}
           Line(e) == CHOOSE row \in Rows(e) : TRUE
           changed == {e \in Emails : Rows(e) # {} /\ leads'[e] # leads[e]}
<1>2. /\ leads' = [e \in Emails |-> IF Rows(e) = {} THEN leads[e] ELSE UpsertRow(leads[e], Line(e))]
      /\ Rewritten(changed)
  <2>1. /\ leads' = [e \in Emails |-> IF Rows(e) = {} THEN leads[e] ELSE UpsertRow(leads[e], Line(e))]
        /\ Rewritten({e \in {x \in Emails : Rows(x) # {}} : leads'[e] # leads[e]})
    BY <1>1
  <2>2. {e \in {x \in Emails : Rows(x) # {}} : leads'[e] # leads[e]} = changed
    OBVIOUS
  <2> HIDE DEF changed, Rows
  <2> QED
    BY <2>1, <2>2
<1>3. leads \in [Emails -> Lead \cup {None}] /\ weights \in WeightSets /\ UNCHANGED snaps
  BY DEF TypeOK, ImportCsv
<1>4. ASSUME NEW e \in Emails, Rows(e) # {}
      PROVE  /\ leads'[e] \in Lead /\ (leads'[e] = leads[e] \/ leads'[e].score = Score(leads'[e], weights))
             /\ leads[e] = None => leads'[e].channel = "manual" /\ leads'[e].snap = None
             /\ leads[e] # None => \A x \in {"job", "snap", "host", "channel"} : leads'[e][x] = leads[e][x]
             /\ leads[e] # None /\ leads[e].channel # "manual" => leads'[e] = leads[e]
  <2>1. Line(e) \in Rows(e)
    BY <1>4
  <2>2. Line(e) \in [email : Emails, name : Names \cup {None}]
    BY <2>1, ContactsAre
  <2>3. leads'[e] = UpsertRow(leads[e], Line(e))
    BY <1>2, <1>4
  <2> HIDE DEF Line
  <2> QED
    BY <1>3, <2>2, <2>3, UpsertRowIs
<1>5. \A e \in Emails : Rows(e) = {} => leads'[e] = leads[e]
  BY <1>2
<1>6. DOMAIN leads' = Emails /\ leads' = [e \in Emails |-> leads'[e]]
  BY <1>2
<1>7. /\ ShakenGrow
      /\ \A e \in outdated \ changed : e \in outdated'
      /\ \A r \in Recomputes : \A e \in changed : e \in Held(r) => e \in shaken'[r]
  <2>1. changed \in SUBSET Emails
    OBVIOUS
  <2> HIDE DEF changed
  <2> QED
    BY <1>2, <2>1, RewrittenIs
<1> HIDE DEF Rows
<1>8. \A e \in Emails : leads'[e] \in Lead \cup {None} /\ (leads'[e] = None => leads[e] = None)
  BY <1>3, <1>4, <1>5, LeadAssumption
<1>9. LeadsWritten
  <2>1. leads' \in [Emails -> Lead \cup {None}]
    BY <1>6, <1>8
  <2> QED
    BY <1>4, <1>5, <1>7, <1>8, <2>1, LeadAssumption DEF LeadsWritten
<1>10. OriginsStay
  BY <1>4, <1>5, <1>8 DEF OriginsStay, Saved
<1>11. Improved
  BY <1>4, <1>5, RankType DEF Improved, Saved, Manual
<1>12. NewLinked
  BY <1>4, <1>5 DEF NewLinked, Saved
<1>13. \A e \in Emails \ Saved : leads'[e] # None => leads'[e].channel = "manual"
  BY <1>4, <1>5 DEF Saved
<1> QED
  BY <1>3, <1>9, <1>10, <1>11, <1>12, <1>13, SnapsKept DEF Written

(* SeedJob freezes the seeds of a job that has none. *)
LEMMA SeedJobDoes ==
  ASSUME TypeOK, SeedJob
  PROVE  SnapsGrow
<1>1. PICK j \in Jobs, S \in SUBSET {i \in DOMAIN domains : domains[i].netloc # None} :
        snaps' = GetOrInsert(snaps, [k \in {j} \X S |-> Frozen(domains[k[2]], TRUE)])
  BY DEF SeedJob
<1>2. /\ DOMAIN domains \subseteq 1..lastId /\ \A i \in DOMAIN domains : domains[i] \in Domain
      /\ snaps \in [DOMAIN snaps -> Snapshot] /\ DOMAIN snaps \subseteq Jobs \X (1..lastId)
  BY DEF TypeOK, IsCatalog
<1> DEFINE keys == {j} \X S
           dom == DOMAIN snaps \cup keys
           row(k) == Frozen(domains[k[2]], TRUE)
<1>3. snaps' = [k \in dom |-> IF k \in DOMAIN snaps THEN snaps[k] ELSE row(k)]
  BY <1>1 DEF GetOrInsert
<1>4. keys \subseteq Jobs \X (1..lastId)
  BY <1>2
<1>5. ASSUME NEW k \in keys PROVE row(k) \in Snapshot
  <2>1. k[2] \in DOMAIN domains
    OBVIOUS
  <2>2. domains[k[2]] \in Domain
    BY <1>2, <2>1
  <2> QED
    BY <2>2 DEF Frozen, Snapshot, Domain
<1> HIDE DEF keys, row
<1> QED
  BY <1>2, <1>3, <1>4, <1>5 DEF SnapsGrow

-----------------------------------------------------------------------------
(* What a recomputation does *)

RowsT   == readRows \in [Recomputes -> [Emails -> Lead \cup {None}]]
ScoresT == newScores \in [Recomputes -> [Emails -> Nat \cup {None}]]

(* It forgets what it holds when it ends. *)
LEMMA EndedIs ==
  ASSUME TypeOK, NEW r \in Recomputes, Ended(r)
  PROVE  /\ phase' \in [Recomputes -> {"idle", "queued", "scoring"}]
         /\ RowsT' /\ ScoresT' /\ began' \subseteq began \ {r}
         /\ shaken' \in [Recomputes -> SUBSET Emails]
         /\ \A e \in Emails : readRows'[r][e] = None /\ newScores'[r][e] = None
         /\ \A q \in Recomputes \ {r} :
              readRows'[q] = readRows[q] /\ newScores'[q] = newScores[q] /\ shaken'[q] = shaken[q]
<1> DEFINE nothing == [e \in Emails |-> None]
<1>1. /\ nothing \in [Emails -> Lead \cup {None}] /\ nothing \in [Emails -> Nat \cup {None}]
      /\ \A e \in Emails : nothing[e] = None
  OBVIOUS
<1>2. /\ phase' = [phase EXCEPT ![r] = "idle"] /\ began' = began \ {r}
      /\ readRows' = [readRows EXCEPT ![r] = nothing]
      /\ newScores' = [newScores EXCEPT ![r] = nothing]
      /\ shaken' = [shaken EXCEPT ![r] = {}]
  BY DEF Ended
<1>3. /\ phase \in [Recomputes -> {"idle", "queued", "scoring"}] /\ RowsT /\ ScoresT
      /\ shaken \in [Recomputes -> SUBSET Emails]
  BY DEF TypeOK, RowsT, ScoresT
<1> HIDE DEF nothing
<1>4. RowsT' /\ readRows'[r] = nothing /\ \A q \in Recomputes \ {r} : readRows'[q] = readRows[q]
  BY <1>1, <1>2, <1>3 DEF RowsT
<1>5. ScoresT' /\ newScores'[r] = nothing /\ \A q \in Recomputes \ {r} : newScores'[q] = newScores[q]
  BY <1>1, <1>2, <1>3 DEF ScoresT
<1>6. /\ phase' \in [Recomputes -> {"idle", "queued", "scoring"}] /\ began' \subseteq began \ {r}
      /\ shaken' \in [Recomputes -> SUBSET Emails] /\ \A q \in Recomputes \ {r} : shaken'[q] = shaken[q]
  BY <1>2, <1>3
<1> QED
  BY <1>1, <1>4, <1>5, <1>6

(* The scores it has computed replace those of the table, nothing else. *)
LEMMA CommitScoresDoes ==
  ASSUME TypeOK, HeldRight, NEW r \in Recomputes, CommitScores(r)
  PROVE  /\ leads' \in [Emails -> Lead \cup {None}]
         /\ \A e \in Emails : newScores[r][e] = None => leads'[e] = leads[e]
         /\ \A e \in Emails : newScores[r][e] # None =>
              /\ leads[e] # None /\ leads'[e] # None /\ leads'[e].score = newScores[r][e]
              /\ \A x \in {"job", "snap", "host", "name", "dept", "band", "channel", "state"} :
                   leads'[e][x] = leads[e][x]
<1>1. leads' = [e \in Emails |-> IF newScores[r][e] = None THEN leads[e]
                                 ELSE [leads[e] EXCEPT !.score = newScores[r][e]]]
  BY DEF CommitScores
<1>2. leads \in [Emails -> Lead \cup {None}] /\ newScores[r] \in [Emails -> Nat \cup {None}]
  BY DEF TypeOK
<1>3. ASSUME NEW e \in Emails, newScores[r][e] # None
      PROVE  /\ leads[e] \in Lead /\ leads[e] # None /\ leads'[e] \in Lead
             /\ leads'[e].score = newScores[r][e]
             /\ \A x \in {"job", "snap", "host", "name", "dept", "band", "channel", "state"} :
                  leads'[e][x] = leads[e][x]
  <2> DEFINE l == leads[e]
             n == newScores[r][e]
             m == [l EXCEPT !.score = n]
  <2>1. l \in Lead /\ l # None /\ n \in Nat
    BY <1>2, <1>3 DEF HeldRight
  <2>2. leads'[e] = m
    BY <1>1, <1>3
  <2> HIDE DEF l, n
  <2>3. /\ m \in Lead /\ m.score = n
        /\ \A x \in {"job", "snap", "host", "name", "dept", "band", "channel", "state"} : m[x] = l[x]
    BY <2>1 DEF Lead
  <2> HIDE DEF m
  <2> QED
    BY <2>1, <2>2, <2>3 DEF l, n
<1>4. \A e \in Emails : newScores[r][e] = None => leads'[e] = leads[e]
  BY <1>1
<1>5. \A e \in Emails : leads'[e] \in Lead \cup {None}
  BY <1>2, <1>3, <1>4
<1>6. leads' \in [Emails -> Lead \cup {None}]
  BY <1>1, <1>5
<1> QED
  BY <1>3, <1>4, <1>6, LeadAssumption

-----------------------------------------------------------------------------
(* What is held, and the scores, step by step *)

(* Leads written by a handler *)
LEMMA WrittenKeeps ==
  ASSUME TypeOK, HeldRight, Scores, LeadsWritten, UNCHANGED scoreVars
  PROVE  HeldRight' /\ Scores'
<1>1. /\ readRows' = readRows /\ newScores' = newScores /\ began' = began
      /\ weights' = weights /\ rescored' = rescored /\ began \subseteq Recomputes
  BY DEF scoreVars, TypeOK
<1>2. ASSUME NEW r \in Recomputes, NEW e \in Emails
      PROVE  /\ readRows[r][e] # None =>
                  leads'[e] # None /\ (e \in shaken'[r] \/ Alike(readRows[r][e], leads'[e]))
             /\ newScores[r][e] # None =>
                  leads'[e] # None /\ (e \in shaken'[r] \/ newScores[r][e] = Score(leads'[e], weights))
  <2>1. CASE leads'[e] = leads[e]
    <3>1. e \in shaken[r] => e \in shaken'[r]
      BY DEF LeadsWritten, ShakenGrow
    <3> QED
      BY <2>1, <3>1 DEF HeldRight
  <2>2. CASE leads'[e] # leads[e]
    BY <2>2 DEF LeadsWritten, Held
  <2> QED
    BY <2>1, <2>2
<1>3. HeldRight'
  BY <1>1, <1>2 DEF HeldRight
<1>4. ASSUME NEW e \in Emails, leads'[e] # None, e \notin outdated'
      PROVE  /\ rescored => leads'[e].score = Score(leads'[e], weights)
             /\ \A r \in began : e \in Held(r) \/ leads'[e].score = Score(leads'[e], weights)
  <2>1. CASE leads'[e] = leads[e]
    <3>1. e \in Saved \ outdated
      BY <1>4, <2>1 DEF LeadsWritten, Saved
    <3> QED
      BY <2>1, <3>1 DEF Scores, Right
  <2>2. CASE leads'[e] # leads[e]
    BY <2>2 DEF LeadsWritten
  <2> QED
    BY <2>1, <2>2
<1>5. \A r : Held(r)' = Held(r)
  BY <1>1 DEF Held
<1>6. Scores'
  BY <1>1, <1>4, <1>5 DEF Scores, Saved, Right
<1> QED
  BY <1>3, <1>6

LEMMA StillKeeps ==
  ASSUME HeldRight, Scores, UNCHANGED <<leads, outdated, shaken>>, UNCHANGED scoreVars
  PROVE  HeldRight' /\ Scores'
<1>1. /\ leads' = leads /\ outdated' = outdated /\ shaken' = shaken /\ weights' = weights
      /\ readRows' = readRows /\ newScores' = newScores /\ began' = began /\ rescored' = rescored
  BY DEF scoreVars
<1> QED
  BY <1>1 DEF HeldRight, Scores, Saved, Right, Held

LEMMA ReadRowsKeeps ==
  ASSUME TypeOK, HeldRight, Scores, NEW r \in Recomputes, ReadRows(r)
  PROVE  HeldRight' /\ Scores'
<1>1. /\ UNCHANGED <<leads, outdated, shaken, weights, newScores, rescored>>
      /\ readRows' = [readRows EXCEPT ![r] = leads] /\ began' = began \cup {r}
  BY DEF ReadRows, leadVars
<1>2. RowsT /\ began \subseteq Recomputes
  BY DEF TypeOK, RowsT
<1>3. readRows'[r] = leads /\ \A q \in Recomputes \ {r} : readRows'[q] = readRows[q]
  BY <1>1, <1>2 DEF RowsT
<1>4. \A e \in Emails : Alike(leads[e], leads[e])
  BY DEF Alike
<1>5. ASSUME NEW q \in Recomputes, NEW e \in Emails
      PROVE  /\ readRows'[q][e] # None =>
                  leads[e] # None /\ (e \in shaken[q] \/ Alike(readRows'[q][e], leads[e]))
             /\ newScores[q][e] # None =>
                  leads[e] # None /\ (e \in shaken[q] \/ newScores[q][e] = Score(leads[e], weights))
  <2>1. CASE q = r
    BY <1>3, <1>4, <2>1 DEF HeldRight
  <2>2. CASE q # r
    BY <1>3, <2>2 DEF HeldRight
  <2> QED
    BY <2>1, <2>2
<1>6. HeldRight'
  BY <1>1, <1>5 DEF HeldRight
<1>7. \A q \in Recomputes \ {r} : \A e \in Emails : e \in Held(q) => e \in Held(q)'
  BY <1>1, <1>3 DEF Held
<1>8. \A e \in Saved : e \in Held(r)'
  BY <1>3 DEF Held, Saved
<1>9. ASSUME NEW e \in Saved \ outdated
      PROVE  /\ rescored => Right(e)
             /\ \A q \in began' : e \in Held(q)' \/ Right(e)
  <2>1. /\ rescored => Right(e)
        /\ \A q \in began : e \in Held(q) \/ Right(e)
    BY <1>9 DEF Scores
  <2> SUFFICES ASSUME NEW q \in began' PROVE e \in Held(q)' \/ Right(e)
    BY <2>1
  <2>2. e \in Emails /\ e \in Saved
    BY <1>9 DEF Saved
  <2>3. CASE q = r
    BY <1>8, <2>2, <2>3
  <2>4. CASE q # r
    BY <1>1, <1>2, <1>7, <2>1, <2>2, <2>4
  <2> QED
    BY <2>3, <2>4
<1>10. Scores'
  BY <1>1, <1>9 DEF Scores, Saved, Right
<1> QED
  BY <1>6, <1>10

LEMMA ScoreRowKeeps ==
  ASSUME TypeOK, HeldRight, Scores, NEW r \in Recomputes, NEW e \in Emails, ScoreRow(r, e)
  PROVE  /\ RowsT' /\ ScoresT' /\ HeldRight' /\ Scores'
<1> DEFINE n == Score(readRows[r][e], weights)
<1>1. /\ UNCHANGED <<leads, outdated, shaken, weights, began, rescored>>
      /\ readRows' = [readRows EXCEPT ![r][e] = None]
      /\ newScores' = [newScores EXCEPT ![r][e] = n] /\ readRows[r][e] # None
  BY DEF ScoreRow, leadVars
<1>2. RowsT /\ ScoresT /\ weights \in WeightSets /\ began \subseteq Recomputes
  BY DEF TypeOK, RowsT, ScoresT
<1>3. n \in Nat /\ n # None /\ \A l : Alike(readRows[r][e], l) => n = Score(l, weights)
  BY <1>2, ScoreIs, LeadAssumption
<1> HIDE DEF n
<1>4. /\ RowsT' /\ readRows'[r][e] = None
      /\ \A q \in Recomputes : \A x \in Emails : q # r \/ x # e => readRows'[q][x] = readRows[q][x]
  BY <1>1, <1>2 DEF RowsT
<1>5. /\ ScoresT' /\ newScores'[r][e] = n
      /\ \A q \in Recomputes : \A x \in Emails : q # r \/ x # e => newScores'[q][x] = newScores[q][x]
  BY <1>1, <1>2, <1>3 DEF ScoresT
<1>6. leads[e] # None /\ (e \in shaken[r] \/ n = Score(leads[e], weights))
  BY <1>1, <1>3 DEF HeldRight
<1>7. ASSUME NEW q \in Recomputes, NEW x \in Emails
      PROVE  /\ readRows'[q][x] # None =>
                  leads[x] # None /\ (x \in shaken[q] \/ Alike(readRows'[q][x], leads[x]))
             /\ newScores'[q][x] # None =>
                  leads[x] # None /\ (x \in shaken[q] \/ newScores'[q][x] = Score(leads[x], weights))
  <2>1. CASE q = r /\ x = e
    BY <1>4, <1>5, <1>6, <2>1
  <2>2. CASE q # r \/ x # e
    BY <1>4, <1>5, <2>2 DEF HeldRight
  <2> QED
    BY <2>1, <2>2
<1>8. HeldRight'
  BY <1>1, <1>7 DEF HeldRight
<1>9. \A q \in Recomputes : \A x \in Emails : x \in Held(q) => x \in Held(q)'
  <2> SUFFICES ASSUME NEW q \in Recomputes, NEW x \in Emails, x \in Held(q) PROVE x \in Held(q)'
    OBVIOUS
  <2>1. CASE q = r /\ x = e
    BY <1>3, <1>5, <2>1 DEF Held
  <2>2. CASE q # r \/ x # e
    BY <1>4, <1>5, <2>2 DEF Held
  <2> QED
    BY <2>1, <2>2
<1>10. Scores'
  <2>1. \A q \in began : \A x \in Saved : x \in Held(q) => x \in Held(q)'
    BY <1>2, <1>9 DEF Saved
  <2> QED
    BY <1>1, <2>1 DEF Scores, Saved, Right
<1> QED
  BY <1>4, <1>5, <1>8, <1>10

LEMMA CommitScoresKeeps ==
  ASSUME TypeOK, HeldRight, Scores, NEW r \in Recomputes, CommitScores(r)
  PROVE  HeldRight' /\ Scores'
<1>1. /\ \A e \in Emails : newScores[r][e] = None => leads'[e] = leads[e]
      /\ \A e \in Emails : newScores[r][e] # None =>
           /\ leads[e] # None /\ leads'[e] # None /\ leads'[e].score = newScores[r][e]
           /\ leads'[e].channel = leads[e].channel /\ leads'[e].band = leads[e].band
           /\ leads'[e].name = leads[e].name
  BY CommitScoresDoes
<1>2. /\ began' \subseteq began \ {r}
      /\ \A e \in Emails : readRows'[r][e] = None /\ newScores'[r][e] = None
      /\ \A q \in Recomputes \ {r} :
           readRows'[q] = readRows[q] /\ newScores'[q] = newScores[q] /\ shaken'[q] = shaken[q]
  BY EndedIs DEF CommitScores
<1>3. /\ \A e \in Emails : readRows[r][e] = None
      /\ outdated' = (outdated \ Held(r)) \cup shaken[r]
      /\ rescored' = (rescored \/ r \in began) /\ weights' = weights
      /\ weights \in WeightSets /\ began \subseteq Recomputes
  BY DEF CommitScores, TypeOK
<1>4. \A e \in Emails : e \in Held(r) <=> newScores[r][e] # None
  BY <1>3 DEF Held
<1>5. \A e \in Emails : leads[e] # None =>
        leads'[e] # None /\ Alike(leads[e], leads'[e]) /\ Score(leads'[e], weights) = Score(leads[e], weights)
  <2> SUFFICES ASSUME NEW e \in Emails, leads[e] # None
               PROVE  leads'[e] # None /\ Alike(leads[e], leads'[e])
                      /\ Score(leads'[e], weights) = Score(leads[e], weights)
    OBVIOUS
  <2>1. leads'[e] # None /\ Alike(leads[e], leads'[e])
    BY <1>1 DEF Alike
  <2> QED
    BY <1>3, <2>1, ScoreIs
<1>6. ASSUME NEW q \in Recomputes, NEW e \in Emails
      PROVE  /\ readRows'[q][e] # None =>
                  leads'[e] # None /\ (e \in shaken'[q] \/ Alike(readRows'[q][e], leads'[e]))
             /\ newScores'[q][e] # None =>
                  leads'[e] # None /\ (e \in shaken'[q] \/ newScores'[q][e] = Score(leads'[e], weights))
  <2>1. CASE q = r
    BY <1>2, <2>1
  <2>2. CASE q # r
    <3>1. readRows'[q] = readRows[q] /\ newScores'[q] = newScores[q] /\ shaken'[q] = shaken[q]
      BY <1>2, <2>2
    <3>2. /\ readRows[q][e] # None =>
               leads[e] # None /\ (e \in shaken[q] \/ Alike(readRows[q][e], leads[e]))
          /\ newScores[q][e] # None =>
               leads[e] # None /\ (e \in shaken[q] \/ newScores[q][e] = Score(leads[e], weights))
      BY DEF HeldRight
    <3>3. leads[e] # None /\ Alike(readRows[q][e], leads[e]) => Alike(readRows[q][e], leads'[e])
      BY <1>5 DEF Alike
    <3> QED
      BY <1>5, <3>1, <3>2, <3>3
  <2> QED
    BY <2>1, <2>2
<1>7. HeldRight'
  BY <1>3, <1>6 DEF HeldRight
<1>8. ASSUME NEW e \in Emails, leads'[e] # None, e \notin outdated'
      PROVE  /\ rescored' => leads'[e].score = Score(leads'[e], weights)
             /\ \A q \in began' : e \in Held(q)' \/ leads'[e].score = Score(leads'[e], weights)
  <2>1. CASE newScores[r][e] # None
    <3>1. leads[e] # None /\ leads'[e].score = newScores[r][e] /\ e \notin shaken[r]
      BY <1>1, <1>3, <1>8, <2>1
    <3>2. newScores[r][e] = Score(leads[e], weights)
      BY <2>1, <3>1 DEF HeldRight
    <3> QED
      BY <1>5, <3>1, <3>2
  <2>2. CASE newScores[r][e] = None
    <3>1. leads'[e] = leads[e] /\ e \notin Held(r) /\ e \notin outdated /\ e \in Saved
      BY <1>1, <1>3, <1>4, <1>8, <2>2 DEF Saved
    <3>2. (rescored => Right(e)) /\ \A q \in began : e \in Held(q) \/ Right(e)
      BY <3>1 DEF Scores
    <3>3. rescored' => Right(e)
      BY <1>3, <3>1, <3>2
    <3>4. \A q \in began' : e \in Held(q) => e \in Held(q)'
      BY <1>2, <1>3 DEF Held
    <3> QED
      BY <1>2, <3>1, <3>2, <3>3, <3>4 DEF Right
  <2> QED
    BY <2>1, <2>2
<1>9. Scores'
  BY <1>3, <1>8 DEF Scores, Saved, Right
<1> QED
  BY <1>7, <1>9

LEMMA RollBackKeeps ==
  ASSUME TypeOK, HeldRight, Scores, NEW r \in Recomputes, RollBack(r)
  PROVE  HeldRight' /\ Scores'
<1>1. /\ began' \subseteq began \ {r}
      /\ \A e \in Emails : readRows'[r][e] = None /\ newScores'[r][e] = None
      /\ \A q \in Recomputes \ {r} :
           readRows'[q] = readRows[q] /\ newScores'[q] = newScores[q] /\ shaken'[q] = shaken[q]
  BY EndedIs DEF RollBack
<1>2. UNCHANGED <<leads, outdated, weights, rescored>> /\ began \subseteq Recomputes
  BY DEF RollBack, TypeOK
<1>3. ASSUME NEW q \in Recomputes, NEW e \in Emails
      PROVE  /\ readRows'[q][e] # None =>
                  leads[e] # None /\ (e \in shaken'[q] \/ Alike(readRows'[q][e], leads[e]))
             /\ newScores'[q][e] # None =>
                  leads[e] # None /\ (e \in shaken'[q] \/ newScores'[q][e] = Score(leads[e], weights))
  <2>1. CASE q = r
    BY <1>1, <2>1
  <2>2. CASE q # r
    BY <1>1, <2>2 DEF HeldRight
  <2> QED
    BY <2>1, <2>2
<1>4. HeldRight'
  BY <1>2, <1>3 DEF HeldRight
<1>5. \A q \in began' : q \in began /\ Held(q)' = Held(q)
  BY <1>1, <1>2 DEF Held
<1>6. Scores'
  BY <1>2, <1>5 DEF Scores, Saved, Right
<1> QED
  BY <1>4, <1>6

LEMMA ChangeWeightsKeeps ==
  ASSUME TypeOK, HeldRight, Scores, ChangeWeights
  PROVE  HeldRight' /\ Scores'
<1>1. /\ UNCHANGED <<leads, outdated, readRows, newScores>> /\ rescored' = FALSE /\ began' = {}
      /\ shaken' = [r \in Recomputes |-> shaken[r] \cup {e \in Emails : newScores[r][e] # None}]
  BY DEF ChangeWeights
<1>2. \A r \in Recomputes : \A e \in Emails :
        (newScores[r][e] # None => e \in shaken'[r]) /\ (e \in shaken[r] => e \in shaken'[r])
  BY <1>1
<1>3. HeldRight'
  BY <1>1, <1>2 DEF HeldRight
<1>4. Scores'
  BY <1>1 DEF Scores
<1> QED
  BY <1>3, <1>4

-----------------------------------------------------------------------------
(* Types, variable by variable *)

CatalogT == lastId \in Nat /\ IsCatalog(domains)
CacheT   == cache # None => cache \in [DOMAIN cache -> Numbered(lastId)]
BuildT   == build # None =>
              /\ build = [capture |-> build.capture, rows |-> build.rows]
              /\ build.capture \in Capture /\ IsCatalog(build.rows)
ImpT     == /\ imp = [pc |-> imp.pc, rows |-> imp.rows]
            /\ imp.pc \in {"idle", "leaked", "reading", "fetching", "ready", "committed", "ended"}
            /\ imp.rows \in [DOMAIN imp.rows -> Domain]
            /\ DOMAIN imp.rows = {} \/ \E f \in Files : DOMAIN imp.rows \subseteq DOMAIN f
SnapsT   == snaps \in [DOMAIN snaps -> Snapshot] /\ DOMAIN snaps \subseteq Jobs \X (1..lastId)
LeadsT   == /\ leads \in [Emails -> Lead \cup {None}] /\ outdated \subseteq Emails
            /\ shaken \in [Recomputes -> SUBSET Emails]
OccT     == occ \subseteq Emails \X (Jobs \cup {ManualJob})
RecT     == /\ phase \in [Recomputes -> {"idle", "queued", "scoring"}]
            /\ RowsT /\ ScoresT /\ began \subseteq Recomputes
FlagsT   == weights \in WeightSets /\ rescored \in BOOLEAN /\ crossed \in BOOLEAN /\ ops \in Nat

LEMMA TypeParts ==
  TypeOK <=> /\ CatalogT /\ CacheT /\ BuildT /\ ImpT /\ SnapsT /\ LeadsT /\ OccT /\ RecT /\ FlagsT
BY DEF TypeOK, CatalogT, CacheT, BuildT, ImpT, SnapsT, LeadsT, OccT, RecT, FlagsT, Numbered, RowsT, ScoresT

LEMMA TypeParts_Next ==
  CatalogT' /\ CacheT' /\ BuildT' /\ ImpT' /\ SnapsT' /\ LeadsT' /\ OccT' /\ RecT' /\ FlagsT' => TypeOK'
BY DEF TypeOK, CatalogT, CacheT, BuildT, ImpT, SnapsT, LeadsT, OccT, RecT, FlagsT, Numbered, RowsT, ScoresT

LEMMA SameParts ==
  /\ CatalogT /\ UNCHANGED <<lastId, domains>> => CatalogT'
  /\ CacheT /\ UNCHANGED <<lastId, cache>> => CacheT'
  /\ BuildT /\ UNCHANGED <<lastId, build>> => BuildT'
  /\ ImpT /\ UNCHANGED imp => ImpT'
  /\ SnapsT /\ UNCHANGED <<lastId, snaps>> => SnapsT'
  /\ LeadsT /\ UNCHANGED <<leads, outdated, shaken>> => LeadsT'
  /\ OccT /\ UNCHANGED occ => OccT'
  /\ RecT /\ UNCHANGED <<phase, readRows, newScores, began>> => RecT'
  /\ FlagsT /\ UNCHANGED <<weights, rescored, crossed, ops>> => FlagsT'
BY DEF CatalogT, CacheT, BuildT, ImpT, SnapsT, LeadsT, OccT, RecT, FlagsT, IsCatalog, RowsT, ScoresT

(* Ids are only added. *)
LEMMA IdsGrow ==
  ASSUME lastId \in Nat, lastId' \in Nat, lastId <= lastId'
  PROVE  /\ CacheT /\ UNCHANGED cache => CacheT'
         /\ BuildT /\ UNCHANGED build => BuildT'
         /\ SnapsT /\ UNCHANGED snaps => SnapsT'
<1>1. 1..lastId \subseteq 1..lastId'
  OBVIOUS
<1>2. Numbered(lastId) \subseteq Numbered(lastId')
  BY <1>1 DEF Numbered
<1>3. CacheT /\ UNCHANGED cache => CacheT'
  BY <1>2 DEF CacheT
<1>4. BuildT /\ UNCHANGED build => BuildT'
  BY <1>1 DEF BuildT, IsCatalog
<1>5. SnapsT /\ UNCHANGED snaps => SnapsT'
  BY <1>1 DEF SnapsT
<1> QED
  BY <1>3, <1>4, <1>5

LEMMA WrittenTypes ==
  ASSUME Written, UNCHANGED lastId
  PROVE  SnapsT' /\ LeadsT'
BY DEF Written, LeadsWritten, ShakenGrow, SnapsGrow, SnapsT, LeadsT

LEMMA SetUrlTypes ==
  ASSUME CatalogT, SetUrl
  PROVE  CatalogT'
<1>1. PICK i \in DOMAIN domains, h \in Hosts : domains' = [domains EXCEPT ![i].netloc = h]
  BY DEF SetUrl
<1> DEFINE d == [domains[i] EXCEPT !.netloc = h]
<1>2. domains' = [domains EXCEPT ![i] = d]
  BY <1>1
<1>3. domains[i] \in Domain
  BY DEF CatalogT, IsCatalog
<1>4. d \in Domain
  BY <1>3 DEF Domain
<1> HIDE DEF d
<1> QED
  BY <1>2, <1>4 DEF CatalogT, IsCatalog, SetUrl

(* Every new id is above the ones handed out before, unless ids are reused. *)
LEMMA ReplaceCatalogTypes ==
  ASSUME CatalogT, ImpT, ReplaceCatalog
  PROVE  /\ CatalogT' /\ lastId <= lastId'
         /\ ~ReuseIds => \A i \in DOMAIN domains' : i > lastId
<1> DEFINE es == Dedupe(imp.rows)
           D  == {FirstId + k : k \in DOMAIN es}
           M  == Max(D \cup {lastId})
<1>1. /\ domains' = [i \in D |-> es[i - FirstId]]
      /\ lastId' = Max(DOMAIN domains' \cup {lastId})
  BY DEF ReplaceCatalog
<1>2. PICK n \in Nat : DOMAIN imp.rows \subseteq 1..n
  <2>1. CASE DOMAIN imp.rows = {}
    <3>1. 0 \in Nat
      OBVIOUS
    <3> QED
      BY <2>1, <3>1
  <2>2. CASE \E f \in Files : DOMAIN imp.rows \subseteq DOMAIN f
    <3>1. PICK f \in Files : DOMAIN imp.rows \subseteq DOMAIN f
      BY <2>2
    <3>2. DOMAIN f = 1..Len(f) /\ Len(f) \in Nat
      BY LeadAssumption
    <3> QED
      BY <3>1, <3>2
  <2> QED
    BY <2>1, <2>2 DEF ImpT
<1>3. es \in [DOMAIN es -> Domain] /\ DOMAIN es \subseteq 1..n
  <2>1. imp.rows \in [DOMAIN imp.rows -> Domain]
    BY DEF ImpT
  <2> QED
    BY <1>2, <2>1, DedupeIs
<1> HIDE DEF es
<1>4. lastId \in Nat /\ FirstId \in Nat
  BY DEF CatalogT, FirstId
<1>5. D \cup {lastId} \in SUBSET (0..(FirstId + n + lastId)) /\ D \subseteq Nat \ {0}
  BY <1>3, <1>4
<1>6. D \cup {lastId} # {} /\ FirstId + n + lastId \in Nat
  BY <1>4
<1>7. /\ \A i \in D : i - FirstId \in DOMAIN es /\ i \in Nat \ {0}
      /\ \A i \in D : i > FirstId
  BY <1>3, <1>4
<1>8. DOMAIN domains' = D
  BY <1>1
<1> HIDE DEF D
<1>9. M \in D \cup {lastId} /\ \A j \in D \cup {lastId} : j <= M
  BY <1>5, <1>6, Greatest
<1>10. lastId' = M
  BY <1>1, <1>8
<1> HIDE DEF M
<1>11. lastId' \in Nat /\ lastId <= lastId' /\ D \subseteq 1..lastId'
  <2>1. M \in Nat /\ lastId <= M
    BY <1>4, <1>5, <1>9
  <2>2. \A j \in D : j \in Nat \ {0} /\ j <= M
    BY <1>5, <1>9
  <2> QED
    BY <1>10, <2>1, <2>2
<1>12. domains' \in [D -> Domain]
  BY <1>1, <1>3, <1>7
<1> QED
  BY <1>7, <1>8, <1>11, <1>12 DEF CatalogT, IsCatalog, FirstId

LEMMA TypeStep ==
  ASSUME TypeOK, Fresh, Building, HeldRight, Next
  PROVE  TypeOK'
<1>1. CatalogT /\ CacheT /\ BuildT /\ ImpT /\ SnapsT /\ LeadsT /\ OccT /\ RecT /\ FlagsT
  BY TypeParts
<1>2. lastId \in Nat
  BY <1>1 DEF CatalogT
<1>3. CASE SaveLead
  <2>1. Written
    BY <1>3, SaveLeadDoes
  <2>2. UNCHANGED <<lastId, domains, cache, build, imp, weights, phase, readRows, newScores, began, rescored, crossed>> /\ ops' = ops + 1
    BY <1>3 DEF SaveLead, catalogVars, scoreVars, Request
  <2>3. OccT'
    <3>1. PICK c \in Captures : RecordOccurrence(c.email, c.job)
      BY <1>3 DEF SaveLead
    <3>2. c.email \in Emails /\ c.job \in Jobs
      BY CapturesAre DEF Capture
    <3> QED
      BY <1>1, <3>1, <3>2 DEF RecordOccurrence, OccT
  <2>4. FlagsT'
    BY <1>1, <2>2 DEF FlagsT
  <2> QED
    BY <1>1, <2>1, <2>2, <2>3, <2>4, SameParts, WrittenTypes, TypeParts_Next
<1>4. CASE StartBuild
  <2>1. UNCHANGED <<lastId, domains, cache, imp, snaps, leads, outdated, shaken, occ, weights, phase, readRows, newScores, began, rescored, crossed>>
        /\ ops' = ops + 1
    BY <1>4 DEF StartBuild, catalogVars, leadVars, scoreVars, Request
  <2>2. BuildT'
    <3>1. PICK c \in Captures : build' = [capture |-> c, rows |-> domains]
      BY <1>4 DEF StartBuild
    <3>2. c \in Capture
      BY CapturesAre
    <3> QED
      BY <1>1, <2>1, <3>1, <3>2 DEF BuildT, CatalogT, IsCatalog
  <2>3. FlagsT'
    BY <1>1, <2>1 DEF FlagsT
  <2> QED
    BY <1>1, <2>1, <2>2, <2>3, SameParts, TypeParts_Next
<1>5. CASE FinishBuild
  <2>1. Written
    BY <1>5, FinishBuildDoes
  <2>2. /\ UNCHANGED <<lastId, domains, imp, weights, phase, readRows, newScores, began, rescored, ops>>
        /\ build # None /\ build' = None
        /\ cache' = NetlocMap(build.rows) /\ crossed' \in BOOLEAN
        /\ RecordOccurrence(build.capture.email, build.capture.job)
    BY <1>5 DEF FinishBuild, scoreVars
  <2>3. OccT'
    <3>1. build.capture.email \in Emails /\ build.capture.job \in Jobs
      BY <1>1, <2>2 DEF BuildT, Capture
    <3> QED
      BY <1>1, <2>2, <3>1 DEF RecordOccurrence, OccT
  <2>4. FlagsT' /\ BuildT'
    BY <1>1, <2>2 DEF FlagsT, BuildT
  <2>5. CacheT'
    <3> DEFINE map == NetlocMap(build.rows)
    <3>1. map \in [DOMAIN map -> Numbered(lastId)]
      BY <1>1, <1>2, <2>2, NetlocMapIs DEF BuildT, IsCatalog
    <3> HIDE DEF map
    <3> QED
      BY <2>2, <3>1 DEF CacheT, map
  <2> QED
    BY <1>1, <2>1, <2>2, <2>3, <2>4, <2>5, SameParts, WrittenTypes, TypeParts_Next
<1>6. CASE ImportCsv
  <2>1. Written
    BY <1>6, ImportCsvDoes
  <2>2. UNCHANGED <<lastId, domains, cache, build, imp, weights, phase, readRows, newScores, began, rescored, crossed>> /\ ops' = ops + 1
    BY <1>6 DEF ImportCsv, catalogVars, scoreVars, Request
  <2>3. OccT'
    <3>1. \E hit \in SUBSET Emails : occ' = occ \cup {<<e, ManualJob>> : e \in hit}
      <4> DEFINE Hit(sheet) == {e \in Emails : {row \in ParseContacts(sheet) : row.email = e} # {}}
      <4>1. PICK sheet \in Sheets : occ' = occ \cup {<<e, ManualJob>> : e \in Hit(sheet)}
        BY <1>6 DEF ImportCsv
      <4>2. Hit(sheet) \in SUBSET Emails
        OBVIOUS
      <4> HIDE DEF Hit
      <4> QED
        BY <4>1, <4>2
    <3> QED
      BY <1>1, <3>1 DEF OccT
  <2>4. FlagsT'
    BY <1>1, <2>2 DEF FlagsT
  <2> QED
    BY <1>1, <2>1, <2>2, <2>3, <2>4, SameParts, WrittenTypes, TypeParts_Next
<1>7. CASE UpdateLead
  <2>1. Written
    BY <1>7, UpdateLeadDoes
  <2>2. UNCHANGED <<lastId, domains, cache, build, imp, occ, weights, phase, readRows, newScores, began, rescored, crossed>> /\ ops' = ops + 1
    BY <1>7 DEF UpdateLead, catalogVars, scoreVars, Request
  <2>3. FlagsT'
    BY <1>1, <2>2 DEF FlagsT
  <2> QED
    BY <1>1, <2>1, <2>2, <2>3, SameParts, WrittenTypes, TypeParts_Next
<1>8. CASE SeedJob
  <2>1. UNCHANGED <<lastId, domains, cache, build, imp, leads, outdated, shaken, occ, weights, phase, readRows, newScores, began, rescored, crossed>>
        /\ ops' = ops + 1
    BY <1>8 DEF SeedJob, catalogVars, scoreVars, Request
  <2>2. SnapsT'
    BY <1>8, <2>1, SeedJobDoes DEF SnapsGrow, SnapsT
  <2>3. FlagsT'
    BY <1>1, <2>1 DEF FlagsT
  <2> QED
    BY <1>1, <2>1, <2>2, <2>3, SameParts, TypeParts_Next
<1>9. CASE SetUrl
  <2>1. UNCHANGED <<lastId, build, imp, snaps, leads, outdated, shaken, occ, weights, phase, readRows, newScores, began, rescored>>
        /\ cache' = None /\ crossed' = FALSE /\ ops' = ops + 1
    BY <1>9 DEF SetUrl, leadVars, scoreVars, Request
  <2>2. CatalogT' /\ CacheT'
    BY <1>1, <1>9, <2>1, SetUrlTypes DEF CacheT
  <2>3. FlagsT'
    <3>1. ops' \in Nat
      BY <1>1, <2>1 DEF FlagsT
    <3> QED
      BY <1>1, <2>1, <3>1, Zenon DEF FlagsT
  <2> QED
    BY <1>1, <2>1, <2>2, <2>3, SameParts, TypeParts_Next
<1>10. CASE StartImport \/ StartUpload
  <2>1. UNCHANGED <<lastId, domains, cache, build, snaps, leads, outdated, shaken, occ, weights, phase, readRows, newScores, began, rescored, crossed>>
        /\ ops' = ops + 1
    BY <1>10 DEF StartImport, StartUpload, leadVars, scoreVars, Request
  <2>2. ImpT'
    <3>1. PICK pc \in {"fetching", "reading", "leaked"} : imp' = [imp EXCEPT !.pc = pc]
      BY <1>10 DEF StartImport, StartUpload
    <3> QED
      BY <1>1, <3>1 DEF ImpT
  <2>3. FlagsT'
    BY <1>1, <2>1 DEF FlagsT
  <2> QED
    BY <1>1, <2>1, <2>2, <2>3, SameParts, TypeParts_Next
<1>11. CASE ReadFile \/ FetchDirectory \/ EndImport
  <2>1. UNCHANGED <<lastId, domains, cache, build, snaps, leads, outdated, shaken, occ, weights, phase, readRows, newScores, began, rescored, crossed, ops>>
    BY <1>11 DEF ReadFile, FetchDirectory, EndImport, leadVars, scoreVars
  <2>2. ImpT'
    <3>1. CASE imp' = [imp EXCEPT !.pc = "ended"]
      BY <1>1, <3>1 DEF ImpT
    <3>2. CASE imp' = [pc |-> "idle", rows |-> <<>>]
      BY <3>2 DEF ImpT
    <3>3. ASSUME NEW f \in Files, NEW cats, imp' = [pc |-> "ready", rows |-> Gather(f, cats)]
          PROVE  ImpT'
      <4> DEFINE rows == Gather(f, cats)
      <4>1. rows \in [DOMAIN rows -> Domain] /\ DOMAIN rows \subseteq DOMAIN f
        BY GatherIs
      <4> HIDE DEF rows
      <4>2. imp' = [pc |-> "ready", rows |-> rows]
        BY <3>3 DEF rows
      <4> QED
        BY <4>1, <4>2 DEF ImpT
    <3>4. \/ imp' = [imp EXCEPT !.pc = "ended"]
          \/ imp' = [pc |-> "idle", rows |-> <<>>]
          \/ \E f \in Files, cats \in SUBSET Cats : imp' = [pc |-> "ready", rows |-> Gather(f, cats)]
      <4>1. CASE ReadFile
        BY <4>1 DEF ReadFile
      <4>2. CASE FetchDirectory
        <5>1. PICK f \in Files : \E cats \in SUBSET {f[k].cat : k \in DOMAIN f} :
                imp' = [pc |-> "ready", rows |-> Gather(f, cats)]
          BY <4>2 DEF FetchDirectory
        <5>2. \A k \in DOMAIN f : f[k].cat \in Cats
          BY DEF Entries, Cats
        <5> QED
          BY <5>1, <5>2
      <4>3. CASE EndImport
        BY <4>3 DEF EndImport
      <4> QED
        BY <1>11, <4>1, <4>2, <4>3
    <3> QED
      BY <3>1, <3>2, <3>3, <3>4
  <2> QED
    BY <1>1, <2>1, <2>2, SameParts, TypeParts_Next
<1>12. CASE ReplaceCatalog
  <2>1. UNCHANGED <<cache, build, snaps, leads, outdated, shaken, occ, weights, phase, readRows, newScores, began, rescored, crossed, ops>>
        /\ imp' = [imp EXCEPT !.pc = "committed"]
    BY <1>12 DEF ReplaceCatalog, leadVars, scoreVars
  <2>2. CatalogT' /\ lastId <= lastId' /\ lastId' \in Nat
    BY <1>1, <1>12, ReplaceCatalogTypes DEF CatalogT
  <2>3. ImpT'
    BY <1>1, <2>1 DEF ImpT
  <2> QED
    BY <1>1, <1>2, <2>1, <2>2, <2>3, IdsGrow, SameParts, TypeParts_Next
<1>13. CASE Invalidate
  <2>1. UNCHANGED <<lastId, domains, build, snaps, leads, outdated, shaken, occ, weights, phase, readRows, newScores, began, rescored, ops>>
        /\ cache' = None /\ crossed' = FALSE /\ imp' = [imp EXCEPT !.pc = "ended"]
    BY <1>13 DEF Invalidate, leadVars, scoreVars
  <2>2. ImpT' /\ CacheT' /\ FlagsT'
    BY <1>1, <2>1 DEF ImpT, CacheT, FlagsT
  <2> QED
    BY <1>1, <2>1, <2>2, SameParts, TypeParts_Next
<1>14. CASE ChangeWeights
  <2>1. UNCHANGED <<lastId, domains, cache, build, imp, snaps, leads, outdated, occ, readRows, newScores, crossed>>
        /\ rescored' = FALSE /\ ops' = ops + 1 /\ began' = {} /\ weights' \in WeightSets
    BY <1>14 DEF ChangeWeights, catalogVars, Request
  <2>2. phase' \in [Recomputes -> {"idle", "queued", "scoring"}]
    BY <1>1, <1>14 DEF ChangeWeights, RecT
  <2>3. RecT'
    BY <1>1, <2>1, <2>2 DEF RecT, RowsT, ScoresT
  <2>4. LeadsT'
    <3>1. shaken' = [r \in Recomputes |-> shaken[r] \cup {e \in Emails : newScores[r][e] # None}]
      BY <1>14 DEF ChangeWeights
    <3> QED
      BY <1>1, <2>1, <3>1 DEF LeadsT
  <2>5. FlagsT'
    <3>1. ops' \in Nat
      BY <1>1, <2>1 DEF FlagsT
    <3> QED
      BY <1>1, <2>1, <3>1, Zenon DEF FlagsT
  <2> QED
    BY <1>1, <2>1, <2>3, <2>4, <2>5, SameParts, TypeParts_Next
<1>15. ASSUME NEW r \in Recomputes, ReadRows(r)
       PROVE  TypeOK'
  <2>1. /\ UNCHANGED <<lastId, domains, cache, build, imp, snaps, leads, outdated, shaken, occ>>
        /\ UNCHANGED <<weights, newScores, rescored, crossed, ops>>
        /\ phase' = [phase EXCEPT ![r] = "scoring"] /\ readRows' = [readRows EXCEPT ![r] = leads]
        /\ began' = began \cup {r}
    BY <1>15 DEF ReadRows, catalogVars, leadVars
  <2>2. RowsT'
    BY <1>1, <2>1 DEF RecT, RowsT, LeadsT
  <2>3. ScoresT' /\ began' \subseteq Recomputes /\ phase' \in [Recomputes -> {"idle", "queued", "scoring"}]
    BY <1>1, <2>1 DEF RecT, ScoresT
  <2>4. RecT'
    BY <2>2, <2>3 DEF RecT
  <2> QED
    BY <1>1, <2>1, <2>4, SameParts, TypeParts_Next
<1>16. ASSUME NEW r \in Recomputes, NEW e \in Emails, ScoreRow(r, e)
       PROVE  TypeOK'
  <2>1. /\ UNCHANGED <<lastId, domains, cache, build, imp, snaps, leads, outdated, shaken, occ>>
        /\ UNCHANGED <<weights, phase, began, rescored, crossed, ops>>
    BY <1>16 DEF ScoreRow, catalogVars, leadVars
  <2>2. RowsT' /\ ScoresT'
    <3> DEFINE n == Score(readRows[r][e], weights)
    <3>1. /\ readRows' = [readRows EXCEPT ![r][e] = None]
          /\ newScores' = [newScores EXCEPT ![r][e] = n]
      BY <1>16 DEF ScoreRow
    <3>2. n \in Nat
      BY <1>1, ScoreIs DEF FlagsT
    <3> HIDE DEF n
    <3> QED
      BY <1>1, <3>1, <3>2 DEF RecT, RowsT, ScoresT
  <2>3. RecT'
    BY <1>1, <2>1, <2>2 DEF RecT
  <2> QED
    BY <1>1, <2>1, <2>3, SameParts, TypeParts_Next
<1>17. ASSUME NEW r \in Recomputes, CommitScores(r) \/ RollBack(r)
       PROVE  TypeOK'
  <2>1. UNCHANGED <<lastId, domains, cache, build, imp, snaps, occ, weights, crossed, ops>> /\ Ended(r)
    BY <1>17 DEF CommitScores, RollBack, catalogVars
  <2>2. /\ phase' \in [Recomputes -> {"idle", "queued", "scoring"}]
        /\ RowsT' /\ ScoresT' /\ began' \subseteq began
        /\ shaken' \in [Recomputes -> SUBSET Emails]
    BY <2>1, EndedIs
  <2>3. RecT'
    BY <1>1, <2>2 DEF RecT
  <2>4. leads' \in [Emails -> Lead \cup {None}] /\ outdated' \subseteq Emails
    <3>1. CASE CommitScores(r)
      <4>1. leads' \in [Emails -> Lead \cup {None}]
        BY <3>1, CommitScoresDoes
      <4>2. outdated' = (outdated \ Held(r)) \cup shaken[r]
        BY <3>1 DEF CommitScores
      <4> QED
        BY <1>1, <4>1, <4>2 DEF LeadsT
    <3>2. CASE RollBack(r)
      BY <1>1, <3>2 DEF RollBack, LeadsT
    <3> QED
      BY <1>17, <3>1, <3>2
  <2>5. LeadsT'
    BY <2>2, <2>4 DEF LeadsT
  <2>6. FlagsT'
    <3>1. rescored' \in BOOLEAN
      BY <1>1, <1>17 DEF CommitScores, RollBack, FlagsT
    <3> QED
      BY <1>1, <2>1, <3>1, Zenon DEF FlagsT
  <2> QED
    BY <1>1, <2>1, <2>3, <2>5, <2>6, SameParts, TypeParts_Next
<1> QED
  BY <1>3, <1>4, <1>5, <1>6, <1>7, <1>8, <1>9, <1>10, <1>11, <1>12, <1>13, <1>14, <1>15, <1>16, <1>17
     DEF Next, Handlers, ImportThread, Recompute

LEMMA FreshStep ==
  ASSUME Fresh, Next
  PROVE  Fresh'
<1>1. CASE UNCHANGED <<domains, cache, imp, crossed, build>>
  BY <1>1 DEF Fresh
<1>2. CASE StartBuild
  BY <1>2 DEF StartBuild, Fresh, catalogVars
<1>3. CASE FinishBuild
  <2>1. /\ build' = None /\ UNCHANGED <<domains, imp>> /\ cache' = NetlocMap(build.rows)
        /\ crossed' = (build.rows # domains \/ imp.pc = "committed")
    BY <1>3 DEF FinishBuild
  <2>2. ~crossed' => build.rows = domains
    BY <2>1
  <2>3. ~crossed' => cache' = NetlocMap(domains)
    BY <2>1, <2>2
  <2> QED
    BY <2>1, <2>3 DEF Fresh
<1>4. CASE SetUrl \/ Invalidate
  BY <1>4 DEF SetUrl, Invalidate, Fresh
<1>5. CASE StartImport \/ StartUpload \/ ReadFile \/ FetchDirectory \/ EndImport
  <2>1. UNCHANGED <<domains, cache, crossed, build>> /\ imp.pc # "committed"
    BY <1>5 DEF StartImport, StartUpload, ReadFile, FetchDirectory, EndImport
  <2> QED
    BY <2>1 DEF Fresh
<1>6. CASE ReplaceCatalog
  <2>1. UNCHANGED <<cache, build>> /\ imp' = [imp EXCEPT !.pc = "committed"] /\ imp.pc = "ready"
    BY <1>6 DEF ReplaceCatalog
  <2> QED
    BY <2>1 DEF Fresh
<1>7. SaveLead \/ ImportCsv \/ UpdateLead \/ SeedJob \/ ChangeWeights => UNCHANGED <<domains, cache, imp, crossed, build>>
  BY DEF SaveLead, ImportCsv, UpdateLead, SeedJob, ChangeWeights, catalogVars
<1>8. ASSUME NEW r \in Recomputes, Recompute(r)
      PROVE  UNCHANGED <<domains, cache, imp, crossed, build>>
  BY <1>8 DEF Recompute, ReadRows, ScoreRow, CommitScores, RollBack, catalogVars
<1> QED
  BY <1>1, <1>2, <1>3, <1>4, <1>5, <1>6, <1>7, <1>8 DEF Next, Handlers, ImportThread

LEMMA RecomputeDoes ==
  ASSUME TypeOK, HeldRight, NEW r \in Recomputes, Recompute(r)
  PROVE  /\ UNCHANGED snaps
         /\ \A e \in Emails : leads[e] = None <=> leads'[e] = None
         /\ \A e \in Saved : \A x \in {"job", "snap", "host", "name", "dept", "band", "channel", "state"} :
              leads'[e][x] = leads[e][x]
<1>1. CASE CommitScores(r)
  <2>1. \A e \in Emails : newScores[r][e] = None \/ newScores[r][e] # None
    OBVIOUS
  <2>2. \A e \in Emails : leads[e] = None <=> leads'[e] = None
    BY <1>1, CommitScoresDoes
  <2>3. \A e \in Saved : \A x \in {"job", "snap", "host", "name", "dept", "band", "channel", "state"} :
          leads'[e][x] = leads[e][x]
    BY <1>1, <2>1, CommitScoresDoes DEF Saved
  <2> QED
    BY <1>1, <2>2, <2>3 DEF CommitScores
<1>2. CASE ReadRows(r) \/ (\E e \in Emails : ScoreRow(r, e)) \/ RollBack(r)
  <2>1. UNCHANGED <<leads, snaps>>
    BY <1>2 DEF ReadRows, ScoreRow, RollBack, leadVars
  <2> QED
    BY <2>1
<1> QED
  BY <1>1, <1>2 DEF Recompute

LEMMA BuildingStep ==
  ASSUME TypeOK, Building, HeldRight, Next
  PROVE  Building'
<1>1. CASE UNCHANGED <<build, leads, snaps>>
  BY <1>1 DEF Building, OwnSeed
<1>2. CASE StartBuild
  <2>1. PICK c \in Captures : /\ c.snap # None => c.snap[1] = c.job
                              /\ leads[c.email] = None /\ build' = [capture |-> c, rows |-> domains]
    BY <1>2 DEF StartBuild
  <2>2. OwnSeed(c) /\ UNCHANGED <<leads, snaps>>
    BY <1>2, <2>1, CapturesAre DEF OwnSeed, StartBuild, leadVars
  <2> QED
    BY <2>1, <2>2 DEF Building, OwnSeed
<1>3. CASE FinishBuild
  BY <1>3 DEF FinishBuild, Building
<1>4. Handlers => FinishBuild \/ StartBuild \/ (build = None /\ UNCHANGED build)
  BY DEF Handlers, SaveLead, ImportCsv, UpdateLead, SeedJob, SetUrl, StartImport, StartUpload, ChangeWeights, Request
<1>5. build = None /\ UNCHANGED build => Building'
  BY DEF Building
<1>6. ImportThread => UNCHANGED <<build, leads, snaps>>
  BY DEF ImportThread, ReadFile, FetchDirectory, ReplaceCatalog, Invalidate, EndImport, leadVars
<1>7. ASSUME NEW r \in Recomputes, Recompute(r)
      PROVE  Building'
  <2>1. UNCHANGED <<build, snaps>> /\ \A e \in Emails : leads[e] = None => leads'[e] = None
    BY <1>7, RecomputeDoes DEF Recompute, ReadRows, ScoreRow, CommitScores, RollBack
  <2>2. build # None => build.capture.email \in Emails
    BY DEF TypeOK, Capture
  <2> QED
    BY <2>1, <2>2 DEF Building, OwnSeed
<1> QED
  BY <1>1, <1>2, <1>3, <1>4, <1>5, <1>6, <1>7 DEF Next

(* Steps write leads or leave them, rewrite one score, and never touch a    *)
(* snapshot.                                                                *)
LEMMA Steps ==
  ASSUME TypeOK, Building, Next
  PROVE  \/ Written /\ (Improved \/ UpdateLead) /\ UNCHANGED scoreVars
         \/ SnapsGrow /\ UNCHANGED <<leads, outdated, shaken>> /\ UNCHANGED scoreVars
         \/ ChangeWeights \/ \E r \in Recomputes : Recompute(r)
<1>1. CASE SaveLead
  BY <1>1, SaveLeadDoes DEF SaveLead
<1>2. CASE FinishBuild
  BY <1>2, FinishBuildDoes DEF FinishBuild
<1>3. CASE ImportCsv
  BY <1>3, ImportCsvDoes DEF ImportCsv
<1>4. CASE UpdateLead
  BY <1>4, UpdateLeadDoes DEF UpdateLead
<1>5. CASE SeedJob
  BY <1>5, SeedJobDoes DEF SeedJob
<1>6. CASE StartBuild \/ SetUrl \/ StartImport \/ StartUpload \/ ImportThread
  <2>1. UNCHANGED <<snaps, leads, outdated, shaken>> /\ UNCHANGED scoreVars
    BY <1>6 DEF StartBuild, SetUrl, StartImport, StartUpload, ImportThread, ReadFile, FetchDirectory,
                ReplaceCatalog, Invalidate, EndImport, leadVars
  <2> QED
    BY <2>1, SnapsKept
<1> QED
  BY <1>1, <1>2, <1>3, <1>4, <1>5, <1>6 DEF Next, Handlers

LEMMA ScoreSteps ==
  ASSUME TypeOK, Building, HeldRight, Scores, Next
  PROVE  HeldRight' /\ Scores'
<1>1. CASE Written /\ UNCHANGED scoreVars
  BY <1>1, WrittenKeeps DEF Written
<1>2. CASE UNCHANGED <<leads, outdated, shaken>> /\ UNCHANGED scoreVars
  BY <1>2, StillKeeps
<1>3. CASE ChangeWeights
  BY <1>3, ChangeWeightsKeeps
<1>4. CASE \E r \in Recomputes : Recompute(r)
  BY <1>4, ReadRowsKeeps, ScoreRowKeeps, CommitScoresKeeps, RollBackKeeps DEF Recompute
<1> QED
  BY <1>1, <1>2, <1>3, <1>4, Steps

LEMMA LinkedStep ==
  ASSUME TypeOK, Building, HeldRight, Linked, Next
  PROVE  Linked'
<1>1. CASE Written
  <2>1. \A e \in Emails : leads[e] = None => (leads'[e] # None /\ leads'[e].snap # None =>
          leads'[e].channel = "crawl" /\ leads'[e].snap \in DOMAIN snaps')
    BY <1>1 DEF Written, NewLinked, Saved
  <2>2. \A e \in Emails : leads[e] # None =>
          leads'[e].snap = leads[e].snap /\ leads'[e].channel = leads[e].channel
    BY <1>1 DEF Written, OriginsStay, Saved
  <2>3. \A k \in DOMAIN snaps : k \in DOMAIN snaps'
    BY <1>1 DEF Written, SnapsGrow
  <2> QED
    BY <2>1, <2>2, <2>3 DEF Linked, Saved
<1>2. CASE SnapsGrow /\ UNCHANGED leads
  BY <1>2 DEF SnapsGrow, Linked, Saved
<1>3. CASE ChangeWeights
  BY <1>3 DEF ChangeWeights, leadVars, Linked, Saved
<1>4. ASSUME NEW r \in Recomputes, Recompute(r)
      PROVE  Linked'
  <2>1. UNCHANGED snaps /\ \A e \in Emails : leads'[e] # None =>
          leads[e] # None /\ leads'[e].snap = leads[e].snap /\ leads'[e].channel = leads[e].channel
    BY <1>4, RecomputeDoes DEF Saved
  <2> QED
    BY <2>1 DEF Linked, Saved
<1> QED
  BY <1>1, <1>2, <1>3, <1>4, Steps

-----------------------------------------------------------------------------
(* The theorems *)

LEMMA InitInvariant ==
  ASSUME Init
  PROVE  IInv
<1>1. /\ domains = <<>> /\ lastId = 0 /\ cache = None /\ build = None
      /\ imp = [pc |-> "idle", rows |-> <<>>] /\ snaps = <<>>
      /\ leads = [e \in Emails |-> None] /\ occ = {} /\ weights \in WeightSets
      /\ phase = [r \in Recomputes |-> "idle"] /\ began = {} /\ rescored = TRUE
      /\ readRows = [r \in Recomputes |-> [e \in Emails |-> None]]
      /\ newScores = [r \in Recomputes |-> [e \in Emails |-> None]]
      /\ shaken = [r \in Recomputes |-> {}] /\ outdated = {} /\ crossed = FALSE /\ ops = 0
  BY DEF Init
<1>2. DOMAIN <<>> = {} /\ \A T : <<>> \in [{} -> T]
  OBVIOUS
<1>3. CatalogT /\ CacheT /\ BuildT
  BY <1>1, <1>2 DEF CatalogT, CacheT, BuildT, IsCatalog
<1>4. ImpT /\ SnapsT
  BY <1>1, <1>2 DEF ImpT, SnapsT
<1>5. LeadsT /\ OccT /\ FlagsT
  BY <1>1 DEF LeadsT, OccT, FlagsT
<1>6. RecT
  BY <1>1 DEF RecT, RowsT, ScoresT
<1>7. /\ Saved = {}
      /\ \A r \in Recomputes : \A e \in Emails : readRows[r][e] = None /\ newScores[r][e] = None
  BY <1>1 DEF Saved
<1> QED
  BY <1>1, <1>3, <1>4, <1>5, <1>6, <1>7, TypeParts DEF IInv, Fresh, Building, Linked, HeldRight, Scores

LEMMA StepInvariant ==
  ASSUME IInv, [Next]_vars
  PROVE  IInv'
<1>1. CASE Next
  BY <1>1, TypeStep, FreshStep, BuildingStep, LinkedStep, ScoreSteps DEF IInv
<1>2. CASE UNCHANGED vars
  <2>1. /\ UNCHANGED <<domains, lastId, cache, imp, crossed>> /\ UNCHANGED <<snaps, leads, occ, outdated, shaken>>
        /\ UNCHANGED scoreVars /\ UNCHANGED <<build, ops>>
    BY <1>2 DEF vars, catalogVars, leadVars
  <2>2. TypeOK'
    BY <2>1, SameParts, TypeParts, TypeParts_Next DEF IInv, scoreVars
  <2>3. Fresh' /\ Building' /\ Linked'
    BY <2>1 DEF IInv, Fresh, Building, OwnSeed, Linked, Saved
  <2>4. HeldRight' /\ Scores'
    BY <2>1, StillKeeps DEF IInv
  <2> QED
    BY <2>2, <2>3, <2>4 DEF IInv
<1> QED
  BY <1>1, <1>2

LEMMA Invariant ==
  Spec => []IInv
BY InitInvariant, StepInvariant, PTL DEF Spec

(* Every row has its type, whatever is captured, uploaded and imported. *)
THEOREM TypeCorrect ==
  Spec => []TypeOK
<1>1. IInv => TypeOK
  BY DEF IInv
<1> QED
  BY <1>1, Invariant, PTL

(* Whenever no import stands between its commit and its invalidation and    *)
(* none crossed the building of the map, _netloc_map_cache is the map of    *)
(* the catalog.                                                             *)
THEOREM MapIsCurrent ==
  Spec => []CacheFresh
<1>1. IInv => CacheFresh
  BY DEF IInv, Fresh, CacheFresh
<1> QED
  BY <1>1, Invariant, PTL

(* Whatever captures, edits, uploads, changes of weights and recomputations *)
(* interleave, and whether these commit or roll back, the scores are those  *)
(* of the weights in force once a recomputation that read the rows after    *)
(* the last change has committed, except where one committed a score of a   *)
(* row or weights that others had changed since.                            *)
THEOREM ScoresAgree ==
  Spec => []ScoreAgrees
<1>1. IInv => ScoreAgrees
  BY DEF IInv, Scores, Right, ScoreAgrees
<1> QED
  BY <1>1, Invariant, PTL

(* save_lead, bulk_upsert_manual_leads, update_lead and the recomputations  *)
(* never lose or replace what is known of a crawled lead, lower its band or *)
(* change where it or any lead came from, and no snapshot is ever rewritten.*)
THEOREM LeadsOnlyImprove ==
  Spec => NeverDegrades
<1> DEFINE A == /\ \A e \in Saved :
                     /\ leads'[e] # None
                     /\ \A x \in {"job", "snap", "host", "channel"} : leads'[e][x] = leads[e][x]
                     /\ ~Manual(e) /\ ~UpdateLead =>
                           /\ \A x \in {"name", "dept"} : leads[e][x] # None => leads'[e][x] = leads[e][x]
                           /\ Rank(leads'[e].band) >= Rank(leads[e].band)
                /\ \A k \in DOMAIN snaps : k \in DOMAIN snaps' /\ snaps'[k] = snaps[k]
<1>1. ASSUME IInv, Next
      PROVE  A
  <2>1. TypeOK /\ Building /\ HeldRight
    BY <1>1 DEF IInv
  <2>2. CASE Written /\ (Improved \/ UpdateLead)
    BY <2>2 DEF Written, OriginsStay, Improved, SnapsGrow
  <2>3. CASE SnapsGrow /\ UNCHANGED leads
    BY <2>3, RankType DEF SnapsGrow, Saved
  <2>4. CASE ChangeWeights
    BY <2>4, RankType DEF ChangeWeights, leadVars, Saved
  <2>5. ASSUME NEW r \in Recomputes, Recompute(r)
        PROVE  A
    <3>1. /\ UNCHANGED snaps /\ \A e \in Saved : leads'[e] # None
          /\ \A e \in Saved : \A x \in {"job", "snap", "host", "name", "dept", "band", "channel", "state"} :
               leads'[e][x] = leads[e][x]
      BY <2>1, <2>5, RecomputeDoes DEF Saved
    <3>2. \A e \in Saved : leads'[e].band = leads[e].band
      BY <3>1
    <3> QED
      BY <3>1, <3>2, RankType
  <2> QED
    BY <1>1, <2>1, <2>2, <2>3, <2>4, <2>5, Steps
<1>2. IInv /\ [Next]_vars => [A]_vars
  BY <1>1
<1> QED
  BY <1>2, Invariant, PTL DEF Spec, NeverDegrades

-----------------------------------------------------------------------------
(* Attribution: as long as ids are not handed out again, an id stands for   *)
(* one organisation wherever it is written down.                            *)

Titled(i, t) ==
  \/ i \in DOMAIN domains /\ t = domains[i].org
  \/ cache # None /\ \E h \in DOMAIN cache : i = cache[h].id /\ t = cache[h].org
  \/ build # None /\ i \in DOMAIN build.rows /\ t = build.rows[i].org
  \/ \E k \in DOMAIN snaps : i = k[2] /\ t = snaps[k].org

OneTitle == \A i \in 1..lastId : \A t, u \in Orgs : Titled(i, t) /\ Titled(i, u) => t = u

LEMMA TitledType ==
  ASSUME TypeOK, NEW i, NEW t, Titled(i, t)
  PROVE  i \in 1..lastId /\ t \in Orgs
<1>1. CatalogT /\ CacheT /\ BuildT /\ SnapsT
  BY TypeParts
<1>2. CASE i \in DOMAIN domains /\ t = domains[i].org
  BY <1>1, <1>2 DEF CatalogT, IsCatalog, Domain
<1>3. CASE cache # None /\ \E h \in DOMAIN cache : i = cache[h].id /\ t = cache[h].org
  BY <1>1, <1>3 DEF CacheT, Numbered
<1>4. CASE build # None /\ i \in DOMAIN build.rows /\ t = build.rows[i].org
  BY <1>1, <1>4 DEF BuildT, IsCatalog, Domain
<1>5. CASE \E k \in DOMAIN snaps : i = k[2] /\ t = snaps[k].org
  BY <1>1, <1>5 DEF SnapsT, Snapshot
<1> QED
  BY <1>2, <1>3, <1>4, <1>5 DEF Titled

(* The snapshot of a new lead, and its lead *)
LEMMA InsertedRow ==
  ASSUME TypeOK, NEW c \in Capture, OwnSeed(c), NEW map, map \in [DOMAIN map -> Numbered(lastId)],
         InsertLead(c, map), leads[c.email] = None
  PROVE  LET d == ResolveDomain(c.host, map)
             s == IF d = None THEN None ELSE <<c.job, d.id>>
         IN  /\ \A e \in Emails : leads[e] = None /\ leads'[e] # None =>
                  leads'[e].host = c.host /\ leads'[e].snap = s
             /\ s # None => s \in DOMAIN snaps'
             /\ d # None => s # None /\ \E h \in DOMAIN map : d = map[h]
             /\ \A k \in DOMAIN snaps' \ DOMAIN snaps :
                  d # None /\ k = <<c.job, d.id>> /\ snaps'[k].org = d.org
<1> DEFINE d == ResolveDomain(c.host, map)
           s == IF d = None THEN None ELSE <<c.job, d.id>>
           l == Row(c, s, snaps')
<1>1. /\ SnapsGrow /\ l \in Lead /\ Write(c.email, l) /\ (s # None => s \in DOMAIN snaps')
      /\ (d # None => s # None /\ \E h \in DOMAIN map : d = map[h])
      /\ \A k \in DOMAIN snaps' \ DOMAIN snaps :
            d # None /\ k = <<c.job, d.id>> /\ snaps'[k].org = d.org
  BY InsertLeadIs
<1> HIDE DEF s
<1>2. s \in SnapId \cup {None}
  <2>1. DOMAIN snaps' \subseteq Jobs \X (1..lastId) /\ lastId \in Nat
    BY <1>1 DEF SnapsGrow, TypeOK
  <2> QED
    BY <1>1, <2>1 DEF SnapId
<1>3. l.score = Score(l, weights) /\ l.snap = s /\ l.host = c.host
  BY <1>1, <1>2, RowIs DEF SnapsGrow, TypeOK
<1> HIDE DEF l
<1>4. c.email \in Emails
  BY DEF Capture
<1>5. leads'[c.email] = l /\ \A x \in Emails \ {c.email} : leads'[x] = leads[x]
  BY <1>1, <1>3, <1>4, WriteIs
<1>6. \A e \in Emails : leads[e] = None /\ leads'[e] # None => leads'[e].host = c.host /\ leads'[e].snap = s
  BY <1>3, <1>5
<1> HIDE DEF d
<1> QED
  BY <1>1, <1>6 DEF s, d

(* Titles are frozen from the catalog, through the map or not, and follow    *)
(* no other way.                                                            *)
LEMMA InsertedTitles ==
  ASSUME TypeOK, NEW c \in Capture, OwnSeed(c), NEW map, map \in [DOMAIN map -> Numbered(lastId)],
         \A h \in DOMAIN map : Titled(map[h].id, map[h].org),
         InsertLead(c, map), leads[c.email] = None
  PROVE  \A k \in DOMAIN snaps' : Titled(k[2], snaps'[k].org)
<1> DEFINE d == ResolveDomain(c.host, map)
<1>1. /\ d # None => \E h \in DOMAIN map : d = map[h]
      /\ \A k \in DOMAIN snaps' \ DOMAIN snaps :
            d # None /\ k = <<c.job, d.id>> /\ snaps'[k].org = d.org
      /\ \A k \in DOMAIN snaps : snaps'[k] = snaps[k]
  BY InsertLeadIs DEF SnapsGrow
<1> HIDE DEF d
<1>2. \A k \in DOMAIN snaps : Titled(k[2], snaps'[k].org)
  BY <1>1 DEF Titled
<1>3. \A k \in DOMAIN snaps' \ DOMAIN snaps : Titled(k[2], snaps'[k].org)
  BY <1>1
<1> QED
  BY <1>2, <1>3

LEMMA CatalogTitles ==
  ASSUME TypeOK, Next, ~ReplaceCatalog
  PROVE  \A i \in DOMAIN domains' : Titled(i, domains'[i].org)
<1>1. CASE UNCHANGED domains
  BY <1>1 DEF Titled
<1>2. CASE SetUrl
  <2>1. PICK i \in DOMAIN domains, h \in Hosts : domains' = [domains EXCEPT ![i].netloc = h]
    BY <1>2 DEF SetUrl
  <2> DEFINE d == [domains[i] EXCEPT !.netloc = h]
  <2>2. domains[i] \in Domain
    BY DEF TypeOK, IsCatalog
  <2>3. d.org = domains[i].org
    BY <2>2 DEF Domain
  <2>4. domains' = [domains EXCEPT ![i] = d]
    BY <2>1
  <2> HIDE DEF d
  <2>5. DOMAIN domains' = DOMAIN domains /\ \A j \in DOMAIN domains : domains'[j].org = domains[j].org
    BY <2>3, <2>4
  <2> QED
    BY <2>5 DEF Titled
<1>3. ASSUME NEW r \in Recomputes, Recompute(r) PROVE UNCHANGED domains
  BY <1>3 DEF Recompute, ReadRows, ScoreRow, CommitScores, RollBack, catalogVars
<1>4. Handlers \/ ImportThread => SetUrl \/ ReplaceCatalog \/ UNCHANGED domains
  BY DEF Handlers, ImportThread, SaveLead, StartBuild, FinishBuild, ImportCsv, UpdateLead, SeedJob, StartImport,
         StartUpload, ChangeWeights, ReadFile, FetchDirectory, Invalidate, EndImport, catalogVars
<1> QED
  BY <1>1, <1>2, <1>3, <1>4 DEF Next

LEMMA BuiltTitles ==
  ASSUME TypeOK, build # None
  PROVE  LET map == NetlocMap(build.rows)
         IN  map \in [DOMAIN map -> Numbered(lastId)] /\ \A h \in DOMAIN map : Titled(map[h].id, map[h].org)
<1> DEFINE map == NetlocMap(build.rows)
<1>1. lastId \in Nat /\ build.rows \in [DOMAIN build.rows -> Domain] /\ DOMAIN build.rows \subseteq 1..lastId
  BY DEF TypeOK, IsCatalog
<1>2. /\ map \in [DOMAIN map -> Numbered(lastId)]
      /\ \A h \in DOMAIN map : \E i \in DOMAIN build.rows : map[h] = WithId(build.rows[i], i)
  BY <1>1, NetlocMapIs
<1> HIDE DEF map
<1>3. \A h \in DOMAIN map : Titled(map[h].id, map[h].org)
  BY <1>2 DEF Titled, WithId
<1> QED
  BY <1>2, <1>3 DEF map

LEMMA MapTitles ==
  ASSUME TypeOK, Next, cache' # None
  PROVE  \A h \in DOMAIN cache' : Titled(cache'[h].id, cache'[h].org)
<1>1. CASE UNCHANGED cache
  BY <1>1 DEF Titled
<1>2. CASE FinishBuild
  <2>1. cache' = NetlocMap(build.rows) /\ build # None
    BY <1>2 DEF FinishBuild
  <2> QED
    BY <2>1, BuiltTitles
<1>3. ASSUME NEW r \in Recomputes, Recompute(r) PROVE UNCHANGED cache
  BY <1>3 DEF Recompute, ReadRows, ScoreRow, CommitScores, RollBack, catalogVars
<1>4. Handlers \/ ImportThread => FinishBuild \/ cache' = None \/ UNCHANGED cache
  BY DEF Handlers, ImportThread, SaveLead, StartBuild, SetUrl, ImportCsv, UpdateLead, SeedJob, StartImport,
         StartUpload, ChangeWeights, ReadFile, FetchDirectory, ReplaceCatalog, Invalidate, EndImport, catalogVars
<1> QED
  BY <1>1, <1>2, <1>3, <1>4 DEF Next

LEMMA BuildTitles ==
  ASSUME TypeOK, Next, build' # None
  PROVE  \A i \in DOMAIN build'.rows : Titled(i, build'.rows[i].org)
<1>1. CASE UNCHANGED build
  BY <1>1 DEF Titled
<1>2. CASE StartBuild
  <2>1. PICK c \in Captures : build' = [capture |-> c, rows |-> domains]
    BY <1>2 DEF StartBuild
  <2> QED
    BY <2>1 DEF Titled
<1>3. ASSUME NEW r \in Recomputes, Recompute(r) PROVE UNCHANGED build
  BY <1>3 DEF Recompute, ReadRows, ScoreRow, CommitScores, RollBack
<1>4. Handlers \/ ImportThread => StartBuild \/ build' = None \/ UNCHANGED build
  BY DEF Handlers, ImportThread, SaveLead, FinishBuild, SetUrl, ImportCsv, UpdateLead, SeedJob, StartImport,
         StartUpload, ChangeWeights, ReadFile, FetchDirectory, ReplaceCatalog, Invalidate, EndImport
<1> QED
  BY <1>1, <1>2, <1>3, <1>4 DEF Next

LEMMA SnapTitles ==
  ASSUME TypeOK, Building, Next
  PROVE  \A k \in DOMAIN snaps' : Titled(k[2], snaps'[k].org)
<1>1. CASE UNCHANGED snaps
  BY <1>1 DEF Titled
<1>2. CASE SaveLead
  <2>1. PICK c \in Captures :
          /\ c.snap # None => c.snap[1] = c.job
          /\ SaveKnown(c) \/ (leads[c.email] = None /\ cache # None /\ InsertLead(c, cache))
    BY <1>2 DEF SaveLead
  <2>2. c \in Capture /\ OwnSeed(c)
    BY <2>1, CapturesAre DEF OwnSeed
  <2>3. CASE SaveKnown(c)
    BY <2>3, <1>1 DEF SaveKnown
  <2>4. CASE leads[c.email] = None /\ cache # None /\ InsertLead(c, cache)
    <3>1. \A h \in DOMAIN cache : Titled(cache[h].id, cache[h].org)
      BY <2>4 DEF Titled
    <3> QED
      BY <2>2, <2>4, <3>1, InsertedTitles, MapType
  <2> QED
    BY <2>1, <2>3, <2>4
<1>3. CASE FinishBuild
  <2> DEFINE map == NetlocMap(build.rows)
  <2>1. /\ build # None /\ build.capture \in Capture /\ OwnSeed(build.capture)
        /\ leads[build.capture.email] = None /\ InsertLead(build.capture, map)
    BY <1>3 DEF FinishBuild, TypeOK, Building
  <2>2. map \in [DOMAIN map -> Numbered(lastId)] /\ \A h \in DOMAIN map : Titled(map[h].id, map[h].org)
    BY <2>1, BuiltTitles
  <2> HIDE DEF map
  <2> QED
    BY <2>1, <2>2, InsertedTitles
<1>4. CASE SeedJob
  <2>1. PICK j \in Jobs, S \in SUBSET {i \in DOMAIN domains : domains[i].netloc # None} :
          snaps' = GetOrInsert(snaps, [k \in {j} \X S |-> Frozen(domains[k[2]], TRUE)])
    BY <1>4 DEF SeedJob
  <2>2. \A k \in DOMAIN snaps' :
          \/ k \in DOMAIN snaps /\ snaps'[k] = snaps[k]
          \/ k[2] \in DOMAIN domains /\ snaps'[k].org = domains[k[2]].org
    BY <2>1 DEF GetOrInsert, Frozen
  <2> QED
    BY <2>2 DEF Titled
<1>5. ASSUME NEW r \in Recomputes, Recompute(r) PROVE UNCHANGED snaps
  BY <1>5 DEF Recompute, ReadRows, ScoreRow, CommitScores, RollBack, leadVars
<1>6. Handlers \/ ImportThread => SaveLead \/ FinishBuild \/ SeedJob \/ UNCHANGED snaps
  BY DEF Handlers, ImportThread, StartBuild, SetUrl, ImportCsv, UpdateLead, StartImport, leadVars,
         StartUpload, ChangeWeights, ReadFile, FetchDirectory, ReplaceCatalog, Invalidate, EndImport
<1> QED
  BY <1>1, <1>2, <1>3, <1>4, <1>5, <1>6 DEF Next

(* A title that is new belongs to an id that is new. *)
LEMMA TitleStep ==
  ASSUME TypeOK, Building, OneTitle, TypeOK', ~ReuseIds, Next
  PROVE  OneTitle'
<1>1. \A i, t : Titled(i, t)' =>
        \/ Titled(i, t)
        \/ ReplaceCatalog /\ i \in DOMAIN domains' /\ t = domains'[i].org
  BY CatalogTitles, MapTitles, BuildTitles, SnapTitles DEF Titled
<1>2. CASE ~ReplaceCatalog
  <2>1. \A i, t : Titled(i, t)' => Titled(i, t)
    BY <1>1, <1>2
  <2>2. \A i, t, u : Titled(i, t) /\ Titled(i, u) => t = u
    BY TitledType DEF OneTitle
  <2> QED
    BY <2>1, <2>2 DEF OneTitle
<1>3. CASE ReplaceCatalog
  <2>1. \A i \in DOMAIN domains' : i > lastId
    BY <1>3, TypeParts, ReplaceCatalogTypes
  <2>2. \A i, t : Titled(i, t) => i \in 1..lastId
    BY TitledType
  <2>3. lastId \in Nat
    BY DEF TypeOK
  <2>4. \A i, t, u : Titled(i, t)' /\ Titled(i, u)' => t = u
    <3> SUFFICES ASSUME NEW i, NEW t, NEW u, Titled(i, t)', Titled(i, u)' PROVE t = u
      OBVIOUS
    <3>1. CASE i \in DOMAIN domains'
      <4>1. ~(i \in 1..lastId)
        BY <2>1, <2>3, <3>1
      <4> QED
        BY <1>1, <2>2, <4>1
    <3>2. CASE i \notin DOMAIN domains'
      <4>1. Titled(i, t) /\ Titled(i, u)
        BY <1>1, <3>2
      <4> QED
        BY <4>1, TitledType DEF OneTitle
    <3> QED
      BY <3>1, <3>2
  <2> QED
    BY <2>4 DEF OneTitle
<1> QED
  BY <1>2, <1>3

LEMMA InsertedSource ==
  ASSUME TypeOK, Building, OneTitle, Next,
         NEW c \in Capture, OwnSeed(c), NEW map, map \in [DOMAIN map -> Numbered(lastId)],
         \A h \in DOMAIN map : Titled(map[h].id, map[h].org),
         InsertLead(c, map), leads[c.email] = None
  PROVE  \A e \in Emails : leads[e] = None /\ leads'[e] # None =>
           LET d == ResolveDomain(leads'[e].host, map)
               s == leads'[e].snap
           IN  IF d = None THEN s = None ELSE s # None /\ snaps'[s].org = d.org
<1> DEFINE d == ResolveDomain(c.host, map)
           s == IF d = None THEN None ELSE <<c.job, d.id>>
<1>1. /\ \A e \in Emails : leads[e] = None /\ leads'[e] # None => leads'[e].host = c.host /\ leads'[e].snap = s
      /\ s # None => s \in DOMAIN snaps'
      /\ d # None => s # None /\ \E h \in DOMAIN map : d = map[h]
  BY InsertedRow
<1> HIDE DEF d
<1>2. ASSUME d # None
      PROVE  snaps'[s].org = d.org
  <2>1. s = <<c.job, d.id>> /\ s \in DOMAIN snaps'
    BY <1>1, <1>2
  <2>2. Titled(d.id, d.org) /\ Titled(d.id, snaps'[s].org)
    <3>1. \A k \in DOMAIN snaps' : Titled(k[2], snaps'[k].org)
      BY SnapTitles
    <3>2. s[2] = d.id
      BY <2>1
    <3> HIDE DEF s
    <3> QED
      BY <1>1, <1>2, <2>1, <3>1, <3>2
  <2> HIDE DEF s
  <2> QED
    BY <2>2, TitledType DEF OneTitle
<1>3. d = None => s = None
  OBVIOUS
<1> HIDE DEF s
<1> SUFFICES ASSUME NEW e \in Emails, leads[e] = None, leads'[e] # None
             PROVE  LET x == ResolveDomain(leads'[e].host, map)
                        y == leads'[e].snap
                    IN  IF x = None THEN y = None ELSE y # None /\ snaps'[y].org = x.org
  OBVIOUS
<1>4. leads'[e].host = c.host /\ leads'[e].snap = s
  BY <1>1
<1>5. ResolveDomain(leads'[e].host, map) = d
  BY <1>4 DEF d
<1> QED
  BY <1>1, <1>2, <1>3, <1>4, <1>5

Attributed ==
  \A e \in Emails : leads[e] = None /\ leads'[e] # None /\ leads'[e].channel = "crawl" =>
    LET d == ResolveDomain(leads'[e].host, cache')
        s == leads'[e].snap
    IN  IF d = None THEN s = None ELSE s # None /\ snaps'[s].org = d.org

LEMMA AttributedStep ==
  ASSUME TypeOK, Building, HeldRight, OneTitle, Next
  PROVE  Attributed
<1>1. CASE \A e \in Emails : leads[e] = None => leads'[e] = None
  BY <1>1 DEF Attributed
<1>2. CASE SaveLead
  <2>1. PICK c \in Captures :
          /\ c.snap # None => c.snap[1] = c.job
          /\ SaveKnown(c) \/ (leads[c.email] = None /\ cache # None /\ InsertLead(c, cache))
    BY <1>2 DEF SaveLead
  <2>2. c \in Capture /\ OwnSeed(c)
    BY <2>1, CapturesAre DEF OwnSeed
  <2>3. CASE SaveKnown(c)
    <3>1. \A e \in Emails : leads[e] = None => leads'[e] = None
      <4>1. leads[c.email] # None /\ leads' = [leads EXCEPT ![c.email] = Enrich(leads[c.email], c)]
        BY <2>3 DEF SaveKnown, Write
      <4>2. leads \in [Emails -> Lead \cup {None}]
        BY DEF TypeOK
      <4> QED
        BY <4>1, <4>2
    <3> QED
      BY <1>1, <3>1
  <2>4. CASE leads[c.email] = None /\ cache # None /\ InsertLead(c, cache)
    <3>1. \A h \in DOMAIN cache : Titled(cache[h].id, cache[h].org)
      BY <2>4 DEF Titled
    <3>2. cache' = cache
      BY <1>2 DEF SaveLead, catalogVars
    <3>3. cache \in [DOMAIN cache -> Numbered(lastId)]
      BY <2>4, MapType
    <3> QED
      BY <2>2, <2>4, <3>1, <3>2, <3>3, InsertedSource DEF Attributed
  <2> QED
    BY <2>1, <2>3, <2>4
<1>3. CASE FinishBuild
  <2> DEFINE map == NetlocMap(build.rows)
  <2>1. /\ build # None /\ build.capture \in Capture /\ OwnSeed(build.capture) /\ cache' = map
        /\ leads[build.capture.email] = None /\ InsertLead(build.capture, map)
    BY <1>3 DEF FinishBuild, TypeOK, Building
  <2>2. map \in [DOMAIN map -> Numbered(lastId)] /\ \A h \in DOMAIN map : Titled(map[h].id, map[h].org)
    BY <2>1, BuiltTitles
  <2> HIDE DEF map
  <2> QED
    BY <2>1, <2>2, InsertedSource DEF Attributed
<1>4. CASE ImportCsv
  BY <1>4, ImportCsvDoes DEF Attributed, Saved
<1>5. CASE UpdateLead
  <2>1. PICK e \in Emails, n \in Names \cup {None}, st \in {None, "somewhere"} :
          leads[e] # None /\ leads' = [leads EXCEPT ![e] = Edit(leads[e], n, st)]
    BY <1>5 DEF UpdateLead, Write
  <2>2. leads \in [Emails -> Lead \cup {None}]
    BY DEF TypeOK
  <2> QED
    BY <1>1, <2>1, <2>2
<1>6. ASSUME NEW r \in Recomputes, Recompute(r)
      PROVE  \A e \in Emails : leads[e] = None => leads'[e] = None
  BY <1>6, RecomputeDoes
<1>7. Handlers \/ ImportThread => SaveLead \/ FinishBuild \/ ImportCsv \/ UpdateLead \/ UNCHANGED leads
  BY DEF Handlers, ImportThread, StartBuild, SetUrl, SeedJob, StartImport, leadVars,
         StartUpload, ChangeWeights, ReadFile, FetchDirectory, ReplaceCatalog, Invalidate, EndImport
<1> QED
  BY <1>1, <1>2, <1>3, <1>4, <1>5, <1>6, <1>7 DEF Next

(* save_lead attributes a new lead to the organisation that the map in      *)
(* force names for its page, whatever the job has frozen before and however *)
(* imports and builds of the map cross, provided that the database does not *)
(* hand out the ids of a replaced catalog again: where it does (SQLite) the *)
(* run sqlite shows the opposite.                                           *)
THEOREM LeadsStayAttributed ==
  ASSUME ~ReuseIds
  PROVE  Spec => AttributedToSource
<1>1. Init => OneTitle
  BY DEF Init, OneTitle, Titled
<1>2. IInv /\ IInv' /\ OneTitle /\ [Next]_vars => OneTitle'
  <2> SUFFICES ASSUME IInv, IInv', OneTitle, [Next]_vars PROVE OneTitle'
    OBVIOUS
  <2>1. CASE Next
    BY <2>1, TitleStep DEF IInv
  <2>2. CASE UNCHANGED vars
    BY <2>2 DEF OneTitle, Titled, vars, catalogVars, leadVars
  <2> QED
    BY <2>1, <2>2
<1>3. IInv /\ OneTitle /\ [Next]_vars => [Attributed]_vars
  BY AttributedStep DEF IInv
<1>4. AttributedToSource <=> [][Attributed]_vars
  BY PTL DEF AttributedToSource, Attributed
<1> QED
  BY <1>1, <1>2, <1>3, <1>4, Invariant, PTL DEF Spec

-----------------------------------------------------------------------------
(* What the browser is shown *)

(* A crawled lead belongs to one category: its snapshot's, or "Unknown". *)
Code(e) == IF leads[e].snap = None THEN UNKNOWN ELSE Facet(e, "cat")

Query(jobs, c, s) == [jobs |-> jobs, cats |-> c, states |-> s, min |-> 0]
Crawled(jobs) == {e \in InScope(jobs) : ~Manual(e)}

LEMMA FacetsAre ==
  ASSUME TypeOK, Linked, NEW e \in Saved
  PROVE  /\ leads[e].snap # None => /\ ~Manual(e) /\ Facet(e, "cat") \in Cats /\ Facet(e, "cat") # None
                                    /\ Facet(e, "state") # None /\ Facet(e, "cat") # UNKNOWN
         /\ leads[e].snap = None => \A x \in {"cat", "title", "state"} : Facet(e, x) = None
         /\ leads[e].score \in Nat
<1>1. leads[e] \in Lead
  BY DEF TypeOK, Saved
<1>2. leads[e].snap # None => snaps[leads[e].snap] \in Snapshot /\ leads[e].channel = "crawl"
  BY DEF TypeOK, Linked
<1> QED
  BY <1>1, <1>2, LeadAssumption DEF Facet, Manual, Lead, Snapshot

(* The leads counted with one, and their row *)
Like(jobs, e) == {x \in Crawled(jobs) : Code(x) = Code(e) /\ Facet(x, "title") = Facet(e, "title")}
RowOf(jobs, e) ==
  [code |-> Code(e), title |-> Facet(e, "title"), count |-> Cardinality(Like(jobs, e))]

(* The rows offered are those of the crawled leads in scope. *)
LEMMA CategoriesAre ==
  ASSUME TypeOK, Linked, NEW jobs
  PROVE  /\ \A f \in LeadCategories(jobs) : \E e \in Crawled(jobs) : f = RowOf(jobs, e)
         /\ \A e \in Crawled(jobs) : RowOf(jobs, e) \in LeadCategories(jobs)
<1> DEFINE scope == InScope(jobs)
           lost  == {e \in scope : Unattributed(e)}
           found == {e \in scope : leads[e].snap # None}
           JoinedRow(e) == [code |-> Facet(e, "cat"), title |-> Facet(e, "title"),
                            count |-> Cardinality(OfCategory(scope, Facet(e, "cat"), Facet(e, "title")))]
           lostRow == [code |-> UNKNOWN, title |-> None, count |-> Cardinality(lost)]
<1>1. /\ \A e \in scope : leads[e].snap # None =>
           ~Manual(e) /\ Facet(e, "cat") # None /\ Facet(e, "cat") # UNKNOWN
      /\ \A e \in scope : leads[e].snap = None => Facet(e, "cat") = None /\ Facet(e, "title") = None
  <2>1. \A e \in scope : e \in Saved
    BY DEF InScope
  <2> HIDE DEF scope
  <2> QED
    BY <2>1, FacetsAre
<1>2. Crawled(jobs) = found \cup lost
  BY <1>1 DEF Crawled, Unattributed
<1>3. ASSUME NEW e \in found
      PROVE  JoinedRow(e) = RowOf(jobs, e)
  <2>1. Code(e) = Facet(e, "cat") /\ Facet(e, "cat") # None /\ Facet(e, "cat") # UNKNOWN
    BY <1>1 DEF Code
  <2>2. OfCategory(scope, Facet(e, "cat"), Facet(e, "title")) = Like(jobs, e)
    <3>1. \A x \in scope : Facet(x, "cat") = Facet(e, "cat") <=> x \in Crawled(jobs) /\ Code(x) = Code(e)
      BY <1>1, <2>1 DEF Crawled, Code
    <3>2. \A x \in Crawled(jobs) : x \in scope
      BY DEF Crawled
    <3> HIDE DEF scope, found
    <3> QED
      BY <3>1, <3>2 DEF OfCategory, Like
  <2> HIDE DEF scope, found
  <2> QED
    BY <2>1, <2>2 DEF RowOf
<1>4. ASSUME NEW e \in lost
      PROVE  lostRow = RowOf(jobs, e)
  <2>1. Code(e) = UNKNOWN /\ Facet(e, "title") = None
    BY <1>1 DEF Code, Unattributed
  <2>2. lost = Like(jobs, e)
    <3>1. \A x \in Crawled(jobs) : x \in lost <=> Code(x) = UNKNOWN
      BY <1>1 DEF Crawled, Code, Unattributed
    <3>2. \A x \in lost : x \in Crawled(jobs) /\ Facet(x, "title") = None
      BY <1>1, <1>2 DEF Unattributed
    <3> HIDE DEF lost
    <3> QED
      BY <2>1, <3>1, <3>2 DEF Like
  <2> HIDE DEF lost
  <2> QED
    BY <2>1, <2>2 DEF RowOf
<1>5. LeadCategories(jobs) = {JoinedRow(e) : e \in found} \cup (IF lost = {} THEN {} ELSE {lostRow})
  BY DEF LeadCategories, Joined
<1> HIDE DEF found, lost, JoinedRow, lostRow
<1>6. ASSUME NEW f \in LeadCategories(jobs)
      PROVE  \E e \in Crawled(jobs) : f = RowOf(jobs, e)
  <2>1. CASE f \in {JoinedRow(e) : e \in found}
    BY <1>2, <1>3, <2>1
  <2>2. CASE f = lostRow /\ lost # {}
    BY <1>2, <1>4, <2>2
  <2> QED
    BY <1>5, <2>1, <2>2
<1>7. ASSUME NEW e \in Crawled(jobs)
      PROVE  RowOf(jobs, e) \in LeadCategories(jobs)
  <2>1. CASE e \in found
    BY <1>3, <1>5, <2>1
  <2>2. CASE e \in lost
    BY <1>4, <1>5, <2>2
  <2> QED
    BY <1>2, <2>1, <2>2
<1> QED
  BY <1>6, <1>7

(* Choosing one shows its leads. *)
LEMMA ChosenShows ==
  ASSUME TypeOK, Linked, NEW jobs, NEW x \in Crawled(jobs)
  PROVE  {e \in ExportQuery({}, Query(jobs, {Code(x)}, {})) : ~Manual(e)} = {e \in Crawled(jobs) : Code(e) = Code(x)}
<1> DEFINE q == Query(jobs, {Code(x)}, {})
<1>1. /\ \A e \in InScope(jobs) : leads[e].snap # None =>
           ~Manual(e) /\ Facet(e, "cat") # None /\ Facet(e, "cat") # UNKNOWN
      /\ \A e \in InScope(jobs) : leads[e].snap = None => Facet(e, "cat") = None
      /\ \A e \in InScope(jobs) : leads[e].score >= 0
  <2>1. \A e \in InScope(jobs) : e \in Saved
    BY DEF InScope
  <2>2. \A e \in InScope(jobs) : leads[e].score \in Nat
    BY <2>1, FacetsAre
  <2> QED
    BY <2>1, <2>2, FacetsAre
<1>2. x \in InScope(jobs) /\ Code(x) # None
  BY <1>1, LeadAssumption DEF Crawled, Code
<1>3. ASSUME NEW e \in InScope(jobs), ~Manual(e)
      PROVE  e \in ApplyLeadFilters(q) <=> Code(e) = Code(x)
  <2>1. e \in ApplyLeadFilters(q) <=>
          \/ Facet(e, "cat") = Code(x) \/ (UNKNOWN = Code(x) /\ Unattributed(e))
    BY <1>1, <1>3 DEF ApplyLeadFilters, Query
  <2>2. (Facet(e, "cat") = Code(x) \/ (UNKNOWN = Code(x) /\ Unattributed(e))) <=> Code(e) = Code(x)
    BY <1>1, <1>2, <1>3 DEF Code, Unattributed
  <2> QED
    BY <2>1, <2>2
<1>4. ExportQuery({}, q) = ApplyLeadFilters(q) /\ ApplyLeadFilters(q) \subseteq InScope(jobs)
  BY DEF ExportQuery, ApplyLeadFilters, Query
<1> QED
  BY <1>3, <1>4 DEF Crawled

(* The lists of categories and states, the filters and the exports agree on *)
(* the leads without a snapshot, which a join drops, and on those of one    *)
(* category frozen with different titles: every crawled lead is shown by    *)
(* the rows of one category, counted in one of them, and in some state.     *)
THEOREM LeadsAreFindable ==
  Spec => []Findable
<1>1. ASSUME TypeOK, Linked
      PROVE  Findable
  <2> DEFINE Shown(jobs, f) == {e \in ExportQuery({}, Query(jobs, {f.code}, {})) : ~Manual(e)}
             Counted(jobs, f) == {e \in Shown(jobs, f) : Facet(e, "title") = f.title}
  <2>1. ASSUME NEW jobs \in SUBSET Jobs, NEW y \in Crawled(jobs), NEW g, g = RowOf(jobs, y)
        PROVE  /\ Shown(jobs, g) = {x \in Crawled(jobs) : Code(x) = Code(y)}
               /\ Counted(jobs, g) = Like(jobs, y)
               /\ g.code = Code(y) /\ g.title = Facet(y, "title") /\ g.count = Cardinality(Like(jobs, y))
    <3>1. g.code = Code(y) /\ g.title = Facet(y, "title") /\ g.count = Cardinality(Like(jobs, y))
      BY <2>1 DEF RowOf
    <3>2. Shown(jobs, g) = {x \in Crawled(jobs) : Code(x) = Code(y)}
      BY <1>1, <3>1, ChosenShows
    <3> HIDE DEF Shown
    <3>3. Counted(jobs, g) = Like(jobs, y)
      BY <3>1, <3>2 DEF Like
    <3> HIDE DEF Counted
    <3> QED
      BY <3>1, <3>2, <3>3
  <2> HIDE DEF Shown, Counted
  <2>2. ASSUME NEW jobs \in SUBSET Jobs, NEW e \in Crawled(jobs)
        PROVE  \E f \in LeadCategories(jobs) : \A g \in LeadCategories(jobs) :
                 /\ e \in Shown(jobs, g) <=> g.code = f.code
                 /\ e \in Counted(jobs, g) <=> g = f
    <3> DEFINE f == RowOf(jobs, e)
    <3>1. f \in LeadCategories(jobs) /\ f.code = Code(e) /\ f.title = Facet(e, "title")
      BY <1>1, CategoriesAre DEF RowOf
    <3> HIDE DEF f
    <3>2. ASSUME NEW g \in LeadCategories(jobs)
          PROVE  (e \in Shown(jobs, g) <=> g.code = f.code) /\ (e \in Counted(jobs, g) <=> g = f)
      <4>1. PICK y \in Crawled(jobs) : g = RowOf(jobs, y)
        BY <1>1, CategoriesAre
      <4>2. /\ Shown(jobs, g) = {x \in Crawled(jobs) : Code(x) = Code(y)}
            /\ Counted(jobs, g) = Like(jobs, y)
            /\ g.code = Code(y) /\ g.title = Facet(y, "title")
        BY <2>1, <4>1
      <4>3. e \in Shown(jobs, g) <=> g.code = f.code
        BY <3>1, <4>2
      <4>4. e \in Counted(jobs, g) => g = f
        <5> SUFFICES ASSUME Code(e) = Code(y), Facet(e, "title") = Facet(y, "title") PROVE g = f
          BY <4>2 DEF Like
        <5>1. Like(jobs, e) = Like(jobs, y)
          BY DEF Like
        <5> QED
          BY <4>1, <5>1 DEF RowOf, f
      <4>5. g = f => e \in Counted(jobs, g)
        BY <3>1, <4>2 DEF Like
      <4> QED
        BY <4>3, <4>4, <4>5
    <3> QED
      BY <3>1, <3>2
  <2>3. ASSUME NEW jobs \in SUBSET Jobs, NEW f \in LeadCategories(jobs)
        PROVE  f.count = Cardinality(Counted(jobs, f))
    <3>1. PICK y \in Crawled(jobs) : f = RowOf(jobs, y)
      BY <1>1, CategoriesAre
    <3> QED
      BY <2>1, <3>1
  <2>4. ASSUME NEW jobs \in SUBSET Jobs, NEW e \in Crawled(jobs)
        PROVE  e \in ApplyLeadFilters(Query(jobs, {}, LeadStates(jobs, {})))
    <3>1. e \in InScope(jobs) /\ e \in Saved /\ ~Manual(e)
      BY DEF Crawled, InScope
    <3>2. leads[e].score >= 0 /\ (leads[e].snap # None => Facet(e, "state") # None)
      BY <1>1, <3>1, FacetsAre
    <3>3. Facet(e, "state") # None => Facet(e, "state") \in LeadStates(jobs, {})
      BY <3>1 DEF LeadStates
    <3>4. leads[e].snap = None => Unattributed(e) /\ UNKNOWN \in LeadStates(jobs, {})
      BY <3>1 DEF LeadStates, Unattributed
    <3> QED
      BY <3>1, <3>2, <3>3, <3>4 DEF ApplyLeadFilters, Query
  <2>5. ASSUME NEW jobs \in SUBSET Jobs
        PROVE  /\ \A e \in Crawled(jobs) : \E f \in LeadCategories(jobs) : \A g \in LeadCategories(jobs) :
                    /\ e \in Shown(jobs, g) <=> g.code = f.code
                    /\ e \in Counted(jobs, g) <=> g = f
               /\ \A f \in LeadCategories(jobs) : f.count = Cardinality(Counted(jobs, f))
               /\ Crawled(jobs) \subseteq ApplyLeadFilters(Query(jobs, {}, LeadStates(jobs, {})))
    BY <2>2, <2>3, <2>4
  <2> QED
    BY <2>5 DEF Findable, Shown, Counted, Query, Crawled
<1>2. IInv => TypeOK /\ Linked
  BY DEF IInv
<1> QED
  BY <1>1, <1>2, Invariant, PTL

=============================================================================

----------------------------- MODULE LeadStore -----------------------------
(***************************************************************************)
(* The shared leads and the catalog they are attributed to: saving, CSV    *)
(* imports, edits, scores (cloud/db/mixins/lead_mixin.py), the catalog,    *)
(* its cached netloc map and its imports (domain_mixin.py, importer.py,    *)
(* imports.py), and the frozen snapshots in between.                       *)
(*                                                                         *)
(* Three kinds of thread share them.  Request handlers run on one event    *)
(* loop and are atomic among themselves, but building the netloc map takes *)
(* two steps.  An import runs in a thread of its own, a recomputation of   *)
(* the scores in another, and both interleave with the loop.               *)
(***************************************************************************)
EXTENDS Integers, FiniteSets, Sequences, FiniteSetsExt

CONSTANTS
  None,
  Emails,      \* lower-cased e-mail addresses
  Jobs,        \* crawl jobs; uploads belong to ManualJob
  ManualJob,
  Names,       \* names; the other fields of a contact behave the same way
  Hosts,       \* hosts of the catalog
  Up,          \* a page's host and its parent domains, the nearest first
  Public,      \* bare target suffixes
  Files,       \* sequences of entries [cat, title, state, org, main, contact, ext, legacy]
  Finds,       \* what a page may say of an e-mail: [host, name, dept, band]
  Sheets,      \* sequences of CSV lines [email, name]; no valid address is None
  MaxRows,     \* MAX_ROWS
  WeightSets,  \* weights [high, low, name]
  Recomputes,  \* concurrent recomputations
  ReuseIds,    \* the database hands out the ids of an emptied table again
  MaxOps       \* bound: requests

VARIABLES
  domains,   \* the catalog: [ids -> rows]
  lastId,    \* the last domain id handed out
  cache,     \* _netloc_map_cache
  build,     \* a save waiting for the map its handler builds, or None
  imp,       \* the import thread
  snaps,     \* crawl_snapshots: [<<job, source_domain_id>> -> frozen row]
  leads,     \* [Emails -> row or None]
  occ,       \* lead_occurrences: set of <<email, job>>
  weights,   \* app_settings: lead_score.weights
  phase,     \* where each recomputation is
  readRows,  \* the rows it has read and not scored yet
  newScores, \* the scores it has computed and not committed
  began,     \* history: recomputations that read the rows after the last change of the weights
  rescored,  \* history: one of those has committed
  shaken,    \* history: for each recomputation, what it read and others have changed since
  outdated,  \* history: leads with a score that was computed from such
  crossed,   \* history: the cached map was built across an import's commit
  ops

catalogVars == <<domains, lastId, cache, imp, crossed>>
leadVars == <<snaps, leads, occ, outdated, shaken>>
scoreVars == <<weights, phase, readRows, newScores, began, rescored>>
vars == <<catalogVars, leadVars, scoreVars, build, ops>>

-----------------------------------------------------------------------------
(* The rows of the tables; org is an organisation's title, title that of   *)
(* its category.                                                           *)
UNKNOWN == "__unknown__"

Entries == UNION {{f[k] : k \in DOMAIN f} : f \in Files}
Orgs    == {e.org : e \in Entries}
Cats    == {e.cat : e \in Entries}
Titles  == {e.title : e \in Entries}
States  == {e.state : e \in Entries}

Domain == [org : Orgs, cat : Cats, title : Titles, state : States,
           ext : {e.ext : e \in Entries}, netloc : Hosts \cup {None}]
SnapId == (Jobs \cup {ManualJob}) \X Nat
Lead   == [job : Jobs \cup {ManualJob}, snap : SnapId \cup {None},
           host : DOMAIN Up \cup {None}, name : Names \cup {None},
           dept : {f.dept : f \in Finds} \cup Orgs \cup {None},
           band : {"HIGH", "LOW", None}, channel : {"crawl", "manual"},
           state : {"somewhere", None}, score : Nat]
Snapshot == [org : Orgs, cat : Cats, title : Titles, state : States,
             netloc : Hosts \cup {None}, seed : BOOLEAN]
Capture  == [host : DOMAIN Up, name : Names \cup {None}, dept : {f.dept : f \in Finds},
             band : {"HIGH", "LOW"}, job : Jobs, email : Emails, snap : SnapId \cup {None}]

(* Every entry names a category and a state, and no category is called     *)
(* like the one of the unattributed leads.                                 *)
ASSUME LeadAssumption ==
  /\ Files \subseteq Seq(Entries)
  /\ \A e \in Entries : {e.main, e.contact} \subseteq Hosts \cup {None}
  /\ {None, UNKNOWN} \cap Cats = {} /\ None \notin States \cup {UNKNOWN}
  /\ Up \in [DOMAIN Up -> Seq(DOMAIN Up)]
  /\ \A f \in Finds : f.host \in DOMAIN Up /\ f.name \in Names \cup {None} /\ f.band \in {"HIGH", "LOW"}
  /\ Sheets \subseteq Seq([email : Emails \cup {None}, name : Names \cup {None}])
  /\ WeightSets \subseteq [high : Nat, low : Nat, name : Nat]
  /\ None \notin Lead \cup SnapId \cup Nat

-----------------------------------------------------------------------------
(* shared/scoring.py *)
Score(l, w) ==
  IF l.channel = "manual" THEN 0
  ELSE (IF l.band = "HIGH" THEN w.high ELSE w.low) + (IF l.name = None THEN 0 ELSE w.name)

Scored(l) == [l EXCEPT !.score = Score(l, weights)]

-----------------------------------------------------------------------------
(* The catalog *)

WithId(d, i) ==
  [id |-> i, org |-> d.org, cat |-> d.cat, title |-> d.title, state |-> d.state,
   netloc |-> d.netloc]

(* _build_netloc_domain_map: on a shared netloc the lowest id wins. *)
NetlocMap(rows) ==
  LET ids(h) == {i \in DOMAIN rows : rows[i].netloc = h}
      nets   == {rows[i].netloc : i \in DOMAIN rows} \ {None}
  IN  [h \in nets |->
         LET i == CHOOSE i \in ids(h) : \A j \in ids(h) : i <= j IN WithId(rows[i], i)]

(* resolve_domain_for_url: from the exact host up, never a bare suffix *)
ResolveDomain(host, map) ==
  LET tried == {k \in DOMAIN Up[host] : \A j \in 1..k : Up[host][j] \notin Public}
      hits  == {k \in tried : Up[host][k] \in DOMAIN map}
  IN  IF hits = {} THEN None
      ELSE map[Up[host][CHOOSE k \in hits : \A j \in hits : k <= j]]

(* _resolve_json_entry, and the same in import_all: a contact URL serves   *)
(* as the main one if only it is a target.  Entries without any stay in    *)
(* the catalog, except the legacy ones, which are nothing but their URL.   *)
ResolveEntry(e) ==
  [org |-> e.org, cat |-> e.cat, title |-> e.title, state |-> e.state, ext |-> e.ext,
   netloc |-> IF e.main # None THEN e.main ELSE e.contact]

Gather(file, cats) ==
  [k \in {k \in DOMAIN file : /\ file[k].cat \in cats
                              /\ ~(file[k].legacy /\ ResolveEntry(file[k]).netloc = None)} |->
     ResolveEntry(file[k])]

(* replace_catalog: entries with one external id, or else one URL, collapse *)
(* to one row, in the place of the first and with the data of the last.     *)
EntryKey(es, k) ==
  IF es[k].ext # None THEN <<"ext", es[k].ext>>
  ELSE IF es[k].netloc # None THEN <<"url", es[k].netloc>> ELSE <<"row", k>>

Dedupe(es) ==
  LET same(k) == {j \in DOMAIN es : EntryKey(es, j) = EntryKey(es, k)}
  IN  [k \in {k \in DOMAIN es : \A j \in same(k) : k <= j} |->
         es[CHOOSE j \in same(k) : \A i \in same(k) : i <= j]]

(* Ids ascend in the order of the entries. *)
FirstId == IF ReuseIds THEN 0 ELSE lastId

-----------------------------------------------------------------------------
(* Snapshots *)

(* create_crawl_snapshot: get or insert, never overwrite *)
Frozen(d, seed) ==
  [org |-> d.org, cat |-> d.cat, title |-> d.title, state |-> d.state, netloc |-> d.netloc,
   seed |-> seed]

GetOrInsert(ss, new) ==
  [k \in DOMAIN ss \cup DOMAIN new |-> IF k \in DOMAIN ss THEN ss[k] ELSE new[k]]

CreateSnapshot(ss, j, d, seed) == GetOrInsert(ss, [k \in {<<j, d.id>>} |-> Frozen(d, seed)])

(* get_crawl_snapshots, seeds only *)
SeedsOf(j) == {k \in DOMAIN snaps : k[1] = j /\ snaps[k].seed}

-----------------------------------------------------------------------------
Init ==
  /\ domains = <<>> /\ lastId = 0 /\ cache = None /\ build = None
  /\ imp = [pc |-> "idle", rows |-> <<>>]
  /\ snaps = <<>>
  /\ leads = [e \in Emails |-> None]
  /\ occ = {}
  /\ weights \in WeightSets
  /\ phase = [r \in Recomputes |-> "idle"]
  /\ readRows = [r \in Recomputes |-> [e \in Emails |-> None]]
  /\ newScores = [r \in Recomputes |-> [e \in Emails |-> None]]
  /\ began = {} /\ rescored = TRUE /\ crossed = FALSE
  /\ shaken = [r \in Recomputes |-> {}] /\ outdated = {}
  /\ ops = 0

(* A handler runs when none is on the loop. *)
Request == build = None /\ ops < MaxOps /\ ops' = ops + 1

(* What a recomputation has read and not committed. *)
Held(r) == {e \in Emails : readRows[r][e] # None \/ newScores[r][e] # None}

(* The leads in E are written, with scores of their own. *)
Rewritten(E) ==
  /\ outdated' = outdated \ E
  /\ shaken' = [r \in Recomputes |-> shaken[r] \cup (E \cap Held(r))]

Write(e, l) ==
  /\ leads' = [leads EXCEPT ![e] = l]
  /\ Rewritten(IF l = leads[e] THEN {} ELSE {e})

-----------------------------------------------------------------------------
(* save_lead *)

Rank(band) == CASE band = "HIGH" -> 1 [] band = "LOW" -> 0 [] OTHER -> -1
Fill(old, new) == IF old = None THEN new ELSE old

(* A known e-mail: blanks are filled, better evidence upgrades the band. *)
Enrich_Overwrites(l, c) ==
  LET m == [l EXCEPT !.name = Fill(c.name, @), !.dept = Fill(@, c.dept),
                     !.band = IF Rank(c.band) > Rank(@) THEN c.band ELSE @]
  IN  IF m = l THEN l ELSE Scored(m)

Enrich(l, c) ==
  LET m == [l EXCEPT !.name = Fill(@, c.name), !.dept = Fill(@, c.dept),
                     !.band = IF Rank(c.band) > Rank(@) THEN c.band ELSE @]
  IN  IF m = l THEN l ELSE Scored(m)

(* _record_occurrence: at most one for a lead and a job *)
RecordOccurrence(e, j) == occ' = occ \cup {<<e, j>>}

(* _department_is_url_fallback: the organisation's title is better. *)
Department(c, s, ss) == IF c.dept = "slug" /\ s # None THEN ss[s].org ELSE c.dept

(* A new e-mail is attributed to the domain its page belongs to, whatever  *)
(* seed the crawl came from; a page of no known domain to none.            *)
InsertLead_Inherits(c, map) ==
  LET d  == ResolveDomain(c.host, map)
      ss == IF d = None THEN snaps ELSE CreateSnapshot(snaps, c.job, d, FALSE)
      s  == IF c.snap # None THEN c.snap ELSE IF d = None THEN None ELSE <<c.job, d.id>>
  IN  /\ snaps' = ss
      /\ Write(c.email, Scored([job |-> c.job, snap |-> s, host |-> c.host, name |-> c.name,
                                dept |-> Department(c, s, ss), band |-> c.band,
                                channel |-> "crawl", state |-> None, score |-> 0]))

InsertLead(c, map) ==
  LET d  == ResolveDomain(c.host, map)
      ss == IF d = None \/ (c.snap # None /\ c.snap[2] = d.id) THEN snaps
            ELSE CreateSnapshot(snaps, c.job, d, FALSE)
      s  == IF d = None THEN None ELSE <<c.job, d.id>>
  IN  /\ snaps' = ss
      /\ Write(c.email, Scored([job |-> c.job, snap |-> s, host |-> c.host, name |-> c.name,
                                dept |-> Department(c, s, ss), band |-> c.band,
                                channel |-> "crawl", state |-> None, score |-> 0]))

(* A capture comes with the seed its crawl started from, or with none.      *)
Captures ==
  {[host |-> f.host, name |-> f.name, dept |-> f.dept, band |-> f.band,
    job |-> j, email |-> e, snap |-> s] :
     f \in Finds, j \in Jobs, e \in Emails, s \in (UNION {SeedsOf(i) : i \in Jobs}) \cup {None}}

SaveKnown(c) ==
  /\ leads[c.email] # None
  /\ Write(c.email, Enrich(leads[c.email], c))
  /\ UNCHANGED snaps

(* coordination_save_leads *)
SaveLead ==
  /\ Request
  /\ \E c \in Captures :
       /\ c.snap # None => c.snap[1] = c.job
       /\ RecordOccurrence(c.email, c.job)
       /\ \/ SaveKnown(c)
          \/ leads[c.email] = None /\ cache # None /\ InsertLead(c, cache)
  /\ UNCHANGED <<catalogVars, scoreVars, build>>

(* Without a cached map the handler reads the catalog first ...            *)
StartBuild ==
  /\ Request /\ cache = None
  /\ \E c \in Captures :
       /\ c.snap # None => c.snap[1] = c.job
       /\ leads[c.email] = None
       /\ build' = [capture |-> c, rows |-> domains]
  /\ UNCHANGED <<catalogVars, leadVars, scoreVars>>

(* ... and installs the map later, whatever was invalidated meanwhile.     *)
FinishBuild ==
  /\ build # None
  /\ LET map == NetlocMap(build.rows)
     IN  /\ cache' = map
         /\ crossed' = (build.rows # domains \/ imp.pc = "committed")
         /\ InsertLead(build.capture, map)
         /\ RecordOccurrence(build.capture.email, build.capture.job)
  /\ build' = None
  /\ UNCHANGED <<domains, lastId, imp, scoreVars, ops>>

-----------------------------------------------------------------------------
(* CSV imports and edits *)

(* parse_contacts_csv *)
ParseContacts(sheet) ==
  LET first == {k \in DOMAIN sheet : /\ sheet[k].email # None
                                     /\ \A j \in 1..(k-1) : sheet[j].email # sheet[k].email}
  IN  {sheet[k] : k \in {k \in first : Cardinality({j \in first : j < k}) < MaxRows}}

NewManual(row) ==
  [job |-> ManualJob, snap |-> None, host |-> None, name |-> row.name, dept |-> None,
   band |-> None, channel |-> "manual", state |-> None, score |-> 0]

(* bulk_upsert_manual_leads: crawled leads only get an occurrence. *)
UpsertRow(l, row) ==
  IF l = None THEN NewManual(row)
  ELSE IF l.channel = "manual" THEN Scored([l EXCEPT !.name = Fill(row.name, @)])
  ELSE l

(* import_leads_csv: one commit at the end *)
ImportCsv ==
  /\ Request
  /\ \E sheet \in Sheets :
       LET rows  == ParseContacts(sheet)
           Row(e) == {row \in rows : row.email = e}
           new   == [e \in Emails |-> IF Row(e) = {} THEN leads[e]
                                      ELSE UpsertRow(leads[e], CHOOSE row \in Row(e) : TRUE)]
           hit   == {e \in Emails : Row(e) # {}}
       IN  /\ leads' = new
           /\ Rewritten({e \in hit : new[e] # leads[e]})
           /\ occ' = occ \cup {<<e, ManualJob>> : e \in hit}
  /\ UNCHANGED <<catalogVars, scoreVars, snaps, build>>

(* update_lead: a blank clears a field; only manual leads have a state. *)
Edit(l, n, st) ==
  IF st # None /\ l.channel # "manual" THEN l
  ELSE Scored([l EXCEPT !.name = n, !.state = Fill(st, @)])

UpdateLead ==
  /\ Request
  /\ \E e \in Emails, n \in Names \cup {None}, st \in {None, "somewhere"} :
       /\ leads[e] # None
       /\ Write(e, Edit(leads[e], n, st))
  /\ UNCHANGED <<catalogVars, scoreVars, snaps, occ, build>>

(* coordination_create_job: the seeds that can be crawled are frozen. *)
SeedJob ==
  /\ Request
  /\ \E j \in Jobs, S \in SUBSET {i \in DOMAIN domains : domains[i].netloc # None} :
       /\ SeedsOf(j) = {} /\ S # {}
       /\ snaps' = GetOrInsert(snaps, [k \in {j} \X S |-> Frozen(domains[k[2]], TRUE)])
  /\ UNCHANGED <<catalogVars, scoreVars, leads, occ, outdated, shaken, build>>

-----------------------------------------------------------------------------
(* Changing the catalog *)

(* update_domain_url *)
SetUrl_NoInvalidate ==
  /\ Request
  /\ \E i \in DOMAIN domains, h \in Hosts :
       domains' = [domains EXCEPT ![i].netloc = h]
  /\ UNCHANGED <<lastId, cache, crossed, imp, leadVars, scoreVars, build>>

SetUrl ==
  /\ Request
  /\ \E i \in DOMAIN domains, h \in Hosts :
       domains' = [domains EXCEPT ![i].netloc = h]
  /\ cache' = None /\ crossed' = FALSE
  /\ UNCHANGED <<lastId, imp, leadVars, scoreVars, build>>

(* trigger_import, trigger_json_import: one at a time.  The upload is       *)
(* awaited with the lock held, and if that fails nothing releases it.       *)
StartImport ==
  /\ Request /\ imp.pc = "idle"
  /\ imp' = [imp EXCEPT !.pc = "fetching"]
  /\ UNCHANGED <<domains, lastId, cache, crossed, leadVars, scoreVars, build>>

StartUpload ==
  /\ Request /\ imp.pc = "idle"
  /\ \E pc \in {"reading", "leaked"} : imp' = [imp EXCEPT !.pc = pc]
  /\ UNCHANGED <<domains, lastId, cache, crossed, leadVars, scoreVars, build>>

(* import_from_json: the whole file, or an error and no change *)
ReadFile ==
  /\ imp.pc = "reading"
  /\ \/ \E f \in Files : imp' = [pc |-> "ready", rows |-> Gather(f, Cats)]
     \/ imp' = [imp EXCEPT !.pc = "ended"]
  /\ UNCHANGED <<domains, lastId, cache, crossed, leadVars, scoreVars, build, ops>>

(* import_all: the wanted categories that could be fetched *)
FetchDirectory ==
  /\ imp.pc = "fetching"
  /\ \E f \in Files : \E cats \in SUBSET {f[k].cat : k \in DOMAIN f} :
       imp' = [pc |-> "ready", rows |-> Gather(f, cats)]
  /\ UNCHANGED <<domains, lastId, cache, crossed, leadVars, scoreVars, build, ops>>

(* replace_catalog commits ... *)
ReplaceCatalog ==
  /\ imp.pc = "ready"
  /\ LET es == Dedupe(imp.rows)
     IN  /\ domains' = [i \in {FirstId + k : k \in DOMAIN es} |-> es[i - FirstId]]
         /\ lastId' = Max(DOMAIN domains' \cup {lastId})
  /\ imp' = [imp EXCEPT !.pc = "committed"]
  /\ UNCHANGED <<cache, crossed, leadVars, scoreVars, build, ops>>

(* ... and then invalidates the map, without taking its lock. *)
Invalidate ==
  /\ imp.pc = "committed"
  /\ cache' = None /\ crossed' = FALSE
  /\ imp' = [imp EXCEPT !.pc = "ended"]
  /\ UNCHANGED <<domains, lastId, leadVars, scoreVars, build, ops>>

(* _run_json_import, _run_import: back on the loop *)
EndImport ==
  /\ imp.pc = "ended" /\ build = None
  /\ imp' = [pc |-> "idle", rows |-> <<>>]
  /\ UNCHANGED <<domains, lastId, cache, crossed, leadVars, scoreVars, build, ops>>

-----------------------------------------------------------------------------
(* Scores *)

(* save_config with other weights queues a recomputation, unless the        *)
(* config file cannot be written once the weights are stored.               *)
ChangeWeights ==
  /\ Request
  /\ weights' \in WeightSets \ {weights}
  /\ rescored' = FALSE /\ began' = {}
  /\ shaken' = [r \in Recomputes |-> shaken[r] \cup {e \in Emails : newScores[r][e] # None}]
  /\ \/ \E r \in Recomputes : phase[r] = "idle" /\ phase' = [phase EXCEPT ![r] = "queued"]
     \/ UNCHANGED phase
  /\ UNCHANGED <<catalogVars, snaps, leads, occ, outdated, readRows, newScores, build>>

(* _recompute_lead_scores reads every row, ... *)
ReadRows(r) ==
  /\ phase[r] = "queued"
  /\ phase' = [phase EXCEPT ![r] = "scoring"]
  /\ readRows' = [readRows EXCEPT ![r] = leads]
  /\ began' = began \cup {r}
  /\ UNCHANGED <<catalogVars, leadVars, weights, newScores, rescored, build, ops>>

(* ... scores one after the other with the weights it reads anew for each;  *)
(* the updates wait for each other's rows, and are seen by nobody ...       *)
ScoreRow_Defaults(r, e) ==
  /\ phase[r] = "scoring" /\ readRows[r][e] # None
  /\ newScores' = [newScores EXCEPT ![r][e] = Score(readRows[r][e], CHOOSE w \in WeightSets : TRUE)]
  /\ readRows' = [readRows EXCEPT ![r][e] = None]
  /\ UNCHANGED <<catalogVars, leadVars, weights, phase, began, rescored, build, ops>>

ScoreRow(r, e) ==
  /\ phase[r] = "scoring" /\ readRows[r][e] # None
  /\ newScores' = [newScores EXCEPT ![r][e] = Score(readRows[r][e], weights)]
  /\ readRows' = [readRows EXCEPT ![r][e] = None]
  /\ UNCHANGED <<catalogVars, leadVars, weights, phase, began, rescored, build, ops>>

Ended(r) ==
  /\ phase' = [phase EXCEPT ![r] = "idle"]
  /\ readRows' = [readRows EXCEPT ![r] = [e \in Emails |-> None]]
  /\ newScores' = [newScores EXCEPT ![r] = [e \in Emails |-> None]]
  /\ began' = began \ {r}
  /\ shaken' = [shaken EXCEPT ![r] = {}]

(* ... until recompute_lead_scores commits them all, over whatever else was *)
(* written, ...                                                             *)
CommitScores(r) ==
  /\ phase[r] = "scoring" /\ \A e \in Emails : readRows[r][e] = None
  /\ leads' = [e \in Emails |-> IF newScores[r][e] = None THEN leads[e]
                               ELSE [leads[e] EXCEPT !.score = newScores[r][e]]]
  /\ outdated' = (outdated \ Held(r)) \cup shaken[r]
  /\ rescored' = (rescored \/ r \in began)
  /\ Ended(r)
  /\ UNCHANGED <<catalogVars, snaps, occ, weights, build, ops>>

(* ... or fails, as in a deadlock with another, and nothing has happened.   *)
RollBack(r) ==
  /\ phase[r] # "idle"
  /\ Ended(r)
  /\ UNCHANGED <<catalogVars, snaps, leads, occ, outdated, weights, rescored, build, ops>>

Recompute(r) ==
  ReadRows(r) \/ (\E e \in Emails : ScoreRow(r, e)) \/ CommitScores(r) \/ RollBack(r)

Handlers == SaveLead \/ StartBuild \/ FinishBuild \/ ImportCsv \/ UpdateLead \/ SeedJob
              \/ SetUrl \/ StartImport \/ StartUpload \/ ChangeWeights
ImportThread == ReadFile \/ FetchDirectory \/ ReplaceCatalog \/ Invalidate \/ EndImport

Next == Handlers \/ ImportThread \/ \E r \in Recomputes : Recompute(r)

Spec == Init /\ [][Next]_vars

-----------------------------------------------------------------------------
(* What the browser is shown: filters, facets and exports.  A lead, its     *)
(* job and its joined snapshot, for queries [jobs, cats, states, min].      *)

Saved == {e \in Emails : leads[e] # None}
Manual(e) == leads[e].channel = "manual"
Unattributed(e) == leads[e].snap = None /\ ~Manual(e)
Facet(e, field) == IF leads[e].snap = None THEN None ELSE snaps[leads[e].snap][field]

InScope(jobs) == {e \in Saved : jobs # {} => leads[e].job \in jobs}

(* _apply_lead_filters: an empty filter filters nothing. *)
ApplyLeadFilters(q) ==
  {e \in InScope(q.jobs) :
     /\ q.cats # {} => \/ Manual(e) \/ Facet(e, "cat") \in q.cats
                       \/ UNKNOWN \in q.cats /\ Unattributed(e)
     /\ q.states # {} => \/ Manual(e) \/ Facet(e, "state") \in q.states
                         \/ UNKNOWN \in q.states /\ Unattributed(e)
     /\ Manual(e) \/ leads[e].score >= q.min}

(* _build_export_query: ticked leads, or else whatever the filters admit *)
ExportQuery(ids, q) == IF ids # {} THEN ids \cap Saved ELSE ApplyLeadFilters(q)

(* get_lead_categories, and get_lead_org_types alike: a row for each code   *)
(* and title that some snapshot was frozen with.                            *)
OfCategory(scope, c, t) == {e \in scope : Facet(e, "cat") = c /\ Facet(e, "title") = t}

Joined(scope) ==
  {[code |-> Facet(e, "cat"), title |-> Facet(e, "title"),
    count |-> Cardinality(OfCategory(scope, Facet(e, "cat"), Facet(e, "title")))] :
     e \in {x \in scope : leads[x].snap # None}}

LeadCategories_OnlyJoined(jobs) == Joined(InScope(jobs))

LeadCategories(jobs) ==
  LET scope == InScope(jobs)
      lost  == {e \in scope : Unattributed(e)}
  IN  Joined(scope)
      \cup (IF lost = {} THEN {}
            ELSE {[code |-> UNKNOWN, title |-> None, count |-> Cardinality(lost)]})

(* get_lead_states *)
LeadStates(jobs, cats) ==
  LET scope == InScope(jobs)
  IN  ({Facet(e, "state") : e \in {x \in scope : cats # {} => Facet(x, "cat") \in cats}} \ {None})
      \cup ({leads[e].state : e \in scope} \ {None})
      \cup (IF \E e \in scope : Unattributed(e) THEN {UNKNOWN} ELSE {})

-----------------------------------------------------------------------------
IsCatalog(d) == DOMAIN d \subseteq 1..lastId /\ d \in [DOMAIN d -> Domain]

TypeOK ==
  /\ lastId \in Nat /\ IsCatalog(domains)
  /\ cache # None =>
       cache \in [DOMAIN cache -> [id : 1..lastId, org : Orgs, cat : Cats, title : Titles,
                                   state : States, netloc : Hosts \cup {None}]]
  /\ build # None =>
       /\ build = [capture |-> build.capture, rows |-> build.rows]
       /\ build.capture \in Capture /\ IsCatalog(build.rows)
  /\ imp = [pc |-> imp.pc, rows |-> imp.rows]
  /\ imp.pc \in {"idle", "leaked", "reading", "fetching", "ready", "committed", "ended"}
  /\ imp.rows \in [DOMAIN imp.rows -> Domain]
  /\ DOMAIN imp.rows = {} \/ \E f \in Files : DOMAIN imp.rows \subseteq DOMAIN f
  /\ snaps \in [DOMAIN snaps -> Snapshot] /\ DOMAIN snaps \subseteq Jobs \X (1..lastId)
  /\ leads \in [Emails -> Lead \cup {None}]
  /\ occ \subseteq Emails \X (Jobs \cup {ManualJob})
  /\ weights \in WeightSets
  /\ phase \in [Recomputes -> {"idle", "queued", "scoring"}]
  /\ readRows \in [Recomputes -> [Emails -> Lead \cup {None}]]
  /\ newScores \in [Recomputes -> [Emails -> Nat \cup {None}]]
  /\ began \subseteq Recomputes /\ rescored \in BOOLEAN
  /\ shaken \in [Recomputes -> SUBSET Emails] /\ outdated \subseteq Emails
  /\ crossed \in BOOLEAN
  /\ ops \in Nat

-----------------------------------------------------------------------------
(* A crawled lead only gets better: no field that was known is lost or      *)
(* replaced and its band never falls, however captures, uploads, imports    *)
(* and recomputations follow each other, unless somebody edits it; and what *)
(* is known of where it came from, its frozen snapshot included, never      *)
(* changes at all.                                                          *)
NeverDegrades ==
  [][/\ \A e \in Saved :
          /\ leads'[e] # None
          /\ \A x \in {"job", "snap", "host", "channel"} : leads'[e][x] = leads[e][x]
          /\ ~Manual(e) /\ ~UpdateLead =>
                /\ \A x \in {"name", "dept"} : leads[e][x] # None => leads'[e][x] = leads[e][x]
                /\ Rank(leads'[e].band) >= Rank(leads[e].band)
     /\ \A k \in DOMAIN snaps : k \in DOMAIN snaps' /\ snaps'[k] = snaps[k]]_vars

(* A lead is attributed to the organisation that the map in force names for *)
(* the page it was found on, by the nearest parent domain, and to none when *)
(* there is none, whatever seed its crawl started from and whatever the job *)
(* has already frozen.                                                      *)
AttributedToSource ==
  [][\A e \in Emails : leads[e] = None /\ leads'[e] # None /\ leads'[e].channel = "crawl" =>
       LET d == ResolveDomain(leads'[e].host, cache')
           s == leads'[e].snap
       IN  IF d = None THEN s = None ELSE s # None /\ snaps'[s].org = d.org]_vars

(* Once a recomputation that read the rows after the last change of the    *)
(* weights has committed, every score is the one the weights in force give, *)
(* through any order of captures, edits, uploads, and other recomputations  *)
(* that commit or roll back; except where one of them committed a score it  *)
(* had computed from a row or weights that others then changed.             *)
ScoreAgrees ==
  rescored => \A e \in Saved \ outdated : leads[e].score = Score(leads[e], weights)

(* Every crawled lead of the jobs looked at is shown by the rows of exactly *)
(* one of the categories offered, the unattributed ones by "Unknown", and   *)
(* is counted in exactly one of these rows, that of the title it was frozen *)
(* with; and some offered state shows every one.                            *)
Findable ==
  \A jobs \in SUBSET Jobs :
    LET cats    == LeadCategories(jobs)
        Q(c, s) == [jobs |-> jobs, cats |-> c, states |-> s, min |-> 0]
        Shown(f) == {e \in ExportQuery({}, Q({f.code}, {})) : ~Manual(e)}
        Counted(f) == {e \in Shown(f) : Facet(e, "title") = f.title}
        crawled == {e \in InScope(jobs) : ~Manual(e)}
    IN  /\ \A e \in crawled : \E f \in cats : \A g \in cats :
             /\ e \in Shown(g) <=> g.code = f.code
             /\ e \in Counted(g) <=> g = f
        /\ \A f \in cats : f.count = Cardinality(Counted(f))
        /\ crawled \subseteq ApplyLeadFilters(Q({}, LeadStates(jobs, {})))

(* One row for one category: what the list of categories would be if titles *)
(* never changed between imports and codes never collided.                  *)
OneRowPerCategory ==
  \A jobs \in SUBSET Jobs : \A f, g \in LeadCategories(jobs) : f.code = g.code => f = g

(* The map that attributes leads is that of the catalog, except between an  *)
(* import's commit and its invalidation, and after a save built it across   *)
(* such a commit.                                                           *)
CacheFresh ==
  ~crossed /\ imp.pc # "committed" /\ build = None /\ cache # None => cache = NetlocMap(domains)
=============================================================================

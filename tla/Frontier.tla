------------------------------ MODULE Frontier ------------------------------
(***************************************************************************)
(* One crawl job's engine (agent/crawler/engine.py): the priority queue    *)
(* and its workers, the visited set, the budgets of pagination chains, the *)
(* checkpoint that a thread assembles from them while the event loop runs, *)
(* this machine's crawl history (agent/localdb.py), crashes of the agent   *)
(* and resumptions of the job (agent/api.py).                              *)
(*                                                                         *)
(* A step of a worker is what happens between two awaits; parsing and      *)
(* saving leads are one step with the discovery that follows.  The         *)
(* checkpoint thread runs at the same time as the loop, so it reads in two *)
(* steps: the pending items, and later the visited set and the counters.   *)
(***************************************************************************)
EXTENDS Integers, FiniteSets, Sequences, SequencesExt, TLC

CONSTANTS
  None,        \* no page, item, chain or checkpoint
  Workers,
  Urls,        \* absolute URLs of the web
  Links,       \* [Urls -> Seq([to, param, next, pager, hot])]: raw_links of a page
  Seeds,       \* sequence of URLs
  SeedSites,   \* URLs on the seeds' domains
  Aliases,     \* [Urls -> Urls]: _url_key: scheme, www and slash ignored
  Skippable,   \* URLs whose path has a skipped extension
  Gov,         \* URLs with a target suffix
  Hot,         \* URLs that contain a priority keyword
  Loud,        \* URLs the server answers at first without their script's content
  MaxDepth,    \* max_depth, 0 for none
  MaxLinks,    \* max_links_per_page, 0 for none
  Pagination,  \* pagination.enabled
  MaxHops,     \* max_pagination_pages
  MaxChain,    \* max_chain_children
  History0,    \* URLs this machine visited recently, before the job
  Backpressure,\* the outbox may be backed up
  MaxFaults,   \* bound: crashes, stalls and failed fetches
  MaxSaves     \* bound: checkpoints begun

(* An entry of the queue *)
Item == [id : Nat \ {0}, url : Urls, depth : Nat, seed : BOOLEAN, hops : 0..MaxHops,
         chain : Nat \cup {None}]

ASSUME FrontierAssumption ==
  /\ Links \in [Urls -> Seq([to : Urls, param : {"none", "int", "other"}, next : BOOLEAN,
                             pager : BOOLEAN, hot : BOOLEAN])]
  /\ Seeds \in Seq(Urls) /\ Aliases \in [Urls -> Urls] /\ History0 \subseteq Urls
  /\ MaxDepth \in Nat /\ MaxLinks \in Nat /\ MaxHops \in Nat /\ MaxChain \in Nat
  /\ MaxFaults \in Nat /\ MaxSaves \in Nat
  /\ None \notin Nat \cup Urls \cup Item

VARIABLES
  phase,      \* the engine's run(): running, closing, finished, cancelled, done; or down
  mem,        \* the engine's attributes and the ghosts that go with them
  hand,       \* what each worker does and with which item
  unfinished, \* the queue's count of items put and not yet acknowledged
  ckpt,       \* the checkpoint thread and what it has read
  disk,       \* the row of the table frontier, or None
  history,    \* URLs in visited_history
  known,      \* history variable: keys the job ever queued
  tried,      \* history variable: keys of the items workers ended
  faults,     \* crashes, stalls and failed fetches so far
  saves       \* checkpoints begun so far

vars == <<phase, mem, hand, unfinished, ckpt, disk, history, known, tried, faults, saves>>

(* mem.spent[c] is the cell chain_budget of the chain that item c began.   *)
(* Ghosts: kids, the pages that drew from a chain's cell; ended, the keys  *)
(* of finished items; gap, the keys a checkpoint may have left out.        *)
Idle == [pc |-> "idle", item |-> None]
Rest == [pc |-> "idle", from |-> None, items |-> {}, spent |-> <<>>]

-----------------------------------------------------------------------------
(* agent/crawler/pagination.py *)

(* is_pagination_link: a paging parameter decides alone. *)
IsPaginationLink(l) ==
  IF l.param # "none" THEN l.param = "int" ELSE l.next \/ l.pager

(* elect_pagination_target: rel="next" first, else document order. *)
ElectPaginationTarget(links) ==
  LET accepted == SelectSeq(links, IsPaginationLink)
      next     == SelectSeq(accepted, LAMBDA l : l.next)
  IN  IF ~Pagination \/ accepted = <<>> THEN None
      ELSE IF next # <<>> THEN next[1].to ELSE accepted[1].to

(* _url_key: the page a URL stands for *)
Key(u) == Aliases[u]

(* _is_skippable and _is_gov_domain, which _enqueue checks again *)
Allowed(u) == u \notin Skippable /\ u \in Gov

(* The next item: a seed, or a link of a page *)
SeedItem(m, u) ==
  [id |-> m.counter + 1, url |-> u, depth |-> 0, seed |-> TRUE, hops |-> 0, chain |-> None]
LinkItem(m, u, depth, hops, chain) ==
  [id |-> m.counter + 1, url |-> u, depth |-> depth, seed |-> FALSE, hops |-> hops, chain |-> chain]

(* _enqueue: the key is taken before the item is queued; seeds take none. *)
Put(m, i) ==
  IF ~Allowed(i.url) \/ Key(i.url) \in m.visited THEN m ELSE
    [m EXCEPT !.counter = i.id,
              !.visited = IF i.seed THEN @ ELSE @ \cup {Key(i.url)},
              !.pending = {j \in @ : j.id # i.id} \cup {i}]

(* _url_priority, and the order of the queue *)
Priority(i) == IF Hot = {} \/ i.url \in Hot THEN 0 ELSE 1
Before(i, j) ==
  \/ Priority(i) < Priority(j)
  \/ Priority(i) = Priority(j) /\ i.id < j.id

(* _enqueue_links: one link of the page in hand.  s adds to mem the links  *)
(* added so far and whether the loop has ended.                            *)
Capped(s, it, l, target) ==
  l.to # target /\ it.chain = None /\ MaxLinks > 0 /\ s.added >= MaxLinks

(* A chain's first item gets a cell of its own. *)
WithCell(spent, c) == [x \in DOMAIN spent \cup {c} |-> IF x = c THEN 0 ELSE spent[x]]

Hop(s, it, l) ==
  LET c     == IF it.chain # None THEN it.chain ELSE s.m.counter + 1
      cells == IF it.chain # None THEN s.m.spent ELSE WithCell(s.m.spent, c)
  IN  IF it.hops >= MaxHops THEN s
      ELSE [s EXCEPT !.m = [Put(@, LinkItem(@, l.to, it.depth, it.hops + 1, c)) EXCEPT !.spent = cells]]

Child(s, it, l) ==
  LET p     == Put(s.m, LinkItem(s.m, l.to, it.depth + 1, it.hops, None))
      drawn == [p EXCEPT !.spent = [p.spent EXCEPT ![it.chain] = @ + 1],
                         !.kids = p.kids \cup {<<it.chain, Key(l.to)>>}]
  IN  IF it.chain = None THEN [s EXCEPT !.m = p, !.added = @ + 1]
      ELSE IF s.m.spent[it.chain] >= MaxChain THEN s
      ELSE [s EXCEPT !.m = drawn]

Consider(s, it, l, target) ==
  IF s.over THEN s
  ELSE IF Capped(s, it, l, target) THEN [s EXCEPT !.over = target = None]
  ELSE IF ~Allowed(l.to) \/ Key(l.to) \in s.m.visited THEN s
  ELSE IF l.to = target THEN Hop(s, it, l)
  ELSE IF ~(it.seed \/ Hot = {} \/ it.url \in Hot \/ l.to \in Hot \/ l.hot) THEN s
  ELSE Child(s, it, l)

(* The loop after each of the page's links *)
Followed(m, it) ==
  LET links  == Links[it.url]
      target == ElectPaginationTarget(links)
      s[n \in 0..Len(links)] ==
        IF n = 0 THEN [m |-> m, added |-> 0, over |-> FALSE]
        ELSE Consider(s[n-1], it, links[n], target)
  IN  s

EnqueueLinks(m, it) == Followed(m, it)[Len(Links[it.url])].m

-----------------------------------------------------------------------------
(* Starting and resuming *)

(* _local_visited_bootstrap: recent history outside the seeds' domains *)
Bootstrap(h) == {Key(u) : u \in h \ SeedSites}

Seeded(h) ==
  LET m[n \in 0..Len(Seeds)] ==
        IF n = 0 THEN [visited |-> Bootstrap(h), pending |-> {}, counter |-> 0, spent |-> <<>>,
                       kids |-> {}, ended |-> {}, gap |-> Bootstrap(h)]
        ELSE Put(m[n-1], SeedItem(m[n-1], Seeds[n]))
  IN  m

Fresh(h) == Seeded(h)[Len(Seeds)]

(* _rehydrate_frontier: one cell for each chain, as full as it was *)
Rehydrate_NewCells(d, h) ==
  [visited |-> d.visited \cup Bootstrap(h), pending |-> d.items, counter |-> d.counter,
   spent |-> [c \in DOMAIN d.spent |-> 0], kids |-> d.kids, ended |-> d.ended,
   gap |-> d.gap \cup Bootstrap(h)]

Rehydrate_ForgetsCounter(d, h) ==
  [visited |-> d.visited \cup Bootstrap(h), pending |-> d.items, counter |-> 0,
   spent |-> d.spent, kids |-> d.kids, ended |-> d.ended, gap |-> d.gap \cup Bootstrap(h)]

Rehydrate(d, h) ==
  [visited |-> d.visited \cup Bootstrap(h), pending |-> d.items, counter |-> d.counter,
   spent |-> d.spent, kids |-> d.kids, ended |-> d.ended, gap |-> d.gap \cup Bootstrap(h)]

Start(h, d) ==
  LET m == IF d = None THEN Fresh(h) ELSE Rehydrate(d, h)
  IN  /\ mem' = m
      /\ unfinished' = Cardinality(m.pending)
      /\ known' = known \cup {Key(i.url) : i \in m.pending}

Keys(items) == {Key(i.url) : i \in items}

Init ==
  /\ phase = "running"
  /\ mem = Fresh(History0)
  /\ hand = [w \in Workers |-> Idle]
  /\ unfinished = Cardinality(mem.pending)
  /\ ckpt = Rest
  /\ disk = None
  /\ history = History0
  /\ known = Keys(mem.pending)
  /\ tried = {}
  /\ faults = 0 /\ saves = 0

-----------------------------------------------------------------------------
(* Workers *)

Held == {hand[w].item : w \in Workers} \ {None}
Queued == mem.pending \ Held

(* _worker takes the least item; it stays in _pending until it is done. *)
Take_Pops(w) ==
  /\ phase = "running" /\ hand[w] = Idle
  /\ \E i \in Queued :
       /\ \A j \in Queued \ {i} : Before(i, j)
       /\ hand' = [hand EXCEPT ![w] = [pc |-> "fetch", item |-> i]]
       /\ mem' = [mem EXCEPT !.pending = @ \ {i}]
  /\ UNCHANGED <<phase, unfinished, ckpt, disk, history, known, tried, faults, saves>>

Take(w) ==
  /\ phase = "running" /\ hand[w] = Idle
  /\ \E i \in Queued :
       /\ \A j \in Queued \ {i} : Before(i, j)
       /\ hand' = [hand EXCEPT ![w] = [pc |-> "fetch", item |-> i]]
  /\ UNCHANGED <<phase, mem, unfinished, ckpt, disk, history, known, tried, faults, saves>>

(* _fetch_httpx (after one retry), _fetch_playwright, _fetch: what comes   *)
(* back is no page, the bare page or the rendered one.                     *)
FetchHttpx == {"nothing", "bare"}
FetchPlaywright == {"nothing", "rendered"}
Fetch(u) ==
  {IF h = "bare" /\ u \notin Loud THEN h ELSE IF p = "rendered" THEN p ELSE h :
     h \in FetchHttpx, p \in FetchPlaywright}

(* task_done, once for each item taken, whatever became of it; m is the    *)
(* engine's state after its links.                                         *)
Ends_NoAck(w, m) ==
  /\ mem' = [m EXCEPT !.pending = @ \ {hand[w].item},
                      !.ended = @ \cup {Key(hand[w].item.url)}]
  /\ unfinished' = unfinished + m.counter - mem.counter
  /\ tried' = tried \cup {Key(hand[w].item.url)}
  /\ hand' = [hand EXCEPT ![w] = Idle]

Ends(w, m) ==
  /\ mem' = [m EXCEPT !.pending = @ \ {hand[w].item},
                      !.ended = @ \cup {Key(hand[w].item.url)}]
  /\ unfinished' = unfinished + m.counter - mem.counter - 1
  /\ tried' = tried \cup {Key(hand[w].item.url)}
  /\ hand' = [hand EXCEPT ![w] = Idle]

(* _process: without a page the item ends there. *)
FetchFails(w) ==
  /\ phase = "running" /\ hand[w].pc = "fetch" /\ faults < MaxFaults
  /\ "nothing" \in Fetch(hand[w].item.url)
  /\ Ends(w, mem)
  /\ faults' = faults + 1
  /\ UNCHANGED <<phase, ckpt, disk, history, known, saves>>

(* mark_visited *)
MarkVisited(u) == history \cup {u}

(* _process marks the page in the history before it is parsed; not seeds. *)
Visit(w) ==
  /\ phase = "running" /\ hand[w].pc = "fetch"
  /\ Fetch(hand[w].item.url) \ {"nothing"} # {}
  /\ hand' = [hand EXCEPT ![w].pc = "parse"]
  /\ history' = IF hand[w].item.seed THEN history ELSE MarkVisited(hand[w].item.url)
  /\ UNCHANGED <<phase, mem, unfinished, ckpt, disk, known, tried, faults, saves>>

(* The page is parsed, its leads go to the outbox, and its links are       *)
(* followed, unless the page is too deep or the outbox backed up.          *)
Discover(w) ==
  LET it == hand[w].item
      m  == EnqueueLinks(mem, it)
  IN  /\ phase = "running" /\ hand[w].pc = "parse"
      /\ \/ /\ MaxDepth = 0 \/ it.depth < MaxDepth
            /\ Ends(w, m)
            /\ known' = known \cup Keys(m.pending)
         \/ /\ Backpressure \/ (MaxDepth # 0 /\ it.depth >= MaxDepth)
            /\ Ends(w, mem)
            /\ UNCHANGED known
      /\ UNCHANGED <<phase, ckpt, disk, history, faults, saves>>

(* The time limit of a page, or an exception, ends it while it is parsed,  *)
(* when it is already in the history (before, it is a failed fetch).       *)
Stalls(w) ==
  /\ phase = "running" /\ hand[w].pc = "parse" /\ faults < MaxFaults
  /\ Ends(w, mem)
  /\ faults' = faults + 1
  /\ UNCHANGED <<phase, ckpt, disk, history, known, saves>>

-----------------------------------------------------------------------------
(* The checkpoint *)

(* _checkpoint_loop hands _save_checkpoint to its thread. *)
StartCheckpoint ==
  /\ phase = "running" /\ ckpt.pc = "idle" /\ saves < MaxSaves
  /\ saves' = saves + 1
  /\ ckpt' = [Rest EXCEPT !.pc = "items", !.from = mem]
  /\ UNCHANGED <<phase, mem, hand, unfinished, disk, history, known, tried, faults>>

(* The loop over _pending.values() while the event loop changes it: if it  *)
(* notices another size it raises and this checkpoint is skipped, else it  *)
(* returns some mixture of the items before and after the change.          *)
ReadItems ==
  LET was == ckpt.from.pending
      now == mem.pending
  IN  /\ ckpt.pc = "items"
      /\ \/ \E s \in {was, now, was \cap now, was \cup now} :
              /\ s \in {was, now} \/ Cardinality(was) = Cardinality(now)
              /\ \E cells \in {ckpt.from.spent, mem.spent} :
                   /\ \A i \in s : i.chain # None => i.chain \in DOMAIN cells
                   /\ ckpt' = [ckpt EXCEPT !.pc = "visited", !.items = s, !.spent = cells]
         \/ /\ Cardinality(was) # Cardinality(now)
            /\ ckpt' = Rest
      /\ UNCHANGED <<phase, mem, hand, unfinished, disk, history, known, tried, faults, saves>>

(* The visited set and the counters are read, and the row is written. *)
SaveCheckpoint ==
  /\ ckpt.pc = "visited"
  /\ disk' = [items |-> ckpt.items, visited |-> mem.visited, counter |-> mem.counter,
              spent |-> ckpt.spent,
              kids |-> {k \in ckpt.from.kids : k[1] \in DOMAIN ckpt.spent},
              ended |-> mem.ended,
              gap |-> mem.gap \cup (mem.visited \ ckpt.from.visited)]
  /\ ckpt' = Rest
  /\ UNCHANGED <<phase, mem, hand, unfinished, history, known, tried, faults, saves>>

-----------------------------------------------------------------------------
(* The ends of run() *)

(* queue.join returns; the tasks are cancelled, idle as they are. *)
JoinReturns ==
  /\ phase = "running" /\ unfinished = 0
  /\ phase' = "closing"
  /\ UNCHANGED <<mem, hand, unfinished, ckpt, disk, history, known, tried, faults, saves>>

(* The pools are shut down, which waits for a running checkpoint. *)
PoolsClose_NoWait ==
  /\ phase = "closing"
  /\ phase' = "finished"
  /\ UNCHANGED <<mem, hand, unfinished, ckpt, disk, history, known, tried, faults, saves>>

PoolsClose ==
  /\ phase = "closing" /\ ckpt.pc = "idle"
  /\ phase' = "finished"
  /\ UNCHANGED <<mem, hand, unfinished, ckpt, disk, history, known, tried, faults, saves>>

(* _run_crawl reports the job done and clears the checkpoint. *)
ClearFrontier ==
  /\ phase = "finished"
  /\ phase' = "done"
  /\ disk' = None
  /\ UNCHANGED <<mem, hand, unfinished, ckpt, history, known, tried, faults, saves>>

(* Cancelled workers drop the items in their hands; a running checkpoint   *)
(* completes; the checkpoint on disk stays.                                *)
Cancel ==
  /\ phase = "running"
  /\ phase' = "cancelled"
  /\ mem' = [mem EXCEPT !.pending = @ \ Held]
  /\ unfinished' = unfinished - Cardinality(Held)
  /\ hand' = [w \in Workers |-> Idle]
  /\ UNCHANGED <<ckpt, disk, history, known, tried, faults, saves>>

(* The agent dies, or cannot report and gives the job up to the reaper. *)
Crash ==
  /\ phase \in {"running", "closing", "finished"} /\ faults < MaxFaults
  /\ faults' = faults + 1
  /\ phase' = "down"
  /\ hand' = [w \in Workers |-> Idle]
  /\ ckpt' = Rest
  /\ UNCHANGED <<mem, unfinished, disk, history, known, tried, saves>>

(* resume_job: load_frontier, then run() with it or from the seeds *)
Resume ==
  /\ phase = "down"
  /\ phase' = "running"
  /\ Start(history, disk)
  /\ UNCHANGED <<hand, ckpt, disk, history, tried, faults, saves>>

Work(w) ==
  Take(w) \/ FetchFails(w) \/ Visit(w) \/ Discover(w) \/ Stalls(w)
Checkpoint == StartCheckpoint \/ ReadItems \/ SaveCheckpoint
Close == JoinReturns \/ PoolsClose \/ ClearFrontier

Next ==
  \/ \E w \in Workers : Work(w)
  \/ Checkpoint
  \/ Close
  \/ Cancel \/ Crash \/ Resume

Spec == Init /\ [][Next]_vars

(* Workers are tasks of a running loop, a page has a time limit, a thread  *)
(* runs to its end: something of these is taken as long as one of them can *)
(* be.  Nobody need cancel or resume.                                      *)
FairSpec == Spec /\ WF_vars((\E w \in Workers : Work(w)) \/ ReadItems \/ SaveCheckpoint \/ Close)

-----------------------------------------------------------------------------
(* Type correctness: the shapes of the engine's structures; in particular  *)
(* task_done() is never called more often than items were put.             *)
IsMemory(m) ==
  /\ m = [visited |-> m.visited, pending |-> m.pending, counter |-> m.counter, spent |-> m.spent,
          kids |-> m.kids, ended |-> m.ended, gap |-> m.gap]
  /\ \A i \in m.pending : i \in Item /\ (i.chain # None => i.chain \in DOMAIN m.spent)
  /\ m.counter \in Nat
  /\ DOMAIN m.spent \subseteq 1..m.counter /\ \A c \in DOMAIN m.spent : m.spent[c] \in 0..MaxChain
  /\ m.visited \cup m.ended \cup m.gap \subseteq Urls

TypeOK ==
  /\ phase \in {"running", "closing", "finished", "cancelled", "done", "down"}
  /\ IsMemory(mem)
  /\ known \cup tried \cup history \subseteq Urls
  /\ \A w \in Workers : \/ hand[w] = Idle
                        \/ hand[w].pc \in {"fetch", "parse"} /\ hand[w].item \in Item
  /\ hand = [w \in Workers |-> [pc |-> hand[w].pc, item |-> hand[w].item]]
  /\ unfinished \in Nat
  /\ ckpt.pc \in {"idle", "items", "visited"}
  /\ ckpt = [pc |-> ckpt.pc, from |-> ckpt.from, items |-> ckpt.items, spent |-> ckpt.spent]
  /\ faults \in 0..MaxFaults /\ saves \in 0..MaxSaves

(* queue.join returns exactly when nothing is pending: the queue's count   *)
(* agrees with _pending, whose keys, the counters, are unique also after a *)
(* resume, whatever the checkpoint's reads saw (engine.py:110, 396, 444).  *)
JoinIsExact ==
  phase = "running" => /\ unfinished = Cardinality(mem.pending)
                       /\ Held \subseteq mem.pending

(* A key in the visited set is pending or was worked on, save what a       *)
(* resume knows only through a checkpoint's later reads: nothing in hand   *)
(* or in the queue at a checkpoint is lost by a crash (engine.py:350).     *)
NothingForgotten ==
  phase # "cancelled" =>
    mem.visited \subseteq mem.gap \cup Keys(mem.pending) \cup mem.ended

(* Two workers never hold the same page: links are taken before they are   *)
(* queued, and a checkpoint's visited set is never older than its items    *)
(* (engine.py:119, 371).                                                   *)
QueuedOnce ==
  \A i, j \in mem.pending : ~i.seed /\ ~j.seed /\ Key(i.url) = Key(j.url) => i = j

(* The pages of one pagination chain share one budget, through resumptions *)
(* too: together they never draw more than max_chain_children structural   *)
(* children from it (engine.py:36, 382).                                   *)
ChainBounded ==
  \A c \in DOMAIN mem.spent : Cardinality({k \in mem.kids : k[1] = c}) <= MaxChain

(* A job that is done leaves no checkpoint: a checkpoint still being       *)
(* written when the queue runs dry does not come back after it was cleared *)
(* (engine.py:286, agent/api.py:107).                                      *)
ClearedStaysCleared == phase = "done" => disk = None

(* A crawl ends: every taken item is acknowledged, whatever happens to it, *)
(* and discovery runs out of pages (engine.py:263, 441).                   *)
CrawlEnds == phase = "running" ~> phase # "running"

(* .docs/resilience.md:50: with a checkpoint the resume is exact, so a job *)
(* that is done has worked on every page it ever queued.                   *)
ResumeIsExact == phase = "done" => known \subseteq tried
=============================================================================

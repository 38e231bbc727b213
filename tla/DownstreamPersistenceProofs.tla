--------------------- MODULE DownstreamPersistenceProofs ---------------------
(***************************************************************************)
(* Proofs about the transaction that stores a fetched page, and about the   *)
(* windows its run has frozen.                                             *)
(***************************************************************************)
EXTENDS DownstreamWindows, FiniteSetTheorems, WellFoundedInduction, TLAPS

\* An observation is identified by run, item and key, an item has one FIRST_SEEN.
UniqueKeys(O) == \A o, p \in O : <<o.run, o.item, o.key>> = <<p.run, p.item, p.key>> => o = p

OneFirst(O) ==
    \A o, p \in O : o.kind = "first_seen" /\ p.kind = "first_seen" /\ o.item = p.item => o = p

Introduced(O) ==
    \A o \in O : \E p \in O : p.item = o.item /\ p.hash = o.hash /\ p.kind # "duplicate_same_projection"

\* The projection of an observation.
Projected(o) == [run |-> o.run, item |-> o.item, key |-> o.key, hash |-> o.hash]

Coherent(O, Q) ==
    UniqueKeys(O) /\ OneFirst(O) /\ Introduced(O) /\ Q = {Projected(o) : o \in O}

\* The observations and projections the transaction of a target sees.
SeenObs(t) == obs \cup page[t].obs
SeenProj(t) == proj \cup page[t].proj

CoherentRows ==
    /\ Coherent(obs, proj)
    /\ \A t \in Targets : Coherent(SeenObs(t), SeenProj(t))

\* The raw items and who has seen them first.
RawInv ==
    /\ \A i \in Items : ~raw[i].stored => raw[i].run = NoRun
    /\ \A i \in Items : raw[i].run # NoRun =>
          \E o \in obs : o.item = i /\ o.kind = "first_seen" /\ o.run = raw[i].run
    /\ \A o \in obs : raw[o.item].stored /\ (o.kind = "first_seen" => raw[o.item].run = o.run)

\* What an open transaction has written.  No two have inserted the same raw item.
PageRows(t) ==
    LET p == page[t] IN
    /\ \A o \in p.obs : o.run = RunOf(t) /\ o.key = p.key
    /\ \A o \in p.obs : raw[o.item].stored \/ o.item \in p.stored
    /\ \A o \in p.obs : o.kind = "first_seen" => o.item \in p.stored
    /\ \A i \in p.stored : ~raw[i].stored /\ \E o \in p.obs : o.item = i /\ o.kind = "first_seen"

PageCounts(t) ==
    LET p == page[t] IN
    /\ IsFiniteSet(p.stored) /\ p.new = Cardinality(p.stored)
    /\ IsFiniteSet(p.obs) /\ Cardinality(p.obs) <= p.fetched
    /\ p.new <= p.fetched
    /\ p.fetched > 0 => \E o \in SeenObs(t) : o.run = RunOf(t)

PageInv(t) ==
    /\ page[t].open => Running(t) /\ page[t].key \in Keys \cup {"run"} /\ page[t].created > 0
    /\ ~page[t].open => page[t] = Closed(page[t].key)
    /\ PageRows(t)
    /\ PageCounts(t)

Pages ==
    /\ \A t \in Targets : PageInv(t)
    /\ \A t, u \in Targets : t # u => page[t].stored \cap page[u].stored = {}

\* A run that has not started, and a single request that has not ended, has stored nothing.
RunInv ==
    /\ \A t \in Targets : \A n \in 1 .. MaxRuns : n > current[t] => runs[<<t, n>>].status = "none"
    /\ \A r \in RunIds : runs[r].status = "none" => runs[r].fetched = 0
    /\ \A r \in RunIds : r[1] \notin Paged /\ runs[r].status = "running" => runs[r].fetched = 0

Own(r) == {o \in obs : o.run = r}
Stored(r) == {i \in Items : raw[i].run = r}

Counts(r) ==
    /\ IsFiniteSet(Stored(r)) /\ runs[r].new = Cardinality(Stored(r))
    /\ runs[r].new + runs[r].duplicates = runs[r].fetched
    /\ Cardinality(Own(r)) <= runs[r].fetched
    /\ (runs[r].fetched > 0) = (Own(r) # {})

Inv ==
    /\ TypeOK
    /\ CoherentRows
    /\ RawInv
    /\ Pages
    /\ RunInv
    /\ IsFiniteSet(obs)
    /\ \A r \in RunIds : Counts(r)

-----------------------------------------------------------------------------
(* Sets.                                                                   *)

\* A set of natural numbers has a least one.
LEMMA LeastNat ==
  ASSUME NEW S \in SUBSET Nat, S # {}
  PROVE  \E m \in S : \A n \in S : m <= n
<1> DEFINE R == {ss \in Nat \X Nat : ss[1] < ss[2]}
<1>1. IsWellFoundedOn(R, Nat)
  BY NatLessThanWellFounded DEF OpToRel
<1> HIDE DEF R
<1>2. PICK m \in S : \A n \in S : ~(<<n, m>> \in R)
  BY <1>1, WFMin
<1>3. \A n \in S : ~(n < m)
  BY <1>2 DEF R
<1>. QED
  BY <1>3

\* A one-to-one image of a finite set has its cardinality.
LEMMA SameCardinality ==
  ASSUME NEW S, NEW T, NEW f \in [S -> T], IsFiniteSet(S),
         \A x, y \in S : f[x] = f[y] => x = y,
         \A z \in T : \E x \in S : f[x] = z
  PROVE  IsFiniteSet(T) /\ Cardinality(T) = Cardinality(S)
<1>1. f \in Bijection(S, T)
  BY DEF Bijection, Injection, Surjection, IsInjective
<1>. QED
  BY <1>1, FS_Bijection DEF ExistsBijection

\* Of the observations a transaction sees there is one that began last.
LEMMA PreviousIsVisible ==
  ASSUME NEW t, NEW i, Visible(t, i) # {}, \A o \in Visible(t, i) : o.created \in 1 .. MaxPages
  PROVE  Previous(t, i) \in Visible(t, i)
<1> DEFINE V == Visible(t, i)
           S == {MaxPages - o.created : o \in V}
<1>1. MaxPages \in Nat
  BY DownstreamAssumption
<1>2. S \in SUBSET Nat /\ S # {}
  BY <1>1
<1>3. PICK m \in S : \A n \in S : m <= n
  BY <1>2, LeastNat
<1>4. PICK o \in V : m = MaxPages - o.created
  BY <1>3
<1>5. \A p \in V : p.created <= o.created
  <2> SUFFICES ASSUME NEW p \in V PROVE p.created <= o.created
    OBVIOUS
  <2>1. MaxPages - p.created \in S
    OBVIOUS
  <2>2. p.created \in Nat /\ o.created \in Nat
    OBVIOUS
  <2> HIDE DEF S, V
  <2>. QED
    BY <1>1, <1>3, <1>4, <2>1, <2>2
<1> HIDE DEF V
<1>6. (CHOOSE x \in V : \A p \in V : p.created <= x.created) \in V
  BY <1>5
<1>7. Previous(t, i) = CHOOSE x \in V : \A p \in V : p.created <= x.created
  BY Zenon DEF Previous, V
<1>. QED
  BY <1>6, <1>7 DEF V

-----------------------------------------------------------------------------
(* Observations and projections.                                           *)

\* A new observation of an item keeps the rows coherent.
LEMMA CoherentAdd ==
  ASSUME NEW O, NEW Q, Coherent(O, Q), NEW o,
         \A p \in O : <<p.run, p.item, p.key>> # <<o.run, o.item, o.key>>,
         o.kind = "first_seen" => \A p \in O : p.item # o.item,
         o.kind = "duplicate_same_projection" => \E p \in O : p.item = o.item /\ p.hash = o.hash
  PROVE  Coherent(O \cup {o}, Q \cup {Projected(o)})
<1>1. UniqueKeys(O \cup {o})
  BY DEF Coherent, UniqueKeys
<1>2. OneFirst(O \cup {o})
  BY DEF Coherent, OneFirst
<1>3. Introduced(O \cup {o})
  BY DEF Coherent, Introduced
<1>4. Q \cup {Projected(o)} = {Projected(p) : p \in O \cup {o}}
  BY DEF Coherent
<1>. QED
  BY <1>1, <1>2, <1>3, <1>4 DEF Coherent

\* Rows of two transactions that share neither a run nor a FIRST_SEEN.
LEMMA CoherentUnion ==
  ASSUME NEW O, NEW Q, NEW P, NEW R, Coherent(O, Q), Coherent(P, R),
         \A o \in O, p \in P :
            /\ <<o.run, o.item, o.key>> = <<p.run, p.item, p.key>> => o = p
            /\ o.kind = "first_seen" /\ p.kind = "first_seen" /\ o.item = p.item => o = p
  PROVE  Coherent(O \cup P, Q \cup R)
<1>1. UniqueKeys(O \cup P)
  BY DEF Coherent, UniqueKeys
<1>2. OneFirst(O \cup P)
  BY DEF Coherent, OneFirst
<1>3. Introduced(O \cup P)
  BY DEF Coherent, Introduced
<1>4. Q \cup R = {Projected(p) : p \in O \cup P}
  BY DEF Coherent
<1>. QED
  BY <1>1, <1>2, <1>3, <1>4 DEF Coherent

\* The runs of two targets are two runs, and no run is NoRun.
LEMMA RunsApart ==
  ASSUME TypeOK
  PROVE  /\ \A t, u \in Targets : RunOf(t) = RunOf(u) => t = u
         /\ \A t \in Targets : Running(t) => RunOf(t) \in RunIds
         /\ NoRun \notin RunIds
<1>1. \A t \in Targets : current[t] \in 0 .. MaxRuns
  BY DEF TypeOK
<1>2. MaxRuns \in Nat /\ Nothing \notin Targets
  BY DownstreamAssumption
<1>. QED
  BY <1>1, <1>2 DEF RunOf, RunIds, Running, NoRun

-----------------------------------------------------------------------------
(* Steps that commit nothing.                                              *)

\* They change the page of one target, and at most the status of its run.
Uncommitted(t) ==
    /\ UNCHANGED <<raw, obs, proj>>
    /\ page' \in [Targets -> Page]
    /\ \A u \in Targets \ {t} : page'[u] = page[u] /\ current'[u] = current[u]
    /\ \A u \in Targets \ {t} : \A n \in 1 .. MaxRuns : runs'[<<u, n>>] = runs[<<u, n>>]

\* The transactions of the other targets are as they were.
LEMMA OtherPages ==
  ASSUME Inv, NEW t \in Targets, Uncommitted(t), NEW u \in Targets, u # t
  PROVE  PageInv(u)' /\ Coherent(SeenObs(u)', SeenProj(u)')
<1>1. page'[u] = page[u] /\ RunOf(u)' = RunOf(u) /\ SeenObs(u)' = SeenObs(u) /\ SeenProj(u)' = SeenProj(u)
  BY DEF Uncommitted, RunOf, SeenObs, SeenProj
<1>2. Running(u)' = Running(u)
  <2>1. current[u] # 0 => current[u] \in 1 .. MaxRuns
    BY DownstreamAssumption DEF Inv, TypeOK
  <2>. QED
    BY <1>1, <2>1 DEF Uncommitted, Running, RunOf
<1>3. PageInv(u) /\ Coherent(SeenObs(u), SeenProj(u))
  BY DEF Inv, Pages, CoherentRows
<1>4. PageRows(u)'
  BY <1>1, <1>3 DEF PageInv, PageRows, Uncommitted
<1>5. PageCounts(u)'
  BY <1>1, <1>3 DEF PageInv, PageCounts
<1>. QED
  BY <1>1, <1>2, <1>3, <1>4, <1>5 DEF PageInv

\* A transaction that has written nothing.
LEMMA FreshPage ==
  ASSUME Inv, NEW t \in Targets, UNCHANGED <<raw, obs, proj>>,
         page'[t].stored = {}, page'[t].obs = {}, page'[t].proj = {},
         page'[t].fetched = 0, page'[t].new = 0
  PROVE  PageRows(t)' /\ PageCounts(t)' /\ Coherent(SeenObs(t)', SeenProj(t)')
<1>1. PageRows(t)'
  BY DEF PageRows
<1>2. PageCounts(t)'
  BY FS_EmptySet DEF PageCounts
<1>3. SeenObs(t)' = obs /\ SeenProj(t)' = proj
  BY DEF SeenObs, SeenProj
<1>. QED
  BY <1>1, <1>2, <1>3 DEF Inv, CoherentRows

\* What is left to show of a step that commits nothing: the page and the runs it changes.
LEMMA UncommittedInv ==
  ASSUME Inv, NEW t \in Targets, Uncommitted(t),
         PageInv(t)', Coherent(SeenObs(t)', SeenProj(t)'),
         \A u \in Targets \ {t} : page'[t].stored \cap page[u].stored = {},
         RunInv', runs' \in [RunIds -> Run], current' \in [Targets -> 0 .. MaxRuns],
         begun' \in 0 .. MaxPages,
         \A r \in RunIds : /\ runs'[r].fetched = runs[r].fetched /\ runs'[r].new = runs[r].new
                           /\ runs'[r].duplicates = runs[r].duplicates
  PROVE  Inv'
<1>1. TypeOK'
  BY DEF Inv, TypeOK, Uncommitted
<1>2. CoherentRows'
  BY OtherPages DEF Inv, CoherentRows, Uncommitted
<1>3. RawInv'
  BY DEF Inv, RawInv, Uncommitted
<1>4. Pages'
  <2>1. \A u \in Targets : PageInv(u)'
    BY OtherPages
  <2>2. \A u, v \in Targets : u # v => page'[u].stored \cap page'[v].stored = {}
    BY DEF Inv, Pages, Uncommitted
  <2>. QED
    BY <2>1, <2>2 DEF Pages
<1>5. \A r \in RunIds : Counts(r)'
  <2>1. \A r \in RunIds : Own(r)' = Own(r) /\ Stored(r)' = Stored(r)
    BY DEF Own, Stored, Uncommitted
  <2>2. \A r \in RunIds : Counts(r)
    BY DEF Inv
  <2>. QED
    BY <2>1, <2>2 DEF Counts
<1>6. IsFiniteSet(obs)'
  BY DEF Inv, Uncommitted
<1>. QED
  BY <1>1, <1>2, <1>3, <1>4, <1>5, <1>6 DEF Inv

\* A closed page is well-formed.
LEMMA ClosedPage ==
  ASSUME NEW key \in Keys \cup {"run", Nothing}
  PROVE  /\ Closed(key) \in Page /\ ~Closed(key).open /\ Closed(key).key = key
         /\ Closed(key).head = NoEntry /\ Closed(key).stored = {} /\ Closed(key).obs = {}
         /\ Closed(key).proj = {} /\ Closed(key).fetched = 0 /\ Closed(key).new = 0
  BY DownstreamAssumption DEF Closed, Page

\* The run of an open page goes on or ends, without having stored anything more.
LEMMA StatusInv ==
  ASSUME Inv, NEW t \in Targets, Running(t), NEW status \in {"running", "ended"},
         runs' = [runs EXCEPT ![RunOf(t)].status = status], UNCHANGED current
  PROVE  /\ RunInv' /\ runs' \in [RunIds -> Run]
         /\ \A u \in Targets \ {t} : \A n \in 1 .. MaxRuns : runs'[<<u, n>>] = runs[<<u, n>>]
         /\ \A r \in RunIds : /\ runs'[r].fetched = runs[r].fetched /\ runs'[r].new = runs[r].new
                              /\ runs'[r].duplicates = runs[r].duplicates
<1> DEFINE me == RunOf(t)
           new == [runs[me] EXCEPT !.status = status]
<1>1. me \in RunIds /\ runs[me] \in Run /\ runs[me].status = "running" /\ me[1] = t /\ me[2] = current[t]
  BY RunsApart DEF Inv, TypeOK, Running, RunOf
<1>2. /\ new \in Run /\ new.status = status /\ new.fetched = runs[me].fetched
      /\ new.new = runs[me].new /\ new.duplicates = runs[me].duplicates
  BY <1>1 DEF Run
<1>3. runs' = [runs EXCEPT ![me] = new] /\ runs \in [RunIds -> Run]
  BY DEF Inv, TypeOK
<1>4. \A u \in Targets : \A n \in 1 .. MaxRuns : <<u, n>> \in RunIds /\ (u # t => <<u, n>> # me)
  BY <1>1 DEF RunIds
<1> HIDE DEF me, new
<1>5. \A r \in RunIds : runs'[r] = IF r = me THEN new ELSE runs[r]
  BY <1>3
<1>6. RunInv'
  <2>1. \A u \in Targets : \A n \in 1 .. MaxRuns : n > current[u] => <<u, n>> # me
    BY <1>1, DownstreamAssumption DEF Inv, TypeOK
  <2>2. \A u \in Targets : \A n \in 1 .. MaxRuns : n > current'[u] => runs'[<<u, n>>].status = "none"
    <3> SUFFICES ASSUME NEW u \in Targets, NEW n \in 1 .. MaxRuns, n > current'[u]
                 PROVE  runs'[<<u, n>>].status = "none"
      OBVIOUS
    <3>1. runs[<<u, n>>].status = "none"
      BY DEF Inv, RunInv
    <3>2. runs'[<<u, n>>] = runs[<<u, n>>]
      BY <1>4, <1>5, <2>1
    <3>. QED
      BY <3>1, <3>2
  <2>3. \A r \in RunIds : runs'[r].status = "none" => runs'[r].fetched = 0
    BY <1>2, <1>5 DEF Inv, RunInv
  <2>4. \A r \in RunIds : r[1] \notin Paged /\ runs'[r].status = "running" => runs'[r].fetched = 0
    <3>1. \A r \in RunIds : r[1] \notin Paged /\ runs[r].status = "running" => runs[r].fetched = 0
      BY DEF Inv, RunInv
    <3> SUFFICES ASSUME NEW r \in RunIds, r[1] \notin Paged, runs'[r].status = "running"
                 PROVE  runs'[r].fetched = 0
      OBVIOUS
    <3>2. CASE r = me
      BY <1>1, <1>2, <1>5, <3>1, <3>2
    <3>3. CASE r # me
      BY <1>5, <3>1, <3>3
    <3>. QED
      BY <3>2, <3>3
  <2>. QED
    BY <2>2, <2>3, <2>4 DEF RunInv
<1>. QED
  BY <1>1, <1>2, <1>3, <1>4, <1>5, <1>6

\* A rolled-back page leaves its run as it was, or ended.
LEMMA RollBackInv ==
  ASSUME Inv, NEW t \in Targets, Running(t), RolledBack(t), NEW status \in {"running", "ended"},
         runs' = [runs EXCEPT ![RunOf(t)].status = status]
  PROVE  Inv'
<1> DEFINE new == Closed(Nothing)
<1>1. new \in Page /\ ~new.open /\ new.key = Nothing /\ new.stored = {} /\ new.obs = {} /\ new.proj = {}
      /\ new.fetched = 0 /\ new.new = 0
  BY ClosedPage
<1>2. page' = [page EXCEPT ![t] = new] /\ page \in [Targets -> Page] /\ UNCHANGED <<raw, obs, proj, current, begun>>
  BY DEF RolledBack, Inv, TypeOK
<1>3. page'[t] = Closed(page'[t].key)
  BY <1>1, <1>2
<1> HIDE DEF new
<1>4. page'[t] = new /\ page' \in [Targets -> Page] /\ \A u \in Targets \ {t} : page'[u] = page[u]
  BY <1>1, <1>2
<1>5. PageInv(t)' /\ Coherent(SeenObs(t)', SeenProj(t)')
  BY <1>1, <1>2, <1>3, <1>4, FreshPage DEF PageInv
<1>6. Uncommitted(t)
  BY <1>2, <1>4, StatusInv DEF Uncommitted
<1>. QED
  BY <1>1, <1>2, <1>4, <1>5, <1>6, StatusInv, UncommittedInv DEF Inv, TypeOK

LEMMA FailPageInv ==
  ASSUME Inv, NEW t \in Targets, FailPage(t) \/ RefusePage(t) \/ AbortPage(t)
  PROVE  Inv'
<1>1. Running(t)
  BY DEF FailPage, RefusePage, AbortPage, Inv, Pages, PageInv
<1>2. CASE FailPage(t) \/ AbortPage(t)
  BY <1>1, <1>2, RollBackInv DEF FailPage, AbortPage
<1>3. CASE RefusePage(t)
  BY <1>1, <1>3, RollBackInv DEF RefusePage
<1>. QED
  BY <1>2, <1>3

\* A target starts its next run, which has stored nothing.
LEMMA StartRunInv ==
  ASSUME Inv, NEW t \in Targets, StartRun(t)
  PROVE  Inv'
<1> DEFINE new == Closed(Nothing)
           me == <<t, current[t] + 1>>
           run == [runs[me] EXCEPT !.status = "running"]
<1>1. new \in Page /\ ~new.open /\ new.key = Nothing /\ new.stored = {} /\ new.obs = {} /\ new.proj = {}
      /\ new.fetched = 0 /\ new.new = 0
  BY ClosedPage
<1>2. /\ page' = [page EXCEPT ![t] = new] /\ page \in [Targets -> Page]
      /\ UNCHANGED <<raw, obs, proj, begun>>
      /\ current[t] \in 0 .. MaxRuns /\ current[t] < MaxRuns /\ MaxRuns \in Nat
      /\ current' = [current EXCEPT ![t] = current[t] + 1]
      /\ runs' = [runs EXCEPT ![me] = run]
  BY DownstreamAssumption DEF StartRun, Inv, TypeOK
<1>3. page'[t] = Closed(page'[t].key)
  BY <1>1, <1>2
<1>4. me \in RunIds /\ runs[me] \in Run /\ runs[me].status = "none" /\ runs[me].fetched = 0
  BY <1>2 DEF RunIds, Inv, TypeOK, RunInv
<1>5. /\ run \in Run /\ run.status = "running" /\ run.fetched = 0 /\ run.new = runs[me].new
      /\ run.duplicates = runs[me].duplicates
  BY <1>4 DEF Run
<1>6. /\ \A u \in Targets : \A n \in 1 .. MaxRuns : /\ <<u, n>> \in RunIds
                                                   /\ <<u, n>> = me => u = t /\ n = current[t] + 1
      /\ \A r \in RunIds : runs'[r] = IF r = me THEN run ELSE runs[r]
      /\ runs' \in [RunIds -> Run]
      /\ current' \in [Targets -> 0 .. MaxRuns]
      /\ \A u \in Targets : current'[u] = IF u = t THEN current[t] + 1 ELSE current[u]
  <2>1. \A u \in Targets : \A n \in 1 .. MaxRuns : /\ <<u, n>> \in RunIds
                                                  /\ <<u, n>> = me => u = t /\ n = current[t] + 1
    BY DEF RunIds
  <2>2. current' \in [Targets -> 0 .. MaxRuns]
        /\ \A u \in Targets : current'[u] = IF u = t THEN current[t] + 1 ELSE current[u]
    BY <1>2 DEF Inv, TypeOK
  <2> HIDE DEF me, run
  <2>3. runs' \in [RunIds -> Run] /\ \A r \in RunIds : runs'[r] = IF r = me THEN run ELSE runs[r]
    BY <1>2, <1>4, <1>5 DEF Inv, TypeOK
  <2>. QED
    BY <2>1, <2>2, <2>3
<1> HIDE DEF new, me, run
<1>7. page'[t] = new /\ page' \in [Targets -> Page] /\ \A u \in Targets \ {t} : page'[u] = page[u]
  BY <1>1, <1>2
<1>8. PageInv(t)' /\ Coherent(SeenObs(t)', SeenProj(t)')
  BY <1>1, <1>2, <1>3, <1>7, FreshPage DEF PageInv
<1>9. Uncommitted(t)
  BY <1>2, <1>6, <1>7 DEF Uncommitted
<1>10. RunInv'
  <2>1. \A u \in Targets : \A n \in 1 .. MaxRuns : n > current'[u] => runs'[<<u, n>>].status = "none"
    <3> SUFFICES ASSUME NEW u \in Targets, NEW n \in 1 .. MaxRuns, n > current'[u]
                 PROVE  runs'[<<u, n>>].status = "none"
      OBVIOUS
    <3>1. <<u, n>> # me /\ n > current[u]
      BY <1>2, <1>6 DEF Inv, TypeOK
    <3>2. runs[<<u, n>>].status = "none"
      BY <3>1 DEF Inv, RunInv
    <3>3. runs'[<<u, n>>] = runs[<<u, n>>]
      <4> DEFINE r == <<u, n>>
      <4>1. r \in RunIds
        BY DEF RunIds
      <4>2. r # me
        BY <3>1
      <4> HIDE DEF r
      <4>3. runs'[r] = runs[r]
        BY <1>6, <4>1, <4>2
      <4>. QED
        BY <4>3 DEF r
    <3>. QED
      BY <3>2, <3>3
  <2>2. \A r \in RunIds : runs'[r].status = "none" => runs'[r].fetched = 0
    BY <1>5, <1>6 DEF Inv, RunInv
  <2>3. \A r \in RunIds : r[1] \notin Paged /\ runs'[r].status = "running" => runs'[r].fetched = 0
    BY <1>5, <1>6 DEF Inv, RunInv
  <2>. QED
    BY <2>1, <2>2, <2>3 DEF RunInv
<1>11. \A r \in RunIds : /\ runs'[r].fetched = runs[r].fetched /\ runs'[r].new = runs[r].new
                         /\ runs'[r].duplicates = runs[r].duplicates
  BY <1>4, <1>5, <1>6
<1>. QED
  BY <1>1, <1>2, <1>6, <1>7, <1>8, <1>9, <1>10, <1>11, UncommittedInv DEF Inv, TypeOK

\* A step that changes only the page of one target.
LEMMA PageOnlyInv ==
  ASSUME Inv, NEW t \in Targets, NEW new \in Page, page' = [page EXCEPT ![t] = new],
         UNCHANGED <<raw, obs, proj, runs, current>>, begun' \in 0 .. MaxPages,
         PageInv(t)', Coherent(SeenObs(t)', SeenProj(t)'),
         \A u \in Targets \ {t} : new.stored \cap page[u].stored = {}
  PROVE  Inv'
<1>1. page'[t] = new /\ page' \in [Targets -> Page] /\ \A u \in Targets \ {t} : page'[u] = page[u]
  BY DEF Inv, TypeOK
<1>2. Uncommitted(t)
  BY <1>1 DEF Uncommitted
<1>3. RunInv'
  BY DEF Inv, RunInv
<1>. QED
  BY <1>1, <1>2, <1>3, UncommittedInv DEF Inv, TypeOK

\* An empty transaction begins.
LEMMA BeginPageInv ==
  ASSUME Inv, NEW t \in Targets, NEW key \in Keys \cup {"run"}, BeginPage(t, key)
  PROVE  Inv'
<1> DEFINE new == [Closed(key) EXCEPT !.open = TRUE, !.created = begun + 1]
<1>1. begun \in 0 .. MaxPages /\ begun < MaxPages /\ MaxPages \in Nat
  BY DownstreamAssumption DEF BeginPage, Inv, TypeOK
<1>2. /\ new \in Page /\ new.open /\ new.key = key /\ new.created > 0 /\ new.stored = {}
      /\ new.obs = {} /\ new.proj = {} /\ new.fetched = 0 /\ new.new = 0
  <2> DEFINE c == Closed(key)
  <2>1. /\ c \in Page /\ c.key = key /\ c.stored = {} /\ c.obs = {} /\ c.proj = {}
        /\ c.fetched = 0 /\ c.new = 0
    BY ClosedPage
  <2>2. begun + 1 \in 0 .. MaxPages /\ begun + 1 > 0
    BY <1>1
  <2>3. new = [c EXCEPT !.open = TRUE, !.created = begun + 1]
    OBVIOUS
  <2> HIDE DEF c, new
  <2>. QED
    BY <2>1, <2>2, <2>3 DEF Page
<1>3. /\ page' = [page EXCEPT ![t] = new] /\ UNCHANGED <<raw, obs, proj, runs, current>>
      /\ begun' \in 0 .. MaxPages /\ Running(t)' /\ page \in [Targets -> Page]
  BY <1>1 DEF BeginPage, Running, RunOf, Inv, TypeOK
<1> HIDE DEF new
<1>4. page'[t] = new
  BY <1>3
<1>5. PageInv(t)' /\ Coherent(SeenObs(t)', SeenProj(t)')
  BY <1>2, <1>3, <1>4, FreshPage DEF PageInv
<1>. QED
  BY <1>2, <1>3, <1>5, PageOnlyInv

\* The next item of the page.
LEMMA NextItemInv ==
  ASSUME Inv, NEW t \in Targets, NEW entry \in Entry, NextItem(t, entry)
  PROVE  Inv'
<1> DEFINE old == page[t]
           new == [old EXCEPT !.head = entry]
<1>1. old \in Page /\ old.open /\ page' = [page EXCEPT ![t] = new] /\ page \in [Targets -> Page]
  BY DEF NextItem, Inv, TypeOK
<1>2. /\ new \in Page /\ new.open /\ new.key = old.key /\ new.created = old.created
      /\ new.stored = old.stored /\ new.obs = old.obs /\ new.proj = old.proj
      /\ new.fetched = old.fetched /\ new.new = old.new
  BY <1>1 DEF Page
<1> HIDE DEF new
<1>3. page'[t] = new
  BY <1>1
<1>4. UNCHANGED <<raw, obs, proj, runs, current, begun>>
  BY DEF NextItem
<1>5. SeenObs(t)' = SeenObs(t) /\ SeenProj(t)' = SeenProj(t) /\ RunOf(t)' = RunOf(t) /\ Running(t)' = Running(t)
  BY <1>2, <1>3, <1>4 DEF SeenObs, SeenProj, RunOf, Running
<1>6. PageInv(t) /\ Coherent(SeenObs(t), SeenProj(t))
  BY DEF Inv, Pages, CoherentRows
<1>7. PageRows(t)'
  BY <1>2, <1>3, <1>4, <1>5, <1>6 DEF PageInv, PageRows
<1>8. PageCounts(t)'
  BY <1>2, <1>3, <1>5, <1>6 DEF PageInv, PageCounts
<1>9. PageInv(t)'
  BY <1>1, <1>2, <1>3, <1>5, <1>6, <1>7, <1>8 DEF PageInv
<1>10. \A u \in Targets \ {t} : new.stored \cap page[u].stored = {}
  BY <1>2 DEF Inv, Pages
<1>. QED
  BY <1>1, <1>2, <1>4, <1>5, <1>6, <1>9, <1>10, PageOnlyInv DEF Inv, TypeOK

-----------------------------------------------------------------------------
(* One item is stored.                                                     *)

\* The observations a transaction sees.
LEMMA VisibleIsSeen ==
  ASSUME NEW t \in Targets, NEW i
  PROVE  Visible(t, i) = {o \in SeenObs(t) : o.item = i}
  BY DEF Visible, SeenObs

\* What a transaction sees of an item it inserts.
LEMMA InsertsSeesNothing ==
  ASSUME Inv, NEW t \in Targets, NEW i \in Items, Inserts(t, i)
  PROVE  \A o \in SeenObs(t) : o.item # i
<1>1. \A o \in obs : raw[o.item].stored
  BY DEF Inv, RawInv
<1>2. \A o \in page[t].obs : raw[o.item].stored \/ o.item \in page[t].stored
  BY DEF Inv, Pages, PageInv, PageRows
<1>. QED
  BY <1>1, <1>2 DEF Inserts, SeenObs

\* The rows of one item: an observation and its projection, or none.
LEMMA StoredRows ==
  ASSUME Inv, NEW t \in Targets, page[t].open, NEW i \in Items, NEW hash \in Payloads
  PROVE  LET O == ObservationsOf(t, i, hash)
             Q == ProjectionsOf(t, i, hash)
         IN
         /\ O \subseteq Observation /\ Q \subseteq Projection
         /\ Coherent(SeenObs(t) \cup O, SeenProj(t) \cup Q)
         /\ \/ /\ O = {} /\ ~Inserts(t, i)
               /\ \E o \in SeenObs(t) : o.run = RunOf(t) /\ o.item = i
            \/ \E o : /\ O = {o} /\ o \notin SeenObs(t)
                      /\ o.run = RunOf(t) /\ o.item = i /\ o.key = page[t].key
                      /\ (o.kind = "first_seen" <=> Inserts(t, i))
<1> DEFINE O == ObservationsOf(t, i, hash)
           Q == ProjectionsOf(t, i, hash)
           run == RunOf(t)
           key == page[t].key
           kind == KindOf(t, i, hash)
           o == [run |-> run, item |-> i, key |-> key, hash |-> hash, kind |-> kind, created |-> page[t].created]
           q == [run |-> run, item |-> i, key |-> key, hash |-> hash]
<1>1. Coherent(SeenObs(t), SeenProj(t)) /\ PageInv(t)
  BY DEF Inv, CoherentRows, Pages
<1>2. /\ run \in RunIds /\ key \in Keys \cup {"run"} /\ page[t].created \in 1 .. MaxPages
  BY <1>1, RunsApart, DownstreamAssumption DEF PageInv, Inv, TypeOK, Page
<1>3. kind \in Kinds /\ (kind = "first_seen" <=> Inserts(t, i))
  BY DEF KindOf, Kinds
<1>4. o \in Observation /\ q \in Projection /\ q = Projected(o)
  BY <1>2, <1>3 DEF Observation, Projection, Projected
<1>5. /\ o.run = run /\ o.item = i /\ o.key = key /\ o.kind = kind /\ o.hash = hash
      /\ q.run = run /\ q.item = i /\ q.key = key
  OBVIOUS
<1>6. Existing(t, i) = {p \in SeenObs(t) : p.item = i /\ p.run = run /\ p.key = key}
  BY VisibleIsSeen DEF Existing
<1>7. SeenProj(t) = {Projected(p) : p \in SeenObs(t)}
  BY <1>1 DEF Coherent
<1>8. O = IF Existing(t, i) # {} THEN {} ELSE {o}
  BY DEF ObservationsOf
<1>9. Q = {p \in {q} : \A x \in SeenProj(t) : <<x.run, x.item, x.key>> # <<p.run, p.item, p.key>>}
  BY DEF ProjectionsOf, SeenProj
<1>10. kind = "duplicate_same_projection" => \E p \in SeenObs(t) : p.item = i /\ p.hash = hash
  <2> SUFFICES ASSUME kind = "duplicate_same_projection"
               PROVE  \E p \in SeenObs(t) : p.item = i /\ p.hash = hash
    OBVIOUS
  <2>1. Visible(t, i) # {} /\ Previous(t, i).hash = hash
    BY DEF KindOf
  <2>2. \A p \in Visible(t, i) : p.created \in 1 .. MaxPages
    BY DEF Visible, Inv, TypeOK, Page, Observation
  <2>3. Previous(t, i) \in Visible(t, i)
    BY <2>1, <2>2, PreviousIsVisible
  <2>. QED
    BY <2>1, <2>3, VisibleIsSeen
<1>11. \A p \in SeenObs(t) : LET x == Projected(p) IN x.run = p.run /\ x.item = p.item /\ x.key = p.key
  BY DEF Projected
<1> HIDE DEF run, key, kind, o, q, O, Q
<1>12. CASE Existing(t, i) # {}
  <2>1. PICK p \in SeenObs(t) : p.item = i /\ p.run = run /\ p.key = key
    BY <1>6, <1>12
  <2>2. O = {} /\ Q = {}
    <3>1. Projected(p) \in SeenProj(t)
      BY <1>7, <2>1
    <3>. QED
      BY <1>5, <1>8, <1>9, <1>11, <1>12, <2>1, <3>1
  <2>3. ~Inserts(t, i)
    BY <2>1, InsertsSeesNothing
  <2>. QED
    BY <1>1, <2>1, <2>2, <2>3 DEF run, O, Q
<1>13. CASE Existing(t, i) = {}
  <2>1. \A p \in SeenObs(t) : <<p.run, p.item, p.key>> # <<o.run, o.item, o.key>>
    BY <1>5, <1>6, <1>13
  <2>2. O = {o} /\ Q = {q}
    <3>1. \A x \in SeenProj(t) : <<x.run, x.item, x.key>> # <<q.run, q.item, q.key>>
      BY <1>5, <1>7, <1>11, <2>1
    <3>. QED
      BY <1>8, <1>9, <1>13, <3>1
  <2>3. o.kind = "first_seen" => \A p \in SeenObs(t) : p.item # o.item
    BY <1>3, <1>5, InsertsSeesNothing
  <2>4. Coherent(SeenObs(t) \cup O, SeenProj(t) \cup Q)
    BY <1>1, <1>4, <1>5, <1>10, <2>1, <2>2, <2>3, CoherentAdd
  <2>5. o \notin SeenObs(t)
    BY <2>1
  <2>. QED
    BY <1>3, <1>4, <1>5, <2>2, <2>4, <2>5 DEF run, key, O, Q
<1>. QED
  BY <1>12, <1>13

\* The page after one item.
LEMMA StoredPage ==
  ASSUME Inv, NEW t \in Targets, StoreItem(t)
  PROVE  LET old == page[t]
             i == old.head.item
             hash == Hash(old.head.payload)
             new == page'[t]
         IN
         /\ old.open /\ i \in Items /\ hash \in Payloads /\ new \in Page
         /\ page' = [page EXCEPT ![t] = new]
         /\ new.open /\ new.key = old.key /\ new.created = old.created
         /\ new.fetched = old.fetched + 1
         /\ new.new = IF Inserts(t, i) THEN old.new + 1 ELSE old.new
         /\ new.stored = old.stored \cup (IF Inserts(t, i) THEN {i} ELSE {})
         /\ new.obs = old.obs \cup ObservationsOf(t, i, hash)
         /\ new.proj = old.proj \cup ProjectionsOf(t, i, hash)
         /\ \A u \in Targets \ {t} : i \notin page[u].stored
<1> DEFINE old == page[t]
           i == old.head.item
           hash == Hash(old.head.payload)
           O == ObservationsOf(t, i, hash)
           Q == ProjectionsOf(t, i, hash)
           stored == IF Inserts(t, i) THEN old.stored \cup {i} ELSE old.stored
           count == IF Inserts(t, i) THEN old.new + 1 ELSE old.new
           new == [old EXCEPT !.head = NoEntry, !.fetched = old.fetched + 1, !.new = count,
                              !.stored = stored, !.obs = old.obs \cup O, !.proj = old.proj \cup Q]
<1>1. old \in Page /\ old.open /\ old.head \in Entry
  BY DEF StoreItem, Inv, TypeOK, Page
<1>2. i \in Items /\ old.head.payload \in Payloads
  BY <1>1 DEF Entry
<1>3. hash \in Payloads
  BY <1>2, DownstreamAssumption DEF StoreItem, ContractError, Rejected, Hash
<1>4. O \subseteq Observation /\ Q \subseteq Projection
  BY <1>1, <1>2, <1>3, StoredRows
<1>5. page' = [page EXCEPT ![t] = new]
  BY DEF StoreItem
<1>6. \A u \in Targets \ {t} : i \notin page[u].stored
  BY DEF StoreItem, Waits
<1>7. /\ stored = old.stored \cup (IF Inserts(t, i) THEN {i} ELSE {})
      /\ stored \subseteq Items /\ count \in Nat /\ old.fetched + 1 \in Nat
      /\ NoEntry \in Entry \cup {NoEntry}
      /\ old.obs \cup O \subseteq Observation /\ old.proj \cup Q \subseteq Projection
  BY <1>1, <1>2, <1>4 DEF Page
<1> HIDE DEF O, Q, stored, count, hash, i
<1>8. /\ new \in Page /\ new.open /\ new.key = old.key /\ new.created = old.created
      /\ new.fetched = old.fetched + 1 /\ new.new = count /\ new.stored = stored
      /\ new.obs = old.obs \cup O /\ new.proj = old.proj \cup Q
  BY <1>1, <1>7 DEF Page
<1> HIDE DEF new
<1>9. count = IF Inserts(t, i) THEN old.new + 1 ELSE old.new
  BY DEF count
<1>10. O = ObservationsOf(t, i, hash) /\ Q = ProjectionsOf(t, i, hash)
  BY DEF O, Q
<1>11. page'[t] = new
  BY <1>5 DEF Inv, TypeOK
<1>. QED
  BY <1>1, <1>2, <1>3, <1>5, <1>6, <1>7, <1>8, <1>9, <1>10, <1>11 DEF i, hash

LEMMA StoreItemInv ==
  ASSUME Inv, NEW t \in Targets, StoreItem(t)
  PROVE  Inv'
<1> DEFINE old == page[t]
           i == old.head.item
           hash == Hash(old.head.payload)
           new == page'[t]
           O == ObservationsOf(t, i, hash)
           Q == ProjectionsOf(t, i, hash)
<1>1. /\ old.open /\ i \in Items /\ hash \in Payloads /\ new \in Page
      /\ page' = [page EXCEPT ![t] = new]
      /\ new.open /\ new.key = old.key /\ new.created = old.created
      /\ new.fetched = old.fetched + 1
      /\ new.new = IF Inserts(t, i) THEN old.new + 1 ELSE old.new
      /\ new.stored = old.stored \cup (IF Inserts(t, i) THEN {i} ELSE {})
      /\ new.obs = old.obs \cup O /\ new.proj = old.proj \cup Q
      /\ \A u \in Targets \ {t} : i \notin page[u].stored
  BY StoredPage
<1> HIDE DEF i, hash
<1>2. /\ Coherent(SeenObs(t) \cup O, SeenProj(t) \cup Q)
      /\ \/ /\ O = {} /\ ~Inserts(t, i)
            /\ \E o \in SeenObs(t) : o.run = RunOf(t) /\ o.item = i
         \/ \E o : /\ O = {o} /\ o \notin SeenObs(t)
                   /\ o.run = RunOf(t) /\ o.item = i /\ o.key = page[t].key
                   /\ (o.kind = "first_seen" <=> Inserts(t, i))
  BY <1>1, StoredRows
<1> HIDE DEF O, Q, new
<1>3. UNCHANGED <<raw, obs, proj, runs, current, begun>>
  BY DEF StoreItem
<1>4. page'[t] = new
  BY DEF new
<1>5. PageInv(t) /\ PageRows(t) /\ PageCounts(t)
  BY DEF Inv, Pages, PageInv
<1>6. /\ SeenObs(t)' = SeenObs(t) \cup O /\ SeenProj(t)' = SeenProj(t) \cup Q
      /\ RunOf(t)' = RunOf(t) /\ Running(t)' = Running(t)
  BY <1>1, <1>3, <1>4 DEF SeenObs, SeenProj, RunOf, Running
<1>7. Inserts(t, i) <=> ~raw[i].stored /\ i \notin old.stored
  BY DEF Inserts
<1>8. old.fetched \in Nat /\ old.new \in Nat /\ raw[i].stored \in BOOLEAN
  BY <1>1 DEF Inv, TypeOK, Page, RawRow
<1> HIDE DEF old
<1>9. PageRows(t)'
  <2>1. /\ \A o \in old.obs : o.run = RunOf(t) /\ o.key = old.key
        /\ \A o \in old.obs : raw[o.item].stored \/ o.item \in old.stored
        /\ \A o \in old.obs : o.kind = "first_seen" => o.item \in old.stored
        /\ \A j \in old.stored : ~raw[j].stored /\ \E o \in old.obs : o.item = j /\ o.kind = "first_seen"
    BY <1>5 DEF PageRows, old
  <2>2. CASE O = {} /\ ~Inserts(t, i)
    BY <1>1, <1>3, <1>4, <1>6, <2>1, <2>2 DEF PageRows
  <2>3. CASE \E o : /\ O = {o} /\ o \notin SeenObs(t)
                    /\ o.run = RunOf(t) /\ o.item = i /\ o.key = page[t].key
                    /\ (o.kind = "first_seen" <=> Inserts(t, i))
    <3>1. PICK o : /\ O = {o} /\ o.run = RunOf(t) /\ o.item = i /\ o.key = old.key
                   /\ (o.kind = "first_seen" <=> Inserts(t, i))
      BY <2>3 DEF old
    <3>2. /\ \A x \in new.obs : x.run = RunOf(t) /\ x.key = new.key
          /\ \A x \in new.obs : raw[x.item].stored \/ x.item \in new.stored
          /\ \A x \in new.obs : x.kind = "first_seen" => x.item \in new.stored
          /\ \A j \in new.stored : ~raw[j].stored /\ \E x \in new.obs : x.item = j /\ x.kind = "first_seen"
      BY <1>1, <1>7, <2>1, <3>1
    <3>. QED
      BY <1>3, <1>4, <1>6, <3>2 DEF PageRows
  <2>. QED
    BY <1>2, <2>2, <2>3
<1>10. PageCounts(t)'
  <2>1. /\ IsFiniteSet(old.stored) /\ old.new = Cardinality(old.stored)
        /\ IsFiniteSet(old.obs) /\ Cardinality(old.obs) <= old.fetched
        /\ old.new <= old.fetched
    BY <1>5 DEF PageCounts, old
  <2>2. IsFiniteSet(new.stored) /\ new.new = Cardinality(new.stored)
    <3>1. CASE Inserts(t, i)
      <4>1. new.stored = old.stored \cup {i} /\ new.new = old.new + 1 /\ i \notin old.stored
        BY <1>1, <1>7, <3>1
      <4>2. IsFiniteSet(old.stored \cup {i}) /\ Cardinality(old.stored \cup {i}) = Cardinality(old.stored) + 1
        BY <2>1, <4>1, FS_AddElement
      <4>. QED
        BY <2>1, <4>1, <4>2
    <3>2. CASE ~Inserts(t, i)
      BY <1>1, <2>1, <3>2
    <3>. QED
      BY <3>1, <3>2
  <2>3. IsFiniteSet(new.obs) /\ Cardinality(new.obs) <= new.fetched
    <3>1. Cardinality(old.obs) \in Nat
      BY <2>1, FS_CardinalityType
    <3>2. CASE O = {}
      BY <1>1, <1>8, <2>1, <3>1, <3>2
    <3>3. CASE \E o : O = {o}
      <4>1. PICK o : new.obs = old.obs \cup {o}
        BY <1>1, <3>3
      <4>2. IsFiniteSet(old.obs \cup {o}) /\ Cardinality(old.obs \cup {o}) \in {Cardinality(old.obs), Cardinality(old.obs) + 1}
        BY <2>1, FS_AddElement
      <4>3. new.fetched = old.fetched + 1
        BY <1>1
      <4>4. IsFiniteSet(new.obs)
        BY <4>1, <4>2
      <4>5. Cardinality(new.obs) <= old.fetched + 1
        <5> DEFINE m == Cardinality(old.obs)
                   n == Cardinality(new.obs)
        <5>1. n \in {m, m + 1}
          BY <4>1, <4>2
        <5>2. m \in Nat /\ m <= old.fetched
          BY <2>1, <3>1
        <5> HIDE DEF m, n
        <5>3. n <= old.fetched + 1
          BY <1>8, <5>1, <5>2
        <5>. QED
          BY <5>3 DEF n
      <4>. QED
        BY <4>3, <4>4, <4>5
    <3>. QED
      BY <1>2, <3>2, <3>3
  <2>4. new.new <= new.fetched
    BY <1>1, <1>8, <2>1
  <2>5. \E o \in SeenObs(t) \cup O : o.run = RunOf(t)
    BY <1>2
  <2>. QED
    BY <1>4, <1>6, <2>2, <2>3, <2>4, <2>5 DEF PageCounts
<1>11. PageInv(t)'
  BY <1>1, <1>4, <1>5, <1>6, <1>9, <1>10 DEF PageInv, old
<1>12. \A u \in Targets \ {t} : new.stored \cap page[u].stored = {}
  BY <1>1 DEF Inv, Pages, old
<1>. QED
  BY <1>1, <1>2, <1>3, <1>6, <1>11, <1>12, PageOnlyInv DEF Inv, TypeOK

-----------------------------------------------------------------------------
(* A page is committed.                                                    *)

\* What the transaction of a running target commits.
Committed(t, run) ==
    /\ page[t].open /\ page[t].head = NoEntry
    /\ RunOf(t) \in RunIds /\ runs[RunOf(t)].status = "running"
    /\ raw' = [i \in Items |-> IF i \in page[t].stored
                               THEN [stored |-> TRUE, run |-> RunOf(t), account |-> Account[t]]
                               ELSE raw[i]]
    /\ obs' = SeenObs(t) /\ proj' = SeenProj(t)
    /\ run \in Run /\ runs' = [runs EXCEPT ![RunOf(t)] = run]
    /\ run.status \in (IF t \in Paged THEN {"running", "ended"} ELSE {"ended"})
    /\ run.fetched = runs[RunOf(t)].fetched + page[t].fetched
    /\ run.new = runs[RunOf(t)].new + page[t].new
    /\ run.duplicates = runs[RunOf(t)].duplicates + (page[t].fetched - page[t].new)
    /\ page' = [page EXCEPT ![t] = Closed(page[t].key)]
    /\ UNCHANGED <<current, begun>>

\* A single request has counted nothing before: its counters are added up as well.
LEMMA CommitPageCommits ==
  ASSUME Inv, NEW t \in Targets, CommitPage(t)
  PROVE  \E run : Committed(t, run)
<1> DEFINE old == runs[RunOf(t)]
           p == page[t]
           counted == Counted(t, old)
<1>1. PICK status \in IF t \in Paged THEN {"running", "ended"} ELSE {"ended"} :
        runs' = [runs EXCEPT ![RunOf(t)] = [counted EXCEPT !.status = status]]
  BY DEF CommitPage
<1>2. Running(t) /\ PageCounts(t) /\ p \in Page
  BY DEF CommitPage, Inv, Pages, PageInv, TypeOK
<1>3. RunOf(t) \in RunIds /\ old.status = "running" /\ old \in Run /\ t = RunOf(t)[1]
  BY <1>2, RunsApart DEF Inv, TypeOK, Running, RunOf
<1>4. p.fetched \in Nat /\ p.new \in Nat /\ p.new <= p.fetched
  BY <1>2 DEF PageCounts, Page
<1>5. old.fetched \in Nat /\ old.new \in Nat /\ old.duplicates \in Nat /\ old.pages \in Nat
  BY <1>3 DEF Run
<1>6. t \notin Paged => old.fetched = 0 /\ old.new = 0 /\ old.duplicates = 0
  BY <1>3, <1>5 DEF Inv, RunInv, Counts
<1>7. /\ counted \in Run /\ counted.fetched = old.fetched + p.fetched /\ counted.new = old.new + p.new
      /\ counted.duplicates = old.duplicates + (p.fetched - p.new)
  <2> HIDE DEF old, p
  <2>1. CASE t \in Paged
    <3>1. counted = [old EXCEPT !.fetched = old.fetched + p.fetched, !.new = old.new + p.new,
                                !.duplicates = old.duplicates + (p.fetched - p.new),
                                !.pages = old.pages + 1]
      BY <2>1 DEF Counted, p
    <3> HIDE DEF counted
    <3>2. /\ old.fetched + p.fetched \in Nat /\ old.new + p.new \in Nat
          /\ old.duplicates + (p.fetched - p.new) \in Nat /\ old.pages + 1 \in Nat
      BY <1>4, <1>5
    <3>. QED
      BY <1>3, <3>1, <3>2 DEF Run
  <2>2. CASE t \notin Paged
    <3>1. counted = [old EXCEPT !.fetched = p.fetched, !.new = p.new, !.duplicates = p.fetched - p.new]
      BY <2>2 DEF Counted, p
    <3> HIDE DEF counted
    <3>2. p.fetched - p.new \in Nat
      BY <1>4
    <3>3. /\ counted \in Run /\ counted.fetched = p.fetched /\ counted.new = p.new
          /\ counted.duplicates = p.fetched - p.new
      BY <1>3, <1>4, <3>1, <3>2 DEF Run
    <3>. QED
      BY <1>4, <1>6, <2>2, <3>2, <3>3
  <2>. QED
    BY <2>1, <2>2
<1> DEFINE run == [counted EXCEPT !.status = status]
<1>8. /\ run \in Run /\ run.status = status /\ run.fetched = counted.fetched
      /\ run.new = counted.new /\ run.duplicates = counted.duplicates
  <2>1. status \in {"running", "ended"}
    BY <1>1
  <2> HIDE DEF counted
  <2>. QED
    BY <1>7, <2>1 DEF Run
<1>9. runs' = [runs EXCEPT ![RunOf(t)] = run]
  BY <1>1
<1> HIDE DEF counted, run
<1>10. Committed(t, run)
  BY <1>1, <1>3, <1>7, <1>8, <1>9 DEF CommitPage, Committed, SeenObs, SeenProj
<1>. QED
  BY <1>10

\* The observations that two transactions see agree.
LEMMA CommittedCoherent ==
  ASSUME Inv, NEW t \in Targets, NEW run, Committed(t, run)
  PROVE  CoherentRows'
<1>1. page'[t] = Closed(page[t].key) /\ \A u \in Targets \ {t} : page'[u] = page[u]
  BY DEF Committed, Inv, TypeOK
<1>2. page'[t].obs = {} /\ page'[t].proj = {}
  BY <1>1 DEF Closed
<1>3. Coherent(SeenObs(t), SeenProj(t))
  BY DEF Inv, CoherentRows
<1>4. Coherent(obs, proj)'
  BY <1>3 DEF Committed
<1>5. Coherent(SeenObs(t), SeenProj(t))'
  <2>1. SeenObs(t)' = obs' /\ SeenProj(t)' = proj'
    BY <1>2 DEF SeenObs, SeenProj
  <2>. QED
    BY <1>4, <2>1
<1>6. ASSUME NEW u \in Targets, u # t PROVE Coherent(SeenObs(u), SeenProj(u))'
  <2>1. SeenObs(u)' = SeenObs(t) \cup SeenObs(u) /\ SeenProj(u)' = SeenProj(t) \cup SeenProj(u)
    BY <1>1, <1>6 DEF SeenObs, SeenProj, Committed
  <2>2. Coherent(SeenObs(u), SeenProj(u))
    BY DEF Inv, CoherentRows
  <2>3. UniqueKeys(SeenObs(t)) /\ UniqueKeys(SeenObs(u)) /\ OneFirst(SeenObs(t)) /\ OneFirst(SeenObs(u))
    BY <1>3, <2>2 DEF Coherent
  <2>4. PageRows(t) /\ PageRows(u)
    BY DEF Inv, Pages, PageInv
  <2>5. RunOf(t) # RunOf(u) /\ page[t].stored \cap page[u].stored = {}
    BY <1>6, RunsApart DEF Inv, Pages
  <2>6. \A o \in SeenObs(t), p \in SeenObs(u) :
           /\ <<o.run, o.item, o.key>> = <<p.run, p.item, p.key>> => o = p
           /\ o.kind = "first_seen" /\ p.kind = "first_seen" /\ o.item = p.item => o = p
    <3> SUFFICES ASSUME NEW o \in SeenObs(t), NEW p \in SeenObs(u)
                 PROVE  /\ <<o.run, o.item, o.key>> = <<p.run, p.item, p.key>> => o = p
                        /\ o.kind = "first_seen" /\ p.kind = "first_seen" /\ o.item = p.item => o = p
      OBVIOUS
    <3>1. CASE o \in SeenObs(u)
      BY <2>3, <3>1 DEF UniqueKeys, OneFirst
    <3>2. CASE p \in SeenObs(t)
      BY <2>3, <3>2 DEF UniqueKeys, OneFirst
    <3>3. CASE o \in page[t].obs /\ p \in page[u].obs
      BY <2>4, <2>5, <3>3 DEF PageRows
    <3>. QED
      BY <3>1, <3>2, <3>3 DEF SeenObs
  <2>7. Coherent(SeenObs(t) \cup SeenObs(u), SeenProj(t) \cup SeenProj(u))
    BY <1>3, <2>2, <2>6, CoherentUnion
  <2>. QED
    BY <2>1, <2>7
<1>. QED
  BY <1>4, <1>5, <1>6 DEF CoherentRows

\* Which raw items are stored afterwards, and by whom.
LEMMA CommittedRaw ==
  ASSUME Inv, NEW t \in Targets, NEW run, Committed(t, run)
  PROVE  /\ \A i \in page[t].stored : i \in Items /\ raw'[i].stored /\ raw'[i].run = RunOf(t)
                                      /\ ~raw[i].stored /\ raw[i].run = NoRun
         /\ \A i \in Items \ page[t].stored : raw'[i] = raw[i]
         /\ raw' \in [Items -> RawRow]
<1>1. page[t].stored \subseteq Items /\ RunOf(t) \in RunIds
  BY DEF Inv, TypeOK, Page, Committed
<1>2. [stored |-> TRUE, run |-> RunOf(t), account |-> Account[t]] \in RawRow
  BY <1>1 DEF RawRow, Accounts
<1>3. \A i \in page[t].stored : ~raw[i].stored
  BY DEF Inv, Pages, PageInv, PageRows
<1>4. \A i \in page[t].stored : raw[i].run = NoRun
  BY <1>1, <1>3 DEF Inv, RawInv
<1>. QED
  BY <1>1, <1>2, <1>3, <1>4 DEF Committed, Inv, TypeOK

LEMMA CommittedRawInv ==
  ASSUME Inv, NEW t \in Targets, NEW run, Committed(t, run)
  PROVE  RawInv'
<1> DEFINE p == page[t]
<1>1. /\ \A i \in p.stored : i \in Items /\ raw'[i].stored /\ raw'[i].run = RunOf(t) /\ ~raw[i].stored
      /\ \A i \in Items \ p.stored : raw'[i] = raw[i]
  BY CommittedRaw
<1>2. obs' = obs \cup p.obs /\ \A o \in obs' : o.item \in Items
  BY DEF Committed, SeenObs, Inv, TypeOK, Page, Observation
<1>3. PageRows(t)
  BY DEF Inv, Pages, PageInv
<1>4. \A i \in Items : ~raw'[i].stored => raw'[i].run = NoRun
  BY <1>1 DEF Inv, RawInv
<1>5. ASSUME NEW i \in Items, raw'[i].run # NoRun
      PROVE  \E o \in obs' : o.item = i /\ o.kind = "first_seen" /\ o.run = raw'[i].run
  <2>1. CASE i \in p.stored
    BY <1>1, <1>2, <1>3, <2>1 DEF PageRows
  <2>2. CASE i \notin p.stored
    BY <1>1, <1>2, <1>5, <2>2 DEF Inv, RawInv
  <2>. QED
    BY <2>1, <2>2
<1>6. ASSUME NEW o \in obs'
      PROVE  raw'[o.item].stored /\ (o.kind = "first_seen" => raw'[o.item].run = o.run)
  <2>1. CASE o \in obs
    <3>1. raw[o.item].stored /\ (o.kind = "first_seen" => raw[o.item].run = o.run)
      BY <2>1 DEF Inv, RawInv
    <3>2. raw'[o.item] = raw[o.item]
      BY <1>1, <1>2, <3>1
    <3>. QED
      BY <3>1, <3>2
  <2>2. CASE o \in p.obs
    <3>1. raw[o.item].stored \/ o.item \in p.stored
      BY <1>3, <2>2 DEF PageRows
    <3>2. raw'[o.item].stored
      BY <1>1, <1>2, <3>1
    <3>3. o.kind = "first_seen" => o.item \in p.stored /\ o.run = RunOf(t)
      BY <1>3, <2>2 DEF PageRows
    <3>. QED
      BY <1>1, <3>2, <3>3
  <2>. QED
    BY <1>2, <2>1, <2>2
<1>. QED
  BY <1>4, <1>5, <1>6 DEF RawInv

\* The page is closed, and the other open transactions can go on.
LEMMA CommittedPages ==
  ASSUME Inv, NEW t \in Targets, NEW run, Committed(t, run)
  PROVE  Pages' /\ page' \in [Targets -> Page]
<1> DEFINE p == page[t]
           new == Closed(p.key)
<1>1. /\ new \in Page /\ ~new.open /\ new.key = p.key /\ new.stored = {} /\ new.obs = {} /\ new.proj = {}
      /\ new.fetched = 0 /\ new.new = 0
  BY ClosedPage DEF Inv, TypeOK, Page
<1>2. /\ page'[t] = new /\ page' \in [Targets -> Page]
      /\ \A u \in Targets \ {t} : page'[u] = page[u]
  BY <1>1 DEF Committed, Inv, TypeOK
<1>3. PageInv(t)'
  <2>1. page'[t] = Closed(page'[t].key)
    BY <1>1, <1>2
  <2> HIDE DEF new
  <2>2. PageRows(t)'
    BY <1>1, <1>2 DEF PageRows
  <2>3. PageCounts(t)'
    BY <1>1, <1>2, FS_EmptySet DEF PageCounts
  <2>. QED
    BY <1>1, <1>2, <2>1, <2>2, <2>3 DEF PageInv
<1>4. ASSUME NEW u \in Targets, u # t PROVE PageInv(u)'
  <2>1. page'[u] = page[u] /\ RunOf(u)' = RunOf(u) /\ RunOf(u) # RunOf(t) /\ SeenObs(u) \subseteq SeenObs(u)'
    BY <1>2, <1>4, RunsApart DEF Committed, RunOf, SeenObs, Inv
  <2>2. Running(u) => Running(u)'
    <3>1. Running(u) => RunOf(u) \in RunIds
      BY RunsApart DEF Inv
    <3>. QED
      BY <2>1, <3>1 DEF Committed, Running, Inv, TypeOK
  <2>3. PageInv(u) /\ PageRows(u) /\ PageCounts(u)
    BY DEF Inv, Pages, PageInv
  <2>4. PageRows(u)'
    <3>1. page[u].stored \subseteq Items /\ page[u].obs \subseteq Observation /\ page[u].stored \cap p.stored = {}
      BY <1>4 DEF Inv, TypeOK, Page, Pages
    <3>2. \A i \in Items : raw[i].stored => raw'[i].stored
      BY CommittedRaw
    <3>3. \A i \in page[u].stored : raw'[i] = raw[i]
      BY <3>1, CommittedRaw
    <3>4. \A o \in page[u].obs : o.item \in Items
      BY <3>1 DEF Observation
    <3>. QED
      BY <2>1, <2>3, <3>2, <3>3, <3>4 DEF PageRows
  <2>5. PageCounts(u)'
    BY <2>1, <2>3 DEF PageCounts
  <2>. QED
    BY <2>1, <2>2, <2>3, <2>4, <2>5 DEF PageInv
<1>5. \A u, v \in Targets : u # v => page'[u].stored \cap page'[v].stored = {}
  <2> HIDE DEF new
  <2>. QED
    BY <1>1, <1>2 DEF Inv, Pages
<1>. QED
  BY <1>2, <1>3, <1>4, <1>5 DEF Pages

LEMMA CommittedRunInv ==
  ASSUME Inv, NEW t \in Targets, NEW run, Committed(t, run)
  PROVE  RunInv'
<1> DEFINE me == RunOf(t)
<1>1. /\ me \in RunIds /\ runs[me].status = "running" /\ me[1] = t
      /\ \A r \in RunIds : runs'[r] = IF r = me THEN run ELSE runs[r]
      /\ run.status \in (IF t \in Paged THEN {"running", "ended"} ELSE {"ended"})
      /\ UNCHANGED current
  BY DEF Committed, RunOf, Inv, TypeOK
<1> HIDE DEF me
<1>2. ASSUME NEW u \in Targets, NEW n \in 1 .. MaxRuns, n > current'[u]
      PROVE  runs'[<<u, n>>].status = "none"
  <2> DEFINE r == <<u, n>>
  <2>1. r \in RunIds
    BY DEF RunIds
  <2>2. runs[r].status = "none"
    BY <1>1, <1>2 DEF Inv, RunInv
  <2> HIDE DEF r
  <2>3. runs'[r].status = "none"
    BY <1>1, <2>1, <2>2
  <2>. QED
    BY <2>3 DEF r
<1>3. \A r \in RunIds : runs'[r].status = "none" => runs'[r].fetched = 0
  BY <1>1 DEF Inv, RunInv
<1>4. \A r \in RunIds : r[1] \notin Paged /\ runs'[r].status = "running" => runs'[r].fetched = 0
  BY <1>1 DEF Inv, RunInv
<1>. QED
  BY <1>2, <1>3, <1>4 DEF RunInv

\* The counters of the run are those of its pages before and of this page.
LEMMA CommittedCounts ==
  ASSUME Inv, NEW t \in Targets, NEW run, Committed(t, run), NEW r \in RunIds
  PROVE  Counts(r)'
<1> DEFINE me == RunOf(t)
           p == page[t]
<1>1. /\ obs' = obs \cup p.obs /\ \A o \in p.obs : o.run = me
      /\ IsFiniteSet(obs) /\ IsFiniteSet(p.obs) /\ IsFiniteSet(p.stored)
      /\ p.new = Cardinality(p.stored) /\ Cardinality(p.obs) <= p.fetched /\ p.new <= p.fetched
      /\ p.fetched > 0 => \E o \in obs' : o.run = me
      /\ p.fetched \in Nat /\ p.new \in Nat /\ p.stored \subseteq Items
  BY DEF Inv, TypeOK, Page, Pages, PageInv, PageRows, PageCounts, Committed, SeenObs
<1>2. /\ me \in RunIds /\ NoRun \notin RunIds
      /\ \A q \in RunIds : runs'[q] = IF q = me THEN run ELSE runs[q]
  BY RunsApart DEF Committed, Inv, TypeOK
<1>3. /\ \A i \in p.stored : raw'[i].run = me /\ raw[i].run = NoRun
      /\ \A i \in Items \ p.stored : raw'[i] = raw[i]
  BY CommittedRaw
<1>4. Counts(r) /\ runs[r] \in Run
  BY DEF Inv, TypeOK
<1>5. /\ run.fetched = runs[me].fetched + p.fetched /\ run.new = runs[me].new + p.new
      /\ run.duplicates = runs[me].duplicates + (p.fetched - p.new)
  BY DEF Committed
<1> HIDE DEF me, p
<1>6. CASE r # me
  <2>1. Own(r)' = Own(r) /\ Stored(r)' = Stored(r) /\ runs'[r] = runs[r]
    BY <1>1, <1>2, <1>3, <1>6 DEF Own, Stored
  <2>. QED
    BY <1>4, <2>1 DEF Counts
<1>7. CASE r = me
  <2> DEFINE old == runs[me]
             own == Own(r)
             stored == Stored(r)
  <2>1. /\ IsFiniteSet(stored) /\ old.new = Cardinality(stored) /\ old.new + old.duplicates = old.fetched
        /\ Cardinality(own) <= old.fetched /\ (old.fetched > 0 <=> own # {})
        /\ old.fetched \in Nat /\ old.new \in Nat /\ old.duplicates \in Nat
    BY <1>4, <1>7 DEF Counts, Run
  <2>2. Stored(r)' = stored \cup p.stored /\ stored \cap p.stored = {}
    <3>1. \A i \in Items : raw'[i].run = r <=> raw[i].run = r \/ i \in p.stored
      BY <1>2, <1>3, <1>7
    <3>2. \A i \in p.stored : raw[i].run # r
      BY <1>2, <1>3, <1>7
    <3>. QED
      BY <1>1, <3>1, <3>2 DEF Stored
  <2>3. Own(r)' = own \cup p.obs
    BY <1>1, <1>7 DEF Own
  <2>4. IsFiniteSet(own)
    BY <1>1, FS_Subset DEF Own
  <2> HIDE DEF old, own, stored
  <2>5. /\ IsFiniteSet(stored \cup p.stored)
        /\ Cardinality(stored \cup p.stored) = Cardinality(stored) + Cardinality(p.stored)
    <3>1. Cardinality(stored \cap p.stored) = 0
      BY <2>2, FS_EmptySet
    <3>2. Cardinality(stored) \in Nat /\ Cardinality(p.stored) \in Nat
      BY <1>1, <2>1, FS_CardinalityType
    <3>3. /\ IsFiniteSet(stored \cup p.stored)
          /\ Cardinality(stored \cup p.stored)
             = Cardinality(stored) + Cardinality(p.stored) - Cardinality(stored \cap p.stored)
      BY <1>1, <2>1, FS_Union
    <3>. QED
      BY <3>1, <3>2, <3>3
  <2>6. Cardinality(own \cup p.obs) <= Cardinality(own) + Cardinality(p.obs)
    <3>1. /\ Cardinality(own) \in Nat /\ Cardinality(p.obs) \in Nat
          /\ IsFiniteSet(own \cap p.obs) /\ Cardinality(own \cap p.obs) \in Nat
      BY <1>1, <2>4, FS_CardinalityType, FS_Intersection
    <3>2. Cardinality(own \cup p.obs) = Cardinality(own) + Cardinality(p.obs) - Cardinality(own \cap p.obs)
      BY <1>1, <2>4, FS_Union
    <3>. QED
      BY <3>1, <3>2
  <2>7. /\ Cardinality(own) \in Nat /\ Cardinality(p.obs) \in Nat /\ Cardinality(own \cup p.obs) \in Nat
        /\ (Cardinality(p.obs) = 0 <=> p.obs = {})
    BY <1>1, <2>4, FS_CardinalityType, FS_EmptySet, FS_Union
  <2>8. Cardinality(own \cup p.obs) <= run.fetched
    <3>1. run.fetched = old.fetched + p.fetched
      BY <1>5 DEF old
    <3>. QED
      BY <1>1, <2>1, <2>6, <2>7, <3>1
  <2>9. run.fetched > 0 <=> own \cup p.obs # {}
    <3>1. run.fetched = old.fetched + p.fetched
      BY <1>5 DEF old
    <3>2. p.fetched > 0 => own \cup p.obs # {}
      BY <1>1, <1>7 DEF own, Own
    <3>3. p.obs # {} => p.fetched > 0
      BY <1>1, <2>7
    <3>. QED
      BY <1>1, <2>1, <3>1, <3>2, <3>3
  <2>10. run.new = Cardinality(stored \cup p.stored) /\ run.new + run.duplicates = run.fetched
    <3>1. /\ run.fetched = old.fetched + p.fetched /\ run.new = old.new + p.new
          /\ run.duplicates = old.duplicates + (p.fetched - p.new)
      BY <1>5 DEF old
    <3>2. run.new = Cardinality(stored \cup p.stored)
      BY <1>1, <2>1, <2>5, <3>1
    <3>3. run.new + run.duplicates = run.fetched
      BY <1>1, <2>1, <3>1
    <3>. QED
      BY <3>2, <3>3
  <2>11. runs'[r] = run
    BY <1>2, <1>7
  <2>12. IsFiniteSet(Stored(r)') /\ runs'[r].new = Cardinality(Stored(r)')
    BY <2>2, <2>5, <2>10, <2>11
  <2>13. Cardinality(Own(r)') <= runs'[r].fetched
    BY <2>3, <2>8, <2>11
  <2>14. (runs'[r].fetched > 0) = (Own(r)' # {})
    <3>1. runs'[r].fetched > 0 <=> Own(r)' # {}
      BY <2>3, <2>9, <2>11
    <3>. QED
      BY <3>1
  <2>15. runs'[r].new + runs'[r].duplicates = runs'[r].fetched
    BY <2>10, <2>11
  <2>. QED
    BY <2>12, <2>13, <2>14, <2>15 DEF Counts
<1>. QED
  BY <1>6, <1>7

LEMMA CommitPageInv ==
  ASSUME Inv, NEW t \in Targets, CommitPage(t)
  PROVE  Inv'
<1>1. PICK run : Committed(t, run)
  BY CommitPageCommits
<1>2. CoherentRows' /\ RawInv' /\ Pages' /\ RunInv' /\ page' \in [Targets -> Page]
  BY <1>1, CommittedCoherent, CommittedRawInv, CommittedPages, CommittedRunInv
<1>3. \A r \in RunIds : Counts(r)'
  BY <1>1, CommittedCounts
<1>4. IsFiniteSet(obs)'
  <2>1. IsFiniteSet(obs) /\ IsFiniteSet(page[t].obs)
    BY DEF Inv, Pages, PageInv, PageCounts
  <2>. QED
    BY <1>1, <2>1, FS_Union DEF Committed, SeenObs
<1>5. TypeOK'
  <2>1. raw' \in [Items -> RawRow]
    BY <1>1, CommittedRaw
  <2>2. obs' \subseteq Observation /\ proj' \subseteq Projection
    BY <1>1 DEF Committed, SeenObs, SeenProj, Inv, TypeOK, Page
  <2>3. runs' \in [RunIds -> Run]
    BY <1>1 DEF Committed, Inv, TypeOK
  <2>. QED
    BY <1>1, <1>2, <2>1, <2>2, <2>3 DEF Committed, Inv, TypeOK
<1>. QED
  BY <1>2, <1>3, <1>4, <1>5 DEF Inv

-----------------------------------------------------------------------------
(* The theorems.                                                           *)

\* The database before the first run.
LEMMA InitInv == Init => Inv
<1> SUFFICES ASSUME Init PROVE Inv
  OBVIOUS
<1>1. {MaxRuns, MaxPages} \subseteq Nat
  BY DownstreamAssumption
<1>2. Absent \in RawRow /\ \A x \in LegacyAccounts : LegacyRow(x) \in RawRow
  BY DEF Absent, LegacyRow, RawRow, Accounts
<1>3. Absent.run = NoRun /\ \A x \in LegacyAccounts : LegacyRow(x).run = NoRun
  BY DEF Absent, LegacyRow
<1>4. raw \in [Items -> RawRow] /\ \A i \in Items : raw[i].run = NoRun
  BY <1>2, <1>3 DEF Init
<1>5. Closed(Nothing) \in Page /\ Closed(Nothing).key = Nothing /\ ~Closed(Nothing).open
      /\ Closed(Nothing).stored = {} /\ Closed(Nothing).obs = {} /\ Closed(Nothing).proj = {}
      /\ Closed(Nothing).fetched = 0 /\ Closed(Nothing).new = 0
  BY ClosedPage
<1>6. NewRun \in Run /\ NewRun.status = "none" /\ NewRun.fetched = 0 /\ NewRun.new = 0
      /\ NewRun.duplicates = 0
  BY DEF NewRun, Run
<1>7. TypeOK
  BY <1>1, <1>4, <1>5, <1>6 DEF Init, TypeOK
<1>8. CoherentRows
  <2>1. Coherent(obs, proj)
    BY DEF Init, Coherent, UniqueKeys, OneFirst, Introduced
  <2>2. \A t \in Targets : SeenObs(t) = obs /\ SeenProj(t) = proj
    BY <1>5 DEF Init, SeenObs, SeenProj
  <2>. QED
    BY <2>1, <2>2 DEF CoherentRows
<1>9. RawInv
  BY <1>4 DEF Init, RawInv
<1>10. Pages
  <2>1. \A t \in Targets : page[t] = Closed(Nothing)
    BY DEF Init
  <2>2. \A t \in Targets : page[t] = Closed(page[t].key)
    BY <1>5, <2>1
  <2>3. ASSUME NEW t \in Targets PROVE PageInv(t)
    <3>1. PageRows(t)
      BY <1>5, <2>1 DEF PageRows
    <3>2. PageCounts(t)
      BY <1>5, <2>1, FS_EmptySet DEF PageCounts
    <3>. QED
      BY <1>5, <2>1, <2>2, <3>1, <3>2 DEF PageInv
  <2>. QED
    BY <1>5, <2>1, <2>3 DEF Pages
<1>11. RunInv
  <2>1. \A r \in RunIds : runs[r] = NewRun
    BY DEF Init
  <2>2. \A t \in Targets : \A n \in 1 .. MaxRuns : <<t, n>> \in RunIds
    BY DEF RunIds
  <2>. QED
    BY <1>6, <2>1, <2>2 DEF RunInv
<1>12. IsFiniteSet(obs)
  BY FS_EmptySet DEF Init
<1>13. ASSUME NEW r \in RunIds PROVE Counts(r)
  <2>1. Stored(r) = {} /\ Own(r) = {}
    BY <1>4, <1>7, RunsApart DEF Stored, Own, Init
  <2>2. runs[r] = NewRun
    BY DEF Init
  <2>. QED
    BY <1>6, <2>1, <2>2, FS_EmptySet DEF Counts
<1>. QED
  BY <1>7, <1>8, <1>9, <1>10, <1>11, <1>12, <1>13 DEF Inv

\* Every step keeps the invariant.
LEMMA NextInv == Inv /\ [Next]_vars => Inv'
<1> SUFFICES ASSUME Inv, [Next]_vars PROVE Inv'
  OBVIOUS
<1>1. ASSUME UNCHANGED vars PROVE Inv'
  <2>1. TypeOK' /\ IsFiniteSet(obs)'
    BY <1>1 DEF vars, Inv, TypeOK
  <2>2. CoherentRows'
    BY <1>1 DEF vars, Inv, CoherentRows, SeenObs, SeenProj
  <2>3. RawInv'
    BY <1>1 DEF vars, Inv, RawInv
  <2>4. RunInv'
    BY <1>1 DEF vars, Inv, RunInv
  <2>5. Pages'
    <3>1. \A t \in Targets : SeenObs(t)' = SeenObs(t) /\ RunOf(t)' = RunOf(t)
                              /\ (Running(t)' <=> Running(t))
      BY <1>1 DEF vars, SeenObs, RunOf, Running
    <3>2. \A t \in Targets : PageRows(t)'
      BY <1>1, <3>1 DEF vars, Inv, Pages, PageInv, PageRows
    <3>3. \A t \in Targets : PageCounts(t)'
      BY <1>1, <3>1 DEF vars, Inv, Pages, PageInv, PageCounts
    <3>. QED
      BY <1>1, <3>1, <3>2, <3>3 DEF vars, Inv, Pages, PageInv
  <2>6. \A r \in RunIds : Counts(r)'
    BY <1>1 DEF vars, Inv, Counts, Own, Stored
  <2>. QED
    BY <2>1, <2>2, <2>3, <2>4, <2>5, <2>6 DEF Inv
<1>2. ASSUME NEW t \in Targets,
             \/ StartRun(t)
             \/ \E key \in Keys \cup {"run"} : BeginPage(t, key)
             \/ \E entry \in Entry : NextItem(t, entry)
             \/ PersistPage(t)
             \/ FailPage(t)
      PROVE  Inv'
  BY <1>2, StartRunInv, BeginPageInv, NextItemInv, StoreItemInv, CommitPageInv, FailPageInv DEF PersistPage
<1>. QED
  BY <1>1, <1>2 DEF Next, Horizon

\* Inv is an invariant of the persistence of pages.
THEOREM Invariance == Spec => []Inv
  BY InitInv, NextInv, PTL DEF Spec

\* Whatever pages of however many targets overlap, _raw_item and _observation give a raw
\* item one FIRST_SEEN observation, made by the run that stored it.
THEOREM FirstSeenIsUnique == Spec => []FirstSeenOnce
<1>1. Inv => FirstSeenOnce
  <2> SUFFICES ASSUME Inv, NEW i \in Items
               PROVE  LET firsts == {o \in obs : o.item = i /\ o.kind = "first_seen"}
                      IN  /\ {o.run : o \in firsts} = {raw[i].run} \ {NoRun}
                          /\ Cardinality(firsts) <= 1
    BY DEF FirstSeenOnce
  <2> DEFINE firsts == {o \in obs : o.item = i /\ o.kind = "first_seen"}
  <2>1. \A o \in firsts : o.run = raw[i].run /\ o.run # NoRun
    BY RunsApart DEF Inv, RawInv, TypeOK, Observation
  <2>2. raw[i].run # NoRun => \E o \in firsts : o.run = raw[i].run
    BY DEF Inv, RawInv
  <2>3. \A o, p \in firsts : o = p
    BY DEF Inv, CoherentRows, Coherent, OneFirst
  <2> HIDE DEF firsts
  <2>4. Cardinality(firsts) <= 1
    <3>1. CASE firsts = {}
      BY <3>1, FS_EmptySet
    <3>2. CASE firsts # {}
      <4>1. PICK o : firsts = {o}
        BY <2>3, <3>2
      <4>2. Cardinality({o}) = 1
        BY FS_Singleton
      <4>. QED
        BY <4>1, <4>2
    <3>. QED
      BY <3>1, <3>2
  <2>5. {o.run : o \in firsts} = {raw[i].run} \ {NoRun}
    BY <2>1, <2>2
  <2>. QED
    BY <2>4, <2>5 DEF firsts
<1>. QED
  BY Invariance, <1>1, PTL

\* The previous hash is read without a lock, yet the first committed observation of an
\* item with given facts is never the duplicate of another.
THEOREM FactsAreIntroduced == Spec => []EveryFactIsIntroduced
<1>1. Inv => EveryFactIsIntroduced
  BY DEF Inv, CoherentRows, Coherent, Introduced, EveryFactIsIntroduced
<1>. QED
  BY Invariance, <1>1, PTL

\* The counters of _persist_result agree with the rows of the three tables.
THEOREM CountersAgree == Spec => []CountersMatchRows
<1>1. Inv => CountersMatchRows
  <2> SUFFICES ASSUME Inv, NEW r \in RunIds
               PROVE  Cardinality({p \in proj : p.run = r}) = Cardinality(Own(r))
    BY DEF Inv, CountersMatchRows, Counts, Own, Stored
  <2> DEFINE S == Own(r)
             T == {p \in proj : p.run = r}
             f == [o \in S |-> Projected(o)]
  <2>1. UniqueKeys(obs) /\ proj = {Projected(o) : o \in obs}
    BY DEF Inv, CoherentRows, Coherent
  <2>2. \A o \in obs : LET x == Projected(o) IN x.run = o.run /\ x.item = o.item /\ x.key = o.key
    BY DEF Projected
  <2>3. f \in [S -> T]
    BY <2>1, <2>2 DEF Own
  <2>4. \A x, y \in S : f[x] = f[y] => x = y
    BY <2>1, <2>2 DEF Own, UniqueKeys
  <2>5. \A z \in T : \E x \in S : f[x] = z
    BY <2>1, <2>2 DEF Own
  <2>6. IsFiniteSet(S)
    BY FS_Subset DEF Own, Inv
  <2> HIDE DEF S, T, f
  <2>7. Cardinality(T) = Cardinality(S)
    BY <2>3, <2>4, <2>5, <2>6, SameCardinality
  <2>. QED
    BY <2>7 DEF S, T
<1>. QED
  BY Invariance, <1>1, PTL

-----------------------------------------------------------------------------
(* The windows, for every length of an hour, a day and a month.            *)

LEMMA MaxOfTwo ==
    ASSUME NEW a \in Int, NEW b \in Int
    PROVE  Sets!Max({a, b}) = IF a >= b THEN a ELSE b
  BY DEF Sets!Max

LEMMA MinOfTwo ==
    ASSUME NEW a \in Int, NEW b \in Int
    PROVE  Sets!Min({a, b}) = IF a <= b THEN a ELSE b
  BY DEF Sets!Min

LEMMA FloorBounds ==
    ASSUME NEW t \in Int, NEW n \in Nat \ {0}
    PROVE  Floor(t, n) \in Int /\ Floor(t, n) <= t /\ t < Floor(t, n) + n
  BY DEF Floor

LEMMA FloorMonotonic ==
    ASSUME NEW s \in Int, NEW t \in Int, s <= t, NEW n \in Nat \ {0}
    PROVE  Floor(s, n) <= Floor(t, n) /\ s \div n <= t \div n
  BY DEF Floor


LEMMA DivUnique ==
    ASSUME NEW t \in Int, NEW n \in Nat \ {0}, NEW a \in Int, a * n <= t, t < a * n + n
    PROVE  t \div n = a
<1>1. /\ t \div n \in Int /\ (t \div n) * n <= t /\ t < (t \div n) * n + n
  OBVIOUS
<1> DEFINE d == t \div n
<1> HIDE DEF d
<1>2. d \in Int /\ d * n <= t /\ t < d * n + n
  BY <1>1 DEF d
<1>3. d = a
  <2>1. ~(d < a)
    <3>1. SUFFICES ASSUME d + 1 <= a PROVE FALSE
      BY <1>2
    <3>2. (d + 1) * n <= a * n
      BY <1>2, <3>1
    <3>3. (d + 1) * n = d * n + n
      BY <1>2
    <3>. QED BY <1>2, <3>2, <3>3
  <2>2. ~(a < d)
    <3>1. SUFFICES ASSUME a + 1 <= d PROVE FALSE
      BY <1>2
    <3>2. (a + 1) * n <= d * n
      BY <1>2, <3>1
    <3>3. (a + 1) * n = a * n + n
      BY <1>2
    <3>. QED BY <1>2, <3>2, <3>3
  <2>. QED BY <1>2, <2>1, <2>2
<1>. QED BY <1>3 DEF d

\* What is before the next multiple of n is rounded to this one at most.
LEMMA FloorBelow ==
    ASSUME NEW t \in Int, NEW n \in Nat \ {0}, NEW s \in Int, Floor(s, n) = s, t < s + n
    PROVE  Floor(t, n) <= s
<1> DEFINE d == s \div n
           e == t \div n
<1>1. d \in Int /\ e \in Int /\ d * n = s /\ e * n <= t
  BY DEF Floor
<1> HIDE DEF d, e
<1>2. e < d + 1
  <2>1. SUFFICES ASSUME e >= d + 1 PROVE FALSE
    BY <1>1
  <2>2. e * n >= (d + 1) * n /\ (d + 1) * n = d * n + n
    BY <1>1, <2>1
  <2>. QED BY <1>1, <2>2
<1>3. e * n <= d * n
  BY <1>1, <1>2
<1>. QED BY <1>1, <1>3 DEF Floor, e

LEMMA FloorShift ==
    ASSUME NEW t \in Int, NEW n \in Nat \ {0}, NEW k \in Int, k % n = 0
    PROVE  Floor(t - k, n) = Floor(t, n) - k
<1> DEFINE d == t \div n
           q == k \div n
<1>1. d \in Int /\ d * n <= t /\ t < d * n + n
  OBVIOUS
<1>2. q \in Int /\ k = q * n
  OBVIOUS
<1> HIDE DEF d, q
<1>3. (d - q) * n = d * n - q * n
  BY <1>1, <1>2
<1>4. (t - k) \div n = d - q
  BY <1>1, <1>2, <1>3, DivUnique
<1>. QED BY <1>2, <1>3, <1>4 DEF Floor, d

LEMMA FloorIdempotent ==
    ASSUME NEW t \in Int, NEW n \in Nat \ {0}
    PROVE  Floor(t, n) % n = 0 /\ Floor(Floor(t, n), n) = Floor(t, n)
<1> DEFINE d == t \div n
<1>1. d \in Int
  OBVIOUS
<1> HIDE DEF d
<1>2. d * n <= d * n /\ d * n < d * n + n /\ d * n \in Int
  BY <1>1
<1>3. (d * n) \div n = d
  BY <1>1, <1>2, DivUnique
<1>4. (d * n) % n = 0
  BY <1>1, <1>2, <1>3
<1>. QED BY <1>3, <1>4 DEF Floor, d

\* What validate_window accepts, whatever the period.
LEMMA RollingTyped ==
    ASSUME NEW g \in Granularities, NEW c \in Rolling(g)
    PROVE  /\ c.lookback \in Nat \ {0} /\ c.overlap \in Nat /\ c.lag \in Nat
           /\ c.lookback <= Ceiling(g) /\ c.overlap < c.lookback
           /\ g # "month" => Ticks(g) <= c.lookback
<1>1. Ticks(g) \in Nat \ {0} /\ Ceiling(g) \in Nat
  BY WindowsAssumption DEF Granularities, Ticks, Ceiling
<1> DEFINE shortest == IF g = "month" THEN 1 ELSE Ticks(g)
           longestLag == IF MaxLag < Ceiling(g) THEN MaxLag ELSE Ceiling(g)
<1>2. shortest \in Nat \ {0} /\ (g # "month" => shortest = Ticks(g))
  BY <1>1
<1>3. longestLag \in Nat
  BY <1>1, WindowsAssumption
<1>4. /\ c \in [lookback : shortest .. Ceiling(g), overlap : 0 .. Ceiling(g), lag : 0 .. longestLag]
      /\ c.overlap < c.lookback
  BY DEF Rolling
<1> HIDE DEF shortest, longestLag
<1>5. c.lookback \in shortest .. Ceiling(g) /\ c.overlap \in 0 .. Ceiling(g) /\ c.lag \in 0 .. longestLag
  BY <1>4
<1>. QED BY <1>1, <1>2, <1>3, <1>4, <1>5

\* An hourly or daily window: a multiple of the period at both ends, an hour long at least, as
\* long as the lookback at most, before it is rounded.
LEMMA TimedWindow ==
    ASSUME NEW g \in {"hour", "day"}, NEW c \in Rolling(g), NEW now \in Int, NEW watermark \in Int
    PROVE  LET w == ResolveWindow(g, c, now, watermark)
               end == Floor(now - c.lag, Ticks(g))
           IN  /\ w.end = end /\ end \in Int
               /\ \E x \in Int :
                     /\ w.start = Floor(x, Ticks(g))
                     /\ end - c.lookback <= x /\ x <= end - HourTicks
                     /\ watermark = NoWatermark => x = end - c.lookback
                     /\ x = end - c.lookback \/ x <= watermark - c.overlap
<1> DEFINE end == Floor(now - c.lag, Ticks(g))
           reach == end - c.lookback
           near == Sets!Min({watermark - c.overlap, end - HourTicks})
           x == IF watermark = NoWatermark THEN reach ELSE Sets!Max({reach, near})
           w == ResolveWindow(g, c, now, watermark)
<1>1. g \in Granularities
  BY DEF Granularities
<1>2. /\ c.lookback \in Nat \ {0} /\ c.overlap \in Nat /\ c.lag \in Nat /\ Ticks(g) <= c.lookback
      /\ g # "month"
  BY <1>1, RollingTyped
<1>3. Ticks(g) \in Nat \ {0} /\ HourTicks \in Nat \ {0} /\ HourTicks <= Ticks(g)
  <2>1. HourTicks <= DayTicks
    <3>1. DayTicks % HourTicks = 0 /\ DayTicks \in Nat \ {0} /\ HourTicks \in Nat \ {0}
      BY WindowsAssumption
    <3>. QED BY <3>1
  <2>. QED BY <2>1, WindowsAssumption DEF Ticks
<1>4. end \in Int
  <2>1. now - c.lag \in Int
    BY <1>2
  <2>. QED BY <1>3, <2>1, FloorBounds
<1>5. w = [start |-> Floor(x, Ticks(g)), end |-> end]
  BY <1>2 DEF ResolveWindow
<1> HIDE DEF end, w
<1>6. near \in Int /\ near <= end - HourTicks /\ near <= watermark - c.overlap
  BY <1>2, <1>3, <1>4, MinOfTwo
<1> HIDE DEF near
<1>7. reach \in Int /\ reach <= end - HourTicks
  BY <1>2, <1>3, <1>4
<1>8. /\ x \in Int
      /\ reach <= x /\ x <= end - HourTicks
      /\ watermark = NoWatermark => x = reach
      /\ x = reach \/ x <= watermark - c.overlap
  BY <1>2, <1>6, <1>7, MaxOfTwo
<1> HIDE DEF x
<1>9. w.end = end /\ w.start = Floor(x, Ticks(g))
  BY <1>5
<1>10. \E y \in Int :
          /\ w.start = Floor(y, Ticks(g))
          /\ end - c.lookback <= y /\ y <= end - HourTicks
          /\ watermark = NoWatermark => y = end - c.lookback
          /\ y = end - c.lookback \/ y <= watermark - c.overlap
  BY <1>8, <1>9
<1>. QED BY <1>4, <1>9, <1>10 DEF end, w

\* A monthly window, in months: it ends with the last complete month but the lag.
LEMMA MonthlyShape ==
    ASSUME NEW c \in Rolling("month"), NEW now \in Int, NEW watermark \in Int
    PROVE  LET w == ResolveWindow("month", c, now, watermark)
               end == Month(now) - 1 - c.lag
           IN  /\ w.end = end /\ end \in Int /\ w.start \in Int
               /\ end - c.lookback + 1 <= w.start /\ w.start <= end
               /\ watermark = NoWatermark => w.start = end - c.lookback + 1
               /\ w.start = end - c.lookback + 1 \/ w.start <= Month(watermark) - c.overlap
<1> DEFINE end == Month(now) - 1 - c.lag
           reach == end - c.lookback + 1
           near == Sets!Min({Month(watermark) - c.overlap, end})
           start == IF watermark = NoWatermark THEN reach ELSE Sets!Max({reach, near})
           w == ResolveWindow("month", c, now, watermark)
<1>1. c.lookback \in Nat \ {0} /\ c.overlap \in Nat /\ c.lag \in Nat
  BY RollingTyped DEF Granularities
<1>2. Month(now) \in Int /\ Month(watermark) \in Int
  BY WindowsAssumption DEF Month
<1>3. w = [start |-> start, end |-> end]
  BY DEF ResolveWindow, MonthlyWindow
<1>4. end \in Int /\ reach \in Int /\ reach <= end
  BY <1>1, <1>2
<1> HIDE DEF end, w
<1>5. near \in Int /\ near <= end /\ near <= Month(watermark) - c.overlap
  BY <1>1, <1>2, <1>4, MinOfTwo
<1> HIDE DEF near, reach
<1>6. /\ start \in Int
      /\ reach <= start /\ start <= end
      /\ watermark = NoWatermark => start = reach
      /\ start = reach \/ start <= Month(watermark) - c.overlap
  BY <1>4, <1>5, MaxOfTwo
<1> HIDE DEF start
<1>. QED BY <1>3, <1>4, <1>6 DEF end, reach, w

\* resolve_window: whatever instant a run starts at and whatever watermark its cursor has, the
\* window it freezes passes the validation that breadth_config repeats before every request.
THEOREM EveryWindowIsValid ==
    ASSUME NEW g \in Granularities, NEW c \in Rolling(g), NEW now \in Int, NEW watermark \in Int
    PROVE  ValidFixed(g, ResolveWindow(g, c, now, watermark))
<1> DEFINE w == ResolveWindow(g, c, now, watermark)
<1>1. c.lookback \in Nat \ {0} /\ c.lookback <= Ceiling(g)
  BY RollingTyped
<1>2. CASE g = "month"
  <2>1. w.end \in Int /\ w.start \in Int /\ w.end - c.lookback + 1 <= w.start /\ w.start <= w.end
    BY <1>2, MonthlyShape
  <2>2. Ceiling(g) = MonthCeiling /\ MonthCeiling \in Nat
    BY <1>2, WindowsAssumption DEF Ceiling
  <2> HIDE DEF w
  <2>3. w.end - w.start \in 0 .. MonthCeiling - 1
    BY <1>1, <2>1, <2>2
  <2>. QED BY <1>2, <2>3 DEF ValidFixed, w
<1>3. CASE g \in {"hour", "day"}
  <2> DEFINE n == Ticks(g)
  <2>1. n \in Nat \ {0} /\ HourTicks \in Nat \ {0} /\ Ceiling(g) \in Nat /\ Ceiling(g) % n = 0
    BY <1>3, WindowsAssumption DEF Ticks, Ceiling
  <2>2. w.end = Floor(now - c.lag, n) /\ w.end \in Int
    BY <1>3, TimedWindow
  <2>3. PICK x \in Int : /\ w.start = Floor(x, n)
                         /\ w.end - c.lookback <= x /\ x <= w.end - HourTicks
    BY <1>3, <2>2, TimedWindow
  <2>4. Floor(w.end, n) = w.end
    <3>1. c.lag \in Nat
      BY RollingTyped
    <3>. QED BY <2>1, <2>2, <3>1, FloorIdempotent
  <2> HIDE DEF w, n
  <2>5. w.start \in Int /\ w.start <= w.end - HourTicks
    BY <2>1, <2>2, <2>3, FloorBounds
  <2>6. w.end - Ceiling(g) <= w.start
    <3>1. Floor(w.end - Ceiling(g), n) = w.end - Ceiling(g)
      BY <2>1, <2>2, <2>4, FloorShift
    <3>2. w.end - Ceiling(g) <= x
      BY <1>1, <2>1, <2>2, <2>3
    <3>. QED BY <2>1, <2>2, <2>3, <3>1, <3>2, FloorMonotonic
  <2>7. w.end - w.start \in 1 .. Ceiling(g)
    BY <2>1, <2>2, <2>5, <2>6
  <2>. QED BY <1>3, <2>7 DEF ValidFixed, w
<1>. QED BY <1>2, <1>3 DEF Granularities

\* resolve_window: whatever instants two successive runs start at, at most a lookback apart, the
\* second window begins where the first ended or before, and what the first run could not see
\* yet is not before it when it appeared within the overlap.
THEOREM EveryWindowAdjoins ==
    ASSUME NEW g \in Granularities, NEW c \in Rolling(g), NEW now \in Int, NEW first,
           first = ResolveWindow(g, c, now, NoWatermark),
           NEW later \in Int, now <= later, later <= now + Lookback(g, c),
           NEW watermark \in Int, watermark = NoWatermark \/ watermark <= LastWatermark(g, first),
           NEW second, second = ResolveWindow(g, c, later, watermark)
    PROVE  /\ StartTick(g, second) <= NextStart(g, first)
           /\ g # "month" /\ watermark <= now =>
                 \A published \in Int :
                     later - c.lookback <= published /\ now - c.overlap + 1 <= published
                     => second.start <= published
<1>1. c.lookback \in Nat \ {0} /\ c.overlap \in Nat /\ c.lag \in Nat
  BY RollingTyped
<1>2. NoWatermark \in Int
  BY DEF NoWatermark
<1>3. CASE g = "month"
  <2> DEFINE n == MonthTicks
  <2>1. n \in Nat \ {0}
    BY WindowsAssumption
  <2>2. Month(now) \in Int /\ Month(later) \in Int /\ Month(watermark) \in Int
    BY <2>1 DEF Month
  <2>3. first.end = Month(now) - 1 - c.lag
    BY <1>2, <1>3, MonthlyShape
  <2>4. /\ second.end = Month(later) - 1 - c.lag /\ second.start \in Int
        /\ watermark = NoWatermark => second.start = second.end - c.lookback + 1
        /\ second.start = second.end - c.lookback + 1 \/ second.start <= Month(watermark) - c.overlap
    BY <1>3, MonthlyShape
  <2>5. Month(later) <= Month(now) + c.lookback
    <3>1. later <= now + c.lookback * n
      BY <1>3 DEF Lookback
    <3>2. Month(later) <= (now + c.lookback * n) \div n
      BY <1>1, <2>1, <3>1, FloorMonotonic DEF Month
    <3>3. (now + c.lookback * n) \div n = Month(now) + c.lookback
      <4> DEFINE d == now \div n
      <4>1. d \in Int /\ d * n <= now /\ now < d * n + n
        BY <2>1
      <4> HIDE DEF d, n
      <4>2. (d + c.lookback) * n = d * n + c.lookback * n
        BY <1>1, <2>1, <4>1
      <4>3. now + c.lookback * n \in Int /\ d + c.lookback \in Int /\ c.lookback * n \in Int /\ d * n \in Int
        BY <1>1, <2>1, <4>1
      <4>4. /\ (d + c.lookback) * n <= now + c.lookback * n
            /\ now + c.lookback * n < (d + c.lookback) * n + n
        BY <2>1, <4>1, <4>2, <4>3
      <4>5. (now + c.lookback * n) \div n = d + c.lookback
        BY <2>1, <4>3, <4>4, DivUnique
      <4>. QED BY <4>5 DEF Month, d, n
    <3>. QED BY <3>2, <3>3
  <2>6. second.end - c.lookback + 1 <= first.end + 1
    BY <1>1, <2>2, <2>3, <2>4, <2>5
  <2>7. watermark # NoWatermark => Month(watermark) <= first.end + 1
    <3>1. SUFFICES ASSUME watermark # NoWatermark PROVE Month(watermark) <= first.end + 1
      OBVIOUS
    <3> DEFINE d == first.end + 1
    <3>2. watermark <= d * n
      BY <1>3, <3>1 DEF NextStart, LastWatermark
    <3>3. d \in Int
      BY <1>1, <2>2, <2>3
    <3> HIDE DEF d, n
    <3>4. (d * n) \div n = d
      BY <2>1, <3>3, DivUnique
    <3>5. watermark \div n <= d
      BY <2>1, <3>2, <3>3, <3>4, FloorMonotonic
    <3>. QED BY <3>5 DEF Month, d, n
  <2>8. second.start <= first.end + 1
    BY <1>1, <2>2, <2>3, <2>4, <2>6, <2>7
  <2>9. second.start * n <= (first.end + 1) * n
    <3>1. first.end + 1 \in Int /\ second.start \in Int
      BY <1>1, <2>2, <2>3, <2>4
    <3> HIDE DEF n
    <3>. QED BY <2>1, <2>8, <3>1
  <2>. QED BY <1>3, <2>9 DEF StartTick, NextStart
<1>4. CASE g \in {"hour", "day"}
  <2> DEFINE n == Ticks(g)
             x1 == Floor(now - c.lag, n)
             x2 == Floor(later - c.lag, n)
  <2>1. n \in Nat \ {0} /\ HourTicks \in Nat \ {0}
    BY <1>4, WindowsAssumption DEF Ticks
  <2>2. first.end = x1 /\ second.end = x2
    BY <1>2, <1>4, TimedWindow
  <2>3. PICK x \in Int : /\ second.start = Floor(x, n)
                         /\ watermark = NoWatermark => x = x2 - c.lookback
                         /\ x = x2 - c.lookback \/ x <= watermark - c.overlap
    BY <1>4, TimedWindow
  <2>4. later <= now + c.lookback
    BY <1>4 DEF Lookback
  <2>5. NextStart(g, first) = x1 /\ StartTick(g, second) = second.start
    BY <1>4, <2>2 DEF NextStart, StartTick
  <2> HIDE DEF n
  <2>6. x1 \in Int /\ x2 \in Int /\ x2 <= later - c.lag
    BY <1>1, <2>1, FloorBounds
  <2>7. second.start \in Int /\ second.start <= x
    BY <2>1, <2>3, FloorBounds
  <2>8. CASE x = x2 - c.lookback
    <3>1. x <= now - c.lag
      BY <1>1, <2>4, <2>6, <2>8
    <3>2. second.start <= x1
      BY <1>1, <2>1, <2>3, <3>1, FloorMonotonic
    <3>3. second.start <= later - c.lookback
      BY <1>1, <2>6, <2>7, <2>8
    <3> HIDE DEF x1, x2
    <3>. QED BY <1>1, <2>5, <2>6, <2>7, <3>2, <3>3
  <2>9. CASE x # x2 - c.lookback
    <3>1. x <= watermark - c.overlap /\ watermark <= x1 + n - 1
      BY <1>4, <2>1, <2>2, <2>3, <2>5, <2>6, <2>9 DEF LastWatermark, n, Ticks
    <3>2. Floor(x1, n) = x1
      BY <1>1, <2>1, FloorIdempotent
    <3> HIDE DEF x1, x2
    <3>3. x < x1 + n
      BY <1>1, <2>1, <2>6, <3>1
    <3>4. second.start <= x1
      BY <2>1, <2>3, <2>6, <3>2, <3>3, FloorBelow
    <3>. QED BY <1>1, <2>5, <2>6, <2>7, <3>1, <3>4
  <2>. QED BY <2>8, <2>9
<1>. QED BY <1>3, <1>4 DEF Granularities

LEMMA StartsTyped ==
    ASSUME NEW g \in Granularities
    PROVE  Starts(g) \subseteq Int /\ Ticks(g) \in Nat
  BY WindowsAssumption DEF Starts, Ticks, Granularities

\* ResolvedWindowIsValid, of the starts and watermarks resolve_window is checked with.
THEOREM WindowsAreValid == ResolvedWindowIsValid
<1>1. SUFFICES ASSUME NEW g \in Granularities, NEW c \in Rolling(g), NEW now \in Starts(g),
                      NEW watermark \in {NoWatermark} \cup (Epoch - 2 * Ticks(g)) .. (Epoch + 2 * Ticks(g))
               PROVE  ValidFixed(g, ResolveWindow(g, c, now, watermark))
  BY DEF ResolvedWindowIsValid
<1>2. now \in Int /\ watermark \in Int
  BY StartsTyped, WindowsAssumption DEF NoWatermark
<1>. QED BY <1>2, EveryWindowIsValid

\* WindowsLeaveNoGap, of the starts and watermarks resolve_window is checked with.
THEOREM WindowsHaveNoGap == WindowsLeaveNoGap
<1>1. SUFFICES ASSUME NEW g \in Granularities, NEW c \in Rolling(g), NEW now \in Starts(g)
               PROVE  LET first == ResolveWindow(g, c, now, NoWatermark)
                          next == NextStart(g, first)
                      IN
                      \A later \in now .. now + Lookback(g, c) :
                      \A watermark \in {NoWatermark} \cup (next - 2 * Ticks(g)) .. LastWatermark(g, first) :
                          LET second == ResolveWindow(g, c, later, watermark) IN
                          /\ StartTick(g, second) <= next
                          /\ g # "month" /\ watermark <= now =>
                                \A published \in Sets!Max({later - c.lookback, now - c.overlap + 1}) .. now :
                                    second.start <= published
  BY DEF WindowsLeaveNoGap
<1> DEFINE first == ResolveWindow(g, c, now, NoWatermark)
           next == NextStart(g, first)
<1>2. now \in Int /\ Ticks(g) \in Nat /\ NoWatermark \in Int
  BY StartsTyped DEF NoWatermark
<1>3. c.lookback \in Nat \ {0} /\ c.overlap \in Nat /\ c.lag \in Nat
  BY RollingTyped
<1>4. Lookback(g, c) \in Nat
  BY <1>3, WindowsAssumption DEF Lookback
<1>5. next \in Int
  <2>1. CASE g = "month"
    <3>1. first.end \in Int
      BY <1>2, <2>1, MonthlyShape
    <3>. QED BY <2>1, <3>1, WindowsAssumption DEF NextStart
  <2>2. CASE g \in {"hour", "day"}
    <3>1. first.end \in Int
      BY <1>2, <2>2, TimedWindow
    <3>. QED BY <2>2, <3>1 DEF NextStart
  <2>. QED BY <2>1, <2>2 DEF Granularities
<1>6. ASSUME NEW later \in now .. now + Lookback(g, c),
             NEW watermark \in {NoWatermark} \cup (next - 2 * Ticks(g)) .. LastWatermark(g, first)
      PROVE  LET second == ResolveWindow(g, c, later, watermark) IN
             /\ StartTick(g, second) <= next
             /\ g # "month" /\ watermark <= now =>
                   \A published \in Sets!Max({later - c.lookback, now - c.overlap + 1}) .. now :
                       second.start <= published
  <2> DEFINE second == ResolveWindow(g, c, later, watermark)
  <2>1. later \in Int /\ now <= later /\ later <= now + Lookback(g, c)
    BY <1>2, <1>4
  <2>2. watermark \in Int /\ (watermark = NoWatermark \/ watermark <= LastWatermark(g, first))
    <3> DEFINE last == LastWatermark(g, first)
    <3>1. last \in Int
      BY <1>5, WindowsAssumption DEF LastWatermark, NextStart
    <3> HIDE DEF last, next
    <3>. QED BY <1>2, <1>5, <3>1 DEF last
  <2>3. /\ StartTick(g, second) <= next
        /\ g # "month" /\ watermark <= now =>
              \A published \in Int :
                  later - c.lookback <= published /\ now - c.overlap + 1 <= published
                  => second.start <= published
    BY <1>2, <2>1, <2>2, EveryWindowAdjoins
  <2> HIDE DEF first, next, second
  <2>4. ASSUME NEW published \in Sets!Max({later - c.lookback, now - c.overlap + 1}) .. now
        PROVE  /\ published \in Int
               /\ later - c.lookback <= published /\ now - c.overlap + 1 <= published
    BY <1>2, <1>3, <2>1, MaxOfTwo
  <2>. QED BY <2>3, <2>4 DEF second
<1>. QED BY <1>6

\* WindowsAdjoin: the windows successive runs freeze (resolve_window) are valid and leave no
\* gap, in units of any hour, day and month.
THEOREM WindowsAlwaysAdjoin == Spec => []WindowsAdjoin
<1>1. WindowsAdjoin
  BY WindowsAreValid, WindowsHaveNoGap DEF WindowsAdjoin
<1>. QED BY <1>1, PTL

=============================================================================

----------------------- MODULE EventIntelligenceProofs -----------------------
(***************************************************************************)
(* Theorems about EventIntelligence: the type invariant, one active         *)
(* membership of evidence, explained matches, the order that review keeps    *)
(* while transactions do not overlap, and counts that describe membership    *)
(* when they do.                                                            *)
(***************************************************************************)
EXTENDS EventIntelligence, FiniteSetTheorems, TLAPS

-----------------------------------------------------------------------------
(* Rows.                                                                   *)

Sources(S) == {Facts[e].source : e \in S}

Entities(S) == UNION {Facts[e].entities : e \in S}

Official(S) == \E e \in S : Facts[e].official

\* The aggregates of any evidence are counts, which grow with it.
LEMMA Counts ==
    ASSUME NEW S \in SUBSET Evidence
    PROVE  /\ IsFiniteSet(S) /\ IsFiniteSet(Sources(S)) /\ IsFiniteSet(Entities(S))
           /\ Cardinality(S) \in Nat /\ Cardinality(Sources(S)) \in Nat
           /\ Cardinality(Entities(S)) \in Nat
           /\ Cardinality(S) = 0 <=> S = {}
           /\ S # {} => Cardinality(S) >= 1 /\ Cardinality(Sources(S)) >= 1
<1>1. IsFiniteSet(S)
    BY FS_Subset, EventAssumption
<1>2. IsFiniteSet(Sources(S))
  <2> DEFINE f == [e \in S |-> Facts[e].source]
  <2>1. f \in Surjection(S, Sources(S))
    BY DEF Surjection, Sources
  <2>. QED BY <1>1, <2>1, FS_Surjection
<1>3. IsFiniteSet(Entities(S))
  <2> DEFINE T == {Facts[e].entities : e \in S}
             f == [e \in S |-> Facts[e].entities]
  <2>1. f \in Surjection(S, T)
    BY DEF Surjection
  <2>2. IsFiniteSet(T)
    BY <1>1, <2>1, FS_Surjection
  <2>3. \A U \in T : IsFiniteSet(U)
    BY EventAssumption
  <2>. QED BY <2>2, <2>3, FS_UNION DEF Entities
<1>4. /\ Cardinality(S) \in Nat /\ Cardinality(Sources(S)) \in Nat
      /\ Cardinality(Entities(S)) \in Nat
    BY <1>1, <1>2, <1>3, FS_CardinalityType
<1>5. Cardinality(S) = 0 <=> S = {}
    BY <1>1, FS_EmptySet
<1>6. S # {} => Sources(S) # {}
    BY DEF Sources
<1>7. Sources(S) # {} => Cardinality(Sources(S)) # 0
    BY <1>2, FS_EmptySet
<1>. QED BY <1>1, <1>2, <1>3, <1>4, <1>5, <1>6, <1>7

LEMMA CountsGrow ==
    ASSUME NEW S \in SUBSET Evidence, NEW T \in SUBSET Evidence, S \subseteq T
    PROVE  /\ Cardinality(S) <= Cardinality(T)
           /\ Cardinality(S) = Cardinality(T) => S = T
           /\ Cardinality(Sources(S)) <= Cardinality(Sources(T))
           /\ Cardinality(Entities(S)) <= Cardinality(Entities(T))
           /\ Official(S) => Official(T)
<1>1. IsFiniteSet(T) /\ IsFiniteSet(Sources(T)) /\ IsFiniteSet(Entities(T))
    BY Counts
<1>2. Sources(S) \subseteq Sources(T) /\ Entities(S) \subseteq Entities(T)
    BY DEF Sources, Entities
<1>. QED BY <1>1, <1>2, FS_Subset DEF Official

LEMMA ScoreType ==
    ASSUME NEW official \in BOOLEAN, NEW evidence \in Nat, NEW sources \in Nat, NEW entities \in Nat,
           evidence # 0 => sources >= 1
    PROVE  Score(official, evidence, sources, entities) \in 0..100
  BY DEF Score

LEMMA ScoreGrows ==
    ASSUME NEW o1 \in BOOLEAN, NEW n1 \in Nat, NEW s1 \in Nat, NEW e1 \in Nat,
           NEW o2 \in BOOLEAN, NEW n2 \in Nat, NEW s2 \in Nat, NEW e2 \in Nat,
           o1 => o2, n1 # 0, n2 # 0, s1 >= 1, s1 <= s2, e1 <= e2
    PROVE  Score(o1, n1, s1, e1) <= Score(o2, n2, s2, e2)
  BY DEF Score

ScoreOf(S) == Score(Official(S), Cardinality(S), Cardinality(Sources(S)), Cardinality(Entities(S)))

LEMMA ScoreOfGrows ==
    ASSUME NEW S \in SUBSET Evidence, NEW T \in SUBSET Evidence, S \subseteq T, S # {}
    PROVE  ScoreOf(S) <= ScoreOf(T) /\ ScoreOf(S) \in Nat /\ ScoreOf(T) \in Nat
<1>1. T # {}
    OBVIOUS
<1>2. /\ Cardinality(S) \in Nat \ {0} /\ Cardinality(Sources(S)) \in Nat /\ Cardinality(Entities(S)) \in Nat
      /\ Cardinality(Sources(S)) >= 1
    BY Counts
<1>3. /\ Cardinality(T) \in Nat \ {0} /\ Cardinality(Sources(T)) \in Nat /\ Cardinality(Entities(T)) \in Nat
      /\ Cardinality(Sources(T)) >= 1
    BY <1>1, Counts
<1>4. Official(S) \in BOOLEAN /\ Official(T) \in BOOLEAN
    BY DEF Official
<1>5. /\ Official(S) => Official(T)
      /\ Cardinality(Sources(S)) <= Cardinality(Sources(T))
      /\ Cardinality(Entities(S)) <= Cardinality(Entities(T))
    BY CountsGrow
<1>6. ScoreOf(S) \in 0..100 /\ ScoreOf(T) \in 0..100
    BY <1>2, <1>3, <1>4, ScoreType DEF ScoreOf
<1>7. ScoreOf(S) <= ScoreOf(T)
    BY <1>2, <1>3, <1>4, <1>5, ScoreGrows DEF ScoreOf
<1>. QED BY <1>6, <1>7

\* The rows the code makes.
LEMMA AggregatesShape ==
    ASSUME NEW row \in Rows, NEW S \in SUBSET Evidence
    PROVE  LET agg == Aggregates(row, S) IN
           /\ agg \in Rows
           /\ agg.signatures = row.signatures /\ agg.titles = row.titles
           /\ agg.entities = row.entities /\ agg.first = row.first /\ agg.latest = row.latest
           /\ agg.count = Cardinality(S) /\ agg.sources = Cardinality(Sources(S))
           /\ agg.status = IF S = {} THEN "rejected"
                           ELSE IF row.status = "rejected" THEN "candidate" ELSE row.status
           /\ agg.score = ScoreOf(S)
<1> DEFINE sources == Cardinality(Sources(S))
           status == IF S = {} THEN "rejected"
                     ELSE IF row.status = "rejected" THEN "candidate" ELSE row.status
           r1 == [row EXCEPT !.count = Cardinality(S), !.sources = sources]
           r2 == [r1 EXCEPT !.status = status, !.score = ScoreOf(S)]
<1>1. Aggregates(row, S) = r2
    BY DEF Aggregates, ScoreOf, Sources, Entities, Official, Rows
<1>2. Cardinality(S) \in Nat /\ sources \in Nat /\ ScoreOf(S) \in 0..100
  <2>1. Official(S) \in BOOLEAN
    BY DEF Official
  <2>. QED BY <2>1, Counts, ScoreType DEF ScoreOf
<1>3. status \in {"absent", "candidate", "rejected"}
    BY DEF Rows
<1> HIDE DEF sources, status
<1>. QED BY <1>1, <1>2, <1>3, ZenonT(60) DEF Rows, sources, status

LEMMA NoRowShape ==
    /\ NoRow \in Rows
    /\ NoRow.signatures = {} /\ NoRow.titles = {} /\ NoRow.entities = {}
    /\ NoRow.status = "absent"
  BY DEF NoRow, Rows

LEMMA NewRowShape ==
    ASSUME NEW e \in Evidence
    PROVE  LET row == NewRow(e) IN
           /\ row \in Rows /\ row # NoRow
           /\ row.signatures = Signatures(e) /\ row.titles = {Title(e)} \ {None}
           /\ row.entities = Facts[e].entities /\ row.first = Facts[e].time /\ row.latest = Facts[e].time
           /\ row.status = "candidate"
<1>1. /\ Facts[e].time \in Nat /\ Facts[e].official \in BOOLEAN
      /\ IsFiniteSet(Facts[e].entities)
    BY EventAssumption
<1>2. Score(Facts[e].official, 1, 1, Cardinality(Facts[e].entities)) \in 0..100
  <2>1. Cardinality(Facts[e].entities) \in Nat
    BY <1>1, FS_CardinalityType
  <2>2. 1 \in Nat /\ (1 # 0 => 1 >= 1)
    OBVIOUS
  <2>. QED BY <1>1, <2>1, <2>2, ScoreType, Zenon
<1>. QED BY <1>1, <1>2 DEF NewRow, NoRow, Rows

LEMMA MergedShape ==
    ASSUME NEW row \in Rows, NEW e \in Evidence
    PROVE  LET m == Merged(row, e) IN
           /\ m \in Rows
           /\ m.signatures = row.signatures \cup Signatures(e)
           /\ m.titles = row.titles \cup ({Title(e)} \ {None})
           /\ m.entities = row.entities \cup Facts[e].entities
           /\ m.first = IF Facts[e].time < row.first THEN Facts[e].time ELSE row.first
           /\ m.latest = IF Facts[e].time > row.latest THEN Facts[e].time ELSE row.latest
           /\ m.count = row.count /\ m.sources = row.sources /\ m.status = row.status
           /\ m.score = row.score
<1> DEFINE first == IF Facts[e].time < row.first THEN Facts[e].time ELSE row.first
           latest == IF Facts[e].time > row.latest THEN Facts[e].time ELSE row.latest
           r1 == [row EXCEPT !.signatures = row.signatures \cup Signatures(e),
                             !.titles = row.titles \cup ({Title(e)} \ {None})]
           r2 == [r1 EXCEPT !.entities = row.entities \cup Facts[e].entities,
                            !.first = first, !.latest = latest]
<1>1. Merged(row, e) = r2
    BY DEF Merged, Rows
<1>2. first \in Nat /\ latest \in Nat
    BY EventAssumption DEF Rows
<1> HIDE DEF first, latest
<1>3. /\ r1 \in Rows /\ r1.signatures = row.signatures \cup Signatures(e)
      /\ r1.titles = row.titles \cup ({Title(e)} \ {None}) /\ r1.entities = row.entities
      /\ r1.count = row.count /\ r1.sources = row.sources /\ r1.status = row.status
      /\ r1.score = row.score
    BY DEF Rows
<1> HIDE DEF r1
<1>4. Facts[e].entities \subseteq UNION {Facts[d].entities : d \in Evidence}
    OBVIOUS
<1>5. /\ r2 \in Rows /\ r2.signatures = r1.signatures /\ r2.titles = r1.titles
      /\ r2.entities = row.entities \cup Facts[e].entities /\ r2.first = first /\ r2.latest = latest
      /\ r2.count = row.count /\ r2.sources = row.sources /\ r2.status = row.status
      /\ r2.score = row.score
    BY <1>2, <1>3, <1>4 DEF Rows
<1>. QED BY <1>1, <1>3, <1>5 DEF first, latest

LEMMA WrittenShape ==
    ASSUME NEW row \in Rows, NEW base \in Rows, NEW mine \in Rows
    PROVE  LET w == Written(row, base, mine) IN
           /\ w \in Rows
           /\ w.signatures \in {row.signatures, mine.signatures}
           /\ w.titles \in {row.titles, mine.titles} /\ w.entities \in {row.entities, mine.entities}
           /\ w.first \in {row.first, mine.first} /\ w.latest \in {row.latest, mine.latest}
           /\ w.count = IF mine.count # base.count THEN mine.count ELSE row.count
           /\ w.sources = IF mine.sources # base.sources THEN mine.sources ELSE row.sources
           /\ w.status = IF mine.status # base.status THEN mine.status ELSE row.status
           /\ w.score = IF mine.score # base.score THEN mine.score ELSE row.score
  BY DEF Rows, Written

LEMMA WrittenSame ==
    ASSUME NEW row \in Rows, NEW mine \in Rows
    PROVE  /\ Written(row, row, mine) = mine
           /\ Written(row, mine, mine) = row
  BY DEF Rows, Written

-----------------------------------------------------------------------------
(* Sessions: types, stages and the effects of each statement.              *)

RuleNames == {Rules[i] : i \in 1..5} \cup {"new_candidate", "ambiguous_new_candidate", "reviewed_regroup"}

Session == [pc : PCs, ev : Evidence \cup {None}, cand : Keys \cup {None}, to : Keys \cup {None},
            rule : RuleNames \cup {None}, base : [Keys -> Rows], mine : [Keys -> Rows],
            new : SUBSET Keys, locks : SUBSET Keys, on : SUBSET Link, off : SUBSET (Keys \X Evidence)]

Types ==
    /\ candidates \in [Keys -> Rows]
    /\ links \in SUBSET Link
    /\ session \in [Sessions -> Session]
    /\ calls \in Nat /\ overlapped \in BOOLEAN /\ contended \in SUBSET Evidence

NoRows == [k \in Keys |-> NoRow]

\* What a call has at its stage: its evidence, a candidate once it has chosen one, a link
\* once it is inserted, and the candidate it takes its evidence out of.
Stage(x) ==
    /\ x.pc = "idle" => x = NoSession
    /\ x.pc # "idle" => x.ev \in Evidence
    /\ x.pc \notin {"idle", "match"} => x.cand \in Keys
    /\ x.pc \in {"create", "associate", "link", "refresh"} => x.rule \in RuleNames
    /\ x.pc = "off" /\ x.to # None => x.to # x.cand /\ x.rule = "reviewed_regroup"
    /\ x.pc \in {"match", "create", "off", "associate", "link"} => x.on = {}
    /\ x.pc \in {"match", "create", "off"} => x.off = {}
    /\ x.on \subseteq {[cand |-> x.cand, ev |-> x.ev, rule |-> x.rule, active |-> TRUE]}
    /\ x.pc \in {"associate", "link", "refresh"} => \A p \in x.off : p[1] # x.cand /\ p[2] = x.ev
    /\ x.pc = "commit" => \/ x.on = {} /\ x.off = {<<x.cand, x.ev>>}
                          \/ \A p \in x.off : p[1] # x.cand /\ p[2] = x.ev
    /\ x.pc = "match" => x.base = NoRows /\ x.mine = NoRows
    /\ x.pc \in {"match", "create", "off"} => x.new = {} /\ x.locks = {}
    /\ x.new \subseteq {x.cand}
    /\ \A k \in Keys : x.mine[k] # x.base[k] => \/ k = x.cand /\ x.pc = "commit"
                                                \/ <<k, x.ev>> \in x.off

Stages == \A s \in Sessions : Stage(session[s])

LEMMA NoSessionShape ==
    /\ NoSession \in Session /\ NoSession.pc = "idle" /\ NoSession.ev = None /\ NoSession.cand = None
    /\ NoSession.to = None /\ NoSession.rule = None
    /\ NoSession.base = NoRows /\ NoSession.mine = NoRows /\ NoSession.new = {}
    /\ NoSession.locks = {} /\ NoSession.on = {} /\ NoSession.off = {}
    /\ Stage(NoSession)
<1>1. NoRows \in [Keys -> Rows]
    BY NoRowShape DEF NoRows
<1>2. /\ NoSession \in Session /\ NoSession.pc = "idle" /\ NoSession.ev = None /\ NoSession.cand = None
      /\ NoSession.to = None /\ NoSession.rule = None
      /\ NoSession.base = NoRows /\ NoSession.mine = NoRows /\ NoSession.new = {}
      /\ NoSession.locks = {} /\ NoSession.on = {} /\ NoSession.off = {}
    BY <1>1 DEF NoSession, Session, NoRows, PCs
<1>. QED BY <1>2 DEF Stage

\* A session moves alone.
Moves(s) ==
    /\ session' \in [Sessions -> Session]
    /\ \A o \in Sessions : o # s => session'[o] = session[o]

LEMMA MovesTo ==
    ASSUME Types, NEW s \in Sessions, NEW x \in Session, session' = [session EXCEPT ![s] = x]
    PROVE  Moves(s) /\ session'[s] = x
  BY DEF Types, Moves

LEMMA StepMoves ==
    ASSUME Types, NEW s \in Sessions, NEW x \in Session, Step(s, x)
    PROVE  Moves(s) /\ session'[s] = x /\ UNCHANGED <<candidates, links, history>>
  BY MovesTo DEF Step

LEMMA RollbackEffect ==
    ASSUME Types, NEW s \in Sessions, Rollback(s)
    PROVE  Moves(s) /\ session'[s] = NoSession /\ UNCHANGED <<candidates, links, history>>
  BY NoSessionShape, StepMoves DEF Rollback

LEMMA BeginMoves ==
    ASSUME Types, NEW s \in Sessions, NEW x \in Session, Begin(s, x)
    PROVE  /\ Moves(s) /\ session'[s] = x /\ session[s].pc = "idle"
           /\ UNCHANGED <<candidates, links>>
           /\ calls' = calls + 1
           /\ overlapped' = (overlapped \/ \E o \in Others(s) : session[o].pc # "idle")
           /\ contended' = contended \cup {e \in {x.ev} : \E o \in Others(s) : session[o].ev = e}
  BY MovesTo DEF Begin

LEMMA ProcessEffect ==
    ASSUME Types, NEW s \in Sessions, NEW e \in Evidence, Process(s, e)
    PROVE  LET x == session[s] y == session'[s] IN
           /\ Moves(s) /\ x.pc = "idle" /\ CandidatesOf(s, e) = {}
           /\ y.pc = "match" /\ y.ev = e /\ y.base = NoRows /\ y.mine = NoRows /\ y.new = {}
           /\ y.locks = {} /\ y.on = {} /\ y.off = {}
           /\ UNCHANGED <<candidates, links>> /\ calls' = calls + 1
           /\ overlapped' = (overlapped \/ \E o \in Others(s) : session[o].pc # "idle")
           /\ contended' = contended \cup {d \in {e} : \E o \in Others(s) : session[o].ev = d}
<1> DEFINE z == [NoSession EXCEPT !.pc = "match", !.ev = e]
<1>1. /\ z \in Session /\ z.pc = "match" /\ z.ev = e /\ z.base = NoRows /\ z.mine = NoRows
      /\ z.new = {} /\ z.locks = {} /\ z.on = {} /\ z.off = {}
    BY NoSessionShape DEF Session, PCs
<1>2. Begin(s, z) /\ CandidatesOf(s, e) = {}
    BY DEF Process
<1> HIDE DEF z
<1>. QED BY <1>1, <1>2, BeginMoves

LEMMA DeactivateEffect ==
    ASSUME Types, NEW s \in Sessions, NEW k \in Keys, NEW e \in Evidence, Deactivate(s, k, e)
    PROVE  LET x == session[s] y == session'[s] IN
           /\ Moves(s) /\ x.pc = "idle" /\ e \in ActiveIn(s, k)
           /\ y.pc = "off" /\ y.ev = e /\ y.cand = k /\ y.to = None
           /\ y.base = NoRows /\ y.mine = NoRows /\ y.new = {}
           /\ y.locks = {} /\ y.on = {} /\ y.off = {}
           /\ UNCHANGED <<candidates, links>> /\ calls' = calls + 1
           /\ overlapped' = (overlapped \/ \E o \in Others(s) : session[o].pc # "idle")
           /\ contended' = contended \cup {d \in {e} : \E o \in Others(s) : session[o].ev = d}
<1> DEFINE z == [NoSession EXCEPT !.pc = "off", !.ev = e, !.cand = k]
<1>1. /\ z \in Session /\ z.pc = "off" /\ z.ev = e /\ z.cand = k /\ z.to = None
      /\ z.base = NoRows /\ z.mine = NoRows
      /\ z.new = {} /\ z.locks = {} /\ z.on = {} /\ z.off = {}
    BY NoSessionShape DEF Session, PCs
<1>2. Begin(s, z) /\ e \in ActiveIn(s, k)
    BY DEF Deactivate
<1> HIDE DEF z
<1>. QED BY <1>1, <1>2, BeginMoves

LEMMA RegroupEffect ==
    ASSUME Types, NEW s \in Sessions, NEW k \in Keys, NEW to \in Keys, NEW e \in Evidence,
           Regroup(s, k, to, e)
    PROVE  LET x == session[s] y == session'[s] IN
           /\ Moves(s) /\ x.pc = "idle" /\ CandidatesOf(s, e) = {k}
           /\ to # k /\ candidates[to] # NoRow
           /\ y.pc = "off" /\ y.ev = e /\ y.cand = k /\ y.to = to /\ y.rule = "reviewed_regroup"
           /\ \A j \in Keys : y.base[j] = IF j = to THEN candidates[to] ELSE NoRow
           /\ y.mine = y.base
           /\ y.new = {} /\ y.locks = {} /\ y.on = {} /\ y.off = {}
           /\ UNCHANGED <<candidates, links>> /\ calls' = calls + 1
           /\ overlapped' = (overlapped \/ \E o \in Others(s) : session[o].pc # "idle")
           /\ contended' = contended \cup {d \in {e} : \E o \in Others(s) : session[o].ev = d}
<1> DEFINE rows == [NoRows EXCEPT ![to] = candidates[to]]
           z1 == [NoSession EXCEPT !.pc = "off", !.ev = e, !.cand = k]
           z2 == [z1 EXCEPT !.to = to, !.rule = "reviewed_regroup"]
           z3 == [z2 EXCEPT !.base = rows, !.mine = rows]
<1>1. rows \in [Keys -> Rows]
    BY NoRowShape DEF NoRows, Types
<1>2. /\ z1 \in Session /\ z1.pc = "off" /\ z1.ev = e /\ z1.cand = k /\ z1.base = NoRows /\ z1.mine = NoRows
      /\ z1.new = {} /\ z1.locks = {} /\ z1.on = {} /\ z1.off = {}
    BY NoSessionShape DEF Session, PCs
<1>3. Begin(s, [z2 EXCEPT !.base[to] = candidates[to], !.mine[to] = candidates[to]])
    BY DEF Regroup
<1>4. CandidatesOf(s, e) = {k} /\ to # k /\ candidates[to] # NoRow
    BY DEF Regroup
<1> HIDE DEF z1
<1>5. /\ z2 \in Session /\ z2.pc = "off" /\ z2.ev = e /\ z2.cand = k /\ z2.base = NoRows /\ z2.mine = NoRows
      /\ z2.to = to /\ z2.rule = "reviewed_regroup"
      /\ z2.new = {} /\ z2.locks = {} /\ z2.on = {} /\ z2.off = {}
    BY <1>2 DEF Session, RuleNames
<1> HIDE DEF z2
<1>6. Begin(s, z3)
    BY <1>3, <1>5 DEF Session
<1> HIDE DEF rows
<1>7. /\ z3 \in Session /\ z3.pc = "off" /\ z3.ev = e /\ z3.cand = k /\ z3.base = rows /\ z3.mine = rows
      /\ z3.to = to /\ z3.rule = "reviewed_regroup"
      /\ z3.new = {} /\ z3.locks = {} /\ z3.on = {} /\ z3.off = {}
    BY <1>1, <1>5 DEF Session
<1> HIDE DEF z3
<1>8. \A j \in Keys : rows[j] = IF j = to THEN candidates[to] ELSE NoRow
    BY DEF rows, NoRows
<1>. QED BY <1>4, <1>6, <1>7, <1>8, BeginMoves

LEMMA SignatureKinds ==
    ASSUME NEW e \in Evidence
    PROVE  /\ Signatures(e) \subseteq UNION {Signatures(d) : d \in Evidence}
           /\ <<"hash", e>> \in Signatures(e)
           /\ \A s \in Signatures(e) : s[1] \in {"official", "url", "provider", "hash"}
           /\ \A d : <<"hash", d>> \in Signatures(e) => d = e
<1>1. Signatures(e) \subseteq UNION {Signatures(d) : d \in Evidence}
    OBVIOUS
<1>2. /\ <<"hash", e>> \in Signatures(e)
      /\ \A s \in Signatures(e) : s[1] \in {"official", "url", "provider", "hash"}
      /\ \A d : <<"hash", d>> \in Signatures(e) => d = e
    BY DEF Signatures, EvidenceSignatures
<1>. QED BY <1>1, <1>2

LEMMA RankType ==
    ASSUME NEW e \in Evidence, NEW c \in Rows
    PROVE  LET shared == Kinds(Signatures(e) \cap c.signatures) IN
           /\ Rank(e, c) \in 1..6
           /\ Rank(e, c) = 1 => "official" \in shared
           /\ Rank(e, c) = 2 => "url" \in shared
           /\ Rank(e, c) = 3 => "provider" \in shared
           /\ Rank(e, c) = 4 => SameStory(e, c)
           /\ Rank(e, c) = 5 => "hash" \in shared
<1> DEFINE shared == Kinds(Signatures(e) \cap c.signatures)
<1>0. shared \subseteq {"official", "url", "provider", "hash"}
    BY SignatureKinds DEF Kinds
<1> HIDE DEF shared
<1>1. CASE "official" \in shared
  <2>1. Rank(e, c) = 1
    BY <1>1 DEF Rank, shared
  <2>. QED BY <1>1, <2>1 DEF shared
<1>2. CASE "official" \notin shared /\ "url" \in shared
  <2>1. Rank(e, c) = 2
    BY <1>2 DEF Rank, shared
  <2>. QED BY <1>2, <2>1 DEF shared
<1>3. CASE shared \cap {"official", "url"} = {} /\ "provider" \in shared
  <2>1. Rank(e, c) = 3
    BY <1>3 DEF Rank, shared
  <2>. QED BY <1>3, <2>1 DEF shared
<1>4. CASE shared \subseteq {"hash"} /\ SameStory(e, c)
  <2>1. Rank(e, c) = 4
    BY <1>4 DEF Rank, shared
  <2>. QED BY <1>4, <2>1 DEF shared
<1>5. CASE shared = {"hash"} /\ ~SameStory(e, c)
  <2>1. Rank(e, c) = 5
    BY <1>5 DEF Rank, shared
  <2>. QED BY <1>5, <2>1 DEF shared
<1>6. CASE shared = {} /\ ~SameStory(e, c)
  <2>1. Rank(e, c) = 6
    BY <1>6 DEF Rank, shared
  <2>. QED BY <2>1 DEF shared
<1>. QED BY <1>0, <1>1, <1>2, <1>3, <1>4, <1>5, <1>6

LEMMA RuleTypes == \A r \in 1..5 : Rules[r] \in RuleNames /\ None \notin Keys
  BY KeyAssumption DEF RuleNames

LEMMA AnchorsAreKeys ==
    ASSUME NEW e \in Evidence
    PROVE  Anchor(e) \in Keys /\ AmbiguousAnchor(e) \in Keys
  BY DEF Keys

\* The choice of a candidate.
Chosen(x, k, rule, step, row) ==
    [x EXCEPT !.pc = step, !.cand = k, !.rule = rule, !.base[k] = row, !.mine[k] = row]

LEMMA ChosenShape ==
    ASSUME NEW x \in Session, NEW k \in Keys, NEW rule \in RuleNames, NEW step \in PCs, NEW row \in Rows,
           NEW y, y = Chosen(x, k, rule, step, row)
    PROVE  /\ y \in Session /\ y.pc = step /\ y.cand = k /\ y.rule = rule
           /\ y.base = [x.base EXCEPT ![k] = row] /\ y.mine = [x.mine EXCEPT ![k] = row]
           /\ y.ev = x.ev /\ y.to = x.to /\ y.new = x.new /\ y.locks = x.locks
           /\ y.on = x.on /\ y.off = x.off
<1> DEFINE rows == [x.base EXCEPT ![k] = row]
           mine == [x.mine EXCEPT ![k] = row]
           z1 == [x EXCEPT !.pc = step, !.cand = k, !.rule = rule]
           z2 == [z1 EXCEPT !.base = rows, !.mine = mine]
<1>1. rows \in [Keys -> Rows] /\ mine \in [Keys -> Rows]
    BY DEF Session
<1>2. /\ z1 \in Session /\ z1.pc = step /\ z1.cand = k /\ z1.rule = rule
      /\ z1.base = x.base /\ z1.mine = x.mine
      /\ z1.ev = x.ev /\ z1.to = x.to /\ z1.new = x.new /\ z1.locks = x.locks
      /\ z1.on = x.on /\ z1.off = x.off
    BY DEF Session
<1>3. y = z2
    BY DEF Session, Chosen
<1> HIDE DEF rows, mine, z1
<1>4. /\ y \in Session /\ y.pc = z1.pc /\ y.cand = z1.cand /\ y.rule = z1.rule
      /\ y.base = rows /\ y.mine = mine
      /\ y.ev = z1.ev /\ y.to = z1.to /\ y.new = z1.new /\ y.locks = z1.locks
      /\ y.on = z1.on /\ y.off = z1.off
    BY <1>1, <1>2, <1>3 DEF Session
<1>. QED BY <1>2, <1>4 DEF rows, mine

\* What a statement of a session leaves alone.
Keeps(x, y) ==
    y.ev = x.ev /\ y.to = x.to /\ y.off = x.off

Unwritten == UNCHANGED <<candidates, links, history>>

LEMMA MatchExistingEffect ==
    ASSUME Types, Stages, NEW s \in Sessions, MatchExisting(s)
    PROVE  LET x == session[s] y == session'[s] k == y.cand IN
           /\ Moves(s) /\ Unwritten /\ x.pc = "match" /\ Keeps(x, y)
           /\ k \in Keys /\ y.rule \in RuleNames /\ y.on = x.on /\ y.new = x.new /\ y.locks = x.locks
           /\ y.base = [x.base EXCEPT ![k] = candidates[k]]
           /\ y.mine = [x.mine EXCEPT ![k] = candidates[k]]
           /\ \/ y.pc = "create" /\ y.rule \in {"new_candidate", "ambiguous_new_candidate"}
              \/ /\ y.pc = "associate" /\ candidates[k] # NoRow
                 /\ Rank(x.ev, candidates[k]) \in 1..5
                 /\ y.rule = Rules[Rank(x.ev, candidates[k])]
<1> DEFINE x == session[s]
           there == {k \in Keys : candidates[k] # NoRow}
           rank == [k \in there |-> Rank(x.ev, candidates[k])]
           best == {k \in there : rank[k] # 6 /\ \A j \in there : rank[k] <= rank[j]}
           z(k, rule, step) == [x EXCEPT !.pc = step, !.cand = k, !.rule = rule,
                                         !.base[k] = candidates[k], !.mine[k] = candidates[k]]
<1>1. x \in Session /\ x.pc = "match" /\ x.ev \in Evidence
    BY DEF MatchExisting, Types, Stages, Stage
<1>2. PICK k \in Keys, rule \in RuleNames, step \in {"create", "associate"} :
          /\ Step(s, z(k, rule, step))
          /\ \/ step = "create" /\ rule \in {"new_candidate", "ambiguous_new_candidate"}
             \/ /\ step = "associate" /\ candidates[k] # NoRow
                /\ Rank(x.ev, candidates[k]) \in 1..5
                /\ rule = Rules[Rank(x.ev, candidates[k])]
  <2>1. CASE best = {} /\ Step(s, z(Anchor(x.ev), "new_candidate", "create"))
    BY <1>1, <2>1, AnchorsAreKeys DEF RuleNames
  <2>2. CASE \E k \in best : best = {k} /\ Step(s, z(k, Rules[rank[k]], "associate"))
    <3>1. PICK k \in best : Step(s, z(k, Rules[rank[k]], "associate"))
      BY <2>2
    <3>2. k \in Keys /\ candidates[k] # NoRow /\ candidates[k] \in Rows /\ rank[k] = Rank(x.ev, candidates[k])
          /\ rank[k] # 6
      BY DEF Types
    <3>3. Rank(x.ev, candidates[k]) \in 1..5
      <4> DEFINE c == candidates[k]
                 r == Rank(x.ev, c)
      <4>1. r \in 1..6
        BY <1>1, <3>2, RankType
      <4>2. r # 6
        BY <3>2
      <4> HIDE DEF r
      <4>. QED BY <4>1, <4>2 DEF r
    <3>4. Rules[rank[k]] \in RuleNames
      BY <3>2, <3>3, RuleTypes
    <3>. QED BY <3>1, <3>2, <3>3, <3>4
  <2>3. CASE Step(s, z(AmbiguousAnchor(x.ev), "ambiguous_new_candidate", "create"))
    BY <1>1, <2>3, AnchorsAreKeys DEF RuleNames
  <2>. QED BY <2>1, <2>2, <2>3 DEF MatchExisting
<1>3. step \in PCs /\ candidates[k] \in Rows
    BY DEF PCs, Types
<1> DEFINE row == candidates[k]
           y == [x EXCEPT !.pc = step, !.cand = k, !.rule = rule, !.base[k] = row, !.mine[k] = row]
<1>y. Step(s, y)
    BY <1>2
<1> HIDE DEF x, row
<1>z. y = Chosen(x, k, rule, step, row)
    BY DEF Chosen
<1> HIDE DEF y
<1>4. /\ y \in Session /\ y.pc = step /\ y.cand = k /\ y.rule = rule
      /\ y.base = [x.base EXCEPT ![k] = row] /\ y.mine = [x.mine EXCEPT ![k] = row]
      /\ y.ev = x.ev /\ y.to = x.to /\ y.new = x.new /\ y.locks = x.locks
      /\ y.on = x.on /\ y.off = x.off
  <2>1. x \in Session /\ row \in Rows
    BY <1>1, <1>3 DEF row
  <2>. QED BY <1>2, <1>3, <1>z, <2>1, ChosenShape
<1>5. Moves(s) /\ session'[s] = y /\ Unwritten
    BY <1>y, <1>4, StepMoves DEF Unwritten
<1>. QED BY <1>1, <1>2, <1>4, <1>5 DEF Keeps, x, row

LEMMA CreateOrGetEffect ==
    ASSUME Types, Stages, NEW s \in Sessions, CreateOrGet(s)
    PROVE  LET x == session[s] y == session'[s] k == x.cand IN
           /\ Moves(s) /\ Unwritten /\ x.pc = "create" /\ Keeps(x, y) /\ y.pc = "associate"
           /\ k \in Keys /\ y.cand = k /\ y.rule = x.rule /\ y.on = x.on
           /\ \A o \in Others(s) : k \notin session[o].new
           /\ \/ /\ candidates[k] = NoRow /\ y.new = x.new \cup {k} /\ y.locks = x.locks \cup {k}
                 /\ y.base = [x.base EXCEPT ![k] = NewRow(x.ev)]
                 /\ y.mine = [x.mine EXCEPT ![k] = NewRow(x.ev)]
              \/ /\ candidates[k] # NoRow /\ y.new = x.new /\ y.locks = x.locks
                 /\ \/ x.base[k] # NoRow /\ y.base = x.base /\ y.mine = x.mine
                    \/ /\ x.base[k] = NoRow
                       /\ y.base = [x.base EXCEPT ![k] = candidates[k]]
                       /\ y.mine = [x.mine EXCEPT ![k] = candidates[k]]
<1> DEFINE x == session[s]
           k == x.cand
           row == NewRow(x.ev)
           b1 == [x.base EXCEPT ![k] = row]
           m1 == [x.mine EXCEPT ![k] = row]
           b2 == [x.base EXCEPT ![k] = candidates[k]]
           m2 == [x.mine EXCEPT ![k] = candidates[k]]
<1>1. /\ x \in Session /\ x.pc = "create" /\ x.ev \in Evidence /\ k \in Keys
      /\ \A o \in Others(s) : k \notin session[o].new
    BY DEF CreateOrGet, Types, Stages, Stage
<1>2. row \in Rows /\ candidates[k] \in Rows
    BY <1>1, NewRowShape DEF Types
<1> HIDE DEF row
<1>3. b1 \in [Keys -> Rows] /\ m1 \in [Keys -> Rows] /\ b2 \in [Keys -> Rows] /\ m2 \in [Keys -> Rows]
    BY <1>1, <1>2 DEF Session
<1>a. CASE candidates[k] = NoRow
  <2> DEFINE z1 == [x EXCEPT !.pc = "associate", !.base = b1, !.mine = m1]
             z2 == [z1 EXCEPT !.new = x.new \cup {k}, !.locks = x.locks \cup {k}]
  <2>1. Step(s, [x EXCEPT !.pc = "associate", !.base[k] = row, !.mine[k] = row,
                          !.new = @ \cup {k}, !.locks = @ \cup {k}])
    BY <1>a DEF CreateOrGet, row
  <2>2. Step(s, z2)
    BY <1>1, <2>1 DEF Session
  <2> HIDE DEF b1, m1
  <2>3. /\ z1 \in Session /\ z1.pc = "associate" /\ z1.base = b1 /\ z1.mine = m1
        /\ z1.ev = x.ev /\ z1.to = x.to /\ z1.off = x.off /\ z1.cand = k /\ z1.rule = x.rule /\ z1.on = x.on
        /\ z1.new = x.new /\ z1.locks = x.locks
    BY <1>1, <1>3 DEF Session, PCs
  <2> HIDE DEF z1
  <2>4. /\ z2 \in Session /\ z2.pc = "associate" /\ z2.base = b1 /\ z2.mine = m1
        /\ z2.ev = x.ev /\ z2.to = x.to /\ z2.off = x.off /\ z2.cand = k /\ z2.rule = x.rule /\ z2.on = x.on
        /\ z2.new = x.new \cup {k} /\ z2.locks = x.locks \cup {k}
    BY <1>1, <2>3 DEF Session
  <2> HIDE DEF z2
  <2>5. Moves(s) /\ session'[s] = z2 /\ Unwritten
    BY <2>2, <2>4, StepMoves DEF Unwritten
  <2>. QED BY <1>1, <1>a, <2>4, <2>5 DEF Keeps, b1, m1, row
<1>b. CASE candidates[k] # NoRow /\ x.base[k] # NoRow
  <2> DEFINE z == [x EXCEPT !.pc = "associate"]
  <2>1. Step(s, z)
    BY <1>b DEF CreateOrGet
  <2>2. /\ z \in Session /\ z.pc = "associate" /\ z.base = x.base /\ z.mine = x.mine
        /\ z.ev = x.ev /\ z.to = x.to /\ z.off = x.off /\ z.cand = k /\ z.rule = x.rule /\ z.on = x.on
        /\ z.new = x.new /\ z.locks = x.locks
    BY <1>1 DEF Session, PCs
  <2> HIDE DEF z
  <2>3. Moves(s) /\ session'[s] = z /\ Unwritten
    BY <2>1, <2>2, StepMoves DEF Unwritten
  <2>. QED BY <1>1, <1>b, <2>2, <2>3 DEF Keeps
<1>c. CASE candidates[k] # NoRow /\ x.base[k] = NoRow
  <2> DEFINE z == [x EXCEPT !.pc = "associate", !.base = b2, !.mine = m2]
  <2>1. Step(s, [x EXCEPT !.pc = "associate", !.base[k] = candidates[k], !.mine[k] = candidates[k]])
    BY <1>c DEF CreateOrGet
  <2>2. Step(s, z)
    BY <1>1, <2>1 DEF Session
  <2> HIDE DEF b2, m2
  <2>3. /\ z \in Session /\ z.pc = "associate" /\ z.base = b2 /\ z.mine = m2
        /\ z.ev = x.ev /\ z.to = x.to /\ z.off = x.off /\ z.cand = k /\ z.rule = x.rule /\ z.on = x.on
        /\ z.new = x.new /\ z.locks = x.locks
    BY <1>1, <1>3 DEF Session, PCs
  <2> HIDE DEF z
  <2>4. Moves(s) /\ session'[s] = z /\ Unwritten
    BY <2>2, <2>3, StepMoves DEF Unwritten
  <2>. QED BY <1>1, <1>c, <2>3, <2>4 DEF Keeps, b2, m2
<1>. QED BY <1>a, <1>b, <1>c

LEMMA DirtyType ==
    ASSUME NEW x \in Session
    PROVE  Dirty(x) \in SUBSET Keys
  BY DEF Dirty

LEMMA LockedShape ==
    ASSUME NEW x \in Session, NEW step \in PCs
    PROVE  LET y == [Locked(x) EXCEPT !.pc = step] IN
           /\ y \in Session /\ y.pc = step /\ y.locks = x.locks \cup Dirty(x)
           /\ y.ev = x.ev /\ y.to = x.to /\ y.off = x.off /\ y.cand = x.cand /\ y.rule = x.rule
           /\ y.on = x.on /\ y.base = x.base /\ y.mine = x.mine /\ y.new = x.new
<1> DEFINE d == Dirty(x)
<1>1. d \in SUBSET Keys
    BY DirtyType
<1>2. Locked(x) = [x EXCEPT !.locks = x.locks \cup d]
    BY DEF Locked, Session
<1> HIDE DEF d
<1>. QED BY <1>1, <1>2 DEF Session, d

LEMMA AssociateEffect ==
    ASSUME Types, Stages, NEW s \in Sessions, Associate(s)
    PROVE  LET x == session[s] y == session'[s] IN
           /\ Moves(s) /\ Unwritten /\ x.pc = "associate" /\ Flushes(s, x)
           /\ x.cand \in Keys /\ x.ev \in Evidence /\ x.rule \in RuleNames
           /\ \/ y = NoSession
              \/ /\ Keeps(x, y) /\ y.cand = x.cand /\ y.rule = x.rule /\ y.on = x.on
                 /\ y.base = x.base /\ y.mine = x.mine /\ y.new = x.new
                 /\ y.locks = x.locks \cup Dirty(x)
                 /\ \/ y.pc = "link" /\ CandidatesOf(s, x.ev) = {}
                    \/ y.pc = "refresh" /\ CandidatesOf(s, x.ev) = {x.cand}
<1> DEFINE x == session[s]
           z(step) == [Locked(x) EXCEPT !.pc = step]
<1>1. /\ x \in Session /\ x.pc = "associate" /\ Flushes(s, x)
      /\ x.cand \in Keys /\ x.ev \in Evidence /\ x.rule \in RuleNames
    BY DEF Associate, Types, Stages, Stage
<1>2. \/ Step(s, z("link")) /\ CandidatesOf(s, x.ev) = {}
      \/ Step(s, z("refresh")) /\ CandidatesOf(s, x.ev) = {x.cand}
      \/ Rollback(s)
    BY DEF Associate
<1>3. \A step \in PCs :
         LET y == z(step) IN
           /\ y \in Session /\ y.pc = step /\ y.locks = x.locks \cup Dirty(x)
           /\ y.ev = x.ev /\ y.to = x.to /\ y.off = x.off /\ y.cand = x.cand /\ y.rule = x.rule
           /\ y.on = x.on /\ y.base = x.base /\ y.mine = x.mine /\ y.new = x.new
    BY <1>1, LockedShape
<1> HIDE DEF z
<1>4. "link" \in PCs /\ "refresh" \in PCs
    BY DEF PCs
<1>5. CASE Step(s, z("link")) /\ CandidatesOf(s, x.ev) = {}
  <2>1. Moves(s) /\ session'[s] = z("link") /\ Unwritten
    BY <1>3, <1>4, <1>5, StepMoves DEF Unwritten
  <2>. QED BY <1>1, <1>3, <1>4, <1>5, <2>1 DEF Keeps
<1>6. CASE Step(s, z("refresh")) /\ CandidatesOf(s, x.ev) = {x.cand}
  <2>1. Moves(s) /\ session'[s] = z("refresh") /\ Unwritten
    BY <1>3, <1>4, <1>6, StepMoves DEF Unwritten
  <2>. QED BY <1>1, <1>3, <1>4, <1>6, <2>1 DEF Keeps
<1>7. CASE Rollback(s)
  <2>1. Moves(s) /\ session'[s] = NoSession /\ Unwritten
    BY <1>7, RollbackEffect DEF Unwritten
  <2>. QED BY <1>1, <2>1
<1>. QED BY <1>2, <1>5, <1>6, <1>7

TheLink(x) == [cand |-> x.cand, ev |-> x.ev, rule |-> x.rule, active |-> TRUE]

LEMMA AddLinkEffect ==
    ASSUME Types, Stages, NEW s \in Sessions, AddLink(s)
    PROVE  LET x == session[s] y == session'[s] IN
           /\ Moves(s) /\ Unwritten /\ x.pc = "link"
           /\ x.cand \in Keys /\ x.ev \in Evidence /\ x.rule \in RuleNames /\ x.on = {}
           /\ \/ y = NoSession
              \/ /\ Keeps(x, y) /\ y.pc = "refresh" /\ y.cand = x.cand /\ y.rule = x.rule
                 /\ x.cand \notin CandidatesOf(s, x.ev)
                 /\ y.on = {TheLink(x)} /\ TheLink(x) \in Link
                 /\ y.base = x.base /\ y.mine = x.mine /\ y.new = x.new /\ y.locks = x.locks
<1> DEFINE x == session[s]
           l == TheLink(x)
           z == [x EXCEPT !.pc = "refresh", !.on = {l}]
<1>1. /\ x \in Session /\ x.pc = "link" /\ x.on = {}
      /\ x.cand \in Keys /\ x.ev \in Evidence /\ x.rule \in RuleNames
    BY DEF AddLink, Types, Stages, Stage
<1>2. l \in Link
    BY <1>1 DEF Link, RuleNames, TheLink
<1>3. \/ Rollback(s)
      \/ Step(s, [x EXCEPT !.pc = "refresh", !.on = @ \cup {l}]) /\ x.cand \notin CandidatesOf(s, x.ev)
    BY DEF AddLink, TheLink
<1> HIDE DEF l
<1>4. /\ z \in Session /\ z.pc = "refresh" /\ z.cand = x.cand /\ z.rule = x.rule /\ z.on = {l}
      /\ z.ev = x.ev /\ z.to = x.to /\ z.off = x.off
      /\ z.base = x.base /\ z.mine = x.mine /\ z.new = x.new /\ z.locks = x.locks
    BY <1>1, <1>2 DEF Session, PCs
<1>5. CASE Rollback(s)
  <2>1. Moves(s) /\ session'[s] = NoSession /\ Unwritten
    BY <1>5, RollbackEffect DEF Unwritten
  <2>. QED BY <1>1, <2>1
<1>6. CASE Step(s, [x EXCEPT !.pc = "refresh", !.on = @ \cup {l}]) /\ x.cand \notin CandidatesOf(s, x.ev)
  <2>1. Step(s, z)
    BY <1>1, <1>6 DEF Session
  <2> HIDE DEF z
  <2>2. Moves(s) /\ session'[s] = z /\ Unwritten
    BY <1>4, <2>1, StepMoves DEF Unwritten
  <2>. QED BY <1>1, <1>2, <1>4, <1>6, <2>2 DEF Keeps, l
<1>. QED BY <1>3, <1>5, <1>6

LEMMA ActiveInType ==
    ASSUME Types, NEW s \in Sessions, NEW k \in Keys
    PROVE  ActiveIn(s, k) \in SUBSET Evidence
<1>1. Visible(s) \subseteq Link
    BY DEF Types, Visible, Session
<1>. QED BY <1>1 DEF ActiveIn, Link

LEMMA RefreshEffect ==
    ASSUME Types, Stages, NEW s \in Sessions, Refresh(s)
    PROVE  LET x == session[s] y == session'[s] k == x.cand merged == Merged(x.mine[k], x.ev) IN
           /\ Moves(s) /\ Unwritten /\ x.pc = "refresh" /\ Keeps(x, y) /\ y.pc = "commit"
           /\ k \in Keys /\ x.ev \in Evidence /\ y.cand = k /\ y.rule = x.rule /\ y.on = x.on
           /\ y.base = x.base /\ y.new = x.new
           /\ merged \in Rows
           /\ y.mine = [x.mine EXCEPT ![k] = Aggregates(merged, ActiveIn(s, k))]
           /\ x.locks \subseteq y.locks
           /\ merged # x.base[k] => k \in y.locks /\ \A o \in Others(s) : k \notin session[o].locks
           /\ \A j \in y.locks \ x.locks :
                 /\ j # k => x.mine[j] # x.base[j]
                 /\ \A o \in Others(s) : j \notin session[o].locks
<1> DEFINE x == session[s]
           k == x.cand
           row == Merged(x.mine[k], x.ev)
           m1 == [x.mine EXCEPT ![k] = row]
           merged == [x EXCEPT !.mine = m1]
           d == Dirty(merged)
           agg == Aggregates(row, ActiveIn(s, k))
           m2 == [x.mine EXCEPT ![k] = agg]
           z1 == [merged EXCEPT !.locks = x.locks \cup d]
           z2 == [z1 EXCEPT !.pc = "commit", !.mine = m2]
<1>1. /\ x \in Session /\ x.pc = "refresh" /\ k \in Keys /\ x.ev \in Evidence /\ x.rule \in RuleNames
    BY DEF Refresh, Types, Stages, Stage
<1>2. row \in Rows
    BY <1>1, MergedShape DEF Session
<1>3. agg \in Rows
    BY <1>1, <1>2, ActiveInType, AggregatesShape
<1>4. /\ Flushes(s, [x EXCEPT !.mine[k] = row])
      /\ Step(s, [Locked([x EXCEPT !.mine[k] = row]) EXCEPT !.pc = "commit", !.mine[k] = Aggregates(@, ActiveIn(s, k))])
    BY <1>1 DEF Refresh, Session
<1> HIDE DEF row
<1>5. [x EXCEPT !.mine[k] = row] = merged
    BY <1>1 DEF Session
<1>6. m1 \in [Keys -> Rows] /\ m1[k] = row /\ \A j \in Keys \ {k} : m1[j] = x.mine[j]
    BY <1>1, <1>2 DEF Session
<1>m. m2 \in [Keys -> Rows]
    BY <1>1, <1>3 DEF Session
<1>n. m2 = [m1 EXCEPT ![k] = Aggregates(m1[k], ActiveIn(s, k))]
    BY <1>1, <1>6 DEF Session
<1> HIDE DEF m1, m2, agg
<1>7. /\ merged \in Session /\ merged.pc = "refresh" /\ merged.cand = k /\ merged.rule = x.rule
      /\ merged.on = x.on /\ merged.ev = x.ev /\ merged.to = x.to /\ merged.off = x.off
      /\ merged.base = x.base /\ merged.mine = m1 /\ merged.new = x.new /\ merged.locks = x.locks
    BY <1>1, <1>6 DEF Session
<1>8. Flushes(s, merged) /\ Step(s, [Locked(merged) EXCEPT !.pc = "commit", !.mine[k] = Aggregates(@, ActiveIn(s, k))])
    BY <1>4, <1>5
<1> HIDE DEF merged
<1>9. d \in SUBSET Keys /\ Locked(merged) = z1
    BY <1>7, DirtyType DEF Locked
<1>10. \A j \in d : \A o \in Others(s) : j \notin session[o].locks
    BY <1>8 DEF Flushes
<1>11. row # x.base[k] => k \in d
    BY <1>1, <1>6, <1>7 DEF Dirty
<1>12. \A j \in d : j # k => x.mine[j] # x.base[j]
    BY <1>6, <1>7 DEF Dirty
<1> HIDE DEF d
<1>13. /\ z1 \in Session /\ z1.pc = "refresh" /\ z1.cand = k /\ z1.rule = x.rule
      /\ z1.on = x.on /\ z1.ev = x.ev /\ z1.to = x.to /\ z1.off = x.off
      /\ z1.base = x.base /\ z1.mine = m1 /\ z1.new = x.new /\ z1.locks = x.locks \cup d
    BY <1>1, <1>7, <1>9 DEF Session
<1> HIDE DEF z1
<1>14. [Locked(merged) EXCEPT !.pc = "commit", !.mine[k] = Aggregates(@, ActiveIn(s, k))] = z2
  <2>1. [z1 EXCEPT !.pc = "commit", !.mine[k] = Aggregates(@, ActiveIn(s, k))]
          = [z1 EXCEPT !.pc = "commit", !.mine = [z1.mine EXCEPT ![k] = Aggregates(z1.mine[k], ActiveIn(s, k))]]
    BY <1>13 DEF Session
  <2>. QED BY <1>9, <1>13, <1>n, <2>1
<1>15. Step(s, z2)
    BY <1>8, <1>14
<1>16. /\ z2 \in Session /\ z2.pc = "commit" /\ z2.cand = k /\ z2.rule = x.rule
      /\ z2.on = x.on /\ z2.ev = x.ev /\ z2.to = x.to /\ z2.off = x.off
      /\ z2.base = x.base /\ z2.mine = m2 /\ z2.new = x.new /\ z2.locks = x.locks \cup d
    BY <1>13, <1>m DEF Session, PCs
<1> HIDE DEF z2
<1>17. Moves(s) /\ session'[s] = z2 /\ Unwritten
    BY <1>15, <1>16, StepMoves DEF Unwritten
<1>. QED
  BY <1>1, <1>2, <1>10, <1>11, <1>12, <1>16, <1>17 DEF Keeps, m2, agg, row

LEMMA TakeOffEffect ==
    ASSUME Types, Stages, NEW s \in Sessions, TakeOff(s)
    PROVE  LET x == session[s] y == session'[s] k == x.cand
               agg == Aggregates(candidates[k], ActiveIn(s, k) \ {x.ev}) IN
           /\ Moves(s) /\ Unwritten /\ x.pc = "off" /\ y.ev = x.ev /\ y.rule = x.rule /\ y.on = x.on
           /\ k \in Keys /\ x.ev \in Evidence /\ agg \in Rows
           /\ y.off = {<<k, x.ev>>} /\ y.new = x.new /\ y.locks = x.locks /\ y.to = x.to
           /\ y.base = [x.base EXCEPT ![k] = candidates[k]] /\ y.mine = [x.mine EXCEPT ![k] = agg]
           /\ \/ x.to = None /\ y.pc = "commit" /\ y.cand = k
              \/ x.to # None /\ x.to \in Keys /\ y.pc = "associate" /\ y.cand = x.to
           /\ \A o \in Others(s) : <<k, x.ev>> \notin session[o].off
<1> DEFINE x == session[s]
           k == x.cand
           agg == Aggregates(candidates[k], ActiveIn(s, k) \ {x.ev})
           base == [x.base EXCEPT ![k] = candidates[k]]
           mine == [x.mine EXCEPT ![k] = agg]
           p == <<k, x.ev>>
           off == [x EXCEPT !.off = {p}, !.base = base, !.mine = mine]
           z1 == [off EXCEPT !.pc = "commit"]
           z2 == [off EXCEPT !.pc = "associate", !.cand = x.to]
<1>1. /\ x \in Session /\ x.pc = "off" /\ k \in Keys /\ x.ev \in Evidence /\ x.off = {}
    BY DEF TakeOff, Types, Stages, Stage
<1>2. candidates[k] \in Rows /\ agg \in Rows
    BY <1>1, ActiveInType, AggregatesShape DEF Types
<1>3. /\ \A o \in Others(s) : p \notin session[o].off
      /\ Step(s, IF x.to = None
                 THEN [[x EXCEPT !.off = @ \cup {p}, !.base[k] = candidates[k], !.mine[k] = agg] EXCEPT !.pc = "commit"]
                 ELSE [[x EXCEPT !.off = @ \cup {p}, !.base[k] = candidates[k], !.mine[k] = agg] EXCEPT !.pc = "associate", !.cand = x.to])
    BY DEF TakeOff
<1> HIDE DEF agg
<1>4. base \in [Keys -> Rows] /\ mine \in [Keys -> Rows] /\ p \in Keys \X Evidence
    BY <1>1, <1>2 DEF Session
<1>5. [x EXCEPT !.off = @ \cup {p}, !.base[k] = candidates[k], !.mine[k] = agg] = off
    BY <1>1 DEF Session
<1>6. Step(s, IF x.to = None THEN z1 ELSE z2)
    BY <1>3, <1>5
<1> HIDE DEF base, mine, p
<1>7. /\ off \in Session /\ off.pc = "off" /\ off.ev = x.ev /\ off.rule = x.rule /\ off.on = x.on
      /\ off.off = {p} /\ off.new = x.new /\ off.locks = x.locks /\ off.to = x.to /\ off.cand = k
      /\ off.base = base /\ off.mine = mine
    BY <1>1, <1>4 DEF Session
<1> HIDE DEF off
<1>8. /\ z1 \in Session /\ z1.pc = "commit" /\ z1.ev = x.ev /\ z1.rule = x.rule /\ z1.on = x.on
      /\ z1.off = {p} /\ z1.new = x.new /\ z1.locks = x.locks /\ z1.to = x.to /\ z1.cand = k
      /\ z1.base = base /\ z1.mine = mine
    BY <1>7 DEF Session, PCs
<1>9. x.to # None => x.to \in Keys
    BY <1>1 DEF Session
<1>10. x.to # None =>
      /\ z2 \in Session /\ z2.pc = "associate" /\ z2.ev = x.ev /\ z2.rule = x.rule /\ z2.on = x.on
      /\ z2.off = {p} /\ z2.new = x.new /\ z2.locks = x.locks /\ z2.to = x.to /\ z2.cand = x.to
      /\ z2.base = base /\ z2.mine = mine
    BY <1>7, <1>9 DEF Session, PCs
<1> HIDE DEF z1, z2
<1>11. CASE x.to = None
  <2>1. Moves(s) /\ session'[s] = z1 /\ Unwritten
    BY <1>6, <1>8, <1>11, StepMoves DEF Unwritten
  <2>. QED BY <1>1, <1>2, <1>3, <1>8, <1>11, <2>1 DEF base, mine, p, agg
<1>12. CASE x.to # None
  <2>1. Moves(s) /\ session'[s] = z2 /\ Unwritten
    BY <1>6, <1>10, <1>12, StepMoves DEF Unwritten
  <2>. QED BY <1>1, <1>2, <1>3, <1>9, <1>10, <1>12, <2>1 DEF base, mine, p, agg
<1>. QED BY <1>11, <1>12

LEMMA CommitEffect ==
    ASSUME Types, Stages, NEW s \in Sessions, Commit(s)
    PROVE  LET x == session[s] IN
           /\ Moves(s) /\ session'[s] = NoSession /\ UNCHANGED history /\ x.pc = "commit" /\ Flushes(s, x)
           /\ x.cand \in Keys /\ x.ev \in Evidence
           /\ candidates' \in [Keys -> Rows]
           /\ \A k \in Keys :
                 candidates'[k] = IF k \in x.new THEN x.mine[k] ELSE Written(candidates[k], x.base[k], x.mine[k])
           /\ links' \in SUBSET Link
           /\ \A l \in links' \ x.on :
                 \E d \in links : /\ l.cand = d.cand /\ l.ev = d.ev /\ l.rule = d.rule
                                  /\ l.active <=> (d.active /\ <<d.cand, d.ev>> \notin x.off)
           /\ x.on \subseteq links'
           /\ \A d \in links :
                 \E l \in links' : /\ l.cand = d.cand /\ l.ev = d.ev /\ l.rule = d.rule
                                   /\ l.active <=> (d.active /\ <<d.cand, d.ev>> \notin x.off)
<1> DEFINE x == session[s]
           f(l) == IF <<l.cand, l.ev>> \in x.off THEN [l EXCEPT !.active = FALSE] ELSE l
<1>1. /\ x \in Session /\ x.pc = "commit" /\ Flushes(s, x) /\ x.cand \in Keys /\ x.ev \in Evidence
    BY DEF Commit, Types, Stages, Stage
<1>2. Moves(s) /\ session'[s] = NoSession
    BY NoSessionShape, MovesTo DEF Commit
<1>3. UNCHANGED history
    BY DEF Commit
<1>4. candidates' = [k \in Keys |-> IF k \in x.new THEN x.mine[k]
                                    ELSE Written(candidates[k], x.base[k], x.mine[k])]
    BY DEF Commit
<1>5. \A k \in Keys : /\ x.mine[k] \in Rows
                      /\ Written(candidates[k], x.base[k], x.mine[k]) \in Rows
    BY <1>1, WrittenShape DEF Types, Session
<1>6. candidates' \in [Keys -> Rows]
    BY <1>4, <1>5
<1>7. links' = {f(l) : l \in links} \cup x.on
    BY DEF Commit
<1>8. \A d \in links : /\ f(d) \in Link
                       /\ f(d).cand = d.cand /\ f(d).ev = d.ev /\ f(d).rule = d.rule
                       /\ f(d).active <=> (d.active /\ <<d.cand, d.ev>> \notin x.off)
    BY DEF Types, Link
<1> HIDE DEF f
<1>9. links' \in SUBSET Link /\ x.on \subseteq links'
  <2>1. x.on \subseteq Link
    BY <1>1 DEF Session
  <2>2. {f(l) : l \in links} \subseteq Link
    BY <1>8
  <2>. QED BY <1>7, <2>1, <2>2
<1>10. \A l \in links' \ x.on : \E d \in links : l = f(d)
    BY <1>7
<1>11. \A d \in links : f(d) \in links'
    BY <1>7
<1>. QED BY SMTT(60), <1>1, <1>2, <1>3, <1>4, <1>6, <1>8, <1>9, <1>10, <1>11

LEMMA AbortEffect ==
    ASSUME Types, NEW s \in Sessions, Abort(s)
    PROVE  Moves(s) /\ session'[s] = NoSession /\ Unwritten /\ session[s].pc # "idle"
  BY RollbackEffect DEF Abort, Unwritten

LEMMA InitTypes ==
    ASSUME Init
    PROVE  Types /\ Stages
<1>1. [k \in Keys |-> NoRow] \in [Keys -> Rows]
    BY NoRowShape
<1>2. Types
    BY <1>1, NoSessionShape DEF Init, Types
<1>3. Stages
    BY NoSessionShape DEF Init, Stages
<1>. QED BY <1>2, <1>3

LEMMA BeginHistory ==
    ASSUME Types, NEW s \in Sessions, NEW e \in Evidence,
           overlapped' = (overlapped \/ \E o \in Others(s) : session[o].pc # "idle"),
           contended' = contended \cup {d \in {e} : \E o \in Others(s) : session[o].ev = d}
    PROVE  overlapped' \in BOOLEAN /\ contended' \in SUBSET Evidence /\ contended \subseteq contended'
<1>1. overlapped' \in BOOLEAN
  <2> DEFINE other == \E o \in Others(s) : session[o].pc # "idle"
  <2>1. other \in BOOLEAN
    OBVIOUS
  <2> HIDE DEF other
  <2>. QED BY <2>1 DEF Types, other
<1>2. contended' \in SUBSET Evidence /\ contended \subseteq contended'
    BY DEF Types
<1>. QED BY <1>1, <1>2

\* Every call of a session leads to a state of the next stage.
LEMMA NextTypes ==
    ASSUME Types, Stages, Next
    PROVE  Types' /\ Stages'
<1>1. PICK s \in Sessions :
        \/ \E e \in Evidence : Process(s, e)
        \/ \E k \in Keys, e \in Evidence : Deactivate(s, k, e)
        \/ \E k, to \in Keys, e \in Evidence : Regroup(s, k, to, e)
        \/ MatchExisting(s)
        \/ CreateOrGet(s)
        \/ Associate(s)
        \/ AddLink(s)
        \/ Refresh(s)
        \/ TakeOff(s)
        \/ Commit(s)
        \/ Abort(s)
    BY DEF Next
<1> DEFINE x == session[s]
           y == session'[s]
<1>x. x \in Session /\ Stage(x)
    BY DEF Types, Stages
<1>2. SUFFICES /\ Moves(s)
               /\ Stage(y)
               /\ candidates' \in [Keys -> Rows] /\ links' \in SUBSET Link
               /\ calls' \in Nat /\ overlapped' \in BOOLEAN /\ contended' \in SUBSET Evidence
    BY DEF Types, Stages, Moves
<1>3. CASE \E e \in Evidence : Process(s, e)
  <2>1. PICK e \in Evidence : Process(s, e)
    BY <1>3
  <2>2. /\ Moves(s) /\ UNCHANGED <<candidates, links>> /\ calls' = calls + 1
        /\ overlapped' \in BOOLEAN /\ contended' \in SUBSET Evidence
    BY <2>1, ProcessEffect, BeginHistory
  <2>3. /\ y.pc = "match" /\ y.ev = e /\ y.base = NoRows /\ y.mine = NoRows /\ y.new = {}
        /\ y.locks = {} /\ y.on = {} /\ y.off = {}
    BY <2>1, ProcessEffect
  <2> HIDE DEF y
  <2>4. Stage(y)
    BY <2>3 DEF Stage
  <2>. QED BY <2>2, <2>4 DEF Types, y
<1>4. CASE \E k \in Keys, e \in Evidence : Deactivate(s, k, e)
  <2>1. PICK k \in Keys, e \in Evidence : Deactivate(s, k, e)
    BY <1>4
  <2>2. /\ Moves(s) /\ UNCHANGED <<candidates, links>> /\ calls' = calls + 1
        /\ overlapped' \in BOOLEAN /\ contended' \in SUBSET Evidence
    BY <2>1, DeactivateEffect, BeginHistory
  <2>3. /\ y.pc = "off" /\ y.ev = e /\ y.cand = k /\ y.to = None
        /\ y.base = NoRows /\ y.mine = NoRows /\ y.new = {}
        /\ y.locks = {} /\ y.on = {} /\ y.off = {}
    BY <2>1, DeactivateEffect
  <2> HIDE DEF y
  <2>4. Stage(y)
    BY <2>3 DEF Stage
  <2>. QED BY <2>2, <2>4 DEF Types, y
<1>5. CASE \E k, to \in Keys, e \in Evidence : Regroup(s, k, to, e)
  <2>1. PICK k \in Keys, to \in Keys, e \in Evidence : Regroup(s, k, to, e)
    BY <1>5
  <2>2. Moves(s) /\ UNCHANGED <<candidates, links>> /\ calls' = calls + 1
    BY <2>1, RegroupEffect
  <2>m. y.mine = y.base
    BY <2>1, RegroupEffect, Zenon
  <2>3. /\ overlapped' = (overlapped \/ \E o \in Others(s) : session[o].pc # "idle")
        /\ contended' = contended \cup {d \in {e} : \E o \in Others(s) : session[o].ev = d}
    BY <2>1, RegroupEffect
  <2>5. /\ y.pc = "off" /\ y.ev = e /\ y.cand = k /\ y.to = to /\ y.rule = "reviewed_regroup" /\ to # k
        /\ y.new = {} /\ y.locks = {} /\ y.on = {} /\ y.off = {}
    BY <2>1, RegroupEffect
  <2>6. overlapped' \in BOOLEAN /\ contended' \in SUBSET Evidence
    BY <2>3, BeginHistory
  <2> HIDE DEF y
  <2>4. Stage(y)
    BY <2>5, <2>m DEF Stage
  <2>. QED BY <2>2, <2>6, <2>4 DEF Types, y
<1>6. CASE MatchExisting(s)
  <2>1. Moves(s) /\ Unwritten
    BY <1>6, MatchExistingEffect
  <2>2. /\ x.pc = "match" /\ Keeps(x, y)
        /\ y.cand \in Keys /\ y.rule \in RuleNames /\ y.on = x.on /\ y.new = x.new /\ y.locks = x.locks
        /\ y.pc \in {"create", "associate"}
    BY <1>6, MatchExistingEffect
  <2>3. /\ y.base = [x.base EXCEPT ![y.cand] = candidates[y.cand]]
        /\ y.mine = [x.mine EXCEPT ![y.cand] = candidates[y.cand]]
    BY <1>6, MatchExistingEffect
  <2> HIDE DEF x, y
  <2>4. y.mine = y.base
    BY <1>x, <2>2, <2>3 DEF Stage
  <2>5. Stage(y)
    BY <1>x, <2>2, <2>4 DEF Stage, Keeps
  <2>. QED BY <2>1, <2>5 DEF Types, y, Unwritten, history
<1>7. CASE CreateOrGet(s)
  <2>1. Moves(s) /\ Unwritten
    BY <1>7, CreateOrGetEffect
  <2>2. /\ x.pc = "create" /\ Keeps(x, y) /\ y.pc = "associate"
        /\ y.cand = x.cand /\ y.rule = x.rule /\ y.on = x.on /\ y.new \subseteq x.new \cup {x.cand}
    BY <1>7, CreateOrGetEffect
  <2>3. \/ y.base = x.base /\ y.mine = x.mine
        \/ \E row : y.base = [x.base EXCEPT ![x.cand] = row] /\ y.mine = [x.mine EXCEPT ![x.cand] = row]
    BY <1>7, CreateOrGetEffect
  <2> HIDE DEF x, y
  <2>4. \A k \in Keys : x.mine[k] = x.base[k]
    BY <1>x, <2>2 DEF Stage
  <2>5. \A k \in Keys : y.mine[k] = y.base[k]
    BY <1>x, <2>3, <2>4 DEF Session
  <2>6. Stage(y)
    BY <1>x, <2>2, <2>5 DEF Stage, Keeps
  <2>. QED BY <2>1, <2>6 DEF Types, y, Unwritten, history
<1>8. CASE Associate(s)
  <2>1. Moves(s) /\ Unwritten
    BY <1>8, AssociateEffect
  <2>2. /\ x.pc = "associate"
        /\ \/ y = NoSession
           \/ /\ Keeps(x, y) /\ y.cand = x.cand /\ y.rule = x.rule /\ y.on = x.on
              /\ y.base = x.base /\ y.mine = x.mine /\ y.new = x.new
              /\ y.pc \in {"link", "refresh"}
    BY <1>8, AssociateEffect
  <2> HIDE DEF x, y
  <2>3. Stage(y)
    BY <1>x, <2>2, NoSessionShape DEF Stage, Keeps
  <2>. QED BY <2>1, <2>3 DEF Types, y, Unwritten, history
<1>9. CASE AddLink(s)
  <2>1. Moves(s) /\ Unwritten
    BY <1>9, AddLinkEffect
  <2>2. /\ x.pc = "link"
        /\ \/ y = NoSession
           \/ /\ Keeps(x, y) /\ y.pc = "refresh" /\ y.cand = x.cand /\ y.rule = x.rule
              /\ y.on = {TheLink(x)}
              /\ y.base = x.base /\ y.mine = x.mine /\ y.new = x.new
    BY <1>9, AddLinkEffect
  <2> HIDE DEF x, y
  <2>3. Stage(y)
    BY <1>x, <2>2, NoSessionShape DEF Stage, Keeps, TheLink
  <2>. QED BY <2>1, <2>3 DEF Types, y, Unwritten, history
<1>10. CASE Refresh(s)
  <2>1. Moves(s) /\ Unwritten
    BY <1>10, RefreshEffect
  <2>2. /\ x.pc = "refresh" /\ Keeps(x, y) /\ y.pc = "commit"
        /\ x.cand \in Keys /\ y.cand = x.cand /\ y.rule = x.rule /\ y.on = x.on
        /\ y.base = x.base /\ y.new = x.new
    BY <1>10, RefreshEffect
  <2>3. \E row : y.mine = [x.mine EXCEPT ![x.cand] = row]
    BY <1>10, RefreshEffect, ZenonT(60)
  <2> HIDE DEF x, y
  <2>4. \A k \in Keys \ {x.cand} : y.mine[k] = x.mine[k]
    BY <1>x, <2>3 DEF Session
  <2>5. Stage(y)
    BY <1>x, <2>2, <2>4 DEF Stage, Keeps
  <2>. QED BY <2>1, <2>5 DEF Types, y, Unwritten, history
<1>11. CASE TakeOff(s)
  <2>1. Moves(s) /\ Unwritten
    BY <1>11, TakeOffEffect
  <2>2. /\ x.pc = "off" /\ y.ev = x.ev /\ y.rule = x.rule /\ y.on = x.on
        /\ x.cand \in Keys /\ x.ev \in Evidence
        /\ y.off = {<<x.cand, x.ev>>} /\ y.new = x.new /\ y.locks = x.locks /\ y.to = x.to
        /\ \/ x.to = None /\ y.pc = "commit" /\ y.cand = x.cand
           \/ x.to # None /\ x.to \in Keys /\ y.pc = "associate" /\ y.cand = x.to
    BY <1>11, TakeOffEffect
  <2> DEFINE row == candidates[x.cand]
             agg == Aggregates(row, ActiveIn(s, x.cand) \ {x.ev})
  <2>3. y.base = [x.base EXCEPT ![x.cand] = row] /\ y.mine = [x.mine EXCEPT ![x.cand] = agg]
    BY <1>11, TakeOffEffect
  <2> HIDE DEF x, y, row, agg
  <2>4. \A k \in Keys \ {x.cand} : y.mine[k] = x.mine[k] /\ y.base[k] = x.base[k] /\ x.mine[k] = x.base[k]
    BY <1>x, <2>2, <2>3 DEF Session, Stage
  <2>5. Stage(y)
    BY <1>x, <2>2, <2>4 DEF Stage, RuleNames
  <2>. QED BY <2>1, <2>5 DEF Types, y, Unwritten, history
<1>12. CASE Commit(s)
  <2>1. Moves(s) /\ y = NoSession /\ UNCHANGED history /\ candidates' \in [Keys -> Rows] /\ links' \in SUBSET Link
    BY <1>12, CommitEffect
  <2>. QED BY <2>1, NoSessionShape DEF Types, history
<1>13. CASE Abort(s)
  <2>1. Moves(s) /\ y = NoSession /\ Unwritten
    BY <1>13, AbortEffect
  <2>. QED BY <2>1, NoSessionShape DEF Types, history, Unwritten
<1>. QED BY <1>1, <1>3, <1>4, <1>5, <1>6, <1>7, <1>8, <1>9, <1>10, <1>11, <1>12, <1>13

LEMMA Stutter ==
    ASSUME Types, Stages, UNCHANGED vars
    PROVE  Types' /\ Stages'
  BY DEF Types, Stages, vars

LEMMA TypesInvariant == Spec => [](Types /\ Stages)
<1>1. Init => Types /\ Stages
    BY InitTypes
<1>2. (Types /\ Stages) /\ [Next]_vars => (Types /\ Stages)'
    BY NextTypes, Stutter
<1>. QED BY <1>1, <1>2, PTL DEF Spec

\* Every row and every session has the type of what it models.
THEOREM TypeCorrect == Spec => []TypeOK
<1>1. Types => TypeOK
    BY DEF Types, TypeOK, Session
<1>. QED BY <1>1, TypesInvariant, PTL

-----------------------------------------------------------------------------
(* One active membership.                                                  *)

\* Evidence that one call at a time has handled: at most one session works on it, its
\* committed links that are active are of one candidate, and of what that session sees
\* nothing is linked until it has itself chosen and linked a candidate.
Alone(e) ==
    \A s, o \in Sessions : session[s].ev = e /\ session[o].ev = e => s = o

Together(e) ==
    \A l, m \in links : l.active /\ m.active /\ l.ev = e /\ m.ev = e => l.cand = m.cand

Seen(s, e) ==
    session[s].ev = e =>
        \A l \in Visible(s) : l.ev = e =>
            session[s].pc \in {"off", "refresh", "commit"} /\ l.cand = session[s].cand

OneAt(e) == Alone(e) /\ Together(e) /\ \A s \in Sessions : Seen(s, e)

OneInv == \A e \in Evidence \ contended : OneAt(e)

\* A step that commits nothing.
LEMMA QuietKeepsOne ==
    ASSUME Types, NEW s \in Sessions, NEW e \in Evidence, Moves(s), UNCHANGED links,
           OneAt(e), Seen(s, e)',
           session'[s].ev = e => session[s].ev = e \/ \A o \in Others(s) : session[o].ev # e
    PROVE  OneAt(e)'
<1>1. Alone(e)'
    BY DEF OneAt, Alone, Moves, Others
<1>2. Together(e)'
    BY DEF OneAt, Together
<1>3. \A o \in Sessions \ {s} : Seen(o, e)'
    BY DEF OneAt, Seen, Moves, Visible
<1>. QED BY <1>1, <1>2, <1>3 DEF OneAt

LEMMA BeginsAlone ==
    ASSUME NEW s \in Sessions, NEW d \in Evidence,
           contended' = contended \cup {e \in {d} : \E o \in Others(s) : session[o].ev = e}
    PROVE  /\ \A e \in Evidence \ contended' : e \in Evidence \ contended
           /\ d \notin contended' => \A o \in Others(s) : session[o].ev # d
  OBVIOUS

\* A session without a transaction sees what is committed.
LEMMA IdleSees ==
    ASSUME Types, Stages, NEW s \in Sessions, session[s].pc = "idle"
    PROVE  Visible(s) = {l \in links : l.active}
<1>1. session[s].on = {} /\ session[s].off = {}
    BY NoSessionShape DEF Stages, Stage
<1>. QED BY <1>1 DEF Visible

LEMMA NextOne ==
    ASSUME Types, Stages, OneInv, Next
    PROVE  OneInv'
<1>1. PICK s \in Sessions :
        \/ \E e \in Evidence : Process(s, e)
        \/ \E k \in Keys, e \in Evidence : Deactivate(s, k, e)
        \/ \E k, to \in Keys, e \in Evidence : Regroup(s, k, to, e)
        \/ MatchExisting(s)
        \/ CreateOrGet(s)
        \/ Associate(s)
        \/ AddLink(s)
        \/ Refresh(s)
        \/ TakeOff(s)
        \/ Commit(s)
        \/ Abort(s)
    BY DEF Next
<1> DEFINE x == session[s]
           y == session'[s]
<1>x. x \in Session /\ Stage(x)
    BY DEF Types, Stages
<1>2. CASE \E e \in Evidence : Process(s, e)
  <2>1. PICK d \in Evidence : Process(s, d)
    BY <1>2
  <2>2. /\ Moves(s) /\ UNCHANGED links /\ y.ev = d /\ CandidatesOf(s, d) = {}
        /\ y.on = {} /\ y.off = {} /\ x.pc = "idle"
        /\ contended' = contended \cup {e \in {d} : \E o \in Others(s) : session[o].ev = e}
    BY <2>1, ProcessEffect
  <2>3. \A l \in Visible(s) : l.ev # d
    BY <2>2 DEF CandidatesOf
  <2>4. Visible(s)' = Visible(s)
    BY <2>2, IdleSees DEF Visible
  <2> SUFFICES ASSUME NEW e \in Evidence \ contended' PROVE OneAt(e)'
    BY DEF OneInv
  <2>5. OneAt(e) /\ (e = d => \A o \in Others(s) : session[o].ev # d)
    BY <2>2, BeginsAlone DEF OneInv
  <2>6. Seen(s, e)'
    BY <2>2, <2>3, <2>4 DEF Seen
  <2>. QED BY <2>2, <2>5, <2>6, QuietKeepsOne
<1>3. CASE \E k \in Keys, e \in Evidence : Deactivate(s, k, e)
  <2>1. PICK k \in Keys, d \in Evidence : Deactivate(s, k, d)
    BY <1>3
  <2>2. /\ Moves(s) /\ UNCHANGED links /\ y.ev = d /\ y.cand = k /\ d \in ActiveIn(s, k)
        /\ y.pc = "off" /\ y.on = {} /\ y.off = {} /\ x.pc = "idle"
        /\ contended' = contended \cup {e \in {d} : \E o \in Others(s) : session[o].ev = e}
    BY <2>1, DeactivateEffect
  <2>3. PICK m \in Visible(s) : m.cand = k /\ m.ev = d
    BY <2>2 DEF ActiveIn
  <2>4. Visible(s)' = {l \in links : l.active} /\ m \in links /\ m.active
    BY <2>2, IdleSees DEF Visible
  <2> SUFFICES ASSUME NEW e \in Evidence \ contended' PROVE OneAt(e)'
    BY DEF OneInv
  <2>5. OneAt(e) /\ (e = d => \A o \in Others(s) : session[o].ev # d)
    BY <2>2, BeginsAlone DEF OneInv
  <2>6. Seen(s, e)'
    BY <2>2, <2>3, <2>4, <2>5 DEF Seen, OneAt, Together
  <2>. QED BY <2>2, <2>5, <2>6, QuietKeepsOne
<1>4. CASE \E k, to \in Keys, e \in Evidence : Regroup(s, k, to, e)
  <2>1. PICK k \in Keys, to \in Keys, d \in Evidence : Regroup(s, k, to, d)
    BY <1>4
  <2>2. /\ Moves(s) /\ UNCHANGED links /\ y.ev = d /\ y.cand = k /\ CandidatesOf(s, d) = {k}
        /\ y.pc = "off" /\ y.on = {} /\ y.off = {} /\ x.pc = "idle"
        /\ contended' = contended \cup {e \in {d} : \E o \in Others(s) : session[o].ev = e}
    BY <2>1, RegroupEffect
  <2>3. \A l \in Visible(s) : l.ev = d => l.cand = k
    BY <2>2 DEF CandidatesOf
  <2>4. Visible(s)' = Visible(s)
    BY <2>2, IdleSees DEF Visible
  <2> SUFFICES ASSUME NEW e \in Evidence \ contended' PROVE OneAt(e)'
    BY DEF OneInv
  <2>5. OneAt(e) /\ (e = d => \A o \in Others(s) : session[o].ev # d)
    BY <2>2, BeginsAlone DEF OneInv
  <2>6. Seen(s, e)'
    BY <2>2, <2>3, <2>4 DEF Seen
  <2>. QED BY <2>2, <2>5, <2>6, QuietKeepsOne
<1>5. CASE MatchExisting(s)
  <2>1. /\ Moves(s) /\ Unwritten /\ x.pc = "match" /\ Keeps(x, y) /\ y.on = x.on
    BY <1>5, MatchExistingEffect
  <2>2. Visible(s)' = Visible(s)
    BY <2>1 DEF Visible, Unwritten, Keeps
  <2> SUFFICES ASSUME NEW e \in Evidence \ contended PROVE OneAt(e)'
    BY <2>1 DEF OneInv, Unwritten, history
  <2>3. OneAt(e) /\ Seen(s, e)'
    BY <2>1, <2>2 DEF Seen, OneInv, OneAt, Keeps
  <2>. QED BY <2>1, <2>3, QuietKeepsOne DEF Unwritten, Keeps
<1>6. CASE CreateOrGet(s)
  <2>1. /\ Moves(s) /\ Unwritten /\ x.pc = "create" /\ Keeps(x, y) /\ y.on = x.on
    BY <1>6, CreateOrGetEffect
  <2>2. Visible(s)' = Visible(s)
    BY <2>1 DEF Visible, Unwritten, Keeps
  <2> SUFFICES ASSUME NEW e \in Evidence \ contended PROVE OneAt(e)'
    BY <2>1 DEF OneInv, Unwritten, history
  <2>3. OneAt(e) /\ Seen(s, e)'
    BY <2>1, <2>2 DEF Seen, OneInv, OneAt, Keeps
  <2>. QED BY <2>1, <2>3, QuietKeepsOne DEF Unwritten, Keeps
<1>7. CASE Associate(s)
  <2>1. /\ Moves(s) /\ Unwritten /\ x.pc = "associate" /\ x.ev \in Evidence
        /\ \/ y = NoSession
           \/ Keeps(x, y) /\ y.cand = x.cand /\ y.on = x.on
    BY <1>7, AssociateEffect
  <2>2. CASE y = NoSession
    <3> SUFFICES ASSUME NEW e \in Evidence \ contended PROVE OneAt(e)'
      BY <2>1 DEF OneInv, Unwritten, history
    <3>1. y.ev # e
      BY <2>2, NoSessionShape, EventAssumption
    <3>. QED BY <2>1, <3>1, QuietKeepsOne DEF OneInv, Seen, Unwritten
  <2>3. CASE Keeps(x, y) /\ y.cand = x.cand /\ y.on = x.on
    <3>1. Visible(s)' = Visible(s)
      BY <2>1, <2>3 DEF Visible, Unwritten, Keeps
    <3> SUFFICES ASSUME NEW e \in Evidence \ contended PROVE OneAt(e)'
      BY <2>1 DEF OneInv, Unwritten, history
    <3>2. OneAt(e) /\ Seen(s, e)'
      BY <2>1, <2>3, <3>1 DEF Seen, OneInv, OneAt, Keeps
    <3>. QED BY <2>1, <2>3, <3>2, QuietKeepsOne DEF Unwritten, Keeps
  <2>. QED BY <2>1, <2>2, <2>3
<1>8. CASE AddLink(s)
  <2>1. /\ Moves(s) /\ Unwritten /\ x.pc = "link" /\ x.ev \in Evidence /\ x.on = {}
        /\ \/ y = NoSession
           \/ Keeps(x, y) /\ y.cand = x.cand /\ y.on = {TheLink(x)} /\ y.pc = "refresh"
    BY <1>8, AddLinkEffect
  <2>2. CASE y = NoSession
    <3> SUFFICES ASSUME NEW e \in Evidence \ contended PROVE OneAt(e)'
      BY <2>1 DEF OneInv, Unwritten, history
    <3>1. y.ev # e
      BY <2>2, NoSessionShape, EventAssumption
    <3>. QED BY <2>1, <3>1, QuietKeepsOne DEF OneInv, Seen, Unwritten
  <2>3. CASE Keeps(x, y) /\ y.cand = x.cand /\ y.on = {TheLink(x)} /\ y.pc = "refresh"
    <3>1. \A l \in Visible(s)' : l \in Visible(s) \/ l.cand = x.cand
      BY <2>1, <2>3 DEF Visible, Unwritten, Keeps, TheLink
    <3> SUFFICES ASSUME NEW e \in Evidence \ contended PROVE OneAt(e)'
      BY <2>1 DEF OneInv, Unwritten, history
    <3>2. OneAt(e) /\ Seen(s, e)'
      BY <2>1, <2>3, <3>1 DEF Seen, OneInv, OneAt, Keeps
    <3>. QED BY <2>1, <2>3, <3>2, QuietKeepsOne DEF Unwritten, Keeps
  <2>. QED BY <2>1, <2>2, <2>3
<1>9. CASE Refresh(s)
  <2>1. /\ Moves(s) /\ Unwritten /\ x.pc = "refresh" /\ Keeps(x, y) /\ y.on = x.on /\ y.cand = x.cand
        /\ y.pc = "commit"
    BY <1>9, RefreshEffect
  <2>2. Visible(s)' = Visible(s)
    BY <2>1 DEF Visible, Unwritten, Keeps
  <2> SUFFICES ASSUME NEW e \in Evidence \ contended PROVE OneAt(e)'
    BY <2>1 DEF OneInv, Unwritten, history
  <2>3. OneAt(e) /\ Seen(s, e)'
    BY <2>1, <2>2 DEF Seen, OneInv, OneAt, Keeps
  <2>. QED BY <2>1, <2>3, QuietKeepsOne DEF Unwritten, Keeps
<1>10. CASE TakeOff(s)
  <2>1. /\ Moves(s) /\ Unwritten /\ x.pc = "off" /\ y.ev = x.ev /\ y.on = x.on
        /\ y.off = {<<x.cand, x.ev>>}
    BY <1>10, TakeOffEffect
  <2>2. x.on = {} /\ x.off = {}
    BY <1>x, <2>1 DEF Stage
  <2>3. \A l \in Visible(s)' : l \in Visible(s) /\ <<l.cand, l.ev>> # <<x.cand, x.ev>>
    BY <2>1, <2>2 DEF Visible, Unwritten
  <2> SUFFICES ASSUME NEW e \in Evidence \ contended PROVE OneAt(e)'
    BY <2>1 DEF OneInv, Unwritten, history
  <2>4. OneAt(e) /\ Seen(s, e)'
    BY <2>1, <2>3 DEF Seen, OneInv, OneAt
  <2>. QED BY <2>1, <2>4, QuietKeepsOne DEF Unwritten
<1>11. CASE Commit(s)
  <2>1. /\ Moves(s) /\ y = NoSession /\ UNCHANGED history /\ x.pc = "commit"
        /\ \A l \in links' \ x.on :
                 \E d \in links : /\ l.cand = d.cand /\ l.ev = d.ev
                                  /\ l.active <=> (d.active /\ <<d.cand, d.ev>> \notin x.off)
    BY <1>11, CommitEffect
  <2>2. \A l \in x.on : l.ev = x.ev
    BY <1>x DEF Stage
  <2>3. \A l \in links' : l.active =>
            \E d \in Visible(s) : l.cand = d.cand /\ l.ev = d.ev /\ (l.ev # x.ev => d \in links /\ d.active)
    BY <2>1, <2>2 DEF Visible
  <2> SUFFICES ASSUME NEW e \in Evidence \ contended PROVE OneAt(e)'
    BY <2>1 DEF OneInv, history
  <2>4. OneAt(e) /\ y.ev # e
    BY <2>1, NoSessionShape, EventAssumption DEF OneInv
  <2>5. Alone(e)'
    BY <2>1, <2>4 DEF Alone, OneAt, Moves
  <2>6. Together(e)'
    <3> SUFFICES ASSUME NEW l \in links', NEW m \in links', l.active, m.active, l.ev = e, m.ev = e
                 PROVE  l.cand = m.cand
      BY DEF Together
    <3>1. PICK c \in Visible(s) : l.cand = c.cand /\ c.ev = e /\ (e # x.ev => c \in links /\ c.active)
      BY <2>3
    <3>2. PICK d \in Visible(s) : m.cand = d.cand /\ d.ev = e /\ (e # x.ev => d \in links /\ d.active)
      BY <2>3
    <3>3. CASE e = x.ev
      BY <2>4, <3>1, <3>2, <3>3 DEF OneAt, Seen
    <3>4. CASE e # x.ev
      BY <2>4, <3>1, <3>2, <3>4 DEF OneAt, Together
    <3>. QED BY <3>3, <3>4
  <2>7. ASSUME NEW o \in Sessions PROVE Seen(o, e)'
    <3>1. CASE o = s
      BY <2>4, <3>1 DEF Seen
    <3>2. CASE o # s /\ session[o].ev = e
      <4>1. session'[o] = session[o] /\ x.ev # e
        BY <2>1, <2>4, <3>2 DEF Moves, OneAt, Alone
      <4>2. ASSUME NEW l \in Visible(o)', l.ev = e PROVE \E d \in Visible(o) : d.ev = e /\ d.cand = l.cand
        <5>1. CASE l \in session[o].on
          BY <4>2, <5>1 DEF Visible
        <5>2. CASE l \in links' /\ l.active /\ <<l.cand, l.ev>> \notin session[o].off
          BY <2>1, <2>2, <4>1, <4>2, <5>2 DEF Visible
        <5>. QED BY <4>1, <5>1, <5>2 DEF Visible
      <4>. QED BY <2>4, <3>2, <4>1, <4>2 DEF OneAt, Seen
    <3>3. CASE o # s /\ session[o].ev # e
      BY <2>1, <3>3 DEF Seen, Moves
    <3>. QED BY <3>1, <3>2, <3>3
  <2>. QED BY <2>5, <2>6, <2>7 DEF OneAt
<1>12. CASE Abort(s)
  <2>1. Moves(s) /\ y = NoSession /\ Unwritten
    BY <1>12, AbortEffect
  <2> SUFFICES ASSUME NEW e \in Evidence \ contended PROVE OneAt(e)'
    BY <2>1 DEF OneInv, Unwritten, history
  <2>2. y.ev # e
    BY <2>1, NoSessionShape, EventAssumption
  <2>. QED BY <2>1, <2>2, QuietKeepsOne DEF OneInv, Seen, Unwritten
<1>. QED BY <1>1, <1>2, <1>3, <1>4, <1>5, <1>6, <1>7, <1>8, <1>9, <1>10, <1>11, <1>12

LEMMA StutterOne ==
    ASSUME OneInv, UNCHANGED vars
    PROVE  OneInv'
  BY DEF OneInv, OneAt, Alone, Together, Seen, Visible, vars

LEMMA InitOne ==
    ASSUME Init
    PROVE  OneInv
  BY NoSessionShape, EventAssumption DEF Init, OneInv, OneAt, Alone, Together, Seen

\* Evidence is in at most one candidate, unless two calls handled it at a time.
THEOREM EvidenceIsInOneCandidate == Spec => []OneActiveMembership
<1>1. Init => OneInv
    BY InitOne
<1>2. (Types /\ Stages) /\ OneInv /\ [Next]_vars => OneInv'
    BY NextOne, StutterOne
<1>3. Types /\ OneInv => OneActiveMembership
  <2> SUFFICES ASSUME Types, OneInv, NEW e \in Evidence \ contended
               PROVE  Cardinality({k \in Keys : e \in Active(k)}) <= 1
    BY DEF OneActiveMembership
  <2> DEFINE S == {k \in Keys : e \in Active(k)}
  <2>1. \A j, k \in S : j = k
    BY DEF OneInv, OneAt, Together, Active
  <2> HIDE DEF S
  <2>2. CASE S = {}
    BY <2>2, FS_EmptySet DEF S
  <2>3. CASE S # {}
    <3>1. PICK k \in S : TRUE
      BY <2>3
    <3>2. S = {k}
      BY <2>1, <3>1
    <3>3. Cardinality(S) = 1
      BY <3>2, FS_Singleton
    <3>. QED BY <3>3 DEF S
  <2>. QED BY <2>2, <2>3
<1>. QED BY <1>1, <1>2, <1>3, TypesInvariant, PTL DEF Spec

-----------------------------------------------------------------------------
(* What a row holds.                                                       *)

\* A row that is there holds nothing that evidence of B has not brought.
Backed(row, B) ==
    /\ row.status # "absent"
    /\ \A g \in row.signatures : \E d \in B : g \in Signatures(d)
    /\ \A t \in row.titles : \E d \in B : Title(d) = t
    /\ \A n \in row.entities : \E d \in B : n \in Facts[d].entities
    /\ \E d \in B : Facts[d].time <= row.first
    /\ \E d \in B : Facts[d].time >= row.latest

\* The evidence a session may have merged into its copy of a candidate.
Held(s, k) == Ever(k) \cup {e \in {session[s].ev} : k = session[s].cand}

RowAt(k) == candidates[k] = NoRow \/ Backed(candidates[k], Ever(k))

MineAt(s, k) ==
    LET x == session[s] IN
    \/ x.mine[k] = NoRow /\ x.base[k] = NoRow
    \/ Backed(x.mine[k], Held(s, k)) /\ (candidates[k] # NoRow \/ k \in x.new)

\* What a session works on is there.
Grounded(s) ==
    LET x == session[s] IN
    /\ x.pc \in {"associate", "link", "refresh", "commit"} => x.mine[x.cand] # NoRow
    /\ x.pc = "off" => candidates[x.cand] # NoRow
    /\ x.pc = "off" /\ x.to # None => x.mine[x.to] # NoRow
    /\ x.pc \in {"off", "refresh", "commit"} => \E l \in links \cup x.on : l.cand = x.cand /\ l.ev = x.ev

RowsInv ==
    /\ \A k \in Keys : RowAt(k)
    /\ \A l \in links : candidates[l.cand] # NoRow
    /\ \A s \in Sessions : Grounded(s) /\ \A k \in Keys : MineAt(s, k)

LEMMA BackedGrows ==
    ASSUME NEW row, NEW B, NEW C, B \subseteq C, Backed(row, B)
    PROVE  Backed(row, C) /\ row # NoRow
  BY NoRowShape DEF Backed

LEMMA BackedNew ==
    ASSUME NEW e \in Evidence, NEW B, e \in B
    PROVE  Backed(NewRow(e), B)
<1> DEFINE row == NewRow(e)
<1>1. /\ row.signatures = Signatures(e) /\ row.titles = {Title(e)} \ {None}
      /\ row.entities = Facts[e].entities /\ row.first = Facts[e].time /\ row.latest = Facts[e].time
      /\ row.status = "candidate"
    BY NewRowShape
<1> HIDE DEF row
<1>2. Facts[e].time \in Nat
    BY EventAssumption
<1>3. Backed(row, B)
    BY <1>1, <1>2 DEF Backed
<1>. QED BY <1>3 DEF row

LEMMA BackedMerged ==
    ASSUME NEW row \in Rows, NEW e \in Evidence, NEW B \in SUBSET Evidence, e \in B, Backed(row, B)
    PROVE  Backed(Merged(row, e), B)
<1> DEFINE m == Merged(row, e)
<1>1. /\ m.signatures = row.signatures \cup Signatures(e)
      /\ m.titles = row.titles \cup ({Title(e)} \ {None})
      /\ m.entities = row.entities \cup Facts[e].entities
      /\ m.first = IF Facts[e].time < row.first THEN Facts[e].time ELSE row.first
      /\ m.latest = IF Facts[e].time > row.latest THEN Facts[e].time ELSE row.latest
      /\ m.status = row.status
    BY MergedShape
<1> HIDE DEF m
<1>2. Facts[e].time \in Nat
    BY EventAssumption
<1>3. m.first \in {row.first, Facts[e].time} /\ m.latest \in {row.latest, Facts[e].time}
    BY <1>1
<1>4. (\E d \in B : Facts[d].time <= m.first) /\ (\E d \in B : Facts[d].time >= m.latest)
    BY <1>2, <1>3 DEF Backed
<1>5. Backed(m, B)
    BY <1>1, <1>4 DEF Backed
<1>. QED BY <1>5 DEF m

LEMMA BackedAggregates ==
    ASSUME NEW row \in Rows, NEW S \in SUBSET Evidence, NEW B, Backed(row, B)
    PROVE  Backed(Aggregates(row, S), B)
<1> DEFINE agg == Aggregates(row, S)
<1>1. /\ agg.signatures = row.signatures /\ agg.titles = row.titles
      /\ agg.entities = row.entities /\ agg.first = row.first /\ agg.latest = row.latest
      /\ agg.status = IF S = {} THEN "rejected"
                      ELSE IF row.status = "rejected" THEN "candidate" ELSE row.status
    BY AggregatesShape
<1> HIDE DEF agg
<1>2. Backed(agg, B)
    BY <1>1 DEF Backed
<1>. QED BY <1>2 DEF agg

LEMMA BackedWritten ==
    ASSUME NEW row \in Rows, NEW base \in Rows, NEW mine \in Rows, NEW B,
           Backed(row, B), Backed(mine, B)
    PROVE  Backed(Written(row, base, mine), B)
<1> DEFINE w == Written(row, base, mine)
<1>1. /\ w.signatures \in {row.signatures, mine.signatures}
      /\ w.titles \in {row.titles, mine.titles} /\ w.entities \in {row.entities, mine.entities}
      /\ w.first \in {row.first, mine.first} /\ w.latest \in {row.latest, mine.latest}
      /\ w.status \in {row.status, mine.status}
    BY WrittenShape
<1> HIDE DEF w
<1>2. Backed(w, B)
    BY <1>1 DEF Backed
<1>. QED BY <1>2 DEF w

LEMMA EverType ==
    ASSUME Types, NEW k \in Keys
    PROVE  Ever(k) \in SUBSET Evidence
  BY DEF Types, Ever, Link

\* A step that commits nothing.
LEMMA QuietKeepsRows ==
    ASSUME Types, RowsInv, NEW s \in Sessions, Moves(s), UNCHANGED <<candidates, links>>,
           Grounded(s)', \A k \in Keys : MineAt(s, k)'
    PROVE  RowsInv'
<1>1. \A k \in Keys : RowAt(k)'
    BY DEF RowsInv, RowAt, Ever
<1>2. \A l \in links' : candidates'[l.cand] # NoRow
    BY DEF RowsInv
<1>3. ASSUME NEW o \in Sessions, o # s PROVE Grounded(o)' /\ \A k \in Keys : MineAt(o, k)'
  <2>1. session'[o] = session[o]
    BY <1>3 DEF Moves
  <2>2. Grounded(o)'
    BY <2>1 DEF RowsInv, Grounded
  <2>3. ASSUME NEW k \in Keys PROVE MineAt(o, k)'
    <3>1. Held(o, k)' = Held(o, k)
      BY <2>1 DEF Held, Ever
    <3>. QED BY <2>1, <3>1 DEF RowsInv, MineAt
  <2>. QED BY <2>2, <2>3
<1>. QED BY <1>1, <1>2, <1>3 DEF RowsInv

LEMMA NoSessionRows ==
    ASSUME NEW s \in Sessions, session'[s] = NoSession
    PROVE  Grounded(s)' /\ \A k \in Keys : MineAt(s, k)'
  BY NoSessionShape DEF Grounded, MineAt, NoRows

\* The links a session with no transaction sees are committed.
LEMMA IdleLinks ==
    ASSUME Types, Stages, NEW s \in Sessions, session[s].pc = "idle", NEW k \in Keys, NEW e \in Evidence,
           e \in ActiveIn(s, k)
    PROVE  \E l \in links : l.cand = k /\ l.ev = e
  BY IdleSees DEF ActiveIn

LEMMA BeginKeepsRows ==
    ASSUME Types, Stages, RowsInv, NEW s \in Sessions,
           \/ \E e \in Evidence : Process(s, e)
           \/ \E k \in Keys, e \in Evidence : Deactivate(s, k, e)
           \/ \E k, to \in Keys, e \in Evidence : Regroup(s, k, to, e)
    PROVE  RowsInv'
<1> DEFINE y == session'[s]
<1>1. CASE \E e \in Evidence : Process(s, e)
  <2>1. PICK e \in Evidence : Process(s, e)
    BY <1>1
  <2>2. /\ Moves(s) /\ UNCHANGED <<candidates, links>> /\ y.pc = "match" /\ y.base = NoRows /\ y.mine = NoRows
    BY <2>1, ProcessEffect
  <2>3. Grounded(s)' /\ \A k \in Keys : MineAt(s, k)'
    BY <2>2 DEF Grounded, MineAt, NoRows
  <2>. QED BY <2>2, <2>3, QuietKeepsRows
<1>2. CASE \E k \in Keys, e \in Evidence : Deactivate(s, k, e)
  <2>1. PICK k \in Keys, e \in Evidence : Deactivate(s, k, e)
    BY <1>2
  <2>2. /\ Moves(s) /\ UNCHANGED <<candidates, links>> /\ y.pc = "off" /\ y.base = NoRows /\ y.mine = NoRows
        /\ y.cand = k /\ y.ev = e /\ y.to = None /\ session[s].pc = "idle" /\ e \in ActiveIn(s, k)
    BY <2>1, DeactivateEffect
  <2>3. PICK l \in links : l.cand = k /\ l.ev = e
    BY <2>2, IdleLinks
  <2>4. Grounded(s)' /\ \A j \in Keys : MineAt(s, j)'
    BY <2>2, <2>3 DEF Grounded, MineAt, NoRows, RowsInv
  <2>. QED BY <2>2, <2>4, QuietKeepsRows
<1>3. CASE \E k, to \in Keys, e \in Evidence : Regroup(s, k, to, e)
  <2>1. PICK k \in Keys, to \in Keys, e \in Evidence : Regroup(s, k, to, e)
    BY <1>3
  <2>2. /\ Moves(s) /\ UNCHANGED <<candidates, links>> /\ y.pc = "off" /\ y.mine = y.base
        /\ \A j \in Keys : y.base[j] = IF j = to THEN candidates[to] ELSE NoRow
    BY <2>1, RegroupEffect
  <2>3. /\ y.cand = k /\ y.ev = e /\ y.to = to /\ session[s].pc = "idle" /\ CandidatesOf(s, e) = {k}
        /\ candidates[to] # NoRow
    BY <2>1, RegroupEffect
  <2>4. e \in ActiveIn(s, k)
    BY <2>3 DEF CandidatesOf, ActiveIn
  <2>5. PICK l \in links : l.cand = k /\ l.ev = e
    BY <2>3, <2>4, IdleLinks
  <2>6. Grounded(s)'
    BY <2>2, <2>3, <2>5 DEF Grounded, RowsInv
  <2>7. ASSUME NEW j \in Keys PROVE MineAt(s, j)'
    <3>1. CASE j = to
      <4>1. Backed(candidates[to], Ever(to))
        BY <2>3 DEF RowsInv, RowAt
      <4>2. Ever(to) \subseteq Held(s, to)'
        BY <2>2 DEF Held, Ever
      <4>3. Backed(candidates[to], Held(s, to)')
        BY <4>1, <4>2, BackedGrows
      <4>. QED BY <2>2, <2>3, <3>1, <4>3 DEF MineAt
    <3>2. CASE j # to
      BY <2>2, <3>2 DEF MineAt
    <3>. QED BY <3>1, <3>2
  <2>. QED BY <2>2, <2>6, <2>7, QuietKeepsRows
<1>. QED BY <1>1, <1>2, <1>3

LEMMA MatchKeepsRows ==
    ASSUME Types, Stages, RowsInv, NEW s \in Sessions, MatchExisting(s)
    PROVE  RowsInv'
<1> DEFINE x == session[s]
           y == session'[s]
           k == y.cand
<1>1. /\ Moves(s) /\ Unwritten /\ x.pc = "match" /\ Keeps(x, y) /\ k \in Keys
      /\ \/ y.pc = "create"
         \/ y.pc = "associate" /\ candidates[k] # NoRow
    BY MatchExistingEffect
<1>2. /\ y.base = [x.base EXCEPT ![k] = candidates[k]]
      /\ y.mine = [x.mine EXCEPT ![k] = candidates[k]]
    BY MatchExistingEffect
<1>3. x.base = NoRows /\ x.mine = NoRows /\ x \in Session
    BY <1>1 DEF Stages, Stage, Types
<1>4. /\ y.base[k] = candidates[k] /\ y.mine[k] = candidates[k]
      /\ \A j \in Keys \ {k} : y.base[j] = NoRow /\ y.mine[j] = NoRow
    BY <1>1, <1>2, <1>3 DEF NoRows
<1>5. Grounded(s)'
    BY <1>1, <1>4 DEF Grounded
<1>6. ASSUME NEW j \in Keys PROVE MineAt(s, j)'
  <2>1. CASE j = k /\ candidates[k] # NoRow
    <3>1. Backed(candidates[k], Ever(k))
      BY <2>1 DEF RowsInv, RowAt
    <3>2. Ever(k) \subseteq Held(s, j)'
      BY <1>1, <2>1 DEF Held, Ever, Unwritten
    <3>3. Backed(candidates[k], Held(s, j)')
      BY <3>1, <3>2, BackedGrows
    <3>. QED BY <1>1, <1>4, <2>1, <3>3 DEF MineAt, Unwritten
  <2>2. CASE j # k \/ candidates[k] = NoRow
    BY <1>4, <2>2 DEF MineAt
  <2>. QED BY <2>1, <2>2
<1>. QED BY <1>1, <1>5, <1>6, QuietKeepsRows DEF Unwritten

\* The copies of a session that changes none of them, or only that of its candidate.
LEMMA SameRows ==
    ASSUME Types, RowsInv, NEW s \in Sessions, Moves(s), UNCHANGED <<candidates, links>>,
           session'[s].ev = session[s].ev, session'[s].cand = session[s].cand,
           session[s].new \subseteq session'[s].new,
           NEW k \in Keys, session'[s].mine[k] = session[s].mine[k], session'[s].base[k] = session[s].base[k]
    PROVE  MineAt(s, k)'
<1>1. Held(s, k)' = Held(s, k)
    BY DEF Held, Ever
<1>. QED BY <1>1 DEF RowsInv, MineAt

LEMMA CreateKeepsRows ==
    ASSUME Types, Stages, RowsInv, NEW s \in Sessions, CreateOrGet(s)
    PROVE  RowsInv'
<1> DEFINE x == session[s]
           y == session'[s]
<1>0. x.cand \in Keys
    BY CreateOrGetEffect
<1>k. PICK k \in Keys : k = x.cand
    BY <1>0
<1>1. /\ Moves(s) /\ Unwritten /\ x.pc = "create" /\ Keeps(x, y) /\ k \in Keys /\ y.cand = k /\ x.cand = k
      /\ y.pc = "associate" /\ x.new \subseteq y.new
    BY <1>k, CreateOrGetEffect
<1>x. x \in Session /\ x.ev \in Evidence
    BY <1>1 DEF Types, Stages, Stage
<1>2. \/ /\ candidates[k] = NoRow /\ k \in y.new
         /\ y.base = [x.base EXCEPT ![k] = NewRow(x.ev)]
         /\ y.mine = [x.mine EXCEPT ![k] = NewRow(x.ev)]
      \/ candidates[k] # NoRow /\ x.base[k] # NoRow /\ y.base = x.base /\ y.mine = x.mine
      \/ /\ candidates[k] # NoRow /\ x.base[k] = NoRow
         /\ y.base = [x.base EXCEPT ![k] = candidates[k]]
         /\ y.mine = [x.mine EXCEPT ![k] = candidates[k]]
    BY <1>k, CreateOrGetEffect
<1>3. \A j \in Keys \ {k} : y.base[j] = x.base[j] /\ y.mine[j] = x.mine[j]
    BY <1>2, <1>x DEF Session
<1>4. \A j \in Keys \ {k} : MineAt(s, j)'
    BY <1>1, <1>3, SameRows DEF Unwritten, Keeps
<1>5. MineAt(s, k)' /\ y.mine[k] # NoRow
  <2>1. CASE /\ candidates[k] = NoRow /\ k \in y.new
             /\ y.base = [x.base EXCEPT ![k] = NewRow(x.ev)]
             /\ y.mine = [x.mine EXCEPT ![k] = NewRow(x.ev)]
    <3>1. y.mine[k] = NewRow(x.ev)
      BY <1>1, <1>x, <2>1 DEF Session
    <3>2. x.ev \in Held(s, k)'
      BY <1>1 DEF Held, Keeps
    <3>3. Backed(NewRow(x.ev), Held(s, k)')
      BY <1>x, <3>2, BackedNew
    <3>4. NewRow(x.ev) # NoRow
      BY <1>x, NewRowShape
    <3>. QED BY <2>1, <3>1, <3>3, <3>4 DEF MineAt
  <2>2. CASE candidates[k] # NoRow /\ x.base[k] # NoRow /\ y.base = x.base /\ y.mine = x.mine
    <3>1. MineAt(s, k)'
      BY <1>1, <2>2, SameRows DEF Unwritten, Keeps
    <3>2. MineAt(s, k)
      BY <1>1 DEF RowsInv
    <3>3. x.mine[k] # NoRow
      BY <2>2, <3>2, BackedGrows DEF MineAt
    <3>. QED BY <2>2, <3>1, <3>3
  <2>3. CASE /\ candidates[k] # NoRow
             /\ y.base = [x.base EXCEPT ![k] = candidates[k]]
             /\ y.mine = [x.mine EXCEPT ![k] = candidates[k]]
    <3>1. y.mine[k] = candidates[k]
      BY <1>1, <1>x, <2>3 DEF Session
    <3>2. Backed(candidates[k], Ever(k))
      BY <1>1, <2>3 DEF RowsInv, RowAt
    <3>3. Ever(k) \subseteq Held(s, k)'
      BY <1>1 DEF Held, Ever, Unwritten
    <3>4. Backed(candidates[k], Held(s, k)')
      BY <3>2, <3>3, BackedGrows
    <3>. QED BY <1>1, <2>3, <3>1, <3>4 DEF MineAt, Unwritten
  <2>. QED BY <1>2, <2>1, <2>2, <2>3
<1>6. Grounded(s)'
    BY <1>1, <1>5 DEF Grounded
<1>. QED BY <1>1, <1>4, <1>5, <1>6, QuietKeepsRows DEF Unwritten

LEMMA AssociateKeepsRows ==
    ASSUME Types, Stages, RowsInv, NEW s \in Sessions, Associate(s)
    PROVE  RowsInv'
<1> DEFINE x == session[s]
           y == session'[s]
<1>1. Moves(s) /\ Unwritten /\ x.pc = "associate"
    BY AssociateEffect
<1>2. \/ y = NoSession
      \/ /\ Keeps(x, y) /\ y.cand = x.cand /\ y.on = x.on /\ y.base = x.base /\ y.mine = x.mine
         /\ y.new = x.new
         /\ \/ y.pc = "link"
            \/ y.pc = "refresh" /\ CandidatesOf(s, x.ev) = {x.cand}
    BY AssociateEffect
<1>3. CASE y = NoSession
    BY <1>1, <1>3, NoSessionRows, QuietKeepsRows DEF Unwritten
<1>4. CASE /\ Keeps(x, y) /\ y.cand = x.cand /\ y.on = x.on /\ y.base = x.base /\ y.mine = x.mine
           /\ y.new = x.new
           /\ \/ y.pc = "link"
              \/ y.pc = "refresh" /\ CandidatesOf(s, x.ev) = {x.cand}
  <2>1. \A k \in Keys : MineAt(s, k)'
    BY <1>1, <1>4, SameRows DEF Unwritten, Keeps
  <2>2. CandidatesOf(s, x.ev) = {x.cand} => \E l \in links \cup x.on : l.cand = x.cand /\ l.ev = x.ev
    BY DEF CandidatesOf, Visible
  <2>3. Grounded(s)'
    BY <1>1, <1>4, <2>2 DEF Grounded, RowsInv, Unwritten, Keeps
  <2>. QED BY <1>1, <2>1, <2>3, QuietKeepsRows DEF Unwritten
<1>. QED BY <1>2, <1>3, <1>4

LEMMA AddLinkKeepsRows ==
    ASSUME Types, Stages, RowsInv, NEW s \in Sessions, AddLink(s)
    PROVE  RowsInv'
<1> DEFINE x == session[s]
           y == session'[s]
<1>1. Moves(s) /\ Unwritten /\ x.pc = "link"
    BY AddLinkEffect
<1>2. \/ y = NoSession
      \/ /\ Keeps(x, y) /\ y.cand = x.cand /\ y.on = {TheLink(x)} /\ y.base = x.base /\ y.mine = x.mine
         /\ y.new = x.new /\ y.pc = "refresh"
    BY AddLinkEffect
<1>3. CASE y = NoSession
    BY <1>1, <1>3, NoSessionRows, QuietKeepsRows DEF Unwritten
<1>4. CASE /\ Keeps(x, y) /\ y.cand = x.cand /\ y.on = {TheLink(x)} /\ y.base = x.base /\ y.mine = x.mine
           /\ y.new = x.new /\ y.pc = "refresh"
  <2>1. \A k \in Keys : MineAt(s, k)'
    BY <1>1, <1>4, SameRows DEF Unwritten, Keeps
  <2>2. TheLink(x).cand = x.cand /\ TheLink(x).ev = x.ev
    BY DEF TheLink
  <2>3. Grounded(s)'
    BY <1>1, <1>4, <2>2 DEF Grounded, RowsInv, Unwritten, Keeps
  <2>. QED BY <1>1, <2>1, <2>3, QuietKeepsRows DEF Unwritten
<1>. QED BY <1>2, <1>3, <1>4

LEMMA RefreshKeepsRows ==
    ASSUME Types, Stages, RowsInv, NEW s \in Sessions, Refresh(s)
    PROVE  RowsInv'
<1> DEFINE x == session[s]
           y == session'[s]
           k == x.cand
           merged == Merged(x.mine[k], x.ev)
           agg == Aggregates(merged, ActiveIn(s, k))
<1>1. /\ Moves(s) /\ Unwritten /\ x.pc = "refresh" /\ Keeps(x, y) /\ k \in Keys /\ x.ev \in Evidence
      /\ y.cand = k /\ y.on = x.on /\ y.base = x.base /\ y.new = x.new /\ y.pc = "commit"
      /\ merged \in Rows
    BY RefreshEffect
<1>2. y.mine = [x.mine EXCEPT ![k] = agg]
    BY RefreshEffect
<1>3. x \in Session /\ ActiveIn(s, k) \in SUBSET Evidence /\ Ever(k) \in SUBSET Evidence
    BY <1>1, ActiveInType, EverType DEF Types
<1>4. x.mine[k] # NoRow /\ x.mine[k] \in Rows /\ MineAt(s, k)
    BY <1>1, <1>3 DEF RowsInv, Grounded, Session
<1>5. Backed(x.mine[k], Held(s, k)) /\ (candidates[k] # NoRow \/ k \in x.new)
    BY <1>4 DEF MineAt
<1>6. Held(s, k) \in SUBSET Evidence /\ x.ev \in Held(s, k) /\ Held(s, k)' = Held(s, k)
    BY <1>1, <1>3 DEF Held, Ever, Unwritten, Keeps
<1>7. Backed(merged, Held(s, k))
    BY <1>1, <1>4, <1>5, <1>6, BackedMerged
<1>8. Backed(agg, Held(s, k))
    BY <1>1, <1>3, <1>7, BackedAggregates
<1> HIDE DEF agg, merged
<1>9. y.mine[k] = agg /\ \A j \in Keys \ {k} : y.mine[j] = x.mine[j]
    BY <1>1, <1>2, <1>3 DEF Session
<1>10. MineAt(s, k)'
    BY <1>1, <1>5, <1>6, <1>8, <1>9 DEF MineAt, Unwritten
<1>11. \A j \in Keys \ {k} : MineAt(s, j)'
    BY <1>1, <1>9, SameRows DEF Unwritten, Keeps
<1>12. y.mine[k] # NoRow
    BY <1>8, <1>9, BackedGrows
<1>13. Grounded(s)'
    BY <1>1, <1>12 DEF Grounded, RowsInv, Unwritten, Keeps
<1>. QED BY <1>1, <1>10, <1>11, <1>13, QuietKeepsRows DEF Unwritten

LEMMA TakeOffKeepsRows ==
    ASSUME Types, Stages, RowsInv, NEW s \in Sessions, TakeOff(s)
    PROVE  RowsInv'
<1> DEFINE x == session[s]
           y == session'[s]
<1>0. x.cand \in Keys
    BY TakeOffEffect
<1>k. PICK k \in Keys : k = x.cand
    BY <1>0
<1> DEFINE S == ActiveIn(s, k) \ {x.ev}
           agg == Aggregates(candidates[k], S)
<1>1. /\ Moves(s) /\ Unwritten /\ x.pc = "off" /\ k \in Keys /\ x.cand = k /\ x.ev \in Evidence
      /\ y.ev = x.ev /\ y.on = x.on /\ y.new = x.new
      /\ \/ x.to = None /\ y.pc = "commit" /\ y.cand = k
         \/ x.to # None /\ x.to \in Keys /\ y.pc = "associate" /\ y.cand = x.to
    BY <1>k, TakeOffEffect
<1>2. y.base = [x.base EXCEPT ![k] = candidates[k]] /\ y.mine = [x.mine EXCEPT ![k] = agg]
    BY <1>k, TakeOffEffect
<1>3. /\ x \in Session /\ S \in SUBSET Evidence /\ candidates[k] \in Rows
      /\ x.to # None => x.to # k
    BY <1>1, ActiveInType DEF Types, Stages, Stage
<1>4. candidates[k] # NoRow /\ Backed(candidates[k], Ever(k))
    BY <1>1 DEF RowsInv, Grounded, RowAt
<1>5. Backed(agg, Ever(k))
    BY <1>3, <1>4, BackedAggregates
<1>6. Ever(k) \subseteq Held(s, k)'
    BY <1>1 DEF Held, Ever, Unwritten
<1> HIDE DEF agg, S
<1>7. y.mine[k] = agg /\ \A j \in Keys \ {k} : y.mine[j] = x.mine[j] /\ y.base[j] = x.base[j]
    BY <1>1, <1>2, <1>3 DEF Session
<1>8. MineAt(s, k)' /\ agg # NoRow
  <2>1. Backed(agg, Held(s, k)') /\ agg # NoRow
    BY <1>5, <1>6, BackedGrows
  <2>. QED BY <1>1, <1>4, <1>7, <2>1 DEF MineAt, Unwritten
<1>9. ASSUME NEW j \in Keys \ {k} PROVE MineAt(s, j)'
  <2>1. MineAt(s, j)
    BY <1>9 DEF RowsInv
  <2>2. Held(s, j) \subseteq Held(s, j)'
    BY <1>1 DEF Held, Ever, Unwritten
  <2>3. Backed(x.mine[j], Held(s, j)) => Backed(x.mine[j], Held(s, j)')
    BY <2>2, BackedGrows
  <2>. QED BY <1>1, <1>7, <2>1, <2>3 DEF MineAt, Unwritten
<1>10. Grounded(s)'
    BY <1>1, <1>3, <1>7, <1>8 DEF Grounded, RowsInv, Unwritten
<1>. QED BY <1>1, <1>8, <1>9, <1>10, QuietKeepsRows DEF Unwritten

LEMMA CommitMoves ==
    ASSUME Types, Stages, NEW s \in Sessions, Commit(s)
    PROVE  /\ \A l \in links' \ session[s].on :
                 \E d \in links : l.cand = d.cand /\ l.ev = d.ev /\ l.rule = d.rule
           /\ session[s].on \subseteq links' /\ links' \in SUBSET Link
           /\ \A d \in links :
                 \E l \in links' : l.cand = d.cand /\ l.ev = d.ev /\ l.rule = d.rule
<1>1. ASSUME NEW l \in links' \ session[s].on
      PROVE  \E d \in links : l.cand = d.cand /\ l.ev = d.ev /\ l.rule = d.rule
    BY CommitEffect
<1>2. ASSUME NEW d \in links
      PROVE  \E l \in links' : l.cand = d.cand /\ l.ev = d.ev /\ l.rule = d.rule
    BY CommitEffect
<1>3. session[s].on \subseteq links' /\ links' \in SUBSET Link
    BY CommitEffect
<1>. QED BY <1>1, <1>2, <1>3

\* What a commit adds to a candidate: nothing, or the evidence it has linked.
LEMMA CommitLinks ==
    ASSUME Types, Stages, NEW s \in Sessions, Commit(s), NEW k \in Keys
    PROVE  /\ Ever(k) \subseteq Ever(k)'
           /\ Ever(k)' \subseteq Ever(k) \cup {e \in {session[s].ev} : k = session[s].cand}
           /\ \A l \in session[s].on : l.cand = k => l.ev \in Ever(k)'
<1> DEFINE x == session[s]
<1>1. /\ \A l \in links' \ x.on : \E d \in links : l.cand = d.cand /\ l.ev = d.ev
      /\ x.on \subseteq links'
      /\ \A d \in links : \E l \in links' : l.cand = d.cand /\ l.ev = d.ev
    BY CommitMoves
<1>2. \A l \in x.on : l.ev = x.ev /\ l.cand = x.cand
    BY DEF Stages, Stage
<1>3. Ever(k) \subseteq Ever(k)'
    BY <1>1 DEF Ever
<1>4. ASSUME NEW e \in Ever(k)' PROVE e \in Ever(k) \cup {d \in {x.ev} : k = x.cand}
  <2>1. PICK l \in links' : l.cand = k /\ l.ev = e
    BY DEF Ever
  <2>2. CASE l \in x.on
    BY <1>2, <2>1, <2>2
  <2>3. CASE l \notin x.on
    BY <1>1, <2>1, <2>3 DEF Ever
  <2>. QED BY <2>2, <2>3
<1>5. \A l \in x.on : l.cand = k => l.ev \in Ever(k)'
    BY <1>1 DEF Ever
<1>. QED BY <1>3, <1>4, <1>5

\* What a session holds is in the candidate when it has committed.
LEMMA HeldIsCommitted ==
    ASSUME Types, Stages, RowsInv, NEW s \in Sessions, Commit(s), NEW k \in Keys
    PROVE  Held(s, k) \subseteq Ever(k)'
<1> DEFINE x == session[s]
<1>1. x.pc = "commit"
    BY CommitEffect
<1>2. PICK l \in links \cup x.on : l.cand = x.cand /\ l.ev = x.ev
    BY <1>1 DEF RowsInv, Grounded
<1>3. Ever(k) \subseteq Ever(k)' /\ \A m \in session[s].on : m.cand = k => m.ev \in Ever(k)'
    BY CommitLinks
<1>4. k = x.cand => x.ev \in Ever(k)'
  <2>1. CASE l \in links
    BY <1>2, <1>3, <2>1 DEF Ever
  <2>2. CASE l \in x.on
    BY <1>2, <1>3, <2>2
  <2>. QED BY <2>1, <2>2
<1>. QED BY <1>3, <1>4 DEF Held

LEMMA CommitKeepsRows ==
    ASSUME Types, Stages, RowsInv, NEW s \in Sessions, Commit(s)
    PROVE  RowsInv'
<1> DEFINE x == session[s]
<1>1. /\ Moves(s) /\ session'[s] = NoSession /\ x.pc = "commit" /\ x.cand \in Keys
      /\ \A k \in Keys :
            candidates'[k] = IF k \in x.new THEN x.mine[k] ELSE Written(candidates[k], x.base[k], x.mine[k])
    BY CommitEffect
<1>2. /\ \A l \in links' \ x.on : \E d \in links : l.cand = d.cand /\ l.ev = d.ev
      /\ links' \in SUBSET Link
    BY CommitMoves
<1>3. /\ x \in Session
      /\ \A l \in x.on : l.cand = x.cand
      /\ \A k \in x.new : k = x.cand
    BY DEF Types, Stages, Stage
<1>4. ASSUME NEW k \in Keys
      PROVE  /\ \/ candidates'[k] = NoRow /\ candidates[k] = NoRow
                \/ Backed(candidates'[k], Ever(k)') /\ candidates'[k] # NoRow
             /\ k = x.cand => candidates'[k] # NoRow
  <2>1. /\ candidates[k] \in Rows /\ x.mine[k] \in Rows /\ x.base[k] \in Rows
        /\ MineAt(s, k) /\ RowAt(k)
        /\ k = x.cand => x.mine[k] # NoRow
    BY <1>1, <1>3 DEF Types, Session, RowsInv, Grounded
  <2>2. Held(s, k) \subseteq Ever(k)' /\ Ever(k) \subseteq Ever(k)'
    BY HeldIsCommitted, CommitLinks
  <2>3. candidates[k] = NoRow \/ Backed(candidates[k], Ever(k)')
    BY <2>1, <2>2, BackedGrows DEF RowAt
  <2>4. CASE x.mine[k] = NoRow /\ x.base[k] = NoRow
    <3>1. k \notin x.new
      BY <1>3, <2>1, <2>4
    <3>2. candidates'[k] = candidates[k]
      BY <1>1, <2>1, <2>4, <3>1, WrittenSame, NoRowShape
    <3>. QED BY <2>1, <2>3, <2>4, <3>2, BackedGrows
  <2>5. CASE Backed(x.mine[k], Held(s, k)) /\ (candidates[k] # NoRow \/ k \in x.new)
    <3>1. Backed(x.mine[k], Ever(k)')
      BY <2>2, <2>5, BackedGrows
    <3>2. CASE k \in x.new
      <4>1. candidates'[k] = x.mine[k]
        BY <1>1, <3>2
      <4>. QED BY <3>1, <4>1, BackedGrows
    <3>3. CASE k \notin x.new
      <4>1. Backed(candidates[k], Ever(k)')
        BY <2>3, <2>5, <3>3
      <4>2. Backed(Written(candidates[k], x.base[k], x.mine[k]), Ever(k)')
        BY <2>1, <3>1, <4>1, BackedWritten
      <4>3. candidates'[k] = Written(candidates[k], x.base[k], x.mine[k])
        BY <1>1, <3>3
      <4>. QED BY <4>2, <4>3, BackedGrows
    <3>. QED BY <3>2, <3>3
  <2>. QED BY <2>1, <2>4, <2>5 DEF MineAt
<1>5. \A k \in Keys : RowAt(k)'
    BY <1>4 DEF RowAt
<1>6. \A l \in links' : candidates'[l.cand] # NoRow
  <2> SUFFICES ASSUME NEW l \in links' PROVE candidates'[l.cand] # NoRow
    OBVIOUS
  <2>0. l.cand \in Keys
    BY <1>2 DEF Link
  <2>1. CASE l \in x.on
    BY <1>1, <1>3, <1>4, <2>1
  <2>2. CASE l \notin x.on
    <3>1. candidates[l.cand] # NoRow
      BY <1>2, <2>2 DEF RowsInv
    <3>. QED BY <1>4, <2>0, <3>1
  <2>. QED BY <2>1, <2>2
<1>7. ASSUME NEW o \in Sessions PROVE Grounded(o)' /\ \A k \in Keys : MineAt(o, k)'
  <2>1. CASE o = s
    BY <1>1, <2>1, NoSessionRows
  <2>2. CASE o # s
    <3>1. session'[o] = session[o]
      BY <1>1, <2>2 DEF Moves
    <3>0. Stage(session[o]) /\ session[o] \in Session
      BY DEF Types, Stages
    <3>2. Grounded(o)'
      <4>1. session[o].pc = "off" => session[o].cand \in Keys
        BY <3>0 DEF Stage
      <4>2. session[o].pc = "off" => candidates'[session[o].cand] # NoRow
        BY <1>4, <4>1 DEF RowsInv, Grounded
      <4>3. session[o].pc \in {"off", "refresh", "commit"} =>
               \E l \in links' \cup session[o].on : l.cand = session[o].cand /\ l.ev = session[o].ev
        <5>1. \A d \in links : \E l \in links' : l.cand = d.cand /\ l.ev = d.ev
          BY CommitEffect
        <5>. QED BY <5>1 DEF RowsInv, Grounded
      <4>. QED BY <3>1, <4>2, <4>3 DEF RowsInv, Grounded
    <3>3. ASSUME NEW k \in Keys PROVE MineAt(o, k)'
      <4>1. MineAt(o, k)
        BY DEF RowsInv
      <4>2. Held(o, k) \subseteq Held(o, k)'
        BY <3>1, CommitLinks DEF Held
      <4>3. Backed(session[o].mine[k], Held(o, k)) => Backed(session[o].mine[k], Held(o, k)')
        BY <4>2, BackedGrows
      <4>. QED BY <1>4, <3>1, <4>1, <4>3 DEF MineAt
    <3>. QED BY <3>2, <3>3
  <2>. QED BY <2>1, <2>2
<1>. QED BY <1>5, <1>6, <1>7 DEF RowsInv

LEMMA NextRows ==
    ASSUME Types, Stages, RowsInv, Next
    PROVE  RowsInv'
<1>1. PICK s \in Sessions :
        \/ \E e \in Evidence : Process(s, e)
        \/ \E k \in Keys, e \in Evidence : Deactivate(s, k, e)
        \/ \E k, to \in Keys, e \in Evidence : Regroup(s, k, to, e)
        \/ MatchExisting(s)
        \/ CreateOrGet(s)
        \/ Associate(s)
        \/ AddLink(s)
        \/ Refresh(s)
        \/ TakeOff(s)
        \/ Commit(s)
        \/ Abort(s)
    BY DEF Next
<1>2. CASE Abort(s)
    BY <1>2, AbortEffect, NoSessionRows, QuietKeepsRows DEF Unwritten
<1>. QED
  BY <1>1, <1>2, BeginKeepsRows, MatchKeepsRows, CreateKeepsRows, AssociateKeepsRows,
     AddLinkKeepsRows, RefreshKeepsRows, TakeOffKeepsRows, CommitKeepsRows

LEMMA InitRows ==
    ASSUME Init
    PROVE  RowsInv
<1>1. \A s \in Sessions : session[s] = NoSession
    BY DEF Init
<1>2. \A s \in Sessions : Grounded(s) /\ \A k \in Keys : MineAt(s, k)
    BY <1>1, NoSessionShape DEF Grounded, MineAt, NoRows
<1>. QED BY <1>2 DEF Init, RowsInv, RowAt

LEMMA StutterRows ==
    ASSUME RowsInv, UNCHANGED vars
    PROVE  RowsInv'
<1>1. UNCHANGED <<candidates, links, session>>
    BY DEF vars
<1>2. \A k \in Keys : RowAt(k)'
    BY <1>1 DEF RowsInv, RowAt, Ever
<1>3. \A l \in links' : candidates'[l.cand] # NoRow
    BY <1>1 DEF RowsInv
<1>4. \A s \in Sessions : Grounded(s)'
    BY <1>1 DEF RowsInv, Grounded
<1>5. ASSUME NEW s \in Sessions, NEW k \in Keys PROVE MineAt(s, k)'
  <2>1. Held(s, k)' = Held(s, k)
    BY <1>1 DEF Held, Ever
  <2>. QED BY <1>1, <2>1 DEF RowsInv, MineAt
<1>. QED BY <1>2, <1>3, <1>4, <1>5 DEF RowsInv

LEMMA RowsInvariant == Spec => [](Types /\ Stages /\ RowsInv)
<1>1. Init => RowsInv
    BY InitRows
<1>2. (Types /\ Stages) /\ RowsInv /\ [Next]_vars => RowsInv'
    BY NextRows, StutterRows
<1>. QED BY <1>1, <1>2, TypesInvariant, PTL DEF Spec

-----------------------------------------------------------------------------
(* Matches are explained.                                                  *)

\* The evidence linked to candidate k before evidence e was linked to it by rule r.
Reasons(k, e, r) == {d.ev : d \in {d \in links : d.cand = k /\ ~(d.ev = e /\ d.rule = r)}}

Shares(B, e, kind) == \E d \in B : kind \in Kinds(Signatures(e) \cap Signatures(d))

Explains(B, e, r) ==
    /\ r = "official_identity" => Shares(B, e, "official")
    /\ r = "canonical_url" => Shares(B, e, "url")
    /\ r = "provider_external_id" => Shares(B, e, "provider")
    /\ r = "entity_title_time" =>
           /\ \E d \in B : Title(d) = Title(e)
           /\ \E d \in B : Facts[d].entities \cap Facts[e].entities # {}
           /\ \E d \in B : Facts[d].time <= Facts[e].time + Window
           /\ \E d \in B : Facts[e].time <= Facts[d].time + Window
    /\ r = "approved_hash" => e \in B

Explained(k, e, r) == Explains(Reasons(k, e, r), e, r)

ExplainedInv ==
    /\ \A l \in links : Explained(l.cand, l.ev, l.rule)
    /\ \A s \in Sessions :
          LET x == session[s] IN
          /\ x.pc \in {"create", "associate", "link"} => Explained(x.cand, x.ev, x.rule)
          /\ \A l \in x.on : Explained(l.cand, l.ev, l.rule)

LEMMA ExplainsMore ==
    ASSUME NEW B, NEW C, B \subseteq C, NEW e, NEW r, Explains(B, e, r)
    PROVE  Explains(C, e, r)
  BY DEF Explains, Shares

LEMMA ByItself ==
    ASSUME NEW k, NEW e, NEW r, r \in {"new_candidate", "ambiguous_new_candidate", "reviewed_regroup"}
    PROVE  Explained(k, e, r)
  BY DEF Explained, Explains

\* The best match of evidence among the rows is explained by what the row has come from.
LEMMA RankExplains ==
    ASSUME Types, NEW e \in Evidence, NEW row \in Rows, NEW B \in SUBSET Evidence, Backed(row, B),
           NEW r \in 1..5, Rank(e, row) = r
    PROVE  Explains(B, e, Rules[r])
<1> DEFINE sig == Signatures(e)
           both == sig \cap row.signatures
<1>0. \A g \in both : \E d \in B : g \in Signatures(e) \cap Signatures(d)
    BY DEF Backed
<1>1. \A kind \in Kinds(both) : Shares(B, e, kind)
  <2> SUFFICES ASSUME NEW kind \in Kinds(both) PROVE Shares(B, e, kind)
    OBVIOUS
  <2>1. PICK g \in both : g[1] = kind
    BY DEF Kinds
  <2>2. PICK d \in B : g \in Signatures(e) \cap Signatures(d)
    BY <1>0
  <2>. QED BY <2>1, <2>2 DEF Shares, Kinds
<1>2. CASE r \in {1, 2, 3}
  <2>1. /\ r = 1 => "official" \in Kinds(both)
        /\ r = 2 => "url" \in Kinds(both)
        /\ r = 3 => "provider" \in Kinds(both)
    BY RankType
  <2>2. /\ r = 1 => Rules[r] = "official_identity"
        /\ r = 2 => Rules[r] = "canonical_url"
        /\ r = 3 => Rules[r] = "provider_external_id"
    BY DEF Rules
  <2> HIDE DEF both
  <2>. QED BY <1>1, <1>2, <2>1, <2>2 DEF Explains
<1>3. CASE r = 4
  <2>0. SameStory(e, row)
    BY <1>3, RankType
  <2>1. SameStory(e, row) /\ Rules[r] = "entity_title_time"
    BY <1>3, <2>0 DEF Rules
  <2>2. \E d \in B : Title(d) = Title(e)
    BY <2>1 DEF SameStory, Backed
  <2>3. \E d \in B : Facts[d].entities \cap Facts[e].entities # {}
    BY <2>1 DEF SameStory, Backed
  <2>4. Window \in Nat /\ Facts[e].time \in Nat /\ row.first \in Nat /\ row.latest \in Nat
        /\ \A d \in B : Facts[d].time \in Nat
    BY EventAssumption DEF Rows
  <2>5. PICK d \in B : Facts[d].time <= row.first
    BY DEF Backed
  <2>6. PICK c \in B : Facts[c].time >= row.latest
    BY DEF Backed
  <2>7. Facts[e].time + Window >= row.first /\ Facts[e].time <= row.latest + Window
    BY <2>1 DEF SameStory
  <2>8. Facts[d].time <= Facts[e].time + Window
    BY <2>4, <2>5, <2>7
  <2>9. Facts[e].time <= Facts[c].time + Window
    BY <2>4, <2>6, <2>7
  <2>. QED BY <2>1, <2>2, <2>3, <2>8, <2>9 DEF Explains
<1>4. CASE r = 5
  <2>1. "hash" \in Kinds(both) /\ Rules[r] = "approved_hash"
    BY <1>4, RankType DEF Rules
  <2>2. PICK g \in both : g[1] = "hash"
    BY <2>1 DEF Kinds
  <2>3. g = <<"hash", e>>
    BY <2>2 DEF Signatures, EvidenceSignatures
  <2>4. PICK d \in B : <<"hash", e>> \in Signatures(d)
    BY <1>0, <2>3
  <2>5. d = e
    BY <2>4, SignatureKinds
  <2>. QED BY <2>1, <2>4, <2>5 DEF Explains
<1>. QED BY <1>2, <1>3, <1>4

LEMMA MatchExplains ==
    ASSUME Types, RowsInv, ExplainedInv, NEW e \in Evidence, NEW k \in Keys, candidates[k] # NoRow,
           NEW r \in 1..5, Rank(e, candidates[k]) = r
    PROVE  Explained(k, e, Rules[r])
<1>1. Backed(candidates[k], Ever(k)) /\ candidates[k] \in Rows /\ Ever(k) \in SUBSET Evidence
    BY EverType DEF RowsInv, RowAt, Types
<1>2. Explains(Ever(k), e, Rules[r])
    BY <1>1, RankExplains
<1>3. CASE \E d \in links : d.cand = k /\ d.ev = e /\ d.rule = Rules[r]
    BY <1>3 DEF ExplainedInv
<1>4. CASE ~\E d \in links : d.cand = k /\ d.ev = e /\ d.rule = Rules[r]
  <2>1. Ever(k) \subseteq Reasons(k, e, Rules[r])
    BY <1>4 DEF Ever, Reasons
  <2>. QED BY <1>2, <2>1, ExplainsMore DEF Explained
<1>. QED BY <1>3, <1>4

\* A step that commits nothing.
LEMMA QuietKeepsExplained ==
    ASSUME Types, ExplainedInv, NEW s \in Sessions, Moves(s), UNCHANGED links,
           session'[s].pc \in {"create", "associate", "link"} =>
               Explained(session'[s].cand, session'[s].ev, session'[s].rule),
           \A l \in session'[s].on : Explained(l.cand, l.ev, l.rule)
    PROVE  ExplainedInv'
<1>1. \A k, e, r : Explained(k, e, r)' <=> Explained(k, e, r)
    BY DEF Explained, Reasons
<1>2. \A k, e, r : Explained(k, e, r) => Explained(k, e, r)'
    BY <1>1
<1>3. ASSUME NEW o \in Sessions, o # s PROVE session'[o] = session[o]
    BY <1>3 DEF Moves
<1>. QED BY <1>2, <1>3 DEF ExplainedInv

LEMMA NextExplained ==
    ASSUME Types, Stages, RowsInv, ExplainedInv, Next
    PROVE  ExplainedInv'
<1>1. PICK s \in Sessions :
        \/ \E e \in Evidence : Process(s, e)
        \/ \E k \in Keys, e \in Evidence : Deactivate(s, k, e)
        \/ \E k, to \in Keys, e \in Evidence : Regroup(s, k, to, e)
        \/ MatchExisting(s)
        \/ CreateOrGet(s)
        \/ Associate(s)
        \/ AddLink(s)
        \/ Refresh(s)
        \/ TakeOff(s)
        \/ Commit(s)
        \/ Abort(s)
    BY DEF Next
<1> DEFINE x == session[s]
           y == session'[s]
<1>x. x \in Session /\ Stage(x)
    BY DEF Types, Stages
<1>i. /\ x.pc \in {"create", "associate", "link"} => Explained(x.cand, x.ev, x.rule)
      /\ \A l \in x.on : Explained(l.cand, l.ev, l.rule)
    BY DEF ExplainedInv
<1>2. CASE \E e \in Evidence : Process(s, e)
  <2>1. PICK e \in Evidence : Process(s, e)
    BY <1>2
  <2>2. Moves(s) /\ UNCHANGED links /\ y.pc = "match" /\ y.on = {}
    BY <2>1, ProcessEffect
  <2>. QED BY <2>2, QuietKeepsExplained
<1>3. CASE \E k \in Keys, e \in Evidence : Deactivate(s, k, e)
  <2>1. PICK k \in Keys, e \in Evidence : Deactivate(s, k, e)
    BY <1>3
  <2>2. Moves(s) /\ UNCHANGED links /\ y.pc = "off" /\ y.on = {}
    BY <2>1, DeactivateEffect
  <2>. QED BY <2>2, QuietKeepsExplained
<1>4. CASE \E k, to \in Keys, e \in Evidence : Regroup(s, k, to, e)
  <2>1. PICK k \in Keys, to \in Keys, e \in Evidence : Regroup(s, k, to, e)
    BY <1>4
  <2>2. Moves(s) /\ UNCHANGED links /\ y.pc = "off" /\ y.on = {}
    BY <2>1, RegroupEffect
  <2>. QED BY <2>2, QuietKeepsExplained
<1>5. CASE MatchExisting(s)
  <2>1. /\ Moves(s) /\ Unwritten /\ x.pc = "match" /\ Keeps(x, y) /\ y.on = x.on /\ y.cand \in Keys
    BY <1>5, MatchExistingEffect
  <2>2. \/ y.pc = "create" /\ y.rule \in {"new_candidate", "ambiguous_new_candidate"}
        \/ /\ candidates[y.cand] # NoRow
           /\ Rank(x.ev, candidates[y.cand]) \in 1..5
           /\ y.rule = Rules[Rank(x.ev, candidates[y.cand])]
    BY <1>5, MatchExistingEffect
  <2>3. x.ev \in Evidence /\ y.ev = x.ev
    BY <1>x, <2>1 DEF Stage, Keeps
  <2>4. Explained(y.cand, y.ev, y.rule)
    BY <2>1, <2>2, <2>3, ByItself, MatchExplains
  <2>. QED BY <1>i, <2>1, <2>4, QuietKeepsExplained DEF Unwritten
<1>6. CASE CreateOrGet(s)
  <2>1. /\ Moves(s) /\ Unwritten /\ x.pc = "create" /\ Keeps(x, y) /\ y.on = x.on
        /\ y.cand = x.cand /\ y.rule = x.rule
    BY <1>6, CreateOrGetEffect
  <2>. QED BY <1>i, <2>1, QuietKeepsExplained DEF Unwritten, Keeps
<1>7. CASE Associate(s)
  <2>1. /\ Moves(s) /\ Unwritten /\ x.pc = "associate"
        /\ \/ y = NoSession
           \/ Keeps(x, y) /\ y.cand = x.cand /\ y.on = x.on /\ y.rule = x.rule
    BY <1>7, AssociateEffect
  <2>. QED BY <1>i, <2>1, NoSessionShape, QuietKeepsExplained DEF Unwritten, Keeps
<1>8. CASE AddLink(s)
  <2>1. /\ Moves(s) /\ Unwritten /\ x.pc = "link"
        /\ \/ y = NoSession
           \/ y.pc = "refresh" /\ y.on = {TheLink(x)}
    BY <1>8, AddLinkEffect
  <2>2. TheLink(x).cand = x.cand /\ TheLink(x).ev = x.ev /\ TheLink(x).rule = x.rule
    BY DEF TheLink
  <2>. QED BY <1>i, <2>1, <2>2, NoSessionShape, QuietKeepsExplained DEF Unwritten
<1>9. CASE Refresh(s)
  <2>1. /\ Moves(s) /\ Unwritten /\ y.pc = "commit" /\ y.on = x.on
    BY <1>9, RefreshEffect
  <2>. QED BY <1>i, <2>1, QuietKeepsExplained DEF Unwritten
<1>10. CASE TakeOff(s)
  <2>1. /\ Moves(s) /\ Unwritten /\ x.pc = "off" /\ y.on = x.on /\ y.rule = x.rule
        /\ \/ y.pc = "commit"
           \/ x.to # None /\ y.pc = "associate"
    BY <1>10, TakeOffEffect
  <2>2. y.pc = "associate" => Explained(y.cand, y.ev, y.rule)
    BY <1>x, <2>1, ByItself DEF Stage
  <2>. QED BY <1>i, <2>1, <2>2, QuietKeepsExplained DEF Unwritten
<1>11. CASE Commit(s)
  <2>1. /\ \A l \in links' \ x.on : \E d \in links : l.cand = d.cand /\ l.ev = d.ev /\ l.rule = d.rule
        /\ \A d \in links : \E l \in links' : l.cand = d.cand /\ l.ev = d.ev /\ l.rule = d.rule
    BY <1>11, CommitMoves
  <2>2. Moves(s) /\ y = NoSession
    BY <1>11, CommitEffect
  <2>3. ASSUME NEW k, NEW e, NEW r, Explained(k, e, r) PROVE Explained(k, e, r)'
    <3>1. Reasons(k, e, r) \subseteq Reasons(k, e, r)'
      BY <2>1 DEF Reasons
    <3>2. Explains(Reasons(k, e, r)', e, r)
      BY <2>3, <3>1, ExplainsMore DEF Explained
    <3>. QED BY <3>2 DEF Explained, Explains, Shares
  <2>4. \A l \in links' : Explained(l.cand, l.ev, l.rule)
    BY <1>i, <2>1 DEF ExplainedInv
  <2>5. ASSUME NEW o \in Sessions, o # s PROVE session'[o] = session[o]
    BY <2>2, <2>5 DEF Moves
  <2>6. \A o \in Sessions :
          LET z == session'[o] IN
          /\ z.pc \in {"create", "associate", "link"} => Explained(z.cand, z.ev, z.rule)
          /\ \A l \in z.on : Explained(l.cand, l.ev, l.rule)
    BY <2>2, <2>5, NoSessionShape DEF ExplainedInv
  <2>. QED BY <2>3, <2>4, <2>6 DEF ExplainedInv
<1>12. CASE Abort(s)
    BY <1>12, AbortEffect, NoSessionShape, QuietKeepsExplained DEF Unwritten
<1>. QED BY <1>1, <1>2, <1>3, <1>4, <1>5, <1>6, <1>7, <1>8, <1>9, <1>10, <1>11, <1>12

LEMMA StutterExplained ==
    ASSUME ExplainedInv, UNCHANGED vars
    PROVE  ExplainedInv'
  BY DEF ExplainedInv, Explained, Reasons, vars

LEMMA ExplainedIsExplained ==
    ASSUME Types, ExplainedInv
    PROVE  MatchesAreExplained
<1> SUFFICES ASSUME NEW l \in links
             PROVE
        LET e == l.ev
            before == {d.ev : d \in {d \in links \ {l} : d.cand = l.cand}}
            shares(kind) == \E d \in before : kind \in Kinds(Signatures(e) \cap Signatures(d))
        IN
        CASE l.rule = "official_identity" -> shares("official")
          [] l.rule = "canonical_url" -> shares("url")
          [] l.rule = "provider_external_id" -> shares("provider")
          [] l.rule = "entity_title_time" ->
               /\ \E d \in before : Title(d) = Title(e)
               /\ \E d \in before : Facts[d].entities \cap Facts[e].entities # {}
               /\ \E d \in before : Facts[d].time <= Facts[e].time + Window
               /\ \E d \in before : Facts[e].time <= Facts[d].time + Window
          [] l.rule = "approved_hash" -> e \in before
          [] OTHER -> TRUE
    BY DEF MatchesAreExplained
<1> DEFINE before == {d.ev : d \in {d \in links \ {l} : d.cand = l.cand}}
<1>1. Reasons(l.cand, l.ev, l.rule) \subseteq before
    BY DEF Reasons
<1>2. Explains(before, l.ev, l.rule)
    BY <1>1, ExplainsMore DEF ExplainedInv, Explained
<1> HIDE DEF before
<1>3. CASE l.rule = "official_identity"
    BY <1>2, <1>3 DEF Explains, Shares, before
<1>4. CASE l.rule = "canonical_url"
    BY <1>2, <1>4 DEF Explains, Shares, before
<1>5. CASE l.rule = "provider_external_id"
    BY <1>2, <1>5 DEF Explains, Shares, before
<1>6. CASE l.rule = "entity_title_time"
    BY <1>2, <1>6 DEF Explains, before
<1>7. CASE l.rule = "approved_hash"
    BY <1>2, <1>7 DEF Explains, before
<1>8. CASE l.rule \notin {"official_identity", "canonical_url", "provider_external_id", "entity_title_time",
                          "approved_hash"}
    BY <1>8
<1>. QED BY <1>3, <1>4, <1>5, <1>6, <1>7, <1>8

\* No race merges evidence that no rule explains.
THEOREM MatchesHaveReasons == Spec => []MatchesAreExplained
<1>1. Init => ExplainedInv
    BY NoSessionShape DEF Init, ExplainedInv
<1>2. (Types /\ Stages /\ RowsInv) /\ ExplainedInv /\ [Next]_vars => ExplainedInv'
    BY NextExplained, StutterExplained
<1>3. Types /\ ExplainedInv => MatchesAreExplained
    BY ExplainedIsExplained
<1>. QED BY <1>1, <1>2, <1>3, RowsInvariant, PTL DEF Spec

-----------------------------------------------------------------------------
(* Review, one transaction at a time.                                      *)

LEMMA RowsEqual ==
    ASSUME NEW a \in Rows, NEW b \in Rows,
           a.signatures = b.signatures, a.titles = b.titles, a.entities = b.entities,
           a.first = b.first, a.latest = b.latest, a.count = b.count, a.sources = b.sources,
           a.status = b.status, a.score = b.score
    PROVE  a = b
  BY DEF Rows

\* The row has all that the evidence brings.
Covers(row, e) ==
    /\ Signatures(e) \subseteq row.signatures
    /\ {Title(e)} \ {None} \subseteq row.titles
    /\ Facts[e].entities \subseteq row.entities
    /\ row.first <= Facts[e].time
    /\ row.latest >= Facts[e].time

LEMMA CoversMerged ==
    ASSUME NEW row \in Rows, NEW e \in Evidence
    PROVE  /\ Covers(row, e) => row = Merged(row, e)
           /\ Covers(Merged(row, e), e)
           /\ \A d \in Evidence : Covers(row, d) => Covers(Merged(row, e), d)
<1> DEFINE m == Merged(row, e)
<1>1. /\ m \in Rows
      /\ m.signatures = row.signatures \cup Signatures(e)
      /\ m.titles = row.titles \cup ({Title(e)} \ {None})
      /\ m.entities = row.entities \cup Facts[e].entities
      /\ m.first = IF Facts[e].time < row.first THEN Facts[e].time ELSE row.first
      /\ m.latest = IF Facts[e].time > row.latest THEN Facts[e].time ELSE row.latest
      /\ m.count = row.count /\ m.sources = row.sources /\ m.status = row.status
      /\ m.score = row.score
    BY MergedShape
<1> HIDE DEF m
<1>2. row.first \in Nat /\ row.latest \in Nat /\ \A d \in Evidence : Facts[d].time \in Nat
    BY EventAssumption DEF Rows
<1>3. Covers(row, e) => row = m
  <2> SUFFICES ASSUME Covers(row, e) PROVE row = m
    OBVIOUS
  <2>1. m.signatures = row.signatures /\ m.titles = row.titles /\ m.entities = row.entities
    BY <1>1 DEF Covers
  <2>2. m.first = row.first /\ m.latest = row.latest
    BY <1>1, <1>2 DEF Covers
  <2>. QED BY <1>1, <2>1, <2>2, RowsEqual
<1>4. m.first <= row.first /\ m.first <= Facts[e].time /\ m.latest >= row.latest /\ m.latest >= Facts[e].time
    BY <1>1, <1>2
<1>5. m.first \in Nat /\ m.latest \in Nat
    BY <1>1 DEF Rows
<1>6. Covers(m, e)
    BY <1>1, <1>4 DEF Covers
<1>7. ASSUME NEW d \in Evidence, Covers(row, d) PROVE Covers(m, d)
  <2>1. m.first <= Facts[d].time /\ m.latest >= Facts[d].time
    BY <1>2, <1>4, <1>5, <1>7 DEF Covers
  <2>. QED BY <1>1, <1>7, <2>1 DEF Covers
<1>. QED BY <1>3, <1>6, <1>7 DEF m

LEMMA CoversAggregates ==
    ASSUME NEW row \in Rows, NEW S \in SUBSET Evidence
    PROVE  LET agg == Aggregates(row, S) IN
           /\ agg = Aggregates(agg, S)
           /\ \A d \in Evidence : Covers(row, d) => Covers(agg, d)
<1> DEFINE agg == Aggregates(row, S)
           again == Aggregates(agg, S)
<1>1. /\ agg \in Rows
      /\ agg.signatures = row.signatures /\ agg.titles = row.titles
      /\ agg.entities = row.entities /\ agg.first = row.first /\ agg.latest = row.latest
      /\ agg.count = Cardinality(S) /\ agg.sources = Cardinality(Sources(S))
      /\ agg.status = IF S = {} THEN "rejected"
                      ELSE IF row.status = "rejected" THEN "candidate" ELSE row.status
      /\ agg.score = ScoreOf(S)
    BY AggregatesShape
<1> HIDE DEF agg
<1>2. /\ again \in Rows
      /\ again.signatures = agg.signatures /\ again.titles = agg.titles
      /\ again.entities = agg.entities /\ again.first = agg.first /\ again.latest = agg.latest
      /\ again.count = Cardinality(S) /\ again.sources = Cardinality(Sources(S))
      /\ again.status = IF S = {} THEN "rejected"
                        ELSE IF agg.status = "rejected" THEN "candidate" ELSE agg.status
      /\ again.score = ScoreOf(S)
    BY <1>1, AggregatesShape
<1> HIDE DEF again
<1>3. again.status = agg.status
    BY <1>1, <1>2
<1>4. agg = again
    BY <1>1, <1>2, <1>3, RowsEqual
<1>5. \A d \in Evidence : Covers(row, d) => Covers(agg, d)
    BY <1>1 DEF Covers
<1>. QED BY <1>4, <1>5 DEF agg, again

\* The row is in order with active evidence A and E all it has ever held.
Ordered(row, A, E) == row = Aggregates(row, A) /\ \A e \in E : Covers(row, e)

EverIn(s, k) == Ever(k) \cup {l.ev : l \in {l \in session[s].on : l.cand = k}}

\* What the only session with a transaction will leave.
LeavesOrder(s) ==
    LET x == session[s] IN
    \A k \in Keys :
        /\ k \in x.new \/ x.mine[k] = NoRow \/ x.base[k] = candidates[k]
        /\ x.mine[k] = NoRow => (\A p \in x.off : p[1] # k) /\ (\A l \in x.on : l.cand # k)
        /\ x.mine[k] # NoRow /\ ~(k = x.cand /\ x.pc \in {"associate", "link", "refresh"}) =>
              Ordered(x.mine[k], ActiveIn(s, k), EverIn(s, k))
        /\ k = x.cand /\ x.pc \in {"associate", "link", "refresh"} =>
              \A e \in Ever(k) : Covers(x.mine[k], e)

Solo == \A s, o \in Sessions : session[s].pc # "idle" /\ session[o].pc # "idle" => s = o

InOrder(k) == candidates[k] # NoRow => Ordered(candidates[k], Active(k), Ever(k))

OrderInv ==
    ~overlapped => /\ Solo
                   /\ \A k \in Keys : InOrder(k)
                   /\ \A s \in Sessions : LeavesOrder(s)

\* A step that commits nothing.
LEMMA QuietKeepsOrder ==
    ASSUME Types, Stages, NEW s \in Sessions, Moves(s), UNCHANGED <<candidates, links>>,
           \A k \in Keys : InOrder(k), \A o \in Sessions : LeavesOrder(o), LeavesOrder(s)',
           \A o \in Others(s) : session[o].pc = "idle"
    PROVE  /\ Solo'
           /\ \A k \in Keys : InOrder(k)'
           /\ \A o \in Sessions : LeavesOrder(o)'
<1>1. \A o \in Sessions : o # s => session'[o] = session[o] /\ session[o].pc = "idle"
    BY DEF Moves, Others
<1>2. Solo'
    BY <1>1 DEF Solo
<1>3. \A k \in Keys : InOrder(k)'
    BY DEF InOrder, Active, Ever
<1>4. ASSUME NEW o \in Sessions, o # s PROVE LeavesOrder(o)'
  <2>1. session'[o] = session[o]
    BY <1>1, <1>4
  <2>2. \A k \in Keys : ActiveIn(o, k)' = ActiveIn(o, k) /\ EverIn(o, k)' = EverIn(o, k) /\ Ever(k)' = Ever(k)
    BY <2>1 DEF ActiveIn, EverIn, Ever, Visible
  <2>. QED BY <2>1, <2>2 DEF LeavesOrder
<1>. QED BY <1>2, <1>3, <1>4

LEMMA IdleLeavesOrder ==
    ASSUME NEW s \in Sessions, session'[s] = NoSession
    PROVE  LeavesOrder(s)'
  BY NoSessionShape DEF LeavesOrder, NoRows

\* A session that is not idle is alone while no two transactions overlap.
LEMMA SoloOthers ==
    ASSUME Solo, NEW s \in Sessions, session[s].pc # "idle"
    PROVE  \A o \in Others(s) : session[o].pc = "idle"
  BY DEF Solo, Others

\* A transaction that has changed no link sees what is committed.
LEMMA SeesCommitted ==
    ASSUME NEW s \in Sessions, session[s].on = {}, session[s].off = {}, NEW k \in Keys
    PROVE  ActiveIn(s, k) = Active(k) /\ EverIn(s, k) = Ever(k)
  BY DEF ActiveIn, Active, EverIn, Ever, Visible

\* The copies of a session that a statement leaves alone.
LeavesAt(s, k) ==
    LET x == session[s] IN
        /\ k \in x.new \/ x.mine[k] = NoRow \/ x.base[k] = candidates[k]
        /\ x.mine[k] = NoRow => (\A p \in x.off : p[1] # k) /\ (\A l \in x.on : l.cand # k)
        /\ x.mine[k] # NoRow /\ ~(k = x.cand /\ x.pc \in {"associate", "link", "refresh"}) =>
              Ordered(x.mine[k], ActiveIn(s, k), EverIn(s, k))
        /\ k = x.cand /\ x.pc \in {"associate", "link", "refresh"} =>
              \A e \in Ever(k) : Covers(x.mine[k], e)

LEMMA LeavesParts ==
    ASSUME NEW s \in Sessions
    PROVE  LeavesOrder(s) <=> \A k \in Keys : LeavesAt(s, k)
  BY DEF LeavesOrder, LeavesAt

LEMMA SameLeaves ==
    ASSUME NEW s \in Sessions, UNCHANGED <<candidates, links>>, NEW k \in Keys, LeavesAt(s, k),
           session'[s].mine[k] = session[s].mine[k], session'[s].base[k] = session[s].base[k],
           session[s].new \subseteq session'[s].new,
           \A p : p[1] = k => (p \in session'[s].off <=> p \in session[s].off),
           \A l : l.cand = k => (l \in session'[s].on <=> l \in session[s].on),
           k # session'[s].cand, k # session[s].cand \/ session[s].pc \notin {"associate", "link", "refresh"}
    PROVE  LeavesAt(s, k)'
<1>1. {l \in Visible(s)' : l.cand = k} = {l \in Visible(s) : l.cand = k}
    BY DEF Visible
<1>2. ActiveIn(s, k)' = ActiveIn(s, k) /\ EverIn(s, k)' = EverIn(s, k) /\ Ever(k)' = Ever(k)
    BY <1>1 DEF ActiveIn, EverIn, Ever
<1>. QED BY <1>2 DEF LeavesAt

LEMMA SeesCommittedNext ==
    ASSUME NEW s \in Sessions, session'[s].on = {}, session'[s].off = {}, UNCHANGED links, NEW k \in Keys
    PROVE  ActiveIn(s, k)' = Active(k) /\ EverIn(s, k)' = Ever(k) /\ Ever(k)' = Ever(k)
  BY DEF ActiveIn, Active, EverIn, Ever, Visible

LEMMA LeavesPartsNext ==
    ASSUME NEW s \in Sessions, \A k \in Keys : LeavesAt(s, k)'
    PROVE  LeavesOrder(s)'
  BY DEF LeavesOrder, LeavesAt

LEMMA RegroupLeaves ==
    ASSUME Types, Stages, NEW s \in Sessions, \A k \in Keys : InOrder(k),
           NEW j \in Keys, NEW to \in Keys, NEW e \in Evidence, Regroup(s, j, to, e)
    PROVE  LeavesOrder(s)'
<1> DEFINE y == session'[s]
<1>1. /\ UNCHANGED <<candidates, links>> /\ y.pc = "off" /\ y.mine = y.base
      /\ \A k \in Keys : y.base[k] = IF k = to THEN candidates[to] ELSE NoRow
      /\ y.on = {} /\ y.off = {}
    BY RegroupEffect
<1>2. ASSUME NEW k \in Keys PROVE LeavesAt(s, k)'
  <2>1. ActiveIn(s, k)' = Active(k) /\ EverIn(s, k)' = Ever(k)
    BY <1>1, SeesCommittedNext
  <2>2. y.mine[k] # NoRow => Ordered(y.mine[k], ActiveIn(s, k)', EverIn(s, k)')
    BY <1>1, <2>1 DEF InOrder
  <2>. QED BY <1>1, <2>2 DEF LeavesAt
<1>. QED BY <1>2, LeavesPartsNext

LEMMA MatchLeaves ==
    ASSUME Types, Stages, NEW s \in Sessions, \A k \in Keys : InOrder(k), MatchExisting(s)
    PROVE  LeavesOrder(s)'
<1> DEFINE x == session[s]
           y == session'[s]
<1>0. y.cand \in Keys
    BY MatchExistingEffect
<1>k. PICK c \in Keys : c = y.cand
    BY <1>0
<1>1. /\ Unwritten /\ x.pc = "match" /\ Keeps(x, y) /\ y.on = x.on /\ y.cand = c
      /\ \/ y.pc = "create"
         \/ y.pc = "associate" /\ candidates[c] # NoRow
    BY <1>k, MatchExistingEffect
<1>2. y.base = [x.base EXCEPT ![c] = candidates[c]] /\ y.mine = [x.mine EXCEPT ![c] = candidates[c]]
    BY <1>k, MatchExistingEffect
<1>3. x.base = NoRows /\ x.mine = NoRows /\ x.on = {} /\ x.off = {}
    BY <1>1 DEF Stages, Stage
<1>4. /\ y.base[c] = candidates[c] /\ y.mine[c] = candidates[c]
      /\ \A k \in Keys \ {c} : y.base[k] = NoRow /\ y.mine[k] = NoRow
    BY <1>2, <1>3 DEF NoRows
<1>5. ASSUME NEW k \in Keys PROVE LeavesAt(s, k)'
  <2>1. ActiveIn(s, k)' = Active(k) /\ EverIn(s, k)' = Ever(k) /\ Ever(k)' = Ever(k)
    BY <1>1, <1>3, SeesCommittedNext DEF Unwritten, Keeps
  <2>2. y.mine[k] # NoRow => Ordered(y.mine[k], ActiveIn(s, k)', EverIn(s, k)')
    BY <1>4, <2>1 DEF InOrder
  <2>3. k = c /\ y.pc = "associate" => \A e \in Ever(k)' : Covers(y.mine[k], e)
    BY <1>1, <1>4, <2>1, <2>2 DEF Ordered
  <2>. QED BY <1>1, <1>3, <1>4, <2>2, <2>3 DEF LeavesAt, Unwritten, Keeps
<1>. QED BY <1>5, LeavesPartsNext

LEMMA CreateLeaves ==
    ASSUME Types, Stages, RowsInv, NEW s \in Sessions, \A k \in Keys : InOrder(k), LeavesOrder(s),
           CreateOrGet(s)
    PROVE  LeavesOrder(s)'
<1> DEFINE x == session[s]
           y == session'[s]
<1>0. x.cand \in Keys
    BY CreateOrGetEffect
<1>k. PICK c \in Keys : c = x.cand
    BY <1>0
<1>1. /\ Unwritten /\ x.pc = "create" /\ Keeps(x, y) /\ y.pc = "associate"
      /\ x.cand = c /\ y.cand = c /\ y.on = x.on /\ x.new \subseteq y.new
    BY <1>k, CreateOrGetEffect
<1>2. \/ /\ candidates[c] = NoRow /\ c \in y.new
         /\ y.base = [x.base EXCEPT ![c] = NewRow(x.ev)]
         /\ y.mine = [x.mine EXCEPT ![c] = NewRow(x.ev)]
      \/ candidates[c] # NoRow /\ x.base[c] # NoRow /\ y.base = x.base /\ y.mine = x.mine
      \/ /\ candidates[c] # NoRow /\ x.base[c] = NoRow
         /\ y.base = [x.base EXCEPT ![c] = candidates[c]]
         /\ y.mine = [x.mine EXCEPT ![c] = candidates[c]]
    BY <1>k, CreateOrGetEffect
<1>3. x \in Session /\ x.on = {} /\ x.off = {} /\ x.new = {} /\ x.mine[c] = x.base[c]
    BY <1>1 DEF Stages, Stage, Types
<1>4. ASSUME NEW k \in Keys \ {c} PROVE LeavesAt(s, k)'
  <2>1. y.mine[k] = x.mine[k] /\ y.base[k] = x.base[k]
    BY <1>2, <1>3 DEF Session
  <2>2. LeavesAt(s, k)
    BY LeavesParts
  <2>. QED BY <1>1, <2>1, <2>2, SameLeaves DEF Unwritten, Keeps
<1>5. y.on = {} /\ y.off = {} /\ UNCHANGED links /\ UNCHANGED candidates
    BY <1>1, <1>3 DEF Keeps, Unwritten
<1>6. Ever(c)' = Ever(c)
    BY <1>5, SeesCommittedNext
<1>7. (\A e \in Ever(c) : Covers(y.mine[c], e)) /\ (c \in y.new \/ y.mine[c] = NoRow \/ y.base[c] = candidates[c])
  <2>1. CASE /\ candidates[c] = NoRow /\ c \in y.new
    <3>1. Ever(c) = {}
      BY <2>1 DEF RowsInv, Ever
    <3>. QED BY <2>1, <3>1
  <2>2. CASE candidates[c] # NoRow /\ x.base[c] # NoRow /\ y.base = x.base /\ y.mine = x.mine
    <3>1. LeavesAt(s, c)
      BY LeavesParts
    <3>2. x.mine[c] # NoRow
      BY <1>3, <2>2
    <3>3. Ordered(x.mine[c], ActiveIn(s, c), EverIn(s, c)) /\ x.base[c] = candidates[c]
      BY <1>1, <1>3, <3>1, <3>2 DEF LeavesAt
    <3>. QED BY <2>2, <3>3 DEF Ordered, EverIn
  <2>3. CASE /\ candidates[c] # NoRow
             /\ y.base = [x.base EXCEPT ![c] = candidates[c]]
             /\ y.mine = [x.mine EXCEPT ![c] = candidates[c]]
    <3>1. y.mine[c] = candidates[c] /\ y.base[c] = candidates[c]
      BY <1>3, <2>3 DEF Session
    <3>. QED BY <2>3, <3>1 DEF InOrder, Ordered
  <2>. QED BY <1>2, <2>1, <2>2, <2>3
<1>8. LeavesAt(s, c)'
    BY <1>1, <1>5, <1>6, <1>7 DEF LeavesAt
<1>. QED BY <1>4, <1>8, LeavesPartsNext

LEMMA AssociateLeaves ==
    ASSUME Types, Stages, RowsInv, NEW s \in Sessions, LeavesOrder(s), Associate(s)
    PROVE  LeavesOrder(s)'
<1> DEFINE x == session[s]
           y == session'[s]
<1>0. x.cand \in Keys /\ Unwritten /\ x.pc = "associate"
    BY AssociateEffect
<1>k. PICK c \in Keys : c = x.cand
    BY <1>0
<1>1. \/ y = NoSession
      \/ /\ Keeps(x, y) /\ y.cand = x.cand /\ y.on = x.on
         /\ y.base = x.base /\ y.mine = x.mine /\ y.new = x.new /\ y.pc \in {"link", "refresh"}
    BY AssociateEffect
<1>2. CASE /\ Keeps(x, y) /\ y.cand = x.cand /\ y.on = x.on
           /\ y.base = x.base /\ y.mine = x.mine /\ y.new = x.new /\ y.pc \in {"link", "refresh"}
  <2>1. ASSUME NEW k \in Keys \ {c} PROVE LeavesAt(s, k)'
    <3>1. LeavesAt(s, k)
      BY LeavesParts
    <3>. QED BY <1>0, <1>k, <1>2, <3>1, SameLeaves DEF Unwritten, Keeps
  <2>2. LeavesAt(s, c)'
    <3>1. LeavesAt(s, c)
      BY LeavesParts
    <3>2. Ever(c)' = Ever(c)
      BY <1>0 DEF Ever, Unwritten
    <3>. QED BY <1>0, <1>k, <1>2, <3>1, <3>2 DEF LeavesAt, Unwritten, Keeps
  <2>. QED BY <2>1, <2>2, LeavesPartsNext
<1>. QED BY <1>1, <1>2, IdleLeavesOrder

LEMMA AddLinkLeaves ==
    ASSUME Types, Stages, RowsInv, NEW s \in Sessions, LeavesOrder(s), AddLink(s)
    PROVE  LeavesOrder(s)'
<1> DEFINE x == session[s]
           y == session'[s]
<1>0. x.cand \in Keys /\ Unwritten /\ x.pc = "link" /\ x.on = {}
    BY AddLinkEffect
<1>k. PICK c \in Keys : c = x.cand
    BY <1>0
<1>1. \/ y = NoSession
      \/ /\ Keeps(x, y) /\ y.cand = x.cand /\ y.on = {TheLink(x)}
         /\ y.base = x.base /\ y.mine = x.mine /\ y.new = x.new /\ y.pc = "refresh"
    BY AddLinkEffect
<1>2. CASE /\ Keeps(x, y) /\ y.cand = x.cand /\ y.on = {TheLink(x)}
           /\ y.base = x.base /\ y.mine = x.mine /\ y.new = x.new /\ y.pc = "refresh"
  <2>0. TheLink(x).cand = c
    BY <1>k DEF TheLink
  <2>1. ASSUME NEW k \in Keys \ {c} PROVE LeavesAt(s, k)'
    <3>1. LeavesAt(s, k)
      BY LeavesParts
    <3>. QED BY <1>0, <1>k, <1>2, <2>0, <3>1, SameLeaves DEF Unwritten, Keeps
  <2>2. LeavesAt(s, c)'
    <3>1. LeavesAt(s, c)
      BY LeavesParts
    <3>2. Ever(c)' = Ever(c)
      BY <1>0 DEF Ever, Unwritten
    <3>3. x.mine[c] # NoRow
      BY <1>0, <1>k DEF RowsInv, Grounded
    <3>. QED BY <1>0, <1>k, <1>2, <3>1, <3>2, <3>3 DEF LeavesAt, Unwritten, Keeps
  <2>. QED BY <2>1, <2>2, LeavesPartsNext
<1>. QED BY <1>1, <1>2, IdleLeavesOrder

LEMMA RefreshLeaves ==
    ASSUME Types, Stages, RowsInv, RowsInv', NEW s \in Sessions, LeavesOrder(s), Refresh(s)
    PROVE  LeavesOrder(s)'
<1> DEFINE x == session[s]
           y == session'[s]
<1>0. x.cand \in Keys
    BY RefreshEffect
<1>k. PICK c \in Keys : c = x.cand
    BY <1>0
<1> DEFINE A == ActiveIn(s, c)
           merged == Merged(x.mine[c], x.ev)
           agg == Aggregates(merged, A)
<1>1. /\ Unwritten /\ x.pc = "refresh" /\ Keeps(x, y) /\ x.ev \in Evidence /\ x.cand = c
      /\ y.cand = c /\ y.on = x.on /\ y.base = x.base /\ y.new = x.new /\ y.pc = "commit"
      /\ merged \in Rows
    BY <1>k, RefreshEffect
<1>2. y.mine = [x.mine EXCEPT ![c] = agg]
    BY <1>k, RefreshEffect
<1>3. x \in Session /\ A \in SUBSET Evidence /\ Ever(c) \in SUBSET Evidence
    BY ActiveInType, EverType DEF Types
<1>4. y.mine[c] = agg /\ \A j \in Keys \ {c} : y.mine[j] = x.mine[j]
    BY <1>2, <1>3 DEF Session
<1>5. ASSUME NEW k \in Keys \ {c} PROVE LeavesAt(s, k)'
  <2>1. LeavesAt(s, k)
    BY LeavesParts
  <2>. QED BY <1>1, <1>4, <2>1, SameLeaves DEF Unwritten, Keeps
<1>6. LeavesAt(s, c)
    BY LeavesParts
<1>7. x.mine[c] # NoRow /\ y.mine[c] # NoRow /\ x.mine[c] \in Rows
    BY <1>1, <1>3 DEF RowsInv, Grounded, Session
<1>8. (\A l \in x.on : l.ev = x.ev) /\ \A e \in Ever(c) : Covers(x.mine[c], e)
    BY <1>1, <1>6 DEF LeavesAt, Stages, Stage
<1>9. EverIn(s, c) \subseteq Ever(c) \cup {x.ev}
    BY <1>8 DEF EverIn
<1>10. \A e \in Ever(c) \cup {x.ev} : Covers(merged, e)
    BY <1>1, <1>3, <1>7, <1>8, CoversMerged
<1> HIDE DEF merged
<1>11. agg = Aggregates(agg, A) /\ \A e \in Ever(c) \cup {x.ev} : Covers(agg, e)
    BY <1>1, <1>3, <1>10, CoversAggregates
<1>12. Ordered(agg, A, EverIn(s, c))
    BY <1>9, <1>11 DEF Ordered
<1> HIDE DEF agg, A
<1>13. ActiveIn(s, c)' = A /\ EverIn(s, c)' = EverIn(s, c)
    BY <1>1 DEF ActiveIn, EverIn, Ever, Visible, Unwritten, Keeps, A
<1>14. Ordered(y.mine[c], ActiveIn(s, c)', EverIn(s, c)')
    BY <1>4, <1>12, <1>13
<1>15. LeavesAt(s, c)'
    BY <1>1, <1>6, <1>7, <1>14 DEF LeavesAt, Unwritten, Keeps
<1>. QED BY <1>5, <1>15, LeavesPartsNext

LEMMA TakeOffLeaves ==
    ASSUME Types, Stages, RowsInv, RowsInv', NEW s \in Sessions, \A k \in Keys : InOrder(k),
           LeavesOrder(s), TakeOff(s)
    PROVE  LeavesOrder(s)'
<1> DEFINE x == session[s]
           y == session'[s]
<1>0. x.cand \in Keys
    BY TakeOffEffect
<1>k. PICK c \in Keys : c = x.cand
    BY <1>0
<1> DEFINE A == ActiveIn(s, c) \ {x.ev}
           agg == Aggregates(candidates[c], A)
<1>1. /\ Unwritten /\ x.pc = "off" /\ x.cand = c /\ x.ev \in Evidence
      /\ y.ev = x.ev /\ y.on = x.on /\ y.new = x.new /\ y.off = {<<c, x.ev>>}
      /\ \/ x.to = None /\ y.pc = "commit" /\ y.cand = c
         \/ x.to # None /\ x.to \in Keys /\ y.pc = "associate" /\ y.cand = x.to
    BY <1>k, TakeOffEffect
<1>2. y.base = [x.base EXCEPT ![c] = candidates[c]] /\ y.mine = [x.mine EXCEPT ![c] = agg]
    BY <1>k, TakeOffEffect
<1>3. /\ x \in Session /\ A \in SUBSET Evidence /\ candidates[c] \in Rows /\ Ever(c) \in SUBSET Evidence
      /\ x.to # None => x.to # c
      /\ x.on = {} /\ x.off = {}
    BY <1>1, ActiveInType, EverType DEF Types, Stages, Stage
<1>4. candidates[c] # NoRow
    BY <1>1 DEF RowsInv, Grounded
<1>5. \A e \in Ever(c) : Covers(candidates[c], e)
    BY <1>4 DEF InOrder, Ordered
<1>6. agg = Aggregates(agg, A) /\ \A e \in Ever(c) : Covers(agg, e)
    BY <1>3, <1>5, CoversAggregates
<1> HIDE DEF agg, A
<1>7. /\ y.mine[c] = agg /\ y.base[c] = candidates[c]
      /\ \A j \in Keys \ {c} : y.mine[j] = x.mine[j] /\ y.base[j] = x.base[j]
    BY <1>2, <1>3 DEF Session
<1>8. ActiveIn(s, c)' = A
    BY <1>1, <1>3 DEF ActiveIn, Visible, Unwritten, A
<1>9. EverIn(s, c)' = Ever(c)
    BY <1>1, <1>3 DEF EverIn, Ever, Unwritten
<1>10. agg # NoRow
    BY <1>4, <1>7, BackedGrows DEF RowsInv, MineAt
<1>11. LeavesAt(s, c)'
  <2>1. Ordered(y.mine[c], ActiveIn(s, c)', EverIn(s, c)')
    BY <1>6, <1>7, <1>8, <1>9 DEF Ordered
  <2>. QED BY <1>1, <1>3, <1>7, <1>10, <2>1 DEF LeavesAt, Unwritten
<1>12. ASSUME NEW k \in Keys \ {c} PROVE LeavesAt(s, k)'
  <2>0. LeavesAt(s, k)
    BY LeavesParts
  <2>1. CASE k # y.cand
    BY <1>1, <1>3, <1>7, <2>0, <2>1, SameLeaves DEF Unwritten
  <2>2. CASE k = y.cand
    <3>1. x.to = k /\ x.to # None /\ y.pc = "associate"
      BY <1>1, <2>2
    <3>2. x.mine[k] # NoRow
      BY <1>1, <3>1 DEF RowsInv, Grounded
    <3>3. Ordered(x.mine[k], ActiveIn(s, k), EverIn(s, k))
      BY <1>1, <2>0, <3>2 DEF LeavesAt
    <3>4. \A e \in Ever(k)' : Covers(y.mine[k], e)
      BY <1>1, <1>7, <3>3 DEF Ordered, EverIn, Ever, Unwritten
    <3>. QED BY <1>1, <1>3, <1>7, <2>0, <2>2, <3>1, <3>2, <3>4 DEF LeavesAt, Unwritten
  <2>. QED BY <2>1, <2>2
<1>. QED BY <1>11, <1>12, LeavesPartsNext

\* What a session saw when it committed is what is committed.
LEMMA CommitShows ==
    ASSUME Types, Stages, NEW s \in Sessions, Commit(s), NEW k \in Keys
    PROVE  Active(k)' = ActiveIn(s, k) /\ Ever(k)' = EverIn(s, k)
<1> DEFINE x == session[s]
<1>1. ASSUME NEW l \in links' \ x.on
      PROVE  \E d \in links : /\ l.cand = d.cand /\ l.ev = d.ev
                              /\ l.active <=> (d.active /\ <<d.cand, d.ev>> \notin x.off)
    BY CommitEffect, SMTT(60)
<1>2. ASSUME NEW d \in links
      PROVE  \E l \in links' : /\ l.cand = d.cand /\ l.ev = d.ev
                               /\ l.active <=> (d.active /\ <<d.cand, d.ev>> \notin x.off)
    BY CommitEffect, SMTT(60)
<1>3. x.on \subseteq links' /\ \A l \in x.on : l.active
    BY CommitEffect DEF Stages, Stage
<1>4. ASSUME NEW e \in Active(k)' PROVE e \in ActiveIn(s, k)
  <2>1. PICK l \in links' : l.active /\ l.cand = k /\ l.ev = e
    BY DEF Active
  <2>2. CASE l \in x.on
    BY <2>1, <2>2 DEF ActiveIn, Visible
  <2>3. CASE l \notin x.on
    <3>1. PICK d \in links : /\ l.cand = d.cand /\ l.ev = d.ev
                             /\ l.active <=> (d.active /\ <<d.cand, d.ev>> \notin x.off)
      BY <1>1, <2>3
    <3>2. d \in Visible(s) /\ d.cand = k /\ d.ev = e
      BY <2>1, <3>1 DEF Visible
    <3>. QED BY <3>2 DEF ActiveIn
  <2>. QED BY <2>2, <2>3
<1>5. ASSUME NEW e \in ActiveIn(s, k) PROVE e \in Active(k)'
  <2>1. PICK d \in Visible(s) : d.cand = k /\ d.ev = e
    BY DEF ActiveIn
  <2>2. CASE d \in x.on
    BY <1>3, <2>1, <2>2 DEF Active
  <2>3. CASE d \notin x.on
    <3>1. d \in links /\ d.active /\ <<d.cand, d.ev>> \notin x.off
      BY <2>3 DEF Visible
    <3>2. PICK l \in links' : /\ l.cand = d.cand /\ l.ev = d.ev
                              /\ l.active <=> (d.active /\ <<d.cand, d.ev>> \notin x.off)
      BY <1>2, <3>1
    <3>. QED BY <2>1, <3>1, <3>2 DEF Active
  <2>. QED BY <2>2, <2>3
<1>6. ASSUME NEW e \in Ever(k)' PROVE e \in EverIn(s, k)
  <2>1. PICK l \in links' : l.cand = k /\ l.ev = e
    BY DEF Ever
  <2>2. CASE l \in x.on
    BY <2>1, <2>2 DEF EverIn
  <2>3. CASE l \notin x.on
    <3>1. PICK d \in links : l.cand = d.cand /\ l.ev = d.ev
      BY <1>1, <2>3
    <3>. QED BY <2>1, <3>1 DEF EverIn, Ever
  <2>. QED BY <2>2, <2>3
<1>7. ASSUME NEW e \in EverIn(s, k) PROVE e \in Ever(k)'
  <2>1. CASE e \in Ever(k)
    <3>1. PICK d \in links : d.cand = k /\ d.ev = e
      BY <2>1 DEF Ever
    <3>2. PICK l \in links' : l.cand = d.cand /\ l.ev = d.ev
      BY <1>2, <3>1
    <3>. QED BY <3>1, <3>2 DEF Ever
  <2>2. CASE \E l \in x.on : l.cand = k /\ l.ev = e
    BY <1>3, <2>2 DEF Ever
  <2>. QED BY <2>1, <2>2 DEF EverIn
<1>. QED BY <1>4, <1>5, <1>6, <1>7

LEMMA CommitKeepsOrder ==
    ASSUME Types, Stages, RowsInv, NEW s \in Sessions, Commit(s),
           \A k \in Keys : InOrder(k), \A o \in Sessions : LeavesOrder(o),
           \A o \in Others(s) : session[o].pc = "idle"
    PROVE  /\ Solo'
           /\ \A k \in Keys : InOrder(k)'
           /\ \A o \in Sessions : LeavesOrder(o)'
<1> DEFINE x == session[s]
<1>1. /\ Moves(s) /\ session'[s] = NoSession /\ x.pc = "commit" /\ x.cand \in Keys
      /\ \A k \in Keys :
            candidates'[k] = IF k \in x.new THEN x.mine[k] ELSE Written(candidates[k], x.base[k], x.mine[k])
    BY CommitEffect
<1>2. \A o \in Sessions : session'[o] = NoSession
    BY <1>1 DEF Stages, Stage, Moves, Others
<1>3. Solo'
    BY <1>2, NoSessionShape DEF Solo
<1>4. \A o \in Sessions : LeavesOrder(o)'
    BY <1>2, IdleLeavesOrder
<1>5. ASSUME NEW k \in Keys PROVE InOrder(k)'
  <2>1. /\ candidates[k] \in Rows /\ x.mine[k] \in Rows /\ x.base[k] \in Rows
        /\ LeavesAt(s, k) /\ MineAt(s, k)
        /\ k \in x.new => k = x.cand /\ x.mine[k] # NoRow
    BY <1>1, LeavesParts DEF Types, Session, RowsInv, Grounded, Stages, Stage
  <2>2. Active(k)' = ActiveIn(s, k) /\ Ever(k)' = EverIn(s, k)
    BY CommitShows
  <2>3. CASE x.mine[k] # NoRow
    <3>1. candidates'[k] = x.mine[k]
      BY <1>1, <2>1, <2>3, WrittenSame DEF LeavesAt
    <3>2. Ordered(x.mine[k], ActiveIn(s, k), EverIn(s, k))
      BY <1>1, <2>1, <2>3 DEF LeavesAt
    <3>. QED BY <2>2, <3>1, <3>2 DEF InOrder
  <2>4. CASE x.mine[k] = NoRow
    <3>1. x.base[k] = NoRow /\ k \notin x.new
      BY <2>1, <2>4, BackedGrows DEF MineAt
    <3>2. candidates'[k] = candidates[k]
      BY <1>1, <2>1, <2>4, <3>1, WrittenSame
    <3>3. (\A p \in x.off : p[1] # k) /\ (\A l \in x.on : l.cand # k)
      BY <2>1, <2>4 DEF LeavesAt
    <3>4. ActiveIn(s, k) = Active(k)
      <4>1. \A l : l.cand = k => (l \in Visible(s) <=> l \in links /\ l.active)
        BY <3>3 DEF Visible
      <4>. QED BY <4>1 DEF ActiveIn, Active
    <3>5. EverIn(s, k) = Ever(k)
      BY <3>3 DEF EverIn
    <3>6. InOrder(k)
      OBVIOUS
    <3>. QED BY <2>2, <3>2, <3>4, <3>5, <3>6 DEF InOrder
  <2>. QED BY <2>3, <2>4
<1>. QED BY <1>3, <1>4, <1>5

LEMMA BeginOverlaps ==
    ASSUME Types, NEW s \in Sessions,
           \/ \E e \in Evidence : Process(s, e)
           \/ \E k \in Keys, e \in Evidence : Deactivate(s, k, e)
           \/ \E k, to \in Keys, e \in Evidence : Regroup(s, k, to, e)
    PROVE  /\ Moves(s) /\ UNCHANGED <<candidates, links>>
           /\ ~overlapped' => ~overlapped /\ \A o \in Others(s) : session[o].pc = "idle"
<1>1. CASE \E e \in Evidence : Process(s, e)
  <2>1. PICK e \in Evidence : Process(s, e)
    BY <1>1
  <2>2. /\ Moves(s) /\ UNCHANGED <<candidates, links>>
        /\ overlapped' = (overlapped \/ \E o \in Others(s) : session[o].pc # "idle")
    BY <2>1, ProcessEffect
  <2>. QED BY <2>2
<1>2. CASE \E k \in Keys, e \in Evidence : Deactivate(s, k, e)
  <2>1. PICK k \in Keys, e \in Evidence : Deactivate(s, k, e)
    BY <1>2
  <2>2. /\ Moves(s) /\ UNCHANGED <<candidates, links>>
        /\ overlapped' = (overlapped \/ \E o \in Others(s) : session[o].pc # "idle")
    BY <2>1, DeactivateEffect
  <2>. QED BY <2>2
<1>3. CASE \E k, to \in Keys, e \in Evidence : Regroup(s, k, to, e)
  <2>1. PICK k \in Keys, to \in Keys, e \in Evidence : Regroup(s, k, to, e)
    BY <1>3
  <2>2. /\ Moves(s) /\ UNCHANGED <<candidates, links>>
        /\ overlapped' = (overlapped \/ \E o \in Others(s) : session[o].pc # "idle")
    BY <2>1, RegroupEffect
  <2>. QED BY <2>2
<1>. QED BY <1>1, <1>2, <1>3

LEMMA NextOrder ==
    ASSUME Types, Stages, RowsInv, RowsInv', OrderInv, Next
    PROVE  OrderInv'
<1>1. PICK s \in Sessions :
        \/ \E e \in Evidence : Process(s, e)
        \/ \E k \in Keys, e \in Evidence : Deactivate(s, k, e)
        \/ \E k, to \in Keys, e \in Evidence : Regroup(s, k, to, e)
        \/ MatchExisting(s)
        \/ CreateOrGet(s)
        \/ Associate(s)
        \/ AddLink(s)
        \/ Refresh(s)
        \/ TakeOff(s)
        \/ Commit(s)
        \/ Abort(s)
    BY DEF Next
<1> SUFFICES ASSUME ~overlapped'
             PROVE  /\ Solo'
                    /\ \A k \in Keys : InOrder(k)'
                    /\ \A o \in Sessions : LeavesOrder(o)'
    BY DEF OrderInv
<1>2. CASE \/ \E e \in Evidence : Process(s, e)
           \/ \E k \in Keys, e \in Evidence : Deactivate(s, k, e)
           \/ \E k, to \in Keys, e \in Evidence : Regroup(s, k, to, e)
  <2>1. /\ Moves(s) /\ UNCHANGED <<candidates, links>>
        /\ ~overlapped /\ \A o \in Others(s) : session[o].pc = "idle"
    BY <1>2, BeginOverlaps
  <2>2. (\A k \in Keys : InOrder(k)) /\ \A o \in Sessions : LeavesOrder(o)
    BY <2>1 DEF OrderInv
  <2>3. LeavesOrder(s)'
    <3>1. ASSUME NEW e \in Evidence, Process(s, e) PROVE LeavesOrder(s)'
      <4>1. session'[s].mine = NoRows /\ session'[s].on = {} /\ session'[s].off = {} /\ session'[s].pc = "match"
        BY <3>1, ProcessEffect
      <4>. QED BY <4>1 DEF LeavesOrder, NoRows
    <3>2. ASSUME NEW k \in Keys, NEW e \in Evidence, Deactivate(s, k, e) PROVE LeavesOrder(s)'
      <4>1. session'[s].mine = NoRows /\ session'[s].on = {} /\ session'[s].off = {} /\ session'[s].pc = "off"
        BY <3>2, DeactivateEffect
      <4>. QED BY <4>1 DEF LeavesOrder, NoRows
    <3>3. ASSUME NEW k \in Keys, NEW to \in Keys, NEW e \in Evidence, Regroup(s, k, to, e)
          PROVE  LeavesOrder(s)'
      BY <2>2, <3>3, RegroupLeaves
    <3>. QED BY <1>2, <3>1, <3>2, <3>3
  <2>. QED BY <2>1, <2>2, <2>3, QuietKeepsOrder
<1>3. CASE \/ MatchExisting(s) \/ CreateOrGet(s) \/ Associate(s) \/ AddLink(s) \/ Refresh(s)
           \/ TakeOff(s) \/ Abort(s)
  <2>1. Moves(s) /\ Unwritten /\ session[s].pc # "idle"
    <3>1. CASE MatchExisting(s)
      BY <3>1, MatchExistingEffect
    <3>2. CASE CreateOrGet(s)
      BY <3>2, CreateOrGetEffect
    <3>3. CASE Associate(s)
      BY <3>3, AssociateEffect
    <3>4. CASE AddLink(s)
      BY <3>4, AddLinkEffect
    <3>5. CASE Refresh(s)
      BY <3>5, RefreshEffect
    <3>6. CASE TakeOff(s)
      BY <3>6, TakeOffEffect
    <3>7. CASE Abort(s)
      BY <3>7, AbortEffect
    <3>. QED BY <1>3, <3>1, <3>2, <3>3, <3>4, <3>5, <3>6, <3>7
  <2>2. ~overlapped /\ UNCHANGED <<candidates, links>>
    BY <2>1 DEF Unwritten, history
  <2>3. Solo /\ (\A k \in Keys : InOrder(k)) /\ \A o \in Sessions : LeavesOrder(o)
    BY <2>2 DEF OrderInv
  <2>4. \A o \in Others(s) : session[o].pc = "idle"
    BY <2>1, <2>3, SoloOthers
  <2>5. LeavesOrder(s)'
    <3>1. CASE Abort(s)
      BY <3>1, AbortEffect, IdleLeavesOrder
    <3>. QED BY <1>3, <2>3, <3>1, MatchLeaves, CreateLeaves, AssociateLeaves, AddLinkLeaves,
                RefreshLeaves, TakeOffLeaves
  <2>. QED BY <2>1, <2>2, <2>3, <2>4, <2>5, QuietKeepsOrder
<1>4. CASE Commit(s)
  <2>1. session[s].pc = "commit" /\ ~overlapped
    BY <1>4, CommitEffect DEF history
  <2>2. Solo /\ (\A k \in Keys : InOrder(k)) /\ \A o \in Sessions : LeavesOrder(o)
    BY <2>1 DEF OrderInv
  <2>3. \A o \in Others(s) : session[o].pc = "idle"
    BY <2>1, <2>2, SoloOthers
  <2>. QED BY <1>4, <2>2, <2>3, CommitKeepsOrder
<1>. QED BY <1>1, <1>2, <1>3, <1>4

LEMMA InitOrder ==
    ASSUME Init
    PROVE  OrderInv
<1>1. \A s \in Sessions : session[s] = NoSession
    BY DEF Init
<1>2. Solo /\ \A s \in Sessions : LeavesOrder(s)
    BY <1>1, NoSessionShape DEF Solo, LeavesOrder, NoRows
<1>. QED BY <1>2 DEF OrderInv, Init, InOrder

LEMMA StutterOrder ==
    ASSUME OrderInv, UNCHANGED vars
    PROVE  OrderInv'
<1>1. UNCHANGED <<candidates, links, session, overlapped>>
    BY DEF vars
<1>2. \A s \in Sessions, k \in Keys : ActiveIn(s, k)' = ActiveIn(s, k) /\ EverIn(s, k)' = EverIn(s, k)
                                      /\ Ever(k)' = Ever(k) /\ Active(k)' = Active(k)
    BY <1>1 DEF ActiveIn, EverIn, Ever, Active, Visible
<1>3. \A k \in Keys : Ever(k)' = Ever(k) /\ Active(k)' = Active(k)
    BY <1>1 DEF Ever, Active
<1>. QED BY <1>1, <1>2, <1>3 DEF OrderInv, Solo, InOrder, LeavesOrder

\* A candidate in order has its counts, its status and all that its evidence brings.
LEMMA OrderIsKept ==
    ASSUME Types, OrderInv
    PROVE  ReviewKeepsOrder
<1> SUFFICES ASSUME ~overlapped, NEW k \in Keys, candidates[k] # NoRow
             PROVE  /\ candidates[k] = Aggregates(candidates[k], Active(k))
                    /\ candidates[k].status = "rejected" <=> Active(k) = {}
                    /\ \A e \in Ever(k) : candidates[k] = Merged(candidates[k], e)
    BY DEF ReviewKeepsOrder
<1> DEFINE row == candidates[k]
           A == Active(k)
<1>1. Ordered(row, A, Ever(k))
    BY DEF OrderInv, InOrder
<1>2. row \in Rows /\ A \in SUBSET Evidence /\ Ever(k) \in SUBSET Evidence
    BY EverType DEF Types, Active, Link
<1> HIDE DEF row, A
<1>3. row = Aggregates(row, A)
    BY <1>1 DEF Ordered
<1> DEFINE agg == Aggregates(row, A)
<1>4. agg.status = IF A = {} THEN "rejected" ELSE IF row.status = "rejected" THEN "candidate" ELSE row.status
    BY <1>2, AggregatesShape
<1>5. row = agg
    BY <1>3
<1> HIDE DEF agg
<1>6. row.status = "rejected" <=> A = {}
    BY <1>4, <1>5
<1>7. \A e \in Ever(k) : row = Merged(row, e)
    BY <1>1, <1>2, CoversMerged DEF Ordered
<1>. QED BY <1>3, <1>6, <1>7 DEF row, A

\* As long as no two transactions overlap, review keeps every candidate in order.
THEOREM ReviewIsOrderly == Spec => []ReviewKeepsOrder
<1>1. Init => OrderInv
    BY InitOrder
<1>2. (Types /\ Stages /\ RowsInv) /\ RowsInv' /\ OrderInv /\ [Next]_vars => OrderInv'
    BY NextOrder, StutterOrder
<1>3. Types /\ OrderInv => ReviewKeepsOrder
    BY OrderIsKept
<1>. QED BY <1>1, <1>2, <1>3, RowsInvariant, PTL DEF Spec

-----------------------------------------------------------------------------
(* Counts, when transactions overlap.                                      *)

\* Nothing has been taken out of the candidate, and no evidence of it was handled twice at a time.
Clean(k) == \A l \in links : l.cand = k => l.active /\ l.ev \notin contended

Counted(k) ==
    candidates[k] # NoRow /\ Clean(k) => candidates[k] = Aggregates(candidates[k], Active(k)) /\ Active(k) # {}

\* A row as it was read: it had the counts of what was active then, which still is.
ReadRow(row, k) ==
    \/ row = NoRow
    \/ /\ Backed(row, Ever(k))
       /\ Clean(k) => \E B \in SUBSET Active(k) : B # {} /\ row = Aggregates(row, B)

LocksOK(s) ==
    LET x == session[s] IN
    x.new \subseteq x.locks /\ \A k \in x.locks : candidates[k] # NoRow \/ k \in x.new

Disjoint(s, o) == session[s].locks \cap session[o].locks = {}

BasesOK(s) == \A k \in Keys : k \in session[s].new \/ ReadRow(session[s].base[k], k)

OffsOK(s) == \A p \in session[s].off : p[2] \in Ever(p[1])

\* A link to a clean candidate is the first of its evidence there.
FirstThere(s) ==
    LET x == session[s] IN
    x.on # {} /\ x.ev \notin contended /\ Clean(x.cand) => x.ev \notin Ever(x.cand)

\* A call that found the link it wanted was not alone.
FoundLink(s) ==
    LET x == session[s] IN
    x.pc \in {"refresh", "commit"} /\ x.on = {} /\ <<x.cand, x.ev>> \notin x.off =>
        x.ev \in contended /\ x.ev \in Ever(x.cand)

\* Who has counted holds the row.
HoldsCounts(s) ==
    LET x == session[s] IN
    x.pc = "commit" /\ x.on # {} /\ x.ev \notin contended /\ Clean(x.cand) =>
        x.cand \in x.locks /\ x.mine[x.cand] = Aggregates(x.mine[x.cand], Active(x.cand) \cup {x.ev})

SessionCounts(s) ==
    LocksOK(s) /\ BasesOK(s) /\ OffsOK(s) /\ FirstThere(s) /\ FoundLink(s) /\ HoldsCounts(s)

CountsInv ==
    /\ \A k \in Keys : Counted(k)
    /\ \A s \in Sessions : SessionCounts(s)
    /\ \A s, o \in Sessions : s # o => Disjoint(s, o)

\* A step that commits nothing.
LEMMA QuietClean ==
    ASSUME UNCHANGED <<candidates, links>>, contended \subseteq contended'
    PROVE  /\ \A k : Clean(k)' => Clean(k)
           /\ \A k : Ever(k)' = Ever(k) /\ Active(k)' = Active(k)
           /\ \A k \in Keys : Counted(k) => Counted(k)'
           /\ \A row : \A k \in Keys : ReadRow(row, k) => ReadRow(row, k)'
<1>1. \A k : Clean(k)' => Clean(k)
    BY DEF Clean
<1>2. \A k : Ever(k)' = Ever(k) /\ Active(k)' = Active(k)
    BY DEF Ever, Active
<1>3. \A k \in Keys : Counted(k) => Counted(k)'
    BY <1>1, <1>2 DEF Counted
<1>4. \A row : \A k \in Keys : ReadRow(row, k) => ReadRow(row, k)'
    BY <1>1, <1>2 DEF ReadRow
<1>. QED BY <1>1, <1>2, <1>3, <1>4

LEMMA QuietKeepsCounts ==
    ASSUME Types, CountsInv, NEW s \in Sessions, Moves(s), UNCHANGED <<candidates, links>>,
           contended \subseteq contended', SessionCounts(s)',
           \A k \in session'[s].locks : k \in session[s].locks \/ \A o \in Others(s) : k \notin session[o].locks
    PROVE  CountsInv'
<1>1. \A k \in Keys : Counted(k)'
    BY QuietClean DEF CountsInv
<1>2. ASSUME NEW o \in Sessions, o # s PROVE SessionCounts(o)'
  <2>1. session'[o] = session[o]
    BY <1>2 DEF Moves
  <2>2. LocksOK(o)' /\ OffsOK(o)' /\ BasesOK(o)'
    BY <2>1, QuietClean DEF LocksOK, OffsOK, BasesOK, SessionCounts, CountsInv
  <2>3. FirstThere(o)' /\ FoundLink(o)' /\ HoldsCounts(o)'
    BY <2>1, QuietClean DEF FirstThere, FoundLink, HoldsCounts, SessionCounts, CountsInv
  <2>. QED BY <2>2, <2>3 DEF SessionCounts
<1>3. ASSUME NEW a \in Sessions, NEW b \in Sessions, a # b PROVE Disjoint(a, b)'
  <2>1. \A o \in Sessions : o # s => session'[o] = session[o]
    BY DEF Moves
  <2>2. Disjoint(a, b) /\ Disjoint(b, a)
    BY <1>3 DEF CountsInv
  <2>3. CASE a = s
    BY <1>3, <2>1, <2>2, <2>3 DEF Disjoint, Others
  <2>4. CASE b = s
    BY <1>3, <2>1, <2>2, <2>4 DEF Disjoint, Others
  <2>5. CASE a # s /\ b # s
    BY <2>1, <2>2, <2>5 DEF Disjoint
  <2>. QED BY <2>3, <2>4, <2>5
<1>. QED BY <1>1, <1>2, <1>3 DEF CountsInv

\* A candidate is read with its counts.
LEMMA CandidateIsRead ==
    ASSUME RowsInv, CountsInv, NEW k \in Keys
    PROVE  ReadRow(candidates[k], k)
<1>1. CASE candidates[k] # NoRow
  <2>1. Backed(candidates[k], Ever(k))
    BY <1>1 DEF RowsInv, RowAt
  <2>2. Clean(k) => candidates[k] = Aggregates(candidates[k], Active(k)) /\ Active(k) # {}
    BY <1>1 DEF CountsInv, Counted
  <2>. QED BY <2>1, <2>2 DEF ReadRow
<1>. QED BY <1>1 DEF ReadRow

\* The rows a session has read stay read.
LEMMA QuietBases ==
    ASSUME NEW s \in Sessions, UNCHANGED <<candidates, links>>, contended \subseteq contended',
           \A k \in Keys : k \in session'[s].new \/ ReadRow(session'[s].base[k], k)
    PROVE  BasesOK(s)'
<1>1. \A k : (Clean(k)' => Clean(k)) /\ Ever(k)' = Ever(k) /\ Active(k)' = Active(k)
    BY QuietClean
<1>. QED BY <1>1 DEF BasesOK, ReadRow

\* A session that has read its candidates and done no more.
LEMMA FreshSessionCounts ==
    ASSUME NEW s \in Sessions,
           session'[s].new = {}, session'[s].locks = {}, session'[s].on = {}, session'[s].off = {},
           session'[s].pc \notin {"refresh", "commit"}, BasesOK(s)'
    PROVE  SessionCounts(s)'
  BY DEF SessionCounts, LocksOK, OffsOK, FirstThere, FoundLink, HoldsCounts

LEMMA NoSessionCounts ==
    ASSUME NEW s \in Sessions, session'[s] = NoSession
    PROVE  SessionCounts(s)'
<1>1. BasesOK(s)'
    BY NoSessionShape DEF NoRows, ReadRow, BasesOK
<1>. QED BY <1>1, NoSessionShape, FreshSessionCounts

LEMMA BeginKeepsCounts ==
    ASSUME Types, Stages, RowsInv, CountsInv, NEW s \in Sessions,
           \/ \E e \in Evidence : Process(s, e)
           \/ \E k \in Keys, e \in Evidence : Deactivate(s, k, e)
           \/ \E k, to \in Keys, e \in Evidence : Regroup(s, k, to, e)
    PROVE  CountsInv'
<1> DEFINE y == session'[s]
<1>0. \A k \in Keys : ReadRow(candidates[k], k) /\ ReadRow(NoRow, k)
    BY CandidateIsRead DEF ReadRow
<1>1. CASE \E e \in Evidence : Process(s, e)
  <2>1. PICK e \in Evidence : Process(s, e)
    BY <1>1
  <2>2. /\ Moves(s) /\ UNCHANGED <<candidates, links>> /\ y.pc = "match" /\ y.base = NoRows
        /\ y.new = {} /\ y.locks = {} /\ y.on = {} /\ y.off = {} /\ contended \subseteq contended'
    BY <2>1, ProcessEffect
  <2>b. \A k \in Keys : ReadRow(y.base[k], k)
    BY <1>0, <2>2 DEF NoRows
  <2>3. BasesOK(s)'
    BY <2>b, <2>2, QuietBases
  <2>. QED BY <2>2, <2>3, FreshSessionCounts, QuietKeepsCounts
<1>2. CASE \E k \in Keys, e \in Evidence : Deactivate(s, k, e)
  <2>1. PICK k \in Keys, e \in Evidence : Deactivate(s, k, e)
    BY <1>2
  <2>2. /\ Moves(s) /\ UNCHANGED <<candidates, links>> /\ y.pc = "off" /\ y.base = NoRows
        /\ y.new = {} /\ y.locks = {} /\ y.on = {} /\ y.off = {} /\ contended \subseteq contended'
    BY <2>1, DeactivateEffect
  <2>b. \A j \in Keys : ReadRow(y.base[j], j)
    BY <1>0, <2>2 DEF NoRows
  <2>3. BasesOK(s)'
    BY <2>b, <2>2, QuietBases
  <2>. QED BY <2>2, <2>3, FreshSessionCounts, QuietKeepsCounts
<1>3. CASE \E k, to \in Keys, e \in Evidence : Regroup(s, k, to, e)
  <2>1. PICK k \in Keys, to \in Keys, e \in Evidence : Regroup(s, k, to, e)
    BY <1>3
  <2>2. /\ Moves(s) /\ UNCHANGED <<candidates, links>> /\ y.pc = "off"
        /\ y.new = {} /\ y.locks = {} /\ y.on = {} /\ y.off = {} /\ contended \subseteq contended'
    BY <2>1, RegroupEffect
  <2>b. \A j \in Keys : y.base[j] = IF j = to THEN candidates[to] ELSE NoRow
    BY <2>1, RegroupEffect
  <2>c. \A j \in Keys : ReadRow(y.base[j], j)
    BY <1>0, <2>b
  <2>3. BasesOK(s)'
    BY <2>c, <2>2, QuietBases
  <2>. QED BY <2>2, <2>3, FreshSessionCounts, QuietKeepsCounts
<1>. QED BY <1>1, <1>2, <1>3

LEMMA MatchKeepsCounts ==
    ASSUME Types, Stages, RowsInv, CountsInv, NEW s \in Sessions, MatchExisting(s)
    PROVE  CountsInv'
<1> DEFINE x == session[s]
           y == session'[s]
<1>1. /\ Moves(s) /\ Unwritten /\ x.pc = "match" /\ Keeps(x, y) /\ y.cand \in Keys
      /\ y.on = x.on /\ y.new = x.new /\ y.locks = x.locks
      /\ y.pc \in {"create", "associate"}
      /\ y.base = [x.base EXCEPT ![y.cand] = candidates[y.cand]]
    BY MatchExistingEffect
<1>2. x.base = NoRows /\ x.new = {} /\ x.locks = {} /\ x.on = {} /\ x.off = {}
    BY <1>1 DEF Stages, Stage
<1>3. ASSUME NEW k \in Keys PROVE ReadRow(y.base[k], k)
  <2>1. y.base[k] \in {NoRow, candidates[k]}
    BY <1>1, <1>2 DEF NoRows
  <2>. QED BY <2>1, CandidateIsRead DEF ReadRow
<1>4. UNCHANGED <<candidates, links>> /\ contended \subseteq contended'
    BY <1>1 DEF Unwritten, history
<1>5. BasesOK(s)'
    BY <1>3, <1>4, QuietBases
<1>. QED BY <1>1, <1>2, <1>4, <1>5, FreshSessionCounts, QuietKeepsCounts DEF Keeps

LEMMA CreateKeepsCounts ==
    ASSUME Types, Stages, RowsInv, CountsInv, NEW s \in Sessions, CreateOrGet(s)
    PROVE  CountsInv'
<1> DEFINE x == session[s]
           y == session'[s]
<1>0. x.cand \in Keys
    BY CreateOrGetEffect
<1>k. PICK k \in Keys : k = x.cand
    BY <1>0
<1>1. /\ Moves(s) /\ Unwritten /\ x.pc = "create" /\ Keeps(x, y) /\ y.pc = "associate"
      /\ y.cand = k /\ y.on = x.on /\ \A o \in Others(s) : k \notin session[o].new
    BY <1>k, CreateOrGetEffect
<1>2. \/ /\ candidates[k] = NoRow /\ y.new = x.new \cup {k} /\ y.locks = x.locks \cup {k}
         /\ y.base = [x.base EXCEPT ![k] = NewRow(x.ev)]
      \/ /\ candidates[k] # NoRow /\ y.new = x.new /\ y.locks = x.locks
         /\ \/ y.base = x.base
            \/ y.base = [x.base EXCEPT ![k] = candidates[k]]
    BY <1>k, CreateOrGetEffect
<1>3. x.on = {} /\ x.off = {} /\ x.new = {} /\ x.locks = {} /\ x \in Session
    BY <1>1 DEF Stages, Stage, Types
<1>4. UNCHANGED <<candidates, links>> /\ contended \subseteq contended'
    BY <1>1 DEF Unwritten, history
<1>5. \A j \in Keys : ReadRow(x.base[j], j) /\ ReadRow(candidates[j], j)
    BY <1>3, CandidateIsRead DEF CountsInv, SessionCounts, BasesOK
<1>6. ASSUME NEW j \in Keys PROVE j \in y.new \/ ReadRow(y.base[j], j)
  <2>1. j = k \/ y.base[j] = x.base[j]
    BY <1>2, <1>3 DEF Session
  <2>2. k \in y.new \/ y.base[k] = x.base[k] \/ y.base[k] = candidates[k]
    BY <1>2, <1>3 DEF Session
  <2>. QED BY <1>5, <2>1, <2>2
<1>7. BasesOK(s)'
    BY <1>4, <1>6, QuietBases
<1>8. LocksOK(s)'
    BY <1>2, <1>3 DEF LocksOK
<1>9. OffsOK(s)' /\ FirstThere(s)' /\ FoundLink(s)' /\ HoldsCounts(s)'
    BY <1>1, <1>3 DEF OffsOK, FirstThere, FoundLink, HoldsCounts, Keeps
<1>10. \A j \in y.locks : j \in x.locks \/ \A o \in Others(s) : j \notin session[o].locks
  <2>1. candidates[k] = NoRow => \A o \in Others(s) : k \notin session[o].locks
    BY <1>1 DEF CountsInv, SessionCounts, LocksOK, Others
  <2>. QED BY <1>2, <1>3, <2>1
<1>. QED BY <1>1, <1>4, <1>7, <1>8, <1>9, <1>10, QuietKeepsCounts DEF SessionCounts

\* A call that gives up.
LEMMA GivesUpKeepsCounts ==
    ASSUME Types, CountsInv, NEW s \in Sessions, Moves(s), Unwritten, session'[s] = NoSession
    PROVE  CountsInv'
<1>1. UNCHANGED <<candidates, links>> /\ contended \subseteq contended'
    BY DEF Unwritten, history
<1>. QED BY <1>1, NoSessionCounts, NoSessionShape, QuietKeepsCounts

\* What a session may lock is there.
LEMMA MayLock ==
    ASSUME RowsInv, NEW s \in Sessions, NEW k \in Keys,
           session[s].mine[k] # session[s].base[k] \/ session[s].mine[k] # NoRow
    PROVE  candidates[k] # NoRow \/ k \in session[s].new
<1>1. MineAt(s, k)
    BY DEF RowsInv
<1>. QED BY <1>1 DEF MineAt

LEMMA AssociateKeepsCounts ==
    ASSUME Types, Stages, RowsInv, OneInv, CountsInv, NEW s \in Sessions, Associate(s)
    PROVE  CountsInv'
<1> DEFINE x == session[s]
           y == session'[s]
<1>1. Moves(s) /\ Unwritten /\ x.pc = "associate" /\ Flushes(s, x) /\ x.cand \in Keys /\ x.ev \in Evidence
    BY AssociateEffect
<1>2. \/ y = NoSession
      \/ /\ Keeps(x, y) /\ y.cand = x.cand /\ y.on = x.on /\ y.base = x.base /\ y.new = x.new
         /\ y.locks = x.locks \cup Dirty(x)
         /\ \/ y.pc = "link"
            \/ y.pc = "refresh" /\ CandidatesOf(s, x.ev) = {x.cand}
    BY AssociateEffect
<1>3. CASE y = NoSession
    BY <1>1, <1>3, GivesUpKeepsCounts
<1>4. CASE /\ Keeps(x, y) /\ y.cand = x.cand /\ y.on = x.on /\ y.base = x.base /\ y.new = x.new
           /\ y.locks = x.locks \cup Dirty(x)
           /\ \/ y.pc = "link"
              \/ y.pc = "refresh" /\ CandidatesOf(s, x.ev) = {x.cand}
  <2>0. x.on = {} /\ x \in Session
    BY <1>1 DEF Stages, Stage, Types
  <2>1. UNCHANGED <<candidates, links>> /\ contended' = contended
    BY <1>1 DEF Unwritten, history
  <2>2. SessionCounts(s)
    BY DEF CountsInv
  <2>3. BasesOK(s)'
    BY <1>4, <2>1, <2>2, QuietBases DEF SessionCounts, BasesOK
  <2>4. LocksOK(s)'
    <3>1. \A j \in Dirty(x) : candidates[j] # NoRow \/ j \in x.new
      BY MayLock DEF Dirty
    <3>. QED BY <1>4, <2>1, <2>2, <3>1 DEF SessionCounts, LocksOK
  <2>5. OffsOK(s)'
    BY <1>4, <2>1, <2>2 DEF SessionCounts, OffsOK, Ever, Keeps
  <2>6. FirstThere(s)' /\ HoldsCounts(s)'
    BY <1>4, <2>0 DEF FirstThere, HoldsCounts
  <2>7. FoundLink(s)'
    <3>1. CASE y.pc = "link"
      BY <3>1 DEF FoundLink
    <3>2. CASE y.pc = "refresh" /\ CandidatesOf(s, x.ev) = {x.cand}
      <4>1. PICK l \in Visible(s) : l.ev = x.ev /\ l.cand = x.cand
        BY <3>2 DEF CandidatesOf
      <4>2. x.ev \in contended
        BY <1>1, <4>1 DEF OneInv, OneAt, Seen
      <4>3. x.ev \in Ever(x.cand)
        BY <2>0, <4>1 DEF Visible, Ever
      <4>4. x.ev \in contended' /\ x.ev \in Ever(x.cand)' /\ y.ev = x.ev /\ y.cand = x.cand
        BY <1>4, <2>1, <4>2, <4>3 DEF Ever, Keeps
      <4>. QED BY <4>4 DEF FoundLink, Ever
    <3>. QED BY <1>4, <3>1, <3>2
  <2>8. \A j \in y.locks : j \in x.locks \/ \A o \in Others(s) : j \notin session[o].locks
    BY <1>1, <1>4 DEF Flushes
  <2>. QED BY <1>1, <2>1, <2>3, <2>4, <2>5, <2>6, <2>7, <2>8, QuietKeepsCounts DEF SessionCounts
<1>. QED BY <1>2, <1>3, <1>4

LEMMA AddLinkKeepsCounts ==
    ASSUME Types, Stages, CountsInv, NEW s \in Sessions, AddLink(s)
    PROVE  CountsInv'
<1> DEFINE x == session[s]
           y == session'[s]
<1>1. Moves(s) /\ Unwritten /\ x.pc = "link" /\ x.cand \in Keys /\ x.ev \in Evidence /\ x.on = {}
    BY AddLinkEffect
<1>2. \/ y = NoSession
      \/ /\ Keeps(x, y) /\ y.pc = "refresh" /\ y.cand = x.cand /\ y.on = {TheLink(x)}
         /\ x.cand \notin CandidatesOf(s, x.ev)
         /\ y.base = x.base /\ y.new = x.new /\ y.locks = x.locks
    BY AddLinkEffect
<1>3. CASE y = NoSession
    BY <1>1, <1>3, GivesUpKeepsCounts
<1>4. CASE /\ Keeps(x, y) /\ y.pc = "refresh" /\ y.cand = x.cand /\ y.on = {TheLink(x)}
           /\ x.cand \notin CandidatesOf(s, x.ev)
           /\ y.base = x.base /\ y.new = x.new /\ y.locks = x.locks
  <2>1. UNCHANGED <<candidates, links>> /\ contended' = contended
    BY <1>1 DEF Unwritten, history
  <2>2. SessionCounts(s)
    BY DEF CountsInv
  <2>3. BasesOK(s)'
    BY <1>4, <2>1, <2>2, QuietBases DEF SessionCounts, BasesOK
  <2>4. LocksOK(s)'
    BY <1>4, <2>1, <2>2 DEF SessionCounts, LocksOK
  <2>5. OffsOK(s)'
    BY <1>4, <2>1, <2>2 DEF SessionCounts, OffsOK, Ever, Keeps
  <2>6. FoundLink(s)' /\ HoldsCounts(s)'
    BY <1>4 DEF FoundLink, HoldsCounts
  <2>7. Clean(x.cand) => x.ev \notin Ever(x.cand)
    <3>1. \A p \in x.off : p[1] # x.cand
      BY <1>1 DEF Stages, Stage
    <3>2. ASSUME NEW l \in links, l.cand = x.cand, l.ev = x.ev, l.active PROVE FALSE
      <4>1. l \in Visible(s)
        BY <3>1, <3>2 DEF Visible
      <4>. QED BY <1>4, <3>2, <4>1 DEF CandidatesOf
    <3>. QED BY <3>2 DEF Clean, Ever
  <2>8. FirstThere(s)'
    <3>1. y.cand = x.cand /\ y.ev = x.ev
      BY <1>4 DEF Keeps
    <3>. QED BY <2>1, <2>7, <3>1 DEF FirstThere, Clean, Ever
  <2>. QED BY <1>1, <1>4, <2>1, <2>3, <2>4, <2>5, <2>6, <2>8, QuietKeepsCounts DEF SessionCounts
<1>. QED BY <1>2, <1>3, <1>4

LEMMA TakeOffKeepsCounts ==
    ASSUME Types, Stages, RowsInv, CountsInv, NEW s \in Sessions, TakeOff(s)
    PROVE  CountsInv'
<1> DEFINE x == session[s]
           y == session'[s]
<1>0. x.cand \in Keys
    BY TakeOffEffect
<1>k. PICK k \in Keys : k = x.cand
    BY <1>0
<1>1. /\ Moves(s) /\ Unwritten /\ x.pc = "off" /\ y.ev = x.ev /\ y.on = x.on
      /\ y.off = {<<k, x.ev>>} /\ y.new = x.new /\ y.locks = x.locks
      /\ y.base = [x.base EXCEPT ![k] = candidates[k]]
      /\ \/ y.pc = "commit" /\ y.cand = k
         \/ y.pc = "associate"
    BY <1>k, TakeOffEffect
<1>2. x.on = {} /\ x.new = {} /\ x.locks = {} /\ x \in Session
    BY <1>1 DEF Stages, Stage, Types
<1>3. UNCHANGED <<candidates, links>> /\ contended \subseteq contended'
    BY <1>1 DEF Unwritten, history
<1>4. \A j \in Keys : ReadRow(x.base[j], j) /\ ReadRow(candidates[j], j)
    BY <1>2, CandidateIsRead DEF CountsInv, SessionCounts, BasesOK
<1>5. \A j \in Keys : y.base[j] = x.base[j] \/ y.base[j] = candidates[j]
    BY <1>1, <1>2 DEF Session
<1>6. BasesOK(s)'
    BY <1>3, <1>4, <1>5, QuietBases
<1>7. x.ev \in Ever(k)
    BY <1>k, <1>1, <1>2 DEF RowsInv, Grounded, Ever
<1>8. OffsOK(s)'
  <2>1. \A p \in y.off : p[1] = k /\ p[2] = x.ev
    BY <1>1
  <2>. QED BY <1>3, <1>7, <2>1 DEF OffsOK, Ever
<1>9. LocksOK(s)' /\ FirstThere(s)' /\ FoundLink(s)' /\ HoldsCounts(s)'
    BY <1>1, <1>2 DEF LocksOK, FirstThere, FoundLink, HoldsCounts
<1>. QED BY <1>1, <1>2, <1>3, <1>6, <1>8, <1>9, QuietKeepsCounts DEF SessionCounts

LEMMA RefreshKeepsCounts ==
    ASSUME Types, Stages, RowsInv, CountsInv, NEW s \in Sessions, Refresh(s)
    PROVE  CountsInv'
<1> DEFINE x == session[s]
           y == session'[s]
<1>0. x.cand \in Keys
    BY RefreshEffect
<1>k. PICK k \in Keys : k = x.cand
    BY <1>0
<1> DEFINE merged == Merged(x.mine[k], x.ev)
           A == ActiveIn(s, k)
<1>1. /\ Moves(s) /\ Unwritten /\ x.pc = "refresh" /\ Keeps(x, y) /\ y.pc = "commit"
      /\ x.ev \in Evidence /\ x.cand = k /\ y.cand = k /\ y.on = x.on
      /\ y.base = x.base /\ y.new = x.new
    BY <1>k, RefreshEffect
<1>2. /\ merged \in Rows
      /\ y.mine = [x.mine EXCEPT ![k] = Aggregates(merged, A)]
      /\ x.locks \subseteq y.locks
      /\ merged # x.base[k] => k \in y.locks
    BY <1>k, RefreshEffect
<1>3. \A j \in y.locks \ x.locks : /\ j # k => x.mine[j] # x.base[j]
                                 /\ \A o \in Others(s) : j \notin session[o].locks
    BY <1>k, RefreshEffect
<1>4. UNCHANGED <<candidates, links>> /\ contended' = contended
    BY <1>1 DEF Unwritten, history
<1>5. SessionCounts(s) /\ x \in Session /\ y \in Session
    BY <1>1 DEF CountsInv, Types, Moves
<1>6. BasesOK(s)'
    BY <1>1, <1>4, <1>5, QuietBases DEF SessionCounts, BasesOK
<1>7. LocksOK(s)'
  <2>1. x.mine[k] # NoRow
    BY <1>1 DEF RowsInv, Grounded
  <2>2. \A j \in y.locks \ x.locks : j \in Keys /\ (candidates[j] # NoRow \/ j \in x.new)
    <3> SUFFICES ASSUME NEW j \in y.locks \ x.locks PROVE j \in Keys /\ (candidates[j] # NoRow \/ j \in x.new)
      OBVIOUS
    <3>1. j \in Keys
      BY <1>5 DEF Session
    <3>2. x.mine[j] # x.base[j] \/ x.mine[j] # NoRow
      BY <1>3, <2>1
    <3>. QED BY <3>1, <3>2, MayLock
  <2>. QED BY <1>1, <1>2, <1>4, <1>5, <2>2 DEF SessionCounts, LocksOK
<1>8. OffsOK(s)'
    BY <1>1, <1>4, <1>5 DEF SessionCounts, OffsOK, Ever, Keeps
<1>9. FirstThere(s)' /\ FoundLink(s)'
    BY <1>1, <1>4, <1>5 DEF SessionCounts, FirstThere, FoundLink, Ever, Clean, Keeps
<1>10. HoldsCounts(s)'
  <2> SUFFICES ASSUME x.on # {}, x.ev \notin contended, Clean(k)
               PROVE  k \in y.locks /\ y.mine[k] = Aggregates(y.mine[k], Active(k) \cup {x.ev})
    BY <1>1, <1>4 DEF HoldsCounts, Clean, Active, Keeps
  <2>1. A = Active(k) \cup {x.ev}
    <3>1. x.on = {TheLink(x)} /\ TheLink(x).cand = k /\ TheLink(x).ev = x.ev
      <4>1. x.on \subseteq {TheLink(x)}
        BY DEF Stages, Stage, TheLink
      <4>. QED BY <1>1, <4>1 DEF TheLink
    <3>2. \A p \in x.off : p[1] # k
      BY <1>1 DEF Stages, Stage
    <3>3. \A l \in links : l.cand = k => (l \in Visible(s) <=> l.active \/ l = TheLink(x))
      BY <3>1, <3>2 DEF Visible
    <3>. QED BY <3>1, <3>3 DEF ActiveIn, Active, Visible
  <2>2. y.mine[k] = Aggregates(y.mine[k], A)
    <3>1. A \in SUBSET Evidence
      BY ActiveInType
    <3>2. y.mine[k] = Aggregates(merged, A)
      BY <1>2, <1>5 DEF Session
    <3>. QED BY <1>2, <3>1, <3>2, CoversAggregates
  <2>3. k \in y.locks
    <3>1. CASE k \in x.new
      BY <1>2, <1>5, <3>1 DEF SessionCounts, LocksOK
    <3>2. CASE k \notin x.new
      <4>1. ReadRow(x.base[k], k)
        BY <1>5, <3>2 DEF SessionCounts, BasesOK
      <4>2. <<"hash", x.ev>> \in merged.signatures
        <5>1. x.mine[k] \in Rows
          BY <1>5 DEF Session
        <5>2. merged.signatures = x.mine[k].signatures \cup Signatures(x.ev)
          BY <1>1, <5>1, MergedShape
        <5> HIDE DEF merged
        <5>. QED BY <1>1, <5>2, SignatureKinds
      <4>3. x.ev \notin Ever(k)
        BY <1>1, <1>5 DEF SessionCounts, FirstThere
      <4>4. ASSUME merged = x.base[k] PROVE FALSE
        <5>1. x.base[k] # NoRow
          BY <4>2, <4>4, NoRowShape
        <5>2. PICK d \in Ever(k) : <<"hash", x.ev>> \in Signatures(d)
          BY <4>1, <4>2, <4>4, <5>1 DEF ReadRow, Backed
        <5>3. d \in Evidence
          BY EverType
        <5>. QED BY <4>3, <5>2, <5>3, SignatureKinds
      <4>. QED BY <1>2, <4>4
    <3>. QED BY <3>1, <3>2
  <2>. QED BY <2>1, <2>2, <2>3
<1>11. \A j \in y.locks : j \in x.locks \/ \A o \in Others(s) : j \notin session[o].locks
    BY <1>3
<1>. QED BY <1>1, <1>4, <1>6, <1>7, <1>8, <1>9, <1>10, <1>11, QuietKeepsCounts DEF SessionCounts

\* Counts of more evidence are no smaller.
LEMMA NumbersGrow ==
    ASSUME NEW a \in Rows, NEW b \in Rows, NEW S \in SUBSET Evidence, NEW T \in SUBSET Evidence,
           S # {}, S \subseteq T, a = Aggregates(a, S), b = Aggregates(b, T)
    PROVE  a.count <= b.count /\ a.sources <= b.sources /\ a.score <= b.score
<1>1. a.count = Cardinality(S) /\ a.sources = Cardinality(Sources(S)) /\ a.score = ScoreOf(S)
    BY AggregatesShape
<1>2. b.count = Cardinality(T) /\ b.sources = Cardinality(Sources(T)) /\ b.score = ScoreOf(T)
    BY AggregatesShape
<1>3. Cardinality(S) <= Cardinality(T) /\ Cardinality(Sources(S)) <= Cardinality(Sources(T))
    BY CountsGrow
<1>4. ScoreOf(S) <= ScoreOf(T)
    BY ScoreOfGrows
<1>. QED BY <1>1, <1>2, <1>3, <1>4

\* Whatever a row was when it was read, the columns written over it leave it with the counts
\* of the evidence they were counted from, if that has only grown.
LEMMA WrittenCounts ==
    ASSUME NEW row \in Rows, NEW base \in Rows, NEW mine \in Rows,
           NEW A \in SUBSET Evidence, NEW T \in SUBSET Evidence, A # {}, A \subseteq T,
           row = Aggregates(row, A), mine = Aggregates(mine, T),
           base.count <= row.count, base.sources <= row.sources, base.score <= row.score
    PROVE  Written(row, base, mine) = Aggregates(Written(row, base, mine), T)
<1> DEFINE w == Written(row, base, mine)
           agg == Aggregates(w, T)
<1>1. /\ w \in Rows
      /\ w.count = IF mine.count # base.count THEN mine.count ELSE row.count
      /\ w.sources = IF mine.sources # base.sources THEN mine.sources ELSE row.sources
      /\ w.status = IF mine.status # base.status THEN mine.status ELSE row.status
      /\ w.score = IF mine.score # base.score THEN mine.score ELSE row.score
    BY WrittenShape
<1> HIDE DEF w
<1>2. row.count <= mine.count /\ row.sources <= mine.sources /\ row.score <= mine.score
    BY NumbersGrow
<1>3. /\ row.count \in Nat /\ row.sources \in Nat /\ row.score \in Nat
      /\ mine.count \in Nat /\ mine.sources \in Nat /\ mine.score \in Nat
      /\ base.count \in Nat /\ base.sources \in Nat /\ base.score \in Nat
    BY DEF Rows
<1>4. w.count = mine.count /\ w.sources = mine.sources /\ w.score = mine.score
    BY <1>1, <1>2, <1>3
<1>5. /\ mine.count = Cardinality(T) /\ mine.sources = Cardinality(Sources(T)) /\ mine.score = ScoreOf(T)
      /\ mine.status = IF T = {} THEN "rejected"
                       ELSE IF mine.status = "rejected" THEN "candidate" ELSE mine.status
    BY AggregatesShape
<1>6. row.status = IF A = {} THEN "rejected"
                   ELSE IF row.status = "rejected" THEN "candidate" ELSE row.status
    BY AggregatesShape
<1>7. T # {} /\ w.status # "rejected"
    BY <1>1, <1>5, <1>6
<1>8. /\ agg \in Rows /\ agg.signatures = w.signatures /\ agg.titles = w.titles
      /\ agg.entities = w.entities /\ agg.first = w.first /\ agg.latest = w.latest
      /\ agg.count = Cardinality(T) /\ agg.sources = Cardinality(Sources(T)) /\ agg.score = ScoreOf(T)
      /\ agg.status = IF T = {} THEN "rejected"
                      ELSE IF w.status = "rejected" THEN "candidate" ELSE w.status
    BY <1>1, AggregatesShape
<1> HIDE DEF agg
<1>9. agg = w
    BY <1>1, <1>4, <1>5, <1>7, <1>8, RowsEqual
<1>. QED BY <1>9 DEF agg, w

\* What a commit does to a candidate that is clean after it.
LEMMA CommitGrows ==
    ASSUME Types, Stages, CountsInv, NEW s \in Sessions, Commit(s), NEW k \in Keys, Clean(k)'
    PROVE  LET x == session[s] IN
           /\ Clean(k)
           /\ \A p \in x.off : p[1] # k
           /\ k = x.cand /\ x.on # {} => x.ev \notin contended /\ Active(k)' = Active(k) \cup {x.ev}
           /\ k # x.cand \/ x.on = {} => Active(k)' = Active(k)
<1> DEFINE x == session[s]
<1>1. /\ contended' = contended /\ x.on \subseteq links'
      /\ \A d \in links :
            \E l \in links' : /\ l.cand = d.cand /\ l.ev = d.ev
                              /\ l.active <=> (d.active /\ <<d.cand, d.ev>> \notin x.off)
    BY CommitEffect DEF history
<1>2. ASSUME NEW d \in links, d.cand = k
      PROVE  d.active /\ d.ev \notin contended /\ <<k, d.ev>> \notin x.off
    BY <1>1, <1>2 DEF Clean
<1>3. ASSUME NEW p \in x.off PROVE p[1] # k
  <2>1. p = <<p[1], p[2]>>
    BY DEF Types, Session
  <2>2. p[2] \in Ever(p[1])
    BY DEF CountsInv, SessionCounts, OffsOK
  <2>. QED BY <1>2, <2>1, <2>2 DEF Ever
<1>4. \A l \in x.on : l.cand = x.cand /\ l.ev = x.ev
    BY DEF Stages, Stage
<1>5. Active(k)' = ActiveIn(s, k)
    BY CommitShows
<1>6. ActiveIn(s, k) = Active(k) \cup {l.ev : l \in {l \in x.on : l.cand = k}}
  <2>1. \A l \in links : l.cand = k /\ l.active => l \in Visible(s)
    BY <1>3 DEF Visible
  <2>2. \A l \in Visible(s) : (l \in links /\ l.active) \/ l \in x.on
    BY DEF Visible
  <2>3. x.on \subseteq Visible(s)
    BY DEF Visible
  <2>. QED BY <2>1, <2>2, <2>3 DEF ActiveIn, Active
<1>7. Clean(k)
    BY <1>2 DEF Clean
<1>8. ASSUME k = x.cand, x.on # {} PROVE x.ev \notin contended /\ Active(k)' = Active(k) \cup {x.ev}
  <2>1. PICK l \in x.on : l.cand = k /\ l.ev = x.ev
    BY <1>4, <1>8
  <2>2. x.ev \notin contended
    BY <1>1, <2>1 DEF Clean
  <2>3. {m.ev : m \in {m \in x.on : m.cand = k}} = {x.ev}
    BY <1>4, <2>1
  <2>. QED BY <1>5, <1>6, <2>2, <2>3
<1>9. ASSUME k # x.cand \/ x.on = {} PROVE Active(k)' = Active(k)
  <2>1. {m \in x.on : m.cand = k} = {}
    BY <1>4, <1>9
  <2>. QED BY <1>5, <1>6, <2>1
<1>. QED BY <1>3, <1>7, <1>8, <1>9

LEMMA CommitKeepsCounted ==
    ASSUME Types, Stages, RowsInv, CountsInv, NEW s \in Sessions, Commit(s), NEW k \in Keys
    PROVE  Counted(k)'
<1> DEFINE x == session[s]
           T == Active(k)'
<1> SUFFICES ASSUME candidates'[k] # NoRow, Clean(k)'
             PROVE  candidates'[k] = Aggregates(candidates'[k], T) /\ T # {}
    BY DEF Counted, Aggregates
<1>1. /\ x.pc = "commit"
      /\ candidates'[k] = IF k \in x.new THEN x.mine[k] ELSE Written(candidates[k], x.base[k], x.mine[k])
    BY CommitEffect
<1>2. /\ Clean(k)
      /\ \A p \in x.off : p[1] # k
      /\ k = x.cand /\ x.on # {} => x.ev \notin contended /\ T = Active(k) \cup {x.ev}
      /\ k # x.cand \/ x.on = {} => T = Active(k)
    BY CommitGrows
<1>3. /\ x.mine[k] \in Rows /\ x.base[k] \in Rows /\ candidates[k] \in Rows
      /\ \A j \in x.new : j = x.cand
      /\ x.mine[k] # x.base[k] => k = x.cand \/ <<k, x.ev>> \in x.off
    BY <1>1 DEF Types, Session, Stages, Stage
<1>4. SessionCounts(s) /\ Counted(k)
    BY DEF CountsInv
<1>5. CASE k # x.cand
  <2>1. k \notin x.new /\ x.mine[k] = x.base[k]
    BY <1>2, <1>3, <1>5
  <2>2. candidates'[k] = candidates[k]
    BY <1>1, <1>3, <2>1, WrittenSame
  <2>. QED BY <1>2, <1>4, <1>5, <2>2 DEF Counted
<1>6. CASE k = x.cand /\ x.on = {}
  <2>1. <<x.cand, x.ev>> \notin x.off
    BY <1>2, <1>6
  <2>2. x.ev \in contended /\ x.ev \in Ever(k)
    BY <1>1, <1>4, <1>6, <2>1 DEF SessionCounts, FoundLink
  <2>. QED BY <1>2, <2>2 DEF Clean, Ever
<1>7. CASE k = x.cand /\ x.on # {}
  <2>1. T = Active(k) \cup {x.ev} /\ T # {}
    BY <1>2, <1>7
  <2>2. x.mine[k] = Aggregates(x.mine[k], T)
    BY <1>1, <1>2, <1>4, <1>7, <2>1 DEF SessionCounts, HoldsCounts
  <2>3. CASE k \in x.new
    BY <1>1, <2>1, <2>2, <2>3
  <2>4. CASE k \notin x.new
    <3>1. candidates[k] # NoRow
      BY <1>1, <1>7, <2>4, MayLock DEF RowsInv, Grounded
    <3>2. candidates[k] = Aggregates(candidates[k], Active(k)) /\ Active(k) # {}
      BY <1>2, <1>4, <3>1 DEF Counted
    <3>3. Active(k) \in SUBSET Evidence /\ T \in SUBSET Evidence /\ Active(k) \subseteq T
      <4>1. Active(k) \in SUBSET Evidence
        BY DEF Types, Active, Link
      <4>2. T \in SUBSET Evidence
        BY CommitShows, ActiveInType
      <4>. QED BY <2>1, <4>1, <4>2
    <3>4. ReadRow(x.base[k], k)
      BY <1>4, <2>4 DEF SessionCounts, BasesOK
    <3>5. /\ x.base[k].count <= candidates[k].count
          /\ x.base[k].sources <= candidates[k].sources
          /\ x.base[k].score <= candidates[k].score
      <4>1. CASE x.base[k] = NoRow
        BY <1>3, <4>1 DEF NoRow, Rows
      <4>2. CASE x.base[k] # NoRow
        <5>1. PICK B \in SUBSET Active(k) : B # {} /\ x.base[k] = Aggregates(x.base[k], B)
          BY <1>2, <3>4, <4>2 DEF ReadRow
        <5>2. B \in SUBSET Evidence
          BY <3>3, <5>1
        <5>. QED BY <1>3, <3>2, <3>3, <5>1, <5>2, NumbersGrow
      <4>. QED BY <4>1, <4>2
    <3>. HIDE DEF T
    <3>6. Written(candidates[k], x.base[k], x.mine[k])
            = Aggregates(Written(candidates[k], x.base[k], x.mine[k]), T)
      BY <1>3, <2>2, <3>2, <3>3, <3>5, WrittenCounts
    <3>. QED BY <1>1, <2>1, <2>4, <3>6
  <2>. QED BY <2>3, <2>4
<1>. QED BY <1>5, <1>6, <1>7

\* A candidate that is there stays there.
LEMMA CommitIsThere ==
    ASSUME Types, Stages, RowsInv, NEW s \in Sessions, Commit(s), NEW k \in Keys, candidates[k] # NoRow
    PROVE  candidates'[k] # NoRow
<1> DEFINE x == session[s]
           w == Written(candidates[k], x.base[k], x.mine[k])
<1>1. candidates'[k] = IF k \in x.new THEN x.mine[k] ELSE w
    BY CommitEffect
<1>2. /\ x.mine[k] \in Rows /\ x.base[k] \in Rows /\ candidates[k] \in Rows
      /\ \A j \in x.new : j = x.cand
    BY DEF Types, Session, Stages, Stage
<1>3. candidates[k].status # "absent" /\ MineAt(s, k)
    BY DEF RowsInv, RowAt, Backed
<1>4. CASE k \in x.new
  <2>1. x.pc = "commit"
    BY CommitEffect
  <2>2. x.mine[k] # NoRow
    BY <1>2, <1>4, <2>1 DEF RowsInv, Grounded
  <2>. QED BY <1>1, <1>4, <2>2
<1>5. CASE k \notin x.new
  <2>1. w.status = IF x.mine[k].status # x.base[k].status THEN x.mine[k].status ELSE candidates[k].status
    BY <1>2, WrittenShape
  <2>2. w.status # "absent"
    BY <1>3, <2>1 DEF MineAt, Backed
  <2> HIDE DEF w
  <2>. QED BY <1>1, <1>5, <2>2, NoRowShape
<1>. QED BY <1>4, <1>5

LEMMA CommitKeepsOthers ==
    ASSUME Types, Stages, RowsInv, OneInv, CountsInv, NEW s \in Sessions, Commit(s),
           NEW o \in Sessions, o # s
    PROVE  SessionCounts(o)'
<1> DEFINE x == session[s]
           z == session[o]
<1>1. session'[o] = z /\ contended' = contended /\ x.pc = "commit" /\ x.ev \in Evidence
    BY CommitEffect DEF Moves, history
<1>2. SessionCounts(o) /\ SessionCounts(s) /\ Disjoint(s, o)
    BY DEF CountsInv
<1>3. z \in Session /\ Stage(z)
    BY DEF Types, Stages
<1>4. \A k \in Keys : Ever(k) \subseteq Ever(k)'
    BY CommitLinks
<1>5. ASSUME NEW k \in Keys, Clean(k)' PROVE Clean(k) /\ Active(k) \subseteq Active(k)'
    BY <1>5, CommitGrows
<1>6. LocksOK(o)'
  <2>1. z.locks \subseteq Keys
    BY <1>3 DEF Session
  <2>. QED BY <1>1, <1>2, <2>1, CommitIsThere DEF SessionCounts, LocksOK
<1>7. BasesOK(o)'
  <2>1. ASSUME NEW k \in Keys, NEW row, ReadRow(row, k) PROVE ReadRow(row, k)'
    <3>1. CASE row = NoRow
      BY <3>1 DEF ReadRow
    <3>2. CASE row # NoRow
      <4>1. Backed(row, Ever(k)')
        BY <1>4, <2>1, <3>2, BackedGrows DEF ReadRow
      <4>2. Clean(k)' => \E B \in SUBSET Active(k)' : B # {} /\ row = Aggregates(row, B)
        BY <1>5, <2>1, <3>2 DEF ReadRow
      <4>. QED BY <4>1, <4>2 DEF ReadRow, Backed, Aggregates
    <3>. QED BY <3>1, <3>2
  <2>2. \A k \in Keys : k \in z.new \/ ReadRow(z.base[k], k)
    BY <1>2 DEF SessionCounts, BasesOK
  <2>. QED BY <1>1, <2>1, <2>2 DEF BasesOK
<1>8. OffsOK(o)'
  <2>1. \A p \in z.off : p[1] \in Keys /\ p[2] \in Ever(p[1])
    BY <1>2, <1>3 DEF Session, SessionCounts, OffsOK
  <2>. QED BY <1>1, <1>4, <2>1 DEF OffsOK
<1>9. z.on # {} \/ z.pc \in {"refresh", "commit"} => z.cand \in Keys /\ z.ev \in Evidence
    BY <1>3, NoSessionShape DEF Stage
<1>10. FoundLink(o)'
    BY <1>1, <1>2, <1>4, <1>9 DEF SessionCounts, FoundLink
<1>11. FirstThere(o)'
  <2> SUFFICES ASSUME z.on # {}, z.ev \notin contended, NEW k \in Keys, k = z.cand, Clean(k)'
               PROVE  z.ev \notin Ever(k)'
    BY <1>1, <1>9 DEF FirstThere
  <2>1. z.ev \notin Ever(k)
    BY <1>2, <1>5 DEF SessionCounts, FirstThere
  <2>2. z.ev # x.ev
    BY <1>9 DEF OneInv, OneAt, Alone
  <2>3. Ever(k)' \subseteq Ever(k) \cup {e \in {x.ev} : k = x.cand}
    BY CommitLinks
  <2>. QED BY <2>1, <2>2, <2>3
<1>12. HoldsCounts(o)'
  <2> SUFFICES ASSUME z.pc = "commit", z.on # {}, z.ev \notin contended, NEW k \in Keys, k = z.cand, Clean(k)'
               PROVE  k \in z.locks /\ z.mine[k] = Aggregates(z.mine[k], Active(k)' \cup {z.ev})
    BY <1>1, <1>9 DEF HoldsCounts
  <2>1. k \in z.locks /\ z.mine[k] = Aggregates(z.mine[k], Active(k) \cup {z.ev})
    BY <1>2, <1>5 DEF SessionCounts, HoldsCounts
  <2>2. CASE k # x.cand \/ x.on = {}
    <3>1. Active(k)' = Active(k)
      BY <2>2, CommitGrows
    <3>. QED BY <2>1, <3>1
  <2>3. CASE k = x.cand /\ x.on # {}
    <3>1. x.ev \notin contended /\ Clean(k)
      BY <2>3, CommitGrows
    <3>2. k \in x.locks
      BY <1>1, <1>2, <2>3, <3>1 DEF SessionCounts, HoldsCounts
    <3>. QED BY <1>2, <2>1, <3>2 DEF Disjoint
  <2>. QED BY <2>2, <2>3
<1>. QED BY <1>6, <1>7, <1>8, <1>10, <1>11, <1>12 DEF SessionCounts

LEMMA CommitKeepsCounts ==
    ASSUME Types, Stages, RowsInv, OneInv, CountsInv, NEW s \in Sessions, Commit(s)
    PROVE  CountsInv'
<1>1. session'[s] = NoSession /\ \A o \in Sessions : o # s => session'[o] = session[o]
    BY CommitEffect DEF Moves
<1>2. \A k \in Keys : Counted(k)'
    BY CommitKeepsCounted
<1>3. \A o \in Sessions : SessionCounts(o)'
    BY <1>1, NoSessionCounts, CommitKeepsOthers
<1>4. ASSUME NEW a \in Sessions, NEW b \in Sessions, a # b PROVE Disjoint(a, b)'
  <2>1. CASE a = s \/ b = s
    BY <1>1, <2>1, NoSessionShape DEF Disjoint
  <2>2. CASE a # s /\ b # s
    BY <1>1, <1>4, <2>2 DEF CountsInv, Disjoint
  <2>. QED BY <2>1, <2>2
<1>. QED BY <1>2, <1>3, <1>4 DEF CountsInv

LEMMA NextCounts ==
    ASSUME Types, Stages, RowsInv, OneInv, CountsInv, Next
    PROVE  CountsInv'
<1>1. PICK s \in Sessions :
        \/ \E e \in Evidence : Process(s, e)
        \/ \E k \in Keys, e \in Evidence : Deactivate(s, k, e)
        \/ \E k, to \in Keys, e \in Evidence : Regroup(s, k, to, e)
        \/ MatchExisting(s)
        \/ CreateOrGet(s)
        \/ Associate(s)
        \/ AddLink(s)
        \/ Refresh(s)
        \/ TakeOff(s)
        \/ Commit(s)
        \/ Abort(s)
    BY DEF Next
<1>2. CASE Abort(s)
    BY <1>2, AbortEffect, GivesUpKeepsCounts
<1>. QED
  BY <1>1, <1>2, BeginKeepsCounts, MatchKeepsCounts, CreateKeepsCounts, AssociateKeepsCounts,
     AddLinkKeepsCounts, RefreshKeepsCounts, TakeOffKeepsCounts, CommitKeepsCounts

LEMMA InitCounts ==
    ASSUME Init
    PROVE  CountsInv
<1>1. \A s \in Sessions : session[s] = NoSession
    BY DEF Init
<1>2. \A k \in Keys : Counted(k)
    BY DEF Init, Counted
<1>3. ASSUME NEW s \in Sessions PROVE SessionCounts(s)
  <2>1. BasesOK(s)
    BY <1>1, NoSessionShape DEF BasesOK, ReadRow, NoRows
  <2>2. LocksOK(s) /\ OffsOK(s) /\ FirstThere(s) /\ FoundLink(s) /\ HoldsCounts(s)
    BY <1>1, NoSessionShape DEF LocksOK, OffsOK, FirstThere, FoundLink, HoldsCounts
  <2>. QED BY <2>1, <2>2 DEF SessionCounts
<1>4. \A s, o \in Sessions : s # o => Disjoint(s, o)
    BY <1>1, NoSessionShape DEF Disjoint
<1>. QED BY <1>2, <1>3, <1>4 DEF CountsInv

LEMMA StutterCounts ==
    ASSUME CountsInv, UNCHANGED vars
    PROVE  CountsInv'
<1>1. /\ UNCHANGED <<candidates, links, session, contended>>
      /\ \A k : (Clean(k)' <=> Clean(k)) /\ Ever(k)' = Ever(k) /\ Active(k)' = Active(k)
    BY DEF vars, Clean, Ever, Active
<1>2. \A k \in Keys : Counted(k)'
    BY <1>1 DEF CountsInv, Counted
<1>3. ASSUME NEW s \in Sessions PROVE SessionCounts(s)'
  <2>1. SessionCounts(s) /\ session'[s] = session[s]
    BY <1>1 DEF CountsInv
  <2>2. BasesOK(s)'
    BY <1>1, <2>1 DEF SessionCounts, BasesOK, ReadRow
  <2>3. LocksOK(s)' /\ OffsOK(s)' /\ FirstThere(s)' /\ FoundLink(s)' /\ HoldsCounts(s)'
    BY <1>1, <2>1 DEF SessionCounts, LocksOK, OffsOK, FirstThere, FoundLink, HoldsCounts
  <2>. QED BY <2>2, <2>3 DEF SessionCounts
<1>4. \A s, o \in Sessions : s # o => Disjoint(s, o)'
    BY <1>1 DEF CountsInv, Disjoint
<1>. QED BY <1>2, <1>3, <1>4 DEF CountsInv

LEMMA CountsInvariant == Spec => [](Types /\ CountsInv)
<1>1. Init => OneInv /\ CountsInv
    BY InitOne, InitCounts
<1>2. (Types /\ Stages /\ RowsInv) /\ (OneInv /\ CountsInv) /\ [Next]_vars => (OneInv /\ CountsInv)'
    BY NextOne, StutterOne, NextCounts, StutterCounts
<1>. QED BY <1>1, <1>2, RowsInvariant, PTL DEF Spec

\* A candidate no reviewer has taken evidence from, and none of whose evidence two calls have
\* handled at a time, has the counts, the status and the score of its active evidence,
\* however many sessions merge into it at the same time (_recalculate_aggregates).
THEOREM CountsAreMembership == Spec => []CountsDescribeMembership
<1>1. Types /\ CountsInv => CountsDescribeMembership
  <2> SUFFICES ASSUME Types, CountsInv PROVE CountsDescribeMembership
    OBVIOUS
  <2>1. TypeOK
    BY DEF Types, TypeOK, Session
  <2>2. \A k \in Keys :
          /\ candidates[k] # NoRow
          /\ \A l \in links : l.cand = k => l.active /\ l.ev \notin contended
          => candidates[k] = Aggregates(candidates[k], Active(k)) /\ Active(k) # {}
    BY DEF CountsInv, Counted, Clean
  <2>. QED BY <2>1, <2>2 DEF CountsDescribeMembership
<1>. QED BY <1>1, CountsInvariant, PTL

==============================================================================

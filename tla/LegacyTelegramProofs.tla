------------------------ MODULE LegacyTelegramProofs ------------------------
(***************************************************************************)
(* Proofs about the legacy Telegram cycles: types, what the messages say    *)
(* of the rows, what is shown of a run, and who executes it.                *)
(***************************************************************************)
EXTENDS LegacyTelegram, FiniteSetTheorems, TLAPS

Executing == {"process", "persist", "reschedule", "new"}

\* The Marketaux cycle claims nothing and has one provider; none is left for the retries.
ProvidersLeft(x) ==
    /\ x.kind = "single" => /\ x.pc \notin {"read", "set", "delete"}
                            /\ x.todo # <<>> => Tail(x.todo) = <<>>
    /\ x.pc = "retries" => x.todo = <<>>

\* A cycle that claims or executes has a provider left, and one that has collected has
\* the run it did.
StagesInv ==
    \A c \in Cycles :
        /\ cycle[c].pc \in {"read", "set", "delete", "collect"} \cup Executing => cycle[c].todo # <<>>
        /\ cycle[c].pc \in Executing => cycle[c].run \in RunIds
        /\ ProvidersLeft(cycle[c])

\* A message is on its way only from the steps that carry a batch.
CarriersInv == \A c \in Cycles : cycle[c].batch # {} => cycle[c].pc \in {"retries", "send", "mark"}

IInv == TypeOK /\ StagesInv /\ CarriersInv

-----------------------------------------------------------------------------
(* The parts of a cycle's next state.                                      *)

LEMMA Constants ==
    /\ Providers # {} /\ Order \in Seq(Providers) /\ Order # <<>> /\ Marketaux \in Providers
    /\ MaxRuns \in Nat /\ MaxRuns > 0 /\ MaxRetries \in Nat /\ MaxAttempts \in Nat
    /\ Singles \subseteq Cycles
<1>1. Order # <<>>
    BY TelegramAssumption DEF Providers, ToSet
<1>. QED BY <1>1, TelegramAssumption

\* What is left of a cycle's providers.
LEMMA ProviderLeft ==
    ASSUME NEW s \in Seq(Providers), s # <<>>
    PROVE  Head(s) \in Providers /\ Tail(s) \in Seq(Providers) /\ (Len(s) > 1 => Tail(s) # <<>>)
<1> DEFINE t == Tail(s)
<1>1. Head(s) \in Providers /\ t \in Seq(Providers) /\ Len(t) = Len(s) - 1
    OBVIOUS
<1>2. Len(<<>>) = 0
    OBVIOUS
<1>3. Len(s) \in Nat
    OBVIOUS
<1> HIDE DEF t
<1>4. Len(s) > 1 => t # <<>>
    BY <1>1, <1>2, <1>3
<1>. QED BY <1>1, <1>4 DEF t

LEMMA AtShape ==
    ASSUME TypeOK, NEW c \in Cycles,
           NEW step \in {"idle", "read", "set", "delete", "collect", "process", "persist",
                         "reschedule", "new", "retries", "send", "mark"}
    PROVE  LET x == At(c, step) IN
           /\ x \in Cycle
           /\ x.pc = step /\ x.kind = cycle[c].kind /\ x.chat = cycle[c].chat /\ x.todo = cycle[c].todo
           /\ x.held = cycle[c].held /\ x.read = cycle[c].read /\ x.run = cycle[c].run
           /\ x.seen = cycle[c].seen /\ x.batch = cycle[c].batch
           /\ x.accepted = cycle[c].accepted
  BY ZenonT(60) DEF At, TypeOK, Cycle

LEMMA DoneShape ==
    ASSUME TypeOK, NEW c \in Cycles, cycle[c].todo # <<>>
    PROVE  LET x == Done(c) IN
           /\ x \in Cycle
           /\ Provider(c) \in Providers
           /\ x.pc = IF Tail(cycle[c].todo) = <<>> THEN "retries" ELSE "collect"
           /\ x.kind = cycle[c].kind /\ x.chat = cycle[c].chat
           /\ x.todo = Tail(cycle[c].todo)
           /\ x.held = [cycle[c].held EXCEPT ![Provider(c)] = NotClaimed]
           /\ x.read = cycle[c].read /\ x.run = 0 /\ x.seen = {} /\ x.batch = {}
           /\ x.accepted = FALSE
<1>1. cycle[c] \in Cycle
    BY DEF TypeOK
<1>2. Provider(c) \in Providers /\ Tail(cycle[c].todo) \in Seq(Providers)
    BY <1>1, ProviderLeft DEF Cycle, Provider
<1>3. NotClaimed \in [claimed : BOOLEAN, run : 0..MaxRuns, attempt : 0..MaxRetries]
    BY Constants DEF NotClaimed
<1> DEFINE h == [cycle[c].held EXCEPT ![Provider(c)] = NotClaimed]
           w == [cycle[c] EXCEPT !.todo = Tail(cycle[c].todo), !.held = h, !.run = 0]
           x == [w EXCEPT !.seen = {}, !.batch = {}, !.accepted = FALSE]
<1>4. h \in [Providers -> [claimed : BOOLEAN, run : 0..MaxRuns, attempt : 0..MaxRetries]]
    BY <1>1, <1>2, <1>3 DEF Cycle
<1>5. Done(c) = [x EXCEPT !.pc = IF x.todo = <<>> THEN "retries" ELSE "collect"]
    BY DEF Done
<1> HIDE DEF h
<1>6. /\ x \in Cycle /\ x.kind = cycle[c].kind /\ x.chat = cycle[c].chat
      /\ x.todo = Tail(cycle[c].todo) /\ x.held = h
      /\ x.read = cycle[c].read /\ x.run = 0 /\ x.seen = {} /\ x.batch = {} /\ x.accepted = FALSE
  <2>1. 0 \in 0..MaxRuns
    BY Constants
  <2>2. /\ w \in Cycle /\ w.kind = cycle[c].kind /\ w.chat = cycle[c].chat
        /\ w.todo = Tail(cycle[c].todo) /\ w.held = h /\ w.read = cycle[c].read /\ w.run = 0
    BY <1>1, <1>2, <1>4, <2>1 DEF Cycle
  <2> HIDE DEF w
  <2>. QED BY <2>2 DEF Cycle
<1> HIDE DEF x
<1>7. /\ Done(c) \in Cycle
      /\ Done(c).pc = IF x.todo = <<>> THEN "retries" ELSE "collect"
      /\ Done(c).kind = x.kind /\ Done(c).chat = x.chat /\ Done(c).todo = x.todo
      /\ Done(c).held = x.held /\ Done(c).read = x.read /\ Done(c).run = x.run
      /\ Done(c).seen = x.seen /\ Done(c).batch = x.batch /\ Done(c).accepted = x.accepted
    BY <1>5, <1>6 DEF Cycle
<1>. QED BY <1>2, <1>6, <1>7 DEF h

\* The cycle after a claim has been settled.
LEMMA ClaimShape ==
    ASSUME TypeOK, NEW c \in Cycles, cycle[c].todo # <<>>,
           NEW claim \in [claimed : BOOLEAN, run : 0..MaxRuns, attempt : 0..MaxRetries],
           ClaimNext(c, claim)
    PROVE  /\ cycle' \in [Cycles -> Cycle]
           /\ \A d \in Cycles \ {c} : cycle'[d] = cycle[d]
           /\ Provider(c) \in Providers
           /\ cycle'[c].held = [cycle[c].held EXCEPT ![Provider(c)] = claim]
           /\ \/ /\ cycle'[c].pc = "read" /\ cycle'[c].todo = Tail(cycle[c].todo)
                 /\ cycle'[c].todo # <<>>
              \/ cycle'[c].pc = "collect" /\ cycle'[c].todo = Order
           /\ cycle'[c].kind = cycle[c].kind /\ cycle'[c].chat = cycle[c].chat
           /\ cycle'[c].read = NoContext /\ cycle'[c].run = cycle[c].run
           /\ cycle'[c].seen = cycle[c].seen /\ cycle'[c].batch = cycle[c].batch
           /\ cycle'[c].accepted = cycle[c].accepted
<1>1. cycle[c] \in Cycle
    BY DEF TypeOK
<1>2. Provider(c) \in Providers /\ Tail(cycle[c].todo) \in Seq(Providers)
    BY <1>1, ProviderLeft DEF Cycle, Provider
<1>3. NoContext \in Context
    BY Constants DEF NoContext, Context
<1> DEFINE x == [cycle[c] EXCEPT !.held[Provider(c)] = claim, !.read = NoContext]
<1>4. /\ x \in Cycle /\ x.held = [cycle[c].held EXCEPT ![Provider(c)] = claim] /\ x.read = NoContext
      /\ x.pc = cycle[c].pc /\ x.kind = cycle[c].kind /\ x.chat = cycle[c].chat
      /\ x.todo = cycle[c].todo /\ x.run = cycle[c].run /\ x.seen = cycle[c].seen
      /\ x.batch = cycle[c].batch /\ x.accepted = cycle[c].accepted
    BY <1>1, <1>2, <1>3 DEF Cycle
<1> DEFINE y == IF Len(x.todo) > 1 THEN [x EXCEPT !.pc = "read", !.todo = Tail(@)]
                ELSE [x EXCEPT !.pc = "collect", !.todo = Order]
<1>5. cycle' = [cycle EXCEPT ![c] = y]
    BY DEF ClaimNext, Goto
<1> HIDE DEF x
<1>6. /\ y \in Cycle
      /\ \/ y.pc = "read" /\ y.todo = Tail(cycle[c].todo) /\ Len(cycle[c].todo) > 1
         \/ y.pc = "collect" /\ y.todo = Order
      /\ y.held = x.held /\ y.kind = x.kind /\ y.chat = x.chat /\ y.read = x.read /\ y.run = x.run
      /\ y.seen = x.seen /\ y.batch = x.batch /\ y.accepted = x.accepted
  <2>1. CASE Len(x.todo) > 1
    BY <1>2, <1>4, <2>1 DEF Cycle
  <2>2. CASE ~(Len(x.todo) > 1)
    BY <1>2, <1>4, <2>2, Constants DEF Cycle
  <2>. QED BY <2>1, <2>2
<1>7. Len(cycle[c].todo) > 1 => Tail(cycle[c].todo) # <<>>
    BY <1>1, ProviderLeft DEF Cycle
<1> HIDE DEF y
<1>. QED BY <1>2, <1>4, <1>5, <1>6, <1>7 DEF TypeOK

LEMMA IdleShape ==
    /\ Idle \in Cycle /\ Idle.pc = "idle" /\ Idle.todo = <<>> /\ Idle.batch = {} /\ Idle.run = 0 /\ Idle.kind = "none"
    /\ Idle.held = [p \in Providers |-> NotClaimed] /\ Idle.read = NoContext /\ Idle.seen = {}
    /\ Idle.accepted = FALSE
  BY Constants DEF Idle, Cycle, NotClaimed, NoContext, Context

-----------------------------------------------------------------------------
(* Types, stages and carriers.                                             *)

\* A cycle that goes to a state of the right shape keeps what is said of every cycle.
LEMMA GotoShape ==
    ASSUME IInv, NEW c \in Cycles, NEW x \in Cycle, Goto(c, x),
           x.pc \in {"read", "set", "delete", "collect"} \cup Executing => x.todo # <<>>,
           x.pc \in Executing => x.run \in RunIds, ProvidersLeft(x),
           x.batch # {} => x.pc \in {"retries", "send", "mark"}
    PROVE  cycle' \in [Cycles -> Cycle] /\ StagesInv' /\ CarriersInv'
<1>1. /\ cycle' \in [Cycles -> Cycle] /\ cycle'[c] = x
      /\ \A d \in Cycles \ {c} : cycle'[d] = cycle[d]
    BY DEF Goto, IInv, TypeOK
<1>2. StagesInv'
  <2> SUFFICES ASSUME NEW d \in Cycles
               PROVE  /\ cycle'[d].pc \in {"read", "set", "delete", "collect"} \cup Executing
                             => cycle'[d].todo # <<>>
                      /\ cycle'[d].pc \in Executing => cycle'[d].run \in RunIds
                      /\ ProvidersLeft(cycle'[d])
    BY DEF StagesInv
  <2>1. CASE d = c
    BY <1>1, <2>1
  <2>2. CASE d # c
    BY <1>1, <2>2 DEF IInv, StagesInv
  <2>. QED BY <2>1, <2>2
<1>3. CarriersInv'
  <2> SUFFICES ASSUME NEW d \in Cycles
               PROVE  cycle'[d].batch # {} => cycle'[d].pc \in {"retries", "send", "mark"}
    BY DEF CarriersInv
  <2>1. CASE d = c
    BY <1>1, <2>1
  <2>2. CASE d # c
    BY <1>1, <2>2 DEF IInv, CarriersInv
  <2>. QED BY <2>1, <2>2
<1>. QED BY <1>1, <1>2, <1>3

\* The same for the step on to another part of the cycle, and to the next provider.
LEMMA GotoAt ==
    ASSUME IInv, NEW c \in Cycles,
           NEW step \in {"set", "delete", "collect"} \cup Executing, Goto(c, At(c, step)),
           cycle[c].pc \in {"read", "set", "delete", "collect"} \cup Executing,
           step \in Executing => cycle[c].pc \in Executing,
           cycle[c].pc \in {"set", "delete"} \/ step \notin {"set", "delete"}
    PROVE  cycle' \in [Cycles -> Cycle] /\ StagesInv' /\ CarriersInv'
<1>1. /\ At(c, step) \in Cycle /\ At(c, step).pc = step /\ At(c, step).todo = cycle[c].todo
      /\ At(c, step).run = cycle[c].run /\ At(c, step).batch = cycle[c].batch
      /\ At(c, step).kind = cycle[c].kind
    BY AtShape DEF IInv, Executing
<1>2. ProvidersLeft(At(c, step))
    BY <1>1 DEF IInv, StagesInv, ProvidersLeft, Executing
<1>. QED BY <1>1, <1>2, GotoShape DEF IInv, StagesInv, CarriersInv, Executing

LEMMA GotoDone ==
    ASSUME IInv, NEW c \in Cycles, Goto(c, Done(c)), cycle[c].todo # <<>>
    PROVE  cycle' \in [Cycles -> Cycle] /\ StagesInv' /\ CarriersInv'
<1>1. /\ Done(c) \in Cycle /\ Done(c).batch = {} /\ Done(c).todo = Tail(cycle[c].todo)
      /\ Done(c).pc = IF Tail(cycle[c].todo) = <<>> THEN "retries" ELSE "collect"
      /\ Done(c).kind = cycle[c].kind
    BY DoneShape DEF IInv
<1>2. ProvidersLeft(Done(c))
    BY <1>1 DEF ProvidersLeft, IInv, StagesInv
<1>. QED BY <1>1, <1>2, GotoShape DEF Executing

LEMMA GotoIdle ==
    ASSUME IInv, NEW c \in Cycles, Goto(c, Idle)
    PROVE  cycle' \in [Cycles -> Cycle] /\ StagesInv' /\ CarriersInv'
  BY IdleShape, GotoShape DEF Executing, ProvidersLeft

LEMMA GotoClaim ==
    ASSUME IInv, NEW c \in Cycles, cycle[c].pc \in {"read", "set", "delete"},
           NEW claim \in [claimed : BOOLEAN, run : 0..MaxRuns, attempt : 0..MaxRetries],
           ClaimNext(c, claim)
    PROVE  cycle' \in [Cycles -> Cycle] /\ StagesInv' /\ CarriersInv'
<1>1. cycle[c].todo # <<>> /\ cycle[c].batch = {}
    BY DEF IInv, StagesInv, CarriersInv
<1>2. /\ cycle' \in [Cycles -> Cycle]
      /\ \A d \in Cycles \ {c} : cycle'[d] = cycle[d]
      /\ cycle'[c].pc \in {"read", "collect"} /\ cycle'[c].todo # <<>> /\ cycle'[c].batch = {}
      /\ cycle'[c].kind = cycle[c].kind
    BY <1>1, ClaimShape, Constants DEF IInv
<1>3. Goto(c, cycle'[c])
    BY <1>2 DEF Goto, IInv, TypeOK
<1>4. ProvidersLeft(cycle'[c])
    BY <1>2 DEF ProvidersLeft, IInv, StagesInv
<1>. QED BY <1>2, <1>3, <1>4, GotoShape DEF Executing

LEMMA ClaimTypes ==
    /\ NotClaimed \in [claimed : BOOLEAN, run : 0..MaxRuns, attempt : 0..MaxRetries]
    /\ NoContext \in Context
    /\ \A x \in Context : Claimed(x) \in [claimed : BOOLEAN, run : 0..MaxRuns, attempt : 0..MaxRetries]
  BY Constants DEF NotClaimed, NoContext, Claimed, Context

\* What a collecting action stores.
LEMMA StoredTypes ==
    ASSUME NEW p \in Providers, NEW row, NEW items \in Stored(p, row)
    PROVE  /\ items \in SUBSET Items
           /\ \A i \in items : raw[i] = 0
           /\ row.status \notin {"absent", "running"} => items = {}
<1>1. CASE row.status \in {"absent", "running"}
  <2>1. PICK n \in 0..Len(Offers[p]) : items = {i \in ToSet(SubSeq(Offers[p], 1, n)) : raw[i] = 0}
    BY <1>1 DEF Stored, Batches
  <2>2. Offers[p] \in Seq(Items)
    BY TelegramAssumption
  <2>3. SubSeq(Offers[p], 1, n) \in Seq(Items)
    BY <2>2
  <2>4. ToSet(SubSeq(Offers[p], 1, n)) \subseteq Items
    BY <2>3 DEF ToSet
  <2>. QED BY <1>1, <2>1, <2>4
<1>2. CASE row.status \notin {"absent", "running"}
    BY <1>2 DEF Stored
<1>. QED BY <1>1, <1>2

LEMMA RunOfTypes ==
    ASSUME NEW claim \in [claimed : BOOLEAN, run : 0..MaxRuns, attempt : 0..MaxRetries],
           NEW r \in RunOf(claim)
    PROVE  /\ r \in RunIds
           /\ claim.run # 0 => r = claim.run
           /\ claim.run = 0 => runs[r].status = "absent"
  BY Constants DEF RunOf, RunIds

LEMMA InitIInv == ASSUME Init PROVE IInv
<1>1. \A c \in Cycles : cycle[c] = Idle
    BY DEF Init
<1>2. TypeOK
  <2>1. NoContext \in Context /\ NoRun \in Run /\ NoRow \in Row /\ 0 \in 0..MaxRuns
    BY Constants DEF NoContext, Context, NoRun, Run, NoRow, Row
  <2>. QED BY <2>1, IdleShape DEF Init, TypeOK
<1>3. StagesInv /\ CarriersInv
    BY <1>1, IdleShape DEF StagesInv, CarriersInv, Executing, ProvidersLeft
<1>. QED BY <1>2, <1>3 DEF IInv

LEMMA EnvironmentIInv ==
    ASSUME IInv,
           \/ \E p \in Providers : CadenceExpires(p) \/ GateExpires(p)
           \/ \E i \in Items : ClaimAges(i)
           \/ \E r \in RunIds : RecoverStale(r)
           \/ Toggle
    PROVE  IInv'
<1>1. cycle' = cycle
    BY DEF CadenceExpires, GateExpires, ClaimAges, RecoverStale, Toggle
<1>2. StagesInv' /\ CarriersInv'
    BY <1>1 DEF IInv, StagesInv, CarriersInv
<1>3. ASSUME NEW p \in Providers, CadenceExpires(p) PROVE TypeOK'
    BY <1>1, <1>3 DEF IInv, TypeOK, CadenceExpires
<1>4. ASSUME NEW p \in Providers, GateExpires(p) PROVE TypeOK'
    BY <1>1, <1>4 DEF IInv, TypeOK, GateExpires
<1>5. ASSUME NEW i \in Items, ClaimAges(i) PROVE TypeOK'
  <2>1. notif' \in [Items -> Row]
    BY ZenonT(60), <1>5 DEF IInv, TypeOK, ClaimAges, Row
  <2>2. {toggles, faults, delays, overruns}' \subseteq Nat
    BY <1>5 DEF IInv, TypeOK, ClaimAges
  <2>. QED BY <1>1, <1>5, <2>1, <2>2 DEF IInv, TypeOK, ClaimAges, redis
<1>6. ASSUME NEW r \in RunIds, RecoverStale(r) PROVE TypeOK'
  <2>1. runs' \in [RunIds -> Run]
    BY <1>6 DEF IInv, TypeOK, RecoverStale, Run
  <2>. QED BY <1>1, <1>6, <2>1 DEF IInv, TypeOK, RecoverStale, redis
<1>7. ASSUME Toggle PROVE TypeOK'
    BY <1>1, <1>7 DEF IInv, TypeOK, Toggle, redis
<1>. QED BY <1>2, <1>3, <1>4, <1>5, <1>6, <1>7 DEF IInv

LEMMA FaultTypes ==
    ASSUME IInv, Fault \/ UNCHANGED <<faults, delays, overruns>>
    PROVE  {faults', delays', overruns'} \subseteq Nat /\ faults' + delays' >= faults + delays
  BY DEF Fault, IInv, TypeOK

LEMMA StartIInv ==
    ASSUME IInv, NEW c \in Cycles,
           StartMulti(c) \/ StartSingle(c) \/ Stop(c) \/ PipelineFails(c)
    PROVE  IInv'
<1>1. ASSUME StartMulti(c) PROVE cycle' \in [Cycles -> Cycle] /\ StagesInv' /\ CarriersInv'
  <2> DEFINE x == [Idle EXCEPT !.pc = "read", !.kind = "multi", !.chat = telegram, !.todo = Order]
  <2>1. x \in Cycle /\ x.pc = "read" /\ x.todo = Order /\ x.batch = {} /\ x.kind = "multi"
    BY IdleShape, Constants DEF Cycle, IInv, TypeOK
  <2>2. Goto(c, x)
    BY <1>1 DEF StartMulti
  <2> HIDE DEF x
  <2>. QED BY <2>1, <2>2, Constants, GotoShape DEF Executing, ProvidersLeft
<1>2. ASSUME StartSingle(c) PROVE cycle' \in [Cycles -> Cycle] /\ StagesInv' /\ CarriersInv'
  <2> DEFINE h == [Idle.held EXCEPT ![Marketaux] = Claimed(NoContext)]
             x == [Idle EXCEPT !.pc = "collect", !.kind = "single", !.chat = TRUE,
                               !.todo = <<Marketaux>>, !.held = h]
  <2>1. h \in [Providers -> [claimed : BOOLEAN, run : 0..MaxRuns, attempt : 0..MaxRetries]]
    BY IdleShape, ClaimTypes DEF Cycle
  <2>2. Goto(c, x)
    BY <1>2 DEF StartSingle
  <2> HIDE DEF h
  <2>3. /\ <<Marketaux>> \in Seq(Providers) /\ <<Marketaux>> # <<>> /\ Tail(<<Marketaux>>) = <<>>
    BY Constants
  <2>4. x \in Cycle /\ x.pc = "collect" /\ x.todo = <<Marketaux>> /\ x.batch = {}
    BY <2>1, <2>3, IdleShape DEF Cycle
  <2> HIDE DEF x
  <2>. QED BY <2>2, <2>3, <2>4, GotoShape DEF Executing, ProvidersLeft
<1>3. ASSUME Stop(c) PROVE cycle' \in [Cycles -> Cycle] /\ StagesInv' /\ CarriersInv'
    BY <1>3, GotoIdle DEF Stop
<1>4. ASSUME PipelineFails(c) PROVE cycle' \in [Cycles -> Cycle] /\ StagesInv' /\ CarriersInv'
  <2>1. cycle[c].pc \in {"process", "persist"} /\ cycle[c].todo # <<>>
    BY <1>4 DEF PipelineFails, IInv, StagesInv, Executing
  <2>2. Goto(c, At(c, "reschedule")) \/ Goto(c, Done(c))
    BY <1>4 DEF PipelineFails
  <2>. QED BY <2>1, <2>2, GotoAt, GotoDone DEF Executing
<1>5. TypeOK'
  <2>1. cycle' \in [Cycles -> Cycle]
    BY <1>1, <1>2, <1>3, <1>4
  <2>2. {faults', delays', overruns'} \subseteq Nat
    BY FaultTypes DEF StartMulti, StartSingle, Stop, PipelineFails
  <2>. QED BY <2>1, <2>2 DEF IInv, TypeOK, StartMulti, StartSingle, Stop, PipelineFails, redis
<1>. QED BY <1>1, <1>2, <1>3, <1>4, <1>5 DEF IInv

\* The claim of a provider, and a provider that has none.
LEMMA ClaimIInv ==
    ASSUME IInv, NEW c \in Cycles,
           ClaimRead(c) \/ ClaimSet(c) \/ ClaimDelete(c) \/ NothingToExecute(c)
    PROVE  IInv'
<1>1. /\ cycle[c].pc \in {"read", "set", "delete", "collect"} /\ cycle[c] \in Cycle
      /\ cycle[c].todo # <<>> /\ Provider(c) \in Providers
  <2>1. cycle[c].pc \in {"read", "set", "delete", "collect"}
    BY DEF ClaimRead, ClaimSet, ClaimDelete, NothingToExecute
  <2>2. cycle[c].todo # <<>> /\ cycle[c] \in Cycle
    BY <2>1 DEF IInv, StagesInv, TypeOK
  <2>. QED BY <2>1, <2>2, ProviderLeft DEF Provider, Cycle
<1>2. ASSUME ClaimRead(c) PROVE cycle' \in [Cycles -> Cycle] /\ StagesInv' /\ CarriersInv'
  <2>1. CASE ClaimNext(c, NotClaimed)
    BY <1>2, <2>1, GotoClaim, ClaimTypes DEF ClaimRead
  <2>2. CASE Goto(c, [At(c, "set") EXCEPT !.read = context[Provider(c)]])
    <3> DEFINE y == At(c, "set")
               x == [y EXCEPT !.read = context[Provider(c)]]
    <3>1. /\ y \in Cycle /\ y.pc = "set" /\ y.todo = cycle[c].todo /\ y.batch = cycle[c].batch
          /\ y.kind = cycle[c].kind
      BY AtShape DEF IInv
    <3>2. context[Provider(c)] \in Context
      BY <1>1 DEF IInv, TypeOK
    <3>3. Goto(c, x)
      BY <2>2
    <3> HIDE DEF y
    <3>4. /\ x \in Cycle /\ x.pc = "set" /\ x.todo = cycle[c].todo /\ x.batch = cycle[c].batch
          /\ x.kind = cycle[c].kind
      BY <3>1, <3>2 DEF Cycle
    <3>5. x.todo # <<>> /\ x.batch = {} /\ x.kind # "single"
      BY <1>2, <1>1, <3>4 DEF ClaimRead, IInv, CarriersInv, StagesInv, ProvidersLeft
    <3> HIDE DEF x
    <3>. QED BY <3>3, <3>4, <3>5, GotoShape DEF Executing, ProvidersLeft
  <2>. QED BY <1>2, <2>1, <2>2 DEF ClaimRead
<1>3. ASSUME ClaimSet(c) PROVE cycle' \in [Cycles -> Cycle] /\ StagesInv' /\ CarriersInv'
  <2>1. \/ ClaimNext(c, NotClaimed)
        \/ ClaimNext(c, Claimed(NoContext))
        \/ Goto(c, At(c, "delete"))
    BY <1>3 DEF ClaimSet, Settle
  <2>2. cycle[c].pc = "set"
    BY <1>3 DEF ClaimSet
  <2>. QED BY <2>1, <2>2, GotoClaim, GotoAt, ClaimTypes DEF Executing
<1>4. ASSUME ClaimDelete(c) PROVE cycle' \in [Cycles -> Cycle] /\ StagesInv' /\ CarriersInv'
  <2>1. ClaimNext(c, NotClaimed) \/ ClaimNext(c, Claimed(cycle[c].read))
    BY <1>4 DEF ClaimDelete, Settle
  <2>2. cycle[c].pc = "delete" /\ cycle[c].read \in Context
    BY <1>1, <1>4 DEF ClaimDelete, Cycle
  <2>. QED BY <2>1, <2>2, GotoClaim, ClaimTypes
<1>5. ASSUME NothingToExecute(c) PROVE cycle' \in [Cycles -> Cycle] /\ StagesInv' /\ CarriersInv'
    BY <1>1, <1>5, GotoDone DEF NothingToExecute
<1>6. TypeOK'
  <2>1. cycle' \in [Cycles -> Cycle]
    BY <1>2, <1>3, <1>4, <1>5
  <2>2. cadence' \in [Providers -> BOOLEAN] /\ context' \in [Providers -> Context]
    BY <1>1, ClaimTypes DEF IInv, TypeOK, ClaimRead, ClaimSet, ClaimDelete, NothingToExecute, redis
  <2>. QED BY <2>1, <2>2 DEF IInv, TypeOK, ClaimRead, ClaimSet, ClaimDelete, NothingToExecute, redis
<1>. QED BY <1>2, <1>3, <1>4, <1>5, <1>6 DEF IInv

\* A run ends or counts an attempt, with what it has stored.
LEMMA CollectedShape ==
    ASSUME IInv, NEW c \in Cycles, cycle[c].pc = "collect",
           NEW r \in RunIds, NEW row \in Run, NEW items \in SUBSET Items,
           NEW step \in {"process", "reschedule"}, Collected(c, r, row, items, step)
    PROVE  /\ cycle' \in [Cycles -> Cycle] /\ StagesInv' /\ CarriersInv'
           /\ runs' \in [RunIds -> Run] /\ raw' \in [Items -> 0..MaxRuns]
           /\ \A d \in Cycles \ {c} : cycle'[d] = cycle[d]
           /\ cycle'[c].pc = step /\ cycle'[c].kind = cycle[c].kind /\ cycle'[c].todo = cycle[c].todo
           /\ cycle'[c].held = cycle[c].held /\ cycle'[c].read = cycle[c].read
           /\ cycle'[c].run = r
           /\ cycle'[c].batch = cycle[c].batch
<1>. PICK again \in SUBSET Of(r) : Goto(c, [At(c, step) EXCEPT !.run = r, !.seen = items \cup again])
    BY DEF Collected
<1> DEFINE y == At(c, step)
           seen == items \cup again
           x == [y EXCEPT !.run = r, !.seen = seen]
<1>1. /\ y \in Cycle /\ y.pc = step /\ y.kind = cycle[c].kind /\ y.todo = cycle[c].todo
      /\ y.held = cycle[c].held /\ y.read = cycle[c].read /\ y.batch = cycle[c].batch
    BY AtShape DEF IInv
<1>2. Goto(c, x) /\ runs' = [runs EXCEPT ![r] = row] /\ raw' = [i \in Items |-> IF i \in items THEN r ELSE raw[i]]
    BY DEF Collected
<1> HIDE DEF y
<1>3. r \in 0..MaxRuns /\ seen \in SUBSET Items
    BY Constants DEF RunIds, Of
<1> HIDE DEF seen
<1>4. /\ x \in Cycle /\ x.pc = step /\ x.kind = cycle[c].kind /\ x.todo = cycle[c].todo
      /\ x.held = cycle[c].held /\ x.read = cycle[c].read /\ x.run = r
      /\ x.batch = cycle[c].batch
    BY <1>1, <1>3 DEF Cycle
<1>5. cycle[c].todo # <<>> /\ cycle[c].batch = {}
    BY DEF IInv, StagesInv, CarriersInv
<1> HIDE DEF x
<1>6. ProvidersLeft(x)
    BY <1>4 DEF ProvidersLeft, IInv, StagesInv
<1>7. cycle' \in [Cycles -> Cycle] /\ StagesInv' /\ CarriersInv'
    BY <1>2, <1>4, <1>5, <1>6, GotoShape
<1>8. cycle'[c] = x /\ \A d \in Cycles \ {c} : cycle'[d] = cycle[d]
    BY <1>2 DEF Goto, IInv, TypeOK
<1>9. runs' \in [RunIds -> Run] /\ raw' \in [Items -> 0..MaxRuns]
    BY <1>2, <1>3 DEF IInv, TypeOK
<1>. QED BY <1>4, <1>7, <1>8, <1>9

\* What the three ends of an execution have in common.
LEMMA CollectEffect ==
    ASSUME IInv, NEW c \in Cycles, CollectSucceeds(c) \/ CollectRetries(c) \/ CollectFails(c)
    PROVE  \E r \in RunOf(cycle[c].held[Provider(c)]), row \in Run, items \in SUBSET Items,
              step \in {"process", "reschedule"} :
              /\ r \in RunIds
              /\ Collected(c, r, row, items, step)
              /\ \A i \in items : raw[i] = 0
              /\ runs[r].status \notin {"absent", "running"} => items = {}
              /\ step = "process" => row.status = "succeeded" /\ row.code = "none"
              /\ step = "process" => runs[r].status \in {"absent", "running"}
              /\ row.status # "absent"
              /\ runs[r].status \notin {"absent", "running"} => row.status \in {runs[r].status, "failed"}
              /\ step = "reschedule" /\ row.status = "succeeded" => runs[r].status = "succeeded"
<1> DEFINE claim == cycle[c].held[Provider(c)]
<1>1. /\ cycle[c].pc = "collect" /\ cycle[c] \in Cycle /\ Provider(c) \in Providers
      /\ claim \in [claimed : BOOLEAN, run : 0..MaxRuns, attempt : 0..MaxRetries]
  <2>1. cycle[c].pc = "collect" /\ cycle[c] \in Cycle /\ cycle[c].todo # <<>>
    BY DEF CollectSucceeds, CollectRetries, CollectFails, IInv, TypeOK, StagesInv
  <2>2. Provider(c) \in Providers
    BY <2>1, ProviderLeft DEF Provider, Cycle
  <2>. QED BY <2>1, <2>2 DEF Cycle
<1> HIDE DEF claim
<1>2. \A r \in RunOf(claim) : r \in RunIds /\ runs[r] \in Run
    BY <1>1, RunOfTypes DEF IInv, TypeOK
<1>3. ASSUME CollectSucceeds(c)
      PROVE  \E r \in RunOf(claim) : \E items \in Stored(Provider(c), runs[r]) :
                /\ runs[r].status \in {"absent", "running"}
                /\ Collected(c, r, [runs[r] EXCEPT !.status = "succeeded", !.code = "none"], items, "process")
    BY <1>3 DEF CollectSucceeds, claim
<1>4. ASSUME CollectRetries(c)
      PROVE  /\ claim.attempt < MaxRetries
             /\ \E r \in RunOf(claim) : \E items \in Stored(Provider(c), runs[r]) :
                Collected(c, r, [Opened(runs[r]) EXCEPT !.retries = claim.attempt + 1, !.code = "retryable"],
                          items, "reschedule")
    BY <1>4 DEF CollectRetries, claim
<1>5. ASSUME CollectFails(c)
      PROVE  \E r \in RunOf(claim), code \in {"retryable", "final"} : \E items \in Stored(Provider(c), runs[r]) :
                Collected(c, r, [runs[r] EXCEPT !.status = "failed", !.code = code], items, "reschedule")
    BY <1>5 DEF CollectFails, claim
<1>6. CASE CollectSucceeds(c)
  <2>1. PICK r \in RunOf(claim) : \E items \in Stored(Provider(c), runs[r]) :
           /\ runs[r].status \in {"absent", "running"}
           /\ Collected(c, r, [runs[r] EXCEPT !.status = "succeeded", !.code = "none"], items, "process")
    BY <1>3, <1>6
  <2>2. PICK items \in Stored(Provider(c), runs[r]) :
           /\ runs[r].status \in {"absent", "running"}
           /\ Collected(c, r, [runs[r] EXCEPT !.status = "succeeded", !.code = "none"], items, "process")
    BY <2>1
  <2> DEFINE row == [runs[r] EXCEPT !.status = "succeeded", !.code = "none"]
  <2>3. row \in Run /\ row.status = "succeeded" /\ row.code = "none"
    BY <1>2 DEF Run
  <2>4. Collected(c, r, row, items, "process")
    BY <2>2
  <2> HIDE DEF row
  <2>. QED BY <1>1, <1>2, <2>2, <2>3, <2>4, StoredTypes DEF claim
<1>7. CASE CollectRetries(c)
  <2>1. PICK r \in RunOf(claim) : \E items \in Stored(Provider(c), runs[r]) :
           Collected(c, r, [Opened(runs[r]) EXCEPT !.retries = claim.attempt + 1, !.code = "retryable"],
                     items, "reschedule")
    BY <1>4, <1>7
  <2>2. PICK items \in Stored(Provider(c), runs[r]) :
           Collected(c, r, [Opened(runs[r]) EXCEPT !.retries = claim.attempt + 1, !.code = "retryable"],
                     items, "reschedule")
    BY <2>1
  <2> DEFINE row == [Opened(runs[r]) EXCEPT !.retries = claim.attempt + 1, !.code = "retryable"]
  <2>3. claim.attempt + 1 \in 0..MaxRetries
    <3>1. claim.attempt \in 0..MaxRetries
      BY <1>1
    <3>2. claim.attempt < MaxRetries
      BY <1>4, <1>7
    <3>. QED BY <3>1, <3>2, Constants
  <2>4. /\ Opened(runs[r]) \in Run
        /\ Opened(runs[r]).status = IF runs[r].status = "absent" THEN "running" ELSE runs[r].status
    BY <1>2 DEF Opened, Run
  <2>5. row \in Run /\ row.status = Opened(runs[r]).status
    BY <2>3, <2>4 DEF Run
  <2>6. Collected(c, r, row, items, "reschedule")
    BY <2>2
  <2> HIDE DEF row
  <2>. QED BY <1>1, <1>2, <2>2, <2>4, <2>5, <2>6, StoredTypes DEF claim
<1>8. CASE CollectFails(c)
  <2>1. PICK r \in RunOf(claim), code \in {"retryable", "final"} : \E items \in Stored(Provider(c), runs[r]) :
           Collected(c, r, [runs[r] EXCEPT !.status = "failed", !.code = code], items, "reschedule")
    BY <1>5, <1>8
  <2>2. PICK items \in Stored(Provider(c), runs[r]) :
           Collected(c, r, [runs[r] EXCEPT !.status = "failed", !.code = code], items, "reschedule")
    BY <2>1
  <2> DEFINE row == [runs[r] EXCEPT !.status = "failed", !.code = code]
  <2>3. row \in Run /\ row.status = "failed"
    BY <1>2 DEF Run
  <2>4. Collected(c, r, row, items, "reschedule")
    BY <2>2
  <2> HIDE DEF row
  <2>. QED BY <1>1, <1>2, <2>2, <2>3, <2>4, StoredTypes DEF claim
<1>. QED BY <1>6, <1>7, <1>8

LEMMA ExecuteIInv ==
    ASSUME IInv, NEW c \in Cycles,
           \/ CollectSucceeds(c) \/ CollectRetries(c) \/ CollectFails(c) \/ CollectRefused(c)
           \/ Reschedule(c) \/ ProcessRun(c) \/ PersistFeed(c)
    PROVE  IInv'
<1>1. /\ cycle[c].pc \in {"collect"} \cup Executing /\ cycle[c] \in Cycle
      /\ cycle[c].todo # <<>> /\ Provider(c) \in Providers /\ cycle[c].batch = {}
  <2>1. cycle[c].pc \in {"collect"} \cup Executing
    BY DEF CollectSucceeds, CollectRetries, CollectFails, CollectRefused, Reschedule, ProcessRun,
           PersistFeed, Executing
  <2>2. cycle[c].todo # <<>> /\ cycle[c] \in Cycle /\ cycle[c].batch = {}
    BY <2>1 DEF IInv, StagesInv, CarriersInv, TypeOK, Executing
  <2>. QED BY <2>1, <2>2, ProviderLeft DEF Provider, Cycle
<1>2. CASE CollectSucceeds(c) \/ CollectRetries(c) \/ CollectFails(c)
  <2>1. PICK r \in RunIds, row \in Run, items \in SUBSET Items, step \in {"process", "reschedule"} :
           Collected(c, r, row, items, step)
    BY <1>2, CollectEffect
  <2>2. cycle[c].pc = "collect"
    BY <1>2 DEF CollectSucceeds, CollectRetries, CollectFails
  <2>3. /\ cycle' \in [Cycles -> Cycle] /\ StagesInv' /\ CarriersInv'
        /\ runs' \in [RunIds -> Run] /\ raw' \in [Items -> 0..MaxRuns]
    BY <2>1, <2>2, CollectedShape
  <2>4. UNCHANGED <<cadence, gate, context, evidence, content, notif, sends, telegram, toggles,
                    faults, delays, overruns>>
    BY <1>2 DEF CollectSucceeds, CollectRetries, CollectFails, redis
  <2>. QED BY <2>3, <2>4 DEF IInv, TypeOK
<1>3. CASE CollectRefused(c)
  <2>1. CASE Goto(c, Done(c))
    BY <1>1, <1>3, <2>1, GotoDone DEF CollectRefused, IInv, TypeOK, redis
  <2>2. CASE /\ cycle[c].held[Provider(c)].run # 0
             /\ Goto(c, [At(c, "reschedule") EXCEPT !.run = cycle[c].held[Provider(c)].run])
    <3> DEFINE r == cycle[c].held[Provider(c)].run
               y == At(c, "reschedule")
               x == [y EXCEPT !.run = r]
    <3>1. r \in 0..MaxRuns /\ r \in RunIds
      <4>1. r \in 0..MaxRuns /\ r # 0
        BY <1>1, <2>2 DEF Cycle
      <4> HIDE DEF r
      <4>. QED BY <4>1, Constants DEF RunIds
    <3>2. /\ y \in Cycle /\ y.pc = "reschedule" /\ y.todo = cycle[c].todo /\ y.batch = cycle[c].batch
          /\ y.kind = cycle[c].kind
      BY AtShape DEF IInv
    <3>3. Goto(c, x)
      BY <2>2
    <3> HIDE DEF r, y
    <3>4. /\ x \in Cycle /\ x.pc = "reschedule" /\ x.todo = cycle[c].todo /\ x.batch = {}
          /\ x.run = r /\ x.kind = cycle[c].kind
      BY <1>1, <3>1, <3>2 DEF Cycle
    <3> HIDE DEF x
    <3>5. ProvidersLeft(x)
      BY <3>4 DEF ProvidersLeft, IInv, StagesInv
    <3>6. cycle' \in [Cycles -> Cycle] /\ StagesInv' /\ CarriersInv'
      BY <1>1, <3>1, <3>3, <3>4, <3>5, GotoShape
    <3>. QED BY <1>3, <3>6 DEF CollectRefused, IInv, TypeOK, redis
  <2>. QED BY <1>3, <2>1, <2>2 DEF CollectRefused
<1>4. CASE Reschedule(c)
  <2>1. Goto(c, At(c, "new")) \/ Goto(c, Done(c))
    BY <1>4 DEF Reschedule, Unfinished
  <2>2. cycle' \in [Cycles -> Cycle] /\ StagesInv' /\ CarriersInv'
    BY <1>1, <1>4, <2>1, GotoAt, GotoDone DEF Reschedule, Executing
  <2>3. cycle[c].run \in RunIds /\ cycle[c].run \in 0..MaxRuns
    BY <1>4, Constants DEF Reschedule, IInv, StagesInv, Executing, RunIds
  <2>4. [run |-> cycle[c].run, attempt |-> runs[cycle[c].run].retries] \in Context
    BY <2>3 DEF IInv, TypeOK, Run, Context
  <2>5. /\ cadence' \in [Providers -> BOOLEAN] /\ gate' \in [Providers -> BOOLEAN]
        /\ context' \in [Providers -> Context]
    BY <1>1, <1>4, <2>4 DEF Reschedule, IInv, TypeOK, redis
  <2>. QED BY <1>4, <2>2, <2>5 DEF Reschedule, IInv, TypeOK
<1>5. CASE ProcessRun(c)
  <2>1. Goto(c, At(c, "persist")) \/ Goto(c, At(c, "reschedule"))
    BY <1>5 DEF ProcessRun
  <2>2. cycle' \in [Cycles -> Cycle] /\ StagesInv' /\ CarriersInv'
    BY <1>5, <2>1, GotoAt DEF ProcessRun, Executing
  <2>3. evidence' \subseteq Items
    BY <1>5 DEF ProcessRun, Saved, Bound, Of, IInv, TypeOK
  <2>4. {faults', delays', overruns'} \subseteq Nat
    BY <1>5, FaultTypes DEF ProcessRun
  <2>. QED BY <1>5, <2>2, <2>3, <2>4 DEF ProcessRun, IInv, TypeOK, redis
<1>6. CASE PersistFeed(c)
  <2>1. Goto(c, At(c, "new")) \/ Goto(c, At(c, "reschedule"))
    BY <1>6 DEF PersistFeed
  <2>2. cycle' \in [Cycles -> Cycle] /\ StagesInv' /\ CarriersInv'
    BY <1>6, <2>1, GotoAt DEF PersistFeed, Executing
  <2>3. content' \subseteq Items
    BY <1>6 DEF PersistFeed, Displayed, Bound, Of, IInv, TypeOK
  <2>. QED BY <1>6, <2>2, <2>3 DEF PersistFeed, IInv, TypeOK, redis
<1>. QED BY <1>2, <1>3, <1>4, <1>5, <1>6

-----------------------------------------------------------------------------
(* The actions on notifications.                                           *)

\* What a cycle carries on after its announcement.
LEMMA AnnounceShape ==
    ASSUME IInv, NEW c \in Cycles, cycle[c].pc = "new", NEW new \in SUBSET Items
    PROVE  LET x == Announce(c, new) IN
           /\ x \in Cycle /\ x.kind = cycle[c].kind /\ x.batch = new
           /\ x.pc \in {"retries", "send", "collect"} /\ (x.batch # {} => x.pc \in {"retries", "send"})
           /\ \/ /\ x.pc = "send" /\ x.todo = cycle[c].todo /\ x.held = cycle[c].held
                 /\ x.run = cycle[c].run
              \/ /\ x.pc \in {"retries", "collect"} /\ x.todo = Tail(cycle[c].todo)
                 /\ x.held = [cycle[c].held EXCEPT ![Provider(c)] = NotClaimed]
           /\ (x.pc = "collect" => x.todo # <<>>) /\ ProvidersLeft(x)
           /\ x.read = cycle[c].read
<1>1. cycle[c].todo # <<>> /\ cycle[c].batch = {} /\ ProvidersLeft(cycle[c]) /\ TypeOK
    BY DEF IInv, StagesInv, CarriersInv, Executing
<1> DEFINE y == Done(c)
           z == At(c, "send")
<1>2. /\ y \in Cycle /\ y.kind = cycle[c].kind /\ y.batch = {}
      /\ y.pc = (IF Tail(cycle[c].todo) = <<>> THEN "retries" ELSE "collect")
      /\ y.todo = Tail(cycle[c].todo)
      /\ y.held = [cycle[c].held EXCEPT ![Provider(c)] = NotClaimed]
      /\ y.read = cycle[c].read
    BY <1>1, DoneShape
<1>3. /\ z \in Cycle /\ z.pc = "send" /\ z.kind = cycle[c].kind /\ z.todo = cycle[c].todo
      /\ z.held = cycle[c].held /\ z.run = cycle[c].run /\ z.read = cycle[c].read
    BY <1>1, AtShape
<1>4. Announce(c, new) = IF cycle[c].kind = "single" THEN [y EXCEPT !.batch = new]
                         ELSE IF new = {} THEN y ELSE [z EXCEPT !.batch = new]
    BY DEF Announce
<1> HIDE DEF y, z
<1>5. CASE cycle[c].kind = "single"
  <2>1. Tail(cycle[c].todo) = <<>>
    BY <1>1, <1>5 DEF ProvidersLeft
  <2> DEFINE x == [y EXCEPT !.batch = new]
  <2>2. /\ x \in Cycle /\ x.kind = y.kind /\ x.batch = new /\ x.pc = y.pc /\ x.todo = y.todo
        /\ x.held = y.held /\ x.read = y.read
    BY <1>2 DEF Cycle
  <2>3. Announce(c, new) = x
    BY <1>4, <1>5
  <2> HIDE DEF x
  <2>. QED BY <1>2, <2>1, <2>2, <2>3 DEF ProvidersLeft
<1>6. CASE cycle[c].kind # "single" /\ new = {}
  <2>1. Announce(c, new) = y
    BY <1>4, <1>6
  <2>. QED BY <1>2, <1>6, <2>1 DEF ProvidersLeft
<1>7. CASE cycle[c].kind # "single" /\ new # {}
  <2> DEFINE x == [z EXCEPT !.batch = new]
  <2>2. /\ x \in Cycle /\ x.kind = z.kind /\ x.batch = new /\ x.pc = z.pc /\ x.todo = z.todo
        /\ x.held = z.held /\ x.read = z.read /\ x.run = z.run
    BY <1>3 DEF Cycle
  <2>3. Announce(c, new) = x
    BY <1>4, <1>7
  <2> HIDE DEF x
  <2>. QED BY <1>3, <1>7, <2>2, <2>3 DEF ProvidersLeft
<1>. QED BY <1>5, <1>6, <1>7

LEMMA ClaimNewEffect ==
    ASSUME IInv, NEW c \in Cycles, ClaimNew(c)
    PROVE  \E new \in SUBSET Items :
              /\ \A i \in new : notif[i].status = "absent"
              /\ notif' \in [Items -> Row]
              /\ \A i \in new : notif'[i].status = "sending" /\ notif'[i].retries = 0 /\ ~notif'[i].stale
              /\ \A i \in Items \ new : notif'[i] = notif[i]
              /\ Announce(c, new) \in Cycle /\ Goto(c, Announce(c, new))
<1>1. PICK S \in SUBSET content :
         Insert(S, "sending", cycle[c].kind) /\ Goto(c, Announce(c, Absent(S)))
    BY DEF ClaimNew
<1>2. S \subseteq Items /\ Absent(S) \subseteq Items /\ cycle[c].pc = "new"
    BY DEF IInv, TypeOK, Absent, ClaimNew
<1>3. cycle[c].kind \in {"multi", "single", "none"}
    BY DEF IInv, TypeOK, Cycle
<1> DEFINE row == [NoRow EXCEPT !.status = "sending", !.policy = cycle[c].kind]
<1>4. row \in Row /\ row.status = "sending" /\ row.retries = 0 /\ ~row.stale
  <2>1. NoRow \in Row /\ NoRow.retries = 0 /\ ~NoRow.stale
    BY Constants DEF NoRow, Row
  <2>. QED BY <1>3, <2>1 DEF Row
<1>5. notif' = [i \in Items |-> IF i \in S /\ notif[i].status = "absent" THEN row ELSE notif[i]]
    BY <1>1 DEF Insert
<1> HIDE DEF row
<1>. QED BY <1>1, <1>2, <1>4, <1>5, AnnounceShape DEF Absent, IInv, TypeOK

LEMMA KeepPendingEffect ==
    ASSUME IInv, NEW c \in Cycles, KeepPending(c)
    PROVE  \E new \in SUBSET Items :
              /\ \A i \in new : notif[i].status = "absent"
              /\ notif' \in [Items -> Row]
              /\ \A i \in new : notif'[i].status = "pending" /\ notif'[i].retries = 0 /\ ~notif'[i].stale
              /\ \A i \in Items \ new : notif'[i] = notif[i]
<1>1. PICK S \in SUBSET content : Insert(S, "pending", cycle[c].kind)
    BY DEF KeepPending
<1>2. S \subseteq Items /\ Absent(S) \subseteq Items
    BY DEF IInv, TypeOK, Absent
<1>3. cycle[c].kind \in {"multi", "single", "none"}
    BY DEF IInv, TypeOK, Cycle
<1> DEFINE row == [NoRow EXCEPT !.status = "pending", !.policy = cycle[c].kind]
<1>4. row \in Row /\ row.status = "pending" /\ row.retries = 0 /\ ~row.stale
  <2>1. NoRow \in Row /\ NoRow.retries = 0 /\ ~NoRow.stale
    BY Constants DEF NoRow, Row
  <2>. QED BY <1>3, <2>1 DEF Row
<1>5. notif' = [i \in Items |-> IF i \in S /\ notif[i].status = "absent" THEN row ELSE notif[i]]
    BY <1>1 DEF Insert
<1> HIDE DEF row
<1>. QED BY <1>2, <1>4, <1>5 DEF Absent, IInv, TypeOK

LEMMA ClaimRetriesEffect ==
    ASSUME IInv, NEW c \in Cycles, ClaimRetries(c)
    PROVE  \E S \in SUBSET Items, x \in Cycle :
              /\ cycle[c].pc = "retries"
              /\ \A i \in S : /\ notif[i].status \in {"failed", "pending", "sending"}
                              /\ notif[i].status = "sending" => notif[i].stale
                              /\ notif'[i].status = "sending" /\ ~notif'[i].stale
                              /\ notif[i].status = "pending" => notif'[i].retries = notif[i].retries
                              /\ notif[i].status # "pending" => notif'[i].retries = notif[i].retries + 1
              /\ notif' \in [Items -> Row]
              /\ \A i \in Items \ S : notif'[i] = notif[i]
              /\ Goto(c, x) /\ x.batch = cycle[c].batch \cup S
              /\ \/ x.pc = "send" /\ x.todo = cycle[c].todo /\ x.held = cycle[c].held /\ x.run = cycle[c].run
                    /\ x.kind = cycle[c].kind
                 \/ x = Idle
<1>1. PICK S \in SUBSET {i \in Items : Retryable(notif[i], cycle[c].kind)} :
         /\ notif' = [i \in Items |-> IF i \in S THEN Reclaimed(notif[i]) ELSE notif[i]]
         /\ Goto(c, IF cycle[c].batch \cup S = {} THEN Idle
                    ELSE [At(c, "send") EXCEPT !.batch = @ \cup S])
    BY DEF ClaimRetries
<1>2. cycle[c].pc = "retries" /\ S \in SUBSET Items /\ cycle[c] \in Cycle /\ TypeOK
    BY DEF ClaimRetries, IInv, TypeOK
<1>3. \A i \in S :
         /\ notif[i].status \in {"failed", "pending", "sending"}
         /\ notif[i].status = "sending" => notif[i].stale
         /\ notif[i].retries < MaxAttempts /\ notif[i] \in Row
    BY DEF Retryable, IInv, TypeOK
<1>4. \A row \in Row : row.retries < MaxAttempts =>
         /\ Reclaimed(row) \in Row
         /\ Reclaimed(row).status = "sending" /\ ~Reclaimed(row).stale
         /\ Reclaimed(row).retries = IF row.status = "pending" THEN row.retries ELSE row.retries + 1
  <2> SUFFICES ASSUME NEW row \in Row, row.retries < MaxAttempts
               PROVE  /\ Reclaimed(row) \in Row
                      /\ Reclaimed(row).status = "sending" /\ ~Reclaimed(row).stale
                      /\ Reclaimed(row).retries = IF row.status = "pending" THEN row.retries
                                                  ELSE row.retries + 1
    OBVIOUS
  <2> DEFINE n == IF row.status = "pending" THEN row.retries ELSE row.retries + 1
  <2>1. n \in 0..MaxAttempts
    BY Constants DEF Row
  <2>2. Reclaimed(row) = [row EXCEPT !.status = "sending", !.stale = FALSE, !.retries = n]
    BY DEF Reclaimed
  <2> HIDE DEF n
  <2>3. /\ Reclaimed(row) \in Row /\ Reclaimed(row).status = "sending"
        /\ ~Reclaimed(row).stale /\ Reclaimed(row).retries = n
    BY <2>1, <2>2 DEF Row
  <2>. QED BY <2>3 DEF n
<1>5. /\ notif' \in [Items -> Row]
      /\ \A i \in Items \ S : notif'[i] = notif[i]
      /\ \A i \in S : notif'[i] = Reclaimed(notif[i])
    BY <1>1, <1>2, <1>3, <1>4 DEF TypeOK
<1>6. \E x \in Cycle :
         /\ Goto(c, x) /\ x.batch = cycle[c].batch \cup S
         /\ \/ x.pc = "send" /\ x.todo = cycle[c].todo /\ x.held = cycle[c].held /\ x.run = cycle[c].run
               /\ x.kind = cycle[c].kind
            \/ x = Idle
  <2>1. CASE cycle[c].batch \cup S = {}
    BY <1>1, <2>1, IdleShape
  <2>2. CASE cycle[c].batch \cup S # {}
    <3> DEFINE y == At(c, "send")
               x == [y EXCEPT !.batch = cycle[c].batch \cup S]
    <3>1. /\ y \in Cycle /\ y.pc = "send" /\ y.todo = cycle[c].todo /\ y.held = cycle[c].held
          /\ y.run = cycle[c].run /\ y.kind = cycle[c].kind /\ y.batch = cycle[c].batch
      BY <1>2, AtShape
    <3>2. Goto(c, x)
      BY <1>1, <2>2, <3>1
    <3> HIDE DEF y
    <3>3. cycle[c].batch \cup S \in SUBSET Items
      BY <1>2 DEF Cycle
    <3>4. /\ x \in Cycle /\ x.pc = "send" /\ x.todo = cycle[c].todo /\ x.held = cycle[c].held
          /\ x.run = cycle[c].run /\ x.kind = cycle[c].kind /\ x.batch = cycle[c].batch \cup S
      BY <3>1, <3>3 DEF Cycle
    <3> HIDE DEF x
    <3>. QED BY <3>2, <3>4
  <2>. QED BY <2>1, <2>2
<1>7. PICK x \in Cycle :
         /\ Goto(c, x) /\ x.batch = cycle[c].batch \cup S
         /\ \/ x.pc = "send" /\ x.todo = cycle[c].todo /\ x.held = cycle[c].held /\ x.run = cycle[c].run
               /\ x.kind = cycle[c].kind
            \/ x = Idle
    BY <1>6
<1>8. \A i \in S :
         /\ notif'[i].status = "sending" /\ ~notif'[i].stale
         /\ notif[i].status = "pending" => notif'[i].retries = notif[i].retries
         /\ notif[i].status # "pending" => notif'[i].retries = notif[i].retries + 1
    BY <1>3, <1>4, <1>5
<1>9. WITNESS S \in SUBSET Items, x \in Cycle
<1>. QED BY <1>2, <1>3, <1>5, <1>7, <1>8

LEMMA SendEffect ==
    ASSUME IInv, NEW c \in Cycles, Send(c)
    PROVE  \E answer \in Answers, x \in Cycle :
              /\ cycle[c].pc = "send" /\ Goto(c, x) /\ x.pc = "mark" /\ x.accepted = (answer = "ok")
              /\ x.batch = cycle[c].batch /\ x.todo = cycle[c].todo /\ x.held = cycle[c].held
              /\ x.run = cycle[c].run /\ x.kind = cycle[c].kind
              /\ sends' = [i \in Items |-> IF i \in cycle[c].batch /\ answer \in {"ok", "lost"}
                                           THEN sends[i] + 1 ELSE sends[i]]
              /\ IF answer = "lost" THEN Fault ELSE UNCHANGED <<faults, delays, overruns>>
<1>1. PICK answer \in Answers :
         /\ Goto(c, [At(c, "mark") EXCEPT !.accepted = (answer = "ok")])
         /\ sends' = [i \in Items |-> IF i \in cycle[c].batch /\ answer \in {"ok", "lost"}
                                      THEN sends[i] + 1 ELSE sends[i]]
         /\ IF answer = "lost" THEN Fault ELSE UNCHANGED <<faults, delays, overruns>>
    BY DEF Send
<1> DEFINE y == At(c, "mark")
           ok == (answer = "ok")
           x == [y EXCEPT !.accepted = ok]
<1>2. /\ y \in Cycle /\ y.pc = "mark" /\ y.batch = cycle[c].batch /\ y.todo = cycle[c].todo
      /\ y.held = cycle[c].held /\ y.run = cycle[c].run /\ y.kind = cycle[c].kind
    BY AtShape DEF IInv
<1>3. Goto(c, x) /\ ok \in BOOLEAN /\ cycle[c].pc = "send"
    BY <1>1 DEF Send
<1> HIDE DEF y, ok
<1>4. /\ x \in Cycle /\ x.pc = "mark" /\ x.accepted = ok /\ x.batch = cycle[c].batch
      /\ x.todo = cycle[c].todo /\ x.held = cycle[c].held /\ x.run = cycle[c].run
      /\ x.kind = cycle[c].kind
    BY <1>2, <1>3 DEF Cycle
<1> HIDE DEF x
<1>. QED BY <1>1, <1>3, <1>4 DEF ok

LEMMA MarkEffect ==
    ASSUME IInv, NEW c \in Cycles, Mark(c)
    PROVE  /\ cycle[c].pc = "mark" /\ notif' \in [Items -> Row]
           /\ \A i \in Items :
                 /\ i \in cycle[c].batch /\ notif[i].status = "sending" =>
                       /\ notif'[i].status = (IF cycle[c].accepted THEN "sent" ELSE "failed")
                       /\ notif'[i].retries = notif[i].retries /\ ~notif'[i].stale
                 /\ ~(i \in cycle[c].batch /\ notif[i].status = "sending") => notif'[i] = notif[i]
           /\ \/ Goto(c, Idle)
              \/ cycle[c].todo # <<>> /\ Goto(c, Done(c))
  BY DEF Mark, Markable, IInv, TypeOK, Row

LEMMA NotifyIInv ==
    ASSUME IInv, NEW c \in Cycles,
           ClaimNew(c) \/ KeepPending(c) \/ ClaimRetries(c) \/ Send(c) \/ Mark(c)
    PROVE  IInv'
<1>1. CASE ClaimNew(c)
  <2>1. PICK new \in SUBSET Items :
           notif' \in [Items -> Row] /\ Announce(c, new) \in Cycle /\ Goto(c, Announce(c, new))
    BY <1>1, ClaimNewEffect
  <2>2. cycle[c].pc = "new"
    BY <1>1 DEF ClaimNew
  <2>3. /\ Announce(c, new).pc \in {"retries", "send", "collect"}
        /\ Announce(c, new).batch # {} => Announce(c, new).pc \in {"retries", "send"}
        /\ Announce(c, new).pc = "collect" => Announce(c, new).todo # <<>>
        /\ ProvidersLeft(Announce(c, new))
    BY <2>2, AnnounceShape
  <2>4. cycle' \in [Cycles -> Cycle] /\ StagesInv' /\ CarriersInv'
    BY <2>1, <2>3, GotoShape DEF Executing
  <2>. QED BY <1>1, <2>1, <2>4 DEF ClaimNew, IInv, TypeOK, redis
<1>2. CASE KeepPending(c)
  <2>1. notif' \in [Items -> Row]
    BY <1>2, KeepPendingEffect
  <2>2. Goto(c, Done(c)) /\ cycle[c].todo # <<>>
    BY <1>2 DEF KeepPending, IInv, StagesInv, Executing
  <2>3. cycle' \in [Cycles -> Cycle] /\ StagesInv' /\ CarriersInv'
    BY <2>2, GotoDone
  <2>. QED BY <1>2, <2>1, <2>3 DEF KeepPending, IInv, TypeOK, redis
<1>3. CASE ClaimRetries(c)
  <2>1. PICK x \in Cycle :
           /\ notif' \in [Items -> Row] /\ Goto(c, x)
           /\ (x.pc = "send" /\ x.todo = cycle[c].todo /\ x.kind = cycle[c].kind) \/ x = Idle
    BY <1>3, ClaimRetriesEffect
  <2>2. ProvidersLeft(cycle[c])
    BY DEF IInv, StagesInv
  <2>3. ProvidersLeft(x) /\ x.pc \in {"send", "idle"} /\ (x.pc = "idle" => x.batch = {})
    BY <2>1, <2>2, IdleShape DEF ProvidersLeft
  <2>4. cycle' \in [Cycles -> Cycle] /\ StagesInv' /\ CarriersInv'
    BY <2>1, <2>3, GotoShape DEF Executing
  <2>. QED BY <1>3, <2>1, <2>4 DEF ClaimRetries, IInv, TypeOK, redis
<1>4. CASE Send(c)
  <2>1. PICK answer \in Answers, x \in Cycle :
           /\ Goto(c, x) /\ x.pc = "mark" /\ x.todo = cycle[c].todo /\ x.kind = cycle[c].kind
           /\ sends' = [i \in Items |-> IF i \in cycle[c].batch /\ answer \in {"ok", "lost"}
                                        THEN sends[i] + 1 ELSE sends[i]]
           /\ Fault \/ UNCHANGED <<faults, delays, overruns>>
    BY <1>4, SendEffect
  <2>2. ProvidersLeft(x)
    BY <2>1 DEF ProvidersLeft, IInv, StagesInv
  <2>3. cycle' \in [Cycles -> Cycle] /\ StagesInv' /\ CarriersInv'
    BY <2>1, <2>2, GotoShape DEF Executing
  <2>4. sends' \in [Items -> Nat] /\ {faults', delays', overruns'} \subseteq Nat
    BY <2>1, FaultTypes DEF IInv, TypeOK
  <2>. QED BY <1>4, <2>3, <2>4 DEF Send, IInv, TypeOK, redis
<1>5. CASE Mark(c)
  <2>1. notif' \in [Items -> Row] /\ (Goto(c, Idle) \/ (cycle[c].todo # <<>> /\ Goto(c, Done(c))))
    BY <1>5, MarkEffect
  <2>2. cycle' \in [Cycles -> Cycle] /\ StagesInv' /\ CarriersInv'
    BY <2>1, GotoDone, GotoIdle
  <2>. QED BY <1>5, <2>1, <2>2 DEF Mark, IInv, TypeOK, redis
<1>. QED BY <1>1, <1>2, <1>3, <1>4, <1>5

LEMMA StepIInv == ASSUME IInv, [Next]_vars PROVE IInv'
<1>1. CASE UNCHANGED vars
    BY <1>1 DEF vars, IInv, TypeOK, StagesInv, CarriersInv
<1>. QED BY <1>1, EnvironmentIInv, StartIInv, ClaimIInv, ExecuteIInv, NotifyIInv DEF Next, CycleStep

\* Keys, rows and processes have their types, and a cycle that claims or executes a
\* provider has one left to do, with the run it has collected.
THEOREM TypeCorrect == Spec => []TypeOK
<1>1. Init => IInv
    BY InitIInv
<1>2. IInv /\ [Next]_vars => IInv'
    BY StepIInv
<1>3. IInv => TypeOK
    BY DEF IInv
<1>. QED BY <1>1, <1>2, <1>3, PTL DEF Spec

-----------------------------------------------------------------------------
(* Notifications are sent as often as their row says.                      *)

\* The cycles that have item i claimed and not sent yet.
Carriers(i) == {c \in Cycles : i \in cycle[c].batch /\ cycle[c].pc # "mark"}

\* Every message has its attempt: those that are out and those on their way.
AttemptsInv ==
    \A i \in Items :
        /\ IsFiniteSet(Carriers(i))
        /\ sends[i] + Cardinality(Carriers(i)) <= notif[i].retries + 1
        /\ notif[i].status \in {"absent", "pending"} => sends[i] = 0 /\ Carriers(i) = {}

\* SENT rows, and those about to be, went to the chat.
SentInv ==
    /\ \A i \in Items : notif[i].status = "sent" => sends[i] > 0
    /\ \A c \in Cycles : cycle[c].pc = "mark" /\ cycle[c].accepted =>
          \A i \in cycle[c].batch : sends[i] > 0

Sending(i) == notif[i].status = "sending"

\* Without a fault or a delay a claim is one cycle's, and a message that went out is
\* marked or about to be.
CleanInv ==
    faults + delays = 0 =>
        /\ \A c \in Cycles : \A i \in cycle[c].batch : Sending(i)
        /\ \A c, d \in Cycles : c # d => cycle[c].batch \cap cycle[d].batch = {}
        /\ \A i \in Items :
              /\ ~notif[i].stale
              /\ Sending(i) => \E c \in Cycles : i \in cycle[c].batch
              /\ sends[i] <= 1
              /\ sends[i] = 1 => \/ notif[i].status = "sent"
                                 \/ \E c \in Cycles : /\ cycle[c].pc = "mark" /\ cycle[c].accepted
                                                     /\ i \in cycle[c].batch

MessagesInv == AttemptsInv /\ SentInv /\ CleanInv

LEMMA InitMessages == ASSUME Init PROVE MessagesInv
<1>1. \A c \in Cycles : cycle[c].batch = {} /\ cycle[c].pc = "idle"
    BY IdleShape DEF Init
<1>2. \A i \in Items : Carriers(i) = {}
    BY <1>1 DEF Carriers
<1>3. \A i \in Items : sends[i] = 0 /\ notif[i].status = "absent" /\ notif[i].retries = 0 /\ ~notif[i].stale
    BY DEF Init, NoRow
<1>4. IsFiniteSet({}) /\ Cardinality({}) = 0
    BY FS_EmptySet
<1>5. AttemptsInv
    BY <1>2, <1>3, <1>4 DEF AttemptsInv
<1>. QED BY <1>1, <1>3, <1>5 DEF MessagesInv, SentInv, CleanInv, Sending

\* Carriers come by one at a time.
LEMMA MoreCarriers ==
    ASSUME NEW S, IsFiniteSet(S), NEW c
    PROVE  /\ Cardinality(S) \in Nat
           /\ \A T \in SUBSET S : IsFiniteSet(T) /\ Cardinality(T) \in Nat /\ Cardinality(T) <= Cardinality(S)
           /\ \A T \in SUBSET (S \cup {c}) :
                 IsFiniteSet(T) /\ Cardinality(T) \in Nat /\ Cardinality(T) <= Cardinality(S) + 1
           /\ c \in S => Cardinality(S \ {c}) = Cardinality(S) - 1
<1>1. Cardinality(S) \in Nat
    BY FS_CardinalityType
<1>2. \A T \in SUBSET S : IsFiniteSet(T) /\ Cardinality(T) \in Nat /\ Cardinality(T) <= Cardinality(S)
    BY FS_Subset, FS_CardinalityType
<1>3. /\ IsFiniteSet(S \cup {c})
      /\ Cardinality(S \cup {c}) = IF c \in S THEN Cardinality(S) ELSE Cardinality(S) + 1
    BY FS_AddElement
<1>4. \A T \in SUBSET (S \cup {c}) :
         IsFiniteSet(T) /\ Cardinality(T) \in Nat /\ Cardinality(T) <= Cardinality(S \cup {c})
    BY <1>3, FS_Subset, FS_CardinalityType
<1>5. c \in S => Cardinality(S \ {c}) = Cardinality(S) - 1
    BY FS_RemoveElement
<1> DEFINE n == Cardinality(S)
           m == Cardinality(S \cup {c})
<1>6. m <= n + 1 /\ m \in Nat
    BY <1>1, <1>3
<1>7. \A k \in Nat : k <= m => k <= n + 1
    BY <1>1, <1>6
<1>. QED BY <1>1, <1>2, <1>4, <1>5, <1>7

\* The arithmetic of counting: less on its way, or one more on its way for one more
\* attempt, or one on its way that is out.
LEMMA CountsMove ==
    ASSUME NEW a \in Nat, NEW k \in Nat, NEW r \in Nat, a + k <= r + 1
    PROVE  /\ \A n \in Nat : n <= k => a + n <= r + 1
           /\ \A n \in Nat : n <= k + 1 => a + n <= (r + 1) + 1
           /\ (a + 1) + (k - 1) <= r + 1
  OBVIOUS

\* A step that leaves the notifications and what is on its way alone.
LEMMA QuietMessages ==
    ASSUME IInv, MessagesInv, notif' = notif, sends' = sends,
           faults' + delays' = 0 => faults + delays = 0,
           \A c \in Cycles : /\ cycle'[c].batch = cycle[c].batch
                             /\ \/ cycle[c].batch = {}
                                \/ cycle'[c].pc = cycle[c].pc /\ cycle'[c].accepted = cycle[c].accepted
    PROVE  MessagesInv'
<1>1. \A i \in Items : Carriers(i)' = Carriers(i)
    BY DEF Carriers
<1>2. AttemptsInv'
    BY <1>1 DEF MessagesInv, AttemptsInv
<1>3. SentInv'
    BY DEF MessagesInv, SentInv
<1>4. CleanInv'
    BY DEF MessagesInv, CleanInv, Sending
<1>. QED BY <1>2, <1>3, <1>4 DEF MessagesInv

LEMMA AgesMessages ==
    ASSUME IInv, MessagesInv, NEW j \in Items, ClaimAges(j)
    PROVE  MessagesInv'
<1>1. /\ cycle' = cycle /\ sends' = sends /\ Sending(j)
      /\ notif' = [notif EXCEPT ![j].stale = TRUE]
    BY DEF ClaimAges, Sending
<1>2. \A i \in Items : notif'[i].status = notif[i].status /\ notif'[i].retries = notif[i].retries
    BY <1>1 DEF IInv, TypeOK, Row
<1>3. \A i \in Items : Carriers(i)' = Carriers(i)
    BY <1>1 DEF Carriers
<1>4. AttemptsInv'
    BY <1>1, <1>2, <1>3 DEF MessagesInv, AttemptsInv
<1>5. SentInv'
    BY <1>1, <1>2 DEF MessagesInv, SentInv
<1>6. CleanInv'
  <2> SUFFICES ASSUME faults' + delays' = 0 PROVE FALSE
    BY DEF CleanInv
  <2>1. {faults, delays} \subseteq Nat
    BY DEF IInv, TypeOK
  <2>2. CASE \E c \in Cycles : j \in cycle[c].batch
    <3>1. delays' = delays + 1 /\ faults' = faults
      BY <2>2 DEF ClaimAges
    <3>. QED BY <2>1, <3>1
  <2>3. CASE ~(\E c \in Cycles : j \in cycle[c].batch)
    <3>1. delays' = delays /\ faults' = faults
      BY <2>3 DEF ClaimAges
    <3>. QED BY <1>1, <2>3, <3>1 DEF MessagesInv, CleanInv
  <2>. QED BY <2>2, <2>3
<1>. QED BY <1>4, <1>5, <1>6 DEF MessagesInv

LEMMA StopMessages ==
    ASSUME IInv, MessagesInv, NEW c \in Cycles, Stop(c)
    PROVE  MessagesInv'
<1>1. /\ cycle'[c] = Idle /\ \A d \in Cycles \ {c} : cycle'[d] = cycle[d]
      /\ notif' = notif /\ sends' = sends
    BY DEF Stop, Goto, IInv, TypeOK
<1>2. cycle'[c].batch = {} /\ cycle'[c].pc = "idle"
    BY <1>1, IdleShape
<1>3. \A i \in Items : Carriers(i)' \subseteq Carriers(i)
    BY <1>1, <1>2 DEF Carriers
<1>4. AttemptsInv'
  <2> SUFFICES ASSUME NEW i \in Items
               PROVE  /\ IsFiniteSet(Carriers(i)')
                      /\ sends[i] + Cardinality(Carriers(i)') <= notif[i].retries + 1
                      /\ notif[i].status \in {"absent", "pending"} => sends[i] = 0 /\ Carriers(i)' = {}
    BY <1>1 DEF AttemptsInv
  <2>1. IsFiniteSet(Carriers(i)) /\ sends[i] + Cardinality(Carriers(i)) <= notif[i].retries + 1
    BY DEF MessagesInv, AttemptsInv
  <2>2. sends[i] \in Nat /\ notif[i].retries \in Nat
    BY Constants DEF IInv, TypeOK, Row
  <2>3. /\ IsFiniteSet(Carriers(i)') /\ Cardinality(Carriers(i)) \in Nat
        /\ Cardinality(Carriers(i)') \in Nat
        /\ Cardinality(Carriers(i)') <= Cardinality(Carriers(i))
    BY <1>3, <2>1, MoreCarriers
  <2>4. sends[i] + Cardinality(Carriers(i)') <= notif[i].retries + 1
    BY <2>1, <2>2, <2>3, CountsMove
  <2>. QED BY <1>3, <2>3, <2>4 DEF MessagesInv, AttemptsInv
<1>5. SentInv'
    BY <1>1, <1>2 DEF MessagesInv, SentInv
<1>6. CleanInv'
  <2>1. faults' + delays' # 0
    BY DEF Stop, Fault, IInv, TypeOK
  <2>. QED BY <2>1 DEF CleanInv
<1>. QED BY <1>4, <1>5, <1>6 DEF MessagesInv

LEMMA SendMessages ==
    ASSUME IInv, MessagesInv, NEW c \in Cycles, Send(c)
    PROVE  MessagesInv'
<1>1. PICK answer \in Answers, x \in Cycle :
         /\ cycle[c].pc = "send" /\ Goto(c, x) /\ x.pc = "mark" /\ x.accepted = (answer = "ok")
         /\ x.batch = cycle[c].batch
         /\ sends' = [i \in Items |-> IF i \in cycle[c].batch /\ answer \in {"ok", "lost"}
                                      THEN sends[i] + 1 ELSE sends[i]]
         /\ IF answer = "lost" THEN Fault ELSE UNCHANGED <<faults, delays, overruns>>
    BY SendEffect
<1>2. /\ cycle'[c].pc = "mark" /\ (cycle'[c].accepted <=> answer = "ok")
      /\ cycle'[c].batch = cycle[c].batch
    BY <1>1 DEF Goto, IInv, TypeOK
<1>3. /\ \A d \in Cycles \ {c} : cycle'[d] = cycle[d]
      /\ notif' = notif /\ sends \in [Items -> Nat]
    BY <1>1 DEF Goto, IInv, TypeOK, Send
<1>4. \A i \in Items : Carriers(i)' = Carriers(i) \ {c}
    BY <1>1, <1>2, <1>3 DEF Carriers
<1>5. \A i \in Items : c \in Carriers(i) <=> i \in cycle[c].batch
    BY <1>1 DEF Carriers
<1>6. AttemptsInv'
  <2> SUFFICES ASSUME NEW i \in Items
               PROVE  /\ IsFiniteSet(Carriers(i) \ {c})
                      /\ sends'[i] + Cardinality(Carriers(i) \ {c}) <= notif[i].retries + 1
                      /\ notif[i].status \in {"absent", "pending"} => sends'[i] = 0 /\ Carriers(i) \ {c} = {}
    BY <1>3, <1>4 DEF AttemptsInv
  <2>1. /\ IsFiniteSet(Carriers(i)) /\ sends[i] + Cardinality(Carriers(i)) <= notif[i].retries + 1
        /\ notif[i].status \in {"absent", "pending"} => sends[i] = 0 /\ Carriers(i) = {}
    BY DEF MessagesInv, AttemptsInv
  <2>2. sends[i] \in Nat /\ notif[i].retries \in Nat
    BY Constants DEF IInv, TypeOK, Row
  <2>3. /\ IsFiniteSet(Carriers(i) \ {c}) /\ Cardinality(Carriers(i)) \in Nat
        /\ Cardinality(Carriers(i) \ {c}) \in Nat
        /\ Cardinality(Carriers(i) \ {c}) <= Cardinality(Carriers(i))
        /\ c \in Carriers(i) => Cardinality(Carriers(i) \ {c}) = Cardinality(Carriers(i)) - 1
    BY <2>1, MoreCarriers
  <2>4. /\ sends[i] + Cardinality(Carriers(i) \ {c}) <= notif[i].retries + 1
        /\ (sends[i] + 1) + (Cardinality(Carriers(i)) - 1) <= notif[i].retries + 1
    BY <2>1, <2>2, <2>3, CountsMove
  <2>5. CASE i \in cycle[c].batch
    <3>1. sends'[i] = sends[i] + 1 \/ sends'[i] = sends[i]
      BY <1>1
    <3>2. Cardinality(Carriers(i) \ {c}) = Cardinality(Carriers(i)) - 1 /\ Carriers(i) # {}
      BY <1>5, <2>3, <2>5
    <3>. QED BY <2>1, <2>3, <2>4, <3>1, <3>2
  <2>6. CASE i \notin cycle[c].batch
    <3>1. sends'[i] = sends[i]
      BY <1>1, <2>6
    <3>. QED BY <2>1, <2>3, <2>4, <3>1
  <2>. QED BY <2>5, <2>6
<1>7. \A i \in Items : /\ sends'[i] \in Nat /\ sends'[i] >= sends[i]
                       /\ i \in cycle[c].batch /\ answer = "ok" => sends'[i] = sends[i] + 1
                       /\ i \notin cycle[c].batch \/ answer \notin {"ok", "lost"} => sends'[i] = sends[i]
    BY <1>1, <1>3
<1>8. SentInv'
  <2>1. \A i \in Items : notif'[i].status = "sent" => sends'[i] > 0
    BY <1>3, <1>7 DEF MessagesInv, SentInv
  <2>2. ASSUME NEW d \in Cycles, cycle'[d].pc = "mark", cycle'[d].accepted, NEW i \in cycle'[d].batch
        PROVE  sends'[i] > 0
    <3>1. i \in Items
      BY ZenonT(60), <1>2, <1>3, <2>2 DEF IInv, TypeOK, Cycle
    <3>2. CASE d = c
      BY <1>2, <1>3, <1>7, <2>2, <3>1, <3>2
    <3>3. CASE d # c
      <4>1. sends[i] > 0
        BY <1>3, <2>2, <3>3 DEF MessagesInv, SentInv
      <4>. QED BY <1>3, <1>7, <3>1, <4>1
    <3>. QED BY <3>2, <3>3
  <2>. QED BY <2>1, <2>2 DEF SentInv
<1>9. CleanInv'
  <2> SUFFICES ASSUME faults' + delays' = 0
               PROVE  /\ \A d \in Cycles : \A i \in cycle'[d].batch : Sending(i)'
                      /\ \A d, e \in Cycles : d # e => cycle'[d].batch \cap cycle'[e].batch = {}
                      /\ \A i \in Items :
                            /\ ~notif'[i].stale
                            /\ Sending(i)' => \E d \in Cycles : i \in cycle'[d].batch
                            /\ sends'[i] <= 1
                            /\ sends'[i] = 1 => \/ notif'[i].status = "sent"
                                                \/ \E d \in Cycles : /\ cycle'[d].pc = "mark"
                                                                    /\ cycle'[d].accepted
                                                                    /\ i \in cycle'[d].batch
    BY DEF CleanInv
  <2>1. answer # "lost" /\ faults + delays = 0
    BY <1>1 DEF Fault, IInv, TypeOK
  <2>2. \A d \in Cycles : cycle'[d].batch = cycle[d].batch
    BY <1>2, <1>3
  <2>3. /\ \A d \in Cycles : \A i \in cycle'[d].batch : Sending(i)'
        /\ \A d, e \in Cycles : d # e => cycle'[d].batch \cap cycle'[e].batch = {}
        /\ \A i \in Items : /\ ~notif'[i].stale
                            /\ Sending(i)' => \E d \in Cycles : i \in cycle'[d].batch
    BY <1>3, <2>1, <2>2 DEF MessagesInv, CleanInv, Sending
  <2>4. ASSUME NEW i \in Items
        PROVE  /\ sends'[i] <= 1
               /\ sends'[i] = 1 => \/ notif'[i].status = "sent"
                                   \/ \E d \in Cycles : /\ cycle'[d].pc = "mark" /\ cycle'[d].accepted
                                                       /\ i \in cycle'[d].batch
    <3>1. /\ sends[i] <= 1 /\ sends[i] \in Nat
          /\ sends[i] = 1 => \/ notif[i].status = "sent"
                             \/ \E d \in Cycles : /\ cycle[d].pc = "mark" /\ cycle[d].accepted
                                                 /\ i \in cycle[d].batch
      BY <1>3, <2>1 DEF MessagesInv, CleanInv
    <3>2. CASE i \in cycle[c].batch /\ answer = "ok"
      <4>1. notif[i].status = "sending"
        BY <2>1, <3>2 DEF MessagesInv, CleanInv, Sending
      <4>2. \A d \in Cycles : cycle[d].pc = "mark" => i \notin cycle[d].batch
        BY <1>1, <2>1, <3>2 DEF MessagesInv, CleanInv
      <4>3. sends[i] = 0
        BY <3>1, <4>1, <4>2
      <4>4. sends'[i] = 1
        BY <1>7, <3>2, <4>3
      <4>. QED BY <1>2, <3>2, <4>4
    <3>3. CASE ~(i \in cycle[c].batch /\ answer = "ok")
      <4>1. sends'[i] = sends[i]
        BY <1>1, <1>3, <2>1, <3>3 DEF Answers
      <4>2. \A d \in Cycles : cycle[d].pc = "mark" => cycle'[d] = cycle[d]
        BY <1>1, <1>3
      <4>. QED BY <1>3, <3>1, <4>1, <4>2
    <3>. QED BY <3>2, <3>3
  <2>. QED BY <2>3, <2>4
<1>. QED BY <1>6, <1>8, <1>9 DEF MessagesInv

LEMMA MarkMessages ==
    ASSUME IInv, MessagesInv, NEW c \in Cycles, Mark(c)
    PROVE  MessagesInv'
<1>1. /\ cycle[c].pc = "mark"
      /\ \A i \in Items :
            /\ i \in cycle[c].batch /\ notif[i].status = "sending" =>
                  /\ notif'[i].status = (IF cycle[c].accepted THEN "sent" ELSE "failed")
                  /\ notif'[i].retries = notif[i].retries /\ ~notif'[i].stale
            /\ ~(i \in cycle[c].batch /\ notif[i].status = "sending") => notif'[i] = notif[i]
      /\ \/ Goto(c, Idle)
         \/ cycle[c].todo # <<>> /\ Goto(c, Done(c))
    BY MarkEffect
<1>2. /\ cycle'[c].batch = {} /\ cycle'[c].pc # "mark"
      /\ \A d \in Cycles \ {c} : cycle'[d] = cycle[d]
  <2>1. CASE Goto(c, Idle)
    BY <2>1, IdleShape DEF Goto, IInv, TypeOK
  <2>2. CASE cycle[c].todo # <<>> /\ Goto(c, Done(c))
    <3>1. Done(c).batch = {} /\ Done(c).pc # "mark"
      BY <2>2, DoneShape DEF IInv
    <3>. QED BY <2>2, <3>1 DEF Goto, IInv, TypeOK
  <2>. QED BY <1>1, <2>1, <2>2
<1>3. sends' = sends /\ faults' = faults /\ delays' = delays
    BY DEF Mark
<1>4. \A i \in Items : Carriers(i)' = Carriers(i)
    BY <1>1, <1>2 DEF Carriers
<1>5. \A i \in Items : /\ notif'[i].retries = notif[i].retries
                       /\ notif'[i].status \in {"absent", "pending"} => notif'[i].status = notif[i].status
    BY <1>1
<1>6. AttemptsInv'
    BY <1>3, <1>4, <1>5 DEF MessagesInv, AttemptsInv
<1>7. SentInv'
    BY <1>1, <1>2, <1>3 DEF MessagesInv, SentInv
<1>8. CleanInv'
  <2> SUFFICES ASSUME faults + delays = 0
               PROVE  /\ \A d \in Cycles : \A i \in cycle'[d].batch : Sending(i)'
                      /\ \A d, e \in Cycles : d # e => cycle'[d].batch \cap cycle'[e].batch = {}
                      /\ \A i \in Items :
                            /\ ~notif'[i].stale
                            /\ Sending(i)' => \E d \in Cycles : i \in cycle'[d].batch
                            /\ sends'[i] <= 1
                            /\ sends'[i] = 1 => \/ notif'[i].status = "sent"
                                                \/ \E d \in Cycles : /\ cycle'[d].pc = "mark"
                                                                    /\ cycle'[d].accepted
                                                                    /\ i \in cycle'[d].batch
    BY <1>3 DEF CleanInv
  <2>1. /\ \A d \in Cycles : \A i \in cycle[d].batch : Sending(i)
        /\ \A d, e \in Cycles : d # e => cycle[d].batch \cap cycle[e].batch = {}
        /\ \A i \in Items :
              /\ ~notif[i].stale
              /\ Sending(i) => \E d \in Cycles : i \in cycle[d].batch
              /\ sends[i] <= 1
              /\ sends[i] = 1 => \/ notif[i].status = "sent"
                                 \/ \E d \in Cycles : /\ cycle[d].pc = "mark" /\ cycle[d].accepted
                                                     /\ i \in cycle[d].batch
    BY DEF MessagesInv, CleanInv
  <2>2. \A d \in Cycles : cycle[d].batch \subseteq Items
    BY DEF IInv, TypeOK, Cycle
  <2>3. ASSUME NEW d \in Cycles, NEW i \in cycle'[d].batch PROVE Sending(i)'
    <3>1. d # c /\ i \in cycle[d].batch /\ i \in Items
      BY <1>2, <2>2, <2>3
    <3>2. i \notin cycle[c].batch /\ Sending(i)
      BY <2>1, <3>1
    <3>. QED BY <1>1, <3>1, <3>2 DEF Sending
  <2>4. \A d, e \in Cycles : d # e => cycle'[d].batch \cap cycle'[e].batch = {}
    BY <1>2, <2>1
  <2>5. ASSUME NEW i \in Items
        PROVE  /\ ~notif'[i].stale
               /\ Sending(i)' => \E d \in Cycles : i \in cycle'[d].batch
    <3>1. ~notif'[i].stale
      BY <1>1, <2>1
    <3>2. ASSUME Sending(i)' PROVE \E d \in Cycles : i \in cycle'[d].batch
      <4>1. Sending(i) /\ i \notin cycle[c].batch
        BY <1>1, <3>2 DEF Sending
      <4>2. PICK d \in Cycles : i \in cycle[d].batch
        BY <2>1, <4>1
      <4>. QED BY <1>2, <4>1, <4>2
    <3>. QED BY <3>1, <3>2
  <2>6. ASSUME NEW i \in Items, sends[i] = 1
        PROVE  \/ notif'[i].status = "sent"
               \/ \E d \in Cycles : cycle'[d].pc = "mark" /\ cycle'[d].accepted /\ i \in cycle'[d].batch
    <3>1. CASE notif[i].status = "sent"
      BY <1>1, <3>1
    <3>2. CASE \E d \in Cycles : cycle[d].pc = "mark" /\ cycle[d].accepted /\ i \in cycle[d].batch
      <4>1. PICK d \in Cycles : cycle[d].pc = "mark" /\ cycle[d].accepted /\ i \in cycle[d].batch
        BY <3>2
      <4>2. CASE d = c
        BY <1>1, <2>1, <4>1, <4>2 DEF Sending
      <4>3. CASE d # c
        BY <1>2, <4>1, <4>3
      <4>. QED BY <4>2, <4>3
    <3>. QED BY <2>1, <2>6, <3>1, <3>2
  <2>. QED BY <1>3, <2>1, <2>3, <2>4, <2>5, <2>6
<1>. QED BY <1>6, <1>7, <1>8 DEF MessagesInv

\* The notifications an announcement adds were never sent; it has them to send, or leaves
\* them to a later cycle.
LEMMA AnnounceMessages ==
    ASSUME IInv, MessagesInv, NEW c \in Cycles, ClaimNew(c) \/ KeepPending(c)
    PROVE  MessagesInv'
<1>1. /\ cycle[c].batch = {} /\ cycle[c].todo # <<>> /\ cycle[c].pc = "new"
      /\ sends' = sends /\ faults' = faults /\ delays' = delays
    BY DEF ClaimNew, KeepPending, IInv, StagesInv, CarriersInv, Executing
<1>2. PICK new \in SUBSET Items :
         /\ \A i \in new : notif[i].status = "absent" /\ notif'[i].retries = 0 /\ ~notif'[i].stale
         /\ \A i \in Items \ new : notif'[i] = notif[i]
         /\ \A d \in Cycles \ {c} : cycle'[d] = cycle[d]
         /\ \/ /\ \A i \in new : notif'[i].status = "sending"
               /\ cycle'[c].batch = new /\ cycle'[c].pc # "mark"
            \/ /\ \A i \in new : notif'[i].status = "pending"
               /\ cycle'[c].batch = {}
  <2>1. CASE ClaimNew(c)
    <3>1. PICK new \in SUBSET Items :
             /\ \A i \in new : notif[i].status = "absent"
             /\ \A i \in new : notif'[i].status = "sending" /\ notif'[i].retries = 0 /\ ~notif'[i].stale
             /\ \A i \in Items \ new : notif'[i] = notif[i]
             /\ Goto(c, Announce(c, new))
      BY <2>1, ClaimNewEffect
    <3>2. Announce(c, new).batch = new /\ Announce(c, new).pc # "mark"
      BY <1>1, AnnounceShape
    <3>3. cycle'[c] = Announce(c, new) /\ \A d \in Cycles \ {c} : cycle'[d] = cycle[d]
      BY <3>1 DEF Goto, IInv, TypeOK
    <3>. QED BY <3>1, <3>2, <3>3
  <2>2. CASE KeepPending(c)
    <3>1. PICK new \in SUBSET Items :
             /\ \A i \in new : notif[i].status = "absent"
             /\ \A i \in new : notif'[i].status = "pending" /\ notif'[i].retries = 0 /\ ~notif'[i].stale
             /\ \A i \in Items \ new : notif'[i] = notif[i]
      BY <2>2, KeepPendingEffect
    <3>2. Done(c).batch = {}
      BY <1>1, DoneShape DEF IInv
    <3>3. cycle'[c] = Done(c) /\ \A d \in Cycles \ {c} : cycle'[d] = cycle[d]
      BY <2>2 DEF KeepPending, Goto, IInv, TypeOK
    <3>. QED BY <3>1, <3>2, <3>3
  <2>. QED BY <2>1, <2>2
<1>3. \A i \in new : sends[i] = 0 /\ Carriers(i) = {}
    BY <1>2 DEF MessagesInv, AttemptsInv
<1>4. \A i \in Items \ new : Carriers(i)' = Carriers(i)
    BY <1>1, <1>2 DEF Carriers
<1>5. \A i \in new : Carriers(i)' \subseteq {c} /\ (notif'[i].status = "pending" => Carriers(i)' = {})
    BY <1>2, <1>3 DEF Carriers
<1>6. AttemptsInv'
  <2> SUFFICES ASSUME NEW i \in Items
               PROVE  /\ IsFiniteSet(Carriers(i)')
                      /\ sends[i] + Cardinality(Carriers(i)') <= notif'[i].retries + 1
                      /\ notif'[i].status \in {"absent", "pending"} => sends[i] = 0 /\ Carriers(i)' = {}
    BY <1>1 DEF AttemptsInv
  <2>1. CASE i \in new
    <3>1. IsFiniteSet({}) /\ Cardinality({}) = 0
      BY FS_EmptySet
    <3>2. IsFiniteSet(Carriers(i)') /\ Cardinality(Carriers(i)') \in Nat /\ Cardinality(Carriers(i)') <= 1
      <4>1. Carriers(i)' \in SUBSET ({} \cup {c})
        BY <1>5, <2>1
      <4>. QED BY <3>1, <4>1, MoreCarriers
    <3>3. sends[i] = 0 /\ notif'[i].retries = 0 /\ notif'[i].status \in {"sending", "pending"}
      BY <1>2, <1>3, <2>1
    <3>4. sends[i] + Cardinality(Carriers(i)') <= notif'[i].retries + 1
      BY <3>2, <3>3
    <3>. QED BY <1>5, <2>1, <3>2, <3>3, <3>4
  <2>2. CASE i \notin new
    BY <1>2, <1>4, <2>2 DEF MessagesInv, AttemptsInv
  <2>. QED BY <2>1, <2>2
<1>7. SentInv'
  <2>1. \A i \in Items : notif'[i].status = "sent" => sends[i] > 0
    BY <1>2 DEF MessagesInv, SentInv
  <2>2. \A d \in Cycles : cycle'[d].pc = "mark" /\ cycle'[d].accepted =>
           \A i \in cycle'[d].batch : sends[i] > 0
    BY <1>2 DEF MessagesInv, SentInv
  <2>. QED BY <1>1, <2>1, <2>2 DEF SentInv
<1>8. CleanInv'
  <2> SUFFICES ASSUME faults + delays = 0
               PROVE  /\ \A d \in Cycles : \A i \in cycle'[d].batch : Sending(i)'
                      /\ \A d, e \in Cycles : d # e => cycle'[d].batch \cap cycle'[e].batch = {}
                      /\ \A i \in Items :
                            /\ ~notif'[i].stale
                            /\ Sending(i)' => \E d \in Cycles : i \in cycle'[d].batch
                            /\ sends'[i] <= 1
                            /\ sends'[i] = 1 => \/ notif'[i].status = "sent"
                                                \/ \E d \in Cycles : /\ cycle'[d].pc = "mark"
                                                                    /\ cycle'[d].accepted
                                                                    /\ i \in cycle'[d].batch
    BY <1>1 DEF CleanInv
  <2>1. /\ \A d \in Cycles : \A i \in cycle[d].batch : Sending(i)
        /\ \A d, e \in Cycles : d # e => cycle[d].batch \cap cycle[e].batch = {}
        /\ \A i \in Items :
              /\ ~notif[i].stale
              /\ Sending(i) => \E d \in Cycles : i \in cycle[d].batch
              /\ sends[i] <= 1
              /\ sends[i] = 1 => \/ notif[i].status = "sent"
                                 \/ \E d \in Cycles : /\ cycle[d].pc = "mark" /\ cycle[d].accepted
                                                     /\ i \in cycle[d].batch
    BY DEF MessagesInv, CleanInv
  <2>2. \A d \in Cycles : cycle[d].batch \subseteq Items /\ cycle[d].batch \cap new = {}
    BY <1>2, <2>1 DEF IInv, TypeOK, Cycle, Sending
  <2>3. \A d \in Cycles \ {c} : \A i \in cycle[d].batch : notif'[i] = notif[i]
    BY <1>2, <2>2
  <2>4. \A d \in Cycles : \A i \in cycle'[d].batch : Sending(i)'
    BY <1>2, <2>1, <2>3 DEF Sending
  <2>5. \A d, e \in Cycles : d # e => cycle'[d].batch \cap cycle'[e].batch = {}
    BY <1>2, <2>1, <2>2
  <2>6. ASSUME NEW i \in Items
        PROVE  /\ ~notif'[i].stale
               /\ Sending(i)' => \E d \in Cycles : i \in cycle'[d].batch
    <3>1. CASE i \in new
      BY <1>2, <3>1 DEF Sending
    <3>2. CASE i \notin new
      BY <1>1, <1>2, <2>1, <3>2 DEF Sending
    <3>. QED BY <3>1, <3>2
  <2>7. ASSUME NEW i \in Items, sends[i] = 1
        PROVE  \/ notif'[i].status = "sent"
               \/ \E d \in Cycles : cycle'[d].pc = "mark" /\ cycle'[d].accepted /\ i \in cycle'[d].batch
    <3>1. i \notin new
      BY <1>3, <2>7
    <3>. QED BY <1>1, <1>2, <2>1, <2>7, <3>1
  <2>. QED BY <1>1, <2>1, <2>4, <2>5, <2>6, <2>7
<1>. QED BY <1>6, <1>7, <1>8 DEF MessagesInv

LEMMA RetriesMessages ==
    ASSUME IInv, MessagesInv, NEW c \in Cycles, ClaimRetries(c)
    PROVE  MessagesInv'
<1>1. PICK S \in SUBSET Items, x \in Cycle :
         /\ cycle[c].pc = "retries"
         /\ \A i \in S : /\ notif[i].status \in {"failed", "pending", "sending"}
                         /\ notif[i].status = "sending" => notif[i].stale
                         /\ notif'[i].status = "sending" /\ ~notif'[i].stale
                         /\ notif[i].status = "pending" => notif'[i].retries = notif[i].retries
                         /\ notif[i].status # "pending" => notif'[i].retries = notif[i].retries + 1
         /\ notif' \in [Items -> Row]
         /\ \A i \in Items \ S : notif'[i] = notif[i]
         /\ Goto(c, x) /\ x.batch = cycle[c].batch \cup S
         /\ \/ x.pc = "send" /\ x.todo = cycle[c].todo /\ x.held = cycle[c].held /\ x.run = cycle[c].run
               /\ x.kind = cycle[c].kind
            \/ x = Idle
    BY ClaimRetriesEffect
<1>2. /\ cycle'[c].batch = cycle[c].batch \cup S /\ cycle'[c].pc \in {"send", "idle"}
      /\ \A d \in Cycles \ {c} : cycle'[d] = cycle[d]
    BY <1>1, IdleShape DEF Goto, IInv, TypeOK
<1>3. sends' = sends /\ faults' = faults /\ delays' = delays
    BY DEF ClaimRetries
<1>4. \A i \in Items : Carriers(i)' = IF i \in S THEN Carriers(i) \cup {c} ELSE Carriers(i)
  <2>1. \A d \in Cycles \ {c} : cycle'[d].batch = cycle[d].batch /\ cycle'[d].pc = cycle[d].pc
    BY <1>2
  <2>2. cycle[c].pc = "retries"
    BY <1>1
  <2>. QED BY <1>2, <2>1, <2>2 DEF Carriers
<1>5. AttemptsInv'
  <2> SUFFICES ASSUME NEW i \in Items
               PROVE  /\ IsFiniteSet(Carriers(i)')
                      /\ sends[i] + Cardinality(Carriers(i)') <= notif'[i].retries + 1
                      /\ notif'[i].status \in {"absent", "pending"} => sends[i] = 0 /\ Carriers(i)' = {}
    BY <1>3 DEF AttemptsInv
  <2>1. /\ IsFiniteSet(Carriers(i)) /\ sends[i] + Cardinality(Carriers(i)) <= notif[i].retries + 1
        /\ notif[i].status \in {"absent", "pending"} => sends[i] = 0 /\ Carriers(i) = {}
    BY DEF MessagesInv, AttemptsInv
  <2>2. sends[i] \in Nat /\ notif[i].retries \in Nat
    BY Constants DEF IInv, TypeOK, Row
  <2>3. CASE i \in S
    <3>1. Carriers(i)' = Carriers(i) \cup {c}
      BY <1>4, <2>3
    <3>2. /\ IsFiniteSet(Carriers(i)') /\ Cardinality(Carriers(i)) \in Nat
          /\ Cardinality(Carriers(i)') \in Nat
          /\ Cardinality(Carriers(i)') <= Cardinality(Carriers(i)) + 1
      BY <2>1, <3>1, MoreCarriers
    <3>3. CASE notif[i].status = "pending"
      <4>1. sends[i] = 0 /\ Carriers(i) = {} /\ notif'[i].retries = notif[i].retries
        BY <1>1, <2>1, <2>3, <3>3
      <4>2. Cardinality(Carriers(i)) = 0
        BY <4>1, FS_EmptySet
      <4>3. sends[i] + Cardinality(Carriers(i)') <= notif'[i].retries + 1
        BY <2>2, <3>2, <4>1, <4>2
      <4>. QED BY <1>1, <2>3, <3>2, <4>3
    <3>4. CASE notif[i].status # "pending"
      <4>1. notif'[i].retries = notif[i].retries + 1
        BY <1>1, <2>3, <3>4
      <4>2. sends[i] + Cardinality(Carriers(i)') <= (notif[i].retries + 1) + 1
        BY <2>1, <2>2, <3>2, CountsMove
      <4>. QED BY <1>1, <2>3, <3>2, <4>1, <4>2
    <3>. QED BY <3>3, <3>4
  <2>4. CASE i \notin S
    BY <1>1, <1>4, <2>1, <2>4
  <2>. QED BY <2>3, <2>4
<1>6. SentInv'
  <2>1. \A i \in Items : notif'[i].status = "sent" => sends[i] > 0
    BY <1>1 DEF MessagesInv, SentInv
  <2>2. \A d \in Cycles : cycle'[d].pc = "mark" /\ cycle'[d].accepted =>
           \A i \in cycle'[d].batch : sends[i] > 0
    BY <1>2 DEF MessagesInv, SentInv
  <2>. QED BY <1>3, <2>1, <2>2 DEF SentInv
<1>7. CleanInv'
  <2> SUFFICES ASSUME faults + delays = 0
               PROVE  /\ \A d \in Cycles : \A i \in cycle'[d].batch : Sending(i)'
                      /\ \A d, e \in Cycles : d # e => cycle'[d].batch \cap cycle'[e].batch = {}
                      /\ \A i \in Items :
                            /\ ~notif'[i].stale
                            /\ Sending(i)' => \E d \in Cycles : i \in cycle'[d].batch
                            /\ sends'[i] <= 1
                            /\ sends'[i] = 1 => \/ notif'[i].status = "sent"
                                                \/ \E d \in Cycles : /\ cycle'[d].pc = "mark"
                                                                    /\ cycle'[d].accepted
                                                                    /\ i \in cycle'[d].batch
    BY <1>3 DEF CleanInv
  <2>1. /\ \A d \in Cycles : \A i \in cycle[d].batch : Sending(i)
        /\ \A d, e \in Cycles : d # e => cycle[d].batch \cap cycle[e].batch = {}
        /\ \A i \in Items :
              /\ ~notif[i].stale
              /\ Sending(i) => \E d \in Cycles : i \in cycle[d].batch
              /\ sends[i] <= 1
              /\ sends[i] = 1 => \/ notif[i].status = "sent"
                                 \/ \E d \in Cycles : /\ cycle[d].pc = "mark" /\ cycle[d].accepted
                                                     /\ i \in cycle[d].batch
    BY DEF MessagesInv, CleanInv
  <2>2. \A i \in S : notif[i].status \in {"failed", "pending"}
    BY <1>1, <2>1
  <2>3. \A d \in Cycles : cycle[d].batch \subseteq Items /\ cycle[d].batch \cap S = {}
    BY <2>1, <2>2 DEF IInv, TypeOK, Cycle, Sending
  <2>4. \A d \in Cycles : \A i \in cycle'[d].batch : Sending(i)'
    <3>1. \A i \in S : Sending(i)'
      BY <1>1 DEF Sending
    <3>2. \A d \in Cycles : \A i \in cycle[d].batch : Sending(i)'
      BY <1>1, <2>1, <2>3 DEF Sending
    <3>. QED BY <1>2, <3>1, <3>2
  <2>5. \A d, e \in Cycles : d # e => cycle'[d].batch \cap cycle'[e].batch = {}
    BY <1>2, <2>1, <2>3
  <2>6. ASSUME NEW i \in Items
        PROVE  /\ ~notif'[i].stale
               /\ Sending(i)' => \E d \in Cycles : i \in cycle'[d].batch
    <3>1. CASE i \in S
      BY <1>1, <1>2, <3>1
    <3>2. CASE i \notin S
      <4>1. notif'[i] = notif[i]
        BY <1>1, <3>2
      <4>. QED BY <1>2, <2>1, <4>1 DEF Sending
    <3>. QED BY <3>1, <3>2
  <2>7. ASSUME NEW i \in Items, sends[i] = 1
        PROVE  \/ notif'[i].status = "sent"
               \/ \E d \in Cycles : cycle'[d].pc = "mark" /\ cycle'[d].accepted /\ i \in cycle'[d].batch
    <3>1. CASE notif[i].status = "sent"
      BY <1>1, <2>2, <3>1
    <3>2. CASE \E d \in Cycles : cycle[d].pc = "mark" /\ cycle[d].accepted /\ i \in cycle[d].batch
      BY <1>1, <1>2, <3>2
    <3>. QED BY <2>1, <2>7, <3>1, <3>2
  <2>. QED BY <1>3, <2>1, <2>4, <2>5, <2>6, <2>7
<1>. QED BY <1>5, <1>6, <1>7 DEF MessagesInv

\* Where nothing is carried, nothing is carried after any step but an announcement.
LEMMA NothingCarried ==
    ASSUME IInv, NEW c \in Cycles,
           \/ StartMulti(c) \/ StartSingle(c) \/ PipelineFails(c)
           \/ ClaimRead(c) \/ ClaimSet(c) \/ ClaimDelete(c) \/ NothingToExecute(c)
           \/ CollectSucceeds(c) \/ CollectRetries(c) \/ CollectFails(c) \/ CollectRefused(c)
           \/ Reschedule(c) \/ ProcessRun(c) \/ PersistFeed(c)
    PROVE  /\ cycle[c].batch = {} /\ cycle'[c].batch = {}
           /\ \A d \in Cycles \ {c} : cycle'[d] = cycle[d]
<1>1. cycle[c].pc \in {"idle", "read", "set", "delete", "collect"} \cup Executing
    BY DEF StartMulti, StartSingle, PipelineFails, ClaimRead, ClaimSet, ClaimDelete, NothingToExecute,
           CollectSucceeds, CollectRetries, CollectFails, CollectRefused, Reschedule, ProcessRun,
           PersistFeed, Executing
<1>2. cycle[c].batch = {} /\ TypeOK
    BY <1>1 DEF IInv, CarriersInv, Executing
<1>3. ASSUME NEW x, Goto(c, x), x.batch = {}
      PROVE  cycle'[c].batch = {} /\ \A d \in Cycles \ {c} : cycle'[d] = cycle[d]
    BY <1>2, <1>3 DEF Goto, TypeOK
<1>4. ASSUME Goto(c, Done(c)), cycle[c].pc # "idle"
      PROVE  cycle'[c].batch = {} /\ \A d \in Cycles \ {c} : cycle'[d] = cycle[d]
  <2>1. cycle[c].todo # <<>>
    BY <1>1, <1>4 DEF IInv, StagesInv
  <2>2. Done(c).batch = {}
    BY <1>2, <2>1, DoneShape
  <2>. QED BY <1>3, <1>4, <2>2
<1>5. ASSUME NEW step \in {"set", "delete", "collect"} \cup Executing, Goto(c, At(c, step))
      PROVE  cycle'[c].batch = {} /\ \A d \in Cycles \ {c} : cycle'[d] = cycle[d]
  <2>1. At(c, step).batch = {}
    BY <1>2, AtShape DEF Executing
  <2>. QED BY <1>3, <1>5, <2>1
<1>6. ASSUME NEW claim \in [claimed : BOOLEAN, run : 0..MaxRuns, attempt : 0..MaxRetries],
             ClaimNext(c, claim), cycle[c].pc # "idle"
      PROVE  cycle'[c].batch = {} /\ \A d \in Cycles \ {c} : cycle'[d] = cycle[d]
  <2>1. cycle[c].todo # <<>>
    BY <1>1, <1>6 DEF IInv, StagesInv
  <2>. QED BY <1>2, <1>6, <2>1, ClaimShape
<1>7. CASE StartMulti(c) \/ StartSingle(c)
  <2>1. \E x : Goto(c, x) /\ x.batch = {}
    <3>1. CASE StartMulti(c)
      <4> DEFINE x == [Idle EXCEPT !.pc = "read", !.kind = "multi", !.chat = telegram, !.todo = Order]
      <4>1. Goto(c, x)
        BY <3>1 DEF StartMulti
      <4>2. x.batch = {}
        BY IdleShape DEF Cycle
      <4>. QED BY <4>1, <4>2
    <3>2. CASE StartSingle(c)
      <4> DEFINE h == [Idle.held EXCEPT ![Marketaux] = Claimed(NoContext)]
                 x == [Idle EXCEPT !.pc = "collect", !.kind = "single", !.chat = TRUE,
                                   !.todo = <<Marketaux>>, !.held = h]
      <4>1. Goto(c, x)
        BY <3>2 DEF StartSingle
      <4> HIDE DEF h
      <4>2. x.batch = {}
        BY IdleShape DEF Cycle
      <4>. QED BY <4>1, <4>2
    <3>. QED BY <1>7, <3>1, <3>2
  <2>. QED BY <1>2, <1>3, <2>1
<1>8. CASE PipelineFails(c) \/ NothingToExecute(c) \/ Reschedule(c)
  <2>1. Goto(c, Done(c)) \/ \E step \in {"reschedule", "new"} : Goto(c, At(c, step))
    BY <1>8 DEF PipelineFails, NothingToExecute, Reschedule, Unfinished
  <2>2. cycle[c].pc # "idle"
    BY <1>8 DEF PipelineFails, NothingToExecute, Reschedule
  <2>. QED BY <1>2, <1>4, <1>5, <2>1, <2>2 DEF Executing
<1>9. CASE ClaimRead(c)
  <2>1. CASE ClaimNext(c, NotClaimed)
    BY <1>2, <1>6, <1>9, <2>1, ClaimTypes DEF ClaimRead
  <2>2. CASE Goto(c, [At(c, "set") EXCEPT !.read = context[Provider(c)]])
    <3>1. At(c, "set") \in Cycle /\ At(c, "set").batch = {}
      BY <1>2, AtShape
    <3>2. [At(c, "set") EXCEPT !.read = context[Provider(c)]].batch = {}
      BY <3>1 DEF Cycle
    <3>. QED BY <1>2, <1>3, <2>2, <3>2
  <2>. QED BY <1>9, <2>1, <2>2 DEF ClaimRead
<1>10. CASE ClaimSet(c) \/ ClaimDelete(c)
  <2>1. \/ \E claim \in [claimed : BOOLEAN, run : 0..MaxRuns, attempt : 0..MaxRetries] :
              ClaimNext(c, claim)
        \/ Goto(c, At(c, "delete"))
    BY <1>10, ClaimTypes DEF ClaimSet, ClaimDelete, Settle, IInv, TypeOK, Cycle
  <2>2. cycle[c].pc # "idle"
    BY <1>10 DEF ClaimSet, ClaimDelete
  <2>. QED BY <1>2, <1>5, <1>6, <2>1, <2>2
<1>11. CASE CollectSucceeds(c) \/ CollectRetries(c) \/ CollectFails(c)
  <2>1. PICK r \in RunIds, row \in Run, items \in SUBSET Items, step \in {"process", "reschedule"} :
           Collected(c, r, row, items, step)
    BY <1>11, CollectEffect
  <2>2. cycle[c].pc = "collect"
    BY <1>11 DEF CollectSucceeds, CollectRetries, CollectFails
  <2>. QED BY <1>2, <2>1, <2>2, CollectedShape
<1>12. CASE CollectRefused(c)
  <2>1. CASE Goto(c, Done(c))
    BY <1>2, <1>4, <1>12, <2>1 DEF CollectRefused
  <2>2. CASE Goto(c, [At(c, "reschedule") EXCEPT !.run = cycle[c].held[Provider(c)].run])
    <3>1. At(c, "reschedule") \in Cycle /\ At(c, "reschedule").batch = {}
      BY <1>2, AtShape
    <3>2. [At(c, "reschedule") EXCEPT !.run = cycle[c].held[Provider(c)].run].batch = {}
      BY <3>1 DEF Cycle
    <3>. QED BY <1>2, <1>3, <2>2, <3>2
  <2>. QED BY <1>12, <2>1, <2>2 DEF CollectRefused
<1>13. CASE ProcessRun(c) \/ PersistFeed(c)
  <2>1. \E step \in Executing : Goto(c, At(c, step))
    BY <1>13 DEF ProcessRun, PersistFeed, Executing
  <2>. QED BY <1>2, <1>5, <2>1
<1>. QED BY <1>7, <1>8, <1>9, <1>10, <1>11, <1>12, <1>13

LEMMA StepMessages == ASSUME IInv, MessagesInv, [Next]_vars PROVE MessagesInv'
<1>1. CASE UNCHANGED vars
    BY <1>1, QuietMessages DEF vars
<1>2. ASSUME NEW p \in Providers, CadenceExpires(p) \/ GateExpires(p) PROVE MessagesInv'
    BY <1>2, QuietMessages DEF CadenceExpires, GateExpires
<1>3. ASSUME NEW r \in RunIds, RecoverStale(r) PROVE MessagesInv'
    BY <1>3, QuietMessages DEF RecoverStale
<1>4. CASE Toggle
    BY <1>4, QuietMessages DEF Toggle
<1>5. ASSUME NEW c \in Cycles,
             \/ StartMulti(c) \/ StartSingle(c) \/ PipelineFails(c)
             \/ ClaimRead(c) \/ ClaimSet(c) \/ ClaimDelete(c) \/ NothingToExecute(c)
             \/ CollectSucceeds(c) \/ CollectRetries(c) \/ CollectFails(c) \/ CollectRefused(c)
             \/ Reschedule(c) \/ ProcessRun(c) \/ PersistFeed(c)
      PROVE  MessagesInv'
  <2>1. /\ cycle[c].batch = {} /\ cycle'[c].batch = {}
        /\ \A d \in Cycles \ {c} : cycle'[d] = cycle[d]
    BY <1>5, NothingCarried
  <2>2. notif' = notif /\ sends' = sends
    BY <1>5 DEF StartMulti, StartSingle, PipelineFails, ClaimRead, ClaimSet, ClaimDelete,
                NothingToExecute, CollectSucceeds, CollectRetries, CollectFails, CollectRefused,
                Reschedule, ProcessRun, PersistFeed
  <2>3. Fault \/ UNCHANGED <<faults, delays, overruns>>
    BY <1>5 DEF StartMulti, StartSingle, PipelineFails, ClaimRead, ClaimSet, ClaimDelete,
                NothingToExecute, CollectSucceeds, CollectRetries, CollectFails, CollectRefused,
                Reschedule, ProcessRun, PersistFeed
  <2>4. faults' + delays' = 0 => faults + delays = 0
    BY <2>3 DEF Fault, IInv, TypeOK
  <2>5. \A d \in Cycles : /\ cycle'[d].batch = cycle[d].batch
                          /\ \/ cycle[d].batch = {}
                             \/ cycle'[d].pc = cycle[d].pc /\ cycle'[d].accepted = cycle[d].accepted
    BY <2>1
  <2>. QED BY <2>2, <2>4, <2>5, QuietMessages
<1>. QED BY <1>1, <1>2, <1>3, <1>4, <1>5, AgesMessages, StopMessages, SendMessages, MarkMessages,
            AnnounceMessages, RetriesMessages DEF Next, CycleStep

LEMMA MessagesAlways == Spec => [](IInv /\ MessagesInv)
<1>1. Init => IInv /\ MessagesInv
    BY InitIInv, InitMessages
<1>2. IInv /\ MessagesInv /\ [Next]_vars => (IInv /\ MessagesInv)'
    BY StepIInv, StepMessages
<1>. QED BY <1>1, <1>2, PTL DEF Spec

\* SendsAreCounted, for every number of cycles and providers: an item goes out once and
\* once more per counted retry at most, and more than once only when an answer was lost,
\* a process stopped or a claim ran out under a live one.
THEOREM SendsHaveAttempts == Spec => []SendsAreCounted
<1>1. IInv /\ MessagesInv => SendsAreCounted
  <2> SUFFICES ASSUME IInv, MessagesInv, NEW i \in Items
               PROVE  sends[i] <= notif[i].retries + 1 /\ (sends[i] > 1 => faults + delays > 0)
    BY DEF SendsAreCounted, IInv
  <2>1. /\ sends[i] \in Nat /\ notif[i].retries \in Nat /\ {faults, delays} \subseteq Nat
    BY Constants DEF IInv, TypeOK, Row
  <2>2. sends[i] + Cardinality(Carriers(i)) <= notif[i].retries + 1 /\ Cardinality(Carriers(i)) \in Nat
    BY FS_CardinalityType DEF MessagesInv, AttemptsInv
  <2>3. faults + delays = 0 => sends[i] <= 1
    BY DEF MessagesInv, CleanInv
  <2>. QED BY <2>1, <2>2, <2>3
<1>. QED BY <1>1, MessagesAlways, PTL

\* What a step may do to a SENT row, and what a row that becomes SENT has behind it.
LEMMA FinalStep ==
    ASSUME IInv, MessagesInv, MessagesInv', [Next]_vars
    PROVE  \A i \in Items : /\ notif[i].status = "sent" => notif'[i] = notif[i]
                            /\ notif'[i].status = "sent" => sends'[i] > 0
<1>1. \A i \in Items : notif'[i].status = "sent" => sends'[i] > 0
    BY DEF MessagesInv, SentInv
<1>2. ASSUME NEW i \in Items, notif[i].status = "sent" PROVE notif'[i] = notif[i]
  <2>1. CASE notif' = notif
    BY <2>1
  <2>2. ASSUME NEW j \in Items, ClaimAges(j) PROVE notif'[i] = notif[i]
    BY <1>2, <2>2 DEF ClaimAges, IInv, TypeOK
  <2>3. ASSUME NEW c \in Cycles, ClaimNew(c) PROVE notif'[i] = notif[i]
    BY <1>2, <2>3 DEF ClaimNew, Insert
  <2>4. ASSUME NEW c \in Cycles, KeepPending(c) PROVE notif'[i] = notif[i]
    BY <1>2, <2>4 DEF KeepPending, Insert
  <2>5. ASSUME NEW c \in Cycles, ClaimRetries(c) PROVE notif'[i] = notif[i]
    BY <1>2, <2>5 DEF ClaimRetries, Retryable
  <2>6. ASSUME NEW c \in Cycles, Mark(c) PROVE notif'[i] = notif[i]
    BY <1>2, <2>6 DEF Mark, Markable
  <2>7. \/ notif' = notif \/ \E j \in Items : ClaimAges(j)
        \/ \E c \in Cycles : ClaimNew(c) \/ KeepPending(c) \/ ClaimRetries(c) \/ Mark(c)
    BY ZenonT(60) DEF Next, CycleStep, vars, CadenceExpires, GateExpires, RecoverStale, Toggle, StartMulti,
           StartSingle, PipelineFails, Stop, ClaimRead, ClaimSet, ClaimDelete, NothingToExecute,
           CollectSucceeds, CollectRetries, CollectFails, CollectRefused, Reschedule, ProcessRun,
           PersistFeed, Send
  <2>. QED BY <2>1, <2>2, <2>3, <2>4, <2>5, <2>6, <2>7
<1>. QED BY <1>1, <1>2

\* SentIsFinal: the late mark of a cycle whose claim was taken over changes no SENT row,
\* and a row that is SENT went to the chat.
THEOREM SentStaysSent == Spec => SentIsFinal
<1>1. IInv /\ MessagesInv /\ (IInv /\ MessagesInv)' /\ [Next]_vars =>
         [\A i \in Items : /\ notif[i].status = "sent" => notif'[i] = notif[i]
                           /\ notif'[i].status = "sent" => sends'[i] > 0]_vars
    BY FinalStep
<1>. QED BY <1>1, MessagesAlways, PTL DEF Spec, SentIsFinal

-----------------------------------------------------------------------------
(* Where a cycle stands with a provider, and where a step takes it.        *)

Reading(c, p) == cycle[c].pc = "set" /\ Head(cycle[c].todo) = p

Deleting(c, p) == cycle[c].pc = "delete" /\ Head(cycle[c].todo) = p

Working(c, p) == cycle[c].pc \in {"process", "persist", "reschedule"} /\ Head(cycle[c].todo) = p

\* The execution is over and its notifications are not.
Past(c, p) ==
    cycle[c].pc \in {"new", "send", "mark"} /\ cycle[c].todo # <<>> /\ Head(cycle[c].todo) = p

Waiting(c, p) == cycle[c].held[p].claimed /\ ~Working(c, p) /\ ~Past(c, p)

OnlyMoves(c) ==
    /\ cycle' \in [Cycles -> Cycle]
    /\ \A d \in Cycles \ {c} : cycle'[d] = cycle[d]

\* After the step the cycle is between two providers, with claims it has waited with.
Rests(c) ==
    /\ OnlyMoves(c)
    /\ cycle'[c].pc \in {"idle", "read", "collect", "retries"}
    /\ \A p \in Providers :
          cycle'[c].held[p].claimed =>
             \/ cycle'[c].kind = "single" /\ cycle'[c].held[p].run = 0
             \/ cycle'[c].held[p] = cycle[c].held[p] /\ cycle'[c].kind = cycle[c].kind /\ Waiting(c, p)

\* The cycle goes on with the provider it is at.
GoesOn(c, step) ==
    /\ OnlyMoves(c)
    /\ cycle'[c].pc = step
    /\ cycle'[c].kind = cycle[c].kind /\ cycle'[c].todo = cycle[c].todo
    /\ cycle'[c].held = cycle[c].held /\ cycle'[c].run = cycle[c].run

LEMMA Moves ==
    ASSUME TypeOK, NEW c \in Cycles, NEW x \in Cycle, Goto(c, x)
    PROVE  OnlyMoves(c) /\ cycle'[c] = x
  BY DEF Goto, TypeOK, OnlyMoves

LEMMA AtGoesOn ==
    ASSUME TypeOK, NEW c \in Cycles,
           NEW step \in {"idle", "read", "set", "delete", "collect", "process", "persist",
                         "reschedule", "new", "retries", "send", "mark"},
           Goto(c, At(c, step))
    PROVE  GoesOn(c, step) /\ cycle'[c].read = cycle[c].read /\ cycle'[c].seen = cycle[c].seen
<1> DEFINE x == At(c, step)
<1>1. /\ x \in Cycle
      /\ x.pc = step /\ x.kind = cycle[c].kind /\ x.todo = cycle[c].todo
      /\ x.held = cycle[c].held /\ x.read = cycle[c].read /\ x.run = cycle[c].run
      /\ x.seen = cycle[c].seen
    BY AtShape
<1> HIDE DEF x
<1>2. OnlyMoves(c) /\ cycle'[c] = x
    BY <1>1, Moves DEF x
<1>. QED BY <1>1, <1>2 DEF GoesOn

\* The claims but the one of the provider the cycle is at.
LEMMA OthersWait ==
    ASSUME NEW c \in Cycles, NEW p \in Providers, p # Provider(c), cycle[c].held[p].claimed
    PROVE  Waiting(c, p)
  BY DEF Waiting, Working, Past, Provider

LEMMA DoneRests ==
    ASSUME TypeOK, NEW c \in Cycles, cycle[c].todo # <<>>, Goto(c, Done(c))
    PROVE  Rests(c) /\ cycle'[c].kind = cycle[c].kind
<1> DEFINE x == Done(c)
<1>1. /\ x \in Cycle /\ Provider(c) \in Providers
      /\ x.pc \in {"retries", "collect"} /\ x.kind = cycle[c].kind
      /\ x.held = [cycle[c].held EXCEPT ![Provider(c)] = NotClaimed]
    BY DoneShape
<1> HIDE DEF x
<1>2. OnlyMoves(c) /\ cycle'[c] = x
    BY <1>1, Moves DEF x
<1>3. cycle[c].held \in [Providers -> [claimed : BOOLEAN, run : 0..MaxRuns, attempt : 0..MaxRetries]]
    BY DEF TypeOK, Cycle
<1>4. ASSUME NEW p \in Providers, x.held[p].claimed
      PROVE  x.held[p] = cycle[c].held[p] /\ Waiting(c, p)
  <2>1. p # Provider(c)
    BY <1>1, <1>3, <1>4 DEF NotClaimed
  <2>2. x.held[p] = cycle[c].held[p]
    BY <1>1, <1>3, <2>1
  <2>. QED BY <1>4, <2>1, <2>2, OthersWait
<1>. QED BY <1>1, <1>2, <1>4 DEF Rests

LEMMA IdleRests ==
    ASSUME TypeOK, NEW c \in Cycles, Goto(c, Idle)
    PROVE  Rests(c)
<1>1. OnlyMoves(c) /\ cycle'[c] = Idle
    BY IdleShape, Moves
<1>2. \A p \in Providers : ~Idle.held[p].claimed
    BY IdleShape DEF NotClaimed
<1>. QED BY <1>1, <1>2, IdleShape DEF Rests

LEMMA StartRests ==
    ASSUME TypeOK, NEW c \in Cycles, StartMulti(c) \/ StartSingle(c)
    PROVE  Rests(c)
<1>1. CASE StartMulti(c)
  <2> DEFINE x == [Idle EXCEPT !.pc = "read", !.kind = "multi", !.chat = telegram, !.todo = Order]
  <2>1. x \in Cycle /\ x.pc = "read" /\ x.held = [p \in Providers |-> NotClaimed]
    BY IdleShape, Constants DEF Cycle, TypeOK
  <2>2. Goto(c, x)
    BY <1>1 DEF StartMulti
  <2> HIDE DEF x
  <2>3. OnlyMoves(c) /\ cycle'[c] = x
    BY <2>1, <2>2, Moves
  <2>. QED BY <2>1, <2>3 DEF Rests, NotClaimed
<1>2. CASE StartSingle(c)
  <2> DEFINE h == [Idle.held EXCEPT ![Marketaux] = Claimed(NoContext)]
             x == [Idle EXCEPT !.pc = "collect", !.kind = "single", !.chat = TRUE,
                               !.todo = <<Marketaux>>, !.held = h]
  <2>1. /\ h \in [Providers -> [claimed : BOOLEAN, run : 0..MaxRuns, attempt : 0..MaxRetries]]
        /\ \A p \in Providers : h[p].run = 0
    <3>1. Claimed(NoContext).run = 0 /\ NotClaimed.run = 0
      BY DEF Claimed, NoContext, NotClaimed
    <3>2. Idle.held = [p \in Providers |-> NotClaimed]
      BY IdleShape
    <3>. QED BY <3>1, <3>2, ClaimTypes
  <2>2. Goto(c, x)
    BY <1>2 DEF StartSingle
  <2> HIDE DEF h
  <2>3. <<Marketaux>> \in Seq(Providers)
    BY Constants
  <2>4. x \in Cycle /\ x.pc = "collect" /\ x.kind = "single" /\ x.held = h
    BY <2>1, <2>3, IdleShape DEF Cycle
  <2> HIDE DEF x
  <2>5. OnlyMoves(c) /\ cycle'[c] = x
    BY <2>2, <2>4, Moves
  <2>. QED BY <2>1, <2>4, <2>5 DEF Rests
<1>. QED BY <1>1, <1>2

\* The effect of a settled claim: the others wait.
LEMMA ClaimMoves ==
    ASSUME IInv, NEW c \in Cycles, cycle[c].pc \in {"read", "set", "delete"},
           NEW claim \in [claimed : BOOLEAN, run : 0..MaxRuns, attempt : 0..MaxRetries],
           ClaimNext(c, claim)
    PROVE  /\ OnlyMoves(c) /\ cycle'[c].pc \in {"read", "collect"} /\ cycle'[c].kind = cycle[c].kind
           /\ Provider(c) \in Providers /\ cycle'[c].held[Provider(c)] = claim
           /\ \A p \in Providers : p # Provider(c) => cycle'[c].held[p] = cycle[c].held[p]
           /\ \A p \in Providers : cycle[c].held[p].claimed => Waiting(c, p)
           /\ ~claim.claimed => Rests(c)
<1>1. cycle[c].todo # <<>>
    BY DEF IInv, StagesInv
<1>2. /\ cycle' \in [Cycles -> Cycle]
      /\ \A d \in Cycles \ {c} : cycle'[d] = cycle[d]
      /\ Provider(c) \in Providers
      /\ cycle'[c].held = [cycle[c].held EXCEPT ![Provider(c)] = claim]
      /\ cycle'[c].pc \in {"read", "collect"} /\ cycle'[c].kind = cycle[c].kind
    BY <1>1, ClaimShape DEF IInv
<1>3. cycle[c].held \in [Providers -> [claimed : BOOLEAN, run : 0..MaxRuns, attempt : 0..MaxRetries]]
    BY DEF IInv, TypeOK, Cycle
<1>4. /\ cycle'[c].held[Provider(c)] = claim
      /\ \A p \in Providers : p # Provider(c) => cycle'[c].held[p] = cycle[c].held[p]
    BY <1>2, <1>3
<1>5. \A p \in Providers : cycle[c].held[p].claimed => Waiting(c, p)
    BY DEF Waiting, Working, Past
<1>6. OnlyMoves(c)
    BY <1>2 DEF OnlyMoves
<1>7. ~claim.claimed => Rests(c)
    BY <1>2, <1>4, <1>5, <1>6 DEF Rests
<1>. QED BY <1>2, <1>4, <1>5, <1>6, <1>7

\* The GET of a claim, and a refusal that names its run.
LEMMA ReadMoves ==
    ASSUME IInv, NEW c \in Cycles, ClaimRead(c),
           Goto(c, [At(c, "set") EXCEPT !.read = context[Provider(c)]])
    PROVE  GoesOn(c, "set") /\ OnlyMoves(c) /\ cycle'[c].pc = "set" /\ Provider(c) \in Providers
           /\ cycle'[c].read = context[Provider(c)]
<1> DEFINE y == At(c, "set")
           x == [y EXCEPT !.read = context[Provider(c)]]
<1>1. /\ y \in Cycle /\ y.pc = "set" /\ y.kind = cycle[c].kind /\ y.todo = cycle[c].todo
      /\ y.held = cycle[c].held /\ y.run = cycle[c].run
    BY AtShape DEF IInv
<1>2. cycle[c].todo # <<>> /\ cycle[c] \in Cycle
    BY DEF ClaimRead, IInv, StagesInv, TypeOK
<1>3. Provider(c) \in Providers
    BY <1>2, ProviderLeft DEF Provider, Cycle
<1>4. context[Provider(c)] \in Context
    BY <1>3 DEF IInv, TypeOK
<1>5. Goto(c, x)
    OBVIOUS
<1> HIDE DEF y
<1>6. /\ x \in Cycle /\ x.pc = "set" /\ x.kind = cycle[c].kind /\ x.todo = cycle[c].todo
      /\ x.held = cycle[c].held /\ x.run = cycle[c].run /\ x.read = context[Provider(c)]
    BY <1>1, <1>4 DEF Cycle
<1> HIDE DEF x
<1>7. OnlyMoves(c) /\ cycle'[c] = x
    BY <1>5, <1>6, Moves DEF IInv
<1>. QED BY <1>3, <1>6, <1>7 DEF GoesOn

LEMMA RefusedMoves ==
    ASSUME IInv, NEW c \in Cycles, CollectRefused(c)
    PROVE  \/ Rests(c)
           \/ /\ OnlyMoves(c) /\ cycle'[c].pc = "reschedule" /\ cycle'[c].kind = cycle[c].kind
              /\ cycle'[c].todo = cycle[c].todo /\ cycle'[c].held = cycle[c].held
              /\ cycle[c].held[Provider(c)].run # 0
              /\ cycle'[c].run = cycle[c].held[Provider(c)].run
<1>1. cycle[c].todo # <<>> /\ cycle[c] \in Cycle
    BY DEF CollectRefused, IInv, StagesInv, TypeOK
<1>2. Provider(c) \in Providers
    BY <1>1, ProviderLeft DEF Provider, Cycle
<1>3. CASE Goto(c, Done(c))
    BY <1>1, <1>3, DoneRests DEF IInv
<1>4. CASE /\ cycle[c].held[Provider(c)].run # 0
           /\ Goto(c, [At(c, "reschedule") EXCEPT !.run = cycle[c].held[Provider(c)].run])
  <2> DEFINE y == At(c, "reschedule")
             r == cycle[c].held[Provider(c)].run
             x == [y EXCEPT !.run = r]
  <2>1. /\ y \in Cycle /\ y.pc = "reschedule" /\ y.kind = cycle[c].kind /\ y.todo = cycle[c].todo
        /\ y.held = cycle[c].held
    BY AtShape DEF IInv
  <2>2. r \in 0..MaxRuns
    BY <1>1, <1>2 DEF Cycle
  <2>3. Goto(c, x)
    BY <1>4
  <2> HIDE DEF y, r
  <2>4. /\ x \in Cycle /\ x.pc = "reschedule" /\ x.kind = cycle[c].kind /\ x.todo = cycle[c].todo
        /\ x.held = cycle[c].held /\ x.run = r
    BY <2>1, <2>2 DEF Cycle
  <2> HIDE DEF x
  <2>5. OnlyMoves(c) /\ cycle'[c] = x
    BY <2>3, <2>4, Moves DEF IInv
  <2>. QED BY <1>4, <2>4, <2>5 DEF r
<1>. QED BY <1>3, <1>4 DEF CollectRefused

\* The steps on notifications.
LEMMA NotifyMoves ==
    ASSUME IInv, NEW c \in Cycles,
           ClaimNew(c) \/ KeepPending(c) \/ ClaimRetries(c) \/ Send(c) \/ Mark(c)
    PROVE  \/ Rests(c)
           \/ cycle[c].pc \in {"new", "retries"} /\ GoesOn(c, "send")
           \/ cycle[c].pc = "send" /\ GoesOn(c, "mark")
<1>1. TypeOK
    BY DEF IInv
<1>2. CASE ClaimNew(c)
  <2>1. PICK new \in SUBSET Items : Announce(c, new) \in Cycle /\ Goto(c, Announce(c, new))
    BY <1>2, ClaimNewEffect
  <2> DEFINE x == Announce(c, new)
  <2>2. cycle[c].pc = "new" /\ cycle[c].todo # <<>>
    BY <1>2 DEF ClaimNew, IInv, StagesInv, Executing
  <2>3. /\ x \in Cycle /\ x.kind = cycle[c].kind
        /\ \/ /\ x.pc = "send" /\ x.todo = cycle[c].todo /\ x.held = cycle[c].held
              /\ x.run = cycle[c].run
           \/ /\ x.pc \in {"retries", "collect"} /\ x.todo = Tail(cycle[c].todo)
              /\ x.held = [cycle[c].held EXCEPT ![Provider(c)] = NotClaimed]
    BY <2>2, AnnounceShape
  <2> HIDE DEF x
  <2>4. OnlyMoves(c) /\ cycle'[c] = x
    BY <1>1, <2>1, <2>3, Moves DEF x
  <2>5. CASE x.pc = "send"
    BY <2>2, <2>3, <2>4, <2>5 DEF GoesOn
  <2>6. CASE x.pc # "send"
    <3>1. cycle[c].held \in [Providers -> [claimed : BOOLEAN, run : 0..MaxRuns, attempt : 0..MaxRetries]]
      BY <1>1 DEF TypeOK, Cycle
    <3>2. Provider(c) \in Providers
      BY <1>1, <2>2, DoneShape
    <3>3. ASSUME NEW p \in Providers, x.held[p].claimed
          PROVE  x.held[p] = cycle[c].held[p] /\ Waiting(c, p)
      <4>1. p # Provider(c)
        BY <2>3, <2>6, <3>1, <3>2, <3>3 DEF NotClaimed
      <4>2. x.held[p] = cycle[c].held[p]
        BY <2>3, <2>6, <3>1, <4>1
      <4>. QED BY <3>3, <4>1, <4>2, OthersWait
    <3>. QED BY <2>3, <2>4, <2>6, <3>3 DEF Rests
  <2>. QED BY <2>5, <2>6
<1>3. CASE KeepPending(c)
  <2>1. Goto(c, Done(c)) /\ cycle[c].todo # <<>>
    BY <1>3 DEF KeepPending, IInv, StagesInv, Executing
  <2>. QED BY <1>1, <2>1, DoneRests
<1>4. CASE ClaimRetries(c)
  <2>1. PICK x \in Cycle :
           /\ cycle[c].pc = "retries" /\ Goto(c, x)
           /\ \/ /\ x.pc = "send" /\ x.todo = cycle[c].todo /\ x.held = cycle[c].held
                 /\ x.run = cycle[c].run /\ x.kind = cycle[c].kind
              \/ x = Idle
    BY <1>4, ClaimRetriesEffect
  <2>2. OnlyMoves(c) /\ cycle'[c] = x
    BY <1>1, <2>1, Moves
  <2>3. CASE x = Idle
    BY <1>1, <2>1, <2>3, IdleRests
  <2>. QED BY <2>1, <2>2, <2>3 DEF GoesOn
<1>5. CASE Send(c)
  <2>1. PICK x \in Cycle :
           /\ cycle[c].pc = "send" /\ Goto(c, x) /\ x.pc = "mark"
           /\ x.todo = cycle[c].todo /\ x.held = cycle[c].held
           /\ x.run = cycle[c].run /\ x.kind = cycle[c].kind
    BY <1>5, SendEffect
  <2>2. OnlyMoves(c) /\ cycle'[c] = x
    BY <1>1, <2>1, Moves
  <2>. QED BY <2>1, <2>2 DEF GoesOn
<1>6. CASE Mark(c)
  <2>1. Goto(c, Idle) \/ (cycle[c].todo # <<>> /\ Goto(c, Done(c)))
    BY <1>6, MarkEffect
  <2>. QED BY <1>1, <2>1, IdleRests, DoneRests
<1>. QED BY <1>2, <1>3, <1>4, <1>5, <1>6

-----------------------------------------------------------------------------
(* A run is shown whole.                                                   *)

Ended(r) == runs[r].status \in {"succeeded", "failed"}

\* What is shown, filed or about to be shown is of a run that has ended and stores no
\* more; a run about to be shown has all its items in the sidecar.
ShownInv ==
    /\ \A i \in content : raw[i] \in RunIds /\ Ended(raw[i])
    /\ \A c \in Cycles :
          /\ cycle[c].pc \in {"process", "persist"} => Ended(cycle[c].run)
          /\ cycle[c].pc = "persist" => Of(cycle[c].run) \subseteq cycle[c].seen
    /\ RunShownWhole

LEMMA InitShown == ASSUME Init PROVE ShownInv
<1>1. \A c \in Cycles : cycle[c].pc = "idle"
    BY IdleShape DEF Init
<1>. QED BY <1>1 DEF Init, ShownInv, RunShownWhole

\* A step that stores, files and shows nothing.
LEMMA QuietShown ==
    ASSUME IInv, ShownInv, raw' = raw, content' = content,
           \A r \in RunIds : Ended(r) => runs'[r].status \in {"succeeded", "failed"},
           \A c \in Cycles : \/ cycle'[c].pc \notin {"process", "persist"}
                             \/ /\ cycle'[c].pc = cycle[c].pc /\ cycle'[c].run = cycle[c].run
                                /\ cycle'[c].seen = cycle[c].seen
    PROVE  ShownInv'
<1>1. \A r : Of(r)' = Of(r)
    BY DEF Of
<1>2. RunShownWhole'
    BY <1>1 DEF ShownInv, RunShownWhole
<1>3. \A i \in content' : raw'[i] \in RunIds /\ Ended(raw[i])'
    BY DEF ShownInv, Ended
<1>4. ASSUME NEW c \in Cycles, cycle'[c].pc \in {"process", "persist"}
      PROVE  Ended(cycle[c].run)' /\ (cycle'[c].pc = "persist" => Of(cycle[c].run)' \subseteq cycle'[c].seen)
  <2>1. /\ cycle'[c].pc = cycle[c].pc /\ cycle'[c].run = cycle[c].run
        /\ cycle'[c].seen = cycle[c].seen
    BY <1>4
  <2>2. cycle[c].run \in RunIds
    BY <1>4, <2>1 DEF IInv, StagesInv, Executing
  <2>3. Ended(cycle[c].run) /\ (cycle[c].pc = "persist" => Of(cycle[c].run) \subseteq cycle[c].seen)
    BY <1>4, <2>1 DEF ShownInv
  <2>. QED BY <2>1, <2>2, <2>3 DEF Ended, Of
<1>. QED BY <1>2, <1>3, <1>4 DEF ShownInv

\* An execution stores into a run that has not ended.
LEMMA CollectShown ==
    ASSUME IInv, ShownInv, NEW c \in Cycles,
           CollectSucceeds(c) \/ CollectRetries(c) \/ CollectFails(c)
    PROVE  ShownInv'
<1>1. PICK r \in RunIds, row \in Run, items \in SUBSET Items, step \in {"process", "reschedule"} :
         /\ Collected(c, r, row, items, step)
         /\ \A i \in items : raw[i] = 0
         /\ runs[r].status \notin {"absent", "running"} => items = {}
         /\ step = "process" => row.status = "succeeded"
         /\ runs[r].status \notin {"absent", "running"} => row.status \in {runs[r].status, "failed"}
    BY CollectEffect
<1>2. cycle[c].pc = "collect" /\ content' = content
    BY DEF CollectSucceeds, CollectRetries, CollectFails
<1>3. /\ \A d \in Cycles \ {c} : cycle'[d] = cycle[d]
      /\ cycle'[c].pc = step /\ cycle'[c].run = r
    BY <1>1, <1>2, CollectedShape
<1>4. /\ runs'[r] = row /\ \A q \in RunIds : q # r => runs'[q] = runs[q]
      /\ \A i \in Items : raw'[i] = IF i \in items THEN r ELSE raw[i]
    BY <1>1 DEF Collected, IInv, TypeOK
<1>5. \A q \in RunIds : Ended(q) => Ended(q)'
    BY <1>1, <1>4 DEF Ended
<1>6. \A q \in RunIds : Ended(q) => Of(q)' = Of(q)
  <2> SUFFICES ASSUME NEW q \in RunIds, Ended(q), NEW i \in Items
               PROVE  raw'[i] = q <=> raw[i] = q
    BY DEF Of
  <2>1. q # 0
    BY Constants DEF RunIds
  <2>2. q = r => items = {}
    BY <1>1 DEF Ended
  <2>. QED BY <1>1, <1>4, <2>1, <2>2
<1>7. \A i \in content : i \in Items /\ raw[i] \in RunIds /\ Ended(raw[i]) /\ raw'[i] = raw[i]
  <2>1. \A i \in content : i \in Items /\ raw[i] \in RunIds /\ Ended(raw[i])
    BY DEF ShownInv, IInv, TypeOK
  <2>2. \A q \in RunIds : q # 0
    BY Constants DEF RunIds
  <2>. QED BY <1>1, <1>4, <2>1, <2>2
<1>8. RunShownWhole'
  <2> SUFFICES ASSUME NEW q \in RunIds PROVE content \cap Of(q)' \in {{}, Of(q)' \ Undisplayed}
    BY <1>2 DEF RunShownWhole
  <2>1. CASE Ended(q)
    BY <1>6, <2>1 DEF ShownInv, RunShownWhole
  <2>2. CASE ~Ended(q)
    BY <1>7, <2>2 DEF Of
  <2>. QED BY <2>1, <2>2
<1>9. ASSUME NEW d \in Cycles, cycle'[d].pc \in {"process", "persist"}
      PROVE  Ended(cycle[d].run)' /\ (cycle'[d].pc = "persist" => Of(cycle[d].run)' \subseteq cycle'[d].seen)
  <2>1. CASE d = c
    BY <1>1, <1>3, <1>4, <1>9, <2>1 DEF Ended
  <2>2. CASE d # c
    <3>1. cycle'[d] = cycle[d] /\ cycle[d].pc \in {"process", "persist"}
      BY <1>3, <1>9, <2>2
    <3>2. cycle[d].run \in RunIds /\ Ended(cycle[d].run)
      BY <3>1 DEF IInv, StagesInv, Executing, ShownInv
    <3>3. cycle[d].pc = "persist" => Of(cycle[d].run) \subseteq cycle[d].seen
      BY DEF ShownInv
    <3>4. Of(cycle[d].run)' = {i \in Items : raw'[i] = cycle[d].run}
      BY <3>1 DEF Of
    <3>5. Of(cycle[d].run)' = Of(cycle[d].run)
      BY <1>6, <3>2, <3>4 DEF Of
    <3>6. Ended(cycle[d].run)'
      BY <1>5, <3>1, <3>2 DEF Ended
    <3>. QED BY <3>1, <3>3, <3>5, <3>6
  <2>. QED BY <2>1, <2>2
<1>10. \A i \in content' : raw'[i] \in RunIds /\ Ended(raw[i])'
    BY <1>2, <1>5, <1>7 DEF Ended
<1>. QED BY <1>8, <1>9, <1>10 DEF ShownInv

\* Only a run with all its items in the sidecar is shown.
LEMMA ProcessShown ==
    ASSUME IInv, ShownInv, NEW c \in Cycles, ProcessRun(c)
    PROVE  ShownInv'
<1>1. /\ cycle[c].pc = "process" /\ runs' = runs /\ raw' = raw /\ content' = content
      /\ cycle[c].run \in RunIds
    BY DEF ProcessRun, IInv, StagesInv, Executing
<1>2. CASE Goto(c, At(c, "reschedule"))
  <2>1. GoesOn(c, "reschedule")
    BY <1>2, AtGoesOn DEF IInv
  <2>2. \A r \in RunIds : Ended(r) => runs'[r].status \in {"succeeded", "failed"}
    BY <1>1 DEF Ended
  <2>. QED BY <1>1, <2>1, <2>2, QuietShown DEF GoesOn, OnlyMoves
<1>3. CASE Complete(c) /\ Goto(c, At(c, "persist"))
  <2>1. GoesOn(c, "persist") /\ cycle'[c].seen = cycle[c].seen
    BY <1>3, AtGoesOn DEF IInv
  <2>2. Of(cycle[c].run) \subseteq cycle[c].seen
    BY <1>3 DEF Complete, Saved, Bound
  <2>3. \A r : Of(r)' = Of(r)
    BY <1>1 DEF Of
  <2>4. RunShownWhole'
    BY <1>1, <2>3 DEF ShownInv, RunShownWhole
  <2>5. \A i \in content' : raw'[i] \in RunIds /\ Ended(raw[i])'
    BY <1>1 DEF ShownInv, Ended
  <2>6. ASSUME NEW d \in Cycles, cycle'[d].pc \in {"process", "persist"}
        PROVE  Ended(cycle[d].run)' /\ (cycle'[d].pc = "persist" => Of(cycle[d].run)' \subseteq cycle'[d].seen)
    <3>1. CASE d = c
      BY <1>1, <2>1, <2>2, <3>1 DEF ShownInv, Ended, Of, GoesOn
    <3>2. CASE d # c
      BY <1>1, <2>1, <2>6, <3>2 DEF ShownInv, Ended, Of, GoesOn, OnlyMoves
    <3>. QED BY <3>1, <3>2
  <2>. QED BY <2>4, <2>5, <2>6 DEF ShownInv
<1>. QED BY <1>2, <1>3 DEF ProcessRun

\* What is shown of the run is all that can be.
LEMMA PersistShown ==
    ASSUME IInv, ShownInv, NEW c \in Cycles, PersistFeed(c)
    PROVE  ShownInv'
<1> DEFINE r == cycle[c].run
<1>1. /\ cycle[c].pc = "persist" /\ runs' = runs /\ raw' = raw /\ r \in RunIds
      /\ content' = content \cup Displayed(c)
    BY DEF PersistFeed, IInv, StagesInv, Executing
<1>2. Ended(r) /\ Of(r) \subseteq cycle[c].seen
    BY <1>1 DEF ShownInv
<1>3. Displayed(c) = Of(r) \ Undisplayed
    BY <1>2 DEF Displayed, Bound, ValidDisplay, Of
<1>4. cycle'[c].pc \in {"reschedule", "new"} /\ \A d \in Cycles \ {c} : cycle'[d] = cycle[d]
  <2>1. \E step \in {"reschedule", "new"} : Goto(c, At(c, step))
    BY DEF PersistFeed
  <2>. QED BY <2>1, AtGoesOn DEF IInv, GoesOn, OnlyMoves
<1>5. \A q : Of(q)' = Of(q)
    BY <1>1 DEF Of
<1>6. ASSUME NEW q \in RunIds PROVE content' \cap Of(q) \in {{}, Of(q) \ Undisplayed}
  <2>1. content \cap Of(q) \in {{}, Of(q) \ Undisplayed}
    BY DEF ShownInv, RunShownWhole
  <2>2. CASE q = r
    BY <1>1, <1>3, <2>1, <2>2
  <2>3. CASE q # r
    <3>1. Of(q) \cap Of(r) = {}
      BY <2>3 DEF Of
    <3> HIDE DEF r
    <3>. QED BY <1>1, <1>3, <2>1, <3>1
  <2>. QED BY <2>2, <2>3
<1>7. RunShownWhole'
    BY <1>5, <1>6 DEF RunShownWhole
<1>8. \A i \in content' : raw'[i] \in RunIds /\ Ended(raw[i])'
    BY <1>1, <1>2, <1>3 DEF ShownInv, Ended, Of
<1>9. \A d \in Cycles : cycle'[d].pc \in {"process", "persist"} => cycle'[d] = cycle[d]
    BY <1>4
<1>10. ASSUME NEW d \in Cycles, cycle'[d].pc \in {"process", "persist"}
       PROVE  Ended(cycle[d].run)' /\ (cycle'[d].pc = "persist" => Of(cycle[d].run)' \subseteq cycle'[d].seen)
    BY <1>1, <1>9, <1>10 DEF ShownInv, Ended, Of
<1>. QED BY <1>7, <1>8, <1>10 DEF ShownInv

LEMMA StepShown == ASSUME IInv, ShownInv, [Next]_vars PROVE ShownInv'
<1>1. ASSUME raw' = raw, content' = content, runs' = runs, cycle' = cycle PROVE ShownInv'
    BY <1>1, QuietShown DEF Ended
<1>2. ASSUME NEW c \in Cycles, Rests(c), raw' = raw, content' = content, runs' = runs PROVE ShownInv'
    BY <1>2, QuietShown DEF Ended, Rests, OnlyMoves
<1>3. ASSUME NEW c \in Cycles, raw' = raw, content' = content, runs' = runs,
             NEW step, GoesOn(c, step), step \notin {"process", "persist"}
      PROVE  ShownInv'
    BY <1>3, QuietShown DEF Ended, GoesOn, OnlyMoves
<1>4. CASE \/ UNCHANGED vars \/ Toggle
           \/ \E p \in Providers : CadenceExpires(p) \/ GateExpires(p)
           \/ \E i \in Items : ClaimAges(i)
    BY <1>1, <1>4 DEF vars, Toggle, CadenceExpires, GateExpires, ClaimAges
<1>5. ASSUME NEW r \in RunIds, RecoverStale(r) PROVE ShownInv'
  <2>1. \A q \in RunIds : Ended(q) => runs'[q].status \in {"succeeded", "failed"}
    BY <1>5 DEF RecoverStale, Ended, IInv, TypeOK
  <2>. QED BY <1>5, <2>1, QuietShown DEF RecoverStale
<1>6. ASSUME NEW c \in Cycles, StartMulti(c) \/ StartSingle(c) \/ Stop(c) PROVE ShownInv'
  <2>1. Rests(c)
    BY <1>6, StartRests, IdleRests DEF Stop, IInv
  <2>. QED BY <1>2, <1>6, <2>1 DEF StartMulti, StartSingle, Stop
<1>7. ASSUME NEW c \in Cycles, PipelineFails(c) \/ NothingToExecute(c) \/ Reschedule(c) PROVE ShownInv'
  <2>1. cycle[c].todo # <<>>
    BY <1>7 DEF PipelineFails, NothingToExecute, Reschedule, IInv, StagesInv, Executing
  <2>2. Goto(c, Done(c)) \/ \E step \in {"reschedule", "new"} : Goto(c, At(c, step))
    BY <1>7 DEF PipelineFails, NothingToExecute, Reschedule, Unfinished
  <2>3. Rests(c) \/ \E step \in {"reschedule", "new"} : GoesOn(c, step)
    BY <2>1, <2>2, DoneRests, AtGoesOn DEF IInv
  <2>. QED BY <1>2, <1>3, <1>7, <2>3 DEF PipelineFails, NothingToExecute, Reschedule
<1>8. ASSUME NEW c \in Cycles, ClaimRead(c) \/ ClaimSet(c) \/ ClaimDelete(c) PROVE ShownInv'
  <2>1. CASE \E claim \in [claimed : BOOLEAN, run : 0..MaxRuns, attempt : 0..MaxRetries] :
                ClaimNext(c, claim)
    <3>1. cycle[c].pc \in {"read", "set", "delete"}
      BY <1>8 DEF ClaimRead, ClaimSet, ClaimDelete
    <3>2. OnlyMoves(c) /\ cycle'[c].pc \in {"read", "collect"}
      BY <2>1, <3>1, ClaimMoves
    <3>3. raw' = raw /\ content' = content /\ runs' = runs
      BY <1>8 DEF ClaimRead, ClaimSet, ClaimDelete
    <3>. QED BY <3>2, <3>3, QuietShown DEF Ended, OnlyMoves
  <2>2. CASE Goto(c, At(c, "delete"))
    BY <1>3, <1>8, <2>2, AtGoesOn DEF IInv, ClaimRead, ClaimSet, ClaimDelete
  <2>3. CASE ClaimRead(c) /\ Goto(c, [At(c, "set") EXCEPT !.read = context[Provider(c)]])
    <3>1. OnlyMoves(c) /\ cycle'[c].pc = "set"
      BY <2>3, ReadMoves
    <3>. QED BY <2>3, <3>1, QuietShown DEF Ended, OnlyMoves, ClaimRead
  <2>. QED BY <1>8, <2>1, <2>2, <2>3, ClaimTypes DEF ClaimRead, ClaimSet, ClaimDelete, Settle, IInv, TypeOK, Cycle
<1>9. ASSUME NEW c \in Cycles, CollectRefused(c) PROVE ShownInv'
  <2>1. Rests(c) \/ (OnlyMoves(c) /\ cycle'[c].pc = "reschedule")
    BY <1>9, RefusedMoves
  <2>. QED BY <1>2, <1>9, <2>1, QuietShown DEF Ended, OnlyMoves, CollectRefused
<1>10. ASSUME NEW c \in Cycles,
              ClaimNew(c) \/ KeepPending(c) \/ ClaimRetries(c) \/ Send(c) \/ Mark(c)
       PROVE  ShownInv'
  <2>1. Rests(c) \/ \E step \in {"send", "mark"} : GoesOn(c, step)
    BY <1>10, NotifyMoves
  <2>. QED BY <1>2, <1>3, <1>10, <2>1 DEF ClaimNew, KeepPending, ClaimRetries, Send, Mark
<1>. QED BY <1>4, <1>5, <1>6, <1>7, <1>8, <1>9, <1>10, CollectShown, ProcessShown, PersistShown
         DEF Next, CycleStep

\* RunShownWhole, for every number of cycles, runs and retries: what an earlier attempt of
\* a run has stored is not in the sidecar of the process that ends it, and such a run is
\* not shown at all; a run that is shown has ended and stores nothing more.
THEOREM RunsAreShownWhole == Spec => []RunShownWhole
<1>1. Init => IInv /\ ShownInv
    BY InitIInv, InitShown
<1>2. IInv /\ ShownInv /\ [Next]_vars => (IInv /\ ShownInv)'
    BY StepIInv, StepShown
<1>3. ShownInv => RunShownWhole
    BY DEF ShownInv
<1>. QED BY <1>1, <1>2, <1>3, PTL DEF Spec

-----------------------------------------------------------------------------
(* A run is executed by one cycle, and not again once it has succeeded.    *)

Succeeded(r) == runs[r].status = "succeeded"

\* No run, or one that can still be executed.
Live(r) == r = 0 \/ runs[r].status \notin {"absent", "succeeded"}

\* The Marketaux cycle takes no cadence.
Owns(c, p) ==
    /\ cycle[c].kind # "single"
    /\ Deleting(c, p) \/ Waiting(c, p) \/ Working(c, p)

\* The places where a provider's runs are kept to be executed.
Kept(c, p, r) ==
    \/ (Reading(c, p) \/ Deleting(c, p)) /\ cycle[c].read.run = r
    \/ cycle[c].held[p].claimed /\ cycle[c].held[p].run = r
    \/ Owns(c, p) /\ Working(c, p) /\ cycle[c].run = r

Token(p, r) == context[p].run = r \/ \E c \in Cycles : Kept(c, p, r)

\* The cadence of a provider is set while it is owned, by one cycle.
OwnersInv ==
    /\ \A c \in Cycles, p \in Providers : Owns(c, p) => cadence[p]
    /\ \A c, d \in Cycles, p \in Providers : Owns(c, p) /\ Owns(d, p) => c = d

\* A run is kept for one provider, and it has begun.
TokensInv ==
    /\ \A p, q \in Providers, r \in RunIds : Token(p, r) /\ Token(q, r) => p = q
    /\ \A p \in Providers, r \in RunIds : Token(p, r) => runs[r].status # "absent"

\* What is read and held can be executed, except by a reader that has lost its race: the
\* owner it has lost to has executed the run by then.
LiveInv ==
    /\ \A p \in Providers : Live(context[p].run)
    /\ \A c \in Cycles, p \in Providers :
          /\ Deleting(c, p) => Live(cycle[c].read.run)
          /\ Waiting(c, p) => Live(cycle[c].held[p].run)
          /\ Reading(c, p) /\ ~cadence[p] => Live(cycle[c].read.run)
    /\ \A c, d \in Cycles, p \in Providers :
          Reading(d, p) /\ Owns(c, p) /\ ~Live(cycle[d].read.run) =>
             Working(c, p) /\ Succeeded(cycle[c].run)

\* A run its owner is about to execute, or executes, is not in the retry context too.
ContextInv ==
    \A c \in Cycles, p \in Providers : Owns(c, p) =>
        /\ Waiting(c, p) /\ cycle[c].held[p].run # 0 => context[p].run # cycle[c].held[p].run
        /\ Working(c, p) => context[p].run # cycle[c].run

\* The run of an execution, and what is known of runs that have succeeded.
WorkInv ==
    /\ \A c \in Cycles, p \in Providers :
          /\ Working(c, p) =>
                /\ cycle[c].held[p].claimed
                /\ cycle[c].held[p].run # 0 => cycle[c].run = cycle[c].held[p].run
                /\ runs[cycle[c].run].status # "absent"
                /\ cycle[c].pc \in {"process", "persist"} => Succeeded(cycle[c].run)
          /\ Past(c, p) /\ cycle[c].held[p].claimed /\ cycle[c].held[p].run # 0 =>
                Succeeded(cycle[c].held[p].run)
          /\ cycle[c].held[p].claimed /\ cycle[c].kind = "single" => cycle[c].held[p].run = 0
    /\ \A r \in RunIds : Succeeded(r) => runs[r].code = "none"
    /\ \A i \in content : raw[i] \in RunIds /\ Succeeded(raw[i])

\* No two cycles hold one run.
HoldersInv ==
    \A c, d \in Cycles, p \in Providers :
        /\ c # d /\ cycle[c].held[p].claimed /\ cycle[d].held[p].claimed
        /\ cycle[c].held[p].run # 0
        => cycle[c].held[p].run # cycle[d].held[p].run

Exclusion == OwnersInv /\ TokensInv /\ LiveInv /\ ContextInv /\ WorkInv /\ HoldersInv

\* The runs that are kept are runs.
LEMMA RunTypes ==
    ASSUME TypeOK
    PROVE  /\ \A p \in Providers : context[p].run \in 0..MaxRuns
           /\ \A c \in Cycles, p \in Providers : cycle[c].held[p].run \in 0..MaxRuns
           /\ \A c \in Cycles : cycle[c].read.run \in 0..MaxRuns /\ cycle[c].run \in 0..MaxRuns
           /\ \A r \in 0..MaxRuns : r # 0 => r \in RunIds
           /\ \A r \in RunIds : r # 0 /\ r \in 0..MaxRuns
<1>1. \A p \in Providers : context[p] \in Context
    BY DEF TypeOK
<1>2. \A c \in Cycles : cycle[c] \in Cycle
    BY DEF TypeOK
<1>3. \A p \in Providers : context[p].run \in 0..MaxRuns
    BY <1>1 DEF Context
<1>4. \A c \in Cycles : cycle[c].read.run \in 0..MaxRuns /\ cycle[c].run \in 0..MaxRuns
    BY <1>2 DEF Cycle, Context
<1>5. \A c \in Cycles, p \in Providers : cycle[c].held[p].run \in 0..MaxRuns
    BY <1>2 DEF Cycle
<1>6. /\ \A r \in 0..MaxRuns : r # 0 => r \in RunIds
      /\ \A r \in RunIds : r # 0 /\ r \in 0..MaxRuns
    BY Constants DEF RunIds
<1>. QED BY <1>3, <1>4, <1>5, <1>6

LEMMA InitExclusion == ASSUME Init PROVE Exclusion
<1>1. \A c \in Cycles : /\ cycle[c].pc = "idle" /\ \A p \in Providers : ~cycle[c].held[p].claimed
    BY IdleShape DEF Init, NotClaimed
<1>2. \A p \in Providers : context[p].run = 0
    BY DEF Init, NoContext
<1>3. \A r \in RunIds : r # 0 /\ runs[r].status = "absent"
    BY Constants DEF Init, NoRun, RunIds
<1>4. \A c \in Cycles, p \in Providers :
         ~Reading(c, p) /\ ~Deleting(c, p) /\ ~Working(c, p) /\ ~Past(c, p) /\ ~Waiting(c, p) /\ ~Owns(c, p)
    BY <1>1 DEF Reading, Deleting, Working, Past, Waiting, Owns
<1>5. OwnersInv /\ ContextInv /\ HoldersInv
    BY <1>1, <1>4 DEF OwnersInv, ContextInv, HoldersInv
<1>6. TokensInv
    BY <1>1, <1>2, <1>3, <1>4 DEF TokensInv, Token, Kept
<1>7. LiveInv
    BY <1>2, <1>4 DEF LiveInv, Live
<1>8. WorkInv
    BY <1>1, <1>3, <1>4 DEF WorkInv, Succeeded, Init
<1>. QED BY <1>5, <1>6, <1>7, <1>8 DEF Exclusion

\* The condition of RetriesAreExclusive is what the cycles that wait have.
LEMMA ExclusionSuffices ==
    ASSUME IInv, Exclusion
    PROVE  \A c \in Cycles, p \in Providers :
              LET claim == cycle[c].held[p] IN
              claim.claimed /\ claim.run # 0 =>
                 /\ cycle[c].pc \in {"read", "set", "delete", "collect"} => runs[claim.run].status # "succeeded"
                 /\ \A d \in Cycles \ {c} : ~(cycle[d].held[p].claimed /\ cycle[d].held[p].run = claim.run)
<1> SUFFICES ASSUME NEW c \in Cycles, NEW p \in Providers, cycle[c].held[p].claimed, cycle[c].held[p].run # 0
             PROVE  /\ cycle[c].pc \in {"read", "set", "delete", "collect"} =>
                          runs[cycle[c].held[p].run].status # "succeeded"
                    /\ \A d \in Cycles \ {c} : ~(cycle[d].held[p].claimed /\ cycle[d].held[p].run = cycle[c].held[p].run)
    OBVIOUS
<1>1. cycle[c].pc \in {"read", "set", "delete", "collect"} => Waiting(c, p)
    BY DEF Waiting, Working, Past
<1>2. Waiting(c, p) => Live(cycle[c].held[p].run)
    BY DEF Exclusion, LiveInv
<1>3. \A d \in Cycles \ {c} : ~(cycle[d].held[p].claimed /\ cycle[d].held[p].run = cycle[c].held[p].run)
    BY DEF Exclusion, HoldersInv
<1>. QED BY <1>1, <1>2, <1>3 DEF Live

-----------------------------------------------------------------------------
(* The steps that execute nothing.                                         *)

\* No run begins or succeeds, and one that has succeeded stays as it is.
RunsKept ==
    \A r \in RunIds : /\ runs'[r].status = "absent" <=> runs[r].status = "absent"
                      /\ runs'[r].status = "succeeded" <=> Succeeded(r)
                      /\ Succeeded(r) => runs'[r].code = runs[r].code

\* A cycle gives up a provider, goes on with it, or takes one whose cadence is not set;
\* the runs it holds it has held, or has read before the context was deleted.
Sheds(d, p) ==
    /\ Owns(d, p)' =>
          \/ Owns(d, p) /\ (Working(d, p) => Working(d, p)')
          \/ ~cadence[p] /\ cadence'[p] /\ \A e \in Cycles \ {d} : cycle'[e] = cycle[e]
    /\ Reading(d, p)' =>
          \/ Reading(d, p) /\ cycle'[d].read = cycle[d].read
          \/ cycle'[d].read.run = context[p].run
    /\ Deleting(d, p)' =>
          /\ cycle'[d].read = cycle[d].read
          /\ Deleting(d, p) \/ (Reading(d, p) /\ ~cadence[p])
    /\ cycle'[d].held[p].claimed /\ cycle'[d].held[p].run # 0 =>
          /\ cycle'[d].kind = cycle[d].kind
          /\ \/ cycle'[d].held[p] = cycle[d].held[p] /\ (Waiting(d, p)' => Waiting(d, p))
             \/ /\ Deleting(d, p) /\ cycle'[d].held[p].run = cycle[d].read.run
                /\ context'[p].run = 0
    /\ Working(d, p)' =>
          /\ Working(d, p) /\ cycle'[d].run = cycle[d].run /\ cycle'[d].held = cycle[d].held
          /\ cycle'[d].kind = cycle[d].kind
          /\ cycle'[d].pc \in {"process", "persist"} => cycle[d].pc \in {"process", "persist"}
    /\ Past(d, p)' /\ cycle'[d].held[p].claimed /\ cycle'[d].held[p].run # 0 =>
          Succeeded(cycle'[d].held[p].run)

\* A cadence runs out, or a run is put back, where nobody owns the provider any more.
Quiet ==
    /\ RunsKept
    /\ \A p \in Providers :
          cadence[p] /\ ~cadence'[p] =>
             \A d \in Cycles : ~Owns(d, p)' /\ (Reading(d, p) => Live(cycle[d].read.run))
    /\ \A p \in Providers :
          \/ context'[p].run \in {0, context[p].run}
          \/ /\ Token(p, context'[p].run) /\ Live(context'[p].run)
             /\ \A d \in Cycles : ~Owns(d, p)'
    /\ \A i \in content' : raw'[i] \in RunIds /\ Succeeded(raw'[i])
    /\ \A d \in Cycles, p \in Providers : Sheds(d, p)

LEMMA LiveKept ==
    ASSUME RunsKept, NEW r, r = 0 \/ r \in RunIds
    PROVE  /\ (r = 0 \/ runs'[r].status \notin {"absent", "succeeded"}) <=> Live(r)
           /\ r # 0 => (runs'[r].status = "succeeded" <=> Succeeded(r))
  BY DEF RunsKept, Live, Succeeded

LEMMA QuietOwners ==
    ASSUME IInv, Exclusion, Quiet
    PROVE  OwnersInv'
<1>1. OwnersInv
    BY DEF Exclusion
<1>2. ASSUME NEW c \in Cycles, NEW p \in Providers, Owns(c, p)' PROVE cadence'[p]
    BY <1>1, <1>2 DEF Quiet, Sheds, OwnersInv
<1>3. ASSUME NEW c \in Cycles, NEW d \in Cycles, NEW p \in Providers, Owns(c, p)', Owns(d, p)'
      PROVE  c = d
  <2>1. CASE Owns(c, p) /\ Owns(d, p)
    BY <1>1, <2>1 DEF OwnersInv
  <2>2. ASSUME NEW a \in Cycles, NEW b \in Cycles, a # b, Owns(a, p)', Owns(b, p)',
               ~cadence[p] /\ \A e \in Cycles \ {a} : cycle'[e] = cycle[e]
        PROVE  FALSE
    <3>1. cycle'[b] = cycle[b]
      BY <2>2
    <3>2. Owns(b, p)
      BY <2>2, <3>1 DEF Owns, Deleting, Waiting, Working, Past
    <3>. QED BY <1>1, <2>2, <3>2 DEF OwnersInv
  <2>. QED BY <1>3, <2>1, <2>2 DEF Quiet, Sheds
<1>. QED BY <1>2, <1>3 DEF OwnersInv

LEMMA QuietTokens ==
    ASSUME IInv, IInv', Exclusion, Quiet
    PROVE  TokensInv'
<1>1. TokensInv
    BY DEF Exclusion
<1>2. \A r \in RunIds : r # 0
    BY RunTypes DEF IInv
<1>3. ASSUME NEW p \in Providers, NEW r \in RunIds, Token(p, r)' PROVE Token(p, r)
  <2>1. CASE context'[p].run = r
    <3>1. context[p].run = r \/ Token(p, r)
      BY <1>2, <2>1 DEF Quiet
    <3>. QED BY <3>1 DEF Token
  <2>2. ASSUME NEW c \in Cycles, Kept(c, p, r)' PROVE Token(p, r)
    <3>1. Sheds(c, p)
      BY DEF Quiet
    <3>2. CASE Reading(c, p)' /\ cycle'[c].read.run = r
      BY <3>1, <3>2 DEF Sheds, Token, Kept
    <3>3. CASE Deleting(c, p)' /\ cycle'[c].read.run = r
      BY <3>1, <3>3 DEF Sheds, Token, Kept
    <3>4. CASE cycle'[c].held[p].claimed /\ cycle'[c].held[p].run = r
      BY <1>2, <3>1, <3>4 DEF Sheds, Token, Kept
    <3>5. CASE Owns(c, p)' /\ Working(c, p)' /\ cycle'[c].run = r
      <4>1. Working(c, p) /\ cycle[c].run = r /\ cycle[c].kind = cycle'[c].kind
        BY <3>1, <3>5 DEF Sheds
      <4>2. Owns(c, p)
        BY <3>5, <4>1 DEF Owns
      <4>. QED BY <4>1, <4>2 DEF Token, Kept
    <3>. QED BY <2>2, <3>2, <3>3, <3>4, <3>5 DEF Kept
  <2>. QED BY <1>3, <2>1, <2>2 DEF Token
<1>4. \A r \in RunIds : runs[r].status # "absent" => runs'[r].status # "absent"
    BY DEF Quiet, RunsKept
<1>. QED BY <1>1, <1>3, <1>4 DEF TokensInv

LEMMA QuietLive ==
    ASSUME IInv, IInv', Exclusion, Quiet
    PROVE  LiveInv'
<1>1. LiveInv
    BY DEF Exclusion
<1>2. \A r \in 0..MaxRuns : /\ (r = 0 \/ runs'[r].status \notin {"absent", "succeeded"}) <=> Live(r)
                            /\ r # 0 => (runs'[r].status = "succeeded" <=> Succeeded(r))
    BY LiveKept, RunTypes DEF Quiet, IInv
<1> DEFINE Lives(r) == r = 0 \/ runs'[r].status \notin {"absent", "succeeded"}
<1>3. /\ \A p \in Providers : context'[p].run \in 0..MaxRuns /\ context[p].run \in 0..MaxRuns
      /\ \A c \in Cycles, p \in Providers : cycle'[c].held[p].run \in 0..MaxRuns
      /\ \A c \in Cycles : cycle'[c].read.run \in 0..MaxRuns /\ cycle[c].run \in 0..MaxRuns
  <2>1. /\ \A p \in Providers : context[p].run \in 0..MaxRuns
        /\ \A c \in Cycles : cycle[c].run \in 0..MaxRuns
    BY RunTypes DEF IInv
  <2>2. /\ \A p \in Providers : context'[p].run \in 0..MaxRuns
        /\ \A c \in Cycles, p \in Providers : cycle'[c].held[p].run \in 0..MaxRuns
        /\ \A c \in Cycles : cycle'[c].read.run \in 0..MaxRuns
    <3>1. \A p \in Providers : context'[p] \in Context
      BY DEF IInv, TypeOK
    <3>2. \A c \in Cycles : cycle'[c] \in Cycle
      BY DEF IInv, TypeOK
    <3>. QED BY <3>1, <3>2 DEF Context, Cycle
  <2>. QED BY <2>1, <2>2
<1>4. \A p \in Providers : Lives(context'[p].run)
  <2>1. \A p \in Providers : Live(context[p].run) /\ Live(0)
    BY <1>1 DEF LiveInv, Live
  <2>2. \A p \in Providers : Live(context'[p].run)
    BY <2>1 DEF Quiet
  <2>. QED BY <1>2, <1>3, <2>2
<1>5. ASSUME NEW c \in Cycles, NEW p \in Providers, Deleting(c, p)' PROVE Lives(cycle'[c].read.run)
  <2>1. /\ cycle'[c].read = cycle[c].read
        /\ Deleting(c, p) \/ (Reading(c, p) /\ ~cadence[p])
    BY <1>5 DEF Quiet, Sheds
  <2>2. Live(cycle[c].read.run)
    BY <1>1, <2>1 DEF LiveInv
  <2>. QED BY <1>2, <1>3, <2>1, <2>2
<1>6. ASSUME NEW c \in Cycles, NEW p \in Providers, Waiting(c, p)' PROVE Lives(cycle'[c].held[p].run)
  <2>1. CASE cycle'[c].held[p].run = 0
    BY <2>1
  <2>2. CASE cycle'[c].held[p].run # 0
    <3>1. cycle'[c].held[p].claimed
      BY <1>6 DEF Waiting
    <3>2. \/ cycle'[c].held[p] = cycle[c].held[p] /\ Waiting(c, p)
          \/ Deleting(c, p) /\ cycle'[c].held[p].run = cycle[c].read.run
      BY <1>6, <2>2, <3>1 DEF Quiet, Sheds
    <3>3. Live(cycle'[c].held[p].run)
      BY <1>1, <3>2 DEF LiveInv
    <3>. QED BY <1>2, <1>3, <3>3
  <2>. QED BY <2>1, <2>2
<1>7. ASSUME NEW c \in Cycles, NEW p \in Providers, Reading(c, p)', ~Lives(cycle'[c].read.run)
      PROVE  /\ cadence[p] /\ cadence'[p]
             /\ Reading(c, p) /\ cycle'[c].read = cycle[c].read /\ ~Live(cycle[c].read.run)
  <2>1. ~Live(cycle'[c].read.run)
    BY <1>2, <1>3, <1>7
  <2>2. \/ Reading(c, p) /\ cycle'[c].read = cycle[c].read
        \/ cycle'[c].read.run = context[p].run
    BY <1>7 DEF Quiet, Sheds
  <2>3. Reading(c, p) /\ cycle'[c].read = cycle[c].read
    BY <1>1, <2>1, <2>2 DEF LiveInv
  <2>4. cadence[p]
    BY <1>1, <2>1, <2>3 DEF LiveInv
  <2>. QED BY <2>1, <2>3, <2>4 DEF Quiet
<1>8. ASSUME NEW c \in Cycles, NEW d \in Cycles, NEW p \in Providers,
             Reading(d, p)', Owns(c, p)', ~Lives(cycle'[d].read.run)
      PROVE  Working(c, p)' /\ runs'[cycle'[c].run].status = "succeeded"
  <2>1. cadence[p] /\ Reading(d, p) /\ ~Live(cycle[d].read.run)
    BY <1>7, <1>8
  <2>2. Owns(c, p) /\ (Working(c, p) => Working(c, p)')
    BY <1>8, <2>1 DEF Quiet, Sheds
  <2>3. Working(c, p) /\ Succeeded(cycle[c].run)
    BY <1>1, <2>1, <2>2 DEF LiveInv
  <2>4. cycle'[c].run = cycle[c].run
    BY <2>2, <2>3 DEF Quiet, Sheds
  <2>5. cycle[c].run \in RunIds
    BY <2>3 DEF IInv, StagesInv, Executing, Working
  <2>6. cycle[c].run # 0
    BY <2>5, RunTypes DEF IInv
  <2>. QED BY <1>2, <1>3, <2>2, <2>3, <2>4, <2>6
<1>. QED BY <1>4, <1>5, <1>6, <1>7, <1>8 DEF LiveInv, Live, Succeeded

LEMMA QuietContext ==
    ASSUME IInv, IInv', Exclusion, Quiet
    PROVE  ContextInv'
<1>1. ContextInv
    BY DEF Exclusion
<1>2. ASSUME NEW c \in Cycles, NEW p \in Providers, Owns(c, p)', Waiting(c, p)', cycle'[c].held[p].run # 0
      PROVE  context'[p].run # cycle'[c].held[p].run
  <2>1. cycle'[c].held[p].claimed
    BY <1>2 DEF Waiting
  <2>2. CASE context'[p].run = 0
    BY <1>2, <2>2
  <2>3. CASE context'[p].run = context[p].run /\ context'[p].run # 0
    <3>1. cycle'[c].held[p] = cycle[c].held[p] /\ Waiting(c, p) /\ cycle'[c].kind = cycle[c].kind
      BY <1>2, <2>1, <2>3 DEF Quiet, Sheds
    <3>2. Owns(c, p)
      BY <1>2, <3>1 DEF Owns
    <3>. QED BY <1>1, <1>2, <2>3, <3>1, <3>2 DEF ContextInv
  <2>. QED BY <1>2, <2>2, <2>3 DEF Quiet
<1>3. ASSUME NEW c \in Cycles, NEW p \in Providers, Owns(c, p)', Working(c, p)'
      PROVE  context'[p].run # cycle'[c].run
  <2>1. Working(c, p) /\ cycle'[c].run = cycle[c].run /\ cycle'[c].kind = cycle[c].kind
    BY <1>3 DEF Quiet, Sheds
  <2>2. Owns(c, p)
    BY <1>3, <2>1 DEF Owns
  <2>3. cycle[c].run # 0
    BY <2>1, RunTypes DEF IInv, StagesInv, Executing, Working
  <2>4. context[p].run # cycle[c].run
    BY <1>1, <2>1, <2>2 DEF ContextInv
  <2>. QED BY <1>3, <2>1, <2>3, <2>4 DEF Quiet
<1>. QED BY <1>2, <1>3 DEF ContextInv

LEMMA QuietWork ==
    ASSUME IInv, IInv', Exclusion, Quiet
    PROVE  WorkInv'
<1>1. WorkInv
    BY DEF Exclusion
<1>2. ASSUME NEW c \in Cycles, NEW p \in Providers, Working(c, p)'
      PROVE  /\ cycle'[c].held[p].claimed
             /\ cycle'[c].held[p].run # 0 => cycle'[c].run = cycle'[c].held[p].run
             /\ runs'[cycle'[c].run].status # "absent"
             /\ cycle'[c].pc \in {"process", "persist"} => runs'[cycle'[c].run].status = "succeeded"
  <2>1. /\ Working(c, p) /\ cycle'[c].run = cycle[c].run /\ cycle'[c].held = cycle[c].held
        /\ cycle'[c].pc \in {"process", "persist"} => cycle[c].pc \in {"process", "persist"}
    BY <1>2 DEF Quiet, Sheds
  <2>2. /\ cycle[c].held[p].claimed
        /\ cycle[c].held[p].run # 0 => cycle[c].run = cycle[c].held[p].run
        /\ runs[cycle[c].run].status # "absent"
        /\ cycle[c].pc \in {"process", "persist"} => Succeeded(cycle[c].run)
    BY <1>1, <2>1 DEF WorkInv
  <2>3. cycle[c].run \in RunIds
    BY <2>1 DEF IInv, StagesInv, Executing, Working
  <2>. QED BY <2>1, <2>2, <2>3 DEF Quiet, RunsKept
<1>3. ASSUME NEW c \in Cycles, NEW p \in Providers,
             Past(c, p)', cycle'[c].held[p].claimed, cycle'[c].held[p].run # 0
      PROVE  runs'[cycle'[c].held[p].run].status = "succeeded"
  <2>1. Succeeded(cycle'[c].held[p].run)
    BY <1>3 DEF Quiet, Sheds
  <2>2. cycle'[c].held[p].run \in RunIds
    <3>1. cycle'[c] \in Cycle
      BY DEF IInv, TypeOK
    <3>2. cycle'[c].held[p].run \in 0..MaxRuns
      BY <3>1 DEF Cycle
    <3>. QED BY <1>3, <3>2, RunTypes DEF IInv
  <2>. QED BY <2>1, <2>2 DEF Quiet, RunsKept
<1>4. ASSUME NEW c \in Cycles, NEW p \in Providers, cycle'[c].held[p].claimed, cycle'[c].kind = "single"
      PROVE  cycle'[c].held[p].run = 0
  <2> SUFFICES ASSUME cycle'[c].held[p].run # 0 PROVE FALSE
    OBVIOUS
  <2>1. /\ cycle[c].kind = "single"
        /\ cycle'[c].held[p] = cycle[c].held[p] \/ Deleting(c, p)
    BY <1>4 DEF Quiet, Sheds
  <2>2. ~Deleting(c, p)
    BY <2>1 DEF IInv, StagesInv, ProvidersLeft, Deleting
  <2>. QED BY <1>1, <1>4, <2>1, <2>2 DEF WorkInv
<1>5. \A r \in RunIds : runs'[r].status = "succeeded" => runs'[r].code = "none"
    BY <1>1 DEF Quiet, RunsKept, WorkInv
<1>6. \A i \in content' : raw'[i] \in RunIds /\ runs'[raw'[i]].status = "succeeded"
    BY DEF Quiet, RunsKept
<1>. QED BY <1>2, <1>3, <1>4, <1>5, <1>6 DEF WorkInv, Succeeded

LEMMA QuietHolders ==
    ASSUME IInv, Exclusion, Quiet
    PROVE  HoldersInv'
<1>1. HoldersInv /\ OwnersInv /\ LiveInv /\ WorkInv
    BY DEF Exclusion
<1>2. ASSUME NEW c \in Cycles, NEW p \in Providers, Deleting(c, p)
      PROVE  Owns(c, p) /\ Live(cycle[c].read.run)
  <2>1. cycle[c].kind # "single"
    BY <1>2 DEF IInv, StagesInv, ProvidersLeft, Deleting
  <2>. QED BY <1>1, <1>2, <2>1 DEF Owns, LiveInv
<1>3. ASSUME NEW c \in Cycles, NEW d \in Cycles, NEW p \in Providers, c # d,
             Deleting(c, p), cycle[c].read.run # 0, cycle[d].held[p].claimed
      PROVE  cycle[d].held[p].run # cycle[c].read.run
  <2> SUFFICES ASSUME cycle[d].held[p].run = cycle[c].read.run PROVE FALSE
    OBVIOUS
  <2>1. cycle[d].kind # "single"
    BY <1>1, <1>3 DEF WorkInv
  <2>2. ~Owns(d, p)
    BY <1>1, <1>2, <1>3 DEF OwnersInv
  <2>3. Past(d, p)
    BY <1>3, <2>1, <2>2 DEF Owns, Waiting
  <2>4. Succeeded(cycle[c].read.run)
    BY <1>1, <1>3, <2>3 DEF WorkInv
  <2>. QED BY <1>2, <1>3, <2>4 DEF Live, Succeeded
<1>4. ASSUME NEW c \in Cycles, NEW d \in Cycles, NEW p \in Providers, c # d,
             cycle'[c].held[p].claimed, cycle'[d].held[p].claimed,
             cycle'[c].held[p].run # 0, cycle'[d].held[p].run # 0
      PROVE  cycle'[c].held[p].run # cycle'[d].held[p].run
  <2>1. /\ cycle'[c].held[p] = cycle[c].held[p] \/ (Deleting(c, p) /\ cycle'[c].held[p].run = cycle[c].read.run)
        /\ cycle'[d].held[p] = cycle[d].held[p] \/ (Deleting(d, p) /\ cycle'[d].held[p].run = cycle[d].read.run)
    BY <1>4 DEF Quiet, Sheds
  <2>2. CASE cycle'[c].held[p] = cycle[c].held[p] /\ cycle'[d].held[p] = cycle[d].held[p]
    BY <1>1, <1>4, <2>2 DEF HoldersInv
  <2>3. CASE cycle'[c].held[p] = cycle[c].held[p] /\ Deleting(d, p) /\ cycle'[d].held[p].run = cycle[d].read.run
    BY <1>3, <1>4, <2>3
  <2>4. CASE cycle'[d].held[p] = cycle[d].held[p] /\ Deleting(c, p) /\ cycle'[c].held[p].run = cycle[c].read.run
    BY <1>3, <1>4, <2>4
  <2>5. CASE Deleting(c, p) /\ Deleting(d, p)
    BY <1>1, <1>2, <1>4, <2>5 DEF OwnersInv
  <2>. QED BY <2>1, <2>2, <2>3, <2>4, <2>5
<1>. QED BY <1>4 DEF HoldersInv

LEMMA QuietExclusion ==
    ASSUME IInv, IInv', Exclusion, Quiet
    PROVE  Exclusion'
  BY QuietOwners, QuietTokens, QuietLive, QuietContext, QuietWork, QuietHolders DEF Exclusion

LEMMA StillSheds ==
    ASSUME Exclusion, NEW d \in Cycles, NEW p \in Providers, cycle'[d] = cycle[d]
    PROVE  Sheds(d, p)
<1>1. Past(d, p) /\ cycle[d].held[p].claimed /\ cycle[d].held[p].run # 0 =>
         Succeeded(cycle[d].held[p].run)
    BY DEF Exclusion, WorkInv
<1>. QED BY <1>1 DEF Sheds, Owns, Reading, Deleting, Waiting, Working, Past

LEMMA RestsSheds ==
    ASSUME Exclusion, NEW c \in Cycles, NEW p \in Providers, Rests(c)
    PROVE  Sheds(c, p)
<1>1. /\ cycle'[c].pc \in {"idle", "read", "collect", "retries"}
      /\ cycle'[c].held[p].claimed =>
            \/ cycle'[c].kind = "single" /\ cycle'[c].held[p].run = 0
            \/ cycle'[c].held[p] = cycle[c].held[p] /\ cycle'[c].kind = cycle[c].kind /\ Waiting(c, p)
    BY DEF Rests
<1>2. ~Reading(c, p)' /\ ~Deleting(c, p)' /\ ~Working(c, p)' /\ ~Past(c, p)'
    BY <1>1 DEF Reading, Deleting, Working, Past
<1>3. Owns(c, p)' => Owns(c, p) /\ ~Working(c, p)
    BY <1>1, <1>2 DEF Owns, Waiting
<1>4. cycle'[c].held[p].claimed /\ cycle'[c].held[p].run # 0 =>
         /\ cycle'[c].kind = cycle[c].kind
         /\ cycle'[c].held[p] = cycle[c].held[p] /\ (Waiting(c, p)' => Waiting(c, p))
    BY <1>1
<1>. QED BY <1>2, <1>3, <1>4 DEF Sheds

\* The rest of a step that executes nothing.
Aside ==
    /\ RunsKept
    /\ \A p \in Providers : cadence[p] => cadence'[p]
    /\ \A p \in Providers : context'[p].run \in {0, context[p].run}
    /\ \A i \in content' : raw'[i] \in RunIds /\ Succeeded(raw'[i])

LEMMA MoverQuiet ==
    ASSUME Exclusion, Aside, NEW c \in Cycles, OnlyMoves(c),
           \A p \in Providers : Sheds(c, p)
    PROVE  Quiet
  BY StillSheds DEF Quiet, Aside, OnlyMoves

LEMMA RestsQuiet ==
    ASSUME Exclusion, Aside, NEW c \in Cycles, Rests(c)
    PROVE  Quiet
  BY RestsSheds, MoverQuiet DEF Rests

LEMMA StillQuiet ==
    ASSUME Exclusion, Aside, cycle' = cycle
    PROVE  Quiet
  BY StillSheds DEF Quiet, Aside

LEMMA StillAside ==
    ASSUME Exclusion, runs' = runs, cadence' = cadence, context' = context, raw' = raw,
           content' = content
    PROVE  Aside
  BY DEF Aside, RunsKept, Exclusion, WorkInv, Succeeded

\* On with a provider that is collected, to the end of its execution or further.
LEMMA OnwardQuiet ==
    ASSUME IInv, Exclusion, Aside, NEW c \in Cycles,
           \/ /\ cycle[c].pc = "process"
              /\ GoesOn(c, "persist") \/ GoesOn(c, "reschedule")
           \/ cycle[c].pc = "persist" /\ GoesOn(c, "reschedule")
           \/ cycle[c].pc \in {"persist", "reschedule"} /\ Succeeded(cycle[c].run) /\ GoesOn(c, "new")
           \/ cycle[c].pc \in {"new", "retries"} /\ GoesOn(c, "send")
           \/ cycle[c].pc = "send" /\ GoesOn(c, "mark")
    PROVE  Quiet
<1>1. /\ cycle'[c].kind = cycle[c].kind /\ cycle'[c].todo = cycle[c].todo
      /\ cycle'[c].held = cycle[c].held /\ cycle'[c].run = cycle[c].run /\ OnlyMoves(c)
    BY DEF GoesOn
<1>2. ASSUME NEW p \in Providers PROVE Sheds(c, p)
  <2>1. WorkInv
    BY DEF Exclusion
  <2>2. ~Reading(c, p)' /\ ~Deleting(c, p)'
    BY DEF Reading, Deleting, GoesOn
  <2>3. CASE cycle'[c].pc \in {"persist", "reschedule"}
    <3>1. /\ cycle[c].pc \in {"process", "persist"}
          /\ cycle'[c].pc \in {"process", "persist"} => cycle[c].pc \in {"process", "persist"}
      BY <2>3 DEF GoesOn
    <3>2. /\ Working(c, p)' <=> Working(c, p)
          /\ ~Past(c, p)' /\ ~Past(c, p) /\ ~Deleting(c, p)
      BY <1>1, <2>3, <3>1 DEF Working, Past, Deleting
    <3>3. Waiting(c, p)' <=> Waiting(c, p)
      BY <1>1, <3>2 DEF Waiting
    <3>4. Owns(c, p)' => Owns(c, p)
      BY <1>1, <2>2, <3>2, <3>3 DEF Owns
    <3>. QED BY <1>1, <2>2, <3>1, <3>2, <3>3, <3>4 DEF Sheds
  <2>4. CASE cycle'[c].pc = "new"
    <3>1. cycle[c].pc \in {"persist", "reschedule"} /\ Succeeded(cycle[c].run) /\ cycle[c].todo # <<>>
      BY <2>4 DEF GoesOn, IInv, StagesInv, Executing
    <3>2. /\ ~Working(c, p)' /\ ~Past(c, p) /\ ~Deleting(c, p)
          /\ Past(c, p)' <=> Working(c, p)
      BY <1>1, <2>4, <3>1 DEF Working, Past, Deleting
    <3>3. Waiting(c, p)' <=> Waiting(c, p)
      BY <1>1, <3>2 DEF Waiting
    <3>4. Owns(c, p)' => Owns(c, p) /\ ~Working(c, p)
      BY <1>1, <2>2, <3>2, <3>3 DEF Owns, Waiting
    <3>5. Past(c, p)' /\ cycle'[c].held[p].claimed /\ cycle'[c].held[p].run # 0 =>
             Succeeded(cycle'[c].held[p].run)
      BY <1>1, <2>1, <3>1, <3>2 DEF WorkInv
    <3>. QED BY <1>1, <2>2, <3>2, <3>3, <3>4, <3>5 DEF Sheds
  <2>5. CASE cycle'[c].pc \in {"send", "mark"}
    <3>1. /\ cycle[c].pc \in {"new", "retries", "send"}
          /\ cycle[c].pc = "retries" => cycle[c].todo = <<>>
      BY <2>5 DEF GoesOn, IInv, StagesInv, ProvidersLeft
    <3>2. /\ ~Working(c, p)' /\ ~Working(c, p) /\ ~Deleting(c, p)
          /\ Past(c, p)' <=> Past(c, p)
      BY <1>1, <2>5, <3>1 DEF Working, Past, Deleting
    <3>3. Waiting(c, p)' <=> Waiting(c, p)
      BY <1>1, <3>2 DEF Waiting
    <3>4. Owns(c, p)' => Owns(c, p)
      BY <1>1, <2>2, <3>2, <3>3 DEF Owns
    <3>5. Past(c, p)' /\ cycle'[c].held[p].claimed /\ cycle'[c].held[p].run # 0 =>
             Succeeded(cycle'[c].held[p].run)
      BY <1>1, <2>1, <3>2 DEF WorkInv
    <3>. QED BY <1>1, <2>2, <3>2, <3>3, <3>4, <3>5 DEF Sheds
  <2>. QED BY <2>3, <2>4, <2>5 DEF GoesOn
<1>. QED BY <1>1, <1>2, MoverQuiet

\* The claim of a provider: its context is read, its cadence set, its context deleted.
LEMMA ReadQuiet ==
    ASSUME IInv, Exclusion, NEW c \in Cycles, ClaimRead(c)
    PROVE  Quiet
<1>1. Aside /\ cycle[c].pc = "read"
    BY StillAside DEF ClaimRead, redis
<1>2. CASE ClaimNext(c, NotClaimed)
  <2>1. Rests(c)
    BY <1>1, <1>2, ClaimMoves, ClaimTypes DEF NotClaimed
  <2>. QED BY <1>1, <2>1, RestsQuiet
<1>3. CASE Goto(c, [At(c, "set") EXCEPT !.read = context[Provider(c)]])
  <2>1. GoesOn(c, "set") /\ cycle'[c].read = context[Provider(c)]
    BY <1>3, ReadMoves
  <2>2. ASSUME NEW p \in Providers PROVE Sheds(c, p)
    <3>1. /\ ~Working(c, p)' /\ ~Working(c, p) /\ ~Past(c, p)' /\ ~Past(c, p)
          /\ ~Deleting(c, p)' /\ ~Deleting(c, p)
          /\ Reading(c, p)' => p = Provider(c)
      BY <1>1, <2>1 DEF GoesOn, Working, Past, Deleting, Reading, Provider
    <3>2. Waiting(c, p)' <=> Waiting(c, p)
      BY <2>1, <3>1 DEF Waiting, GoesOn
    <3>3. Owns(c, p)' => Owns(c, p)
      BY <2>1, <3>1, <3>2 DEF Owns, GoesOn
    <3>. QED BY <2>1, <3>1, <3>2, <3>3 DEF Sheds, GoesOn
  <2>. QED BY <1>1, <2>1, <2>2, MoverQuiet DEF GoesOn
<1>. QED BY <1>2, <1>3 DEF ClaimRead

LEMMA SetQuiet ==
    ASSUME IInv, Exclusion, NEW c \in Cycles, ClaimSet(c)
    PROVE  Quiet
<1>1. /\ cycle[c].pc = "set" /\ runs' = runs /\ context' = context /\ raw' = raw
      /\ content' = content /\ cadence' = [cadence EXCEPT ![Provider(c)] = TRUE]
      /\ cycle[c].todo # <<>> /\ cycle[c] \in Cycle
    BY DEF ClaimSet, IInv, TypeOK, StagesInv
<1>2. Provider(c) \in Providers
    BY <1>1, ProviderLeft DEF Provider, Cycle
<1>3. cadence'[Provider(c)] /\ \A p \in Providers : cadence[p] => cadence'[p]
    BY <1>1, <1>2 DEF IInv, TypeOK
<1>4. Aside
    BY <1>1, <1>3 DEF Aside, RunsKept, Exclusion, WorkInv, Succeeded
<1>5. CASE ClaimNext(c, NotClaimed)
  <2>1. Rests(c)
    BY <1>1, <1>5, ClaimMoves, ClaimTypes DEF NotClaimed
  <2>. QED BY <1>4, <2>1, RestsQuiet
<1>6. CASE ~cadence[Provider(c)] /\ ClaimNext(c, Claimed(NoContext))
  <2>1. /\ OnlyMoves(c) /\ cycle'[c].pc \in {"read", "collect"} /\ cycle'[c].kind = cycle[c].kind
        /\ cycle'[c].held[Provider(c)] = Claimed(NoContext)
        /\ \A p \in Providers : p # Provider(c) => cycle'[c].held[p] = cycle[c].held[p]
        /\ \A p \in Providers : cycle[c].held[p].claimed => Waiting(c, p)
    BY <1>1, <1>6, ClaimMoves, ClaimTypes
  <2>2. ASSUME NEW p \in Providers PROVE Sheds(c, p)
    <3>1. ~Reading(c, p)' /\ ~Deleting(c, p)' /\ ~Working(c, p)' /\ ~Past(c, p)' /\ ~Working(c, p)
      BY <1>1, <2>1 DEF Reading, Deleting, Working, Past
    <3>2. CASE p = Provider(c)
      <4>1. cycle'[c].held[p].run = 0
        BY <2>1, <3>2 DEF Claimed, NoContext
      <4>2. \A e \in Cycles \ {c} : cycle'[e] = cycle[e]
        BY <2>1 DEF OnlyMoves
      <4>. QED BY <1>3, <1>6, <3>1, <3>2, <4>1, <4>2 DEF Sheds
    <3>3. CASE p # Provider(c)
      <4>1. Waiting(c, p)' => Waiting(c, p)
        BY <2>1, <3>3 DEF Waiting
      <4>2. Owns(c, p)' => Owns(c, p)
        BY <2>1, <3>1, <4>1 DEF Owns
      <4>. QED BY <2>1, <3>1, <3>3, <4>1, <4>2 DEF Sheds
    <3>. QED BY <3>2, <3>3
  <2>. QED BY <1>4, <2>1, <2>2, MoverQuiet
<1>7. CASE ~cadence[Provider(c)] /\ Goto(c, At(c, "delete"))
  <2>1. GoesOn(c, "delete") /\ cycle'[c].read = cycle[c].read
    BY <1>7, AtGoesOn DEF IInv
  <2>2. ASSUME NEW p \in Providers PROVE Sheds(c, p)
    <3>1. /\ ~Reading(c, p)' /\ ~Working(c, p)' /\ ~Past(c, p)' /\ ~Working(c, p) /\ ~Past(c, p)
          /\ Deleting(c, p)' => p = Provider(c) /\ Reading(c, p)
      BY <1>1, <2>1 DEF Reading, Deleting, Working, Past, Provider, GoesOn
    <3>2. Waiting(c, p)' <=> Waiting(c, p)
      BY <2>1, <3>1 DEF Waiting, GoesOn
    <3>3. Owns(c, p)' => Owns(c, p) \/ p = Provider(c)
      BY <2>1, <3>1, <3>2 DEF Owns, GoesOn
    <3>4. \A e \in Cycles \ {c} : cycle'[e] = cycle[e]
      BY <2>1 DEF OnlyMoves, GoesOn
    <3>. QED BY <1>3, <1>7, <2>1, <3>1, <3>2, <3>3, <3>4 DEF Sheds, GoesOn
  <2>. QED BY <1>4, <2>1, <2>2, MoverQuiet DEF GoesOn
<1>. QED BY <1>5, <1>6, <1>7 DEF ClaimSet, Settle

LEMMA DeleteQuiet ==
    ASSUME IInv, Exclusion, NEW c \in Cycles, ClaimDelete(c)
    PROVE  Quiet
<1>1. /\ cycle[c].pc = "delete" /\ runs' = runs /\ cadence' = cadence /\ raw' = raw
      /\ content' = content /\ context' = [context EXCEPT ![Provider(c)] = NoContext]
      /\ cycle[c].todo # <<>> /\ cycle[c] \in Cycle /\ cycle[c].read \in Context
    BY DEF ClaimDelete, IInv, TypeOK, StagesInv, Cycle
<1>2. Provider(c) \in Providers /\ Deleting(c, Provider(c))
    BY <1>1, ProviderLeft DEF Provider, Cycle, Deleting
<1>3. context'[Provider(c)].run = 0 /\ \A p \in Providers : context'[p].run \in {0, context[p].run}
    BY <1>1, <1>2 DEF IInv, TypeOK, NoContext
<1>4. Aside
    BY <1>1, <1>3 DEF Aside, RunsKept, Exclusion, WorkInv, Succeeded
<1>5. CASE ClaimNext(c, NotClaimed)
  <2>1. Rests(c)
    BY <1>1, <1>5, ClaimMoves, ClaimTypes DEF NotClaimed
  <2>. QED BY <1>4, <2>1, RestsQuiet
<1>6. CASE ClaimNext(c, Claimed(cycle[c].read))
  <2>1. /\ OnlyMoves(c) /\ cycle'[c].pc \in {"read", "collect"} /\ cycle'[c].kind = cycle[c].kind
        /\ cycle'[c].held[Provider(c)] = Claimed(cycle[c].read)
        /\ \A p \in Providers : p # Provider(c) => cycle'[c].held[p] = cycle[c].held[p]
        /\ \A p \in Providers : cycle[c].held[p].claimed => Waiting(c, p)
    BY <1>1, <1>6, ClaimMoves, ClaimTypes
  <2>2. ASSUME NEW p \in Providers PROVE Sheds(c, p)
    <3>1. ~Reading(c, p)' /\ ~Deleting(c, p)' /\ ~Working(c, p)' /\ ~Past(c, p)' /\ ~Working(c, p)
      BY <1>1, <2>1 DEF Reading, Deleting, Working, Past
    <3>2. CASE p = Provider(c)
      <4>1. cycle'[c].held[p].run = cycle[c].read.run
        BY <2>1, <3>2 DEF Claimed
      <4>2. Owns(c, p)' => Owns(c, p)
        BY <1>2, <2>1, <3>2 DEF Owns
      <4>. QED BY <1>2, <1>3, <2>1, <3>1, <3>2, <4>1, <4>2 DEF Sheds
    <3>3. CASE p # Provider(c)
      <4>1. Waiting(c, p)' => Waiting(c, p)
        BY <2>1, <3>3 DEF Waiting
      <4>2. Owns(c, p)' => Owns(c, p)
        BY <2>1, <3>1, <4>1 DEF Owns
      <4>. QED BY <2>1, <3>1, <3>3, <4>1, <4>2 DEF Sheds
    <3>. QED BY <3>2, <3>3
  <2>. QED BY <1>4, <2>1, <2>2, MoverQuiet
<1>. QED BY <1>5, <1>6 DEF ClaimDelete, Settle

\* A cadence that runs out when no cycle claims or executes the provider.
LEMMA ExpiresQuiet ==
    ASSUME IInv, Exclusion, NEW p \in Providers, CadenceExpires(p), overruns' = 0, overruns = 0
    PROVE  Quiet
<1>1. /\ cadence' = [cadence EXCEPT ![p] = FALSE] /\ cycle' = cycle /\ runs' = runs
      /\ context' = context /\ raw' = raw /\ content' = content
    BY DEF CadenceExpires
<1>2. \A c \in Cycles : ~Claiming(c, p) /\ ~cycle[c].held[p].claimed
    BY DEF CadenceExpires
<1>3. ASSUME NEW c \in Cycles PROVE ~Owns(c, p) /\ ~Owns(c, p)' /\ ~Reading(c, p)
  <2>1. ~Reading(c, p) /\ ~Deleting(c, p) /\ ~Waiting(c, p)
    BY <1>2 DEF Claiming, Reading, Deleting, Waiting
  <2>2. ~Working(c, p)
    BY <1>2 DEF Exclusion, WorkInv
  <2>3. ~Owns(c, p)
    BY <2>1, <2>2 DEF Owns
  <2>4. Owns(c, p)' <=> Owns(c, p)
    BY <1>1 DEF Owns, Deleting, Waiting, Working, Past
  <2>. QED BY <2>1, <2>3, <2>4
<1>4. \A d \in Cycles, q \in Providers : Sheds(d, q)
    BY <1>1, StillSheds
<1>5. RunsKept /\ \A i \in content' : raw'[i] \in RunIds /\ Succeeded(raw'[i])
    BY <1>1 DEF RunsKept, Succeeded, Exclusion, WorkInv
<1>6. \A q \in Providers : q # p => cadence'[q] = cadence[q]
    BY <1>1 DEF IInv, TypeOK
<1>. QED BY <1>1, <1>3, <1>4, <1>5, <1>6 DEF Quiet

\* schedule_retry puts the run of an execution back into the context.
LEMMA ReturnQuiet ==
    ASSUME IInv, Exclusion, NEW c \in Cycles, NEW p \in Providers, NEW r \in RunIds,
           Reschedule(c), p = Provider(c), r = cycle[c].run,
           cycle[c].kind = "multi", runs[r].code = "retryable"
    PROVE  Quiet
<1>1. /\ cycle[c].pc = "reschedule" /\ runs' = runs /\ raw' = raw /\ content' = content
      /\ cycle[c].todo # <<>> /\ Goto(c, Unfinished(c))
    BY DEF Reschedule, IInv, TypeOK, StagesInv, Executing
<1>2. Working(c, p)
    BY <1>1 DEF Provider, Working
<1>3. Owns(c, p) /\ Token(p, r)
    BY <1>2 DEF Owns, Token, Kept
<1>4. ~Succeeded(r) /\ Live(r)
  <2>1. WorkInv
    BY DEF Exclusion
  <2>2. ~Succeeded(r)
    BY <1>1, <2>1 DEF WorkInv
  <2>. QED BY <1>2, <2>1, <2>2 DEF WorkInv, Live, Succeeded
<1>5. Goto(c, Done(c))
  <2>1. content \cap Of(r) = {}
    BY <1>4 DEF Exclusion, WorkInv, Of
  <2>. QED BY <1>1, <2>1 DEF Unfinished
<1>6. Rests(c) /\ cycle'[c].kind = "multi"
    BY <1>1, <1>5, DoneRests DEF IInv
<1>7. \A d \in Cycles, q \in Providers : Sheds(d, q)
    BY <1>6, RestsSheds, StillSheds DEF Rests, OnlyMoves
<1>8. \A q \in Providers : q # p => cadence'[q] = cadence[q] /\ context'[q] = context[q]
  <2>1. \/ cadence' = cadence /\ context' = context
        \/ /\ cadence' = [cadence EXCEPT ![p] = FALSE]
           /\ context' = [context EXCEPT ![p] = [run |-> r, attempt |-> runs[r].retries]]
    BY DEF Reschedule, redis
  <2>2. cadence \in [Providers -> BOOLEAN] /\ context \in [Providers -> Context]
    BY DEF IInv, TypeOK
  <2>. QED BY <2>1, <2>2
<1>9. context'[p] = context[p] \/ context'[p].run = r
  <2>1. \/ context' = context
        \/ context' = [context EXCEPT ![p] = [run |-> r, attempt |-> runs[r].retries]]
    BY DEF Reschedule, redis
  <2>2. context \in [Providers -> Context]
    BY DEF IInv, TypeOK
  <2>. QED BY <2>1, <2>2
<1>10. ASSUME NEW d \in Cycles PROVE ~Owns(d, p)'
  <2>1. CASE d = c
    <3>1. ~cycle'[c].held[p].claimed
      <4>1. ~Waiting(c, p)
        BY <1>2 DEF Waiting
      <4>2. cycle'[c].kind # "single"
        BY <1>6
      <4>. QED BY <1>2, <1>6, <4>1, <4>2 DEF Rests
    <3>2. cycle'[c].pc \in {"idle", "read", "collect", "retries"}
      BY <1>6 DEF Rests
    <3>. QED BY <2>1, <3>1, <3>2 DEF Owns, Deleting, Waiting, Working
  <2>2. CASE d # c
    <3>1. ~Owns(d, p)
      BY <1>2, <1>3, <2>2 DEF Exclusion, OwnersInv
    <3>2. cycle'[d] = cycle[d]
      BY <1>6, <2>2 DEF Rests, OnlyMoves
    <3>. QED BY <3>1, <3>2 DEF Owns, Deleting, Waiting, Working, Past
  <2>. QED BY <2>1, <2>2
<1>11. \A d \in Cycles : Reading(d, p) => Live(cycle[d].read.run)
  <2>1. LiveInv
    BY DEF Exclusion
  <2>2. ~(Working(c, p) /\ Succeeded(cycle[c].run))
    BY <1>4
  <2>. QED BY <1>2, <1>3, <2>1, <2>2 DEF LiveInv
<1>12. RunsKept /\ \A i \in content' : raw'[i] \in RunIds /\ Succeeded(raw'[i])
    BY <1>1 DEF RunsKept, Succeeded, Exclusion, WorkInv
<1>13. \A q \in Providers :
          cadence[q] /\ ~cadence'[q] =>
             \A d \in Cycles : ~Owns(d, q)' /\ (Reading(d, q) => Live(cycle[d].read.run))
    BY <1>8, <1>10, <1>11
<1>14. \A q \in Providers :
          \/ context'[q].run \in {0, context[q].run}
          \/ /\ Token(q, context'[q].run) /\ Live(context'[q].run)
             /\ \A d \in Cycles : ~Owns(d, q)'
  <2>1. ASSUME NEW q \in Providers, context'[q] # context[q]
        PROVE  /\ Token(q, context'[q].run) /\ Live(context'[q].run)
               /\ \A d \in Cycles : ~Owns(d, q)'
    <3>1. q = p /\ context'[q].run = r
      BY <1>8, <1>9, <2>1
    <3>. QED BY <1>3, <1>4, <1>10, <3>1
  <2>. QED BY <2>1
<1>. QED BY <1>7, <1>12, <1>13, <1>14 DEF Quiet

-----------------------------------------------------------------------------
(* The execution of a run.                                                 *)

\* A cycle executes the run of its claim, or a new one: the run ends or counts an attempt.
Executes(c, p, r) ==
    /\ cycle[c].pc = "collect" /\ Head(cycle[c].todo) = p /\ cycle[c].held[p].claimed
    /\ cycle[c].held[p].run # 0 => r = cycle[c].held[p].run
    /\ cycle[c].held[p].run = 0 => runs[r].status = "absent"
    /\ OnlyMoves(c)
    /\ cycle'[c].pc \in {"process", "reschedule"} /\ cycle'[c].run = r
    /\ cycle'[c].kind = cycle[c].kind /\ cycle'[c].todo = cycle[c].todo
    /\ cycle'[c].held = cycle[c].held
    /\ UNCHANGED <<cadence, context, content>>
    /\ \A i \in content : raw'[i] = raw[i]
    /\ \A q \in RunIds : q # r => runs'[q] = runs[q]
    /\ runs'[r].status # "absent"
    /\ cycle'[c].pc = "process" <=> runs'[r].status = "succeeded"
    /\ runs'[r].status = "succeeded" => runs'[r].code = "none"

\* Nobody else has the run, but a reader that has lost the race for its provider.
LEMMA RunIsOwned ==
    ASSUME IInv, Exclusion, NEW c \in Cycles, NEW p \in Providers, NEW r \in RunIds,
           cycle[c].pc = "collect", cycle[c].held[p].claimed,
           cycle[c].held[p].run # 0 => r = cycle[c].held[p].run,
           cycle[c].held[p].run = 0 => runs[r].status = "absent"
    PROVE  /\ Waiting(c, p) /\ ~Succeeded(r)
           /\ \A q \in Providers : Token(q, r) => q = p /\ Owns(c, p) /\ cycle[c].held[p].run = r
           /\ \A q \in Providers : context[q].run # r
<1>1. /\ OwnersInv /\ TokensInv /\ LiveInv /\ ContextInv /\ WorkInv
      /\ r # 0
    BY RunTypes DEF Exclusion, IInv
<1>2. Waiting(c, p)
    BY DEF Waiting, Working, Past
<1>3. ~Succeeded(r)
    BY <1>1, <1>2 DEF LiveInv, Live, Succeeded
<1>4. ASSUME NEW q \in Providers, Token(q, r)
      PROVE  q = p /\ Owns(c, p) /\ cycle[c].held[p].run = r
  <2>1. cycle[c].held[p].run = r
    BY <1>1, <1>4 DEF TokensInv
  <2>2. Token(p, r)
    BY <2>1 DEF Token, Kept
  <2>3. cycle[c].kind # "single"
    BY <1>1, <2>1 DEF WorkInv
  <2>. QED BY <1>1, <1>2, <1>4, <2>1, <2>2, <2>3 DEF TokensInv, Owns
<1>5. ASSUME NEW q \in Providers, context[q].run = r PROVE FALSE
  <2>1. q = p /\ Owns(c, p) /\ cycle[c].held[p].run = r
    BY <1>4, <1>5 DEF Token
  <2>. QED BY <1>1, <1>2, <1>5, <2>1 DEF ContextInv
<1>. QED BY <1>2, <1>3, <1>4, <1>5

LEMMA ExecutesExclusion ==
    ASSUME IInv, IInv', Exclusion, NEW c \in Cycles, NEW p \in Providers, NEW r \in RunIds,
           Executes(c, p, r)
    PROVE  Exclusion'
<1>1. /\ OwnersInv /\ TokensInv /\ LiveInv /\ ContextInv /\ WorkInv /\ HoldersInv
      /\ r # 0
    BY RunTypes DEF Exclusion, IInv
<1>2. /\ Waiting(c, p) /\ ~Succeeded(r)
      /\ \A q \in Providers : Token(q, r) => q = p /\ Owns(c, p) /\ cycle[c].held[p].run = r
      /\ \A q \in Providers : context[q].run # r
    BY RunIsOwned DEF Executes
<1>3. /\ cycle[c].pc = "collect" /\ cycle'[c].run = r
      /\ \A d \in Cycles \ {c} : cycle'[d] = cycle[d]
      /\ \A d \in Cycles : cycle'[d].held = cycle[d].held /\ cycle'[d].kind = cycle[d].kind
      /\ cadence' = cadence /\ context' = context /\ content' = content
      /\ cycle'[c].pc = "process" <=> runs'[r].status = "succeeded"
    BY DEF Executes, OnlyMoves
<1>4. /\ \A q \in RunIds : q # r => runs'[q] = runs[q]
      /\ runs'[r].status # "absent"
      /\ runs'[r].status = "succeeded" => runs'[r].code = "none"
      /\ \A i \in content : raw'[i] = raw[i]
    BY DEF Executes
\* Only the provider that is executed is elsewhere.
<1>5. ASSUME NEW d \in Cycles, NEW q \in Providers
      PROVE  /\ Reading(d, q)' => Reading(d, q) /\ cycle'[d].read = cycle[d].read
             /\ Deleting(d, q)' => Deleting(d, q) /\ cycle'[d].read = cycle[d].read
             /\ Waiting(d, q)' => Waiting(d, q) /\ ~(d = c /\ q = p)
             /\ Working(d, q)' => \/ d = c /\ q = p
                                  \/ d # c /\ Working(d, q)
             /\ Past(d, q)' => Past(d, q)
             /\ Owns(d, q)' => Owns(d, q)
             /\ Working(c, p)' /\ (Working(d, q) => Working(d, q)')
  <2>1. CASE d = c
    <3>1. /\ cycle'[c].pc \in {"process", "reschedule"} /\ Head(cycle[c].todo) = p
          /\ cycle'[c].todo = cycle[c].todo /\ cycle'[c].held = cycle[c].held
          /\ cycle'[c].kind = cycle[c].kind
      BY DEF Executes
    <3>2. /\ ~Reading(c, q)' /\ ~Deleting(c, q)' /\ ~Past(c, q)'
          /\ Working(c, q)' <=> q = p
          /\ ~Deleting(c, q) /\ ~Working(c, q) /\ ~Past(c, q)
      BY <1>3, <3>1 DEF Reading, Deleting, Past, Working
    <3>3. Waiting(c, q)' => Waiting(c, q) /\ q # p
      BY <3>1, <3>2 DEF Waiting
    <3>4. Owns(c, q)' => Owns(c, q)
      BY <1>2, <3>1, <3>2, <3>3 DEF Owns
    <3>5. Working(c, p)'
      BY <3>1 DEF Working
    <3>. QED BY <2>1, <3>2, <3>3, <3>4, <3>5
  <2>2. CASE d # c
    <3>1. cycle'[d] = cycle[d]
      BY <1>3, <2>2
    <3>2. Working(c, p)'
      BY DEF Executes, Working
    <3>. QED BY <2>2, <3>1, <3>2 DEF Reading, Deleting, Waiting, Working, Past, Owns
  <2>. QED BY <2>1, <2>2
<1>6. OwnersInv'
    BY <1>1, <1>3, <1>5 DEF OwnersInv
<1>7. ASSUME NEW q \in Providers, NEW s \in RunIds, Token(q, s)'
      PROVE  Token(q, s) \/ (q = p /\ s = r)
  <2>1. CASE context'[q].run = s
    BY <1>3, <2>1 DEF Token
  <2>2. ASSUME NEW d \in Cycles, Kept(d, q, s)' PROVE Kept(d, q, s) \/ (q = p /\ s = r)
    <3>1. CASE (Reading(d, q)' \/ Deleting(d, q)') /\ cycle'[d].read.run = s
      BY <1>5, <3>1 DEF Kept
    <3>2. CASE cycle'[d].held[q].claimed /\ cycle'[d].held[q].run = s
      BY <1>3, <3>2 DEF Kept
    <3>3. CASE Owns(d, q)' /\ Working(d, q)' /\ cycle'[d].run = s
      BY <1>3, <1>5, <3>3 DEF Kept
    <3>. QED BY <2>2, <3>1, <3>2, <3>3 DEF Kept
  <2>. QED BY <1>7, <2>1, <2>2 DEF Token
<1>8. TokensInv'
  <2>1. ASSUME NEW q \in Providers, NEW u \in Providers, NEW s \in RunIds, Token(q, s)', Token(u, s)'
        PROVE  q = u
    BY <1>1, <1>2, <1>7, <2>1 DEF TokensInv
  <2>2. ASSUME NEW q \in Providers, NEW s \in RunIds, Token(q, s)' PROVE runs'[s].status # "absent"
    BY <1>1, <1>4, <1>7, <2>2 DEF TokensInv
  <2>. QED BY <2>1, <2>2 DEF TokensInv
\* What is still to be executed is not this run.
<1> DEFINE Lives(s) == s = 0 \/ runs'[s].status \notin {"absent", "succeeded"}
<1>9. \A s \in 0..MaxRuns : s # r => (Lives(s) <=> Live(s))
  <2>1. \A s \in 0..MaxRuns : s # 0 => s \in RunIds
    BY RunTypes DEF IInv
  <2>. QED BY <1>4, <2>1 DEF Live
<1>10. /\ \A q \in Providers : context[q].run \in 0..MaxRuns
       /\ \A d \in Cycles, q \in Providers : cycle[d].held[q].run \in 0..MaxRuns
       /\ \A d \in Cycles : cycle[d].read.run \in 0..MaxRuns
    BY RunTypes DEF IInv
<1>11. \A d \in Cycles, q \in Providers : Deleting(d, q) => Owns(d, q)
    BY DEF Owns, Deleting, IInv, StagesInv, ProvidersLeft
<1>12. LiveInv'
  <2>1. \A q \in Providers : Lives(context'[q].run)
    BY <1>1, <1>2, <1>3, <1>9, <1>10 DEF LiveInv
  <2>2. ASSUME NEW d \in Cycles, NEW q \in Providers, Deleting(d, q)' PROVE Lives(cycle'[d].read.run)
    <3>1. Deleting(d, q) /\ cycle'[d].read = cycle[d].read /\ Live(cycle[d].read.run)
      BY <1>1, <1>5, <2>2 DEF LiveInv
    <3>2. cycle[d].read.run # r
      <4> SUFFICES ASSUME cycle[d].read.run = r PROVE FALSE
        OBVIOUS
      <4>1. q = p /\ Owns(c, p)
        BY <1>2, <3>1 DEF Token, Kept
      <4>2. d = c
        BY <1>1, <1>11, <3>1, <4>1 DEF OwnersInv
      <4>. QED BY <1>3, <3>1, <4>2 DEF Deleting
    <3>. QED BY <1>9, <1>10, <3>1, <3>2
  <2>3. ASSUME NEW d \in Cycles, NEW q \in Providers, Waiting(d, q)' PROVE Lives(cycle'[d].held[q].run)
    <3>1. /\ Waiting(d, q) /\ ~(d = c /\ q = p) /\ cycle'[d].held = cycle[d].held
          /\ Live(cycle[d].held[q].run)
      BY <1>1, <1>3, <1>5, <2>3 DEF LiveInv
    <3>2. cycle[d].held[q].run # r
      <4> SUFFICES ASSUME cycle[d].held[q].run = r PROVE FALSE
        OBVIOUS
      <4>1. cycle[d].held[q].claimed
        BY <3>1 DEF Waiting
      <4>2. q = p /\ Owns(c, p)
        BY <1>2, <4>1 DEF Token, Kept
      <4>3. cycle[d].kind # "single"
        BY <1>1, <4>1 DEF WorkInv
      <4>4. Owns(d, q)
        BY <3>1, <4>3 DEF Owns
      <4>. QED BY <1>1, <3>1, <4>2, <4>4 DEF OwnersInv
    <3>. QED BY <1>9, <1>10, <3>1, <3>2
  <2>4. ASSUME NEW d \in Cycles, NEW q \in Providers, Reading(d, q)', ~cadence'[q]
        PROVE  Lives(cycle'[d].read.run)
    <3>1. Reading(d, q) /\ cycle'[d].read = cycle[d].read /\ ~cadence[q] /\ Live(cycle[d].read.run)
      BY <1>1, <1>3, <1>5, <2>4 DEF LiveInv
    <3>2. cycle[d].read.run # r
      <4> SUFFICES ASSUME cycle[d].read.run = r PROVE FALSE
        OBVIOUS
      <4>1. q = p /\ Owns(c, p)
        BY <1>2, <3>1 DEF Token, Kept
      <4>. QED BY <1>1, <3>1, <4>1 DEF OwnersInv
    <3>. QED BY <1>9, <1>10, <3>1, <3>2
  <2>5. ASSUME NEW d \in Cycles, NEW e \in Cycles, NEW q \in Providers,
               Reading(d, q)', Owns(e, q)', ~Lives(cycle'[d].read.run)
        PROVE  Working(e, q)' /\ runs'[cycle'[e].run].status = "succeeded"
    <3>1. Reading(d, q) /\ cycle'[d].read = cycle[d].read /\ Owns(e, q)
      BY <1>5, <2>5
    <3>2. CASE cycle[d].read.run = r
      <4>1. q = p /\ Owns(c, p)
        BY <1>2, <3>1, <3>2 DEF Token, Kept
      <4>2. e = c
        BY <1>1, <3>1, <4>1 DEF OwnersInv
      <4>3. runs'[r].status = "succeeded"
        BY <1>1, <1>4, <2>5, <3>1, <3>2
      <4>. QED BY <1>3, <1>5, <4>1, <4>2, <4>3
    <3>3. CASE cycle[d].read.run # r
      <4>1. ~Live(cycle[d].read.run)
        BY <1>9, <1>10, <2>5, <3>1, <3>3
      <4>2. Working(e, q) /\ Succeeded(cycle[e].run)
        BY <1>1, <3>1, <4>1 DEF LiveInv
      <4>3. e # c /\ cycle[e].run \in RunIds
        BY <1>3, <4>2 DEF Working, IInv, StagesInv, Executing
      <4>4. cycle[e].run # r
        BY <1>2, <4>2
      <4>. QED BY <1>3, <1>4, <1>5, <4>2, <4>3, <4>4 DEF Succeeded
    <3>. QED BY <3>2, <3>3
  <2>. QED BY <2>1, <2>2, <2>3, <2>4, <2>5 DEF LiveInv, Live, Succeeded
<1>13. ContextInv'
  <2>1. ASSUME NEW d \in Cycles, NEW q \in Providers, Owns(d, q)', Waiting(d, q)', cycle'[d].held[q].run # 0
        PROVE  context'[q].run # cycle'[d].held[q].run
    BY <1>1, <1>3, <1>5, <2>1 DEF ContextInv
  <2>2. ASSUME NEW d \in Cycles, NEW q \in Providers, Owns(d, q)', Working(d, q)'
        PROVE  context'[q].run # cycle'[d].run
    BY <1>1, <1>2, <1>3, <1>5, <2>2 DEF ContextInv
  <2>. QED BY <2>1, <2>2 DEF ContextInv
<1>14. WorkInv'
  <2>1. ASSUME NEW d \in Cycles, NEW q \in Providers, Working(d, q)'
        PROVE  /\ cycle'[d].held[q].claimed
               /\ cycle'[d].held[q].run # 0 => cycle'[d].run = cycle'[d].held[q].run
               /\ runs'[cycle'[d].run].status # "absent"
               /\ cycle'[d].pc \in {"process", "persist"} => runs'[cycle'[d].run].status = "succeeded"
    <3>1. CASE d = c /\ q = p
      <4>1. /\ cycle[c].held[p].claimed
            /\ cycle[c].held[p].run # 0 => r = cycle[c].held[p].run
            /\ cycle'[c].pc \in {"process", "reschedule"}
        BY DEF Executes
      <4>. QED BY <1>3, <1>4, <3>1, <4>1
    <3>2. CASE ~(d = c /\ q = p)
      <4>1. cycle'[d] = cycle[d] /\ Working(d, q)
        BY <1>3, <1>5, <2>1, <3>2
      <4>2. /\ cycle[d].held[q].claimed
            /\ cycle[d].held[q].run # 0 => cycle[d].run = cycle[d].held[q].run
            /\ runs[cycle[d].run].status # "absent"
            /\ cycle[d].pc \in {"process", "persist"} => Succeeded(cycle[d].run)
        BY <1>1, <4>1 DEF WorkInv
      <4>3. cycle[d].run \in RunIds
        BY <4>1 DEF IInv, StagesInv, Executing, Working
      <4>. QED BY <1>2, <1>4, <4>1, <4>2, <4>3 DEF Succeeded
    <3>. QED BY <3>1, <3>2
  <2>2. ASSUME NEW d \in Cycles, NEW q \in Providers,
               Past(d, q)', cycle'[d].held[q].claimed, cycle'[d].held[q].run # 0
        PROVE  runs'[cycle'[d].held[q].run].status = "succeeded"
    <3>1. Succeeded(cycle[d].held[q].run) /\ cycle'[d].held = cycle[d].held
      BY <1>1, <1>3, <1>5, <2>2 DEF WorkInv
    <3>2. cycle[d].held[q].run \in RunIds
      BY <1>10, <2>2, <3>1, RunTypes DEF IInv
    <3>. QED BY <1>2, <1>4, <3>1, <3>2 DEF Succeeded
  <2>3. ASSUME NEW d \in Cycles, NEW q \in Providers, cycle'[d].held[q].claimed, cycle'[d].kind = "single"
        PROVE  cycle'[d].held[q].run = 0
    BY <1>1, <1>3, <2>3 DEF WorkInv
  <2>4. \A s \in RunIds : runs'[s].status = "succeeded" => runs'[s].code = "none"
    BY <1>1, <1>4 DEF WorkInv, Succeeded
  <2>5. \A i \in content' : raw'[i] \in RunIds /\ runs'[raw'[i]].status = "succeeded"
    BY <1>1, <1>2, <1>3, <1>4 DEF WorkInv, Succeeded
  <2>. QED BY <2>1, <2>2, <2>3, <2>4, <2>5 DEF WorkInv, Succeeded
<1>15. HoldersInv'
    BY <1>1, <1>3 DEF HoldersInv
<1>. QED BY <1>6, <1>8, <1>12, <1>13, <1>14, <1>15 DEF Exclusion

\* The four ends of an execution.
LEMMA CollectExecutes ==
    ASSUME IInv, IInv', Exclusion, NEW c \in Cycles,
           CollectSucceeds(c) \/ CollectRetries(c) \/ CollectFails(c)
    PROVE  Exclusion'
<1> DEFINE claim == cycle[c].held[Provider(c)]
<1>1. /\ cycle[c].pc = "collect" /\ claim.claimed /\ cycle[c].todo # <<>> /\ cycle[c] \in Cycle
      /\ UNCHANGED <<cadence, context, content>>
    BY DEF CollectSucceeds, CollectRetries, CollectFails, IInv, TypeOK, StagesInv, redis
<1>2. PICK p \in Providers : p = Provider(c)
    BY <1>1, ProviderLeft DEF Provider, Cycle
<1>3. PICK r \in RunOf(claim), row \in Run, items \in SUBSET Items,
           step \in {"process", "reschedule"} :
              /\ r \in RunIds
              /\ Collected(c, r, row, items, step)
              /\ \A i \in items : raw[i] = 0
              /\ step = "process" => row.status = "succeeded" /\ row.code = "none"
              /\ row.status # "absent"
              /\ step = "reschedule" /\ row.status = "succeeded" => runs[r].status = "succeeded"
    BY CollectEffect
<1>4. /\ cycle[c].held[p].claimed
      /\ cycle[c].held[p].run # 0 => r = cycle[c].held[p].run
      /\ cycle[c].held[p].run = 0 => runs[r].status = "absent"
  <2>1. r \in RunIds /\ r <= r
    BY <1>3 DEF RunIds
  <2>2. cycle[c].held[p].run # 0 => r \in {cycle[c].held[p].run}
    BY <1>2, <1>3 DEF RunOf
  <2>3. cycle[c].held[p].run = 0 =>
           r \in {s \in RunIds : \A q \in RunIds : runs[q].status = "absent" <=> q >= s}
    BY <1>2, <1>3 DEF RunOf
  <2>. QED BY <1>1, <1>2, <2>1, <2>2, <2>3
<1>5. ~Succeeded(r)
    BY <1>1, <1>3, <1>4, RunIsOwned
<1>6. /\ cycle' \in [Cycles -> Cycle]
      /\ \A d \in Cycles \ {c} : cycle'[d] = cycle[d]
      /\ cycle'[c].pc = step /\ cycle'[c].kind = cycle[c].kind /\ cycle'[c].todo = cycle[c].todo
      /\ cycle'[c].held = cycle[c].held /\ cycle'[c].run = r
    BY <1>1, <1>3, CollectedShape
<1>7. runs' = [runs EXCEPT ![r] = row] /\ raw' = [i \in Items |-> IF i \in items THEN r ELSE raw[i]]
    BY <1>3 DEF Collected
<1>8. runs'[r] = row /\ \A q \in RunIds : q # r => runs'[q] = runs[q]
    BY <1>3, <1>7 DEF IInv, TypeOK
<1>9. \A i \in content : raw'[i] = raw[i]
  <2>1. \A i \in content : i \in Items /\ raw[i] # 0
    BY RunTypes DEF Exclusion, WorkInv, IInv, TypeOK
  <2>. QED BY <1>3, <1>7, <2>1
<1>10. step = "process" <=> row.status = "succeeded"
    BY <1>3, <1>5 DEF Succeeded
<1>11. row.status = "succeeded" => row.code = "none"
    BY <1>3, <1>10
<1>12. OnlyMoves(c)
    BY <1>6 DEF OnlyMoves
<1> HIDE DEF claim
<1>13. Executes(c, p, r)
    BY <1>1, <1>2, <1>3, <1>4, <1>6, <1>8, <1>9, <1>10, <1>11, <1>12 DEF Executes, Provider
<1>. QED BY <1>3, <1>13, ExecutesExclusion

LEMMA RefusedExclusion ==
    ASSUME IInv, IInv', Exclusion, NEW c \in Cycles, CollectRefused(c)
    PROVE  Exclusion'
<1>1. /\ cycle[c].pc = "collect" /\ cycle[c].held[Provider(c)].claimed
      /\ runs' = runs /\ raw' = raw /\ UNCHANGED <<cadence, context, content>>
      /\ cycle[c].todo # <<>> /\ cycle[c] \in Cycle
    BY DEF CollectRefused, IInv, TypeOK, StagesInv, redis
<1>2. PICK p \in Providers : p = Provider(c)
    BY <1>1, ProviderLeft DEF Provider, Cycle
<1>3. CASE Rests(c)
  <2>1. Quiet
    BY <1>1, <1>3, StillAside, RestsQuiet
  <2>. QED BY <2>1, QuietExclusion
<1>4. CASE /\ OnlyMoves(c) /\ cycle'[c].pc = "reschedule" /\ cycle'[c].kind = cycle[c].kind
           /\ cycle'[c].todo = cycle[c].todo /\ cycle'[c].held = cycle[c].held
           /\ cycle[c].held[Provider(c)].run # 0
           /\ cycle'[c].run = cycle[c].held[Provider(c)].run
  <2>1. cycle[c].held[p].run # 0 /\ cycle[c].held[p].run \in RunIds
    BY <1>2, <1>4, RunTypes DEF IInv
  <2>2. PICK r \in RunIds : r = cycle[c].held[p].run
    BY <2>1
  <2>3. Waiting(c, p)
    BY <1>1, <1>2 DEF Waiting, Working, Past
  <2>4. runs[r].status \notin {"absent", "succeeded"}
    BY <2>1, <2>2, <2>3 DEF Exclusion, LiveInv, Live
  <2>5. Executes(c, p, r)
    BY <1>1, <1>2, <1>4, <2>1, <2>2, <2>4 DEF Executes, Provider
  <2>. QED BY <2>5, ExecutesExclusion
<1>. QED BY <1>3, <1>4, RefusedMoves

\* The end of an execution without PROCESSED.
LEMMA RescheduleQuiet ==
    ASSUME IInv, Exclusion, NEW c \in Cycles, Reschedule(c)
    PROVE  Quiet
<1>1. /\ cycle[c].pc = "reschedule" /\ runs' = runs /\ raw' = raw /\ content' = content
      /\ cycle[c].todo # <<>> /\ cycle[c] \in Cycle /\ cycle[c].run \in RunIds
    BY DEF Reschedule, IInv, TypeOK, StagesInv, Executing
<1>2. CASE cycle[c].kind = "multi" /\ runs[cycle[c].run].code = "retryable"
  <2>1. Provider(c) \in Providers
    BY <1>1, ProviderLeft DEF Provider, Cycle
  <2>. QED BY <1>1, <1>2, <2>1, ReturnQuiet
<1>3. CASE ~(cycle[c].kind = "multi" /\ runs[cycle[c].run].code = "retryable")
  <2>1. cadence' = cadence /\ context' = context
    BY <1>3 DEF Reschedule, redis
  <2>2. Aside
    BY <1>1, <2>1, StillAside
  <2>3. CASE Goto(c, Done(c))
    BY <1>1, <2>2, <2>3, DoneRests, RestsQuiet DEF IInv
  <2>4. CASE ~Goto(c, Done(c))
    <3>1. content \cap Of(cycle[c].run) # {} /\ Goto(c, At(c, "new"))
      BY <2>4 DEF Reschedule, Unfinished
    <3>2. Succeeded(cycle[c].run)
      BY <3>1 DEF Exclusion, WorkInv, Of
    <3>3. GoesOn(c, "new")
      BY <3>1, AtGoesOn DEF IInv
    <3>. QED BY <1>1, <2>2, <3>2, <3>3, OnwardQuiet
  <2>. QED BY <2>3, <2>4
<1>. QED BY <1>2, <1>3

LEMMA PersistQuiet ==
    ASSUME IInv, Exclusion, NEW c \in Cycles, PersistFeed(c)
    PROVE  Quiet
<1>1. /\ cycle[c].pc = "persist" /\ runs' = runs /\ raw' = raw /\ cadence' = cadence
      /\ context' = context /\ cycle[c].todo # <<>> /\ cycle[c] \in Cycle
      /\ cycle[c].run \in RunIds
      /\ content' = content \cup Displayed(c)
      /\ Goto(c, At(c, "reschedule")) \/ Goto(c, At(c, "new"))
    BY DEF PersistFeed, redis, IInv, TypeOK, StagesInv, Executing
<1>2. Provider(c) \in Providers /\ Working(c, Provider(c))
    BY <1>1, ProviderLeft DEF Provider, Cycle, Working
<1>3. Succeeded(cycle[c].run)
    BY <1>1, <1>2 DEF Exclusion, WorkInv
<1>4. \A i \in content' : raw'[i] \in RunIds /\ Succeeded(raw'[i])
  <2>1. \A i \in Displayed(c) : raw[i] = cycle[c].run
    BY DEF Displayed, Bound, Of
  <2>. QED BY <1>1, <1>3, <2>1 DEF Exclusion, WorkInv
<1>5. Aside
    BY <1>1, <1>4 DEF Aside, RunsKept, Succeeded
<1>6. GoesOn(c, "reschedule") \/ GoesOn(c, "new")
    BY <1>1, AtGoesOn DEF IInv
<1>. QED BY <1>1, <1>3, <1>5, <1>6, OnwardQuiet

\* While no cadence runs out under a cycle, a step keeps executions apart.
LEMMA StepExclusion ==
    ASSUME IInv, IInv', Exclusion, overruns = 0, overruns' = 0, [Next]_vars
    PROVE  Exclusion'
<1> SUFFICES ASSUME ~Exclusion' PROVE FALSE
    OBVIOUS
<1>1. ~Quiet
    BY QuietExclusion
<1>2. CASE UNCHANGED vars \/ Toggle \/ (\E p \in Providers : GateExpires(p)) \/ (\E i \in Items : ClaimAges(i))
  <2>1. /\ runs' = runs /\ cadence' = cadence /\ context' = context /\ raw' = raw
        /\ content' = content /\ cycle' = cycle
    BY <1>2 DEF vars, Toggle, GateExpires, ClaimAges, redis
  <2>. QED BY <1>1, <2>1, StillAside, StillQuiet
<1>3. ASSUME NEW p \in Providers, CadenceExpires(p) PROVE FALSE
    BY <1>1, <1>3, ExpiresQuiet
<1>4. ASSUME NEW r \in RunIds, RecoverStale(r) PROVE FALSE
  <2>1. /\ cadence' = cadence /\ context' = context /\ raw' = raw /\ content' = content /\ cycle' = cycle
        /\ runs[r].status = "running"
        /\ runs' = [runs EXCEPT ![r].status = "failed", ![r].code = "final"]
    BY <1>4 DEF RecoverStale, redis
  <2>2. runs \in [RunIds -> Run]
    BY DEF IInv, TypeOK
  <2>3. /\ runs'[r].status = "failed"
        /\ \A q \in RunIds : q # r => runs'[q] = runs[q]
    BY <2>1, <2>2 DEF Run
  <2>4. RunsKept
    BY <2>1, <2>3 DEF RunsKept, Succeeded
  <2>5. Aside
    BY <2>1, <2>4 DEF Aside, Exclusion, WorkInv
  <2>. QED BY <1>1, <2>1, <2>5, StillQuiet
<1>5. ASSUME NEW c \in Cycles, StartMulti(c) \/ StartSingle(c) \/ Stop(c) PROVE FALSE
  <2>1. Rests(c)
    BY <1>5, StartRests, IdleRests DEF Stop, IInv
  <2>2. Aside
    BY <1>5, StillAside DEF StartMulti, StartSingle, Stop, redis
  <2>. QED BY <1>1, <2>1, <2>2, RestsQuiet
<1>6. ASSUME NEW c \in Cycles, PipelineFails(c) \/ NothingToExecute(c) PROVE FALSE
  <2>1. cycle[c].todo # <<>>
    BY <1>6 DEF PipelineFails, NothingToExecute, IInv, StagesInv, Executing
  <2>2. Aside
    BY <1>6, StillAside DEF PipelineFails, NothingToExecute, redis
  <2>3. \/ Goto(c, Done(c))
        \/ cycle[c].pc = "persist" /\ Goto(c, At(c, "reschedule"))
    BY <1>6 DEF PipelineFails, NothingToExecute
  <2>4. Rests(c) \/ (cycle[c].pc = "persist" /\ GoesOn(c, "reschedule"))
    BY <2>1, <2>3, DoneRests, AtGoesOn DEF IInv
  <2>. QED BY <1>1, <2>2, <2>4, RestsQuiet, OnwardQuiet
<1>7. ASSUME NEW c \in Cycles, ClaimRead(c) \/ ClaimSet(c) \/ ClaimDelete(c) PROVE FALSE
    BY <1>1, <1>7, ReadQuiet, SetQuiet, DeleteQuiet
<1>8. ASSUME NEW c \in Cycles, CollectSucceeds(c) \/ CollectRetries(c) \/ CollectFails(c) PROVE FALSE
    BY <1>8, CollectExecutes
<1>9. ASSUME NEW c \in Cycles, CollectRefused(c) PROVE FALSE
    BY <1>9, RefusedExclusion
<1>10. ASSUME NEW c \in Cycles, Reschedule(c) \/ PersistFeed(c) PROVE FALSE
    BY <1>1, <1>10, RescheduleQuiet, PersistQuiet
<1>11. ASSUME NEW c \in Cycles, ProcessRun(c) PROVE FALSE
  <2>1. cycle[c].pc = "process" /\ (Goto(c, At(c, "persist")) \/ Goto(c, At(c, "reschedule")))
    BY <1>11 DEF ProcessRun
  <2>2. Aside
    BY <1>11, StillAside DEF ProcessRun, redis
  <2>3. GoesOn(c, "persist") \/ GoesOn(c, "reschedule")
    BY <2>1, AtGoesOn DEF IInv
  <2>. QED BY <1>1, <2>1, <2>2, <2>3, OnwardQuiet
<1>12. ASSUME NEW c \in Cycles,
              ClaimNew(c) \/ KeepPending(c) \/ ClaimRetries(c) \/ Send(c) \/ Mark(c)
       PROVE  FALSE
  <2>1. Aside
    BY <1>12, StillAside DEF ClaimNew, KeepPending, ClaimRetries, Send, Mark, redis
  <2>2. \/ Rests(c)
        \/ cycle[c].pc \in {"new", "retries"} /\ GoesOn(c, "send")
        \/ cycle[c].pc = "send" /\ GoesOn(c, "mark")
    BY <1>12, NotifyMoves
  <2>. QED BY <1>1, <2>1, <2>2, RestsQuiet, OnwardQuiet
<1>. QED BY <1>2, <1>3, <1>4, <1>5, <1>6, <1>7, <1>8, <1>9, <1>10, <1>11, <1>12 DEF Next, CycleStep

\* The overruns are only counted up.
LEMMA OverrunsGrow ==
    ASSUME IInv, IInv', [Next]_vars, overruns' = 0
    PROVE  overruns = 0
<1>1. overruns \in Nat
    BY DEF IInv, TypeOK
<1>2. overruns' = overruns \/ overruns' = overruns + 1
    BY ZenonT(60) DEF Next, CycleStep, vars, Toggle, ClaimAges, CadenceExpires, GateExpires, RecoverStale,
           StartMulti, StartSingle, Stop, Fault, PipelineFails, NothingToExecute, ClaimRead, ClaimSet,
           ClaimDelete, CollectSucceeds, CollectRetries, CollectFails, CollectRefused, Reschedule,
           ProcessRun, PersistFeed, ClaimNew, KeepPending, ClaimRetries, Send, Mark
<1>. QED BY <1>1, <1>2

\* RetriesAreExclusive, for every number of cycles, providers, runs and retries: as long as
\* no cadence has run out under a cycle, a run that has succeeded is not executed again and
\* no two cycles hold one run.  The cadence is the lock of a provider's runs; the retry
\* context hands a run from one owner to the next; a cycle that has read the context and
\* not yet set the cadence loses the race before its copy can be stale.
THEOREM OneOwnerPerRun == Spec => []RetriesAreExclusive
<1> DEFINE Apart == overruns = 0 => Exclusion
<1>1. Init => IInv /\ Apart
    BY InitIInv, InitExclusion
<1>2. IInv /\ Apart /\ [Next]_vars => (IInv /\ Apart)'
  <2> SUFFICES ASSUME IInv, Apart, [Next]_vars PROVE (IInv /\ Apart)'
    OBVIOUS
  <2>1. IInv'
    BY StepIInv
  <2>2. ASSUME overruns' = 0 PROVE Exclusion'
    BY <2>1, <2>2, OverrunsGrow, StepExclusion
  <2>. QED BY <2>1, <2>2
<1>3. IInv /\ Apart => RetriesAreExclusive
    BY ExclusionSuffices DEF RetriesAreExclusive
<1> HIDE DEF Apart
<1>. QED BY <1>1, <1>2, <1>3, PTL DEF Spec

=============================================================================

--------------------------- MODULE SidecarProofs ---------------------------
(***************************************************************************)
(* Proofs about Engines and Sidecar, for every build, machine and model a  *)
(* process may be started on, and any number of processes and nodes.       *)
(*                                                                         *)
(* BestEngine is not inductive: it speaks of the engine a search ended     *)
(* with. SearchInv keeps what the search has ruled out so far.             *)
(* ForeignRowsWarned is not inductive either: it speaks of rows that are   *)
(* written, and a process may write one of an engine whose record is long  *)
(* gone. RecordInv keeps that every writer's engine is accounted for.      *)
(*                                                                         *)
(* MCSidecar puts the processes beside a query memo; what is proved of     *)
(* each holds of that composition, whatever the constants.                 *)
(***************************************************************************)
EXTENDS MCSidecar, QueryMemoProofs, TLAPS, WellFoundedInduction

\* The names that are no backend, in the form the proofs use.
LEMMA Names ==
  /\ "declined" \notin Backends /\ "failed" \notin Backends /\ None \notin Backends
  /\ Tract \notin Providers /\ OrtCpu \notin Providers
BY EnginesAssumption DEF Backends, Tract, OrtCpu, None

-----------------------------------------------------------------------------
(* The choice of an engine.                                                *)

\* The cascade builds on the first provider that loads, and declines when none does.
LEMMA CascadeFirst ==
  ASSUME NEW h \in Host
  PROVE  \/ /\ Cascade(h) = "declined"
            /\ \A i \in DOMAIN h.eps : ~Loads(h, h.eps[i])
         \/ \E i \in DOMAIN h.eps : /\ Cascade(h) = h.eps[i] /\ Loads(h, h.eps[i])
                                    /\ \A j \in 1..(i-1) : ~Loads(h, h.eps[j])
<1>. DEFINE confirmed == {i \in DOMAIN h.eps : Loads(h, h.eps[i])}
<1>0. h.eps \in Seq(Providers) /\ DOMAIN h.eps = 1..Len(h.eps) /\ Len(h.eps) \in Nat
  BY DEF Host
<1>1. CASE confirmed = {}
  BY <1>1 DEF Cascade
<1>2. CASE confirmed # {}
  <2>1. PICK i \in confirmed : \A j \in confirmed : ~ (<<j, i>> \in OpToRel(<, Nat))
    <3>. confirmed \subseteq Nat
      BY <1>0
    <3>. HIDE DEF OpToRel, confirmed
    <3>. QED  BY <1>2, NatLessThanWellFounded, WFMin
  <2>2. \A j \in confirmed : i <= j
    <3>. SUFFICES ASSUME NEW j \in confirmed PROVE ~ j < i
      BY <1>0
    <3>1. j \in Nat /\ i \in Nat
      BY <1>0
    <3>2. <<j, i>> \in Nat \X Nat /\ <<j, i>>[1] = j /\ <<j, i>>[2] = i
      BY <3>1
    <3>. QED  BY <2>1, <3>2 DEF OpToRel
  <2>. DEFINE k == CHOOSE x \in confirmed : \A j \in confirmed : x <= j
  <2>3. k \in confirmed /\ \A j \in confirmed : k <= j
    BY <2>2
  <2>4. Cascade(h) = h.eps[k]
    BY <1>2 DEF Cascade
  <2>5. k \in DOMAIN h.eps /\ Loads(h, h.eps[k])
    BY <2>3
  <2>6. ASSUME NEW j \in 1..(k-1) PROVE ~Loads(h, h.eps[j])
    <3>. HIDE DEF k
    <3>1. k \in 1..Len(h.eps)
      BY <1>0, <2>5
    <3>2. j \in DOMAIN h.eps /\ ~(k <= j)
      BY <1>0, <3>1
    <3>. QED  BY <2>3, <3>2
  <2>. QED  BY <2>4, <2>5, <2>6
<1>. QED  BY <1>1, <1>2

\* The sort puts the most preferred of the factories that are left first.
LEMMA NextFactoryIsMost ==
  ASSUME NEW h, NEW left, left \subseteq Factory, left # {}
  PROVE  /\ NextFactory(h, left) \in left
         /\ \A g \in left : EffectivePreference(h, g) <= EffectivePreference(h, NextFactory(h, left))
<1>1. \E f \in left : \A g \in left : EffectivePreference(h, g) <= EffectivePreference(h, f)
  <2>1. CASE "tract" \in left /\ (PrefersTract(h) \/ "ort-accelerated" \notin left)
    <3>1. \A g \in left : EffectivePreference(h, g) <= EffectivePreference(h, "tract")
      BY <2>1 DEF EffectivePreference, Preference, Factory
    <3>. QED  BY <2>1, <3>1
  <2>2. CASE "ort-accelerated" \in left /\ ("tract" \notin left \/ ~PrefersTract(h))
    <3>1. \A g \in left : EffectivePreference(h, g) <= EffectivePreference(h, "ort-accelerated")
      BY <2>2 DEF EffectivePreference, Preference, Factory
    <3>. QED  BY <2>2, <3>1
  <2>3. CASE left = {"ort-cpu"}
    BY <2>3 DEF EffectivePreference, Preference
  <2>. QED  BY <2>1, <2>2, <2>3 DEF Factory
<1>. QED  BY <1>1 DEF NextFactory

\* An engine that is usable is built by the factory of a candidate.
FactoryOf(b) == CASE b = Tract -> "tract" [] b = OrtCpu -> "ort-cpu" [] OTHER -> "ort-accelerated"

LEMMA UsableIsBuilt ==
  ASSUME NEW h \in Host, NEW c \in Usable(h)
  PROVE  FactoryOf(c) \in Candidates(h) /\ TryBuild(h, FactoryOf(c)) \in Backends
<1>1. c \in Backends /\ Permitted(h, c) /\ Loads(h, c)
  BY DEF Usable
<1>2. CASE c = Tract
  BY <1>1, <1>2, Names DEF FactoryOf, Permitted, Candidates, Registry, ApplyEngineOverride,
     Compiled, CanRun, TryBuild, Tract, OrtCpu, Backends
<1>3. CASE c = OrtCpu
  BY <1>1, <1>3, Names DEF FactoryOf, Permitted, Candidates, Registry, ApplyEngineOverride,
     Compiled, CanRun, TryBuild, Tract, OrtCpu, Backends
<1>4. CASE c \notin {Tract, OrtCpu}
  <2>1. PICK i \in DOMAIN h.eps : h.eps[i] = c
    BY <1>1, <1>4 DEF Permitted
  <2>2. h.eps # << >> /\ h.kill # "tract" /\ ~ForcesTractOnly(h)
    BY <1>1, <1>4, <2>1 DEF Permitted
  <2>3. FactoryOf(c) = "ort-accelerated"
    BY <1>4 DEF FactoryOf
  <2>4. "ort-accelerated" \in Candidates(h)
    BY <2>2 DEF Candidates, Registry, ApplyEngineOverride, Compiled, CanRun
  <2>5. Cascade(h) \in Backends
    <3>1. h.eps \in Seq(Providers)
      BY DEF Host
    <3>2. \A j \in DOMAIN h.eps : h.eps[j] \in Providers
      BY <3>1
    <3>. QED  BY <1>1, <2>1, <3>2, CascadeFirst DEF Backends
  <2>. QED  BY <2>3, <2>4, <2>5 DEF TryBuild
<1>. QED  BY <1>2, <1>3, <1>4

\* What a candidate builds is usable, and in the order of the cascade.
LEMMA BuiltIsUsable ==
  ASSUME NEW h \in Host, NEW f \in Candidates(h), TryBuild(h, f) \in Backends
  PROVE  LET b == TryBuild(h, f)
         IN  /\ b \in Usable(h) /\ FactoryOf(b) = f
             /\ b \in Providers => \E i \in DOMAIN h.eps :
                  /\ h.eps[i] = b
                  /\ \A j \in 1..(i-1) : h.eps[j] \notin Usable(h)
<1>0. f \in Factory
  BY DEF Candidates, Registry, ApplyEngineOverride, Compiled, Factory
<1>1. CASE f = "tract"
  <2>1. TryBuild(h, f) = Tract /\ Loads(h, Tract)
    BY <1>1, Names DEF TryBuild
  <2>2. h.family \in TractFamilies
    BY <1>1 DEF Candidates, CanRun
  <2>. QED  BY <1>1, <2>1, <2>2, Names DEF Usable, Permitted, FactoryOf, Backends, Tract, OrtCpu
<1>2. CASE f = "ort-cpu"
  <2>1. TryBuild(h, f) = OrtCpu /\ Loads(h, OrtCpu)
    BY <1>2, Names DEF TryBuild
  <2>2. h.ort /\ h.kill # "tract" /\ ~ForcesTractOnly(h)
    BY <1>2 DEF Candidates, Registry, ApplyEngineOverride, Compiled
  <2>. QED  BY <1>2, <2>1, <2>2, Names DEF Usable, Permitted, FactoryOf, Backends, Tract, OrtCpu
<1>3. CASE f = "ort-accelerated"
  <2>1. TryBuild(h, f) = Cascade(h)
    BY <1>3 DEF TryBuild
  <2>2. PICK i \in DOMAIN h.eps : /\ Cascade(h) = h.eps[i] /\ Loads(h, h.eps[i])
                                  /\ \A j \in 1..(i-1) : ~Loads(h, h.eps[j])
    BY <2>1, CascadeFirst, Names
  <2>3. h.eps[i] \in Providers
    BY DEF Host
  <2>4. h.kill # "tract" /\ ~ForcesTractOnly(h)
    BY <1>3 DEF Candidates, Registry, ApplyEngineOverride, Compiled
  <2>5. h.eps[i] # Tract /\ h.eps[i] # OrtCpu /\ h.eps[i] \in Backends
    BY <2>3, Names DEF Backends
  <2>6. Permitted(h, h.eps[i])
    BY <2>4, <2>5 DEF Permitted
  <2>. QED  BY <1>3, <2>1, <2>2, <2>5, <2>6 DEF Usable, FactoryOf
<1>. QED  BY <1>0, <1>1, <1>2, <1>3 DEF Factory

\* The tiers of the reference order usable engines as the preferences of their
\* factories do.
LEMMA TierIsPreference ==
  ASSUME NEW h \in Host, NEW b \in Backends, NEW c \in Backends,
         EffectivePreference(h, FactoryOf(c)) <= EffectivePreference(h, FactoryOf(b))
  PROVE  Tier(h, b) <= Tier(h, c)
<1>. USE DEF Tier, EffectivePreference, Preference, FactoryOf, PrefersTract, Backends, Tract, OrtCpu
<1>1. CASE b = Tract
  BY <1>1, Names
<1>2. CASE b = OrtCpu
  BY <1>2, Names
<1>3. CASE b \in Providers
  BY <1>3, Names
<1>. QED  BY <1>1, <1>2, <1>3

\* Where the search stands: what it has taken from the list did not build.
Searching(h, left) ==
  /\ left \subseteq Candidates(h)
  /\ \A f \in Candidates(h) \ left : TryBuild(h, f) \notin Backends

CandidatesAreFactories ==
  \A h : Candidates(h) \subseteq Factory

LEMMA CandidatesTyped == CandidatesAreFactories
BY DEF CandidatesAreFactories, Candidates, Registry, ApplyEngineOverride, Compiled, Factory

\* The first engine that builds is the best of those that are usable.
LEMMA FoundIsBest ==
  ASSUME NEW h \in Host, NEW left, Searching(h, left), left # {},
         TryBuild(h, NextFactory(h, left)) \in Backends
  PROVE  Best(h, TryBuild(h, NextFactory(h, left)))
<1>. DEFINE f == NextFactory(h, left)
            b == TryBuild(h, f)
<1>1. left \subseteq Factory
  BY CandidatesTyped DEF Searching, CandidatesAreFactories
<1>2. f \in left /\ \A g \in left : EffectivePreference(h, g) <= EffectivePreference(h, f)
  BY <1>1, NextFactoryIsMost
<1>3. f \in Candidates(h)
  BY <1>2 DEF Searching
<1>4. /\ b \in Usable(h) /\ FactoryOf(b) = f
      /\ b \in Providers => \E i \in DOMAIN h.eps : /\ h.eps[i] = b
                                                  /\ \A j \in 1..(i-1) : h.eps[j] \notin Usable(h)
  BY <1>3, BuiltIsUsable
<1>5. ASSUME NEW c \in Usable(h) PROVE Tier(h, b) <= Tier(h, c)
  <2>1. FactoryOf(c) \in left
    BY UsableIsBuilt DEF Searching
  <2>2. b \in Backends /\ c \in Backends
    BY <1>4 DEF Usable
  <2>. QED  BY <1>2, <1>4, <2>1, <2>2, TierIsPreference
<1>. QED  BY <1>4, <1>5 DEF Best

\* A search that has ruled out every candidate leaves nothing usable.
LEMMA NothingLeft ==
  ASSUME NEW h \in Host, Searching(h, {})
  PROVE  Usable(h) = {}
BY UsableIsBuilt DEF Searching

\* The handshake advertises every engine that can be chosen.
Advertised(h, b) ==
  /\ b # Tract => Capabilities(h).universalOnnx
  /\ b \in Providers => Capabilities(h).acceleratedCompiled
  /\ b = Tract => h.family \in Capabilities(h).families

LEMMA UsableIsAdvertised ==
  ASSUME NEW h \in Host, NEW b \in Usable(h)
  PROVE  Advertised(h, b)
<1>1. FactoryOf(b) \in Registry(h) /\ CanRun(FactoryOf(b), h.family)
  BY UsableIsBuilt DEF Candidates
<1>2. b \in Backends
  BY DEF Usable
<1>3. CASE b = Tract
  BY <1>1, <1>3, Names DEF Advertised, Capabilities, FactoryOf, CanRun, Tract, OrtCpu
<1>4. CASE b = OrtCpu
  BY <1>1, <1>4, Names DEF Advertised, Capabilities, FactoryOf, Tract, OrtCpu
<1>5. CASE b \in Providers
  BY <1>1, <1>5, Names DEF Advertised, Capabilities, FactoryOf, Tract, OrtCpu
<1>. QED  BY <1>2, <1>3, <1>4, <1>5 DEF Backends

-----------------------------------------------------------------------------
(* The processes.                                                          *)

Resolving(h) == [stage : {"resolving"}, pass : BOOLEAN, host : {h}, left : SUBSET Factory]
Loaded == [stage : {"loaded"}, pass : BOOLEAN, host : Hosts, engine : Backends]
Failed == [stage : {"failed"}, host : Hosts]
Compared == [stage : {"recording", "serving"}, engine : Backends, prev : Backends \cup {None}]
Embedding == [stage : {"embedding"}, engine : Backends, todo : SUBSET Node]
Searched == [stage : {"resolving"}, pass : BOOLEAN, host : Hosts, left : SUBSET Factory]

State == {Off} \cup Searched \cup Failed \cup Loaded \cup Compared \cup Embedding

\* The type invariant, with the states of a process as one set.
Types ==
  /\ proc \in [Proc -> State]
  /\ rows \in [Node -> Row \cup {NoRow}]
  /\ meta \in Backends \cup {None}
  /\ told \subseteq Backends
  /\ unseen \subseteq Backends

SearchInv ==
  \A p \in Proc : proc[p].stage = "resolving" => Searching(proc[p].host, proc[p].left)

\* The engines that are recorded, or whose displacement is known.
Accounted == {meta} \cup told \cup unseen

\* A process that writes rows runs on such an engine, or is a daemon that found
\* no record.
RecordInv ==
  \A p \in Proc :
    /\ proc[p].stage = "embedding" => proc[p].engine \in Accounted
    /\ proc[p].stage = "serving" => proc[p].prev = None \/ proc[p].engine \in Accounted

IInv == Types /\ SearchInv /\ BestEngine /\ RecordInv /\ ForeignRowsWarned

\* A step of one process leaves the others as they are.
LEMMA StateShapes ==
  ASSUME NEW x \in State
  PROVE  /\ x.stage = "resolving" => x \in Searched
         /\ x.stage = "failed" => x \in Failed
         /\ x.stage = "loaded" => x \in Loaded
         /\ x.stage \in {"recording", "serving"} => x \in Compared
         /\ x.stage = "embedding" => x \in Embedding
BY DEF State, Off, Searched, Failed, Loaded, Compared, Embedding

\* Once accounted for, an engine stays so.
LEMMA AccountedStays ==
  ASSUME Types, [Next]_vars
  PROVE  \A e \in Backends : e \in Accounted => e \in Accounted'
<1>1. CASE UNCHANGED <<meta, told, unseen>>
  BY <1>1 DEF Accounted
<1>2. ASSUME NEW p \in Proc, RecordProvenance(p)
      PROVE  \A e \in Backends : e \in Accounted => e \in Accounted'
  <2>1. \A e \in Backends : e = meta => e \in Accounted'
    BY <1>2, Names DEF RecordProvenance, Warned, Differs, Accounted
  <2>. QED  BY <1>2, <2>1 DEF RecordProvenance, Accounted
<1>3. ASSUME NEW p \in Proc, Serve(p)
      PROVE  \A e \in Backends : e \in Accounted => e \in Accounted'
  BY <1>3 DEF Serve, Accounted
<1>. QED
  BY <1>1, <1>2, <1>3 DEF Next, vars, Launch, TryNext, GiveUp, ReadProvenance, SelectPending,
     EmbedRow, PersistLazy, Invalidate, Exit

LEMMA TypesStep == Types /\ [Next]_vars => Types'
<1>. SUFFICES ASSUME Types, [Next]_vars PROVE Types'
  OBVIOUS
<1>0. \A p \in Proc : proc[p] \in State
  BY DEF Types
<1>1. ASSUME NEW p \in Proc, NEW pass \in BOOLEAN, NEW h \in Hosts, Launch(p, pass, h) PROVE Types'
  <2>1. Candidates(h) \subseteq Factory
    BY CandidatesTyped DEF CandidatesAreFactories
  <2>2. /\ [stage |-> "failed", host |-> h] \in Failed
        /\ [stage |-> "resolving", pass |-> pass, host |-> h, left |-> Candidates(h)] \in Searched
    BY <2>1 DEF Failed, Searched
  <2>. QED  BY <1>1, <2>2 DEF Types, Launch, State
<1>2. ASSUME NEW p \in Proc, TryNext(p) PROVE Types'
  <2>1. proc[p] \in Searched
    BY <1>0, <1>2, StateShapes DEF TryNext
  <2>. DEFINE f == NextFactory(proc[p].host, proc[p].left)
              b == TryBuild(proc[p].host, f)
              found == [stage |-> "loaded", pass |-> proc[p].pass, host |-> proc[p].host, engine |-> b]
              rest == [proc[p] EXCEPT !.left = @ \ {f}]
  <2>2. b \in Backends => found \in Loaded
    <3>. HIDE DEF b
    <3>. QED  BY <2>1 DEF Searched, Loaded
  <2>3. rest \in Searched
    <3>. HIDE DEF f
    <3>. QED  BY <2>1 DEF Searched
  <2>4. proc' = [proc EXCEPT ![p] = IF b \in Backends THEN found ELSE rest]
    BY <1>2 DEF TryNext
  <2>5. UNCHANGED <<rows, meta, told, unseen>>
    BY <1>2 DEF TryNext
  <2>. HIDE DEF f, b, found, rest
  <2>. QED  BY <2>2, <2>3, <2>4, <2>5 DEF Types, State
<1>3. ASSUME NEW p \in Proc, GiveUp(p) PROVE Types'
  <2>1. proc[p] \in Searched
    BY <1>0, <1>3, StateShapes DEF GiveUp
  <2>2. [stage |-> "failed", host |-> proc[p].host] \in Failed
    BY <2>1 DEF Searched, Failed
  <2>. QED  BY <1>3, <2>2 DEF Types, GiveUp, State
<1>4. ASSUME NEW p \in Proc, ReadProvenance(p) PROVE Types'
  <2>1. proc[p] \in Loaded
    BY <1>0, <1>4, StateShapes DEF ReadProvenance
  <2>2. [stage |-> "recording", engine |-> proc[p].engine, prev |-> meta] \in Compared
    BY <2>1 DEF Loaded, Compared, Types
  <2>. QED  BY <1>4, <2>2 DEF Types, ReadProvenance, State
<1>5. ASSUME NEW p \in Proc, RecordProvenance(p) PROVE Types'
  <2>1. proc[p] \in Compared
    BY <1>0, <1>5, StateShapes DEF RecordProvenance
  <2>2. [stage |-> "embedding", engine |-> proc[p].engine, todo |-> {}] \in Embedding
    BY <2>1 DEF Compared, Embedding
  <2>3. proc[p].engine \in Backends /\ proc[p].prev \in Backends \cup {None}
    BY <2>1 DEF Compared
  <2>4. Warned(proc[p].prev, proc[p].engine) \subseteq Backends
    BY <2>3 DEF Warned, Differs
  <2>5. ({meta} \ {None, proc[p].prev, proc[p].engine}) \subseteq Backends
    BY DEF Types
  <2>. QED  BY <1>5, <2>2, <2>3, <2>4, <2>5 DEF Types, RecordProvenance, State
<1>6. ASSUME NEW p \in Proc, SelectPending(p) PROVE Types'
  <2>1. proc[p] \in Embedding
    BY <1>0, <1>6, StateShapes DEF SelectPending
  <2>2. [proc[p] EXCEPT !.todo = {n \in Node : rows[n] = NoRow}] \in Embedding
    BY <2>1 DEF Embedding
  <2>. QED  BY <1>6, <2>2 DEF Types, SelectPending, State
<1>7. ASSUME NEW p \in Proc, NEW n \in Node, EmbedRow(p, n) PROVE Types'
  <2>1. proc[p] \in Embedding
    BY <1>0, <1>7, StateShapes DEF EmbedRow
  <2>2. [proc[p] EXCEPT !.todo = @ \ {n}] \in Embedding
    BY <2>1 DEF Embedding
  <2>3. [engine |-> proc[p].engine, blind |-> FALSE] \in Row
    BY <2>1 DEF Embedding, Row
  <2>. QED  BY <1>7, <2>2, <2>3 DEF Types, EmbedRow, State
<1>8. ASSUME NEW p \in Proc, Serve(p) PROVE Types'
  <2>1. proc[p] \in Loaded
    BY <1>0, <1>8, StateShapes DEF Serve
  <2>2. [stage |-> "serving", engine |-> proc[p].engine, prev |-> meta] \in Compared
    BY <2>1 DEF Loaded, Compared, Types
  <2>3. CheckProvenance(meta, proc[p].engine) \subseteq Backends
    BY <2>1 DEF Loaded, CheckProvenance, Differs, Types
  <2>. QED  BY <1>8, <2>2, <2>3 DEF Types, Serve, State
<1>9. ASSUME NEW p \in Proc, NEW n \in Node, PersistLazy(p, n) PROVE Types'
  <2>1. proc[p] \in Compared
    BY <1>0, <1>9, StateShapes DEF PersistLazy
  <2>2. [engine |-> proc[p].engine, blind |-> proc[p].prev = None] \in Row
    BY <2>1 DEF Compared, Row
  <2>. QED  BY <1>9, <2>2 DEF Types, PersistLazy
<1>10. ASSUME NEW n \in Node, Invalidate(n) PROVE Types'
  BY <1>10 DEF Types, Invalidate
<1>11. ASSUME NEW p \in Proc, Exit(p) PROVE Types'
  BY <1>11 DEF Types, Exit, State
<1>12. CASE UNCHANGED vars
  BY <1>12 DEF Types, vars
<1>. QED
  BY <1>1, <1>2, <1>3, <1>4, <1>5, <1>6, <1>7, <1>8, <1>9, <1>10, <1>11, <1>12 DEF Next

\* A step moves one process at most.
Moves(q) ==
  \/ \E pass \in BOOLEAN, h \in Hosts : Launch(q, pass, h)
  \/ TryNext(q) \/ GiveUp(q) \/ ReadProvenance(q) \/ RecordProvenance(q) \/ SelectPending(q)
  \/ Serve(q) \/ (\E n \in Node : EmbedRow(q, n)) \/ Exit(q)

LEMMA OneMoves ==
  ASSUME Types, [Next]_vars, NEW q \in Proc
  PROVE  proc'[q] = proc[q] \/ Moves(q)
<1>1. CASE UNCHANGED proc
  BY <1>1
<1>2. ASSUME NEW p \in Proc, Moves(p), p # q PROVE proc'[q] = proc[q]
  BY <1>2 DEF Types, Moves, Launch, TryNext, GiveUp, ReadProvenance, RecordProvenance,
     SelectPending, Serve, EmbedRow, Exit
<1>3. UNCHANGED proc \/ \E p \in Proc : Moves(p)
  BY DEF Next, Moves, PersistLazy, Invalidate, vars
<1>. QED  BY <1>1, <1>2, <1>3

\* The search goes on to rule out candidates, and ends well.
LEMMA SearchStep ==
  Types /\ SearchInv /\ BestEngine /\ [Next]_vars => SearchInv' /\ BestEngine'
<1>. DEFINE Inv1(q) == proc[q].stage = "resolving" => Searching(proc[q].host, proc[q].left)
            Inv2(q) == /\ proc[q].stage = "loaded" => /\ Best(proc[q].host, proc[q].engine)
                                                     /\ Advertised(proc[q].host, proc[q].engine)
                       /\ proc[q].stage = "failed" => Usable(proc[q].host) = {}
<1>. SUFFICES ASSUME Types, SearchInv, BestEngine, [Next]_vars, NEW q \in Proc
              PROVE  Inv1(q)' /\ Inv2(q)'
  BY DEF SearchInv, BestEngine, Advertised
<1>0. proc[q] \in State /\ Inv1(q) /\ Inv2(q)
  BY DEF Types, SearchInv, BestEngine, Advertised
<1>. HIDE DEF Inv1, Inv2
<1>1. CASE proc'[q] = proc[q]
  BY <1>0, <1>1 DEF Inv1, Inv2
<1>2. CASE proc'[q].stage \notin {"resolving", "loaded", "failed"}
  BY <1>2 DEF Inv1, Inv2
<1>3. ASSUME NEW pass \in BOOLEAN, NEW h \in Hosts, Launch(q, pass, h)
      PROVE  Inv1(q)' /\ Inv2(q)'
  <2>1. h \in Host
    BY SidecarAssumption
  <2>2. CASE Candidates(h) = {}
    <3>1. proc'[q].stage = "failed" /\ proc'[q].host = h
      BY <1>3, <2>2 DEF Launch, Types
    <3>2. Usable(h) = {}
      BY <2>1, <2>2, NothingLeft DEF Searching
    <3>. QED  BY <3>1, <3>2 DEF Inv1, Inv2
  <2>3. CASE Candidates(h) # {}
    <3>1. /\ proc'[q].stage = "resolving" /\ proc'[q].host = h
          /\ proc'[q].left = Candidates(h)
      BY <1>3, <2>3 DEF Launch, Types
    <3>. QED  BY <3>1 DEF Inv1, Inv2, Searching
  <2>. QED  BY <2>2, <2>3
<1>4. ASSUME TryNext(q) PROVE Inv1(q)' /\ Inv2(q)'
  <2>. DEFINE h == proc[q].host
              f == NextFactory(h, proc[q].left)
              b == TryBuild(h, f)
  <2>1. proc[q] \in Searched
    BY <1>0, <1>4, StateShapes DEF TryNext
  <2>2. h \in Host /\ Searching(h, proc[q].left) /\ proc[q].left # {}
    BY <1>0, <1>4, <2>1, SidecarAssumption DEF TryNext, Inv1, Searched
  <2>3. CASE b \in Backends
    <3>1. Best(h, b)
      BY <2>2, <2>3, FoundIsBest
    <3>2. Advertised(h, b)
      BY <2>2, <3>1, UsableIsAdvertised DEF Best
    <3>3. proc'[q] = [stage |-> "loaded", pass |-> proc[q].pass, host |-> h, engine |-> b]
      BY <1>4, <2>3 DEF TryNext, Types
    <3>4. proc'[q].stage = "loaded" /\ proc'[q].host = h /\ proc'[q].engine = b
      BY <3>3
    <3>. HIDE DEF h, b
    <3>. QED  BY <3>1, <3>2, <3>4 DEF Inv1, Inv2
  <2>4. CASE b \notin Backends
    <3>1. proc'[q] = [proc[q] EXCEPT !.left = @ \ {f}]
      BY <1>4, <2>4 DEF TryNext, Types
    <3>2. /\ proc'[q].stage = "resolving" /\ proc'[q].host = h
          /\ proc'[q].left = proc[q].left \ {f}
      <4>. HIDE DEF f
      <4>. QED  BY <1>4, <2>1, <3>1 DEF Searched, TryNext
    <3>3. Searching(h, proc[q].left \ {f})
      <4>. HIDE DEF h, f
      <4>. QED  BY <2>2, <2>4 DEF Searching
    <3>. HIDE DEF h, f
    <3>. QED  BY <3>2, <3>3 DEF Inv1, Inv2
  <2>. QED  BY <2>3, <2>4
<1>5. ASSUME GiveUp(q) PROVE Inv1(q)' /\ Inv2(q)'
  <2>1. proc[q] \in Searched
    BY <1>0, <1>5, StateShapes DEF GiveUp
  <2>2. Usable(proc[q].host) = {}
    BY <1>0, <1>5, <2>1, NothingLeft, SidecarAssumption DEF GiveUp, Inv1, Searched
  <2>3. proc'[q].stage = "failed" /\ proc'[q].host = proc[q].host
    BY <1>5 DEF GiveUp, Types
  <2>. QED  BY <2>2, <2>3 DEF Inv1, Inv2
<1>6. \A p \in Proc : /\ ReadProvenance(p) => proc'[p].stage = "recording"
                      /\ RecordProvenance(p) => proc'[p].stage = "embedding"
                      /\ Serve(p) => proc'[p].stage = "serving"
                      /\ Exit(p) => proc'[p] = Off
  BY DEF Types, ReadProvenance, RecordProvenance, Serve, Exit
<1>7. ASSUME SelectPending(q) PROVE proc'[q].stage = "embedding"
  BY <1>0, <1>7, StateShapes DEF SelectPending, Types, Embedding
<1>8. ASSUME NEW n \in Node, EmbedRow(q, n) PROVE proc'[q].stage = "embedding"
  BY <1>0, <1>8, StateShapes DEF EmbedRow, Types, Embedding
<1>. QED
  BY <1>1, <1>2, <1>3, <1>4, <1>5, <1>6, <1>7, <1>8, OneMoves DEF Moves, Off

\* A writer's engine is accounted for when it starts to write, and stays so.
LEMMA RecordStep == Types /\ RecordInv /\ [Next]_vars => RecordInv'
<1>. DEFINE Inv(q) == /\ proc[q].stage = "embedding" => proc[q].engine \in Accounted
                      /\ proc[q].stage = "serving" =>
                           proc[q].prev = None \/ proc[q].engine \in Accounted
<1>. SUFFICES ASSUME Types, RecordInv, [Next]_vars, NEW q \in Proc PROVE Inv(q)'
  BY DEF RecordInv
<1>0. proc[q] \in State /\ Inv(q)
  BY DEF Types, RecordInv
<1>1. CASE proc'[q] = proc[q]
  <2>1. proc[q].stage \in {"embedding", "serving"} => proc[q].engine \in Backends
    BY <1>0, StateShapes DEF Compared, Embedding
  <2>. QED  BY <1>0, <1>1, <2>1, AccountedStays
<1>2. CASE proc'[q].stage \notin {"embedding", "serving"}
  BY <1>2
<1>3. ASSUME RecordProvenance(q) PROVE Inv(q)'
  <2>1. proc'[q].stage = "embedding" /\ proc'[q].engine = proc[q].engine /\ meta' = proc[q].engine
    BY <1>3 DEF RecordProvenance, Types
  <2>. QED  BY <2>1 DEF Accounted
<1>4. ASSUME Serve(q) PROVE Inv(q)'
  <2>1. /\ proc'[q].stage = "serving" /\ proc'[q].engine = proc[q].engine /\ proc'[q].prev = meta
        /\ meta' = meta /\ told' = told \cup CheckProvenance(meta, proc[q].engine)
    BY <1>4 DEF Serve, Types
  <2>2. meta = None \/ meta = proc[q].engine \/ proc[q].engine \in told'
    BY <2>1 DEF CheckProvenance, Differs
  <2>. QED  BY <2>1, <2>2 DEF Accounted
<1>5. ASSUME SelectPending(q) \/ \E n \in Node : EmbedRow(q, n) PROVE Inv(q)'
  <2>1. proc[q] \in Embedding
    BY <1>0, <1>5, StateShapes DEF SelectPending, EmbedRow
  <2>2. proc'[q].stage = "embedding" /\ proc'[q].engine = proc[q].engine
    BY <1>5, <2>1 DEF SelectPending, EmbedRow, Types, Embedding
  <2>3. UNCHANGED <<meta, told, unseen>>
    BY <1>5 DEF SelectPending, EmbedRow
  <2>. QED  BY <1>0, <2>1, <2>2, <2>3 DEF Accounted, Embedding
<1>6. ASSUME \/ \E pass \in BOOLEAN, h \in Hosts : Launch(q, pass, h)
             \/ GiveUp(q) \/ ReadProvenance(q) \/ Exit(q)
      PROVE  proc'[q].stage \notin {"embedding", "serving"}
  BY <1>6 DEF Types, Launch, GiveUp, ReadProvenance, Exit, Off
<1>7. ASSUME TryNext(q) PROVE proc'[q].stage \notin {"embedding", "serving"}
  <2>1. proc[q] \in Searched
    BY <1>0, <1>7, StateShapes DEF TryNext
  <2>. QED  BY <1>7, <2>1 DEF TryNext, Types, Searched
<1>. QED
  BY <1>1, <1>2, <1>3, <1>4, <1>5, <1>6, <1>7, OneMoves DEF Moves

\* Rows are written by writers whose engine is accounted for, or blindly.
LEMMA RowsStep == Types /\ RecordInv /\ ForeignRowsWarned /\ [Next]_vars => ForeignRowsWarned'
<1>. DEFINE Inv(n) == rows[n] # NoRow => rows[n].engine \in Accounted \/ rows[n].blind
<1>0. ForeignRowsWarned <=> \A n \in Node : Inv(n)
  BY DEF ForeignRowsWarned, Accounted
<1>. SUFFICES ASSUME Types, RecordInv, ForeignRowsWarned, [Next]_vars, NEW n \in Node
              PROVE  Inv(n)'
  BY DEF ForeignRowsWarned, Accounted
<1>1. CASE rows'[n] = rows[n]
  <2>1. rows[n] # NoRow => rows[n].engine \in Backends
    BY DEF Types, Row
  <2>. QED  BY <1>0, <1>1, <2>1, AccountedStays
<1>2. CASE rows'[n] = NoRow
  BY <1>2
<1>3. ASSUME NEW p \in Proc, EmbedRow(p, n) PROVE Inv(n)'
  <2>1. rows'[n].engine = proc[p].engine /\ UNCHANGED <<meta, told, unseen>>
    BY <1>3 DEF EmbedRow, Types
  <2>2. proc[p].engine \in Accounted
    BY <1>3 DEF EmbedRow, RecordInv
  <2>. QED  BY <2>1, <2>2 DEF Accounted
<1>4. ASSUME NEW p \in Proc, PersistLazy(p, n) PROVE Inv(n)'
  <2>1. /\ rows'[n].engine = proc[p].engine /\ rows'[n].blind = (proc[p].prev = None)
        /\ UNCHANGED <<meta, told, unseen>>
    BY <1>4 DEF PersistLazy, Types
  <2>2. proc[p].prev = None \/ proc[p].engine \in Accounted
    BY <1>4 DEF PersistLazy, RecordInv
  <2>. QED  BY <2>1, <2>2 DEF Accounted
<1>5. \/ rows'[n] = rows[n] \/ rows'[n] = NoRow
      \/ \E p \in Proc : EmbedRow(p, n) \/ PersistLazy(p, n)
  <2>1. ASSUME NEW m \in Node, m # n, Invalidate(m) \/ \E p \in Proc : EmbedRow(p, m) \/ PersistLazy(p, m)
        PROVE  rows'[n] = rows[n]
    BY <2>1 DEF Types, Invalidate, EmbedRow, PersistLazy
  <2>2. Invalidate(n) => rows'[n] = NoRow
    BY DEF Types, Invalidate
  <2>3. \/ UNCHANGED rows
        \/ \E m \in Node : Invalidate(m) \/ \E p \in Proc : EmbedRow(p, m) \/ PersistLazy(p, m)
    BY DEF Next, vars, Launch, TryNext, GiveUp, ReadProvenance, RecordProvenance, SelectPending,
       Serve, Exit
  <2>. QED  BY <2>1, <2>2, <2>3
<1>. QED  BY <1>1, <1>2, <1>3, <1>4, <1>5

-----------------------------------------------------------------------------
(* Theorems.                                                               *)

\* The strengthened invariant holds of every behaviour.
THEOREM InductiveInvariant == Spec => []IInv
<1>1. Init => IInv
  BY Names DEF Init, IInv, Types, State, Off, SearchInv, BestEngine, RecordInv, ForeignRowsWarned
<1>2. IInv /\ [Next]_vars => IInv'
  BY TypesStep, SearchStep, RecordStep, RowsStep DEF IInv
<1>. QED  BY <1>1, <1>2, PTL DEF Spec

\* The state of every process, of the rows and of the record stays well typed.
THEOREM SidecarTypeCorrect == Spec => []SidecarTypeOK
<1>1. IInv => SidecarTypeOK
  BY DEF IInv, Types, SidecarTypeOK, State, Searched, Failed, Loaded, Compared, Embedding
<1>. QED  BY <1>1, InductiveInvariant, PTL

\* On every build, machine and model, a process runs on the best engine that is
\* permitted and works there, and refuses to start only when there is none.
THEOREM BestEngineChosen == Spec => []BestEngine
<1>1. IInv => BestEngine
  BY DEF IInv
<1>. QED  BY <1>1, InductiveInvariant, PTL

\* However many passes and daemons share embed.db, no engine's vectors are mixed
\* in without a warning but by the two exceptions.
THEOREM NoSilentMixing == Spec => []ForeignRowsWarned
<1>1. IInv => ForeignRowsWarned
  BY DEF IInv
<1>. QED  BY <1>1, InductiveInvariant, PTL

-----------------------------------------------------------------------------
(* The composition that the run explores.                                  *)

\* The processes and the memo of one of them share no state: a behaviour of the
\* composition is one of each, so whatever is proved of either holds beside the
\* other.
THEOREM ComposesBoth == MCSpec => Spec /\ MemoSpec
<1>1. MCInit => Init /\ MemoInit
  BY DEF MCInit
<1>2. [MCNext]_<<part, vars, memoVars>> => [Next]_vars /\ [MemoNext]_memoVars
  BY DEF MCNext
<1>. QED  BY <1>1, <1>2, PTL DEF MCSpec, Spec, MemoSpec

\* Every variable of the processes, of what they persist and of the memo keeps
\* its type, whatever engines and machines there are.
THEOREM SidecarRunTypeCorrect == MCSpec => []MCTypeOK
<1>1. SidecarTypeOK /\ MemoTypeOK => MCTypeOK
  BY DEF MCTypeOK
<1>. QED  BY <1>1, ComposesBoth, SidecarTypeCorrect, MemoTypeCorrect, PTL
=============================================================================

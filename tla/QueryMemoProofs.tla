-------------------------- MODULE QueryMemoProofs --------------------------
(***************************************************************************)
(* Proofs about QueryMemo for any number of concurrent queries and texts   *)
(* and every time to live.                                                 *)
(*                                                                         *)
(* OneInference is not inductive: that the docs lane finds its vector in   *)
(* the slot rests on what the slot has held since the code lane answered.  *)
(***************************************************************************)
EXTENDS QueryMemo, TLAPS

\* The slot holds the vector of its own text.
SlotIsOwn == memo # NoMemo => memo.blob = [text |-> memo.text, engine |-> engine]

Excused(q) == q.spoiled \/ q.since >= Ttl

\* The slot can answer the docs lane of this query.
Kept(q) == memo # NoMemo /\ memo.text = q.text /\ memo.age <= q.since

\* How many inferences a query has cost where it stands, and what it can count on.
Cost(q) ==
  /\ q.lane = "code" /\ q.state = "asking" => q.misses = 0
  /\ q.lane = "code" /\ q.state \in {"inferring", "storing"} => q.misses = 1
  /\ (q.lane = "code" /\ q.state = "answered") \/ (q.lane = "docs" /\ q.state = "asking") =>
       q.misses \in {0, 1} /\ (q.misses = 1 => Excused(q) \/ Kept(q))
  /\ q.misses > 1 => Excused(q)
  /\ q.state = "storing" => q.blob # NoMemo
  /\ q.blob # NoMemo => q.blob = [text |-> q.text, engine |-> engine]

CostInv == \A c \in Caller : query[c] # Quiet => Cost(query[c])

MemoInv == MemoTypeOK /\ SlotIsOwn /\ CostInv

\* Ageing keeps the order of ages.
LEMMA OlderMonotone ==
  ASSUME NEW a \in 0..MaxAge, NEW b \in 0..MaxAge
  PROVE  /\ Older(a) \in 0..MaxAge /\ a <= Older(a)
         /\ a <= b => Older(a) <= Older(b)
BY QueryMemoAssumption DEF Older

LEMMA QuietIsNoQuery == Quiet \notin Query
BY DEF Quiet, Query

\* The slot: what a call stores, and what time leaves of it.
LEMMA SlotStep ==
  MemoInv /\ [MemoNext]_memoVars => engine' \in Engine /\ memo' \in Memo \cup {NoMemo} /\ SlotIsOwn'
<1>. SUFFICES ASSUME MemoInv, [MemoNext]_memoVars
              PROVE  engine' \in Engine /\ memo' \in Memo \cup {NoMemo} /\ SlotIsOwn'
  OBVIOUS
<1>0. engine \in Engine /\ memo \in Memo \cup {NoMemo} /\ SlotIsOwn
  BY DEF MemoInv, MemoTypeOK
<1>1. CASE UNCHANGED <<engine, memo>>
  BY <1>0, <1>1 DEF SlotIsOwn
<1>2. ASSUME NEW c \in Caller, Store(c)
      PROVE  engine' \in Engine /\ memo' \in Memo \cup {NoMemo} /\ SlotIsOwn'
  <2>1. query[c] # Quiet
    BY <1>2 DEF Store, Quiet
  <2>2. query[c] \in Query /\ Cost(query[c])
    BY <2>1 DEF MemoInv, MemoTypeOK, CostInv
  <2>3. /\ query[c].text \in Text
        /\ query[c].blob = [text |-> query[c].text, engine |-> engine]
    BY <1>2, <2>2 DEF Cost, Store, Query
  <2>4. 0 \in 0..MaxAge
    BY QueryMemoAssumption
  <2>5. memo' = [text |-> query[c].text, blob |-> query[c].blob, age |-> 0] /\ engine' = engine
    BY <1>2 DEF Store, Entry
  <2>6. memo' \in Memo
    BY <1>0, <2>3, <2>4, <2>5 DEF Memo, Vector
  <2>. QED  BY <1>0, <2>3, <2>5, <2>6 DEF SlotIsOwn
<1>3. ASSUME Tick PROVE engine' \in Engine /\ memo' \in Memo \cup {NoMemo} /\ SlotIsOwn'
  <2>1. CASE memo = NoMemo
    BY <1>0, <1>3, <2>1 DEF Tick, SlotIsOwn
  <2>2. CASE memo \in Memo
    <3>1. Older(memo.age) \in 0..MaxAge
      BY <2>2, OlderMonotone DEF Memo
    <3>2. memo # NoMemo
      BY <2>2, QueryMemoAssumption
    <3>3. memo' = [memo EXCEPT !.age = Older(@)] /\ engine' = engine
      BY <1>3, <3>2 DEF Tick
    <3>4. memo' \in Memo /\ memo'.blob = memo.blob /\ memo'.text = memo.text
      BY <2>2, <3>1, <3>3 DEF Memo
    <3>. QED  BY <1>0, <3>2, <3>3, <3>4 DEF SlotIsOwn
  <2>. QED  BY <1>0, <2>1, <2>2
<1>4. CASE Restart
  BY <1>4 DEF Restart, SlotIsOwn
<1>. QED
  BY <1>1, <1>2, <1>3, <1>4 DEF MemoNext, memoVars, Ask, AskDocs, Hit, Miss, Infer, InferFails, Done

Fine(q) == q # Quiet => q \in Query /\ Cost(q)

\* The query that makes a step.
LEMMA OwnStep ==
  ASSUME MemoInv, NEW c \in Caller,
         \/ \E t \in Text : Ask(c, t)
         \/ AskDocs(c) \/ Hit(c) \/ Miss(c) \/ Infer(c) \/ InferFails(c) \/ Store(c) \/ Done(c)
  PROVE  Fine(query[c])'
<1>. DEFINE q == query[c]
<1>0. /\ query \in [Caller -> Query \cup {Quiet}]
      /\ q # Quiet => q \in Query /\ Cost(q)
      /\ memo \in Memo \cup {NoMemo} /\ SlotIsOwn /\ engine \in Engine
  BY DEF MemoInv, MemoTypeOK, CostInv
<1>. USE QueryMemoAssumption DEF Fine
<1>1. ASSUME NEW t \in Text, Ask(c, t) PROVE Fine(query[c])'
  <2>1. query'[c] = [state |-> "asking", lane |-> "code", text |-> t, blob |-> NoMemo,
                     misses |-> 0, since |-> 0, spoiled |-> FALSE]
    BY <1>0, <1>1 DEF Ask
  <2>2. query'[c] \in Query
    BY <2>1 DEF Query
  <2>. QED  BY <2>1, <2>2 DEF Cost
<1>2. ASSUME AskDocs(c) PROVE Fine(query[c])'
  <2>1. q \in Query /\ Cost(q) /\ UNCHANGED <<engine, memo>>
    BY <1>0, <1>2 DEF AskDocs, Quiet
  <2>2. query'[c] = [q EXCEPT !.state = "asking", !.lane = "docs", !.blob = NoMemo]
    BY <1>0, <1>2 DEF AskDocs
  <2>3. query'[c] \in Query
    BY <2>1, <2>2 DEF Query
  <2>4. /\ query'[c].state = "asking" /\ query'[c].lane = "docs" /\ query'[c].blob = NoMemo
        /\ query'[c].misses = q.misses /\ query'[c].text = q.text
        /\ query'[c].spoiled = q.spoiled /\ query'[c].since = q.since
    BY <2>1, <2>2 DEF Query
  <2>. QED  BY <1>2, <2>1, <2>3, <2>4 DEF Cost, AskDocs, Excused, Kept
<1>3. ASSUME Hit(c) PROVE Fine(query[c])'
  <2>1. q \in Query /\ Cost(q) /\ UNCHANGED <<engine, memo>>
    BY <1>0, <1>3 DEF Hit, Quiet
  <2>2. query'[c] = [q EXCEPT !.state = "answered", !.blob = memo.blob]
    BY <1>0, <1>3 DEF Hit, Answered
  <2>3. memo \in Memo /\ memo.text = q.text /\ memo.blob = [text |-> q.text, engine |-> engine]
    BY <1>0, <1>3 DEF Hit, Serves, SlotIsOwn
  <2>4. query'[c] \in Query
    BY <2>1, <2>2, <2>3 DEF Query, Memo
  <2>5. /\ query'[c].state = "answered" /\ query'[c].lane = q.lane /\ query'[c].blob = memo.blob
        /\ query'[c].misses = q.misses /\ query'[c].text = q.text
        /\ query'[c].spoiled = q.spoiled /\ query'[c].since = q.since
    BY <2>1, <2>2 DEF Query
  <2>. QED  BY <1>3, <2>1, <2>3, <2>4, <2>5 DEF Cost, Hit, Excused, Kept, Query
<1>4. ASSUME Miss(c) PROVE Fine(query[c])'
  <2>1. q \in Query /\ Cost(q) /\ UNCHANGED <<engine, memo>> /\ q.state = "asking"
    BY <1>0, <1>4 DEF Miss, Quiet
  <2>2. query'[c] = [q EXCEPT !.state = "inferring", !.misses = @ + 1]
    BY <1>0, <1>4 DEF Miss
  <2>3. q.misses \in {0, 1} /\ (q.misses = 1 => Excused(q))
    <3>1. q.lane = "code" => q.misses = 0
      BY <2>1 DEF Cost
    <3>2. q.lane = "docs" => q.misses \in {0, 1} /\ (q.misses = 1 => Excused(q) \/ Kept(q))
      BY <2>1 DEF Cost
    <3>3. ~Serves(memo, q.text)
      BY <1>4 DEF Miss
    <3>4. Kept(q) => memo \in Memo
      BY <1>0 DEF Kept
    <3>5. Kept(q) => Excused(q)
      BY <2>1, <3>3, <3>4 DEF Kept, Serves, Excused, Query, Memo
    <3>. QED  BY <2>1, <3>1, <3>2, <3>5 DEF Query
  <2>4. query'[c] \in Query
    <3>. DEFINE m == q.misses + 1
    <3>1. m \in 0..2
      BY <2>3
    <3>2. query'[c] = [q EXCEPT !.state = "inferring", !.misses = m]
      BY <2>2
    <3>. HIDE DEF m
    <3>. QED  BY <2>1, <3>1, <3>2 DEF Query
  <2>5. /\ query'[c].state = "inferring" /\ query'[c].lane = q.lane /\ query'[c].blob = q.blob
        /\ query'[c].misses = q.misses + 1 /\ query'[c].text = q.text
        /\ query'[c].spoiled = q.spoiled /\ query'[c].since = q.since
    BY <2>1, <2>2 DEF Query
  <2>. QED  BY <2>1, <2>3, <2>4, <2>5 DEF Cost, Excused
<1>5. ASSUME Infer(c) PROVE Fine(query[c])'
  <2>1. q \in Query /\ Cost(q) /\ UNCHANGED <<engine, memo>> /\ q.state = "inferring"
    BY <1>0, <1>5 DEF Infer, Quiet
  <2>. DEFINE v == [text |-> q.text, engine |-> engine]
  <2>2. query'[c] = [q EXCEPT !.state = "storing", !.blob = v]
    BY <1>0, <1>5 DEF Infer
  <2>3. v \in Vector
    BY <1>0, <2>1 DEF Query, Vector
  <2>4. query'[c] \in Query /\ v # NoMemo
    <3>. HIDE DEF v
    <3>. QED  BY <2>1, <2>2, <2>3 DEF Query
  <2>5. /\ query'[c].state = "storing" /\ query'[c].lane = q.lane /\ query'[c].blob = v
        /\ query'[c].misses = q.misses /\ query'[c].text = q.text
        /\ query'[c].spoiled = q.spoiled /\ query'[c].since = q.since
    BY <2>1, <2>2 DEF Query
  <2>. QED  BY <2>1, <2>4, <2>5 DEF Cost, Excused
<1>6. ASSUME InferFails(c) PROVE Fine(query[c])'
  <2>1. q \in Query /\ Cost(q) /\ UNCHANGED <<engine, memo>> /\ q.state = "inferring"
    BY <1>0, <1>6 DEF InferFails, Quiet
  <2>2. query'[c] = [q EXCEPT !.state = "answered", !.spoiled = TRUE]
    BY <1>0, <1>6 DEF InferFails
  <2>4. query'[c] \in Query
    BY <2>1, <2>2 DEF Query
  <2>5. /\ query'[c].state = "answered" /\ query'[c].lane = q.lane /\ query'[c].blob = q.blob
        /\ query'[c].misses = q.misses /\ query'[c].text = q.text
        /\ query'[c].spoiled /\ query'[c].since = q.since
    BY <2>1, <2>2 DEF Query
  <2>. QED  BY <2>1, <2>4, <2>5 DEF Cost, Excused
<1>7. ASSUME Store(c) PROVE Fine(query[c])'
  <2>1. q \in Query /\ Cost(q) /\ q.state = "storing" /\ engine' = engine
    BY <1>0, <1>7 DEF Store, Quiet
  <2>2. query'[c] = [q EXCEPT !.state = "answered", !.blob = q.blob]
    BY <1>0, <1>7 DEF Store, Answered
  <2>3. memo' = [text |-> q.text, blob |-> q.blob, age |-> 0]
    BY <1>7 DEF Store, Entry
  <2>4. query'[c] \in Query
    BY <2>1, <2>2 DEF Query
  <2>5. /\ query'[c].state = "answered" /\ query'[c].lane = q.lane /\ query'[c].blob = q.blob
        /\ query'[c].misses = q.misses /\ query'[c].text = q.text
        /\ query'[c].spoiled = q.spoiled /\ query'[c].since = q.since /\ q.since \in Nat
    BY <2>1, <2>2 DEF Query
  <2>6. memo' # NoMemo
    <3>1. 0 \in 0..MaxAge /\ q.text \in Text /\ q.blob \in Vector
      BY <2>1 DEF Query, Cost
    <3>. QED  BY <2>3, <3>1 DEF Memo
  <2>7. memo'.text = q.text /\ memo'.age <= q.since
    BY <2>3, <2>5
  <2>. QED  BY <2>1, <2>4, <2>5, <2>6, <2>7 DEF Cost, Excused, Kept
<1>8. ASSUME Done(c) PROVE Fine(query[c])'
  BY <1>0, <1>8 DEF Done
<1>. QED
  BY <1>1, <1>2, <1>3, <1>4, <1>5, <1>6, <1>7, <1>8

\* Another query's store either leaves this one its slot or excuses it.
LEMMA OthersStore ==
  ASSUME MemoInv, NEW c \in Caller, NEW d \in Caller, d # c, Store(d)
  PROVE  Fine(query[c])'
<1>. DEFINE q == query[c]
<1>0. /\ query \in [Caller -> Query \cup {Quiet}]
      /\ q # Quiet => q \in Query /\ Cost(q)
      /\ query[d] \in Query /\ Cost(query[d]) /\ query[d].state = "storing"
  BY DEF MemoInv, MemoTypeOK, CostInv, Store, Quiet
<1>. USE QueryMemoAssumption DEF Fine
<1>1. engine' = engine /\ memo' = [text |-> query[d].text, blob |-> query[d].blob, age |-> 0]
  BY DEF Store, Entry
<1>2. memo' # NoMemo
  <2>1. 0 \in 0..MaxAge /\ query[d].text \in Text /\ query[d].blob \in Vector
    BY <1>0 DEF Query, Cost
  <2>. QED  BY <1>1, <2>1 DEF Memo
<1>3. CASE q = Quiet
  BY <1>0, <1>3 DEF Store
<1>4. CASE q # Quiet /\ q.text = query[d].text
  <2>1. query'[c] = q
    BY <1>4 DEF Store
  <2>2. memo'.text = q.text /\ memo'.age = 0 /\ q.since \in Nat
    BY <1>0, <1>1, <1>4 DEF Query
  <2>3. Kept(q)'
    BY <1>2, <2>1, <2>2 DEF Kept
  <2>. QED  BY <1>0, <1>1, <1>4, <2>1, <2>3 DEF Cost, Excused
<1>5. CASE q # Quiet /\ q.text # query[d].text
  <2>1. query'[c] = [q EXCEPT !.spoiled = @ \/ q.lane = "docs" \/ q.state = "answered"]
    BY <1>5 DEF Store
  <2>2. query'[c] \in Query
    BY <1>0, <1>5, <2>1 DEF Query
  <2>3. /\ query'[c].state = q.state /\ query'[c].lane = q.lane /\ query'[c].blob = q.blob
        /\ query'[c].misses = q.misses /\ query'[c].text = q.text /\ query'[c].since = q.since
        /\ query'[c].spoiled = (q.spoiled \/ q.lane = "docs" \/ q.state = "answered")
    BY <1>0, <1>5, <2>1 DEF Query
  <2>. QED  BY <1>0, <1>1, <1>5, <2>2, <2>3 DEF Cost, Excused
<1>. QED  BY <1>3, <1>4, <1>5

\* Time never makes the slot older than the answer it rests on.
LEMMA TimePasses ==
  ASSUME MemoInv, NEW c \in Caller, Tick
  PROVE  Fine(query[c])'
<1>. DEFINE q == query[c]
<1>0. /\ q # Quiet => q \in Query /\ Cost(q)
      /\ memo \in Memo \cup {NoMemo} /\ engine' = engine
  BY DEF MemoInv, MemoTypeOK, CostInv, Tick
<1>. USE QueryMemoAssumption DEF Fine
<1>1. CASE q = Quiet
  BY <1>1 DEF Tick
<1>2. CASE q # Quiet /\ q.lane = "code" /\ q.state # "answered"
  <2>1. query'[c] = q
    BY <1>2 DEF Tick
  <2>2. q.lane # "docs"
    BY <1>2
  <2>. QED  BY <1>0, <1>2, <2>1, <2>2 DEF Cost, Excused
<1>3. CASE q # Quiet /\ ~(q.lane = "code" /\ q.state # "answered")
  <2>1. query'[c] = [q EXCEPT !.since = Older(@)]
    BY <1>3 DEF Tick
  <2>2. q.since \in 0..MaxAge /\ Older(q.since) \in 0..MaxAge /\ q.since <= Older(q.since)
    BY <1>0, <1>3, OlderMonotone DEF Query
  <2>3. query'[c] \in Query
    BY <1>0, <1>3, <2>1, <2>2 DEF Query
  <2>4. /\ query'[c].state = q.state /\ query'[c].lane = q.lane /\ query'[c].blob = q.blob
        /\ query'[c].misses = q.misses /\ query'[c].text = q.text
        /\ query'[c].spoiled = q.spoiled /\ query'[c].since = Older(q.since)
    BY <1>0, <1>3, <2>1 DEF Query
  <2>5. Excused(q) => Excused(q)'
    BY <2>2, <2>4 DEF Excused
  <2>6. Kept(q) => Kept(q)'
    <3>. SUFFICES ASSUME Kept(q) PROVE Kept(q)'
      OBVIOUS
    <3>1. memo \in Memo /\ memo.age \in 0..MaxAge
      BY <1>0 DEF Kept, Memo
    <3>2. memo' = [memo EXCEPT !.age = Older(@)]
      BY DEF Tick, Kept
    <3>3. Older(memo.age) \in 0..MaxAge /\ Older(memo.age) <= Older(q.since)
      BY <2>2, <3>1, OlderMonotone DEF Kept
    <3>4. memo' \in Memo /\ memo'.text = memo.text /\ memo'.age = Older(memo.age)
      BY <3>1, <3>2, <3>3 DEF Memo
    <3>. QED  BY <2>4, <3>3, <3>4 DEF Kept
  <2>. QED  BY <1>0, <1>3, <2>3, <2>4, <2>5, <2>6 DEF Cost
<1>. QED  BY <1>1, <1>2, <1>3

LEMMA MemoStep == MemoInv /\ [MemoNext]_memoVars => MemoInv'
<1>. SUFFICES ASSUME MemoInv, [MemoNext]_memoVars PROVE MemoInv'
  OBVIOUS
<1>. DEFINE Own(c) == \/ \E t \in Text : Ask(c, t)
                      \/ AskDocs(c) \/ Hit(c) \/ Miss(c) \/ Infer(c) \/ InferFails(c)
                      \/ Store(c) \/ Done(c)
<1>0. query \in [Caller -> Query \cup {Quiet}] /\ \A c \in Caller : Fine(query[c])
  BY DEF MemoInv, MemoTypeOK, CostInv, Fine
<1>1. \A c \in Caller : Fine(query[c])'
  <2>. SUFFICES ASSUME NEW c \in Caller PROVE Fine(query[c])'
    OBVIOUS
  <2>1. CASE Own(c)
    BY <2>1, OwnStep
  <2>2. ASSUME NEW d \in Caller, d # c, Store(d) PROVE Fine(query[c])'
    BY <2>2, OthersStore
  <2>3. ASSUME NEW d \in Caller, d # c, Own(d), ~Store(d) PROVE Fine(query[c])'
    <3>1. query'[c] = query[c] /\ UNCHANGED <<engine, memo>>
      BY <1>0, <2>3 DEF Ask, AskDocs, Hit, Miss, Infer, InferFails, Done
    <3>. QED  BY <1>0, <3>1 DEF Fine, Cost, Excused, Kept
  <2>4. CASE Tick
    BY <2>4, TimePasses
  <2>5. CASE Restart
    BY <2>5 DEF Restart, Fine
  <2>6. CASE UNCHANGED memoVars
    BY <1>0, <2>6 DEF memoVars, Fine, Cost, Excused, Kept
  <2>. QED  BY <2>1, <2>2, <2>3, <2>4, <2>5, <2>6 DEF MemoNext
<1>2. \E f : query' = [c \in Caller |-> f[c]]
  <2>1. CASE \E c \in Caller : Own(c)
    BY <1>0, <2>1 DEF Ask, AskDocs, Hit, Miss, Infer, InferFails, Store, Done
  <2>. QED  BY <1>0, <2>1 DEF MemoNext, memoVars, Tick, Restart
<1>3. query' \in [Caller -> Query \cup {Quiet}]
  BY <1>1, <1>2 DEF Fine
<1>. QED  BY <1>1, <1>3, SlotStep DEF MemoInv, MemoTypeOK, CostInv, Fine

-----------------------------------------------------------------------------
(* Theorems.                                                               *)

LEMMA MemoInvariant == MemoSpec => []MemoInv
<1>1. MemoInit => MemoInv
  BY DEF MemoInit, MemoInv, MemoTypeOK, SlotIsOwn, CostInv
<1>. QED  BY <1>1, MemoStep, PTL DEF MemoSpec

\* The slot and every query keep their types: ages stay within the time to live, and
\* what is stored or answered is a vector of one of the engines.
THEOREM MemoTypeCorrect == MemoSpec => []MemoTypeOK
<1>1. MemoInv => MemoTypeOK
  BY DEF MemoInv
<1>. QED  BY <1>1, MemoInvariant, PTL

\* A query gets the vector of its own text, and two lanes cost one inference but
\* for the named reasons, however many queries interleave.
THEOREM MemoKeepsContract == MemoSpec => []MemoContract
<1>1. MemoInv => MemoContract
  BY DEF MemoInv, CostInv, Cost, Excused, MemoContract, AnswersOwnText, OneInference
<1>. QED  BY <1>1, MemoInvariant, PTL
=============================================================================

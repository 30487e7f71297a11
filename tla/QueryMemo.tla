----------------------------- MODULE QueryMemo -----------------------------
(***************************************************************************)
(* The single-slot memo of the last query's embedding (main.rs,            *)
(* QueryEmbedCache and embed_query_cached). A query of the host is two     *)
(* calls with the same text, the code lane and then the docs lane, and is  *)
(* meant to cost one inference. The slot is behind a mutex that is not     *)
(* held across the inference, so calls of several queries interleave.      *)
(***************************************************************************)
EXTENDS Naturals

CONSTANTS
    Caller,   \* the host's concurrent queries, one at a time each
    Text,     \* query texts
    Engine,   \* engines a sidecar process may have resolved to
    Ttl,      \* QUERY_EMBED_CACHE_TTL, in ticks of the clock
    MaxAge,   \* bound: the model's clock stops telling ages apart here
    NoMemo    \* the empty slot

Vector == [text : Text, engine : Engine]   \* a pure function of text and model

Memo == [text : Text, blob : Vector, age : 0..MaxAge]

ASSUME QueryMemoAssumption == /\ Ttl \in Nat \ {0}
                              /\ MaxAge \in Nat /\ MaxAge >= Ttl
                              /\ NoMemo \notin Vector \cup Memo

VARIABLES
    engine,   \* the engine of this process, for its lifetime
    memo,     \* the slot: a text, its vector and its age, or NoMemo
    query     \* what each caller is doing
memoVars == <<engine, memo, query>>

\* lane: the call under way or the last one made; misses: the inferences this
\* query cost; since: the age of the code lane's answer; spoiled: what excuses a
\* second inference happened since that answer
Query == [state : {"asking", "inferring", "storing", "answered"}, lane : {"code", "docs"},
          text : Text, blob : Vector \cup {NoMemo}, misses : 0..2, since : 0..MaxAge,
          spoiled : BOOLEAN]

Quiet == [state |-> "quiet"]

MemoTypeOK == /\ engine \in Engine
              /\ memo \in Memo \cup {NoMemo}
              /\ query \in [Caller -> Query \cup {Quiet}]

MemoInit == /\ engine \in Engine
            /\ memo = NoMemo
            /\ query = [c \in Caller |-> Quiet]

\* The code lane of a new query
Ask(c, t) ==
    /\ query[c] = Quiet
    /\ query' = [query EXCEPT ![c] = [state |-> "asking", lane |-> "code", text |-> t,
                                      blob |-> NoMemo, misses |-> 0, since |-> 0,
                                      spoiled |-> FALSE]]
    /\ UNCHANGED <<engine, memo>>

\* The docs lane of the same query, after whatever the host did in between
AskDocs(c) ==
    /\ query[c].state = "answered"
    /\ query[c].lane = "code"
    /\ query' = [query EXCEPT ![c].state = "asking", ![c].lane = "docs",
                              ![c].blob = NoMemo]
    /\ UNCHANGED <<engine, memo>>

\* Mutant: the bound is shorter than the gap between the two lanes
ServesBriefly(entry, text) == entry # NoMemo /\ entry.text = text /\ entry.age + 1 < Ttl

\* Mutant: whatever is in the slot answers
ServesAny(entry, text) == entry # NoMemo /\ entry.age < Ttl

Serves(entry, text) == entry # NoMemo /\ entry.text = text /\ entry.age < Ttl

\* The first half of embed_query_cached, under the mutex
Answered(q, blob) == [q EXCEPT !.state = "answered", !.blob = blob]

Hit(c) ==
    /\ query[c].state = "asking"
    /\ Serves(memo, query[c].text)
    /\ query' = [query EXCEPT ![c] = Answered(@, memo.blob)]
    /\ UNCHANGED <<engine, memo>>

Miss(c) ==
    /\ query[c].state = "asking"
    /\ ~Serves(memo, query[c].text)
    /\ query' = [query EXCEPT ![c].state = "inferring", ![c].misses = @ + 1]
    /\ UNCHANGED <<engine, memo>>

\* The inference, with the mutex free
Infer(c) ==
    /\ query[c].state = "inferring"
    /\ query' = [query EXCEPT ![c].state = "storing",
                              ![c].blob = [text |-> query[c].text, engine |-> engine]]
    /\ UNCHANGED <<engine, memo>>

\* embed_query failed: the error goes to the host, the slot stays as it is
InferFails(c) ==
    /\ query[c].state = "inferring"
    /\ query' = [query EXCEPT ![c].state = "answered", ![c].spoiled = TRUE]
    /\ UNCHANGED <<engine, memo>>

Entry(q) == [text |-> q.text, blob |-> q.blob, age |-> 0]

\* a store of another text is what a query that has its code lane behind it
\* may be excused by
Store(c) ==
    /\ query[c].state = "storing"
    /\ memo' = Entry(query[c])
    /\ query' = [d \in Caller |->
                   IF d = c THEN Answered(query[c], query[c].blob)
                   ELSE IF query[d] # Quiet /\ query[d].text # query[c].text
                        THEN [query[d] EXCEPT !.spoiled = @ \/ query[d].lane = "docs"
                                                             \/ query[d].state = "answered"]
                        ELSE query[d]]
    /\ UNCHANGED engine

Done(c) ==
    /\ query[c].state = "answered"
    /\ query' = [query EXCEPT ![c] = Quiet]
    /\ UNCHANGED <<engine, memo>>

Older(age) == IF age < MaxAge THEN age + 1 ELSE age

\* Time passes, for the slot and for the queries that have an answer behind them
Tick ==
    /\ memo' = IF memo = NoMemo THEN NoMemo ELSE [memo EXCEPT !.age = Older(@)]
    /\ query' = [c \in Caller |->
                   IF query[c] = Quiet \/ (query[c].lane = "code" /\ query[c].state # "answered")
                   THEN query[c] ELSE [query[c] EXCEPT !.since = Older(@)]]
    /\ UNCHANGED engine

\* The process dies with its callers' requests, and another one loads, perhaps
\* on another engine (module Sidecar)
Restart ==
    /\ engine' \in Engine
    /\ memo' = NoMemo
    /\ query' = [c \in Caller |-> Quiet]

MemoNext ==
    \/ \E c \in Caller : \/ \E t \in Text : Ask(c, t)
                         \/ AskDocs(c) \/ Hit(c) \/ Miss(c) \/ Infer(c) \/ InferFails(c)
                         \/ Store(c) \/ Done(c)
    \/ Tick
    \/ Restart

MemoSpec == MemoInit /\ [][MemoNext]_memoVars

(***************************************************************************)
(* Properties.                                                             *)
(***************************************************************************)

\* A hit is the vector this process would have computed for that text, whatever
\* other queries, failures and restarts came between.
AnswersOwnText ==
    \A c \in Caller : (query[c] # Quiet /\ query[c].blob # NoMemo) =>
        query[c].blob = [text |-> query[c].text, engine |-> engine]

\* "One inference, two searches" (plan section 4.4, the comment of
\* QueryEmbedCache): the docs lane of a query costs no second inference, unless
\* the code lane's failed, the two are a time to live apart, or another query
\* stored its vector in the one slot between them.
OneInference ==
    \A c \in Caller : (query[c] # Quiet /\ query[c].misses > 1) =>
        query[c].spoiled \/ query[c].since >= Ttl

\* The contract of the memo, for one query and across the interleaved ones.
MemoContract == AnswersOwnText /\ OneInference
=============================================================================

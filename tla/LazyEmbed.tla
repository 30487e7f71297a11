------------------------------ MODULE LazyEmbed ------------------------------
(***************************************************************************)
(* Queries that embed nodes on the fly while passes run.                   *)
(*                                                                         *)
(* The serving process answers a query the index has too few results for   *)
(* by embedding some pending nodes the query names.  It reads their texts  *)
(* from graph.db, embeds them, and a background thread inserts the rows    *)
(* into embed.db.  The serving process and the sidecar that runs a pass    *)
(* know nothing of each other: a pass may invalidate, acknowledge, select  *)
(* and commit between any two of these steps.                              *)
(***************************************************************************)
EXTENDS Freshness

CONSTANTS
  Query,       \* queries that can be under way, their threads included
  Served,      \* the model of the serving process
  LazyLimit    \* candidates of a query, at most

ASSUME LazyAssumption == Served \in Model /\ LazyLimit \in Nat \ {0}

VARIABLES
  lazy,     \* digest of each text a query has read and not yet inserted
  raced     \* history: nodes whose row of the served model a query inserted
            \* after the node's text had changed

lvars == <<vars, lazy, raced>>

LazyTypeOK ==
  /\ TypeOK
  /\ lazy \in [Query -> [Node -> Text \cup {Fallback, NoRow}]]
  /\ raced \subseteq Node

LazyInit ==
  /\ Init
  /\ lazy = [q \in Query |-> NothingHeld]
  /\ raced = {}

\* The rows inserted late that are still there.
RacedLeft == {n \in raced : vec'[n][Served] = vec[n][Served]}

-----------------------------------------------------------------------------
\* fts_candidates_unembedded: some of the pending nodes of the served model, of
\* both spaces, with their texts.
LazyRead(q, S) ==
  /\ lazy[q] = NothingHeld
  /\ S # {} /\ S \subseteq Pending(node, vec, Served) /\ Cardinality(S) <= LazyLimit
  /\ lazy' = [lazy EXCEPT ![q] =
                [n \in Node |-> IF n \in S THEN EmbedInput(node[n]) ELSE NoRow]]
  /\ UNCHANGED <<vars, raced>>

\* Faulty variant: the rows replace what is there.
InsertedReplacing(p) == {n \in Node : p[n] # NoRow}

\* INSERT OR IGNORE: the rows of p that are really inserted.
Inserted(p) == {n \in Node : p[n] # NoRow /\ vec[n][Served] = NoRow}

\* persist_lazy_embeddings, in its thread.
LazyPersist(q) ==
  /\ lazy[q] # NothingHeld
  /\ LET new == Inserted(lazy[q]) IN
     /\ vec' = [n \in Node |->
                  IF n \in new THEN [vec[n] EXCEPT ![Served] = lazy[q][n]] ELSE vec[n]]
     /\ raced' = RacedLeft \cup {n \in new : lazy[q][n] # EmbedInput(node[n])}
  /\ lazy' = [lazy EXCEPT ![q] = NothingHeld]
  /\ UNCHANGED <<graphVars, passVars, touched>>

\* Embedding or inserting fails, which is not fatal, or the process ends.
LazyDrop(q) ==
  /\ lazy[q] # NothingHeld
  /\ lazy' = [lazy EXCEPT ![q] = NothingHeld]
  /\ UNCHANGED <<vars, raced>>

Serving ==
  \E q \in Query :
    \/ \E S \in SUBSET Node : LazyRead(q, S)
    \/ LazyPersist(q)
    \/ LazyDrop(q)

\* A step of the daemon or of a pass.
Elsewhere(A) == A /\ raced' = RacedLeft /\ UNCHANGED lazy

LazyNext == Elsewhere(Next) \/ Serving

LazySpec == LazyInit /\ [][LazyNext]_lvars

\* A pass that runs goes on to its end, and the daemon keeps starting passes
\* for each model over the whole repository.
Fairness ==
  /\ WF_vars(\E S \in SUBSET Node : SelectChunk(S) \/ CommitRows(S))
  /\ WF_vars(EndPass)
  /\ \A m \in Model : SF_vars(BeginPass(m, Node))

\* From some time on nothing is edited and no pass dies; queries go on.
Quiet == <>[][Elsewhere(Progress) \/ Serving]_lvars

LazyFairSpec == LazySpec /\ Fairness /\ Quiet

-----------------------------------------------------------------------------
(* Properties.                                                             *)

\* A query that inserts a row late is the only way in which a row of an outdated
\* text escapes the tombstone log; every other row is covered as in Freshness.
StaleUnlessRaced ==
  \A n \in Node, m \in Model :
    vec[n][m] \in Text /\ vec[n][m] # node[n] =>
      n \in tomb \cup pruned \/ (m = Served /\ n \in raced)

\* A row that matches its node's text is deleted or overwritten, while the node
\* stays as it is, only by a pass that read the node before the row was there.
FreshUnlessHeld ==
  [][\A n \in Node, m \in Model :
       /\ vec[n][m] = node[n] /\ node'[n] = node[n]
       /\ m # cur \/ held[n] = NoRow
       => vec'[n][m] = vec[n][m]]_lvars

\* Every other node than a document ends with a vector of its text, except one
\* whose row was never hashed or came from the made-up text, one whose tombstone
\* is lost, and one a query inserted late.
CodeConverges ==
  \A m \in Model :
    <>[](\A n \in Node \ (DocNode \cup pruned \cup raced) :
           node[n] \in Text => vec[n][m] \in {node[n], Fallback, NoHash})

\* Vectors of deleted nodes go, whoever inserted them and when.
OrphansGo ==
  \A m \in Model : <>[](\A n \in Node : node[n] = Absent => vec[n][m] = NoRow)
=============================================================================

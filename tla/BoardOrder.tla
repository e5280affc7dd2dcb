----------------------------- MODULE BoardOrder -----------------------------
(***************************************************************************)
(* The order of the cards on a board                                       *)
(* (apps/api/src/work/card.service.ts, rebalance.ts).                      *)
(*                                                                         *)
(* A person drops a card between two others.  moveCard reads the ranks of  *)
(* the two and writes one between them; where there is none it rewrites    *)
(* the whole list and tries again.  Each request is one READ COMMITTED     *)
(* transaction: every statement sees what has committed, and what the      *)
(* transaction wrote itself; rows it wrote stay locked until it commits.   *)
(* Requests that wait for each other's rows are a deadlock, which Postgres *)
(* ends by aborting one of them.                                           *)
(*                                                                         *)
(* Cards are numbered by id.                                               *)
(***************************************************************************)
EXTENDS Rank, FiniteSets

CONSTANTS
    Card,
    Lists,
    Boards,       \* what the board may be at first: list and rank of each card
    Mover,        \* requests that may be open at once
    MoveBound     \* bound: requests

Nowhere == "nowhere"
None == 0

ASSUME BoardAssumption ==
    /\ Card \subseteq Nat \ {None} /\ IsFiniteSet(Card)
    /\ Nowhere \notin Lists
    /\ \A b \in Boards : /\ b.list \in [Card -> Lists \cup {Nowhere}]
                         /\ b.rank \in [Card -> Seq(Int)]
                         /\ \A c \in Card : b.list[c] # Nowhere <=> isRank(b.rank[c])
    /\ MoveBound \in Nat

VARIABLES
    list,       \* cards.list_id, Nowhere before the card exists
    rank,       \* cards.rank
    archived,   \* cards with archived_at
    phase,      \* where each mover's request is
    drag,       \* what it asks for: card, list, the cards to be next to
    order,      \* the rows rebalanceList read, in order
    writes,     \* ranks it has rewritten and not committed
    to,         \* the rank it will give its card
    moves,
    \* History, for the properties.
    shown,      \* the list as the person saw it when they let go
    stale,      \* movers that others have overtaken since
    unsure      \* cards placed by one of those, or beside archived cards

vars == <<list, rank, archived, phase, drag, order, writes, to, moves, shown,
          stale, unsure>>

Idle == {"idle", "failed"}
Phase == Idle \cup {"dropped", "repair", "rewrite", "repaired", "ready", "create"}
NoDrag == [card |-> None, list |-> Nowhere, before |-> None, after |-> None]

Before(c, d, r) == Less(r[c], r[d]) \/ (r[c] = r[d] /\ c < d)

\* A set of cards in the order of (rank, id).
InOrder(S, r) ==
    LET Place(c) == 1 + Cardinality({d \in S : Before(d, c, r)})
    IN [i \in 1..Cardinality(S) |-> CHOOSE c \in S : Place(c) = i]

In(l) == {c \in Card : list[c] = l}
Live(l) == In(l) \ archived

\* What a mover reads: its own writes over what has committed.
Sees(m) == [c \in Card |-> IF c \in DOMAIN writes[m] THEN writes[m][c] ELSE rank[c]]

Locked(c, m) == \E n \in Mover \ {m} : c \in DOMAIN writes[n]

TypeOK ==
    /\ list \in [Card -> Lists \cup {Nowhere}]
    /\ \A c \in Card : list[c] # Nowhere <=> isRank(rank[c])
    /\ archived \subseteq Card
    /\ phase \in [Mover -> Phase]
    /\ \A m \in Mover :
          /\ DOMAIN writes[m] \subseteq Card
          /\ \A c \in DOMAIN writes[m] : isRank(writes[m][c])
          /\ to[m] # Null => isRank(to[m])
    /\ moves \in 0..MoveBound
    /\ stale \subseteq Mover
    /\ unsure \subseteq Card

Tied(c, d) == c # d /\ list[c] = list[d] /\ list[c] # Nowhere /\ rank[c] = rank[d]

Init ==
    /\ \E b \in Boards : list = b.list /\ rank = b.rank
    /\ unsure = {c \in Card : \E d \in Card : Tied(c, d)}
    /\ archived = {}
    /\ phase = [m \in Mover |-> "idle"]
    /\ drag = [m \in Mover |-> NoDrag]
    /\ order = [m \in Mover |-> <<>>]
    /\ writes = [m \in Mover |-> <<>>]
    /\ to = [m \in Mover |-> Null]
    /\ moves = 0
    /\ shown = [m \in Mover |-> <<>>]
    /\ stale = {}

-----------------------------------------------------------------------------
Goto(m, p) == phase' = [phase EXCEPT ![m] = p]

MayAsk(m) == phase[m] \in Idle /\ moves < MoveBound

Ask(m, p, c, l, before, after, seen) ==
    /\ MayAsk(m)
    /\ moves' = moves + 1
    /\ Goto(m, p)
    /\ drag' = [drag EXCEPT ![m] =
                   [card |-> c, list |-> l, before |-> before, after |-> after]]
    /\ shown' = [shown EXCEPT ![m] = seen]
    /\ stale' = stale \ {m}

At(s, i) == IF i \in DOMAIN s THEN s[i] ELSE None

\* A person lets go of a card after the i-th of the others they see there.
Drop(m, c, l, i) ==
    LET others == InOrder(Live(l) \ {c}, rank)
    IN /\ MayAsk(m)
       /\ list[c] # Nowhere /\ c \notin archived
       /\ i <= Len(others)
       /\ Ask(m, "dropped", c, l, At(others, i), At(others, i + 1),
              SubSeq(others, 1, i) \o <<c>> \o SubSeq(others, i + 1, Len(others)))
       /\ UNCHANGED <<list, rank, archived, order, writes, to, unsure>>

\* loadSiblings, rankOfNeighbour and between: a neighbour that is not there is
\* a 404.
rankOfNeighbour(m, c) == IF c = None THEN Null ELSE Sees(m)[c]

Siblings(m) == Live(drag[m].list) \ {drag[m].card}

NeighboursFound(m) ==
    {drag[m].before, drag[m].after} \subseteq Siblings(m) \cup {None}

PlaceBetween(m, otherwise) ==
    LET r == between(rankOfNeighbour(m, drag[m].before),
                     rankOfNeighbour(m, drag[m].after))
    IN \/ /\ NeighboursFound(m) /\ r # Null
          /\ to' = [to EXCEPT ![m] = r]
          /\ Goto(m, "ready")
          /\ UNCHANGED writes
       \/ /\ NeighboursFound(m) /\ r = Null /\ otherwise # "failed"
          /\ Goto(m, otherwise)
          /\ UNCHANGED <<to, writes>>
       \/ /\ ~NeighboursFound(m) \/ (r = Null /\ otherwise = "failed")
          /\ Goto(m, "failed")
          /\ writes' = [writes EXCEPT ![m] = <<>>]
          /\ UNCHANGED to

ReadNeighbours(m) ==
    /\ phase[m] = "dropped"
    /\ PlaceBetween(m, "repair")
    /\ UNCHANGED <<list, rank, archived, drag, order, moves, shown, stale,
                   unsure>>

ColumnById(l) == InOrder(In(l), [c \in Card |-> Null])

\* rebalanceList reads every card of the list, the archived ones too ...
Column(l) == InOrder(In(l), rank)

ReadColumn(m) ==
    /\ phase[m] = "repair"
    /\ order' = [order EXCEPT ![m] = Column(drag[m].list)]
    /\ Goto(m, IF In(drag[m].list) = {} THEN "repaired" ELSE "rewrite")
    /\ UNCHANGED <<list, rank, archived, drag, writes, to, moves, shown, stale,
                   unsure>>

\* ... and rewrites them one by one, by card id, wherever they are by then.
Rest(m) == {i \in DOMAIN order[m] : order[m][i] \notin DOMAIN writes[m]}
NextIndex(m) == {i \in Rest(m) : \A j \in Rest(m) : i <= j}

RewriteRow(m) ==
    /\ phase[m] = "rewrite"
    /\ \E i \in NextIndex(m) :
          LET c == order[m][i]
          IN /\ ~Locked(c, m)
             /\ writes' = [writes EXCEPT ![m] =
                   [d \in {c} \cup DOMAIN writes[m] |->
                       IF d = c THEN rankSequence(Len(order[m]))[i] ELSE writes[m][d]]]
             /\ \/ /\ Rest(m) = {i}
                   /\ Goto(m, "repaired")
                   /\ order' = [order EXCEPT ![m] = <<>>]
                \/ Rest(m) # {i} /\ UNCHANGED <<phase, order>>
    /\ UNCHANGED <<list, rank, archived, drag, to, moves, shown, stale, unsure>>

\* A second InvalidRankError is not caught: a 500, and nothing is kept.
ReadAgain(m) ==
    /\ phase[m] = "repaired"
    /\ PlaceBetween(m, "failed")
    /\ UNCHANGED <<list, rank, archived, drag, order, moves, shown, stale,
                   unsure>>

\* createCard goes last, after the archived ones too; the project's counter
\* row, which it updates first, lets in one at a time.
EndOf(l) ==
    IF In(l) = {} THEN between(Null, Null)
    ELSE between(rank[InOrder(In(l), rank)[Cardinality(In(l))]], Null)

CreateCard(m, c, l) ==
    /\ list[c] = Nowhere
    /\ \A n \in Mover : phase[n] # "create"
    /\ Ask(m, "create", c, l, None, None, Append(InOrder(Live(l), rank), c))
    /\ to' = [to EXCEPT ![m] = EndOf(l)]
    /\ UNCHANGED <<list, rank, archived, order, writes, unsure>>

Others(m) == {n \in Mover \ {m} : phase[n] \notin Idle}

\* The card's own row, unconditionally, and the commit.
CommitMove(m) ==
    LET c == drag[m].card
        beside == m \in stale \/ In(drag[m].list) \cap archived # {}
    IN /\ phase[m] \in {"ready", "create"}
       /\ ~Locked(c, m)
       /\ list' = [list EXCEPT ![c] = drag[m].list]
       /\ rank' = [Sees(m) EXCEPT ![c] = to[m]]
       /\ unsure' = CASE beside -> unsure \cup {c} \cup DOMAIN writes[m]
                      [] OTHER -> unsure \ ({c} \cup DOMAIN writes[m])
       /\ writes' = [writes EXCEPT ![m] = <<>>]
       /\ to' = [to EXCEPT ![m] = Null]
       /\ drag' = [drag EXCEPT ![m] = NoDrag]
       /\ stale' = stale \cup Others(m)
       /\ Goto(m, "idle")
       /\ UNCHANGED <<archived, order, moves, shown>>

\* The row a request is about to write, which it waits for while another has
\* written it.
Wants(m) == CASE phase[m] = "rewrite" -> {order[m][i] : i \in NextIndex(m)}
              [] phase[m] = "ready"   -> {drag[m].card}
              [] OTHER                -> {}

WaitsFor(m, n) == m # n /\ Wants(m) \cap DOMAIN writes[n] # {}

\* Requests wait for each other in a circle, and Postgres aborts one of them:
\* moveCard does not try again, the drag fails and nothing of it is kept.
Abort(m) ==
    /\ \E circle \in SUBSET Mover :
          /\ m \in circle
          /\ \A n \in circle : /\ \E k \in circle : WaitsFor(n, k)
                              /\ \E k \in circle : WaitsFor(k, n)
    /\ Goto(m, "failed")
    /\ order' = [order EXCEPT ![m] = <<>>]
    /\ writes' = [writes EXCEPT ![m] = <<>>]
    /\ to' = [to EXCEPT ![m] = Null]
    /\ UNCHANGED <<list, rank, archived, drag, moves, shown, stale, unsure>>

\* Archiving, or restoring; it does not look at ranks.
archiveCard(c) ==
    /\ list[c] # Nowhere
    /\ \A m \in Mover : c \notin DOMAIN writes[m]
    /\ moves < MoveBound
    /\ moves' = moves + 1
    /\ archived' = IF c \in archived THEN archived \ {c} ELSE archived \cup {c}
    /\ stale' = stale \cup {n \in Mover : phase[n] \notin Idle}
    /\ UNCHANGED <<list, rank, phase, drag, order, writes, to, shown, unsure>>

-----------------------------------------------------------------------------
Next ==
    \/ \E m \in Mover, c \in Card, l \in Lists : \E i \in 0..Cardinality(Card) :
          Drop(m, c, l, i)
    \/ \E m \in Mover, c \in Card, l \in Lists : CreateCard(m, c, l)
    \/ \E c \in Card : archiveCard(c)
    \/ \E m \in Mover : ReadNeighbours(m)
    \/ \E m \in Mover : ReadColumn(m)
    \/ \E m \in Mover : RewriteRow(m)
    \/ \E m \in Mover : ReadAgain(m)
    \/ \E m \in Mover : CommitMove(m)
    \/ \E m \in Mover : Abort(m)

Spec == Init /\ [][Next]_vars

-----------------------------------------------------------------------------
(* Properties. *)

\* "A drag is a SINGLE-ROW write and no neighbour is touched", and a rebalance
\* "must preserve what the user arranged": a request nobody overtook leaves the
\* list exactly as the person saw it when they let go, in whatever way its rank
\* was found.
LandsWhereDropped ==
    [][\A m \in Mover, l \in Lists :
          /\ phase[m] \in {"ready", "create"} /\ phase'[m] = "idle"
          /\ drag[m].list = l /\ m \notin stale
          => InOrder(Live(l)', rank') = shown[m]]_vars

\* A request that nobody overtook fails in one way: it is repairing its list, and
\* another that repairs another list, or was itself overtaken, holds rows it waits
\* for.  Ties and crowded places by themselves never stop a drag (moveCard), and
\* two repairs of one list take its rows in one order (rebalanceList).
OnlyCrossingRepairsFail ==
    [][\A m \in Mover \ stale :
          phase[m] \notin Idle /\ phase'[m] = "failed"
          => /\ DOMAIN writes[m] # {}
             /\ \E n \in Mover \ {m} :
                   /\ DOMAIN writes[n] # {}
                   /\ n \in stale \/ drag[n].list # drag[m].list]_vars

\* Two cards of a list share a rank only if one of them was placed by a request
\* that was overtaken ("two clients inserting at the same point concurrently"),
\* or beside archived cards, which moveCard does not look at.
TiesNeedOverlap ==
    \A c, d \in Card : Tied(c, d) => {c, d} \cap unsure # {}
=============================================================================

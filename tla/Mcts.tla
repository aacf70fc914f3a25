-------------------------------- MODULE Mcts --------------------------------
(***************************************************************************)
(* NodeSet, Node and MctsEngine of connect4/connect4.cpp, and the matches  *)
(* that drive the engine. A tree of stages, shared by its transpositions,  *)
(* is grown by playouts: visit goes down to a leaf and expands the nodes   *)
(* that have been tried often enough, play finishes the game at random,    *)
(* and the leaf and all its ancestors are credited with the result. In     *)
(* between a match makes moves, which enter the tree too.                  *)
(*                                                                         *)
(* A random move is an arbitrary one, and so is the child that has the     *)
(* best UCB1 score, a comparison of doubles. The ratios by which a match   *)
(* chooses a learned move are compared as fractions.                       *)
(***************************************************************************)
EXTENDS Board, Sequences, SequencesExt

CONSTANTS
  ToExpand,    \* after how many tries a node is expanded; the program has 15
  MaxPlayouts, \* bound: how many playouts are run
  MaxMoves,    \* bound: how many moves the matches make
  MaxCalls     \* bound: how many of both

ASSUME MctsAssumption ==
  /\ ToExpand \in Nat \ {0}
  /\ MaxPlayouts \in Nat
  /\ MaxMoves \in Nat
  /\ MaxCalls \in Nat

VARIABLES
  nodes,    \* NodeSet: digest -> Node
  game,     \* the stage of the match
  pc,       \* where the engine is
  at,       \* the node that visit has reached, top_node from then on
  todo,     \* the moves that expand has still to register
  rollout,  \* the stage that play has reached
  winner,   \* the winner of the rollout, or Nobody
  queue,    \* the queue of playout: nodes to credit
  visited,  \* visited_nodes of playout
  playouts, \* how many playouts have been started
  moves     \* how many moves the matches have made

locals == <<at, todo, rollout, winner, queue, visited>>
vars == <<nodes, game, pc, locals, playouts, moves>>

Nobody == 2

Digest(stage) == stage.merged.digest
Root == Digest(InitialStage)

NewNode(stage) ==
  [stage |-> stage, tried |-> 0, won |-> [p \in Players |-> 0],
   expanded |-> FALSE, children |-> <<>>, parents |-> <<>>]

\* NodeSet::add: the node that is there already is kept.
Add(tree, stage) ==
  [n \in DOMAIN tree \cup {Digest(stage)} |->
    IF n \in DOMAIN tree THEN tree[n] ELSE NewNode(stage)]

\* Mutated Link: the stage is not registered.
LinkUnregistered(tree, parent, stage) ==
  [tree EXCEPT ![parent].children = Append(@, Digest(stage))]

\* Mutated Link: the child is not told its parent.
LinkOneWay(tree, parent, stage) ==
  [Add(tree, stage) EXCEPT ![parent].children = Append(@, Digest(stage))]

\* Register a stage and make it a child of a node.
Link(tree, parent, stage) ==
  [Add(tree, stage) EXCEPT
     ![parent].children = Append(@, Digest(stage)),
     ![Digest(stage)].parents = Append(@, parent)]

Init ==
  /\ nodes = Add(<<>>, InitialStage)
  /\ game = InitialStage
  /\ pc = "idle"
  /\ at = Root
  /\ todo = {}
  /\ rollout = InitialStage
  /\ winner = Nobody
  /\ queue = <<>>
  /\ visited = {}
  /\ playouts = 0
  /\ moves = 0

-----------------------------------------------------------------------------
\* A column has one legal action at most, and legal_actions goes from left to right.
Leftmost(actions) == CHOOSE a \in actions : \A b \in actions : a[1] <= b[1]

Decided(node) == node.won[0] + node.won[1]

\* The match.

MoreCalls == playouts + moves < MaxCalls

\* Mutated Exceeds: whatever is not at most max_value exceeds it, NaN too.
ExceedsOrNaN(node, player, max) ==
  Decided(node) = 0 \/ node.won[player] * max.tried > max.won * Decided(node)

\* max_value < n_win / n_tried, where max_value is the ratio of a node, at first a positive
\* number that is smaller than any; 0 / 0 is NaN and not larger than anything.
Exceeds(node, player, max) ==
  node.won[player] * max.tried > max.won * Decided(node)

\* The moves of a stage whose node the engine has.
Known(stage) == {a \in LegalActions(stage.merged) : Digest(After(stage, a)) \in DOMAIN nodes}

\* The best action so far and its ratio, after the move of a column, if there is a known one.
Improved(stage, best, column) ==
  LET node(a) == nodes[Digest(After(stage, a))]
      better == {a \in Known(stage) : a[1] = column /\ Exceeds(node(a), stage.player, best)}
  IN  IF better = {} THEN best
      ELSE LET a == Leftmost(better)
           IN  [actions |-> {a}, won |-> node(a).won[stage.player], tried |-> Decided(node(a))]

\* MctsEngine::select: the first registered action of those with the best ratio of won to
\* decided games, none if no game was won. The loop goes through the columns.
Learned(stage) ==
  LET best[columns \in 0..ColumnSize] ==
        IF columns = 0 THEN [actions |-> {}, won |-> 0, tried |-> 1]
        ELSE Improved(stage, best[columns - 1], columns - 1)
  IN  best[ColumnSize].actions

\* The strategies of the players; they are swapped after each game, and may be the same.
Selected(strategy, stage) ==
  IF strategy = "Random" \/ Learned(stage) = {} THEN LegalActions(stage.merged)
  ELSE Learned(stage)

\* A player moves, if advance finds the move legal: the engine registers it, and a won game
\* is followed by the next one.
MatchMove(strategy, a) ==
  /\ pc = "idle" /\ moves < MaxMoves /\ MoreCalls
  /\ a \in Selected(strategy, game) \cap LegalActions(game.merged)
  /\ moves' = moves + 1
  /\ nodes' = Link(Add(nodes, game), Digest(game), After(game, a))
  /\ game' = IF ResultOf(game, a) = "Won" THEN InitialStage ELSE After(game, a)
  /\ UNCHANGED <<pc, locals, playouts>>

\* Nobody can move: the game is drawn.
MatchDraw ==
  /\ pc = "idle"
  /\ LegalActions(game.merged) = {}
  /\ game' = InitialStage
  /\ UNCHANGED <<nodes, pc, locals, playouts, moves>>

\* The engine is trained from the initial stage before the matches, and from the
\* stage of the match after each move.
StartPlayout ==
  /\ pc = "idle" /\ playouts < MaxPlayouts /\ MoreCalls
  /\ game = InitialStage => moves = 0
  /\ nodes' = Add(nodes, game)
  /\ at' = Digest(game)
  /\ pc' = "visit"
  /\ playouts' = playouts + 1
  /\ UNCHANGED <<game, todo, rollout, winner, queue, visited, moves>>

-----------------------------------------------------------------------------
\* visit

StartPlay ==
  /\ pc' = "play"
  /\ rollout' = nodes[at].stage
  /\ UNCHANGED at

VisitLeaf ==
  /\ pc = "visit" /\ nodes[at].tried < ToExpand
  /\ StartPlay
  /\ UNCHANGED <<nodes, game, todo, winner, queue, visited, playouts, moves>>

Wins(stage) == {a \in LegalActions(stage.merged) : ResultOf(stage, a) = "Won"}

\* Mutated Registered: expand returns after its first move, winning or not.
RegisteredFirst(stage) ==
  IF LegalActions(stage.merged) # {} THEN {Leftmost(LegalActions(stage.merged))} ELSE {}

\* The moves that expand registers: the first winning one, or else all of them.
Registered(stage) ==
  IF Wins(stage) # {} THEN {Leftmost(Wins(stage))} ELSE LegalActions(stage.merged)

\* A node that has been tried often enough is expanded, once.
VisitInner ==
  /\ pc = "visit" /\ nodes[at].tried >= ToExpand
  /\ IF nodes[at].expanded
     THEN UNCHANGED <<nodes, todo>>
     ELSE /\ nodes' = [nodes EXCEPT ![at].expanded = TRUE]
          /\ todo' = Registered(nodes[at].stage)
  /\ pc' = "expand"
  /\ UNCHANGED <<game, at, rollout, winner, queue, visited, playouts, moves>>

\* The loop of expand, from left to right.
ExpandMove ==
  /\ pc = "expand" /\ todo # {}
  /\ LET a == Leftmost(todo)
     IN /\ nodes' = Link(nodes, at, After(nodes[at].stage, a))
        /\ todo' = todo \ {a}
  /\ UNCHANGED <<game, pc, at, rollout, winner, queue, visited, playouts, moves>>

\* The first child without a decided game, or else the best one.
Selectable(parent) ==
  LET kids      == nodes[parent].children
      undecided == {k \in 1..Len(kids) : Decided(nodes[kids[k]]) = 0}
  IN  IF undecided # {} THEN {kids[Min(undecided)]} ELSE ToSet(kids)

\* select answers the node itself if it has no children, and visit ends there.
Select ==
  /\ pc = "expand" /\ todo = {}
  /\ \/ /\ nodes[at].children = <<>>
        /\ StartPlay
     \/ /\ at' \in Selectable(at)
        /\ pc' = "visit"
        /\ UNCHANGED rollout
  /\ UNCHANGED <<nodes, game, todo, winner, queue, visited, playouts, moves>>

-----------------------------------------------------------------------------
\* play

EndPlay(player) ==
  /\ winner' = player
  /\ pc' = "credit"
  /\ queue' = <<at>>
  /\ UNCHANGED rollout

\* A player who can win does; nobody can move on a full board.
PlayEnds ==
  /\ pc = "play"
  /\ \/ Wins(rollout) # {} /\ EndPlay(rollout.player)
     \/ LegalActions(rollout.merged) = {} /\ EndPlay(Nobody)
  /\ UNCHANGED <<nodes, game, at, todo, visited, playouts, moves>>

PlayRandom(a) ==
  /\ pc = "play"
  /\ a \in LegalActions(rollout.merged)
  /\ Wins(rollout) = {}
  /\ rollout' = After(rollout, a)
  /\ UNCHANGED <<nodes, game, pc, at, todo, winner, queue, visited, playouts, moves>>

-----------------------------------------------------------------------------
\* The end of playout: credit the result to the leaf and its ancestors.

Credited(node) ==
  [node EXCEPT !.tried = @ + 1,
               !.won = [p \in Players |-> IF p = winner THEN @[p] + 1 ELSE @[p]]]

\* Mutated CreditNode: a node is credited each time it is met.
CreditNodeAgain ==
  LET n == Head(queue) IN
    /\ visited' = visited \cup {n}
    /\ nodes' = [nodes EXCEPT ![n] = Credited(@)]
    /\ queue' = Tail(queue) \o nodes[n].parents

\* Mutated CreditNode: the parents are not visited.
CreditLeafOnly ==
  LET n == Head(queue) IN
    /\ visited' = visited \cup {n}
    /\ nodes' = [nodes EXCEPT ![n] = Credited(@)]
    /\ queue' = Tail(queue)

\* Mutated CreditNode: a node that has been visited goes back to the queue.
CreditNodeLater ==
  LET n == Head(queue) IN
    /\ visited' = visited \cup {n}
    /\ nodes' = [nodes EXCEPT ![n] = IF n \in visited THEN @ ELSE Credited(@)]
    /\ queue' = Tail(queue) \o (IF n \in visited THEN <<n>> ELSE nodes[n].parents)

CreditNode ==
  LET n == Head(queue) IN
    \/ /\ n \in visited
       /\ queue' = Tail(queue)
       /\ UNCHANGED <<nodes, visited>>
    \/ /\ n \notin visited
       /\ visited' = visited \cup {n}
       /\ nodes' = [nodes EXCEPT ![n] = Credited(@)]
       /\ queue' = Tail(queue) \o nodes[n].parents

Credit ==
  /\ pc = "credit" /\ queue # <<>>
  /\ CreditNode
  /\ UNCHANGED <<game, pc, at, todo, rollout, winner, playouts, moves>>

EndPlayout ==
  /\ pc = "credit" /\ queue = <<>>
  /\ pc' = "idle"
  /\ at' = Root /\ rollout' = InitialStage /\ winner' = Nobody /\ visited' = {}
  /\ UNCHANGED <<nodes, game, todo, queue, playouts, moves>>

-----------------------------------------------------------------------------

PlayoutStep ==
  \/ VisitLeaf \/ VisitInner \/ ExpandMove \/ Select \/ PlayEnds
  \/ \E a \in Cells : PlayRandom(a)
  \/ Credit \/ EndPlayout

\* The caller may stop between two calls.
Idle == pc = "idle" /\ UNCHANGED vars

Next ==
  \/ \E strategy \in {"Random", "OnlineMcts"}, a \in Cells : MatchMove(strategy, a)
  \/ MatchDraw \/ StartPlayout \/ PlayoutStep \/ Idle

Spec == Init /\ [][Next]_vars

\* The single thread runs a playout that has been started.
FairSpec == Spec /\ WF_vars(PlayoutStep)

-----------------------------------------------------------------------------
\* Properties

Nodes ==
  [stage : Stages, tried : 0..playouts, won : [Players -> 0..playouts], expanded : BOOLEAN,
   children : Seq(DOMAIN nodes), parents : Seq(DOMAIN nodes)]

\* Nodes are kept under the digest of their stage, and whoever refers to a node
\* refers to one that is in the set.
TypeOK ==
  /\ nodes \in [DOMAIN nodes -> Nodes]
  /\ \A n \in DOMAIN nodes :
       Digest(nodes[n].stage) = n /\ Decided(nodes[n]) <= nodes[n].tried
  /\ game \in Stages /\ rollout \in Stages
  /\ pc \in {"idle", "visit", "expand", "play", "credit"}
  /\ at \in DOMAIN nodes
  /\ todo \subseteq (IF pc = "expand" THEN LegalActions(nodes[at].stage.merged) ELSE {})
  /\ winner \in Players \cup {Nobody}
  /\ queue \in Seq(DOMAIN nodes)
  /\ visited \subseteq DOMAIN nodes
  /\ playouts \in 0..MaxPlayouts
  /\ moves \in 0..MaxMoves

Times(seq, n) == Cardinality({k \in 1..Len(seq) : seq[k] = n})

\* Somebody has completed a line: the game is decided.
HasLine(stage) ==
  \E p \in Players, a \in Cells :
    /\ ToIndex(a[1], a[2]) \in stage.boards[p].placed
    /\ Check(stage.boards[p].placed, a[1], a[2])

\* An edge from an undecided stage is a move: the child, however it came into the tree, is
\* the stage that the move leads to, turn included, although the digest it is found by
\* leaves the turn out. Only on a full board, where nobody can move, the turn may be that
\* of another game, which went on after somebody had won. The nodes at both ends of any
\* edge record it equally often.
EdgesAreMoves ==
  \A n \in DOMAIN nodes :
    /\ HasLine(nodes[n].stage) \/ \A c \in ToSet(nodes[n].children) :
         \E a \in LegalActions(nodes[n].stage.merged) :
           LET moved == After(nodes[n].stage, a) IN
             \/ nodes[c].stage = moved
             \/ /\ HasLine(moved) /\ Full(moved.merged)
                /\ nodes[c].stage = [moved EXCEPT !.player = 1 - @]
    /\ \A c \in DOMAIN nodes :
         Times(nodes[n].children, c) = Times(nodes[c].parents, n)

\* A playout is counted once in the root, on whatever and on however many ways the
\* leaf hangs below it.
CountedOnceInRoot == pc = "idle" => nodes[Root].tried = playouts

\* The ancestors of a set of nodes, itself included.
Above(set) == set \cup UNION {ToSet(nodes[n].parents) : n \in set}

\* Nobody is forgotten: at the end of a playout the leaf is credited, and whoever is
\* credited has all its parents credited.
CreditedUpward ==
  pc = "credit" /\ queue = <<>> => at \in visited /\ Above(visited) = visited

\* An expanded node, unless expand is at work on it, offers a winning move, or else every
\* legal one: select is never kept from a move that expand has seen, whoever registered
\* nodes before.
ExpandedOffersMoves ==
  \A n \in DOMAIN nodes : nodes[n].expanded /\ ~(n = at /\ todo # {}) =>
    LET legal == LegalActions(nodes[n].stage.merged)
        offered == {a \in legal : Digest(After(nodes[n].stage, a)) \in ToSet(nodes[n].children)}
    IN  offered = legal \/ \E a \in offered : ResultOf(nodes[n].stage, a) = "Won"

\* What the engine has learned for any of its stages: of the moves whose node it has, none
\* has won more often, as a share of the decided games, than the one it selects. A node
\* without a decided game, whose ratio is NaN, neither is selected nor hides a better one.
SelectsBest ==
  pc = "idle" => \A n \in DOMAIN nodes :
    LET stage == nodes[n].stage
        moved(a) == nodes[Digest(After(stage, a))]
        known == {a \in LegalActions(stage.merged) : Digest(After(stage, a)) \in DOMAIN nodes}
        wins(a) == moved(a).won[stage.player]
    IN  IF Learned(stage) = {} THEN \A a \in known : wins(a) = 0
        ELSE \E a \in known :
               /\ Learned(stage) = {a} /\ wins(a) > 0
               /\ \A b \in known : wins(b) * Decided(moved(a)) <= wins(a) * Decided(moved(b))

\* A playout that has been started comes to its end.
PlayoutsEnd == pc = "visit" ~> pc = "idle"

\* Whoever chooses a won node has won (ucb1: a player looks for the children with
\* which he can win): such a node counts no win of the other player. It fails, as play
\* does not look whether the stage it is given is won already.
WonIsWon ==
  \A n \in DOMAIN nodes :
    \A p \in ToSet(nodes[n].parents) :
      LET stage == nodes[p].stage IN
        (\E a \in LegalActions(stage.merged) :
           ResultOf(stage, a) = "Won" /\ Digest(After(stage, a)) = n)
        => nodes[n].won[1 - stage.player] = 0
=============================================================================

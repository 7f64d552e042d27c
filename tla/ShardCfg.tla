------------------------------ MODULE ShardCfg ------------------------------
(***************************************************************************)
(* The configurations of the sharded key/value service,                    *)
(* lab1/src/shardkv1/shardcfg/shardcfg.go: an assignment of shards to      *)
(* groups that is changed by JoinBalance and LeaveBalance.                 *)
(*                                                                         *)
(* A configuration is a record like ShardConfig; Groups is the set of      *)
(* group ids only, as every group has servers of its own.  Shards are      *)
(* numbered as in the array, and 0 is the group id of a shard that was     *)
(* never assigned.                                                         *)
(***************************************************************************)
EXTENDS Integers, FiniteSets, FiniteSetsExt

CONSTANTS
  NShards,
  Gids,      \* group ids
  MaxNum     \* bound: configuration numbers

ASSUME ShardAssumption ==
  /\ NShards \in 1..256
  /\ Gids \subseteq Nat \ {0}
  /\ MaxNum \in Nat

VARIABLES
  cfg,
  ok      \* what the last JoinBalance or LeaveBalance returned

vars == <<cfg, ok>>

ShardIds == 0..(NShards - 1)

MakeShardConfig ==
  [Num |-> 0, Shards |-> [s \in ShardIds |-> 0], Groups |-> {}]

Init ==
  /\ cfg = MakeShardConfig
  /\ ok = TRUE

-----------------------------------------------------------------------------
(* Rebalance *)

\* counts[g] of analyze
Load(c, g) == Cardinality({s \in ShardIds : c.Shards[s] = g})

\* The results of analyze: of the groups with the most, or the fewest,
\* shards the one with the smallest id.
MostLoaded(c) ==
  Min({g \in c.Groups : \A h \in c.Groups : Load(c, h) <= Load(c, g)})

LeastLoaded(c) ==
  IF c.Groups = {}
    THEN -1
    ELSE Min({g \in c.Groups : \A h \in c.Groups : Load(c, g) <= Load(c, h)})

Assign(c, s, g) == [c EXCEPT !.Shards[s] = g]

\* A loop over the shards, with c before it.
InOrder(Op(_, _), c) ==
  LET after[n \in 0..NShards] ==
        IF n = 0 THEN c ELSE Op(after[n - 1], n - 1)
  IN  after[NShards]

\* Mutant of AssignOrphan: every shard is assigned anew.
AssignAny(c, s) == Assign(c, s, LeastLoaded(c))

\* The first loop: a shard whose group is not there goes to the group that
\* has the fewest at that moment.
AssignOrphan(c, s) ==
  IF c.Shards[s] \in c.Groups THEN c ELSE Assign(c, s, LeastLoaded(c))

\* Mutant of Settled: off by one.
SettledNearly(c) == Load(c, MostLoaded(c)) < Load(c, LeastLoaded(c)) + 3

Settled(c) == Load(c, MostLoaded(c)) < Load(c, LeastLoaded(c)) + 2

\* One round of the second loop: the first shard of the group with the most
\* moves to the group with the fewest.  There are fewer rounds than shards.
MoveOne(c, round) ==
  IF Settled(c)
    THEN c
    ELSE Assign(c, Min({s \in ShardIds : c.Shards[s] = MostLoaded(c)}),
                LeastLoaded(c))

Rebalance(c) ==
  IF c.Groups = {}
    THEN [c EXCEPT !.Shards = [s \in ShardIds |-> 0]]
    ELSE InOrder(MoveOne, InOrder(AssignOrphan, c))

-----------------------------------------------------------------------------
(* JoinBalance and LeaveBalance of a set of groups.  A group that is there *)
(* already, or is not there, ends the loop with false: the groups that     *)
(* came before it have joined or left, without a new number and without    *)
(* rebalancing.                                                            *)

With(groups) == [cfg EXCEPT !.Groups = groups]

\* Join and Leave succeed with the new groups.
Change(groups) ==
  /\ cfg.Num < MaxNum
  /\ cfg' = Rebalance([With(groups) EXCEPT !.Num = @ + 1])
  /\ ok' = TRUE

JoinBalance(gids) ==
  /\ gids \cap cfg.Groups = {}
  /\ Change(cfg.Groups \cup gids)

LeaveBalance(gids) ==
  /\ gids \subseteq cfg.Groups
  /\ Change(cfg.Groups \ gids)

JoinFails(gids) ==
  /\ gids \cap cfg.Groups # {}
  /\ \E before \in SUBSET (gids \ cfg.Groups) :
       cfg' = With(cfg.Groups \cup before)
  /\ ok' = FALSE

LeaveFails(gids) ==
  /\ ~(gids \subseteq cfg.Groups)
  /\ \E before \in SUBSET (gids \cap cfg.Groups) :
       cfg' = With(cfg.Groups \ before)
  /\ ok' = FALSE

Next ==
  \E gids \in (SUBSET Gids) \ {{}} :
    \/ JoinBalance(gids)
    \/ LeaveBalance(gids)
    \/ JoinFails(gids)
    \/ LeaveFails(gids)

Spec == Init /\ [][Next]_vars

-----------------------------------------------------------------------------
(* Properties. *)

\* f assigns every shard to one of the groups, and no group has two shards
\* more than another.
Balanced(f, groups) ==
  /\ \A s \in ShardIds : f[s] \in groups
  /\ \A g, h \in groups :
       Cardinality({s \in ShardIds : f[s] = g})
         <= Cardinality({s \in ShardIds : f[s] = h}) + 1

\* What CheckConfig asks of a configuration that JoinBalance or LeaveBalance
\* has returned true for, even if calls before it have failed halfway; the
\* loop of Rebalance has come to its end.
CheckConfig ==
  ok => IF cfg.Groups = {}
          THEN \A s \in ShardIds : cfg.Shards[s] = 0
          ELSE Balanced(cfg.Shards, cfg.Groups)

\* Rebalance moves no more shards than any balanced assignment to the same
\* groups would have to: moving a shard means moving its data.
FewestMoves ==
  [][cfg'.Num # cfg.Num =>
       \A f \in [ShardIds -> cfg'.Groups] :
         Balanced(f, cfg'.Groups) =>
           Cardinality({s \in ShardIds : cfg'.Shards[s] # cfg.Shards[s]})
             <= Cardinality({s \in ShardIds : f[s] # cfg.Shards[s]})]_vars

=============================================================================

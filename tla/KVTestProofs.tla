--------------------------- MODULE KVTestProofs ---------------------------
(***************************************************************************)
(* Proofs about KVTest, for any number of clients, rounds and handlers     *)
(* left behind: no append is lost, what the clients count brackets the     *)
(* version on the server, none of the four tests calls Fatalf, and nobody  *)
(* goes on losing to faster clients for ever.                              *)
(*                                                                         *)
(* A Put uses a version its client has read, and when it is answered the   *)
(* server is past that version.  So a handler can perform a Put only while *)
(* its client still waits, and at most once; whether it has happened is    *)
(* all there is to know about a round.                                     *)
(***************************************************************************)
EXTENDS KVTest, FiniteSetTheorems, TLAPS

-----------------------------------------------------------------------------
(* The inductive invariant. *)

V == dataVersion[Key]
D == data[Key]

Vals == Entries \cup Seq(Entries)

PutOps == [Op : {"Put"}, Key : {Key}, Value : Vals, Version : Nat, id : {AnId}]

Answers == [Err : Errs, Value : Vals \cup {NoValue}, Version : Nat]

Pcs == {"loop", "put", "get", "done", "wait", "check", "passed", "fatal"}

TestTypes ==
  /\ test \in Tests
  /\ pc \in [Clients -> Pcs]
  /\ ver \in [Clients -> Nat]
  /\ err \in [Clients -> Errs]
  /\ nok \in [Clients -> Nat]
  /\ nmaybe \in [Clients -> Nat]

StateInv ==
  /\ TestTypes
  /\ data \in [Keys -> Vals \cup {NoValue}]
  /\ dataVersion \in [Keys -> Nat]
  /\ op \in [Clients -> PutOps \cup {GetOp(Key, AnId), NoOp}]
  /\ first \in [Clients -> BOOLEAN]
  /\ rpc \in [Clients -> {"idle", "sent", "dispatched", "replied"}]
  /\ reply \in [Clients -> Answers \cup {NoReply}]
  /\ result \in [Clients -> Answers \cup {NoReply}]
  /\ enabled \in [Clients -> BOOLEAN]
  /\ late \in [LateSlots -> PutOps \cup {NoOp}]

\* The server has the key once a version has been put.
StoreInv == D # NoValue <=> V > 0

\* The operation of c is answered, and how.
Answered(c) == rpc[c] \in {"replied", "idle"}

Ans(c) ==
  IF rpc[c] = "replied"
    THEN [Err     |-> ClerkErr(c),
          Value   |-> reply[c].Value,
          Version |-> reply[c].Version]
    ELSE result[c]

\* c waits for its Put and a handler may perform it.
Waits(c) == pc[c] = "put" /\ ~Answered(c)

\* The Put of a client has a version that is not ahead of the server, and
\* when it is answered the server is past it.
PutInv(c) ==
  pc[c] = "put" =>
    /\ rpc[c] # "idle" => op[c] \in PutOps /\ op[c].Version <= V
    /\ rpc[c] = "replied" =>
         /\ op[c].Version < V
         /\ reply[c] \in Answers
         /\ reply[c].Err \in {"OK", "ErrVersion"}
    /\ rpc[c] = "idle" =>
         result[c] \in Answers /\ result[c].Err \in {"OK", "ErrVersion", "ErrMaybe"}
    /\ Answered(c) => V > 0

\* A Get finds the key and reads a value with its version.
GetInv(c) ==
  pc[c] \in {"get", "check"} =>
    /\ V > 0
    /\ rpc[c] # "idle" => op[c] = GetOp(Key, AnId)
    /\ Answered(c) =>
         /\ Ans(c) \in Answers
         /\ Ans(c).Err = "OK"
         /\ Ans(c).Version > 0 /\ Ans(c).Version <= V
         /\ Ans(c).Version = V => Ans(c).Value = D

\* Nobody has an operation between two of them.
IdleInv(c) == pc[c] \in {"put", "get", "check"} \/ rpc[c] = "idle"

\* A handler left behind can still perform its Put only if the client that
\* sent it waits, and has sent it again.
LateInv ==
  \A s \in LateSlots : late[s] # NoOp =>
    \/ late[s].Version < V
    \/ \E c \in Clients : Waits(c) /\ ~first[c] /\ late[s] = op[c]

-----------------------------------------------------------------------------
(* The round that c is in: its Put has been performed, or it may have been. *)

Performed(c) ==
  \/ pc[c] = "put" /\ Answered(c) /\ Ans(c).Err = "OK"
  \/ test = "PutConcurrent" /\ pc[c] = "get" /\ err[c] = "OK"

MayBePerformed(c) ==
  \/ pc[c] = "put" /\ Answered(c) /\ Ans(c).Err # "ErrVersion"
  \/ Waits(c) /\ ~first[c] /\ op[c].Version < V
  \/ test = "PutConcurrent" /\ pc[c] = "get" /\ err[c] # "ErrVersion"

\* The number n of c's Puts that were performed is between what c has
\* counted as OK, and as OK or ErrMaybe.
Bracket(c, n) ==
  /\ nok[c] <= n /\ n <= Rounds(c) + 1
  /\ Performed(c) => nok[c] + 1 <= n
  /\ ~MayBePerformed(c) => n <= Rounds(c)

\* A client of a test with several.
RoundsInv(c) ==
  Concurrent /\ c \in Putters =>
    /\ pc[c] \in {"loop", "put", "get", "done"}
    /\ Rounds(c) > 0 => V > 0
    /\ pc[c] = "done" => Rounds(c) > 0

\* OneClientPut: c tries the version it has read; when its Put was performed
\* the next version holds its value.
PutterInv(c) ==
  test = "PutConcurrent" /\ c \in Putters =>
    /\ ver[c] <= V
    /\ pc[c] = "put" /\ rpc[c] # "idle" =>
         op[c].Value = Entry(c, ver[c]) /\ op[c].Version = ver[c]
    /\ Performed(c) => ver[c] < V /\ (V = ver[c] + 1 => D = Entry(c, ver[c]))
    /\ pc[c] = "get" /\ err[c] = "OK" /\ Answered(c)
         /\ Ans(c).Version = ver[c] + 1 => Ans(c).Value = Entry(c, ver[c])
    /\ pc[c] = "get" => err[c] # "ErrNoKey"

\* OneClientAppend: a Put that can be performed appends to the list that is
\* there, and the entries of c are of rounds that it has begun.
AppenderInv(c) ==
  test = "Append" /\ c \in Putters =>
    /\ pc[c] = "put" /\ rpc[c] # "idle" =>
         /\ op[c].Value \in Seq(Entries)
         /\ op[c].Version = V => op[c].Value = Append(D, Entry(c, Rounds(c)))
    /\ \A i \in Mine(D, c) :
         /\ D[i][2] <= Rounds(c)
         /\ ~MayBePerformed(c) => D[i][2] < Rounds(c)
    /\ pc[c] = "get" /\ Answered(c) => Ans(c).Value \in Seq(Entries)

\* On a reliable network that cuts nobody off there is one call to an
\* operation, and no ErrMaybe.
Reliable == ~Unreliable /\ ~Partitions

ReliableInv(c) ==
  Reliable =>
    /\ enabled[c] /\ first[c]
    /\ rpc[c] = "idle" /\ pc[c] = "put" => result[c].Err # "ErrMaybe"
    /\ err[c] # "ErrMaybe"
    /\ Concurrent => nmaybe[c] = 0

ClientInv(c) ==
  /\ PutInv(c)
  /\ GetInv(c)
  /\ IdleInv(c)
  /\ RoundsInv(c)
  /\ PutterInv(c)
  /\ AppenderInv(c)
  /\ ReliableInv(c)

-----------------------------------------------------------------------------
(* The tests as a whole. *)

\* The check comes when everybody is done, and sees what is there.  It fails
\* only if clients are cut off on a network that is called reliable.
CheckerInv ==
  Concurrent =>
    /\ pc[Checker] \in {"wait", "check", "passed", "fatal"}
    /\ pc[Checker] # "wait" => AllDone
    /\ pc[Checker] = "check" /\ Answered(Checker) =>
         Ans(Checker).Version = V /\ Ans(Checker).Value = D
    /\ pc[Checker] = "fatal" => ~Unreliable /\ Partitions

\* The sum of f over S, as Nok and Nmaybe have it.
Total(f, S) == MapThenSumSet(LAMBDA c : f[c], S)

\* PutConcurrent: the version on the server is the number of Puts performed,
\* and each client's share is bracketed by what the client has counted.
CountInv ==
  test = "PutConcurrent" =>
    \E p \in [Putters -> Nat] :
      /\ V = Total(p, Putters)
      /\ \A c \in Putters : Bracket(c, p[c])

\* Append: the entries of each client go up, and every round that was OK has
\* one.
ListInv ==
  test = "Append" =>
    /\ D \in Seq(Entries) /\ V = Len(D) + 1
    /\ \A i, j \in 1..Len(D) : i < j /\ D[i][1] = D[j][1] => D[i][2] < D[j][2]
    /\ \A c \in Putters : Bracket(c, Cardinality(Mine(D, c)))

\* The tests with one client: the server has the version the client tries,
\* or the next one.
OneClientInv ==
  ~Concurrent =>
    /\ \A c \in Putters : pc[c] = "done"
    /\ pc[Checker] \in {"loop", "put", "get", "passed"}
    /\ V > 0 => D = Entry(Checker, 0)
    /\ V \in {ver[Checker], ver[Checker] + 1}
    /\ nmaybe[Checker] \in {0, 1}
    /\ nmaybe[Checker] = 1 => test = "UnreliableNet" /\ V = ver[Checker] + 1
    /\ pc[Checker] = "loop" /\ nmaybe[Checker] = 0 => V = ver[Checker]
    /\ pc[Checker] = "put" /\ rpc[Checker] # "idle" =>
         /\ op[Checker].Value = Entry(Checker, nmaybe[Checker])
         /\ op[Checker].Version = ver[Checker]
    /\ pc[Checker] = "put" /\ Answered(Checker) =>
         /\ V = ver[Checker] + 1
         /\ nmaybe[Checker] = 1 => Ans(Checker).Err # "OK"
    /\ pc[Checker] = "get" =>
         /\ V = IF test = "AtLeastOnce" THEN ver[Checker] ELSE ver[Checker] + 1
         /\ Answered(Checker) => Ans(Checker).Version = V /\ Ans(Checker).Value = D

IInv ==
  /\ StateInv
  /\ StoreInv
  /\ \A c \in Clients : ClientInv(c)
  /\ LateInv
  /\ CheckerInv
  /\ CountInv
  /\ ListInv
  /\ OneClientInv

-----------------------------------------------------------------------------
(* Sums.  The library's induction theorems cannot be used here, as they    *)
(* have an operator as a parameter; that the strict subsets of a finite    *)
(* set are well-founded is enough.                                         *)

\* Induction over the subsets of a finite set.
LEMMA SubsetInduction ==
  ASSUME NEW S, IsFiniteSet(S), NEW Good,
         \A T \in SUBSET S :
           (\A U \in SUBSET T : U # T => U \in Good) => T \in Good
  PROVE  \A T \in SUBSET S : T \in Good
<1> DEFINE Bad == {T \in SUBSET S : T \notin Good}
<1> SUFFICES ASSUME Bad # {} PROVE FALSE
  OBVIOUS
<1>1. Bad \subseteq FiniteSubsetsOf(S)
  BY FS_FiniteSubsetsOfFinite
<1>2. IsWellFoundedOn(StrictSubsetOrdering(S), FiniteSubsetsOf(S))
  BY FS_StrictSubsetOrderingWellFounded
<1> HIDE DEF Bad
<1>3. PICK T \in Bad : \A U \in Bad : ~(<<U, T>> \in StrictSubsetOrdering(S))
  BY <1>1, <1>2, WFMin
<1>4. T \in SUBSET S /\ T \notin Good
  BY <1>3 DEF Bad
<1>5. \A U \in SUBSET T : U # T => U \in Good
  BY <1>3, <1>4 DEF Bad, StrictSubsetOrdering
<1> QED
  BY <1>4, <1>5

\* The element that MapThenSumSet takes first.
Chosen(s) == CHOOSE x \in s : TRUE

\* g solves the recursive equation of MapThenSumSet.
IsSum(g, f, S) ==
  g = [s \in SUBSET S |->
         IF s = {} THEN 0 ELSE f[Chosen(s)] + g[s \ {Chosen(s)}]]

\* MapThenSumSet looks for a solution of that equation.
LEMMA SumDef ==
  ASSUME NEW f, NEW S
  PROVE Total(f, S) = (CHOOSE g : IsSum(g, f, S))[S]
BY DEF Total, MapThenSumSet, MapThenFoldSet, Chosen, IsSum

\* Two partial sums agree where both are defined.
LEMMA SumUnique ==
  ASSUME NEW S, IsFiniteSet(S), NEW T, NEW U \in SUBSET T, T \in SUBSET S, NEW f,
         NEW g, NEW h, IsSum(g, f, T), IsSum(h, f, U)
  PROVE  \A s \in SUBSET U : g[s] = h[s]
<1> DEFINE Good == {s \in SUBSET U : g[s] = h[s]}
<1>0. IsFiniteSet(U)
  BY FS_Subset
<1>1. ASSUME NEW s \in SUBSET U,
             \A u \in SUBSET s : u # s => u \in Good
      PROVE  s \in Good
  <2>1. CASE s = {}
    BY <2>1 DEF IsSum
  <2>2. CASE s # {}
    <3>1. Chosen(s) \in s
      BY <2>2 DEF Chosen
    <3>2. g[s \ {Chosen(s)}] = h[s \ {Chosen(s)}]
      BY <1>1, <3>1
    <3>3. g[s] = f[Chosen(s)] + g[s \ {Chosen(s)}]
      BY <2>2 DEF IsSum
    <3>4. h[s] = f[Chosen(s)] + h[s \ {Chosen(s)}]
      BY <2>2 DEF IsSum
    <3> QED
      BY <3>2, <3>3, <3>4
  <2> QED
    BY <2>1, <2>2
<1> HIDE DEF Good
<1>2. \A s \in SUBSET U : s \in Good
  BY <1>0, <1>1, SubsetInduction
<1> QED
  BY <1>2 DEF Good

\* There is a solution: the solutions for smaller sets, put together.
LEMMA SumExists ==
  ASSUME NEW S, IsFiniteSet(S), NEW f
  PROVE  \A T \in SUBSET S : \E g : IsSum(g, f, T)
<1> DEFINE Good == {T \in SUBSET S : \E g : IsSum(g, f, T)}
           G(T) == CHOOSE g : IsSum(g, f, T)
<1>1. ASSUME NEW T \in SUBSET S,
             \A U \in SUBSET T : U # T => U \in Good
      PROVE  T \in Good
  <2>1. \A U \in SUBSET T : U # T => IsSum(G(U), f, U)
    BY <1>1
  <2>2. ASSUME NEW U \in SUBSET T, U # T, U # {}
        PROVE  G(U)[U] = f[Chosen(U)] + G(U \ {Chosen(U)})[U \ {Chosen(U)}]
    <3> DEFINE W == U \ {Chosen(U)}
    <3>1. W \in SUBSET U /\ W # T /\ W \in SUBSET T /\ U \in SUBSET S
      BY <2>2
    <3>2. IsSum(G(U), f, U) /\ IsSum(G(W), f, W)
      BY <2>1, <2>2, <3>1
    <3> HIDE DEF G, W
    <3>3. G(U)[W] = G(W)[W]
      BY <3>1, <3>2, SumUnique
    <3>4. G(U)[U] = f[Chosen(U)] + G(U)[W]
      BY <2>2, <3>2 DEF IsSum, W
    <3> QED
      BY <3>3, <3>4 DEF W
  <2>3. ASSUME {} # T
        PROVE  G({})[{}] = 0
    <3>1. IsSum(G({}), f, {})
      BY <2>1, <2>3
    <3> HIDE DEF G
    <3> QED
      BY <3>1 DEF IsSum
  <2> DEFINE top == IF T = {} THEN 0
                      ELSE f[Chosen(T)] + G(T \ {Chosen(T)})[T \ {Chosen(T)}]
             g == [s \in SUBSET T |-> IF s = T THEN top ELSE G(s)[s]]
  <2> HIDE DEF G, Good
  <2>4. ASSUME NEW s \in SUBSET T
        PROVE  g[s] = IF s = {} THEN 0 ELSE f[Chosen(s)] + g[s \ {Chosen(s)}]
    <3>1. s # {} => Chosen(s) \in s
      BY DEF Chosen
    <3>2. s # {} => s \ {Chosen(s)} # T /\ s \ {Chosen(s)} \in SUBSET T
      BY <3>1
    <3>3. CASE s = {} /\ s = T
      BY <3>3
    <3>4. CASE s = {} /\ s # T
      BY <2>3, <3>4
    <3>5. CASE s # {} /\ s = T
      BY <3>2, <3>5
    <3>6. CASE s # {} /\ s # T
      BY <2>2, <3>2, <3>6
    <3> QED
      BY <3>3, <3>4, <3>5, <3>6
  <2>5. g = [s \in SUBSET T |-> g[s]]
    OBVIOUS
  <2> HIDE DEF g
  <2>6. IsSum(g, f, T)
    BY <2>4, <2>5 DEF IsSum
  <2> QED
    BY <2>6 DEF Good
<1> HIDE DEF Good
<1>2. \A T \in SUBSET S : T \in Good
  BY <1>1, SubsetInduction
<1> QED
  BY <1>2 DEF Good

\* g sums up f over every subset of S.
Sums(g, f, S) ==
  /\ Total(f, S) = g[S]
  /\ g[{}] = 0
  /\ \A s \in SUBSET S :
       s # {} => Chosen(s) \in s /\ g[s] = f[Chosen(s)] + g[s \ {Chosen(s)}]

\* The sum is computed by taking out one element after the other.
LEMMA SumSteps ==
  ASSUME NEW S, IsFiniteSet(S), NEW f
  PROVE  \E g : Sums(g, f, S)
<1> DEFINE g == CHOOSE g : IsSum(g, f, S)
<1>1. IsSum(g, f, S)
  BY SumExists
<1>2. Total(f, S) = g[S]
  BY SumDef
<1> HIDE DEF g
<1>3. g[{}] = 0
  BY <1>1 DEF IsSum
<1>4. \A s \in SUBSET S : s # {} => Chosen(s) \in s
  BY DEF Chosen
<1>5. \A s \in SUBSET S : s # {} => g[s] = f[Chosen(s)] + g[s \ {Chosen(s)}]
  BY <1>1 DEF IsSum
<1> QED
  BY <1>2, <1>3, <1>4, <1>5 DEF Sums

\* A sum of natural numbers is one, and is not larger than that of larger
\* ones.
LEMMA SumMonotonic ==
  ASSUME NEW S, IsFiniteSet(S), NEW f, NEW h,
         \A x \in S : f[x] \in Nat /\ h[x] \in Nat /\ f[x] <= h[x]
  PROVE  Total(f, S) \in Nat /\ Total(h, S) \in Nat /\ Total(f, S) <= Total(h, S)
<1>1. PICK g : Sums(g, f, S)
  BY SumSteps
<1>2. PICK k : Sums(k, h, S)
  BY SumSteps
<1> DEFINE Good == {s \in SUBSET S : g[s] \in Nat /\ k[s] \in Nat /\ g[s] <= k[s]}
<1>3. ASSUME NEW s \in SUBSET S, \A u \in SUBSET s : u # s => u \in Good
      PROVE  s \in Good
  <2>1. CASE s = {}
    BY <1>1, <1>2, <2>1 DEF Sums
  <2>2. CASE s # {}
    <3> DEFINE u == s \ {Chosen(s)}
    <3>1. Chosen(s) \in S /\ u \in SUBSET s /\ u # s
      BY <1>1, <2>2 DEF Sums
    <3>2. g[u] \in Nat /\ k[u] \in Nat /\ g[u] <= k[u]
      BY <1>3, <3>1
    <3>3. g[s] = f[Chosen(s)] + g[u] /\ k[s] = h[Chosen(s)] + k[u]
      BY <1>1, <1>2, <2>2 DEF Sums
    <3>4. f[Chosen(s)] \in Nat /\ h[Chosen(s)] \in Nat /\ f[Chosen(s)] <= h[Chosen(s)]
      BY <3>1
    <3> HIDE DEF u
    <3>5. g[s] \in Nat /\ k[s] \in Nat /\ g[s] <= k[s]
      BY <3>2, <3>3, <3>4
    <3> QED
      BY <3>5
  <2> QED
    BY <2>1, <2>2
<1> HIDE DEF Good
<1>4. S \in Good
  BY <1>3, SubsetInduction
<1> QED
  BY <1>1, <1>2, <1>4 DEF Good, Sums

\* The sum of two sums.
LEMMA SumOfSums ==
  ASSUME NEW S, IsFiniteSet(S), NEW f, NEW h, NEW a,
         \A x \in S : f[x] \in Nat /\ h[x] \in Nat /\ a[x] = f[x] + h[x]
  PROVE  Total(a, S) = Total(f, S) + Total(h, S)
<1>1. PICK g : Sums(g, f, S)
  BY SumSteps
<1>2. PICK k : Sums(k, h, S)
  BY SumSteps
<1>3. PICK b : Sums(b, a, S)
  BY SumSteps
<1> DEFINE Good == {s \in SUBSET S :
                      g[s] \in Nat /\ k[s] \in Nat /\ b[s] = g[s] + k[s]}
<1>4. ASSUME NEW s \in SUBSET S, \A u \in SUBSET s : u # s => u \in Good
      PROVE  s \in Good
  <2>1. CASE s = {}
    BY <1>1, <1>2, <1>3, <2>1 DEF Sums
  <2>2. CASE s # {}
    <3> DEFINE u == s \ {Chosen(s)}
    <3>1. Chosen(s) \in S /\ u \in SUBSET s /\ u # s
      BY <1>1, <2>2 DEF Sums
    <3>2. g[u] \in Nat /\ k[u] \in Nat /\ b[u] = g[u] + k[u]
      BY <1>4, <3>1
    <3>3. /\ g[s] = f[Chosen(s)] + g[u] /\ k[s] = h[Chosen(s)] + k[u]
          /\ b[s] = a[Chosen(s)] + b[u]
      BY <1>1, <1>2, <1>3, <2>2 DEF Sums
    <3>4. f[Chosen(s)] \in Nat /\ h[Chosen(s)] \in Nat
          /\ a[Chosen(s)] = f[Chosen(s)] + h[Chosen(s)]
      BY <3>1
    <3> HIDE DEF u
    <3>5. g[s] \in Nat /\ k[s] \in Nat /\ b[s] = g[s] + k[s]
      BY <3>2, <3>3, <3>4
    <3> QED
      BY <3>5
  <2> QED
    BY <2>1, <2>2
<1> HIDE DEF Good
<1>5. S \in Good
  BY <1>4, SubsetInduction
<1> QED
  BY <1>1, <1>2, <1>3, <1>5 DEF Good, Sums

\* The sum of a function that is 0 but for one element, if at all.
LEMMA SumOfOne ==
  ASSUME NEW S, IsFiniteSet(S), NEW f, NEW c, NEW n \in Nat,
         \A x \in S : f[x] = IF x = c THEN n ELSE 0
  PROVE  Total(f, S) = IF c \in S THEN n ELSE 0
<1>1. PICK g : Sums(g, f, S)
  BY SumSteps
<1> DEFINE Good == {s \in SUBSET S : g[s] = IF c \in s THEN n ELSE 0}
<1>2. ASSUME NEW s \in SUBSET S, \A u \in SUBSET s : u # s => u \in Good
      PROVE  s \in Good
  <2>1. CASE s = {}
    BY <1>1, <2>1 DEF Sums
  <2>2. CASE s # {}
    <3> DEFINE u == s \ {Chosen(s)}
    <3>1. Chosen(s) \in S /\ u \in SUBSET s /\ u # s /\ Chosen(s) \in s
      BY <1>1, <2>2 DEF Sums
    <3>2. g[u] = IF c \in u THEN n ELSE 0
      BY <1>2, <3>1
    <3>3. g[s] = f[Chosen(s)] + g[u]
      BY <1>1, <2>2 DEF Sums
    <3>4. f[Chosen(s)] = IF Chosen(s) = c THEN n ELSE 0
      BY <3>1
    <3>5. c \in u <=> c \in s /\ c # Chosen(s)
      OBVIOUS
    <3> HIDE DEF u
    <3>6. g[s] = IF c \in s THEN n ELSE 0
      BY <3>1, <3>2, <3>3, <3>4, <3>5
    <3> QED
      BY <3>6
  <2> QED
    BY <2>1, <2>2
<1> HIDE DEF Good
<1>3. S \in Good
  BY <1>2, SubsetInduction
<1> QED
  BY <1>1, <1>3 DEF Good, Sums

\* One more at one place is one more in all.
LEMMA SumPlusOne ==
  ASSUME NEW S, IsFiniteSet(S), NEW c \in S, NEW f \in [S -> Nat]
  PROVE  Total([f EXCEPT ![c] = @ + 1], S) = Total(f, S) + 1
<1> DEFINE one == [x \in S |-> IF x = c THEN 1 ELSE 0]
           g == [f EXCEPT ![c] = @ + 1]
<1>1. \A x \in S : f[x] \in Nat /\ one[x] \in Nat /\ g[x] = f[x] + one[x]
  OBVIOUS
<1>2. \A x \in S : one[x] = IF x = c THEN 1 ELSE 0
  OBVIOUS
<1> HIDE DEF one, g
<1>3. Total(one, S) = 1
  BY <1>2, SumOfOne
<1>4. Total(g, S) = Total(f, S) + Total(one, S)
  BY <1>1, SumOfSums
<1> QED
  BY <1>3, <1>4 DEF g

-----------------------------------------------------------------------------
(* Steps of one client that do not touch the store. *)

\* A step leaves client d alone.
Same(d) ==
  /\ op'[d] = op[d] /\ first'[d] = first[d] /\ rpc'[d] = rpc[d]
  /\ reply'[d] = reply[d] /\ result'[d] = result[d] /\ enabled'[d] = enabled[d]
  /\ pc'[d] = pc[d] /\ ver'[d] = ver[d] /\ err'[d] = err[d]
  /\ nok'[d] = nok[d] /\ nmaybe'[d] = nmaybe[d]

OnlyClient(c) ==
  /\ UNCHANGED <<test, data, dataVersion>>
  /\ \A d \in Clients : d # c => Same(d)

\* What the operation of d has come to depends on d alone.
LEMMA SameAnswer ==
  ASSUME NEW d, Same(d)
  PROVE  /\ Answered(d)' <=> Answered(d)
         /\ Ans(d)' = Ans(d)
         /\ Waits(d)' <=> Waits(d)
         /\ Rounds(d)' = Rounds(d)
BY DEF Same, Answered, Ans, Waits, Rounds, ClerkErr

\* And so does what may have been performed, as long as the store stays.
LEMMA SameRound ==
  ASSUME NEW d, Same(d), UNCHANGED <<test, data, dataVersion>>
  PROVE  /\ Performed(d)' <=> Performed(d)
         /\ MayBePerformed(d)' <=> MayBePerformed(d)
         /\ \A n : Bracket(d, n)' <=> Bracket(d, n)
<1>1. /\ Performed(d)' <=> Performed(d)
      /\ MayBePerformed(d)' <=> MayBePerformed(d)
  BY SameAnswer DEF Same, Performed, MayBePerformed, V
<1> QED
  BY <1>1, SameAnswer DEF Same, Bracket

\* A client that is left alone, with its store, keeps its invariants.
LEMMA SameClient ==
  ASSUME NEW d, ClientInv(d), Same(d), UNCHANGED <<test, data, dataVersion>>
  PROVE  ClientInv(d)'
<1>1. PutInv(d)'
  BY SameAnswer DEF ClientInv, PutInv, Same, V
<1>2. GetInv(d)'
  BY SameAnswer DEF ClientInv, GetInv, Same, V, D
<1>3. IdleInv(d)' /\ RoundsInv(d)'
  BY SameAnswer DEF ClientInv, IdleInv, RoundsInv, Same, V, Concurrent
<1>4. PutterInv(d)'
  BY SameAnswer, SameRound DEF ClientInv, PutterInv, Same, V, D
<1>5. AppenderInv(d)'
  BY SameAnswer, SameRound DEF ClientInv, AppenderInv, Same, V, D
<1>6. ReliableInv(d)'
  BY DEF ClientInv, ReliableInv, Same, Concurrent
<1> QED
  BY <1>1, <1>2, <1>3, <1>4, <1>5, <1>6 DEF ClientInv

\* What is left to show of a step of c.
LEMMA StepOf ==
  ASSUME IInv, NEW c \in Clients, OnlyClient(c), StateInv',
         ClientInv(c)', LateInv', CheckerInv', OneClientInv',
         Concurrent /\ c \in Putters =>
           \A n \in Nat : Bracket(c, n) => Bracket(c, n)'
  PROVE  IInv'
<1>1. StoreInv'
  BY DEF IInv, StoreInv, OnlyClient, V, D
<1>2. \A d \in Clients : ClientInv(d)'
  BY SameClient DEF IInv, OnlyClient
<1>3. Concurrent =>
        \A d \in Putters, n \in Nat : Bracket(d, n) => Bracket(d, n)'
  BY SameRound DEF OnlyClient, Putters
<1>4. CountInv'
  <2>1. SUFFICES ASSUME test = "PutConcurrent" PROVE CountInv'
    BY DEF CountInv, OnlyClient
  <2>2. PICK p \in [Putters -> Nat] :
          /\ V = Total(p, Putters)
          /\ \A d \in Putters : Bracket(d, p[d])
    BY <2>1 DEF IInv, CountInv
  <2>3. V' = V
    BY DEF OnlyClient, V
  <2>4. \A d \in Putters : Bracket(d, p[d])'
    BY <1>3, <2>1, <2>2 DEF Concurrent
  <2> QED
    BY <2>2, <2>3, <2>4 DEF CountInv
<1>5. ListInv'
  <2>1. SUFFICES ASSUME test = "Append" PROVE ListInv'
    BY DEF ListInv, OnlyClient
  <2>2. D' = D /\ V' = V
    BY DEF OnlyClient, V, D
  <2>3. \A d \in Putters : Mine(D, d)' = Mine(D, d)
    BY <2>2 DEF Mine
  <2>4. \A d \in Putters : Cardinality(Mine(D, d)) \in Nat
    <3> SUFFICES ASSUME NEW d \in Putters PROVE Cardinality(Mine(D, d)) \in Nat
      OBVIOUS
    <3>1. D \in Seq(Entries)
      BY <2>1 DEF IInv, ListInv
    <3>2. IsFiniteSet(1..Len(D))
      BY <3>1, FS_Interval
    <3>3. IsFiniteSet(Mine(D, d))
      BY <3>2, FS_Subset DEF Mine
    <3> QED
      BY <3>3, FS_CardinalityType
  <2>5. \A d \in Putters : Bracket(d, Cardinality(Mine(D, d)))'
    BY <1>3, <2>1, <2>3, <2>4 DEF Concurrent, IInv, ListInv
  <2> QED
    BY <2>1, <2>2, <2>5 DEF IInv, ListInv
<1> QED
  BY <1>1, <1>2, <1>4, <1>5 DEF IInv

\* Nobody waits for a handler that c has left behind when c does not.
LEMMA LateKept ==
  ASSUME IInv, NEW c \in Clients, OnlyClient(c), ~Waits(c), late' = late
  PROVE  LateInv'
<1> SUFFICES ASSUME NEW s \in LateSlots, late[s] # NoOp
             PROVE  \/ late[s].Version < V
                    \/ \E d \in Clients :
                         Waits(d)' /\ ~first'[d] /\ late[s] = op'[d]
  BY DEF LateInv, OnlyClient, V
<1>1. \/ late[s].Version < V
      \/ \E d \in Clients : Waits(d) /\ ~first[d] /\ late[s] = op[d]
  BY DEF IInv, LateInv
<1>2. \A d \in Clients : Waits(d) => Waits(d)' /\ first'[d] = first[d] /\ op'[d] = op[d]
  BY SameAnswer DEF OnlyClient, Same
<1> QED
  BY <1>1, <1>2

\* A client that is not done keeps the tester waiting.
LEMMA TesterWaits ==
  ASSUME IInv, Concurrent, NEW c \in Putters, pc[c] # "done"
  PROVE  pc[Checker] = "wait"
BY DEF IInv, CheckerInv, AllDone

\* What is left to show of a step of a client of a test with several.
LEMMA PutterStepOf ==
  ASSUME IInv, Concurrent, NEW c \in Putters, OnlyClient(c), pc[c] # "done",
         ~Waits(c), late' = late, StateInv', ClientInv(c)',
         \A n \in Nat : Bracket(c, n) => Bracket(c, n)'
  PROVE  IInv'
<1>1. c \in Clients /\ c # Checker /\ Checker \in Clients
  BY TestAssumption DEF Putters
<1>2. LateInv'
  BY <1>1, LateKept
<1>3. pc'[Checker] = "wait"
  BY <1>1, TesterWaits DEF OnlyClient, Same
<1>4. CheckerInv' /\ OneClientInv'
  BY <1>3 DEF CheckerInv, OneClientInv, OnlyClient, Concurrent
<1> QED
  BY <1>1, <1>2, <1>4, StepOf

-----------------------------------------------------------------------------
(* OneClientPut and OneClientAppend *)

\* The operations of the tests.
OpArgs == PutOps \cup {GetOp(Key, AnId)}

\* c has begun operation o.
Started(c, o) ==
  /\ rpc[c] = "idle" /\ rpc'[c] = "sent"
  /\ op'[c] = o /\ first'[c] = TRUE
  /\ enabled' = enabled /\ late' = late
  /\ V' = V /\ D' = D /\ UNCHANGED <<data, dataVersion>>
  /\ ~Answered(c)'
  /\ \A d \in Clients : d # c =>
       /\ op'[d] = op[d] /\ first'[d] = first[d] /\ rpc'[d] = rpc[d]
       /\ reply'[d] = reply[d] /\ result'[d] = result[d]

\* PutJson and GetJson begin an operation of the clerk.
LEMMA StartBegins ==
  ASSUME StateInv, NEW c \in Clients, NEW o \in OpArgs, Start(c, o), TestTypes'
  PROVE  StateInv' /\ Started(c, o)
<1>1. StateInv'
  BY DEF StateInv, Start, OpArgs, storeVars, netVars
<1>2. Started(c, o)
  BY DEF StateInv, Start, Started, Answered, V, D, storeVars, netVars
<1> QED
  BY <1>1, <1>2

\* A Get that begins when the key is there, and a Put with a version that is
\* not ahead.
LEMMA BeginsWell ==
  ASSUME NEW c, NEW o \in OpArgs, Started(c, o), V \in Nat,
         \/ pc'[c] \in {"get", "check"} /\ o = GetOp(Key, AnId) /\ V > 0
         \/ pc'[c] = "put" /\ o \in PutOps /\ o.Version <= V
  PROVE  PutInv(c)' /\ GetInv(c)' /\ IdleInv(c)'
BY DEF Started, PutInv, GetInv, IdleInv, Answered

\* The version on the server is a number, and so is what c counts.
LEMMA Numbers ==
  ASSUME StateInv
  PROVE  /\ V \in Nat
         /\ \A c \in Clients : /\ nok[c] \in Nat /\ nmaybe[c] \in Nat
                               /\ Rounds(c) \in Nat /\ ver[c] \in Nat
BY TestAssumption DEF StateInv, TestTypes, V, Rounds

\* A client is a client of the network.
LEMMA PutterIsClient == Putters \subseteq Clients
BY DEF Putters

\* The Put of OnePut.
LEMMA PutOpType ==
  ASSUME NEW v \in Vals, NEW n \in Nat
  PROVE  /\ PutOp(Key, v, n, AnId) \in PutOps
         /\ PutOp(Key, v, n, AnId).Version = n
         /\ PutOp(Key, v, n, AnId).Value = v
BY DEF PutOp, PutOps

\* The test variables of the other clients stay.
OthersStay(c) ==
  \A d \in Clients : d # c => /\ pc'[d] = pc[d] /\ ver'[d] = ver[d]
                              /\ err'[d] = err[d] /\ nok'[d] = nok[d]
                              /\ nmaybe'[d] = nmaybe[d]

\* A client of a test with several begins an operation.
LEMMA PutterStarts ==
  ASSUME IInv, Concurrent, NEW c \in Putters, NEW o \in OpArgs, Start(c, o),
         TestTypes', OthersStay(c), test' = test,
         nok'[c] = nok[c], nmaybe'[c] = nmaybe[c],
         pc[c] \in {"loop", "put", "get"},
         \/ pc'[c] = "get" /\ o = GetOp(Key, AnId) /\ V > 0
         \/ pc'[c] = "put" /\ o \in PutOps /\ o.Version <= V,
         Started(c, o) => PutterInv(c)' /\ AppenderInv(c)',
         Reliable => err'[c] # "ErrMaybe",
         Started(c, o) => /\ Performed(c)' => Performed(c)
                          /\ MayBePerformed(c) => MayBePerformed(c)'
  PROVE  IInv'
<1>0. c \in Clients /\ StateInv /\ ClientInv(c)
  BY PutterIsClient DEF IInv
<1>1. StateInv' /\ Started(c, o)
  BY <1>0, StartBegins
<1>2. OnlyClient(c)
  BY <1>1 DEF OnlyClient, Same, Started, OthersStay
<1>3. PutInv(c)' /\ GetInv(c)' /\ IdleInv(c)'
  BY <1>0, <1>1, BeginsWell, Numbers
<1>4. RoundsInv(c)'
  BY <1>0, <1>1 DEF ClientInv, RoundsInv, Concurrent, Started, Rounds
<1>5. ReliableInv(c)'
  BY <1>0, <1>1 DEF ClientInv, ReliableInv, Started, Concurrent
<1>6. \A n \in Nat : Bracket(c, n) => Bracket(c, n)'
  BY <1>0, <1>1, Numbers DEF Bracket, Rounds
<1>7. ~Waits(c) /\ late' = late
  BY <1>1 DEF Waits, Started, Answered
<1> QED
  BY <1>1, <1>2, <1>3, <1>4, <1>5, <1>6, <1>7, PutterStepOf DEF ClientInv

\* A round of a test with several clients ends.
LEMMA PutterCounts ==
  ASSUME IInv, Concurrent, NEW c \in Putters, NEW e \in {"OK", "ErrMaybe"},
         Count(c, e), TestTypes', OthersStay(c), test' = test,
         pc[c] \in {"put", "get"}, rpc[c] = "idle", V > 0, err' = err,
         e = "OK" => Performed(c),
         Reliable => e = "OK",
         test = "PutConcurrent" => ver'[c] <= V
  PROVE  IInv'
<1>0. c \in Clients /\ StateInv /\ ClientInv(c)
  BY PutterIsClient DEF IInv
<1>1. /\ UNCHANGED <<data, dataVersion>> /\ V' = V /\ D' = D
      /\ UNCHANGED <<op, first, rpc, reply, result, enabled, late>>
  BY DEF Count, kvVars, storeVars, clerkVars, netVars, V, D
<1>2. /\ pc'[c] = "loop"
      /\ e = "OK" => nok'[c] = nok[c] + 1 /\ nmaybe'[c] = nmaybe[c]
      /\ e # "OK" => nok'[c] = nok[c] /\ nmaybe'[c] = nmaybe[c] + 1
  BY <1>0 DEF Count, Goto, StateInv, TestTypes
<1>3. OnlyClient(c)
  BY <1>1 DEF OnlyClient, Same, OthersStay
<1>4. StateInv'
  BY <1>0, <1>1 DEF StateInv
<1>5. Rounds(c) \in Nat /\ Rounds(c)' = Rounds(c) + 1
  BY <1>0, <1>2, Numbers DEF Rounds
<1>6. ~Performed(c)' /\ ~MayBePerformed(c)' /\ ~Waits(c) /\ ~Waits(c)'
  BY <1>1, <1>2 DEF Performed, MayBePerformed, Waits, Answered
<1>7. PutInv(c)' /\ GetInv(c)' /\ IdleInv(c)' /\ RoundsInv(c)'
  BY <1>1, <1>2 DEF PutInv, GetInv, IdleInv, RoundsInv
<1>8. PutterInv(c)'
  BY <1>1, <1>2, <1>6 DEF PutterInv
<1>9. AppenderInv(c)'
  <2>1. SUFFICES ASSUME test = "Append", NEW i \in Mine(D, c)
                 PROVE  D[i][2] <= Rounds(c)' /\ D[i][2] < Rounds(c)'
    BY <1>1, <1>2 DEF AppenderInv, Mine
  <2>2. D[i][2] <= Rounds(c)
    BY <1>0, <2>1 DEF ClientInv, AppenderInv
  <2>3. D[i][2] \in Nat
    BY <2>1 DEF IInv, ListInv, Entries, Mine
  <2> QED
    BY <1>5, <2>2, <2>3
<1>10. ReliableInv(c)'
  BY <1>0, <1>1, <1>2 DEF ClientInv, ReliableInv, Concurrent
<1>11. \A n \in Nat : Bracket(c, n) => Bracket(c, n)'
  BY <1>0, <1>2, <1>5, <1>6, Numbers DEF Bracket
<1> QED
  BY <1>1, <1>3, <1>4, <1>6, <1>7, <1>8, <1>9, <1>10, <1>11, PutterStepOf
  DEF ClientInv

\* OneClientPut: a round begins with a Put of the version of the last Get.
LEMMA OnePutStep ==
  ASSUME IInv, NEW c \in Putters, test = "PutConcurrent", OnePut(c)
  PROVE  IInv'
<1> DEFINE o == PutOp(Key, Entry(c, ver[c]), ver[c], AnId)
<1>0. c \in Clients /\ StateInv /\ ClientInv(c) /\ Concurrent
  BY PutterIsClient DEF IInv, Concurrent
<1>1. pc[c] = "loop" /\ pc' = [pc EXCEPT ![c] = "put"]
  BY DEF OnePut, NextRound, Goto
<1>2. Start(c, o)
  BY DEF OnePut, PutJson, StartPut
<1>3. ver[c] \in Nat /\ ver[c] <= V /\ V \in Nat
  BY <1>0, Numbers DEF ClientInv, PutterInv
<1>4. Entry(c, ver[c]) \in Vals
  BY <1>0, <1>3 DEF Entry, Entries, Vals
<1>5. o \in PutOps /\ o.Version = ver[c] /\ o.Value = Entry(c, ver[c])
  BY <1>3, <1>4, PutOpType
<1> HIDE DEF o
<1>6. TestTypes'
  BY <1>0, <1>1 DEF StateInv, TestTypes, OnePut, Pcs
<1>7. /\ pc'[c] = "put" /\ UNCHANGED <<test, ver, err, nok, nmaybe>>
      /\ OthersStay(c)
  BY <1>0, <1>1 DEF StateInv, TestTypes, OnePut, OthersStay
<1>8. Started(c, o) => ~Performed(c)' /\ ~MayBePerformed(c)
  BY <1>1, <1>7 DEF Performed, MayBePerformed, Started, Waits
<1>9. Started(c, o) => PutterInv(c)' /\ AppenderInv(c)'
  BY <1>0, <1>3, <1>5, <1>7, <1>8
  DEF ClientInv, PutterInv, AppenderInv, Started
<1>10. Reliable => err'[c] # "ErrMaybe"
  BY <1>0, <1>7 DEF ClientInv, ReliableInv
<1> QED
  BY <1>0, <1>1, <1>2, <1>3, <1>5, <1>6, <1>7, <1>8, <1>9, <1>10, PutterStarts
  DEF OpArgs

\* OneClientPut: a Put has returned, and the client reads the key.
LEMMA PutReturnedStep ==
  ASSUME IInv, NEW c \in Putters, test = "PutConcurrent", PutReturned(c)
  PROVE  IInv'
<1> DEFINE o == GetOp(Key, AnId)
<1>0. c \in Clients /\ StateInv /\ ClientInv(c) /\ Concurrent
  BY PutterIsClient DEF IInv, Concurrent
<1>1. pc[c] = "put" /\ rpc[c] = "idle"
  BY DEF PutReturned, Finished
<1>2. /\ result[c] \in Answers
      /\ result[c].Err \in {"OK", "ErrVersion", "ErrMaybe"} /\ V > 0
      /\ Ans(c) = result[c]
  BY <1>0, <1>1 DEF ClientInv, PutInv, Answered, Ans
<1>3. Start(c, o) /\ pc' = [pc EXCEPT ![c] = "get"]
  BY <1>2 DEF PutReturned, GetJson, StartGet, Goto
<1>4. /\ err' = [err EXCEPT ![c] = result[c].Err]
      /\ UNCHANGED <<test, ver, nok, nmaybe>>
  BY DEF PutReturned
<1>5. TestTypes'
  BY <1>0, <1>2, <1>3, <1>4 DEF StateInv, TestTypes, Pcs, Answers, Errs
<1>6. /\ pc'[c] = "get" /\ err'[c] = result[c].Err
      /\ OthersStay(c)
  BY <1>0, <1>3, <1>4 DEF StateInv, TestTypes, OthersStay
<1>7. Started(c, o) => /\ Performed(c)' => Performed(c)
                       /\ MayBePerformed(c) => MayBePerformed(c)'
  BY <1>1, <1>2, <1>4, <1>6
  DEF Performed, MayBePerformed, Started, Waits, Answered
<1> HIDE DEF o
<1>8. Started(c, o) => PutterInv(c)' /\ AppenderInv(c)'
  BY <1>0, <1>2, <1>4, <1>6, <1>7
  DEF ClientInv, PutterInv, AppenderInv, Started
<1>9. Reliable => err'[c] # "ErrMaybe"
  BY <1>0, <1>1, <1>6 DEF ClientInv, ReliableInv
<1>10. o \in OpArgs /\ o = GetOp(Key, AnId)
  BY DEF OpArgs, o
<1> QED
  BY <1>0, <1>1, <1>2, <1>3, <1>4, <1>5, <1>6, <1>7, <1>8, <1>9, <1>10,
     PutterStarts

\* OneClientPut: the Get has returned; the client tries the version it read,
\* or counts the round.  The value is never wrong.
LEMMA GetReturnedStep ==
  ASSUME IInv, NEW c \in Putters, test = "PutConcurrent", GetReturned(c)
  PROVE  IInv'
<1> DEFINE n == result[c].Version
           o == PutOp(Key, Entry(c, n), n, AnId)
<1>0. c \in Clients /\ StateInv /\ ClientInv(c) /\ Concurrent
  BY PutterIsClient DEF IInv, Concurrent
<1>1. pc[c] = "get" /\ rpc[c] = "idle"
  BY DEF GetReturned, Finished
<1>2. Ans(c) = result[c] /\ Answered(c)
  BY <1>1 DEF Answered, Ans
<1>3. result[c] \in Answers /\ result[c].Err = "OK" /\ n > 0 /\ n <= V /\ V > 0
  BY <1>0, <1>1, <1>2 DEF ClientInv, GetInv
<1>4. n \in Nat /\ V \in Nat /\ ver[c] \in Nat /\ err[c] \in Errs
  BY <1>0, <1>3, Numbers DEF Answers, StateInv, TestTypes
<1>5. ~WrongValue(c)
  <2>1. MyVersion(c) => result[c].Value = Entry(c, ver[c])
    BY <1>0, <1>1, <1>2 DEF MyVersion, ClientInv, PutterInv
  <2> QED
    BY <2>1 DEF WrongValue, Entry
<1>6. /\ ver' = [ver EXCEPT ![c] = n]
      /\ TryAgain(c) \/ (err[c] # "ErrVersion" /\ Count(c, err[c]))
      /\ test' = test /\ err' = err
  BY <1>3, <1>5 DEF GetReturned
<1>7. CASE TryAgain(c)
  <2>1. /\ err[c] = "ErrVersion" /\ Start(c, o) /\ pc' = [pc EXCEPT ![c] = "put"]
        /\ nok' = nok /\ nmaybe' = nmaybe
    BY <1>7 DEF TryAgain, PutJson, StartPut, Goto
  <2>2. Entry(c, n) \in Vals
    BY <1>0, <1>4 DEF Entry, Entries, Vals
  <2> HIDE DEF n
  <2>3. o \in PutOps /\ o.Version = n /\ o.Value = Entry(c, n)
    BY <1>4, <2>2, PutOpType
  <2> HIDE DEF o
  <2>4. TestTypes'
    BY <1>0, <1>4, <1>6, <2>1 DEF StateInv, TestTypes, Pcs
  <2>5. pc'[c] = "put" /\ ver'[c] = n /\ OthersStay(c)
    BY <1>0, <1>6, <2>1 DEF StateInv, TestTypes, OthersStay
  <2>6. Started(c, o) => ~Performed(c)' /\ ~MayBePerformed(c)
    BY <1>1, <2>1, <2>5 DEF Performed, MayBePerformed, Started, Waits
  <2>7. Started(c, o) => PutterInv(c)' /\ AppenderInv(c)'
    BY <1>0, <1>3, <1>4, <1>6, <2>3, <2>5, <2>6
    DEF PutterInv, AppenderInv, Started
  <2>8. Reliable => err'[c] # "ErrMaybe"
    BY <1>0, <1>6 DEF ClientInv, ReliableInv
  <2> QED
    BY <1>0, <1>1, <1>3, <1>4, <1>6, <2>1, <2>3, <2>4, <2>5, <2>6, <2>7, <2>8,
       PutterStarts DEF OpArgs
<1>8. CASE err[c] # "ErrVersion" /\ Count(c, err[c])
  <2> HIDE DEF n
  <2>1. err[c] \in {"OK", "ErrMaybe"}
    BY <1>0, <1>1, <1>4, <1>8 DEF ClientInv, PutterInv, Errs
  <2>2. /\ ver'[c] = n /\ OthersStay(c)
        /\ TestTypes'
    BY <1>0, <1>4, <1>6, <1>8
    DEF StateInv, TestTypes, OthersStay, Count, Goto, Pcs
  <2>3. err[c] = "OK" => Performed(c)
    BY <1>1 DEF Performed
  <2>4. Reliable => err[c] = "OK"
    BY <1>0, <2>1 DEF ClientInv, ReliableInv
  <2> QED
    BY <1>0, <1>1, <1>3, <1>6, <1>8, <2>1, <2>2, <2>3, <2>4, PutterCounts
<1> QED
  BY <1>6, <1>7, <1>8

\* The list is there from the start.
LEMMA ListThere ==
  ASSUME IInv, test = "Append"
  PROVE  D \in Seq(Entries) /\ V = Len(D) + 1 /\ V > 0 /\ V \in Nat
BY DEF IInv, ListInv

\* OneClientAppend: a round begins with a Get.
LEMMA AppendGetStep ==
  ASSUME IInv, NEW c \in Putters, test = "Append", AppendGet(c)
  PROVE  IInv'
<1> DEFINE o == GetOp(Key, AnId)
<1>0. c \in Clients /\ StateInv /\ ClientInv(c) /\ Concurrent
  BY PutterIsClient DEF IInv, Concurrent
<1>1. /\ pc[c] = "loop" /\ Start(c, o) /\ pc' = [pc EXCEPT ![c] = "get"]
      /\ UNCHANGED <<test, ver, err, nok, nmaybe>>
  BY DEF AppendGet, NextRound, GetJson, StartGet, Goto
<1>2. TestTypes' /\ pc'[c] = "get" /\ OthersStay(c)
  BY <1>0, <1>1 DEF StateInv, TestTypes, Pcs, OthersStay
<1>3. Started(c, o) =>
        ~Performed(c)' /\ ~MayBePerformed(c) /\ ~MayBePerformed(c)'
  BY <1>1, <1>2 DEF Performed, MayBePerformed, Started, Waits
<1>4. o \in OpArgs /\ o = GetOp(Key, AnId)
  BY DEF OpArgs, o
<1> HIDE DEF o
<1>5. Started(c, o) => PutterInv(c)' /\ AppenderInv(c)'
  BY <1>0, <1>1, <1>2, <1>3
  DEF ClientInv, PutterInv, AppenderInv, Started, Rounds, Mine
<1>6. Reliable => err'[c] # "ErrMaybe"
  BY <1>0, <1>1 DEF ClientInv, ReliableInv
<1> QED
  BY <1>0, <1>1, <1>2, <1>3, <1>4, <1>5, <1>6, ListThere, PutterStarts

\* OneClientAppend: the client appends to the list it has read.
LEMMA AppendPutStep ==
  ASSUME IInv, NEW c \in Putters, test = "Append", AppendPut(c)
  PROVE  IInv'
<1> DEFINE n == result[c].Version
           es == Append(result[c].Value, Entry(c, Rounds(c)))
           o == PutOp(Key, es, n, AnId)
<1>0. c \in Clients /\ StateInv /\ ClientInv(c) /\ Concurrent
  BY PutterIsClient DEF IInv, Concurrent
<1>1. pc[c] = "get" /\ rpc[c] = "idle"
  BY DEF AppendPut, Finished
<1>2. Ans(c) = result[c] /\ Answered(c)
  BY <1>1 DEF Answered, Ans
<1>3. /\ result[c] \in Answers /\ result[c].Err = "OK" /\ n <= V /\ n \in Nat
      /\ n = V => result[c].Value = D
  BY <1>0, <1>1, <1>2 DEF ClientInv, GetInv, Answers
<1>4. result[c].Value \in Seq(Entries)
  BY <1>0, <1>1, <1>2 DEF ClientInv, AppenderInv
<1>5. Entry(c, Rounds(c)) \in Entries
  BY <1>0, Numbers DEF Entry, Entries
<1>6. es \in Seq(Entries) /\ es \in Vals
  BY <1>4, <1>5 DEF Vals
<1>7. n = V => es = Append(D, Entry(c, Rounds(c)))
  BY <1>3
<1>8. /\ Start(c, o) /\ pc' = [pc EXCEPT ![c] = "put"]
      /\ UNCHANGED <<test, ver, err, nok, nmaybe>>
  BY <1>3 DEF AppendPut, PutJson, StartPut, Goto
<1> HIDE DEF es, n
<1>9. o \in PutOps /\ o.Version = n /\ o.Value = es
  BY <1>3, <1>6, PutOpType
<1> HIDE DEF o
<1>10. TestTypes' /\ pc'[c] = "put" /\ OthersStay(c)
  BY <1>0, <1>8 DEF StateInv, TestTypes, Pcs, OthersStay
<1>11. Started(c, o) =>
         ~Performed(c)' /\ ~MayBePerformed(c) /\ ~MayBePerformed(c)'
  BY <1>1, <1>8, <1>10 DEF Performed, MayBePerformed, Started, Waits
<1>12. Rounds(c)' = Rounds(c)
  BY <1>8 DEF Rounds
<1>13. Started(c, o) => PutterInv(c)' /\ AppenderInv(c)'
  BY <1>0, <1>6, <1>7, <1>8, <1>9, <1>10, <1>11, <1>12
  DEF ClientInv, PutterInv, AppenderInv, Started, Mine
<1>14. Reliable => err'[c] # "ErrMaybe"
  BY <1>0, <1>8 DEF ClientInv, ReliableInv
<1> QED
  BY <1>0, <1>1, <1>3, <1>8, <1>9, <1>10, <1>11, <1>13, <1>14, PutterStarts
  DEF OpArgs

\* OneClientAppend: a Put has returned; the round ends or begins again.
LEMMA AppendDoneStep ==
  ASSUME IInv, NEW c \in Putters, test = "Append", AppendDone(c)
  PROVE  IInv'
<1> DEFINE o == GetOp(Key, AnId)
<1>0. c \in Clients /\ StateInv /\ ClientInv(c) /\ Concurrent
  BY PutterIsClient DEF IInv, Concurrent
<1>1. pc[c] = "put" /\ rpc[c] = "idle" /\ UNCHANGED <<test, ver, err>>
  BY DEF AppendDone, Finished
<1>2. /\ result[c].Err \in {"OK", "ErrVersion", "ErrMaybe"}
      /\ Ans(c) = result[c] /\ Answered(c)
  BY <1>0, <1>1 DEF ClientInv, PutInv, Answered, Ans
<1>3. CASE result[c].Err \in {"OK", "ErrMaybe"} /\ Count(c, result[c].Err)
  <2>1. OthersStay(c) /\ TestTypes'
    BY <1>0, <1>1, <1>3 DEF StateInv, TestTypes, OthersStay, Count, Goto, Pcs
  <2>2. result[c].Err = "OK" => Performed(c)
    BY <1>1, <1>2 DEF Performed
  <2>3. Reliable => result[c].Err = "OK"
    BY <1>0, <1>1, <1>3 DEF ClientInv, ReliableInv
  <2>4. V > 0
    BY ListThere
  <2> QED
    BY <1>0, <1>1, <1>3, <2>1, <2>2, <2>3, <2>4, PutterCounts
<1>4. CASE /\ result[c].Err \notin {"OK", "ErrMaybe"} /\ GetJson(c)
           /\ Goto(c, "get") /\ UNCHANGED <<nok, nmaybe>>
  <2>1. Start(c, o) /\ pc' = [pc EXCEPT ![c] = "get"]
    BY <1>4 DEF GetJson, StartGet, Goto
  <2>2. TestTypes' /\ pc'[c] = "get" /\ OthersStay(c)
    BY <1>0, <1>1, <1>4, <2>1 DEF StateInv, TestTypes, Pcs, OthersStay
  <2>3. result[c].Err = "ErrVersion"
    BY <1>2, <1>4
  <2>4. Started(c, o) =>
          ~Performed(c)' /\ ~MayBePerformed(c) /\ ~MayBePerformed(c)'
    BY <1>1, <1>2, <2>2, <2>3
    DEF Performed, MayBePerformed, Started, Waits, Answered
  <2>5. o \in OpArgs /\ o = GetOp(Key, AnId)
    BY DEF OpArgs, o
  <2> HIDE DEF o
  <2>6. Started(c, o) => PutterInv(c)' /\ AppenderInv(c)'
    BY <1>0, <1>1, <1>4, <2>2, <2>4
    DEF ClientInv, PutterInv, AppenderInv, Started, Rounds, Mine
  <2>7. Reliable => err'[c] # "ErrMaybe"
    BY <1>0, <1>1 DEF ClientInv, ReliableInv
  <2> QED
    BY <1>0, <1>1, <1>4, <2>1, <2>2, <2>4, <2>5, <2>6, <2>7, ListThere,
       PutterStarts
<1> QED
  BY <1>3, <1>4 DEF AppendDone

\* A client is told to stop.
LEMMA StopStep ==
  ASSUME IInv, NEW c \in Putters, Stop(c)
  PROVE  IInv'
<1>0. c \in Clients /\ StateInv /\ ClientInv(c)
  BY PutterIsClient DEF IInv
<1>1. /\ pc[c] = "loop" /\ Rounds(c) > 0 /\ pc' = [pc EXCEPT ![c] = "done"]
      /\ UNCHANGED <<test, ver, err, nok, nmaybe>>
      /\ UNCHANGED <<data, dataVersion, op, first, rpc, reply, result, enabled, late>>
  BY DEF Stop, Goto, kvVars, storeVars, clerkVars, netVars
<1>2. Concurrent
  BY <1>1 DEF IInv, OneClientInv
<1>3. pc'[c] = "done" /\ \A d \in Clients : d # c => pc'[d] = pc[d]
  BY <1>0, <1>1 DEF StateInv, TestTypes
<1>4. TestTypes'
  BY <1>0, <1>1 DEF StateInv, TestTypes, Pcs
<1>5. StateInv'
  BY <1>0, <1>1, <1>4 DEF StateInv
<1>6. OnlyClient(c)
  BY <1>1, <1>3 DEF OnlyClient, Same
<1>7. /\ ~Performed(c) /\ ~MayBePerformed(c) /\ ~Waits(c)
      /\ ~Performed(c)' /\ ~MayBePerformed(c)'
      /\ Rounds(c)' = Rounds(c) /\ V' = V /\ D' = D
  BY <1>1, <1>3 DEF Performed, MayBePerformed, Waits, Rounds, V, D
<1>8. PutInv(c)' /\ GetInv(c)' /\ IdleInv(c)' /\ RoundsInv(c)'
  BY <1>0, <1>1, <1>3, <1>7
  DEF ClientInv, PutInv, GetInv, IdleInv, RoundsInv, Concurrent
<1>9. PutterInv(c)' /\ AppenderInv(c)'
  BY <1>0, <1>1, <1>3, <1>7 DEF ClientInv, PutterInv, AppenderInv, Mine
<1>10. ReliableInv(c)'
  BY <1>0, <1>1, <1>3 DEF ClientInv, ReliableInv, Concurrent
<1>11. \A n \in Nat : Bracket(c, n) => Bracket(c, n)'
  BY <1>1, <1>7 DEF Bracket
<1> QED
  BY <1>1, <1>2, <1>5, <1>6, <1>7, <1>8, <1>9, <1>10, <1>11, PutterStepOf
  DEF ClientInv

\* PutterStep: a step of OneClientPut or OneClientAppend.
LEMMA PutterStepKeeps ==
  ASSUME IInv, NEW c \in Putters, PutterStep(c)
  PROVE  IInv'
BY OnePutStep, PutReturnedStep, GetReturnedStep, AppendGetStep, AppendPutStep,
   AppendDoneStep, StopStep
DEF PutterStep, OneClientPut, OneClientAppend

-----------------------------------------------------------------------------
(* The network *)

\* The client variables after a step of the network.
TestStays == UNCHANGED testVars

\* A call that fails is made again, and leaves perhaps a handler behind.
LEMMA ResendStep ==
  ASSUME IInv, NEW c \in Clients, rpc[c] # "idle", Resend(c), TestStays,
         UNCHANGED <<data, dataVersion, enabled>>,
         Unreliable \/ ~enabled[c],
         \/ late' = late
         \/ /\ op[c].Op = "Put"
            /\ \E s \in LateSlots : late' = [late EXCEPT ![s] = op[c]]
  PROVE  IInv'
<1>0. StateInv /\ ClientInv(c)
  BY DEF IInv
<1>1. UNCHANGED <<test, pc, ver, err, nok, nmaybe>>
  BY DEF TestStays, testVars
<1>2. pc[c] \in {"put", "get", "check"}
  BY <1>0 DEF ClientInv, IdleInv
<1>3. op[c].Op = "Put" => pc[c] = "put" /\ op[c] \in PutOps
  <2>1. pc[c] \in {"get", "check"} => op[c].Op = "Get"
    BY <1>0 DEF ClientInv, GetInv, GetOp
  <2>2. pc[c] = "put" => op[c] \in PutOps
    BY <1>0 DEF ClientInv, PutInv
  <2> QED
    BY <1>2, <2>1, <2>2
<1>4. TestTypes'
  BY <1>0, <1>1 DEF StateInv, TestTypes
<1>5. (late \in [LateSlots -> PutOps \cup {NoOp}])'
  BY <1>0, <1>3 DEF StateInv
<1>6. StateInv'
  BY <1>0, <1>4, <1>5 DEF StateInv, Resend
<1>7. /\ rpc'[c] = "sent" /\ first'[c] = FALSE /\ reply'[c] = NoReply
      /\ op'[c] = op[c] /\ result'[c] = result[c] /\ enabled'[c] = enabled[c]
      /\ ~Answered(c)' /\ V' = V /\ D' = D
  BY <1>0 DEF StateInv, Resend, Answered, V, D
<1>8. OnlyClient(c)
  BY <1>0, <1>1 DEF OnlyClient, Same, Resend, StateInv
<1>9. PutInv(c)' /\ GetInv(c)' /\ IdleInv(c)'
  BY <1>0, <1>1, <1>7 DEF ClientInv, PutInv, GetInv, IdleInv
<1>10. /\ Performed(c)' => Performed(c)
       /\ MayBePerformed(c) => MayBePerformed(c)'
  <2>1. pc[c] = "put" /\ Answered(c) => op[c].Version < V
    BY <1>0 DEF ClientInv, PutInv, Answered
  <2> QED
    BY <1>1, <1>7, <2>1 DEF Performed, MayBePerformed, Waits
<1>11. RoundsInv(c)'
  BY <1>0, <1>1, <1>7 DEF ClientInv, RoundsInv, Concurrent, Rounds
<1>12. PutterInv(c)'
  BY <1>0, <1>1, <1>7, <1>10 DEF ClientInv, PutterInv
<1>13. AppenderInv(c)'
  BY <1>0, <1>1, <1>7, <1>10 DEF ClientInv, AppenderInv, Rounds, Mine
<1>14. ReliableInv(c)'
  BY <1>0 DEF ClientInv, ReliableInv, Reliable
<1>15. \A n \in Nat : Bracket(c, n) => Bracket(c, n)'
  BY <1>0, <1>1, <1>10, Numbers DEF Bracket, Rounds
<1>16. LateInv'
  <2> SUFFICES ASSUME NEW s \in LateSlots, late'[s] # NoOp
               PROVE  \/ late'[s].Version < V
                      \/ \E d \in Clients :
                           Waits(d)' /\ ~first'[d] /\ late'[s] = op'[d]
    BY <1>7 DEF LateInv
  <2>1. pc[c] = "put" => Waits(c)' /\ ~first'[c] /\ op'[c] = op[c]
    BY <1>1, <1>7 DEF Waits
  <2>2. CASE late'[s] = late[s]
    <3>1. \/ late[s].Version < V
          \/ \E d \in Clients : Waits(d) /\ ~first[d] /\ late[s] = op[d]
      BY <2>2 DEF IInv, LateInv
    <3>2. CASE late[s].Version < V
      BY <2>2, <3>2
    <3>3. CASE \E d \in Clients : Waits(d) /\ ~first[d] /\ late[s] = op[d]
      <4>1. PICK d \in Clients : Waits(d) /\ ~first[d] /\ late[s] = op[d]
        BY <3>3
      <4>2. d # c => Waits(d)' /\ ~first'[d] /\ op'[d] = op[d]
        BY <1>8, <4>1, SameAnswer DEF OnlyClient, Same
      <4>3. d = c => pc[c] = "put"
        BY <4>1 DEF Waits
      <4> QED
        BY <2>1, <2>2, <4>1, <4>2, <4>3
    <3> QED
      BY <3>1, <3>2, <3>3
  <2>3. CASE late'[s] # late[s]
    <3>1. op[c].Op = "Put" /\ late'[s] = op[c]
      BY <1>0, <2>3 DEF StateInv
    <3> QED
      BY <1>3, <2>1, <3>1
  <2> QED
    BY <2>2, <2>3
<1>17. CheckerInv'
  <2>1. Answered(Checker)' => Checker # c
    BY <1>7
  <2>2. Checker # c => /\ Answered(Checker)' => Answered(Checker)
                       /\ Ans(Checker)' = Ans(Checker)
    BY <1>8, TestAssumption, SameAnswer DEF OnlyClient
  <2> QED
    BY <1>1, <1>7, <2>1, <2>2 DEF IInv, CheckerInv, Concurrent, AllDone
<1>18. OneClientInv'
  <2>1. Answered(Checker)' => Checker # c
    BY <1>7
  <2>2. Checker # c => /\ Answered(Checker)' => Answered(Checker)
                       /\ Ans(Checker)' = Ans(Checker)
                       /\ rpc'[Checker] = rpc[Checker]
                       /\ op'[Checker] = op[Checker]
    BY <1>8, TestAssumption, SameAnswer DEF OnlyClient, Same
  <2> QED
    BY <1>1, <1>7, <2>1, <2>2 DEF IInv, OneClientInv, Concurrent
<1> QED
  BY <1>6, <1>8, <1>9, <1>11, <1>12, <1>13, <1>14, <1>15, <1>16, <1>17, <1>18,
     StepOf DEF ClientInv

\* The operation of c goes on: what it was answered stays, or it is answered
\* now, a Get with what the server has, a Put that comes too late with an
\* error.
GoesOn(c) ==
  /\ rpc[c] # "idle"
  /\ rpc'[c] # "idle" => op'[c] = op[c]
  /\ Answered(c) => Answered(c)' /\ Ans(c)' = Ans(c)
  /\ Answered(c)' /\ pc[c] \in {"get", "check"} =>
       \/ Answered(c)
       \/ /\ Ans(c)' \in Answers /\ Ans(c)'.Err = "OK"
          /\ Ans(c)'.Version = V /\ Ans(c)'.Value = D
  /\ Answered(c)' /\ pc[c] = "put" =>
       \/ Answered(c)
       \/ /\ op[c].Version < V /\ rpc'[c] = "replied"
          /\ Ans(c)'.Err = IF first[c] THEN "ErrVersion" ELSE "ErrMaybe"
          /\ reply'[c] \in Answers /\ reply'[c].Err = "ErrVersion"

\* What is left to show when an operation of c goes on.
LEMMA GoesOnStep ==
  ASSUME IInv, NEW c \in Clients, GoesOn(c), TestStays, OnlyClient(c), StateInv',
         late' = late, enabled' = enabled,
         Answered(c)' \/ first'[c] = first[c],
         Reliable => first'[c],
         pc[c] = "put" /\ rpc'[c] = "replied" => Answered(c) \/ op[c].Version < V,
         rpc'[c] = "replied" /\ Answered(c) => reply'[c] = reply[c],
         rpc'[c] = "idle" => Answered(c) /\ result'[c] = Ans(c)
  PROVE  IInv'
<1>0. StateInv /\ ClientInv(c) /\ V \in Nat
  BY Numbers DEF IInv
<1>1. UNCHANGED <<test, pc, ver, err, nok, nmaybe>>
  BY DEF TestStays, testVars
<1>2. V' = V /\ D' = D
  BY DEF OnlyClient, V, D
<1>3. pc[c] \in {"put", "get", "check"}
  BY <1>0 DEF ClientInv, IdleInv, GoesOn
<1>4. pc[c] = "put" => op[c] \in PutOps /\ op[c].Version \in Nat /\ op[c].Version <= V
  BY <1>0 DEF ClientInv, PutInv, GoesOn, PutOps
<1>5. pc[c] \in {"get", "check"} => op[c] = GetOp(Key, AnId)
  BY <1>0 DEF ClientInv, GetInv, GoesOn
<1>6. pc[c] = "put" /\ Answered(c) =>
        /\ op[c].Version < V /\ V > 0
        /\ Ans(c) \in Answers /\ Ans(c).Err \in {"OK", "ErrVersion", "ErrMaybe"}
        /\ reply[c] \in Answers /\ reply[c].Err \in {"OK", "ErrVersion"}
  BY <1>0 DEF ClientInv, PutInv, GoesOn, Answered, Ans, ClerkErr, Answers, Errs
<1>7. PutInv(c)'
  BY <1>0, <1>1, <1>2, <1>4, <1>6 DEF PutInv, GoesOn, Answered
<1>8. GetInv(c)'
  BY <1>0, <1>1, <1>2, <1>5 DEF ClientInv, GetInv, GoesOn
<1>9. IdleInv(c)' /\ RoundsInv(c)'
  BY <1>0, <1>1, <1>2, <1>3
  DEF ClientInv, IdleInv, RoundsInv, Concurrent, Rounds
<1>10. /\ Performed(c)' => Performed(c)
       /\ MayBePerformed(c) => MayBePerformed(c)'
       /\ MayBePerformed(c)' => MayBePerformed(c)
  BY <1>0, <1>1, <1>2 DEF Performed, MayBePerformed, Waits, GoesOn, Answered
<1>11. PutterInv(c)'
  BY <1>0, <1>1, <1>2, <1>10 DEF ClientInv, PutterInv, GoesOn, Performed
<1>12. AppenderInv(c)'
  <2>1. test = "Append" => D \in Seq(Entries)
    BY ListThere
  <2> QED
    BY <1>0, <1>1, <1>2, <1>10, <2>1
    DEF ClientInv, AppenderInv, GoesOn, Rounds, Mine
<1>13. ReliableInv(c)'
  <2>1. Reliable /\ rpc'[c] = "idle" /\ pc[c] = "put" => result'[c].Err # "ErrMaybe"
    <3> SUFFICES ASSUME Reliable, rpc'[c] = "idle", pc[c] = "put"
                 PROVE  Ans(c).Err # "ErrMaybe"
      OBVIOUS
    <3>1. rpc[c] = "replied"
      BY DEF GoesOn, Answered
    <3>2. reply[c].Err \in {"OK", "ErrVersion"} /\ first[c]
      BY <1>0, <3>1 DEF ClientInv, PutInv, ReliableInv
    <3> QED
      BY <3>1, <3>2 DEF Ans, ClerkErr
  <2> QED
    BY <1>0, <1>1, <2>1 DEF ClientInv, ReliableInv, Concurrent
<1>14. \A n \in Nat : Bracket(c, n) => Bracket(c, n)'
  BY <1>0, <1>1, <1>10, Numbers DEF Bracket, Rounds
<1>15. LateInv'
  <2> SUFFICES ASSUME NEW s \in LateSlots, late[s] # NoOp
               PROVE  \/ late[s].Version < V
                      \/ \E d \in Clients :
                           Waits(d)' /\ ~first'[d] /\ late[s] = op'[d]
    BY <1>2 DEF LateInv
  <2>1. \/ late[s].Version < V
        \/ \E d \in Clients : Waits(d) /\ ~first[d] /\ late[s] = op[d]
    BY DEF IInv, LateInv
  <2>2. CASE late[s].Version < V
    BY <2>2
  <2>3. CASE \E d \in Clients : Waits(d) /\ ~first[d] /\ late[s] = op[d]
    <3>1. PICK d \in Clients : Waits(d) /\ ~first[d] /\ late[s] = op[d]
      BY <2>3
    <3>2. d # c => Waits(d)' /\ ~first'[d] /\ op'[d] = op[d]
      BY <3>1, SameAnswer DEF OnlyClient, Same
    <3>3. d = c => \/ op[c].Version < V
                   \/ Waits(c)' /\ ~first'[c] /\ op'[c] = op[c]
      BY <1>1, <3>1 DEF Waits, GoesOn, Answered
    <3> QED
      BY <3>1, <3>2, <3>3
  <2> QED
    BY <2>1, <2>2, <2>3
<1>16. Checker # c => /\ Answered(Checker)' => Answered(Checker)
                      /\ Ans(Checker)' = Ans(Checker)
                      /\ rpc'[Checker] = rpc[Checker]
                      /\ op'[Checker] = op[Checker]
  BY TestAssumption, SameAnswer DEF OnlyClient, Same
<1>17. CheckerInv'
  BY <1>1, <1>2, <1>16 DEF IInv, CheckerInv, Concurrent, AllDone, GoesOn
<1>18. OneClientInv'
  <2> SUFFICES ASSUME ~Concurrent PROVE OneClientInv'
    BY <1>1 DEF OneClientInv, Concurrent
  <2>1. OneClientInv
    BY DEF IInv
  <2>2. pc[Checker] = "put" /\ rpc'[Checker] # "idle" =>
          /\ op'[Checker].Value = Entry(Checker, nmaybe[Checker])
          /\ op'[Checker].Version = ver[Checker]
    BY <1>16, <2>1 DEF OneClientInv, GoesOn
  <2>3. pc[Checker] = "put" /\ Answered(Checker)' =>
          /\ V = ver[Checker] + 1
          /\ nmaybe[Checker] = 1 => Ans(Checker)'.Err # "OK"
    <3>1. CASE c # Checker
      BY <1>16, <2>1, <3>1 DEF OneClientInv
    <3>2. CASE c = Checker /\ Answered(c)
      BY <2>1, <3>2 DEF OneClientInv, GoesOn
    <3>3. CASE c = Checker /\ ~Answered(c)
      <4>1. SUFFICES ASSUME pc[c] = "put", Answered(c)'
                     PROVE  V = ver[c] + 1 /\ Ans(c)'.Err # "OK"
        BY <3>3
      <4>2. op[c].Version < V /\ Ans(c)'.Err # "OK"
        BY <3>3, <4>1 DEF GoesOn
      <4>3. op[c].Version = ver[c] /\ V \in {ver[c], ver[c] + 1}
        BY <2>1, <3>3, <4>1 DEF OneClientInv, GoesOn
      <4>4. ver[c] \in Nat
        BY <1>0, Numbers
      <4> QED
        BY <1>0, <4>2, <4>3, <4>4
    <3> QED
      BY <3>1, <3>2, <3>3
  <2>4. pc[Checker] = "get" /\ Answered(Checker)' =>
          Ans(Checker)'.Version = V /\ Ans(Checker)'.Value = D
    BY <1>16, <2>1 DEF OneClientInv, GoesOn
  <2> QED
    BY <1>1, <1>2, <2>1, <2>2, <2>3, <2>4 DEF OneClientInv
<1> QED
  BY <1>7, <1>8, <1>9, <1>11, <1>12, <1>13, <1>14, <1>15, <1>17, <1>18, StepOf
  DEF ClientInv

\* A request reaches the server.
LEMMA DispatchStep ==
  ASSUME IInv, NEW c \in Clients, Dispatch(c), TestStays
  PROVE  IInv'
<1>0. StateInv /\ ClientInv(c)
  BY DEF IInv
<1>1. /\ rpc[c] = "sent" /\ rpc' = [rpc EXCEPT ![c] = "dispatched"]
      /\ UNCHANGED <<op, first, reply, result, data, dataVersion, enabled, late>>
      /\ UNCHANGED <<test, pc, ver, err, nok, nmaybe>>
  BY DEF Dispatch, storeVars, netVars, TestStays, testVars
<1>2. StateInv'
  BY <1>0, <1>1 DEF StateInv, TestTypes
<1>3. rpc'[c] = "dispatched" /\ \A d \in Clients : d # c => rpc'[d] = rpc[d]
  BY <1>0, <1>1 DEF StateInv
<1>4. OnlyClient(c)
  BY <1>1, <1>3 DEF OnlyClient, Same
<1>5. GoesOn(c) /\ ~Answered(c)'
  BY <1>1, <1>3 DEF GoesOn, Answered
<1>6. Reliable => first'[c]
  BY <1>0, <1>1 DEF ClientInv, ReliableInv
<1> QED
  BY <1>1, <1>2, <1>3, <1>4, <1>5, <1>6, GoesOnStep

\* A clerk operation returns.
LEMMA ReturnStep ==
  ASSUME IInv, NEW c \in Clients, Return(c), TestStays
  PROVE  IInv'
<1> DEFINE r == [Err     |-> ClerkErr(c),
                 Value   |-> reply[c].Value,
                 Version |-> reply[c].Version]
<1>0. StateInv /\ ClientInv(c)
  BY DEF IInv
<1>1. /\ rpc[c] = "replied" /\ rpc' = [rpc EXCEPT ![c] = "idle"]
      /\ result' = [result EXCEPT ![c] = r]
      /\ op' = [op EXCEPT ![c] = NoOp] /\ first' = [first EXCEPT ![c] = TRUE]
      /\ reply' = [reply EXCEPT ![c] = NoReply]
      /\ UNCHANGED <<data, dataVersion, enabled, late>>
      /\ UNCHANGED <<test, pc, ver, err, nok, nmaybe>>
  BY DEF Return, storeVars, netVars, TestStays, testVars
<1>2. pc[c] \in {"put", "get", "check"}
  BY <1>0, <1>1 DEF ClientInv, IdleInv
<1>3. Ans(c) = r
  BY <1>1 DEF Ans
<1> HIDE DEF r
<1>4. r \in Answers
  <2>1. CASE pc[c] = "put"
    <3>1. reply[c] \in Answers
      BY <1>0, <1>1, <2>1 DEF ClientInv, PutInv
    <3>2. ClerkErr(c) \in Errs /\ reply[c].Value \in Vals \cup {NoValue}
          /\ reply[c].Version \in Nat
      BY <3>1 DEF ClerkErr, Answers, Errs
    <3> QED
      BY <3>2 DEF r, Answers
  <2>2. CASE pc[c] # "put"
    BY <1>0, <1>1, <1>2, <1>3, <2>2 DEF ClientInv, GetInv, Answered
  <2> QED
    BY <2>1, <2>2
<1>5. StateInv'
  BY <1>0, <1>1, <1>4 DEF StateInv, TestTypes
<1>6. /\ rpc'[c] = "idle" /\ result'[c] = r /\ first'[c] = TRUE
      /\ \A d \in Clients : d # c =>
           /\ rpc'[d] = rpc[d] /\ result'[d] = result[d] /\ op'[d] = op[d]
           /\ first'[d] = first[d] /\ reply'[d] = reply[d]
  BY <1>0, <1>1 DEF StateInv
<1>7. OnlyClient(c)
  BY <1>1, <1>6 DEF OnlyClient, Same
<1>8. Answered(c) /\ Answered(c)' /\ Ans(c)' = r
  BY <1>1, <1>6 DEF Answered, Ans
<1>9. GoesOn(c)
  BY <1>1, <1>3, <1>6, <1>8 DEF GoesOn
<1> QED
  BY <1>1, <1>3, <1>5, <1>6, <1>7, <1>8, <1>9, GoesOnStep

\* A step that leaves the store and the clients alone.
LEMMA QuietStep ==
  ASSUME IInv, StateInv', LateInv', TestStays,
         UNCHANGED <<op, first, rpc, reply, result, data, dataVersion>>,
         ~Reliable \/ enabled' = enabled
  PROVE  IInv'
<1>1. UNCHANGED <<test, pc, ver, err, nok, nmaybe>>
  BY DEF TestStays, testVars
<1>2. \A d \in Clients : ClientInv(d)'
  <2> SUFFICES ASSUME NEW d \in Clients PROVE ClientInv(d)'
    OBVIOUS
  <2>1. ClientInv(d)
    BY DEF IInv
  <2> QED
    BY <1>1, <2>1
    DEF ClientInv, PutInv, GetInv, IdleInv, RoundsInv, PutterInv, AppenderInv,
        ReliableInv, Reliable, Answered, Ans, ClerkErr, Performed, MayBePerformed,
        Waits, Concurrent, Rounds, V, D, Mine
<1>3. StoreInv'
  BY <1>1 DEF IInv, StoreInv, V, D
<1>4. CheckerInv'
  BY <1>1
  DEF IInv, CheckerInv, Concurrent, AllDone, Answered, Ans, ClerkErr, V, D
<1>5. OneClientInv'
  BY <1>1 DEF IInv, OneClientInv, Concurrent, Answered, Ans, ClerkErr, V, D
<1>6. \A d \in Putters : \A n : Bracket(d, n)' <=> Bracket(d, n)
  BY <1>1
  DEF Bracket, Performed, MayBePerformed, Waits, Answered, Ans, ClerkErr,
      Rounds, V
<1>7. CountInv'
  BY <1>1, <1>6 DEF IInv, CountInv, V
<1>8. ListInv'
  BY <1>1, <1>6 DEF IInv, ListInv, V, D, Mine
<1> QED
  BY <1>2, <1>3, <1>4, <1>5, <1>7, <1>8 DEF IInv

\* The tester cuts a client off, or connects it again.
LEMMA EnableStep ==
  ASSUME IInv, NEW c \in Clients, Enable(c), TestStays
  PROVE  IInv'
<1>1. /\ enabled' = [enabled EXCEPT ![c] = ~@]
      /\ UNCHANGED <<op, first, rpc, reply, result, data, dataVersion, late>>
      /\ UNCHANGED <<test, pc, ver, err, nok, nmaybe>>
  BY DEF Enable, storeVars, clerkVars, TestStays, testVars
<1>2. StateInv'
  BY <1>1 DEF IInv, StateInv, TestTypes
<1>3. ~Reliable
  BY DEF Enable, Reliable
<1>4. LateInv'
  BY <1>1 DEF IInv, LateInv, Waits, Answered, V
<1> QED
  BY <1>1, <1>2, <1>3, <1>4, QuietStep

\* The server answers a Get with what it has.
LEMMA HandleGetStep ==
  ASSUME IInv, NEW c \in Clients, Handle(c), TestStays, op[c].Op = "Get"
  PROVE  IInv'
<1> DEFINE r == [Err |-> "OK", Value |-> D, Version |-> V]
<1>0. StateInv /\ ClientInv(c)
  BY DEF IInv
<1>1. /\ rpc[c] = "dispatched" /\ rpc' = [rpc EXCEPT ![c] = "replied"]
      /\ reply' = [reply EXCEPT ![c] = Get(op[c])]
      /\ UNCHANGED <<op, first, result, data, dataVersion, enabled, late>>
      /\ UNCHANGED <<test, pc, ver, err, nok, nmaybe>>
  BY DEF Handle, storeVars, netVars, TestStays, testVars
<1>2. pc[c] \in {"get", "check"}
  BY <1>0, <1>1 DEF ClientInv, IdleInv, PutInv, PutOps
<1>3. op[c] = GetOp(Key, AnId) /\ V > 0
  BY <1>0, <1>1, <1>2 DEF ClientInv, GetInv
<1>4. D # NoValue /\ D \in Vals /\ V \in Nat
  BY <1>0, <1>3, TestAssumption DEF IInv, StoreInv, StateInv, D, V
<1>5. Get(op[c]) = r
  BY <1>3, <1>4 DEF Get, GetOp, D, V
<1>6. r \in Answers /\ r.Err = "OK" /\ r.Value = D /\ r.Version = V
  BY <1>4 DEF Answers, Errs
<1> HIDE DEF r
<1>7. StateInv'
  BY <1>0, <1>1, <1>5, <1>6 DEF StateInv, TestTypes
<1>8. /\ rpc'[c] = "replied" /\ reply'[c] = r
      /\ \A d \in Clients : d # c => rpc'[d] = rpc[d] /\ reply'[d] = reply[d]
  BY <1>0, <1>1, <1>5 DEF StateInv
<1>9. OnlyClient(c)
  BY <1>1, <1>8 DEF OnlyClient, Same
<1>10. /\ Ans(c)' = [Err |-> "OK", Value |-> D, Version |-> V]
       /\ ~Answered(c) /\ Answered(c)'
  BY <1>1, <1>6, <1>8 DEF Ans, Answered, ClerkErr
<1>11. GoesOn(c)
  BY <1>1, <1>2, <1>6, <1>8, <1>10 DEF GoesOn, r
<1>12. Reliable => first'[c]
  BY <1>0, <1>1 DEF ClientInv, ReliableInv
<1> QED
  BY <1>1, <1>2, <1>7, <1>8, <1>9, <1>10, <1>11, <1>12, GoesOnStep

\* A Put with a version that the server is past fails.
LEMMA OldPut ==
  ASSUME StateInv, NEW o \in PutOps, o.Version < V
  PROVE  PutErr(o) = "ErrVersion" /\ ~PutPerforms(o)
<1>1. o.Key = Key /\ o.Version \in Nat /\ V \in Nat
  BY Numbers DEF PutOps
<1>2. V # 0 /\ V # o.Version
  BY <1>1
<1> QED
  BY <1>1, <1>2 DEF PutErr, PutPerforms, Present, V

\* The server answers a Put that comes too late.
LEMMA HandleOldPutStep ==
  ASSUME IInv, NEW c \in Clients, Handle(c), TestStays, op[c] \in PutOps,
         op[c].Version < V
  PROVE  IInv'
<1> DEFINE r == PutReply(op[c])
<1>0. StateInv /\ ClientInv(c)
  BY DEF IInv
<1>1. PutErr(op[c]) = "ErrVersion" /\ ~PutPerforms(op[c])
  BY <1>0, OldPut
<1>2. op[c].Op = "Put"
  BY DEF PutOps
<1>3. /\ rpc[c] = "dispatched" /\ rpc' = [rpc EXCEPT ![c] = "replied"]
      /\ reply' = [reply EXCEPT ![c] = r]
      /\ UNCHANGED <<op, first, result, data, dataVersion, enabled, late>>
      /\ UNCHANGED <<test, pc, ver, err, nok, nmaybe>>
  BY <1>1, <1>2 DEF Handle, Put, storeVars, netVars, TestStays, testVars
<1>4. pc[c] = "put"
  <2>1. pc[c] \in {"get", "check"} => op[c].Op = "Get"
    BY <1>0, <1>3 DEF ClientInv, GetInv, GetOp
  <2> QED
    BY <1>0, <1>2, <1>3, <2>1 DEF ClientInv, IdleInv
<1>5. r \in Answers /\ r.Err = "ErrVersion"
  BY <1>1 DEF PutReply, Answers, Errs
<1> HIDE DEF r
<1>6. StateInv'
  BY <1>0, <1>3, <1>5 DEF StateInv, TestTypes
<1>7. /\ rpc'[c] = "replied" /\ reply'[c] = r
      /\ \A d \in Clients : d # c => rpc'[d] = rpc[d] /\ reply'[d] = reply[d]
  BY <1>0, <1>3 DEF StateInv
<1>8. OnlyClient(c)
  BY <1>3, <1>7 DEF OnlyClient, Same
<1>9. /\ Ans(c)'.Err = IF first[c] THEN "ErrVersion" ELSE "ErrMaybe"
      /\ ~Answered(c) /\ Answered(c)'
  BY <1>2, <1>3, <1>5, <1>7 DEF Ans, Answered, ClerkErr
<1>10. GoesOn(c)
  BY <1>3, <1>4, <1>5, <1>7, <1>9 DEF GoesOn
<1>11. Reliable => first'[c]
  BY <1>0, <1>3 DEF ClientInv, ReliableInv
<1> QED
  BY <1>3, <1>4, <1>6, <1>7, <1>8, <1>9, <1>10, <1>11, GoesOnStep

-----------------------------------------------------------------------------
(* A Put is performed *)

\* The Put that c waits for is performed, by the handler that answers it or
\* by one that was left behind.
Performs(c) ==
  /\ Waits(c)
  /\ op[c] \in PutOps /\ op[c].Version = V
  /\ data' = [data EXCEPT ![Key] = op[c].Value]
  /\ dataVersion' = [dataVersion EXCEPT ![Key] = @ + 1]
  /\ UNCHANGED <<op, first, result, enabled>>
  /\ \A d \in Clients : d # c => rpc'[d] = rpc[d] /\ reply'[d] = reply[d]
  /\ \/ /\ rpc'[c] = "replied" /\ reply'[c] \in Answers /\ reply'[c].Err = "OK"
     \/ /\ rpc'[c] = rpc[c] /\ reply'[c] = reply[c]
        /\ ~first[c]
  /\ \A s \in LateSlots : late'[s] = late[s] \/ late'[s] = NoOp

\* The positions of a client's entries when one is appended.
LEMMA MineAppend ==
  ASSUME NEW es \in Seq(Entries), NEW e \in Entries, NEW d
  PROVE  Mine(Append(es, e), d) =
           IF e[1] = d THEN Mine(es, d) \cup {Len(es) + 1} ELSE Mine(es, d)
<1> DEFINE fs == Append(es, e)
<1>1. /\ fs \in Seq(Entries) /\ Len(fs) = Len(es) + 1 /\ Len(es) \in Nat
      /\ fs[Len(es) + 1] = e
      /\ \A i \in 1..Len(es) : fs[i] = es[i]
  OBVIOUS
<1> HIDE DEF fs
<1>2. \A i \in 1..Len(fs) : i = Len(es) + 1 \/ i \in 1..Len(es)
  BY <1>1
<1>3. \A i \in 1..Len(es) : i \in 1..Len(fs)
  BY <1>1
<1>4. Len(es) + 1 \in 1..Len(fs)
  BY <1>1
<1>5. Mine(fs, d) = IF e[1] = d THEN Mine(es, d) \cup {Len(es) + 1} ELSE Mine(es, d)
  BY <1>1, <1>2, <1>3, <1>4 DEF Mine
<1> QED
  BY <1>5 DEF fs

\* The positions of a client's entries are finitely many.
LEMMA MineFinite ==
  ASSUME NEW es \in Seq(Entries), NEW d
  PROVE  /\ IsFiniteSet(Mine(es, d))
         /\ Cardinality(Mine(es, d)) \in Nat
         /\ Mine(es, d) \subseteq 1..Len(es)
<1>1. IsFiniteSet(1..Len(es))
  BY FS_Interval
<1>2. Mine(es, d) \subseteq 1..Len(es)
  BY DEF Mine
<1>3. IsFiniteSet(Mine(es, d))
  BY <1>1, <1>2, FS_Subset
<1> QED
  BY <1>2, <1>3, FS_CardinalityType

\* One more entry is counted once.
LEMMA MineCount ==
  ASSUME NEW es \in Seq(Entries), NEW e \in Entries, NEW d
  PROVE  Cardinality(Mine(Append(es, e), d)) =
           IF e[1] = d THEN Cardinality(Mine(es, d)) + 1
                       ELSE Cardinality(Mine(es, d))
<1>1. Len(es) + 1 \notin Mine(es, d)
  BY DEF Mine
<1>2. Cardinality(Mine(es, d) \cup {Len(es) + 1}) = Cardinality(Mine(es, d)) + 1
  BY <1>1, MineFinite, FS_AddElement
<1> QED
  BY <1>2, MineAppend

\* The store and the other clients when the Put of c is performed.
LEMMA PerformFacts ==
  ASSUME IInv, NEW c \in Clients, Performs(c), TestStays
  PROVE  /\ V \in Nat /\ V' = V + 1 /\ D' = op[c].Value /\ D' \in Vals
         /\ UNCHANGED <<test, pc, ver, err, nok, nmaybe>>
         /\ \A d \in Clients : d # c => Same(d)
         /\ ~MayBePerformed(c) /\ MayBePerformed(c)'
         /\ ~Performed(c)
         /\ Concurrent => c \in Putters /\ pc[Checker] = "wait"
         /\ ~Concurrent => c = Checker
<1>0. StateInv /\ ClientInv(c) /\ Checker \in Clients /\ Key \in Keys
  BY TestAssumption DEF IInv
<1>1. V \in Nat /\ V' = V + 1 /\ D' = op[c].Value /\ D' \in Vals
  BY <1>0 DEF Performs, StateInv, V, D, PutOps
<1>2. UNCHANGED <<test, pc, ver, err, nok, nmaybe>>
  BY DEF TestStays, testVars
<1>3. \A d \in Clients : d # c => Same(d)
  BY <1>2 DEF Performs, Same
<1>4. ~MayBePerformed(c) /\ ~Performed(c)
  BY <1>1 DEF MayBePerformed, Performed, Performs, Waits
<1>5. MayBePerformed(c)'
  <2>1. CASE rpc'[c] = "replied" /\ reply'[c] \in Answers /\ reply'[c].Err = "OK"
    <3>1. Answered(c)' /\ Ans(c)'.Err = "OK"
      BY <2>1 DEF Answered, Ans, ClerkErr
    <3> QED
      BY <1>2, <3>1 DEF MayBePerformed, Performs, Waits
  <2>2. CASE rpc'[c] = rpc[c] /\ reply'[c] = reply[c] /\ ~first[c]
    <3>1. Waits(c)' /\ ~first'[c]
      BY <1>2, <2>2 DEF Performs, Waits, Answered
    <3>2. op'[c].Version < V'
      BY <1>1 DEF Performs
    <3> QED
      BY <3>1, <3>2 DEF MayBePerformed
  <2> QED
    BY <2>1, <2>2 DEF Performs
<1>6. pc[c] = "put"
  BY DEF Performs, Waits
<1>7. Concurrent => c \in Putters /\ pc[Checker] = "wait"
  <2>1. Concurrent => c # Checker
    BY <1>6 DEF IInv, CheckerInv
  <2> QED
    BY <1>6, <2>1, TesterWaits DEF Putters
<1>8. ~Concurrent => c = Checker
  BY <1>6 DEF IInv, OneClientInv, Putters
<1> QED
  BY <1>1, <1>2, <1>3, <1>4, <1>5, <1>7, <1>8

\* OneClientAppend: the list grows by the entry of the round that c is in.
LEMMA ListGrows ==
  ASSUME IInv, NEW c \in Clients, Performs(c), TestStays, test = "Append"
  PROVE  /\ D \in Seq(Entries)
         /\ Entry(c, Rounds(c)) \in Entries /\ Entry(c, Rounds(c))[1] = c
         /\ Entry(c, Rounds(c))[2] = Rounds(c) /\ Rounds(c) \in Nat
         /\ D' = Append(D, Entry(c, Rounds(c)))
<1>0. StateInv /\ ClientInv(c) /\ c \in Putters
  BY PerformFacts DEF IInv, Concurrent
<1>1. D \in Seq(Entries)
  BY ListThere
<1>2. Rounds(c) \in Nat
  BY <1>0, Numbers
<1>3. op[c].Value = Append(D, Entry(c, Rounds(c)))
  BY <1>0 DEF ClientInv, AppenderInv, Performs, Waits, Answered
<1> QED
  BY <1>1, <1>2, <1>3, PerformFacts DEF Entry, Entries

\* Another client's operation after the Put of c: what it has read or tried
\* is old now, if it was not before.
LEMMA OtherAfterPut ==
  ASSUME IInv, NEW c \in Clients, Performs(c), TestStays,
         NEW d \in Clients, d # c
  PROVE  /\ ClientInv(d)'
         /\ \A n \in Nat : Bracket(d, n) => Bracket(d, n)'
<1>0. StateInv /\ ClientInv(d) /\ Same(d)
  BY PerformFacts DEF IInv
<1>1. /\ V \in Nat /\ V' = V + 1
      /\ UNCHANGED <<test, pc, ver, err, nok, nmaybe>>
  BY PerformFacts
<1>2. /\ Answered(d)' <=> Answered(d)
      /\ Ans(d)' = Ans(d)
      /\ Waits(d)' <=> Waits(d)
      /\ Rounds(d)' = Rounds(d)
  BY <1>0, SameAnswer
<1>3. pc[d] = "put" /\ rpc[d] # "idle" =>
        /\ op[d] \in PutOps /\ op[d].Version \in Nat
        /\ op[d].Version <= V /\ op[d].Version < V'
  BY <1>0, <1>1 DEF ClientInv, PutInv, PutOps
<1>4. PutInv(d)'
  BY <1>0, <1>1, <1>2, <1>3 DEF ClientInv, PutInv, Same
<1>5. pc[d] \in {"get", "check"} /\ Answered(d) =>
        Ans(d).Version \in Nat /\ Ans(d).Version <= V /\ Ans(d).Version # V'
  BY <1>0, <1>1 DEF ClientInv, GetInv, Answers
<1>6. GetInv(d)'
  BY <1>0, <1>1, <1>2, <1>5 DEF ClientInv, GetInv, Same
<1>7. IdleInv(d)' /\ RoundsInv(d)'
  BY <1>0, <1>1, <1>2 DEF ClientInv, IdleInv, RoundsInv, Same, Concurrent
<1>8. /\ Performed(d)' <=> Performed(d)
      /\ MayBePerformed(d) => MayBePerformed(d)'
  BY <1>0, <1>1, <1>2, <1>3 DEF Performed, MayBePerformed, Same, Waits, Answered
<1>9. PutterInv(d)'
  BY <1>0, <1>1, <1>2, <1>8, Numbers DEF ClientInv, PutterInv, Same
<1>10. AppenderInv(d)'
  <2>1. SUFFICES ASSUME test = "Append", d \in Putters
                 PROVE  /\ pc[d] = "put" /\ rpc[d] # "idle" =>
                             op[d].Value \in Seq(Entries)
                        /\ \A i \in Mine(D', d) :
                             /\ D'[i][2] <= Rounds(d)
                             /\ ~MayBePerformed(d)' => D'[i][2] < Rounds(d)
                        /\ pc[d] = "get" /\ Answered(d) => Ans(d).Value \in Seq(Entries)
    BY <1>0, <1>1, <1>2, <1>3 DEF AppenderInv, Same, Mine
  <2>2. Mine(D', d) = Mine(D, d) /\ \A i \in Mine(D, d) : D'[i] = D[i]
    <3> DEFINE e == Entry(c, Rounds(c))
    <3>1. D \in Seq(Entries) /\ e \in Entries /\ e[1] # d /\ D' = Append(D, e)
      BY <2>1, ListGrows
    <3> HIDE DEF e
    <3>2. Mine(Append(D, e), d) = Mine(D, d)
      BY <3>1, MineAppend
    <3>3. \A i \in 1..Len(D) : D'[i] = D[i]
      BY <3>1
    <3> QED
      BY <3>1, <3>2, <3>3 DEF Mine
  <2> QED
    BY <1>0, <1>8, <2>1, <2>2 DEF ClientInv, AppenderInv
<1>11. ReliableInv(d)'
  BY <1>0, <1>1 DEF ClientInv, ReliableInv, Same, Concurrent
<1>12. \A n \in Nat : Bracket(d, n) => Bracket(d, n)'
  BY <1>1, <1>2, <1>8 DEF Bracket
<1> QED
  BY <1>4, <1>6, <1>7, <1>9, <1>10, <1>11, <1>12 DEF ClientInv

\* The client whose Put is performed.
LEMMA OwnAfterPut ==
  ASSUME IInv, NEW c \in Clients, Performs(c), TestStays
  PROVE  /\ ClientInv(c)'
         /\ Concurrent => \A n \in Nat : Bracket(c, n) => Bracket(c, n + 1)'
<1>0. StateInv /\ ClientInv(c)
  BY DEF IInv
<1>1. /\ V \in Nat /\ V' = V + 1 /\ D' = op[c].Value
      /\ UNCHANGED <<test, pc, ver, err, nok, nmaybe>>
      /\ ~MayBePerformed(c) /\ MayBePerformed(c)' /\ ~Performed(c)
  BY PerformFacts
<1>2. /\ pc[c] = "put" /\ ~Answered(c) /\ rpc[c] \notin {"idle", "replied"}
      /\ op[c] \in PutOps /\ op[c].Version = V /\ op'[c] = op[c]
      /\ rpc'[c] = "replied" => reply'[c] \in Answers /\ reply'[c].Err = "OK"
      /\ rpc'[c] # "idle" /\ first'[c] = first[c] /\ enabled'[c] = enabled[c]
  BY DEF Performs, Waits, Answered
<1>3. PutInv(c)' /\ GetInv(c)' /\ IdleInv(c)'
  BY <1>1, <1>2 DEF PutInv, GetInv, IdleInv, Answered
<1>4. RoundsInv(c)'
  BY <1>0, <1>1, <1>2 DEF ClientInv, RoundsInv, Concurrent
<1>5. PutterInv(c)'
  BY <1>0, <1>1, <1>2, Numbers DEF ClientInv, PutterInv
<1>6. AppenderInv(c)'
  <2>1. SUFFICES ASSUME test = "Append", c \in Putters
                 PROVE  /\ op[c].Value \in Seq(Entries)
                        /\ \A i \in Mine(D', c) : D'[i][2] <= Rounds(c)
    BY <1>1, <1>2 DEF AppenderInv, Mine, Rounds
  <2> DEFINE e == Entry(c, Rounds(c))
  <2>2. /\ D \in Seq(Entries) /\ e \in Entries /\ e[1] = c /\ e[2] = Rounds(c)
        /\ D' = Append(D, e) /\ Rounds(c) \in Nat
    BY <2>1, ListGrows
  <2> HIDE DEF e
  <2>3. Mine(Append(D, e), c) = Mine(D, c) \cup {Len(D) + 1}
    BY <2>2, MineAppend
  <2>4. D'[Len(D) + 1] = e /\ \A i \in 1..Len(D) : D'[i] = D[i]
    BY <2>2
  <2>5. \A i \in Mine(D, c) : D'[i][2] <= Rounds(c)
    BY <1>0, <2>1, <2>4 DEF ClientInv, AppenderInv, Mine
  <2>6. op[c].Value \in Seq(Entries)
    BY <1>0, <1>2, <2>1 DEF ClientInv, AppenderInv
  <2>7. D'[Len(D) + 1][2] <= Rounds(c)
    BY <2>2, <2>4
  <2> QED
    BY <2>2, <2>3, <2>5, <2>6, <2>7
<1>7. ReliableInv(c)'
  BY <1>0, <1>1, <1>2 DEF ClientInv, ReliableInv, Concurrent
<1>8. \A n \in Nat : Bracket(c, n) => Bracket(c, n + 1)'
  BY <1>0, <1>1, Numbers DEF Bracket, Rounds
<1> QED
  BY <1>3, <1>4, <1>5, <1>6, <1>7, <1>8 DEF ClientInv

\* A Put that is performed keeps the invariant.
LEMMA PerformStep ==
  ASSUME IInv, NEW c \in Clients, Performs(c), TestStays, StateInv'
  PROVE  IInv'
<1>0. StateInv
  BY DEF IInv
<1>1. /\ V \in Nat /\ V' = V + 1 /\ D' = op[c].Value /\ D' \in Vals
      /\ UNCHANGED <<test, pc, ver, err, nok, nmaybe>>
      /\ \A d \in Clients : d # c => Same(d)
      /\ Concurrent => c \in Putters /\ pc[Checker] = "wait"
      /\ ~Concurrent => c = Checker
  BY PerformFacts
<1>2. StoreInv'
  BY <1>1, TestAssumption DEF StoreInv, Vals
<1>3. \A d \in Clients : ClientInv(d)'
  BY OwnAfterPut, OtherAfterPut
<1>4. LateInv'
  <2> SUFFICES ASSUME NEW s \in LateSlots, late'[s] # NoOp
               PROVE  late'[s].Version < V'
    BY DEF LateInv
  <2>1. late'[s] = late[s]
    BY DEF Performs
  <2>2. late[s] \in PutOps
    BY <1>0, <2>1 DEF StateInv
  <2>3. late[s].Version \in Nat
    BY <2>2 DEF PutOps
  <2>4. late[s].Version <= V
    <3>1. \A d \in Clients : Waits(d) => op[d].Version <= V
      BY DEF IInv, ClientInv, PutInv, Waits, Answered
    <3>2. \/ late[s].Version < V
          \/ \E d \in Clients : Waits(d) /\ ~first[d] /\ late[s] = op[d]
      BY <2>1 DEF IInv, LateInv
    <3> QED
      BY <1>1, <2>3, <3>1, <3>2
  <2> QED
    BY <1>1, <2>1, <2>3, <2>4
<1>5. CheckerInv'
  BY <1>1 DEF CheckerInv, Concurrent
<1>6. CountInv'
  <2>1. SUFFICES ASSUME test = "PutConcurrent" PROVE CountInv'
    BY <1>1 DEF CountInv
  <2>2. PICK p \in [Putters -> Nat] :
          /\ V = Total(p, Putters)
          /\ \A d \in Putters : Bracket(d, p[d])
    BY <2>1 DEF IInv, CountInv
  <2>3. Concurrent /\ c \in Putters /\ IsFiniteSet(Putters)
    BY <1>1, <2>1, TestAssumption, FS_Subset DEF Concurrent, Putters
  <2> DEFINE q == [p EXCEPT ![c] = @ + 1]
  <2>4. q \in [Putters -> Nat] /\ V' = Total(q, Putters)
    <3>1. q \in [Putters -> Nat]
      BY <2>3
    <3>2. Total(q, Putters) = Total(p, Putters) + 1
      BY <2>2, <2>3, SumPlusOne
    <3> QED
      BY <1>1, <2>2, <3>1, <3>2
  <2>5. \A d \in Putters : d # c => q[d] = p[d]
    OBVIOUS
  <2>6. q[c] = p[c] + 1
    BY <2>3
  <2> HIDE DEF q
  <2>7. \A d \in Putters : Bracket(d, q[d])'
    BY <2>2, <2>3, <2>5, <2>6, OwnAfterPut, OtherAfterPut, PutterIsClient
  <2> QED
    BY <2>4, <2>7 DEF CountInv
<1>7. ListInv'
  <2>1. SUFFICES ASSUME test = "Append" PROVE ListInv'
    BY <1>1 DEF ListInv
  <2> DEFINE e == Entry(c, Rounds(c))
  <2>2. /\ D \in Seq(Entries) /\ e \in Entries /\ e[1] = c /\ e[2] = Rounds(c)
        /\ D' = Append(D, e) /\ Rounds(c) \in Nat
    BY <2>1, ListGrows
  <2>3. Concurrent /\ c \in Putters
    BY <1>1, <2>1 DEF Concurrent
  <2> HIDE DEF e
  <2>4. /\ D' \in Seq(Entries) /\ Len(D') = Len(D) + 1
        /\ D'[Len(D) + 1] = e /\ \A i \in 1..Len(D) : D'[i] = D[i]
    BY <2>2
  <2>5. V = Len(D) + 1
    BY <2>1, ListThere
  <2>6. ASSUME NEW i \in 1..Len(D'), NEW j \in 1..Len(D'), i < j,
               D'[i][1] = D'[j][1]
        PROVE  D'[i][2] < D'[j][2]
    <3>1. i \in 1..Len(D) /\ D'[i] = D[i]
      BY <2>2, <2>4, <2>6
    <3>2. CASE j = Len(D) + 1
      <4>1. i \in Mine(D, c)
        BY <2>2, <2>4, <2>6, <3>1, <3>2 DEF Mine
      <4>2. ~MayBePerformed(c) /\ ClientInv(c)
        BY PerformFacts DEF IInv
      <4>3. D[i][2] < Rounds(c)
        BY <2>1, <2>3, <4>1, <4>2 DEF ClientInv, AppenderInv
      <4> QED
        BY <2>2, <2>4, <3>1, <3>2, <4>3
    <3>3. CASE j # Len(D) + 1
      <4>1. j \in 1..Len(D) /\ D'[j] = D[j]
        BY <2>2, <2>4, <3>3
      <4> QED
        BY <2>1, <2>6, <3>1, <4>1 DEF IInv, ListInv
    <3> QED
      BY <3>2, <3>3
  <2>7. ASSUME NEW d \in Putters
        PROVE  Bracket(d, Cardinality(Mine(D, d)))'
    <3>1. Bracket(d, Cardinality(Mine(D, d))) /\ d \in Clients
      BY <2>1, PutterIsClient DEF IInv, ListInv
    <3>2. Cardinality(Mine(D, d)) \in Nat
      BY <2>2, MineFinite
    <3>3. Cardinality(Mine(Append(D, e), d)) =
            IF c = d THEN Cardinality(Mine(D, d)) + 1 ELSE Cardinality(Mine(D, d))
      BY <2>2, MineCount
    <3>4. PICK n \in Nat : n = Cardinality(Mine(D, d))
      BY <3>2
    <3>5. PICK k \in Nat : k = IF c = d THEN n + 1 ELSE n
      BY <3>4
    <3>6. Cardinality(Mine(D, d))' = k
      BY <2>2, <3>3, <3>4, <3>5 DEF Mine
    <3>7. Bracket(d, n)
      BY <3>1, <3>4
    <3>8. Bracket(d, k)'
      BY <2>3, <3>1, <3>5, <3>7, OwnAfterPut, OtherAfterPut
    <3> QED
      BY <3>6, <3>8 DEF Bracket
  <2> QED
    BY <1>1, <2>4, <2>5, <2>6, <2>7 DEF ListInv
<1>8. OneClientInv'
  <2> SUFFICES ASSUME ~Concurrent PROVE OneClientInv'
    BY <1>1 DEF OneClientInv, Concurrent
  <2>1. OneClientInv /\ c = Checker
    BY <1>1 DEF IInv
  <2>2. pc[c] = "put" /\ rpc[c] # "idle" /\ op[c].Version = V /\ op'[c] = op[c]
    BY DEF Performs, Waits, Answered
  <2>3. ver[c] \in Nat /\ nmaybe[c] \in Nat
    BY <1>0, Numbers
  <2>4. V = ver[c] /\ nmaybe[c] = 0 /\ op[c].Value = Entry(c, 0)
    BY <2>1, <2>2, <2>3 DEF OneClientInv
  <2> QED
    BY <1>1, <2>1, <2>2, <2>3, <2>4 DEF OneClientInv
<1> QED
  BY <1>2, <1>3, <1>4, <1>5, <1>6, <1>7, <1>8 DEF IInv

\* A Put of the version that the server has is performed.
LEMMA NewPut ==
  ASSUME StateInv, NEW o \in PutOps, o.Version = V
  PROVE  PutErr(o) = "OK" /\ PutPerforms(o) /\ o.Key = Key
BY DEF PutErr, PutPerforms, Present, V, PutOps

\* It leaves a value and a version.
LEMMA NewPutTypes ==
  ASSUME StateInv, NEW v \in Vals, data' = [data EXCEPT ![Key] = v],
         dataVersion' = [dataVersion EXCEPT ![Key] = @ + 1]
  PROVE  /\ (data \in [Keys -> Vals \cup {NoValue}])'
         /\ (dataVersion \in [Keys -> Nat])'
<1>1. data' \in [Keys -> Vals \cup {NoValue}]
  BY DEF StateInv
<1>2. dataVersion' \in [Keys -> Nat]
  BY TestAssumption DEF StateInv
<1> QED
  BY <1>1, <1>2

\* The Put of c that a handler answers has the version that c has read.
LEMMA HandledPut ==
  ASSUME IInv, NEW c \in Clients, Handle(c), op[c].Op = "Put"
  PROVE  /\ rpc[c] = "dispatched" /\ pc[c] = "put" /\ Waits(c)
         /\ op[c] \in PutOps /\ op[c].Version \in Nat /\ op[c].Version <= V
<1>0. ClientInv(c)
  BY DEF IInv
<1>1. rpc[c] = "dispatched"
  BY DEF Handle
<1>2. pc[c] = "put"
  <2>1. pc[c] \in {"get", "check"} => op[c].Op = "Get"
    BY <1>0, <1>1 DEF ClientInv, GetInv, GetOp
  <2> QED
    BY <1>0, <1>1, <2>1 DEF ClientInv, IdleInv
<1>3. op[c] \in PutOps /\ op[c].Version <= V
  BY <1>0, <1>1, <1>2 DEF ClientInv, PutInv
<1> QED
  BY <1>1, <1>2, <1>3 DEF Waits, Answered, PutOps

\* The handler that answers a Put performs it.
LEMMA HandlePerforms ==
  ASSUME IInv, NEW c \in Clients, Handle(c), TestStays, op[c].Op = "Put",
         op[c].Version = V
  PROVE  Performs(c) /\ StateInv'
<1> DEFINE r == PutReply(op[c])
<1>0. StateInv /\ Waits(c) /\ op[c] \in PutOps
  BY HandledPut DEF IInv
<1>1. PutErr(op[c]) = "OK" /\ PutPerforms(op[c]) /\ op[c].Key = Key
  BY <1>0, NewPut
<1>2. /\ rpc' = [rpc EXCEPT ![c] = "replied"]
      /\ reply' = [reply EXCEPT ![c] = r]
      /\ data' = [data EXCEPT ![Key] = op[c].Value]
      /\ dataVersion' = [dataVersion EXCEPT ![Key] = @ + 1]
      /\ UNCHANGED <<op, first, result, enabled, late>>
  BY <1>1 DEF Handle, Put, netVars
<1>3. r \in Answers /\ r.Err = "OK"
  BY <1>1 DEF PutReply, Answers, Errs
<1> HIDE DEF r
<1>4. op[c].Value \in Vals
  BY <1>0 DEF PutOps
<1>5. StateInv'
  <2>1. /\ (data \in [Keys -> Vals \cup {NoValue}])'
        /\ (dataVersion \in [Keys -> Nat])'
    BY <1>0, <1>2, <1>4, NewPutTypes
  <2> QED
    BY <1>0, <1>2, <1>3, <2>1 DEF StateInv, TestTypes, TestStays, testVars
<1>6. /\ rpc'[c] = "replied" /\ reply'[c] = r
      /\ \A d \in Clients : d # c => rpc'[d] = rpc[d] /\ reply'[d] = reply[d]
  BY <1>0, <1>2 DEF StateInv
<1>7. Performs(c)
  BY <1>0, <1>2, <1>3, <1>6 DEF Performs
<1> QED
  BY <1>5, <1>7

\* The handler runs that answers a Put.
LEMMA HandlePutStep ==
  ASSUME IInv, NEW c \in Clients, Handle(c), TestStays, op[c].Op = "Put"
  PROVE  IInv'
<1>1. V \in Nat
  BY Numbers DEF IInv
<1>2. /\ op[c] \in PutOps /\ op[c].Version \in Nat
      /\ op[c].Version < V \/ op[c].Version = V
  BY <1>1, HandledPut
<1>3. CASE op[c].Version < V
  BY <1>2, <1>3, HandleOldPutStep
<1>4. CASE op[c].Version = V
  BY <1>4, HandlePerforms, PerformStep
<1> QED
  BY <1>2, <1>3, <1>4

\* A handler runs.
LEMMA HandleStep ==
  ASSUME IInv, NEW c \in Clients, Handle(c), TestStays
  PROVE  IInv'
<1>1. op[c].Op = "Get" \/ op[c].Op = "Put"
  BY DEF Handle
<1> QED
  BY <1>1, HandleGetStep, HandlePutStep

\* A handler left behind comes too late, or it performs the Put of a client
\* that waits for it.
LEMMA LatePerforms ==
  ASSUME IInv, NEW s \in LateSlots, HandleLate(s), TestStays
  PROVE  /\ StateInv'
         /\ \/ UNCHANGED <<data, dataVersion>>
            \/ \E c \in Clients : Performs(c)
<1> DEFINE o == late[s]
<1>0. StateInv /\ V \in Nat
  BY Numbers DEF IInv
<1>1. /\ late[s] # NoOp /\ Put(o) /\ late' = [late EXCEPT ![s] = NoOp]
      /\ UNCHANGED <<op, first, rpc, reply, result, enabled>>
      /\ UNCHANGED <<test, pc, ver, err, nok, nmaybe>>
  BY DEF HandleLate, clerkVars, TestStays, testVars
<1>2. o \in PutOps
  BY <1>0, <1>1 DEF StateInv
<1>3. o.Version \in Nat /\ o.Value \in Vals
  BY <1>2 DEF PutOps
<1>4. \A t \in LateSlots : late'[t] = late[t] \/ late'[t] = NoOp
  BY <1>0, <1>1 DEF StateInv
<1>5. (late \in [LateSlots -> PutOps \cup {NoOp}])'
  BY <1>0, <1>1 DEF StateInv
<1>6. CASE o.Version < V
  <2>1. ~PutPerforms(o)
    BY <1>0, <1>2, <1>6, OldPut
  <2>2. UNCHANGED <<data, dataVersion>>
    BY <1>1, <2>1 DEF Put, storeVars
  <2>3. StateInv'
    BY <1>0, <1>1, <1>5, <2>2 DEF StateInv, TestTypes
  <2> QED
    BY <2>2, <2>3
<1>7. CASE ~(o.Version < V)
  <2>1. PICK c \in Clients : Waits(c) /\ ~first[c] /\ o = op[c]
    BY <1>1, <1>7 DEF IInv, LateInv
  <2>2. op[c].Version <= V
    BY <2>1 DEF IInv, ClientInv, PutInv, Waits, Answered
  <2> HIDE DEF o
  <2>3. o.Version = V
    BY <1>0, <1>3, <1>7, <2>1, <2>2
  <2>4. PutErr(o) = "OK" /\ PutPerforms(o) /\ o.Key = Key
    BY <1>0, <1>2, <2>3, NewPut
  <2>5. /\ data' = [data EXCEPT ![Key] = o.Value]
        /\ dataVersion' = [dataVersion EXCEPT ![Key] = @ + 1]
    BY <1>1, <2>4 DEF Put
  <2>6. StateInv'
    <3>1. /\ (data \in [Keys -> Vals \cup {NoValue}])'
          /\ (dataVersion \in [Keys -> Nat])'
      BY <1>0, <1>3, <2>5, NewPutTypes
    <3> QED
      BY <1>0, <1>1, <1>5, <3>1 DEF StateInv, TestTypes
  <2>7. Performs(c)
    BY <1>1, <1>2, <1>4, <2>1, <2>3, <2>5 DEF Performs
  <2> QED
    BY <2>6, <2>7
<1> QED
  BY <1>6, <1>7

\* A handler left behind runs.
LEMMA HandleLateStep ==
  ASSUME IInv, NEW s \in LateSlots, HandleLate(s), TestStays
  PROVE  IInv'
<1>1. StateInv
  BY DEF IInv
<1>2. /\ late' = [late EXCEPT ![s] = NoOp]
      /\ UNCHANGED <<op, first, rpc, reply, result, enabled>>
      /\ UNCHANGED <<test, pc, ver, err, nok, nmaybe>>
  BY DEF HandleLate, clerkVars, TestStays, testVars
<1>3. CASE UNCHANGED <<data, dataVersion>>
  <2>1. \A t \in LateSlots : late'[t] = late[t] \/ late'[t] = NoOp
    BY <1>1, <1>2 DEF StateInv
  <2>2. LateInv'
    BY <1>2, <1>3, <2>1 DEF IInv, LateInv, Waits, Answered, V
  <2> QED
    BY <1>2, <1>3, <2>2, LatePerforms, QuietStep
<1>4. CASE \E c \in Clients : Performs(c)
  BY <1>4, LatePerforms, PerformStep
<1> QED
  BY <1>3, <1>4, LatePerforms

\* A loss, a handler given up, or a cut-off client.
LEMMA LossStepKeeps ==
  ASSUME IInv, NEW c \in Clients, LossStep(c), TestStays
  PROVE  IInv'
<1>1. CASE LoseRequest(c)
  BY <1>1, ResendStep DEF LoseRequest, storeVars, netVars
<1>2. CASE LoseReply(c)
  BY <1>2, ResendStep DEF LoseReply, storeVars, netVars
<1>3. CASE GiveUp(c)
  <2>1. \/ late' = late
        \/ /\ op[c].Op = "Put"
           /\ \E s \in LateSlots : late' = [late EXCEPT ![s] = op[c]]
    BY <1>3 DEF GiveUp
  <2>2. /\ rpc[c] = "dispatched" /\ ~enabled[c] /\ Resend(c)
        /\ UNCHANGED <<data, dataVersion, enabled>>
    BY <1>3 DEF GiveUp, storeVars
  <2> QED
    BY <2>1, <2>2, ResendStep
<1>4. CASE Enable(c)
  BY <1>4, EnableStep
<1> QED
  BY <1>1, <1>2, <1>3, <1>4 DEF LossStep

-----------------------------------------------------------------------------
(* CheckPutConcurrent and CheckAppends *)

\* Once the clients are done what they have counted brackets the version.
LEMMA VersionBracketed ==
  ASSUME IInv, AllDone, test = "PutConcurrent"
  PROVE  /\ Nok \in Nat /\ Nmaybe \in Nat /\ V \in Nat
         /\ Nok <= V /\ V <= Nok + Nmaybe
<1>0. StateInv
  BY DEF IInv
<1>1. PICK p \in [Putters -> Nat] :
        /\ V = Total(p, Putters)
        /\ \A c \in Putters : Bracket(c, p[c])
  BY DEF IInv, CountInv
<1>2. IsFiniteSet(Putters)
  BY TestAssumption, FS_Subset DEF Putters
<1>3. \A c \in Putters : ~MayBePerformed(c)
  BY DEF AllDone, MayBePerformed, Waits
<1> DEFINE all == [c \in Putters |-> nok[c] + nmaybe[c]]
<1>4. \A c \in Putters :
        /\ nok[c] \in Nat /\ nmaybe[c] \in Nat /\ p[c] \in Nat
        /\ nok[c] <= p[c] /\ p[c] <= nok[c] + nmaybe[c]
  BY <1>0, <1>1, <1>3, PutterIsClient, Numbers DEF Bracket, Rounds
<1>5. \A c \in Putters : all[c] = nok[c] + nmaybe[c] /\ all[c] \in Nat
  BY <1>4
<1> HIDE DEF all
<1>6. /\ Total(nok, Putters) \in Nat /\ Total(p, Putters) \in Nat
      /\ Total(nok, Putters) <= Total(p, Putters)
  BY <1>2, <1>4, SumMonotonic
<1>7. Total(p, Putters) <= Total(all, Putters)
  BY <1>2, <1>4, <1>5, SumMonotonic
<1>8. Total(all, Putters) = Total(nok, Putters) + Total(nmaybe, Putters)
  BY <1>2, <1>4, <1>5, SumOfSums
<1>9. \A c \in Putters : nmaybe[c] <= nmaybe[c]
  BY <1>4
<1>10. Total(nmaybe, Putters) \in Nat
  BY <1>2, <1>4, <1>9, SumMonotonic
<1>11. Nok = Total(nok, Putters) /\ Nmaybe = Total(nmaybe, Putters)
  BY DEF Nok, Nmaybe, Total
<1> QED
  BY <1>1, <1>6, <1>7, <1>8, <1>10, <1>11

\* Nobody counts an ErrMaybe on a reliable network.
LEMMA NoneMaybe ==
  ASSUME IInv, Concurrent, Reliable
  PROVE  Nmaybe = 0
<1>1. IsFiniteSet(Putters)
  BY TestAssumption, FS_Subset DEF Putters
<1>2. \A c \in Putters : nmaybe[c] = IF c = Checker THEN 0 ELSE 0
  BY PutterIsClient DEF IInv, ClientInv, ReliableInv
<1>3. Total(nmaybe, Putters) = IF Checker \in Putters THEN 0 ELSE 0
  BY <1>1, <1>2, SumOfOne
<1> QED
  BY <1>3 DEF Nmaybe, Total

\* CheckPutConcurrent is content.
LEMMA CountIsRight ==
  ASSUME IInv, AllDone, test = "PutConcurrent", Unreliable \/ ~Partitions
  PROVE  ~WrongCount(V)
<1>1. CASE Unreliable
  BY <1>1, VersionBracketed DEF WrongCount
<1>2. CASE ~Unreliable
  <2>1. Nmaybe = 0
    BY <1>2, NoneMaybe DEF Reliable, Concurrent
  <2> QED
    BY <1>2, <2>1, VersionBracketed DEF WrongCount
<1> QED
  BY <1>1, <1>2

\* A finite set of numbers has a largest one.
LEMMA MaxIsIn ==
  ASSUME NEW S, IsFiniteSet(S), S \subseteq Nat, S # {}
  PROVE  Max(S) \in S
<1> DEFINE Good == {T \in SUBSET S : T = {} \/ \E x \in T : \A y \in T : x >= y}
<1>1. ASSUME NEW T \in SUBSET S, \A U \in SUBSET T : U # T => U \in Good
      PROVE  T \in Good
  <2>1. SUFFICES ASSUME T # {} PROVE \E x \in T : \A y \in T : x >= y
    OBVIOUS
  <2>2. PICK z \in T : TRUE
    BY <2>1
  <2>3. T \ {z} \in Good
    BY <1>1, <2>2
  <2>4. CASE T \ {z} = {}
    BY <2>2, <2>4
  <2>5. CASE T \ {z} # {}
    <3>1. PICK x \in T \ {z} : \A y \in T \ {z} : x >= y
      BY <2>3, <2>5
    <3>2. x \in Nat /\ z \in Nat /\ T \subseteq Nat
      BY <2>2, <3>1
    <3>3. CASE x >= z
      BY <3>1, <3>3
    <3>4. CASE z > x
      BY <2>2, <3>1, <3>2, <3>4
    <3> QED
      BY <3>2, <3>3, <3>4
  <2> QED
    BY <2>4, <2>5
<1> HIDE DEF Good
<1>2. S \in Good
  BY <1>1, SubsetInduction
<1> QED
  BY <1>2 DEF Good, Max

\* CheckAppends is content.
LEMMA ListIsRight ==
  ASSUME IInv, AllDone, test = "Append"
  PROVE  ~WrongAppends(D, V)
<1>0. /\ StateInv /\ D \in Seq(Entries) /\ V = Len(D) + 1
      /\ \A i, j \in 1..Len(D) : i < j /\ D[i][1] = D[j][1] => D[i][2] < D[j][2]
  BY DEF IInv, ListInv
<1>1. \A i \in 1..Len(D) : D[i][2] \in Nat
  BY <1>0 DEF Entries
<1> SUFFICES ASSUME NEW c \in Putters
             PROVE  /\ \A i, j \in Mine(D, c) : ~(i < j /\ D[i][2] >= D[j][2])
                    /\ ~(Skipped(D, c) > nmaybe[c])
                    /\ ~(Expect(D, c) > nok[c] + nmaybe[c])
  BY <1>0 DEF WrongAppends
<1>2. /\ c \in Clients /\ ClientInv(c) /\ pc[c] = "done" /\ ~MayBePerformed(c)
      /\ nok[c] \in Nat /\ nmaybe[c] \in Nat
  BY <1>0, PutterIsClient, Numbers DEF AllDone, IInv, MayBePerformed, Waits
<1>3. \A i, j \in Mine(D, c) : ~(i < j /\ D[i][2] >= D[j][2])
  BY <1>0, <1>1 DEF Mine
<1>4. /\ IsFiniteSet(Mine(D, c)) /\ Mine(D, c) \subseteq Nat
      /\ Cardinality(Mine(D, c)) \in Nat
  <2>1. Mine(D, c) \subseteq 1..Len(D)
    BY <1>0, MineFinite
  <2> QED
    BY <1>0, <2>1, MineFinite
<1>5. \A i \in Mine(D, c) : D[i][2] \in Nat /\ D[i][2] < nok[c] + nmaybe[c]
  BY <1>1, <1>2 DEF ClientInv, AppenderInv, Rounds, Mine
<1>6. Expect(D, c) \in Nat /\ Expect(D, c) <= nok[c] + nmaybe[c]
  <2>1. CASE Mine(D, c) = {}
    BY <1>2, <2>1 DEF Expect
  <2>2. CASE Mine(D, c) # {}
    <3> DEFINE m == Max(Mine(D, c))
    <3>1. m \in Mine(D, c)
      BY <1>4, <2>2, MaxIsIn
    <3> HIDE DEF m
    <3>2. D[m][2] \in Nat /\ D[m][2] < nok[c] + nmaybe[c]
      BY <1>5, <3>1
    <3>3. Expect(D, c) = D[m][2] + 1
      BY <2>2 DEF Expect, m
    <3> QED
      BY <1>2, <3>2, <3>3
  <2> QED
    BY <2>1, <2>2
<1>7. nok[c] <= Cardinality(Mine(D, c))
  BY DEF IInv, ListInv, Bracket
<1>8. ~(Skipped(D, c) > nmaybe[c])
  BY <1>2, <1>4, <1>6, <1>7 DEF Skipped
<1> QED
  BY <1>2, <1>3, <1>6, <1>8

-----------------------------------------------------------------------------
(* The tester's clerk *)

\* What is left to show of a step of the tester.
LEMMA TesterStepOf ==
  ASSUME IInv, OnlyClient(Checker), ~Waits(Checker), late' = late, StateInv',
         PutInv(Checker)', GetInv(Checker)', IdleInv(Checker)',
         ReliableInv(Checker)', CheckerInv', OneClientInv'
  PROVE  IInv'
<1>1. Checker \in Clients /\ Checker \notin Putters
  BY TestAssumption DEF Putters
<1>2. LateInv'
  BY <1>1, LateKept
<1>3. RoundsInv(Checker)' /\ PutterInv(Checker)' /\ AppenderInv(Checker)'
  BY <1>1 DEF RoundsInv, PutterInv, AppenderInv
<1>4. ClientInv(Checker)'
  BY <1>3 DEF ClientInv
<1> QED
  BY <1>1, <1>2, <1>4, StepOf

\* The tester begins an operation.
LEMMA TesterStarts ==
  ASSUME IInv, NEW o \in OpArgs, Start(Checker, o), TestTypes',
         OthersStay(Checker), test' = test, err' = err,
         Concurrent => nmaybe' = nmaybe,
         \/ pc'[Checker] \in {"get", "check"} /\ o = GetOp(Key, AnId) /\ V > 0
         \/ pc'[Checker] = "put" /\ o \in PutOps /\ o.Version <= V,
         Started(Checker, o) => CheckerInv' /\ OneClientInv'
  PROVE  IInv'
<1>0. Checker \in Clients /\ StateInv /\ ClientInv(Checker)
  BY TestAssumption DEF IInv
<1>1. StateInv' /\ Started(Checker, o)
  BY <1>0, StartBegins
<1>2. OnlyClient(Checker)
  BY <1>1 DEF OnlyClient, Same, Started, OthersStay
<1>3. PutInv(Checker)' /\ GetInv(Checker)' /\ IdleInv(Checker)'
  BY <1>0, <1>1, BeginsWell, Numbers
<1>4. ReliableInv(Checker)'
  BY <1>0, <1>1 DEF ClientInv, ReliableInv, Started, Concurrent
<1>5. ~Waits(Checker) /\ late' = late
  BY <1>1 DEF Waits, Started, Answered
<1> QED
  BY <1>1, <1>2, <1>3, <1>4, <1>5, TesterStepOf

\* The tester goes on without one.
LEMMA TesterGoesOn ==
  ASSUME IInv, UNCHANGED kvVars, rpc[Checker] = "idle", TestTypes',
         OthersStay(Checker), test' = test, err' = err,
         Concurrent => nmaybe' = nmaybe,
         pc'[Checker] \in {"loop", "passed", "fatal"},
         CheckerInv', OneClientInv'
  PROVE  IInv'
<1>0. Checker \in Clients /\ StateInv /\ ClientInv(Checker)
  BY TestAssumption DEF IInv
<1>1. UNCHANGED <<data, dataVersion, op, first, rpc, reply, result, enabled, late>>
  BY DEF kvVars, storeVars, clerkVars, netVars
<1>2. StateInv'
  BY <1>0, <1>1 DEF StateInv
<1>3. OnlyClient(Checker)
  BY <1>1 DEF OnlyClient, Same, OthersStay
<1>4. PutInv(Checker)' /\ GetInv(Checker)' /\ IdleInv(Checker)'
  BY <1>1 DEF PutInv, GetInv, IdleInv
<1>5. ReliableInv(Checker)'
  BY <1>0, <1>1 DEF ClientInv, ReliableInv, Concurrent
<1>6. ~Waits(Checker)
  BY DEF Waits, Answered
<1> QED
  BY <1>1, <1>2, <1>3, <1>4, <1>5, <1>6, TesterStepOf

\* The tester reads the key when all the clients are done.
LEMMA StartCheckStep ==
  ASSUME IInv, StartCheck
  PROVE  IInv'
<1> DEFINE o == GetOp(Key, AnId)
<1>0. StateInv /\ Checker \in Clients
  BY TestAssumption DEF IInv
<1>1. /\ AllDone /\ pc[Checker] = "wait" /\ Start(Checker, o)
      /\ pc' = [pc EXCEPT ![Checker] = "check"]
      /\ UNCHANGED <<test, ver, err, nok, nmaybe>>
  BY DEF StartCheck, GetJson, StartGet, Goto
<1>2. Concurrent
  BY <1>1 DEF IInv, OneClientInv
<1>3. V > 0
  <2>1. PICK c \in Putters : TRUE
    BY TestAssumption
  <2>2. ClientInv(c) /\ pc[c] = "done"
    BY <1>1, PutterIsClient DEF IInv, AllDone
  <2> QED
    BY <1>2, <2>2 DEF ClientInv, RoundsInv
<1>4. TestTypes' /\ pc'[Checker] = "check" /\ OthersStay(Checker)
  BY <1>0, <1>1 DEF StateInv, TestTypes, Pcs, OthersStay
<1>5. AllDone'
  BY <1>1, <1>4, PutterIsClient DEF AllDone, OthersStay, Putters
<1>6. o \in OpArgs /\ o = GetOp(Key, AnId)
  BY DEF OpArgs, o
<1> HIDE DEF o
<1>7. Started(Checker, o) => CheckerInv' /\ OneClientInv'
  BY <1>1, <1>2, <1>4, <1>5 DEF Started, CheckerInv, OneClientInv, Concurrent
<1> QED
  BY <1>1, <1>3, <1>4, <1>6, <1>7, TesterStarts

\* The tester compares.
LEMMA CheckStepKeeps ==
  ASSUME IInv, Check
  PROVE  IInv'
<1>0. StateInv /\ Checker \in Clients /\ ClientInv(Checker)
  BY TestAssumption DEF IInv
<1>1. pc[Checker] = "check" /\ rpc[Checker] = "idle"
  BY DEF Check, Finished
<1>2. Concurrent
  BY <1>1 DEF IInv, OneClientInv
<1>3. Answered(Checker) /\ Ans(Checker) = result[Checker]
  BY <1>1 DEF Answered, Ans
<1>4. AllDone /\ result[Checker].Version = V /\ result[Checker].Value = D
  BY <1>1, <1>2, <1>3 DEF IInv, CheckerInv
<1>5. result[Checker].Err = "OK"
  BY <1>0, <1>1, <1>3 DEF ClientInv, GetInv
<1>6. UNCHANGED <<test, ver, err, nok, nmaybe>> /\ UNCHANGED kvVars
  BY DEF Check
<1>7. /\ pc' = [pc EXCEPT ![Checker] = "passed"]
         \/ pc' = [pc EXCEPT ![Checker] = "fatal"]
      /\ Unreliable \/ ~Partitions => pc' = [pc EXCEPT ![Checker] = "passed"]
  BY <1>4, <1>5, CountIsRight, ListIsRight DEF Check, Goto
<1>8. TestTypes' /\ OthersStay(Checker)
  BY <1>0, <1>6, <1>7 DEF StateInv, TestTypes, Pcs, OthersStay
<1>9. /\ pc'[Checker] \in {"passed", "fatal"}
      /\ pc'[Checker] = "fatal" => ~Unreliable /\ Partitions
  BY <1>0, <1>7 DEF StateInv, TestTypes
<1>10. AllDone'
  BY <1>4, <1>8, PutterIsClient DEF AllDone, OthersStay, Putters
<1>11. CheckerInv' /\ OneClientInv'
  BY <1>2, <1>6, <1>9, <1>10 DEF CheckerInv, OneClientInv, Concurrent
<1> QED
  BY <1>1, <1>6, <1>8, <1>9, <1>11, TesterGoesOn

\* The tests with one client, by what its clerk is doing.
LEMMA OneClientFacts ==
  ASSUME IInv, pc[Checker] \in {"loop", "put", "get"}
  PROVE  /\ ~Concurrent /\ OneClientInv /\ StateInv /\ ClientInv(Checker)
         /\ Checker \in Clients /\ V \in Nat /\ ver[Checker] \in Nat
         /\ V = ver[Checker] \/ V = ver[Checker] + 1
         /\ rpc[Checker] = "idle" => Answered(Checker) /\ Ans(Checker) = result[Checker]
BY TestAssumption, Numbers DEF IInv, CheckerInv, OneClientInv, Answered, Ans

\* TestUnreliableNet and PutAtLeastOnce: the next Put.
LEMMA OneClientTryStep ==
  ASSUME IInv, OneClientTry
  PROVE  IInv'
<1> DEFINE n == ver[Checker]
           e == Entry(Checker, nmaybe[Checker])
           o == PutOp(Key, e, n, AnId)
<1>1. /\ pc[Checker] = "loop" /\ Start(Checker, o)
      /\ pc' = [pc EXCEPT ![Checker] = "put"]
      /\ UNCHANGED <<test, ver, err, nok, nmaybe>>
  BY DEF OneClientTry, PutJson, StartPut, Goto
<1>2. /\ ~Concurrent /\ OneClientInv /\ StateInv /\ Checker \in Clients
      /\ V \in Nat /\ n \in Nat /\ n <= V
  BY <1>1, OneClientFacts
<1>3. e \in Vals
  BY <1>2, Numbers DEF Entry, Entries, Vals
<1> HIDE DEF e, n
<1>4. o \in PutOps /\ o.Version = n /\ o.Value = e
  BY <1>2, <1>3, PutOpType
<1> HIDE DEF o
<1>5. TestTypes' /\ pc'[Checker] = "put" /\ OthersStay(Checker)
  BY <1>1, <1>2 DEF StateInv, TestTypes, Pcs, OthersStay
<1>6. \A c \in Putters : pc'[c] = "done"
  BY <1>2, <1>5, PutterIsClient DEF OneClientInv, OthersStay, Putters
<1>7. Started(Checker, o) => CheckerInv' /\ OneClientInv'
  <2> SUFFICES ASSUME Started(Checker, o) PROVE CheckerInv' /\ OneClientInv'
    OBVIOUS
  <2>1. CheckerInv'
    BY <1>1, <1>2 DEF CheckerInv, Concurrent
  <2>2. OneClientInv'
    BY <1>1, <1>2, <1>4, <1>5, <1>6 DEF Started, OneClientInv, Concurrent, e, n
  <2> QED
    BY <2>1, <2>2
<1> QED
  BY <1>1, <1>2, <1>4, <1>5, <1>7, TesterStarts DEF OpArgs

\* TestUnreliableNet: after an ErrMaybe the next Put does not succeed.
LEMMA TryReturnedStep ==
  ASSUME IInv, TryReturned
  PROVE  IInv'
<1> DEFINE o == GetOp(Key, AnId)
           e == result[Checker].Err
<1>1. /\ test = "UnreliableNet" /\ pc[Checker] = "put" /\ rpc[Checker] = "idle"
      /\ UNCHANGED <<test, ver, err, nok>>
  BY DEF TryReturned, Finished
<1>2. /\ ~Concurrent /\ OneClientInv /\ StateInv /\ Checker \in Clients
      /\ V \in Nat /\ ver[Checker] \in Nat /\ ClientInv(Checker)
      /\ Answered(Checker) /\ Ans(Checker) = result[Checker]
  BY <1>1, OneClientFacts
<1>3. /\ V = ver[Checker] + 1 /\ nmaybe[Checker] \in {0, 1}
      /\ nmaybe[Checker] = 1 => e # "OK"
      /\ e \in {"OK", "ErrVersion", "ErrMaybe"}
      /\ V > 0 /\ D = Entry(Checker, 0)
  BY <1>1, <1>2 DEF OneClientInv, ClientInv, PutInv
<1>4. CheckerInv'
  BY <1>1, <1>2 DEF CheckerInv, Concurrent
<1>5. CASE e = "ErrMaybe"
  <2>1. /\ nmaybe' = [nmaybe EXCEPT ![Checker] = 1]
        /\ pc' = [pc EXCEPT ![Checker] = "loop"] /\ UNCHANGED kvVars
    BY <1>5 DEF TryReturned, Goto
  <2>2. /\ TestTypes' /\ pc'[Checker] = "loop" /\ nmaybe'[Checker] = 1
        /\ OthersStay(Checker)
    BY <1>1, <1>2, <2>1 DEF StateInv, TestTypes, Pcs, OthersStay
  <2>3. \A c \in Putters : pc'[c] = "done"
    BY <1>2, <2>2, PutterIsClient DEF OneClientInv, OthersStay, Putters
  <2>4. V' = V /\ D' = D
    BY <2>1 DEF kvVars, storeVars, V, D
  <2>5. OneClientInv'
    BY <1>1, <1>3, <2>2, <2>3, <2>4 DEF OneClientInv
  <2> QED
    BY <1>1, <1>2, <1>4, <2>1, <2>2, <2>5, TesterGoesOn
<1>6. CASE e # "ErrMaybe"
  <2>1. /\ Start(Checker, o) /\ pc' = [pc EXCEPT ![Checker] = "get"]
        /\ nmaybe' = nmaybe
    BY <1>3, <1>6 DEF TryReturned, Goto, GetJson, StartGet
  <2>2. TestTypes' /\ pc'[Checker] = "get" /\ OthersStay(Checker)
    BY <1>1, <1>2, <2>1 DEF StateInv, TestTypes, Pcs, OthersStay
  <2>3. \A c \in Putters : pc'[c] = "done"
    BY <1>2, <2>2, PutterIsClient DEF OneClientInv, OthersStay, Putters
  <2>4. o \in OpArgs /\ o = GetOp(Key, AnId)
    BY DEF OpArgs, o
  <2> HIDE DEF o
  <2>5. Started(Checker, o) => OneClientInv'
    BY <1>1, <1>2, <1>3, <2>1, <2>2, <2>3 DEF Started, OneClientInv
  <2> QED
    BY <1>1, <1>2, <1>3, <1>4, <2>1, <2>2, <2>4, <2>5, TesterStarts
<1> QED
  BY <1>5, <1>6

\* TestUnreliableNet: the Put has left its value with the next version.
LEMMA NextTryStep ==
  ASSUME IInv, NextTry
  PROVE  IInv'
<1>1. /\ test = "UnreliableNet" /\ pc[Checker] = "get" /\ rpc[Checker] = "idle"
      /\ UNCHANGED <<test, err, nok>> /\ UNCHANGED kvVars
  BY DEF NextTry, Finished
<1>2. /\ ~Concurrent /\ OneClientInv /\ StateInv /\ Checker \in Clients
      /\ V \in Nat /\ ver[Checker] \in Nat /\ ClientInv(Checker)
      /\ Answered(Checker) /\ Ans(Checker) = result[Checker]
  BY <1>1, OneClientFacts
<1>3. /\ result[Checker].Err = "OK" /\ V > 0
      /\ result[Checker].Version = ver[Checker] + 1 /\ V = ver[Checker] + 1
      /\ result[Checker].Value = Entry(Checker, 0) /\ D = Entry(Checker, 0)
  BY <1>1, <1>2 DEF OneClientInv, ClientInv, GetInv
<1>4. /\ ver' = [ver EXCEPT ![Checker] = @ + 1]
      /\ nmaybe' = [nmaybe EXCEPT ![Checker] = 0]
      /\ \/ pc' = [pc EXCEPT ![Checker] = "loop"]
         \/ pc' = [pc EXCEPT ![Checker] = "passed"]
  BY <1>3 DEF NextTry, Goto
<1>5. /\ TestTypes' /\ pc'[Checker] \in {"loop", "passed"}
      /\ nmaybe'[Checker] = 0 /\ ver'[Checker] = ver[Checker] + 1
      /\ OthersStay(Checker)
  BY <1>1, <1>2, <1>4 DEF StateInv, TestTypes, Pcs, OthersStay
<1>6. \A c \in Putters : pc'[c] = "done"
  BY <1>2, <1>5, PutterIsClient DEF OneClientInv, OthersStay, Putters
<1>7. V' = V /\ D' = D
  BY <1>1 DEF kvVars, storeVars, V, D
<1>8. OneClientInv'
  BY <1>3, <1>5, <1>6, <1>7 DEF OneClientInv
<1>9. CheckerInv'
  BY <1>1, <1>2 DEF CheckerInv, Concurrent
<1> QED
  BY <1>1, <1>2, <1>5, <1>8, <1>9, TesterGoesOn

\* PutAtLeastOnce: each answer says that the server has the next version.
LEMMA PutAtLeastOnceStep ==
  ASSUME IInv, PutAtLeastOnce
  PROVE  IInv'
<1> DEFINE o == GetOp(Key, AnId)
           e == result[Checker].Err
<1>1. /\ test = "AtLeastOnce" /\ pc[Checker] = "put" /\ rpc[Checker] = "idle"
      /\ UNCHANGED <<test, err, nok, nmaybe>>
  BY DEF PutAtLeastOnce, Finished
<1>2. /\ ~Concurrent /\ OneClientInv /\ StateInv /\ Checker \in Clients
      /\ V \in Nat /\ ver[Checker] \in Nat /\ ClientInv(Checker)
      /\ Answered(Checker) /\ Ans(Checker) = result[Checker]
  BY <1>1, OneClientFacts
<1>3. /\ V = ver[Checker] + 1 /\ nmaybe[Checker] = 0
      /\ e \in {"OK", "ErrVersion", "ErrMaybe"}
      /\ V > 0 /\ D = Entry(Checker, 0)
  BY <1>1, <1>2 DEF OneClientInv, ClientInv, PutInv
<1>4. CheckerInv'
  BY <1>1, <1>2 DEF CheckerInv, Concurrent
<1>5. ver' = [ver EXCEPT ![Checker] = @ + 1]
  BY <1>3 DEF PutAtLeastOnce
<1>6. CASE e = "OK"
  <2>1. Start(Checker, o) /\ pc' = [pc EXCEPT ![Checker] = "get"]
    BY <1>6 DEF PutAtLeastOnce, Goto, GetJson, StartGet
  <2>2. /\ TestTypes' /\ pc'[Checker] = "get" /\ ver'[Checker] = ver[Checker] + 1
        /\ OthersStay(Checker)
    BY <1>1, <1>2, <1>5, <2>1 DEF StateInv, TestTypes, Pcs, OthersStay
  <2>3. \A c \in Putters : pc'[c] = "done"
    BY <1>2, <2>2, PutterIsClient DEF OneClientInv, OthersStay, Putters
  <2>4. o \in OpArgs /\ o = GetOp(Key, AnId)
    BY DEF OpArgs, o
  <2> HIDE DEF o
  <2>5. Started(Checker, o) => OneClientInv'
    BY <1>1, <1>2, <1>3, <2>1, <2>2, <2>3 DEF Started, OneClientInv
  <2> QED
    BY <1>1, <1>2, <1>3, <1>4, <2>1, <2>2, <2>4, <2>5, TesterStarts
<1>7. CASE e # "OK"
  <2>1. pc' = [pc EXCEPT ![Checker] = "loop"] /\ UNCHANGED kvVars
    BY <1>3, <1>7 DEF PutAtLeastOnce, Goto
  <2>2. /\ TestTypes' /\ pc'[Checker] = "loop" /\ ver'[Checker] = ver[Checker] + 1
        /\ OthersStay(Checker)
    BY <1>1, <1>2, <1>5, <2>1 DEF StateInv, TestTypes, Pcs, OthersStay
  <2>3. \A c \in Putters : pc'[c] = "done"
    BY <1>2, <2>2, PutterIsClient DEF OneClientInv, OthersStay, Putters
  <2>4. V' = V /\ D' = D
    BY <2>1 DEF kvVars, storeVars, V, D
  <2>5. OneClientInv'
    BY <1>1, <1>3, <2>2, <2>3, <2>4 DEF OneClientInv
  <2> QED
    BY <1>1, <1>2, <1>4, <2>1, <2>2, <2>5, TesterGoesOn
<1> QED
  BY <1>6, <1>7

\* CheckGet finds the value and the version of that Put.
LEMMA CheckGetStep ==
  ASSUME IInv, CheckGet
  PROVE  IInv'
<1>1. /\ test = "AtLeastOnce" /\ pc[Checker] = "get" /\ rpc[Checker] = "idle"
      /\ UNCHANGED <<test, ver, err, nok, nmaybe>> /\ UNCHANGED kvVars
  BY DEF CheckGet, Finished
<1>2. /\ ~Concurrent /\ OneClientInv /\ StateInv /\ Checker \in Clients
      /\ V \in Nat /\ ver[Checker] \in Nat /\ ClientInv(Checker)
      /\ Answered(Checker) /\ Ans(Checker) = result[Checker]
  BY <1>1, OneClientFacts
<1>3. /\ result[Checker].Err = "OK" /\ V > 0
      /\ result[Checker].Version = ver[Checker] /\ V = ver[Checker]
      /\ result[Checker].Value = Entry(Checker, 0)
  BY <1>1, <1>2 DEF OneClientInv, ClientInv, GetInv
<1>4. pc' = [pc EXCEPT ![Checker] = "passed"]
  BY <1>3 DEF CheckGet, Goto
<1>5. TestTypes' /\ pc'[Checker] = "passed" /\ OthersStay(Checker)
  BY <1>1, <1>2, <1>4 DEF StateInv, TestTypes, Pcs, OthersStay
<1>6. \A c \in Putters : pc'[c] = "done"
  BY <1>2, <1>5, PutterIsClient DEF OneClientInv, OthersStay, Putters
<1>7. V' = V /\ D' = D
  BY <1>1 DEF kvVars, storeVars, V, D
<1>8. OneClientInv'
  BY <1>1, <1>2, <1>3, <1>5, <1>6, <1>7 DEF OneClientInv
<1>9. CheckerInv'
  BY <1>1, <1>2 DEF CheckerInv, Concurrent
<1> QED
  BY <1>1, <1>5, <1>8, <1>9, TesterGoesOn

-----------------------------------------------------------------------------
(* The invariant and the theorems *)

\* Before the tests start nothing has been put, but for the empty list.
LEMMA InitIInv == Init => IInv
<1> SUFFICES ASSUME Init PROVE IInv
  OBVIOUS
<1>0. Checker \in Clients /\ Key \in Keys /\ IsFiniteSet(Putters)
  BY TestAssumption, FS_Subset DEF Putters
<1>1. /\ \A c \in Clients :
           /\ op[c] = NoOp /\ first[c] = TRUE /\ rpc[c] = "idle"
           /\ reply[c] = NoReply /\ result[c] = NoReply /\ enabled[c] = TRUE
           /\ ver[c] = 0 /\ err[c] = "OK" /\ nok[c] = 0 /\ nmaybe[c] = 0
      /\ \A s \in LateSlots : late[s] = NoOp
  BY DEF Init, ClerkInit
<1>2. /\ \A c \in Clients : c # Checker =>
           pc[c] = IF Concurrent THEN "loop" ELSE "done"
      /\ pc[Checker] = IF Concurrent THEN "wait" ELSE "loop"
  BY <1>0 DEF Init
<1>3. /\ test = "Append" => D = <<>> /\ V = 1
      /\ test # "Append" => D = NoValue /\ V = 0
  BY <1>0 DEF Init, StoreInit, MakeKVServer, D, V
<1>4. <<>> \in Seq(Entries) /\ <<>> \in Vals /\ <<>> # NoValue
  <2>1. <<>> \in Seq(Entries)
    OBVIOUS
  <2> QED
    BY <2>1, TestAssumption DEF Vals
<1>5. StateInv
  <2>1. data \in [Keys -> Vals \cup {NoValue}] /\ dataVersion \in [Keys -> Nat]
    BY <1>4 DEF Init, StoreInit, MakeKVServer
  <2>2. TestTypes
    BY DEF Init, TestTypes, Pcs, Errs
  <2> QED
    BY <2>1, <2>2 DEF Init, ClerkInit, StateInv
<1>6. StoreInv
  BY <1>3, <1>4 DEF StoreInv
<1>7. \A c \in Clients :
        /\ pc[c] \in {"loop", "wait", "done"} /\ ~Performed(c) /\ ~MayBePerformed(c)
        /\ Rounds(c) = 0
  BY <1>1, <1>2 DEF Performed, MayBePerformed, Waits, Rounds
<1>8. test = "Append" => \A c : Mine(D, c) = {}
  BY <1>3 DEF Mine
<1>9. ASSUME NEW c \in Clients
      PROVE  ClientInv(c)
  <2>1. PutInv(c) /\ GetInv(c) /\ IdleInv(c)
    BY <1>1, <1>7 DEF PutInv, GetInv, IdleInv
  <2>2. RoundsInv(c)
    BY <1>2, <1>7 DEF RoundsInv, Putters
  <2>3. PutterInv(c)
    BY <1>1, <1>3, <1>7 DEF PutterInv
  <2>4. AppenderInv(c)
    BY <1>7, <1>8 DEF AppenderInv
  <2>5. ReliableInv(c)
    BY <1>1, <1>7 DEF ReliableInv
  <2> QED
    BY <2>1, <2>2, <2>3, <2>4, <2>5 DEF ClientInv
<1>10. LateInv
  BY <1>1 DEF LateInv
<1>11. CheckerInv
  BY <1>2 DEF CheckerInv
<1>12. \A c \in Putters : Bracket(c, 0)
  BY <1>1, <1>7, PutterIsClient DEF Bracket
<1>13. CountInv
  <2>1. SUFFICES ASSUME test = "PutConcurrent" PROVE CountInv
    BY DEF CountInv
  <2> DEFINE p == [c \in Putters |-> 0]
  <2>2. p \in [Putters -> Nat]
    OBVIOUS
  <2>3. \A c \in Putters : p[c] = IF c = Checker THEN 0 ELSE 0
    OBVIOUS
  <2>4. \A c \in Putters : Bracket(c, p[c])
    BY <1>12
  <2> HIDE DEF p
  <2>5. Total(p, Putters) = 0
    BY <1>0, <2>3, SumOfOne
  <2> QED
    BY <1>3, <2>1, <2>2, <2>4, <2>5 DEF CountInv
<1>14. ListInv
  <2>1. SUFFICES ASSUME test = "Append" PROVE ListInv
    BY DEF ListInv
  <2>2. D \in Seq(Entries) /\ Len(D) = 0 /\ V = Len(D) + 1
    BY <1>3, <1>4, <2>1
  <2>3. \A c \in Putters : Cardinality(Mine(D, c)) = 0
    BY <1>8, <2>1, FS_EmptySet
  <2> QED
    BY <1>12, <2>2, <2>3 DEF ListInv
<1>15. OneClientInv
  BY <1>0, <1>1, <1>2, <1>3, PutterIsClient
  DEF OneClientInv, Putters, Concurrent
<1> QED
  BY <1>5, <1>6, <1>9, <1>10, <1>11, <1>13, <1>14, <1>15 DEF IInv

\* Every step of a test keeps the invariant.
LEMMA NextIInv == IInv /\ [Next]_vars => IInv'
<1> SUFFICES ASSUME IInv, [Next]_vars PROVE IInv'
  OBVIOUS
<1>1. CASE \E c \in Putters : PutterStep(c)
  BY <1>1, PutterStepKeeps
<1>2. CASE CheckStep
  BY <1>2, StartCheckStep, CheckStepKeeps DEF CheckStep
<1>3. CASE OneClientStep
  BY <1>3, OneClientTryStep, TryReturnedStep, NextTryStep, PutAtLeastOnceStep,
     CheckGetStep DEF OneClientStep
<1>4. CASE /\ \E c \in Clients : Dispatch(c) \/ Handle(c) \/ Return(c)
           /\ UNCHANGED testVars
  BY <1>4, DispatchStep, HandleStep, ReturnStep DEF TestStays
<1>5. CASE (\E c \in Clients : LossStep(c)) /\ UNCHANGED testVars
  BY <1>5, LossStepKeeps DEF TestStays
<1>6. CASE (\E s \in LateSlots : HandleLate(s)) /\ UNCHANGED testVars
  BY <1>6, HandleLateStep DEF TestStays
<1>7. CASE UNCHANGED vars
  <2>1. /\ UNCHANGED <<op, first, rpc, reply, result, data, dataVersion>>
        /\ UNCHANGED <<enabled, late>> /\ TestStays
    BY <1>7
    DEF vars, kvVars, storeVars, clerkVars, netVars, TestStays
  <2>2. StateInv' /\ LateInv'
    BY <2>1
    DEF IInv, StateInv, TestTypes, TestStays, testVars, LateInv, Waits,
        Answered, V
  <2> QED
    BY <2>1, <2>2, QuietStep
<1> QED
  BY <1>1, <1>2, <1>3, <1>4, <1>5, <1>6, <1>7 DEF Next

\* The invariant holds in every reachable state.
LEMMA SpecIInv == Spec => []IInv
BY InitIInv, NextIInv, PTL DEF Spec

\* The value of the key changes only when the Put of a client that waits is
\* performed.
LEMMA OnlyPutsChange ==
  ASSUME IInv, [Next]_vars, data' # data
  PROVE  TestStays /\ \E c \in Clients : Performs(c)
<1>1. CASE \E c \in Putters : PutterStep(c)
  <2>1. PICK c \in Putters : PutterStep(c)
    BY <1>1
  <2> QED
    BY <2>1
    DEF PutterStep, OneClientPut, OnePut, PutReturned, GetReturned, TryAgain,
        OneClientAppend, AppendGet, AppendPut, AppendDone, Stop, Count, PutJson,
        GetJson, StartPut, StartGet, Start, kvVars, storeVars
<1>2. CASE CheckStep
  BY <1>2
  DEF CheckStep, StartCheck, Check, GetJson, StartGet, Start, kvVars, storeVars
<1>3. CASE OneClientStep
  BY <1>3
  DEF OneClientStep, OneClientTry, TryReturned, NextTry, PutAtLeastOnce, CheckGet,
      PutJson, GetJson, StartPut, StartGet, Start, kvVars, storeVars
<1>4. ASSUME NEW c \in Clients, Handle(c), TestStays
      PROVE  Performs(c)
  <2>1. op[c].Op = "Put" /\ Put(op[c])
    BY <1>4 DEF Handle, storeVars
  <2>2. op[c] \in PutOps /\ op[c].Version \in Nat /\ op[c].Version <= V
    BY <1>4, <2>1, HandledPut
  <2>3. ~(op[c].Version < V)
    <3>1. PutPerforms(op[c])
      BY <2>1 DEF Put, storeVars
    <3> QED
      BY <2>2, <3>1, OldPut DEF IInv
  <2>4. op[c].Version = V
    BY <2>2, <2>3, Numbers DEF IInv
  <2> QED
    BY <1>4, <2>1, <2>4, HandlePerforms
<1>5. ASSUME NEW c \in Clients,
             Dispatch(c) \/ Return(c) \/ LossStep(c)
      PROVE  FALSE
  BY <1>5
  DEF Dispatch, Return, LossStep, LoseRequest, LoseReply, GiveUp, Enable, storeVars
<1>6. ASSUME NEW s \in LateSlots, HandleLate(s), TestStays
      PROVE  \E c \in Clients : Performs(c)
  BY <1>6, LatePerforms
<1>7. CASE UNCHANGED vars
  BY <1>7 DEF vars, kvVars, storeVars
<1> QED
  BY <1>1, <1>2, <1>3, <1>4, <1>5, <1>6, <1>7 DEF Next, TestStays

\* OneClientAppend: whatever is lost, sent again or left behind, a Put that
\* the server performs adds one entry to the list that is there.
THEOREM AppendsKept == Spec => NoAppendLost
<1>1. ASSUME IInv, [Next]_vars, test = "Append", data'[Key] # data[Key]
      PROVE  /\ IsPrefix(data[Key], data'[Key])
             /\ Len(data'[Key]) = Len(data[Key]) + 1
  <2>1. PICK c \in Clients : Performs(c) /\ TestStays
    BY <1>1, OnlyPutsChange
  <2> DEFINE e == Entry(c, Rounds(c))
  <2>2. D \in Seq(Entries) /\ e \in Entries /\ D' = Append(D, e)
    BY <1>1, <2>1, ListGrows
  <2> HIDE DEF e
  <2>3. Len(D') = Len(D) + 1 /\ Len(D) \in Nat
    BY <2>2
  <2>4. SubSeq(D, 1, Len(D)) = SubSeq(D', 1, Len(D))
    BY <2>2
  <2> QED
    BY <2>3, <2>4 DEF IsPrefix, D
<1>2. IInv /\ [Next]_vars =>
        [test = "Append" /\ data'[Key] # data[Key]
           => /\ IsPrefix(data[Key], data'[Key])
              /\ Len(data'[Key]) = Len(data[Key]) + 1]_vars
  BY <1>1
<1> QED
  BY <1>2, SpecIInv, PTL DEF Spec, NoAppendLost

\* CheckPutConcurrent: when the clients are done the OKs they have counted do
\* not exceed the version on the server, nor does it exceed the OKs and
\* ErrMaybes, and no handler left behind can change that any more.
THEOREM CountsBracket == Spec => []PutsCounted
<1>1. IInv => PutsCounted
  <2> SUFFICES ASSUME IInv, test = "PutConcurrent", AllDone
               PROVE  dataVersion[Key] \in Nok..(Nok + Nmaybe)
    BY DEF PutsCounted
  <2> QED
    BY VersionBracketed DEF V
<1> QED
  BY <1>1, SpecIInv, PTL

\* No test calls Fatalf, with any number of clients and rounds: the errors
\* are those that the tests expect, the values those that were put, and what
\* CheckPutConcurrent, CheckAppends, TestUnreliableNet and CheckGet compare
\* agrees.  No test cuts clients off on a network that it calls reliable;
\* CheckPutConcurrent would then have to allow for ErrMaybe.
THEOREM TestsPass ==
  ASSUME Unreliable \/ ~Partitions
  PROVE  Spec => []NoFatal
<1>1. IInv => NoFatal
  <2> SUFFICES ASSUME IInv, NEW c \in Clients PROVE pc[c] # "fatal"
    BY DEF NoFatal
  <2>1. CASE Concurrent /\ c \in Putters
    BY <2>1 DEF IInv, ClientInv, RoundsInv
  <2>2. CASE Concurrent /\ c = Checker
    BY <2>2 DEF IInv, CheckerInv
  <2>3. CASE ~Concurrent
    BY <2>3 DEF IInv, OneClientInv, Putters
  <2> QED
    BY <2>1, <2>2, <2>3 DEF Putters
<1> QED
  BY <1>1, SpecIInv, PTL

-----------------------------------------------------------------------------
(* Nobody goes on losing: the safety half of TestEnds for PutConcurrent. *)

\* A client of a test with several has rounds left while it is in one.
BoundInv(c) ==
  Concurrent =>
    /\ Rounds(c) <= MaxPuts[c]
    /\ pc[c] \in {"put", "get"} => Rounds(c) < MaxPuts[c]

\* A Put that has returned leaves the server past its version, and the Get
\* after it reads a later one.
TryInv(c) ==
  test = "PutConcurrent" =>
    /\ pc[c] = "put" /\ rpc[c] = "idle" => ver[c] < V
    /\ pc[c] = "get" => ver[c] < V
    /\ pc[c] = "get" /\ Answered(c) => ver[c] < Ans(c).Version

EndInv == \A c \in Putters : BoundInv(c) /\ TryInv(c)

\* A step of the clerk of c, or of the network for it.
ClerkStep(c) == Dispatch(c) \/ Handle(c) \/ Return(c) \/ LossStep(c)

\* A Put, performed or not, does not take the server back.
LEMMA PutGoesUp ==
  ASSUME StateInv, NEW o, Put(o)
  PROVE  V <= V'
<1>1. \A k \in Keys : dataVersion[k] \in Nat
  BY DEF StateInv
<1>2. CASE dataVersion' = dataVersion
  BY <1>1, <1>2, TestAssumption DEF V
<1>3. CASE dataVersion' = [dataVersion EXCEPT ![o.Key] = @ + 1]
  <2>1. V' = V \/ V' = V + 1
    BY <1>3, TestAssumption DEF StateInv, V
  <2> QED
    BY <1>1, <2>1, TestAssumption DEF V
<1> QED
  BY <1>2, <1>3 DEF Put, storeVars

\* A step of the clerk of d leaves other clients alone.
LEMMA ClerkStepOfOther ==
  ASSUME StateInv, NEW c \in Clients, NEW d \in Clients, c # d,
         ClerkStep(d), TestStays
  PROVE  Same(c)
<1>1. CASE Dispatch(d)
  BY <1>1 DEF Dispatch, StateInv, Same, TestStays, testVars, netVars
<1>2. CASE Handle(d)
  BY <1>2 DEF Handle, StateInv, Same, TestStays, testVars, netVars
<1>3. CASE Return(d)
  BY <1>3 DEF Return, StateInv, Same, TestStays, testVars, netVars
<1>4. CASE LossStep(d)
  BY <1>4
  DEF LossStep, LoseRequest, GiveUp, LoseReply, Enable, Resend, StateInv, Same,
      TestStays, testVars, netVars, clerkVars
<1> QED
  BY <1>1, <1>2, <1>3, <1>4 DEF ClerkStep

\* The version on the server does not go down when the network moves.
LEMMA ClerkStepGoesUp ==
  ASSUME StateInv, NEW d \in Clients, ClerkStep(d)
  PROVE  V <= V'
<1>1. CASE \E o : Put(o)
  BY <1>1, PutGoesUp
<1>2. CASE UNCHANGED storeVars
  BY <1>2, Numbers DEF storeVars, V
<1> QED
  BY <1>1, <1>2
  DEF ClerkStep, Dispatch, Handle, Return, LossStep, LoseRequest, GiveUp,
      LoseReply, Enable

\* A step of client d leaves the store and the others alone.
LEMMA PutterStepOfOther ==
  ASSUME StateInv, NEW d \in Clients, PutterStep(d)
  PROVE  test' = test /\ V' = V /\ \A c \in Clients : c # d => Same(c)
<1>1. CASE OnePut(d)
  BY <1>1
  DEF OnePut, PutJson, StartPut, Start, Goto, StateInv, TestTypes, Same, V,
      storeVars, netVars
<1>2. CASE PutReturned(d)
  BY <1>2
  DEF PutReturned, GetJson, StartGet, Start, Goto, StateInv, TestTypes, Same, V,
      kvVars, clerkVars, storeVars, netVars
<1>3. CASE GetReturned(d)
  BY <1>3
  DEF GetReturned, TryAgain, Count, PutJson, StartPut, Start, Goto, StateInv,
      TestTypes, Same, V, kvVars, clerkVars, storeVars, netVars
<1>4. CASE AppendGet(d)
  BY <1>4
  DEF AppendGet, GetJson, StartGet, Start, Goto, StateInv, TestTypes, Same, V,
      storeVars, netVars
<1>5. CASE AppendPut(d)
  BY <1>5
  DEF AppendPut, PutJson, StartPut, Start, Goto, StateInv, TestTypes, Same, V,
      kvVars, clerkVars, storeVars, netVars
<1>6. CASE AppendDone(d)
  BY <1>6
  DEF AppendDone, GetJson, StartGet, Start, Count, Goto, StateInv, TestTypes,
      Same, V, kvVars, clerkVars, storeVars, netVars
<1>7. CASE Stop(d)
  BY <1>7
  DEF Stop, Goto, StateInv, TestTypes, Same, V, kvVars, clerkVars, storeVars,
      netVars
<1> QED
  BY <1>1, <1>2, <1>3, <1>4, <1>5, <1>6, <1>7
  DEF PutterStep, OneClientPut, OneClientAppend

\* What a step of a test with several clients is to client c.
LEMMA StepFor ==
  ASSUME IInv, Concurrent, [Next]_vars, NEW c \in Putters
  PROVE  /\ test' = test
         /\ V <= V'
         /\ \/ Same(c)
            \/ PutterStep(c) /\ V' = V
            \/ ClerkStep(c) /\ TestStays
<1>0. StateInv /\ c \in Clients /\ c # Checker /\ Checker \in Clients
  BY PutterIsClient, TestAssumption DEF IInv, Putters
<1>1. V \in Nat
  BY <1>0, Numbers
<1>2. CASE \E d \in Putters : PutterStep(d)
  <2>1. PICK d \in Putters : PutterStep(d)
    BY <1>2
  <2>2. test' = test /\ V' = V /\ (c # d => Same(c))
    BY <1>0, <2>1, PutterIsClient, PutterStepOfOther
  <2> QED
    BY <1>1, <2>1, <2>2
<1>3. CASE CheckStep
  <2>1. test' = test /\ V' = V /\ Same(c)
    BY <1>0, <1>3
    DEF CheckStep, StartCheck, Check, GetJson, StartGet, Start, Goto, StateInv,
        TestTypes, Same, V, kvVars, clerkVars, storeVars, netVars
  <2> QED
    BY <1>1, <2>1
<1>4. CASE OneClientStep
  <2>1. pc[Checker] \in {"wait", "check", "passed", "fatal"}
    BY DEF IInv, CheckerInv
  <2> QED
    BY <1>4, <2>1
    DEF OneClientStep, OneClientTry, TryReturned, NextTry, PutAtLeastOnce,
        CheckGet, Finished, Concurrent
<1>5. ASSUME NEW d \in Clients, ClerkStep(d), TestStays
      PROVE  test' = test /\ V <= V' /\ (Same(c) \/ ClerkStep(c))
  BY <1>0, <1>5, ClerkStepOfOther, ClerkStepGoesUp DEF TestStays, testVars
<1>6. ASSUME NEW s \in LateSlots, HandleLate(s), TestStays
      PROVE  test' = test /\ V <= V' /\ Same(c)
  <2>1. V <= V'
    BY <1>0, <1>6, PutGoesUp DEF HandleLate
  <2> QED
    BY <1>6, <2>1 DEF HandleLate, clerkVars, TestStays, testVars, Same
<1>7. CASE UNCHANGED vars
  BY <1>1, <1>7
  DEF vars, kvVars, storeVars, clerkVars, netVars, testVars, V, Same
<1> QED
  BY <1>2, <1>3, <1>4, <1>5, <1>6, <1>7 DEF Next, ClerkStep, TestStays

\* A round is counted once, and begins only if there is one left.
LEMMA BoundStep ==
  ASSUME IInv, Concurrent, NEW c \in Putters, PutterStep(c), BoundInv(c)
  PROVE  BoundInv(c)'
<1>0. StateInv /\ c \in Clients /\ MaxPuts[c] \in Nat
  BY PutterIsClient, TestAssumption DEF IInv
<1>1. nok[c] \in Nat /\ nmaybe[c] \in Nat /\ Rounds(c) = nok[c] + nmaybe[c]
  BY <1>0, Numbers DEF Rounds
<1>2. Rounds(c)' = nok'[c] + nmaybe'[c]
  BY DEF Rounds
<1>3. ASSUME NEW e, Count(c, e), pc[c] \in {"put", "get"}
      PROVE  BoundInv(c)'
  <2>1. pc'[c] = "loop"
    BY <1>0, <1>3 DEF Count, Goto, StateInv, TestTypes
  <2>2. nok'[c] + nmaybe'[c] = nok[c] + nmaybe[c] + 1
    BY <1>0, <1>1, <1>3 DEF Count, StateInv, TestTypes
  <2>3. Rounds(c) < MaxPuts[c]
    BY <1>3 DEF BoundInv
  <2> QED
    BY <1>0, <1>1, <1>2, <2>1, <2>2, <2>3 DEF BoundInv
<1>4. ASSUME nok' = nok, nmaybe' = nmaybe,
             pc[c] \in {"put", "get"} \/ pc'[c] \notin {"put", "get"} \/ NextRound(c)
      PROVE  BoundInv(c)'
  BY <1>1, <1>2, <1>4 DEF BoundInv, NextRound
<1>5. CASE OnePut(c) \/ AppendGet(c)
  BY <1>4, <1>5 DEF OnePut, AppendGet
<1>6. CASE PutReturned(c) \/ AppendPut(c)
  BY <1>4, <1>6 DEF PutReturned, AppendPut, Finished
<1>7. CASE GetReturned(c)
  BY <1>3, <1>4, <1>7 DEF GetReturned, TryAgain, Finished
<1>8. CASE AppendDone(c)
  BY <1>3, <1>4, <1>8 DEF AppendDone, Finished
<1>9. CASE Stop(c)
  <2>1. pc'[c] = "done" /\ nok' = nok /\ nmaybe' = nmaybe
    BY <1>0, <1>9 DEF Stop, Goto, StateInv, TestTypes
  <2> QED
    BY <1>4, <2>1
<1> QED
  BY <1>5, <1>6, <1>7, <1>8, <1>9 DEF PutterStep, OneClientPut, OneClientAppend

\* OnePut goes from a Put to a Get, and from there to a Put with the version
\* it has read or to the end of the round.
LEMMA TryStep ==
  ASSUME IInv, NEW c \in Putters, test = "PutConcurrent", PutterStep(c),
         V' = V, TryInv(c)
  PROVE  /\ TryInv(c)'
         /\ ver[c] <= ver'[c]
         /\ pc[c] = "get" /\ pc'[c] # "get" => ver[c] < ver'[c]
<1>0. /\ StateInv /\ c \in Clients /\ ClientInv(c)
      /\ V \in Nat /\ ver[c] \in Nat
  BY PutterIsClient, Numbers DEF IInv
<1>1. CASE OnePut(c)
  <2>1. pc[c] = "loop" /\ pc'[c] = "put" /\ rpc'[c] = "sent" /\ ver' = ver
    BY <1>0, <1>1
    DEF OnePut, NextRound, Goto, PutJson, StartPut, Start, StateInv, TestTypes
  <2> QED
    BY <1>0, <2>1 DEF TryInv
<1>2. CASE PutReturned(c)
  <2>1. pc[c] = "put" /\ rpc[c] = "idle" /\ ver' = ver /\ pc'[c] \in {"get", "fatal"}
    BY <1>0, <1>2 DEF PutReturned, Finished, Goto, StateInv, TestTypes
  <2>2. pc'[c] = "get" => rpc'[c] = "sent"
    BY <1>0, <1>2
    DEF PutReturned, Goto, GetJson, StartGet, Start, StateInv, TestTypes
  <2>3. ver[c] < V
    BY <2>1 DEF TryInv
  <2> QED
    BY <1>0, <2>1, <2>2, <2>3 DEF TryInv, Answered
<1>3. CASE GetReturned(c)
  <2>1. pc[c] = "get" /\ rpc[c] = "idle" /\ Ans(c) = result[c] /\ Answered(c)
    BY <1>3 DEF GetReturned, Finished, Ans, Answered
  <2>2. ver[c] < result[c].Version /\ result[c].Err = "OK"
    BY <1>0, <2>1 DEF TryInv, ClientInv, GetInv
  <2>3. ~WrongValue(c)
    <3>1. MyVersion(c) => result[c].Value = Entry(c, ver[c])
      BY <1>0, <2>1 DEF MyVersion, ClientInv, PutterInv
    <3> QED
      BY <3>1 DEF WrongValue, Entry
  <2>4. ver'[c] = result[c].Version
    BY <1>0, <1>3, <2>2, <2>3 DEF GetReturned, StateInv, TestTypes
  <2>5. \/ pc'[c] = "put" /\ rpc'[c] = "sent"
        \/ pc'[c] = "loop"
    BY <1>0, <1>3, <2>2, <2>3
    DEF GetReturned, TryAgain, Count, Goto, PutJson, StartPut, Start, StateInv,
        TestTypes
  <2>6. result[c].Version \in Nat
    BY <1>0, <2>1 DEF ClientInv, GetInv, Answers
  <2> QED
    BY <1>0, <2>2, <2>4, <2>5, <2>6 DEF TryInv
<1>4. CASE Stop(c)
  <2>1. pc[c] = "loop" /\ pc'[c] = "done" /\ ver' = ver
    BY <1>0, <1>4 DEF Stop, Goto, StateInv, TestTypes
  <2> QED
    BY <1>0, <2>1 DEF TryInv
<1> QED
  BY <1>1, <1>2, <1>3, <1>4 DEF PutterStep, OneClientPut, OneClientAppend

\* The answer to a Get of c is later than what c has tried, as the server is
\* past that already.
LEMMA TryClerkStep ==
  ASSUME IInv, NEW c \in Putters, test = "PutConcurrent", ClerkStep(c),
         TestStays, V <= V', V' \in Nat, TryInv(c)
  PROVE  TryInv(c)'
<1>0. /\ StateInv /\ c \in Clients /\ ClientInv(c)
      /\ V \in Nat /\ ver[c] \in Nat
  BY PutterIsClient, Numbers DEF IInv
<1>1. ver' = ver /\ pc' = pc /\ test' = test
  BY DEF TestStays, testVars
<1>2. pc[c] = "get" => ver[c] < V /\ ver'[c] < V'
  BY <1>0, <1>1 DEF TryInv
<1>3. CASE rpc'[c] \in {"sent", "dispatched"}
  BY <1>1, <1>2, <1>3 DEF TryInv, Answered
<1>4. CASE Handle(c)
  <2>1. rpc[c] = "dispatched" /\ rpc'[c] = "replied"
    BY <1>0, <1>4 DEF Handle, StateInv
  <2>2. ASSUME pc[c] = "get" PROVE Ans(c)'.Version = V
    <3>1. op[c] = GetOp(Key, AnId) /\ V > 0
      BY <1>0, <2>1, <2>2 DEF ClientInv, GetInv
    <3>2. reply'[c] = Get(op[c])
      BY <1>0, <1>4, <3>1 DEF Handle, StateInv, GetOp
    <3>3. Get(op[c]).Version = V
      BY <3>1 DEF Get, GetOp, V, D, IInv, StoreInv
    <3> QED
      BY <2>1, <3>2, <3>3 DEF Ans
  <2> QED
    BY <1>1, <1>2, <2>1, <2>2 DEF TryInv
<1>5. CASE Return(c)
  <2>1. rpc[c] = "replied" /\ rpc'[c] = "idle" /\ Answered(c)
    BY <1>0, <1>5 DEF Return, StateInv, Answered
  <2>2. Ans(c)' = Ans(c)
    BY <1>0, <1>5, <2>1 DEF Return, StateInv, Ans
  <2>3. ASSUME pc[c] = "put" PROVE ver'[c] < V'
    <3>1. op[c].Version = ver[c] /\ op[c].Version < V
      BY <1>0, <2>1, <2>3 DEF ClientInv, PutInv, PutterInv
    <3> QED
      BY <1>0, <1>1, <3>1
  <2> QED
    BY <1>1, <1>2, <2>1, <2>2, <2>3 DEF TryInv
<1>6. CASE Enable(c)
  <2>1. rpc' = rpc /\ reply' = reply /\ result' = result /\ op' = op /\ first' = first
    BY <1>6 DEF Enable, clerkVars
  <2>2. Ans(c)' = Ans(c) /\ (Answered(c)' <=> Answered(c))
    BY <2>1 DEF Ans, Answered, ClerkErr
  <2> QED
    BY <1>0, <1>1, <1>2, <2>1, <2>2 DEF TryInv
<1> QED
  BY <1>0, <1>3, <1>4, <1>5, <1>6
  DEF ClerkStep, LossStep, LoseRequest, GiveUp, LoseReply, Resend, Dispatch,
      StateInv

\* What c keeps when it is left alone.
LEMMA EndSame ==
  ASSUME IInv, NEW c \in Putters, Same(c), test' = test, V <= V', V' \in Nat,
         BoundInv(c), TryInv(c)
  PROVE  BoundInv(c)' /\ TryInv(c)'
<1>1. V \in Nat /\ ver[c] \in Nat
  BY PutterIsClient, Numbers DEF IInv
<1>2. BoundInv(c)'
  BY SameAnswer DEF BoundInv, Concurrent, Same
<1>3. TryInv(c)'
  BY <1>1, SameAnswer DEF TryInv, Same
<1> QED
  BY <1>2, <1>3

\* Every step keeps the bound and the lead of the server, and the version
\* that a client tries goes up.
LEMMA EndStep ==
  ASSUME IInv, IInv', Concurrent, [Next]_vars, NEW c \in Putters,
         BoundInv(c), TryInv(c)
  PROVE  /\ BoundInv(c)' /\ TryInv(c)'
         /\ test = "PutConcurrent" =>
              /\ ver[c] <= ver'[c]
              /\ pc[c] = "get" /\ pc'[c] # "get" => ver[c] < ver'[c]
<1>0. V \in Nat /\ ver[c] \in Nat
  BY PutterIsClient, Numbers DEF IInv
<1>1. V' \in Nat
  BY TestAssumption DEF IInv, StateInv, V
<1>2. /\ test' = test
      /\ V <= V'
      /\ \/ Same(c)
         \/ PutterStep(c) /\ V' = V
         \/ ClerkStep(c) /\ TestStays
  BY StepFor
<1>3. CASE Same(c)
  <2>1. BoundInv(c)' /\ TryInv(c)'
    BY <1>1, <1>2, <1>3, EndSame
  <2> QED
    BY <1>0, <1>3, <2>1 DEF Same
<1>4. CASE PutterStep(c) /\ V' = V
  <2>1. BoundInv(c)'
    BY <1>4, BoundStep
  <2>2. CASE test = "PutConcurrent"
    BY <1>4, <2>1, <2>2, TryStep
  <2>3. CASE test # "PutConcurrent"
    BY <1>2, <2>1, <2>3 DEF TryInv
  <2> QED
    BY <2>2, <2>3
<1>5. CASE ClerkStep(c) /\ TestStays
  <2>1. UNCHANGED <<test, pc, ver, nok, nmaybe>>
    BY <1>5 DEF TestStays, testVars
  <2>2. BoundInv(c)'
    BY <2>1 DEF BoundInv, Rounds, Concurrent
  <2>3. CASE test = "PutConcurrent"
    BY <1>0, <1>1, <1>2, <1>5, <2>1, <2>2, <2>3, TryClerkStep
  <2>4. CASE test # "PutConcurrent"
    BY <2>1, <2>2, <2>4 DEF TryInv
  <2> QED
    BY <2>3, <2>4
<1> QED
  BY <1>2, <1>3, <1>4, <1>5

\* Nobody has tried anything at first.
LEMMA EndInit == Init => EndInv
<1> SUFFICES ASSUME Init, NEW c \in Putters PROVE BoundInv(c) /\ TryInv(c)
  BY DEF EndInv
<1>1. c \in Clients /\ c # Checker /\ MaxPuts[c] \in Nat
  BY TestAssumption DEF Putters
<1>2. pc[c] \in {"loop", "done"} /\ nok[c] = 0 /\ nmaybe[c] = 0
  BY <1>1 DEF Init
<1> QED
  BY <1>1, <1>2 DEF BoundInv, TryInv, Rounds

\* The tests with one client have no bounds to keep.
LEMMA EndNext == IInv /\ IInv' /\ EndInv /\ [Next]_vars => EndInv'
<1> SUFFICES ASSUME IInv, IInv', EndInv, [Next]_vars, NEW c \in Putters
             PROVE  BoundInv(c)' /\ TryInv(c)'
  BY DEF EndInv
<1>1. CASE Concurrent
  BY <1>1, EndStep DEF EndInv
<1>2. CASE ~Concurrent
  <2>1. test' = test
    BY DEF Next, PutterStep, OneClientPut, OneClientAppend, OnePut, PutReturned,
           GetReturned, AppendGet, AppendPut, AppendDone, Stop, CheckStep,
           StartCheck, Check, OneClientStep, OneClientTry, TryReturned, NextTry,
           PutAtLeastOnce, CheckGet, testVars, vars
  <2> QED
    BY <1>2, <2>1 DEF BoundInv, TryInv, Concurrent
<1> QED
  BY <1>1, <1>2

\* In PutConcurrent the version that a client tries is one of at most as many
\* as there are Puts to count.
TriesBounded ==
  test = "PutConcurrent" =>
    \A c \in Putters : ver[c] <= V /\ V <= Total(MaxPuts, Putters)

\* A client of PutConcurrent leaves the Get of OnePut only with a version
\* higher than the one it has tried, to count the round or to try again.
LosersGoOn ==
  [][test = "PutConcurrent" =>
       \A c \in Putters :
         /\ ver[c] <= ver'[c]
         /\ pc[c] = "get" /\ pc'[c] # "get" => ver[c] < ver'[c]]_vars

\* The version on the server is the number of Puts performed, at most one in
\* a round.
LEMMA VersionBounded ==
  ASSUME IInv, EndInv, test = "PutConcurrent"
  PROVE  V <= Total(MaxPuts, Putters)
<1>0. StateInv
  BY DEF IInv
<1>1. PICK p \in [Putters -> Nat] :
        /\ V = Total(p, Putters)
        /\ \A c \in Putters : Bracket(c, p[c])
  BY DEF IInv, CountInv
<1>2. IsFiniteSet(Putters)
  BY TestAssumption, FS_Subset DEF Putters
<1>3. ASSUME NEW c \in Putters
      PROVE  p[c] \in Nat /\ MaxPuts[c] \in Nat /\ p[c] <= MaxPuts[c]
  <2>0. c \in Clients /\ Rounds(c) \in Nat /\ MaxPuts[c] \in Nat /\ p[c] \in Nat
    BY <1>0, PutterIsClient, Numbers, TestAssumption
  <2>1. BoundInv(c) /\ Bracket(c, p[c]) /\ Concurrent
    BY <1>1 DEF EndInv, Concurrent
  <2>2. CASE pc[c] \in {"put", "get"}
    BY <2>0, <2>1, <2>2 DEF BoundInv, Bracket
  <2>3. CASE pc[c] \notin {"put", "get"}
    <3>1. ~MayBePerformed(c)
      BY <2>3 DEF MayBePerformed, Waits
    <3> QED
      BY <2>0, <2>1, <3>1 DEF BoundInv, Bracket
  <2> QED
    BY <2>2, <2>3
<1> QED
  BY <1>1, <1>2, <1>3, SumMonotonic

\* PutConcurrent: whatever is lost or left behind, a client that loses a race
\* tries a higher version each time, and there are no more versions than Puts
\* to count: nobody loses for ever, which is the safety half of TestEnds.
THEOREM NobodyLosesForever == Spec => []TriesBounded /\ LosersGoOn
<1>1. Spec => []EndInv
  BY EndInit, EndNext, NextIInv, SpecIInv, PTL DEF Spec
<1>2. IInv /\ EndInv => TriesBounded
  BY VersionBounded, PutterIsClient DEF TriesBounded, IInv, ClientInv, PutterInv
<1>3. IInv /\ EndInv /\ [Next]_vars =>
        [test = "PutConcurrent" =>
           \A c \in Putters :
             /\ ver[c] <= ver'[c]
             /\ pc[c] = "get" /\ pc'[c] # "get" => ver[c] < ver'[c]]_vars
  <2> SUFFICES ASSUME IInv, EndInv, [Next]_vars, test = "PutConcurrent",
                      NEW c \in Putters
               PROVE  /\ ver[c] <= ver'[c]
                      /\ pc[c] = "get" /\ pc'[c] # "get" => ver[c] < ver'[c]
    OBVIOUS
  <2>1. IInv' /\ Concurrent
    BY NextIInv DEF Concurrent
  <2> QED
    BY <2>1, EndStep DEF EndInv
<1> QED
  BY <1>1, <1>2, <1>3, SpecIInv, PTL DEF Spec, LosersGoOn

=============================================================================

--------------------------- MODULE SessionsProofs ---------------------------
(***************************************************************************)
(* What the steps of a call do to its session and to nobody else's, for    *)
(* the proofs about the services that are built from them.                 *)
(***************************************************************************)
EXTENDS Sessions, FiniteSetTheorems, TLAPS

\* Every client has a session with all of its fields.
SessionShape ==
  /\ DOMAIN session = Clients
  /\ \A c \in Clients : DOMAIN session[c] = DOMAIN Idle

\* The other clients' sessions stay as they are.
Alone(c) == \A d \in Clients : d # c => session'[d] = session[d]

\* What there is to do first, of one thing.
LEMMA HeadOfOne == \A x : Head(<<x>>) = x
OBVIOUS

\* A row with its value.
LEMMA RowIsRow ==
  ASSUME NEW r, NEW value
  PROVE  DOMAIN RowIs(r, value) = {r} /\ RowIs(r, value)[r] = value
BY DEF RowIs

\* Rows over others: which there are then, and their values.
LEMMA OverRows ==
  ASSUME NEW w, NEW rows
  PROVE  /\ DOMAIN Over(w, rows) = DOMAIN w \cup DOMAIN rows
         /\ \A r \in DOMAIN w : Over(w, rows)[r] = w[r]
         /\ \A r \in DOMAIN rows \ DOMAIN w : Over(w, rows)[r] = rows[r]
BY DEF Over

\* One row over others.
LEMMA OneOver ==
  ASSUME NEW r, NEW value, NEW rows
  PROVE  /\ DOMAIN Over(RowIs(r, value), rows) = {r} \cup DOMAIN rows
         /\ Over(RowIs(r, value), rows)[r] = value
         /\ \A s \in DOMAIN rows : s # r => Over(RowIs(r, value), rows)[s] = rows[s]
<1> DEFINE w == RowIs(r, value)
<1>1. DOMAIN w = {r} /\ w[r] = value
  BY RowIsRow
<1> HIDE DEF w
<1>2. /\ DOMAIN Over(w, rows) = DOMAIN w \cup DOMAIN rows
      /\ \A s \in DOMAIN w : Over(w, rows)[s] = w[s]
      /\ \A s \in DOMAIN rows \ DOMAIN w : Over(w, rows)[s] = rows[s]
  BY OverRows
<1>3. /\ DOMAIN Over(w, rows) = {r} \cup DOMAIN rows
      /\ Over(w, rows)[r] = value
      /\ \A s \in DOMAIN rows : s # r => Over(w, rows)[s] = rows[s]
  BY <1>1, <1>2
<1> QED
  BY <1>3 DEF w

\* Nothing over rows leaves them.
LEMMA OverNothing ==
  ASSUME NEW rows
  PROVE  /\ DOMAIN Over(<<>>, rows) = DOMAIN rows
         /\ \A r \in DOMAIN rows : Over(<<>>, rows)[r] = rows[r]
<1>1. DOMAIN <<>> = {}
  OBVIOUS
<1>2. DOMAIN Over(<<>>, rows) = DOMAIN <<>> \cup DOMAIN rows
  BY OverRows
<1>3. \A r \in DOMAIN rows \ DOMAIN <<>> : Over(<<>>, rows)[r] = rows[r]
  BY OverRows
<1> QED
  BY <1>1, <1>2, <1>3

\* An idle session.
LEMMA IdleFields ==
  /\ DOMAIN Idle = {"call", "at", "row", "todo", "locks", "mine"}
  /\ Idle.call = NoCall /\ Idle.at = "idle" /\ Idle.row = NoRow /\ Idle.todo = <<>>
  /\ Idle.locks = {} /\ DOMAIN Idle.mine = {}
BY DEF Idle

\* A call begins.
LEMMA Begins ==
  ASSUME SessionShape, NEW c \in Clients, NEW q, NEW at, NEW row, NEW todo,
         Begin(c, q, at, row, todo)
  PROVE  /\ SessionShape' /\ Alone(c)
         /\ session[c] = Idle
         /\ session'[c].call = q /\ session'[c].at = at /\ session'[c].row = row
         /\ session'[c].todo = todo /\ session'[c].locks = {} /\ DOMAIN session'[c].mine = {}
         /\ UNCHANGED <<db, answers>>
<1> DEFINE n == [Idle EXCEPT !.call = q, !.at = at, !.row = row, !.todo = todo]
<1>1. session' = [session EXCEPT ![c] = n] /\ session[c] = Idle /\ UNCHANGED <<db, answers>>
  BY DEF Begin
<1>2. DOMAIN n = DOMAIN Idle
  BY IdleFields
<1>3. n.call = q /\ n.at = at /\ n.row = row /\ n.todo = todo
  BY DEF Idle
<1>4. n.locks = {} /\ DOMAIN n.mine = {}
  BY IdleFields DEF Idle
<1> HIDE DEF n
<1>5. session'[c] = n /\ SessionShape' /\ Alone(c)
  BY <1>1, <1>2 DEF SessionShape, Alone
<1> QED
  BY <1>1, <1>3, <1>4, <1>5

\* A statement is done and the next one is to come.
LEMMA Proceeds ==
  ASSUME SessionShape, NEW c \in Clients, NEW w, NEW at, NEW row, NEW todo,
         Proceed(c, w, at, row, todo)
  PROVE  /\ SessionShape' /\ Alone(c)
         /\ session'[c].call = session[c].call
         /\ session'[c].at = at /\ session'[c].row = row /\ session'[c].todo = todo
         /\ session'[c].locks = session[c].locks \cup Locked(c)
         /\ session'[c].mine = Over(w, session[c].mine)
         /\ UNCHANGED <<db, answers, calls>>
<1> DEFINE s == session[c]
           n == [s EXCEPT !.at = at, !.row = row, !.todo = todo,
                          !.locks = @ \cup Locked(c), !.mine = Over(w, @)]
<1>1. session' = [session EXCEPT ![c] = n] /\ UNCHANGED <<db, answers, calls>>
  BY DEF Proceed
<1>2. DOMAIN s = {"call", "at", "row", "todo", "locks", "mine"}
  BY IdleFields DEF SessionShape
<1>3. DOMAIN n = DOMAIN Idle /\ n.call = s.call
  BY <1>2, IdleFields
<1>4. n.at = at /\ n.row = row /\ n.todo = todo
  BY <1>2
<1>5. n.locks = s.locks \cup Locked(c)
  BY <1>2
<1>6. n.mine = Over(w, s.mine)
  BY <1>2
<1> HIDE DEF n
<1>7. session'[c] = n /\ SessionShape' /\ Alone(c)
  BY <1>1, <1>3 DEF SessionShape, Alone
<1> QED
  BY <1>1, <1>3, <1>4, <1>5, <1>6, <1>7

\* A statement that writes nothing is done.
LEMMA ProceedsWithout ==
  ASSUME SessionShape, NEW c \in Clients, NEW at, NEW row, NEW todo,
         Proceed(c, <<>>, at, row, todo)
  PROVE  /\ session'[c].call = session[c].call
         /\ session'[c].at = at /\ session'[c].row = row /\ session'[c].todo = todo
         /\ session'[c].locks = session[c].locks \cup Locked(c)
         /\ DOMAIN session'[c].mine = DOMAIN session[c].mine
         /\ \A s \in DOMAIN session[c].mine : session'[c].mine[s] = session[c].mine[s]
         /\ UNCHANGED <<db, answers, calls>>
<1> DEFINE mine == session[c].mine
<1>1. session'[c].mine = Over(<<>>, mine)
  BY Proceeds
<1> HIDE DEF mine
<1>2. DOMAIN session'[c].mine = DOMAIN mine /\ \A s \in DOMAIN mine : session'[c].mine[s] = mine[s]
  BY <1>1, OverNothing
<1> QED
  BY <1>2, Proceeds DEF mine

\* A statement that writes a row is done.
LEMMA ProceedsWith ==
  ASSUME SessionShape, NEW c \in Clients, NEW r, NEW value, NEW at, NEW row, NEW todo,
         Proceed(c, RowIs(r, value), at, row, todo)
  PROVE  /\ session'[c].call = session[c].call
         /\ session'[c].at = at /\ session'[c].row = row /\ session'[c].todo = todo
         /\ session'[c].locks = session[c].locks \cup Locked(c)
         /\ DOMAIN session'[c].mine = {r} \cup DOMAIN session[c].mine
         /\ session'[c].mine[r] = value
         /\ \A s \in DOMAIN session[c].mine : s # r => session'[c].mine[s] = session[c].mine[s]
         /\ UNCHANGED <<db, answers, calls>>
<1> DEFINE mine == session[c].mine
<1>1. session'[c].mine = Over(RowIs(r, value), mine)
  BY Proceeds
<1> HIDE DEF mine
<1>2. DOMAIN Over(RowIs(r, value), mine) = {r} \cup DOMAIN mine
  BY OneOver
<1>3. Over(RowIs(r, value), mine)[r] = value
  BY OneOver
<1>4. \A s \in DOMAIN mine : s # r => Over(RowIs(r, value), mine)[s] = mine[s]
  BY DEF Over, RowIs
<1>5. /\ DOMAIN session'[c].mine = {r} \cup DOMAIN mine
      /\ session'[c].mine[r] = value
      /\ \A s \in DOMAIN mine : s # r => session'[c].mine[s] = mine[s]
  BY <1>1, <1>2, <1>3, <1>4
<1> QED
  BY <1>5, Proceeds DEF mine

\* A statement that writes two rows, before any other, is done.
LEMMA ProceedsWithBoth ==
  ASSUME SessionShape, NEW c \in Clients, NEW r, NEW value, NEW s, NEW other, r # s,
         NEW at, NEW row, NEW todo, DOMAIN session[c].mine = {},
         Proceed(c, Over(RowIs(r, value), RowIs(s, other)), at, row, todo)
  PROVE  /\ session'[c].call = session[c].call
         /\ session'[c].at = at /\ session'[c].row = row /\ session'[c].todo = todo
         /\ session'[c].locks = session[c].locks \cup Locked(c)
         /\ DOMAIN session'[c].mine = {r, s}
         /\ session'[c].mine[r] = value /\ session'[c].mine[s] = other
         /\ UNCHANGED <<db, answers, calls>>
<1> DEFINE rows == RowIs(s, other)
           w == Over(RowIs(r, value), rows)
           mine == session[c].mine
<1>1. DOMAIN rows = {s} /\ rows[s] = other
  BY RowIsRow
<1> HIDE DEF rows
<1>2. DOMAIN w = {r} \cup DOMAIN rows
  BY DEF Over, RowIs
<1>3. w[r] = value
  BY DEF Over, RowIs
<1>4. w[s] = rows[s]
  BY <1>1 DEF Over, RowIs
<1> HIDE DEF w, mine
<1>5. session'[c].mine = Over(w, mine)
  BY Proceeds DEF w, rows, mine
<1>6. DOMAIN session'[c].mine = DOMAIN w \cup DOMAIN mine
      /\ \A x \in DOMAIN w : session'[c].mine[x] = w[x]
  BY <1>5 DEF Over
<1>7. DOMAIN session'[c].mine = {r, s}
      /\ session'[c].mine[r] = value /\ session'[c].mine[s] = other
  BY <1>1, <1>2, <1>3, <1>4, <1>6 DEF mine
<1> QED
  BY <1>7, Proceeds DEF w, rows

\* A call is answered.
LEMMA Answers ==
  ASSUME SessionShape, NEW c \in Clients, NEW outcome, Answer(c, outcome)
  PROVE  /\ SessionShape' /\ Alone(c) /\ session'[c] = Idle
         /\ answers' = [answers EXCEPT ![session[c].call] = @ \cup {outcome}]
BY DEF SessionShape, Alone, Answer

-----------------------------------------------------------------------------
(* Sums over finite sets: induction over their subsets, of which some that  *)
(* are not as claimed have a smallest.                                      *)

\* Of some finite sets one has none of the others inside it.
LEMMA SmallestSet ==
  ASSUME NEW F, F # {}, \A T \in F : IsFiniteSet(T)
  PROVE  \E T \in F : \A U \in F : U \subseteq T => U = T
<1> DEFINE S == UNION F
<1>1. F \subseteq FiniteSubsetsOf(S)
  BY DEF FiniteSubsetsOf
<1>2. IsWellFoundedOn(StrictSubsetOrdering(S), FiniteSubsetsOf(S))
  BY FS_StrictSubsetOrderingWellFounded
<1>3. PICK T \in F : \A U \in F : ~ (<<U, T>> \in StrictSubsetOrdering(S))
  <2> DEFINE R == StrictSubsetOrdering(S)
             FS == FiniteSubsetsOf(S)
  <2> HIDE DEF R, FS
  <2> QED
    BY <1>1, <1>2, WFMin DEF R, FS
<1>4. ASSUME NEW U \in F, U \subseteq T  PROVE U = T
  BY <1>3, <1>4 DEF StrictSubsetOrdering
<1> QED
  BY <1>4

AnyOf(s) == CHOOSE x \in s : TRUE

\* What f adds up to over set s, given what it does over s without an element.
SumStep(f, t, s) == IF s = {} THEN 0 ELSE f[AnyOf(s)] + t[s \ {AnyOf(s)}]

\* t is what f adds up to over the subsets of S.
IsSum(f, t, S) == t = [s \in SUBSET S |-> SumStep(f, t, s)]

\* Some numbers have a least.
LEMMA LeastNumber ==
  ASSUME NEW T, T # {}, T \subseteq Nat
  PROVE  \E n \in T : \A m \in T : n <= m
<1> DEFINE F == {0..n : n \in T}
<1>1. F # {}
  OBVIOUS
<1>2. \A U \in F : U \in SUBSET Nat /\ IsFiniteSet(U)
  <2>1. ASSUME NEW n \in T  PROVE 0..n \in SUBSET Nat /\ IsFiniteSet(0..n)
    BY FS_Interval
  <2> QED
    BY <2>1
<1> HIDE DEF F
<1>3. PICK U \in F : \A V \in F : V \subseteq U => V = U
  BY <1>1, <1>2, SmallestSet
<1>4. PICK n \in T : U = 0..n
  BY <1>3 DEF F
<1>5. ASSUME NEW m \in T, m < n  PROVE FALSE
  <2>1. 0..m \in F /\ 0..m \subseteq 0..n
    BY <1>5 DEF F
  <2>2. 0..m = 0..n
    BY <2>1, <1>3, <1>4
  <2>3. n \in 0..n /\ n \notin 0..m
    BY <1>5
  <2> QED
    BY <2>2, <2>3
<1>6. \A m \in T : ~(m < n)
  BY <1>5
<1> QED
  BY <1>6

\* There is a sum over the subsets of a finite set.
LEMMA SumsExist ==
  ASSUME NEW f, NEW S, IsFiniteSet(S)
  PROVE  \E t : IsSum(f, t, S)
<1> DEFINE Small(n) == {s \in SUBSET S : Cardinality(s) <= n}
           Upto(n, t) == \A s \in Small(n) : t[s] = SumStep(f, t, s)
           Bad == {n \in Nat : ~\E t : DOMAIN t = SUBSET S /\ t = [s \in SUBSET S |-> t[s]] /\ Upto(n, t)}
<1>0. ASSUME NEW s \in SUBSET S  PROVE IsFiniteSet(s) /\ Cardinality(s) \in Nat
  BY FS_Subset, FS_CardinalityType
<1>1. Bad = {}
  <2> SUFFICES ASSUME Bad # {}  PROVE FALSE
    OBVIOUS
  <2>1. PICK n \in Bad : \A m \in Bad : n <= m
    BY LeastNumber
  <2>2. CASE n = 0
    <3> DEFINE t == [s \in SUBSET S |-> 0]
    <3>1. \A s \in Small(0) : s = {}
      BY <1>0, FS_EmptySet
    <3>2. Upto(0, t)
      BY <3>1 DEF SumStep
    <3>3. DOMAIN t = SUBSET S /\ t = [s \in SUBSET S |-> t[s]]
      OBVIOUS
    <3> HIDE DEF t
    <3> QED
      BY <2>1, <2>2, <3>2, <3>3
  <2>3. CASE n # 0
    <3>1. n \in Nat /\ n - 1 \in Nat /\ n - 1 \notin Bad
      <4>1. n \in Nat
        BY <2>1
      <4> HIDE DEF Bad
      <4> QED
        BY <2>1, <2>3, <4>1
    <3>2. PICK t : DOMAIN t = SUBSET S /\ t = [s \in SUBSET S |-> t[s]] /\ Upto(n - 1, t)
      BY <3>1
    <3> DEFINE u == [s \in SUBSET S |-> IF Cardinality(s) <= n - 1 THEN t[s] ELSE SumStep(f, t, s)]
    <3>3. ASSUME NEW s \in Small(n)  PROVE u[s] = SumStep(f, u, s)
      <4>1. CASE s = {}
        <5>1. Cardinality(s) = 0 /\ s \in Small(n - 1)
          BY <4>1, <3>1, FS_EmptySet
        <5>2. t[s] = SumStep(f, t, s)
          BY <5>1, <3>2
        <5>3. u[s] = t[s]
          BY <5>1, <3>1
        <5> QED
          BY <5>2, <5>3, <4>1 DEF SumStep
      <4>2. CASE s # {}
        <5> DEFINE r == s \ {AnyOf(s)}
        <5>1. AnyOf(s) \in s
          BY <4>2 DEF AnyOf
        <5>2. IsFiniteSet(s) /\ Cardinality(s) \in Nat /\ r \in SUBSET S /\ Cardinality(r) = Cardinality(s) - 1
          BY <1>0, <5>1, FS_RemoveElement
        <5>3. u[r] = t[r]
          BY <5>2, <3>1
        <5>4. SumStep(f, u, s) = SumStep(f, t, s)
          BY <5>3, <4>2 DEF SumStep
        <5>5. u[s] = SumStep(f, t, s)
          BY <3>2, <3>1
        <5> QED
          BY <5>4, <5>5
      <4> QED
        BY <4>1, <4>2
    <3>4. DOMAIN u = SUBSET S /\ u = [s \in SUBSET S |-> u[s]]
      OBVIOUS
    <3> HIDE DEF u
    <3>5. Upto(n, u)
      BY <3>3
    <3> QED
      BY <2>1, <3>4, <3>5
  <2> QED
    BY <2>2, <2>3
<1>2. Cardinality(S) \in Nat /\ \A s \in SUBSET S : Cardinality(s) <= Cardinality(S)
  BY FS_Subset, FS_CardinalityType
<1>3. PICK t : DOMAIN t = SUBSET S /\ t = [s \in SUBSET S |-> t[s]] /\ Upto(Cardinality(S), t)
  BY <1>1, <1>2
<1>4. \A s \in SUBSET S : t[s] = SumStep(f, t, s)
  BY <1>2, <1>3
<1>5. t = [s \in SUBSET S |-> SumStep(f, t, s)]
  BY <1>3, <1>4
<1> QED
  BY <1>5 DEF IsSum

\* The sum that the operator computes is one.
LEMMA SumIsSum ==
  ASSUME NEW f, NEW S, IsFiniteSet(S)
  PROVE  \E t : IsSum(f, t, S) /\ SumFunctionOnSet(f, S) = t[S]
<1> DEFINE t == CHOOSE t : IsSum(f, t, S)
<1>1. IsSum(f, t, S)
  BY SumsExist
<1>2. SumFunctionOnSet(f, S) = t[S]
  BY DEF SumFunctionOnSet, FoldFunctionOnSet, MapThenFoldSet, IsSum, SumStep, AnyOf
<1> QED
  BY <1>1, <1>2

\* What f and g add up to over a set on which they agree, though computed for
\* two sets.
LEMMA SumsAgree ==
  ASSUME NEW f, NEW g, NEW S, NEW T, NEW t, NEW u, IsSum(f, t, S), IsSum(g, u, T),
         NEW A, IsFiniteSet(A), A \subseteq S, A \subseteq T, \A x \in A : f[x] = g[x]
  PROVE  t[A] = u[A]
<1> DEFINE F == {B \in SUBSET A : t[B] # u[B]}
<1>1. SUFFICES ASSUME A \in F  PROVE FALSE
  OBVIOUS
<1>2. \A B \in F : B \in SUBSET A /\ IsFiniteSet(B)
  BY FS_Subset
<1>3. F # {}
  BY <1>1
<1> HIDE DEF F
<1>4. PICK B \in F : \A C \in F : C \subseteq B => C = B
  BY <1>2, <1>3, SmallestSet
<1>5. B \in SUBSET A /\ B \in SUBSET S /\ B \in SUBSET T /\ t[B] # u[B]
  BY <1>4 DEF F
<1>6. t[B] = SumStep(f, t, B) /\ u[B] = SumStep(g, u, B)
  BY <1>5 DEF IsSum
<1>7. B # {}
  BY <1>5, <1>6 DEF SumStep
<1> DEFINE x == AnyOf(B)
<1>8. x \in B
  BY <1>7 DEF AnyOf
<1>9. t[B \ {x}] = u[B \ {x}]
  BY <1>4, <1>5, <1>8 DEF F
<1> QED
  BY <1>5, <1>6, <1>7, <1>8, <1>9 DEF SumStep

\* Sums are numbers if what they are of is.
LEMMA SumsAreInt ==
  ASSUME NEW f, NEW S, NEW t, IsSum(f, t, S), IsFiniteSet(S), \A x \in S : f[x] \in Int
  PROVE  \A A \in SUBSET S : t[A] \in Int
<1> DEFINE F == {B \in SUBSET S : t[B] \notin Int}
<1>1. SUFFICES ASSUME F # {}  PROVE FALSE
  OBVIOUS
<1>2. \A B \in F : B \in SUBSET S /\ IsFiniteSet(B)
  BY FS_Subset
<1>0. F # {}
  BY <1>1
<1> HIDE DEF F
<1>4. PICK B \in F : \A C \in F : C \subseteq B => C = B
  BY <1>0, <1>2, SmallestSet
<1>5. B \in SUBSET S /\ t[B] \notin Int
  BY <1>4 DEF F
<1>6. t[B] = SumStep(f, t, B)
  BY <1>5 DEF IsSum
<1>7. B # {}
  BY <1>5, <1>6 DEF SumStep
<1> DEFINE x == AnyOf(B)
<1>8. x \in B
  BY <1>7 DEF AnyOf
<1>9. t[B \ {x}] \in Int
  BY <1>4, <1>5, <1>8 DEF F
<1>10. t[B] = f[x] + t[B \ {x}]
  BY <1>6, <1>7 DEF SumStep
<1>11. f[x] \in Int
  BY <1>5, <1>8
<1> HIDE DEF x
<1> QED
  BY <1>5, <1>9, <1>10, <1>11

\* Any element may be added last.
LEMMA SumWithout ==
  ASSUME NEW f, NEW S, NEW t, IsSum(f, t, S), IsFiniteSet(S), \A x \in S : f[x] \in Int,
         NEW A, A \subseteq S
  PROVE  \A x \in A : t[A] = f[x] + t[A \ {x}]
<1> DEFINE F == {B \in SUBSET S : \E x \in B : t[B] # f[x] + t[B \ {x}]}
<1>1. SUFFICES ASSUME F # {}  PROVE FALSE
  OBVIOUS
<1>2. \A B \in F : B \in SUBSET S /\ IsFiniteSet(B)
  BY FS_Subset
<1>3. \A B \in SUBSET S : t[B] \in Int
  BY SumsAreInt
<1>0. F # {}
  BY <1>1
<1> HIDE DEF F
<1>4. PICK B \in F : \A C \in F : C \subseteq B => C = B
  BY <1>0, <1>2, SmallestSet
<1>5. PICK x \in B : t[B] # f[x] + t[B \ {x}]
  BY <1>4 DEF F
<1>6. B \in SUBSET S /\ t[B] = SumStep(f, t, B) /\ B # {}
  BY <1>4, <1>5 DEF F, IsSum
<1> DEFINE y == AnyOf(B)
<1>7. y \in B /\ t[B] = f[y] + t[B \ {y}]
  BY <1>6 DEF AnyOf, SumStep
<1> HIDE DEF y
<1>8. y # x
  BY <1>5, <1>7
<1>9. t[B \ {y}] = f[x] + t[(B \ {y}) \ {x}]
  <2>1. B \ {y} \in SUBSET S /\ B \ {y} \notin F
    BY <1>4, <1>6, <1>7
  <2>2. x \in B \ {y}
    BY <1>8
  <2> QED
    BY <2>1, <2>2 DEF F
<1>10. t[B \ {x}] = f[y] + t[(B \ {x}) \ {y}]
  <2>1. B \ {x} \in SUBSET S /\ B \ {x} \notin F
    BY <1>4, <1>5, <1>6
  <2>2. y \in B \ {x}
    BY <1>7, <1>8
  <2> QED
    BY <2>1, <2>2 DEF F
<1>11. (B \ {y}) \ {x} = (B \ {x}) \ {y}
  OBVIOUS
<1>12. f[x] \in Int /\ f[y] \in Int /\ t[(B \ {x}) \ {y}] \in Int
  BY <1>3, <1>6, <1>7
<1> DEFINE r == t[(B \ {x}) \ {y}]
<1>13. t[B] = f[y] + (f[x] + r) /\ f[x] + t[B \ {x}] = f[x] + (f[y] + r)
  BY <1>7, <1>9, <1>10, <1>11
<1>14. f[x] \in Int /\ f[y] \in Int /\ r \in Int
  BY <1>12
<1> HIDE DEF r
<1>15. \A i, j, k \in Int : i + (j + k) = j + (i + k)
  OBVIOUS
<1> QED
  BY <1>5, <1>13, <1>14, <1>15

-----------------------------------------------------------------------------

LEMMA SumOfNone ==
  ASSUME NEW f
  PROVE  SumFunctionOnSet(f, {}) = 0
<1>1. PICK t : IsSum(f, t, {}) /\ SumFunctionOnSet(f, {}) = t[{}]
  BY SumIsSum, FS_EmptySet
<1> QED
  BY <1>1 DEF IsSum, SumStep

LEMMA SumInt ==
  ASSUME NEW f, NEW S, IsFiniteSet(S), \A x \in S : f[x] \in Int
  PROVE  SumFunctionOnSet(f, S) \in Int
<1>1. PICK t : IsSum(f, t, S) /\ SumFunctionOnSet(f, S) = t[S]
  BY SumIsSum
<1> QED
  BY <1>1, SumsAreInt

LEMMA SumSame ==
  ASSUME NEW f, NEW g, NEW S, IsFiniteSet(S), \A x \in S : f[x] = g[x]
  PROVE  SumFunctionOnSet(f, S) = SumFunctionOnSet(g, S)
<1>1. PICK t : IsSum(f, t, S) /\ SumFunctionOnSet(f, S) = t[S]
  BY SumIsSum
<1>2. PICK u : IsSum(g, u, S) /\ SumFunctionOnSet(g, S) = u[S]
  BY SumIsSum
<1>3. t[S] = u[S]
  BY <1>1, <1>2, SumsAgree
<1> QED
  BY <1>1, <1>2, <1>3

LEMMA SumAdds ==
  ASSUME NEW f, NEW g, NEW S, NEW T, NEW x, IsFiniteSet(S), x \notin S, T = S \cup {x},
         \A y \in S : f[y] \in Int, \A y \in S : g[y] = f[y], g[x] \in Int
  PROVE  SumFunctionOnSet(g, T) = SumFunctionOnSet(f, S) + g[x]
<1>1. IsFiniteSet(T) /\ S \subseteq T /\ x \in T /\ T \ {x} = S
  BY FS_AddElement
<1>2. \A y \in T : g[y] \in Int
  OBVIOUS
<1>3. PICK t : IsSum(f, t, S) /\ SumFunctionOnSet(f, S) = t[S]
  BY SumIsSum
<1>4. PICK u : IsSum(g, u, T) /\ SumFunctionOnSet(g, T) = u[T]
  BY <1>1, SumIsSum
<1>5. t[S] = u[S]
  BY <1>1, <1>3, <1>4, SumsAgree
<1>6. u[T] = g[x] + u[T \ {x}]
  BY <1>1, <1>2, <1>4, SumWithout
<1>7. u[S] \in Int /\ g[x] \in Int
  BY <1>1, <1>2, <1>4, SumsAreInt
<1>8. SumFunctionOnSet(g, T) = g[x] + u[S] /\ SumFunctionOnSet(f, S) = u[S]
  BY <1>1, <1>3, <1>4, <1>5, <1>6
<1> QED
  BY <1>7, <1>8
=============================================================================

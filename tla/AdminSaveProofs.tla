--------------------------- MODULE AdminSaveProofs ---------------------------
(***************************************************************************)
(* Theorems about AdminSave, for any configuration, any number of saves,   *)
(* of other requests, and of failures and restarts.                        *)
(***************************************************************************)
EXTENDS AdminSave, FiniteSetTheorems, WellFoundedInduction, TLAPS

-----------------------------------------------------------------------------
(* Folds.  Induction is stated over sets of numbers, so that it can be     *)
(* cited for any set.                                                      *)

LEMMA Induction ==
  ASSUME NEW T, 0 \in T, \A n \in Nat : n \in T => n + 1 \in T
  PROVE  Nat \subseteq T
<1> DEFINE X == Nat \ T
<1>1. SUFFICES ASSUME X # {} PROVE FALSE
  OBVIOUS
<1>2. PICK x \in X : \A y \in X : ~ (<<y, x>> \in OpToRel(<, Nat))
  BY <1>1, NatLessThanWellFounded, WFMin
<1>3. x \in Nat /\ x # 0
  OBVIOUS
<1>4. x - 1 \in Nat /\ x - 1 < x /\ (x - 1) + 1 = x
  BY <1>3
<1>5. x - 1 \notin X
  BY <1>2, <1>3, <1>4 DEF OpToRel
<1> QED BY <1>3, <1>4, <1>5

Pick(s) == CHOOSE x \in s : TRUE

LEMMA Picked ==
  ASSUME NEW S, IsFiniteSet(S), NEW s \in SUBSET S, s # {}
  PROVE  /\ Pick(s) \in S /\ s \ {Pick(s)} \in SUBSET S
         /\ Cardinality(s) \in Nat \ {0}
         /\ Cardinality(s \ {Pick(s)}) = Cardinality(s) - 1
<1>1. Pick(s) \in s
  BY DEF Pick
<1>2. IsFiniteSet(s)
  BY FS_Subset
<1>3. Cardinality(s) \in Nat /\ Cardinality(s) # 0
  BY <1>2, FS_CardinalityType, FS_EmptySet
<1> QED BY <1>1, <1>2, <1>3, FS_RemoveElement

(* What holds of the empty set, and of a set when it holds of the set      *)
(* without its picked element, holds of every finite set.                  *)
LEMMA FiniteInduction ==
  ASSUME NEW S, IsFiniteSet(S), NEW T, {} \in T,
         \A s \in SUBSET S : s # {} /\ s \ {Pick(s)} \in T => s \in T
  PROVE  S \in T
<1> DEFINE N == {n \in Nat : \A s \in SUBSET S : Cardinality(s) = n => s \in T}
<1>1. 0 \in N
  <2>1. ASSUME NEW s \in SUBSET S, Cardinality(s) = 0
        PROVE  s = {}
    BY <2>1, Picked
  <2> QED BY <2>1
<1>2. ASSUME NEW n \in Nat, n \in N
      PROVE  n + 1 \in N
  <2>1. ASSUME NEW s \in SUBSET S, Cardinality(s) = n + 1
        PROVE  s \in T
    <3>1. s # {}
      BY <2>1, FS_EmptySet
    <3>2. s \ {Pick(s)} \in SUBSET S /\ Cardinality(s \ {Pick(s)}) = n
      BY <2>1, <3>1, Picked
    <3> QED BY <1>2, <3>1, <3>2
  <2> QED BY <2>1
<1> HIDE DEF N
<1>3. Cardinality(S) \in N
  BY <1>1, <1>2, Induction, FS_CardinalityType
<1> QED BY <1>3 DEF N

(* f folds op over the subsets of S, from base.                            *)
Folds(f, S, base, op) ==
  \A s \in SUBSET S : f[s] = IF s = {} THEN base ELSE op[Pick(s)][f[s \ {Pick(s)}]]

(* A fold whose steps stay in B is defined, and ends in B.                 *)
LEMMA FoldExists ==
  ASSUME NEW S, IsFiniteSet(S), NEW B, NEW base \in B, NEW op \in [S -> [B -> B]]
  PROVE  \E f \in [SUBSET S -> B] : Folds(f, S, base, op)
<1> DEFINE Good(f, n) == \A s \in SUBSET S : Cardinality(s) <= n =>
             f[s] = IF s = {} THEN base ELSE op[Pick(s)][f[s \ {Pick(s)}]]
           N == {n \in Nat : \E f \in [SUBSET S -> B] : Good(f, n)}
<1>0. \A s \in SUBSET S : Cardinality(s) \in Nat
  BY FS_Subset, FS_CardinalityType
<1>1. 0 \in N
  <2>1. ASSUME NEW s \in SUBSET S, Cardinality(s) <= 0
        PROVE  s = {}
    <3>1. Cardinality(s) \notin Nat \ {0}
      BY <2>1
    <3> QED BY <3>1, Picked
  <2>2. PICK f \in [SUBSET S -> B] : \A s \in SUBSET S : f[s] = base
    <3>1. [s \in SUBSET S |-> base] \in [SUBSET S -> B]
      OBVIOUS
    <3> QED BY <3>1
  <2>3. Good(f, 0)
    BY <2>1, <2>2
  <2> QED BY <2>3
<1>2. ASSUME NEW n \in Nat, n \in N
      PROVE  n + 1 \in N
  <2>1. PICK f \in [SUBSET S -> B] : Good(f, n)
    BY <1>2
  <2> DEFINE g == [s \in SUBSET S |-> IF s = {} THEN base ELSE op[Pick(s)][f[s \ {Pick(s)}]]]
  <2>2. g \in [SUBSET S -> B]
    <3>1. ASSUME NEW s \in SUBSET S, s # {}
          PROVE  op[Pick(s)][f[s \ {Pick(s)}]] \in B
      <4>1. Pick(s) \in S /\ s \ {Pick(s)} \in SUBSET S
        BY <3>1, Picked
      <4> QED BY <4>1
    <3> QED BY <3>1
  <2>3. ASSUME NEW s \in SUBSET S, s # {}, Cardinality(s) <= n + 1
        PROVE  g[s \ {Pick(s)}] = f[s \ {Pick(s)}]
    <3>1. s \ {Pick(s)} \in SUBSET S /\ Cardinality(s \ {Pick(s)}) <= n
      BY <1>0, <2>3, Picked
    <3> QED BY <2>1, <3>1
  <2>4. Good(g, n + 1)
    BY <2>3
  <2> HIDE DEF g, Good
  <2> QED BY <2>2, <2>4
<1> HIDE DEF N
<1>3. Cardinality(S) \in N
  BY <1>1, <1>2, Induction, FS_CardinalityType
<1>4. PICK f \in [SUBSET S -> B] : Good(f, Cardinality(S))
  BY <1>3 DEF N
<1>5. \A s \in SUBSET S : Cardinality(s) <= Cardinality(S)
  BY FS_Subset
<1> QED BY <1>4, <1>5 DEF Folds

(* What the steps of a fold keep of what was done and the result so far    *)
(* holds of the whole.                                                     *)
LEMMA FoldBy ==
  ASSUME NEW S, IsFiniteSet(S), NEW B, NEW P, NEW it, it[{}] \in B, <<{}, it[{}]>> \in P,
         \A s \in SUBSET S : s # {} /\ it[s \ {Pick(s)}] \in B /\ <<s \ {Pick(s)}, it[s \ {Pick(s)}]>> \in P
                            => it[s] \in B /\ <<s, it[s]>> \in P
  PROVE  it[S] \in B /\ <<S, it[S]>> \in P
<1> DEFINE T == {s \in SUBSET S : it[s] \in B /\ <<s, it[s]>> \in P}
<1>1. {} \in T
  OBVIOUS
<1>2. \A s \in SUBSET S : s # {} /\ s \ {Pick(s)} \in T => s \in T
  OBVIOUS
<1> HIDE DEF T
<1>3. S \in T
  BY <1>1, <1>2, FiniteInduction
<1> QED BY <1>3 DEF T

LEMMA PickedLast ==
  ASSUME NEW S, IsFiniteSet(S), NEW s \in SUBSET S, s # {}
  PROVE  /\ Pick(s) \in S /\ Pick(s) \in s /\ s \ {Pick(s)} \in SUBSET S
         /\ Pick(s) \notin s \ {Pick(s)} /\ s = (s \ {Pick(s)}) \union {Pick(s)}
BY DEF Pick

LEMMA WrittenBy ==
  ASSUME NEW S, IsFiniteSet(S), NEW B, NEW base \in B,
         \A e \in S, t \in B : Upsert(e, t) \in B,
         NEW P, <<{}, base>> \in P,
         \A s \in SUBSET S : \A e \in S \ s, t \in B :
           <<s, t>> \in P => <<s \union {e}, Upsert(e, t)>> \in P
  PROVE  FoldSet(Upsert, base, S) \in B /\ <<S, FoldSet(Upsert, base, S)>> \in P
<1> DEFINE op == [e \in S |-> [t \in B |-> Upsert(e, t)]]
<1>1. op \in [S -> [B -> B]]
  OBVIOUS
<1>2. PICK f \in [SUBSET S -> B] : Folds(f, S, base, op)
  <2> HIDE DEF op
  <2> QED BY <1>1, FoldExists
<1>3. f = [s \in SUBSET S |-> IF s = {} THEN base ELSE Upsert(Pick(s), f[s \ {Pick(s)}])]
  <2>1. ASSUME NEW s \in SUBSET S, s # {}
        PROVE  op[Pick(s)][f[s \ {Pick(s)}]] = Upsert(Pick(s), f[s \ {Pick(s)}])
    <3>1. Pick(s) \in S /\ s \ {Pick(s)} \in SUBSET S
      BY <2>1, Picked
    <3>2. f[s \ {Pick(s)}] \in B
      BY <3>1
    <3> QED BY <3>1, <3>2
  <2> QED BY <1>2, <2>1 DEF Folds
<1> DEFINE Is(it) == it = [s \in SUBSET S |-> IF s = {} THEN base ELSE Upsert(Pick(s), it[s \ {Pick(s)}])]
<1>4. PICK it : Is(it) /\ FoldSet(Upsert, base, S) = it[S]
  <2>1. FoldSet(Upsert, base, S) = (CHOOSE it : Is(it))[S]
    BY DEF FoldSet, MapThenFoldSet, Pick
  <2> QED BY <1>3, <2>1
<1>5. it[{}] \in B /\ <<{}, it[{}]>> \in P
  BY <1>4
<1>6. ASSUME NEW s \in SUBSET S, s # {}, it[s \ {Pick(s)}] \in B, <<s \ {Pick(s)}, it[s \ {Pick(s)}]>> \in P
      PROVE  it[s] \in B /\ <<s, it[s]>> \in P
  <2>1. PICK e, u : e = Pick(s) /\ u = it[s \ {e}]
    OBVIOUS
  <2>2. it[s] = Upsert(e, u)
    BY <1>4, <1>6, <2>1
  <2>3. e \in S /\ e \in S \ (s \ {e}) /\ s \ {e} \in SUBSET S /\ s = (s \ {e}) \union {e}
    BY <1>6, <2>1, PickedLast
  <2>4. u \in B /\ <<s \ {e}, u>> \in P
    BY <1>6, <2>1
  <2>5. PICK d : d = s \ {e}
    OBVIOUS
  <2>6. <<d \union {e}, Upsert(e, u)>> \in P /\ Upsert(e, u) \in B
    BY <2>3, <2>4, <2>5
  <2>7. d \union {e} = s
    BY <2>3, <2>5
  <2> QED BY <2>2, <2>6, <2>7
<1> HIDE DEF Is
<1>7. it[S] \in B /\ <<S, it[S]>> \in P
  BY <1>5, <1>6, FoldBy, Zenon
<1> QED BY <1>4, <1>7, Zenon

LEMMA WrittenIn ==
  ASSUME NEW S, IsFiniteSet(S), NEW B, NEW base \in B,
         \A e \in S, t \in B : Upsert(e, t) \in B
  PROVE  FoldSet(Upsert, base, S) \in B
<1>1. PICK P : P = (SUBSET S) \X B
  OBVIOUS
<1>2. <<{}, base>> \in P
  BY <1>1
<1>3. \A s \in SUBSET S : \A e \in S \ s, t \in B : <<s, t>> \in P => <<s \union {e}, Upsert(e, t)>> \in P
  BY <1>1
<1> QED BY <1>2, <1>3, WrittenBy

LEMMA NestedBy ==
  ASSUME NEW l, IsFiniteSet(mem["systems"]), NEW B,
         NEW base \in B, base = Cascade([tab EXCEPT !["systems"] = SystemsTable])[l],
         \A s \in mem["systems"], t \in B : PutUnder(l, s, t) \in B,
         NEW P, <<{}, base>> \in P,
         \A D \in SUBSET mem["systems"] : \A s \in mem["systems"] \ D, t \in B :
           <<D, t>> \in P => <<D \union {s}, PutUnder(l, s, t)>> \in P
  PROVE  NestedTable(l) \in B /\ <<mem["systems"], NestedTable(l)>> \in P
<1> DEFINE op == [s \in mem["systems"] |-> [t \in B |-> PutUnder(l, s, t)]]
<1>0. PICK S : S = mem["systems"]
  OBVIOUS
<1>1. op \in [S -> [B -> B]]
  BY <1>0
<1>2. PICK f \in [SUBSET S -> B] : Folds(f, S, base, op)
  <2> HIDE DEF op
  <2> QED BY <1>0, <1>1, FoldExists
<1>3. f = [s \in SUBSET S |-> IF s = {} THEN base ELSE PutUnder(l, Pick(s), f[s \ {Pick(s)}])]
  <2>1. ASSUME NEW s \in SUBSET S, s # {}
        PROVE  op[Pick(s)][f[s \ {Pick(s)}]] = PutUnder(l, Pick(s), f[s \ {Pick(s)}])
    <3>1. Pick(s) \in S /\ s \ {Pick(s)} \in SUBSET S
      BY <1>0, <2>1, Picked
    <3>2. f[s \ {Pick(s)}] \in B
      BY <3>1
    <3> QED BY <1>0, <3>1, <3>2
  <2> QED BY <1>2, <2>1 DEF Folds
<1> DEFINE Is(it) == it = [s \in SUBSET S |-> IF s = {} THEN base ELSE PutUnder(l, Pick(s), it[s \ {Pick(s)}])]
<1>4. PICK it : Is(it) /\ NestedTable(l) = it[S]
  <2>1. NestedTable(l) = (CHOOSE it : Is(it))[S]
    BY <1>0 DEF NestedTable, FoldSet, MapThenFoldSet, Pick
  <2> QED BY <1>3, <2>1
<1>5. it[{}] \in B /\ <<{}, it[{}]>> \in P
  BY <1>4
<1>6. ASSUME NEW s \in SUBSET S, s # {}, it[s \ {Pick(s)}] \in B, <<s \ {Pick(s)}, it[s \ {Pick(s)}]>> \in P
      PROVE  it[s] \in B /\ <<s, it[s]>> \in P
  <2>1. PICK e, u : e = Pick(s) /\ u = it[s \ {e}]
    OBVIOUS
  <2>2. it[s] = PutUnder(l, e, u)
    BY <1>4, <1>6, <2>1
  <2>3. e \in S /\ e \in S \ (s \ {e}) /\ s \ {e} \in SUBSET S /\ s = (s \ {e}) \union {e}
    BY <1>0, <1>6, <2>1, PickedLast
  <2>4. u \in B /\ <<s \ {e}, u>> \in P
    BY <1>6, <2>1
  <2>5. PICK d : d = s \ {e}
    OBVIOUS
  <2>6. <<d \union {e}, PutUnder(l, e, u)>> \in P /\ PutUnder(l, e, u) \in B
    BY <1>0, <2>3, <2>4, <2>5
  <2>7. d \union {e} = s
    BY <2>3, <2>5
  <2> QED BY <2>2, <2>6, <2>7
<1> HIDE DEF Is
<1>7. IsFiniteSet(S)
  BY <1>0
<1>8. it[S] \in B /\ <<S, it[S]>> \in P
  BY <1>5, <1>6, <1>7, FoldBy, Zenon
<1> QED BY <1>0, <1>4, <1>8

LEMMA NestedIn ==
  ASSUME NEW l, IsFiniteSet(mem["systems"]), NEW B,
         NEW base \in B, base = Cascade([tab EXCEPT !["systems"] = SystemsTable])[l],
         \A s \in mem["systems"], t \in B : PutUnder(l, s, t) \in B
  PROVE  NestedTable(l) \in B
<1>1. PICK P : P = (SUBSET mem["systems"]) \X B
  OBVIOUS
<1>2. <<{}, base>> \in P
  BY <1>1
<1>3. \A D \in SUBSET mem["systems"] : \A s \in mem["systems"] \ D, t \in B :
        <<D, t>> \in P => <<D \union {s}, PutUnder(l, s, t)>> \in P
  BY <1>1
<1> QED BY <1>2, <1>3, NestedBy

LEMMA Image ==
  ASSUME NEW S, IsFiniteSet(S), NEW f, DOMAIN f = S
  PROVE  IsFiniteSet({f[x] : x \in S})
<1>1. [x \in S |-> f[x]] \in Surjection(S, {f[x] : x \in S})
  BY DEF Surjection
<1> QED BY <1>1, FS_Surjection

(* A finite set of numbers has a greatest.                                 *)
LEMMA Greatest ==
  ASSUME NEW S, IsFiniteSet(S), S \subseteq Nat, S # {}
  PROVE  Max(S) \in S /\ \A y \in S : y <= Max(S)
<1> DEFINE T == {s \in SUBSET S : s = {} \/ \E m \in s : \A y \in s : y <= m}
<1>1. {} \in T
  OBVIOUS
<1>2. ASSUME NEW s \in SUBSET S, s # {}, s \ {Pick(s)} \in T
      PROVE  s \in T
  <2>1. Pick(s) \in s
    BY <1>2 DEF Pick
  <2>2. PICK x \in s : s \ {x} \in T
    BY <1>2, <2>1
  <2>3. CASE s \ {x} = {}
    <3>1. \A y \in s : y <= x
      BY <2>3
    <3> QED BY <3>1
  <2>4. CASE s \ {x} # {}
    <3>1. PICK m \in s \ {x} : \A y \in s \ {x} : y <= m
      BY <2>2, <2>4
    <3>2. \A y \in s : y <= IF x <= m THEN m ELSE x
      BY <3>1
    <3> QED BY <3>1, <3>2
  <2> QED BY <2>3, <2>4
<1> HIDE DEF T
<1>3. S \in T
  BY <1>1, <1>2, FiniteInduction
<1>4. PICK m \in S : \A y \in S : m >= y
  BY <1>3 DEF T
<1>5. Max(S) = CHOOSE x \in S : \A y \in S : x >= y
  BY DEF Max
<1>6. Max(S) \in S /\ \A y \in S : Max(S) >= y
  BY <1>4, <1>5
<1> QED BY <1>6

-----------------------------------------------------------------------------
(* Tables.                                                                 *)

(* Elements, and tables with rows whose tags are in V.                     *)
Elem(e, V) ==
  /\ e = [id |-> e.id, sys |-> e.sys, key |-> e.key, tag |-> e.tag]
  /\ e.sys \in Nat /\ e.key \in Nat /\ e.tag \in V

TableOf(V) ==
  {t \in [rows : SUBSET Row, last : Nat] :
     /\ IsFiniteSet(t.rows)
     /\ \A r \in t.rows : r.id \in 1..t.last /\ r.tag \in V
     /\ \A r, q \in t.rows : r.id = q.id => r = q}

(* Tables that have the ids in K, and other than those only ids above n.   *)
Grown(V, n, K) ==
  {t \in TableOf(V) : n <= t.last /\ K \subseteq Ids(t.rows) /\ \A r \in t.rows : r.id \in K \/ r.id > n}

LEMMA InGrown ==
  ASSUME NEW V, NEW n, NEW K, NEW R, R \subseteq Row, NEW m \in Nat, IsFiniteSet(R), n <= m,
         K \subseteq Ids(R),
         \A r \in R : r.id \in 1..m /\ r.tag \in V /\ (r.id \in K \/ r.id > n),
         \A r, q \in R : r.id = q.id => r = q
  PROVE  [rows |-> R, last |-> m] \in Grown(V, n, K)
<1>1. PICK t \in [rows : SUBSET Row, last : Nat] : t = [rows |-> R, last |-> m]
  OBVIOUS
<1>2. t.rows = R /\ t.last = m
  BY <1>1
<1>3. t \in TableOf(V)
  BY <1>1, <1>2 DEF TableOf
<1>4. t \in Grown(V, n, K)
  BY <1>2, <1>3 DEF Grown
<1> QED BY <1>1, <1>4

LEMMA UpsertIn ==
  ASSUME NEW V, V \subseteq Nat, NEW n \in Nat, NEW K, NEW t \in Grown(V, n, K), NEW e, Elem(e, V)
  PROVE  Upsert(e, t) \in Grown(V, n, K)
<1>1. /\ t = [rows |-> t.rows, last |-> t.last]
      /\ t.rows \subseteq Row /\ t.last \in Nat /\ IsFiniteSet(t.rows)
      /\ \A r \in t.rows : r.id \in 1..t.last /\ r.tag \in V
      /\ \A r, q \in t.rows : r.id = q.id => r = q
      /\ n <= t.last /\ K \subseteq Ids(t.rows) /\ \A r \in t.rows : r.id \in K \/ r.id > n
  BY DEF Grown, TableOf
<1>2. CASE e.id \in Ids(t.rows)
  <2> DEFINE Updated(r) == IF r.id = e.id THEN [e EXCEPT !.sys = r.sys] ELSE r
             R == {Updated(r) : r \in t.rows}
  <2>1. Upsert(e, t) = [rows |-> R, last |-> t.last]
    BY <1>1, <1>2 DEF Upsert
  <2>2. IsFiniteSet(R)
    <3> DEFINE f == [r \in t.rows |-> Updated(r)]
    <3>1. IsFiniteSet({f[x] : x \in t.rows})
      <4>1. DOMAIN f = t.rows
        OBVIOUS
      <4> HIDE DEF f
      <4> QED BY <1>1, <4>1, Image
    <3>2. R = {f[x] : x \in t.rows}
      OBVIOUS
    <3> QED BY <3>1, <3>2
  <2>3. ASSUME NEW r \in t.rows
        PROVE  Updated(r) \in Row /\ Updated(r).id = r.id /\ Updated(r).tag \in V
    <3>1. CASE r.id = e.id
      <4>1. Updated(r) = [id |-> r.id, sys |-> r.sys, key |-> e.key, tag |-> e.tag]
        BY <3>1 DEF Elem
      <4>2. r.id \in Nat /\ r.sys \in Nat /\ e.key \in Nat /\ e.tag \in V /\ e.tag \in Nat
        BY <1>1 DEF Row, Elem
      <4> QED BY <3>1, <4>1, <4>2 DEF Row
    <3>2. CASE r.id # e.id
      BY <1>1, <3>2
    <3> QED BY <3>1, <3>2
  <2> HIDE DEF Updated
  <2>4. R \subseteq Row /\ \A x \in R : x.id \in 1..t.last /\ x.tag \in V /\ (x.id \in K \/ x.id > n)
    BY <1>1, <2>3
  <2>5. \A x, y \in R : x.id = y.id => x = y
    BY <1>1, <2>3
  <2>6. K \subseteq Ids(R)
    <3>1. \A r \in t.rows : \E x \in R : x.id = r.id
      BY <2>3
    <3> HIDE DEF R
    <3> QED BY <1>1, <3>1 DEF Ids
  <2> HIDE DEF R
  <2> QED BY <1>1, <2>1, <2>2, <2>4, <2>5, <2>6, InGrown
<1>3. CASE e.id \notin Ids(t.rows)
  <2> DEFINE row == [id |-> t.last + 1, sys |-> e.sys, key |-> e.key, tag |-> e.tag]
  <2>1. Upsert(e, t) = [rows |-> t.rows \union {row}, last |-> t.last + 1]
    <3>1. [e EXCEPT !.id = t.last + 1] = row
      BY DEF Elem
    <3> QED BY <1>3, <3>1 DEF Upsert
  <2>2. row \in Row /\ row.id = t.last + 1 /\ row.tag \in V
    BY <1>1 DEF Row, Elem
  <2> HIDE DEF row
  <2>3. IsFiniteSet(t.rows \union {row})
    BY <1>1, FS_AddElement
  <2>4. \A r \in t.rows : r.id # row.id
    BY <1>1, <2>2
  <2> DEFINE R == t.rows \union {row}
  <2>5. /\ R \subseteq Row /\ IsFiniteSet(R) /\ t.last + 1 \in Nat /\ n <= t.last + 1
        /\ K \subseteq Ids(R)
    BY <1>1, <2>2, <2>3 DEF Ids
  <2>6. \A r \in R : r.id \in 1..(t.last + 1) /\ r.tag \in V /\ (r.id \in K \/ r.id > n)
    BY <1>1, <2>2
  <2>7. \A r, q \in R : r.id = q.id => r = q
    BY <1>1, <2>4
  <2> HIDE DEF R
  <2>8. [rows |-> R, last |-> t.last + 1] \in Grown(V, n, K)
    BY <2>5, <2>6, <2>7, InGrown
  <2> QED BY <2>1, <2>8 DEF R
<1> QED BY <1>2, <1>3

(* What a Write leaves: the rows that it did not remove, updated, and rows *)
(* under new ids.                                                          *)
LEMMA WrittenKeeps ==
  ASSUME NEW V, V \subseteq Nat, NEW list, IsFiniteSet(list), \A e \in list : Elem(e, V),
         NEW t \in TableOf(V), NEW gone
  PROVE  Written(list, gone, t) \in Grown(V, t.last, Ids(t.rows \ gone))
<1> DEFINE base == [t EXCEPT !.rows = t.rows \ gone]
<1>1. /\ t = [rows |-> t.rows, last |-> t.last]
      /\ t.rows \subseteq Row /\ t.last \in Nat /\ IsFiniteSet(t.rows)
      /\ \A r \in t.rows : r.id \in 1..t.last /\ r.tag \in V
      /\ \A r, q \in t.rows : r.id = q.id => r = q
  BY DEF TableOf
<1>2. base = [rows |-> t.rows \ gone, last |-> t.last]
  BY <1>1
<1>3. IsFiniteSet(t.rows \ gone)
  BY <1>1, FS_Subset
<1>4. \A r \in t.rows \ gone : r.id \in Ids(t.rows \ gone)
  BY DEF Ids
<1>5. base \in Grown(V, t.last, Ids(t.rows \ gone))
  <2>1. PICK R : R = t.rows \ gone
    OBVIOUS
  <2>2. /\ R \subseteq Row /\ IsFiniteSet(R) /\ t.last \in Nat /\ t.last <= t.last
        /\ \A r \in R : r.id \in 1..t.last /\ r.tag \in V /\ r.id \in Ids(R)
        /\ \A r, q \in R : r.id = q.id => r = q
    BY <1>1, <1>3, <1>4, <2>1
  <2>3. [rows |-> R, last |-> t.last] \in Grown(V, t.last, Ids(R))
    BY <2>2, InGrown
  <2> QED BY <1>2, <2>1, <2>3
<1>6. Written(list, gone, t) = FoldSet(Upsert, base, list)
  BY DEF Written
<1>7. PICK B, b : B = Grown(V, t.last, Ids(t.rows \ gone)) /\ b = base
  OBVIOUS
<1> HIDE DEF base
<1>8. \A e \in list, x \in B : Upsert(e, x) \in B
  BY <1>1, <1>7, UpsertIn
<1>9. FoldSet(Upsert, b, list) \in B
  BY <1>5, <1>7, <1>8, WrittenIn
<1> QED BY <1>6, <1>7, <1>9

-----------------------------------------------------------------------------
(* What a Write makes of the rows, when the ids in the list are known.     *)

Moved(e, s)  == [e EXCEPT !.sys = s]
Stored(e, i) == [e EXCEPT !.id = i]

(* The ids in a list were given by t, and tell its elements apart.         *)
Known(S, t) == \A e, d \in S : e.id \in 0..t.last /\ (e.id = d.id /\ e.id # New => e = d)

(* f has the ids that the elements in S were inserted into t under.        *)
Gives(f, S, t, last) ==
  /\ f \in [S -> Ids(t.rows)]
  /\ \A e, d \in S : /\ f[e] > last /\ Stored(e, f[e]) \in t.rows
                     /\ f[e] = f[d] => e = d

LEMMA GivenIs ==
  ASSUME NEW S, NEW t, NEW last, NEW g, Gives(g, S, t, last)
  PROVE  Gives(Given(S, t, last), S, t, last)
<1>1. \A f : Gives(f, S, t, last) <=>
               /\ f \in [S -> Ids(t.rows)]
               /\ \A e, d \in S : /\ f[e] > last /\ [e EXCEPT !.id = f[e]] \in t.rows
                                  /\ f[e] = f[d] => e = d
  BY DEF Gives, Stored
<1>2. Given(S, t, last) \in [S -> Ids(t.rows)] /\
        \A e, d \in S : /\ Given(S, t, last)[e] > last
                        /\ [e EXCEPT !.id = Given(S, t, last)[e]] \in t.rows
                        /\ Given(S, t, last)[e] = Given(S, t, last)[d] => e = d
  <2>1. \E f \in [S -> Ids(t.rows)] :
          \A e, d \in S : /\ f[e] > last /\ [e EXCEPT !.id = f[e]] \in t.rows
                          /\ f[e] = f[d] => e = d
    BY <1>1
  <2> QED BY <2>1 DEF Given
<1> QED BY <1>1, <1>2

Inserted(S, b) == {e \in S : e.id \notin Ids(b.rows)}

(* The rows of b become those of t with the Write of the elements in S.    *)
Becomes(S, b, t) ==
  /\ \A e \in S, q \in b.rows : q.id = e.id => Moved(e, q.sys) \in t.rows
  /\ \E f : Gives(f, Inserted(S, b), t, b.last)
  /\ \A q \in b.rows : q.id \notin Ids(S) => q \in t.rows
  /\ \A r \in t.rows :
       \/ r \in b.rows /\ r.id \notin Ids(S)
       \/ \E e \in S, q \in b.rows : q.id = e.id /\ r = Moved(e, q.sys)
       \/ \E e \in Inserted(S, b) : r.id > b.last /\ r = Stored(e, r.id)

LEMMA ElemSet ==
  ASSUME NEW V, NEW e, Elem(e, V)
  PROVE  /\ \A s : Moved(e, s) = [id |-> e.id, sys |-> s, key |-> e.key, tag |-> e.tag]
         /\ \A i : Stored(e, i) = [id |-> i, sys |-> e.sys, key |-> e.key, tag |-> e.tag]
         /\ \A s : Moved(e, s).id = e.id /\ Moved(e, s).sys = s
         /\ \A i : Stored(e, i).id = i /\ Stored(e, i).sys = e.sys
         /\ \A s : Moved(e, s).tag = e.tag /\ Moved(e, s).key = e.key
         /\ \A i : Stored(e, i).tag = e.tag /\ Stored(e, i).key = e.key
BY DEF Elem, Moved, Stored

LEMMA BecomesNext ==
  ASSUME NEW V, V \subseteq Nat, NEW b \in TableOf(V), NEW t \in Grown(V, b.last, Ids(b.rows)),
         NEW S, NEW e, e \notin S, \A x \in S \union {e} : Elem(x, V),
         Known(S \union {e}, b), Becomes(S, b, t)
  PROVE  Becomes(S \union {e}, b, Upsert(e, t))
<1>1. /\ t = [rows |-> t.rows, last |-> t.last] /\ t.last \in Nat /\ b.last \in Nat /\ b.last <= t.last
      /\ \A r \in t.rows : r.id \in 1..t.last /\ (r.id \in Ids(b.rows) \/ r.id > b.last)
      /\ \A r, q \in t.rows : r.id = q.id => r = q
      /\ \A r, q \in b.rows : r.id = q.id => r = q
      /\ \A r \in b.rows : r.id \in 1..b.last
      /\ t.rows \subseteq Row /\ b.rows \subseteq Row
      /\ Ids(b.rows) \subseteq Ids(t.rows)
  BY DEF Grown, TableOf
<1>2. /\ \A x \in S \union {e} : x.id \in 0..b.last /\ x.id \in Nat
      /\ \A x, d \in S \union {e} : x.id = d.id /\ x.id # New => x = d
  BY <1>1 DEF Known
<1>n. New = 0
  BY DEF New
<1>3. e.id \in Ids(b.rows) <=> e.id \in Ids(t.rows)
  <2>1. ASSUME NEW r \in t.rows, r.id = e.id
        PROVE  e.id \in Ids(b.rows)
    BY <1>1, <1>2, <2>1
  <2> QED BY <1>1, <2>1 DEF Ids
<1>4. PICK f : Gives(f, Inserted(S, b), t, b.last)
  BY DEF Becomes
<1>5. /\ f \in [Inserted(S, b) -> Ids(t.rows)]
      /\ \A x, d \in Inserted(S, b) : /\ f[x] > b.last /\ Stored(x, f[x]) \in t.rows
                                      /\ f[x] = f[d] => x = d
  BY <1>4 DEF Gives
<1>6. /\ \A x \in S, q \in b.rows : q.id = x.id => Moved(x, q.sys) \in t.rows
      /\ \A q \in b.rows : q.id \notin Ids(S) => q \in t.rows
      /\ \A r \in t.rows :
           \/ r \in b.rows /\ r.id \notin Ids(S)
           \/ \E x \in S, q \in b.rows : q.id = x.id /\ r = Moved(x, q.sys)
           \/ \E x \in Inserted(S, b) : r.id > b.last /\ r = Stored(x, r.id)
  BY DEF Becomes
<1>7. /\ \A x \in S \union {e} : \A s : Moved(x, s).id = x.id /\ Moved(x, s).sys = s
      /\ \A x \in S \union {e} : \A i : Stored(x, i).id = i
  BY ElemSet
<1>8. Ids(S \union {e}) = Ids(S) \union {e.id}
  BY DEF Ids
<1>9. CASE e.id \in Ids(b.rows)
  <2>1. PICK q \in b.rows : q.id = e.id
    BY <1>9 DEF Ids
  <2>2. e.id # New /\ e.id \notin Ids(S) /\ e.id <= b.last
    <3>1. e.id # New
      BY <1>1, <1>n, <2>1
    <3>2. \A x \in S : x.id # e.id
      BY <1>2, <3>1
    <3> QED BY <1>1, <1>2, <3>1, <3>2 DEF Ids
  <2>3. q \in t.rows /\ \A r \in t.rows : r.id = e.id => r = q
    BY <1>1, <1>6, <2>1, <2>2
  <2>4. Upsert(e, t) = [rows |-> {IF r.id = e.id THEN [e EXCEPT !.sys = r.sys] ELSE r : r \in t.rows}, last |-> t.last]
    BY <1>1, <1>3, <1>9 DEF Upsert
  <2>5. PICK R : R = {IF r.id = e.id THEN [e EXCEPT !.sys = r.sys] ELSE r : r \in t.rows}
    OBVIOUS
  <2>6. \A r : r \in R <=> (r \in t.rows /\ r.id # e.id) \/ r = Moved(e, q.sys)
    BY <2>1, <2>3, <2>5 DEF Moved
  <2>7. PICK u : u = Upsert(e, t) /\ u.rows = R
    BY <2>4, <2>5
  <2>8. Inserted(S \union {e}, b) = Inserted(S, b)
    BY <1>9 DEF Inserted
  <2>9. Gives(f, Inserted(S, b), u, b.last)
    <3>1. \A x \in Inserted(S, b) : Stored(x, f[x]) \in R /\ Stored(x, f[x]).id = f[x]
      <4>1. \A x \in Inserted(S, b) : Stored(x, f[x]).id = f[x] /\ f[x] # e.id
        <5>1. \A x \in Inserted(S, b) : f[x] \in Ids(t.rows)
          BY <1>5
        <5>2. \A i \in Ids(t.rows) : i \in Nat
          BY <1>1 DEF Ids
        <5> QED BY <1>1, <1>2, <1>5, <1>7, <2>2, <5>1, <5>2 DEF Inserted
      <4> QED BY <1>5, <2>6, <4>1
    <3>2. f \in [Inserted(S, b) -> Ids(R)]
      BY <1>5, <3>1 DEF Ids
    <3> QED BY <1>5, <2>7, <3>1, <3>2 DEF Gives
  <2>10. \A x \in S \union {e}, p \in b.rows : p.id = x.id => Moved(x, p.sys) \in R
    <3>1. ASSUME NEW x \in S, NEW p \in b.rows, p.id = x.id
          PROVE  Moved(x, p.sys) \in R
      <4>1. Moved(x, p.sys) \in t.rows /\ Moved(x, p.sys).id = x.id
        BY <1>6, <1>7, <3>1
      <4>2. x.id # e.id
        BY <2>2 DEF Ids
      <4> QED BY <2>6, <4>1, <4>2
    <3>2. \A p \in b.rows : p.id = e.id => p = q
      BY <1>1, <2>1
    <3> QED BY <2>6, <3>1, <3>2
  <2>11. \A p \in b.rows : p.id \notin Ids(S \union {e}) => p \in R
    BY <1>6, <1>8, <2>6
  <2>12. ASSUME NEW r \in R
         PROVE  \/ r \in b.rows /\ r.id \notin Ids(S \union {e})
                \/ \E x \in S \union {e}, p \in b.rows : p.id = x.id /\ r = Moved(x, p.sys)
                \/ \E x \in Inserted(S, b) : r.id > b.last /\ r = Stored(x, r.id)
    BY <1>6, <1>8, <2>1, <2>6
  <2> QED BY <2>7, <2>8, <2>9, <2>10, <2>11, <2>12 DEF Becomes
<1>10. CASE e.id \notin Ids(b.rows)
  <2>1. PICK row : row = Stored(e, t.last + 1)
    OBVIOUS
  <2>2. PICK u : u = Upsert(e, t) /\ u.rows = t.rows \union {row}
    <3>1. Upsert(e, t) = [rows |-> t.rows \union {row}, last |-> t.last + 1]
      BY <1>3, <1>10, <2>1 DEF Upsert, Stored
    <3> QED BY <3>1
  <2>3. PICK I : I = Inserted(S, b)
    OBVIOUS
  <2>4. Inserted(S \union {e}, b) = I \union {e} /\ e \notin I
    BY <1>10, <2>3 DEF Inserted
  <2>5. PICK g : g = [x \in I \union {e} |-> IF x = e THEN t.last + 1 ELSE f[x]]
    OBVIOUS
  <2>6. row.id = t.last + 1
    BY <1>7, <2>1
  <2>7. Gives(g, I \union {e}, u, b.last)
    <3>1. g \in [I \union {e} -> Ids(u.rows)]
      <4>1. t.last + 1 \in Ids(u.rows) /\ Ids(t.rows) \subseteq Ids(u.rows)
        BY <2>2, <2>6 DEF Ids
      <4> QED BY <1>5, <2>3, <2>4, <2>5, <4>1
    <3>2. g[e] = t.last + 1 /\ \A x \in I : g[x] = f[x] /\ f[x] \in Nat /\ f[x] <= t.last
      <4>1. \A x \in I : f[x] \in Ids(t.rows)
        BY <1>5, <2>3
      <4>2. \A i \in Ids(t.rows) : i \in 1..t.last
        BY <1>1 DEF Ids
      <4> QED BY <1>1, <2>4, <2>5, <4>1, <4>2
    <3>3. \A x \in I \union {e} : g[x] > b.last /\ Stored(x, g[x]) \in u.rows
      BY <1>1, <1>5, <2>1, <2>2, <2>3, <3>2
    <3>4. ASSUME NEW x \in I \union {e}, NEW d \in I \union {e}, g[x] = g[d]
          PROVE  x = d
      <4>1. CASE x \in I /\ d \in I
        BY <1>5, <2>3, <3>2, <3>4, <4>1
      <4>2. CASE x = e \/ d = e
        <5>1. \A y \in I : g[y] # g[e]
          BY <1>1, <3>2
        <5> QED BY <3>4, <4>2, <5>1
      <4> QED BY <4>1, <4>2
    <3> QED BY <3>1, <3>3, <3>4 DEF Gives
  <2>8. \A p \in b.rows : p.id # e.id
    BY <1>10 DEF Ids
  <2>9. \A x \in S \union {e}, p \in b.rows : p.id = x.id => Moved(x, p.sys) \in u.rows
    BY <1>6, <2>2, <2>8
  <2>10. \A p \in b.rows : p.id \notin Ids(S \union {e}) => p \in u.rows
    BY <1>6, <1>8, <2>2
  <2>11. ASSUME NEW r \in u.rows
         PROVE  \/ r \in b.rows /\ r.id \notin Ids(S \union {e})
                \/ \E x \in S \union {e}, p \in b.rows : p.id = x.id /\ r = Moved(x, p.sys)
                \/ \E x \in I \union {e} : r.id > b.last /\ r = Stored(x, r.id)
    <3>1. CASE r \in t.rows
      BY <1>6, <1>8, <2>3, <2>8, <3>1
    <3>2. CASE r = row
      <4>1. r.id > b.last
        BY <1>1, <2>6, <3>2
      <4> QED BY <2>1, <2>6, <3>2, <4>1
    <3> QED BY <2>2, <3>1, <3>2
  <2> QED BY <2>2, <2>4, <2>7, <2>9, <2>10, <2>11 DEF Becomes
<1> QED BY <1>9, <1>10

Cleared(t, gone) == [rows |-> t.rows \ gone, last |-> t.last]

LEMMA ClearedRows ==
  ASSUME NEW t, t = [rows |-> t.rows, last |-> t.last], NEW gone
  PROVE  Cleared(t, gone) = [t EXCEPT !.rows = @ \ gone]
<1>1. [t EXCEPT !.rows = t.rows \ gone] = [rows |-> t.rows \ gone, last |-> t.last]
  OBVIOUS
<1> QED BY <1>1, Zenon DEF Cleared

LEMMA WrittenFrom ==
  ASSUME NEW t, NEW list, NEW gone, NEW b, b = [t EXCEPT !.rows = @ \ gone]
  PROVE  Written(list, gone, t) = FoldSet(Upsert, b, list)
BY Zenon DEF Written

LEMMA ClearedIs ==
  ASSUME NEW V, V \subseteq Nat, NEW t \in TableOf(V), NEW gone
  PROVE  /\ Cleared(t, gone) \in TableOf(V)
         /\ Cleared(t, gone) \in Grown(V, t.last, Ids(t.rows \ gone))
         /\ Cleared(t, gone).rows = t.rows \ gone /\ Cleared(t, gone).last = t.last
         /\ Cleared(t, gone) = [t EXCEPT !.rows = @ \ gone]
<1>1. /\ t = [rows |-> t.rows, last |-> t.last]
      /\ t.rows \subseteq Row /\ t.last \in Nat /\ IsFiniteSet(t.rows)
      /\ \A r \in t.rows : r.id \in 1..t.last /\ r.tag \in V
      /\ \A r, q \in t.rows : r.id = q.id => r = q
  BY DEF TableOf
<1>2. PICK R : R = t.rows \ gone
  OBVIOUS
<1>3. IsFiniteSet(R) /\ R \in SUBSET t.rows
  BY <1>1, <1>2, FS_Subset
<1>4. \A r \in R : r.id \in Ids(R)
  BY DEF Ids
<1>5. [rows |-> R, last |-> t.last] \in Grown(V, t.last, Ids(R)) /\ [rows |-> R, last |-> t.last] \in TableOf(V)
  <2>1. R \subseteq Row /\ t.last <= t.last /\ Ids(R) \subseteq Ids(R)
    BY <1>1, <1>3
  <2>2. \A r \in R : r.id \in 1..t.last /\ r.tag \in V /\ (r.id \in Ids(R) \/ r.id > t.last)
    BY <1>1, <1>3, <1>4
  <2>3. \A r, q \in R : r.id = q.id => r = q
    BY <1>1, <1>3
  <2>4. [rows |-> R, last |-> t.last] \in Grown(V, t.last, Ids(R))
    BY <1>1, <1>3, <2>1, <2>2, <2>3, InGrown
  <2> QED BY <2>4 DEF Grown
<1>6. Cleared(t, gone) = [t EXCEPT !.rows = @ \ gone]
  BY <1>1, ClearedRows
<1>7. Cleared(t, gone).rows = t.rows \ gone /\ Cleared(t, gone).last = t.last
  BY DEF Cleared
<1>8. Cleared(t, gone) = [rows |-> R, last |-> t.last]
  BY <1>2 DEF Cleared
<1>9. Cleared(t, gone) \in TableOf(V) /\ Cleared(t, gone) \in Grown(V, t.last, Ids(t.rows \ gone))
  BY <1>2, <1>5, <1>8
<1> QED BY <1>6, <1>7, <1>9, Zenon

LEMMA BecomesNone ==
  ASSUME NEW b
  PROVE  Becomes({}, b, b)
<1>1. Inserted({}, b) = {} /\ Ids({}) = {}
  BY DEF Inserted, Ids
<1>2. PICK f : f = [x \in {} |-> 0]
  OBVIOUS
<1>3. Gives(f, {}, b, b.last)
  BY <1>2 DEF Gives
<1> QED BY <1>1, <1>3 DEF Becomes

LEMMA WrittenBecomes ==
  ASSUME NEW V, V \subseteq Nat, NEW list, IsFiniteSet(list), \A e \in list : Elem(e, V),
         NEW t \in TableOf(V), NEW gone, Known(list, t)
  PROVE  Becomes(list, Cleared(t, gone), Written(list, gone, t))
<1>1. PICK b : b = Cleared(t, gone)
  OBVIOUS
<1>2. b \in TableOf(V) /\ b.last = t.last /\ b \in Grown(V, b.last, Ids(b.rows)) /\ b.last \in Nat
  <2>1. t.last \in Nat
    BY DEF TableOf
  <2>2. /\ b \in TableOf(V) /\ b \in Grown(V, t.last, Ids(t.rows \ gone))
        /\ b.rows = t.rows \ gone /\ b.last = t.last
    BY <1>1, ClearedIs
  <2> QED BY <2>1, <2>2
<1>3. Known(list, b)
  BY <1>2 DEF Known
<1>4. PICK B : B = Grown(V, b.last, Ids(b.rows))
  OBVIOUS
<1>5. PICK P : P = {p \in (SUBSET list) \X B : Becomes(p[1], b, p[2])}
  OBVIOUS
<1>6. \A e \in list, x \in B : Upsert(e, x) \in B
  BY <1>2, <1>4, UpsertIn
<1>7. <<{}, b>> \in P
  BY <1>2, <1>4, <1>5, BecomesNone
<1>8. ASSUME NEW s \in SUBSET list, NEW e \in list \ s, NEW x \in B, <<s, x>> \in P
      PROVE  <<s \union {e}, Upsert(e, x)>> \in P
  <2>1. Becomes(s, b, x)
    BY <1>5, <1>8
  <2>2. PICK d \in SUBSET list : d = s \union {e}
    OBVIOUS
  <2>3. Known(d, b) /\ \A y \in d : Elem(y, V)
    BY <1>3 DEF Known
  <2>4. Becomes(d, b, Upsert(e, x))
    BY <1>2, <1>4, <2>1, <2>2, <2>3, BecomesNext
  <2>5. <<d, Upsert(e, x)>> \in P
    BY <1>5, <1>6, <2>4
  <2> QED BY <2>2, <2>5
<1>9. <<list, FoldSet(Upsert, b, list)>> \in P
  BY <1>2, <1>4, <1>6, <1>7, <1>8, WrittenBy, Zenon
<1>10. Written(list, gone, t) = FoldSet(Upsert, b, list)
  <2>1. t = [rows |-> t.rows, last |-> t.last]
    BY DEF TableOf
  <2>2. b = [t EXCEPT !.rows = @ \ gone]
    BY <1>1, <2>1, ClearedRows, Zenon
  <2> QED BY <2>2, WrittenFrom, Zenon
<1> QED BY <1>1, <1>5, <1>9, <1>10

-----------------------------------------------------------------------------
(* All the tables, and the lists.                                          *)

(* A talkgroup has a tag whose id was given, and other elements none.      *)
TagsIn(l, n) == IF l = "talkgroups" THEN 0..n ELSE Nat

Tabs(t) == t = [l \in List |-> t[l]] /\ \A l \in List : t[l] \in TableOf(TagsIn(l, t["tags"].last))

Refers(t) ==
  /\ \A l \in Nested : \A r \in t[l].rows : r.sys \in Ids(t["systems"].rows)
  /\ \A r \in t["talkgroups"].rows : r.tag \in Ids(t["tags"].rows)

(* n is the last id that a tag was given.                                  *)
Fits(l, rows, n) ==
  /\ IsFiniteSet(rows)
  /\ \A e \in rows : /\ Elem(e, TagsIn(l, n))
                     /\ l # "talkgroups" => e.id \in Nat
                     /\ l = "tags" => e.id <= n

LEMMA TabFacts ==
  ASSUME NEW t, Tabs(t), NEW l \in List
  PROVE  /\ t[l] \in TableOf(TagsIn(l, t["tags"].last))
         /\ t[l] = [rows |-> t[l].rows, last |-> t[l].last]
         /\ t[l].rows \subseteq Row /\ t[l].last \in Nat /\ IsFiniteSet(t[l].rows)
         /\ \A r \in t[l].rows : r.id \in 1..t[l].last /\ r.tag \in TagsIn(l, t["tags"].last)
         /\ \A r, q \in t[l].rows : r.id = q.id => r = q
         /\ t["tags"].last \in Nat
<1>1. "tags" \in List
  BY DEF List, Flat
<1> QED BY <1>1 DEF Tabs, TableOf

LEMMA RowsFit ==
  ASSUME NEW t, Tabs(t), NEW l \in List, NEW S, S \subseteq t[l].rows
  PROVE  Fits(l, S, t["tags"].last)
<1>1. IsFiniteSet(S)
  BY TabFacts, FS_Subset
<1>2. ASSUME NEW e \in S
      PROVE  Elem(e, TagsIn(l, t["tags"].last)) /\ e.id \in 1..t[l].last
  <2>1. e \in Row /\ e.tag \in TagsIn(l, t["tags"].last) /\ e.id \in 1..t[l].last
    BY TabFacts
  <2> QED BY <2>1 DEF Elem, Row
<1>3. t[l].last \in Nat /\ t["tags"].last \in Nat
  BY TabFacts
<1> QED BY <1>1, <1>2, <1>3 DEF Fits

LEMMA FitsMore ==
  ASSUME NEW l, NEW S, NEW m \in Nat, NEW n \in Nat, m <= n, Fits(l, S, m)
  PROVE  Fits(l, S, n)
<1>1. TagsIn(l, m) \subseteq TagsIn(l, n)
  BY DEF TagsIn
<1>2. \A e \in S : l = "tags" => e.id \in Nat /\ e.id <= m
  BY DEF Fits
<1> QED BY <1>1, <1>2 DEF Fits, Elem

LEMMA FitsSubset ==
  ASSUME NEW l, NEW S, NEW n, Fits(l, S, n), NEW R \in SUBSET S
  PROVE  Fits(l, R, n)
BY FS_Subset DEF Fits

LEMMA FitsAdd ==
  ASSUME NEW l, NEW S, NEW n, Fits(l, S, n), NEW e, Fits(l, {e}, n)
  PROVE  Fits(l, S \union {e}, n)
BY FS_AddElement DEF Fits

(* A table that grew by a Write has the rows of a list that fits.          *)
LEMMA Cut ==
  ASSUME NEW V, NEW t \in TableOf(V), NEW R \in SUBSET t.rows
  PROVE  [rows |-> R, last |-> t.last] \in TableOf(V)
<1>1. IsFiniteSet(R)
  BY FS_Subset DEF TableOf
<1>2. PICK u \in [rows : SUBSET Row, last : Nat] : u = [rows |-> R, last |-> t.last]
  BY DEF TableOf
<1>3. u.rows = R /\ u.last = t.last
  BY <1>2
<1>4. u \in TableOf(V)
  BY <1>1, <1>3 DEF TableOf
<1> QED BY <1>2, <1>4

LEMMA CascadeIs ==
  ASSUME NEW t, Tabs(t)
  PROVE  /\ Cascade(t) = [l \in List |-> Cascade(t)[l]]
         /\ \A l \in List \ Nested : Cascade(t)[l] = t[l]
         /\ \A l \in {"sites", "units"} : Cascade(t)[l] =
              [rows |-> {r \in t[l].rows : r.sys \in Ids(t["systems"].rows)}, last |-> t[l].last]
         /\ Cascade(t)["talkgroups"] =
              [rows |-> {r \in t["talkgroups"].rows : /\ r.sys \in Ids(t["systems"].rows)
                                                     /\ r.tag \in Ids(t["tags"].rows)},
               last |-> t["talkgroups"].last]
<1>1. DOMAIN t = List /\ Nested \subseteq List /\ Nested = {"sites", "talkgroups", "units"}
  BY DEF Tabs, List, Nested
<1>2. \A l \in Nested : t[l] = [rows |-> t[l].rows, last |-> t[l].last]
  BY <1>1, TabFacts
<1>3. Cascade(t) = [l \in List |-> Cascade(t)[l]]
  BY <1>1 DEF Cascade
<1> QED BY <1>1, <1>2, <1>3 DEF Cascade

LEMMA CascadeKeeps ==
  ASSUME NEW t, Tabs(t)
  PROVE  /\ Tabs(Cascade(t)) /\ Refers(Cascade(t))
         /\ \A l \in List : Cascade(t)[l].last = t[l].last /\ Cascade(t)[l].rows \subseteq t[l].rows
         /\ Refers(t) => Cascade(t) = t
<1> DEFINE c == Cascade(t)
<1>0. /\ Nested = {"sites", "talkgroups", "units"} /\ Nested \subseteq List
      /\ "systems" \in List \ Nested /\ "tags" \in List \ Nested
  BY DEF Nested, List, Flat
<1>1. ASSUME NEW l \in List
      PROVE  /\ c[l] = [rows |-> c[l].rows, last |-> c[l].last]
             /\ c[l].last = t[l].last /\ c[l].rows \subseteq t[l].rows
  <2>1. CASE l \notin Nested
    <3>1. c[l] = t[l]
      BY <2>1, CascadeIs
    <3> HIDE DEF c
    <3> QED BY <3>1, TabFacts
  <2>2. CASE l \in {"sites", "units"}
    <3>1. c[l] = [rows |-> {r \in t[l].rows : r.sys \in Ids(t["systems"].rows)}, last |-> t[l].last]
      BY <2>2, CascadeIs
    <3> HIDE DEF c
    <3> QED BY <3>1
  <2>3. CASE l = "talkgroups"
    <3>1. c["talkgroups"] =
            [rows |-> {r \in t["talkgroups"].rows : /\ r.sys \in Ids(t["systems"].rows)
                                                   /\ r.tag \in Ids(t["tags"].rows)},
             last |-> t["talkgroups"].last]
      BY CascadeIs
    <3> HIDE DEF c
    <3> QED BY <2>3, <3>1
  <2> QED BY <1>0, <2>1, <2>2, <2>3
<1>3. c["tags"] = t["tags"] /\ c["systems"] = t["systems"] /\ c = [l \in List |-> c[l]]
  BY <1>0, CascadeIs
<1>r. /\ \A l \in {"sites", "units"} : c[l].rows = {r \in t[l].rows : r.sys \in Ids(t["systems"].rows)}
      /\ c["talkgroups"].rows = {r \in t["talkgroups"].rows : /\ r.sys \in Ids(t["systems"].rows)
                                                             /\ r.tag \in Ids(t["tags"].rows)}
  <2>1. /\ \A l \in {"sites", "units"} : c[l] =
              [rows |-> {r \in t[l].rows : r.sys \in Ids(t["systems"].rows)}, last |-> t[l].last]
        /\ c["talkgroups"] =
              [rows |-> {r \in t["talkgroups"].rows : /\ r.sys \in Ids(t["systems"].rows)
                                                     /\ r.tag \in Ids(t["tags"].rows)},
               last |-> t["talkgroups"].last]
    BY CascadeIs
  <2> HIDE DEF c
  <2> QED BY <2>1
<1> HIDE DEF c
<1>4. Refers(c)
  BY <1>0, <1>3, <1>r DEF Refers
<1>5. ASSUME Refers(t)
      PROVE  c = t
  <2>1. \A l \in Nested : c[l].rows = t[l].rows
    BY <1>0, <1>5, <1>r DEF Refers
  <2>2. ASSUME NEW l \in Nested
        PROVE  c[l] = t[l]
    <3>1. c[l] = [rows |-> c[l].rows, last |-> c[l].last] /\ c[l].last = t[l].last
      BY <1>0, <1>1
    <3>2. t[l] = [rows |-> t[l].rows, last |-> t[l].last]
      BY <1>0, TabFacts
    <3> QED BY <2>1, <3>1, <3>2
  <2>3. \A l \in List : c[l] = t[l]
    BY <1>0, <2>2, CascadeIs DEF c
  <2> QED BY <1>3, <2>3 DEF Tabs
<1>6. ASSUME NEW l \in List
      PROVE  c[l] \in TableOf(TagsIn(l, c["tags"].last))
  <2>1. c[l] = [rows |-> c[l].rows, last |-> t[l].last]
    BY <1>1
  <2>2. t[l] \in TableOf(TagsIn(l, t["tags"].last)) /\ c[l].rows \in SUBSET t[l].rows
    BY <1>1, TabFacts
  <2> QED BY <1>3, <2>1, <2>2, Cut
<1> QED BY <1>1, <1>3, <1>4, <1>5, <1>6 DEF c, Tabs

-----------------------------------------------------------------------------
(* What the program holds: tables in order, lists whose elements fit them, *)
(* and a page made of such lists.                                          *)

LastTag == tab["tags"].last

PopAt == {"idle", "group", "group.write", "group.read", "tag", "tag.write", "tag.read",
          "talkgroup", "write", "read", "store"}
Pop   == [at : PopAt, sys : Nat, sysKey : Nat, key : Nat, group : Nat, tag : Nat,
          orphan : BOOLEAN, id : Nat]

Tables == Tabs(tab) /\ Refers(tab) /\ calls \subseteq Ids(tab["talkgroups"].rows)
Memory == mem = [l \in List |-> mem[l]] /\ \A l \in List : Fits(l, mem[l], LastTag)

LEMMA Names ==
  /\ Flat = {"access", "apikeys", "dirwatch", "downstreams", "groups", "tags"}
  /\ Nested = {"sites", "talkgroups", "units"}
  /\ List = Flat \union {"systems"} \union Nested
  /\ Sent = Flat \union {"systems", "options"}
BY DEF Flat, Nested, List, Sent

LEMMA Looser ==
  ASSUME NEW V, NEW W, V \subseteq W
  PROVE  TableOf(V) \subseteq TableOf(W)
BY DEF TableOf

(* What the Write of a list with a table of its own does to the tables.    *)
OnlyWrites(l, list, c) ==
  /\ Tabs(c) /\ Refers(c)
  /\ \A k \in List \ {l, "talkgroups"} : c[k] = tab[k]
  /\ c[l] = FlatTable(list, tab[l])
  /\ c["talkgroups"].rows = {r \in tab["talkgroups"].rows : r.tag \in Ids(c["tags"].rows)}
  /\ l # "tags" => c["talkgroups"] = tab["talkgroups"]
  /\ tab[l].last <= c[l].last /\ c["talkgroups"].last = tab["talkgroups"].last
  /\ LastTag \in Nat /\ c["tags"].last \in Nat /\ LastTag <= c["tags"].last
  /\ l = "tags" /\ New \in Ids(list) =>
       /\ Ids(tab["tags"].rows) \subseteq Ids(c["tags"].rows)
       /\ \A r \in c["tags"].rows : r.id \in Ids(tab["tags"].rows) \/ r.id > LastTag

LEMMA FlatWritten ==
  ASSUME Tables, NEW l \in Flat, NEW list, Fits(l, list, LastTag), NEW c,
         c = Cascade([tab EXCEPT ![l] = FlatTable(list, tab[l])])
  PROVE  OnlyWrites(l, list, c)
<1> DEFINE w == FlatTable(list, tab[l])
           t == [tab EXCEPT ![l] = w]
<1>0. /\ l \in List /\ l \notin Nested \union {"systems"} /\ Nested \subseteq List
      /\ {"tags", "systems", "talkgroups"} \subseteq List
  BY Names
<1>1. w \in Grown(Nat, tab[l].last, Ids(tab[l].rows \ Removed(list, tab[l].rows)))
  <2>1. tab[l] \in TableOf(Nat)
    BY <1>0, Names, TabFacts DEF Tables, TagsIn
  <2>2. \A e \in list : Elem(e, Nat)
    BY <1>0, Names DEF Fits, TagsIn
  <2>3. IsFiniteSet(list)
    BY DEF Fits
  <2> QED BY <2>1, <2>2, <2>3, WrittenKeeps DEF FlatTable
<1>2. /\ w \in TableOf(Nat) /\ tab[l].last <= w.last
      /\ Ids(tab[l].rows \ Removed(list, tab[l].rows)) \subseteq Ids(w.rows)
      /\ \A r \in w.rows : r.id \in Ids(tab[l].rows \ Removed(list, tab[l].rows)) \/ r.id > tab[l].last
  BY <1>1 DEF Grown
<1> HIDE DEF w
<1>3. t = [k \in List |-> t[k]] /\ t[l] = w /\ \A k \in List \ {l} : t[k] = tab[k]
  BY <1>0 DEF Tables, Tabs
<1> HIDE DEF t
<1>4. LastTag \in Nat /\ t["tags"].last \in Nat /\ LastTag <= t["tags"].last
  <2>1. LastTag \in Nat /\ tab["tags"].last \in Nat
    BY <1>0, TabFacts DEF Tables, LastTag
  <2>2. w.last \in Nat
    BY <1>2 DEF TableOf
  <2> QED BY <1>0, <1>2, <1>3, <2>1, <2>2 DEF LastTag
<1>5. Tabs(t)
  <2>1. ASSUME NEW k \in List
        PROVE  t[k] \in TableOf(TagsIn(k, t["tags"].last))
    <3>1. CASE k = l
      BY <1>0, <1>2, <1>3, <3>1, Names DEF TagsIn
    <3>2. CASE k # l
      <4>1. t[k] \in TableOf(TagsIn(k, LastTag))
        BY <1>3, <3>2, TabFacts DEF Tables, LastTag
      <4>2. TagsIn(k, LastTag) \subseteq TagsIn(k, t["tags"].last)
        BY <1>4 DEF TagsIn
      <4> QED BY <4>1, <4>2, Looser
    <3> QED BY <3>1, <3>2
  <2> QED BY <1>3, <2>1 DEF Tabs
<1>6. c = Cascade(t)
  BY DEF t, w
<1>7. Tabs(c) /\ Refers(c)
  BY <1>5, <1>6, CascadeKeeps
<1>8. \A k \in List \ Nested : c[k] = t[k]
  BY <1>5, <1>6, CascadeIs
<1>9. c[l] = w /\ c["tags"] = t["tags"] /\ t["systems"] = tab["systems"]
  BY <1>0, <1>3, <1>8, Names
<1>10. c["talkgroups"].rows = {r \in tab["talkgroups"].rows : r.tag \in Ids(c["tags"].rows)}
  <2>1. c["talkgroups"] =
          [rows |-> {r \in t["talkgroups"].rows : /\ r.sys \in Ids(t["systems"].rows)
                                                 /\ r.tag \in Ids(t["tags"].rows)},
           last |-> t["talkgroups"].last]
    BY <1>5, <1>6, CascadeIs
  <2>2. c["talkgroups"].rows = {r \in t["talkgroups"].rows : /\ r.sys \in Ids(t["systems"].rows)
                                                            /\ r.tag \in Ids(t["tags"].rows)}
    BY <2>1
  <2>3. t["talkgroups"] = tab["talkgroups"]
    BY <1>0, <1>3, Names
  <2>4. \A r \in tab["talkgroups"].rows : r.sys \in Ids(tab["systems"].rows)
    BY Names DEF Tables, Refers
  <2> QED BY <1>9, <2>2, <2>3, <2>4
<1>15. tab[l].last <= c[l].last /\ c["talkgroups"].last = tab["talkgroups"].last
  <2>1. c["talkgroups"].last = t["talkgroups"].last
    BY <1>0, <1>5, <1>6, CascadeKeeps
  <2> QED BY <1>0, <1>2, <1>3, <1>9, <2>1, Names
<1>11. ASSUME NEW k \in {"sites", "units"}
       PROVE  c[k] = tab[k]
  <2>1. c[k] = [rows |-> {r \in t[k].rows : r.sys \in Ids(t["systems"].rows)}, last |-> t[k].last]
    BY <1>5, <1>6, CascadeIs
  <2>2. t[k] = tab[k] /\ k \in Nested /\ k \in List
    BY <1>0, <1>3, Names
  <2>3. {r \in tab[k].rows : r.sys \in Ids(tab["systems"].rows)} = tab[k].rows
    BY <2>2 DEF Tables, Refers
  <2>4. tab[k] = [rows |-> tab[k].rows, last |-> tab[k].last]
    BY <2>2, TabFacts DEF Tables
  <2> QED BY <1>9, <2>1, <2>2, <2>3, <2>4
<1>12. \A k \in List \ {l, "talkgroups"} : c[k] = tab[k]
  BY <1>3, <1>8, <1>11, Names
<1>13. ASSUME l # "tags"
       PROVE  c["talkgroups"] = tab["talkgroups"]
  <2>1. Refers(t)
    BY <1>0, <1>3, <1>13, Names DEF Tables, Refers
  <2>2. c = t
    BY <1>5, <1>6, <2>1, CascadeKeeps
  <2> QED BY <1>0, <1>3, <2>2, Names
<1>14. ASSUME l = "tags", New \in Ids(list)
       PROVE  /\ Ids(tab["tags"].rows) \subseteq Ids(c["tags"].rows)
              /\ \A r \in c["tags"].rows : r.id \in Ids(tab["tags"].rows) \/ r.id > LastTag
  <2>1. tab[l].rows \ Removed(list, tab[l].rows) = tab["tags"].rows
    BY <1>14 DEF Removed
  <2> QED BY <1>2, <1>9, <1>14, <2>1 DEF LastTag
<1> QED BY <1>4, <1>7, <1>9, <1>10, <1>12, <1>13, <1>14, <1>15 DEF w, OnlyWrites

-----------------------------------------------------------------------------
(* The Write of systems, with what is nested in them.                      *)

(* Elements of systems in the lists S are of one of its systems, and those *)
(* that have a row in t are of the system of the row.                      *)
Joined(S, t) ==
  /\ \A s, q \in S["systems"] : s.id = q.id => s = q
  /\ \A l \in Nested : \A e \in S[l] : e.sys \in Ids(S["systems"])
  /\ \A l \in {"sites", "talkgroups"} : \A e \in S[l], r \in t[l].rows : e.id = r.id => e.sys = r.sys

(* Units are left out: what a page sends as the id of a unit is its        *)
(* reference.                                                              *)
LinkedTo(S, t) == Joined(S, t) /\ \A l \in List \ {"units"} : Known(S[l], t[l])

MemLinked == LinkedTo(mem, tab)

(* What a Write gives systems as ids.                                      *)
LEMMA SystemIds ==
  ASSUME Tables, Memory, MemLinked
  PROVE  /\ SystemsTable \in TableOf(Nat) /\ tab["systems"].last <= SystemsTable.last
         /\ SystemsTable.last \in Nat
         /\ \A i \in Nat : IdOf(i) \in Nat
         /\ \A s \in mem["systems"] :
              /\ IdOf(s.id) \in Ids(SystemsTable.rows) /\ IdOf(s.id) \in 1..SystemsTable.last
              /\ s.id \in Ids(tab["systems"].rows) => IdOf(s.id) = s.id
              /\ s.id \notin Ids(tab["systems"].rows) =>
                   IdOf(s.id) > tab["systems"].last /\ Stored(s, IdOf(s.id)) \in SystemsTable.rows
         /\ \A s, q \in mem["systems"] : IdOf(s.id) = IdOf(q.id) => s = q
<1> DEFINE old == tab["systems"]
<1>1. /\ old \in TableOf(Nat)
      /\ old.last \in Nat /\ \A r \in old.rows : r.id \in 1..old.last
  BY Names, TabFacts DEF Tables, TagsIn
<1>2. IsFiniteSet(mem["systems"]) /\ \A e \in mem["systems"] : Elem(e, Nat)
  BY Names DEF Memory, Fits, TagsIn
<1>3. PICK gone : gone = Removed(mem["systems"], old.rows)
  OBVIOUS
<1>4. SystemsTable \in Grown(Nat, old.last, Ids(old.rows \ gone))
  BY <1>1, <1>2, <1>3, WrittenKeeps DEF SystemsTable, FlatTable
<1>5. /\ SystemsTable \in TableOf(Nat) /\ old.last <= SystemsTable.last /\ SystemsTable.last \in Nat
      /\ \A r \in SystemsTable.rows : r.id \in 1..SystemsTable.last
  BY <1>4 DEF Grown, TableOf
<1>6. PICK b : b = Cleared(old, gone)
  OBVIOUS
<1>7. b.rows = old.rows \ gone /\ b.last = old.last
  BY <1>6 DEF Cleared
<1>8. Known(mem["systems"], old)
  BY Names DEF MemLinked, LinkedTo
<1>9. Becomes(mem["systems"], b, SystemsTable)
  BY <1>1, <1>2, <1>3, <1>6, <1>8, WrittenBecomes DEF SystemsTable, FlatTable
<1>10. \A s \in mem["systems"] : s.id \in Ids(b.rows) <=> s.id \in Ids(old.rows)
  BY <1>3, <1>7 DEF Removed, Ids
<1>11. Inserted(mem["systems"], b) = Unsaved("systems")
  BY <1>10 DEF Inserted, Unsaved
<1>12. PICK given : given = Given(Unsaved("systems"), SystemsTable, old.last)
  OBVIOUS
<1>13. Gives(given, Unsaved("systems"), SystemsTable, old.last)
  BY <1>7, <1>9, <1>11, <1>12, GivenIs DEF Becomes
<1>14. /\ given \in [Unsaved("systems") -> Ids(SystemsTable.rows)]
       /\ \A e, d \in Unsaved("systems") : /\ given[e] > old.last /\ Stored(e, given[e]) \in SystemsTable.rows
                                           /\ given[e] = given[d] => e = d
  BY <1>13 DEF Gives
<1>15. \A i : IdOf(i) = IF \E e \in Unsaved("systems") : e.id = i
                        THEN given[CHOOSE e \in Unsaved("systems") : e.id = i] ELSE i
  BY <1>12 DEF IdOf
<1>16. \A s, q \in mem["systems"] : s.id = q.id => s = q
  BY DEF MemLinked, LinkedTo, Joined
<1>17. ASSUME NEW s \in mem["systems"], s.id \notin Ids(old.rows)
       PROVE  s \in Unsaved("systems") /\ IdOf(s.id) = given[s]
  <2>1. s \in Unsaved("systems")
    BY <1>17 DEF Unsaved
  <2>2. \A e \in Unsaved("systems") : e.id = s.id => e = s
    BY <1>16 DEF Unsaved
  <2>3. (CHOOSE e \in Unsaved("systems") : e.id = s.id) = s
    BY <2>1, <2>2
  <2> QED BY <1>15, <2>1, <2>3
<1>18. ASSUME NEW s \in mem["systems"], s.id \in Ids(old.rows)
       PROVE  IdOf(s.id) = s.id /\ s.id \in Ids(SystemsTable.rows) /\ s.id <= old.last
  <2>1. \A e \in Unsaved("systems") : e.id # s.id
    BY <1>18 DEF Unsaved
  <2>2. PICK q \in b.rows : q.id = s.id
    BY <1>10, <1>18 DEF Ids
  <2>3. Moved(s, q.sys) \in SystemsTable.rows /\ Moved(s, q.sys).id = s.id
    BY <1>2, <1>9, <2>2, ElemSet DEF Becomes
  <2>4. s.id <= old.last
    BY <1>1, <1>7, <2>2
  <2> QED BY <1>15, <2>1, <2>3, <2>4 DEF Ids
<1>19. \A i \in Ids(SystemsTable.rows) : i \in 1..SystemsTable.last
  BY <1>5 DEF Ids
<1>20. ASSUME NEW s \in mem["systems"]
       PROVE  IdOf(s.id) \in Ids(SystemsTable.rows)
  BY <1>14, <1>17, <1>18
<1>21. ASSUME NEW s \in mem["systems"], NEW q \in mem["systems"], IdOf(s.id) = IdOf(q.id)
       PROVE  s = q
  <2>1. CASE s.id \in Ids(old.rows) /\ q.id \in Ids(old.rows)
    BY <1>16, <1>18, <1>21, <2>1
  <2>2. CASE s.id \notin Ids(old.rows) /\ q.id \notin Ids(old.rows)
    BY <1>14, <1>17, <1>21, <2>2
  <2>3. \A x, y \in mem["systems"] : x.id \in Ids(old.rows) /\ y.id \notin Ids(old.rows) => IdOf(x.id) # IdOf(y.id)
    <3>1. ASSUME NEW x \in mem["systems"], NEW y \in mem["systems"],
                 x.id \in Ids(old.rows), y.id \notin Ids(old.rows)
          PROVE  IdOf(x.id) # IdOf(y.id)
      <4>1. IdOf(x.id) <= old.last
        BY <1>18, <3>1
      <4>2. IdOf(y.id) > old.last
        BY <1>14, <1>17, <3>1
      <4>3. IdOf(x.id) \in Nat /\ IdOf(y.id) \in Nat
        BY <1>5, <1>19, <1>20
      <4> QED BY <1>1, <4>1, <4>2, <4>3
    <3> QED BY <3>1
  <2> QED BY <1>21, <2>1, <2>2, <2>3
<1>22. ASSUME NEW i \in Nat
       PROVE  IdOf(i) \in Nat
  <2>1. CASE \E e \in Unsaved("systems") : e.id = i
    <3>1. PICK e \in Unsaved("systems") : e.id = i
      BY <2>1
    <3>2. e \in mem["systems"]
      BY <3>1 DEF Unsaved
    <3> QED BY <1>5, <1>19, <1>20, <3>1, <3>2
  <2>2. CASE ~\E e \in Unsaved("systems") : e.id = i
    BY <1>15, <2>2
  <2> QED BY <2>1, <2>2
<1>23. \A s \in mem["systems"] : s.id \notin Ids(old.rows) =>
         IdOf(s.id) > old.last /\ Stored(s, IdOf(s.id)) \in SystemsTable.rows
  BY <1>14, <1>17
<1> QED BY <1>5, <1>18, <1>19, <1>20, <1>21, <1>22, <1>23

LEMMA UnderFits ==
  ASSUME Tables, Memory, MemLinked, NEW l \in Nested, NEW s \in mem["systems"]
  PROVE  /\ IsFiniteSet(Under(l, s))
         /\ \A e \in Under(l, s) : Elem(e, TagsIn(l, LastTag))
<1>0. IdOf(s.id) \in Nat
  <2>1. s.id \in Nat
    BY Names DEF Memory, Fits
  <2> QED BY <2>1, SystemIds
<1>1. PICK S : S = {x \in mem[l] : x.sys = s.id}
  OBVIOUS
<1>2. IsFiniteSet(S) /\ \A e \in S : Elem(e, TagsIn(l, LastTag))
  <2>1. IsFiniteSet(mem[l]) /\ \A e \in mem[l] : Elem(e, TagsIn(l, LastTag))
    BY Names DEF Memory, Fits
  <2> QED BY <1>1, <2>1, FS_Subset
<1>3. PICK f : f = [e \in S |-> [e EXCEPT !.sys = IdOf(s.id)]]
  OBVIOUS
<1>4. Under(l, s) = {f[e] : e \in S}
  BY <1>1, <1>3 DEF Under
<1>5. ASSUME NEW e \in S
      PROVE  Elem(f[e], TagsIn(l, LastTag))
  <2>1. f[e] = [id |-> e.id, sys |-> IdOf(s.id), key |-> e.key, tag |-> e.tag]
    BY <1>2, <1>3 DEF Elem
  <2>2. e.key \in Nat /\ e.tag \in TagsIn(l, LastTag)
    BY <1>2 DEF Elem
  <2> QED BY <1>0, <2>1, <2>2 DEF Elem
<1> QED BY <1>2, <1>3, <1>4, <1>5, Image

(* What is written under one of the systems.                               *)
LEMMA UnderIs ==
  ASSUME Tables, Memory, MemLinked, NEW l \in {"sites", "talkgroups"}
  PROVE  /\ \A s \in mem["systems"] : \A x \in Under(l, s) :
              /\ x.sys = IdOf(s.id) /\ x.id \in 0..tab[l].last /\ x.id \in Ids(mem[l])
              /\ \A r \in tab[l].rows : r.id = x.id => /\ r.sys = s.id /\ IdOf(s.id) = s.id
                                                       /\ r.sys \in Ids(SystemsTable.rows)
         /\ \A s, q \in mem["systems"] : \A x \in Under(l, s), y \in Under(l, q) :
              x.id = y.id /\ x.id # New => x = y /\ s = q
<1>0. l \in List /\ l \in Nested /\ l # "units" /\ l \in List \ {"units"}
  BY Names
<1>1. \A e \in mem[l] : Elem(e, TagsIn(l, LastTag))
  BY <1>0 DEF Memory, Fits
<1>2. Known(mem[l], tab[l])
  BY <1>0 DEF MemLinked, LinkedTo
<1>3. ASSUME NEW s \in mem["systems"], NEW x \in Under(l, s)
      PROVE  \E y \in mem[l] : y.sys = s.id /\ y.id = x.id /\ x.sys = IdOf(s.id) /\ x = Moved(y, IdOf(s.id))
  <2>1. PICK y \in mem[l] : y.sys = s.id /\ x = Moved(y, IdOf(s.id))
    BY <1>3 DEF Under, Moved
  <2> QED BY <1>1, <2>1, ElemSet
<1>4. ASSUME NEW s \in mem["systems"], NEW x \in Under(l, s)
      PROVE  /\ x.sys = IdOf(s.id) /\ x.id \in 0..tab[l].last /\ x.id \in Ids(mem[l])
             /\ \A r \in tab[l].rows : r.id = x.id => /\ r.sys = s.id /\ IdOf(s.id) = s.id
                                                      /\ r.sys \in Ids(SystemsTable.rows)
  <2>1. PICK y \in mem[l] : y.sys = s.id /\ y.id = x.id /\ x.sys = IdOf(s.id)
    BY <1>3
  <2>2. y.id \in 0..tab[l].last
    BY <1>2 DEF Known
  <2>3. ASSUME NEW r \in tab[l].rows, r.id = x.id
        PROVE  r.sys = s.id /\ IdOf(s.id) = s.id /\ r.sys \in Ids(SystemsTable.rows)
    <3>1. r.sys = s.id
      BY <2>1, <2>3 DEF MemLinked, LinkedTo, Joined
    <3>2. r.sys \in Ids(tab["systems"].rows)
      BY <1>0 DEF Tables, Refers
    <3> QED BY <3>1, <3>2, SystemIds
  <2> QED BY <2>1, <2>2, <2>3 DEF Ids
<1>5. ASSUME NEW s \in mem["systems"], NEW q \in mem["systems"], NEW x \in Under(l, s), NEW y \in Under(l, q),
             x.id = y.id, x.id # New
      PROVE  x = y /\ s = q
  <2>1. PICK a \in mem[l] : a.sys = s.id /\ a.id = x.id /\ x = Moved(a, IdOf(s.id))
    BY <1>3
  <2>2. PICK b \in mem[l] : b.sys = q.id /\ b.id = y.id /\ y = Moved(b, IdOf(q.id))
    BY <1>3
  <2>3. a = b
    BY <1>2, <1>5, <2>1, <2>2 DEF Known
  <2> QED BY <2>1, <2>2, <2>3 DEF MemLinked, LinkedTo, Joined
<1> QED BY <1>4, <1>5

Base(l) == Cascade([tab EXCEPT !["systems"] = SystemsTable])[l]

LEMMA BaseIs ==
  ASSUME Tables, Memory, MemLinked, NEW l \in Nested
  PROVE  /\ Base(l) \in TableOf(TagsIn(l, LastTag)) /\ Base(l).last = tab[l].last
         /\ Base(l).rows = {r \in tab[l].rows : r.sys \in Ids(SystemsTable.rows)}
<1> DEFINE u == [tab EXCEPT !["systems"] = SystemsTable]
<1>0. /\ l \in List /\ l # "systems" /\ l # "tags"
      /\ {"systems", "tags"} \subseteq List \ Nested /\ Nested = {"sites", "talkgroups", "units"}
  BY Names
<1>1. Tabs(u) /\ u[l] = tab[l] /\ u["tags"] = tab["tags"] /\ u["systems"] = SystemsTable
  <2>1. /\ u = [k \in List |-> u[k]] /\ u["systems"] = SystemsTable
        /\ \A k \in List \ {"systems"} : u[k] = tab[k]
    BY <1>0 DEF Tables, Tabs
  <2> HIDE DEF u
  <2>2. u["tags"] = tab["tags"]
    BY <1>0, <2>1
  <2>3. ASSUME NEW k \in List
        PROVE  u[k] \in TableOf(TagsIn(k, LastTag))
    <3>1. CASE k = "systems"
      BY <2>1, <3>1, SystemIds DEF TagsIn
    <3>2. CASE k # "systems"
      BY <2>1, <3>2, TabFacts DEF Tables, LastTag
    <3> QED BY <3>1, <3>2
  <2> QED BY <1>0, <2>1, <2>2, <2>3 DEF Tabs, LastTag
<1>2. PICK c : c = Cascade(u)
  OBVIOUS
<1>3. Base(l) = c[l]
  BY <1>2 DEF Base
<1> HIDE DEF u
<1>4. Tabs(c) /\ c[l].last = u[l].last /\ c["tags"] = u["tags"]
  <2>1. Tabs(c) /\ c[l].last = u[l].last
    BY <1>0, <1>1, <1>2, CascadeKeeps
  <2>2. c["tags"] = u["tags"]
    BY <1>0, <1>1, <1>2, CascadeIs
  <2> QED BY <2>1, <2>2
<1>5. c[l] \in TableOf(TagsIn(l, LastTag))
  BY <1>0, <1>1, <1>4, TabFacts DEF LastTag
<1>6. c[l].rows = {r \in tab[l].rows : r.sys \in Ids(SystemsTable.rows)}
  <2>1. CASE l \in {"sites", "units"}
    <3>1. c[l] = [rows |-> {r \in u[l].rows : r.sys \in Ids(u["systems"].rows)}, last |-> u[l].last]
      BY <1>1, <1>2, <2>1, CascadeIs
    <3>2. c[l].rows = {r \in u[l].rows : r.sys \in Ids(u["systems"].rows)}
      BY <3>1
    <3> QED BY <1>1, <3>2
  <2>2. CASE l = "talkgroups"
    <3>1. c["talkgroups"] =
            [rows |-> {r \in u["talkgroups"].rows : /\ r.sys \in Ids(u["systems"].rows)
                                                   /\ r.tag \in Ids(u["tags"].rows)},
             last |-> u["talkgroups"].last]
      BY <1>1, <1>2, CascadeIs
    <3>2. c[l].rows = {r \in u[l].rows : r.sys \in Ids(u["systems"].rows) /\ r.tag \in Ids(u["tags"].rows)}
      BY <2>2, <3>1
    <3>3. \A r \in tab[l].rows : r.tag \in Ids(tab["tags"].rows)
      BY <2>2 DEF Tables, Refers
    <3> QED BY <1>1, <3>2, <3>3
  <2> QED BY <1>0, <2>1, <2>2
<1> QED BY <1>1, <1>3, <1>4, <1>5, <1>6

LEMMA PutUnderIn ==
  ASSUME Tables, Memory, MemLinked, NEW l \in Nested, NEW s \in mem["systems"],
         NEW t \in TableOf(TagsIn(l, LastTag)), tab[l].last <= t.last
  PROVE  PutUnder(l, s, t) \in TableOf(TagsIn(l, LastTag)) /\ tab[l].last <= PutUnder(l, s, t).last
<1> DEFINE V == TagsIn(l, LastTag)
<1>1. V \subseteq Nat /\ tab[l].last \in Nat /\ t.last \in Nat
  <2>1. tab["tags"].last \in Nat /\ tab[l].last \in Nat
    BY Names, TabFacts DEF Tables
  <2> QED BY <2>1 DEF TagsIn, LastTag, TableOf
<1>2. IsFiniteSet(Under(l, s)) /\ \A e \in Under(l, s) : Elem(e, V)
  BY UnderFits
<1> HIDE DEF V
<1>3. PutUnder(l, s, t) \in Grown(V, t.last, Ids(t.rows \ RemovedUnder(l, s, t)))
  BY <1>1, <1>2, WrittenKeeps DEF PutUnder, V
<1>4. PutUnder(l, s, t) \in TableOf(V) /\ t.last <= PutUnder(l, s, t).last
  BY <1>3 DEF Grown
<1>5. PutUnder(l, s, t).last \in Nat
  BY <1>4 DEF TableOf
<1> QED BY <1>1, <1>4, <1>5 DEF V

LEMMA NestedGrow ==
  ASSUME Tables, Memory, MemLinked, NEW l \in Nested
  PROVE  NestedTable(l) \in TableOf(TagsIn(l, LastTag)) /\ tab[l].last <= NestedTable(l).last
<1> DEFINE V == TagsIn(l, LastTag)
           B == {t \in TableOf(V) : tab[l].last <= t.last}
<1>0. l \in List
  BY Names
<1>1. V \subseteq Nat /\ tab[l].last \in Nat
  <2>1. tab["tags"].last \in Nat /\ tab[l].last \in Nat
    BY <1>0, TabFacts DEF Tables
  <2> QED BY <2>1 DEF TagsIn, LastTag
<1>2. Base(l) \in B
  BY <1>1, BaseIs
<1>3. \A s \in mem["systems"], t \in B : PutUnder(l, s, t) \in B
  BY PutUnderIn
<1>4. PICK S, base : S = B /\ base = Base(l)
  OBVIOUS
<1>5. base = Cascade([tab EXCEPT !["systems"] = SystemsTable])[l]
  BY <1>4, Zenon DEF Base
<1>6. IsFiniteSet(mem["systems"])
  BY Names DEF Memory, Fits
<1>7. NestedTable(l) \in S
  <2> HIDE DEF B
  <2> QED BY <1>2, <1>3, <1>4, <1>5, <1>6, NestedIn
<1> QED BY <1>4, <1>7

Added(l, D) == {x \in UNION {Under(l, s) : s \in D} : x.id \notin Ids(tab[l].rows)}

(* The table of l, once what is under the systems in D is written.         *)
NestedIs(l, D, t) ==
  /\ \A s \in D : \A x \in Under(l, s) : x.id \in Ids(tab[l].rows) => x \in t.rows
  /\ \E f : Gives(f, Added(l, D), t, tab[l].last)
  /\ \A q \in Base(l).rows : (\A s \in D : q.sys # IdOf(s.id)) => q \in t.rows
  /\ \A r \in t.rows :
       \/ r \in Base(l).rows /\ \A s \in D : r.sys # IdOf(s.id)
       \/ \E s \in D : \E x \in Under(l, s) : x.id \in Ids(tab[l].rows) /\ r = x
       \/ \E x \in Added(l, D) : r.id > tab[l].last /\ r = Stored(x, r.id)
       \/ l # "talkgroups" /\ New \in Ids(mem[l]) /\ r \in Base(l).rows

LEMMA NestedNext ==
  ASSUME Tables, Memory, MemLinked, NEW l \in {"sites", "talkgroups"},
         NEW D \in SUBSET mem["systems"], NEW s \in mem["systems"] \ D,
         NEW t \in TableOf(TagsIn(l, LastTag)), tab[l].last <= t.last, NestedIs(l, D, t)
  PROVE  NestedIs(l, D \union {s}, PutUnder(l, s, t))
<1> DEFINE V == TagsIn(l, LastTag)
           n == tab[l].last
<1>0. l \in List /\ l \in Nested /\ l # "units"
  BY Names
<1>1. /\ n \in Nat /\ t.last \in Nat /\ V \subseteq Nat
      /\ \A r \in t.rows : r.id \in 1..t.last
      /\ \A r \in tab[l].rows : r.id \in 1..n
      /\ \A r, q \in t.rows : r.id = q.id => r = q
  <2>1. LastTag \in Nat
    BY Names, TabFacts DEF Tables, LastTag
  <2>2. n \in Nat /\ \A r \in tab[l].rows : r.id \in 1..n
    BY <1>0, TabFacts DEF Tables
  <2> QED BY <2>1, <2>2 DEF TagsIn, TableOf
<1>n. New = 0
  BY DEF New
<1>2. PICK U : U = Under(l, s)
  OBVIOUS
<1>3. /\ \A d \in D \union {s} : \A x \in Under(l, d) :
           /\ x.sys = IdOf(d.id) /\ x.id \in 0..n /\ x.id \in Nat /\ x.id <= n /\ x.id \in Ids(mem[l])
           /\ \A r \in tab[l].rows : r.id = x.id => /\ r.sys = d.id /\ r.sys = x.sys
                                                    /\ r.sys \in Ids(SystemsTable.rows)
      /\ \A d \in D : \A x \in Under(l, d), y \in U : x.id = y.id => x.id = New
      /\ \A d \in D : IdOf(d.id) # IdOf(s.id)
  <2>1. /\ \A d \in mem["systems"] : \A x \in Under(l, d) :
             /\ x.sys = IdOf(d.id) /\ x.id \in 0..n /\ x.id \in Ids(mem[l])
             /\ \A r \in tab[l].rows : r.id = x.id => /\ r.sys = d.id /\ IdOf(d.id) = d.id
                                                      /\ r.sys \in Ids(SystemsTable.rows)
        /\ \A d, q \in mem["systems"] : \A x \in Under(l, d), y \in Under(l, q) :
             x.id = y.id /\ x.id # New => x = y /\ d = q
    BY UnderIs
  <2>2. \A d \in D : IdOf(d.id) # IdOf(s.id)
    BY SystemIds
  <2> QED BY <1>1, <1>2, <2>1, <2>2
<1>4. IsFiniteSet(U) /\ \A e \in U : Elem(e, V)
  BY <1>0, <1>2, UnderFits
<1>5. PICK gone : gone = RemovedUnder(l, s, t)
  OBVIOUS
<1>6. /\ \A r \in gone : r \in t.rows /\ r.sys = IdOf(s.id) /\ r.id \notin Ids(U)
      /\ \A r \in t.rows : r.sys = IdOf(s.id) /\ r.id \notin Ids(U) =>
           r \in gone \/ (l # "talkgroups" /\ New \in Ids(mem[l]))
  <2>1. New \in Ids(U) => New \in Ids(mem[l])
    <3>1. \A x \in U : x.id \in Ids(mem[l])
      BY <1>2, <1>3
    <3> QED BY <3>1 DEF Ids
  <2> QED BY <1>2, <1>5, <2>1 DEF RemovedUnder, RowsUnder, Removed
<1>7. PICK c : c = Cleared(t, gone)
  OBVIOUS
<1>8. c.rows = t.rows \ gone /\ c.last = t.last
  BY <1>7 DEF Cleared
<1>9. PICK u : u = PutUnder(l, s, t)
  OBVIOUS
<1>10. Becomes(U, c, u)
  <2>1. \A x \in U : x.id \in 0..t.last
    BY <1>1, <1>2, <1>3
  <2>2. ASSUME NEW x \in U, NEW y \in U, x.id = y.id, x.id # New
        PROVE  x = y
    BY <1>2, <2>2, UnderIs
  <2>3. Known(U, t)
    BY <2>1, <2>2 DEF Known
  <2>4. u = Written(U, gone, t)
    BY <1>2, <1>5, <1>9 DEF PutUnder
  <2> HIDE DEF V
  <2> QED BY <1>1, <1>4, <1>7, <2>3, <2>4, WrittenBecomes DEF V
<1>11. /\ \A d \in D : \A x \in Under(l, d) : x.id \in Ids(tab[l].rows) => x \in t.rows
       /\ \A q \in Base(l).rows : (\A d \in D : q.sys # IdOf(d.id)) => q \in t.rows
       /\ \A r \in t.rows :
            \/ r \in Base(l).rows /\ \A d \in D : r.sys # IdOf(d.id)
            \/ \E d \in D : \E x \in Under(l, d) : x.id \in Ids(tab[l].rows) /\ r = x
            \/ \E x \in Added(l, D) : r.id > n /\ r = Stored(x, r.id)
            \/ l # "talkgroups" /\ New \in Ids(mem[l]) /\ r \in Base(l).rows
  BY DEF NestedIs
<1>12. /\ \A e \in U, q \in c.rows : q.id = e.id => Moved(e, q.sys) \in u.rows
       /\ \A q \in c.rows : q.id \notin Ids(U) => q \in u.rows
       /\ \A r \in u.rows :
            \/ r \in c.rows /\ r.id \notin Ids(U)
            \/ \E e \in U, q \in c.rows : q.id = e.id /\ r = Moved(e, q.sys)
            \/ \E e \in Inserted(U, c) : r.id > c.last /\ r = Stored(e, r.id)
  BY <1>10 DEF Becomes
<1>13. \A q : q \in Base(l).rows <=> q \in tab[l].rows /\ q.sys \in Ids(SystemsTable.rows)
  BY <1>0, BaseIs
(* The row of an element is the one that is updated.                       *)
<1>14. ASSUME NEW x \in U, x.id \in Ids(tab[l].rows)
       PROVE  \E q \in c.rows : q.id = x.id /\ q.sys = x.sys
  <2>1. PICK q \in tab[l].rows : q.id = x.id
    BY <1>14 DEF Ids
  <2>2. q.sys = x.sys /\ q.sys = IdOf(s.id) /\ q.sys \in Ids(SystemsTable.rows)
    BY <1>2, <1>3, <2>1
  <2>3. q \in t.rows
    BY <1>3, <1>11, <1>13, <2>2
  <2>4. q \notin gone
    BY <1>6, <2>1 DEF Ids
  <2> QED BY <1>8, <2>1, <2>2, <2>3, <2>4
<1>15. \A r \in t.rows : r.id \in Ids(tab[l].rows) \/ r.id > n
  BY <1>11, <1>13 DEF Ids
<1>16. \A x \in U : x.id \in Ids(tab[l].rows) <=> x.id \in Ids(c.rows)
  <2>1. ASSUME NEW x \in U, NEW r \in c.rows, r.id = x.id
        PROVE  x.id \in Ids(tab[l].rows)
    BY <1>1, <1>2, <1>3, <1>8, <1>15, <2>1
  <2> QED BY <1>14, <2>1 DEF Ids
(* A row of another system stays.                                          *)
<1>17. ASSUME NEW r \in t.rows, r.sys # IdOf(s.id), r.id \notin Ids(U)
       PROVE  r \in u.rows
  BY <1>6, <1>8, <1>12, <1>17
<1>18. \A i \in Ids(U) : i <= n /\ i \in Nat
  BY <1>2, <1>3 DEF Ids
<1>19. \A x \in Added(l, D) : (\E d \in D : x.sys = IdOf(d.id)) /\ x.sys # IdOf(s.id)
  BY <1>3 DEF Added
<1>20. ASSUME NEW d \in D \union {s}, NEW x \in Under(l, d), x.id \in Ids(tab[l].rows)
       PROVE  x \in u.rows
  <2>1. CASE d \in D
    <3>1. x \in t.rows /\ x.sys # IdOf(s.id)
      BY <1>3, <1>11, <1>20, <2>1
    <3>2. x.id # New
      BY <1>1, <1>n, <3>1
    <3>3. x.id \notin Ids(U)
      BY <1>3, <2>1, <3>2 DEF Ids
    <3> QED BY <1>17, <3>1, <3>3
  <2>2. CASE d = s
    <3>1. PICK q \in c.rows : q.id = x.id /\ q.sys = x.sys
      BY <1>2, <1>14, <1>20, <2>2
    <3>2. Moved(x, x.sys) \in u.rows
      BY <1>2, <1>12, <2>2, <3>1
    <3>3. Moved(x, x.sys) = x
      BY <1>2, <1>4, <2>2, ElemSet DEF Elem
    <3> QED BY <3>2, <3>3
  <2> QED BY <2>1, <2>2
<1>21. \E g : Gives(g, Added(l, D \union {s}), u, n)
  <2>1. PICK f : Gives(f, Added(l, D), t, n)
    BY DEF NestedIs
  <2>2. PICK h : Gives(h, Inserted(U, c), u, c.last)
    BY <1>10 DEF Becomes
  <2>3. PICK I, A : I = Inserted(U, c) /\ A = Added(l, D)
    OBVIOUS
  <2>4. Added(l, D \union {s}) = A \union I
    BY <1>2, <1>16, <2>3 DEF Added, Inserted
  <2>5. PICK g : g = [x \in A \union I |-> IF x \in I THEN h[x] ELSE f[x]]
    OBVIOUS
  <2>6. \A x \in I : g[x] = h[x] /\ h[x] \in Ids(u.rows) /\ h[x] > t.last /\ Stored(x, h[x]) \in u.rows
    BY <1>8, <2>2, <2>3, <2>5 DEF Gives
  <2>7. ASSUME NEW x \in A
        PROVE  f[x] \in Ids(u.rows) /\ f[x] > n /\ f[x] <= t.last /\ Stored(x, f[x]) \in u.rows /\ f[x] \in Nat
    <3>1. f[x] \in Ids(t.rows) /\ f[x] > n /\ Stored(x, f[x]) \in t.rows
      BY <2>1, <2>3 DEF Gives
    <3>2. \E d \in D : x \in Under(l, d)
      BY <2>3 DEF Added
    <3>3. Elem(x, V)
      BY <1>0, <3>2, UnderFits
    <3>4. Stored(x, f[x]).id = f[x] /\ Stored(x, f[x]).sys = x.sys
      BY <3>3, ElemSet
    <3>5. f[x] \in Nat /\ f[x] <= t.last
      BY <1>1, <3>1 DEF Ids
    <3>6. f[x] \notin Ids(U)
      BY <1>1, <1>18, <3>1, <3>5
    <3>7. Stored(x, f[x]) \in u.rows
      BY <1>17, <1>19, <2>3, <3>1, <3>4, <3>6
    <3> QED BY <3>1, <3>4, <3>5, <3>7 DEF Ids
  <2>8. \A x \in A \union I : g[x] \in Ids(u.rows) /\ g[x] > n /\ Stored(x, g[x]) \in u.rows
    <3>1. \A i \in Ids(u.rows) : i > t.last => i > n
      <4>1. \A r \in u.rows : r.id \in Nat
        <5>1. u \in TableOf(V)
          <6>1. u = Written(U, gone, t)
            BY <1>2, <1>5, <1>9 DEF PutUnder
          <6> HIDE DEF V
          <6>2. u \in Grown(V, t.last, Ids(t.rows \ gone))
            BY <1>1, <1>4, <6>1, WrittenKeeps DEF V
          <6> QED BY <6>2 DEF Grown
        <5> QED BY <5>1 DEF TableOf
      <4> QED BY <1>1, <4>1 DEF Ids
    <3> QED BY <2>5, <2>6, <2>7, <3>1
  <2>9. ASSUME NEW x \in A \union I, NEW y \in A \union I, g[x] = g[y]
        PROVE  x = y
    <3>1. CASE x \in I /\ y \in I
      BY <2>2, <2>3, <2>6, <2>9, <3>1 DEF Gives
    <3>2. CASE x \notin I /\ y \notin I
      BY <2>1, <2>3, <2>5, <2>9, <3>2 DEF Gives
    <3>3. ASSUME NEW a \in I, NEW b \in A \ I
          PROVE  g[a] # g[b]
      <4>1. g[a] > t.last /\ g[b] <= t.last /\ g[b] \in Nat
        BY <2>5, <2>6, <2>7
      <4> QED BY <1>1, <4>1
    <3> QED BY <2>9, <3>1, <3>2, <3>3
  <2>10. g \in [A \union I -> Ids(u.rows)]
    BY <2>5, <2>8
  <2> QED BY <2>4, <2>8, <2>9, <2>10 DEF Gives
<1>22. ASSUME NEW q \in Base(l).rows, \A d \in D \union {s} : q.sys # IdOf(d.id)
       PROVE  q \in u.rows
  <2>1. q \in t.rows /\ q \in tab[l].rows
    BY <1>11, <1>13, <1>22
  <2>2. q.id \notin Ids(U)
    BY <1>2, <1>3, <1>22, <2>1 DEF Ids
  <2> QED BY <1>17, <1>22, <2>1, <2>2
<1>23. ASSUME NEW r \in u.rows
       PROVE  \/ r \in Base(l).rows /\ \A d \in D \union {s} : r.sys # IdOf(d.id)
              \/ \E d \in D \union {s} : \E x \in Under(l, d) : x.id \in Ids(tab[l].rows) /\ r = x
              \/ \E x \in Added(l, D \union {s}) : r.id > n /\ r = Stored(x, r.id)
              \/ l # "talkgroups" /\ New \in Ids(mem[l]) /\ r \in Base(l).rows
  <2>0. Added(l, D) \subseteq Added(l, D \union {s})
    BY DEF Added
  <2>1. CASE r \in c.rows /\ r.id \notin Ids(U)
    <3>1. r \in t.rows /\ r \notin gone
      BY <1>8, <2>1
    <3>2. r.sys = IdOf(s.id) => l # "talkgroups" /\ New \in Ids(mem[l])
      BY <1>6, <2>1, <3>1
    <3> QED BY <1>11, <2>0, <3>1, <3>2
  <2>2. CASE \E e \in U, q \in c.rows : q.id = e.id /\ r = Moved(e, q.sys)
    <3>1. PICK e \in U, q \in c.rows : q.id = e.id /\ r = Moved(e, q.sys)
      BY <2>2
    <3>2. e.id \in Ids(tab[l].rows)
      BY <1>16, <3>1 DEF Ids
    <3>3. PICK p \in c.rows : p.id = e.id /\ p.sys = e.sys
      BY <1>14, <3>2
    <3>4. q.sys = e.sys
      BY <1>1, <1>8, <3>1, <3>3
    <3>5. r = e
      BY <1>4, <3>1, <3>4, ElemSet DEF Elem
    <3> QED BY <1>2, <3>2, <3>5
  <2>3. CASE \E e \in Inserted(U, c) : r.id > c.last /\ r = Stored(e, r.id)
    <3>1. PICK e \in Inserted(U, c) : r.id > c.last /\ r = Stored(e, r.id)
      BY <2>3
    <3>2. e \in Added(l, D \union {s})
      BY <1>2, <1>16, <3>1 DEF Added, Inserted
    <3>3. r.id \in Nat
      <4>1. u = Written(U, gone, t)
        BY <1>2, <1>5, <1>9 DEF PutUnder
      <4>2. u \in Grown(V, t.last, Ids(t.rows \ gone))
        <5> HIDE DEF V
        <5> QED BY <1>1, <1>4, <4>1, WrittenKeeps DEF V
      <4> QED BY <4>2 DEF Grown, TableOf
    <3>4. r.id > n
      BY <1>1, <1>8, <3>1, <3>3
    <3> QED BY <3>1, <3>2, <3>4
  <2> QED BY <1>12, <2>1, <2>2, <2>3
<1> QED BY <1>9, <1>20, <1>21, <1>22, <1>23 DEF NestedIs

LEMMA NestedTableIs ==
  ASSUME Tables, Memory, MemLinked, NEW l \in {"sites", "talkgroups"}
  PROVE  NestedIs(l, mem["systems"], NestedTable(l))
<1>0. l \in Nested /\ l \in List
  BY Names
<1>1. PICK S, B, base : /\ S = mem["systems"] /\ base = Base(l)
                        /\ B = {t \in TableOf(TagsIn(l, LastTag)) : tab[l].last <= t.last}
  OBVIOUS
<1>2. base \in B
  <2>1. tab[l].last <= tab[l].last
    <3>1. tab[l].last \in Nat
      BY <1>0, TabFacts DEF Tables
    <3> QED BY <3>1
  <2> QED BY <1>0, <1>1, <2>1, BaseIs
<1>3. base = Cascade([tab EXCEPT !["systems"] = SystemsTable])[l]
  BY <1>1, Zenon DEF Base
<1>4. IsFiniteSet(S)
  BY <1>1, Names DEF Memory, Fits
<1>5. \A s \in S, t \in B : PutUnder(l, s, t) \in B
  BY <1>0, <1>1, PutUnderIn
<1>6. PICK P : P = {p \in (SUBSET S) \X B : NestedIs(l, p[1], p[2])}
  OBVIOUS
<1>7. NestedIs(l, {}, base)
  <2>1. Added(l, {}) = {}
    BY DEF Added
  <2>2. PICK f : f = [x \in {} |-> 0]
    OBVIOUS
  <2>3. Gives(f, {}, base, tab[l].last)
    BY <2>2 DEF Gives
  <2> QED BY <1>1, <2>1, <2>3 DEF NestedIs
<1>8. <<{}, base>> \in P
  BY <1>2, <1>6, <1>7
<1>9. ASSUME NEW D \in SUBSET S, NEW s \in S \ D, NEW t \in B, <<D, t>> \in P
      PROVE  <<D \union {s}, PutUnder(l, s, t)>> \in P
  <2>1. NestedIs(l, D, t)
    BY <1>6, <1>9
  <2>2. PICK E \in SUBSET S : E = D \union {s}
    OBVIOUS
  <2>3. NestedIs(l, E, PutUnder(l, s, t))
    BY <1>1, <2>1, <2>2, NestedNext
  <2>4. <<E, PutUnder(l, s, t)>> \in P
    BY <1>5, <1>6, <2>3
  <2> QED BY <2>2, <2>4
<1>10. <<S, NestedTable(l)>> \in P
  BY <1>1, <1>2, <1>3, <1>4, <1>5, <1>8, <1>9, NestedBy, Zenon
<1> QED BY <1>1, <1>6, <1>10

(* An element, under the id that its system takes.                         *)
Placed(e) == Moved(e, IdOf(e.sys))

(* All that is nested is written.                                          *)
LEMMA AllUnder ==
  ASSUME MemLinked, NEW l \in Nested
  PROVE  \A x : (\E s \in mem["systems"] : x \in Under(l, s)) <=> \E e \in mem[l] : x = Placed(e)
<1>1. \A e \in mem[l] : \E s \in mem["systems"] : e.sys = s.id
  BY DEF MemLinked, LinkedTo, Joined, Ids
<1> QED BY <1>1 DEF Under, Placed, Moved

LEMMA SystemsWritten ==
  ASSUME Tables, Memory, MemLinked, NEW c,
         c = Cascade([tab EXCEPT !["systems"]    = SystemsTable,
                                 !["sites"]      = SitesTable,
                                 !["talkgroups"] = TalkgroupsTable,
                                 !["units"]      = UnitsTable])
  PROVE  /\ Tabs(c) /\ Refers(c) /\ \A l \in Flat : c[l] = tab[l]
         /\ c["systems"] = SystemsTable
         /\ \A l \in Nested : /\ c[l].last = NestedTable(l).last
                              /\ c[l].rows \subseteq NestedTable(l).rows
         /\ c["sites"].rows = {r \in SitesTable.rows : r.sys \in Ids(SystemsTable.rows)}
         /\ c["talkgroups"].rows = {r \in TalkgroupsTable.rows : /\ r.sys \in Ids(SystemsTable.rows)
                                                                 /\ r.tag \in Ids(tab["tags"].rows)}
<1> DEFINE t == [tab EXCEPT !["systems"]    = SystemsTable,
                            !["sites"]      = SitesTable,
                            !["talkgroups"] = TalkgroupsTable,
                            !["units"]      = UnitsTable]
<1>1. /\ t = [k \in List |-> t[k]] /\ t["systems"] = SystemsTable
      /\ \A k \in Nested : t[k] = NestedTable(k)
      /\ \A k \in Flat : t[k] = tab[k]
  BY Names DEF Tables, Tabs, SitesTable, TalkgroupsTable, UnitsTable
<1>2. c = Cascade(t)
  OBVIOUS
<1> HIDE DEF t
<1>3. ASSUME NEW k \in List
      PROVE  t[k] \in TableOf(TagsIn(k, LastTag))
  <2>1. CASE k = "systems"
    BY <1>1, <2>1, SystemIds DEF TagsIn
  <2>2. CASE k \in Nested
    BY <1>1, <2>2, NestedGrow
  <2>3. CASE k \in Flat
    BY <1>1, <2>3, TabFacts DEF Tables, LastTag
  <2> QED BY <2>1, <2>2, <2>3, Names
<1>4. Tabs(t)
  BY <1>1, <1>3, Names DEF Tabs, LastTag
<1>5. Tabs(c) /\ Refers(c)
  BY <1>2, <1>4, CascadeKeeps
<1>6. \A l \in List \ Nested : c[l] = t[l]
  BY <1>2, <1>4, CascadeIs
<1>7. c["systems"] = SystemsTable
  BY <1>1, <1>6, Names
<1>8. \A l \in List : c[l].last = t[l].last /\ c[l].rows \subseteq t[l].rows
  BY <1>2, <1>4, CascadeKeeps
<1>9. c["sites"].rows = {r \in SitesTable.rows : r.sys \in Ids(SystemsTable.rows)}
  <2>1. c["sites"] = [rows |-> {r \in t["sites"].rows : r.sys \in Ids(t["systems"].rows)},
                      last |-> t["sites"].last]
    BY <1>2, <1>4, CascadeIs
  <2> QED BY <1>1, <2>1, Names DEF SitesTable
<1>10. c["talkgroups"].rows = {r \in TalkgroupsTable.rows : /\ r.sys \in Ids(SystemsTable.rows)
                                                           /\ r.tag \in Ids(tab["tags"].rows)}
  <2>1. c["talkgroups"] = [rows |-> {r \in t["talkgroups"].rows : /\ r.sys \in Ids(t["systems"].rows)
                                                                  /\ r.tag \in Ids(t["tags"].rows)},
                           last |-> t["talkgroups"].last]
    BY <1>2, <1>4, CascadeIs
  <2> QED BY <1>1, <2>1, Names DEF TalkgroupsTable
<1> QED BY <1>1, <1>5, <1>6, <1>7, <1>8, <1>9, <1>10, Names

(* e may be an element of list l.                                          *)
Fit(l, e, n) ==
  /\ Elem(e, TagsIn(l, n))
  /\ l # "talkgroups" => e.id \in Nat
  /\ l = "tags" => e.id <= n

LEMMA FitsImage ==
  ASSUME NEW l, NEW S, NEW n, Fits(l, S, n), NEW f, DOMAIN f = S, \A e \in S : Fit(l, f[e], n),
         NEW R, R = {f[e] : e \in S}
  PROVE  Fits(l, R, n)
<1>1. IsFiniteSet({f[e] : e \in S})
  BY Image DEF Fits
<1>2. \A x \in R : Fit(l, x, n)
  OBVIOUS
<1> QED BY <1>1, <1>2 DEF Fits, Fit

(* What the objects become with the Write of systems.                      *)
LEMMA AssignedIs ==
  ASSUME Tables, Memory, MemLinked
  PROVE  /\ Assigned = [l \in List |-> Assigned[l]]
         /\ \A l \in Flat : Assigned[l] = mem[l]
         /\ Assigned["systems"] = {Stored(e, IdOf(e.id)) : e \in mem["systems"]}
         /\ \A l \in {"sites", "units"} : Assigned[l] = {Placed(e) : e \in mem[l]}
         /\ \E tg : /\ Assigned["talkgroups"] = {Stored(Placed(e), tg[e]) : e \in mem["talkgroups"]}
                    /\ \A e \in mem["talkgroups"] :
                         /\ e.id \in Ids(tab["talkgroups"].rows) => tg[e] = e.id
                         /\ e.id \notin Ids(tab["talkgroups"].rows) =>
                              /\ tg[e] > tab["talkgroups"].last /\ tg[e] \in 1..TalkgroupsTable.last
                              /\ Stored(Placed(e), tg[e]) \in TalkgroupsTable.rows
<1>0. "talkgroups" \in Nested /\ "talkgroups" \in {"sites", "talkgroups"} /\ "talkgroups" \in List
  BY Names
<1>1. PICK new : new = Unsaved("talkgroups")
  OBVIOUS
<1>2. PICK given : given = Given({Placed(e) : e \in new}, TalkgroupsTable, tab["talkgroups"].last)
  OBVIOUS
<1>3. PICK tg : tg = [e \in mem["talkgroups"] |-> IF e \in new THEN given[Placed(e)] ELSE e.id]
  OBVIOUS
<1>4. /\ Assigned = [l \in List |-> Assigned[l]]
      /\ \A l \in Flat : Assigned[l] = mem[l]
      /\ Assigned["systems"] = {Stored(e, IdOf(e.id)) : e \in mem["systems"]}
      /\ \A l \in {"sites", "units"} : Assigned[l] = {Placed(e) : e \in mem[l]}
      /\ Assigned["talkgroups"] = {Stored(Placed(e), IF e \in new THEN given[Placed(e)] ELSE e.id) : e \in mem["talkgroups"]}
  BY <1>1, <1>2, Names DEF Memory, Assigned, Placed, Moved, Stored
<1>5. Assigned["talkgroups"] = {Stored(Placed(e), tg[e]) : e \in mem["talkgroups"]}
  BY <1>3, <1>4
<1>6. \A e \in mem["talkgroups"] : Elem(e, TagsIn("talkgroups", LastTag))
  BY <1>0 DEF Memory, Fits
<1>7. {Placed(e) : e \in new} = Added("talkgroups", mem["systems"])
  <2>1. \A e \in mem["talkgroups"] : Placed(e).id = e.id
    BY <1>6, ElemSet DEF Placed
  <2>2. \A x : (\E s \in mem["systems"] : x \in Under("talkgroups", s)) <=> \E e \in mem["talkgroups"] : x = Placed(e)
    BY <1>0, AllUnder
  <2> QED BY <1>1, <2>1, <2>2 DEF Added, Unsaved
<1>8. Gives(given, {Placed(e) : e \in new}, TalkgroupsTable, tab["talkgroups"].last)
  <2>1. NestedIs("talkgroups", mem["systems"], TalkgroupsTable)
    BY NestedTableIs DEF TalkgroupsTable
  <2> QED BY <1>2, <1>7, <2>1, GivenIs DEF NestedIs
<1>9. \A i \in Ids(TalkgroupsTable.rows) : i \in 1..TalkgroupsTable.last
  <2>1. TalkgroupsTable \in TableOf(TagsIn("talkgroups", LastTag))
    BY <1>0, NestedGrow DEF TalkgroupsTable
  <2> QED BY <2>1 DEF TableOf, Ids
<1>10. ASSUME NEW e \in new
       PROVE  /\ given[Placed(e)] > tab["talkgroups"].last /\ given[Placed(e)] \in 1..TalkgroupsTable.last
              /\ Stored(Placed(e), given[Placed(e)]) \in TalkgroupsTable.rows
  <2>1. Placed(e) \in {Placed(x) : x \in new}
    OBVIOUS
  <2> QED BY <1>8, <1>9, <2>1 DEF Gives
<1>11. \A e \in mem["talkgroups"] :
         /\ e.id \in Ids(tab["talkgroups"].rows) => tg[e] = e.id
         /\ e.id \notin Ids(tab["talkgroups"].rows) =>
              /\ tg[e] > tab["talkgroups"].last /\ tg[e] \in 1..TalkgroupsTable.last
              /\ Stored(Placed(e), tg[e]) \in TalkgroupsTable.rows
  BY <1>1, <1>3, <1>10 DEF Unsaved
<1> QED BY <1>4, <1>5, <1>11

LEMMA AssignedFits ==
  ASSUME Tables, Memory, MemLinked
  PROVE  /\ Assigned = [l \in List |-> Assigned[l]]
         /\ \A l \in Flat : Assigned[l] = mem[l]
         /\ \A l \in List : Fits(l, Assigned[l], LastTag)
<1>1. /\ Assigned = [l \in List |-> Assigned[l]]
      /\ \A l \in Flat : Assigned[l] = mem[l]
      /\ Assigned["systems"] = {Stored(e, IdOf(e.id)) : e \in mem["systems"]}
      /\ \A l \in {"sites", "units"} : Assigned[l] = {Placed(e) : e \in mem[l]}
  BY AssignedIs
<1>2. \A l \in List : Fits(l, mem[l], LastTag)
  BY DEF Memory
<1>3. ASSUME NEW l \in Nested, NEW e \in mem[l]
      PROVE  /\ IdOf(e.sys) \in Nat /\ (e.id \in Nat \/ l = "talkgroups")
             /\ Placed(e) = [id |-> e.id, sys |-> IdOf(e.sys), key |-> e.key, tag |-> e.tag]
             /\ Elem(Placed(e), TagsIn(l, LastTag))
  <2>1. Elem(e, TagsIn(l, LastTag)) /\ (l # "talkgroups" => e.id \in Nat)
    BY <1>2, Names DEF Fits
  <2>2. Placed(e) = [id |-> e.id, sys |-> IdOf(e.sys), key |-> e.key, tag |-> e.tag]
    BY <2>1, ElemSet DEF Placed
  <2>3. IdOf(e.sys) \in Nat
    BY <2>1, SystemIds DEF Elem
  <2> QED BY <2>1, <2>2, <2>3 DEF Elem
<1>4. Fits("systems", Assigned["systems"], LastTag)
  <2>1. PICK f : f = [e \in mem["systems"] |-> Stored(e, IdOf(e.id))]
    OBVIOUS
  <2>2. ASSUME NEW e \in mem["systems"]
        PROVE  Fit("systems", f[e], LastTag)
    <3>1. e.id \in Nat /\ Elem(e, TagsIn("systems", LastTag))
      BY <1>2, Names DEF Fits
    <3>2. f[e] = [id |-> IdOf(e.id), sys |-> e.sys, key |-> e.key, tag |-> e.tag]
      BY <2>1, <3>1, ElemSet
    <3>3. IdOf(e.id) \in Nat
      BY <3>1, SystemIds
    <3> QED BY <3>1, <3>2, <3>3 DEF Elem, Fit
  <2>3. PICK R : R = {f[e] : e \in mem["systems"]}
    OBVIOUS
  <2>4. Assigned["systems"] = R
    BY <1>1, <2>1, <2>3
  <2>5. DOMAIN f = mem["systems"] /\ Fits("systems", mem["systems"], LastTag)
    BY <1>2, <2>1, Names
  <2>6. Fits("systems", R, LastTag)
    BY <2>2, <2>3, <2>5, FitsImage
  <2> QED BY <2>4, <2>6
<1>5. Fits("talkgroups", Assigned["talkgroups"], LastTag)
  <2>1. PICK tg : Assigned["talkgroups"] = {Stored(Placed(e), tg[e]) : e \in mem["talkgroups"]}
    BY AssignedIs
  <2>2. PICK f : f = [e \in mem["talkgroups"] |-> Stored(Placed(e), tg[e])]
    OBVIOUS
  <2>3. ASSUME NEW e \in mem["talkgroups"]
        PROVE  Fit("talkgroups", f[e], LastTag)
    <3>1. Elem(Placed(e), TagsIn("talkgroups", LastTag))
      BY <1>3, Names
    <3>2. f[e] = [id |-> tg[e], sys |-> Placed(e).sys, key |-> Placed(e).key, tag |-> Placed(e).tag]
      BY <2>2, <3>1, ElemSet
    <3> QED BY <3>1, <3>2 DEF Elem, Fit
  <2>4. PICK R : R = {f[e] : e \in mem["talkgroups"]}
    OBVIOUS
  <2>5. Assigned["talkgroups"] = R
    BY <2>1, <2>2, <2>4
  <2>6. DOMAIN f = mem["talkgroups"] /\ Fits("talkgroups", mem["talkgroups"], LastTag)
    BY <1>2, <2>2, Names
  <2>7. Fits("talkgroups", R, LastTag)
    BY <2>3, <2>4, <2>6, FitsImage
  <2> QED BY <2>5, <2>7
<1>6. ASSUME NEW l \in {"sites", "units"}
      PROVE  Fits(l, Assigned[l], LastTag)
  <2>0. l \in List /\ l \in Nested /\ l # "talkgroups" /\ l # "tags"
    BY Names
  <2>1. PICK f : f = [e \in mem[l] |-> Placed(e)]
    OBVIOUS
  <2>2. ASSUME NEW e \in mem[l]
        PROVE  Fit(l, f[e], LastTag)
    <3>1. e.id \in Nat /\ f[e] = Placed(e) /\ Placed(e).id = e.id /\ Elem(Placed(e), TagsIn(l, LastTag))
      BY <1>3, <2>0, <2>1
    <3> QED BY <2>0, <3>1 DEF Fit
  <2>3. PICK R : R = {f[e] : e \in mem[l]}
    OBVIOUS
  <2>4. Assigned[l] = R
    BY <1>1, <2>1, <2>3
  <2>5. DOMAIN f = mem[l] /\ Fits(l, mem[l], LastTag)
    BY <1>2, <2>0, <2>1
  <2>6. Fits(l, R, LastTag)
    BY <2>2, <2>3, <2>5, FitsImage
  <2> QED BY <2>4, <2>6
<1> QED BY <1>1, <1>2, <1>4, <1>5, <1>6, Names

-----------------------------------------------------------------------------
(* The page.                                                               *)

DocFits(d, n) ==
  /\ \A l \in DOMAIN d \intersect List : Fits(l, d[l], n)
  /\ "systems" \in DOMAIN d => Nested \subseteq DOMAIN d

PageFits(p, n) ==
  p = [k \in List \union {"options"} |-> p[k]] /\ \A l \in List : Fits(l, p[l], n)

LEMMA PutFits ==
  ASSUME NEW p, NEW n, PageFits(p, n), NEW l \in List, NEW S, Fits(l, S, n)
  PROVE  PageFits([p EXCEPT ![l] = S], n)
BY DEF PageFits

LEMMA PageDoc ==
  ASSUME NEW p, NEW n, PageFits(p, n)
  PROVE  DocFits(p, n)
BY Names DEF PageFits, DocFits

LEMMA FitsOne ==
  ASSUME NEW l, NEW n, NEW e, Elem(e, TagsIn(l, n)),
         l # "talkgroups" => e.id \in Nat, l = "tags" => e.id <= n
  PROVE  Fits(l, {e}, n)
BY FS_Singleton DEF Fits

LEMMA PageIs ==
  ASSUME Memory
  PROVE  PageFits(Page, LastTag)
<1>1. /\ Page = [l \in List \union {"options"} |-> Page[l]]
      /\ Page["units"] = PageUnits /\ \A l \in List \ {"units"} : Page[l] = mem[l]
  BY Names DEF Page
<1>2. Fits("units", PageUnits, LastTag)
  <2>1. PICK f : f = [r \in mem["units"] |-> [r EXCEPT !.id = r.key]]
    OBVIOUS
  <2>2. ASSUME NEW e \in mem["units"]
        PROVE  Fit("units", f[e], LastTag)
    <3>1. Elem(e, TagsIn("units", LastTag))
      BY Names DEF Memory, Fits
    <3>2. f[e] = [id |-> e.key, sys |-> e.sys, key |-> e.key, tag |-> e.tag]
      BY <2>1, <3>1 DEF Elem
    <3> QED BY <3>1, <3>2 DEF Elem, Fit
  <2>3. Fits("units", {f[e] : e \in mem["units"]}, LastTag)
    BY <2>1, <2>2, FitsImage, Names DEF Memory
  <2> QED BY <2>1, <2>3 DEF PageUnits
<1> QED BY <1>1, <1>2 DEF PageFits, Memory

(* Talkgroups with other tags of the page.                                 *)
MayTag(p, e, x) == x = e \/ \E g \in p["tags"] : x = [e EXCEPT !.tag = g.id]

LEMMA OtherTags ==
  ASSUME NEW p, NEW n \in Nat, PageFits(p, n), NEW f, DOMAIN f = p["talkgroups"],
         \A e \in p["talkgroups"] : MayTag(p, e, f[e]),
         NEW R, R = {f[e] : e \in p["talkgroups"]}
  PROVE  Fits("talkgroups", R, n)
<1>1. ASSUME NEW e \in p["talkgroups"]
      PROVE  Fit("talkgroups", f[e], n)
  <2>1. Elem(e, TagsIn("talkgroups", n))
    BY Names DEF PageFits, Fits
  <2>2. CASE f[e] = e
    BY <2>1, <2>2 DEF Fit
  <2>3. CASE \E g \in p["tags"] : f[e] = [e EXCEPT !.tag = g.id]
    <3>1. PICK g \in p["tags"] : f[e] = [e EXCEPT !.tag = g.id]
      BY <2>3
    <3>2. g.id \in Nat /\ g.id <= n
      BY Names DEF PageFits, Fits
    <3>3. f[e] = [id |-> e.id, sys |-> e.sys, key |-> e.key, tag |-> g.id]
      BY <2>1, <3>1 DEF Elem
    <3> QED BY <2>1, <3>2, <3>3 DEF Elem, TagsIn, Fit
  <2> QED BY <2>2, <2>3 DEF MayTag
<1>2. Fits("talkgroups", p["talkgroups"], n)
  BY Names DEF PageFits
<1> QED BY <1>1, <1>2, FitsImage

LEMMA RepairedFits ==
  ASSUME NEW p, NEW n \in Nat, PageFits(p, n), NEW q \in Repaired(p)
  PROVE  PageFits(q, n)
<1>1. CASE q = p
  BY <1>1
<1>2. CASE q # p
  <2>0. PICK lost : lost = {e \in p["talkgroups"] : e.tag \notin Ids(p["tags"])}
    OBVIOUS
  <2>1. PICK u \in Ids(p["tags"]) :
          q = [p EXCEPT !["talkgroups"] = (p["talkgroups"] \ lost) \union {[e EXCEPT !.tag = u] : e \in lost}]
    BY <1>2, <2>0 DEF Repaired
  <2>2. PICK f : f = [e \in p["talkgroups"] |-> IF e \in lost THEN [e EXCEPT !.tag = u] ELSE e]
    OBVIOUS
  <2>3. PICK g \in p["tags"] : u = g.id
    BY <2>1 DEF Ids
  <2>4. PICK R : R = {f[e] : e \in p["talkgroups"]}
    OBVIOUS
  <2>5. ASSUME NEW e \in p["talkgroups"]
        PROVE  MayTag(p, e, f[e])
    BY <2>2, <2>3 DEF MayTag
  <2>6. DOMAIN f = p["talkgroups"]
    BY <2>2
  <2>7. Fits("talkgroups", R, n)
    BY <2>4, <2>5, <2>6, OtherTags
  <2>8. (p["talkgroups"] \ lost) \union {[e EXCEPT !.tag = u] : e \in lost} = R
    BY <2>0, <2>2, <2>4
  <2> QED BY <2>1, <2>7, <2>8, PutFits, Names
<1> QED BY <1>1, <1>2

LEMMA WithoutFits ==
  ASSUME NEW p, NEW n \in Nat, PageFits(p, n), NEW l \in List, NEW e \in p[l], NEW q \in Without(p, l, e)
  PROVE  PageFits(q, n)
<1>1. CASE l = "systems"
  <2>1. q = [k \in DOMAIN p |-> IF k \in Nested THEN {x \in p[k] : x.sys # e.id}
                                ELSE IF k = l THEN p[k] \ {e} ELSE p[k]]
    BY <1>1 DEF Without
  <2>2. \A k \in List : q[k] \in SUBSET p[k]
    BY <2>1 DEF PageFits
  <2>3. q = [k \in List \union {"options"} |-> q[k]]
    BY <2>1 DEF PageFits
  <2> QED BY <2>2, <2>3, FitsSubset DEF PageFits
<1>2. CASE l = "tags"
  <2>1. PICK r : r = [p EXCEPT !["tags"] = p["tags"] \ {e}]
    OBVIOUS
  <2>2. q \in Repaired(r)
    BY <1>2, <2>1 DEF Without
  <2>3. Fits("tags", p["tags"] \ {e}, n)
    BY FitsSubset, Names DEF PageFits
  <2>4. PageFits(r, n)
    BY <2>1, <2>3, PutFits, Names
  <2> QED BY <2>2, <2>4, RepairedFits
<1>3. CASE l \notin {"systems", "tags"}
  <2>1. q = [p EXCEPT ![l] = p[l] \ {e}]
    BY <1>3 DEF Without
  <2>2. Fits(l, p[l] \ {e}, n)
    BY FitsSubset DEF PageFits
  <2> QED BY <2>1, <2>2, PutFits
<1> QED BY <1>1, <1>2, <1>3

LEMMA FreshFits ==
  ASSUME NEW p, NEW n \in Nat, PageFits(p, n), NEW l \in List, NEW e \in Fresh(p, l)
  PROVE  Fits(l, {e}, n) /\ e.key \in Nat
<1>1. /\ \A s \in p["systems"] : s.id \in Nat
      /\ \A g \in p["tags"] : g.id \in Nat /\ g.id <= n
  BY Names DEF PageFits, Fits
<1>2. Ids(p["systems"]) \subseteq Nat /\ Ids(p["tags"]) \subseteq 0..n
  BY <1>1 DEF Ids
<1>3. e \in NewRows(p, l) /\ Key \subseteq Nat
  BY AdminSaveAssumption DEF Fresh
<1>4. /\ e = [id |-> e.id, sys |-> e.sys, key |-> e.key, tag |-> e.tag]
      /\ e.id = New /\ e.key \in Nat
  <2>1. CASE l = "talkgroups"
    BY <1>3, <2>1 DEF NewRows
  <2>2. CASE l \in {"sites", "units"}
    BY <1>3, <2>2 DEF NewRows
  <2>3. CASE l = "access"
    BY <1>3, <2>3 DEF NewRows, Bad
  <2>4. CASE l \in {"apikeys", "dirwatch", "downstreams", "groups", "tags", "systems"}
    BY <1>3, <2>4 DEF NewRows
  <2> QED BY <2>1, <2>2, <2>3, <2>4, Names
<1>5. e.sys \in Nat /\ e.tag \in TagsIn(l, n)
  <2>1. CASE l = "talkgroups"
    BY <1>2, <1>3, <2>1 DEF NewRows, TagsIn
  <2>2. CASE l \in {"sites", "units"}
    BY <1>2, <1>3, <2>2 DEF NewRows, TagsIn
  <2>3. CASE l = "access"
    BY <1>3, <2>3 DEF NewRows, TagsIn
  <2>4. CASE l \in {"apikeys", "dirwatch", "downstreams", "groups", "tags", "systems"}
    BY <1>3, <2>4 DEF NewRows, TagsIn
  <2> QED BY <2>1, <2>2, <2>3, <2>4, Names
<1>6. Elem(e, TagsIn(l, n)) /\ e.id \in Nat /\ e.id <= n
  BY <1>4, <1>5 DEF Elem, New
<1> QED BY <1>4, <1>6, FitsOne

LEMMA EditFits ==
  ASSUME NEW p, NEW n \in Nat, PageFits(p, n), Edit(p)
  PROVE  DocFits(doc', n)
<1>1. CASE PageFits(doc', n)
  BY <1>1, PageDoc
<1>2. ASSUME NEW l \in List, NEW e \in p[l], NEW q \in UNION {Without(p, l, x) : x \in p[l]}, doc' = q
      PROVE  PageFits(doc', n)
  <2>1. PICK x \in p[l] : q \in Without(p, l, x)
    BY <1>2
  <2> QED BY <1>2, <2>1, WithoutFits
<1>3. ASSUME NEW q, PageFits(q, n), NEW l \in List, NEW e \in Fresh(q, l),
             doc' = [q EXCEPT ![l] = @ \union {e}]
      PROVE  PageFits(doc', n)
  <2>1. PICK R : R = q[l] \union {e}
    OBVIOUS
  <2>2. Fits(l, R, n)
    BY <1>3, <2>1, FreshFits, FitsAdd DEF PageFits
  <2>3. doc' = [q EXCEPT ![l] = R]
    BY <1>3, <2>1
  <2>4. PageFits([q EXCEPT ![l] = R], n)
    BY <1>3, <2>2, PutFits
  <2> QED BY <2>3, <2>4
<1>4. ASSUME NEW l \in List, NEW e \in p[l], NEW f \in Fresh(p, l),
             doc' = [p EXCEPT ![l] = (@ \ {e}) \union {[e EXCEPT !.key = f.key]}]
      PROVE  PageFits(doc', n)
  <2>1. PICK x, S, R : x = [e EXCEPT !.key = f.key] /\ S = p[l] \ {e} /\ R = S \union {x}
    OBVIOUS
  <2>2. Fit(l, e, n) /\ f.key \in Nat
    BY FreshFits DEF PageFits, Fits, Fit
  <2>3. Fit(l, x, n)
    <3>1. x = [id |-> e.id, sys |-> e.sys, key |-> f.key, tag |-> e.tag]
      BY <2>1, <2>2 DEF Fit, Elem
    <3> QED BY <2>2, <3>1 DEF Fit, Elem
  <2>4. Fits(l, R, n)
    <3>1. Fits(l, S, n)
      BY <2>1, FitsSubset DEF PageFits
    <3>2. Fits(l, {x}, n)
      BY <2>3, FitsOne DEF Fit
    <3> QED BY <2>1, <3>1, <3>2, FitsAdd
  <2>5. doc' = [p EXCEPT ![l] = R]
    BY <1>4, <2>1
  <2> QED BY <2>4, <2>5, PutFits
<1>5. ASSUME NEW o \in Option, doc' = [p EXCEPT !["options"][o] = "chosen"]
      PROVE  PageFits(doc', n)
  <2>1. "options" \notin List
    BY Names
  <2>2. PICK v : v = [p["options"] EXCEPT ![o] = "chosen"]
    OBVIOUS
  <2>3. doc' = [p EXCEPT !["options"] = v]
    BY <1>5, <2>2
  <2>4. /\ doc' = [k \in List \union {"options"} |-> doc'[k]]
        /\ \A k \in List : doc'[k] = p[k]
    BY <2>1, <2>3 DEF PageFits
  <2> QED BY <2>4 DEF PageFits
<1>6. ASSUME NEW l \in Sent,
             doc' = [k \in DOMAIN p \ (IF l = "systems" THEN {l} \union Nested ELSE {l}) |-> p[k]]
      PROVE  DocFits(doc', n)
  <2>1. \A k \in DOMAIN doc' \intersect List : Fits(k, doc'[k], n)
    BY <1>6 DEF PageFits
  <2>2. ASSUME "systems" \in DOMAIN doc'
        PROVE  Nested \subseteq DOMAIN doc'
    <3>1. l # "systems" /\ l \notin Nested /\ Nested \subseteq DOMAIN p
      BY <1>6, <2>2, Names DEF PageFits
    <3> QED BY <1>6, <3>1
  <2> QED BY <2>1, <2>2 DEF DocFits
<1>7. CASE doc' = p
  BY <1>7, PageDoc
<1>8. CASE \E l \in List : \E e \in p[l], q \in UNION {Without(p, l, x) : x \in p[l]} : e \notin q[l] /\ doc' = q
  BY <1>1, <1>2, <1>8
<1>9. CASE \E l \in List : \E e \in Fresh(p, l) : doc' = [p EXCEPT ![l] = @ \union {e}]
  BY <1>1, <1>3, <1>9
<1>10. CASE \E l \in List : \E e \in p[l] : \E q \in Without(p, l, e) : \E f \in Fresh(q, l) :
              doc' = [q EXCEPT ![l] = @ \union {f}]
  BY <1>1, <1>3, <1>10, WithoutFits
<1>11. CASE \E l \in List : \E e \in p[l], f \in Fresh(p, l) :
              doc' = [p EXCEPT ![l] = (@ \ {e}) \union {[e EXCEPT !.key = f.key]}]
  BY <1>1, <1>4, <1>11
<1>12. CASE \E o \in Option : doc' = [p EXCEPT !["options"][o] = "chosen"]
  BY <1>1, <1>5, <1>12
<1>13. CASE \E l \in Sent : doc' = [k \in DOMAIN p \ (IF l = "systems" THEN {l} \union Nested ELSE {l}) |-> p[k]]
  BY <1>6, <1>13
<1> QED BY <1>7, <1>8, <1>9, <1>10, <1>11, <1>12, <1>13 DEF Edit

-----------------------------------------------------------------------------
(* The tables and what is in memory fit each other, at every step.         *)

Held == Tables /\ Memory /\ DocFits(doc, LastTag) /\ pop \in Pop

LEMMA DocFitsMore ==
  ASSUME NEW d, NEW m \in Nat, NEW n \in Nat, m <= n, DocFits(d, m)
  PROVE  DocFits(d, n)
BY FitsMore DEF DocFits

LEMMA LastTagNat == Tables => LastTag \in Nat
<1> SUFFICES ASSUME Tables PROVE LastTag \in Nat
  OBVIOUS
<1>1. "tags" \in List
  BY Names
<1> QED BY <1>1, TabFacts DEF Tables, LastTag

(* The tables stay.                                                        *)
LEMMA TablesKept ==
  ASSUME Tables, tab' = tab, calls' \subseteq Ids(tab["talkgroups"].rows)
  PROVE  Tables' /\ LastTag' = LastTag
BY DEF Tables, LastTag

(* One list, or those of systems, is set to what fits.                     *)
LEMMA ListSet ==
  ASSUME Memory, LastTag' = LastTag, NEW l \in List, NEW S, Fits(l, S, LastTag), mem' = [mem EXCEPT ![l] = S]
  PROVE  Memory' /\ mem'[l] = S /\ \A k \in List \ {l} : mem'[k] = mem[k]
<1>1. /\ mem' = [k \in List |-> mem'[k]]
      /\ mem'[l] = S /\ \A k \in List \ {l} : mem'[k] = mem[k]
  BY DEF Memory
<1>2. \A k \in List : Fits(k, mem'[k], LastTag)
  BY <1>1 DEF Memory
<1> QED BY <1>1, <1>2 DEF Memory

LEMMA ListsSet ==
  ASSUME LastTag' = LastTag, mem' = [l \in List |-> mem'[l]], \A l \in List : Fits(l, mem'[l], LastTag)
  PROVE  Memory'
BY DEF Memory

(* A list with a table of its own is written.                              *)
LEMMA ListWritten ==
  ASSUME Held, NEW l \in Flat, NEW list, Fits(l, list, LastTag),
         Commit([tab EXCEPT ![l] = FlatTable(list, @)]), mem' = mem, doc' = doc, pop' \in Pop
  PROVE  Held' /\ \E d : tab' = d /\ OnlyWrites(l, list, d)
<1> DEFINE c == Cascade([tab EXCEPT ![l] = FlatTable(list, tab[l])])
<1>1. tab' = c /\ calls' = calls \intersect Ids(c["talkgroups"].rows)
  BY DEF Commit
<1>2. PICK d : d = c
  OBVIOUS
<1>3. OnlyWrites(l, list, d)
  <2>1. Tables
    BY DEF Held
  <2>2. d = Cascade([tab EXCEPT ![l] = FlatTable(list, tab[l])])
    BY <1>2
  <2> HIDE DEF c
  <2> QED BY <2>1, <2>2, FlatWritten
<1>4. tab' = d /\ calls' = calls \intersect Ids(d["talkgroups"].rows)
  BY <1>1, <1>2
<1> HIDE DEF c
<1>5. Tables' /\ LastTag' = d["tags"].last
  BY <1>3, <1>4 DEF Tables, LastTag, OnlyWrites
<1>6. Memory'
  <2>1. \A k \in List : Fits(k, mem[k], d["tags"].last)
    BY <1>3, FitsMore DEF Held, Memory, OnlyWrites
  <2> QED BY <1>5, <2>1 DEF Held, Memory
<1>7. DocFits(doc, LastTag)'
  BY <1>3, <1>5, DocFitsMore DEF Held, OnlyWrites
<1> QED BY <1>3, <1>4, <1>5, <1>6, <1>7 DEF Held

(* Systems are written, or their Write fails.                              *)
LEMMA SystemsHeld ==
  ASSUME Held, MemLinked, WriteSystems, doc' = doc, pop' \in Pop
  PROVE  /\ Held' /\ mem' = Assigned
         /\ \A l \in Flat : tab'[l] = tab[l] /\ mem'[l] = mem[l]
<1>1. PICK c : c = Cascade([tab EXCEPT !["systems"]    = SystemsTable,
                                       !["sites"]      = SitesTable,
                                       !["talkgroups"] = TalkgroupsTable,
                                       !["units"]      = UnitsTable])
  OBVIOUS
<1>2. tab' = c /\ calls' = calls \intersect Ids(c["talkgroups"].rows) /\ mem' = Assigned
  BY <1>1 DEF WriteSystems, Commit
<1>3. Tabs(c) /\ Refers(c) /\ \A l \in Flat : c[l] = tab[l]
  BY <1>1, SystemsWritten DEF Held
<1>4. Tables' /\ LastTag' = LastTag
  BY <1>2, <1>3, Names DEF Tables, LastTag
<1>5. Memory'
  BY <1>2, <1>4, AssignedFits, ListsSet DEF Held
<1> QED BY <1>2, <1>3, <1>4, <1>5, AssignedFits DEF Held

LEMMA SystemsFail ==
  ASSUME Held, MemLinked, WriteSystemsFails, doc' = doc, pop' \in Pop
  PROVE  /\ Held' /\ clean' = FALSE /\ (mem' = mem \/ mem' = Assigned) /\ calls' = calls
         /\ \A l \in List : tab'[l].rows = tab[l].rows
         /\ \A l \in List \ {"systems", "talkgroups"} : tab'[l] = tab[l]
         /\ tab'["systems"].last = SystemsTable.last
         /\ tab'["talkgroups"].last = TalkgroupsTable.last
<1>1. /\ tab' = [tab EXCEPT !["systems"].last = SystemsTable.last,
                            !["talkgroups"].last = TalkgroupsTable.last]
      /\ mem' \in {mem, Assigned} /\ calls' = calls /\ clean' = FALSE
  BY DEF WriteSystemsFails, Fault
<1>2. /\ tab' = [l \in List |-> tab'[l]]
      /\ \A l \in List \ {"systems", "talkgroups"} : tab'[l] = tab[l]
      /\ tab'["systems"] = [rows |-> tab["systems"].rows, last |-> SystemsTable.last]
      /\ tab'["talkgroups"] = [rows |-> tab["talkgroups"].rows, last |-> TalkgroupsTable.last]
  <2>0. "systems" \in List /\ "talkgroups" \in List /\ DOMAIN tab = List
    BY Names DEF Held, Tables, Tabs
  <2>1. \A l \in List : tab[l] = [rows |-> tab[l].rows, last |-> tab[l].last]
    BY TabFacts DEF Held, Tables
  <2>2. PICK a, b : /\ a = [tab["systems"] EXCEPT !.last = SystemsTable.last]
                    /\ b = [tab["talkgroups"] EXCEPT !.last = TalkgroupsTable.last]
    OBVIOUS
  <2>3. tab' = [tab EXCEPT !["systems"] = a, !["talkgroups"] = b]
    BY <1>1, <2>0, <2>2
  <2>4. /\ a = [rows |-> tab["systems"].rows, last |-> SystemsTable.last]
        /\ b = [rows |-> tab["talkgroups"].rows, last |-> TalkgroupsTable.last]
    BY <2>0, <2>1, <2>2
  <2>5. /\ DOMAIN tab' = List /\ tab'["systems"] = a /\ tab'["talkgroups"] = b
        /\ \A l \in List \ {"systems", "talkgroups"} : tab'[l] = tab[l]
    BY <2>0, <2>3
  <2>6. tab' = [l \in List |-> tab'[l]]
    BY <2>0, <2>3
  <2> QED BY <2>4, <2>5, <2>6
<1>3. \A l \in List : tab'[l].rows = tab[l].rows
  BY <1>2
<1>4. LastTag' = LastTag /\ LastTag \in Nat
  BY <1>2, LastTagNat, Names DEF LastTag, Held
<1>5. ASSUME NEW l \in {"systems", "talkgroups"}
      PROVE  tab'[l] \in TableOf(TagsIn(l, LastTag))
  <2>1. PICK n \in Nat : tab'[l] = [rows |-> tab[l].rows, last |-> n] /\ tab[l].last <= n
    <3>1. /\ TalkgroupsTable \in TableOf(TagsIn("talkgroups", LastTag))
          /\ tab["talkgroups"].last <= TalkgroupsTable.last
      BY NestedGrow, Names DEF TalkgroupsTable, Held
    <3>2. TalkgroupsTable.last \in Nat
      BY <3>1 DEF TableOf
    <3> QED BY <1>2, <3>1, <3>2, SystemIds DEF Held
  <2>2. l \in List
    BY Names
  <2>3. /\ tab[l].rows \subseteq Row /\ IsFiniteSet(tab[l].rows) /\ tab[l].last \in Nat
        /\ \A r \in tab[l].rows : r.id \in 1..tab[l].last /\ r.tag \in TagsIn(l, LastTag)
        /\ \A r, q \in tab[l].rows : r.id = q.id => r = q
    BY <2>2, TabFacts DEF Held, Tables, LastTag
  <2>4. PICK u \in [rows : SUBSET Row, last : Nat] : u = tab'[l]
    BY <2>1, <2>3
  <2>5. u.rows = tab[l].rows /\ u.last = n
    BY <2>1, <2>4
  <2>6. \A r \in u.rows : r.id \in 1..u.last
    BY <2>1, <2>3, <2>5
  <2> QED BY <2>3, <2>4, <2>5, <2>6 DEF TableOf
<1>6. ASSUME NEW l \in List \ {"systems", "talkgroups"}
      PROVE  tab'[l] \in TableOf(TagsIn(l, LastTag))
  BY <1>2, TabFacts DEF Held, Tables, LastTag
<1>7. Tabs(tab')
  BY <1>2, <1>4, <1>5, <1>6 DEF Tabs, LastTag
<1>8. Refers(tab')
  BY <1>3, Names DEF Held, Tables, Refers
<1>9. Tables'
  BY <1>1, <1>3, <1>7, <1>8, Names DEF Held, Tables
<1>10. Memory'
  BY <1>1, <1>4, AssignedFits, ListsSet DEF Held, Memory
<1>11. Held'
  BY <1>1, <1>4, <1>9, <1>10 DEF Held
<1>12. tab'["systems"].last = SystemsTable.last /\ tab'["talkgroups"].last = TalkgroupsTable.last
  BY <1>2
<1>13. \A l \in List \ {"systems", "talkgroups"} : tab'[l] = tab[l]
  BY <1>2
<1>14. mem' = mem \/ mem' = Assigned
  BY <1>1
<1>15. clean' = FALSE /\ calls' = calls
  BY <1>1
<1> QED BY <1>3, <1>11, <1>12, <1>13, <1>14, <1>15

-----------------------------------------------------------------------------
(* The first state, and every step.                                        *)

LEMMA NoDocFits == ASSUME NEW n PROVE DocFits(NoDoc, n)
BY DEF DocFits, NoDoc

LEMMA NoCallIn == NoCall \in Pop
BY DEF NoCall, Pop, PopAt

LEMMA PopIs ==
  ASSUME pop \in Pop
  PROVE  /\ pop = [at |-> pop.at, sys |-> pop.sys, sysKey |-> pop.sysKey, key |-> pop.key,
                   group |-> pop.group, tag |-> pop.tag, orphan |-> pop.orphan, id |-> pop.id]
         /\ pop.at \in PopAt /\ pop.orphan \in BOOLEAN
         /\ pop.sys \in Nat /\ pop.sysKey \in Nat /\ pop.key \in Nat /\ pop.group \in Nat
         /\ pop.tag \in Nat /\ pop.id \in Nat
BY DEF Pop

LEMMA HeldInit == Init => Held
<1> SUFFICES ASSUME Init PROVE Held
  OBVIOUS
<1>1. mem \in [List -> SUBSET Row] /\ Sane(mem)
  BY AdminSaveAssumption DEF Init
<1>2. ASSUME NEW l \in List
      PROVE  IsFiniteSet(mem[l]) /\ mem[l] \subseteq Row
  BY <1>1 DEF Sane
<1>3. /\ tab = [l \in List |-> tab[l]]
      /\ \A l \in List : /\ tab[l] = [rows |-> mem[l], last |-> tab[l].last]
                         /\ tab[l].rows = mem[l]
                         /\ tab[l].last = IF mem[l] = {} THEN 0 ELSE Max(Ids(mem[l]))
  BY DEF Init
<1>4. ASSUME NEW l \in List
      PROVE  tab[l].last \in Nat /\ \A r \in mem[l] : r.id \in 1..tab[l].last
  <2>1. CASE mem[l] = {}
    BY <1>3, <2>1
  <2>2. CASE mem[l] # {}
    <3>1. PICK f : f = [r \in mem[l] |-> r.id]
      OBVIOUS
    <3>2. PICK I : I = {f[r] : r \in mem[l]}
      OBVIOUS
    <3>3. IsFiniteSet(I)
      BY <1>2, <3>1, <3>2, Image
    <3>4. I = Ids(mem[l])
      BY <3>1, <3>2 DEF Ids
    <3>5. I \subseteq Nat /\ I # {} /\ \A r \in mem[l] : r.id \in I
      BY <1>2, <2>2, <3>4 DEF Ids, Row
    <3>6. Max(I) \in I /\ \A y \in I : y <= Max(I)
      BY <3>3, <3>5, Greatest
    <3>7. \A r \in mem[l] : r.id \in Nat \ {0}
      BY <1>1, <1>2 DEF Sane, New, Row
    <3>8. PICK m \in Nat : tab[l].last = m /\ \A r \in mem[l] : r.id <= m
      <4>1. tab[l].last = Max(I)
        BY <1>3, <2>2, <3>4
      <4> QED BY <3>5, <3>6, <4>1
    <3>9. \A r \in mem[l] : r.id \in 1..m
      BY <3>7, <3>8
    <3> QED BY <3>8, <3>9
  <2> QED BY <2>1, <2>2
<1>5. LastTag \in Nat /\ LastTag = tab["tags"].last
  BY <1>4, Names DEF LastTag
<1>6. Refers(tab)
  <2>1. \A l \in Nested : \A r \in mem[l] : \E s \in mem["systems"] : s.id = r.sys
    BY <1>1 DEF Sane
  <2>2. \A r \in mem["talkgroups"] : \E g \in mem["tags"] : g.id = r.tag
    BY <1>1 DEF Sane
  <2> QED BY <1>3, <2>1, <2>2, Names DEF Refers, Ids
<1>7. ASSUME NEW l \in List, NEW r \in mem[l]
      PROVE  r.tag \in TagsIn(l, LastTag)
  <2>1. CASE l = "talkgroups"
    <3>1. PICK g \in mem["tags"] : g.id = r.tag
      BY <1>1, <2>1 DEF Sane
    <3>2. g.id \in 1..LastTag
      BY <1>4, <1>5, Names
    <3> QED BY <1>5, <2>1, <3>1, <3>2 DEF TagsIn
  <2>2. CASE l # "talkgroups"
    BY <1>2, <2>2 DEF TagsIn, Row
  <2> QED BY <2>1, <2>2
<1>8. ASSUME NEW l \in List
      PROVE  tab[l] \in TableOf(TagsIn(l, LastTag))
  <2>1. PICK t \in [rows : SUBSET Row, last : Nat] : t = tab[l]
    BY <1>2, <1>3, <1>4
  <2>2. t.rows = mem[l] /\ t.last = tab[l].last
    BY <1>3, <2>1
  <2>3. \A r, q \in mem[l] : r.id = q.id => r = q
    BY <1>1 DEF Sane
  <2>4. t \in TableOf(TagsIn(l, LastTag))
    BY <1>2, <1>4, <1>7, <2>2, <2>3 DEF TableOf
  <2> QED BY <2>1, <2>4
<1>9. Tabs(tab)
  BY <1>3, <1>5, <1>8 DEF Tabs
<1>10. Tables
  <2>1. calls \subseteq Ids(tab["talkgroups"].rows)
    BY <1>3, Names DEF Init
  <2> QED BY <1>6, <1>9, <2>1 DEF Tables
<1>11. Memory
  <2>1. \A l \in List : Fits(l, mem[l], LastTag)
    BY <1>3, <1>5, <1>9, RowsFit
  <2> QED BY <1>1, <2>1 DEF Memory
<1>12. DocFits(doc, LastTag) /\ pop \in Pop
  BY NoDocFits, NoCallIn DEF Init
<1> QED BY <1>10, <1>11, <1>12 DEF Held

(* The tables are left alone.                                              *)
LEMMA HeldKept ==
  ASSUME Held, tab' = tab, calls' = calls, mem' = mem, DocFits(doc', LastTag), pop' \in Pop
  PROVE  Held'
<1>1. Tables' /\ LastTag' = LastTag
  BY TablesKept DEF Held, Tables
<1>2. Memory'
  BY <1>1 DEF Held, Memory
<1> QED BY <1>1, <1>2 DEF Held

LEMMA HeldSet ==
  ASSUME Held, tab' = tab, calls' = calls, doc' = doc, pop' \in Pop,
         NEW l \in List, NEW S, Fits(l, S, LastTag), mem' = [mem EXCEPT ![l] = S]
  PROVE  Held'
<1>1. Tables' /\ LastTag' = LastTag
  BY TablesKept DEF Held, Tables
<1>2. Memory'
  BY <1>1, ListSet DEF Held
<1> QED BY <1>1, <1>2 DEF Held

LEMMA HeldRead ==
  ASSUME Held, tab' = tab, calls' = calls, doc' = doc, pop' \in Pop,
         NEW l \in List, ReadList(l) \/ ReadPart(l)
  PROVE  Held'
<1>1. PICK S \in SUBSET tab[l].rows : mem' = [mem EXCEPT ![l] = S]
  BY DEF ReadList, ReadPart
<1>2. Fits(l, S, LastTag)
  BY RowsFit DEF Held, Tables, LastTag
<1> QED BY <1>1, <1>2, HeldSet

LEMMA HeldReadSystems ==
  ASSUME Held, tab' = tab, calls' = calls, doc' = doc, pop' \in Pop,
         ReadSystems \/ ReadSystemsPart
  PROVE  Held'
<1>1. Tables' /\ LastTag' = LastTag
  BY TablesKept DEF Held, Tables
<1>2. /\ mem' = [l \in List |-> mem'[l]]
      /\ \A l \in {"systems"} \union Nested : mem'[l] \subseteq tab[l].rows
      /\ \A l \in Flat : mem'[l] = mem[l]
  <2>1. CASE ReadSystems
    BY <2>1, Names DEF ReadSystems
  <2>2. CASE ReadSystemsPart
    <3>1. PICK S \in SUBSET tab["systems"].rows, N \in SUBSET Ids(tab["systems"].rows) :
            mem' = [l \in List |-> IF l = "systems" THEN S
                                   ELSE IF l \in Nested THEN {r \in tab[l].rows : r.sys \in N}
                                   ELSE mem[l]]
      BY <2>2 DEF ReadSystemsPart
    <3>2. mem' = [l \in List |-> mem'[l]] /\ mem'["systems"] = S
      BY <3>1, Names
    <3>3. \A l \in Flat : mem'[l] = mem[l]
      BY <3>1, Names
    <3>4. ASSUME NEW l \in Nested
          PROVE  mem'[l] \subseteq tab[l].rows
      <4>1. mem'[l] = {r \in tab[l].rows : r.sys \in N}
        BY <3>1, Names
      <4> QED BY <4>1
    <3> QED BY <3>2, <3>3, <3>4
  <2> QED BY <2>1, <2>2
<1>3. \A l \in {"systems"} \union Nested : Fits(l, mem'[l], LastTag)
  BY <1>2, RowsFit, Names DEF Held, Tables, LastTag
<1>4. \A l \in Flat : Fits(l, mem'[l], LastTag)
  BY <1>2, Names DEF Held, Memory
<1>5. Memory'
  BY <1>1, <1>2, <1>3, <1>4, ListsSet, Names
<1> QED BY <1>1, <1>5 DEF Held

(* The elements that ingestion and the handler of users add.               *)
LEMMA NewFits ==
  ASSUME Held, NEW l \in Flat, NEW k \in Nat,
         NEW S, S = mem[l] \union {[id |-> New, sys |-> 0, key |-> k, tag |-> 0]}
  PROVE  Fits(l, S, LastTag)
<1>0. l \in List /\ l # "talkgroups" /\ LastTag \in Nat
  BY Names, LastTagNat DEF Held
<1>1. PICK e : e = [id |-> New, sys |-> 0, key |-> k, tag |-> 0]
  OBVIOUS
<1>2. Elem(e, TagsIn(l, LastTag)) /\ e.id \in Nat /\ e.id <= LastTag
  BY <1>0, <1>1 DEF Elem, TagsIn, New
<1>3. Fits(l, {e}, LastTag)
  BY <1>2, FitsOne
<1>4. Fits(l, mem[l], LastTag)
  BY <1>0 DEF Held, Memory
<1> QED BY <1>1, <1>3, <1>4, FitsAdd

LEMMA TagIdIn == ASSUME Held, NEW k PROVE TagId(k) \in 0..LastTag
<1>1. LastTag \in Nat /\ \A g \in mem["tags"] : g.id \in Nat /\ g.id <= LastTag
  BY Names, LastTagNat DEF Held, Memory, Fits
<1>2. CASE \E e \in mem["tags"] : e.key = k
  <2>1. PICK g \in mem["tags"] : g = CHOOSE e \in mem["tags"] : e.key = k
    BY <1>2
  <2> QED BY <1>1, <1>2, <2>1 DEF TagId
<1>3. CASE ~ \E e \in mem["tags"] : e.key = k
  BY <1>1, <1>3 DEF TagId, New
<1> QED BY <1>2, <1>3

LEMMA PopSteps ==
  ASSUME Held
  PROVE  /\ \A here, next : next \in PopAt /\ PopGo(here, next) => pop' \in Pop
         /\ Dropped => pop' \in Pop
         /\ Orphaned => pop' \in Pop
         /\ UNCHANGED pop => pop' \in Pop
<1>1. pop \in Pop
  BY DEF Held
<1>2. ASSUME NEW here, NEW next \in PopAt, PopGo(here, next)
      PROVE  pop' \in Pop
  BY <1>1, <1>2 DEF PopGo, Pop
<1>3. ASSUME Orphaned PROVE pop' \in Pop
  BY <1>1, <1>3 DEF Orphaned, Pop
<1> QED BY <1>1, <1>2, <1>3, NoCallIn DEF Dropped

LEMMA RenumberedIn ==
  ASSUME Held, MemLinked, Renumbered
  PROVE  pop' \in Pop
<1>1. pop \in Pop /\ IdOf(pop.sys) \in Nat
  BY PopIs, SystemIds DEF Held
<1>2. pop' = [pop EXCEPT !.sys = IdOf(pop.sys)] \/ pop' = pop
  BY DEF Renumbered
<1> QED BY <1>1, <1>2 DEF Pop

LEMMA HeldWrite ==
  ASSUME Held, NEW l \in Flat, WriteList(l), mem' = mem, doc' = doc, pop' \in Pop
  PROVE  Held'
<1>1. Commit([tab EXCEPT ![l] = FlatTable(mem[l], @)])
  BY DEF WriteList
<1>2. Fits(l, mem[l], LastTag)
  BY Names DEF Held, Memory
<1> QED BY <1>1, <1>2, ListWritten

LEMMA HeldWriteStep ==
  ASSUME Held, NEW l \in Flat, NEW here, NEW read, NEW next, WriteStep(l, here, read, next), Other
  PROVE  Held'
<1>1. doc' = doc /\ pop' \in Pop /\ mem' = mem
  BY PopSteps DEF WriteStep, Other, ext
<1>2. CASE WriteList(l)
  BY <1>1, <1>2, HeldWrite
<1>3. CASE UNCHANGED <<tab, calls>>
  BY <1>1, <1>3, HeldKept DEF Held
<1> QED BY <1>2, <1>3 DEF WriteStep

LEMMA HeldReadStep ==
  ASSUME Held, NEW l \in Flat, NEW here, NEW next, ReadStep(l, here, next), Other
  PROVE  Held'
<1>1. doc' = doc /\ pop' \in Pop /\ tab' = tab /\ calls' = calls /\ l \in List
  BY PopSteps, Names DEF ReadStep, Other, ext
<1>2. ReadList(l) \/ ReadPart(l)
  BY DEF ReadStep
<1> QED BY <1>1, <1>2, HeldRead

LEMMA HeldFromMap ==
  ASSUME Held, NEW l \in Flat, FromMap(l), doc' = doc, pop' = pop
  PROVE  Held'
<1>1. l \in List /\ pop' \in Pop
  BY PopSteps, Names
<1>2. Fits(l, doc[l], LastTag)
  BY <1>1 DEF FromMap, Held, DocFits
<1>3. mem' = [mem EXCEPT ![l] = doc[l]] /\ tab' = tab /\ calls' = calls
  BY DEF FromMap
<1> QED BY <1>1, <1>2, <1>3, HeldSet

(* A table that nothing refers to is replaced without a cascade.           *)
LEMMA NoCascade ==
  ASSUME Tables, NEW l \in Flat, l # "tags", NEW list, Fits(l, list, LastTag),
         NEW d, d = [tab EXCEPT ![l] = FlatTable(list, tab[l])]
  PROVE  OnlyWrites(l, list, d) /\ d["talkgroups"] = tab["talkgroups"] /\ d[l] = FlatTable(list, tab[l])
<1>1. PICK c : c = Cascade([tab EXCEPT ![l] = FlatTable(list, tab[l])])
  OBVIOUS
<1>2. OnlyWrites(l, list, c)
  BY <1>1, FlatWritten
<1>3. /\ DOMAIN c = List /\ \A k \in List \ {l} : c[k] = tab[k]
      /\ c[l] = FlatTable(list, tab[l])
  BY <1>2 DEF OnlyWrites, Tabs
<1>4. /\ d = [k \in List |-> d[k]] /\ \A k \in List \ {l} : d[k] = tab[k]
      /\ d[l] = FlatTable(list, tab[l])
  BY Names DEF Tables, Tabs
<1>5. c = [k \in List |-> c[k]]
  BY <1>2 DEF OnlyWrites, Tabs
<1>6. c = d
  <2>1. \A k \in List : c[k] = d[k]
    BY <1>3, <1>4
  <2> HIDE <1>1
  <2> QED BY <1>4, <1>5, <2>1
<1> QED BY <1>2, <1>4, <1>6, Names

LEMMA HeldSaveList ==
  ASSUME Held, NEW l \in Flat, l # "tags", NEW here, NEW next, SaveList(l, here, next), Other
  PROVE  Held'
<1>0. /\ l \in List /\ doc' = doc /\ pop' \in Pop /\ calls' = calls
  BY PopSteps, Names DEF SaveList, Absent, Other, ext
<1>1. CASE mem' = mem /\ tab' = tab
  BY <1>0, <1>1, HeldKept DEF Held
<1>2. ASSUME l \in DOMAIN doc, mem' = [mem EXCEPT ![l] = doc[l]], tab' = tab
      PROVE  Held'
  <2>1. Fits(l, doc[l], LastTag)
    BY <1>0, <1>2 DEF Held, DocFits
  <2> QED BY <1>0, <1>2, <2>1, HeldSet
<1>3. ASSUME l \in DOMAIN doc, tab' = [tab EXCEPT ![l] = FlatTable(doc[l], tab[l])],
             NEW S \in SUBSET FlatTable(doc[l], tab[l]).rows, mem' = [mem EXCEPT ![l] = S]
      PROVE  Held'
  <2>1. Fits(l, doc[l], LastTag)
    BY <1>0, <1>3 DEF Held, DocFits
  <2>2. OnlyWrites(l, doc[l], tab') /\ tab'["talkgroups"] = tab["talkgroups"] /\ tab'[l] = FlatTable(doc[l], tab[l])
    BY <1>3, <2>1, NoCascade DEF Held
  <2>3. tab'["tags"] = tab["tags"] /\ Tabs(tab') /\ Refers(tab')
    BY <2>2, Names DEF OnlyWrites
  <2>4. Tables' /\ LastTag' = LastTag
    BY <1>0, <2>2, <2>3 DEF Held, Tables, LastTag
  <2>5. Fits(l, S, LastTag)
    BY <1>0, <2>2, <2>3, RowsFit DEF LastTag
  <2>6. Memory'
    BY <1>3, <2>4, <2>5, ListSet, <1>0 DEF Held
  <2> QED BY <1>0, <2>4, <2>6 DEF Held
<1>4. PICK t : t = FlatTable(doc[l], tab[l])
  OBVIOUS
<1>5. \/ Absent(l, here, next)
      \/ /\ l \in DOMAIN doc
         /\ \/ tab' = [tab EXCEPT ![l] = t] /\ mem' = [mem EXCEPT ![l] = t.rows]
            \/ tab' = tab /\ mem' = [mem EXCEPT ![l] = doc[l]]
            \/ tab' = [tab EXCEPT ![l] = t] /\ \E S \in SUBSET t.rows : mem' = [mem EXCEPT ![l] = S]
  BY <1>4 DEF SaveList
<1>6. Absent(l, here, next) => mem' = mem /\ tab' = tab
  BY DEF Absent
<1>7. CASE /\ l \in DOMAIN doc /\ tab' = [tab EXCEPT ![l] = t]
           /\ \E S \in SUBSET t.rows : mem' = [mem EXCEPT ![l] = S]
  BY <1>3, <1>4, <1>7
<1>8. t.rows \in SUBSET t.rows
  OBVIOUS
<1>9. CASE l \in DOMAIN doc /\ tab' = [tab EXCEPT ![l] = t] /\ mem' = [mem EXCEPT ![l] = t.rows]
  BY <1>7, <1>8, <1>9
<1>10. CASE l \in DOMAIN doc /\ tab' = tab /\ mem' = [mem EXCEPT ![l] = doc[l]]
  BY <1>2, <1>10
<1> QED BY <1>1, <1>5, <1>6, <1>7, <1>9, <1>10

LEMMA HeldLoad == ASSUME Held, LoadPage PROVE Held'
<1>1. PICK p \in Repaired(Page) : Edit(p)
  BY DEF LoadPage
<1>2. LastTag \in Nat
  BY LastTagNat DEF Held
<1>3. PageFits(p, LastTag)
  BY <1>2, PageIs, RepairedFits DEF Held
<1>4. DocFits(doc', LastTag)
  BY <1>1, <1>2, <1>3, EditFits
<1>5. tab' = tab /\ calls' = calls /\ mem' = mem /\ pop' \in Pop
  BY PopSteps DEF LoadPage, ext
<1> QED BY <1>4, <1>5, HeldKept

LEMMA HeldSystemsWrite == ASSUME Held, MemLinked, SystemsWrite PROVE Held'
<1>1. doc' = doc /\ pop' \in Pop
  BY PopSteps, RenumberedIn DEF SystemsWrite, OtherSystems
<1> QED BY <1>1, SystemsHeld, SystemsFail DEF SystemsWrite

LEMMA HeldPutSystems == ASSUME Held, PutSystems PROVE Held'
<1>0. doc' = doc /\ pop' \in Pop /\ tab' = tab /\ calls' = calls
  BY PopSteps DEF PutSystems, Absent, Other, OtherSystems, ext
<1>1. CASE mem' = mem
  BY <1>0, <1>1, HeldKept DEF Held
<1>2. CASE /\ "systems" \in DOMAIN doc
           /\ mem' = [l \in List |-> IF l \in {"systems"} \union Nested THEN doc[l] ELSE mem[l]]
  <2>1. Tables' /\ LastTag' = LastTag
    BY <1>0, TablesKept DEF Held, Tables
  <2>2. \A l \in {"systems"} \union Nested : l \in DOMAIN doc /\ l \in List
    BY <1>2, Names DEF Held, DocFits
  <2>3. ASSUME NEW l \in List
        PROVE  Fits(l, mem'[l], LastTag)
    <3>1. CASE l \in {"systems"} \union Nested
      BY <1>2, <2>2, <3>1 DEF Held, DocFits
    <3>2. CASE l \notin {"systems"} \union Nested
      BY <1>2, <3>2 DEF Held, Memory
    <3> QED BY <3>1, <3>2
  <2>4. mem' = [l \in List |-> mem'[l]]
    BY <1>2
  <2>5. Memory'
    BY <2>1, <2>3, <2>4, ListsSet
  <2> QED BY <1>0, <2>1, <2>5 DEF Held
<1> QED BY <1>1, <1>2 DEF PutSystems, Absent

LEMMA HeldPut == ASSUME Held, MemLinked, Put PROVE Held'
<1>0. \A l \in {"access", "apikeys", "dirwatch", "downstreams", "groups", "tags"} : l \in Flat
  BY Names
<1>1. CASE PutAccess
  <2>1. doc' = doc /\ pop' \in Pop /\ pop' = pop
    BY <1>1, PopSteps DEF PutAccess, ext
  <2>2. FromMap("access") \/ UNCHANGED <<mem, tab, calls>>
    BY <1>1 DEF PutAccess
  <2> QED BY <1>0, <2>1, <2>2, HeldFromMap, HeldKept DEF Held
<1>2. CASE RefuseCode
  BY <1>2, NoDocFits, PopSteps, HeldKept DEF RefuseCode, ext
<1>3. CASE AccessWrite
  BY <1>0, <1>3, HeldWriteStep DEF AccessWrite
<1>4. CASE AccessRead
  BY <1>0, <1>4, HeldReadStep DEF AccessRead
<1>5. CASE StopDirwatches
  <2>1. Fits("dirwatch", {}, LastTag)
    BY FS_EmptySet DEF Fits
  <2>2. tab' = tab /\ calls' = calls /\ doc' = doc /\ pop' \in Pop /\ mem' = [mem EXCEPT !["dirwatch"] = {}]
    BY <1>5, PopSteps DEF StopDirwatches, ext
  <2> QED BY <2>1, <2>2, HeldSet, Names
<1>6. CASE SaveApikeys
  BY <1>0, <1>6, HeldSaveList DEF SaveApikeys
<1>7. CASE SaveDirwatches
  BY <1>0, <1>7, HeldSaveList DEF SaveDirwatches
<1>8. CASE SaveDownstreams
  BY <1>0, <1>8, HeldSaveList DEF SaveDownstreams
<1>9. ASSUME NEW l \in {"groups", "tags"}, NEW here, NEW write, NEW next, Other,
             (Go(here, write) /\ FromMap(l) /\ NoFault) \/ Absent(l, here, next)
      PROVE  Held'
  <2>1. doc' = doc /\ pop' \in Pop /\ pop' = pop
    BY <1>9, PopSteps DEF Other, ext
  <2>2. CASE FromMap(l)
    BY <1>0, <2>1, <2>2, HeldFromMap
  <2>3. CASE Absent(l, here, next)
    BY <2>1, <2>3, HeldKept DEF Absent, Held
  <2> QED BY <1>9, <2>2, <2>3
<1>10. CASE PutGroups
  BY <1>9, <1>10 DEF PutGroups
<1>11. CASE GroupsWrite
  BY <1>0, <1>11, HeldWriteStep DEF GroupsWrite
<1>12. CASE GroupsRead
  BY <1>0, <1>12, HeldReadStep DEF GroupsRead
<1>13. CASE SaveOptions
  BY <1>13, PopSteps, HeldKept DEF SaveOptions, ext, Held
<1>14. CASE PutSystems
  BY <1>14, HeldPutSystems
<1>15. CASE SystemsWrite
  BY <1>15, HeldSystemsWrite
<1>16. CASE SystemsRead
  BY <1>16, PopSteps, HeldReadSystems DEF SystemsRead, OtherSystems
<1>17. CASE PutTags
  BY <1>9, <1>17 DEF PutTags
<1>18. CASE TagsWrite
  BY <1>0, <1>18, HeldWriteStep DEF TagsWrite
<1>19. CASE TagsRead
  BY <1>0, <1>19, HeldReadStep DEF TagsRead
<1>20. CASE Finish
  BY <1>20, NoDocFits, PopSteps, HeldKept DEF Finish, ext
<1> QED BY <1>1, <1>2, <1>3, <1>4, <1>5, <1>6, <1>7, <1>8, <1>10, <1>11, <1>12, <1>13, <1>14,
           <1>15, <1>16, <1>17, <1>18, <1>19, <1>20 DEF Put

LEMMA HeldPopulate ==
  ASSUME Held, NEW l \in {"groups", "tags"}, NEW k \in Nat,
         NEW here, NEW write \in PopAt, NEW read \in PopAt, NEW next \in PopAt,
         Ensure(l, k, here, write, next) \/ EnsureWrite(l, write, read) \/ EnsureRead(l, read, next)
  PROVE  Held'
<1>0. l \in Flat /\ l \in List
  BY Names
<1>1. CASE Ensure(l, k, here, write, next)
  <2>1. doc' = doc /\ pop' \in Pop /\ tab' = tab /\ calls' = calls
    BY <1>1, PopSteps DEF Ensure, Rest
  <2>2. CASE mem' = mem
    BY <2>1, <2>2, HeldKept DEF Held
  <2>3. CASE mem' # mem
    <3>1. PICK S : S = mem[l] \union {[id |-> New, sys |-> 0, key |-> k, tag |-> 0]}
      OBVIOUS
    <3>2. mem' = [mem EXCEPT ![l] = S]
      BY <1>1, <2>3, <3>1 DEF Ensure
    <3> QED BY <1>0, <2>1, <3>1, <3>2, NewFits, HeldSet
  <2> QED BY <2>2, <2>3
<1>2. CASE EnsureWrite(l, write, read)
  <2>1. doc' = doc /\ pop' \in Pop /\ mem' = mem
    BY <1>2, PopSteps DEF EnsureWrite, Rest
  <2>2. CASE WriteList(l)
    BY <1>0, <2>1, <2>2, HeldWrite
  <2>3. CASE UNCHANGED <<tab, calls>>
    BY <2>1, <2>3, HeldKept DEF Held
  <2> QED BY <1>2, <2>2, <2>3 DEF EnsureWrite
<1>3. CASE EnsureRead(l, read, next)
  <2>1. doc' = doc /\ pop' \in Pop /\ tab' = tab /\ calls' = calls
    BY <1>3, PopSteps DEF EnsureRead, Rest
  <2>2. ReadList(l) \/ ReadPart(l)
    BY <1>3 DEF EnsureRead
  <2> QED BY <1>0, <2>1, <2>2, HeldRead
<1> QED BY <1>1, <1>2, <1>3

LEMMA HeldArrive == ASSUME Held, NEW s \in mem["systems"], NEW a \in Arrival, Arrive(s, a) PROVE Held'
<1>1. s.id \in Nat /\ s.key \in Nat
  BY Names DEF Held, Memory, Fits, Elem
<1>2. a.key \in Nat /\ a.group \in Nat /\ a.tag \in Nat
  BY AdminSaveAssumption
<1>3. pop' \in Pop
  BY <1>1, <1>2 DEF Arrive, Pop, PopAt
<1> QED BY <1>3, HeldKept DEF Arrive, Held

LEMMA HeldTalkgroup == ASSUME Held, PopulateTalkgroup PROVE Held'
<1>1. doc' = doc /\ pop' \in Pop /\ tab' = tab /\ calls' = calls
  BY PopSteps DEF PopulateTalkgroup, Rest, PopAt
<1>2. CASE mem' = mem
  BY <1>1, <1>2, HeldKept DEF Held
<1>3. CASE mem' # mem
  <2>1. PICK e : e = [id |-> New, sys |-> pop.sys, key |-> pop.key, tag |-> TagId(pop.tag)]
    OBVIOUS
  <2>2. PICK S : S = mem["talkgroups"] \union {e}
    OBVIOUS
  <2>3. mem' = [mem EXCEPT !["talkgroups"] = S]
    BY <1>3, <2>1, <2>2 DEF PopulateTalkgroup
  <2>4. Elem(e, TagsIn("talkgroups", LastTag))
    BY <2>1, TagIdIn, PopIs DEF Elem, TagsIn, Held
  <2>5. Fits("talkgroups", {e}, LastTag)
    BY <2>4, FitsOne
  <2>6. Fits("talkgroups", S, LastTag)
    BY <2>2, <2>5, FitsAdd, Names DEF Held, Memory
  <2> QED BY <1>1, <2>3, <2>6, HeldSet, Names
<1> QED BY <1>2, <1>3

LEMMA HeldPopulateRead == ASSUME Held, PopulateRead PROVE Held'
<1>1. doc' = doc /\ tab' = tab /\ calls' = calls /\ (ReadSystems \/ ReadSystemsPart)
  BY DEF PopulateRead, Rest
<1>2. pop' \in Pop
  <2>1. ASSUME NEW r \in tab["talkgroups"].rows, pop' = [pop EXCEPT !.at = "store", !.id = r.id]
        PROVE  pop' \in Pop
    <3>1. r.id \in Nat
      BY TabFacts, Names DEF Held, Tables, Row
    <3> QED BY <2>1, <3>1 DEF Held, Pop, PopAt
  <2> QED BY <2>1, PopSteps DEF PopulateRead
<1> QED BY <1>1, <1>2, HeldReadSystems

LEMMA HeldStore == ASSUME Held, StoreCall PROVE Held'
<1>1. doc' = doc /\ pop' \in Pop /\ tab' = tab /\ mem' = mem
  BY PopSteps DEF StoreCall, Rest
<1>2. calls' \subseteq Ids(tab["talkgroups"].rows)
  BY DEF StoreCall, Held, Tables
<1>3. Tables' /\ LastTag' = LastTag
  BY <1>1, <1>2, TablesKept DEF Held
<1> QED BY <1>1, <1>3 DEF Held, Memory

LEMMA HeldIngestion == ASSUME Held, MemLinked, Ingestion PROVE Held'
<1>0. /\ pop.group \in Nat /\ pop.tag \in Nat
      /\ {"group.write", "group.read", "tag", "tag.write", "tag.read", "talkgroup"} \subseteq PopAt
  BY PopIs DEF Held, PopAt
<1>1. CASE PopulateGroups
  BY <1>0, <1>1, HeldPopulate DEF PopulateGroups
<1>2. CASE PopulateTag
  BY <1>0, <1>2, HeldPopulate DEF PopulateTag
<1>3. CASE PopulateWrite
  <2>1. doc' = doc /\ pop' \in Pop
    BY <1>3, PopSteps DEF PopulateWrite, Rest, PopAt
  <2> QED BY <1>3, <2>1, SystemsHeld, SystemsFail DEF PopulateWrite
<1> QED BY <1>1, <1>2, <1>3, HeldArrive, HeldTalkgroup, HeldPopulateRead, HeldStore DEF Ingestion

LEMMA HeldUser ==
  ASSUME Held, \/ \E k \in Key : UserAdd(k)
               \/ \E e \in mem["access"] : UserRemove(e)
               \/ UserWrite \/ UserRead
  PROVE  Held'
<1>0. "access" \in Flat /\ "access" \in List /\ Fits("access", mem["access"], LastTag)
  BY Names DEF Held, Memory
<1>1. doc' = doc /\ pop' \in Pop
  BY PopSteps DEF UserAdd, UserRemove, UserWrite, UserRead
<1>2. ASSUME NEW k \in Key, UserAdd(k) PROVE Held'
  <2>1. tab' = tab /\ calls' = calls
    BY <1>2 DEF UserAdd
  <2>2. PICK S : /\ mem' = [mem EXCEPT !["access"] = S]
                 /\ \/ S = mem["access"]
                    \/ S = mem["access"] \union {[id |-> New, sys |-> 0, key |-> k, tag |-> 0]}
    BY <1>2 DEF UserAdd
  <2>3. k \in Nat
    BY AdminSaveAssumption
  <2>4. Fits("access", S, LastTag)
    BY <1>0, <2>2, <2>3, NewFits
  <2> QED BY <1>0, <1>1, <2>1, <2>2, <2>4, HeldSet
<1>3. ASSUME NEW e, UserRemove(e) PROVE Held'
  <2>1. PICK S : S = mem["access"] \ {e}
    OBVIOUS
  <2>2. Fits("access", S, LastTag)
    BY <1>0, <2>1, FitsSubset
  <2>3. tab' = tab /\ calls' = calls /\ mem' = [mem EXCEPT !["access"] = S]
    BY <1>3, <2>1 DEF UserRemove
  <2> QED BY <1>0, <1>1, <2>2, <2>3, HeldSet
<1>4. CASE UserWrite
  <2>1. mem' = mem /\ (WriteList("access") \/ UNCHANGED <<tab, calls>>)
    BY <1>4 DEF UserWrite
  <2> QED BY <1>0, <1>1, <2>1, HeldWrite, HeldKept DEF Held
<1>5. CASE UserRead
  BY <1>0, <1>1, <1>5, HeldRead DEF UserRead
<1> QED BY <1>2, <1>3, <1>4, <1>5

LEMMA HeldRestart == ASSUME Held, Restart PROVE Held'
<1>1. /\ mem' = [l \in List |-> tab[l].rows] /\ tab' = tab /\ calls' = calls
      /\ doc' = NoDoc /\ pop' = NoCall
  BY DEF Restart
<1>2. Tables' /\ LastTag' = LastTag
  BY <1>1, TablesKept DEF Held, Tables
<1>3. mem' = [l \in List |-> mem'[l]] /\ \A l \in List : mem'[l] = tab[l].rows
  BY <1>1
<1>4. \A l \in List : Fits(l, mem'[l], LastTag)
  BY <1>3, RowsFit DEF Held, Tables, LastTag
<1>5. Memory'
  BY <1>2, <1>3, <1>4, ListsSet
<1> QED BY <1>1, <1>2, <1>5, NoDocFits, NoCallIn DEF Held

LEMMA HeldNext == Held /\ MemLinked /\ [Next]_vars => Held'
<1> SUFFICES ASSUME Held, MemLinked, [Next]_vars PROVE Held'
  OBVIOUS
<1>1. CASE UNCHANGED vars
  BY <1>1, PopSteps, HeldKept DEF vars, ext, Held
<1> QED BY <1>1, HeldLoad, HeldPut, HeldIngestion, HeldUser, HeldRestart DEF Next

-----------------------------------------------------------------------------
(* The elements in memory and those the page sends are linked to the rows  *)
(* of the tables by their ids, at every step: an id is that of one element *)
(* of a list and was given to a row before, and what is nested in a system *)
(* is nested in the system that its row belongs to.  Without it a Write    *)
(* could give two elements the same row.                                   *)

(* What the page sends is linked to the tables like what is in memory, and *)
(* a call that is ingested refers to a system that is there.               *)
DocLinked(d, t) ==
  /\ \A l \in (DOMAIN d \intersect List) \ {"units"} : Known(d[l], t[l])
  /\ "systems" \in DOMAIN d => Joined(d, t)

Early == {"group", "group.write", "group.read", "tag", "tag.write", "tag.read", "talkgroup"}

PopLinked ==
  /\ pop.at \in Early /\ ~pop.orphan => pop.sys \in Ids(mem["systems"])
  /\ pop.at = "store" => pop.id \in 1..tab["talkgroups"].last

Linked == MemLinked /\ DocLinked(doc, tab) /\ PopLinked

(* Tables only get rows under ids that were not given before, and the rows *)
(* of sites and talkgroups stay in their systems.                          *)
GrewTo(t, u) ==
  /\ \A l \in List : t[l].last \in Nat /\ u[l].last \in Nat /\ t[l].last <= u[l].last
  /\ \A l \in {"sites", "talkgroups"} : \A r \in u[l].rows :
       r.id > t[l].last \/ \E q \in t[l].rows : q.id = r.id /\ q.sys = r.sys

LEMMA KnownMore ==
  ASSUME NEW t, NEW u, GrewTo(t, u), NEW l \in List, NEW S, Known(S, t[l])
  PROVE  Known(S, u[l])
BY DEF GrewTo, Known

LEMMA JoinedMore ==
  ASSUME NEW t, NEW u, GrewTo(t, u), NEW S, Joined(S, t),
         Known(S["sites"], t["sites"]), Known(S["talkgroups"], t["talkgroups"])
  PROVE  Joined(S, u)
<1>1. ASSUME NEW l \in {"sites", "talkgroups"}, NEW e \in S[l], NEW r \in u[l].rows, e.id = r.id
      PROVE  e.sys = r.sys
  <2>1. l \in List
    BY Names
  <2>2. e.id \in 0..t[l].last /\ t[l].last \in Nat
    BY <2>1 DEF Known, GrewTo
  <2>3. ~ r.id > t[l].last
    BY <1>1, <2>2
  <2>4. PICK q \in t[l].rows : q.id = r.id /\ q.sys = r.sys
    BY <2>3 DEF GrewTo
  <2> QED BY <1>1, <2>4 DEF Joined
<1> QED BY <1>1 DEF Joined

LEMMA LinkedMore ==
  ASSUME NEW t, NEW u, GrewTo(t, u), NEW S, LinkedTo(S, t)
  PROVE  LinkedTo(S, u)
<1>1. Known(S["sites"], t["sites"]) /\ Known(S["talkgroups"], t["talkgroups"])
  BY Names DEF LinkedTo
<1> QED BY <1>1, KnownMore, JoinedMore DEF LinkedTo

LEMMA DocMore ==
  ASSUME NEW t, NEW u, GrewTo(t, u), NEW d, NEW n, DocFits(d, n), DocLinked(d, t)
  PROVE  DocLinked(d, u)
<1>1. ASSUME "systems" \in DOMAIN d
      PROVE  Joined(d, u)
  <2>1. Known(d["sites"], t["sites"]) /\ Known(d["talkgroups"], t["talkgroups"])
    BY <1>1, Names DEF DocLinked, DocFits
  <2> QED BY <1>1, <2>1, JoinedMore DEF DocLinked
<1> QED BY <1>1, KnownMore DEF DocLinked

LEMMA NoDocLinked == ASSUME NEW t PROVE DocLinked(NoDoc, t)
BY DEF DocLinked, NoDoc

LEMMA GrewSame ==
  ASSUME Tables
  PROVE  GrewTo(tab, tab)
<1>1. \A l \in List : tab[l].last \in Nat
  BY TabFacts DEF Tables
<1> QED BY <1>1 DEF GrewTo

LEMMA FlatGrew ==
  ASSUME Tables, NEW l \in Flat, NEW list, NEW c, OnlyWrites(l, list, c)
  PROVE  GrewTo(tab, c)
<1>1. \A k \in List : tab[k].last \in Nat /\ c[k].last \in Nat
  BY TabFacts DEF Tables, OnlyWrites
<1>2. \A k \in List : tab[k].last <= c[k].last
  BY <1>1 DEF OnlyWrites
<1>3. c["sites"] = tab["sites"] /\ c["talkgroups"].rows \subseteq tab["talkgroups"].rows
  BY Names DEF OnlyWrites
<1> QED BY <1>1, <1>2, <1>3 DEF GrewTo

(* Rows are known.                                                         *)
LEMMA RowsKnown ==
  ASSUME NEW t, Tabs(t), NEW l \in List, NEW S \in SUBSET t[l].rows
  PROVE  Known(S, t[l])
<1>1. /\ \A r \in t[l].rows : r.id \in 1..t[l].last
      /\ \A r, q \in t[l].rows : r.id = q.id => r = q
      /\ t[l].last \in Nat
  BY TabFacts
<1> QED BY <1>1 DEF Known

SystemsTables(c) ==
  /\ \A l \in Flat : c[l] = tab[l]
  /\ c["systems"] = SystemsTable
  /\ \A l \in Nested : c[l].last = NestedTable(l).last /\ c[l].rows \subseteq NestedTable(l).rows

(* Whatever row a Write of systems leaves is new, or of the system that    *)
(* the row was of.                                                         *)
LEMMA NestedRows ==
  ASSUME Tables, Memory, MemLinked, NEW l \in {"sites", "talkgroups"}, NEW r \in NestedTable(l).rows
  PROVE  \/ r \in tab[l].rows
         \/ \E e \in mem[l] : e.id \in Ids(tab[l].rows) /\ r = Placed(e) /\ r.id = e.id
                              /\ \E q \in tab[l].rows : q.id = r.id /\ q.sys = r.sys
         \/ r.id > tab[l].last
<1>0. l \in Nested /\ NestedIs(l, mem["systems"], NestedTable(l))
  BY NestedTableIs, Names
<1>1. CASE r \in Base(l).rows
  BY <1>0, <1>1, BaseIs
<1>2. CASE \E s \in mem["systems"] : \E x \in Under(l, s) : x.id \in Ids(tab[l].rows) /\ r = x
  <2>1. PICK s \in mem["systems"] : r \in Under(l, s) /\ r.id \in Ids(tab[l].rows)
    BY <1>2
  <2>2. PICK e \in mem[l] : r = Placed(e)
    BY <1>0, <2>1, AllUnder
  <2>3. r.id = e.id
    <3>1. l \in List /\ \E V : Elem(e, V)
      BY <1>0, Names DEF Memory, Fits
    <3> QED BY <2>2, <3>1, ElemSet DEF Placed
  <2>4. PICK q \in tab[l].rows : q.id = r.id
    BY <2>1 DEF Ids
  <2>5. q.sys = r.sys
    BY <2>1, <2>4, UnderIs
  <2> QED BY <2>1, <2>2, <2>3, <2>4, <2>5
<1>3. CASE r.id > tab[l].last
  BY <1>3
<1> QED BY <1>0, <1>1, <1>2, <1>3 DEF NestedIs

LEMMA SystemsGrew ==
  ASSUME Tables, Memory, MemLinked, NEW c, SystemsTables(c)
  PROVE  GrewTo(tab, c)
<1>1. ASSUME NEW l \in List
      PROVE  tab[l].last \in Nat /\ c[l].last \in Nat /\ tab[l].last <= c[l].last
  <2>1. tab[l].last \in Nat
    BY TabFacts DEF Tables
  <2>2. CASE l \in Flat
    BY <2>1, <2>2 DEF SystemsTables
  <2>3. CASE l = "systems"
    BY <2>1, <2>3, SystemIds DEF SystemsTables
  <2>4. CASE l \in Nested
    BY <2>1, <2>4, NestedGrow DEF SystemsTables, TableOf
  <2> QED BY <2>2, <2>3, <2>4, Names
<1>2. ASSUME NEW l \in {"sites", "talkgroups"}, NEW r \in c[l].rows
      PROVE  r.id > tab[l].last \/ \E q \in tab[l].rows : q.id = r.id /\ q.sys = r.sys
  <2>1. r \in NestedTable(l).rows
    BY Names DEF SystemsTables
  <2> QED BY <2>1, NestedRows
<1> QED BY <1>1, <1>2 DEF GrewTo

LEMMA AssignedLinked ==
  ASSUME Tables, Memory, MemLinked, NEW c,
         \A l \in List \ ({"systems"} \union Nested) : c[l].last = tab[l].last,
         c["systems"].last = SystemsTable.last, c["talkgroups"].last = TalkgroupsTable.last,
         c["sites"].last \in Nat /\ tab["sites"].last <= c["sites"].last,
         \A l \in {"sites", "talkgroups"} : c[l].rows \subseteq NestedTable(l).rows \/ c[l].rows \subseteq tab[l].rows
  PROVE  LinkedTo(Assigned, c)
<1>0. {"systems", "sites", "talkgroups", "units"} \subseteq List /\ {"sites", "talkgroups"} \subseteq Nested
  BY Names
<1>1. PICK tg : /\ Assigned["talkgroups"] = {Stored(Placed(e), tg[e]) : e \in mem["talkgroups"]}
                /\ \A e \in mem["talkgroups"] :
                     /\ e.id \in Ids(tab["talkgroups"].rows) => tg[e] = e.id
                     /\ e.id \notin Ids(tab["talkgroups"].rows) =>
                          /\ tg[e] > tab["talkgroups"].last /\ tg[e] \in 1..TalkgroupsTable.last
                          /\ Stored(Placed(e), tg[e]) \in TalkgroupsTable.rows
  BY AssignedIs
<1>2. /\ Assigned["systems"] = {Stored(e, IdOf(e.id)) : e \in mem["systems"]}
      /\ \A l \in {"sites", "units"} : Assigned[l] = {Placed(e) : e \in mem[l]}
      /\ \A l \in Flat : Assigned[l] = mem[l]
  BY AssignedIs
<1>3. ASSUME NEW l \in List, NEW e \in mem[l]
      PROVE  /\ \A i : Stored(e, i).id = i
             /\ Placed(e).id = e.id /\ Placed(e).sys = IdOf(e.sys)
             /\ \A i : Stored(Placed(e), i).id = i /\ Stored(Placed(e), i).sys = IdOf(e.sys)
  <2>1. PICK V : V = TagsIn(l, LastTag)
    OBVIOUS
  <2>2. Elem(e, V)
    BY <2>1 DEF Memory, Fits
  <2>3. Placed(e) = [id |-> e.id, sys |-> IdOf(e.sys), key |-> e.key, tag |-> e.tag]
    BY <2>2, ElemSet DEF Placed
  <2> QED BY <2>2, <2>3, ElemSet DEF Stored
<1>4. Known(Assigned["systems"], c["systems"])
  <2>1. \A s \in mem["systems"] : Stored(s, IdOf(s.id)).id \in 1..c["systems"].last
    BY <1>0, <1>3, SystemIds
  <2>2. \A s, q \in mem["systems"] : Stored(s, IdOf(s.id)).id = Stored(q, IdOf(q.id)).id => s = q
    BY <1>0, <1>3, SystemIds
  <2> QED BY <1>2, <2>1, <2>2 DEF Known
<1>5. \A s, q \in Assigned["systems"] : s.id = q.id => s = q
  BY <1>0, <1>2, <1>3, SystemIds
<1>6. \A e : (\E s \in mem["systems"] : s.id = e) => IdOf(e) \in Ids(Assigned["systems"])
  <2>1. ASSUME NEW s \in mem["systems"]
        PROVE  IdOf(s.id) \in Ids(Assigned["systems"])
    <3>1. PICK x \in Assigned["systems"] : x = Stored(s, IdOf(s.id))
      BY <1>2
    <3>2. x.id = IdOf(s.id)
      BY <1>0, <1>3, <3>1
    <3> QED BY <3>2 DEF Ids
  <2> QED BY <2>1
<1>7. ASSUME NEW l \in Nested, NEW x \in Assigned[l]
      PROVE  x.sys \in Ids(Assigned["systems"])
  <2>1. PICK e \in mem[l] : x.sys = IdOf(e.sys)
    BY <1>0, <1>1, <1>2, <1>3, Names
  <2>2. \E s \in mem["systems"] : s.id = e.sys
    BY DEF MemLinked, LinkedTo, Joined, Ids
  <2> QED BY <1>6, <2>1, <2>2
<1>8. ASSUME NEW l \in {"sites", "talkgroups"}, NEW e \in mem[l], NEW r \in c[l].rows,
             r.id = e.id, e.id \in Ids(tab[l].rows)
      PROVE  IdOf(e.sys) = r.sys
  <2>1. PICK q \in tab[l].rows : q.id = e.id
    BY <1>8 DEF Ids
  <2>2. e.sys = q.sys
    BY <2>1 DEF MemLinked, LinkedTo, Joined
  <2>3. e.sys \in Ids(tab["systems"].rows)
    BY <1>0, <2>2 DEF Tables, Refers
  <2>4. IdOf(e.sys) = q.sys
    <3>1. PICK s \in mem["systems"] : s.id = e.sys
      BY <1>0 DEF MemLinked, LinkedTo, Joined, Ids
    <3> QED BY <2>2, <2>3, <3>1, SystemIds
  <2>5. l \in List /\ \A a, b \in tab[l].rows : a.id = b.id => a = b
    BY <1>0, TabFacts DEF Tables
  <2>6. CASE r \in tab[l].rows
    BY <1>8, <2>1, <2>4, <2>5, <2>6
  <2>7. CASE r \in NestedTable(l).rows
    <3>1. q.id \in 1..tab[l].last /\ tab[l].last \in Nat
      BY <2>5, TabFacts DEF Tables
    <3>2. r.id = q.id /\ ~ r.id > tab[l].last
      BY <1>8, <2>1, <3>1
    <3>3. r \in tab[l].rows \/ \E p \in tab[l].rows : p.id = r.id /\ p.sys = r.sys
      BY <2>7, <3>2, NestedRows
    <3> QED BY <2>4, <2>5, <3>2, <3>3
  <2> QED BY <2>6, <2>7
<1>9. ASSUME NEW l \in {"sites", "talkgroups"}, NEW r \in c[l].rows
      PROVE  \/ r.id \in Ids(tab[l].rows) /\ r.id \in 1..tab[l].last
             \/ r.id > tab[l].last /\ r \in NestedTable(l).rows
  <2>1. l \in List /\ \A q \in tab[l].rows : q.id \in 1..tab[l].last
    BY <1>0, TabFacts DEF Tables
  <2>2. CASE r \in tab[l].rows
    BY <2>1, <2>2 DEF Ids
  <2>3. CASE r \in NestedTable(l).rows
    BY <2>1, <2>3, NestedRows DEF Ids
  <2> QED BY <2>2, <2>3
<1>10. /\ tab["sites"].last \in Nat /\ tab["talkgroups"].last \in Nat /\ TalkgroupsTable.last \in Nat
       /\ tab["talkgroups"].last <= TalkgroupsTable.last
       /\ \A l \in List : \A q \in tab[l].rows : q.id \in 1..tab[l].last
  <2>1. \A l \in List : tab[l].last \in Nat /\ \A q \in tab[l].rows : q.id \in 1..tab[l].last
    BY TabFacts DEF Tables
  <2> QED BY <1>0, <2>1, NestedGrow DEF TalkgroupsTable, TableOf
<1>11. \A l \in {"sites", "talkgroups"} : Known(mem[l], tab[l])
  BY <1>0 DEF MemLinked, LinkedTo
<1>12. Known(Assigned["sites"], c["sites"])
  <2>1. \A e \in mem["sites"] : Placed(e).id = e.id
    BY <1>0, <1>3
  <2> QED BY <1>2, <1>10, <1>11, <2>1 DEF Known
<1>13. \A e \in Assigned["sites"], r \in c["sites"].rows : e.id = r.id => e.sys = r.sys
  <2>1. ASSUME NEW e \in mem["sites"], NEW r \in c["sites"].rows, e.id = r.id
        PROVE  IdOf(e.sys) = r.sys
    BY <1>8, <1>9, <1>10, <1>11, <2>1 DEF Known
  <2>2. \A e \in mem["sites"] : Placed(e).id = e.id /\ Placed(e).sys = IdOf(e.sys)
    BY <1>0, <1>3
  <2> QED BY <1>2, <2>1, <2>2
<1>14. ASSUME NEW e \in mem["talkgroups"]
       PROVE  /\ tg[e] \in 0..TalkgroupsTable.last
              /\ Stored(Placed(e), tg[e]).id = tg[e] /\ Stored(Placed(e), tg[e]).sys = IdOf(e.sys)
              /\ e.id \in Ids(tab["talkgroups"].rows) => tg[e] = e.id /\ tg[e] <= tab["talkgroups"].last
              /\ e.id \notin Ids(tab["talkgroups"].rows) => tg[e] > tab["talkgroups"].last
  BY <1>0, <1>1, <1>3, <1>10, <1>11 DEF Known, Ids
<1>15. \A r, q \in TalkgroupsTable.rows : r.id = q.id => r = q
  BY <1>0, NestedGrow DEF TalkgroupsTable, TableOf
<1>16. ASSUME NEW e \in mem["talkgroups"], NEW d \in mem["talkgroups"], tg[e] = tg[d], tg[e] # New
       PROVE  Stored(Placed(e), tg[e]) = Stored(Placed(d), tg[d])
  <2>1. CASE e.id \in Ids(tab["talkgroups"].rows)
    <3>1. d.id \in Ids(tab["talkgroups"].rows)
      BY <1>10, <1>14, <1>16, <2>1
    <3>2. e = d
      BY <1>11, <1>14, <1>16, <2>1, <3>1 DEF Known
    <3> QED BY <3>2
  <2>2. CASE e.id \notin Ids(tab["talkgroups"].rows)
    <3>1. d.id \notin Ids(tab["talkgroups"].rows)
      BY <1>10, <1>14, <1>16, <2>2
    <3>2. /\ Stored(Placed(e), tg[e]) \in TalkgroupsTable.rows /\ Stored(Placed(d), tg[d]) \in TalkgroupsTable.rows
          /\ Stored(Placed(e), tg[e]).id = tg[e] /\ Stored(Placed(d), tg[d]).id = tg[d]
      BY <1>1, <1>14, <2>2, <3>1
    <3> QED BY <1>15, <1>16, <3>2
  <2> QED BY <2>1, <2>2
<1>17. Known(Assigned["talkgroups"], c["talkgroups"])
  BY <1>1, <1>14, <1>16 DEF Known
<1>18. ASSUME NEW e \in mem["talkgroups"], NEW r \in c["talkgroups"].rows, tg[e] = r.id
       PROVE  IdOf(e.sys) = r.sys
  <2>1. CASE e.id \in Ids(tab["talkgroups"].rows)
    BY <1>8, <1>14, <1>18, <2>1
  <2>2. CASE e.id \notin Ids(tab["talkgroups"].rows)
    <3>1. tg[e] > tab["talkgroups"].last
      BY <1>14, <2>2
    <3>2. r \in TalkgroupsTable.rows
      BY <1>9, <1>10, <1>18, <3>1 DEF TalkgroupsTable
    <3>3. Stored(Placed(e), tg[e]) \in TalkgroupsTable.rows
      BY <1>1, <2>2
    <3> QED BY <1>14, <1>15, <1>18, <3>2, <3>3
  <2> QED BY <2>1, <2>2
<1>19. \A e \in Assigned["talkgroups"], r \in c["talkgroups"].rows : e.id = r.id => e.sys = r.sys
  BY <1>1, <1>14, <1>18
<1>20. Joined(Assigned, c)
  BY <1>5, <1>7, <1>13, <1>19 DEF Joined
<1>21. \A l \in Flat : Known(Assigned[l], c[l])
  BY <1>2, Names DEF MemLinked, LinkedTo, Known
<1> QED BY <1>4, <1>12, <1>17, <1>20, <1>21, Names DEF LinkedTo

(* What an administrator does to the page keeps it linked to the tables.   *)
LEMMA LessLinked ==
  ASSUME NEW t, NEW p, LinkedTo(p, t), NEW q, \A l \in List : q[l] \subseteq p[l],
         \A l \in Nested : \A e \in q[l] : e.sys \in Ids(q["systems"])
  PROVE  LinkedTo(q, t)
<1>1. \A l \in List \ {"units"} : Known(q[l], t[l])
  BY DEF LinkedTo, Known
<1>2. q["systems"] \subseteq p["systems"] /\ q["sites"] \subseteq p["sites"]
      /\ q["talkgroups"] \subseteq p["talkgroups"]
  BY Names
<1>3. Joined(q, t)
  BY <1>2 DEF LinkedTo, Joined
<1> QED BY <1>1, <1>3 DEF LinkedTo

(* One list changes, and what takes the place of an element keeps its id   *)
(* and its system.                                                         *)
LEMMA ChangedLinked ==
  ASSUME NEW t, NEW p, LinkedTo(p, t), NEW q, NEW l \in List, \A k \in List \ {l} : q[k] = p[k],
         NEW f, q[l] = {f[e] : e \in p[l]}, \A e \in p[l] : f[e].id = e.id /\ f[e].sys = e.sys
  PROVE  LinkedTo(q, t)
<1>1. Ids(q["systems"]) = Ids(p["systems"])
  BY Names DEF Ids
<1>2. ASSUME NEW k \in List \ {"units"}
      PROVE  Known(q[k], t[k])
  <2>1. Known(p[k], t[k])
    BY DEF LinkedTo
  <2>2. CASE k = l
    BY <2>1, <2>2 DEF Known
  <2> QED BY <2>1, <2>2
<1>3. \A s, d \in q["systems"] : s.id = d.id => s = d
  <2>1. \A s, d \in p["systems"] : s.id = d.id => s = d
    BY DEF LinkedTo, Joined
  <2>2. CASE l = "systems"
    BY <2>1, <2>2
  <2> QED BY <2>1, <2>2, Names
<1>4. ASSUME NEW k \in Nested, NEW x \in q[k]
      PROVE  \E e \in p[k] : e.id = x.id /\ e.sys = x.sys
  <2>1. CASE k = l
    BY <2>1
  <2> QED BY <2>1, Names
<1>5. Joined(q, t)
  BY <1>1, <1>3, <1>4, Names DEF LinkedTo, Joined
<1> QED BY <1>2, <1>5 DEF LinkedTo

LEMMA AddedLinked ==
  ASSUME NEW t, Tabs(t), NEW p, LinkedTo(p, t), NEW q, NEW l \in List, \A k \in List \ {l} : q[k] = p[k],
         NEW n, n.id = New, q[l] = p[l] \union {n}, l \in Nested => n.sys \in Ids(p["systems"]),
         l = "systems" => New \notin Ids(p["systems"])
  PROVE  LinkedTo(q, t)
<1>0. \A k \in List : t[k].last \in Nat /\ \A r \in t[k].rows : r.id # New
  <2>1. \A k \in List : t[k].last \in Nat /\ \A r \in t[k].rows : r.id \in 1..t[k].last
    BY TabFacts
  <2> QED BY <2>1 DEF New
<1>1. ASSUME NEW k \in List \ {"units"}
      PROVE  Known(q[k], t[k])
  <2>1. Known(p[k], t[k])
    BY DEF LinkedTo
  <2>2. CASE k = l
    BY <1>0, <2>1, <2>2 DEF Known, New
  <2> QED BY <2>1, <2>2
<1>2. Ids(p["systems"]) \subseteq Ids(q["systems"])
  BY Names DEF Ids
<1>3. \A s, d \in q["systems"] : s.id = d.id => s = d
  <2>1. \A s, d \in p["systems"] : s.id = d.id => s = d
    BY DEF LinkedTo, Joined
  <2>2. CASE l = "systems"
    BY <2>1, <2>2 DEF Ids
  <2> QED BY <2>1, <2>2, Names
<1>4. ASSUME NEW k \in Nested, NEW x \in q[k]
      PROVE  x \in p[k] \/ (x.id = New /\ x.sys \in Ids(p["systems"]))
  <2>1. CASE k = l
    BY <2>1
  <2> QED BY <2>1, Names
<1>5. \A k \in Nested : \A x \in q[k] : x.sys \in Ids(q["systems"])
  BY <1>2, <1>4 DEF LinkedTo, Joined
<1>6. \A k \in {"sites", "talkgroups"} : \A x \in q[k], r \in t[k].rows : x.id = r.id => x.sys = r.sys
  BY <1>0, <1>4, Names DEF LinkedTo, Joined
<1>7. Joined(q, t)
  BY <1>3, <1>5, <1>6 DEF Joined
<1> QED BY <1>1, <1>7 DEF LinkedTo

LEMMA PageLinked ==
  ASSUME Memory, MemLinked
  PROVE  LinkedTo(Page, tab)
<1>1. Page["units"] = PageUnits /\ \A l \in List \ {"units"} : Page[l] = mem[l]
  BY Names DEF Page
<1>2. ASSUME NEW x \in PageUnits
      PROVE  \E e \in mem["units"] : x.sys = e.sys
  <2>1. PICK e \in mem["units"] : x = [e EXCEPT !.id = e.key]
    BY DEF PageUnits
  <2>2. e = [id |-> e.id, sys |-> e.sys, key |-> e.key, tag |-> e.tag]
    BY Names DEF Memory, Fits, Elem
  <2> QED BY <2>1, <2>2
<1>3. Joined(Page, tab)
  BY <1>1, <1>2, Names DEF MemLinked, LinkedTo, Joined
<1> QED BY <1>1, <1>3 DEF MemLinked, LinkedTo

LEMMA RepairedLinked ==
  ASSUME NEW t, NEW p, NEW n, PageFits(p, n), LinkedTo(p, t), NEW q \in Repaired(p)
  PROVE  LinkedTo(q, t)
<1>1. CASE q = p
  BY <1>1
<1>2. CASE q # p
  <2>0. PICK lost : lost = {e \in p["talkgroups"] : e.tag \notin Ids(p["tags"])}
    OBVIOUS
  <2>1. PICK u \in Ids(p["tags"]) :
          q = [p EXCEPT !["talkgroups"] = (p["talkgroups"] \ lost) \union {[e EXCEPT !.tag = u] : e \in lost}]
    BY <1>2, <2>0 DEF Repaired
  <2>2. PICK f : f = [e \in p["talkgroups"] |-> IF e \in lost THEN [e EXCEPT !.tag = u] ELSE e]
    OBVIOUS
  <2>3. /\ q["talkgroups"] = {f[e] : e \in p["talkgroups"]}
        /\ \A k \in List \ {"talkgroups"} : q[k] = p[k]
    <3>1. DOMAIN p = List \union {"options"} /\ "talkgroups" \in List
      BY Names DEF PageFits
    <3>2. PICK R : R = (p["talkgroups"] \ lost) \union {[e EXCEPT !.tag = u] : e \in lost}
      OBVIOUS
    <3>3. R = {f[e] : e \in p["talkgroups"]}
      BY <2>0, <2>2, <3>2
    <3>4. q = [p EXCEPT !["talkgroups"] = R]
      BY <2>1, <3>2
    <3> QED BY <3>1, <3>3, <3>4
  <2>4. ASSUME NEW e \in p["talkgroups"]
        PROVE  f[e].id = e.id /\ f[e].sys = e.sys
    <3>0. "talkgroups" \in List
      BY Names
    <3>1. e = [id |-> e.id, sys |-> e.sys, key |-> e.key, tag |-> e.tag]
      BY <3>0 DEF PageFits, Fits, Elem
    <3>2. [e EXCEPT !.tag = u] = [id |-> e.id, sys |-> e.sys, key |-> e.key, tag |-> u]
      BY <3>1
    <3>3. f[e] = e \/ f[e] = [e EXCEPT !.tag = u]
      BY <2>2
    <3> QED BY <3>2, <3>3
  <2>5. "talkgroups" \in List
    BY Names
  <2> QED BY <2>3, <2>4, <2>5, ChangedLinked
<1> QED BY <1>1, <1>2

LEMMA WithoutLinked ==
  ASSUME NEW t, NEW p, NEW n \in Nat, PageFits(p, n), LinkedTo(p, t),
         NEW l \in List, NEW e \in p[l], NEW q \in Without(p, l, e)
  PROVE  LinkedTo(q, t)
<1>0. /\ DOMAIN p = List \union {"options"}
      /\ \A k \in Nested : \A x \in p[k] : x.sys \in Ids(p["systems"])
  BY DEF PageFits, LinkedTo, Joined
<1>1. CASE l = "systems"
  <2>1. q = [k \in DOMAIN p |-> IF k \in Nested THEN {x \in p[k] : x.sys # e.id}
                                ELSE IF k = l THEN p[k] \ {e} ELSE p[k]]
    BY <1>1 DEF Without
  <2>2. /\ \A k \in Nested : q[k] = {x \in p[k] : x.sys # e.id}
        /\ q["systems"] = p["systems"] \ {e}
        /\ \A k \in Flat : q[k] = p[k]
    BY <1>0, <1>1, <2>1, Names
  <2>3. \A k \in Nested : \A x \in q[k] : x.sys \in Ids(q["systems"])
    BY <1>0, <2>2 DEF Ids
  <2>4. \A k \in List : q[k] \subseteq p[k]
    BY <2>2, Names
  <2> QED BY <2>3, <2>4, LessLinked
<1>2. ASSUME NEW r, r = [p EXCEPT ![l] = p[l] \ {e}], l # "systems"
      PROVE  LinkedTo(r, t)
  <2>1. \A k \in List : r[k] \subseteq p[k]
    BY <1>0, <1>2
  <2>2. r["systems"] = p["systems"]
    BY <1>0, <1>2, Names
  <2> QED BY <1>0, <2>1, <2>2, LessLinked, Names
<1>3. CASE l = "tags"
  <2>1. PICK r : r = [p EXCEPT !["tags"] = p["tags"] \ {e}]
    OBVIOUS
  <2>2. q \in Repaired(r) /\ LinkedTo(r, t)
    BY <1>2, <1>3, <2>1 DEF Without
  <2>3. Fits("tags", p["tags"] \ {e}, n)
    BY FitsSubset, Names DEF PageFits
  <2>4. PageFits(r, n)
    BY <2>1, <2>3, PutFits, Names
  <2> QED BY <2>2, <2>4, RepairedLinked
<1>4. CASE l \notin {"systems", "tags"}
  <2>1. q = [p EXCEPT ![l] = p[l] \ {e}]
    BY <1>4 DEF Without
  <2> QED BY <1>2, <1>4, <2>1
<1> QED BY <1>1, <1>3, <1>4

LEMMA EditLinked ==
  ASSUME NEW t, Tabs(t), NEW p, NEW n \in Nat, PageFits(p, n), LinkedTo(p, t), Edit(p)
  PROVE  DocLinked(doc', t)
<1>1. CASE LinkedTo(doc', t)
  BY <1>1 DEF LinkedTo, DocLinked
<1>2. ASSUME NEW l \in List, NEW e \in p[l], NEW q \in UNION {Without(p, l, x) : x \in p[l]}, doc' = q
      PROVE  LinkedTo(doc', t)
  <2>1. PICK x \in p[l] : q \in Without(p, l, x)
    BY <1>2
  <2> QED BY <1>2, <2>1, WithoutLinked
<1>3. ASSUME NEW q, PageFits(q, n), LinkedTo(q, t), NEW l \in List, NEW e \in Fresh(q, l),
             doc' = [q EXCEPT ![l] = @ \union {e}]
      PROVE  LinkedTo(doc', t)
  <2>1. e \in NewRows(q, l) /\ (l = "systems" => New \notin Ids(q["systems"]))
    BY DEF Fresh
  <2>2. e.id = New /\ (l \in Nested => e.sys \in Ids(q["systems"]))
    <3>1. CASE l = "talkgroups"
      BY <2>1, <3>1 DEF NewRows
    <3>2. CASE l \in {"sites", "units"}
      BY <2>1, <3>2 DEF NewRows
    <3>3. CASE l = "access"
      BY <2>1, <3>3, Names DEF NewRows
    <3>4. CASE l \in {"apikeys", "dirwatch", "downstreams", "groups", "tags", "systems"}
      BY <2>1, <3>4, Names DEF NewRows
    <3> QED BY <3>1, <3>2, <3>3, <3>4, Names
  <2>3. doc'[l] = q[l] \union {e} /\ \A k \in List \ {l} : doc'[k] = q[k]
    BY <1>3 DEF PageFits
  <2> QED BY <1>3, <2>1, <2>2, <2>3, AddedLinked
<1>4. ASSUME NEW l \in List, NEW e \in p[l], NEW d \in Fresh(p, l),
             doc' = [p EXCEPT ![l] = (@ \ {e}) \union {[e EXCEPT !.key = d.key]}]
      PROVE  LinkedTo(doc', t)
  <2>1. PICK x, f : x = [e EXCEPT !.key = d.key] /\ f = [y \in p[l] |-> IF y = e THEN x ELSE y]
    OBVIOUS
  <2>2. e = [id |-> e.id, sys |-> e.sys, key |-> e.key, tag |-> e.tag]
    BY DEF PageFits, Fits, Elem
  <2>3. x.id = e.id /\ x.sys = e.sys
    BY <2>1, <2>2
  <2>4. \A y \in p[l] : f[y].id = y.id /\ f[y].sys = y.sys
    BY <2>1, <2>3
  <2>5. {f[y] : y \in p[l]} = (p[l] \ {e}) \union {x}
    BY <2>1
  <2>6. doc'[l] = (p[l] \ {e}) \union {x} /\ \A k \in List \ {l} : doc'[k] = p[k]
    BY <1>4, <2>1 DEF PageFits
  <2>7. doc'[l] = {f[y] : y \in p[l]}
    BY <2>5, <2>6
  <2> QED BY <2>4, <2>6, <2>7, ChangedLinked
<1>5. ASSUME NEW o \in Option, doc' = [p EXCEPT !["options"][o] = "chosen"]
      PROVE  LinkedTo(doc', t)
  <2>1. "options" \notin List
    BY Names
  <2>2. PICK v : v = [p["options"] EXCEPT ![o] = "chosen"]
    OBVIOUS
  <2>3. doc' = [p EXCEPT !["options"] = v]
    BY <1>5, <2>2
  <2>4. \A k \in List : doc'[k] = p[k]
    BY <2>1, <2>3 DEF PageFits
  <2>5. doc'["systems"] = p["systems"]
    BY <2>4, Names
  <2> QED BY <2>4, <2>5, LessLinked, Names DEF LinkedTo, Joined
<1>6. ASSUME NEW l \in Sent,
             doc' = [k \in DOMAIN p \ (IF l = "systems" THEN {l} \union Nested ELSE {l}) |-> p[k]]
      PROVE  DocLinked(doc', t)
  <2>1. \A k \in DOMAIN doc' : doc'[k] = p[k]
    BY <1>6
  <2>2. ASSUME "systems" \in DOMAIN doc'
        PROVE  Joined(doc', t)
    <3>1. l # "systems" /\ l \notin Nested /\ Nested \subseteq DOMAIN p
      BY <1>6, <2>2, Names DEF PageFits
    <3>2. Nested \subseteq DOMAIN doc'
      BY <1>6, <3>1
    <3>3. doc'["systems"] = p["systems"] /\ \A k \in Nested : doc'[k] = p[k]
      BY <2>1, <2>2, <3>2
    <3> QED BY <3>3, Names DEF LinkedTo, Joined
  <2> QED BY <2>1, <2>2 DEF LinkedTo, DocLinked
<1>7. CASE doc' = p
  BY <1>1, <1>7
<1>8. CASE \E l \in List : \E e \in p[l], q \in UNION {Without(p, l, x) : x \in p[l]} : e \notin q[l] /\ doc' = q
  BY <1>1, <1>2, <1>8
<1>9. CASE \E l \in List : \E e \in Fresh(p, l) : doc' = [p EXCEPT ![l] = @ \union {e}]
  BY <1>1, <1>3, <1>9
<1>10. CASE \E l \in List : \E e \in p[l] : \E q \in Without(p, l, e) : \E d \in Fresh(q, l) :
              doc' = [q EXCEPT ![l] = @ \union {d}]
  BY <1>1, <1>3, <1>10, WithoutFits, WithoutLinked
<1>11. CASE \E l \in List : \E e \in p[l], d \in Fresh(p, l) :
              doc' = [p EXCEPT ![l] = (@ \ {e}) \union {[e EXCEPT !.key = d.key]}]
  BY <1>1, <1>4, <1>11
<1>12. CASE \E o \in Option : doc' = [p EXCEPT !["options"][o] = "chosen"]
  BY <1>1, <1>5, <1>12
<1>13. CASE \E l \in Sent : doc' = [k \in DOMAIN p \ (IF l = "systems" THEN {l} \union Nested ELSE {l}) |-> p[k]]
  BY <1>6, <1>13
<1> QED BY <1>7, <1>8, <1>9, <1>10, <1>11, <1>12, <1>13 DEF Edit

(* The call that is ingested refers to the system it found.                *)
PopKeeps ==
  \/ pop' = pop
  \/ pop'.at \in {"idle", "write", "read"}
  \/ pop.at \in Early /\ pop'.at \in Early /\ pop'.sys = pop.sys /\ pop'.orphan = pop.orphan

LEMMA PopStays ==
  ASSUME PopLinked, PopKeeps, GrewTo(tab, tab'), mem'["systems"] = mem["systems"]
  PROVE  PopLinked'
<1>1. tab["talkgroups"].last \in Nat /\ tab'["talkgroups"].last \in Nat
      /\ tab["talkgroups"].last <= tab'["talkgroups"].last
  BY Names DEF GrewTo
<1>2. CASE pop' = pop
  BY <1>1, <1>2 DEF PopLinked
<1>3. CASE pop'.at \in {"idle", "write", "read"}
  BY <1>3 DEF PopLinked, Early
<1>4. CASE pop.at \in Early /\ pop'.at \in Early /\ pop'.sys = pop.sys /\ pop'.orphan = pop.orphan
  BY <1>4 DEF PopLinked, Early
<1> QED BY <1>2, <1>3, <1>4 DEF PopKeeps

LEMMA DocStays ==
  ASSUME Held, Linked, GrewTo(tab, tab'), doc' = doc \/ doc' = NoDoc
  PROVE  DocLinked(doc, tab)'
<1>1. CASE doc' = doc
  BY <1>1, DocMore DEF Held, Linked
<1>2. CASE doc' = NoDoc
  BY <1>2, NoDocLinked
<1> QED BY <1>1, <1>2

(* A list with a table of its own changes, or none.                        *)
LEMMA LinkedFlat ==
  ASSUME Held, Linked, GrewTo(tab, tab'), doc' = doc \/ doc' = NoDoc, PopKeeps,
         NEW l \in Flat, \A k \in List \ {l} : mem'[k] = mem[k], Known(mem'[l], tab'[l])
  PROVE  Linked'
<1>1. /\ mem'["systems"] = mem["systems"] /\ \A k \in Nested : mem'[k] = mem[k]
  BY Names
<1>2. LinkedTo(mem, tab')
  BY LinkedMore DEF Linked, MemLinked
<1>3. \A k \in List \ {"units"} : Known(mem'[k], tab'[k])
  BY <1>2 DEF LinkedTo
<1>4. Joined(mem', tab')
  BY <1>1, <1>2, Names DEF LinkedTo, Joined
<1>5. MemLinked'
  BY <1>3, <1>4 DEF MemLinked, LinkedTo
<1> QED BY <1>1, <1>5, DocStays, PopStays DEF Linked

LEMMA LinkedKept ==
  ASSUME Held, Linked, GrewTo(tab, tab'), doc' = doc \/ doc' = NoDoc, PopKeeps, mem' = mem
  PROVE  Linked'
<1>1. MemLinked'
  BY LinkedMore DEF Linked, MemLinked
<1> QED BY <1>1, DocStays, PopStays DEF Linked

LEMMA LinkedSet ==
  ASSUME Held, Linked, GrewTo(tab, tab'), doc' = doc \/ doc' = NoDoc, PopKeeps,
         NEW l \in Flat, NEW S, mem' = [mem EXCEPT ![l] = S], Known(S, tab'[l])
  PROVE  Linked'
<1>1. l \in List /\ DOMAIN mem = List
  BY Names DEF Held, Memory
<1>2. mem'[l] = S /\ \A k \in List \ {l} : mem'[k] = mem[k]
  BY <1>1
<1> QED BY <1>2, LinkedFlat

LEMMA StayedSame == ASSUME Held, tab' = tab PROVE GrewTo(tab, tab')
BY GrewSame DEF Held

(* Write, Read and FromMap of such a list.                                 *)
LEMMA LinkedWrite ==
  ASSUME Held, Linked, NEW l \in Flat, WriteList(l), mem' = mem, doc' = doc, PopKeeps
  PROVE  Linked'
<1>1. PICK c : c = Cascade([tab EXCEPT ![l] = FlatTable(mem[l], tab[l])])
  OBVIOUS
<1>2. tab' = c
  BY <1>1 DEF WriteList, Commit
<1>3. OnlyWrites(l, mem[l], c)
  BY <1>1, FlatWritten, Names DEF Held, Memory
<1>4. GrewTo(tab, tab')
  BY <1>2, <1>3, FlatGrew DEF Held
<1> QED BY <1>4, LinkedKept

LEMMA LinkedRead ==
  ASSUME Held, Linked, tab' = tab, doc' = doc, PopKeeps, NEW l \in Flat, ReadList(l) \/ ReadPart(l)
  PROVE  Linked'
<1>1. PICK S \in SUBSET tab[l].rows : mem' = [mem EXCEPT ![l] = S]
  BY DEF ReadList, ReadPart
<1>2. Known(S, tab'[l])
  BY RowsKnown, Names DEF Held, Tables
<1> QED BY <1>1, <1>2, StayedSame, LinkedSet

LEMMA LinkedWriteStep ==
  ASSUME Held, Linked, NEW l \in Flat, NEW here, NEW read, NEW next, WriteStep(l, here, read, next), Other
  PROVE  Linked'
<1>1. doc' = doc /\ PopKeeps /\ mem' = mem
  BY DEF WriteStep, Other, ext, PopKeeps
<1>2. CASE WriteList(l)
  BY <1>1, <1>2, LinkedWrite
<1>3. CASE UNCHANGED <<tab, calls>>
  BY <1>1, <1>3, StayedSame, LinkedKept
<1> QED BY <1>2, <1>3 DEF WriteStep

LEMMA LinkedReadStep ==
  ASSUME Held, Linked, NEW l \in Flat, NEW here, NEW next, ReadStep(l, here, next), Other
  PROVE  Linked'
<1>1. doc' = doc /\ PopKeeps /\ tab' = tab /\ (ReadList(l) \/ ReadPart(l))
  BY DEF ReadStep, Other, ext, PopKeeps
<1> QED BY <1>1, LinkedRead

LEMMA LinkedFromMap ==
  ASSUME Held, Linked, NEW l \in Flat, FromMap(l), doc' = doc, pop' = pop
  PROVE  Linked'
<1>1. l \in List /\ l # "units"
  BY Names
<1>2. Known(doc[l], tab[l])
  BY <1>1 DEF FromMap, Linked, DocLinked
<1>3. mem' = [mem EXCEPT ![l] = doc[l]] /\ tab' = tab /\ PopKeeps
  BY DEF FromMap, PopKeeps
<1> QED BY <1>2, <1>3, StayedSame, LinkedSet

LEMMA LinkedSaveList ==
  ASSUME Held, Linked, NEW l \in Flat, l # "tags", NEW here, NEW next, SaveList(l, here, next), Other
  PROVE  Linked'
<1>0. /\ l \in List /\ l # "units" /\ doc' = doc /\ PopKeeps
  BY Names DEF Other, ext, PopKeeps
<1>1. CASE mem' = mem /\ tab' = tab
  BY <1>0, <1>1, StayedSame, LinkedKept
<1>2. ASSUME l \in DOMAIN doc, mem' = [mem EXCEPT ![l] = doc[l]], tab' = tab
      PROVE  Linked'
  <2>1. Known(doc[l], tab[l])
    BY <1>0, <1>2 DEF Linked, DocLinked
  <2> QED BY <1>0, <1>2, <2>1, StayedSame, LinkedSet
<1>3. ASSUME l \in DOMAIN doc, tab' = [tab EXCEPT ![l] = FlatTable(doc[l], tab[l])],
             NEW S \in SUBSET FlatTable(doc[l], tab[l]).rows, mem' = [mem EXCEPT ![l] = S]
      PROVE  Linked'
  <2>1. Fits(l, doc[l], LastTag)
    BY <1>0, <1>3 DEF Held, DocFits
  <2>2. OnlyWrites(l, doc[l], tab') /\ tab'[l] = FlatTable(doc[l], tab[l])
    BY <1>3, <2>1, NoCascade DEF Held
  <2>3. Known(S, tab'[l])
    BY <1>0, <2>2, RowsKnown DEF OnlyWrites
  <2>4. GrewTo(tab, tab')
    BY <2>2, FlatGrew DEF Held
  <2> QED BY <1>0, <1>3, <2>3, <2>4, LinkedSet
<1>4. PICK t : t = FlatTable(doc[l], tab[l])
  OBVIOUS
<1>5. \/ Absent(l, here, next)
      \/ /\ l \in DOMAIN doc
         /\ \/ tab' = [tab EXCEPT ![l] = t] /\ mem' = [mem EXCEPT ![l] = t.rows]
            \/ tab' = tab /\ mem' = [mem EXCEPT ![l] = doc[l]]
            \/ tab' = [tab EXCEPT ![l] = t] /\ \E S \in SUBSET t.rows : mem' = [mem EXCEPT ![l] = S]
  BY <1>4 DEF SaveList
<1>6. Absent(l, here, next) => mem' = mem /\ tab' = tab
  BY DEF Absent
<1>7. CASE /\ l \in DOMAIN doc /\ tab' = [tab EXCEPT ![l] = t]
           /\ \E S \in SUBSET t.rows : mem' = [mem EXCEPT ![l] = S]
  BY <1>3, <1>4, <1>7
<1>8. t.rows \in SUBSET t.rows
  OBVIOUS
<1>9. CASE l \in DOMAIN doc /\ tab' = [tab EXCEPT ![l] = t] /\ mem' = [mem EXCEPT ![l] = t.rows]
  BY <1>7, <1>8, <1>9
<1>10. CASE l \in DOMAIN doc /\ tab' = tab /\ mem' = [mem EXCEPT ![l] = doc[l]]
  BY <1>2, <1>10
<1> QED BY <1>1, <1>5, <1>6, <1>7, <1>9, <1>10

LEMMA LinkedLoad == ASSUME Held, Linked, LoadPage PROVE Linked'
<1>1. PICK p \in Repaired(Page) : Edit(p)
  BY DEF LoadPage
<1>2. LastTag \in Nat /\ Tabs(tab)
  BY LastTagNat DEF Held, Tables
<1>3. PageFits(p, LastTag)
  BY <1>2, PageIs, RepairedFits DEF Held
<1>4. LinkedTo(p, tab)
  BY PageIs, PageLinked, RepairedLinked DEF Held, Linked
<1>5. DocLinked(doc', tab)
  BY <1>1, <1>2, <1>3, <1>4, EditLinked
<1> QED BY <1>5 DEF LoadPage, ext, Linked, MemLinked, PopLinked

LEMMA PopOrphaned ==
  ASSUME Held, PopLinked, Orphaned, tab' = tab
  PROVE  PopLinked'
<1>1. CASE pop.at = "idle"
  BY <1>1 DEF Orphaned, PopLinked, Early
<1>2. CASE pop.at # "idle"
  <2>1. pop'.at = pop.at /\ pop'.orphan /\ pop'.id = pop.id
    BY <1>2, PopIs DEF Orphaned, Held
  <2> QED BY <2>1 DEF PopLinked
<1> QED BY <1>1, <1>2

(* What is read of the tables is linked to them.                           *)
LEMMA RowsLinked ==
  ASSUME NEW t, Tabs(t), NEW S, \A l \in {"systems"} \union Nested : S[l] \subseteq t[l].rows,
         \A l \in Nested : \A e \in S[l] : e.sys \in Ids(S["systems"]),
         \A l \in Flat : Known(S[l], t[l])
  PROVE  LinkedTo(S, t)
<1>1. \A l \in List \ {"units"} : Known(S[l], t[l])
  BY RowsKnown, Names
<1>2. \A l \in {"systems"} \union Nested : \A r, q \in t[l].rows : r.id = q.id => r = q
  BY TabFacts, Names
<1>3. Joined(S, t)
  BY <1>2, Names DEF Joined
<1> QED BY <1>1, <1>3 DEF LinkedTo

LEMMA ReadLinked ==
  ASSUME Held, Linked, tab' = tab, ReadSystems \/ ReadSystemsPart
  PROVE  MemLinked'
<1>1. Tabs(tab) /\ Refers(tab)
  BY DEF Held, Tables
<1>2. \A l \in Flat : Known(mem[l], tab[l])
  BY Names DEF Linked, MemLinked, LinkedTo
<1>3. CASE ReadSystems
  <2>1. \A l \in List : mem'[l] = IF l \in {"systems"} \union Nested THEN tab[l].rows ELSE mem[l]
    BY <1>3 DEF ReadSystems
  <2>2. /\ \A l \in {"systems"} \union Nested : mem'[l] = tab[l].rows
        /\ \A l \in Flat : mem'[l] = mem[l]
    BY <2>1, Names
  <2>3. LinkedTo(mem', tab)
    BY <1>1, <1>2, <2>2, RowsLinked DEF Refers
  <2> QED BY <2>3 DEF MemLinked
<1>4. CASE ReadSystemsPart
  <2>1. PICK S \in SUBSET tab["systems"].rows, N \in SUBSET Ids(tab["systems"].rows) :
          /\ S # tab["systems"].rows => N = {}
          /\ mem' = [l \in List |-> IF l = "systems" THEN S
                                    ELSE IF l \in Nested THEN {r \in tab[l].rows : r.sys \in N}
                                    ELSE mem[l]]
    BY <1>4 DEF ReadSystemsPart
  <2>2. /\ mem'["systems"] = S /\ \A l \in Flat : mem'[l] = mem[l]
    BY <2>1, Names
  <2>3. \A l \in Nested : mem'[l] = {r \in tab[l].rows : r.sys \in N}
    BY <2>1, Names
  <2>4. \A l \in Nested : \A e \in mem'[l] : e.sys \in Ids(mem'["systems"])
    BY <2>1, <2>2, <2>3
  <2>5. \A l \in {"systems"} \union Nested : mem'[l] \subseteq tab[l].rows
    BY <2>2, <2>3
  <2>6. LinkedTo(mem', tab)
    BY <1>1, <1>2, <2>2, <2>4, <2>5, RowsLinked
  <2> QED BY <2>6 DEF MemLinked
<1> QED BY <1>3, <1>4

LEMMA LinkedPutSystems == ASSUME Held, Linked, PutSystems PROVE Linked'
<1>0. doc' = doc /\ tab' = tab
  BY DEF PutSystems, Absent, Other, OtherSystems
<1>1. CASE Absent("systems", "systems", "tags") /\ Other
  <2>1. mem' = mem /\ PopKeeps
    BY <1>1 DEF Absent, Other, ext, PopKeeps
  <2> QED BY <1>0, <2>1, StayedSame, LinkedKept
<1>2. CASE /\ "systems" \in DOMAIN doc /\ Orphaned
           /\ mem' = [l \in List |-> IF l \in {"systems"} \union Nested THEN doc[l] ELSE mem[l]]
  <2>1. /\ \A l \in {"systems"} \union Nested : mem'[l] = doc[l] /\ l \in DOMAIN doc /\ l \in List
        /\ \A l \in Flat : mem'[l] = mem[l]
    <3>1. Nested \subseteq DOMAIN doc
      BY <1>2 DEF Held, DocFits
    <3> QED BY <1>2, <3>1, Names
  <2>2. \A l \in List \ {"units"} : Known(mem'[l], tab[l])
    BY <2>1, Names DEF Linked, DocLinked, MemLinked, LinkedTo
  <2>3. Joined(mem', tab)
    <3>1. Joined(doc, tab)
      BY <1>2 DEF Linked, DocLinked
    <3> QED BY <2>1, <3>1, Names DEF Joined
  <2>4. MemLinked'
    BY <1>0, <2>2, <2>3 DEF MemLinked, LinkedTo
  <2>5. PopLinked'
    BY <1>0, <1>2, PopOrphaned DEF Linked
  <2> QED BY <1>0, <2>4, <2>5 DEF Linked
<1> QED BY <1>1, <1>2 DEF PutSystems

LEMMA LinkedSystemsRead == ASSUME Held, Linked, SystemsRead PROVE Linked'
<1>1. doc' = doc /\ tab' = tab /\ (ReadSystems \/ ReadSystemsPart) /\ Orphaned
  BY DEF SystemsRead, OtherSystems
<1> QED BY <1>1, ReadLinked, PopOrphaned DEF Linked

(* The Write of systems, whether it fails or not.                          *)
LEMMA WriteLinked ==
  ASSUME Held, Linked, WriteSystems \/ WriteSystemsFails, doc' = doc, pop' \in Pop
  PROVE  MemLinked' /\ GrewTo(tab, tab') /\ DocLinked(doc, tab)'
<1>0. Tables /\ Memory /\ MemLinked /\ {"sites", "talkgroups", "systems"} \subseteq List
      /\ "talkgroups" \in Nested
  BY Names DEF Held, Linked
<1>3. \A l \in List \ ({"systems"} \union Nested) : l \in Flat /\ l # "talkgroups"
  BY Names
<1>4. {"sites", "talkgroups"} \subseteq Nested
  BY Names
<1>1. CASE WriteSystems
  <2>1. PICK c : c = Cascade([tab EXCEPT !["systems"]    = SystemsTable,
                                         !["sites"]      = SitesTable,
                                         !["talkgroups"] = TalkgroupsTable,
                                         !["units"]      = UnitsTable])
    OBVIOUS
  <2>2. tab' = c /\ mem' = Assigned
    BY <1>1, <2>1 DEF WriteSystems, Commit
  <2>3. SystemsTables(c) /\ Tabs(c)
    BY <1>0, <2>1, SystemsWritten DEF SystemsTables
  <2>4. GrewTo(tab, c)
    BY <1>0, <2>3, SystemsGrew
  <2>5. LinkedTo(Assigned, c)
    <3>1. c["talkgroups"].last = TalkgroupsTable.last
      BY <2>3, Names DEF SystemsTables, TalkgroupsTable
    <3>2. c["sites"].last \in Nat /\ tab["sites"].last <= c["sites"].last
      BY <1>0, <2>4 DEF GrewTo
    <3>3. /\ \A l \in List \ ({"systems"} \union Nested) : c[l].last = tab[l].last
          /\ c["systems"].last = SystemsTable.last
          /\ \A l \in {"sites", "talkgroups"} : c[l].rows \subseteq NestedTable(l).rows
      BY <1>3, <1>4, <2>3 DEF SystemsTables
    <3> QED BY <1>0, <3>1, <3>2, <3>3, AssignedLinked
  <2>6. DocLinked(doc, c)
    BY <2>4, DocMore DEF Held, Linked
  <2> QED BY <2>2, <2>4, <2>5, <2>6 DEF MemLinked
<1>2. CASE WriteSystemsFails
  <2>1. /\ mem' = mem \/ mem' = Assigned
        /\ \A l \in List : tab'[l].rows = tab[l].rows
        /\ \A l \in List \ {"systems", "talkgroups"} : tab'[l] = tab[l]
        /\ tab'["systems"].last = SystemsTable.last
        /\ tab'["talkgroups"].last = TalkgroupsTable.last
    BY <1>0, <1>2, SystemsFail
  <2>2. \A l \in List : tab[l].last \in Nat /\ tab'[l].last \in Nat /\ tab[l].last <= tab'[l].last
    <3>1. \A l \in List : tab[l].last \in Nat
      BY <1>0, TabFacts DEF Tables
    <3>2. SystemsTable.last \in Nat /\ tab["systems"].last <= SystemsTable.last
      BY <1>0, SystemIds
    <3>3. TalkgroupsTable.last \in Nat /\ tab["talkgroups"].last <= TalkgroupsTable.last
      BY <1>0, NestedGrow DEF TalkgroupsTable, TableOf
    <3> QED BY <2>1, <3>1, <3>2, <3>3
  <2>3. GrewTo(tab, tab')
    BY <2>1, <2>2, Names DEF GrewTo
  <2>4. LinkedTo(Assigned, tab')
    <3>1. /\ \A l \in List \ ({"systems"} \union Nested) : tab'[l].last = tab[l].last
          /\ \A l \in {"sites", "talkgroups"} : tab'[l].rows \subseteq tab[l].rows
      BY <1>0, <1>3, <2>1
    <3>2. tab'["sites"].last \in Nat /\ tab["sites"].last <= tab'["sites"].last
      BY <2>2, Names
    <3> QED BY <1>0, <2>1, <3>1, <3>2, AssignedLinked
  <2>5. LinkedTo(mem, tab')
    BY <1>0, <2>3, LinkedMore DEF MemLinked
  <2>6. DocLinked(doc, tab')
    BY <2>3, DocMore DEF Held, Linked
  <2> QED BY <2>1, <2>3, <2>4, <2>5, <2>6 DEF MemLinked
<1> QED BY <1>1, <1>2

LEMMA LinkedSystemsWrite == ASSUME Held, Linked, SystemsWrite PROVE Linked'
<1>0. Tables /\ Memory /\ MemLinked
  BY DEF Held, Linked
<1>1. doc' = doc /\ pop' \in Pop /\ (WriteSystems \/ WriteSystemsFails)
  BY <1>0, PopSteps, RenumberedIn DEF SystemsWrite, OtherSystems
<1>2. MemLinked' /\ GrewTo(tab, tab') /\ DocLinked(doc, tab)'
  BY <1>1, WriteLinked
<1>3. tab["talkgroups"].last \in Nat /\ tab'["talkgroups"].last \in Nat
      /\ tab["talkgroups"].last <= tab'["talkgroups"].last
  BY <1>2, Names DEF GrewTo
<1>4. ASSUME Renumbered, mem' = Assigned
      PROVE  PopLinked'
  <2>1. CASE pop' = pop /\ (pop.at = "idle" \/ pop.orphan)
    BY <1>3, <2>1 DEF Linked, PopLinked, Early
  <2>2. CASE pop.at # "idle" /\ ~pop.orphan /\ pop' = [pop EXCEPT !.sys = IdOf(pop.sys)]
    <3>1. pop'.at = pop.at /\ pop'.sys = IdOf(pop.sys) /\ pop'.id = pop.id
      BY <2>2, PopIs DEF Held
    <3>2. ASSUME pop.at \in Early
          PROVE  IdOf(pop.sys) \in Ids(mem'["systems"])
      <4>1. PICK s \in mem["systems"] : s.id = pop.sys
        BY <2>2, <3>2 DEF Linked, PopLinked, Ids
      <4>2. Elem(s, Nat)
        BY <1>0, Names DEF Memory, Fits, TagsIn
      <4>3. Stored(s, IdOf(s.id)).id = IdOf(s.id)
        BY <4>2, ElemSet
      <4>4. Stored(s, IdOf(s.id)) \in mem'["systems"]
        BY <1>0, <1>4, AssignedIs
      <4> QED BY <4>1, <4>3, <4>4 DEF Ids
    <3> QED BY <1>3, <3>1, <3>2 DEF Linked, PopLinked
  <2> QED BY <1>4, <2>1, <2>2 DEF Renumbered
<1>5. ASSUME pop' = pop, mem' = mem
      PROVE  PopLinked'
  BY <1>2, <1>5, PopStays DEF PopKeeps, Linked
<1>6. PopLinked'
  BY <1>4, <1>5 DEF SystemsWrite, WriteSystems, WriteSystemsFails
<1> QED BY <1>2, <1>6 DEF Linked

LEMMA LinkedPut == ASSUME Held, Linked, Put PROVE Linked'
<1>0. \A l \in {"access", "apikeys", "dirwatch", "downstreams", "groups", "tags"} : l \in Flat
  BY Names
<1>1. CASE PutAccess
  <2>1. doc' = doc /\ pop' = pop /\ PopKeeps
    BY <1>1 DEF PutAccess, ext, PopKeeps
  <2>2. CASE FromMap("access")
    BY <1>0, <2>1, <2>2, LinkedFromMap
  <2>3. CASE UNCHANGED <<mem, tab, calls>>
    BY <2>1, <2>3, StayedSame, LinkedKept
  <2> QED BY <1>1, <2>2, <2>3 DEF PutAccess
<1>2. CASE RefuseCode
  BY <1>2, StayedSame, LinkedKept DEF RefuseCode, ext, PopKeeps
<1>3. CASE AccessWrite
  BY <1>0, <1>3, LinkedWriteStep DEF AccessWrite
<1>4. CASE AccessRead
  BY <1>0, <1>4, LinkedReadStep DEF AccessRead
<1>5. CASE StopDirwatches
  <2>1. /\ tab' = tab /\ doc' = doc /\ PopKeeps /\ mem' = [mem EXCEPT !["dirwatch"] = {}]
        /\ Known({}, tab'["dirwatch"])
    BY <1>5 DEF StopDirwatches, ext, PopKeeps, Known
  <2> QED BY <1>0, <2>1, StayedSame, LinkedSet
<1>6. CASE SaveApikeys
  BY <1>0, <1>6, LinkedSaveList DEF SaveApikeys
<1>7. CASE SaveDirwatches
  BY <1>0, <1>7, LinkedSaveList DEF SaveDirwatches
<1>8. CASE SaveDownstreams
  BY <1>0, <1>8, LinkedSaveList DEF SaveDownstreams
<1>9. ASSUME NEW l \in {"groups", "tags"}, NEW here, NEW write, NEW next, Other,
             (Go(here, write) /\ FromMap(l) /\ NoFault) \/ Absent(l, here, next)
      PROVE  Linked'
  <2>1. doc' = doc /\ pop' = pop /\ PopKeeps
    BY <1>9 DEF Other, ext, PopKeeps
  <2>2. CASE FromMap(l)
    BY <1>0, <2>1, <2>2, LinkedFromMap
  <2>3. CASE Absent(l, here, next)
    BY <2>1, <2>3, StayedSame, LinkedKept DEF Absent
  <2> QED BY <1>9, <2>2, <2>3
<1>10. CASE PutGroups
  BY <1>9, <1>10 DEF PutGroups
<1>11. CASE GroupsWrite
  BY <1>0, <1>11, LinkedWriteStep DEF GroupsWrite
<1>12. CASE GroupsRead
  BY <1>0, <1>12, LinkedReadStep DEF GroupsRead
<1>13. CASE SaveOptions
  BY <1>13, StayedSame, LinkedKept DEF SaveOptions, ext, PopKeeps
<1>14. CASE PutSystems
  BY <1>14, LinkedPutSystems
<1>15. CASE SystemsWrite
  BY <1>15, LinkedSystemsWrite
<1>16. CASE SystemsRead
  BY <1>16, LinkedSystemsRead
<1>17. CASE PutTags
  BY <1>9, <1>17 DEF PutTags
<1>18. CASE TagsWrite
  BY <1>0, <1>18, LinkedWriteStep DEF TagsWrite
<1>19. CASE TagsRead
  BY <1>0, <1>19, LinkedReadStep DEF TagsRead
<1>20. CASE Finish
  BY <1>20, StayedSame, LinkedKept DEF Finish, ext, PopKeeps
<1> QED BY <1>1, <1>2, <1>3, <1>4, <1>5, <1>6, <1>7, <1>8, <1>10, <1>11, <1>12, <1>13, <1>14,
           <1>15, <1>16, <1>17, <1>18, <1>19, <1>20 DEF Put

(* An element without a row.                                               *)
LEMMA KnownNew ==
  ASSUME Held, Linked, NEW l \in Flat, NEW k, NEW S,
         S = mem[l] \union {[id |-> New, sys |-> 0, key |-> k, tag |-> 0]}
  PROVE  Known(S, tab[l])
<1>1. l \in List /\ l # "units" /\ tab[l].last \in Nat
  BY TabFacts, Names DEF Held, Tables
<1>2. Known(mem[l], tab[l])
  BY <1>1 DEF Linked, MemLinked, LinkedTo
<1> QED BY <1>1, <1>2 DEF Known, New

LEMMA PopGoKeeps ==
  ASSUME Held, NEW here, NEW next, PopGo(here, next),
         next \in {"write", "read"} \/ (here \in Early /\ next \in Early)
  PROVE  PopKeeps
<1>1. pop'.at = next /\ pop.at = here /\ pop'.sys = pop.sys /\ pop'.orphan = pop.orphan
  BY PopIs DEF PopGo, Held
<1> QED BY <1>1 DEF PopKeeps

LEMMA DroppedKeeps == ASSUME Dropped PROVE PopKeeps
BY DEF Dropped, NoCall, PopKeeps

LEMMA LinkedPopulate ==
  ASSUME Held, Linked, NEW l \in {"groups", "tags"}, NEW k,
         NEW here \in Early, NEW write \in Early, NEW read \in Early, NEW next \in Early,
         Ensure(l, k, here, write, next) \/ EnsureWrite(l, write, read) \/ EnsureRead(l, read, next)
  PROVE  Linked'
<1>0. l \in Flat
  BY Names
<1>1. CASE Ensure(l, k, here, write, next)
  <2>1. doc' = doc /\ PopKeeps /\ tab' = tab
    BY <1>1, PopGoKeeps DEF Ensure, Rest
  <2>2. CASE mem' = mem
    BY <2>1, <2>2, StayedSame, LinkedKept
  <2>3. CASE mem' # mem
    <3>1. PICK S : S = mem[l] \union {[id |-> New, sys |-> 0, key |-> k, tag |-> 0]}
      OBVIOUS
    <3>2. mem' = [mem EXCEPT ![l] = S]
      BY <1>1, <2>3, <3>1 DEF Ensure
    <3>3. Known(S, tab'[l])
      BY <1>0, <2>1, <3>1, KnownNew
    <3> QED BY <1>0, <2>1, <3>2, <3>3, StayedSame, LinkedSet
  <2> QED BY <2>2, <2>3
<1>2. CASE EnsureWrite(l, write, read)
  <2>1. doc' = doc /\ PopKeeps /\ mem' = mem
    BY <1>2, PopGoKeeps, DroppedKeeps DEF EnsureWrite, Rest
  <2>2. CASE WriteList(l)
    BY <1>0, <2>1, <2>2, LinkedWrite
  <2>3. CASE UNCHANGED <<tab, calls>>
    BY <2>1, <2>3, StayedSame, LinkedKept
  <2> QED BY <1>2, <2>2, <2>3 DEF EnsureWrite
<1>3. CASE EnsureRead(l, read, next)
  <2>1. doc' = doc /\ PopKeeps /\ tab' = tab /\ (ReadList(l) \/ ReadPart(l))
    BY <1>3, PopGoKeeps, DroppedKeeps DEF EnsureRead, Rest
  <2> QED BY <1>0, <2>1, LinkedRead
<1> QED BY <1>1, <1>2, <1>3

LEMMA LinkedArrive == ASSUME Held, Linked, NEW s \in mem["systems"], NEW a \in Arrival, Arrive(s, a) PROVE Linked'
<1>1. tab' = tab /\ mem' = mem /\ doc' = doc /\ pop'.at = "group" /\ pop'.sys = s.id
  BY DEF Arrive
<1>2. PopLinked'
  BY <1>1 DEF PopLinked, Ids
<1> QED BY <1>1, <1>2 DEF Linked, MemLinked

LEMMA LinkedTalkgroup == ASSUME Held, Linked, PopulateTalkgroup PROVE Linked'
<1>1. doc' = doc /\ tab' = tab /\ PopKeeps
  BY PopGoKeeps DEF PopulateTalkgroup, Rest
<1>2. CASE pop.orphan
  BY <1>1, <1>2, StayedSame, LinkedKept DEF PopulateTalkgroup
<1>3. CASE ~pop.orphan
  <2>1. PICK n : n = [id |-> New, sys |-> pop.sys, key |-> pop.key, tag |-> TagId(pop.tag)]
    OBVIOUS
  <2>2. mem' = [mem EXCEPT !["talkgroups"] = mem["talkgroups"] \union {n}]
    BY <1>3, <2>1 DEF PopulateTalkgroup
  <2>3. "talkgroups" \in List /\ DOMAIN mem = List /\ "systems" \in List
    BY Names DEF Held, Memory
  <2>4. mem'["talkgroups"] = mem["talkgroups"] \union {n} /\ \A k \in List \ {"talkgroups"} : mem'[k] = mem[k]
    BY <2>2, <2>3
  <2>5. pop.sys \in Ids(mem["systems"])
    BY <1>3 DEF Linked, PopLinked, PopulateTalkgroup, PopGo, Early
  <2>6. n.id = New /\ n.sys \in Ids(mem["systems"]) /\ "talkgroups" # "systems"
    BY <2>1, <2>5
  <2>7. LinkedTo(mem, tab) /\ Tabs(tab)
    BY DEF Linked, MemLinked, Held, Tables
  <2>8. LinkedTo(mem', tab)
    BY <2>3, <2>4, <2>6, <2>7, AddedLinked
  <2>9. PopLinked'
    BY <1>1, <2>3, <2>4, StayedSame, PopStays DEF Linked
  <2> QED BY <1>1, <2>8, <2>9 DEF Linked, MemLinked
<1> QED BY <1>2, <1>3

LEMMA LinkedPopulateWrite == ASSUME Held, Linked, PopulateWrite PROVE Linked'
<1>1. doc' = doc /\ pop' \in Pop
  BY PopSteps DEF PopulateWrite, Rest, PopAt
<1>2. MemLinked' /\ DocLinked(doc, tab)'
  BY <1>1, WriteLinked DEF PopulateWrite
<1>3. pop'.at \in {"read", "idle"}
  BY PopIs DEF PopulateWrite, PopGo, Dropped, NoCall, Held
<1> QED BY <1>2, <1>3 DEF Linked, PopLinked, Early

LEMMA LinkedPopulateRead == ASSUME Held, Linked, PopulateRead PROVE Linked'
<1>1. doc' = doc /\ tab' = tab /\ (ReadSystems \/ ReadSystemsPart)
  BY DEF PopulateRead, Rest
<1>2. CASE Dropped
  BY <1>1, <1>2, ReadLinked DEF Dropped, NoCall, Linked, PopLinked, Early
<1>3. CASE \E r \in tab["talkgroups"].rows : pop' = [pop EXCEPT !.at = "store", !.id = r.id]
  <2>1. PICK r \in tab["talkgroups"].rows : pop'.at = "store" /\ pop'.id = r.id
    BY <1>3, PopIs DEF Held
  <2>2. r.id \in 1..tab["talkgroups"].last
    BY TabFacts, Names DEF Held, Tables
  <2> QED BY <1>1, <2>1, <2>2, ReadLinked DEF Linked, PopLinked, Early
<1> QED BY <1>2, <1>3 DEF PopulateRead

LEMMA LinkedIngestion == ASSUME Held, Linked, Ingestion PROVE Linked'
<1>1. CASE PopulateGroups
  BY <1>1, LinkedPopulate DEF PopulateGroups, Early
<1>2. CASE PopulateTag
  BY <1>2, LinkedPopulate DEF PopulateTag, Early
<1>3. CASE StoreCall
  BY <1>3, DroppedKeeps, StayedSame, LinkedKept DEF StoreCall, Rest
<1> QED BY <1>1, <1>2, <1>3, LinkedArrive, LinkedTalkgroup, LinkedPopulateWrite, LinkedPopulateRead DEF Ingestion

LEMMA LinkedUser ==
  ASSUME Held, Linked, \/ \E k \in Key : UserAdd(k)
                       \/ \E e \in mem["access"] : UserRemove(e)
                       \/ UserWrite \/ UserRead
  PROVE  Linked'
<1>0. "access" \in Flat /\ "access" \in List /\ Known(mem["access"], tab["access"])
  BY Names DEF Linked, MemLinked, LinkedTo
<1>1. doc' = doc /\ PopKeeps
  BY DEF UserAdd, UserRemove, UserWrite, UserRead, PopKeeps
<1>2. ASSUME NEW k \in Key, UserAdd(k) PROVE Linked'
  <2>1. tab' = tab
    BY <1>2 DEF UserAdd
  <2>2. PICK S : /\ mem' = [mem EXCEPT !["access"] = S]
                 /\ \/ S = mem["access"]
                    \/ S = mem["access"] \union {[id |-> New, sys |-> 0, key |-> k, tag |-> 0]}
    BY <1>2 DEF UserAdd
  <2>3. Known(S, tab'["access"])
    BY <1>0, <2>1, <2>2, KnownNew
  <2> QED BY <1>0, <1>1, <2>1, <2>2, <2>3, StayedSame, LinkedSet
<1>3. ASSUME NEW e, UserRemove(e) PROVE Linked'
  <2>1. PICK S : S = mem["access"] \ {e}
    OBVIOUS
  <2>2. tab' = tab /\ mem' = [mem EXCEPT !["access"] = S]
    BY <1>3, <2>1 DEF UserRemove
  <2>3. Known(S, tab'["access"])
    BY <1>0, <2>1, <2>2 DEF Known
  <2> QED BY <1>0, <1>1, <2>2, <2>3, StayedSame, LinkedSet
<1>4. CASE UserWrite
  <2>1. mem' = mem /\ (WriteList("access") \/ tab' = tab)
    BY <1>4 DEF UserWrite
  <2> QED BY <1>0, <1>1, <2>1, LinkedWrite, StayedSame, LinkedKept
<1>5. CASE UserRead
  <2>1. tab' = tab /\ (ReadList("access") \/ ReadPart("access"))
    BY <1>5 DEF UserRead
  <2> QED BY <1>0, <1>1, <2>1, LinkedRead
<1> QED BY <1>2, <1>3, <1>4, <1>5

LEMMA TablesLinked ==
  ASSUME NEW t, Tabs(t), Refers(t), NEW S, \A l \in List : S[l] = t[l].rows
  PROVE  LinkedTo(S, t)
<1>1. \A l \in Flat : Known(S[l], t[l])
  BY RowsKnown, Names
<1>2. /\ \A l \in {"systems"} \union Nested : S[l] \subseteq t[l].rows
      /\ \A l \in Nested : \A e \in S[l] : e.sys \in Ids(S["systems"])
  BY Names DEF Refers
<1> QED BY <1>1, <1>2, RowsLinked

LEMMA LinkedRestart == ASSUME Held, Restart PROVE Linked'
<1>1. /\ \A l \in List : mem'[l] = tab[l].rows
      /\ tab' = tab /\ doc' = NoDoc /\ pop' = NoCall
  BY DEF Restart
<1>2. LinkedTo(mem', tab)
  BY <1>1, TablesLinked DEF Held, Tables
<1> QED BY <1>1, <1>2, NoDocLinked DEF Linked, MemLinked, PopLinked, NoCall, Early

LEMMA LinkedInit == ASSUME Init, Held PROVE Linked
<1>1. \A l \in List : mem[l] = tab[l].rows
  BY DEF Init
<1>2. LinkedTo(mem, tab)
  BY <1>1, TablesLinked DEF Held, Tables
<1> QED BY <1>2, NoDocLinked DEF Init, Linked, MemLinked, PopLinked, NoCall, Early

LEMMA LinkedNext == Held /\ Linked /\ [Next]_vars => Linked'
<1> SUFFICES ASSUME Held, Linked, [Next]_vars PROVE Linked'
  OBVIOUS
<1>1. CASE UNCHANGED vars
  BY <1>1, StayedSame, LinkedKept DEF vars, ext, PopKeeps
<1> QED BY <1>1, LinkedLoad, LinkedPut, LinkedIngestion, LinkedUser, LinkedRestart DEF Next

LEMMA SoundNext == Held /\ Linked /\ [Next]_vars => Held' /\ Linked'
BY HeldNext, LinkedNext DEF Linked

LEMMA SoundInit == Init => Held /\ Linked
BY HeldInit, LinkedInit

(* The lists in memory have elements of the right shape, and the tables    *)
(* stay in order: rows of the right shape, each under an id of its own     *)
(* that was given, and neither a row nor a stored call that refers to a    *)
(* row that is gone (TypeOK), whatever overlaps, fails or restarts.        *)
THEOREM TypeCorrect == Spec => []TypeOK
<1>1. Held => TablesOK
  <2> SUFFICES ASSUME Held PROVE TablesOK
    OBVIOUS
  <2>1. tab \in [List -> [rows : SUBSET Row, last : Nat]]
    <3>1. tab = [l \in List |-> tab[l]]
      BY DEF Held, Tables, Tabs
    <3>2. \A l \in List : tab[l] \in [rows : SUBSET Row, last : Nat]
      BY TabFacts DEF Held, Tables, TableOf
    <3> QED BY <3>1, <3>2
  <2>2. \A l \in List : \A r, q \in tab[l].rows : r.id \in 1..tab[l].last /\ (r.id = q.id => r = q)
    BY TabFacts DEF Held, Tables
  <2>3. tab = Cascade(tab)
    BY CascadeKeeps DEF Held, Tables
  <2> QED BY <2>1, <2>2, <2>3 DEF TablesOK, Held, Tables
<1>2. Held /\ Linked => mem \in [List -> SUBSET Row]
  <2> SUFFICES ASSUME Held, Linked PROVE mem \in [List -> SUBSET Row]
    OBVIOUS
  <2>1. mem = [l \in List |-> mem[l]]
    BY DEF Held, Memory
  <2>2. ASSUME NEW l \in List, NEW e \in mem[l]
        PROVE  e \in Row
    <3>1. LastTag \in Nat /\ tab["talkgroups"].last \in Nat
      BY LastTagNat, TabFacts, Names DEF Held, Tables
    <3>2. Fits(l, mem[l], LastTag)
      BY DEF Held, Memory
    <3>3. e.tag \in Nat
      BY <3>1, <3>2 DEF Fits, Elem, TagsIn
    <3>4. e.id \in Nat
      <4>1. CASE l = "talkgroups"
        BY <3>1, <4>1, Names DEF Linked, MemLinked, LinkedTo, Known
      <4>2. CASE l # "talkgroups"
        BY <3>2, <4>2 DEF Fits
      <4> QED BY <4>1, <4>2
    <3> QED BY <3>2, <3>3, <3>4 DEF Fits, Elem, Row
  <2> QED BY <2>1, <2>2
<1>3. Held /\ Linked => TypeOK
  BY <1>1, <1>2 DEF TypeOK
<1> QED BY <1>3, SoundInit, SoundNext, PTL DEF Spec

-----------------------------------------------------------------------------
(* What is in memory is what the tables hold, except what somebody is      *)
(* about to write or to read.                                              *)

InStep(l) == mem[l] = tab[l].rows
TalkgroupsInStep == {e \in mem["talkgroups"] : e.tag \in Ids(tab["tags"].rows)} = tab["talkgroups"].rows
SystemsInStep == InStep("systems") /\ InStep("sites") /\ InStep("units") /\ TalkgroupsInStep

(* While nothing is saved, the lists that ingestion and the handler of     *)
(* users are at may differ.                                                *)
Settled ==
  clean /\ ~Saving =>
    /\ watching = mem["dirwatch"]
    /\ InStep("apikeys") /\ InStep("dirwatch") /\ InStep("downstreams")
    /\ user = "idle" => InStep("access")
    /\ pop.at \notin {"group.write", "group.read"} => InStep("groups")
    /\ pop.at \notin {"tag.write", "tag.read"} => InStep("tags")
    /\ pop.at \notin {"write", "read"} => SystemsInStep
    /\ pop.at = "tag.write" => New \in Ids(mem["tags"])

(* Where a save is before a list is read back.                             *)
ToAccess      == {"access.write", "access.read"}
ToApikeys     == ToAccess \union {"stop", "apikeys"}
ToDirwatch    == ToApikeys \union {"dirwatch"}
ToDownstreams == ToDirwatch \union {"downstreams"}
ToGroups      == ToDownstreams \union {"groups", "groups.write", "groups.read"}
ToSystems     == ToGroups \union {"options", "systems", "systems.write", "systems.read"}
ToTags        == ToSystems \union {"tags", "tags.write", "tags.read"}

(* A save of the whole configuration that nothing disturbed has brought    *)
(* the lists it has passed into step, whatever they were before.           *)
SavedSoFar ==
  clean /\ Saving =>
    /\ pop.at = "idle" /\ user = "idle" /\ Sent \subseteq DOMAIN doc
    /\ pc \notin ToAccess => InStep("access")
    /\ pc \notin ToApikeys => InStep("apikeys")
    /\ pc \notin ToDirwatch => InStep("dirwatch")
    /\ pc \notin ToDownstreams => InStep("downstreams")
    /\ pc \notin ToGroups => InStep("groups")
    /\ pc \notin ToSystems => SystemsInStep
    /\ pc \in {"tags", "tags.write"} => InStep("talkgroups")
    /\ pc \notin ToTags => InStep("tags")

InOrder == Settled /\ SavedSoFar

LEMMA Spoilt == ASSUME clean' = FALSE PROVE InOrder'
BY DEF InOrder, Settled, SavedSoFar

(* Every list keeps in step, but perhaps l.                                *)
OthersKeep(l) ==
  /\ \A k \in (Flat \union {"systems", "sites", "units"}) \ {l} : InStep(k) => InStep(k)'
  /\ l \notin {"tags", "talkgroups"} => (TalkgroupsInStep => TalkgroupsInStep')
  /\ l # "talkgroups" => (InStep("talkgroups") /\ tab'["talkgroups"] = tab["talkgroups"] => InStep("talkgroups")')

LEMMA SetKeeps ==
  ASSUME Memory, tab' = tab, NEW l \in List, NEW S, mem' = [mem EXCEPT ![l] = S]
  PROVE  /\ OthersKeep(l)
         /\ l = "tags" => (TalkgroupsInStep => TalkgroupsInStep') /\ (InStep("talkgroups") => InStep("talkgroups")')
         /\ S = tab[l].rows => InStep(l)'
         /\ mem'[l] = S /\ \A k \in List \ {l} : mem'[k] = mem[k]
<1>1. mem'[l] = S /\ \A k \in List \ {l} : mem'[k] = mem[k]
  BY DEF Memory
<1>2. \A k \in List \ {l} : InStep(k) => InStep(k)'
  BY <1>1 DEF InStep
<1>3. l # "talkgroups" => (TalkgroupsInStep => TalkgroupsInStep')
  BY <1>1, Names DEF TalkgroupsInStep
<1> QED BY <1>1, <1>2, <1>3, Names DEF OthersKeep, InStep

(* When the tags are written.                                              *)
TalkgroupsKeep ==
  InStep("talkgroups") \/ (New \in Ids(mem["tags"]) /\ TalkgroupsInStep) => TalkgroupsInStep'

LEMMA WriteKeeps ==
  ASSUME Held, NEW l \in Flat, WriteList(l), mem' = mem
  PROVE  OthersKeep(l) /\ (l = "tags" => TalkgroupsKeep)
<1>1. Fits(l, mem[l], LastTag) /\ Tables
  BY Names DEF Held, Memory
<1>2. OnlyWrites(l, mem[l], tab')
  <2>1. tab' = Cascade([tab EXCEPT ![l] = FlatTable(mem[l], tab[l])])
    BY DEF WriteList, Commit
  <2> QED BY <1>1, <2>1, FlatWritten
<1>3. /\ \A k \in List \ {l, "talkgroups"} : tab'[k] = tab[k]
      /\ tab'["talkgroups"].rows = {r \in tab["talkgroups"].rows : r.tag \in Ids(tab'["tags"].rows)}
      /\ l # "tags" => tab'["talkgroups"] = tab["talkgroups"]
  BY <1>2 DEF OnlyWrites
<1>4. OthersKeep(l)
  <2>1. ASSUME NEW k \in (Flat \union {"systems", "sites", "units"}) \ {l}, InStep(k)
        PROVE  InStep(k)'
    <3>1. k \in List \ {l, "talkgroups"}
      BY Names
    <3> QED BY <1>3, <2>1, <3>1 DEF InStep
  <2>2. ASSUME l # "tags", TalkgroupsInStep
        PROVE  TalkgroupsInStep'
    <3>1. tab'["tags"] = tab["tags"]
      BY <1>3, <2>2, Names
    <3> QED BY <1>3, <2>2, <3>1 DEF TalkgroupsInStep
  <2> QED BY <2>1, <2>2 DEF OthersKeep, InStep
<1>5. ASSUME l = "tags", InStep("talkgroups")
      PROVE  TalkgroupsInStep'
  BY <1>3, <1>5 DEF InStep, TalkgroupsInStep
<1>6. ASSUME l = "tags", New \in Ids(mem["tags"]), TalkgroupsInStep
      PROVE  TalkgroupsInStep'
  <2>1. /\ Ids(tab["tags"].rows) \subseteq Ids(tab'["tags"].rows)
        /\ \A r \in tab'["tags"].rows : r.id \in Ids(tab["tags"].rows) \/ r.id > LastTag
    BY <1>2, <1>6 DEF OnlyWrites
  <2>2. ASSUME NEW e \in mem["talkgroups"]
        PROVE  e.tag \in Ids(tab'["tags"].rows) <=> e.tag \in Ids(tab["tags"].rows)
    <3>1. e.tag \in 0..LastTag /\ LastTag \in Nat
      BY Names, LastTagNat DEF Held, Memory, Fits, Elem, TagsIn
    <3>2. ASSUME e.tag \in Ids(tab'["tags"].rows)
          PROVE  e.tag \in Ids(tab["tags"].rows)
      <4>1. PICK r \in tab'["tags"].rows : e.tag = r.id
        BY <3>2 DEF Ids
      <4> QED BY <2>1, <3>1, <4>1
    <3> QED BY <2>1, <3>2
  <2>3. \A r \in tab["talkgroups"].rows : r.tag \in Ids(tab["tags"].rows)
    BY DEF Held, Tables, Refers
  <2>4. tab'["talkgroups"].rows = tab["talkgroups"].rows
    BY <1>3, <2>1, <2>3
  <2> QED BY <1>6, <2>2, <2>4 DEF TalkgroupsInStep
<1> QED BY <1>4, <1>5, <1>6 DEF TalkgroupsKeep

LEMMA SystemsReadBack ==
  ASSUME Held, ReadSystems, tab' = tab
  PROVE  /\ SystemsInStep' /\ InStep("talkgroups")'
         /\ \A l \in Flat : mem'[l] = mem[l] /\ (InStep(l) => InStep(l)')
<1>1. \A l \in {"systems"} \union Nested : mem'[l] = tab[l].rows
  BY Names DEF ReadSystems
<1>2. \A l \in Flat : mem'[l] = mem[l]
  BY Names DEF ReadSystems
<1>3. \A r \in tab["talkgroups"].rows : r.tag \in Ids(tab["tags"].rows)
  BY DEF Held, Tables, Refers
<1>4. TalkgroupsInStep'
  BY <1>1, <1>3, Names DEF TalkgroupsInStep
<1> QED BY <1>1, <1>2, <1>4, Names DEF SystemsInStep, InStep

-----------------------------------------------------------------------------
(* Each step, while a save is under way.                                   *)

(* The lists that a save at p has passed are in step.                      *)
Through(p) ==
  /\ p \notin ToAccess => InStep("access")
  /\ p \notin ToApikeys => InStep("apikeys")
  /\ p \notin ToDirwatch => InStep("dirwatch")
  /\ p \notin ToDownstreams => InStep("downstreams")
  /\ p \notin ToGroups => InStep("groups")
  /\ p \notin ToSystems => SystemsInStep
  /\ p \in {"tags", "tags.write"} => InStep("talkgroups")
  /\ p \notin ToTags => InStep("tags")

LEMMA StillPutting ==
  ASSUME InOrder, clean, Saving, pc' \notin {"idle", "page"},
         doc' = doc, pop' = pop, user' = user,
         Through(pc) => /\ pc' \notin ToAccess => InStep("access")'
                        /\ pc' \notin ToApikeys => InStep("apikeys")'
                        /\ pc' \notin ToDirwatch => InStep("dirwatch")'
                        /\ pc' \notin ToDownstreams => InStep("downstreams")'
                        /\ pc' \notin ToGroups => InStep("groups")'
                        /\ pc' \notin ToSystems => SystemsInStep'
                        /\ pc' \in {"tags", "tags.write"} => InStep("talkgroups")'
                        /\ pc' \notin ToTags => InStep("tags")'
  PROVE  InOrder'
<1>1. Through(pc) /\ pop.at = "idle" /\ user = "idle" /\ Sent \subseteq DOMAIN doc
  BY DEF InOrder, SavedSoFar, Through
<1> QED BY <1>1 DEF InOrder, Settled, SavedSoFar, Saving

LEMMA PutWrites ==
  ASSUME Held, InOrder, AccessWrite \/ GroupsWrite \/ TagsWrite
  PROVE  InOrder'
<1>1. CASE clean' = FALSE
  BY <1>1, Spoilt
<1>2. CASE clean' # FALSE
  <2>0. mem' = mem /\ doc' = doc /\ pop' = pop /\ user' = user
    BY DEF AccessWrite, GroupsWrite, TagsWrite, WriteStep, Other, ext
  <2>1. CASE AccessWrite
    <3>1. pc = "access.write" /\ pc' = "access.read" /\ clean' = clean /\ WriteList("access")
      BY <1>2, <2>1 DEF AccessWrite, WriteStep, Fault, NoFault, Go
    <3>2. CASE clean
      BY <2>0, <3>1, <3>2, StillPutting
         DEF Saving, ToAccess, ToApikeys, ToDirwatch, ToDownstreams, ToGroups, ToSystems, ToTags
    <3> QED BY <3>1, <3>2 DEF InOrder, Settled, SavedSoFar
  <2>2. CASE GroupsWrite
    <3>1. pc = "groups.write" /\ pc' = "groups.read" /\ clean' = clean /\ WriteList("groups")
      BY <1>2, <2>2 DEF GroupsWrite, WriteStep, Fault, NoFault, Go
    <3>2. OthersKeep("groups")
      BY <2>0, <3>1, WriteKeeps, Names
    <3>3. CASE clean
      BY <2>0, <3>1, <3>2, <3>3, StillPutting, Names
         DEF OthersKeep, Through, Saving, ToAccess, ToApikeys, ToDirwatch, ToDownstreams, ToGroups, ToSystems, ToTags
    <3> QED BY <3>1, <3>3 DEF InOrder, Settled, SavedSoFar
  <2>3. CASE TagsWrite
    <3>1. pc = "tags.write" /\ pc' = "tags.read" /\ clean' = clean /\ WriteList("tags")
      BY <1>2, <2>3 DEF TagsWrite, WriteStep, Fault, NoFault, Go
    <3>2. OthersKeep("tags") /\ (InStep("talkgroups") => TalkgroupsInStep')
      <4>1. "tags" \in Flat
        BY Names
      <4>2. OthersKeep("tags")
        BY <2>0, <3>1, <4>1, WriteKeeps
      <4>3. TalkgroupsKeep
        BY <2>0, <3>1, <4>1, WriteKeeps
      <4> QED BY <4>2, <4>3 DEF TalkgroupsKeep
    <3>3. CASE clean
      BY <2>0, <3>1, <3>2, <3>3, StillPutting, Names
         DEF OthersKeep, Through, SystemsInStep, Saving, ToAccess, ToApikeys, ToDirwatch, ToDownstreams,
             ToGroups, ToSystems, ToTags
    <3> QED BY <3>1, <3>3 DEF InOrder, Settled, SavedSoFar
  <2> QED BY <2>1, <2>2, <2>3
<1> QED BY <1>1, <1>2

LEMMA PutReads ==
  ASSUME Held, InOrder, AccessRead \/ GroupsRead \/ TagsRead
  PROVE  InOrder'
<1>0. doc' = doc /\ pop' = pop /\ user' = user /\ tab' = tab
  BY DEF AccessRead, GroupsRead, TagsRead, ReadStep, Other, ext
<1>1. CASE clean' = FALSE
  BY <1>1, Spoilt
<1>2. ASSUME NEW l \in Flat, ReadList(l)
      PROVE  OthersKeep(l) /\ InStep(l)' /\ (l = "tags" => (TalkgroupsInStep => TalkgroupsInStep'))
  <2>1. mem' = [mem EXCEPT ![l] = tab[l].rows]
    BY <1>2 DEF ReadList
  <2>2. PICK S : S = tab[l].rows
    OBVIOUS
  <2> QED BY <1>0, <2>1, <2>2, SetKeeps, Names DEF Held
<1>3. CASE clean' # FALSE
  <2>1. CASE AccessRead
    <3>1. pc = "access.read" /\ pc' = "stop" /\ clean' = clean /\ ReadList("access")
      BY <1>3, <2>1 DEF AccessRead, ReadStep, Fault, NoFault, Go
    <3>2. OthersKeep("access") /\ InStep("access")'
      BY <1>2, <3>1, Names
    <3>3. CASE clean
      BY <1>0, <3>1, <3>2, <3>3, StillPutting, Names
         DEF OthersKeep, Through, Saving, ToAccess, ToApikeys, ToDirwatch, ToDownstreams, ToGroups, ToSystems, ToTags
    <3> QED BY <3>1, <3>3 DEF InOrder, Settled, SavedSoFar
  <2>2. CASE GroupsRead
    <3>1. pc = "groups.read" /\ pc' = "options" /\ clean' = clean /\ ReadList("groups")
      BY <1>3, <2>2 DEF GroupsRead, ReadStep, Fault, NoFault, Go
    <3>2. OthersKeep("groups") /\ InStep("groups")'
      BY <1>2, <3>1, Names
    <3>3. CASE clean
      BY <1>0, <3>1, <3>2, <3>3, StillPutting, Names
         DEF OthersKeep, Through, Saving, ToAccess, ToApikeys, ToDirwatch, ToDownstreams, ToGroups, ToSystems, ToTags
    <3> QED BY <3>1, <3>3 DEF InOrder, Settled, SavedSoFar
  <2>3. CASE TagsRead
    <3>1. pc = "tags.read" /\ pc' = "finish" /\ clean' = clean /\ ReadList("tags")
      BY <1>3, <2>3 DEF TagsRead, ReadStep, Fault, NoFault, Go
    <3>2. OthersKeep("tags") /\ InStep("tags")' /\ (TalkgroupsInStep => TalkgroupsInStep')
      BY <1>2, <3>1, Names
    <3>3. CASE clean
      BY <1>0, <3>1, <3>2, <3>3, StillPutting, Names
         DEF OthersKeep, Through, SystemsInStep, Saving, ToAccess, ToApikeys, ToDirwatch, ToDownstreams,
             ToGroups, ToSystems, ToTags
    <3> QED BY <3>1, <3>3 DEF InOrder, Settled, SavedSoFar
  <2> QED BY <2>1, <2>2, <2>3
<1> QED BY <1>1, <1>3

LEMMA PutSaves ==
  ASSUME Held, InOrder, SaveApikeys \/ SaveDirwatches \/ SaveDownstreams
  PROVE  InOrder'
<1>0. doc' = doc /\ pop' = pop /\ user' = user
  BY DEF SaveApikeys, SaveDirwatches, SaveDownstreams, Other, ext
<1>1. CASE clean' = FALSE
  BY <1>1, Spoilt
<1>2. ASSUME NEW l \in Flat, l # "tags", NEW here, NEW next, SaveList(l, here, next), clean' # FALSE,
             clean, Sent \subseteq DOMAIN doc
      PROVE  OthersKeep(l) /\ InStep(l)'
  <2>0. l \in List /\ l \in Sent /\ l \notin Nested
    BY Names
  <2>1. PICK t : t = FlatTable(doc[l], tab[l])
    OBVIOUS
  <2>2. tab' = [tab EXCEPT ![l] = t] /\ mem' = [mem EXCEPT ![l] = t.rows]
    BY <1>2, <2>0, <2>1 DEF SaveList, Absent, Fault
  <2>3. tab'[l] = t /\ \A k \in List \ {l} : tab'[k] = tab[k]
    BY <2>0, <2>2 DEF Held, Tables, Tabs
  <2>4. mem'[l] = t.rows /\ \A k \in List \ {l} : mem'[k] = mem[k]
    BY <2>0, <2>2 DEF Held, Memory
  <2>5. \A k \in List \ {l} : InStep(k) => InStep(k)'
    BY <2>3, <2>4 DEF InStep
  <2>6. TalkgroupsInStep => TalkgroupsInStep'
    BY <1>2, <2>0, <2>3, <2>4, Names DEF TalkgroupsInStep
  <2>7. InStep(l)'
    BY <2>3, <2>4 DEF InStep
  <2> QED BY <2>0, <2>5, <2>6, <2>7, Names DEF OthersKeep
<1>3. CASE clean' # FALSE
  <2>0. clean' = clean /\ Saving /\ (clean => Sent \subseteq DOMAIN doc)
    BY <1>3 DEF SaveApikeys, SaveDirwatches, SaveDownstreams, SaveList, Absent, NoFault, Fault, Go, Saving,
                InOrder, SavedSoFar
  <2>1. CASE ~clean
    BY <2>0, <2>1 DEF InOrder, Settled, SavedSoFar
  <2>2. CASE clean /\ SaveApikeys
    <3>1. pc = "apikeys" /\ pc' = "dirwatch" /\ OthersKeep("apikeys") /\ InStep("apikeys")'
      BY <1>2, <1>3, <2>0, <2>2, Names DEF SaveApikeys, SaveList, Absent, Go
    <3> QED BY <1>0, <2>0, <2>2, <3>1, StillPutting, Names
       DEF OthersKeep, Through, ToAccess, ToApikeys, ToDirwatch, ToDownstreams, ToGroups, ToSystems, ToTags
  <2>3. CASE clean /\ SaveDirwatches
    <3>1. pc = "dirwatch" /\ pc' = "downstreams" /\ OthersKeep("dirwatch") /\ InStep("dirwatch")'
      BY <1>2, <1>3, <2>0, <2>3, Names DEF SaveDirwatches, SaveList, Absent, Go
    <3> QED BY <1>0, <2>0, <2>3, <3>1, StillPutting, Names
       DEF OthersKeep, Through, ToAccess, ToApikeys, ToDirwatch, ToDownstreams, ToGroups, ToSystems, ToTags
  <2>4. CASE clean /\ SaveDownstreams
    <3>1. pc = "downstreams" /\ pc' = "groups" /\ OthersKeep("downstreams") /\ InStep("downstreams")'
      BY <1>2, <1>3, <2>0, <2>4, Names DEF SaveDownstreams, SaveList, Absent, Go
    <3> QED BY <1>0, <2>0, <2>4, <3>1, StillPutting, Names
       DEF OthersKeep, Through, ToAccess, ToApikeys, ToDirwatch, ToDownstreams, ToGroups, ToSystems, ToTags
  <2> QED BY <2>1, <2>2, <2>3, <2>4
<1> QED BY <1>1, <1>3

LEMMA PutSystemsInOrder ==
  ASSUME Held, MemLinked, InOrder, PutSystems \/ SystemsWrite \/ SystemsRead
  PROVE  InOrder'
<1>0. doc' = doc /\ user' = user
  BY DEF PutSystems, SystemsWrite, SystemsRead, Other, OtherSystems, ext
<1>1. CASE clean' = FALSE
  BY <1>1, Spoilt
<1>2. ASSUME ~clean, clean' = clean
      PROVE  InOrder'
  BY <1>2 DEF InOrder, Settled, SavedSoFar
<1>3. ASSUME clean, Saving
      PROVE  pop.at = "idle" /\ Sent \subseteq DOMAIN doc
  BY <1>3 DEF InOrder, SavedSoFar
<1>4. CASE PutSystems /\ clean' # FALSE
  <2>1. pc = "systems" /\ Saving /\ clean' = clean /\ tab' = tab
    BY <1>4 DEF PutSystems, Absent, Go, Saving
  <2>2. CASE clean
    <3>1. /\ pc' = "systems.write" /\ pop' = pop
          /\ mem' = [l \in List |-> IF l \in {"systems"} \union Nested THEN doc[l] ELSE mem[l]]
      BY <1>3, <1>4, <2>1, <2>2, Names DEF PutSystems, Absent, Go, Orphaned
    <3>2. \A l \in Flat : mem'[l] = mem[l]
      BY <3>1, Names
    <3>3. \A l \in Flat : InStep(l) => InStep(l)'
      BY <2>1, <3>2 DEF InStep
    <3> QED BY <1>0, <2>1, <2>2, <3>1, <3>3, StillPutting, Names
       DEF Through, ToAccess, ToApikeys, ToDirwatch, ToDownstreams, ToGroups, ToSystems, ToTags
  <2> QED BY <1>2, <2>1, <2>2
<1>5. CASE SystemsWrite /\ clean' # FALSE
  <2>1. /\ pc = "systems.write" /\ pc' = "systems.read" /\ Saving /\ clean' = clean
        /\ WriteSystems /\ Renumbered
    BY <1>5 DEF SystemsWrite, WriteSystemsFails, Go, Saving, NoFault, Fault
  <2>2. CASE clean
    <3>1. pop' = pop
      BY <1>3, <2>1, <2>2 DEF Renumbered
    <3>2. \A l \in Flat : tab'[l] = tab[l] /\ mem'[l] = mem[l]
      BY <1>0, <2>1, <3>1, SystemsHeld DEF Held
    <3>3. \A l \in Flat : InStep(l) => InStep(l)'
      BY <3>2 DEF InStep
    <3> QED BY <1>0, <2>1, <2>2, <3>1, <3>3, StillPutting, Names
       DEF Through, ToAccess, ToApikeys, ToDirwatch, ToDownstreams, ToGroups, ToSystems, ToTags
  <2> QED BY <1>2, <2>1, <2>2
<1>6. CASE SystemsRead /\ clean' # FALSE
  <2>1. /\ pc = "systems.read" /\ pc' = "tags" /\ Saving /\ clean' = clean
        /\ ReadSystems /\ Orphaned /\ tab' = tab
    BY <1>6 DEF SystemsRead, Go, Saving, NoFault, Fault
  <2>2. CASE clean
    <3>1. pop' = pop
      BY <1>3, <2>1, <2>2 DEF Orphaned
    <3>2. SystemsInStep' /\ InStep("talkgroups")' /\ \A l \in Flat : InStep(l) => InStep(l)'
      BY <2>1, SystemsReadBack
    <3> QED BY <1>0, <2>1, <2>2, <3>1, <3>2, StillPutting, Names
       DEF Through, ToAccess, ToApikeys, ToDirwatch, ToDownstreams, ToGroups, ToSystems, ToTags
  <2> QED BY <1>2, <2>1, <2>2
<1> QED BY <1>1, <1>4, <1>5, <1>6

LEMMA PutInOrder == ASSUME Held, MemLinked, InOrder, Put PROVE InOrder'
<1>1. CASE PutAccess
  <2>1. CASE ~clean'
    BY <2>1 DEF InOrder, Settled, SavedSoFar
  <2>2. CASE clean'
    <3>1. /\ pc' = "access.write" /\ pop.at = "idle" /\ user = "idle" /\ Sent \subseteq DOMAIN doc
          /\ doc' = doc /\ pop' = pop /\ user' = user
      BY <1>1, <2>2, Names DEF PutAccess, Go, ext
    <3> QED BY <3>1 DEF InOrder, Settled, SavedSoFar, Saving, ToAccess, ToApikeys, ToDirwatch, ToDownstreams,
                        ToGroups, ToSystems, ToTags
  <2> QED BY <2>1, <2>2
<1>2. CASE RefuseCode
  BY <1>2 DEF RefuseCode, Go, ext, InOrder, Settled, SavedSoFar, Saving, SystemsInStep, TalkgroupsInStep, InStep
<1>3. CASE StopDirwatches
  <2>1. CASE ~clean
    BY <1>3, <2>1 DEF StopDirwatches, InOrder, Settled, SavedSoFar
  <2>2. CASE clean
    <3>1. /\ mem' = [mem EXCEPT !["dirwatch"] = {}] /\ tab' = tab /\ doc' = doc /\ pop' = pop /\ user' = user
          /\ pc = "stop" /\ pc' = "apikeys"
      BY <1>3 DEF StopDirwatches, Go, ext
    <3>2. OthersKeep("dirwatch")
      BY <3>1, SetKeeps, Names DEF Held
    <3> QED BY <2>2, <3>1, <3>2, StillPutting, Names
       DEF OthersKeep, Through, Saving, ToAccess, ToApikeys, ToDirwatch, ToDownstreams, ToGroups, ToSystems, ToTags
  <2> QED BY <2>1, <2>2
<1>4. CASE PutGroups \/ PutTags
  <2>0. doc' = doc /\ pop' = pop /\ user' = user /\ tab' = tab /\ clean' = clean
    BY <1>4 DEF PutGroups, PutTags, Other, Absent, FromMap, NoFault, ext
  <2>1. CASE ~clean
    BY <2>0, <2>1 DEF InOrder, Settled, SavedSoFar
  <2>2. CASE clean
    <3>1. Saving
      BY <1>4 DEF PutGroups, PutTags, Absent, Go, Saving
    <3>2. Sent \subseteq DOMAIN doc
      BY <2>2, <3>1 DEF InOrder, SavedSoFar
    <3>3. CASE PutGroups
      <4>1. pc = "groups" /\ pc' = "groups.write" /\ mem' = [mem EXCEPT !["groups"] = doc["groups"]]
        BY <3>2, <3>3, Names DEF PutGroups, Absent, Go, FromMap
      <4>2. OthersKeep("groups")
        BY <2>0, <4>1, SetKeeps, Names DEF Held
      <4> QED BY <2>0, <2>2, <3>1, <4>1, <4>2, StillPutting, Names
         DEF OthersKeep, Through, ToAccess, ToApikeys, ToDirwatch, ToDownstreams, ToGroups, ToSystems, ToTags
    <3>4. CASE PutTags
      <4>1. pc = "tags" /\ pc' = "tags.write" /\ mem' = [mem EXCEPT !["tags"] = doc["tags"]]
        BY <3>2, <3>4, Names DEF PutTags, Absent, Go, FromMap
      <4>2. /\ OthersKeep("tags")
            /\ (TalkgroupsInStep => TalkgroupsInStep') /\ (InStep("talkgroups") => InStep("talkgroups")')
        BY <2>0, <4>1, SetKeeps, Names DEF Held
      <4> QED BY <2>0, <2>2, <3>1, <4>1, <4>2, StillPutting, Names
         DEF OthersKeep, Through, SystemsInStep, ToAccess, ToApikeys, ToDirwatch, ToDownstreams, ToGroups,
             ToSystems, ToTags
    <3> QED BY <1>4, <3>3, <3>4
  <2> QED BY <2>1, <2>2
<1>5. CASE SaveOptions
  <2>1. CASE clean' = FALSE
    BY <2>1, Spoilt
  <2>2. CASE clean' # FALSE
    <3>1. /\ pc = "options" /\ pc' = "systems" /\ clean' = clean /\ mem' = mem /\ tab' = tab
          /\ doc' = doc /\ pop' = pop /\ user' = user
      BY <1>5, <2>2 DEF SaveOptions, Go, Fault, NoFault, ext
    <3>2. CASE clean
      BY <3>1, <3>2, StillPutting
         DEF InStep, Through, Saving, ToAccess, ToApikeys, ToDirwatch, ToDownstreams, ToGroups, ToSystems, ToTags
    <3> QED BY <3>1, <3>2 DEF InOrder, Settled, SavedSoFar
  <2> QED BY <2>1, <2>2
<1>6. CASE Finish
  <2>1. /\ pc = "finish" /\ pc' = "idle" /\ watching' = mem["dirwatch"] /\ mem' = mem /\ tab' = tab
        /\ pop' = pop /\ user' = user /\ clean' = clean
    BY <1>6 DEF Finish, Go, ext
  <2>2. CASE clean
    <3>1. /\ pop.at = "idle" /\ SystemsInStep
          /\ \A l \in Flat : InStep(l)
      BY <2>1, <2>2, Names
         DEF InOrder, SavedSoFar, Saving, ToAccess, ToApikeys, ToDirwatch, ToDownstreams, ToGroups, ToSystems, ToTags
    <3>2. SystemsInStep' /\ \A l \in Flat : InStep(l)'
      BY <2>1, <3>1 DEF SystemsInStep, TalkgroupsInStep, InStep
    <3> QED BY <2>1, <3>1, <3>2, Names DEF InOrder, Settled, SavedSoFar, Saving
  <2> QED BY <2>1, <2>2 DEF InOrder, Settled, SavedSoFar
<1> QED BY <1>1, <1>2, <1>3, <1>4, <1>5, <1>6, PutWrites, PutReads, PutSaves, PutSystemsInOrder DEF Put

-----------------------------------------------------------------------------
(* Each step of the others.                                                *)

(* Nobody else acts during a save that is clean to its end.                *)
LEMMA Others ==
  ASSUME InOrder, clean, pop.at # "idle" \/ user # "idle"
  PROVE  ~Saving
BY DEF InOrder, SavedSoFar

LEMMA NotSaving ==
  ASSUME pc' = pc, ~Saving
  PROVE  ~Saving'
BY DEF Saving

LEMMA IngestionInOrder ==
  ASSUME Held, MemLinked, InOrder, Ingestion, clean' # FALSE
  PROVE  InOrder'
<1>0. pc' = pc /\ user' = user /\ watching' = watching
  BY DEF Ingestion, Arrive, PopulateGroups, PopulateTag, PopulateTalkgroup, PopulateWrite, PopulateRead,
         StoreCall, Ensure, EnsureWrite, EnsureRead, Rest
<1>1. CASE \E s \in mem["systems"], a \in Arrival : Arrive(s, a)
  <2>1. /\ pop.at = "idle" /\ pop'.at = "group" /\ mem' = mem /\ tab' = tab /\ doc' = doc
        /\ clean' = (clean /\ ~Saving)
    BY <1>1 DEF Arrive
  <2>2. CASE clean /\ ~Saving
    <3>1. ~Saving'
      BY <1>0, <2>2, NotSaving
    <3> QED BY <1>0, <2>1, <2>2, <3>1 DEF InOrder, Settled, SavedSoFar, SystemsInStep, TalkgroupsInStep, InStep
  <2> QED BY <2>1, <2>2 DEF InOrder, Settled, SavedSoFar
<1>2. CASE ~ \E s \in mem["systems"], a \in Arrival : Arrive(s, a)
  <2>1. pop.at # "idle" /\ (clean' = clean)
    BY <1>2 DEF Ingestion, PopulateGroups, PopulateTag, PopulateTalkgroup, PopulateWrite, PopulateRead, StoreCall,
                Ensure, EnsureWrite, EnsureRead, PopGo, NoFault, Fault, WriteSystemsFails
  <2>2. CASE ~clean
    BY <2>1, <2>2 DEF InOrder, Settled, SavedSoFar
  <2>3. CASE clean
    <3>1. ~Saving /\ ~Saving'
      BY <1>0, <2>1, <2>3, Others, NotSaving
    <3>2. SavedSoFar'
      BY <3>1 DEF SavedSoFar
    <3>3. pop \in Pop /\ Memory
      BY DEF Held
    <3>4. CASE PopulateGroups
      <4>1. CASE Ensure("groups", pop.group, "group", "group.write", "tag")
        <5>1. pop.at = "group" /\ tab' = tab /\ (pop'.at = "group.write" \/ (pop'.at = "tag" /\ mem' = mem))
          BY <3>3, <4>1 DEF Ensure, PopGo, Pop
        <5>2. CASE mem' = mem
          BY <1>0, <2>3, <3>1, <3>2, <5>1, <5>2 DEF InOrder, Settled, SystemsInStep, TalkgroupsInStep, InStep
        <5>3. CASE pop'.at = "group.write" /\ mem' # mem
          <6>1. PICK S : mem' = [mem EXCEPT !["groups"] = S]
            BY <4>1, <5>3 DEF Ensure
          <6>2. OthersKeep("groups") /\ mem'["dirwatch"] = mem["dirwatch"]
            BY <3>3, <5>1, <6>1, SetKeeps, Names
          <6> QED BY <1>0, <2>3, <3>1, <3>2, <5>1, <5>3, <6>2, Names DEF InOrder, Settled, SystemsInStep, OthersKeep
        <5> QED BY <5>1, <5>2, <5>3
      <4>2. CASE EnsureWrite("groups", "group.write", "group.read")
        <5>1. pop.at = "group.write" /\ pop'.at = "group.read" /\ mem' = mem /\ WriteList("groups")
          BY <3>3, <4>2 DEF EnsureWrite, PopGo, Pop, Fault
        <5>2. OthersKeep("groups")
          BY <5>1, WriteKeeps, Names
        <5> QED BY <1>0, <2>3, <3>1, <3>2, <5>1, <5>2, Names DEF InOrder, Settled, SystemsInStep, OthersKeep
      <4>3. CASE EnsureRead("groups", "group.read", "tag")
        <5>1. pop.at = "group.read" /\ pop'.at = "tag" /\ tab' = tab /\ mem' = [mem EXCEPT !["groups"] = tab["groups"].rows]
          BY <3>3, <4>3 DEF EnsureRead, ReadList, PopGo, Pop, Fault
        <5>2. OthersKeep("groups") /\ InStep("groups")' /\ mem'["dirwatch"] = mem["dirwatch"]
          <6>1. PICK S : S = tab["groups"].rows
            OBVIOUS
          <6> QED BY <3>3, <5>1, <6>1, SetKeeps, Names
        <5> QED BY <1>0, <2>3, <3>1, <3>2, <5>1, <5>2, Names DEF InOrder, Settled, SystemsInStep, OthersKeep
      <4> QED BY <3>4, <4>1, <4>2, <4>3 DEF PopulateGroups
    <3>5. CASE PopulateTag
      <4>1. CASE Ensure("tags", pop.tag, "tag", "tag.write", "talkgroup")
        <5>1. /\ pop.at = "tag" /\ tab' = tab
              /\ \/ pop'.at = "talkgroup" /\ mem' = mem
                 \/ /\ pop'.at = "tag.write"
                    /\ mem' = [mem EXCEPT !["tags"] = @ \union {[id |-> New, sys |-> 0, key |-> pop.tag, tag |-> 0]}]
          BY <3>3, <4>1 DEF Ensure, PopGo, Pop
        <5>2. CASE pop'.at = "talkgroup" /\ mem' = mem
          BY <1>0, <2>3, <3>1, <3>2, <5>1, <5>2 DEF InOrder, Settled, SystemsInStep, TalkgroupsInStep, InStep
        <5>3. CASE /\ pop'.at = "tag.write"
                   /\ mem' = [mem EXCEPT !["tags"] = @ \union {[id |-> New, sys |-> 0, key |-> pop.tag, tag |-> 0]}]
          <6>1. PICK e, S : /\ e = [id |-> New, sys |-> 0, key |-> pop.tag, tag |-> 0]
                            /\ S = mem["tags"] \union {e}
            OBVIOUS
          <6>2. mem' = [mem EXCEPT !["tags"] = S]
            BY <5>3, <6>1
          <6>3. New \in Ids(S)
            <7>1. e.id = New /\ e \in S
              BY <6>1
            <7> QED BY <7>1 DEF Ids
          <6>l. "tags" \in List /\ "dirwatch" \in List \ {"tags"}
            BY Names
          <6>4. OthersKeep("tags") /\ mem'["tags"] = S /\ \A k \in List \ {"tags"} : mem'[k] = mem[k]
            <7> HIDE <6>1
            <7> QED BY <3>3, <5>1, <6>2, <6>l, SetKeeps
          <6>5. TalkgroupsInStep => TalkgroupsInStep'
            BY <3>3, <5>1, <6>2, SetKeeps, Names
          <6> QED BY <1>0, <2>3, <3>1, <3>2, <5>1, <5>3, <6>3, <6>4, <6>5, <6>l, Names
                 DEF InOrder, Settled, SystemsInStep, OthersKeep
        <5> QED BY <5>1, <5>2, <5>3
      <4>2. CASE EnsureWrite("tags", "tag.write", "tag.read")
        <5>1. pop.at = "tag.write" /\ pop'.at = "tag.read" /\ mem' = mem /\ WriteList("tags")
          BY <3>3, <4>2 DEF EnsureWrite, PopGo, Pop, Fault
        <5>2. OthersKeep("tags") /\ TalkgroupsKeep
          BY <5>1, WriteKeeps, Names
        <5> QED BY <1>0, <2>3, <3>1, <3>2, <5>1, <5>2, Names
               DEF InOrder, Settled, SystemsInStep, OthersKeep, TalkgroupsKeep
      <4>3. CASE EnsureRead("tags", "tag.read", "talkgroup")
        <5>1. pop.at = "tag.read" /\ pop'.at = "talkgroup" /\ tab' = tab /\ mem' = [mem EXCEPT !["tags"] = tab["tags"].rows]
          BY <3>3, <4>3 DEF EnsureRead, ReadList, PopGo, Pop, Fault
        <5>2. /\ OthersKeep("tags") /\ InStep("tags")' /\ mem'["dirwatch"] = mem["dirwatch"]
              /\ (TalkgroupsInStep => TalkgroupsInStep')
          <6>1. PICK S : S = tab["tags"].rows
            OBVIOUS
          <6> QED BY <3>3, <5>1, <6>1, SetKeeps, Names
        <5> QED BY <1>0, <2>3, <3>1, <3>2, <5>1, <5>2, Names DEF InOrder, Settled, SystemsInStep, OthersKeep
      <4> QED BY <3>5, <4>1, <4>2, <4>3 DEF PopulateTag
    <3>6. CASE PopulateTalkgroup
      <4>1. pop.at = "talkgroup" /\ pop'.at = "write" /\ tab' = tab
        BY <3>3, <3>6 DEF PopulateTalkgroup, PopGo, Pop
      <4>2. \A l \in Flat : InStep(l) => InStep(l)'
        <5>1. \A l \in Flat : mem'[l] = mem[l]
          BY <3>3, <3>6, Names DEF PopulateTalkgroup, Memory
        <5> QED BY <4>1, <5>1 DEF InStep
      <4>3. mem'["dirwatch"] = mem["dirwatch"]
        BY <3>3, <3>6, Names DEF PopulateTalkgroup, Memory
      <4> QED BY <1>0, <2>3, <3>1, <3>2, <4>1, <4>2, <4>3, Names DEF InOrder, Settled
    <3>7. CASE PopulateWrite
      <4>1. pop.at = "write" /\ pop'.at = "read" /\ WriteSystems /\ doc' = doc /\ pop' \in Pop
        BY <3>3, <3>7, PopSteps DEF PopulateWrite, PopGo, Pop, PopAt, Fault, WriteSystemsFails, Rest
      <4>2. \A l \in Flat : tab'[l] = tab[l] /\ mem'[l] = mem[l]
        BY <4>1, SystemsHeld
      <4>3. \A l \in Flat : InStep(l) => InStep(l)'
        BY <4>2 DEF InStep
      <4> QED BY <1>0, <2>3, <3>1, <3>2, <4>1, <4>2, <4>3, Names DEF InOrder, Settled
    <3>8. CASE PopulateRead
      <4>1. pop.at = "read" /\ pop'.at \in {"store", "idle"} /\ ReadSystems /\ tab' = tab
        <5>1. pop.at = "read" /\ ReadSystems /\ tab' = tab
          BY <3>8 DEF PopulateRead, Fault
        <5>2. Dropped \/ \E r \in tab["talkgroups"].rows : pop' = [pop EXCEPT !.at = "store", !.id = r.id]
          BY <3>8 DEF PopulateRead
        <5>3. CASE Dropped
          BY <5>1, <5>3 DEF Dropped, NoCall
        <5>4. CASE \E r \in tab["talkgroups"].rows : pop' = [pop EXCEPT !.at = "store", !.id = r.id]
          BY <3>3, <5>1, <5>4 DEF Pop
        <5> QED BY <5>2, <5>3, <5>4
      <4>2. SystemsInStep' /\ \A l \in Flat : mem'[l] = mem[l] /\ (InStep(l) => InStep(l)')
        BY <4>1, SystemsReadBack
      <4> QED BY <1>0, <2>3, <3>1, <3>2, <4>1, <4>2, Names DEF InOrder, Settled
    <3>9. CASE StoreCall
      <4>1. pop.at = "store" /\ pop'.at = "idle" /\ mem' = mem /\ tab' = tab
        BY <3>9 DEF StoreCall, Dropped, NoCall
      <4> QED BY <1>0, <2>3, <3>1, <3>2, <4>1 DEF InOrder, Settled, SystemsInStep, TalkgroupsInStep, InStep
    <3> QED BY <1>2, <3>4, <3>5, <3>6, <3>7, <3>8, <3>9 DEF Ingestion
  <2> QED BY <2>2, <2>3
<1> QED BY <1>1, <1>2

LEMMA UserInOrder ==
  ASSUME Held, InOrder, clean' # FALSE,
         \/ \E k \in Key : UserAdd(k)
         \/ \E e \in mem["access"] : UserRemove(e)
         \/ UserWrite \/ UserRead
  PROVE  InOrder'
<1>0. pc' = pc /\ pop' = pop /\ watching' = watching /\ Memory
  BY DEF UserAdd, UserRemove, UserWrite, UserRead, Held
<1>1. CASE (\E k \in Key : UserAdd(k)) \/ (\E e \in mem["access"] : UserRemove(e))
  <2>1. user = "idle" /\ user' = "write" /\ tab' = tab /\ clean' = (clean /\ ~Saving)
    BY <1>1 DEF UserAdd, UserRemove
  <2>2. PICK S : mem' = [mem EXCEPT !["access"] = S]
    <3>1. CASE \E k \in Key : UserAdd(k)
      BY <3>1 DEF UserAdd
    <3>2. CASE \E e \in mem["access"] : UserRemove(e)
      BY <3>2 DEF UserRemove
    <3> QED BY <1>1, <3>1, <3>2
  <2>3. /\ OthersKeep("access") /\ mem'["dirwatch"] = mem["dirwatch"] /\ mem'["tags"] = mem["tags"]
    BY <1>0, <2>1, <2>2, SetKeeps, Names
  <2>4. CASE clean /\ ~Saving
    <3>1. ~Saving'
      BY <1>0, <2>4, NotSaving
    <3> QED BY <1>0, <2>1, <2>3, <2>4, <3>1, Names DEF InOrder, Settled, SavedSoFar, SystemsInStep, OthersKeep
  <2> QED BY <2>1, <2>4 DEF InOrder, Settled, SavedSoFar
<1>2. CASE UserWrite \/ UserRead
  <2>1. user # "idle" /\ clean' = clean
    BY <1>2 DEF UserWrite, UserRead, NoFault, Fault
  <2>2. CASE ~clean
    BY <2>1, <2>2 DEF InOrder, Settled, SavedSoFar
  <2>3. CASE clean
    <3>1. ~Saving /\ ~Saving'
      BY <1>0, <2>1, <2>3, Others, NotSaving
    <3>2. SavedSoFar'
      BY <3>1 DEF SavedSoFar
    <3>3. CASE UserWrite
      <4>1. user' = "read" /\ mem' = mem /\ WriteList("access")
        BY <3>3 DEF UserWrite, Fault
      <4>2. OthersKeep("access")
        BY <4>1, WriteKeeps, Names
      <4> QED BY <1>0, <2>3, <3>1, <3>2, <4>1, <4>2, Names DEF InOrder, Settled, SystemsInStep, OthersKeep
    <3>4. CASE UserRead
      <4>1. tab' = tab /\ mem' = [mem EXCEPT !["access"] = tab["access"].rows]
        BY <3>4 DEF UserRead, ReadList, Fault
      <4>2. /\ OthersKeep("access") /\ InStep("access")' /\ mem'["dirwatch"] = mem["dirwatch"]
            /\ mem'["tags"] = mem["tags"]
        <5>1. PICK S : S = tab["access"].rows
          OBVIOUS
        <5> QED BY <1>0, <4>1, <5>1, SetKeeps, Names
      <4> QED BY <1>0, <2>3, <3>1, <3>2, <4>2, Names DEF InOrder, Settled, SystemsInStep, OthersKeep
    <3> QED BY <1>2, <3>3, <3>4
  <2> QED BY <2>2, <2>3
<1> QED BY <1>1, <1>2

(* What is read at a start is what the tables hold.                        *)
LEMMA ReadInOrder ==
  ASSUME Refers(tab), pc = "idle", pop.at = "idle", watching = mem["dirwatch"], \A l \in List : InStep(l)
  PROVE  InOrder
<1>1. \A r \in tab["talkgroups"].rows : r.tag \in Ids(tab["tags"].rows)
  BY DEF Refers
<1>2. TalkgroupsInStep
  BY <1>1, Names DEF TalkgroupsInStep, InStep
<1>3. SystemsInStep
  BY <1>2, Names DEF SystemsInStep
<1>4. \A l \in Flat : InStep(l)
  BY Names
<1>5. /\ InStep("access") /\ InStep("apikeys") /\ InStep("dirwatch") /\ InStep("downstreams")
      /\ InStep("groups") /\ InStep("tags") /\ ~Saving
  BY <1>4, Names DEF Saving
<1> QED BY <1>3, <1>5 DEF InOrder, Settled, SavedSoFar

LEMMA InitInOrder == ASSUME Init, Held PROVE InOrder
<1>1. pc = "idle" /\ pop.at = "idle" /\ watching = mem["dirwatch"]
  BY DEF Init, NoCall
<1>2. \A l \in List : InStep(l)
  BY DEF Init, InStep
<1> QED BY <1>1, <1>2, ReadInOrder DEF Held, Tables

LEMMA RestartInOrder == ASSUME Held, Restart PROVE InOrder'
<1>1. /\ pc' = "idle" /\ pop'.at = "idle" /\ tab' = tab /\ watching' = tab["dirwatch"].rows
      /\ \A l \in List : mem'[l] = tab[l].rows
  BY DEF Restart, NoCall
<1>2. \A r \in tab["talkgroups"].rows : r.tag \in Ids(tab["tags"].rows)
  BY DEF Held, Tables, Refers
<1>3. TalkgroupsInStep'
  BY <1>1, <1>2, Names DEF TalkgroupsInStep
<1>4. SystemsInStep'
  BY <1>1, <1>3, Names DEF SystemsInStep, InStep
<1>5. /\ InStep("access")' /\ InStep("apikeys")' /\ InStep("dirwatch")' /\ InStep("downstreams")'
      /\ InStep("groups")' /\ InStep("tags")' /\ watching' = mem'["dirwatch"]
  BY <1>1, Names DEF InStep
<1> QED BY <1>1, <1>4, <1>5 DEF InOrder, Settled, SavedSoFar, Saving

LEMMA InOrderNext == Held /\ MemLinked /\ InOrder /\ [Next]_vars => InOrder'
<1> SUFFICES ASSUME Held, MemLinked, InOrder, [Next]_vars PROVE InOrder'
  OBVIOUS
<1>1. CASE UNCHANGED vars
  BY <1>1 DEF vars, ext, InOrder, Settled, SavedSoFar, Saving, SystemsInStep, TalkgroupsInStep, InStep
<1>2. CASE LoadPage
  <2>1. /\ pc = "idle" /\ pc' = "page" /\ mem' = mem /\ tab' = tab /\ watching' = watching
        /\ pop' = pop /\ user' = user /\ clean' = clean
    BY <1>2 DEF LoadPage, ext
  <2> QED BY <2>1 DEF InOrder, Settled, SavedSoFar, Saving, SystemsInStep, TalkgroupsInStep, InStep
<1>3. CASE clean' = FALSE
  BY <1>3, Spoilt
<1> QED BY <1>1, <1>2, <1>3, PutInOrder, IngestionInOrder, UserInOrder, RestartInOrder DEF Next

(* Whatever was ingested, saved or failed before: once a page was saved    *)
(* whole, with nothing failing and nobody else changing the lists          *)
(* meanwhile, what is in memory is what the tables hold, and the folders   *)
(* that are watched are those configured (Agreement).                      *)
THEOREM AgreementSafe == Spec => []Agreement
<1> DEFINE Inv == Held /\ Linked /\ InOrder
<1>1. Init => Inv
  BY SoundInit, InitInOrder
<1>2. Inv /\ [Next]_vars => Inv'
  BY SoundNext, InOrderNext DEF Linked
<1>3. Inv => Agreement
  <2> SUFFICES ASSUME Inv, Quiet, clean
               PROVE  /\ watching = mem["dirwatch"]
                      /\ \A l \in List \ {"talkgroups"} : mem[l] = tab[l].rows
                      /\ {e \in mem["talkgroups"] : e.tag \in Ids(tab["tags"].rows)} = tab["talkgroups"].rows
    BY DEF Agreement
  <2>1. pc = "idle" /\ pop.at = "idle" /\ user = "idle" /\ ~Saving
    BY DEF Quiet, Saving
  <2>2. /\ watching = mem["dirwatch"] /\ SystemsInStep
        /\ InStep("access") /\ InStep("apikeys") /\ InStep("dirwatch") /\ InStep("downstreams")
        /\ InStep("groups") /\ InStep("tags")
    BY <2>1 DEF InOrder, Settled
  <2>3. \A l \in List \ {"talkgroups"} : InStep(l)
    BY <2>2, Names DEF SystemsInStep
  <2> QED BY <2>2, <2>3 DEF SystemsInStep, TalkgroupsInStep, InStep
<1> QED BY <1>1, <1>2, <1>3, PTL DEF Spec

-----------------------------------------------------------------------------
(* Calls are kept.                                                         *)

(* As long as nothing failed, the row of a tag, or of a talkgroup with     *)
(* calls, has an element in memory: but between FromMap and Read, for one  *)
(* that the page does not have.                                            *)
TagsReached ==
  \A g \in tab["tags"].rows :
    \/ g.id \in Ids(mem["tags"]) \/ New \in Ids(mem["tags"])
    \/ pc \in {"tags.write", "tags.read"} /\ Lacks("tags", g.id)

TagsSaved ==
  /\ Ids(mem["tags"]) \ {New} \subseteq Ids(tab["tags"].rows)
  /\ "tags" \in DOMAIN doc => Ids(doc["tags"]) \ {New} \subseteq Ids(tab["tags"].rows)

Heard(r) == r.id \in calls \/ (pop.at = "store" /\ pop.id = r.id)

CallsReached ==
  \A r \in tab["talkgroups"].rows : Heard(r) =>
    \/ r.id \in Ids(mem["talkgroups"])
    \/ pc \in {"systems.write", "systems.read"} /\ Lacks("talkgroups", r.id)
    \/ ~TagsKnown

Reached == faults \in Nat /\ (faults = 0 => TagsReached /\ TagsSaved /\ CallsReached)

(* The talkgroups of a page have tags that the page has; and a save that   *)
(* nothing disturbed gives them to the rows.                               *)
Tagged(p) == \A e \in p["talkgroups"] : e.tag \in Ids(p["tags"])

PageTagged == {"systems", "tags"} \subseteq DOMAIN doc => Tagged(doc)

TagsSent ==
  clean =>
    /\ pc = "systems.write" => \A l \in {"systems"} \union Nested : mem[l] = doc[l]
    /\ pc \in {"systems.read", "tags", "tags.write", "tags.read", "finish"} /\ "systems" \in DOMAIN doc =>
         \A e \in doc["talkgroups"], r \in tab["talkgroups"].rows : e.id = r.id => e.tag = r.tag

(* The lists whose elements belong to no system.                           *)
Alone == List \ Nested

(* The ids of the rows that the Write of a list leaves.                    *)
LEMMA FlatIds ==
  ASSUME Tables, NEW l \in Alone, NEW list, Fits(l, list, LastTag), Known(list, tab[l]),
         NEW t, t = FlatTable(list, tab[l])
  PROVE  /\ \A q \in tab[l].rows : New \in Ids(list) \/ q.id \in Ids(list) => q.id \in Ids(t.rows)
         /\ \A r \in t.rows : r.id > tab[l].last \/ r.id \in Ids(tab[l].rows)
         /\ New \notin Ids(list) => \A r \in t.rows : r.id \in Ids(list) \/ r.id > tab[l].last
         /\ New \notin Ids(list) /\ Ids(list) \subseteq Ids(tab[l].rows) => \A r \in t.rows : r.id \in Ids(list)
<1>0. l \in List /\ TagsIn(l, LastTag) = Nat
  BY Names DEF TagsIn, Alone
<1>1. PICK gone, b : gone = Removed(list, tab[l].rows) /\ b = Cleared(tab[l], gone)
  OBVIOUS
<1>2. tab[l] \in TableOf(Nat)
  BY <1>0, TabFacts DEF Tables, LastTag
<1>3. Becomes(list, b, t)
  <2>1. IsFiniteSet(list) /\ \A e \in list : Elem(e, Nat)
    BY <1>0 DEF Fits
  <2>2. t = Written(list, gone, tab[l])
    BY <1>1 DEF FlatTable
  <2> QED BY <1>1, <1>2, <2>1, <2>2, WrittenBecomes
<1>4. b.rows = tab[l].rows \ gone /\ b.last = tab[l].last
  BY <1>1 DEF Cleared
<1>5. \A e \in list, q \in b.rows : q.id = e.id => Moved(e, q.sys).id = e.id
  BY <1>0, ElemSet DEF Fits
<1>6. ASSUME NEW q \in tab[l].rows, New \in Ids(list) \/ q.id \in Ids(list)
      PROVE  q.id \in Ids(t.rows)
  <2>1. q \in b.rows
    BY <1>1, <1>4, <1>6 DEF Removed
  <2>2. CASE q.id \in Ids(list)
    <3>1. PICK e \in list : e.id = q.id
      BY <2>2 DEF Ids
    <3>2. Moved(e, q.sys) \in t.rows /\ Moved(e, q.sys).id = q.id
      BY <1>3, <1>5, <2>1, <3>1 DEF Becomes
    <3> QED BY <3>2 DEF Ids
  <2>3. CASE q.id \notin Ids(list)
    BY <1>3, <2>1, <2>3 DEF Becomes, Ids
  <2> QED BY <2>2, <2>3
<1>7. ASSUME NEW r \in t.rows
      PROVE  r.id > tab[l].last \/ r.id \in Ids(tab[l].rows)
  <2>1. \/ r \in b.rows
        \/ \E e \in list, q \in b.rows : q.id = e.id /\ r = Moved(e, q.sys)
        \/ r.id > b.last
    BY <1>3 DEF Becomes
  <2> QED BY <1>4, <1>5, <2>1 DEF Ids
<1>8. ASSUME New \notin Ids(list), NEW r \in t.rows
      PROVE  /\ r.id \in Ids(list) \/ r.id > tab[l].last
             /\ Ids(list) \subseteq Ids(tab[l].rows) => r.id \in Ids(list)
  <2>1. b.rows = {q \in tab[l].rows : q.id \in Ids(list)}
    BY <1>1, <1>4, <1>8 DEF Removed
  <2>2. \/ r \in b.rows
        \/ \E e \in list, q \in b.rows : q.id = e.id /\ r = Moved(e, q.sys)
        \/ \E e \in Inserted(list, b) : r.id > b.last
    BY <1>3 DEF Becomes
  <2>3. r.id \in Ids(list) \/ (r.id > tab[l].last /\ Inserted(list, b) # {})
    BY <1>4, <1>5, <2>1, <2>2 DEF Ids
  <2>4. Ids(list) \subseteq Ids(tab[l].rows) => Inserted(list, b) = {}
    BY <2>1 DEF Inserted, Ids
  <2> QED BY <2>3, <2>4
<1> QED BY <1>6, <1>7, <1>8

(* The page: T are the ids that its tags may have.                         *)
TagsOf(p, T) == Tagged(p) /\ Ids(p["tags"]) \subseteq T

LEMMA RepairedTagged ==
  ASSUME NEW p, NEW n, PageFits(p, n), NEW T, Ids(p["tags"]) \subseteq T, NEW q \in Repaired(p)
  PROVE  TagsOf(q, T)
<1>0. PICK lost : lost = {e \in p["talkgroups"] : e.tag \notin Ids(p["tags"])}
  OBVIOUS
<1>1. CASE lost = {}
  BY <1>0, <1>1 DEF Repaired, TagsOf, Tagged
<1>2. CASE lost # {}
  <2>1. PICK u \in Ids(p["tags"]) :
          q = [p EXCEPT !["talkgroups"] = (p["talkgroups"] \ lost) \union {[e EXCEPT !.tag = u] : e \in lost}]
    BY <1>0, <1>2 DEF Repaired
  <2>2. PICK R : R = (p["talkgroups"] \ lost) \union {[e EXCEPT !.tag = u] : e \in lost}
    OBVIOUS
  <2>3. q["talkgroups"] = R /\ q["tags"] = p["tags"]
    <3>1. q = [p EXCEPT !["talkgroups"] = R]
      BY <2>1, <2>2
    <3> QED BY <3>1, Names DEF PageFits
  <2>4. ASSUME NEW e \in p["talkgroups"]
        PROVE  [e EXCEPT !.tag = u].tag = u
    <3>1. e = [id |-> e.id, sys |-> e.sys, key |-> e.key, tag |-> e.tag]
      BY Names DEF PageFits, Fits, Elem
    <3> QED BY <3>1
  <2>5. \A x \in R : x.tag \in Ids(p["tags"])
    BY <1>0, <2>1, <2>2, <2>4
  <2> QED BY <2>3, <2>5 DEF TagsOf, Tagged
<1> QED BY <1>1, <1>2

LEMMA WithoutTagged ==
  ASSUME NEW p, NEW n \in Nat, PageFits(p, n), NEW T, TagsOf(p, T),
         NEW l \in List, NEW e \in p[l], NEW q \in Without(p, l, e)
  PROVE  TagsOf(q, T)
<1>0. DOMAIN p = List \union {"options"} /\ "tags" \in List /\ "talkgroups" \in List
  BY Names DEF PageFits
<1>1. CASE l = "systems"
  <2>1. q = [k \in DOMAIN p |-> IF k \in Nested THEN {x \in p[k] : x.sys # e.id}
                                ELSE IF k = l THEN p[k] \ {e} ELSE p[k]]
    BY <1>1 DEF Without
  <2>2. q["talkgroups"] \subseteq p["talkgroups"] /\ q["tags"] = p["tags"]
    BY <1>0, <1>1, <2>1, Names
  <2> QED BY <2>2 DEF TagsOf, Tagged
<1>2. CASE l = "tags"
  <2>1. PICK r : r = [p EXCEPT !["tags"] = p["tags"] \ {e}]
    OBVIOUS
  <2>2. q \in Repaired(r)
    BY <1>2, <2>1 DEF Without
  <2>3. Fits("tags", p["tags"] \ {e}, n)
    BY <1>0, FitsSubset DEF PageFits
  <2>4. PageFits(r, n)
    BY <1>0, <2>1, <2>3, PutFits
  <2>5. Ids(r["tags"]) \subseteq T
    BY <1>0, <2>1 DEF TagsOf, Ids
  <2> QED BY <2>2, <2>4, <2>5, RepairedTagged
<1>3. CASE l \notin {"systems", "tags"}
  <2>1. q = [p EXCEPT ![l] = p[l] \ {e}]
    BY <1>3 DEF Without
  <2>2. q["talkgroups"] \subseteq p["talkgroups"] /\ q["tags"] = p["tags"]
    BY <1>0, <1>3, <2>1
  <2> QED BY <2>2 DEF TagsOf, Tagged
<1> QED BY <1>1, <1>2, <1>3

LEMMA EditTagged ==
  ASSUME NEW p, NEW n \in Nat, PageFits(p, n), NEW T, New \in T, TagsOf(p, T), Edit(p)
  PROVE  PageTagged' /\ ("tags" \in DOMAIN doc' => Ids(doc'["tags"]) \subseteq T)
<1>0. DOMAIN p = List \union {"options"} /\ "tags" \in List /\ "talkgroups" \in List /\ "options" \notin List
  BY Names DEF PageFits
<1>1. ASSUME TagsOf(doc', T)
      PROVE  PageTagged' /\ ("tags" \in DOMAIN doc' => Ids(doc'["tags"]) \subseteq T)
  BY <1>1 DEF TagsOf, PageTagged, Tagged
<1>2. ASSUME NEW l \in List, NEW e \in p[l], NEW q \in UNION {Without(p, l, x) : x \in p[l]}, doc' = q
      PROVE  TagsOf(doc', T)
  <2>1. PICK x \in p[l] : q \in Without(p, l, x)
    BY <1>2
  <2> QED BY <1>2, <2>1, WithoutTagged
<1>3. ASSUME NEW q, PageFits(q, n), TagsOf(q, T), NEW l \in List, NEW e \in Fresh(q, l),
             doc' = [q EXCEPT ![l] = @ \union {e}]
      PROVE  TagsOf(doc', T)
  <2>1. e \in NewRows(q, l)
    BY DEF Fresh
  <2>2. doc'[l] = q[l] \union {e} /\ \A k \in List \ {l} : doc'[k] = q[k]
    BY <1>3 DEF PageFits
  <2>3. CASE l = "talkgroups"
    <3>1. e.tag \in Ids(q["tags"])
      BY <2>1, <2>3 DEF NewRows
    <3> QED BY <1>0, <1>3, <2>2, <2>3, <3>1 DEF TagsOf, Tagged
  <2>4. CASE l = "tags"
    <3>1. e.id = New
      BY <2>1, <2>4, Names DEF NewRows
    <3> QED BY <1>0, <1>3, <2>2, <2>4, <3>1 DEF TagsOf, Tagged, Ids
  <2>5. CASE l \notin {"talkgroups", "tags"}
    BY <1>0, <1>3, <2>2, <2>5 DEF TagsOf, Tagged
  <2> QED BY <2>3, <2>4, <2>5
<1>4. ASSUME NEW l \in List, NEW e \in p[l], NEW d \in Fresh(p, l),
             doc' = [p EXCEPT ![l] = (@ \ {e}) \union {[e EXCEPT !.key = d.key]}]
      PROVE  TagsOf(doc', T)
  <2>1. PICK x : x = [e EXCEPT !.key = d.key]
    OBVIOUS
  <2>2. e = [id |-> e.id, sys |-> e.sys, key |-> e.key, tag |-> e.tag]
    BY DEF PageFits, Fits, Elem
  <2>3. x.id = e.id /\ x.tag = e.tag
    BY <2>1, <2>2
  <2>4. doc'[l] = (p[l] \ {e}) \union {x} /\ \A k \in List \ {l} : doc'[k] = p[k]
    BY <1>4, <2>1 DEF PageFits
  <2>5. CASE l = "talkgroups"
    BY <1>0, <2>3, <2>4, <2>5 DEF TagsOf, Tagged
  <2>6. CASE l = "tags"
    <3>1. Ids(doc'["tags"]) = Ids(p["tags"])
      BY <2>3, <2>4, <2>6 DEF Ids
    <3> QED BY <1>0, <2>4, <2>6, <3>1 DEF TagsOf, Tagged
  <2>7. CASE l \notin {"talkgroups", "tags"}
    BY <1>0, <2>4, <2>7 DEF TagsOf, Tagged
  <2> QED BY <2>5, <2>6, <2>7
<1>5. ASSUME NEW o \in Option, doc' = [p EXCEPT !["options"][o] = "chosen"]
      PROVE  TagsOf(doc', T)
  <2>1. PICK v : v = [p["options"] EXCEPT ![o] = "chosen"]
    OBVIOUS
  <2>2. doc' = [p EXCEPT !["options"] = v]
    BY <1>5, <2>1
  <2> QED BY <1>0, <2>2 DEF TagsOf, Tagged
<1>6. ASSUME NEW l \in Sent,
             doc' = [k \in DOMAIN p \ (IF l = "systems" THEN {l} \union Nested ELSE {l}) |-> p[k]]
      PROVE  PageTagged' /\ ("tags" \in DOMAIN doc' => Ids(doc'["tags"]) \subseteq T)
  <2>1. \A k \in DOMAIN doc' : doc'[k] = p[k]
    BY <1>6
  <2>2. "systems" \in DOMAIN doc' => "talkgroups" \in DOMAIN doc'
    BY <1>0, <1>6, Names
  <2> QED BY <2>1, <2>2 DEF TagsOf, PageTagged, Tagged
<1>7. CASE doc' = p
  BY <1>1, <1>7
<1>8. CASE \E l \in List : \E e \in p[l], q \in UNION {Without(p, l, x) : x \in p[l]} : e \notin q[l] /\ doc' = q
  BY <1>1, <1>2, <1>8
<1>9. CASE \E l \in List : \E e \in Fresh(p, l) : doc' = [p EXCEPT ![l] = @ \union {e}]
  BY <1>1, <1>3, <1>9
<1>10. CASE \E l \in List : \E e \in p[l] : \E q \in Without(p, l, e) : \E d \in Fresh(q, l) :
              doc' = [q EXCEPT ![l] = @ \union {d}]
  BY <1>1, <1>3, <1>10, WithoutFits, WithoutTagged
<1>11. CASE \E l \in List : \E e \in p[l], d \in Fresh(p, l) :
              doc' = [p EXCEPT ![l] = (@ \ {e}) \union {[e EXCEPT !.key = d.key]}]
  BY <1>1, <1>4, <1>11
<1>12. CASE \E o \in Option : doc' = [p EXCEPT !["options"][o] = "chosen"]
  BY <1>1, <1>5, <1>12
<1>13. CASE \E l \in Sent : doc' = [k \in DOMAIN p \ (IF l = "systems" THEN {l} \union Nested ELSE {l}) |-> p[k]]
  BY <1>6, <1>13
<1> QED BY <1>7, <1>8, <1>9, <1>10, <1>11, <1>12, <1>13 DEF Edit

LEMMA LoadTagged ==
  ASSUME Held, LoadPage
  PROVE  PageTagged' /\ ("tags" \in DOMAIN doc' => Ids(doc'["tags"]) \ {New} \subseteq Ids(mem["tags"]))
<1>1. PICK T : T = Ids(mem["tags"]) \union {New}
  OBVIOUS
<1>2. PICK p \in Repaired(Page) : Edit(p)
  BY DEF LoadPage
<1>3. PageFits(Page, LastTag) /\ LastTag \in Nat
  BY PageIs, LastTagNat DEF Held
<1>4. Page["tags"] = mem["tags"]
  BY Names DEF Page
<1>5. PageFits(p, LastTag) /\ TagsOf(p, T)
  BY <1>1, <1>2, <1>3, <1>4, RepairedFits, RepairedTagged
<1>6. New \in T
  BY <1>1
<1>7. PageTagged' /\ ("tags" \in DOMAIN doc' => Ids(doc'["tags"]) \subseteq T)
  BY <1>2, <1>3, <1>5, <1>6, EditTagged
<1> QED BY <1>1, <1>7

-----------------------------------------------------------------------------
(* What reaches the rows, step by step.                                    *)

(* Tags, or talkgroups, are left alone.                                    *)
TagsAside ==
  /\ tab'["tags"] = tab["tags"] /\ mem'["tags"] = mem["tags"] /\ doc' = doc
  /\ pc \in {"tags.write", "tags.read"} => pc' = pc

TalkgroupsAside ==
  /\ \A r \in tab'["talkgroups"].rows : r \in tab["talkgroups"].rows /\ (Heard(r)' => Heard(r))
  /\ Ids(mem["talkgroups"]) \subseteq Ids(mem'["talkgroups"]) /\ (~TagsKnown => ~TagsKnown')
  /\ pc \in {"systems.write", "systems.read"} => pc' = pc /\ doc' = doc

Reaches == TagsReached /\ TagsSaved /\ CallsReached

LEMMA TagsStay ==
  ASSUME TagsReached, TagsSaved, TagsAside
  PROVE  TagsReached' /\ TagsSaved'
BY DEF TagsReached, TagsSaved, TagsAside, Lacks

LEMMA TalkgroupsStay ==
  ASSUME CallsReached, TalkgroupsAside
  PROVE  CallsReached'
BY DEF CallsReached, TalkgroupsAside, Lacks

(* A talkgroup whose tag has no row keeps others from being written.       *)
LEMMA StillUnknown ==
  ASSUME ~TagsKnown, Held,
         \A r \in tab'["tags"].rows : r.id > LastTag \/ r.id \in Ids(tab["tags"].rows),
         \A e \in mem["talkgroups"] : \E x \in mem'["talkgroups"] : x.tag = e.tag
  PROVE  ~TagsKnown'
<1>1. PICK e \in mem["talkgroups"] : e.tag \notin Ids(tab["tags"].rows)
  BY DEF TagsKnown
<1>2. PICK x \in mem'["talkgroups"] : x.tag = e.tag
  OBVIOUS
<1>3. e.tag \in 0..LastTag /\ LastTag \in Nat
  BY Names, LastTagNat DEF Held, Memory, Fits, Elem, TagsIn
<1>4. \A r \in tab'["tags"].rows : r.id # e.tag
  BY <1>1, <1>3 DEF Ids
<1> QED BY <1>2, <1>4 DEF TagsKnown, Ids

(* Another list is written, read or set.                                   *)
LEMMA OthersReached ==
  ASSUME Reaches, doc' = doc, calls' = calls, pop' = pop \/ pop'.at # "store",
         \A l \in {"tags", "talkgroups"} : tab'[l] = tab[l] /\ mem'[l] = mem[l],
         pc \in {"tags.write", "tags.read", "systems.write", "systems.read"} => pc' = pc
  PROVE  Reaches'
<1>1. TagsAside
  BY DEF TagsAside
<1>2. TagsKnown' <=> TagsKnown
  BY DEF TagsKnown
<1>3. TalkgroupsAside
  BY <1>2 DEF TalkgroupsAside, Heard
<1> QED BY <1>1, <1>3, TagsStay, TalkgroupsStay DEF Reaches

LEMMA OtherWritten ==
  ASSUME Held, NEW l \in Flat \ {"tags"}, WriteList(l), mem' = mem
  PROVE  calls' = calls /\ \A k \in {"tags", "talkgroups"} : tab'[k] = tab[k] /\ mem'[k] = mem[k]
<1>1. Fits(l, mem[l], LastTag) /\ Tables
  BY Names DEF Held, Memory
<1>2. OnlyWrites(l, mem[l], tab')
  <2>1. tab' = Cascade([tab EXCEPT ![l] = FlatTable(mem[l], tab[l])])
    BY DEF WriteList, Commit
  <2> QED BY <1>1, <2>1, FlatWritten
<1>3. \A k \in {"tags", "talkgroups"} : tab'[k] = tab[k]
  BY <1>2, Names DEF OnlyWrites
<1>4. calls' = calls \intersect Ids(tab'["talkgroups"].rows)
  BY DEF WriteList, Commit
<1>5. calls \subseteq Ids(tab["talkgroups"].rows)
  BY <1>1 DEF Tables
<1> QED BY <1>3, <1>4, <1>5

(* Tags are written.                                                       *)
LEMMA TagsWritten ==
  ASSUME Held, MemLinked, WriteList("tags")
  PROVE  /\ \A q \in tab["tags"].rows :
              New \in Ids(mem["tags"]) \/ q.id \in Ids(mem["tags"]) => q.id \in Ids(tab'["tags"].rows)
         /\ \A r \in tab'["tags"].rows : r.id > LastTag \/ r.id \in Ids(tab["tags"].rows)
         /\ New \notin Ids(mem["tags"]) /\ Ids(mem["tags"]) \subseteq Ids(tab["tags"].rows) =>
              \A r \in tab'["tags"].rows : r.id \in Ids(mem["tags"])
         /\ tab'["talkgroups"].rows = {r \in tab["talkgroups"].rows : r.tag \in Ids(tab'["tags"].rows)}
         /\ calls' = calls \intersect Ids(tab'["talkgroups"].rows)
<1>1. /\ Fits("tags", mem["tags"], LastTag) /\ Tables /\ Known(mem["tags"], tab["tags"])
      /\ "tags" \in Flat /\ "tags" \in Alone
  BY Names DEF Held, Memory, MemLinked, LinkedTo, Alone
<1>2. OnlyWrites("tags", mem["tags"], tab') /\ calls' = calls \intersect Ids(tab'["talkgroups"].rows)
  <2>1. /\ tab' = Cascade([tab EXCEPT !["tags"] = FlatTable(mem["tags"], tab["tags"])])
        /\ calls' = calls \intersect Ids(tab'["talkgroups"].rows)
    BY DEF WriteList, Commit
  <2> QED BY <1>1, <2>1, FlatWritten
<1>3. /\ tab'["tags"] = FlatTable(mem["tags"], tab["tags"])
      /\ tab'["talkgroups"].rows = {r \in tab["talkgroups"].rows : r.tag \in Ids(tab'["tags"].rows)}
  BY <1>2 DEF OnlyWrites
<1>4. PICK t : t = tab'["tags"]
  OBVIOUS
<1>5. /\ \A q \in tab["tags"].rows : New \in Ids(mem["tags"]) \/ q.id \in Ids(mem["tags"]) => q.id \in Ids(t.rows)
      /\ \A r \in t.rows : r.id > tab["tags"].last \/ r.id \in Ids(tab["tags"].rows)
      /\ New \notin Ids(mem["tags"]) /\ Ids(mem["tags"]) \subseteq Ids(tab["tags"].rows) =>
           \A r \in t.rows : r.id \in Ids(mem["tags"])
  BY <1>1, <1>3, <1>4, FlatIds
<1> QED BY <1>2, <1>3, <1>4, <1>5 DEF LastTag

LEMMA TagsWriteReached ==
  ASSUME Held, MemLinked, Reaches, WriteList("tags"), mem' = mem, doc' = doc,
         pop' = pop \/ pop'.at # "store",
         pc' = pc \/ (pc = "tags.write" /\ pc' = "tags.read")
  PROVE  Reaches'
<1>1. TagsReached'
  <2>1. CASE New \in Ids(mem["tags"])
    BY <2>1 DEF TagsReached
  <2>2. CASE New \notin Ids(mem["tags"])
    <3>1. Ids(mem["tags"]) \subseteq Ids(tab["tags"].rows)
      BY <2>2 DEF Reaches, TagsSaved
    <3>2. \A r \in tab'["tags"].rows : r.id \in Ids(mem["tags"])
      BY <2>2, <3>1, TagsWritten
    <3> QED BY <3>2 DEF TagsReached
  <2> QED BY <2>1, <2>2
<1>2. ASSUME NEW i \in Ids(mem["tags"]) \ {New}
      PROVE  i \in Ids(tab'["tags"].rows)
  <2>1. PICK q \in tab["tags"].rows : q.id = i
    BY DEF Reaches, TagsSaved, Ids
  <2> QED BY <2>1, TagsWritten
<1>3. ASSUME "tags" \in DOMAIN doc, NEW i \in Ids(doc["tags"]) \ {New}
      PROVE  i \in Ids(tab'["tags"].rows)
  <2>1. PICK q \in tab["tags"].rows : q.id = i
    BY <1>3 DEF Reaches, TagsSaved, Ids
  <2>2. New \in Ids(mem["tags"]) \/ q.id \in Ids(mem["tags"])
    BY <1>3, <2>1 DEF Reaches, TagsReached, Lacks
  <2> QED BY <2>1, <2>2, TagsWritten
<1>4. TagsSaved'
  BY <1>2, <1>3 DEF TagsSaved
<1>5. TalkgroupsAside
  <2>1. \A r \in tab'["talkgroups"].rows : r \in tab["talkgroups"].rows /\ (Heard(r)' => Heard(r))
    BY TagsWritten DEF Heard
  <2>2. ~TagsKnown => ~TagsKnown'
    BY TagsWritten, StillUnknown
  <2> QED BY <2>1, <2>2 DEF TalkgroupsAside
<1> QED BY <1>1, <1>4, <1>5, TalkgroupsStay DEF Reaches

(* The talkgroups that the Write of systems leaves in the table, and their *)
(* objects.                                                                *)
LEMMA TalkgroupsWritten ==
  ASSUME Held, MemLinked, WriteSystems
  PROVE  /\ \A e \in mem["talkgroups"], q \in tab["talkgroups"].rows : q.id = e.id =>
              Placed(e) \in tab'["talkgroups"].rows /\ Placed(e).id = q.id
         /\ \A r \in tab'["talkgroups"].rows :
              \/ r \in tab["talkgroups"].rows /\ r.id \notin Ids(mem["talkgroups"])
              \/ \E e \in mem["talkgroups"], q \in tab["talkgroups"].rows :
                   q.id = e.id /\ r.id = e.id /\ r.tag = e.tag
              \/ r.id > tab["talkgroups"].last
         /\ calls' = calls \intersect Ids(tab'["talkgroups"].rows)
<1> DEFINE l == "talkgroups"
<1>0. /\ l \in List /\ l \in Nested /\ l \in {"sites", "talkgroups"}
      /\ Tables /\ Memory /\ TalkgroupsTable = NestedTable(l)
  BY Names DEF Held, TalkgroupsTable
<1>1. PICK c : c = Cascade([tab EXCEPT !["systems"]    = SystemsTable,
                                       !["sites"]      = SitesTable,
                                       !["talkgroups"] = TalkgroupsTable,
                                       !["units"]      = UnitsTable])
  OBVIOUS
<1>2. tab' = c /\ calls' = calls \intersect Ids(c["talkgroups"].rows)
  BY <1>1 DEF WriteSystems, Commit
<1>3. c[l].rows = {r \in NestedTable(l).rows : r.sys \in Ids(SystemsTable.rows) /\ r.tag \in Ids(tab["tags"].rows)}
  BY <1>0, <1>1, SystemsWritten
<1>4. NestedIs(l, mem["systems"], NestedTable(l))
  BY <1>0, NestedTableIs
<1>5. \A e \in mem[l] : /\ Placed(e).id = e.id /\ Placed(e).tag = e.tag
                        /\ e.sys \in Ids(mem["systems"]) /\ e.tag \in Ids(tab["tags"].rows)
  <2>1. \A e \in mem[l] : Elem(e, TagsIn(l, LastTag))
    BY <1>0 DEF Memory, Fits
  <2>2. \A e \in mem[l] : e.sys \in Ids(mem["systems"])
    BY <1>0 DEF MemLinked, LinkedTo, Joined
  <2>3. \A e \in mem[l] : e.tag \in Ids(tab["tags"].rows)
    BY DEF WriteSystems, TagsKnown
  <2> QED BY <2>1, <2>2, <2>3, ElemSet DEF Placed
<1>6. ASSUME NEW e \in mem[l], NEW q \in tab[l].rows, q.id = e.id
      PROVE  Placed(e) \in c[l].rows
  <2>1. PICK s \in mem["systems"] : Placed(e) \in Under(l, s)
    BY <1>0, AllUnder
  <2>2. PICK x : x = Placed(e)
    OBVIOUS
  <2>3. x \in Under(l, s) /\ x.id = e.id /\ x.tag \in Ids(tab["tags"].rows)
    BY <1>5, <2>1, <2>2
  <2>4. x.sys = IdOf(s.id) /\ q.sys = s.id /\ IdOf(s.id) = s.id /\ q.sys \in Ids(SystemsTable.rows)
    BY <1>0, <1>6, <2>3, UnderIs
  <2>5. x \in NestedTable(l).rows
    <3>1. x.id \in Ids(tab[l].rows)
      BY <1>6, <2>3 DEF Ids
    <3> QED BY <1>4, <2>3, <3>1 DEF NestedIs
  <2> QED BY <1>3, <2>2, <2>3, <2>4, <2>5
<1>7. ASSUME NEW r \in c[l].rows
      PROVE  \/ r \in tab[l].rows /\ r.id \notin Ids(mem[l])
             \/ \E e \in mem[l], q \in tab[l].rows : q.id = e.id /\ r.id = e.id /\ r.tag = e.tag
             \/ r.id > tab[l].last
  <2>1. \/ r \in Base(l).rows /\ \A s \in mem["systems"] : r.sys # IdOf(s.id)
        \/ \E s \in mem["systems"] : \E x \in Under(l, s) : x.id \in Ids(tab[l].rows) /\ r = x
        \/ r.id > tab[l].last
    BY <1>3, <1>4 DEF NestedIs
  <2>2. CASE r \in Base(l).rows /\ \A s \in mem["systems"] : r.sys # IdOf(s.id)
    <3>1. r \in tab[l].rows
      BY <1>0, <2>2, BaseIs
    <3>2. ASSUME NEW e \in mem[l], e.id = r.id
          PROVE  FALSE
      <4>1. e.sys = r.sys
        BY <1>0, <3>1, <3>2 DEF MemLinked, LinkedTo, Joined
      <4>2. PICK s \in mem["systems"] : s.id = r.sys
        BY <1>5, <4>1 DEF Ids
      <4>3. s.id \in Ids(tab["systems"].rows)
        BY <1>0, <3>1, <4>2 DEF Tables, Refers
      <4> QED BY <1>0, <2>2, <4>2, <4>3, SystemIds
    <3> QED BY <3>1, <3>2 DEF Ids
  <2>3. ASSUME NEW s \in mem["systems"], NEW x \in Under(l, s), x.id \in Ids(tab[l].rows), r = x
        PROVE  \E e \in mem[l], q \in tab[l].rows : q.id = e.id /\ r.id = e.id /\ r.tag = e.tag
    <3>1. PICK e \in mem[l] : x = Placed(e)
      BY <1>0, <2>3, AllUnder
    <3>2. PICK q \in tab[l].rows : q.id = x.id
      BY <2>3 DEF Ids
    <3> QED BY <1>5, <2>3, <3>1, <3>2
  <2> QED BY <2>1, <2>2, <2>3
<1> QED BY <1>2, <1>5, <1>6, <1>7

LEMMA AssignedKeeps ==
  ASSUME Held, MemLinked
  PROVE  /\ \A e \in mem["talkgroups"] : \E x \in Assigned["talkgroups"] : x.tag = e.tag
         /\ \A e \in mem["talkgroups"] :
              e.id \in Ids(tab["talkgroups"].rows) => e.id \in Ids(Assigned["talkgroups"])
         /\ Assigned["tags"] = mem["tags"]
<1>1. Tables /\ Memory /\ "tags" \in Flat
  BY Names DEF Held
<1>2. PICK tg : /\ Assigned["talkgroups"] = {Stored(Placed(e), tg[e]) : e \in mem["talkgroups"]}
                /\ \A e \in mem["talkgroups"] : e.id \in Ids(tab["talkgroups"].rows) => tg[e] = e.id
  BY <1>1, AssignedIs
<1>3. ASSUME NEW e \in mem["talkgroups"]
      PROVE  Stored(Placed(e), tg[e]).id = tg[e] /\ Stored(Placed(e), tg[e]).tag = e.tag
  <2>1. Elem(e, TagsIn("talkgroups", LastTag))
    BY <1>1, Names DEF Memory, Fits
  <2>2. Placed(e) = [id |-> e.id, sys |-> IdOf(e.sys), key |-> e.key, tag |-> e.tag]
    BY <2>1, ElemSet DEF Placed
  <2> QED BY <2>2 DEF Stored
<1> QED BY <1>1, <1>2, <1>3, AssignedIs DEF Ids

LEMMA WriteSystemsReached ==
  ASSUME Held, Linked, Reaches, WriteSystems, doc' = doc, pop' \in Pop, pop' = pop \/ pop'.at # "store"
            \/ (pop'.at = pop.at /\ pop'.id = pop.id),
         pc' = pc \/ (pc = "systems.write" /\ pc' = "systems.read")
  PROVE  Reaches'
<1>0. Tables /\ Memory /\ MemLinked /\ "tags" \in Flat /\ "talkgroups" \in List
  BY Names DEF Held, Linked
<1>1. mem' = Assigned /\ tab'["tags"] = tab["tags"] /\ mem'["tags"] = mem["tags"]
  BY <1>0, SystemsHeld
<1>2. TagsReached' /\ TagsSaved'
  BY <1>1 DEF Reaches, TagsReached, TagsSaved, Lacks
<1>3. ASSUME NEW r \in tab'["talkgroups"].rows, Heard(r)'
      PROVE  \/ r.id \in Ids(mem'["talkgroups"])
             \/ pc' \in {"systems.write", "systems.read"} /\ Lacks("talkgroups", r.id)'
  <2>1. Heard(r) /\ ~ r.id > tab["talkgroups"].last
    <3>1. calls' \subseteq calls
      BY <1>0, TalkgroupsWritten
    <3>2. Heard(r)
      BY <1>3, <3>1 DEF Heard
    <3>3. /\ \A q \in tab["talkgroups"].rows : q.id \in 1..tab["talkgroups"].last
          /\ tab["talkgroups"].last \in Nat
      BY <1>0, TabFacts DEF Tables
    <3>4. ASSUME r.id \in calls
          PROVE  r.id \in 1..tab["talkgroups"].last
      BY <1>0, <3>3, <3>4 DEF Tables, Ids
    <3>5. ASSUME pop.at = "store", pop.id = r.id
          PROVE  r.id \in 1..tab["talkgroups"].last
      BY <3>5 DEF Linked, PopLinked
    <3>6. r.id \in 1..tab["talkgroups"].last
      BY <3>2, <3>4, <3>5 DEF Heard
    <3> QED BY <3>2, <3>3, <3>6
  <2>2. CASE r \in tab["talkgroups"].rows /\ r.id \notin Ids(mem["talkgroups"])
    <3>1. TagsKnown
      BY DEF WriteSystems
    <3>2. pc \in {"systems.write", "systems.read"} /\ Lacks("talkgroups", r.id)
      BY <2>1, <2>2, <3>1 DEF Reaches, CallsReached
    <3> QED BY <3>2 DEF Lacks
  <2>3. CASE \E e \in mem["talkgroups"], q \in tab["talkgroups"].rows : q.id = e.id /\ r.id = e.id /\ r.tag = e.tag
    BY <1>0, <1>1, <2>3, AssignedKeeps DEF Ids
  <2> QED BY <1>0, <2>1, <2>2, <2>3, TalkgroupsWritten
<1> QED BY <1>2, <1>3 DEF Reaches, CallsReached

LEMMA FailReached ==
  ASSUME Held, Linked, Reaches, WriteSystemsFails, doc' = doc, pop' \in Pop, faults' = faults, faults \in Nat,
         pop'.at # "store" \/ (pop'.at = pop.at /\ pop'.id = pop.id),
         pc' = pc \/ (pc = "systems.write" /\ pc' = "tags")
  PROVE  Reaches'
<1>0. MemLinked /\ "tags" \in List /\ "talkgroups" \in List /\ Tables /\ Memory
  BY Names DEF Linked, Held
<1>1. ~TagsKnown
  BY DEF WriteSystemsFails, Fault
<1>2. /\ mem' = mem \/ mem' = Assigned
      /\ calls' = calls
      /\ \A l \in {"tags", "talkgroups"} : tab'[l].rows = tab[l].rows
  BY <1>0, SystemsFail
<1>3. mem'["tags"] = mem["tags"] /\ \A e \in mem["talkgroups"] : \E x \in mem'["talkgroups"] : x.tag = e.tag
  BY <1>0, <1>2, AssignedKeeps
<1>4. ~TagsKnown'
  <2>1. \A r \in tab'["tags"].rows : r.id \in Ids(tab["tags"].rows)
    BY <1>2 DEF Ids
  <2> QED BY <1>1, <1>3, <2>1, StillUnknown
<1>5. TagsReached' /\ TagsSaved'
  BY <1>2, <1>3 DEF Reaches, TagsReached, TagsSaved, Lacks
<1>6. CallsReached'
  BY <1>4 DEF CallsReached
<1> QED BY <1>5, <1>6 DEF Reaches

LEMMA FaultsCount == ASSUME [Next]_vars PROVE faults' = faults \/ faults' = faults + 1
<1>1. CASE UNCHANGED vars
  BY <1>1 DEF vars
<1>2. CASE LoadPage
  BY <1>2 DEF LoadPage
<1>3. CASE Put
  BY <1>3 DEF Put, PutAccess, RefuseCode, AccessWrite, AccessRead, StopDirwatches, SaveApikeys, SaveDirwatches,
              SaveDownstreams, PutGroups, GroupsWrite, GroupsRead, SaveOptions, PutSystems, SystemsWrite,
              SystemsRead, PutTags, TagsWrite, TagsRead, Finish, WriteStep, ReadStep, SaveList, Absent,
              WriteSystemsFails, NoFault, Fault
<1>4. CASE Ingestion
  BY <1>4 DEF Ingestion, Arrive, PopulateGroups, PopulateTag, PopulateTalkgroup, PopulateWrite, PopulateRead,
              StoreCall, Ensure, EnsureWrite, EnsureRead, WriteSystemsFails, NoFault, Fault
<1>5. CASE (\E k \in Key : UserAdd(k)) \/ (\E e \in mem["access"] : UserRemove(e)) \/ UserWrite \/ UserRead
  BY <1>5 DEF UserAdd, UserRemove, UserWrite, UserRead, NoFault, Fault
<1>6. CASE Restart
  BY <1>6 DEF Restart
<1> QED BY <1>1, <1>2, <1>3, <1>4, <1>5, <1>6 DEF Next

(* The list of tags is set: to what was read, to what the page sends, or   *)
(* with a new one.                                                         *)
LEMMA TagsSet ==
  ASSUME Held, Reaches, tab' = tab, doc' = doc, calls' = calls, pop' = pop \/ pop'.at # "store",
         NEW S, mem' = [mem EXCEPT !["tags"] = S], pc \in {"systems.write", "systems.read"} => pc' = pc,
         \/ S = tab["tags"].rows
         \/ "tags" \in DOMAIN doc /\ S = doc["tags"] /\ pc' = "tags.write"
         \/ S = mem["tags"] \union {[id |-> New, sys |-> 0, key |-> pop.tag, tag |-> 0]}
  PROVE  Reaches'
<1>1. mem'["tags"] = S /\ mem'["talkgroups"] = mem["talkgroups"]
  BY Names DEF Held, Memory
<1>2. TagsKnown' <=> TagsKnown
  BY <1>1 DEF TagsKnown
<1>3. TalkgroupsAside
  BY <1>1, <1>2 DEF TalkgroupsAside, Heard
<1>4. CallsReached'
  BY <1>3, TalkgroupsStay DEF Reaches
<1>5. CASE S = tab["tags"].rows
  BY <1>1, <1>4, <1>5 DEF Reaches, TagsReached, TagsSaved, Ids
<1>6. CASE "tags" \in DOMAIN doc /\ S = doc["tags"] /\ pc' = "tags.write"
  BY <1>1, <1>4, <1>6 DEF Reaches, TagsReached, TagsSaved, Lacks
<1>7. CASE S = mem["tags"] \union {[id |-> New, sys |-> 0, key |-> pop.tag, tag |-> 0]}
  <2>1. Ids(S) = Ids(mem["tags"]) \union {New}
    <3>1. PICK e : e = [id |-> New, sys |-> 0, key |-> pop.tag, tag |-> 0]
      OBVIOUS
    <3>2. S = mem["tags"] \union {e} /\ e.id = New
      BY <1>7, <3>1
    <3> QED BY <3>2 DEF Ids
  <2> QED BY <1>1, <1>4, <2>1 DEF Reaches, TagsReached, TagsSaved
<1> QED BY <1>5, <1>6, <1>7

(* Systems and what they have are read, or set to what the page sends.     *)
LEMMA SystemsReadReached ==
  ASSUME Held, Reaches, ReadSystems, tab' = tab, doc' = doc,
         pc \in {"tags.write", "tags.read"} => pc' = pc
  PROVE  Reaches'
<1>1. mem'["tags"] = mem["tags"] /\ mem'["talkgroups"] = tab["talkgroups"].rows
  BY Names DEF ReadSystems
<1>2. TagsAside
  BY <1>1 DEF TagsAside
<1>3. CallsReached'
  BY <1>1 DEF CallsReached, Ids
<1> QED BY <1>2, <1>3, TagsStay DEF Reaches

LEMMA ReachedPutSystems == ASSUME Held, Reaches, PutSystems PROVE Reaches'
<1>1. CASE ~ ("systems" \in DOMAIN doc)
  <2>1. /\ mem' = mem /\ tab' = tab /\ calls' = calls /\ doc' = doc /\ pop' = pop /\ pc = "systems"
    BY <1>1 DEF PutSystems, Absent, Go, Other, ext
  <2> QED BY <2>1, OthersReached
<1>2. CASE "systems" \in DOMAIN doc
  <2>1. /\ mem' = [l \in List |-> IF l \in {"systems"} \union Nested THEN doc[l] ELSE mem[l]]
        /\ tab' = tab /\ doc' = doc /\ pc = "systems" /\ pc' = "systems.write"
    BY <1>2 DEF PutSystems, Absent, Go, OtherSystems
  <2>2. mem'["tags"] = mem["tags"] /\ mem'["talkgroups"] = doc["talkgroups"]
    BY <2>1, Names
  <2>3. "talkgroups" \in DOMAIN doc
    BY <1>2, Names DEF Held, DocFits
  <2>4. TagsAside
    BY <2>1, <2>2 DEF TagsAside
  <2>5. CallsReached'
    BY <2>1, <2>2, <2>3 DEF CallsReached, Lacks
  <2> QED BY <2>4, <2>5, TagsStay DEF Reaches
<1> QED BY <1>1, <1>2

LEMMA ReachedSystemsWrite ==
  ASSUME Held, Linked, Reaches, SystemsWrite, faults' = faults, faults \in Nat
  PROVE  Reaches'
<1>0. doc' = doc /\ MemLinked
  BY DEF SystemsWrite, OtherSystems, Linked
<1>1. pop' \in Pop /\ pop'.at = pop.at /\ pop'.id = pop.id
  <2>1. CASE Renumbered
    <3>1. pop' \in Pop
      BY <1>0, <2>1, RenumberedIn
    <3>2. pop' = [pop EXCEPT !.sys = IdOf(pop.sys)] \/ pop' = pop
      BY <2>1 DEF Renumbered
    <3> QED BY <3>1, <3>2, PopIs DEF Held
  <2>2. CASE pop' = pop
    BY <2>2 DEF Held
  <2> QED BY <2>1, <2>2 DEF SystemsWrite
<1>2. CASE WriteSystems /\ pc = "systems.write" /\ pc' = "systems.read"
  BY <1>0, <1>1, <1>2, WriteSystemsReached
<1>3. CASE WriteSystemsFails /\ pc = "systems.write" /\ pc' = "tags"
  BY <1>0, <1>1, <1>3, FailReached
<1> QED BY <1>2, <1>3 DEF SystemsWrite, Go

LEMMA ReachedPut ==
  ASSUME Held, Linked, Reaches, Put, faults' = faults, faults \in Nat
  PROVE  Reaches'
<1>0. /\ Memory /\ Tables /\ MemLinked /\ {"tags", "talkgroups"} \subseteq List
      /\ DOMAIN mem = List /\ DOMAIN tab = List
  BY Names DEF Held, Linked, Memory, Tables, Tabs
<1>f. ~Fault
  BY DEF Fault
<1>1. CASE PutAccess
  <2>1. /\ tab' = tab /\ calls' = calls /\ doc' = doc /\ pop' = pop /\ pc = "page"
        /\ mem' = mem \/ mem' = [mem EXCEPT !["access"] = doc["access"]]
    BY <1>1 DEF PutAccess, FromMap, Go, ext
  <2> QED BY <1>0, <2>1, OthersReached
<1>2. CASE RefuseCode \/ Finish
  <2>1. /\ tab' = tab /\ calls' = calls /\ doc' = NoDoc /\ pop' = pop /\ mem' = mem /\ pc \in {"page", "finish"}
    BY <1>2 DEF RefuseCode, Finish, Go, ext
  <2>2. TagsReached' /\ TagsSaved'
    BY <2>1 DEF Reaches, TagsReached, TagsSaved, NoDoc
  <2>3. TagsKnown' <=> TagsKnown
    BY <2>1 DEF TagsKnown
  <2>4. TalkgroupsAside
    BY <2>1, <2>3 DEF TalkgroupsAside, Heard
  <2> QED BY <2>2, <2>4, TalkgroupsStay DEF Reaches
<1>3. CASE AccessWrite \/ GroupsWrite
  <2>1. \E l \in {"access", "groups"} : WriteList(l)
    BY <1>3, <1>f DEF AccessWrite, GroupsWrite, WriteStep
  <2>2. /\ mem' = mem /\ doc' = doc /\ pop' = pop /\ pc \in {"access.write", "groups.write"}
    BY <1>3 DEF AccessWrite, GroupsWrite, WriteStep, Go, Other, ext
  <2> QED BY <2>1, <2>2, OtherWritten, OthersReached, Names
<1>4. CASE AccessRead \/ GroupsRead
  <2>1. \E l \in {"access", "groups"} : ReadList(l)
    BY <1>4, <1>f DEF AccessRead, GroupsRead, ReadStep
  <2>2. /\ tab' = tab /\ calls' = calls /\ doc' = doc /\ pop' = pop /\ pc \in {"access.read", "groups.read"}
    BY <1>4 DEF AccessRead, GroupsRead, ReadStep, Go, Other, ext
  <2>3. \A l \in {"tags", "talkgroups"} : mem'[l] = mem[l]
    BY <1>0, <2>1 DEF ReadList
  <2> QED BY <2>2, <2>3, OthersReached
<1>5. CASE StopDirwatches
  <2>1. /\ mem' = [mem EXCEPT !["dirwatch"] = {}] /\ tab' = tab /\ calls' = calls /\ doc' = doc /\ pop' = pop
        /\ pc = "stop"
    BY <1>5 DEF StopDirwatches, Go, ext
  <2> QED BY <1>0, <2>1, OthersReached
<1>6. ASSUME NEW l \in {"apikeys", "dirwatch", "downstreams"}, NEW next, SaveList(l, l, next), Other
      PROVE  Reaches'
  <2>1. /\ doc' = doc /\ pop' = pop /\ calls' = calls /\ pc = l
    BY <1>6 DEF SaveList, Absent, Go, Other, ext
  <2>2. /\ tab' = tab \/ \E t : tab' = [tab EXCEPT ![l] = t]
        /\ mem' = mem \/ \E S : mem' = [mem EXCEPT ![l] = S]
    BY <1>6, <1>f DEF SaveList, Absent
  <2>3. \A k \in {"tags", "talkgroups"} : tab'[k] = tab[k] /\ mem'[k] = mem[k]
    BY <1>0, <2>2
  <2> QED BY <2>1, <2>3, OthersReached
<1>7. CASE PutGroups
  <2>1. /\ tab' = tab /\ calls' = calls /\ doc' = doc /\ pop' = pop /\ pc = "groups"
        /\ mem' = mem \/ mem' = [mem EXCEPT !["groups"] = doc["groups"]]
    BY <1>7 DEF PutGroups, FromMap, Absent, Go, Other, ext
  <2> QED BY <1>0, <2>1, OthersReached
<1>8. CASE SaveOptions
  <2>1. tab' = tab /\ calls' = calls /\ doc' = doc /\ pop' = pop /\ pc = "options" /\ mem' = mem
    BY <1>8 DEF SaveOptions, Go, ext
  <2> QED BY <2>1, OthersReached
<1>9. CASE SystemsRead
  <2>1. ReadSystems /\ tab' = tab /\ calls' = calls /\ doc' = doc /\ pc = "systems.read"
    BY <1>9, <1>f DEF SystemsRead, OtherSystems, Go
  <2> QED BY <2>1, SystemsReadReached
<1>10. CASE PutTags
  <2>1. /\ tab' = tab /\ calls' = calls /\ doc' = doc /\ pop' = pop /\ pc = "tags"
    BY <1>10 DEF PutTags, FromMap, Absent, Go, Other, ext
  <2>2. CASE mem' = mem
    BY <2>1, <2>2, OthersReached
  <2>3. CASE mem' # mem
    <3>1. PICK S : S = doc["tags"]
      OBVIOUS
    <3>2. mem' = [mem EXCEPT !["tags"] = S] /\ "tags" \in DOMAIN doc /\ pc' = "tags.write"
      BY <1>10, <2>3, <3>1 DEF PutTags, FromMap, Absent, Go
    <3> QED BY <2>1, <3>1, <3>2, TagsSet
  <2> QED BY <2>2, <2>3
<1>11. CASE TagsWrite
  <2>1. WriteList("tags") /\ mem' = mem /\ pc = "tags.write" /\ pc' = "tags.read" /\ doc' = doc /\ pop' = pop
    BY <1>11, <1>f DEF TagsWrite, WriteStep, Go, Other, ext
  <2> QED BY <1>0, <2>1, TagsWriteReached
<1>12. CASE TagsRead
  <2>1. PICK S : S = tab["tags"].rows
    OBVIOUS
  <2>2. /\ mem' = [mem EXCEPT !["tags"] = S] /\ tab' = tab /\ calls' = calls /\ pc = "tags.read"
        /\ doc' = doc /\ pop' = pop
    BY <1>12, <1>f, <2>1 DEF TagsRead, ReadStep, ReadList, Go, Other, ext
  <2> QED BY <2>1, <2>2, TagsSet
<1> QED BY <1>1, <1>2, <1>3, <1>4, <1>5, <1>6, <1>7, <1>8, <1>9, <1>10, <1>11, <1>12, ReachedPutSystems,
           ReachedSystemsWrite DEF Put, SaveApikeys, SaveDirwatches, SaveDownstreams

LEMMA ReachedIngestion ==
  ASSUME Held, Linked, Reaches, Ingestion, faults' = faults, faults \in Nat
  PROVE  Reaches'
<1>0. /\ Memory /\ Tables /\ MemLinked /\ {"tags", "talkgroups"} \subseteq List /\ pop \in Pop
      /\ DOMAIN mem = List /\ DOMAIN tab = List
  BY Names DEF Held, Linked, Memory, Tables, Tabs
<1>f. ~Fault
  BY DEF Fault
<1>p. pc' = pc /\ doc' = doc
  BY DEF Ingestion, Arrive, PopulateGroups, PopulateTag, PopulateTalkgroup, PopulateWrite, PopulateRead,
         StoreCall, Ensure, EnsureWrite, EnsureRead, Rest
<1>1. ~Fault /\ pc' = pc /\ doc' = doc
  BY <1>f, <1>p
<1>2. \A here, next : next \in PopAt /\ PopGo(here, next) => pop' \in Pop /\ pop'.at = next
  <2>1. ASSUME NEW here, NEW next \in PopAt, PopGo(here, next)
        PROVE  pop' \in Pop /\ pop'.at = next
    BY <1>0, <2>1 DEF PopGo, Pop
  <2> QED BY <2>1
<1>3. Dropped => pop' \in Pop /\ pop'.at = "idle"
  BY NoCallIn DEF Dropped, NoCall
<1>4. CASE \E s \in mem["systems"], a \in Arrival : Arrive(s, a)
  <2>1. tab' = tab /\ calls' = calls /\ mem' = mem /\ pop'.at = "group"
    BY <1>4 DEF Arrive
  <2> QED BY <1>1, <2>1, OthersReached
<1>5. CASE PopulateGroups
  <2>1. CASE Ensure("groups", pop.group, "group", "group.write", "tag")
    <3>1. pop'.at # "store" /\ tab' = tab /\ calls' = calls
      BY <1>2, <2>1 DEF Ensure, PopAt
    <3>2. \A l \in {"tags", "talkgroups"} : mem'[l] = mem[l]
      BY <1>0, <2>1 DEF Ensure
    <3> QED BY <1>1, <3>1, <3>2, OthersReached
  <2>2. CASE EnsureWrite("groups", "group.write", "group.read")
    <3>1. pop'.at # "store" /\ WriteList("groups") /\ mem' = mem
      BY <1>1, <1>2, <2>2 DEF EnsureWrite, PopAt
    <3> QED BY <1>1, <3>1, OtherWritten, OthersReached, Names
  <2>3. CASE EnsureRead("groups", "group.read", "tag")
    <3>1. pop'.at # "store" /\ tab' = tab /\ calls' = calls /\ ReadList("groups")
      BY <1>1, <1>2, <2>3 DEF EnsureRead, PopAt
    <3>2. \A l \in {"tags", "talkgroups"} : mem'[l] = mem[l]
      BY <1>0, <3>1 DEF ReadList
    <3> QED BY <1>1, <3>1, <3>2, OthersReached
  <2> QED BY <1>5, <2>1, <2>2, <2>3 DEF PopulateGroups
<1>6. CASE PopulateTag
  <2>1. CASE Ensure("tags", pop.tag, "tag", "tag.write", "talkgroup")
    <3>1. pop'.at # "store" /\ tab' = tab /\ calls' = calls
      BY <1>2, <2>1 DEF Ensure, PopAt
    <3>2. CASE mem' = mem
      BY <1>1, <3>1, <3>2, OthersReached
    <3>3. CASE mem' # mem
      <4>1. PICK S : S = mem["tags"] \union {[id |-> New, sys |-> 0, key |-> pop.tag, tag |-> 0]}
        OBVIOUS
      <4>2. mem' = [mem EXCEPT !["tags"] = S]
        BY <2>1, <3>3, <4>1 DEF Ensure
      <4> QED BY <1>1, <3>1, <4>1, <4>2, TagsSet
    <3> QED BY <3>2, <3>3
  <2>2. CASE EnsureWrite("tags", "tag.write", "tag.read")
    <3>1. pop'.at # "store" /\ WriteList("tags") /\ mem' = mem
      BY <1>1, <1>2, <2>2 DEF EnsureWrite, PopAt
    <3> QED BY <1>0, <1>1, <3>1, TagsWriteReached
  <2>3. CASE EnsureRead("tags", "tag.read", "talkgroup")
    <3>1. pop'.at # "store" /\ tab' = tab /\ calls' = calls
      BY <1>1, <1>2, <2>3 DEF EnsureRead, PopAt
    <3>2. PICK S : S = tab["tags"].rows
      OBVIOUS
    <3>3. mem' = [mem EXCEPT !["tags"] = S]
      BY <1>1, <2>3, <3>2 DEF EnsureRead, ReadList
    <3> QED BY <1>1, <3>1, <3>2, <3>3, TagsSet
  <2> QED BY <1>6, <2>1, <2>2, <2>3 DEF PopulateTag
<1>7. CASE PopulateTalkgroup
  <2>1. pop'.at # "store" /\ tab' = tab /\ calls' = calls
    BY <1>2, <1>7 DEF PopulateTalkgroup, PopAt
  <2>2. mem["talkgroups"] \subseteq mem'["talkgroups"] /\ mem'["tags"] = mem["tags"]
    BY <1>0, <1>7 DEF PopulateTalkgroup
  <2>3. TagsAside
    BY <1>1, <2>1, <2>2 DEF TagsAside
  <2>4. ~TagsKnown => ~TagsKnown'
    BY <2>1, <2>2 DEF TagsKnown
  <2>5. TalkgroupsAside
    BY <1>1, <2>1, <2>2, <2>4 DEF TalkgroupsAside, Heard, Ids
  <2> QED BY <2>3, <2>5, TagsStay, TalkgroupsStay DEF Reaches
<1>8. CASE PopulateWrite
  <2>1. CASE WriteSystems
    <3>1. PopGo("write", "read") \/ Dropped
      BY <1>8 DEF PopulateWrite
    <3>2. pop' \in Pop /\ pop'.at # "store"
      BY <1>2, <1>3, <3>1 DEF PopAt
    <3> QED BY <1>1, <2>1, <3>2, WriteSystemsReached
  <2>2. CASE WriteSystemsFails
    <3>1. PopGo("write", "read") \/ Dropped
      BY <1>8 DEF PopulateWrite
    <3>2. pop' \in Pop /\ pop'.at # "store"
      BY <1>2, <1>3, <3>1 DEF PopAt
    <3> QED BY <1>1, <2>2, <3>2, FailReached
  <2> QED BY <1>8, <2>1, <2>2 DEF PopulateWrite
<1>9. CASE PopulateRead
  <2>1. ReadSystems /\ tab' = tab
    BY <1>1, <1>9 DEF PopulateRead
  <2> QED BY <1>1, <2>1, SystemsReadReached
<1>10. CASE StoreCall
  <2>1. mem' = mem /\ tab' = tab /\ pop.at = "store" /\ pop'.at = "idle"
        /\ calls' \subseteq calls \union {pop.id}
    BY <1>3, <1>10 DEF StoreCall
  <2>2. TagsAside
    BY <1>1, <2>1 DEF TagsAside
  <2>3. TagsKnown' <=> TagsKnown
    BY <2>1 DEF TagsKnown
  <2>4. TalkgroupsAside
    BY <1>1, <2>1, <2>3 DEF TalkgroupsAside, Heard
  <2> QED BY <2>2, <2>4, TagsStay, TalkgroupsStay DEF Reaches
<1> QED BY <1>4, <1>5, <1>6, <1>7, <1>8, <1>9, <1>10 DEF Ingestion

LEMMA ReachedUser ==
  ASSUME Held, Reaches, faults' = faults, faults \in Nat,
         \/ \E k \in Key : UserAdd(k)
         \/ \E e \in mem["access"] : UserRemove(e)
         \/ UserWrite \/ UserRead
  PROVE  Reaches'
<1>0. {"tags", "talkgroups"} \subseteq List /\ DOMAIN mem = List /\ ~Fault
  BY Names DEF Held, Memory, Fault
<1>1. pc' = pc /\ doc' = doc /\ pop' = pop
  BY DEF UserAdd, UserRemove, UserWrite, UserRead
<1>2. CASE UserWrite
  <2>1. WriteList("access") /\ mem' = mem
    BY <1>0, <1>2 DEF UserWrite
  <2> QED BY <1>1, <2>1, OtherWritten, OthersReached, Names
<1>3. CASE ~UserWrite
  <2>1. tab' = tab /\ calls' = calls /\ \E S : mem' = [mem EXCEPT !["access"] = S]
    BY <1>0, <1>3 DEF UserAdd, UserRemove, UserRead, ReadList
  <2>2. \A l \in {"tags", "talkgroups"} : mem'[l] = mem[l]
    BY <1>0, <2>1
  <2> QED BY <1>1, <2>1, <2>2, OthersReached
<1> QED BY <1>2, <1>3

LEMMA ReachedInit == ASSUME Init, Held PROVE Reached
<1>1. faults = 0 /\ doc = NoDoc /\ pop.at # "store" /\ \A l \in List : tab[l].rows = mem[l]
  BY DEF Init, NoCall
<1>2. tab["tags"].rows = mem["tags"] /\ tab["talkgroups"].rows = mem["talkgroups"]
  BY <1>1, Names
<1> QED BY <1>1, <1>2 DEF Reached, TagsReached, TagsSaved, CallsReached, Ids, NoDoc

LEMMA ReachedNext == Held /\ Linked /\ Reached /\ [Next]_vars => Reached'
<1> SUFFICES ASSUME Held, Linked, Reached, [Next]_vars PROVE Reached'
  OBVIOUS
<1>1. faults' \in Nat /\ (faults' = 0 => faults' = faults)
  BY FaultsCount DEF Reached
<1>2. ASSUME faults' = 0
      PROVE  Reaches'
  <2>1. Reaches /\ faults' = faults /\ faults \in Nat
    BY <1>1, <1>2 DEF Reached, Reaches
  <2>2. CASE UNCHANGED vars
    <3>1. mem' = mem /\ tab' = tab /\ calls' = calls /\ doc' = doc /\ pop' = pop /\ pc' = pc
      BY <2>2 DEF vars, ext
    <3> QED BY <2>1, <3>1, OthersReached
  <2>3. CASE LoadPage
    <3>1. mem' = mem /\ tab' = tab /\ calls' = calls /\ pop' = pop /\ pc = "idle"
      BY <2>3 DEF LoadPage, ext
    <3>2. "tags" \in DOMAIN doc' => Ids(doc'["tags"]) \ {New} \subseteq Ids(mem["tags"])
      BY <2>3, LoadTagged
    <3>3. TagsReached' /\ TagsSaved'
      BY <2>1, <3>1, <3>2 DEF Reaches, TagsReached, TagsSaved
    <3>4. TagsKnown' <=> TagsKnown
      BY <3>1 DEF TagsKnown
    <3>5. TalkgroupsAside
      BY <3>1, <3>4 DEF TalkgroupsAside, Heard
    <3> QED BY <2>1, <3>3, <3>5, TalkgroupsStay DEF Reaches
  <2>4. CASE Restart
    BY <2>1, <2>4 DEF Restart
  <2> QED BY <2>1, <2>2, <2>3, <2>4, ReachedPut, ReachedIngestion, ReachedUser DEF Next
<1> QED BY <1>1, <1>2 DEF Reached, Reaches

-----------------------------------------------------------------------------
(* What the page sends, and what its save has written.                     *)

LEMMA PageTaggedNext == Held /\ PageTagged /\ [Next]_vars => PageTagged'
<1> SUFFICES ASSUME Held, PageTagged, [Next]_vars PROVE PageTagged'
  OBVIOUS
<1>1. CASE doc' = doc
  BY <1>1 DEF PageTagged, Tagged
<1>2. CASE doc' = NoDoc
  BY <1>2 DEF PageTagged, NoDoc
<1>3. CASE LoadPage
  BY <1>3, LoadTagged
<1>4. CASE Ingestion
  <2>1. doc' = doc
    BY <1>4 DEF Ingestion, Arrive, PopulateGroups, PopulateTag, PopulateTalkgroup, PopulateWrite, PopulateRead,
                StoreCall, Ensure, EnsureWrite, EnsureRead, Rest
  <2> QED BY <1>1, <2>1
<1>5. CASE Put
  <2>1. doc' = doc \/ doc' = NoDoc
    BY <1>5 DEF Put, PutAccess, RefuseCode, AccessWrite, AccessRead, StopDirwatches, SaveApikeys, SaveDirwatches,
                SaveDownstreams, PutGroups, GroupsWrite, GroupsRead, SaveOptions, PutSystems, SystemsWrite,
                SystemsRead, PutTags, TagsWrite, TagsRead, Finish, Other, OtherSystems
  <2> QED BY <1>1, <1>2, <2>1
<1> QED BY <1>1, <1>2, <1>3, <1>4, <1>5 DEF Next, UserAdd, UserRemove, UserWrite, UserRead, Restart, vars

(* A save that nothing disturbs goes on.                                   *)
LEMMA SystemsSent ==
  ASSUME Held, MemLinked, TagsSent, WriteSystems, clean, pc = "systems.write", doc' = doc, pc' = "systems.read"
  PROVE  TagsSent'
<1>1. mem["talkgroups"] = doc["talkgroups"]
  BY Names DEF TagsSent
<1>2. Known(mem["talkgroups"], tab["talkgroups"]) /\ "talkgroups" \in List
  BY Names DEF MemLinked, LinkedTo
<1>3. ASSUME NEW e \in mem["talkgroups"], NEW r \in tab'["talkgroups"].rows, e.id = r.id
      PROVE  e.tag = r.tag
  <2>1. CASE \E d \in mem["talkgroups"], q \in tab["talkgroups"].rows : q.id = d.id /\ r.id = d.id /\ r.tag = d.tag
    <3>1. PICK d \in mem["talkgroups"], q \in tab["talkgroups"].rows : q.id = d.id /\ r.id = d.id /\ r.tag = d.tag
      BY <2>1
    <3>2. q.id # New
      <4>1. \A x \in tab["talkgroups"].rows : x.id \in 1..tab["talkgroups"].last
        BY <1>2, TabFacts DEF Held, Tables
      <4> QED BY <4>1 DEF New
    <3> QED BY <1>2, <1>3, <3>1, <3>2 DEF Known
  <2>2. CASE r.id > tab["talkgroups"].last
    <3>1. e.id \in 0..tab["talkgroups"].last /\ tab["talkgroups"].last \in Nat
      BY <1>2, TabFacts DEF Known, Held, Tables
    <3> QED BY <1>3, <2>2, <3>1
  <2>3. CASE r.id \notin Ids(mem["talkgroups"])
    BY <1>3, <2>3 DEF Ids
  <2> QED BY <2>1, <2>2, <2>3, TalkgroupsWritten
<1> QED BY <1>1, <1>3 DEF TagsSent

LEMMA TagsSentKept ==
  ASSUME TagsSent, doc' = doc, clean' => clean,
         tab'["talkgroups"].rows \subseteq tab["talkgroups"].rows,
         pc \in {"systems.read", "tags", "tags.write", "tags.read"},
         pc' \in {"systems.read", "tags", "tags.write", "tags.read", "finish"}
  PROVE  TagsSent'
BY DEF TagsSent

LEMMA TagsSentPut == ASSUME Held, MemLinked, TagsSent, Put PROVE TagsSent'
<1>1. CASE PutSystems
  <2>1. CASE ~ ("systems" \in DOMAIN doc)
    BY <1>1, <2>1 DEF PutSystems, Absent, Go, Other, TagsSent
  <2>2. CASE "systems" \in DOMAIN doc
    <3>1. /\ mem' = [l \in List |-> IF l \in {"systems"} \union Nested THEN doc[l] ELSE mem[l]]
          /\ doc' = doc /\ pc' = "systems.write"
      BY <1>1, <2>2 DEF PutSystems, Absent, Go, OtherSystems
    <3>2. \A l \in {"systems"} \union Nested : mem'[l] = doc'[l]
      BY <3>1, Names
    <3> QED BY <3>1, <3>2 DEF TagsSent
  <2> QED BY <2>1, <2>2
<1>2. CASE SystemsWrite
  <2>1. doc' = doc
    BY <1>2 DEF SystemsWrite, OtherSystems
  <2>2. CASE WriteSystems /\ pc = "systems.write" /\ pc' = "systems.read" /\ clean' = clean
    <3>1. CASE clean
      BY <2>1, <2>2, <3>1, SystemsSent
    <3>2. CASE ~clean
      BY <2>2, <3>2 DEF TagsSent
    <3> QED BY <3>1, <3>2
  <2>3. CASE WriteSystemsFails
    BY <2>3 DEF WriteSystemsFails, Fault, TagsSent
  <2> QED BY <1>2, <2>2, <2>3 DEF SystemsWrite, Go, NoFault
<1>3. CASE SystemsRead \/ PutTags \/ TagsRead
  <2>1. /\ tab' = tab /\ doc' = doc /\ (clean' => clean)
        /\ pc \in {"systems.read", "tags", "tags.read"} /\ pc' \in {"tags", "tags.write", "finish"}
    BY <1>3 DEF SystemsRead, PutTags, TagsRead, ReadStep, FromMap, Absent, Go, Fault, NoFault, Other, OtherSystems
  <2> QED BY <2>1, TagsSentKept
<1>4. CASE TagsWrite
  <2>1. /\ WriteList("tags") \/ tab' = tab
        /\ doc' = doc /\ (clean' => clean) /\ pc = "tags.write" /\ pc' \in {"tags.read", "finish"}
    BY <1>4 DEF TagsWrite, WriteStep, Go, Fault, NoFault, Other
  <2>2. tab'["talkgroups"].rows \subseteq tab["talkgroups"].rows
    BY <2>1, TagsWritten
  <2> QED BY <2>1, <2>2, TagsSentKept
<1>5. CASE PutAccess \/ RefuseCode \/ AccessWrite \/ AccessRead \/ StopDirwatches \/ SaveApikeys
  BY <1>5 DEF PutAccess, RefuseCode, AccessWrite, AccessRead, StopDirwatches, SaveApikeys, SaveList, Absent,
              WriteStep, ReadStep, Go, TagsSent
<1>6. CASE SaveDirwatches \/ SaveDownstreams \/ PutGroups \/ GroupsWrite \/ GroupsRead \/ SaveOptions \/ Finish
  BY <1>6 DEF SaveDirwatches, SaveDownstreams, SaveList, Absent, PutGroups, GroupsWrite, GroupsRead, SaveOptions,
              Finish, WriteStep, ReadStep, Go, TagsSent
<1> QED BY <1>1, <1>2, <1>3, <1>4, <1>5, <1>6 DEF Put

LEMMA TagsSentAside == ASSUME pc' = pc, clean' => ~Saving PROVE TagsSent'
BY DEF TagsSent, Saving

LEMMA TagsSentNext == Held /\ MemLinked /\ InOrder /\ TagsSent /\ [Next]_vars => TagsSent'
<1> SUFFICES ASSUME Held, MemLinked, InOrder, TagsSent, [Next]_vars PROVE TagsSent'
  OBVIOUS
<1>1. CASE UNCHANGED vars
  BY <1>1 DEF vars, TagsSent
<1>2. CASE LoadPage \/ Restart
  BY <1>2 DEF LoadPage, Restart, TagsSent
<1>3. CASE Ingestion
  <2>1. pc' = pc
    BY <1>3 DEF Ingestion, Arrive, PopulateGroups, PopulateTag, PopulateTalkgroup, PopulateWrite, PopulateRead,
                StoreCall, Ensure, EnsureWrite, EnsureRead, Rest
  <2>2. CASE \E s \in mem["systems"], a \in Arrival : Arrive(s, a)
    BY <2>1, <2>2, TagsSentAside DEF Arrive
  <2>3. CASE ~ \E s \in mem["systems"], a \in Arrival : Arrive(s, a)
    <3>1. pop.at # "idle"
      BY <1>3, <2>3 DEF Ingestion, PopulateGroups, PopulateTag, PopulateTalkgroup, PopulateWrite, PopulateRead,
                StoreCall, Ensure, EnsureWrite, EnsureRead, PopGo
    <3>2. clean' => clean
      <4>1. CASE PopulateGroups \/ PopulateTag
        BY <4>1 DEF PopulateGroups, PopulateTag, Ensure, EnsureWrite, EnsureRead, Fault, NoFault
      <4>2. CASE PopulateTalkgroup \/ PopulateWrite \/ PopulateRead \/ StoreCall
        BY <4>2 DEF PopulateTalkgroup, PopulateWrite, PopulateRead, StoreCall, WriteSystemsFails, Fault, NoFault
      <4> QED BY <1>3, <2>3, <4>1, <4>2 DEF Ingestion
    <3> QED BY <2>1, <3>1, <3>2, Others, TagsSentAside
  <2> QED BY <2>2, <2>3
<1>4. CASE (\E k \in Key : UserAdd(k)) \/ (\E e \in mem["access"] : UserRemove(e))
  BY <1>4, TagsSentAside DEF UserAdd, UserRemove
<1>5. CASE UserWrite \/ UserRead
  <2>1. pc' = pc /\ user # "idle" /\ (clean' => clean)
    BY <1>5 DEF UserWrite, UserRead, Fault, NoFault
  <2> QED BY <2>1, Others, TagsSentAside
<1> QED BY <1>1, <1>2, <1>3, <1>4, <1>5, TagsSentPut DEF Next

-----------------------------------------------------------------------------

(* Another list than the tags and those of systems takes no call with it.  *)
LEMMA CallsAside ==
  ASSUME Held, [Next]_vars, ~ (calls \subseteq calls')
  PROVE  \/ WriteSystems
         \/ WriteList("tags") /\ mem' = mem
<1>0. ASSUME NEW l \in Flat \ {"tags"}, WriteList(l), mem' = mem
      PROVE  FALSE
  BY <1>0, OtherWritten
<1>1. "access" \in Flat \ {"tags"} /\ "groups" \in Flat \ {"tags"}
  BY Names
<1>2. CASE Put
  <2>1. CASE AccessWrite \/ GroupsWrite \/ TagsWrite
    BY <1>0, <1>1, <2>1 DEF AccessWrite, GroupsWrite, TagsWrite, WriteStep
  <2>2. CASE SystemsWrite
    BY <2>2 DEF SystemsWrite, WriteSystemsFails
  <2>3. CASE PutAccess \/ RefuseCode \/ StopDirwatches \/ PutGroups \/ SaveOptions \/ PutTags \/ Finish
    BY <2>3 DEF PutAccess, RefuseCode, StopDirwatches, PutGroups, SaveOptions, PutTags, Finish, FromMap, Absent
  <2>4. CASE AccessRead \/ GroupsRead \/ TagsRead \/ SystemsRead \/ PutSystems
    BY <2>4 DEF AccessRead, GroupsRead, TagsRead, SystemsRead, PutSystems, ReadStep, Absent
  <2>5. CASE SaveApikeys \/ SaveDirwatches \/ SaveDownstreams
    BY <2>5 DEF SaveApikeys, SaveDirwatches, SaveDownstreams, SaveList, Absent
  <2> QED BY <1>2, <2>1, <2>2, <2>3, <2>4, <2>5 DEF Put
<1>3. CASE Ingestion
  <2>1. CASE \E s \in mem["systems"], a \in Arrival : Arrive(s, a)
    BY <2>1 DEF Arrive
  <2>2. CASE PopulateGroups
    BY <1>0, <1>1, <2>2 DEF PopulateGroups, Ensure, EnsureWrite, EnsureRead
  <2>3. CASE PopulateTag
    BY <2>3 DEF PopulateTag, Ensure, EnsureWrite, EnsureRead
  <2>4. CASE PopulateTalkgroup \/ PopulateWrite \/ PopulateRead \/ StoreCall
    BY <2>4 DEF PopulateTalkgroup, PopulateWrite, PopulateRead, StoreCall, WriteSystemsFails
  <2> QED BY <1>3, <2>1, <2>2, <2>3, <2>4 DEF Ingestion
<1>4. CASE UserWrite
  BY <1>0, <1>1, <1>4 DEF UserWrite
<1> QED BY <1>2, <1>3, <1>4 DEF Next, vars, ext, LoadPage, UserAdd, UserRemove, UserRead, Restart

LEMMA CallsKeptNext ==
  ASSUME Held, MemLinked, Reached, PageTagged, TagsSent, [Next]_vars,
         NEW r \in tab["talkgroups"].rows, r.id \in calls \ calls', faults = 0
  PROVE  /\ Saving
         /\ \/ Lacks("talkgroups", r.id)
            \/ Lacks("tags", r.tag) /\ ~(clean /\ "systems" \in DOMAIN doc)
<1>0. /\ "talkgroups" \in List /\ "tags" \in List
      /\ \A q \in tab["talkgroups"].rows : q.id = r.id => q = r
      /\ \E g \in tab["tags"].rows : g.id = r.tag
  <2>1. "talkgroups" \in List /\ "tags" \in List
    BY Names
  <2>2. \A q \in tab["talkgroups"].rows : q.id = r.id => q = r
    BY <2>1, TabFacts DEF Held, Tables
  <2>3. r.tag \in Ids(tab["tags"].rows)
    BY DEF Held, Tables, Refers
  <2> QED BY <2>1, <2>2, <2>3 DEF Ids
<1>1. CASE WriteSystems
  <2>1. r.id \notin Ids(tab'["talkgroups"].rows)
    BY <1>1, TalkgroupsWritten
  <2>2. r.id \notin Ids(mem["talkgroups"])
    <3>1. ASSUME NEW e \in mem["talkgroups"], r.id = e.id
          PROVE  FALSE
      <4>1. PICK x : x = Placed(e)
        OBVIOUS
      <4>2. x \in tab'["talkgroups"].rows /\ x.id = r.id
        BY <1>1, <3>1, <4>1, TalkgroupsWritten
      <4> QED BY <2>1, <4>2 DEF Ids
    <3> QED BY <3>1 DEF Ids
  <2>3. TagsKnown
    BY <1>1 DEF WriteSystems
  <2> QED BY <2>2, <2>3 DEF Reached, CallsReached, Heard, Saving
<1>2. CASE WriteList("tags")
  <2>1. r.tag \notin Ids(tab'["tags"].rows)
    <3>1. r.id \notin Ids(tab'["talkgroups"].rows)
      BY <1>2, TagsWritten
    <3>2. r \notin tab'["talkgroups"].rows
      BY <3>1 DEF Ids
    <3> QED BY <1>2, <3>2, TagsWritten
  <2>2. PICK g \in tab["tags"].rows : g.id = r.tag
    BY <1>0
  <2>3. New \notin Ids(mem["tags"]) /\ g.id \notin Ids(mem["tags"])
    BY <1>2, <2>1, <2>2, TagsWritten
  <2>4. pc \in {"tags.write", "tags.read"} /\ Lacks("tags", r.tag)
    BY <2>2, <2>3 DEF Reached, TagsReached
  <2>5. ASSUME clean, "systems" \in DOMAIN doc
        PROVE  Lacks("talkgroups", r.id)
    <3>1. "talkgroups" \in DOMAIN doc /\ Tagged(doc)
      BY <2>4, <2>5, Names DEF Held, DocFits, PageTagged, Lacks
    <3>2. \A e \in doc["talkgroups"] : e.id # r.id
      BY <2>4, <2>5, <3>1 DEF TagsSent, Tagged, Lacks
    <3> QED BY <3>1, <3>2 DEF Lacks, Ids
  <2> QED BY <2>4, <2>5 DEF Saving
<1> QED BY <1>1, <1>2, CallsAside

(* As long as nothing failed, a stored call is removed by a save alone,    *)
(* whatever is ingested and whoever changes users meanwhile, and only when *)
(* the page does not have its talkgroup, or does not have the tag of its   *)
(* talkgroup and either came without systems or met somebody who changed   *)
(* the lists (CallsKept).                                                  *)
THEOREM CallsKeptSafe == Spec => CallsKept
<1> DEFINE Inv == Held /\ Linked /\ InOrder /\ Reached /\ PageTagged /\ TagsSent
<1>1. Init => Inv
  <2> SUFFICES ASSUME Init PROVE Inv
    OBVIOUS
  <2>1. doc = NoDoc /\ pc = "idle"
    BY DEF Init
  <2>2. PageTagged /\ TagsSent
    BY <2>1 DEF PageTagged, TagsSent, NoDoc
  <2> QED BY <2>2, SoundInit, InitInOrder, ReachedInit
<1>2. Inv /\ [Next]_vars => Inv'
  BY SoundNext, InOrderNext, ReachedNext, PageTaggedNext, TagsSentNext DEF Linked
<1>3. Inv /\ [Next]_vars =>
        [\A r \in tab["talkgroups"].rows :
           r.id \in calls \ calls' /\ faults = 0 =>
             /\ Saving
             /\ \/ Lacks("talkgroups", r.id)
                \/ Lacks("tags", r.tag) /\ ~(clean /\ "systems" \in DOMAIN doc)]_vars
  BY CallsKeptNext DEF Linked
<1> QED BY <1>1, <1>2, <1>3, PTL DEF Spec, CallsKept

-----------------------------------------------------------------------------
(* What a save leaves.                                                     *)

NoSystem(S) == \A e \in S : e.sys = New

PlainPage(p) ==
  /\ DOMAIN p \subseteq List \union {"options"}
  /\ \A l \in DOMAIN p \intersect Alone : NoSystem(p[l])

Plain ==
  /\ \A l \in Alone : NoSystem(tab[l].rows) /\ NoSystem(mem[l])
  /\ PlainPage(doc)

(* Elements of the list and rows of t are the same.                        *)
Alike(e, r, t) ==
  /\ e.key = r.key /\ e.tag = r.tag /\ e.sys = r.sys
  /\ e.id = r.id \/ e.id \notin Ids(t.rows)

CopyOf(list, t) ==
  /\ \A e \in list : \E r \in t.rows : Alike(e, r, t)
  /\ \A r \in t.rows : New \in Ids(list) \/ \E e \in list : Alike(e, r, t)

(* The Write of a list that belongs to no system.                          *)
LEMMA FlatCopied ==
  ASSUME Tables, NEW l \in Alone, NEW list, Fits(l, list, LastTag), Known(list, tab[l]),
         NoSystem(list), NoSystem(tab[l].rows), NEW t, t = FlatTable(list, tab[l])
  PROVE  CopyOf(list, t) /\ NoSystem(t.rows)
<1>0. l \in List /\ TagsIn(l, LastTag) = Nat
  BY Names DEF TagsIn, Alone
<1>1. PICK gone, b : gone = Removed(list, tab[l].rows) /\ b = Cleared(tab[l], gone)
  OBVIOUS
<1>2. tab[l] \in TableOf(Nat)
  BY <1>0, TabFacts DEF Tables, LastTag
<1>3. Becomes(list, b, t)
  <2>1. IsFiniteSet(list) /\ \A e \in list : Elem(e, Nat)
    BY <1>0 DEF Fits
  <2>2. t = Written(list, gone, tab[l])
    BY <1>1 DEF FlatTable
  <2> QED BY <1>1, <1>2, <2>1, <2>2, WrittenBecomes
<1>4. b.rows = tab[l].rows \ gone /\ b.last = tab[l].last /\ tab[l].last \in Nat
  BY <1>1, <1>2 DEF Cleared, TableOf
<1>5. ASSUME NEW e \in list, NEW i
      PROVE  /\ Moved(e, i).id = e.id /\ Moved(e, i).key = e.key /\ Moved(e, i).tag = e.tag /\ Moved(e, i).sys = i
             /\ Stored(e, i).id = i /\ Stored(e, i).key = e.key /\ Stored(e, i).tag = e.tag
             /\ Stored(e, i).sys = e.sys
             /\ e.sys = New /\ e.id \in 0..tab[l].last
  <2>1. e = [id |-> e.id, sys |-> e.sys, key |-> e.key, tag |-> e.tag]
    BY DEF Fits, Elem
  <2> QED BY <2>1 DEF Moved, Stored, NoSystem, Known
<1>6. \A q \in b.rows : q.sys = New /\ q.id \in 1..tab[l].last
  BY <1>2, <1>4 DEF TableOf, NoSystem
<1>7. \A r \in t.rows : r.id \in Ids(b.rows) \/ r.id > tab[l].last
  <2>1. ASSUME NEW r \in t.rows
        PROVE  \/ r \in b.rows
               \/ \E e \in list, q \in b.rows : q.id = e.id /\ r = Moved(e, q.sys)
               \/ r.id > b.last
    BY <1>3 DEF Becomes
  <2> QED BY <1>4, <1>5, <2>1 DEF Ids
<1>8. ASSUME NEW e \in list, NEW q \in b.rows, q.id = e.id
      PROVE  Moved(e, q.sys) \in t.rows /\ Alike(e, Moved(e, q.sys), t)
  BY <1>3, <1>5, <1>6, <1>8 DEF Becomes, Alike
<1>9. ASSUME NEW e \in Inserted(list, b), NEW i, Stored(e, i) \in t.rows
      PROVE  Alike(e, Stored(e, i), t)
  <2>1. e \in list /\ e.id \notin Ids(b.rows)
    BY DEF Inserted
  <2>2. e.id \notin Ids(t.rows)
    BY <1>4, <1>5, <1>7, <2>1 DEF Ids
  <2> QED BY <1>5, <2>1, <2>2 DEF Alike
<1>10. ASSUME NEW e \in list
       PROVE  \E r \in t.rows : Alike(e, r, t)
  <2>1. CASE \E q \in b.rows : q.id = e.id
    BY <1>8, <2>1
  <2>2. CASE ~ \E q \in b.rows : q.id = e.id
    <3>1. e \in Inserted(list, b)
      BY <2>2 DEF Inserted, Ids
    <3>2. \E i : Stored(e, i) \in t.rows
      BY <1>3, <3>1 DEF Becomes, Gives
    <3> QED BY <1>9, <3>1, <3>2
  <2> QED BY <2>1, <2>2
<1>11. ASSUME NEW r \in t.rows
       PROVE  /\ New \in Ids(list) \/ \E e \in list : Alike(e, r, t)
              /\ r.sys = New
  <2>1. CASE r \in b.rows /\ r.id \notin Ids(list)
    <3>1. New \in Ids(list)
      BY <1>1, <1>4, <2>1 DEF Removed
    <3> QED BY <1>6, <2>1, <3>1
  <2>2. CASE \E e \in list, q \in b.rows : q.id = e.id /\ r = Moved(e, q.sys)
    BY <1>5, <1>6, <1>8, <2>2
  <2>3. CASE \E e \in Inserted(list, b) : r.id > b.last /\ r = Stored(e, r.id)
    <3>1. PICK e \in Inserted(list, b) : r = Stored(e, r.id)
      BY <2>3
    <3>2. e \in list
      BY DEF Inserted
    <3>3. Alike(e, r, t)
      BY <1>9, <3>1
    <3>4. r.sys = e.sys /\ e.sys = New
      BY <1>5, <3>1, <3>2
    <3> QED BY <3>2, <3>3, <3>4
  <2> QED BY <1>3, <2>1, <2>2, <2>3 DEF Becomes
<1> QED BY <1>10, <1>11 DEF CopyOf, NoSystem

(* The page.                                                               *)
LEMMA RepairedPlain ==
  ASSUME NEW p, PlainPage(p), DOMAIN p = List \union {"options"}, NEW q \in Repaired(p)
  PROVE  PlainPage(q) /\ DOMAIN q = List \union {"options"}
<1>1. \/ q = p
      \/ \E R : q = [p EXCEPT !["talkgroups"] = R]
  BY DEF Repaired
<1> QED BY <1>1, Names DEF PlainPage, Alone

LEMMA WithoutPlain ==
  ASSUME NEW p, PlainPage(p), DOMAIN p = List \union {"options"},
         NEW l \in List, NEW e \in p[l], NEW q \in Without(p, l, e)
  PROVE  PlainPage(q) /\ DOMAIN q = List \union {"options"}
<1>0. PICK S : S = p[l] \ {e}
  OBVIOUS
<1>1. l \in Alone => NoSystem(S)
  BY <1>0, Names DEF PlainPage, NoSystem, Alone
<1>2. PICK r : r = [p EXCEPT ![l] = S]
  OBVIOUS
<1>3. PlainPage(r) /\ DOMAIN r = List \union {"options"}
  BY <1>1, <1>2 DEF PlainPage
<1>4. CASE l = "systems"
  <2>1. q = [k \in DOMAIN p |-> IF k \in Nested THEN {x \in p[k] : x.sys # e.id} ELSE IF k = l THEN S ELSE p[k]]
    BY <1>0, <1>4 DEF Without
  <2> QED BY <1>1, <2>1 DEF PlainPage, Alone
<1>5. CASE l = "tags"
  <2>1. q \in Repaired(r)
    BY <1>0, <1>2, <1>5 DEF Without
  <2> QED BY <1>3, <2>1, RepairedPlain
<1>6. CASE l \notin {"systems", "tags"}
  <2>1. q = r
    BY <1>0, <1>2, <1>6 DEF Without
  <2> QED BY <1>3, <2>1
<1> QED BY <1>4, <1>5, <1>6

LEMMA EditPlain ==
  ASSUME NEW p, NEW n \in Nat, PageFits(p, n), PlainPage(p), Edit(p)
  PROVE  PlainPage(doc')
<1>0. DOMAIN p = List \union {"options"} /\ "options" \notin List
  BY Names DEF PageFits
<1>1. ASSUME NEW q, PlainPage(q), DOMAIN q = List \union {"options"}, NEW l \in List, NEW e \in Fresh(q, l),
             doc' = [q EXCEPT ![l] = @ \union {e}]
      PROVE  PlainPage(doc')
  <2>1. l \in Alone => e.sys = New
    BY Names DEF Fresh, NewRows, Alone, New
  <2>2. doc'[l] = q[l] \union {e} /\ (\A k \in DOMAIN q \ {l} : doc'[k] = q[k]) /\ DOMAIN doc' = DOMAIN q
    BY <1>1
  <2> QED BY <1>1, <2>1, <2>2 DEF PlainPage, NoSystem
<1>2. ASSUME NEW l \in List, NEW e \in p[l], NEW d \in Fresh(p, l),
             doc' = [p EXCEPT ![l] = (@ \ {e}) \union {[e EXCEPT !.key = d.key]}]
      PROVE  PlainPage(doc')
  <2>1. PICK x : x = [e EXCEPT !.key = d.key]
    OBVIOUS
  <2>2. e = [id |-> e.id, sys |-> e.sys, key |-> e.key, tag |-> e.tag]
    BY DEF PageFits, Fits, Elem
  <2>3. x.sys = e.sys
    BY <2>1, <2>2
  <2>4. doc'[l] = (p[l] \ {e}) \union {x} /\ (\A k \in DOMAIN p \ {l} : doc'[k] = p[k]) /\ DOMAIN doc' = DOMAIN p
    BY <1>0, <1>2, <2>1
  <2> QED BY <2>3, <2>4 DEF PlainPage, NoSystem
<1>3. ASSUME NEW o \in Option, doc' = [p EXCEPT !["options"][o] = "chosen"]
      PROVE  PlainPage(doc')
  <2>1. (\A k \in DOMAIN p \ {"options"} : doc'[k] = p[k]) /\ DOMAIN doc' = DOMAIN p /\ "options" \notin Alone
    BY <1>0, <1>3 DEF Alone
  <2> QED BY <2>1 DEF PlainPage
<1>4. ASSUME NEW K, doc' = [k \in DOMAIN p \ K |-> p[k]]
      PROVE  PlainPage(doc')
  BY <1>4 DEF PlainPage
<1>5. CASE doc' = p
  BY <1>5
<1>6. CASE \E l \in List : \E e \in p[l], q \in UNION {Without(p, l, x) : x \in p[l]} : e \notin q[l] /\ doc' = q
  BY <1>0, <1>6, WithoutPlain
<1>7. CASE \E l \in List : \E e \in Fresh(p, l) : doc' = [p EXCEPT ![l] = @ \union {e}]
  BY <1>0, <1>1, <1>7
<1>8. CASE \E l \in List : \E e \in p[l] : \E q \in Without(p, l, e) : \E d \in Fresh(q, l) :
             doc' = [q EXCEPT ![l] = @ \union {d}]
  BY <1>0, <1>1, <1>8, WithoutPlain
<1>9. CASE \E l \in List : \E e \in p[l], d \in Fresh(p, l) :
             doc' = [p EXCEPT ![l] = (@ \ {e}) \union {[e EXCEPT !.key = d.key]}]
  BY <1>2, <1>9
<1>10. CASE \E o \in Option : doc' = [p EXCEPT !["options"][o] = "chosen"]
  BY <1>3, <1>10
<1>11. CASE \E l \in Sent : doc' = [k \in DOMAIN p \ (IF l = "systems" THEN {l} \union Nested ELSE {l}) |-> p[k]]
  BY <1>4, <1>11
<1> QED BY <1>5, <1>6, <1>7, <1>8, <1>9, <1>10, <1>11 DEF Edit

LEMMA LoadPlain == ASSUME Held, Plain, LoadPage PROVE PlainPage(doc')
<1>1. PICK p \in Repaired(Page) : Edit(p)
  BY DEF LoadPage
<1>2. PageFits(Page, LastTag) /\ LastTag \in Nat
  BY PageIs, LastTagNat DEF Held
<1>3. \A l \in Alone : Page[l] = mem[l]
  BY Names DEF Page, Alone
<1>4. DOMAIN Page = List \union {"options"}
  BY DEF Page
<1>5. PlainPage(Page)
  BY <1>3, <1>4 DEF PlainPage, Plain
<1>6. PageFits(p, LastTag) /\ PlainPage(p)
  BY <1>1, <1>2, <1>4, <1>5, RepairedFits, RepairedPlain
<1> QED BY <1>1, <1>2, <1>6, EditPlain

-----------------------------------------------------------------------------
(* The steps, by what they do to the page and to the tables.               *)

LEMMA DocSteps == ASSUME [Next]_vars PROVE doc' = doc \/ doc' = NoDoc \/ LoadPage
<1>1. CASE Ingestion
  BY <1>1 DEF Ingestion, Arrive, PopulateGroups, PopulateTag, PopulateTalkgroup, PopulateWrite, PopulateRead,
              StoreCall, Ensure, EnsureWrite, EnsureRead, Rest
<1>2. CASE Put
  BY <1>2 DEF Put, PutAccess, RefuseCode, AccessWrite, AccessRead, StopDirwatches, SaveApikeys, SaveDirwatches,
              SaveDownstreams, PutGroups, GroupsWrite, GroupsRead, SaveOptions, PutSystems, SystemsWrite,
              SystemsRead, PutTags, TagsWrite, TagsRead, Finish, Other, OtherSystems
<1> QED BY <1>1, <1>2 DEF Next, UserAdd, UserRemove, UserWrite, UserRead, Restart, vars

SavesAlone(l) == l \in DOMAIN doc /\ tab' = [tab EXCEPT ![l] = FlatTable(doc[l], tab[l])]

Untouched == \A l \in List : tab'[l].rows = tab[l].rows

TabStep ==
  \/ Untouched
  \/ \E l \in Flat : WriteList(l)
  \/ WriteSystems
  \/ \E l \in {"apikeys", "dirwatch", "downstreams"} : SavesAlone(l)

LEMMA TabSteps == ASSUME Held, [Next]_vars PROVE TabStep
<1>1. ASSUME WriteSystemsFails PROVE TabStep
  <2>1. PICK m, n : tab' = [tab EXCEPT !["systems"].last = m, !["talkgroups"].last = n]
    BY <1>1 DEF WriteSystemsFails
  <2>2. /\ tab = [l \in List |-> tab[l]] /\ "systems" \in List /\ "talkgroups" \in List
        /\ \A l \in List : tab[l] = [rows |-> tab[l].rows, last |-> tab[l].last]
    BY TabFacts, Names DEF Held, Tables, Tabs
  <2> QED BY <2>1, <2>2 DEF TabStep, Untouched
<1>2. tab' = tab => TabStep
  BY DEF TabStep, Untouched
<1>3. /\ \A l \in Flat : WriteList(l) => TabStep
      /\ {"access", "groups", "tags"} \subseteq Flat
      /\ WriteSystems => TabStep
      /\ \A l \in {"apikeys", "dirwatch", "downstreams"} : SavesAlone(l) => TabStep
  BY Names DEF TabStep
<1>4. CASE Put
  <2>1. CASE AccessWrite \/ GroupsWrite \/ TagsWrite
    BY <1>2, <1>3, <2>1 DEF AccessWrite, GroupsWrite, TagsWrite, WriteStep
  <2>2. CASE SystemsWrite
    BY <1>1, <1>3, <2>2 DEF SystemsWrite
  <2>3. CASE PutAccess \/ RefuseCode \/ StopDirwatches \/ PutGroups \/ SaveOptions \/ PutTags \/ Finish
    BY <1>2, <2>3 DEF PutAccess, RefuseCode, StopDirwatches, PutGroups, SaveOptions, PutTags, Finish, FromMap, Absent
  <2>4. CASE AccessRead \/ GroupsRead \/ TagsRead \/ SystemsRead \/ PutSystems
    BY <1>2, <2>4 DEF AccessRead, GroupsRead, TagsRead, SystemsRead, PutSystems, ReadStep, Absent
  <2>5. CASE SaveApikeys \/ SaveDirwatches \/ SaveDownstreams
    BY <1>2, <1>3, <2>5 DEF SaveApikeys, SaveDirwatches, SaveDownstreams, SaveList, Absent, SavesAlone
  <2> QED BY <1>4, <2>1, <2>2, <2>3, <2>4, <2>5 DEF Put
<1>5. CASE Ingestion
  <2>1. CASE \E s \in mem["systems"], a \in Arrival : Arrive(s, a)
    <3>1. tab' = tab
      BY <2>1 DEF Arrive
    <3> QED BY <1>2, <3>1
  <2>2. CASE PopulateGroups \/ PopulateTag
    BY <1>2, <1>3, <2>2 DEF PopulateGroups, PopulateTag, Ensure, EnsureWrite, EnsureRead
  <2>3. CASE PopulateTalkgroup \/ PopulateWrite \/ PopulateRead \/ StoreCall
    BY <1>1, <1>2, <1>3, <2>3 DEF PopulateTalkgroup, PopulateWrite, PopulateRead, StoreCall
  <2> QED BY <1>5, <2>1, <2>2, <2>3 DEF Ingestion
<1>6. CASE UserWrite
  BY <1>2, <1>3, <1>6 DEF UserWrite
<1>7. CASE \/ UNCHANGED vars \/ LoadPage \/ Restart \/ UserRead
           \/ (\E k \in Key : UserAdd(k)) \/ (\E e \in mem["access"] : UserRemove(e))
  BY <1>2, <1>7 DEF vars, LoadPage, UserAdd, UserRemove, UserRead, Restart
<1> QED BY <1>4, <1>5, <1>6, <1>7 DEF Next

(* What belongs to no system never does.                                   *)
LEMMA PlainTables ==
  ASSUME Held, Linked, Plain, [Next]_vars, NEW l \in Alone
  PROVE  NoSystem(tab'[l].rows)
<1>0. /\ Tables /\ Memory /\ MemLinked /\ l \in List /\ l # "units" /\ l \in Flat \union {"systems"}
      /\ NoSystem(tab[l].rows) /\ NoSystem(mem[l])
  BY Names DEF Held, Linked, Alone, Plain
<1>1. CASE tab'[l].rows = tab[l].rows
  BY <1>0, <1>1
<1>2. ASSUME NEW k \in Flat, WriteList(k)
      PROVE  NoSystem(tab'[l].rows)
  <2>1. OnlyWrites(k, mem[k], tab')
    <3>1. tab' = Cascade([tab EXCEPT ![k] = FlatTable(mem[k], tab[k])])
      BY <1>2 DEF WriteList, Commit
    <3>2. Fits(k, mem[k], LastTag)
      BY <1>0, Names DEF Memory
    <3> QED BY <1>0, <3>1, <3>2, FlatWritten
  <2>2. CASE k # l
    <3>1. tab'[l] = tab[l]
      BY <1>0, <2>1, <2>2, Names DEF OnlyWrites, Alone
    <3> QED BY <1>0, <3>1
  <2>3. CASE k = l
    <3>1. tab'[l] = FlatTable(mem[l], tab[l])
      BY <2>1, <2>3 DEF OnlyWrites
    <3>2. Fits(l, mem[l], LastTag) /\ Known(mem[l], tab[l])
      BY <1>0 DEF Memory, MemLinked, LinkedTo
    <3> QED BY <1>0, <3>1, <3>2, FlatCopied
  <2> QED BY <2>2, <2>3
<1>3. CASE WriteSystems
  <2>1. PICK c : c = Cascade([tab EXCEPT !["systems"]    = SystemsTable,
                                         !["sites"]      = SitesTable,
                                         !["talkgroups"] = TalkgroupsTable,
                                         !["units"]      = UnitsTable])
    OBVIOUS
  <2>2. tab' = c
    BY <1>3, <2>1 DEF WriteSystems, Commit
  <2>3. c["systems"] = SystemsTable /\ \A k \in Flat : c[k] = tab[k]
    BY <1>0, <2>1, SystemsWritten
  <2>4. Fits("systems", mem["systems"], LastTag) /\ Known(mem["systems"], tab["systems"]) /\ "systems" \in List
    BY <1>0, Names DEF Memory, MemLinked, LinkedTo
  <2>5. CASE l = "systems"
    BY <1>0, <2>2, <2>3, <2>4, <2>5, FlatCopied DEF SystemsTable
  <2> QED BY <1>0, <2>2, <2>3, <2>5
<1>4. ASSUME NEW k \in {"apikeys", "dirwatch", "downstreams"}, SavesAlone(k)
      PROVE  NoSystem(tab'[l].rows)
  <2>0. k \in List /\ tab = [j \in List |-> tab[j]]
    BY <1>0, Names DEF Tables, Tabs
  <2>1. PICK t : t = FlatTable(doc[k], tab[k])
    OBVIOUS
  <2>2. tab' = [tab EXCEPT ![k] = t] /\ k \in DOMAIN doc
    BY <1>4, <2>1 DEF SavesAlone
  <2>3. CASE k # l
    BY <1>0, <2>0, <2>2, <2>3
  <2>4. CASE k = l
    <3>1. tab'[l] = t
      BY <1>0, <2>0, <2>2, <2>4
    <3>2. Fits(l, doc[l], LastTag) /\ Known(doc[l], tab[l]) /\ NoSystem(doc[l])
      BY <1>0, <2>2, <2>4 DEF Held, DocFits, Linked, DocLinked, Plain, PlainPage
    <3> QED BY <1>0, <2>1, <2>4, <3>1, <3>2, FlatCopied
  <2> QED BY <2>3, <2>4
<1> QED BY <1>0, <1>1, <1>2, <1>3, <1>4, TabSteps DEF TabStep, Untouched

LEMMA PlainSet ==
  ASSUME Memory, Plain, NEW l \in List, NEW S, mem' = [mem EXCEPT ![l] = S], l \in Alone => NoSystem(S)
  PROVE  \A k \in Alone : NoSystem(mem'[k])
<1>1. mem'[l] = S /\ \A k \in List \ {l} : mem'[k] = mem[k]
  BY DEF Memory
<1> QED BY <1>1 DEF Plain, Alone

LEMMA PlainAssigned == ASSUME Memory, Plain PROVE \A k \in Alone : NoSystem(Assigned[k])
<1>0. mem = [l \in List |-> mem[l]] /\ Nested = {"sites", "talkgroups", "units"} /\ "systems" \in Alone
  BY Names DEF Memory, Alone
<1>1. PICK S : S = {[e EXCEPT !.id = IdOf(e.id)] : e \in mem["systems"]}
  OBVIOUS
<1>2. NoSystem(S)
  <2>1. ASSUME NEW e \in mem["systems"]
        PROVE  [e EXCEPT !.id = IdOf(e.id)].sys = New
    <3>1. e = [id |-> e.id, sys |-> e.sys, key |-> e.key, tag |-> e.tag] /\ e.sys = New
      BY <1>0, Names DEF Memory, Fits, Elem, Plain, NoSystem
    <3> QED BY <3>1
  <2> QED BY <1>1, <2>1 DEF NoSystem
<1>3. \E A, B, C : Assigned = [mem EXCEPT !["systems"] = S, !["talkgroups"] = A, !["sites"] = B, !["units"] = C]
  BY <1>1 DEF Assigned
<1>4. \A k \in Alone : Assigned[k] = IF k = "systems" THEN S ELSE mem[k]
  BY <1>0, <1>3 DEF Alone
<1> QED BY <1>2, <1>4 DEF Plain

LEMMA PlainLists ==
  ASSUME Held, Linked, Plain, [Next]_vars, NEW k \in Alone
  PROVE  NoSystem(mem'[k])
<1>0. /\ Tables /\ Memory /\ mem = [l \in List |-> mem[l]] /\ tab = [l \in List |-> tab[l]]
      /\ Nested = {"sites", "talkgroups", "units"} /\ List = Alone \union Nested
      /\ Flat \subseteq Alone /\ Flat \subseteq List /\ "systems" \in Alone
      /\ {"access", "groups", "tags", "dirwatch"} \subseteq Flat
      /\ {"apikeys", "dirwatch", "downstreams"} \subseteq Flat
  BY Names DEF Held, Memory, Tables, Tabs, Alone
<1>1. \A l \in Alone : NoSystem(tab[l].rows) /\ NoSystem(mem[l]) /\ (l \in DOMAIN doc => NoSystem(doc[l]))
  BY DEF Plain, PlainPage
<1>2. CASE mem' = mem
  BY <1>1, <1>2
<1>3. CASE mem' = Assigned
  BY <1>0, <1>3, PlainAssigned
<1>4. ASSUME NEW l \in Flat, NEW S, mem' = [mem EXCEPT ![l] = S], NoSystem(S)
      PROVE  NoSystem(mem'[k])
  BY <1>0, <1>4, PlainSet
<1>5. ASSUME NEW l \in Flat, ReadList(l) \/ ReadPart(l)
      PROVE  NoSystem(mem'[k])
  <2>1. PICK S : S \subseteq tab[l].rows /\ mem' = [mem EXCEPT ![l] = S]
    BY <1>5 DEF ReadList, ReadPart
  <2> QED BY <1>0, <1>1, <1>4, <2>1 DEF NoSystem
<1>6. ASSUME NEW l \in Flat, FromMap(l)
      PROVE  NoSystem(mem'[k])
  <2>1. PICK S : S = doc[l]
    OBVIOUS
  <2> QED BY <1>0, <1>1, <1>4, <1>6, <2>1 DEF FromMap
<1>7. ASSUME NEW l \in Flat, NEW x, mem' = [mem EXCEPT ![l] = @ \union {[id |-> New, sys |-> 0, key |-> x, tag |-> 0]}]
      PROVE  NoSystem(mem'[k])
  <2>1. PICK S : S = mem[l] \union {[id |-> New, sys |-> 0, key |-> x, tag |-> 0]}
    OBVIOUS
  <2>2. mem' = [mem EXCEPT ![l] = S]
    BY <1>7, <2>1
  <2>3. NoSystem(S)
    BY <1>0, <1>1, <2>1 DEF NoSystem, New
  <2> QED BY <1>4, <2>2, <2>3
<1>8. CASE ReadSystems \/ ReadSystemsPart
  <2>1. mem'[k] \subseteq tab[k].rows \/ mem'[k] = mem[k]
    BY <1>0, <1>8 DEF ReadSystems, ReadSystemsPart, Alone
  <2> QED BY <1>1, <2>1 DEF NoSystem
<1>9. CASE Put
  <2>1. CASE PutAccess \/ PutGroups \/ PutTags
    BY <1>0, <1>2, <1>6, <2>1 DEF PutAccess, PutGroups, PutTags, Absent
  <2>2. CASE AccessRead \/ GroupsRead \/ TagsRead
    BY <1>0, <1>5, <2>2 DEF AccessRead, GroupsRead, TagsRead, ReadStep
  <2>3. CASE RefuseCode \/ AccessWrite \/ GroupsWrite \/ SaveOptions \/ TagsWrite \/ Finish
    BY <1>2, <2>3 DEF RefuseCode, AccessWrite, GroupsWrite, SaveOptions, TagsWrite, Finish, WriteStep
  <2>4. CASE StopDirwatches
    BY <1>0, <1>4, <2>4 DEF StopDirwatches, NoSystem
  <2>5. ASSUME NEW l \in {"apikeys", "dirwatch", "downstreams"}, NEW next, SaveList(l, l, next)
        PROVE  NoSystem(mem'[k])
    <3>1. PICK t : t = FlatTable(doc[l], tab[l])
      OBVIOUS
    <3>2. \/ mem' = mem
          \/ l \in DOMAIN doc /\ \E S : (S \subseteq t.rows \/ S = doc[l]) /\ mem' = [mem EXCEPT ![l] = S]
      BY <2>5, <3>1 DEF SaveList, Absent
    <3>3. ASSUME l \in DOMAIN doc
          PROVE  NoSystem(t.rows)
      <4>1. Fits(l, doc[l], LastTag) /\ Known(doc[l], tab[l])
        BY <1>0, <3>3, Names DEF Held, DocFits, Linked, DocLinked
      <4> QED BY <1>0, <1>1, <3>1, <3>3, <4>1, FlatCopied
    <3> QED BY <1>0, <1>1, <1>2, <1>4, <3>2, <3>3 DEF NoSystem
  <2>6. CASE PutSystems
    <3>1. mem'[k] = mem[k] \/ (k = "systems" /\ k \in DOMAIN doc /\ mem'[k] = doc[k])
      BY <1>0, <2>6 DEF PutSystems, Absent, Alone
    <3> QED BY <1>1, <3>1
  <2>7. CASE SystemsWrite
    BY <1>2, <1>3, <2>7 DEF SystemsWrite, WriteSystems, WriteSystemsFails
  <2>8. CASE SystemsRead
    BY <1>8, <2>8 DEF SystemsRead
  <2> QED BY <1>9, <2>1, <2>2, <2>3, <2>4, <2>5, <2>6, <2>7, <2>8
         DEF Put, SaveApikeys, SaveDirwatches, SaveDownstreams
<1>10. CASE Ingestion
  <2>1. CASE \/ \E s \in mem["systems"], a \in Arrival : Arrive(s, a)
             \/ StoreCall
    BY <1>2, <2>1 DEF Arrive, StoreCall
  <2>2. CASE PopulateGroups
    BY <1>0, <1>2, <1>5, <1>7, <2>2 DEF PopulateGroups, Ensure, EnsureWrite, EnsureRead
  <2>3. CASE PopulateTag
    BY <1>0, <1>2, <1>5, <1>7, <2>3 DEF PopulateTag, Ensure, EnsureWrite, EnsureRead
  <2>4. CASE PopulateTalkgroup
    <3>1. mem'[k] = mem[k]
      BY <1>0, <2>4 DEF PopulateTalkgroup, Alone
    <3> QED BY <1>1, <3>1
  <2>5. CASE PopulateWrite
    BY <1>2, <1>3, <2>5 DEF PopulateWrite, WriteSystems, WriteSystemsFails
  <2>6. CASE PopulateRead
    BY <1>8, <2>6 DEF PopulateRead
  <2> QED BY <1>10, <2>1, <2>2, <2>3, <2>4, <2>5, <2>6 DEF Ingestion
<1>11. CASE \E x \in Key : UserAdd(x)
  <2>1. PICK x \in Key : UserAdd(x)
    BY <1>11
  <2>2. CASE \E e \in mem["access"] : e.key = x
    <3>1. mem' = mem
      BY <1>0, <2>1, <2>2 DEF UserAdd
    <3> QED BY <1>2, <3>1
  <2>3. CASE ~ \E e \in mem["access"] : e.key = x
    BY <1>0, <1>7, <2>1, <2>3 DEF UserAdd
  <2> QED BY <2>2, <2>3
<1>12. CASE \E e \in mem["access"] : UserRemove(e)
  <2>1. PICK S : S \subseteq mem["access"] /\ mem' = [mem EXCEPT !["access"] = S]
    BY <1>12 DEF UserRemove
  <2> QED BY <1>0, <1>1, <1>4, <2>1 DEF NoSystem
<1>13. CASE UserRead
  BY <1>0, <1>5, <1>13 DEF UserRead
<1>14. CASE Restart
  <2>1. mem'[k] = tab[k].rows
    BY <1>0, <1>14 DEF Restart
  <2> QED BY <1>1, <2>1
<1>15. CASE UNCHANGED vars \/ LoadPage \/ UserWrite
  BY <1>2, <1>15 DEF vars, LoadPage, UserWrite
<1> QED BY <1>9, <1>10, <1>11, <1>12, <1>13, <1>14, <1>15 DEF Next

LEMMA PlainInit == ASSUME Init PROVE Plain
<1>1. Sane(mem) /\ doc = NoDoc
  BY AdminSaveAssumption DEF Init
<1>2. \A l \in Alone : tab[l].rows = mem[l] /\ NoSystem(mem[l])
  BY <1>1 DEF Init, Sane, NoSystem, Alone
<1>3. PlainPage(doc)
  BY <1>1 DEF PlainPage, NoDoc
<1> QED BY <1>2, <1>3 DEF Plain

LEMMA PlainNext == Held /\ Linked /\ Plain /\ [Next]_vars => Plain'
<1> SUFFICES ASSUME Held, Linked, Plain, [Next]_vars PROVE Plain'
  OBVIOUS
<1>1. PlainPage(doc')
  <2>1. PlainPage(NoDoc)
    BY DEF PlainPage, NoDoc
  <2> QED BY <2>1, DocSteps, LoadPlain DEF Plain
<1> QED BY <1>1, PlainTables, PlainLists DEF Plain

-----------------------------------------------------------------------------
(* The Write of systems.                                                   *)
LEMMA NestedCopied ==
  ASSUME Held, MemLinked, WriteSystems, NEW l \in {"sites", "talkgroups"}
  PROVE  /\ \A e \in mem[l] : \E r \in tab'[l].rows : Same(e, r, l)'
         /\ \A r \in tab'[l].rows :
              \/ \E e \in mem[l] : Same(e, r, l)'
              \/ l # "talkgroups" /\ New \in Ids(mem[l])
              \/ New \in Ids(mem["systems"]) /\ r.sys \notin Ids(mem["systems"])
<1>0. /\ l \in List /\ l \in Nested /\ l \in List \ {"units"} /\ Tables /\ Memory
      /\ "systems" \in List /\ "systems" \in Alone /\ "systems" \in List \ {"units"}
  BY Names DEF Held, Alone
<1>1. PICK old, last, sys, n : old = tab[l].rows /\ last = tab[l].last /\ sys = SystemsTable /\ n = NestedTable(l)
  OBVIOUS
<1>2. /\ tab'["systems"] = sys
      /\ \A r : r \in tab'[l].rows <=>
                  r \in n.rows /\ r.sys \in Ids(sys.rows) /\ (l = "talkgroups" => r.tag \in Ids(tab["tags"].rows))
  <2>1. PICK c : c = Cascade([tab EXCEPT !["systems"]    = SystemsTable,
                                         !["sites"]      = SitesTable,
                                         !["talkgroups"] = TalkgroupsTable,
                                         !["units"]      = UnitsTable])
    OBVIOUS
  <2>2. tab' = c
    BY <2>1 DEF WriteSystems, Commit
  <2> QED BY <1>0, <1>1, <2>1, <2>2, SystemsWritten DEF SitesTable, TalkgroupsTable
<1>3. NestedIs(l, mem["systems"], n)
  BY <1>0, <1>1, NestedTableIs
<1>4. /\ last \in Nat /\ \A q \in old : q.id \in 1..last /\ q.sys \in Ids(tab["systems"].rows)
      /\ tab["systems"].last \in Nat /\ \A q \in tab["systems"].rows : q.id \in 1..tab["systems"].last
  BY <1>0, <1>1, TabFacts DEF Tables, Refers
<1>5. /\ \A i \in Ids(sys.rows) : i \in Ids(tab["systems"].rows) \/ i > tab["systems"].last
      /\ New \notin Ids(mem["systems"]) =>
           \A i \in Ids(sys.rows) : i \in Ids(mem["systems"]) \/ i > tab["systems"].last
  <2>1. Fits("systems", mem["systems"], LastTag) /\ Known(mem["systems"], tab["systems"])
    BY <1>0 DEF Memory, MemLinked, LinkedTo
  <2>2. sys = FlatTable(mem["systems"], tab["systems"])
    BY <1>1 DEF SystemsTable
  <2>3. /\ \A r \in sys.rows : r.id > tab["systems"].last \/ r.id \in Ids(tab["systems"].rows)
        /\ New \notin Ids(mem["systems"]) =>
             \A r \in sys.rows : r.id \in Ids(mem["systems"]) \/ r.id > tab["systems"].last
    BY <1>0, <2>1, <2>2, FlatIds
  <2> QED BY <2>3 DEF Ids
<1>6. ASSUME NEW e \in mem[l]
      PROVE  /\ Placed(e) = [id |-> e.id, sys |-> IdOf(e.sys), key |-> e.key, tag |-> e.tag]
             /\ e.id \in 0..last
             /\ IdOf(e.sys) \in Ids(sys.rows)
             /\ e.sys = IdOf(e.sys) \/ e.sys \notin Ids(sys.rows)
             /\ l = "talkgroups" => e.tag \in Ids(tab["tags"].rows)
  <2>1. Elem(e, TagsIn(l, LastTag))
    BY <1>0 DEF Memory, Fits
  <2>2. PICK s \in mem["systems"] : s.id = e.sys
    BY <1>0 DEF MemLinked, LinkedTo, Joined, Ids
  <2>3. s.id \in 0..tab["systems"].last
    BY <1>0 DEF MemLinked, LinkedTo, Known
  <2>4. IdOf(s.id) \in Ids(sys.rows) /\ (s.id \in Ids(tab["systems"].rows) => IdOf(s.id) = s.id)
    BY <1>0, <1>1, SystemIds
  <2>5. e.sys = IdOf(e.sys) \/ e.sys \notin Ids(sys.rows)
    BY <1>4, <1>5, <2>2, <2>3, <2>4
  <2>6. e.id \in 0..last
    BY <1>0, <1>1 DEF MemLinked, LinkedTo, Known
  <2>7. l = "talkgroups" => e.tag \in Ids(tab["tags"].rows)
    BY DEF WriteSystems, TagsKnown
  <2> QED BY <2>1, <2>2, <2>4, <2>5, <2>6, <2>7 DEF Placed, Moved, Elem
<1>7. \A x : (\E s \in mem["systems"] : x \in Under(l, s)) <=> \E e \in mem[l] : x = Placed(e)
  BY <1>0, AllUnder
<1>8. Base(l).rows \subseteq old
  BY <1>0, <1>1, BaseIs
<1>9. ASSUME NEW r \in n.rows
      PROVE  r.id \in Ids(old) \/ r.id > last
  BY <1>1, <1>3, <1>8 DEF NestedIs, Ids
<1>10. ASSUME NEW e \in mem[l], e.id \in Ids(old), NEW x, x = Placed(e)
       PROVE  x \in tab'[l].rows /\ Same(e, x, l)'
  <2>1. x.id = e.id /\ x.sys = IdOf(e.sys) /\ x.key = e.key /\ x.tag = e.tag
    BY <1>6, <1>10
  <2>2. x \in n.rows
    BY <1>1, <1>3, <1>7, <1>10, <2>1 DEF NestedIs
  <2>3. x \in tab'[l].rows
    BY <1>2, <1>6, <2>1, <2>2
  <2> QED BY <1>2, <1>6, <2>1, <2>3 DEF Same
<1>11. ASSUME NEW e \in mem[l], e.id \notin Ids(old), NEW i, NEW x, x = Stored(Placed(e), i), x \in n.rows
       PROVE  x \in tab'[l].rows /\ Same(e, x, l)'
  <2>1. x.sys = IdOf(e.sys) /\ x.key = e.key /\ x.tag = e.tag
    BY <1>6, <1>11 DEF Stored
  <2>2. x \in tab'[l].rows
    BY <1>2, <1>6, <1>11, <2>1
  <2>3. e.id \notin Ids(tab'[l].rows)
    <3>1. \A r \in tab'[l].rows : r.id \in Ids(old) \/ r.id > last
      BY <1>2, <1>9
    <3> QED BY <1>4, <1>6, <1>11, <3>1 DEF Ids
  <2> QED BY <1>2, <1>6, <2>1, <2>2, <2>3 DEF Same
<1>12. ASSUME NEW e \in mem[l]
       PROVE  \E r \in tab'[l].rows : Same(e, r, l)'
  <2>1. PICK x : x = Placed(e)
    OBVIOUS
  <2>2. CASE e.id \in Ids(old)
    BY <1>10, <2>1, <2>2
  <2>3. CASE e.id \notin Ids(old)
    <3>1. x.id = e.id
      BY <1>6, <2>1
    <3>2. x \in Added(l, mem["systems"])
      BY <1>1, <1>7, <2>1, <2>3, <3>1 DEF Added
    <3>3. PICK i, y : y = Stored(x, i) /\ y \in n.rows
      BY <1>3, <3>2 DEF NestedIs, Gives
    <3> QED BY <1>11, <2>1, <2>3, <3>3
  <2> QED BY <2>2, <2>3
<1>13. ASSUME NEW r \in tab'[l].rows
       PROVE  \/ \E e \in mem[l] : Same(e, r, l)'
              \/ l # "talkgroups" /\ New \in Ids(mem[l])
              \/ New \in Ids(mem["systems"]) /\ r.sys \notin Ids(mem["systems"])
  <2>0. r \in n.rows /\ r.sys \in Ids(sys.rows)
    BY <1>2
  <2>1. CASE r \in Base(l).rows /\ \A s \in mem["systems"] : r.sys # IdOf(s.id)
    <3>1. r.sys \in Ids(tab["systems"].rows) /\ r.sys \in 1..tab["systems"].last
      BY <1>4, <1>8, <2>1 DEF Ids
    <3>2. \A s \in mem["systems"] : s.id # r.sys
      BY <1>0, <2>1, <3>1, SystemIds
    <3>3. New \in Ids(mem["systems"])
      BY <1>4, <1>5, <2>0, <3>1, <3>2 DEF Ids
    <3> QED BY <3>2, <3>3 DEF Ids
  <2>2. CASE \E s \in mem["systems"] : \E x \in Under(l, s) : x.id \in Ids(tab[l].rows) /\ r = x
    <3>1. PICK e \in mem[l] : r = Placed(e) /\ r.id \in Ids(old)
      BY <1>1, <1>7, <2>2
    <3>2. e.id \in Ids(old)
      BY <1>6, <3>1
    <3>3. Same(e, r, l)'
      BY <1>10, <3>1, <3>2
    <3> QED BY <3>3
  <2>3. CASE \E x \in Added(l, mem["systems"]) : r.id > tab[l].last /\ r = Stored(x, r.id)
    <3>1. PICK x \in Added(l, mem["systems"]) : r = Stored(x, r.id)
      BY <2>3
    <3>2. PICK e \in mem[l] : x = Placed(e) /\ x.id \notin Ids(old)
      BY <1>1, <1>7, <3>1 DEF Added
    <3>3. e.id \notin Ids(old)
      BY <1>6, <3>2
    <3>4. Same(e, r, l)'
      BY <1>11, <2>0, <3>1, <3>2, <3>3
    <3> QED BY <3>4
  <2>4. CASE l # "talkgroups" /\ New \in Ids(mem[l]) /\ r \in Base(l).rows
    BY <2>4
  <2> QED BY <1>3, <2>0, <2>1, <2>2, <2>3, <2>4 DEF NestedIs
<1> QED BY <1>12, <1>13

CopiedUnder(l) ==
  /\ \A e \in doc[l] : \E r \in tab[l].rows : Same(e, r, l)
  /\ \A r \in tab[l].rows :
       \/ \E e \in doc[l] : Same(e, r, l)
       \/ l # "talkgroups" /\ New \in Ids(doc[l])
       \/ New \in Ids(doc["systems"]) /\ r.sys \notin Ids(doc["systems"])

(* The Write of tags leaves the talkgroups of the page.                    *)
LEMMA TalkgroupsCopied ==
  ASSUME Held, MemLinked, CopiedUnder("talkgroups"), Tagged(doc), mem["tags"] = doc["tags"],
         WriteList("tags"), doc' = doc
  PROVE  CopiedUnder("talkgroups")'
<1>1. PICK rows, new : rows = tab["talkgroups"].rows /\ new = tab'["talkgroups"].rows
  OBVIOUS
<1>2. tab'["systems"] = tab["systems"] /\ new \subseteq rows
  <2>1. Fits("tags", mem["tags"], LastTag) /\ Tables /\ "tags" \in Flat
    BY Names DEF Held, Memory
  <2>2. OnlyWrites("tags", mem["tags"], tab')
    <3>1. tab' = Cascade([tab EXCEPT !["tags"] = FlatTable(mem["tags"], tab["tags"])])
      BY DEF WriteList, Commit
    <3> QED BY <2>1, <3>1, FlatWritten
  <2> QED BY <1>1, <2>2, Names DEF OnlyWrites
<1>3. ASSUME NEW e \in doc["talkgroups"], NEW r \in rows, Same(e, r, "talkgroups")
      PROVE  r \in new
  <2>1. r.tag = e.tag /\ e.tag \in Ids(mem["tags"])
    BY <1>3 DEF Same, Tagged
  <2>2. r.tag \in Ids(tab["tags"].rows)
    BY <1>1 DEF Held, Tables, Refers
  <2>3. PICK g \in tab["tags"].rows : g.id = r.tag
    BY <2>2 DEF Ids
  <2>4. g.id \in Ids(tab'["tags"].rows)
    BY <2>1, <2>3, TagsWritten
  <2> QED BY <1>1, <2>3, <2>4, TagsWritten
<1>4. ASSUME NEW e, NEW r, Same(e, r, "talkgroups")
      PROVE  Same(e, r, "talkgroups")'
  BY <1>1, <1>2, <1>4 DEF Same, Ids
<1>5. ASSUME NEW e \in doc["talkgroups"]
      PROVE  \E r \in new : Same(e, r, "talkgroups")'
  BY <1>1, <1>3, <1>4 DEF CopiedUnder
<1>6. ASSUME NEW r \in new
      PROVE  \/ \E e \in doc["talkgroups"] : Same(e, r, "talkgroups")'
             \/ New \in Ids(doc["systems"]) /\ r.sys \notin Ids(doc["systems"])
  BY <1>1, <1>2, <1>4 DEF CopiedUnder
<1> QED BY <1>1, <1>5, <1>6 DEF CopiedUnder

-----------------------------------------------------------------------------
(* A save of the whole configuration that nothing disturbed has copied the *)
(* lists that it has written.                                              *)

Copied(l) == CopyOf(doc[l], tab[l])

Copies ==
  clean /\ Saving =>
    /\ pc = "access.write" => mem["access"] = doc["access"]
    /\ pc = "groups.write" => mem["groups"] = doc["groups"]
    /\ pc = "tags.write" => mem["tags"] = doc["tags"]
    /\ pc # "access.write" => Copied("access")
    /\ pc \notin ToApikeys => Copied("apikeys")
    /\ pc \notin ToDirwatch => Copied("dirwatch")
    /\ pc \notin ToDownstreams => Copied("downstreams")
    /\ pc \notin ToGroups \ {"groups.read"} => Copied("groups")
    /\ pc \notin ToGroups \union {"options"} => optRows = OptionsWritten(options)
    /\ pc \notin ToSystems \ {"systems.read"} =>
         Copied("systems") /\ CopiedUnder("sites") /\ CopiedUnder("talkgroups")
    /\ pc \notin ToTags \ {"tags.read"} => Copied("tags")

(* What does not touch a table or the page leaves a copy a copy.           *)
LEMMA CopyStays ==
  ASSUME doc' = doc, NEW l, tab'[l] = tab[l], Copied(l)
  PROVE  Copied(l)'
BY DEF Copied, CopyOf, Alike

LEMMA UnderStays ==
  ASSUME doc' = doc, NEW l, tab'[l] = tab[l], tab'["systems"] = tab["systems"], CopiedUnder(l)
  PROVE  CopiedUnder(l)'
BY DEF CopiedUnder, Same

LEMMA FlatSaved ==
  ASSUME Held, Linked, Plain, NEW l \in Flat, WriteList(l), mem[l] = doc[l], doc' = doc
  PROVE  /\ Copied(l)' /\ \A k \in List \ {l, "talkgroups"} : tab'[k] = tab[k]
         /\ l # "tags" => tab'["talkgroups"] = tab["talkgroups"]
<1>1. /\ Tables /\ l \in Alone /\ Fits(l, mem[l], LastTag) /\ Known(mem[l], tab[l])
      /\ NoSystem(mem[l]) /\ NoSystem(tab[l].rows)
  BY Names DEF Held, Memory, Linked, MemLinked, LinkedTo, Plain, Alone
<1>2. OnlyWrites(l, mem[l], tab')
  <2>1. tab' = Cascade([tab EXCEPT ![l] = FlatTable(mem[l], tab[l])])
    BY DEF WriteList, Commit
  <2> QED BY <1>1, <2>1, FlatWritten
<1>3. tab'[l] = FlatTable(mem[l], tab[l])
  BY <1>2 DEF OnlyWrites
<1>4. PICK t : t = tab'[l]
  OBVIOUS
<1>5. CopyOf(doc[l], t)
  BY <1>1, <1>3, <1>4, FlatCopied
<1>6. Copied(l)'
  BY <1>4, <1>5 DEF Copied, CopyOf, Alike
<1> QED BY <1>2, <1>6 DEF OnlyWrites

LEMMA AloneSaved ==
  ASSUME Held, Linked, Plain, NEW l \in {"apikeys", "dirwatch", "downstreams"}, NEW next,
         SaveList(l, l, next), ~Fault, l \in DOMAIN doc, doc' = doc
  PROVE  Copied(l)' /\ pc' = next /\ pc = l /\ \A k \in List \ {l} : tab'[k] = tab[k]
<1>1. l \in List \ {"units"} /\ l \in Alone /\ Tables /\ tab = [k \in List |-> tab[k]]
  BY Names DEF Held, Tables, Tabs, Alone
<1>2. Fits(l, doc[l], LastTag) /\ Known(doc[l], tab[l]) /\ NoSystem(doc[l]) /\ NoSystem(tab[l].rows)
  BY <1>1 DEF Held, DocFits, Linked, DocLinked, Plain, PlainPage
<1>3. PICK t : t = FlatTable(doc[l], tab[l])
  OBVIOUS
<1>4. tab' = [tab EXCEPT ![l] = t] /\ pc' = next /\ pc = l
  BY <1>3 DEF SaveList, Absent, Go
<1>5. tab'[l] = t /\ \A k \in List \ {l} : tab'[k] = tab[k]
  BY <1>1, <1>4
<1>6. CopyOf(doc[l], t)
  BY <1>1, <1>2, <1>3, FlatCopied
<1>7. Copied(l)'
  BY <1>5, <1>6 DEF Copied, CopyOf, Alike
<1> QED BY <1>4, <1>5, <1>7

LEMMA SystemsSaved ==
  ASSUME Held, Linked, Plain, WriteSystems, \A l \in {"systems"} \union Nested : mem[l] = doc[l], doc' = doc
  PROVE  /\ \A l \in Flat : tab'[l] = tab[l]
         /\ Copied("systems")' /\ CopiedUnder("sites")' /\ CopiedUnder("talkgroups")'
<1>1. PICK c : c = Cascade([tab EXCEPT !["systems"]    = SystemsTable,
                                       !["sites"]      = SitesTable,
                                       !["talkgroups"] = TalkgroupsTable,
                                       !["units"]      = UnitsTable])
  OBVIOUS
<1>2. tab' = c
  BY <1>1 DEF WriteSystems, Commit
<1>3. /\ Tables /\ Memory /\ MemLinked /\ "systems" \in Alone
      /\ Fits("systems", mem["systems"], LastTag) /\ Known(mem["systems"], tab["systems"])
      /\ NoSystem(mem["systems"]) /\ NoSystem(tab["systems"].rows)
  BY Names DEF Held, Memory, Linked, MemLinked, LinkedTo, Plain, Alone
<1>4. tab'["systems"] = SystemsTable /\ \A l \in Flat : tab'[l] = tab[l]
  BY <1>1, <1>2, <1>3, SystemsWritten
<1>5. PICK t : t = SystemsTable
  OBVIOUS
<1>6. CopyOf(doc["systems"], t)
  BY <1>3, <1>5, FlatCopied DEF SystemsTable
<1>7. Copied("systems")'
  BY <1>4, <1>5, <1>6 DEF Copied, CopyOf, Alike
<1>8. ASSUME NEW l \in {"sites", "talkgroups"}
      PROVE  CopiedUnder(l)'
  <2>1. mem[l] = doc[l] /\ mem["systems"] = doc["systems"]
    BY Names
  <2> QED BY <1>3, <2>1, NestedCopied DEF CopiedUnder
<1> QED BY <1>4, <1>7, <1>8

LEMMA CopiesPut ==
  ASSUME Held, Linked, Plain, InOrder, PageTagged, TagsSent, Copies, Put, clean'
  PROVE  Copies'
<1>0. /\ Flat = {"access", "apikeys", "dirwatch", "downstreams", "groups", "tags"}
      /\ {"systems", "sites"} \subseteq List \ (Flat \union {"talkgroups"}) /\ Flat \subseteq List
      /\ mem = [l \in List |-> mem[l]] /\ Sent = Flat \union {"systems", "options"}
  BY Names DEF Held, Memory
<1>f. ~Fault
  BY DEF Fault
<1>1. CASE PutAccess
  <2>1. "access" \in DOMAIN doc
    BY <1>0, <1>1 DEF PutAccess
  <2>2. pc' = "access.write" /\ doc' = doc /\ mem' = [mem EXCEPT !["access"] = doc["access"]]
    BY <1>1, <2>1 DEF PutAccess, Go, FromMap
  <2>3. mem'["access"] = doc'["access"]
    BY <1>0, <2>2
  <2> QED BY <2>2, <2>3 DEF Copies, ToAccess, ToApikeys, ToDirwatch, ToDownstreams, ToGroups, ToSystems, ToTags
<1>2. CASE RefuseCode \/ Finish
  BY <1>2 DEF RefuseCode, Finish, Go, Copies, Saving
<1>3. CASE ~(PutAccess \/ RefuseCode \/ Finish)
  <2>1. clean /\ Saving /\ doc' = doc
    BY <1>3, <1>f DEF Put, AccessWrite, AccessRead, StopDirwatches, SaveApikeys, SaveDirwatches,
                SaveDownstreams, PutGroups, GroupsWrite, GroupsRead, SaveOptions, PutSystems, SystemsWrite,
                SystemsRead, PutTags, TagsWrite, TagsRead, Other, OtherSystems, WriteStep, ReadStep, SaveList,
                Absent, Go, NoFault, WriteSystemsFails, Saving
  <2>2. Sent \subseteq DOMAIN doc
    BY <2>1 DEF InOrder, SavedSoFar
  <2>3. /\ \A l : tab'[l] = tab[l] /\ Copied(l) => Copied(l)'
        /\ \A l : tab'[l] = tab[l] /\ tab'["systems"] = tab["systems"] /\ CopiedUnder(l) => CopiedUnder(l)'
    BY <2>1, CopyStays, UnderStays
  <2>4. CASE AccessRead \/ StopDirwatches \/ GroupsRead \/ PutSystems \/ SystemsRead \/ TagsRead
    <3>1. tab' = tab /\ options' = options /\ optRows' = optRows
      BY <2>4 DEF AccessRead, StopDirwatches, GroupsRead, PutSystems, SystemsRead, TagsRead, ReadStep, Absent,
                  Other, OtherSystems
    <3>2. \/ pc = "access.read" /\ pc' = "stop"
          \/ pc = "stop" /\ pc' = "apikeys"
          \/ pc = "groups.read" /\ pc' = "options"
          \/ pc = "systems" /\ pc' = "systems.write"
          \/ pc = "systems.read" /\ pc' = "tags"
          \/ pc = "tags.read" /\ pc' = "finish"
      BY <1>0, <2>2, <2>4 DEF AccessRead, StopDirwatches, GroupsRead, PutSystems, SystemsRead, TagsRead, ReadStep,
                  Absent, Go
    <3>3. /\ \A l : Copied(l) => Copied(l)'
          /\ \A l : CopiedUnder(l) => CopiedUnder(l)'
      BY <2>3, <3>1
    <3> QED BY <2>1, <3>1, <3>2, <3>3
            DEF Copies, ToAccess, ToApikeys, ToDirwatch, ToDownstreams, ToGroups, ToSystems, ToTags
  <2>5. CASE PutGroups \/ PutTags
    <3>1. tab' = tab /\ options' = options /\ optRows' = optRows
      BY <2>5 DEF PutGroups, PutTags, FromMap, Absent, Other
    <3>2. \/ pc = "groups" /\ pc' = "groups.write" /\ mem' = [mem EXCEPT !["groups"] = doc["groups"]]
          \/ pc = "tags" /\ pc' = "tags.write" /\ mem' = [mem EXCEPT !["tags"] = doc["tags"]]
      BY <1>0, <2>2, <2>5 DEF PutGroups, PutTags, FromMap, Absent, Go
    <3>3. \/ pc = "groups" /\ pc' = "groups.write" /\ mem'["groups"] = doc'["groups"]
          \/ pc = "tags" /\ pc' = "tags.write" /\ mem'["tags"] = doc'["tags"]
      BY <1>0, <2>1, <3>2
    <3>4. /\ \A l : Copied(l) => Copied(l)'
          /\ \A l : CopiedUnder(l) => CopiedUnder(l)'
      BY <2>3, <3>1
    <3> QED BY <2>1, <3>1, <3>3, <3>4
            DEF Copies, ToAccess, ToApikeys, ToDirwatch, ToDownstreams, ToGroups, ToSystems, ToTags
  <2>6. CASE AccessWrite
    <3>1. /\ WriteList("access") /\ pc = "access.write" /\ pc' = "access.read"
      BY <1>f, <2>6 DEF AccessWrite, WriteStep, Go
    <3>2. mem["access"] = doc["access"]
      BY <2>1, <3>1 DEF Copies
    <3>3. Copied("access")'
      BY <1>0, <2>1, <3>1, <3>2, FlatSaved
    <3> QED BY <3>1, <3>3 DEF Copies, ToAccess, ToApikeys, ToDirwatch, ToDownstreams, ToGroups, ToSystems, ToTags
  <2>7. CASE GroupsWrite
    <3>1. /\ WriteList("groups") /\ pc = "groups.write" /\ pc' = "groups.read"
      BY <1>f, <2>7 DEF GroupsWrite, WriteStep, Go
    <3>2. mem["groups"] = doc["groups"]
      BY <2>1, <3>1 DEF Copies
    <3>3. Copied("groups")' /\ \A l \in {"access", "apikeys", "dirwatch", "downstreams"} : tab'[l] = tab[l]
      BY <1>0, <2>1, <3>1, <3>2, FlatSaved
    <3>4. \A l \in {"access", "apikeys", "dirwatch", "downstreams"} : Copied(l)'
      BY <2>1, <2>3, <3>1, <3>3 DEF Copies, ToAccess, ToApikeys, ToDirwatch, ToDownstreams
    <3> QED BY <3>1, <3>3, <3>4
            DEF Copies, ToAccess, ToApikeys, ToDirwatch, ToDownstreams, ToGroups, ToSystems, ToTags
  <2>8. CASE TagsWrite
    <3>1. /\ WriteList("tags") /\ pc = "tags.write" /\ pc' = "tags.read" /\ options' = options /\ optRows' = optRows
      BY <1>f, <2>8 DEF TagsWrite, WriteStep, Go, Other
    <3>2. /\ mem["tags"] = doc["tags"] /\ optRows = OptionsWritten(options)
          /\ \A l \in (Flat \union {"systems"}) \ {"tags"} : Copied(l)
          /\ CopiedUnder("sites") /\ CopiedUnder("talkgroups")
      BY <1>0, <2>1, <3>1 DEF Copies, ToAccess, ToApikeys, ToDirwatch, ToDownstreams, ToGroups, ToSystems, ToTags
    <3>3. Copied("tags")' /\ \A l \in (Flat \union {"systems", "sites"}) \ {"tags"} : tab'[l] = tab[l]
      BY <1>0, <2>1, <3>1, <3>2, FlatSaved
    <3>4. Tagged(doc)
      BY <1>0, <2>2 DEF PageTagged
    <3>5. CopiedUnder("talkgroups")'
      BY <2>1, <3>1, <3>2, <3>4, TalkgroupsCopied DEF Linked
    <3>6. CopiedUnder("sites")' /\ \A l \in Flat \union {"systems"} : Copied(l)'
      BY <1>0, <2>3, <3>2, <3>3
    <3> QED BY <1>0, <3>1, <3>2, <3>5, <3>6
            DEF Copies, ToAccess, ToApikeys, ToDirwatch, ToDownstreams, ToGroups, ToSystems, ToTags
  <2>9. CASE SaveApikeys \/ SaveDirwatches \/ SaveDownstreams
    <3>1. PICK l \in {"apikeys", "dirwatch", "downstreams"} :
            \E next : /\ SaveList(l, l, next)
                      /\ next = CASE l = "apikeys" -> "dirwatch" [] l = "dirwatch" -> "downstreams"
                                  [] l = "downstreams" -> "groups"
      BY <2>9 DEF SaveApikeys, SaveDirwatches, SaveDownstreams
    <3>2. /\ Copied(l)' /\ pc = l /\ \A k \in List \ {l} : tab'[k] = tab[k]
          /\ pc' = CASE l = "apikeys" -> "dirwatch" [] l = "dirwatch" -> "downstreams" [] l = "downstreams" -> "groups"
      BY <1>0, <1>f, <2>1, <2>2, <3>1, AloneSaved
    <3>3. \A k \in Flat \ {l} : Copied(k) => Copied(k)'
      BY <1>0, <2>3, <3>2
    <3> QED BY <1>0, <2>1, <3>2, <3>3
            DEF Copies, ToAccess, ToApikeys, ToDirwatch, ToDownstreams, ToGroups, ToSystems, ToTags
  <2>10. CASE SaveOptions
    <3>1. /\ tab' = tab /\ pc = "options" /\ pc' = "systems"
          /\ options' = doc["options"] /\ optRows' = OptionsWritten(doc["options"])
      BY <1>0, <1>f, <2>2, <2>10 DEF SaveOptions, Go
    <3>2. \A l : Copied(l) => Copied(l)'
      BY <2>3, <3>1
    <3>3. optRows' = OptionsWritten(options')
      BY <3>1
    <3>4. (OptionsWritten(options))' = OptionsWritten(options')
      BY DEF OptionsWritten
    <3> QED BY <2>1, <3>1, <3>2, <3>3, <3>4
            DEF Copies, ToAccess, ToApikeys, ToDirwatch, ToDownstreams, ToGroups, ToSystems, ToTags
  <2>11. CASE SystemsWrite
    <3>1. /\ WriteSystems /\ pc = "systems.write" /\ pc' = "systems.read" /\ options' = options /\ optRows' = optRows
      BY <1>f, <2>11 DEF SystemsWrite, WriteSystemsFails, Go, OtherSystems
    <3>2. \A l \in {"systems"} \union Nested : mem[l] = doc[l]
      BY <2>1, <3>1 DEF TagsSent
    <3>3. /\ \A l \in Flat : tab'[l] = tab[l]
          /\ Copied("systems")' /\ CopiedUnder("sites")' /\ CopiedUnder("talkgroups")'
      BY <2>1, <3>1, <3>2, SystemsSaved
    <3>4. \A l \in Flat : Copied(l) => Copied(l)'
      BY <2>3, <3>3
    <3> QED BY <1>0, <2>1, <3>1, <3>3, <3>4
            DEF Copies, ToAccess, ToApikeys, ToDirwatch, ToDownstreams, ToGroups, ToSystems, ToTags
  <2> QED BY <1>3, <2>4, <2>5, <2>6, <2>7, <2>8, <2>9, <2>10, <2>11 DEF Put
<1> QED BY <1>1, <1>2, <1>3

LEMMA CopiesAside == ASSUME pc' = pc, clean' => ~Saving PROVE Copies'
BY DEF Copies, Saving

LEMMA CopiesNext ==
  Held /\ Linked /\ Plain /\ InOrder /\ PageTagged /\ TagsSent /\ Copies /\ [Next]_vars => Copies'
<1> SUFFICES ASSUME Held, Linked, Plain, InOrder, PageTagged, TagsSent, Copies, [Next]_vars PROVE Copies'
  OBVIOUS
<1>1. CASE UNCHANGED vars
  BY <1>1 DEF vars, Copies, Saving, Copied, CopyOf, Alike, CopiedUnder, Same
<1>2. CASE LoadPage \/ Restart
  BY <1>2 DEF LoadPage, Restart, Copies, Saving
<1>3. CASE Ingestion
  <2>1. pc' = pc
    BY <1>3 DEF Ingestion, Arrive, PopulateGroups, PopulateTag, PopulateTalkgroup, PopulateWrite, PopulateRead,
                StoreCall, Ensure, EnsureWrite, EnsureRead, Rest
  <2>2. CASE \E s \in mem["systems"], a \in Arrival : Arrive(s, a)
    BY <2>1, <2>2, CopiesAside DEF Arrive
  <2>3. CASE ~ \E s \in mem["systems"], a \in Arrival : Arrive(s, a)
    <3>1. pop.at # "idle"
      BY <1>3, <2>3 DEF Ingestion, PopulateGroups, PopulateTag, PopulateTalkgroup, PopulateWrite, PopulateRead,
                StoreCall, Ensure, EnsureWrite, EnsureRead, PopGo
    <3>2. clean' => clean
      <4>1. CASE PopulateGroups \/ PopulateTag
        BY <4>1 DEF PopulateGroups, PopulateTag, Ensure, EnsureWrite, EnsureRead, Fault, NoFault
      <4>2. CASE PopulateTalkgroup \/ PopulateWrite \/ PopulateRead \/ StoreCall
        BY <4>2 DEF PopulateTalkgroup, PopulateWrite, PopulateRead, StoreCall, WriteSystemsFails, Fault, NoFault
      <4> QED BY <1>3, <2>3, <4>1, <4>2 DEF Ingestion
    <3> QED BY <2>1, <3>1, <3>2, Others, CopiesAside
  <2> QED BY <2>2, <2>3
<1>4. CASE (\E k \in Key : UserAdd(k)) \/ (\E e \in mem["access"] : UserRemove(e))
  BY <1>4, CopiesAside DEF UserAdd, UserRemove
<1>5. CASE UserWrite \/ UserRead
  <2>1. pc' = pc /\ user # "idle" /\ (clean' => clean)
    BY <1>5 DEF UserWrite, UserRead, Fault, NoFault
  <2> QED BY <2>1, Others, CopiesAside
<1>6. CASE Put
  <2>1. CASE clean'
    BY <1>6, <2>1, CopiesPut
  <2>2. CASE ~clean'
    BY <2>2 DEF Copies
  <2> QED BY <2>1, <2>2
<1> QED BY <1>1, <1>2, <1>3, <1>4, <1>5, <1>6 DEF Next

LEMMA CopiesExact == ASSUME Plain, Copies PROVE SaveExact
<1> SUFFICES ASSUME pc = "finish", clean
             PROVE  /\ \A l \in DOMAIN doc \ {"options", "units"} :
                         /\ \A e \in doc[l] : \E r \in tab[l].rows : Same(e, r, l)
                         /\ \A r \in tab[l].rows :
                              \/ \E e \in doc[l] : Same(e, r, l)
                              \/ l # "talkgroups" /\ New \in Ids(doc[l])
                              \/ l \in Nested /\ New \in Ids(doc["systems"]) /\ r.sys \notin Ids(doc["systems"])
                    /\ "options" \in DOMAIN doc =>
                         \A o \in Option \ {"audioConversion", "duplicateDetectionTimeFrame"} :
                           OptionsRead(optRows)[o] = options[o]
  BY DEF SaveExact
<1>1. /\ \A l \in Flat \union {"systems"} : Copied(l)
      /\ CopiedUnder("sites") /\ CopiedUnder("talkgroups")
      /\ optRows = OptionsWritten(options)
  BY Names DEF Copies, Saving, ToAccess, ToApikeys, ToDirwatch, ToDownstreams, ToGroups, ToSystems, ToTags
<1>2. \A o \in Option \ {"audioConversion", "duplicateDetectionTimeFrame"} : OptionsRead(optRows)[o] = options[o]
  BY <1>1 DEF OptionsWritten, OptionsRead
<1>3. ASSUME NEW l \in DOMAIN doc \ {"options", "units"}
      PROVE  /\ \A e \in doc[l] : \E r \in tab[l].rows : Same(e, r, l)
             /\ \A r \in tab[l].rows :
                  \/ \E e \in doc[l] : Same(e, r, l)
                  \/ l # "talkgroups" /\ New \in Ids(doc[l])
                  \/ l \in Nested /\ New \in Ids(doc["systems"]) /\ r.sys \notin Ids(doc["systems"])
  <2>1. CASE l \in Flat \union {"systems"}
    <3>1. l # "talkgroups"
      BY <2>1, Names
    <3>2. \A e, r : Alike(e, r, tab[l]) => Same(e, r, l)
      BY DEF Alike, Same
    <3> QED BY <1>1, <2>1, <3>1, <3>2 DEF Copied, CopyOf
  <2>2. CASE l \in {"sites", "talkgroups"}
    BY <1>1, <2>2, Names DEF CopiedUnder
  <2>3. l \in Flat \union {"systems", "sites", "talkgroups"}
    BY Names DEF Plain, PlainPage
  <2> QED BY <2>1, <2>2, <2>3
<1> QED BY <1>2, <1>3

(* When a save ends that nothing disturbed, each list it was sent is what  *)
(* its table has: no element of the page was lost or changed, no row that  *)
(* the page does not have is left, except what a new element kept from     *)
(* being removed, and a restart would find the options that are in force,  *)
(* except the two that are written or read wrong (SaveExact).              *)
THEOREM SaveExactSafe == Spec => []SaveExact
<1> DEFINE Inv == Held /\ Linked /\ InOrder /\ PageTagged /\ TagsSent /\ Plain /\ Copies
<1>1. Init => Inv
  <2> SUFFICES ASSUME Init PROVE Inv
    OBVIOUS
  <2>1. doc = NoDoc /\ pc = "idle"
    BY DEF Init
  <2>2. PageTagged /\ TagsSent /\ Copies
    BY <2>1 DEF PageTagged, TagsSent, NoDoc, Copies, Saving
  <2> QED BY <2>2, SoundInit, InitInOrder, PlainInit
<1>2. Inv /\ [Next]_vars => Inv'
  BY SoundNext, InOrderNext, PageTaggedNext, TagsSentNext, PlainNext, CopiesNext DEF Linked
<1>3. Inv => SaveExact
  BY CopiesExact
<1> QED BY <1>1, <1>2, <1>3, PTL DEF Spec
=============================================================================

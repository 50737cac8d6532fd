--------------------------- MODULE TimerQueueProofs ---------------------------
(***************************************************************************)
(* Proofs about modules TimerHeap and TimerQueue, for any number of timers: *)
(* what up, down, addTimer and popTimer do to a heap, the invariants of the *)
(* timer queue, and that it implements TimerService.                        *)
(*                                                                          *)
(* up and down take one timer along a chain of places.  What is known of    *)
(* them rests on three facts about such a chain: it ends, the swaps along   *)
(* it permute the places, and the timer may stop only where the order holds. *)
(***************************************************************************)
EXTENDS TimerQueue, SequenceFacts

------------------------------------------------------------------------------
(* Chains of places                                                         *)

(* The functions rest and path of up and of down: a timer at a place k of   *)
(* Go goes on to nx[k].                                                     *)
Rests(D, Go, nx, r) == r = [k \in D |-> IF k \in Go THEN r[nx[k]] ELSE k]
Paths(D, nx, r, p) == p = [k \in D |-> IF k = r[k] THEN {k} ELSE {k} \cup p[nx[k]]]

(* Every place of Go has its next in D, and m falls on the way.             *)
Chain(D, Go, nx, m) ==
    /\ Go \subseteq D
    /\ m \in [D -> Nat]
    /\ \A k \in Go : nx[k] \in D /\ m[nx[k]] < m[k]
    /\ \E N \in Nat : \A k \in D : m[k] < N

PathAt(nx, r, p, k) == p[k] = IF k = r[k] THEN {k} ELSE {k} \cup p[nx[k]]

(* Their values at k,                                                       *)
LEMMA RestsAt ==
    ASSUME NEW D, NEW Go, NEW nx, NEW r, Rests(D, Go, nx, r), NEW k \in D
    PROVE  r[k] = IF k \in Go THEN r[nx[k]] ELSE k
<1> DEFINE h == [j \in D |-> IF j \in Go THEN r[nx[j]] ELSE j]
<1>1. r = h
  BY DEF Rests
<1>2. h[k] = IF k \in Go THEN r[nx[k]] ELSE k
  OBVIOUS
<1> HIDE DEF h
<1> QED
  BY <1>1, <1>2

LEMMA PathsAt ==
    ASSUME NEW D, NEW nx, NEW r, NEW p, Paths(D, nx, r, p), NEW k \in D
    PROVE  PathAt(nx, r, p, k)
<1> DEFINE h == [j \in D |-> IF j = r[j] THEN {j} ELSE {j} \cup p[nx[j]]]
<1>1. p = h
  BY DEF Paths
<1>2. h[k] = IF k = r[k] THEN {k} ELSE {k} \cup p[nx[k]]
  OBVIOUS
<1> HIDE DEF h
<1> QED
  BY <1>1, <1>2 DEF PathAt

(* The places from which the way is shorter than n.                         *)
Within(D, m, n) == {k \in D : m[k] < n}

(* There is a function rest,                                                *)
LEMMA RestsExist ==
    ASSUME NEW D, NEW Go, NEW nx, NEW m, Chain(D, Go, nx, m)
    PROVE  \E r : Rests(D, Go, nx, r)
<1>0. m \in [D -> Nat] /\ Go \subseteq D /\ \A k \in Go : nx[k] \in D /\ m[nx[k]] < m[k]
  BY DEF Chain
<1> DEFINE P == {n \in Nat : \E r : Rests(Within(D, m, n), Go, nx, r)}
<1>1. 0 \in P
  <2>1. Within(D, m, 0) = {}
    BY <1>0 DEF Within
  <2>2. Rests({}, Go, nx, [i \in {} |-> i])
    BY DEF Rests
  <2> QED
    BY <2>1, <2>2
<1>2. ASSUME NEW n \in P PROVE n + 1 \in P
  <2>1. PICK r : Rests(Within(D, m, n), Go, nx, r)
    OBVIOUS
  <2> DEFINE E == Within(D, m, n + 1)
             g == [k \in E |-> IF k \in Go THEN r[nx[k]] ELSE k]
  <2>2. /\ Within(D, m, n) \subseteq E /\ E \subseteq D
        /\ \A k \in E : k \in Go => nx[k] \in Within(D, m, n)
    BY <1>0 DEF Within
  <2>3. \A k \in Within(D, m, n) : r[k] = g[k]
    <3>1. \A k \in Within(D, m, n) : r[k] = IF k \in Go THEN r[nx[k]] ELSE k
      BY <2>1, RestsAt
    <3>2. \A k \in E : g[k] = IF k \in Go THEN r[nx[k]] ELSE k
      OBVIOUS
    <3> HIDE DEF g, E
    <3> QED
      BY <2>2, <3>1, <3>2
  <2>4. \A k \in E : g[k] = IF k \in Go THEN g[nx[k]] ELSE k
    <3>1. \A k \in E : g[k] = IF k \in Go THEN r[nx[k]] ELSE k
      OBVIOUS
    <3> HIDE DEF g, E
    <3> QED
      BY <2>2, <2>3, <3>1
  <2>5. Rests(E, Go, nx, g)
    BY <2>4 DEF Rests
  <2> QED
    BY <2>5
<1>3. \A n \in Nat : n \in P
  <2> HIDE DEF P
  <2>1. P \in SUBSET Nat
    BY DEF P
  <2> QED
    BY <1>1, <1>2, <2>1, SetInduction
<1>4. PICK N \in Nat : \A k \in D : m[k] < N
  BY DEF Chain
<1>5. Within(D, m, N) = D
  BY <1>4 DEF Within
<1> QED
  BY <1>3, <1>5

(* and a function path for it.                                              *)
LEMMA PathsExist ==
    ASSUME NEW D, NEW Go, NEW nx, NEW m, Chain(D, Go, nx, m), NEW r, Rests(D, Go, nx, r)
    PROVE  \E p : Paths(D, nx, r, p)
<1>0. m \in [D -> Nat] /\ Go \subseteq D /\ \A k \in Go : nx[k] \in D /\ m[nx[k]] < m[k]
  BY DEF Chain
<1>a. \A k \in D : k # r[k] => k \in Go
  BY RestsAt
<1> DEFINE P == {n \in Nat : \E p : Paths(Within(D, m, n), nx, r, p)}
<1>1. 0 \in P
  <2>1. Within(D, m, 0) = {}
    BY <1>0 DEF Within
  <2>2. Paths({}, nx, r, [i \in {} |-> i])
    BY DEF Paths
  <2> QED
    BY <2>1, <2>2
<1>2. ASSUME NEW n \in P PROVE n + 1 \in P
  <2>1. PICK p : Paths(Within(D, m, n), nx, r, p)
    OBVIOUS
  <2> DEFINE E == Within(D, m, n + 1)
             g == [k \in E |-> IF k = r[k] THEN {k} ELSE {k} \cup p[nx[k]]]
  <2>2. /\ Within(D, m, n) \subseteq E /\ E \subseteq D
        /\ \A k \in E : k # r[k] => nx[k] \in Within(D, m, n)
    BY <1>0, <1>a DEF Within
  <2>3. \A k \in Within(D, m, n) : p[k] = g[k]
    <3>1. \A k \in Within(D, m, n) : p[k] = IF k = r[k] THEN {k} ELSE {k} \cup p[nx[k]]
      <4>1. \A k \in Within(D, m, n) : PathAt(nx, r, p, k)
        BY <2>1, PathsAt
      <4> QED
        BY <4>1 DEF PathAt
    <3>2. \A k \in E : g[k] = IF k = r[k] THEN {k} ELSE {k} \cup p[nx[k]]
      OBVIOUS
    <3> HIDE DEF g, E
    <3> QED
      BY <2>2, <3>1, <3>2
  <2>4. \A k \in E : g[k] = IF k = r[k] THEN {k} ELSE {k} \cup g[nx[k]]
    <3>1. \A k \in E : g[k] = IF k = r[k] THEN {k} ELSE {k} \cup p[nx[k]]
      OBVIOUS
    <3> HIDE DEF g, E
    <3> QED
      BY <2>2, <2>3, <3>1
  <2>5. Paths(E, nx, r, g)
    <3> DEFINE f == [k \in E |-> IF k = r[k] THEN {k} ELSE {k} \cup g[nx[k]]]
    <3>1. \A k \in E : f[k] = g[k]
      <4>1. \A k \in E : f[k] = IF k = r[k] THEN {k} ELSE {k} \cup g[nx[k]]
        OBVIOUS
      <4> QED
        BY <2>4, <4>1
    <3>2. f = [k \in E |-> f[k]] /\ g = [k \in E |-> g[k]]
      OBVIOUS
    <3>3. f = g
      <4> HIDE DEF f, g
      <4> QED
        BY <3>1, <3>2
    <3> QED
      BY <3>3 DEF Paths
  <2> QED
    BY <2>5
<1>3. \A n \in Nat : n \in P
  <2> HIDE DEF P
  <2>1. P \in SUBSET Nat
    BY DEF P
  <2> QED
    BY <1>1, <1>2, <2>1, SetInduction
<1>4. PICK N \in Nat : \A k \in D : m[k] < N
  BY DEF Chain
<1>5. Within(D, m, N) = D
  BY <1>4 DEF Within
<1> QED
  BY <1>3, <1>5

(* w is the way from k to z along nx: it goes on everywhere but at z, comes *)
(* from somewhere everywhere but at k, and from one place only.             *)
Way(Go, nx, m, k, z, w) ==
    /\ k \in w /\ z \in w /\ z \notin Go
    /\ \A j \in w : m[z] <= m[j] /\ m[j] <= m[k]
    /\ \A j \in w : j # z => j \in Go /\ nx[j] \in w
    /\ \A j \in w : j # k => \E c \in w : c # z /\ nx[c] = j
    /\ \A i, j \in w : i # z /\ j # z /\ nx[i] = nx[j] => i = j

(* path[k] is the way from k to rest[k].                                    *)
LEMMA Ways ==
    ASSUME NEW D, NEW Go, NEW nx, NEW m, Chain(D, Go, nx, m), NEW r, Rests(D, Go, nx, r),
           NEW p, Paths(D, nx, r, p), NEW k \in D
    PROVE  p[k] \subseteq D /\ Way(Go, nx, m, k, r[k], p[k])
<1>0. m \in [D -> Nat] /\ Go \subseteq D /\ \A j \in Go : nx[j] \in D /\ m[nx[j]] < m[j]
  BY DEF Chain
<1>r. \A j \in D : r[j] = IF j \in Go THEN r[nx[j]] ELSE j
  BY RestsAt
<1>p. \A j \in D : p[j] = IF j = r[j] THEN {j} ELSE {j} \cup p[nx[j]]
  <2>1. \A j \in D : PathAt(nx, r, p, j)
    BY PathsAt
  <2> QED
    BY <2>1 DEF PathAt
<1> DEFINE Q(j) == p[j] \subseteq D /\ Way(Go, nx, m, j, r[j], p[j])
           P == {n \in Nat : \A j \in Within(D, m, n) : Q(j)}
<1>1. 0 \in P
  BY <1>0 DEF Within
<1>2. ASSUME NEW n \in P PROVE n + 1 \in P
  <2> SUFFICES ASSUME NEW j \in D, m[j] < n + 1 PROVE Q(j)
    BY DEF Within
  <2>1. CASE j \notin Go
    <3>1. r[j] = j /\ p[j] = {j}
      BY <1>r, <1>p, <2>1
    <3> QED
      BY <1>0, <2>1, <3>1 DEF Way
  <2>2. CASE j \in Go
    <3> DEFINE i == nx[j]
               z == r[j]
               w == p[i]
    <3>1. i \in D /\ m[i] < m[j] /\ i \in Within(D, m, n) /\ m[i] \in Nat /\ m[j] \in Nat
      BY <1>0, <2>2 DEF Within
    <3>2. r[j] = r[i]
      BY <1>r, <2>2
    <3>3. w \subseteq D /\ Way(Go, nx, m, i, z, w)
      BY <3>1, <3>2
    <3>4. j # z /\ z \in D /\ m[z] <= m[i] /\ m[z] \in Nat
      BY <1>0, <2>2, <3>3 DEF Way
    <3>5. p[j] = {j} \cup w
      BY <1>p, <3>4
    <3>6. j \notin w
      BY <1>0, <3>1, <3>3 DEF Way
    <3> HIDE DEF i, w, z
    <3> DEFINE v == {j} \cup w
    <3>7. j \in v /\ z \in v /\ z \notin Go /\ v \subseteq D
      BY <3>3 DEF Way
    <3>8. \A x \in v : m[z] <= m[x] /\ m[x] <= m[j]
      <4>1. ASSUME NEW x \in w PROVE m[z] <= m[x] /\ m[x] <= m[j]
        <5>1. m[x] \in Nat /\ m[z] <= m[x] /\ m[x] <= m[i]
          BY <1>0, <3>3 DEF Way
        <5> QED
          BY <3>1, <5>1
      <4>2. m[z] <= m[j] /\ m[j] <= m[j]
        BY <3>1, <3>4
      <4> QED
        BY <4>1, <4>2
    <3>9. \A x \in v : x # z => x \in Go /\ nx[x] \in v
      BY <2>2, <3>3 DEF Way, i
    <3>10. \A x \in v : x # j => \E c \in v : c # z /\ nx[c] = x
      BY <3>3, <3>4 DEF Way, i
    <3>11. \A x, y \in v : x # z /\ y # z /\ nx[x] = nx[y] => x = y
      <4>1. ASSUME NEW x \in w, x # z PROVE nx[x] # i
        <5>1. x \in Go /\ m[x] <= m[i] /\ m[nx[x]] < m[x] /\ m[x] \in Nat /\ nx[x] \in D
          BY <1>0, <3>3, <4>1 DEF Way
        <5>2. m[nx[x]] \in Nat
          BY <1>0, <5>1
        <5> QED
          BY <3>1, <5>1, <5>2
      <4>2. \A x, y \in w : x # z /\ y # z /\ nx[x] = nx[y] => x = y
        BY <3>3 DEF Way
      <4> QED
        BY <4>1, <4>2 DEF i
    <3>12. Way(Go, nx, m, j, z, v)
      BY <3>7, <3>8, <3>9, <3>10, <3>11 DEF Way
    <3> QED
      BY <3>5, <3>7, <3>12 DEF z
  <2> QED
    BY <2>1, <2>2
<1>3. \A n \in Nat : n \in P
  <2> HIDE DEF P
  <2>1. P \in SUBSET Nat
    BY DEF P
  <2> QED
    BY <1>1, <1>2, <2>1, SetInduction
<1>4. m[k] + 1 \in P /\ k \in Within(D, m, m[k] + 1)
  BY <1>0, <1>3 DEF Within
<1> QED
  BY <1>4

(* s takes the places of D one to one onto those of S.                      *)
Permutes(s, D, S) ==
    /\ s \in [D -> S]
    /\ \A i, j \in D : s[i] = s[j] => i = j
    /\ \A x \in S : \E j \in D : s[j] = x

(* Where what stands at j after the swaps along a way was before.           *)
Source(D, nx, k, z, w) == [j \in D |-> IF j = z THEN k ELSE IF j \in w THEN nx[j] ELSE j]

(* The swaps permute the places.                                            *)
LEMMA Sources ==
    ASSUME NEW D, NEW Go, NEW nx, NEW m, Chain(D, Go, nx, m),
           NEW k \in D, NEW z, NEW w \in SUBSET D, Way(Go, nx, m, k, z, w),
           NEW s, s = Source(D, nx, k, z, w)
    PROVE  Permutes(s, D, D)
<1>0. m \in [D -> Nat] /\ Go \subseteq D /\ \A j \in Go : nx[j] \in D /\ m[nx[j]] < m[j]
  BY DEF Chain
<1>1. \A j \in D : s[j] = IF j = z THEN k ELSE IF j \in w THEN nx[j] ELSE j
  BY DEF Source
<1>2. \A j \in w : j # z => nx[j] \in w /\ nx[j] # k
  <2> SUFFICES ASSUME NEW j \in w, j # z PROVE nx[j] \in w /\ nx[j] # k
    OBVIOUS
  <2>1. j \in Go /\ m[j] <= m[k] /\ nx[j] \in w
    BY DEF Way
  <2>2. m[nx[j]] \in Nat /\ m[j] \in Nat /\ m[k] \in Nat /\ m[nx[j]] < m[j]
    BY <1>0, <2>1
  <2> QED
    BY <2>1, <2>2
<1>3. s \in [D -> D]
  <2>1. \A j \in D : s[j] \in D
    BY <1>1, <1>2
  <2>2. s = [j \in D |-> s[j]]
    BY DEF Source
  <2> QED
    BY <2>1, <2>2
<1>4. k \in w /\ z \in w
  BY DEF Way
<1>5. ASSUME NEW i \in D, NEW j \in D, s[i] = s[j] PROVE i = j
  <2>1. \A a, b \in w : a # z /\ b # z /\ nx[a] = nx[b] => a = b
    BY DEF Way
  <2> QED
    BY <1>1, <1>2, <1>4, <1>5, <2>1
<1>6. ASSUME NEW x \in D PROVE \E j \in D : s[j] = x
  <2>1. CASE x \notin w
    BY <1>1, <1>4, <2>1
  <2>2. CASE x = k
    BY <1>1, <1>4, <2>2
  <2>3. CASE x \in w /\ x # k
    <3>1. PICK c \in w : c # z /\ nx[c] = x
      BY <2>3 DEF Way
    <3> QED
      BY <1>1, <3>1
  <2> QED
    BY <2>1, <2>2, <2>3
<1> QED
  BY <1>3, <1>5, <1>6 DEF Permutes

------------------------------------------------------------------------------
(* up                                                                       *)

(* A place and its parent.                                                  *)
LEMMA Parent ==
    ASSUME NEW k \in Nat, k > 0
    PROVE  parent(k) \in Nat /\ parent(k) < k /\ (k = 2 * parent(k) + 1 \/ k = 2 * parent(k) + 2)
BY DEF parent

(* up as such a chain: the places at which it swaps, where the timer goes   *)
(* from there, and what falls.                                              *)
UpGo(h, idx, e) == {k \in 0..idx : k > 0 /\ Before(e, At(h, idx), At(h, parent(k)))}
UpNext(idx) == [k \in 0..idx |-> parent(k)]
UpMeasure(idx) == [k \in 0..idx |-> k]

(* The recursive functions in up.                                           *)
UpRests(h, idx, e, r) ==
    r = [k \in 0..idx |->
           IF k > 0 /\ Before(e, At(h, idx), At(h, parent(k))) THEN r[parent(k)] ELSE k]
UpPaths(idx, r, p) == p = [k \in 0..idx |-> IF k = r[k] THEN {k} ELSE {k} \cup p[parent(k)]]

(* The chain of up ends.                                                    *)
LEMMA UpChain ==
    ASSUME NEW h, NEW idx \in Nat, NEW e
    PROVE  Chain(0..idx, UpGo(h, idx, e), UpNext(idx), UpMeasure(idx))
<1>1. UpGo(h, idx, e) \subseteq 0..idx
  BY DEF UpGo
<1>2. UpMeasure(idx) \in [0..idx -> Nat]
  BY DEF UpMeasure
<1>3. ASSUME NEW k \in UpGo(h, idx, e)
      PROVE  UpNext(idx)[k] \in 0..idx /\ UpMeasure(idx)[UpNext(idx)[k]] < UpMeasure(idx)[k]
  <2>1. k \in 0..idx /\ k > 0
    BY DEF UpGo
  <2>2. parent(k) \in 0..idx /\ parent(k) < k
    BY <2>1, Parent
  <2> QED
    BY <2>1, <2>2 DEF UpNext, UpMeasure
<1>4. \E N \in Nat : \A k \in 0..idx : UpMeasure(idx)[k] < N
  <2>1. \A k \in 0..idx : UpMeasure(idx)[k] < idx + 1
    BY DEF UpMeasure
  <2> QED
    BY <2>1
<1> QED
  BY <1>1, <1>2, <1>3, <1>4 DEF Chain

(* up takes the timer along w to z.                                         *)
UpTo(h, idx, e, z, w) ==
    /\ w \in SUBSET (0..idx)
    /\ Way(UpGo(h, idx, e), UpNext(idx), UpMeasure(idx), idx, z, w)
    /\ up(h, idx, e) = [i \in DOMAIN h |-> IF i - 1 = z THEN At(h, idx)
                             ELSE IF i - 1 \in w THEN At(h, parent(i - 1)) ELSE h[i]]

(* So it does, for some w and z.                                            *)
LEMMA UpIs ==
    ASSUME NEW h, NEW idx \in Nat, NEW e
    PROVE  \E z, w : UpTo(h, idx, e, z, w)
<1> DEFINE D == 0..idx
           Go == UpGo(h, idx, e)
           nx == UpNext(idx)
           m == UpMeasure(idx)
           r == CHOOSE f : UpRests(h, idx, e, f)
           p == CHOOSE f : UpPaths(idx, r, f)
<1>1. Chain(D, Go, nx, m)
  BY UpChain
<1>2. \A f : Rests(D, Go, nx, f) <=> UpRests(h, idx, e, f)
  <2> SUFFICES ASSUME NEW f PROVE Rests(D, Go, nx, f) <=> UpRests(h, idx, e, f)
    OBVIOUS
  <2>1. \A k \in D : k \in Go <=> k > 0 /\ Before(e, At(h, idx), At(h, parent(k)))
    BY DEF UpGo
  <2>2. \A k \in D : nx[k] = parent(k)
    BY DEF UpNext
  <2> HIDE DEF D, Go, nx
  <2>3. [k \in D |-> IF k \in Go THEN f[nx[k]] ELSE k] =
        [k \in D |-> IF k > 0 /\ Before(e, At(h, idx), At(h, parent(k))) THEN f[parent(k)] ELSE k]
    BY <2>1, <2>2
  <2> QED
    BY <2>3 DEF Rests, UpRests, D
<1>3. UpRests(h, idx, e, r)
  <2>1. \E f : Rests(D, Go, nx, f)
    <3> HIDE DEF D, Go, nx, m
    <3> QED
      BY <1>1, RestsExist
  <2>2. \E f : UpRests(h, idx, e, f)
    BY <1>2, <2>1
  <2> QED
    BY <2>2
<1>4. \A f, g : Paths(D, nx, g, f) <=> UpPaths(idx, g, f)
  <2> SUFFICES ASSUME NEW f, NEW g PROVE Paths(D, nx, g, f) <=> UpPaths(idx, g, f)
    OBVIOUS
  <2>2. \A k \in D : nx[k] = parent(k)
    BY DEF UpNext
  <2> HIDE DEF D, nx
  <2>3. [k \in D |-> IF k = g[k] THEN {k} ELSE {k} \cup f[nx[k]]] =
        [k \in D |-> IF k = g[k] THEN {k} ELSE {k} \cup f[parent(k)]]
    BY <2>2
  <2> QED
    BY <2>3 DEF Paths, UpPaths, D
<1>5. UpPaths(idx, r, p)
  <2>1. Rests(D, Go, nx, r)
    BY <1>2, <1>3
  <2>2. \E f : Paths(D, nx, r, f)
    <3> HIDE DEF D, Go, nx, m, r
    <3> QED
      BY <1>1, <2>1, PathsExist
  <2>3. \E f : UpPaths(idx, r, f)
    BY <1>4, <2>2
  <2> QED
    BY <2>3
<1>6. p[idx] \subseteq D /\ Way(Go, nx, m, idx, r[idx], p[idx])
  <2>1. Rests(D, Go, nx, r) /\ Paths(D, nx, r, p) /\ idx \in D
    BY <1>2, <1>3, <1>4, <1>5
  <2> HIDE DEF D, Go, nx, m, r, p
  <2> QED
    BY <1>1, <2>1, Ways
<1>7. up(h, idx, e) = [i \in DOMAIN h |-> IF i - 1 = r[idx] THEN At(h, idx)
                          ELSE IF i - 1 \in p[idx] THEN At(h, parent(i - 1)) ELSE h[i]]
  BY DEF up, UpRests, UpPaths
<1> QED
  <2> HIDE DEF r, p
  <2> QED
    BY <1>6, <1>7 DEF UpTo

------------------------------------------------------------------------------
(* down                                                                     *)

(* down as such a chain.                                                    *)
DownGo(h, idx, e) ==
    {k \in 0..(Len(h) - 1) :
       ~(2 * k + 1 >= Len(h) \/ Before(e, At(h, idx), At(h, minChild(h, k, e))))}
DownNext(h, e) == [k \in 0..(Len(h) - 1) |-> minChild(h, k, e)]
DownMeasure(h) == [k \in 0..(Len(h) - 1) |-> Len(h) - k]

(* The recursive functions in down.                                         *)
DownRests(h, idx, e, r) ==
    r = [k \in 0..(Len(h) - 1) |->
           IF 2 * k + 1 >= Len(h) \/ Before(e, At(h, idx), At(h, minChild(h, k, e))) THEN k
           ELSE r[minChild(h, k, e)]]
DownPaths(h, e, r, p) ==
    p = [k \in 0..(Len(h) - 1) |-> IF k = r[k] THEN {k} ELSE {k} \cup p[minChild(h, k, e)]]

(* The child that down compares with is in the heap.                        *)
LEMMA MinChildIs ==
    ASSUME NEW h, Len(h) \in Nat, NEW e, NEW k \in Nat, 2 * k + 1 < Len(h)
    PROVE  /\ minChild(h, k, e) \in 0..(Len(h) - 1)
           /\ minChild(h, k, e) \in {2 * k + 1, 2 * k + 2}
           /\ parent(minChild(h, k, e)) = k
           /\ minChild(h, k, e) > k
<1>1. minChild(h, k, e) = 2 * k + 1 \/ (minChild(h, k, e) = 2 * k + 2 /\ 2 * k + 2 < Len(h))
  BY DEF minChild
<1>2. parent(2 * k + 1) = k /\ parent(2 * k + 2) = k
  BY DEF parent
<1> HIDE DEF minChild
<1> QED
  BY <1>1, <1>2

(* The chain of down ends.                                                  *)
LEMMA DownChain ==
    ASSUME NEW h, Len(h) \in Nat, NEW idx, NEW e
    PROVE  Chain(0..(Len(h) - 1), DownGo(h, idx, e), DownNext(h, e), DownMeasure(h))
<1>1. DownGo(h, idx, e) \subseteq 0..(Len(h) - 1)
  BY DEF DownGo
<1>2. DownMeasure(h) \in [0..(Len(h) - 1) -> Nat]
  BY DEF DownMeasure
<1>3. ASSUME NEW k \in DownGo(h, idx, e)
      PROVE  /\ DownNext(h, e)[k] \in 0..(Len(h) - 1)
             /\ DownMeasure(h)[DownNext(h, e)[k]] < DownMeasure(h)[k]
  <2>1. k \in 0..(Len(h) - 1) /\ 2 * k + 1 < Len(h)
    BY DEF DownGo
  <2>2. minChild(h, k, e) \in 0..(Len(h) - 1) /\ minChild(h, k, e) > k
    BY <2>1, MinChildIs
  <2>3. DownNext(h, e)[k] = minChild(h, k, e)
    BY <2>1 DEF DownNext
  <2>4. \A j \in 0..(Len(h) - 1) : DownMeasure(h)[j] = Len(h) - j
    BY DEF DownMeasure
  <2> QED
    BY <2>1, <2>2, <2>3, <2>4
<1>4. \E N \in Nat : \A k \in 0..(Len(h) - 1) : DownMeasure(h)[k] < N
  <2>1. \A k \in 0..(Len(h) - 1) : DownMeasure(h)[k] < Len(h) + 1
    BY DEF DownMeasure
  <2>2. Len(h) + 1 \in Nat
    OBVIOUS
  <2> QED
    BY <2>1, <2>2, Zenon
<1> QED
  BY <1>1, <1>2, <1>3, <1>4 DEF Chain

(* down takes the timer along w to z.                                       *)
DownTo(h, idx, e, z, w) ==
    /\ w \in SUBSET (0..(Len(h) - 1))
    /\ Way(DownGo(h, idx, e), DownNext(h, e), DownMeasure(h), idx, z, w)
    /\ down(h, idx, e) = [i \in DOMAIN h |-> IF i - 1 = z THEN At(h, idx)
                               ELSE IF i - 1 \in w THEN At(h, minChild(h, i - 1, e)) ELSE h[i]]

(* So it does, for some w and z.                                            *)
LEMMA DownIs ==
    ASSUME NEW h, Len(h) \in Nat, NEW idx \in 0..(Len(h) - 1), NEW e
    PROVE  \E z, w : DownTo(h, idx, e, z, w)
<1> DEFINE D == 0..(Len(h) - 1)
           Go == DownGo(h, idx, e)
           nx == DownNext(h, e)
           m == DownMeasure(h)
           r == CHOOSE f : DownRests(h, idx, e, f)
           p == CHOOSE f : DownPaths(h, e, r, f)
<1>1. Chain(D, Go, nx, m)
  BY DownChain
<1>2. \A f : Rests(D, Go, nx, f) <=> DownRests(h, idx, e, f)
  <2> SUFFICES ASSUME NEW f PROVE Rests(D, Go, nx, f) <=> DownRests(h, idx, e, f)
    OBVIOUS
  <2>1. \A k \in D :
          k \notin Go <=> (2 * k + 1 >= Len(h) \/ Before(e, At(h, idx), At(h, minChild(h, k, e))))
    BY DEF DownGo
  <2>2. \A k \in D : nx[k] = minChild(h, k, e)
    BY DEF DownNext
  <2> HIDE DEF D, Go, nx
  <2>3. [k \in D |-> IF k \in Go THEN f[nx[k]] ELSE k] =
        [k \in D |->
           IF 2 * k + 1 >= Len(h) \/ Before(e, At(h, idx), At(h, minChild(h, k, e))) THEN k
           ELSE f[minChild(h, k, e)]]
    BY <2>1, <2>2
  <2> QED
    BY <2>3 DEF Rests, DownRests, D
<1>3. DownRests(h, idx, e, r)
  <2>1. \E f : Rests(D, Go, nx, f)
    <3> HIDE DEF D, Go, nx, m
    <3> QED
      BY <1>1, RestsExist
  <2>2. \E f : DownRests(h, idx, e, f)
    BY <1>2, <2>1
  <2> QED
    BY <2>2
<1>4. \A f, g : Paths(D, nx, g, f) <=> DownPaths(h, e, g, f)
  <2> SUFFICES ASSUME NEW f, NEW g PROVE Paths(D, nx, g, f) <=> DownPaths(h, e, g, f)
    OBVIOUS
  <2>2. \A k \in D : nx[k] = minChild(h, k, e)
    BY DEF DownNext
  <2> HIDE DEF D, nx
  <2>3. [k \in D |-> IF k = g[k] THEN {k} ELSE {k} \cup f[nx[k]]] =
        [k \in D |-> IF k = g[k] THEN {k} ELSE {k} \cup f[minChild(h, k, e)]]
    BY <2>2
  <2> QED
    BY <2>3 DEF Paths, DownPaths, D
<1>5. DownPaths(h, e, r, p)
  <2>1. Rests(D, Go, nx, r)
    BY <1>2, <1>3
  <2>2. \E f : Paths(D, nx, r, f)
    <3> HIDE DEF D, Go, nx, m, r
    <3> QED
      BY <1>1, <2>1, PathsExist
  <2>3. \E f : DownPaths(h, e, r, f)
    BY <1>4, <2>2
  <2> QED
    BY <2>3
<1>6. p[idx] \subseteq D /\ Way(Go, nx, m, idx, r[idx], p[idx])
  <2>1. Rests(D, Go, nx, r) /\ Paths(D, nx, r, p) /\ idx \in D
    BY <1>2, <1>3, <1>4, <1>5
  <2> HIDE DEF D, Go, nx, m, r, p
  <2> QED
    BY <1>1, <2>1, Ways
<1>7. down(h, idx, e) = [i \in DOMAIN h |-> IF i - 1 = r[idx] THEN At(h, idx)
                          ELSE IF i - 1 \in p[idx] THEN At(h, minChild(h, i - 1, e)) ELSE h[i]]
  BY DEF down, DownRests, DownPaths
<1> QED
  <2> HIDE DEF r, p
  <2> QED
    BY <1>6, <1>7 DEF DownTo

------------------------------------------------------------------------------
(* addTimer                                                                 *)

(* u has the timers that h has at the places S, each as often.              *)
Arranged(T, h, n, S, u) ==
    /\ u \in Seq(T) /\ Len(u) = n
    /\ Range(u) = {At(h, x) : x \in S}
    /\ (\A x, y \in S : At(h, x) = At(h, y) => x = y) => IsInjective(u)

(* A sequence that takes each of its timers from another place of S is      *)
(* arranged so.                                                             *)
LEMMA Rearranged ==
    ASSUME NEW T, NEW h \in Seq(T), NEW n \in Nat, NEW S \in SUBSET (0..(Len(h) - 1)),
           NEW s, Permutes(s, 0..(n - 1), S),
           NEW u, u = [i \in 1..n |-> At(h, s[i - 1])]
    PROVE  Arranged(T, h, n, S, u)
<1>a. /\ s \in [0..(n - 1) -> S]
      /\ \A i, j \in 0..(n - 1) : s[i] = s[j] => i = j
      /\ \A x \in S : \E j \in 0..(n - 1) : s[j] = x
  BY DEF Permutes
<1>0. Len(h) \in Nat /\ \A x \in S : At(h, x) \in T
  <2>1. Len(h) \in Nat /\ \A i \in 1..Len(h) : h[i] \in T
    BY ElementOfSeq, LenProperties
  <2>2. \A x \in S : x + 1 \in 1..Len(h)
    BY <2>1
  <2> QED
    BY <2>1, <2>2 DEF At
<1>1. \A i \in 1..n : u[i] = At(h, s[i - 1]) /\ i - 1 \in 0..(n - 1) /\ s[i - 1] \in S
  BY <1>a
<1>2. DOMAIN u = 1..n /\ \A i \in 1..n : u[i] \in T
  BY <1>0, <1>1
<1>3. u \in Seq(T) /\ Len(u) = n
  <2>1. u \in [1..n -> T]
    BY <1>2
  <2> QED
    BY <2>1, SeqDef, LenProperties
<1>4. \A x \in S : \E i \in 1..n : s[i - 1] = x
  <2> SUFFICES ASSUME NEW x \in S PROVE \E i \in 1..n : s[i - 1] = x
    OBVIOUS
  <2>1. PICK j \in 0..(n - 1) : s[j] = x
    BY <1>a
  <2>2. j + 1 \in 1..n /\ (j + 1) - 1 = j
    OBVIOUS
  <2> QED
    BY <2>1, <2>2
<1>5. Range(u) = {At(h, x) : x \in S}
  <2>1. \A i \in 1..n : \E x \in S : u[i] = At(h, x)
    BY <1>1
  <2>2. ASSUME NEW x \in S PROVE \E i \in 1..n : u[i] = At(h, x)
    <3>1. PICK i \in 1..n : s[i - 1] = x
      BY <1>4
    <3> QED
      BY <1>1, <3>1
  <2>3. Range(u) = {u[i] : i \in 1..n}
    BY <1>2 DEF Range
  <2> QED
    BY <2>1, <2>2, <2>3
<1>6. ASSUME \A x, y \in S : At(h, x) = At(h, y) => x = y,
             NEW i \in 1..n, NEW j \in 1..n, u[i] = u[j]
      PROVE  i = j
  <2>1. s[i - 1] = s[j - 1]
    BY <1>1, <1>6
  <2>2. i - 1 = j - 1
    BY <1>a, <1>1, <2>1
  <2> QED
    BY <2>2
<1> QED
  BY <1>2, <1>3, <1>5, <1>6 DEF IsInjective, Arranged

(* No timer is in h twice, in indexes from 0.                               *)
Distinct(h) == \A x, y \in 0..(Len(h) - 1) : At(h, x) = At(h, y) => x = y

(* IsInjective and Range in indexes from 0.                                 *)
LEMMA DistinctIs ==
    ASSUME NEW T, NEW h \in Seq(T)
    PROVE  /\ IsInjective(h) => Distinct(h)
           /\ Range(h) = {At(h, x) : x \in 0..(Len(h) - 1)}
<1>1. Len(h) \in Nat /\ DOMAIN h = 1..Len(h)
  BY LenProperties
<1>2. \A x \in 0..(Len(h) - 1) : x + 1 \in 1..Len(h)
  BY <1>1
<1>3. ASSUME IsInjective(h), NEW x \in 0..(Len(h) - 1), NEW y \in 0..(Len(h) - 1),
             At(h, x) = At(h, y)
      PROVE  x = y
  <2>1. x + 1 = y + 1
    BY <1>1, <1>2, <1>3 DEF IsInjective, At
  <2> QED
    BY <2>1
<1>4. Range(h) = {At(h, x) : x \in 0..(Len(h) - 1)}
  <2>1. ASSUME NEW i \in 1..Len(h) PROVE \E x \in 0..(Len(h) - 1) : h[i] = At(h, x)
    <3>1. i - 1 \in 0..(Len(h) - 1) /\ (i - 1) + 1 = i
      BY <1>1
    <3> QED
      BY <3>1 DEF At
  <2>2. ASSUME NEW x \in 0..(Len(h) - 1) PROVE \E i \in 1..Len(h) : h[i] = At(h, x)
    BY <1>2 DEF At
  <2> QED
    BY <1>1, <2>1, <2>2 DEF Range
<1> QED
  BY <1>3, <1>4 DEF Distinct

(* up keeps the timers.                                                     *)
LEMMA UpKeeps ==
    ASSUME NEW T, NEW h \in Seq(T), NEW idx \in Nat, Len(h) = idx + 1, NEW e,
           IsInjective(h)
    PROVE  /\ up(h, idx, e) \in Seq(T) /\ Len(up(h, idx, e)) = Len(h)
           /\ Range(up(h, idx, e)) = Range(h) /\ IsInjective(up(h, idx, e))
<1> DEFINE D == 0..idx
           Go == UpGo(h, idx, e)
           nx == UpNext(idx)
           m == UpMeasure(idx)
           u == up(h, idx, e)
<1>0. PICK z, w : UpTo(h, idx, e, z, w)
  BY UpIs
<1>1. /\ w \in SUBSET D
      /\ Way(Go, nx, m, idx, z, w)
      /\ u = [i \in DOMAIN h |-> IF i - 1 = z THEN At(h, idx)
                                 ELSE IF i - 1 \in w THEN At(h, parent(i - 1)) ELSE h[i]]
  BY <1>0 DEF UpTo
<1> DEFINE s == Source(D, nx, idx, z, w)
<1>2. Permutes(s, D, D)
  <2>1. Chain(D, Go, nx, m) /\ idx \in D
    BY UpChain
  <2> HIDE DEF D, Go, nx, m
  <2> QED
    BY <1>1, <2>1, Sources
<1>3. D = 0..(Len(h) - 1) /\ D = 0..((idx + 1) - 1) /\ idx + 1 \in Nat
  OBVIOUS
<1>4. DOMAIN h = 1..(idx + 1)
  BY LenProperties
<1>5. \A i \in 1..(idx + 1) : u[i] = At(h, s[i - 1])
  <2> SUFFICES ASSUME NEW i \in 1..(idx + 1) PROVE u[i] = At(h, s[i - 1])
    OBVIOUS
  <2>1. i - 1 \in D /\ (i - 1) + 1 = i
    OBVIOUS
  <2>2. s[i - 1] = IF i - 1 = z THEN idx ELSE IF i - 1 \in w THEN nx[i - 1] ELSE i - 1
    BY <2>1 DEF Source
  <2>3. nx[i - 1] = parent(i - 1)
    BY <2>1 DEF UpNext
  <2>4. h[i] = At(h, i - 1)
    BY <2>1 DEF At
  <2>5. u[i] = IF i - 1 = z THEN At(h, idx) ELSE IF i - 1 \in w THEN At(h, parent(i - 1)) ELSE h[i]
    BY <1>1, <1>4
  <2> QED
    BY <2>2, <2>3, <2>4, <2>5
<1>6. u = [i \in 1..(idx + 1) |-> At(h, s[i - 1])]
  <2>1. u = [i \in 1..(idx + 1) |-> u[i]]
    BY <1>1, <1>4
  <2> HIDE DEF u, s
  <2> QED
    BY <1>5, <2>1
<1>7. Distinct(h) /\ Range(h) = {At(h, x) : x \in D}
  BY <1>3, DistinctIs
<1> HIDE DEF D, s, u
<1>8. Arranged(T, h, idx + 1, D, u)
  <2>1. D \in SUBSET (0..(Len(h) - 1)) /\ Permutes(s, 0..((idx + 1) - 1), D)
    BY <1>2, <1>3
  <2> QED
    BY <1>3, <1>6, <2>1, Rearranged
<1>9. \A x, y \in D : At(h, x) = At(h, y) => x = y
  BY <1>3, <1>7 DEF Distinct
<1> QED
  BY <1>7, <1>8, <1>9 DEF u, Arranged

(* IsHeap as an order of times.                                             *)
LEMMA HeapIs ==
    ASSUME NEW T, NEW h \in Seq(T), NEW e \in [T -> Nat]
    PROVE  /\ \A i \in 0..(Len(h) - 1) : At(h, i) \in T /\ e[At(h, i)] \in Nat
           /\ IsHeap(h, e) <=> \A i \in 1..(Len(h) - 1) : e[At(h, parent(i))] <= e[At(h, i)]
<1>1. Len(h) \in Nat /\ \A i \in 1..Len(h) : h[i] \in T
  BY ElementOfSeq, LenProperties
<1>2. ASSUME NEW i \in 0..(Len(h) - 1) PROVE At(h, i) \in T /\ e[At(h, i)] \in Nat
  <2>1. i + 1 \in 1..Len(h)
    BY <1>1
  <2>2. At(h, i) \in T
    BY <1>1, <2>1 DEF At
  <2> QED
    BY <2>2
<1>3. ASSUME NEW i \in 1..(Len(h) - 1)
      PROVE  ~Before(e, At(h, i), At(h, parent(i))) <=> e[At(h, parent(i))] <= e[At(h, i)]
  <2>1. i \in 0..(Len(h) - 1) /\ parent(i) \in 0..(Len(h) - 1)
    BY <1>1, Parent
  <2>2. e[At(h, i)] \in Nat /\ e[At(h, parent(i))] \in Nat
    BY <1>2, <2>1
  <2> QED
    BY <2>2 DEF Before
<1> QED
  BY <1>2, <1>3 DEF IsHeap

(* up makes a heap if only the last timer is out of place (timer_heap.cpp,  *)
(* up).                                                                     *)
LEMMA UpOrders ==
    ASSUME NEW T, NEW h \in Seq(T), NEW idx \in Nat, Len(h) = idx + 1, NEW e \in [T -> Nat],
           IsInjective(h),
           \A i \in 1..(idx - 1) : e[At(h, parent(i))] <= e[At(h, i)]
    PROVE  IsHeap(up(h, idx, e), e)
<1> DEFINE u == up(h, idx, e)
           E(i) == e[At(h, i)]
           F(i) == e[At(u, i)]
<1>0. PICK z, w : UpTo(h, idx, e, z, w)
  BY UpIs
<1>1. w \subseteq 0..idx /\ z \in w /\ idx \in w
  BY <1>0 DEF UpTo, Way
<1>2. \A i \in 0..idx : E(i) \in Nat
  BY HeapIs
<1>3. \A i \in 0..idx : F(i) = IF i = z THEN E(idx) ELSE IF i \in w THEN E(parent(i)) ELSE E(i)
  <2> SUFFICES ASSUME NEW i \in 0..idx
               PROVE  At(u, i) = IF i = z THEN At(h, idx)
                                 ELSE IF i \in w THEN At(h, parent(i)) ELSE At(h, i)
    BY Zenon
  <2>1. i + 1 \in DOMAIN h /\ (i + 1) - 1 = i
    BY LenProperties
  <2>2. u[i + 1] = IF (i + 1) - 1 = z THEN At(h, idx)
                   ELSE IF (i + 1) - 1 \in w THEN At(h, parent((i + 1) - 1)) ELSE h[i + 1]
    BY <1>0, <2>1 DEF UpTo
  <2> QED
    BY <2>1, <2>2 DEF At
<1>4. \A j \in w : z <= j /\ j <= idx
  BY <1>0, <1>1 DEF UpTo, Way, UpMeasure
<1>5. \A j \in w : j # z => j > 0 /\ parent(j) \in w /\ E(idx) < E(parent(j))
  <2>1. \A j \in w : j # z => j \in UpGo(h, idx, e) /\ UpNext(idx)[j] \in w
    BY <1>0 DEF UpTo, Way
  <2>2. \A j \in w : UpNext(idx)[j] = parent(j)
    BY <1>1 DEF UpNext
  <2>3. \A j \in UpGo(h, idx, e) : j > 0 /\ E(idx) < E(parent(j))
    BY DEF UpGo, Before
  <2> QED
    BY <2>1, <2>2, <2>3
<1>6. z > 0 => E(parent(z)) <= E(idx)
  <2>1. z \notin UpGo(h, idx, e)
    BY <1>0 DEF UpTo, Way
  <2>2. z > 0 => ~(E(idx) < E(parent(z)))
    BY <1>1, <2>1 DEF UpGo, Before
  <2>3. z > 0 => parent(z) \in 0..idx
    BY <1>1, Parent
  <2> HIDE DEF E
  <2> QED
    BY <1>2, <2>2, <2>3
<1>7. z # idx => \E c \in w : c # z /\ parent(c) = z
  <2>1. z # idx => \E c \in w : c # z /\ UpNext(idx)[c] = z
    BY <1>0, <1>1 DEF UpTo, Way
  <2>2. \A j \in w : UpNext(idx)[j] = parent(j)
    BY <1>1 DEF UpNext
  <2> QED
    BY <2>1, <2>2
<1>8. \A i \in 1..(idx - 1) : E(parent(i)) <= E(i)
  OBVIOUS
<1> HIDE DEF u, E, F
<1>9. ASSUME NEW i \in 1..idx PROVE F(parent(i)) <= F(i)
  <2> DEFINE q == parent(i)
  <2>1. q \in 0..idx /\ q < i
    BY Parent
  <2>2. F(q) = IF q = z THEN E(idx) ELSE IF q \in w THEN E(parent(q)) ELSE E(q)
    BY <1>3, <2>1
  <2>3. F(i) = IF i = z THEN E(idx) ELSE IF i \in w THEN E(q) ELSE E(i)
    BY <1>3
  <2>4. q \in w /\ q # z => parent(q) \in 0..idx /\ E(parent(q)) <= E(q)
    <3>1. q \in w /\ q # z => q > 0
      BY <1>5
    <3>2. q > 0 => q \in 1..(idx - 1) /\ parent(q) \in 0..idx
      BY <2>1, Parent
    <3> QED
      BY <1>8, <3>1, <3>2
  <2>5. E(q) \in Nat /\ E(i) \in Nat /\ E(idx) \in Nat
    BY <1>2, <2>1
  <2> SUFFICES F(q) <= F(i)
    OBVIOUS
  <2> HIDE DEF q
  <2>6. CASE i \in w /\ i # z
    <3>1. E(idx) < E(q) /\ q \in w
      BY <1>5, <2>6 DEF q
    <3> QED
      BY <2>2, <2>3, <2>4, <2>5, <2>6, <3>1
  <2>7. CASE i = z
    <3>1. q \notin w
      BY <1>1, <1>4, <2>1, <2>7
    <3>2. E(q) <= E(idx)
      BY <1>6, <2>7 DEF q
    <3> QED
      BY <1>1, <2>2, <2>3, <2>7, <3>1, <3>2
  <2>8. CASE i \notin w
    <3>1. i # z /\ i \in 1..(idx - 1)
      BY <1>1, <2>8
    <3>2. E(q) <= E(i)
      BY <1>8, <3>1 DEF q
    <3>3. CASE q = z
      <4>1. z # idx
        BY <1>1, <2>1, <3>1, <3>3
      <4>2. E(idx) < E(q)
        BY <1>5, <1>7, <3>3, <4>1
      <4> QED
        BY <2>2, <2>3, <2>5, <2>8, <3>1, <3>2, <3>3, <4>2
    <3>4. CASE q # z
      <4>1. q \in w => E(parent(q)) \in Nat
        BY <1>2, <2>4, <3>4
      <4> QED
        BY <2>2, <2>3, <2>4, <2>5, <2>8, <3>1, <3>2, <3>4, <4>1
    <3> QED
      BY <3>3, <3>4
  <2> QED
    BY <2>6, <2>7, <2>8
<1> QED
  <2>1. u \in Seq(T) /\ Len(u) = idx + 1
    BY UpKeeps DEF u
  <2>2. \A i \in 1..(Len(u) - 1) : e[At(u, parent(i))] <= e[At(u, i)]
    BY <1>9, <2>1 DEF F
  <2>3. IsHeap(u, e)
    BY <2>1, <2>2, HeapIs
  <2> QED
    BY <2>3 DEF u

(* What addTimer promises: one more timer, and a heap again.                *)
Added(T, h, t, e, u) ==
    /\ u \in Seq(T) /\ Len(u) = Len(h) + 1
    /\ Range(u) = Range(h) \cup {t} /\ IsInjective(u) /\ IsHeap(u, e)

(* addTimer keeps its promise for a heap of any size (timer_heap.cpp:8).    *)
LEMMA Adds ==
    ASSUME NEW T, NEW h \in Seq(T), NEW t \in T, t \notin Range(h), NEW e \in [T -> Nat],
           IsInjective(h), IsHeap(h, e)
    PROVE  Added(T, h, t, e, addTimer(h, t, e))
<1> DEFINE a == Append(h, t)
           n == Len(h)
<1>1. a \in Seq(T) /\ n \in Nat /\ Len(a) = n + 1 /\ (\A i \in 1..n : a[i] = h[i]) /\ a[n + 1] = t
  BY AppendProperties, LenProperties
<1>2. /\ DOMAIN h = 1..n /\ DOMAIN a = 1..(n + 1) /\ n + 1 \in 1..(n + 1)
      /\ 1..(n + 1) = 1..n \cup {n + 1}
  BY <1>1, LenProperties
<1> HIDE DEF a, n
<1>3. Range(a) = Range(h) \cup {t}
  <2>1. Range(a) = {a[i] : i \in 1..(n + 1)} /\ Range(h) = {h[i] : i \in 1..n}
    BY <1>2 DEF Range
  <2> QED
    BY <1>1, <1>2, <2>1
<1>4. IsInjective(a)
  <2>1. \A i \in 1..n : h[i] # t
    BY <1>2 DEF Range
  <2>2. \A i, j \in 1..n : h[i] = h[j] => i = j
    BY <1>2 DEF IsInjective
  <2> QED
    BY <1>1, <1>2, <2>1, <2>2 DEF IsInjective
<1>5. \A i \in 1..(n - 1) : e[At(a, parent(i))] <= e[At(a, i)]
  <2> SUFFICES ASSUME NEW i \in 1..(n - 1) PROVE e[At(a, parent(i))] <= e[At(a, i)]
    OBVIOUS
  <2>1. i + 1 \in 1..n /\ parent(i) + 1 \in 1..n
    <3>1. i \in Nat /\ i > 0 /\ i < n
      BY <1>1
    <3>2. parent(i) \in Nat /\ parent(i) < i
      BY <3>1, Parent
    <3> QED
      BY <1>1, <3>1, <3>2
  <2>2. At(a, i) = At(h, i) /\ At(a, parent(i)) = At(h, parent(i))
    BY <1>1, <2>1 DEF At
  <2> QED
    BY <2>2, HeapIs DEF n
<1>6. IsHeap(up(a, n, e), e)
  BY <1>1, <1>4, <1>5, UpOrders
<1>7. /\ up(a, n, e) \in Seq(T) /\ Len(up(a, n, e)) = Len(a)
      /\ Range(up(a, n, e)) = Range(a) /\ IsInjective(up(a, n, e))
  BY <1>1, <1>4, UpKeeps
<1> QED
  BY <1>1, <1>3, <1>6, <1>7 DEF addTimer, a, n, Added

------------------------------------------------------------------------------
(* popTimer                                                                 *)

(* The child that down compares with is not after the other.                *)
LEMMA MinChildLeast ==
    ASSUME NEW T, NEW h \in Seq(T), NEW e \in [T -> Nat], NEW i \in 1..(Len(h) - 1)
    PROVE  /\ 2 * parent(i) + 1 < Len(h)
           /\ e[At(h, minChild(h, parent(i), e))] <= e[At(h, i)]
<1> DEFINE q == parent(i)
           c == 2 * q + 1
<1>1. Len(h) \in Nat /\ q \in Nat /\ (i = c \/ i = c + 1) /\ c < Len(h)
  <2>1. Len(h) \in Nat /\ i \in Nat /\ i > 0 /\ i < Len(h)
    BY LenProperties
  <2>2. q \in Nat /\ q < i /\ (i = 2 * q + 1 \/ i = 2 * q + 2)
    BY <2>1, Parent
  <2> HIDE DEF q
  <2> QED
    BY <2>1, <2>2
<1> HIDE DEF q
<1>2. e[At(h, c)] \in Nat /\ (c + 1 < Len(h) => e[At(h, c + 1)] \in Nat)
  <2>1. c \in 0..(Len(h) - 1) /\ (c + 1 < Len(h) => c + 1 \in 0..(Len(h) - 1))
    BY <1>1
  <2> QED
    BY <2>1, HeapIs
<1>3. minChild(h, q, e) = IF c + 1 = Len(h) \/ Before(e, At(h, c), At(h, c + 1)) THEN c ELSE c + 1
  BY DEF minChild
<1> HIDE DEF c
<1>4. e[At(h, minChild(h, q, e))] <= e[At(h, i)]
  <2>1. CASE i = c
    BY <1>1, <1>2, <1>3, <2>1 DEF Before, c
  <2>2. CASE i = c + 1
    BY <1>1, <1>2, <1>3, <2>2 DEF Before, c
  <2> QED
    BY <1>1, <2>1, <2>2
<1> QED
  BY <1>1, <1>4 DEF q, c

(* down makes a heap if only the top timer is out of place (timer_heap.cpp, *)
(* down).                                                                   *)
LEMMA DownOrders ==
    ASSUME NEW T, NEW h \in Seq(T), Len(h) > 0, NEW e \in [T -> Nat],
           \A i \in 1..(Len(h) - 1) : parent(i) # 0 => e[At(h, parent(i))] <= e[At(h, i)]
    PROVE  \A i \in 1..(Len(h) - 1) :
              e[At(down(h, 0, e), parent(i))] <= e[At(down(h, 0, e), i)]
<1> DEFINE u == down(h, 0, e)
           n == Len(h) - 1
           D == 0..n
           C(k) == minChild(h, k, e)
           E(i) == e[At(h, i)]
           F(i) == e[At(u, i)]
           Go == DownGo(h, 0, e)
           nx == DownNext(h, e)
           m == DownMeasure(h)
<1>a. Len(h) \in Nat /\ n \in Nat /\ 0 \in D
  BY LenProperties
<1>0. PICK z, w : DownTo(h, 0, e, z, w)
  BY <1>a, DownIs
<1>1. w \subseteq D /\ z \in w /\ 0 \in w /\ z \in D
  BY <1>0 DEF DownTo, Way
<1>2. \A i \in D : E(i) \in Nat
  BY HeapIs
<1>3. \A i \in D : F(i) = IF i = z THEN E(0) ELSE IF i \in w THEN E(C(i)) ELSE E(i)
  <2> SUFFICES ASSUME NEW i \in D
               PROVE  At(u, i) = IF i = z THEN At(h, 0)
                                 ELSE IF i \in w THEN At(h, C(i)) ELSE At(h, i)
    BY Zenon
  <2>1. i + 1 \in DOMAIN h /\ (i + 1) - 1 = i
    BY <1>a, LenProperties
  <2>2. u[i + 1] = IF (i + 1) - 1 = z THEN At(h, 0)
                   ELSE IF (i + 1) - 1 \in w THEN At(h, C((i + 1) - 1)) ELSE h[i + 1]
    BY <1>0, <2>1 DEF DownTo
  <2> QED
    BY <2>1, <2>2 DEF At
<1>4. \A j \in w : j <= z
  <2>1. \A j \in w : m[z] <= m[j]
    BY <1>0 DEF DownTo, Way
  <2>2. \A j \in D : m[j] = Len(h) - j
    BY DEF DownMeasure
  <2>3. ASSUME NEW j \in w PROVE j <= z
    <3>1. j \in D /\ z \in D /\ m[z] <= m[j] /\ m[z] = Len(h) - z /\ m[j] = Len(h) - j
      BY <1>1, <2>1, <2>2
    <3> QED
      BY <1>a, <3>1
  <2> QED
    BY <2>3
<1>n. \A j \in w : nx[j] = C(j)
  BY <1>1 DEF DownNext
<1>5. \A j \in w : j # z => 2 * j + 1 < Len(h) /\ C(j) \in w /\ E(C(j)) <= E(0)
  <2>1. \A j \in w : j # z => j \in Go /\ nx[j] \in w
    BY <1>0 DEF DownTo, Way
  <2>2. \A j \in Go : j \in D /\ 2 * j + 1 < Len(h) /\ ~(E(0) < E(C(j)))
    BY <1>a DEF DownGo, Before
  <2>3. ASSUME NEW j \in w, j # z PROVE 2 * j + 1 < Len(h) /\ C(j) \in w /\ E(C(j)) <= E(0)
    <3>1. j \in Go /\ C(j) \in w /\ 2 * j + 1 < Len(h) /\ ~(E(0) < E(C(j)))
      BY <1>n, <2>1, <2>2, <2>3
    <3>2. E(C(j)) \in Nat /\ E(0) \in Nat
      <4> HIDE DEF E, C
      <4> QED
        BY <1>a, <1>1, <1>2, <3>1
    <3> HIDE DEF E, C
    <3> QED
      BY <3>1, <3>2
  <2> QED
    BY <2>3
<1>6. 2 * z + 1 < Len(h) => E(0) < E(C(z))
  <2>1. z \notin Go
    BY <1>0 DEF DownTo, Way
  <2> QED
    BY <1>a, <1>1, <2>1 DEF DownGo, Before
<1>7. \A j \in w : j # 0 => parent(j) \in w /\ parent(j) # z /\ C(parent(j)) = j
  <2> SUFFICES ASSUME NEW j \in w, j # 0 PROVE parent(j) \in w /\ parent(j) # z /\ C(parent(j)) = j
    OBVIOUS
  <2>1. PICK c \in w : c # z /\ nx[c] = j
    BY <1>0 DEF DownTo, Way
  <2>2. C(c) = j /\ c \in D /\ 2 * c + 1 < Len(h)
    BY <1>1, <1>n, <1>5, <2>1
  <2>3. parent(C(c)) = c
    BY <1>a, <2>2, MinChildIs
  <2> QED
    BY <2>1, <2>2, <2>3
<1>8. \A i \in 1..n : parent(i) # 0 => E(parent(i)) <= E(i)
  OBVIOUS
<1>9. \A i \in 1..n : 2 * parent(i) + 1 < Len(h) /\ E(C(parent(i))) <= E(i)
  BY MinChildLeast
<1>10. \A k \in D : 2 * k + 1 < Len(h) => C(k) \in 1..n /\ parent(C(k)) = k
  <2> SUFFICES ASSUME NEW k \in D, 2 * k + 1 < Len(h) PROVE C(k) \in 1..n /\ parent(C(k)) = k
    OBVIOUS
  <2>1. C(k) \in 0..n /\ parent(C(k)) = k /\ C(k) > k
    BY <1>a, MinChildIs
  <2> HIDE DEF C
  <2> QED
    BY <1>a, <2>1
<1> HIDE DEF u, E, F, C, n, Go, nx, m
<1>11. ASSUME NEW i \in 1..n PROVE F(parent(i)) <= F(i)
  <2> DEFINE q == parent(i)
  <2>1. q \in D /\ i \in D /\ q < i
    BY <1>a, Parent
  <2>2. F(q) = IF q = z THEN E(0) ELSE IF q \in w THEN E(C(q)) ELSE E(q)
    BY <1>3, <2>1
  <2>3. F(i) = IF i = z THEN E(0) ELSE IF i \in w THEN E(C(i)) ELSE E(i)
    BY <1>3, <2>1
  <2>4. E(C(q)) <= E(i) /\ 2 * q + 1 < Len(h) /\ (q # 0 => E(q) <= E(i))
    BY <1>8, <1>9
  <2>5. i \in w => q \in w /\ q # z /\ C(q) = i
    BY <1>7, <1>a
  <2>6. E(q) \in Nat /\ E(i) \in Nat /\ E(0) \in Nat /\ E(C(q)) \in Nat
    <3>1. C(q) \in D
      BY <1>10, <2>1, <2>4, <1>a
    <3> QED
      BY <1>2, <1>a, <2>1, <3>1
  <2> SUFFICES F(q) <= F(i)
    OBVIOUS
  <2> HIDE DEF q
  <2>7. CASE q \in w /\ q # z
    <3>1. E(C(q)) <= E(0)
      BY <1>5, <2>7
    <3>2. CASE i \in w /\ i # z
      <4>1. 2 * i + 1 < Len(h) /\ C(i) \in 1..n /\ parent(C(i)) = i
        BY <1>5, <1>10, <2>1, <3>2
      <4>2. i # 0
        BY <1>a
      <4>3. E(i) <= E(C(i))
        BY <1>8, <4>1, <4>2
      <4> QED
        BY <2>2, <2>3, <2>5, <2>7, <3>2, <4>3
    <3>3. CASE i = z
      BY <2>2, <2>3, <2>7, <3>1, <3>3
    <3>4. CASE i \notin w
      BY <1>1, <2>2, <2>3, <2>4, <2>7, <3>4
    <3> QED
      BY <3>2, <3>3, <3>4
  <2>8. CASE q = z
    <3>1. i \notin w /\ i # z
      BY <2>5, <2>8, <1>1
    <3>2. E(0) < E(C(q))
      BY <1>6, <2>4, <2>8
    <3> QED
      BY <2>2, <2>3, <2>4, <2>6, <2>8, <3>1, <3>2
  <2>9. CASE q \notin w
    <3>1. i \notin w /\ i # z /\ q # 0 /\ q # z
      BY <2>5, <2>9, <1>1
    <3> QED
      BY <2>2, <2>3, <2>4, <2>9, <3>1
  <2> QED
    BY <2>7, <2>8, <2>9
<1> QED
  BY <1>11 DEF F, u, n

(* Where what popTimer leaves was before: the timer that went down was the  *)
(* last.                                                                    *)
Left(n, s) == [j \in 0..((n - 1) - 1) |-> IF s[j] = 0 THEN n - 1 ELSE s[j]]

(* Everything but the top is left, although down ran with the last timer at *)
(* both ends.                                                               *)
LEMMA LeftPermutes ==
    ASSUME NEW n \in Nat, n > 0, NEW s, Permutes(s, 0..(n - 1), 0..(n - 1)),
           s[n - 1] = 0 \/ s[n - 1] = n - 1
    PROVE  Permutes(Left(n, s), 0..((n - 1) - 1), 1..(n - 1))
<1> DEFINE D == 0..(n - 1)
           B == 0..((n - 1) - 1)
           S == 1..(n - 1)
           l == Left(n, s)
<1>1. /\ \A j \in D : s[j] \in D
      /\ \A i, j \in D : s[i] = s[j] => i = j
      /\ \A x \in D : \E j \in D : s[j] = x
  BY DEF Permutes
<1>2. n - 1 \in D /\ 0 \in D /\ B \subseteq D /\ n - 1 \notin B /\ S \subseteq D
  OBVIOUS
<1>3. \A j \in D : j # n - 1 => j \in B
  OBVIOUS
<1>4. \A j \in B : l[j] = IF s[j] = 0 THEN n - 1 ELSE s[j]
  BY DEF Left
<1>5. l = [j \in B |-> l[j]]
  BY DEF Left
<1>6. \A x \in D : x # 0 => x \in S
  OBVIOUS
<1>7. \A x \in S : x # 0
  OBVIOUS
<1>8. B # {} => n - 1 # 0
  OBVIOUS
<1> HIDE DEF B, D, S, l
<1>9. l \in [B -> S]
  <2>1. \A j \in B : l[j] \in S
    BY <1>1, <1>2, <1>4, <1>6, <1>8
  <2> QED
    BY <1>5, <2>1
<1>10. ASSUME NEW i \in B, NEW j \in B, l[i] = l[j] PROVE i = j
  <2>1. i \in D /\ j \in D /\ i # n - 1 /\ j # n - 1
    BY <1>2
  <2> QED
    BY <1>1, <1>2, <1>4, <1>10, <2>1
<1>11. ASSUME NEW x \in S PROVE \E j \in B : l[j] = x
  <2>1. CASE x # n - 1
    <3>1. PICK j \in D : s[j] = x
      BY <1>1, <1>2
    <3>2. j # n - 1 /\ x # 0
      BY <1>7, <2>1, <3>1
    <3> QED
      BY <1>3, <1>4, <3>1, <3>2
  <2>2. CASE x = n - 1
    <3>1. n - 1 # 0
      BY <1>7, <2>2
    <3>2. CASE s[n - 1] = 0
      <4>1. PICK j \in D : s[j] = n - 1
        BY <1>1, <1>2
      <4>2. j # n - 1
        BY <3>1, <3>2, <4>1
      <4> QED
        BY <1>3, <1>4, <2>2, <3>1, <4>1, <4>2
    <3>3. CASE s[n - 1] = n - 1
      <4>1. PICK j \in D : s[j] = 0
        BY <1>1, <1>2
      <4>2. j # n - 1
        BY <3>1, <3>3, <4>1
      <4> QED
        BY <1>3, <1>4, <2>2, <4>1, <4>2
    <3> QED
      BY <3>2, <3>3
  <2> QED
    BY <2>1, <2>2
<1> QED
  BY <1>9, <1>10, <1>11 DEF Permutes, B, S, l

(* What popTimer promises: the top is gone, and a heap is left.             *)
Popped(T, h, e, u) ==
    /\ u \in Seq(T) /\ Len(u) = Len(h) - 1
    /\ Range(u) = Range(h) \ {h[1]} /\ IsInjective(u) /\ IsHeap(u, e)

(* popTimer keeps its promise for a heap of any size, even if the top timer *)
(* has been restarted and is out of place already (timer_heap.cpp:13).      *)
LEMMA Pops ==
    ASSUME NEW T, NEW h \in Seq(T), h # <<>>, NEW e \in [T -> Nat], IsInjective(h),
           \A i \in 1..(Len(h) - 1) : parent(i) # 0 => e[At(h, parent(i))] <= e[At(h, i)]
    PROVE  Popped(T, h, e, popTimer(h, e))
<1> DEFINE n == Len(h)
           g == [h EXCEPT ![1] = h[n]]
           v == down(g, 0, e)
           u == SubSeq(v, 1, n - 1)
           D == 0..(n - 1)
           S == 1..(n - 1)
           Go == DownGo(g, 0, e)
           nx == DownNext(g, e)
           m == DownMeasure(g)
<1>1. n \in Nat /\ n > 0 /\ DOMAIN h = 1..n /\ 1 \in 1..n /\ n \in 1..n /\ h[n] \in T
  BY EmptySeq, LenProperties, ElementOfSeq
<1>2. /\ g \in Seq(T) /\ Len(g) = n /\ DOMAIN g = 1..n /\ g[1] = h[n]
      /\ \A i \in 1..n : i # 1 => g[i] = h[i]
  <2>1. g \in Seq(T) /\ Len(g) = n
    BY <1>1, ExceptSeq
  <2>2. DOMAIN g = 1..n /\ g[1] = h[n] /\ \A i \in 1..n : i # 1 => g[i] = h[i]
    BY <1>1
  <2> QED
    BY <2>1, <2>2
<1> HIDE DEF g, n
<1>3. At(g, 0) = At(h, n - 1) /\ \A x \in D : x # 0 => At(g, x) = At(h, x)
  <2>1. \A x \in D : x # 0 => x + 1 \in 1..n /\ x + 1 # 1
    BY <1>1
  <2>2. (n - 1) + 1 = n /\ 0 + 1 = 1
    BY <1>1
  <2> QED
    BY <1>2, <2>1, <2>2 DEF At
<1>4. PICK z, w : DownTo(g, 0, e, z, w)
  <2>1. 0 \in 0..(Len(g) - 1) /\ Len(g) \in Nat
    BY <1>1, <1>2
  <2> QED
    BY <2>1, DownIs
<1>5. /\ w \in SUBSET D /\ Way(Go, nx, m, 0, z, w)
      /\ v = [i \in 1..n |-> IF i - 1 = z THEN At(g, 0)
                             ELSE IF i - 1 \in w THEN At(g, minChild(g, i - 1, e)) ELSE g[i]]
  BY <1>2, <1>4 DEF DownTo
<1> DEFINE s == Source(D, nx, 0, z, w)
<1>6. Permutes(s, D, D)
  <2>1. Chain(D, Go, nx, m) /\ 0 \in D
    BY <1>1, <1>2, DownChain
  <2> HIDE DEF D, Go, nx, m
  <2> QED
    BY <1>5, <2>1, Sources
<1>7. \A j \in D : s[j] = IF j = z THEN 0 ELSE IF j \in w THEN nx[j] ELSE j
  BY DEF Source
<1>8. s[n - 1] = 0 \/ s[n - 1] = n - 1
  <2>1. n - 1 \in D
    BY <1>1
  <2>2. n - 1 \notin Go
    BY <1>1, <1>2 DEF DownGo
  <2>3. n - 1 \in w => n - 1 = z
    BY <1>5, <2>2 DEF Way
  <2> QED
    BY <1>7, <2>1, <2>3
<1>9. \A i \in 1..n : v[i] = At(g, s[i - 1])
  <2> SUFFICES ASSUME NEW i \in 1..n PROVE v[i] = At(g, s[i - 1])
    OBVIOUS
  <2>1. i - 1 \in D /\ (i - 1) + 1 = i
    BY <1>1
  <2>2. nx[i - 1] = minChild(g, i - 1, e)
    BY <1>2, <2>1 DEF DownNext
  <2>3. g[i] = At(g, i - 1)
    BY <2>1 DEF At
  <2>4. v[i] = IF i - 1 = z THEN At(g, 0)
               ELSE IF i - 1 \in w THEN At(g, minChild(g, i - 1, e)) ELSE g[i]
    BY <1>5
  <2> HIDE DEF v, nx, s
  <2> QED
    BY <1>7, <2>1, <2>2, <2>3, <2>4
<1> DEFINE l == Left(n, s)
<1>10. Permutes(l, 0..((n - 1) - 1), S)
  BY <1>1, <1>6, <1>8, LeftPermutes
<1>11. \A i \in 1..(n - 1) : v[i] = At(h, l[i - 1])
  <2> SUFFICES ASSUME NEW i \in 1..(n - 1) PROVE v[i] = At(h, l[i - 1])
    OBVIOUS
  <2>1. i \in 1..n /\ i - 1 \in D /\ i - 1 \in 0..((n - 1) - 1)
    BY <1>1
  <2>2. l[i - 1] = IF s[i - 1] = 0 THEN n - 1 ELSE s[i - 1]
    BY <2>1 DEF Left
  <2>3. s[i - 1] \in D
    BY <1>6, <2>1 DEF Permutes
  <2> HIDE DEF v, s, l
  <2> QED
    BY <1>3, <1>9, <2>1, <2>2, <2>3
<1> HIDE DEF s, l, v
<1>12. v \in [1..n -> T]
  <2>1. v = [i \in 1..n |-> v[i]]
    BY <1>5
  <2>2. \A x \in D : At(g, x) \in T
    <3>1. \A x \in D : x + 1 \in 1..n
      BY <1>1
    <3>2. \A i \in 1..n : g[i] \in T
      BY <1>2, ElementOfSeq
    <3> QED
      BY <3>1, <3>2 DEF At
  <2>3. \A i \in 1..n : i - 1 \in D
    BY <1>1
  <2>4. \A i \in 1..n : v[i] \in T
    <3>1. \A j \in D : s[j] \in D
      BY <1>6 DEF Permutes
    <3> HIDE DEF D
    <3> QED
      BY <1>9, <2>2, <2>3, <3>1
  <2> QED
    BY <2>1, <2>4
<1>13. v \in Seq(T) /\ Len(v) = n
  BY <1>1, <1>12, SeqDef, LenProperties
<1>14. u = [i \in 1..(n - 1) |-> v[i]]
  <2>1. /\ u \in Seq(T) /\ Len(u) = (n - 1) - 1 + 1
        /\ \A i \in 1..((n - 1) - 1 + 1) : u[i] = v[1 + i - 1]
    <3>1. 1 \in 1..(Len(v) + 1) /\ n - 1 \in (1 - 1)..Len(v)
      BY <1>1, <1>13
    <3> QED
      BY <1>13, <3>1, SubSeqProperties
  <2>2. (n - 1) - 1 + 1 = n - 1 /\ \A i \in 1..(n - 1) : 1 + i - 1 = i
    BY <1>1
  <2>3. DOMAIN u = 1..(n - 1) /\ \A i \in 1..(n - 1) : u[i] = v[i]
    BY <2>1, <2>2, LenProperties
  <2>4. u = [i \in DOMAIN u |-> u[i]]
    BY <2>1
  <2> HIDE DEF u
  <2> QED
    BY <2>3, <2>4
<1> HIDE DEF u
<1>15. Arranged(T, h, n - 1, S, u)
  <2>1. u = [i \in 1..(n - 1) |-> At(h, l[i - 1])]
    BY <1>11, <1>14
  <2>2. n - 1 \in Nat /\ S \in SUBSET (0..(Len(h) - 1))
    BY <1>1 DEF n
  <2> QED
    BY <1>10, <2>1, <2>2, Rearranged
<1>16. Distinct(h) /\ Range(h) = {At(h, x) : x \in D}
  BY DistinctIs DEF n
<1>17. \A x, y \in D : At(h, x) = At(h, y) => x = y
  BY <1>16 DEF Distinct, n
<1>18. S \subseteq D /\ 0 \in D /\ (\A x \in D : x # 0 <=> x \in S) /\ h[1] = At(h, 0)
  <2>1. 0 + 1 = 1
    OBVIOUS
  <2> QED
    BY <1>1, <2>1 DEF At
<1>19. u \in Seq(T) /\ Len(u) = n - 1 /\ IsInjective(u) /\ Range(u) = Range(h) \ {h[1]}
  <2> HIDE DEF S, D
  <2>1. u \in Seq(T) /\ Len(u) = n - 1 /\ IsInjective(u) /\ Range(u) = {At(h, x) : x \in S}
    BY <1>15, <1>17, <1>18 DEF Arranged
  <2>2. {At(h, x) : x \in S} = {At(h, x) : x \in D} \ {At(h, 0)}
    BY <1>17, <1>18
  <2> QED
    BY <1>16, <1>18, <2>1, <2>2
<1>20. \A i \in 1..(n - 1) : e[At(v, parent(i))] <= e[At(v, i)]
  <2>1. ASSUME NEW i \in 1..(Len(g) - 1), parent(i) # 0 PROVE e[At(g, parent(i))] <= e[At(g, i)]
    <3>1. i \in 1..(n - 1) /\ i \in D /\ i # 0 /\ parent(i) \in D
      BY <1>1, <1>2, Parent
    <3>2. e[At(h, parent(i))] <= e[At(h, i)]
      BY <2>1, <3>1 DEF n
    <3> QED
      BY <1>3, <2>1, <3>1, <3>2
  <2> QED
    BY <1>1, <1>2, <2>1, DownOrders DEF v
<1>21. IsHeap(u, e)
  <2>1. ASSUME NEW i \in 1..(Len(u) - 1) PROVE e[At(u, parent(i))] <= e[At(u, i)]
    <3>1. i \in 1..(n - 1) /\ i + 1 \in 1..(n - 1) /\ parent(i) + 1 \in 1..(n - 1)
      <4>1. i \in Nat /\ i > 0 /\ i < n - 1
        BY <1>1, <1>19
      <4>2. parent(i) \in Nat /\ parent(i) < i
        BY <4>1, Parent
      <4> QED
        BY <1>1, <4>1, <4>2
    <3>2. At(u, i) = At(v, i) /\ At(u, parent(i)) = At(v, parent(i))
      BY <1>14, <3>1 DEF At
    <3> QED
      BY <1>20, <3>1, <3>2
  <2> QED
    BY <1>19, <2>1, HeapIs
<1> QED
  <2>1. popTimer(h, e) = u
    BY DEF popTimer, u, v, g, n
  <2> QED
    BY <1>19, <1>21, <2>1 DEF Popped, n

------------------------------------------------------------------------------
(* The top, and numbers                                                     *)

(* The top timer of a heap is not after any other.                          *)
LEMMA TopLeast ==
    ASSUME NEW T, NEW h \in Seq(T), NEW e \in [T -> Nat], IsHeap(h, e), h # <<>>
    PROVE  /\ h[1] \in Range(h) /\ h[1] \in T
           /\ \A t \in Range(h) : t \in T /\ e[h[1]] <= e[t]
<1> DEFINE D == 0..(Len(h) - 1)
           E(i) == e[At(h, i)]
           P == {k \in Nat : k \in D => E(0) <= E(k)}
           Q == {k \in Nat : \A j \in 0..k : j \in P}
<1>1. Len(h) \in Nat /\ Len(h) > 0 /\ 0 \in D /\ DOMAIN h = 1..Len(h)
  BY EmptySeq, LenProperties
<1>2. \A i \in D : At(h, i) \in T /\ E(i) \in Nat
  BY HeapIs
<1>3. \A i \in 1..(Len(h) - 1) : E(parent(i)) <= E(i)
  BY HeapIs
<1> HIDE DEF E
<1>4. 0 \in P
  BY <1>1, <1>2
<1>5. 0 \in Q
  BY <1>4
<1>6. ASSUME NEW k \in Q PROVE k + 1 \in Q
  <2>1. k + 1 \in P
    <3> SUFFICES ASSUME k + 1 \in D PROVE E(0) <= E(k + 1)
      OBVIOUS
    <3>1. k + 1 \in Nat /\ k + 1 > 0 /\ k + 1 \in 1..(Len(h) - 1)
      BY <1>1
    <3>2. parent(k + 1) \in Nat /\ parent(k + 1) < k + 1
      BY <3>1, Parent
    <3>3. parent(k + 1) \in 0..k /\ parent(k + 1) \in D
      BY <1>1, <3>1, <3>2
    <3>4. E(0) <= E(parent(k + 1)) /\ E(parent(k + 1)) <= E(k + 1)
      BY <1>3, <3>1, <3>3
    <3>5. E(0) \in Nat /\ E(parent(k + 1)) \in Nat /\ E(k + 1) \in Nat
      BY <1>1, <1>2, <3>3
    <3> QED
      BY <3>4, <3>5
  <2>2. \A j \in 0..(k + 1) : j \in 0..k \/ j = k + 1
    OBVIOUS
  <2>3. k + 1 \in Nat /\ \A j \in 0..k : j \in P
    OBVIOUS
  <2> QED
    <3> HIDE DEF P
    <3> QED
      BY <2>1, <2>2, <2>3
<1>7. \A k \in Nat : k \in Q
  <2>1. Q \in SUBSET Nat
    OBVIOUS
  <2> HIDE DEF Q
  <2> QED
    BY <1>5, <1>6, <2>1, SetInduction
<1>8. \A k \in D : E(0) <= E(k)
  <2> SUFFICES ASSUME NEW k \in D PROVE E(0) <= E(k)
    OBVIOUS
  <2>1. k \in Nat /\ k \in 0..k
    BY <1>1
  <2>2. k \in P
    BY <1>7, <2>1
  <2> QED
    BY <2>2
<1>9. Range(h) = {At(h, x) : x \in D}
  BY DistinctIs
<1>10. h[1] = At(h, 0)
  BY DEF At
<1> QED
  <2> HIDE DEF D
  <2> QED
    BY <1>1, <1>2, <1>8, <1>9, <1>10 DEF E

(* Division cuts off less than the divisor,                                 *)
LEMMA Divides ==
    ASSUME NEW a \in Nat, NEW b \in Nat \ {0}
    PROVE  /\ a \div b \in Nat /\ (a \div b) * b \in Nat
           /\ (a \div b) * b <= a /\ a < (a \div b) * b + b
  OBVIOUS

(* and is monotone.                                                         *)
LEMMA DivMonotone ==
    ASSUME NEW a \in Nat, NEW b \in Nat, a <= b, NEW d \in Nat \ {0}
    PROVE  a \div d <= b \div d
<1>1. a \div d \in Nat /\ b \div d \in Nat /\ (a \div d) * d <= a /\ b < (b \div d) * d + d
  BY Divides
<1> DEFINE x == a \div d
           y == b \div d
<1> HIDE DEF x, y
<1> SUFFICES ASSUME y + 1 <= x PROVE FALSE
  BY <1>1 DEF x, y
<1>2. (y + 1) * d <= x * d
  BY <1>1 DEF x, y
<1>3. (y + 1) * d = y * d + d
  BY <1>1 DEF y
<1> QED
  BY <1>1, <1>2, <1>3 DEF x, y

(* The value of an int, and that an int keeps what it can hold.             *)
LEMMA ToIntIs ==
    ASSUME NEW n \in Int, TimerAssumption
    PROVE  /\ ToInt(n) \in (-(IntMax + 1))..IntMax
           /\ (n >= 0 /\ n <= IntMax) => ToInt(n) = n
<1> DEFINE M == 2 * (IntMax + 1)
           x == n + IntMax + 1
<1>1. IntMax \in Nat /\ M \in Nat \ {0} /\ x \in Int
  BY DEF TimerAssumption
<1>2. x % M \in 0..(M - 1)
  <2> HIDE DEF M, x
  <2> QED
    BY <1>1
<1>3. (n >= 0 /\ n <= IntMax) => x % M = x
  <2>1. (n >= 0 /\ n <= IntMax) => x >= 0 /\ x < M
    BY <1>1
  <2> HIDE DEF M, x
  <2> QED
    BY <1>1, <2>1
<1> QED
  <2>1. ToInt(n) = (x % M) - (IntMax + 1)
    BY DEF ToInt
  <2>2. M = 2 * (IntMax + 1) /\ x = n + IntMax + 1
    OBVIOUS
  <2> HIDE DEF M, x
  <2> QED
    BY <1>1, <1>2, <1>3, <2>1, <2>2

------------------------------------------------------------------------------
(* The inductive invariant                                                  *)

USE TimerAssumption

(* The heap is one, and no timer is in it twice.                            *)
HeapInv == IsHeap(heap_, expire) /\ IsInjective(heap_)

(* Only timers that have been added are in the heap or run.                 *)
BornInv == Range(heap_) \cup running \subseteq 1..added

(* A timer that does not repeat is out of the heap while its callback runs. *)
RunInv == \A t \in running : every[t] = 0 => t \notin Range(heap_)

(* next_time_ is never after a timer of the heap, and is the time of the    *)
(* first when the loop reads it.                                            *)
NextInv ==
    /\ next_time_ # 0 => \A t \in Range(heap_) : next_time_ <= expire[t]
    /\ at \in {"next", "wait"} =>
         IF heap_ = <<>> THEN next_time_ = 0
         ELSE next_time_ # 0 /\ next_time_ = expire[Top(heap_)]

(* What a poll was begun with.                                              *)
WaitInv ==
    at = "wait" =>
      LET now == (since \div PerSecond) * PerSecond IN
        /\ since \in Nat
        /\ (late <=> next_time_ # 0 /\ now >= next_time_)
        /\ (next_time_ # 0 /\ now < next_time_) =>
             wait_time = ToInt(toMilliseconds(next_time_ - now))

(* The inductive invariant.                                                 *)
Inv == TypeOK /\ HeapInv /\ BornInv /\ RunInv /\ NextInv /\ WaitInv

(* The timers of a sequence.                                                *)
LEMMA RangeIn ==
    ASSUME NEW T, NEW h \in Seq(T)
    PROVE  /\ Range(h) \subseteq T /\ (h # <<>> => h[1] \in Range(h))
           /\ Range(<<>>) = {} /\ IsInjective(<<>>)
<1>1. DOMAIN h = 1..Len(h) /\ (\A i \in 1..Len(h) : h[i] \in T) /\ Len(h) \in Nat
  BY LenProperties, ElementOfSeq
<1>2. h # <<>> => 1 \in 1..Len(h)
  BY <1>1, EmptySeq
<1> QED
  BY <1>1, <1>2 DEF Range, IsInjective

(* Now is less than a second behind the clock.                              *)
LEMMA NowIs ==
    ASSUME TypeOK
    PROVE  clock \in Nat /\ Now \in Nat /\ Now <= clock /\ clock < Now + PerSecond
<1>1. clock \in Nat /\ PerSecond \in Nat \ {0}
  BY DEF TypeOK, TimerAssumption
<1>2. Now \in Nat /\ Now <= clock /\ clock < Now + PerSecond
  BY <1>1, Divides DEF Now
<1> QED
  BY <1>1, <1>2

(* The invariant holds initially.                                           *)
LEMMA InvInit == Init => Inv
<1> SUFFICES ASSUME Init PROVE Inv
  OBVIOUS
<1> USE DEF Init
<1>1. <<>> \in Seq(Timers)
  OBVIOUS
<1>2. Range(heap_) = {} /\ IsInjective(heap_)
  BY <1>1, RangeIn
<1>3. TypeOK
  BY <1>1 DEF TypeOK, TimerAssumption
<1>4. HeapInv
  BY <1>2 DEF HeapInv, IsHeap
<1>5. BornInv /\ RunInv /\ NextInv /\ WaitInv
  BY <1>2 DEF BornInv, RunInv, NextInv, WaitInv
<1> QED
  BY <1>3, <1>4, <1>5 DEF Inv

(* The order of a heap does not depend on the times of other timers.        *)
LEMMA SameOrder ==
    ASSUME NEW T, NEW h \in Seq(T), NEW e, NEW f, IsHeap(h, e),
           \A t \in Range(h) : f[t] = e[t]
    PROVE  IsHeap(h, f)
<1>1. \A i \in 0..(Len(h) - 1) : At(h, i) \in Range(h)
  BY DistinctIs
<1>2. Len(h) \in Nat
  BY LenProperties
<1>3. ASSUME NEW i \in 1..(Len(h) - 1) PROVE ~Before(f, At(h, i), At(h, parent(i)))
  <2>1. i \in 0..(Len(h) - 1) /\ parent(i) \in 0..(Len(h) - 1)
    BY <1>2, Parent
  <2>2. ~Before(e, At(h, i), At(h, parent(i)))
    BY DEF IsHeap
  <2> QED
    BY <1>1, <2>1, <2>2 DEF Before
<1> QED
  BY <1>3 DEF IsHeap

(* A timer is added: it is new to the heap, and next_time_ stays before     *)
(* every timer although it is moved for a first timer only.                 *)
LEMMA AddKeeps ==
    ASSUME Inv, NEW when \in Nat, NEW interval \in Intervals \cup {0}, AddTimer(when, interval)
    PROVE  Inv' /\ Range(heap_') = Range(heap_) \cup {added + 1}
<1> DEFINE t == added + 1
           e == [expire EXCEPT ![t] = when]
           first == heap_ = <<>> \/ Before(e, t, Top(heap_))
<1>0. TypeOK /\ HeapInv /\ BornInv /\ RunInv /\ NextInv /\ WaitInv
  BY DEF Inv
<1>1. /\ at \in {"callback", "events"} /\ added < MaxTimers /\ added' = t /\ expire' = e
      /\ every' = [every EXCEPT ![t] = interval] /\ heap_' = addTimer(heap_, t, e)
      /\ next_time_' = NextTimeAfterAdd(first, when)
      /\ UNCHANGED <<clock, at, running, waitVars>>
  BY DEF AddTimer
<1>2. /\ t \in Timers /\ 1..added \subseteq 1..t /\ t \notin 1..added /\ t \in 1..t
      /\ added \in Nat /\ heap_ \in Seq(Timers) /\ MaxTimers \in Nat /\ t \in 0..MaxTimers
  BY <1>0, <1>1 DEF TypeOK, Timers, TimerAssumption
<1>3. /\ expire \in [Timers -> Nat] /\ e \in [Timers -> Nat] /\ e[t] = when
      /\ \A u \in Timers : u # t => e[u] = expire[u]
  BY <1>0, <1>2 DEF TypeOK
<1>4. /\ t \notin Range(heap_) /\ t \notin running
      /\ Range(heap_) \subseteq 1..added /\ Range(heap_) \subseteq Timers
  BY <1>0, <1>2, RangeIn DEF BornInv
<1>5. Added(Timers, heap_, t, e, heap_')
  <2>1. IsHeap(heap_, e)
    <3>1. \A u \in Range(heap_) : e[u] = expire[u]
      BY <1>3, <1>4
    <3> HIDE DEF e
    <3> QED
      BY <1>0, <1>2, <3>1, SameOrder DEF HeapInv
  <2> HIDE DEF e, t
  <2> QED
    BY <1>0, <1>1, <1>2, <1>3, <1>4, <2>1, Adds DEF HeapInv
<1>6. /\ heap_' \in Seq(Timers) /\ Range(heap_') = Range(heap_) \cup {t}
      /\ IsInjective(heap_') /\ IsHeap(heap_', expire')
  BY <1>1, <1>5 DEF Added
<1>7. TypeOK'
  <2>1. next_time_' \in Nat
    BY <1>0, <1>1 DEF NextTimeAfterAdd, TypeOK
  <2>2. every' \in [Timers -> Intervals \cup {0}]
    BY <1>0, <1>1 DEF TypeOK
  <2> HIDE DEF e
  <2>3. (clock \in Start..End)' /\ (added \in 0..MaxTimers)' /\ (expire \in [Timers -> Nat])'
    BY <1>0, <1>1, <1>2, <1>3 DEF TypeOK
  <2>4. /\ (at \in {"timers", "callback", "next", "wait", "events"})'
        /\ (running # {} <=> at = "callback")'
        /\ (wait_time \in -(IntMax + 1)..IntMax)'
    BY <1>0, <1>1 DEF TypeOK, waitVars
  <2> QED
    BY <1>6, <2>1, <2>2, <2>3, <2>4 DEF TypeOK
<1>8. HeapInv'
  BY <1>6 DEF HeapInv
<1>9. BornInv'
  BY <1>0, <1>1, <1>2, <1>6 DEF BornInv
<1>10. RunInv'
  <2>1. \A u \in running : u # t /\ u \in Timers
    BY <1>0, <1>2 DEF BornInv, Timers, TypeOK
  <2>2. \A u \in Timers : u # t => every'[u] = every[u]
    BY <1>0, <1>1 DEF TypeOK
  <2> HIDE DEF t
  <2> QED
    BY <1>0, <1>1, <1>6, <2>1, <2>2 DEF RunInv
<1>11. NextInv'
  <2>0. next_time_ \in Nat
    BY <1>0 DEF TypeOK
  <2>1. heap_ # <<>> =>
          /\ Top(heap_) \in Range(heap_)
          /\ \A u \in Range(heap_) : expire[Top(heap_)] <= expire[u]
    BY <1>0, <1>2, <1>3, TopLeast DEF HeapInv, Top
  <2>2. first <=> heap_ = <<>> \/ when < expire[Top(heap_)]
    BY <1>3, <1>4, <2>1 DEF Before
  <2>3. next_time_' = IF first /\ (next_time_ = 0 \/ when < next_time_) THEN when ELSE next_time_
    BY <1>1 DEF NextTimeAfterAdd
  <2>4. next_time_ # 0 => \A u \in Range(heap_) : next_time_ <= expire[u]
    BY <1>0 DEF NextInv
  <2>5. heap_ = <<>> => Range(heap_) = {}
    BY <1>2, RangeIn
  <2>6. \A u \in Range(heap_) : expire'[u] = expire[u] /\ expire[u] \in Nat
    BY <1>1, <1>3, <1>4
  <2>7. expire'[t] = when
    BY <1>1, <1>3
  <2> HIDE DEF first, e, t
  <2>8. ASSUME next_time_' # 0 PROVE next_time_' <= when
    <3>1. CASE heap_ = <<>>
      BY <2>0, <2>2, <2>3, <2>8, <3>1
    <3>2. CASE heap_ # <<>>
      <4>1. expire[Top(heap_)] \in Nat /\ (next_time_ # 0 => next_time_ <= expire[Top(heap_)])
        BY <2>1, <2>4, <2>6, <3>2
      <4> QED
        BY <2>0, <2>2, <2>3, <2>8, <3>2, <4>1
    <3> QED
      BY <3>1, <3>2
  <2>9. ASSUME next_time_' # 0, NEW u \in Range(heap_) PROVE next_time_' <= expire[u]
    <3>1. heap_ # <<>> /\ expire[u] \in Nat /\ (next_time_ # 0 => next_time_ <= expire[u])
      BY <2>4, <2>5, <2>6
    <3>2. expire[Top(heap_)] \in Nat /\ expire[Top(heap_)] <= expire[u]
      BY <2>1, <2>6, <3>1
    <3> QED
      BY <2>0, <2>2, <2>3, <2>9, <3>1, <3>2
  <2>10. next_time_' # 0 => \A u \in Range(heap_') : next_time_' <= expire'[u]
    BY <1>6, <2>6, <2>7, <2>8, <2>9
  <2>11. at' \notin {"next", "wait"}
    BY <1>1
  <2> QED
    BY <2>10, <2>11 DEF NextInv
<1>12. WaitInv'
  BY <1>1 DEF WaitInv
<1> QED
  BY <1>6, <1>7, <1>8, <1>9, <1>10, <1>11, <1>12 DEF Inv

(* The top timer is taken off and, if it repeats, restarted before it is    *)
(* put back.                                                                *)
LEMMA RunKeeps ==
    ASSUME Inv, RunTop
    PROVE  /\ Inv'
           /\ Range(heap_') = IF every[Top(heap_)] = 0 THEN Range(heap_) \ {Top(heap_)}
                             ELSE Range(heap_)
<1> DEFINE t == Top(heap_)
           e == [expire EXCEPT ![t] = addTime(@, every[t])]
           p == popTimer(heap_, e)
<1>0. TypeOK /\ HeapInv /\ BornInv /\ RunInv /\ NextInv /\ WaitInv
  BY DEF Inv
<1>1. /\ at = "timers" /\ heap_ # <<>> /\ expire' = e
      /\ heap_' = IF every[t] # 0 THEN addTimer(p, t, e) ELSE p
      /\ running' = {t} /\ at' = "callback"
      /\ UNCHANGED <<clock, every, next_time_, added, waitVars>>
  BY DEF RunTop
<1>2. /\ heap_ \in Seq(Timers) /\ Range(heap_) \subseteq Timers
      /\ t \in Range(heap_) /\ t \in Timers /\ t = heap_[1]
  BY <1>0, <1>1, RangeIn DEF TypeOK, Top
<1>3. /\ expire \in [Timers -> Nat] /\ e \in [Timers -> Nat] /\ every[t] \in Nat
      /\ e[t] = expire[t] + every[t] * PerSecond /\ expire[t] <= e[t]
      /\ \A u \in Timers : u # t => e[u] = expire[u]
  <2>1. expire \in [Timers -> Nat] /\ every[t] \in Nat /\ expire[t] \in Nat /\ PerSecond \in Nat
    <3>1. expire \in [Timers -> Nat] /\ every \in [Timers -> Intervals \cup {0}]
      BY <1>0 DEF TypeOK
    <3>2. Intervals \cup {0} \subseteq Nat /\ PerSecond \in Nat
      BY DEF TimerAssumption
    <3> HIDE DEF t
    <3> QED
      BY <1>2, <3>1, <3>2
  <2>2. addTime(expire[t], every[t]) = expire[t] + every[t] * PerSecond
    BY DEF addTime
  <2>3. every[t] * PerSecond \in Nat
    BY <2>1
  <2>4. addTime(expire[t], every[t]) \in Nat /\ expire[t] <= addTime(expire[t], every[t])
    BY <2>1, <2>2, <2>3
  <2> HIDE DEF t
  <2> QED
    BY <1>2, <2>1, <2>2, <2>4
<1> HIDE DEF t, e, p
<1>4. Popped(Timers, heap_, e, p)
  <2>1. ASSUME NEW i \in 1..(Len(heap_) - 1), parent(i) # 0
        PROVE  e[At(heap_, parent(i))] <= e[At(heap_, i)]
    <3>1. Len(heap_) \in Nat
      BY <1>2, LenProperties
    <3>2. /\ i \in 0..(Len(heap_) - 1) /\ i # 0 /\ parent(i) \in 0..(Len(heap_) - 1)
          /\ 0 \in 0..(Len(heap_) - 1)
      BY <3>1, Parent
    <3>3. Distinct(heap_) /\ t = At(heap_, 0)
      BY <1>0, <1>2, DistinctIs DEF HeapInv, At
    <3>4. At(heap_, i) # t /\ At(heap_, parent(i)) # t
      BY <2>1, <3>2, <3>3 DEF Distinct
    <3>5. At(heap_, i) \in Timers /\ At(heap_, parent(i)) \in Timers
      BY <1>2, <1>3, <3>2, HeapIs
    <3>6. expire[At(heap_, parent(i))] <= expire[At(heap_, i)]
      BY <1>0, <1>2, <1>3, HeapIs DEF HeapInv
    <3> QED
      BY <1>3, <3>4, <3>5, <3>6
  <2> QED
    BY <1>0, <1>1, <1>2, <1>3, <2>1, Pops DEF HeapInv, p
<1>5. p \in Seq(Timers) /\ Range(p) = Range(heap_) \ {t} /\ IsInjective(p) /\ IsHeap(p, e)
  BY <1>2, <1>4 DEF Popped
<1>6. Added(Timers, p, t, e, addTimer(p, t, e))
  <2>1. t \notin Range(p)
    BY <1>5
  <2> QED
    BY <1>2, <1>3, <1>5, <2>1, Adds
<1>7. /\ heap_' \in Seq(Timers) /\ IsInjective(heap_') /\ IsHeap(heap_', expire')
      /\ Range(heap_') = IF every[t] = 0 THEN Range(heap_) \ {t} ELSE Range(heap_)
  <2>1. CASE every[t] = 0
    BY <1>1, <1>5, <2>1
  <2>2. CASE every[t] # 0
    <3>1. Range(heap_) = (Range(heap_) \ {t}) \cup {t}
      BY <1>2
    <3> QED
      BY <1>1, <1>5, <1>6, <2>2, <3>1 DEF Added
  <2> QED
    BY <2>1, <2>2
<1>8. TypeOK'
  <2>1. /\ (clock \in Start..End)' /\ (added \in 0..MaxTimers)' /\ (expire \in [Timers -> Nat])'
        /\ (every \in [Timers -> Intervals \cup {0}])' /\ (next_time_ \in Nat)'
        /\ (wait_time \in -(IntMax + 1)..IntMax)'
    BY <1>0, <1>1, <1>3 DEF TypeOK, waitVars
  <2> QED
    BY <1>1, <1>7, <2>1 DEF TypeOK
<1>9. HeapInv'
  BY <1>7 DEF HeapInv
<1>10. BornInv'
  BY <1>0, <1>1, <1>2, <1>7 DEF BornInv
<1>11. RunInv'
  BY <1>1, <1>7 DEF RunInv
<1>12. NextInv'
  <2>1. ASSUME next_time_ # 0, NEW u \in Range(heap_') PROVE next_time_ <= expire'[u]
    <3>1. u \in Range(heap_) /\ u \in Timers
      BY <1>2, <1>7
    <3>2. next_time_ <= expire[u] /\ next_time_ \in Nat
      BY <1>0, <2>1, <3>1 DEF NextInv, TypeOK
    <3>3. expire[u] \in Nat /\ e[u] \in Nat /\ expire[u] <= e[u]
      <4>1. CASE u = t
        BY <1>3, <3>1, <4>1
      <4>2. CASE u # t
        BY <1>3, <3>1, <4>2
      <4> QED
        BY <4>1, <4>2
    <3> QED
      BY <1>1, <3>2, <3>3
  <2> QED
    BY <1>1, <2>1 DEF NextInv
<1>13. WaitInv'
  BY <1>1 DEF WaitInv
<1> QED
  BY <1>7, <1>8, <1>9, <1>10, <1>11, <1>12, <1>13 DEF Inv, t

(* The callback returns: the timer that is destroyed is not in the heap.    *)
LEMMA CallbackKeeps ==
    ASSUME Inv, CallbackReturns
    PROVE  Inv' /\ \A t \in Range(heap_) : expire'[t] = expire[t]
<1>0. TypeOK /\ HeapInv /\ BornInv /\ RunInv /\ NextInv /\ WaitInv
  BY DEF Inv
<1>1. /\ running' = {} /\ at' = "timers"
      /\ UNCHANGED <<clock, heap_, every, next_time_, added, waitVars>>
      /\ expire' = [t \in Timers |-> IF t \in running /\ every[t] = 0 THEN 0 ELSE expire[t]]
  BY DEF CallbackReturns
<1>2. heap_ \in Seq(Timers) /\ Range(heap_) \subseteq Timers
  BY <1>0, RangeIn DEF TypeOK
<1>3. \A t \in Range(heap_) : expire'[t] = expire[t]
  BY <1>0, <1>1, <1>2 DEF RunInv
<1>4. TypeOK'
  <2>1. expire' \in [Timers -> Nat]
    BY <1>0, <1>1 DEF TypeOK
  <2> QED
    BY <1>0, <1>1, <2>1 DEF TypeOK, waitVars
<1>5. HeapInv'
  <2>1. IsHeap(heap_, expire')
    BY <1>0, <1>2, <1>3, SameOrder DEF HeapInv
  <2> QED
    BY <1>0, <1>1, <2>1 DEF HeapInv
<1>6. BornInv' /\ RunInv'
  BY <1>0, <1>1 DEF BornInv, RunInv
<1>7. NextInv'
  BY <1>0, <1>1, <1>3 DEF NextInv
<1>8. WaitInv'
  BY <1>1 DEF WaitInv
<1> QED
  BY <1>3, <1>4, <1>5, <1>6, <1>7, <1>8 DEF Inv

(* Nothing more is due: next_time_ becomes the time of the top timer, which *)
(* is not 0 as it is after Now.                                             *)
LEMMA NoneDueKeeps ==
    ASSUME Inv, NoneDue
    PROVE  Inv'
<1>0. TypeOK /\ HeapInv /\ BornInv /\ RunInv /\ NextInv /\ WaitInv
  BY DEF Inv
<1>1. /\ (heap_ # <<>> => ~Timeout(Top(heap_)))
      /\ next_time_' = IF heap_ = <<>> THEN 0
                       ELSE IF next_time_ = 0 \/ expire[Top(heap_)] > next_time_
                            THEN expire[Top(heap_)] ELSE next_time_
      /\ at = "timers" /\ at' = "next"
      /\ UNCHANGED <<clock, heap_, expire, every, added, running, waitVars>>
  BY DEF NoneDue
<1>2. /\ heap_ \in Seq(Timers) /\ Range(heap_) \subseteq Timers
      /\ expire \in [Timers -> Nat] /\ next_time_ \in Nat
  BY <1>0, RangeIn DEF TypeOK
<1>3. heap_ = <<>> => Range(heap_) = {}
  BY <1>2, RangeIn
<1>4. ASSUME heap_ # <<>>
      PROVE  /\ next_time_' # 0 /\ next_time_' = expire[Top(heap_)] /\ next_time_' \in Nat
             /\ \A u \in Range(heap_) : next_time_' <= expire[u]
  <2>1. /\ Top(heap_) \in Range(heap_) /\ Top(heap_) \in Timers
        /\ \A u \in Range(heap_) : expire[Top(heap_)] <= expire[u]
    BY <1>0, <1>2, <1>4, TopLeast DEF HeapInv, Top
  <2>2. expire[Top(heap_)] \in Nat /\ (next_time_ # 0 => next_time_ <= expire[Top(heap_)])
    BY <1>0, <1>2, <2>1 DEF NextInv
  <2>3. Now \in Nat /\ ~(Now >= expire[Top(heap_)])
    BY <1>0, <1>1, <1>4, NowIs DEF Timeout
  <2>4. next_time_' = expire[Top(heap_)] /\ next_time_' # 0
    BY <1>1, <1>2, <1>4, <2>2, <2>3
  <2> QED
    BY <2>1, <2>2, <2>4
<1>5. TypeOK'
  <2>1. next_time_' \in Nat
    BY <1>1, <1>4
  <2>2. running = {}
    BY <1>0, <1>1 DEF TypeOK
  <2> QED
    BY <1>0, <1>1, <2>1, <2>2 DEF TypeOK, waitVars
<1>6. HeapInv' /\ BornInv' /\ RunInv'
  BY <1>0, <1>1 DEF HeapInv, BornInv, RunInv
<1>7. NextInv'
  BY <1>1, <1>3, <1>4 DEF NextInv, Top
<1>8. WaitInv'
  BY <1>1 DEF WaitInv
<1> QED
  BY <1>5, <1>6, <1>7, <1>8 DEF Inv

(* A poll begins,                                                           *)
LEMMA BeginKeeps ==
    ASSUME Inv, BeginWait
    PROVE  Inv'
<1>0. TypeOK /\ HeapInv /\ BornInv /\ RunInv /\ NextInv /\ WaitInv
  BY DEF Inv
<1>1. /\ at = "next"
      /\ wait_time' = IF TimeToWait = 0 THEN -1 ELSE ToInt(toMilliseconds(TimeToWait))
      /\ since' = clock /\ late' = (next_time_ # 0 /\ Now >= next_time_)
      /\ at' = "wait" /\ UNCHANGED <<clock, timerVars, running>>
  BY DEF BeginWait
<1>2. /\ clock \in Nat /\ Now \in Nat /\ next_time_ \in Nat
      /\ PerMilli \in Nat \ {0} /\ IntMax \in Nat
  BY <1>0, NowIs DEF TypeOK, TimerAssumption
<1>3. TypeOK'
  <2>1. TimeToWait \in Nat
    BY <1>2 DEF TimeToWait
  <2>2. toMilliseconds(TimeToWait) \in Nat
    BY <1>2, <2>1, Divides DEF toMilliseconds
  <2>3. wait_time' \in -(IntMax + 1)..IntMax
    <3>1. ToInt(toMilliseconds(TimeToWait)) \in (-(IntMax + 1))..IntMax
      BY <2>2, ToIntIs
    <3>2. -1 \in (-(IntMax + 1))..IntMax
      BY <1>2
    <3> QED
      BY <1>1, <3>1, <3>2
  <2> QED
    BY <1>0, <1>1, <2>3 DEF TypeOK, timerVars
<1>4. HeapInv' /\ BornInv' /\ RunInv' /\ NextInv'
  BY <1>0, <1>1 DEF HeapInv, BornInv, RunInv, NextInv, timerVars, Top
<1>5. WaitInv'
  <2>1. Now = (since' \div PerSecond) * PerSecond
    BY <1>1 DEF Now
  <2>2. late' <=> next_time_ # 0 /\ Now >= next_time_
    BY <1>1
  <2>3. (next_time_ # 0 /\ Now < next_time_) =>
          wait_time' = ToInt(toMilliseconds(next_time_ - Now))
    <3>1. (next_time_ # 0 /\ Now < next_time_) => TimeToWait = next_time_ - Now /\ TimeToWait # 0
      BY <1>2 DEF TimeToWait
    <3> QED
      BY <1>1, <3>1
  <2>4. since' \in Nat /\ next_time_' = next_time_
    BY <1>1, <1>2 DEF timerVars
  <2> QED
    BY <2>1, <2>2, <2>3, <2>4 DEF WaitInv, ToInt, toMilliseconds
<1> QED
  BY <1>3, <1>4, <1>5 DEF Inv

(* ends,                                                                    *)
LEMMA EndKeeps ==
    ASSUME Inv, at = "wait", EndWait
    PROVE  Inv'
<1>0. TypeOK /\ HeapInv /\ BornInv /\ RunInv /\ NextInv /\ WaitInv
  BY DEF Inv
<1>1. TypeOK'
  BY <1>0 DEF TypeOK, EndWait, timerVars, TimerAssumption
<1>2. HeapInv' /\ BornInv' /\ RunInv' /\ NextInv' /\ WaitInv'
  BY <1>0 DEF HeapInv, BornInv, RunInv, NextInv, WaitInv, EndWait, timerVars
<1> QED
  BY <1>1, <1>2 DEF Inv

(* the next round begins,                                                   *)
LEMMA RoundKeeps ==
    ASSUME Inv, NextRound
    PROVE  Inv'
<1>0. TypeOK /\ HeapInv /\ BornInv /\ RunInv /\ NextInv /\ WaitInv
  BY DEF Inv
<1>1. TypeOK'
  BY <1>0 DEF TypeOK, NextRound, timerVars, waitVars
<1>2. HeapInv' /\ BornInv' /\ RunInv' /\ NextInv' /\ WaitInv'
  BY <1>0 DEF HeapInv, BornInv, RunInv, NextInv, WaitInv, NextRound, timerVars
<1> QED
  BY <1>1, <1>2 DEF Inv

(* and time goes on.                                                        *)
LEMMA TickKeeps ==
    ASSUME Inv, Tick
    PROVE  Inv'
<1>0. TypeOK /\ HeapInv /\ BornInv /\ RunInv /\ NextInv /\ WaitInv
  BY DEF Inv
<1>1. TypeOK'
  BY <1>0 DEF TypeOK, Tick, timerVars, waitVars, TimerAssumption
<1>2. HeapInv' /\ BornInv' /\ RunInv' /\ NextInv'
  BY <1>0 DEF HeapInv, BornInv, RunInv, NextInv, Tick, timerVars, Top
<1>3. WaitInv'
  BY <1>0 DEF WaitInv, Tick, timerVars, waitVars, ToInt, toMilliseconds
<1> QED
  BY <1>1, <1>2, <1>3 DEF Inv

(* Every step keeps the invariant.                                          *)
LEMMA InvStep == Inv /\ [Next]_vars => Inv'
<1> SUFFICES ASSUME Inv, [Next]_vars PROVE Inv'
  OBVIOUS
<1>0. PerSecond \in Nat /\ Delays \subseteq Nat /\ Times \subseteq Nat /\ Intervals \subseteq Nat
  BY DEF TimerAssumption
<1>n. Now \in Nat
  BY NowIs DEF Inv
<1>1. CASE Tick
  BY <1>1, TickKeeps
<1>2. CASE RunTop
  BY <1>2, RunKeeps
<1>3. CASE CallbackReturns
  BY <1>3, CallbackKeeps
<1>4. CASE NoneDue
  BY <1>4, NoneDueKeeps
<1>5. CASE BeginWait
  BY <1>5, BeginKeeps
<1>6. CASE NextRound
  BY <1>6, RoundKeeps
<1>7. CASE PollTimesOut \/ PollReports
  BY <1>7, EndKeeps DEF PollTimesOut, PollReports
<1>8. ASSUME NEW d \in Delays, runAfter(d) PROVE Inv'
  <2>1. d \in Nat /\ d * PerSecond \in Nat
    BY <1>0
  <2>2. addTime(Now, d) \in Nat /\ 0 \in Intervals \cup {0}
    BY <1>n, <2>1 DEF addTime
  <2> QED
    BY <1>8, <2>2, AddKeeps DEF runAfter
<1>9. ASSUME NEW when \in Times, runAt(when) PROVE Inv'
  BY <1>0, <1>9, AddKeeps DEF runAt
<1>10. ASSUME NEW i \in Intervals, runEvery(i) PROVE Inv'
  BY <1>n, <1>10, AddKeeps DEF runEvery
<1>11. CASE UNCHANGED vars
  <2>1. TypeOK' /\ HeapInv' /\ BornInv' /\ RunInv' /\ NextInv' /\ WaitInv'
    BY <1>11 DEF Inv, vars, TypeOK, HeapInv, BornInv, RunInv, NextInv, WaitInv, Top, ToInt,
       toMilliseconds
  <2> QED
    BY <2>1 DEF Inv
<1> QED
  BY <1>1, <1>2, <1>3, <1>4, <1>5, <1>6, <1>7, <1>8, <1>9, <1>10, <1>11 DEF Next, LoopStep

------------------------------------------------------------------------------
(* Theorems                                                                 *)

(* It holds in every reachable state, for any number of timers and any      *)
(* length of a millisecond, a second and an int.                            *)
THEOREM InvHolds == Safety => []Inv
BY InvInit, InvStep, PTL DEF Safety

(* Types, that a callback runs exactly while the loop is in one, and that   *)
(* the timeout of a poll is an int (event_loop.cpp:98).                     *)
THEOREM TypeCorrect == Safety => []TypeOK
<1>1. Inv => TypeOK
  BY DEF Inv
<1> QED
  BY InvHolds, <1>1, PTL

(* A heap with no timer twice has as many timers as places.                 *)
LEMMA AsManyAsPlaces ==
    ASSUME NEW T, NEW h \in Seq(T), IsInjective(h)
    PROVE  Cardinality(Range(h)) = Len(h)
<1> DEFINE I == 1..Len(h)
<1>1. Len(h) \in Nat /\ DOMAIN h = I /\ h \in [I -> Range(h)]
  BY LenProperties DEF Range
<1>2. IsFiniteSet(I) /\ Cardinality(I) = Len(h)
  <2>1. IsFiniteSet(I) /\ Cardinality(I) = IF 1 > Len(h) THEN 0 ELSE Len(h) - 1 + 1
    BY <1>1, FS_Interval
  <2> QED
    BY <1>1, <2>1
<1>3. ExistsBijection(I, Range(h))
  <2>1. h \in Injection(I, Range(h))
    BY <1>1 DEF Injection, IsInjective
  <2>2. \A y \in Range(h) : \E x \in I : h[x] = y
    BY <1>1 DEF Range
  <2>3. h \in Bijection(I, Range(h))
    BY <1>1, <2>1, <2>2 DEF Bijection, Surjection
  <2> QED
    BY <2>3 DEF ExistsBijection
<1> QED
  BY <1>2, <1>3, FS_Bijection

(* The heap stays a heap without duplicates through every add, removal and  *)
(* restart, callbacks that add timers included (timer_heap.cpp:8, 13,       *)
(* timer_queue.cpp:105).                                                    *)
THEOREM HeapKept == Safety => []HeapOrdered
<1>1. Inv => HeapOrdered
  BY AsManyAsPlaces DEF Inv, HeapInv, HeapOrdered, TypeOK
<1> QED
  BY InvHolds, <1>1, PTL

(* When the loop asks for the next time it gets that of the earliest timer, *)
(* 0 for none (timer_queue.cpp:89, 117).                                    *)
THEOREM NextTimeRight == Safety => []NextTimeIsTop
<1>1. Inv => NextTimeIsTop
  BY DEF Inv, NextInv, NextTimeIsTop
<1> QED
  BY InvHolds, <1>1, PTL

(* The timeout of a poll that begins at s for a timer of time x: cut to     *)
(* milliseconds, counted from a clock cut to seconds, and kept in an int    *)
(* that can hold it.                                                        *)
LEMMA Waits ==
    ASSUME NEW s \in Nat, NEW x \in Nat, x > (s \div PerSecond) * PerSecond,
           (x - s + PerSecond) \div PerMilli <= IntMax
    PROVE  LET w == ToInt(toMilliseconds(x - (s \div PerSecond) * PerSecond)) IN
             /\ w \in Nat
             /\ x - PerMilli < s + w * PerMilli /\ s + w * PerMilli < x + PerSecond
<1> DEFINE now == (s \div PerSecond) * PerSecond
           y == x - now
           w == y \div PerMilli
           v == x - s + PerSecond
<1>0. PerSecond \in Nat \ {0} /\ PerMilli \in Nat \ {0} /\ IntMax \in Nat
  BY DEF TimerAssumption
<1>1. now \in Nat /\ now <= s /\ s < now + PerSecond
  BY <1>0, Divides
<1> HIDE DEF now
<1>2. y \in Nat /\ v \in Nat /\ y <= v
  BY <1>0, <1>1 DEF now
<1>3. w \in Nat /\ w * PerMilli \in Nat /\ w * PerMilli <= y /\ y < w * PerMilli + PerMilli
  <2> HIDE DEF y
  <2> QED
    BY <1>0, <1>2, Divides
<1>4. w <= v \div PerMilli /\ v \div PerMilli \in Nat
  <2> HIDE DEF y, v
  <2> QED
    BY <1>0, <1>2, DivMonotone, Divides
<1>5. w <= IntMax
  <2> HIDE DEF w
  <2> QED
    BY <1>0, <1>3, <1>4
<1>6. ToInt(toMilliseconds(y)) = w
  BY <1>3, <1>5, ToIntIs DEF toMilliseconds
<1>7. x - PerMilli < s + w * PerMilli /\ s + w * PerMilli < x + PerSecond
  <2> DEFINE z == w * PerMilli
  <2> HIDE DEF w, z
  <2>1. z \in Nat /\ z <= y /\ y < z + PerMilli
    BY <1>3 DEF z
  <2>2. x - PerMilli < s + z /\ s + z < x + PerSecond
    BY <1>0, <1>1, <2>1
  <2> QED
    BY <2>2 DEF z
<1> QED
  BY <1>3, <1>6, <1>7 DEF now

(* A poll that begins before the next time ends for it, less than a         *)
(* millisecond early and less than a second late (event_loop.cpp:101,       *)
(* Pollpoller.cpp:59).                                                      *)
THEOREM WakesInTime == Safety => []WakesForTimer
<1>1. Inv => WakesForTimer
  <2> SUFFICES ASSUME Inv, at = "wait", heap_ # <<>>, ~late,
                      toMilliseconds(expire[Top(heap_)] - since + PerSecond) <= IntMax
               PROVE  LET end == since + wait_time * PerMilli IN
                        /\ wait_time >= 0
                        /\ expire[Top(heap_)] - PerMilli < end
                        /\ end < expire[Top(heap_)] + PerSecond
    BY DEF WakesForTimer
  <2> DEFINE now == (since \div PerSecond) * PerSecond
  <2>1. next_time_ # 0 /\ next_time_ = expire[Top(heap_)] /\ next_time_ \in Nat
    BY DEF Inv, NextInv, TypeOK
  <2>2. /\ since \in Nat /\ (late <=> next_time_ # 0 /\ now >= next_time_)
        /\ (next_time_ # 0 /\ now < next_time_) =>
             wait_time = ToInt(toMilliseconds(next_time_ - now))
    BY DEF Inv, WaitInv
  <2>3. now \in Nat /\ PerSecond \in Nat \ {0}
    BY <2>2, Divides DEF TimerAssumption
  <2>4. now < next_time_
    BY <2>1, <2>2, <2>3
  <2>5. wait_time = ToInt(toMilliseconds(next_time_ - now))
    BY <2>1, <2>2, <2>4
  <2>6. (next_time_ - since + PerSecond) \div PerMilli <= IntMax
    BY <2>1 DEF toMilliseconds
  <2>7. /\ wait_time \in Nat
        /\ next_time_ - PerMilli < since + wait_time * PerMilli
        /\ since + wait_time * PerMilli < next_time_ + PerSecond
    BY <2>1, <2>2, <2>4, <2>5, <2>6, Waits
  <2> QED
    BY <2>1, <2>7
<1> QED
  BY InvHolds, <1>1, PTL

------------------------------------------------------------------------------
(* The refinement                                                           *)

(* The timers that TimerService sees.                                       *)
Pending == [t \in Range(heap_) |-> [expire |-> expire[t], every |-> every[t]]]

(* What it sees of each.                                                    *)
LEMMA PendingAt ==
    /\ DOMAIN Pending = Range(heap_)
    /\ \A t \in Range(heap_) : Pending[t] = [expire |-> expire[t], every |-> every[t]]
BY DEF Pending

(* It sees no change if the heap and its timers are left alone.             *)
LEMMA SamePending ==
    ASSUME heap_' = heap_,
           \A t \in Range(heap_) : expire'[t] = expire[t] /\ every'[t] = every[t]
    PROVE  Pending' = Pending
BY DEF Pending

(* A timer is added,                                                        *)
LEMMA AddImplements ==
    ASSUME Inv, NEW when \in Nat, NEW interval \in Intervals \cup {0}, AddTimer(when, interval)
    PROVE  Service!Next
<1>0. PICK t : t = added + 1
  OBVIOUS
<1>1. Range(heap_') = Range(heap_) \cup {t}
  BY <1>0, AddKeeps
<1>2. t \in Timers /\ t \notin Range(heap_) \cup running /\ Range(heap_) \subseteq Timers
  <2>1. added \in Nat /\ added < MaxTimers /\ Range(heap_) \cup running \subseteq 1..added
    BY DEF Inv, TypeOK, BornInv, AddTimer, TimerAssumption
  <2> QED
    BY <1>0, <2>1 DEF Timers, TimerAssumption
<1>3. \A u \in Timers : u # t => expire'[u] = expire[u] /\ every'[u] = every[u]
  BY <1>0 DEF AddTimer, Inv, TypeOK
<1>4. /\ DOMAIN Pending' = Range(heap_')
      /\ \A u \in Range(heap_') : Pending'[u] = [expire |-> expire'[u], every |-> every'[u]]
  BY DEF Pending
<1>5. \A u \in Range(heap_) : Pending'[u] = Pending[u]
  <2> SUFFICES ASSUME NEW u \in Range(heap_) PROVE Pending'[u] = Pending[u]
    OBVIOUS
  <2>1. u \in Timers /\ u # t /\ u \in Range(heap_')
    BY <1>1, <1>2
  <2>2. expire'[u] = expire[u] /\ every'[u] = every[u]
    BY <1>3, <2>1
  <2> QED
    BY <1>4, <2>1, <2>2, PendingAt
<1>6. UNCHANGED <<clock, running>>
  BY DEF AddTimer
<1>7. Service!Add(t)
  BY <1>1, <1>2, <1>4, <1>5, <1>6, PendingAt DEF Service!Add, Pending
<1> QED
  BY <1>2, <1>7 DEF Service!Next

(* and the earliest is run, once, or is pending again an interval later.    *)
LEMMA RunImplements ==
    ASSUME Inv, RunTop
    PROVE  Service!Next
<1>0. PICK t : t = Top(heap_)
  OBVIOUS
<1>1. Range(heap_') = IF every[t] = 0 THEN Range(heap_) \ {t} ELSE Range(heap_)
  BY <1>0, RunKeeps
<1>2. /\ t \in Range(heap_) /\ t \in Timers
      /\ \A u \in Range(heap_) : u \in Timers /\ expire[t] <= expire[u]
  BY <1>0, TopLeast DEF Inv, HeapInv, TypeOK, Top, RunTop
<1>3. /\ expire' = [expire EXCEPT ![t] = addTime(@, every[t])]
      /\ running' = {t} /\ UNCHANGED <<clock, every>> /\ Now >= expire[t] /\ running = {}
  BY <1>0 DEF RunTop, Timeout, Inv, TypeOK
<1>4. expire \in [Timers -> Nat]
  BY DEF Inv, TypeOK
<1>5. /\ expire'[t] = expire[t] + every[t] * PerSecond
      /\ \A u \in Timers : u # t => expire'[u] = expire[u]
  BY <1>2, <1>3, <1>4 DEF addTime
<1>6. expire[t] <= clock
  <2>1. Now \in Nat /\ clock \in Nat /\ Now <= clock /\ expire[t] \in Nat
    BY <1>2, <1>4, NowIs DEF Inv
  <2> QED
    BY <1>3, <2>1
<1>7. Pending' = [u \in Range(heap_') |-> [expire |-> expire'[u], every |-> every[u]]]
  BY <1>3 DEF Pending
<1>8. Pending' = IF Pending[t].every = 0
                    THEN [u \in DOMAIN Pending \ {t} |-> Pending[u]]
                    ELSE [Pending EXCEPT ![t].expire = @ + Pending[t].every * PerSecond]
  <2>0. Pending[t] = [expire |-> expire[t], every |-> every[t]] /\ Pending[t].every = every[t]
    BY <1>2, PendingAt
  <2>1. CASE every[t] = 0
    <3>1. Range(heap_') = Range(heap_) \ {t}
      BY <1>1, <2>1
    <3>2. \A u \in Range(heap_) \ {t} : [expire |-> expire'[u], every |-> every[u]] = Pending[u]
      <4> SUFFICES ASSUME NEW u \in Range(heap_) \ {t}
                   PROVE  [expire |-> expire'[u], every |-> every[u]] = Pending[u]
        OBVIOUS
      <4>1. expire'[u] = expire[u]
        BY <1>2, <1>5
      <4> QED
        BY <4>1, PendingAt
    <3>3. Pending' = [u \in Range(heap_) \ {t} |-> Pending[u]]
      BY <1>7, <3>1, <3>2
    <3> QED
      BY <2>0, <2>1, <3>3, PendingAt
  <2>2. CASE every[t] # 0
    <3> DEFINE q == [Pending EXCEPT ![t].expire = @ + Pending[t].every * PerSecond]
    <3>1. Range(heap_') = Range(heap_)
      BY <1>1, <2>2
    <3>2. DOMAIN q = Range(heap_)
      BY PendingAt
    <3>3. ASSUME NEW u \in Range(heap_) PROVE q[u] = [expire |-> expire'[u], every |-> every[u]]
      <4>1. CASE u = t
        <5>1. q[t] = [Pending[t] EXCEPT !.expire = @ + every[t] * PerSecond]
          BY <1>2, <2>0, PendingAt
        <5>2. q[t] = [expire |-> expire[t] + every[t] * PerSecond, every |-> every[t]]
          BY <2>0, <5>1
        <5> QED
          BY <1>5, <4>1, <5>2
      <4>2. CASE u # t
        <5>1. q[u] = Pending[u]
          BY <4>2, PendingAt
        <5>2. expire'[u] = expire[u]
          BY <1>2, <1>5, <4>2
        <5> QED
          BY <5>1, <5>2, PendingAt
      <4> QED
        BY <4>1, <4>2
    <3>4. q = [u \in Range(heap_) |-> q[u]]
      BY PendingAt
    <3>5. q = Pending'
      <4> HIDE DEF q
      <4> QED
        BY <1>7, <3>1, <3>3, <3>4
    <3> QED
      BY <2>0, <2>2, <3>5
  <2> QED
    BY <2>1, <2>2
<1>9. Service!Run(t)
  <2>1. \A u \in Range(heap_) : Pending[u].expire = expire[u]
    BY PendingAt
  <2>2. /\ Pending[t].expire <= clock
        /\ \A u \in DOMAIN Pending : Pending[t].expire <= Pending[u].expire
    BY <1>2, <1>6, <2>1, PendingAt
  <2>3. Pending' = Service!Rest(t)
    BY <1>8 DEF Service!Rest, Pending
  <2> QED
    BY <1>2, <1>3, <2>2, <2>3, PendingAt DEF Service!Run, Pending
<1> QED
  BY <1>2, <1>9 DEF Service!Next

(* Every step is one of TimerService or changes nothing there.              *)
LEMMA StepImplements == Inv /\ [Next]_vars => [Service!Next]_(Service!vars)
<1> SUFFICES ASSUME Inv, [Next]_vars PROVE [Service!Next]_(Service!vars)
  OBVIOUS
<1>0. PerSecond \in Nat /\ Delays \subseteq Nat /\ Times \subseteq Nat /\ Intervals \subseteq Nat
  BY DEF TimerAssumption
<1>n. Now \in Nat
  BY NowIs DEF Inv
<1>1. CASE Tick
  <2>1. clock' > clock
    BY <1>1, NowIs DEF Tick, Inv
  <2>2. Pending' = Pending /\ running' = running
    BY <1>1, SamePending DEF Tick, timerVars
  <2> QED
    BY <2>1, <2>2 DEF Service!Next, Service!Tick, Pending
<1>2. CASE RunTop
  BY <1>2, RunImplements
<1>3. CASE CallbackReturns
  <2>1. \A t \in Range(heap_) : expire'[t] = expire[t]
    BY <1>3, CallbackKeeps
  <2>2. Pending' = Pending
    BY <1>3, <2>1, SamePending DEF CallbackReturns
  <2>3. running # {} /\ running' = {} /\ clock' = clock
    BY <1>3 DEF CallbackReturns, Inv, TypeOK
  <2> QED
    BY <2>2, <2>3 DEF Service!Next, Service!Done, Pending
<1>4. CASE NoneDue \/ BeginWait \/ NextRound \/ PollTimesOut \/ PollReports \/ UNCHANGED vars
  <2>1. heap_' = heap_ /\ expire' = expire /\ every' = every /\ UNCHANGED <<clock, running>>
    BY <1>4 DEF NoneDue, BeginWait, NextRound, PollTimesOut, PollReports, EndWait, timerVars, vars
  <2>2. Pending' = Pending
    BY <2>1, SamePending
  <2> QED
    BY <2>1, <2>2 DEF Service!vars, Pending
<1>8. ASSUME NEW d \in Delays, runAfter(d) PROVE Service!Next
  <2>1. d \in Nat /\ d * PerSecond \in Nat
    BY <1>0
  <2>2. addTime(Now, d) \in Nat /\ 0 \in Intervals \cup {0}
    BY <1>n, <2>1 DEF addTime
  <2> QED
    BY <1>8, <2>2, AddImplements DEF runAfter
<1>9. ASSUME NEW when \in Times, runAt(when) PROVE Service!Next
  BY <1>0, <1>9, AddImplements DEF runAt
<1>10. ASSUME NEW i \in Intervals, runEvery(i) PROVE Service!Next
  BY <1>n, <1>10, AddImplements DEF runEvery
<1> QED
  BY <1>1, <1>2, <1>3, <1>4, <1>8, <1>9, <1>10 DEF Next, LoopStep

(* TimerQueue implements TimerService: timers run earliest first, not       *)
(* before their time, one-shots once, and repeated ones once for every      *)
(* interval (timer_queue.cpp:99).                                           *)
THEOREM Refines == Safety => ImplementsTimerService
<1>1. Init => Service!Init
  <2> SUFFICES ASSUME Init PROVE Service!Init
    OBVIOUS
  <2>1. Range(heap_) = {}
    <3>1. heap_ \in Seq(Timers)
      BY DEF Init
    <3> QED
      BY <3>1, RangeIn DEF Init
  <2>2. clock \in Nat /\ running = {}
    BY DEF Init, TimerAssumption
  <2> QED
    BY <2>1, <2>2 DEF Service!Init
<1> QED
  BY <1>1, InvHolds, StepImplements, PTL DEF Safety, ImplementsTimerService, Service!Spec
==============================================================================

------------------------------- MODULE Queues -------------------------------
(***************************************************************************)
(* First-in first-out queues of events and messages, as the proofs about   *)
(* the watcher, the engines and the server see them: what is said last of  *)
(* a path, and whether anything is said of it at all.  A value is right    *)
(* when what has the last word will set it, or when it is set already and  *)
(* nothing on its way will change it.                                      *)
(***************************************************************************)
EXTENDS Naturals, Integers, Sequences, TLAPS

\* In queue q something of G has the last word against what is in B.
LastWord(q, G, B) ==
    \E i \in DOMAIN q : q[i] \in G /\ \A j \in DOMAIN q : j > i => q[j] \notin B

\* Queue q has nothing of B.
Free(q, B) == \A i \in DOMAIN q : q[i] \notin B

\* Queue q has at most one of B.
Once(q, B) == \A i, j \in DOMAIN q : q[i] \in B /\ q[j] \in B => i = j

\* What the head of a queue had to say is said when it is taken off.
LEMMA QueueTail ==
    ASSUME NEW S, NEW q \in Seq(S), q # <<>>
    PROVE  /\ Tail(q) \in Seq(S) /\ Head(q) \in S
           /\ \A B : Free(q, B) => Free(Tail(q), B) /\ Head(q) \notin B
           /\ \A B : ~Free(q, B) => ~Free(Tail(q), B) \/ Head(q) \in B
           /\ \A G, B : LastWord(q, G, B) =>
                 LastWord(Tail(q), G, B) \/ (Head(q) \in G /\ Free(Tail(q), B))
<1> DEFINE t == Tail(q)
<1>1. /\ t \in Seq(S) /\ Head(q) \in S /\ Head(q) = q[1]
      /\ Len(q) \in Nat \ {0} /\ Len(t) = Len(q) - 1
      /\ DOMAIN q = 1..Len(q) /\ DOMAIN t = 1..Len(t)
      /\ \A i \in 1..Len(t) : t[i] = q[i + 1]
  OBVIOUS
<1> HIDE DEF t
<1>2. 1 \in DOMAIN q /\ \A i \in DOMAIN t : i + 1 \in DOMAIN q /\ t[i] = q[i + 1]
  BY <1>1
<1>3. \A i \in DOMAIN q : i # 1 => i - 1 \in DOMAIN t /\ t[i - 1] = q[i]
  <2> SUFFICES ASSUME NEW i \in DOMAIN q, i # 1
               PROVE  i - 1 \in DOMAIN t /\ t[i - 1] = q[i]
    OBVIOUS
  <2>1. i - 1 \in 1..Len(t) /\ (i - 1) + 1 = i
    BY <1>1
  <2> QED
    BY <1>1, <2>1
<1>4. ASSUME NEW G, NEW B, LastWord(q, G, B)
      PROVE  LastWord(t, G, B) \/ (Head(q) \in G /\ Free(t, B))
  <2>1. PICK i \in DOMAIN q : q[i] \in G /\ \A j \in DOMAIN q : j > i => q[j] \notin B
    BY <1>4 DEF LastWord
  <2>2. CASE i = 1
    <3>1. \A j \in DOMAIN t : j + 1 > 1
      BY <1>1
    <3>2. Free(t, B)
      BY <1>2, <2>1, <2>2, <3>1 DEF Free
    <3> QED
      BY <1>1, <2>1, <2>2, <3>2
  <2>3. CASE i # 1
    <3>1. i - 1 \in DOMAIN t /\ t[i - 1] \in G
      BY <1>3, <2>1, <2>3
    <3>2. \A j \in DOMAIN t : j > i - 1 => j + 1 > i
      BY <1>1
    <3>3. \A j \in DOMAIN t : j > i - 1 => t[j] \notin B
      BY <1>2, <2>1, <3>2
    <3> QED
      BY <3>1, <3>3 DEF LastWord
  <2> QED
    BY <2>2, <2>3
<1>5. \A B : Free(q, B) => Free(t, B) /\ Head(q) \notin B
  BY <1>1, <1>2 DEF Free
<1>6. \A B : ~Free(q, B) => ~Free(t, B) \/ Head(q) \in B
  BY <1>1, <1>3 DEF Free
<1> QED
  BY <1>1, <1>4, <1>5, <1>6 DEF t

\* What is appended has the last word, if it says anything.
LEMMA QueueJoin ==
    ASSUME NEW S, NEW q \in Seq(S), NEW r \in Seq(S)
    PROVE  /\ q \o r \in Seq(S)
           /\ \A B : Free(q \o r, B) <=> Free(q, B) /\ Free(r, B)
           /\ \A G, B : LastWord(r, G, B) => LastWord(q \o r, G, B)
           /\ \A G, B : LastWord(q, G, B) /\ Free(r, B) => LastWord(q \o r, G, B)
<1> DEFINE t == q \o r
           n == Len(q)
<1>1. /\ t \in Seq(S) /\ n \in Nat /\ Len(r) \in Nat /\ Len(t) = n + Len(r)
      /\ DOMAIN q = 1..n /\ DOMAIN r = 1..Len(r) /\ DOMAIN t = 1..Len(t)
      /\ \A i \in 1..n : t[i] = q[i]
      /\ \A i \in 1..Len(r) : t[n + i] = r[i]
  OBVIOUS
<1> HIDE DEF t, n
<1>2. \A i \in DOMAIN q : i \in DOMAIN t /\ t[i] = q[i] /\ i <= n /\ i \in Nat
  BY <1>1
<1>3. \A i \in DOMAIN r : n + i \in DOMAIN t /\ t[n + i] = r[i] /\ i \in Nat /\ i > 0
  BY <1>1
<1>4. \A i \in DOMAIN t : \/ i \in DOMAIN q
                          \/ i - n \in DOMAIN r /\ i = n + (i - n) /\ i > n
  BY <1>1
<1>5. \A B : Free(t, B) <=> Free(q, B) /\ Free(r, B)
  <2>1. \A B : Free(t, B) => Free(q, B) /\ Free(r, B)
    BY <1>2, <1>3 DEF Free
  <2>2. ASSUME NEW B, Free(q, B), Free(r, B), NEW i \in DOMAIN t PROVE t[i] \notin B
    <3>1. CASE i \in DOMAIN q
      BY <1>2, <2>2, <3>1 DEF Free
    <3>2. CASE i - n \in DOMAIN r /\ i = n + (i - n)
      BY <1>3, <2>2, <3>2 DEF Free
    <3> QED
      BY <1>4, <3>1, <3>2
  <2> QED
    BY <2>1, <2>2 DEF Free
<1>6. ASSUME NEW G, NEW B, LastWord(r, G, B) PROVE LastWord(t, G, B)
  <2>1. PICK i \in DOMAIN r : r[i] \in G /\ \A j \in DOMAIN r : j > i => r[j] \notin B
    BY <1>6 DEF LastWord
  <2>2. ASSUME NEW j \in DOMAIN t, j > n + i PROVE t[j] \notin B
    <3>1. j \notin DOMAIN q
      BY <1>1, <1>3, <2>2
    <3>2. j - n \in DOMAIN r /\ j = n + (j - n) /\ j - n > i
      BY <1>1, <1>4, <2>2, <3>1
    <3> QED
      BY <1>3, <2>1, <3>2
  <2> QED
    BY <1>3, <2>1, <2>2 DEF LastWord
<1>7. ASSUME NEW G, NEW B, LastWord(q, G, B), Free(r, B) PROVE LastWord(t, G, B)
  <2>1. PICK i \in DOMAIN q : q[i] \in G /\ \A j \in DOMAIN q : j > i => q[j] \notin B
    BY <1>7 DEF LastWord
  <2>2. ASSUME NEW j \in DOMAIN t, j > i PROVE t[j] \notin B
    <3>1. CASE j \in DOMAIN q
      BY <1>2, <2>1, <2>2, <3>1
    <3>2. CASE j - n \in DOMAIN r /\ j = n + (j - n)
      BY <1>3, <1>7, <3>2 DEF Free
    <3> QED
      BY <1>4, <3>1, <3>2
  <2> QED
    BY <1>2, <2>1, <2>2 DEF LastWord
<1> QED
  BY <1>1, <1>5, <1>6, <1>7 DEF t

\* The last element of a queue has the last word.
LEMMA QueueLast ==
    ASSUME NEW S, NEW q \in Seq(S), NEW e \in S
    PROVE  /\ <<e>> \in Seq(S)
           /\ \A G, B : e \in G => LastWord(<<e>>, G, B)
           /\ \A G, B : e \in G => LastWord(q \o <<e>>, G, B)
           /\ \A B : Free(<<e>>, B) <=> e \notin B
           /\ \A B : Free(<<>>, B)
           /\ \A G, B : ~LastWord(<<>>, G, B)
<1>1. <<e>> \in Seq(S) /\ DOMAIN <<e>> = {1} /\ <<e>>[1] = e
  OBVIOUS
<1>2. \A G, B : e \in G => LastWord(<<e>>, G, B)
  BY <1>1 DEF LastWord
<1>3. \A G, B : e \in G => LastWord(q \o <<e>>, G, B)
  BY <1>1, <1>2, QueueJoin
<1>4. \A B : Free(<<e>>, B) <=> e \notin B
  BY <1>1 DEF Free
<1>5. DOMAIN <<>> = {}
  OBVIOUS
<1> QED
  BY <1>1, <1>2, <1>3, <1>4, <1>5 DEF Free, LastWord

\* What a queue of one, or of none, has.
LEMMA QueueOne ==
    ASSUME NEW e
    PROVE  /\ \A B : Free(<<e>>, B) <=> e \notin B
           /\ \A B : Free(<<>>, B)
           /\ \A B : Once(<<e>>, B) /\ Once(<<>>, B)
           /\ \A G, B : e \in G => LastWord(<<e>>, G, B)
<1>1. DOMAIN <<e>> = {1} /\ <<e>>[1] = e /\ DOMAIN <<>> = {}
  OBVIOUS
<1>2. \A B : Free(<<e>>, B) <=> e \notin B
  BY <1>1 DEF Free
<1>3. \A B : Free(<<>>, B)
  BY <1>1 DEF Free
<1>4. \A B : Once(<<e>>, B) /\ Once(<<>>, B)
  BY <1>1 DEF Once
<1>5. \A G, B : e \in G => LastWord(<<e>>, G, B)
  BY <1>1 DEF LastWord
<1> QED
  BY <1>2, <1>3, <1>4, <1>5

\* What is free of a set is free of its parts.
LEMMA FreeLess ==
    ASSUME NEW q, NEW B, NEW C
    PROVE  /\ C \subseteq B /\ Free(q, B) => Free(q, C)
           /\ Free(q, B \cup C) <=> Free(q, B) /\ Free(q, C)
BY DEF Free

\* What has the last word is in the queue; and if nothing speaks against it, it has.
LEMMA LastIsThere ==
    ASSUME NEW q, NEW G, NEW A
    PROVE  /\ LastWord(q, G, A) => ~Free(q, G)
           /\ G \subseteq A /\ ~Free(q, A) /\ Free(q, A \ G) => LastWord(q, G, A \ G)
BY DEF Free, LastWord

\* One that is taken off was the only one.
LEMMA OnceTail ==
    ASSUME NEW S, NEW q \in Seq(S), q # <<>>, NEW B, Once(q, B)
    PROVE  Once(Tail(q), B) /\ (Head(q) \in B => Free(Tail(q), B))
<1> DEFINE t == Tail(q)
<1>1. /\ Head(q) = q[1] /\ Len(q) \in Nat \ {0} /\ Len(t) = Len(q) - 1
      /\ DOMAIN q = 1..Len(q) /\ DOMAIN t = 1..Len(t)
      /\ \A i \in 1..Len(t) : t[i] = q[i + 1]
  OBVIOUS
<1> HIDE DEF t
<1>2. 1 \in DOMAIN q /\ \A i \in DOMAIN t : i + 1 \in DOMAIN q /\ t[i] = q[i + 1] /\ i + 1 # 1
  BY <1>1
<1>3. ASSUME NEW i \in DOMAIN t, NEW j \in DOMAIN t, t[i] \in B, t[j] \in B PROVE i = j
  <2>1. i + 1 = j + 1
    BY <1>2, <1>3 DEF Once
  <2>2. i \in Nat /\ j \in Nat
    BY <1>1
  <2> QED
    BY <2>1, <2>2
<1>4. Once(t, B)
  BY <1>3 DEF Once
<1>5. Head(q) \in B => Free(t, B)
  BY <1>1, <1>2 DEF Once, Free
<1> QED
  BY <1>4, <1>5 DEF t

\* One that is appended is the only one if there was none.
LEMMA OnceJoin ==
    ASSUME NEW S, NEW q \in Seq(S), NEW r \in Seq(S), NEW B
    PROVE  /\ Once(q, B) /\ Free(r, B) => Once(q \o r, B)
           /\ Free(q, B) /\ Once(r, B) => Once(q \o r, B)
<1> DEFINE t == q \o r
           n == Len(q)
<1>1. /\ n \in Nat /\ Len(r) \in Nat /\ Len(t) = n + Len(r)
      /\ DOMAIN q = 1..n /\ DOMAIN r = 1..Len(r) /\ DOMAIN t = 1..Len(t)
      /\ \A i \in 1..n : t[i] = q[i]
      /\ \A i \in 1..Len(r) : t[n + i] = r[i]
  OBVIOUS
<1> HIDE DEF t, n
<1>2. \A i \in DOMAIN t : \/ i \in DOMAIN q /\ t[i] = q[i]
                          \/ i - n \in DOMAIN r /\ t[i] = r[i - n] /\ i \in Nat
  <2> SUFFICES ASSUME NEW i \in DOMAIN t, i \notin DOMAIN q
               PROVE  i - n \in DOMAIN r /\ t[i] = r[i - n] /\ i \in Nat
    BY <1>1
  <2>1. i - n \in 1..Len(r) /\ i = n + (i - n) /\ i \in Nat
    BY <1>1
  <2> QED
    BY <1>1, <2>1
<1>3. Once(q, B) /\ Free(r, B) => Once(t, B)
  BY <1>2 DEF Once, Free
<1>4. Free(q, B) /\ Once(r, B) => Once(t, B)
  <2> SUFFICES ASSUME Free(q, B), Once(r, B), NEW i \in DOMAIN t, NEW j \in DOMAIN t,
                      t[i] \in B, t[j] \in B
               PROVE  i = j
    BY DEF Once
  <2>1. /\ i - n \in DOMAIN r /\ r[i - n] \in B /\ i \in Nat
        /\ j - n \in DOMAIN r /\ r[j - n] \in B /\ j \in Nat
    BY <1>2 DEF Free
  <2>2. i - n = j - n
    BY <2>1 DEF Once
  <2> QED
    BY <1>1, <2>1, <2>2
<1> QED
  BY <1>3, <1>4 DEF t

\* What one element more changes.
LEMMA QueueAppend ==
    ASSUME NEW S, NEW q \in Seq(S), NEW m \in S
    PROVE  /\ Append(q, m) \in Seq(S)
           /\ \A B : Free(Append(q, m), B) <=> Free(q, B) /\ m \notin B
           /\ \A G, B : m \in G => LastWord(Append(q, m), G, B)
           /\ \A G, B : LastWord(q, G, B) /\ m \notin B => LastWord(Append(q, m), G, B)
           /\ \A B : Once(q, B) /\ m \notin B => Once(Append(q, m), B)
           /\ \A B : Free(q, B) => Once(Append(q, m), B)
<1> DEFINE r == <<m>>
<1>1. Append(q, m) = q \o r /\ r \in Seq(S) /\ Append(q, m) \in Seq(S)
  OBVIOUS
<1>2. /\ \A B : Free(r, B) <=> m \notin B
      /\ \A G, B : m \in G => LastWord(r, G, B)
  BY QueueLast
<1>3. \A B : Once(r, B)
  BY QueueOne
<1> HIDE DEF r
<1>4. /\ \A B : Once(q, B) /\ m \notin B => Once(q \o r, B)
      /\ \A B : Free(q, B) => Once(q \o r, B)
  BY <1>1, <1>2, <1>3, OnceJoin
<1>5. /\ \A B : Free(q \o r, B) <=> Free(q, B) /\ m \notin B
      /\ \A G, B : m \in G => LastWord(q \o r, G, B)
      /\ \A G, B : LastWord(q, G, B) /\ m \notin B => LastWord(q \o r, G, B)
  BY <1>1, <1>2, QueueJoin
<1> QED
  BY <1>1, <1>4, <1>5

\* Of the messages A in queue q, those with a hash outside of W do not repeat
\* the hash before them, which for the first one is e.
Fresh(q, A, W, e) ==
    \A i \in DOMAIN q : q[i] \in A /\ q[i].hash \notin W =>
        /\ (\A j \in DOMAIN q : j < i => q[j] \notin A) => q[i].hash # e
        /\ \A j \in DOMAIN q :
              /\ j < i /\ q[j] \in A
              /\ \A k \in DOMAIN q : j < k /\ k < i => q[k] \notin A
              => q[j].hash # q[i].hash

\* The first hash may be compared with another, and more may be allowed.
LEMMA FreshOther ==
    ASSUME NEW q, NEW A, NEW W, NEW V, W \subseteq V, NEW e, NEW f, Fresh(q, A, W, e),
           e = f \/ f \in V \/ (\A m \in A : Free(q, {m}) \/ m.hash # f)
    PROVE  Fresh(q, A, V, f)
<1> SUFFICES ASSUME NEW i \in DOMAIN q, q[i] \in A, q[i].hash \notin V
             PROVE  /\ (\A j \in DOMAIN q : j < i => q[j] \notin A) => q[i].hash # f
                    /\ \A j \in DOMAIN q :
                          /\ j < i /\ q[j] \in A
                          /\ \A k \in DOMAIN q : j < k /\ k < i => q[k] \notin A
                          => q[j].hash # q[i].hash
  BY DEF Fresh
<1>1. q[i].hash \notin W
  OBVIOUS
<1>2. ~Free(q, {q[i]})
  BY DEF Free
<1>3. (\A j \in DOMAIN q : j < i => q[j] \notin A) => q[i].hash # f
  BY <1>1, <1>2 DEF Fresh
<1> QED
  BY <1>1, <1>3 DEF Fresh

\* The first message is taken off: its hash is the one to compare with.
LEMMA FreshTail ==
    ASSUME NEW S, NEW q \in Seq(S), q # <<>>, NEW A, NEW W, NEW e, Fresh(q, A, W, e)
    PROVE  /\ Head(q) \in A => Fresh(Tail(q), A, W, Head(q).hash)
           /\ Head(q) \in A /\ Head(q).hash \notin W => Head(q).hash # e
           /\ Head(q) \notin A => Fresh(Tail(q), A, W, e)
<1> DEFINE t == Tail(q)
<1>1. /\ Head(q) = q[1] /\ Len(q) \in Nat \ {0} /\ Len(t) = Len(q) - 1
      /\ DOMAIN q = 1..Len(q) /\ DOMAIN t = 1..Len(t)
      /\ \A i \in 1..Len(t) : t[i] = q[i + 1]
  OBVIOUS
<1> HIDE DEF t
<1>2. 1 \in DOMAIN q /\ \A j \in DOMAIN q : j \in Nat /\ ~(j < 1)
  BY <1>1
<1>3. \A j \in DOMAIN q : j = 1 \/ (j > 1 /\ j - 1 \in DOMAIN t /\ t[j - 1] = q[j])
  <2> SUFFICES ASSUME NEW j \in DOMAIN q, j # 1
               PROVE  j > 1 /\ j - 1 \in DOMAIN t /\ t[j - 1] = q[j]
    OBVIOUS
  <2>1. j > 1 /\ j - 1 \in 1..Len(t) /\ (j - 1) + 1 = j
    BY <1>1
  <2> QED
    BY <1>1, <2>1
<1>4. Head(q) \in A /\ Head(q).hash \notin W => Head(q).hash # e
  BY <1>1, <1>2 DEF Fresh
<1>5. ASSUME NEW i \in DOMAIN t, t[i] \in A, t[i].hash \notin W
      PROVE  /\ \A j \in DOMAIN t :
                   /\ j < i /\ t[j] \in A
                   /\ \A k \in DOMAIN t : j < k /\ k < i => t[k] \notin A
                   => t[j].hash # t[i].hash
             /\ (\A j \in DOMAIN t : j < i => t[j] \notin A)
                   => /\ Head(q) \in A => t[i].hash # Head(q).hash
                      /\ Head(q) \notin A => t[i].hash # e
  <2>1. i + 1 \in DOMAIN q /\ q[i + 1] = t[i] /\ i \in Nat
    BY <1>1
  <2>2. ASSUME NEW j \in DOMAIN t, j < i, t[j] \in A,
               \A k \in DOMAIN t : j < k /\ k < i => t[k] \notin A
        PROVE  t[j].hash # t[i].hash
    <3>1. j + 1 \in DOMAIN q /\ q[j + 1] = t[j] /\ j \in Nat /\ j + 1 < i + 1
      BY <1>1, <2>1, <2>2
    <3>2. \A k \in DOMAIN q : j + 1 < k /\ k < i + 1 => q[k] \notin A
      <4> SUFFICES ASSUME NEW k \in DOMAIN q, j + 1 < k, k < i + 1 PROVE q[k] \notin A
        OBVIOUS
      <4>1. k \in Nat /\ k # 1
        BY <1>2, <3>1
      <4>2. k - 1 \in DOMAIN t /\ t[k - 1] = q[k]
        BY <1>3, <4>1
      <4>3. j < k - 1 /\ k - 1 < i
        BY <2>1, <3>1, <4>1
      <4> QED
        BY <2>2, <4>2, <4>3
    <3> QED
      BY <1>5, <2>1, <2>2, <3>1, <3>2 DEF Fresh
  <2>3. ASSUME \A j \in DOMAIN t : j < i => t[j] \notin A
        PROVE  \A k \in DOMAIN q : 1 < k /\ k < i + 1 => q[k] \notin A
    <3> SUFFICES ASSUME NEW k \in DOMAIN q, 1 < k, k < i + 1 PROVE q[k] \notin A
      OBVIOUS
    <3>1. k \in Nat /\ k # 1
      BY <1>2
    <3>2. k - 1 \in DOMAIN t /\ t[k - 1] = q[k]
      BY <1>3, <3>1
    <3>3. k - 1 < i
      BY <2>1, <3>1
    <3> QED
      BY <2>3, <3>2, <3>3
  <2>4. ASSUME \A j \in DOMAIN t : j < i => t[j] \notin A, Head(q) \in A
        PROVE  t[i].hash # Head(q).hash
    <3>1. 1 < i + 1
      BY <1>1, <2>1
    <3> QED
      BY <1>1, <1>2, <1>5, <2>1, <2>3, <2>4, <3>1 DEF Fresh
  <2>5. ASSUME \A j \in DOMAIN t : j < i => t[j] \notin A, Head(q) \notin A
        PROVE  t[i].hash # e
    <3>1. \A k \in DOMAIN q : k < i + 1 => q[k] \notin A
      BY <1>1, <1>3, <2>3, <2>5
    <3> QED
      BY <1>5, <2>1, <3>1 DEF Fresh
  <2> QED
    BY <2>2, <2>4, <2>5
<1>6. Head(q) \in A => Fresh(t, A, W, Head(q).hash)
  BY <1>5 DEF Fresh
<1>7. Head(q) \notin A => Fresh(t, A, W, e)
  BY <1>5 DEF Fresh
<1> QED
  BY <1>4, <1>6, <1>7 DEF t

\* A message is appended whose hash is not the last one, or is in W.
LEMMA FreshLast ==
    ASSUME NEW S, NEW q \in Seq(S), NEW m \in S, NEW A, NEW W, NEW e, NEW h, NEW G,
           \A n \in G : n \in A /\ n.hash = h, Fresh(q, A, W, e)
    PROVE  /\ m \notin A \/ m.hash \in W => Fresh(Append(q, m), A, W, e)
           /\ /\ Free(q, A) => m.hash # e
              /\ ~Free(q, A) => LastWord(q, G, A \ G)
              /\ m.hash # h
              => Fresh(Append(q, m), A, W, e)
<1> DEFINE t == Append(q, m)
           l == Len(q) + 1
<1>1. /\ l \in Nat /\ DOMAIN q = 1..Len(q) /\ Len(q) \in Nat /\ DOMAIN t = 1..l
      /\ t[l] = m /\ \A i \in 1..Len(q) : t[i] = q[i]
  OBVIOUS
<1> HIDE DEF t
<1>2. /\ \A i \in DOMAIN t : i = l \/ (i \in DOMAIN q /\ t[i] = q[i] /\ i < l /\ i \in Nat)
      /\ \A i \in DOMAIN q : i \in DOMAIN t /\ t[i] = q[i] /\ i < l /\ i \in Nat
  BY <1>1
<1> HIDE DEF l
<1>3. ASSUME NEW i \in DOMAIN t, i # l, t[i] \in A, t[i].hash \notin W
      PROVE  /\ (\A j \in DOMAIN t : j < i => t[j] \notin A) => t[i].hash # e
             /\ \A j \in DOMAIN t :
                   /\ j < i /\ t[j] \in A
                   /\ \A k \in DOMAIN t : j < k /\ k < i => t[k] \notin A
                   => t[j].hash # t[i].hash
  <2>1. i \in DOMAIN q /\ t[i] = q[i] /\ i < l /\ i \in Nat
    BY <1>2, <1>3
  <2>2. \A j \in DOMAIN t : j < i => j \in DOMAIN q /\ t[j] = q[j]
    BY <1>1, <1>2, <2>1
  <2>3. (\A j \in DOMAIN t : j < i => t[j] \notin A) => t[i].hash # e
    BY <1>2, <1>3, <2>1 DEF Fresh
  <2>4. ASSUME NEW j \in DOMAIN t, j < i, t[j] \in A,
               \A k \in DOMAIN t : j < k /\ k < i => t[k] \notin A
        PROVE  t[j].hash # t[i].hash
    <3>1. j \in DOMAIN q /\ t[j] = q[j]
      BY <2>2, <2>4
    <3>2. \A k \in DOMAIN q : j < k /\ k < i => q[k] \notin A
      BY <1>2, <2>4
    <3> QED
      BY <1>3, <2>1, <2>4, <3>1, <3>2 DEF Fresh
  <2> QED
    BY <2>3, <2>4
<1>4. m \notin A \/ m.hash \in W => Fresh(t, A, W, e)
  BY <1>1, <1>2, <1>3 DEF Fresh
<1>5. ASSUME Free(q, A) => m.hash # e, m.hash # h,
             ~Free(q, A) => LastWord(q, G, A \ G)
      PROVE  Fresh(t, A, W, e)
  <2>1. ASSUME \A j \in DOMAIN t : j < l => t[j] \notin A PROVE m.hash # e
    <3>1. Free(q, A)
      BY <1>2, <2>1 DEF Free
    <3> QED
      BY <1>5, <3>1
  <2>2. ASSUME NEW j \in DOMAIN t, j < l, t[j] \in A,
               \A k \in DOMAIN t : j < k /\ k < l => t[k] \notin A
        PROVE  t[j].hash # m.hash
    <3>1. j \in DOMAIN q /\ t[j] = q[j] /\ j \in Nat
      BY <1>1, <1>2, <2>2
    <3>2. PICK w \in DOMAIN q : /\ q[w] \in G
                                /\ \A k \in DOMAIN q : k > w =>
                                      q[k] \notin A \ G
      BY <1>5, <2>2, <3>1 DEF Free, LastWord
    <3>3. w \in Nat /\ w \in DOMAIN t /\ w < l /\ t[w] \in A
      BY <1>2, <3>2
    <3>4. ~(j < w)
      BY <2>2, <3>3
    <3>5. j = w \/ j > w
      BY <3>1, <3>3, <3>4
    <3>6. q[j].hash = h
      BY <2>2, <3>1, <3>2, <3>5
    <3> QED
      BY <1>5, <3>1, <3>6
  <2>3. ASSUME NEW i \in DOMAIN t, t[i] \in A, t[i].hash \notin W
        PROVE  /\ (\A j \in DOMAIN t : j < i => t[j] \notin A) => t[i].hash # e
               /\ \A j \in DOMAIN t :
                     /\ j < i /\ t[j] \in A
                     /\ \A k \in DOMAIN t : j < k /\ k < i => t[k] \notin A
                     => t[j].hash # t[i].hash
    <3>1. CASE i # l
      BY <1>3, <2>3, <3>1
    <3>2. CASE i = l
      <4>1. t[i] = m
        BY <1>1, <3>2 DEF l
      <4>2. (\A j \in DOMAIN t : j < i => t[j] \notin A) => t[i].hash # e
        BY <2>1, <3>2, <4>1
      <4>3. ASSUME NEW j \in DOMAIN t, j < i, t[j] \in A,
                   \A k \in DOMAIN t : j < k /\ k < i => t[k] \notin A
            PROVE  t[j].hash # t[i].hash
        BY <2>2, <3>2, <4>1, <4>3
      <4> QED
        BY <4>2, <4>3
    <3> QED
      BY <3>1, <3>2
  <2> QED
    BY <2>3 DEF Fresh
<1> QED
  BY <1>4, <1>5 DEF t

\* A message is appended that is none of them, or whose hash is in W.
LEMMA FreshMore ==
    ASSUME NEW S, NEW q \in Seq(S), NEW m \in S, NEW A, NEW W, NEW e,
           Fresh(q, A, W, e), m \notin A \/ m.hash \in W
    PROVE  Fresh(Append(q, m), A, W, e)
<1> DEFINE G == {}
<1>1. \A n \in G : n \in A /\ n.hash = e
  OBVIOUS
<1> HIDE DEF G
<1> QED
  BY <1>1, FreshLast

\* Of A, queue r says what q says.
Keeps(q, r, A) ==
    /\ \A B : B \subseteq A => (Free(q, B) <=> Free(r, B))
    /\ \A G, B : G \subseteq A /\ B \subseteq A /\ LastWord(q, G, B) => LastWord(r, G, B)

\* Nothing is said of A when something else is taken off or appended.
LEMMA KeepsOther ==
    ASSUME NEW S, NEW q \in Seq(S), NEW A
    PROVE  /\ Keeps(q, q, A)
           /\ q # <<>> /\ Head(q) \notin A => Keeps(q, Tail(q), A)
           /\ \A r \in Seq(S) : Free(r, A) => Keeps(q, q \o r, A)
           /\ \A m \in S : m \notin A => Keeps(q, Append(q, m), A)
<1>1. Keeps(q, q, A)
  BY DEF Keeps
<1>2. ASSUME q # <<>>, Head(q) \notin A PROVE Keeps(q, Tail(q), A)
  <2>1. ASSUME NEW B, B \subseteq A PROVE Free(q, B) <=> Free(Tail(q), B)
    BY <1>2, <2>1, QueueTail
  <2>2. ASSUME NEW G, NEW B, G \subseteq A, B \subseteq A, LastWord(q, G, B)
        PROVE  LastWord(Tail(q), G, B)
    BY <1>2, <2>2, QueueTail
  <2> QED
    BY <2>1, <2>2 DEF Keeps
<1>3. ASSUME NEW r \in Seq(S), Free(r, A) PROVE Keeps(q, q \o r, A)
  <2>1. ASSUME NEW B, B \subseteq A PROVE Free(r, B)
    BY <1>3, <2>1 DEF Free
  <2> QED
    BY <2>1, QueueJoin DEF Keeps
<1>4. ASSUME NEW m \in S, m \notin A PROVE Keeps(q, Append(q, m), A)
  <2>1. Append(q, m) = q \o <<m>> /\ <<m>> \in Seq(S)
    OBVIOUS
  <2>2. Free(<<m>>, A)
    BY <1>4, QueueLast
  <2> QED
    BY <1>3, <2>1, <2>2
<1> QED
  BY <1>1, <1>2, <1>3, <1>4

\* Nor when two others are appended one after the other.
LEMMA KeepsBoth ==
    ASSUME NEW S, NEW q \in Seq(S), NEW r \in Seq(S), NEW s \in Seq(S), NEW A,
           Free(r, A), Free(s, A)
    PROVE  Keeps(q, (q \o r) \o s, A)
<1>1. q \o r \in Seq(S)
  OBVIOUS
<1>2. Keeps(q, q \o r, A)
  BY KeepsOther
<1>3. Keeps(q \o r, (q \o r) \o s, A)
  BY <1>1, KeepsOther
<1> QED
  BY <1>2, <1>3 DEF Keeps
=============================================================================

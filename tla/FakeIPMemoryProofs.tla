-------------------------- MODULE FakeIPMemoryProofs --------------------------
(***************************************************************************)
(* For pools and lists of every size and any number of queries: the two    *)
(* LRU lists stay mirror images, reloads and flushes included, and the     *)
(* pool with the store in memory implements FakeIP.                        *)
(***************************************************************************)
EXTENDS FakeIPMemory, SequenceTheorems, TLAPS

\* A list of pairs that repeats neither a key nor a value, and fits.
Distinct(c) ==
  \A i, j \in 1 .. Len(c) : c[i][1] = c[j][1] \/ c[i][2] = c[j][2] => i = j

\* A pair that repeats none of a list.
Fresh(c, e) == \A i \in 1 .. Len(c) : c[i][1] # e[1] /\ c[i][2] # e[2]

Good(c, A, B) == c \in Seq(A \X B) /\ Len(c) =< Size /\ Distinct(c)

-----------------------------------------------------------------------------
LEMMA SameLength == ASSUME NEW m \in Nat, NEW n \in Nat, 1 .. m = 1 .. n PROVE m = n
  <1>1. \A k \in Int : k \in 1 .. m <=> k \in 1 .. n
    OBVIOUS
  <1> QED
    BY <1>1

\* The entry at a place is taken out of a list.
LEMMA Removed ==
  ASSUME NEW S, NEW c \in Seq(S), NEW p \in 1 .. Len(c)
  PROVE  /\ Without(c, p) \in Seq(S) /\ Len(Without(c, p)) = Len(c) - 1
         /\ \A i \in 1 .. Len(c) - 1 : Without(c, p)[i] = c[IF i < p THEN i ELSE i + 1]
  <1>0. Len(c) \in Nat /\ \A i \in 1 .. Len(c) : c[i] \in S
    OBVIOUS
  <1>1. PICK d : d = Without(c, p)
    OBVIOUS
  <1>2. d = [i \in 1 .. Len(c) - 1 |-> c[IF i < p THEN i ELSE i + 1]]
    BY <1>1 DEF Without
  <1>3. \A i \in 1 .. Len(c) - 1 : d[i] = c[IF i < p THEN i ELSE i + 1]
    BY <1>2
  <1>4. \A i \in 1 .. Len(c) - 1 : (IF i < p THEN i ELSE i + 1) \in 1 .. Len(c)
    BY <1>0
  <1>5. d \in [1 .. Len(c) - 1 -> S]
    BY <1>0, <1>2, <1>4
  <1>6. Len(c) - 1 \in Nat
    BY <1>0
  <1>7. d \in Seq(S) /\ Len(d) = Len(c) - 1
    <2>1. d \in Seq(S)
      BY <1>5, <1>6, SeqDef
    <2>2. Len(d) \in Nat /\ DOMAIN d = 1 .. Len(d) /\ DOMAIN d = 1 .. Len(c) - 1
      BY <1>5, <2>1, LenProperties
    <2>3. Len(d) = Len(c) - 1
      BY <1>6, <2>2, SameLength
    <2> QED
      BY <2>1, <2>3
  <1> QED
    BY <1>1, <1>3, <1>7

\* The place of a key is the place of the value in the other direction.
LEMMA PosIs ==
  ASSUME NEW A, NEW B, NEW c, Good(c, A, B), NEW p \in 1 .. Len(c)
  PROVE  c[p][1] \in Keys(c) /\ Pos(c, c[p][1]) = p
  <1>0. c \in Seq(A \X B) /\ DOMAIN c = 1 .. Len(c)
    BY DEF Good
  <1>1. \A q \in 1 .. Len(c) : c[q][1] = c[p][1] => q = p
    BY DEF Good, Distinct
  <1>2. c[p][1] \in Keys(c)
    BY <1>0 DEF Keys, Entries
  <1> QED
    BY <1>0, <1>1, <1>2 DEF Pos

LEMMA HasPos ==
  ASSUME NEW A, NEW B, NEW c, Good(c, A, B), NEW k \in Keys(c)
  PROVE  Pos(c, k) \in 1 .. Len(c) /\ c[Pos(c, k)][1] = k
  <1>0. DOMAIN c = 1 .. Len(c)
    BY DEF Good
  <1> QED
    BY <1>0 DEF Keys, Entries, Pos

\* The other direction of a list.
LEMMA Flips ==
  ASSUME NEW A, NEW B, NEW c, Good(c, A, B)
  PROVE  /\ Good(Flipped(c), B, A) /\ Len(Flipped(c)) = Len(c)
         /\ \A i \in 1 .. Len(c) : Flipped(c)[i] = <<c[i][2], c[i][1]>>
  <1>0. c \in Seq(A \X B) /\ Len(c) \in Nat /\ DOMAIN c = 1 .. Len(c)
    BY DEF Good
  <1>1. PICK d : d = Flipped(c)
    OBVIOUS
  <1>2. d = [i \in 1 .. Len(c) |-> <<c[i][2], c[i][1]>>]
    BY <1>0, <1>1 DEF Flipped
  <1>3. \A i \in 1 .. Len(c) : c[i] \in A \X B /\ d[i] = <<c[i][2], c[i][1]>>
    BY <1>0, <1>2
  <1>4. \A i \in 1 .. Len(c) : d[i] \in B \X A /\ d[i][1] = c[i][2] /\ d[i][2] = c[i][1]
    BY <1>3
  <1>5. d \in [1 .. Len(c) -> B \X A]
    BY <1>2, <1>4
  <1>6. d \in Seq(B \X A) /\ Len(d) = Len(c)
    <2>1. d \in Seq(B \X A)
      BY <1>0, <1>5, SeqDef
    <2>2. Len(d) \in Nat /\ DOMAIN d = 1 .. Len(d) /\ DOMAIN d = 1 .. Len(c)
      BY <1>5, <2>1, LenProperties
    <2>3. Len(d) = Len(c)
      BY <1>0, <2>2, SameLength
    <2> QED
      BY <2>1, <2>3
  <1>7. Good(d, B, A)
    BY <1>4, <1>6 DEF Good, Distinct
  <1> QED
    BY <1>1, <1>3, <1>6, <1>7

\* Deleting a key.
LEMMA Deletes ==
  ASSUME NEW A, NEW B, NEW c, Good(c, A, B), NEW k
  PROVE  /\ Good(Delete(c, k), A, B) /\ Entries(Delete(c, k)) \subseteq Entries(c)
         /\ k \notin Keys(Delete(c, k))
  <1>0. c \in Seq(A \X B) /\ Len(c) \in Nat /\ Len(c) =< Size /\ DOMAIN c = 1 .. Len(c)
    BY DEF Good
  <1>1. CASE k \notin Keys(c)
    BY <1>1 DEF Delete
  <1>2. CASE k \in Keys(c)
    <2>1. PICK p \in 1 .. Len(c) : p = Pos(c, k) /\ c[p][1] = k
      BY <1>2, HasPos
    <2>2. PICK d : d = Without(c, p) /\ d = Delete(c, k)
      BY <1>2, <2>1 DEF Delete
    <2>3. /\ d \in Seq(A \X B) /\ Len(d) = Len(c) - 1
          /\ \A i \in 1 .. Len(c) - 1 : d[i] = c[IF i < p THEN i ELSE i + 1]
      BY <1>0, <2>2, Removed
    <2>4. \A i \in 1 .. Len(d) : \E j \in 1 .. Len(c) : j # p /\ d[i] = c[j]
      BY <1>0, <2>3
    <2>5. Distinct(d)
      <3> SUFFICES ASSUME NEW i \in 1 .. Len(d), NEW j \in 1 .. Len(d),
                          d[i][1] = d[j][1] \/ d[i][2] = d[j][2]
                   PROVE  i = j
        BY DEF Distinct
      <3>1. PICK m \in 1 .. Len(c) : m = (IF i < p THEN i ELSE i + 1) /\ d[i] = c[m]
        BY <1>0, <2>3
      <3>2. PICK n \in 1 .. Len(c) : n = (IF j < p THEN j ELSE j + 1) /\ d[j] = c[n]
        BY <1>0, <2>3
      <3>3. m = n
        BY <3>1, <3>2 DEF Good, Distinct
      <3> QED
        BY <3>1, <3>2, <3>3
    <2>6. DOMAIN d = 1 .. Len(d)
      BY <2>3
    <2>7. Entries(d) \subseteq Entries(c)
      BY <1>0, <2>4, <2>6 DEF Entries
    <2>8. \A i \in 1 .. Len(d) : d[i][1] # k
      BY <2>1, <2>4 DEF Good, Distinct
    <2>9. k \notin Keys(d)
      BY <2>6, <2>8 DEF Keys, Entries
    <2>10. Len(d) =< Size
      BY <1>0, <2>3, MemoryAssumption
    <2> QED
      BY <2>2, <2>3, <2>5, <2>7, <2>9, <2>10 DEF Good
  <1> QED
    BY <1>1, <1>2

\* A pair is added that has neither a key nor a value of the list.
LEMMA Adds ==
  ASSUME NEW S, NEW c \in Seq(S), Distinct(c), NEW e \in S, Fresh(c, e)
  PROVE  /\ Append(c, e) \in Seq(S) /\ Len(Append(c, e)) = Len(c) + 1
         /\ Distinct(Append(c, e))
         /\ Append(c, e)[Len(c) + 1] = e
         /\ \A i \in 1 .. Len(c) : Append(c, e)[i] = c[i]
         /\ Entries(Append(c, e)) = Entries(c) \cup {e}
  <1>0. Len(c) \in Nat /\ DOMAIN c = 1 .. Len(c)
    OBVIOUS
  <1>2. PICK d : d = Append(c, e)
    OBVIOUS
  <1>3. /\ d \in Seq(S) /\ Len(d) = Len(c) + 1 /\ d[Len(c) + 1] = e
        /\ \A i \in 1 .. Len(c) : d[i] = c[i]
    BY <1>2
  <1>4. Distinct(d)
    <2>1. \A i \in 1 .. Len(c) : d[i][1] # d[Len(c) + 1][1] /\ d[i][2] # d[Len(c) + 1][2]
      BY <1>3 DEF Fresh
    <2>2. \A i \in 1 .. Len(d) : i \in 1 .. Len(c) \/ i = Len(c) + 1
      BY <1>0, <1>3
    <2>3. \A i, j \in 1 .. Len(c) : d[i][1] = d[j][1] \/ d[i][2] = d[j][2] => i = j
      BY <1>3 DEF Distinct
    <2> QED
      BY <2>1, <2>2, <2>3 DEF Distinct
  <1>5. Entries(d) = Entries(c) \cup {e}
    <2>1. DOMAIN d = 1 .. Len(c) + 1
      BY <1>0, <1>3
    <2>2. \A i \in 1 .. Len(c) + 1 : i \in 1 .. Len(c) \/ i = Len(c) + 1
      BY <1>0
    <2>3. 1 .. Len(c) \subseteq 1 .. Len(c) + 1 /\ Len(c) + 1 \in 1 .. Len(c) + 1
      BY <1>0
    <2> QED
      BY <1>0, <1>3, <2>1, <2>2, <2>3 DEF Entries
  <1> QED
    BY <1>2, <1>3, <1>4, <1>5

\* The list of before without what is left out by Touch and Set.
LEMMA Touches ==
  ASSUME NEW A, NEW B, NEW c, Good(c, A, B), NEW k
  PROVE  /\ Good(Touch(c, k), A, B) /\ Entries(Touch(c, k)) = Entries(c)
         /\ Delete(Touch(c, k), k) = Delete(c, k)
  <1>0. c \in Seq(A \X B) /\ Len(c) \in Nat /\ Len(c) =< Size /\ DOMAIN c = 1 .. Len(c)
    BY DEF Good
  <1>1. CASE k \notin Keys(c)
    BY <1>1 DEF Touch
  <1>2. CASE k \in Keys(c)
    <2>1. PICK p \in 1 .. Len(c) : p = Pos(c, k) /\ c[p][1] = k
      BY <1>2, HasPos
    <2>2. PICK d : d = Without(c, p) /\ d = Delete(c, k)
      BY <1>2, <2>1 DEF Delete
    <2>0. /\ d \in Seq(A \X B) /\ Len(d) = Len(c) - 1
          /\ \A i \in 1 .. Len(c) - 1 : d[i] = c[IF i < p THEN i ELSE i + 1]
      BY <1>0, <2>2, Removed
    <2>3. /\ d \in Seq(A \X B) /\ Len(d) = Len(c) - 1 /\ Len(d) \in Nat
          /\ \A i \in 1 .. Len(c) - 1 : d[i] = c[IF i < p THEN i ELSE i + 1]
      BY <2>0
    <2>5. \A i \in 1 .. Len(d) : \E j \in 1 .. Len(c) : j # p /\ d[i] = c[j]
      <3> SUFFICES ASSUME NEW i \in 1 .. Len(c) - 1
                   PROVE  \E j \in 1 .. Len(c) : j # p /\ d[i] = c[j]
        BY <2>0
      <3>1. CASE i < p
        <4>1. i \in 1 .. Len(c) /\ i # p /\ d[i] = c[i]
          BY <1>0, <2>0, <3>1
        <4> QED
          BY <4>1
      <3>2. CASE ~(i < p)
        <4>1. i + 1 \in 1 .. Len(c) /\ i + 1 # p /\ d[i] = c[i + 1]
          BY <1>0, <2>0, <3>2
        <4> QED
          BY <4>1
      <3> QED
        BY <3>1, <3>2
    <2>6. Fresh(d, c[p])
      BY <2>5 DEF Good, Distinct, Fresh
    <2>7. Good(d, A, B)
      BY <2>2, Deletes
    <2>8. PICK e : e = Append(d, c[p])
      OBVIOUS
    <2>9. /\ e \in Seq(A \X B) /\ Len(e) = Len(d) + 1 /\ Distinct(e)
          /\ e[Len(d) + 1] = c[p] /\ \A i \in 1 .. Len(d) : e[i] = d[i]
          /\ Entries(e) = Entries(d) \cup {c[p]}
      <3>1. d \in Seq(A \X B) /\ Distinct(d) /\ c[p] \in A \X B
        BY <1>0, <2>7 DEF Good
      <3> QED
        BY <2>6, <2>8, <3>1, Adds
    <2>10. Good(e, A, B)
      BY <1>0, <2>3, <2>9 DEF Good
    <2>11. Entries(e) = Entries(c)
      <3>1. Entries(d) \subseteq Entries(c)
        BY <2>2, Deletes
      <3>2. c[p] \in Entries(c)
        BY <1>0 DEF Entries
      <3>3. ASSUME NEW i \in 1 .. Len(c) PROVE c[i] \in Entries(e)
        <4>1. CASE i = p
          BY <2>9, <4>1
        <4>2. CASE i # p
          <5>1. PICK j \in 1 .. Len(d) : d[j] = c[i]
            <6>1. CASE i < p
              BY <1>0, <2>3, <6>1
            <6>2. CASE i > p
              <7>1. i - 1 \in 1 .. Len(d) /\ d[i - 1] = c[i]
                BY <1>0, <2>3, <6>2
              <7> QED
                BY <7>1
            <6> QED
              BY <4>2, <6>1, <6>2
          <5>2. DOMAIN d = 1 .. Len(d)
            BY <2>3
          <5> QED
            BY <2>9, <5>1, <5>2 DEF Entries
        <4> QED
          BY <4>1, <4>2
      <3> QED
        BY <1>0, <2>9, <3>1, <3>2, <3>3 DEF Entries
    <2>12. Touch(c, k) = e
      BY <1>2, <2>1, <2>2, <2>8 DEF Touch
    <2>13. Delete(e, k) = d
      <3>1. Len(e) \in 1 .. Len(e) /\ e[Len(e)][1] = k
        BY <2>1, <2>3, <2>9
      <3>2. k \in Keys(e) /\ Pos(e, k) = Len(e)
        BY <2>10, <3>1, PosIs
      <3>3. Delete(e, k) = Without(e, Len(e))
        BY <3>2 DEF Delete
      <3>4. PICK f : f = Without(e, Len(e))
        OBVIOUS
      <3>5. /\ f \in Seq(A \X B) /\ Len(f) = Len(e) - 1
            /\ \A i \in 1 .. Len(e) - 1 : f[i] = e[IF i < Len(e) THEN i ELSE i + 1]
        BY <2>9, <3>1, <3>4, Removed
      <3>6. Len(f) = Len(d) /\ \A i \in 1 .. Len(f) : f[i] = d[i]
        BY <2>3, <2>9, <3>5
      <3>7. f = d
        BY <2>3, <3>5, <3>6, SeqEqual
      <3> QED
        BY <3>3, <3>4, <3>7
    <2> QED
      BY <2>2, <2>10, <2>11, <2>12, <2>13
  <1> QED
    BY <1>1, <1>2

\* Deleting and touching do to the two directions the same.
LEMMA FlipDeletes ==
  ASSUME NEW A, NEW B, NEW c, Good(c, A, B), NEW k \in Keys(c), NEW v, v = Value(c, k)
  PROVE  /\ v \in Keys(Flipped(c)) /\ Value(Flipped(c), v) = k
         /\ Delete(Flipped(c), v) = Flipped(Delete(c, k))
         /\ Touch(Flipped(c), v) = Flipped(Touch(c, k))
  <1>0. c \in Seq(A \X B) /\ Len(c) \in Nat /\ Len(c) =< Size /\ DOMAIN c = 1 .. Len(c)
    BY DEF Good
  <1>1. PICK p \in 1 .. Len(c) : p = Pos(c, k) /\ c[p][1] = k /\ c[p][2] = v
    BY HasPos DEF Value
  <1>2. PICK x : x = Flipped(c)
    OBVIOUS
  <1>3. Good(x, B, A) /\ Len(x) = Len(c) /\ \A i \in 1 .. Len(c) : x[i] = <<c[i][2], c[i][1]>>
    BY <1>2, Flips
  <1>4. x[p][1] = v /\ x[p][2] = k /\ p \in 1 .. Len(x)
    BY <1>1, <1>3
  <1>5. v \in Keys(x) /\ Pos(x, v) = p
    BY <1>3, <1>4, PosIs
  <1>6. Value(x, v) = k
    BY <1>4, <1>5 DEF Value
  <1>7. PICK d, y : d = Without(c, p) /\ y = Without(x, p)
    OBVIOUS
  <1>8. /\ d \in Seq(A \X B) /\ Len(d) = Len(c) - 1
        /\ \A i \in 1 .. Len(c) - 1 : d[i] = c[IF i < p THEN i ELSE i + 1]
    BY <1>0, <1>7, Removed
  <1>9. /\ y \in Seq(B \X A) /\ Len(y) = Len(c) - 1
        /\ \A i \in 1 .. Len(c) - 1 : y[i] = x[IF i < p THEN i ELSE i + 1]
    BY <1>3, <1>4, <1>7, Removed DEF Good
  <1>10. Delete(c, k) = d /\ Delete(x, v) = y
    BY <1>1, <1>5, <1>7 DEF Delete
  <1>11. Good(d, A, B) /\ Good(y, B, A)
    BY <1>3, <1>10, Deletes
  <1>12. y = Flipped(d)
    <2>1. PICK z : z = Flipped(d)
      OBVIOUS
    <2>2. Good(z, B, A) /\ Len(z) = Len(d) /\ \A i \in 1 .. Len(d) : z[i] = <<d[i][2], d[i][1]>>
      BY <1>11, <2>1, Flips
    <2>3. ASSUME NEW i \in 1 .. Len(c) - 1 PROVE y[i] = z[i]
      <3>1. PICK j \in 1 .. Len(c) : d[i] = c[j] /\ y[i] = x[j]
        <4>1. PICK j : j = IF i < p THEN i ELSE i + 1
          OBVIOUS
        <4>2. j \in 1 .. Len(c)
          BY <1>0, <4>1
        <4>3. d[i] = c[j] /\ y[i] = x[j]
          BY <1>8, <1>9, <4>1
        <4> QED
          BY <4>2, <4>3
      <3>2. z[i] = <<d[i][2], d[i][1]>>
        BY <1>8, <2>2
      <3>3. x[j] = <<c[j][2], c[j][1]>>
        BY <1>3
      <3> QED
        BY <3>1, <3>2, <3>3
    <2>4. \A i \in 1 .. Len(y) : y[i] = z[i]
      BY <1>9, <2>3
    <2>5. z \in Seq(B \X A) /\ Len(y) = Len(z)
      BY <1>8, <1>9, <2>2 DEF Good
    <2>6. y = z
      BY <1>9, <2>4, <2>5, SeqEqual
    <2> QED
      BY <2>1, <2>6
  <1>13. Touch(x, v) = Flipped(Touch(c, k))
    <2>1. Touch(c, k) = Append(d, c[p]) /\ Touch(x, v) = Append(y, x[p])
      BY <1>1, <1>5, <1>10 DEF Touch
    <2>2. PICK e, w : e = Touch(c, k) /\ w = Touch(x, v)
      OBVIOUS
    <2>3. Good(e, A, B) /\ Good(w, B, A)
      BY <1>3, <2>2, Touches
    <2>4. c[p] \in A \X B /\ x[p] \in B \X A
      BY <1>0, <1>1, <1>3, <1>4 DEF Good
    <2>5. /\ Len(e) = Len(d) + 1 /\ e[Len(d) + 1] = c[p] /\ \A i \in 1 .. Len(d) : e[i] = d[i]
      BY <1>8, <2>1, <2>2, <2>4
    <2>6. /\ Len(w) = Len(y) + 1 /\ w[Len(y) + 1] = x[p] /\ \A i \in 1 .. Len(y) : w[i] = y[i]
      BY <1>9, <2>1, <2>2, <2>4
    <2>7. PICK z : z = Flipped(e)
      OBVIOUS
    <2>8. Good(z, B, A) /\ Len(z) = Len(e) /\ \A i \in 1 .. Len(e) : z[i] = <<e[i][2], e[i][1]>>
      BY <2>3, <2>7, Flips
    <2>9. Len(d) \in Nat /\ Len(y) = Len(d) /\ Len(d) = Len(c) - 1
      BY <1>8, <1>9
    <2>10. \A i \in 1 .. Len(d) : y[i] = <<d[i][2], d[i][1]>>
      BY <1>11, <1>12, Flips
    <2>11. ASSUME NEW i \in 1 .. Len(w) PROVE w[i] = z[i]
      <3>1. CASE i = Len(d) + 1
        <4>1. w[i] = x[p] /\ e[i] = c[p]
          BY <2>5, <2>6, <2>9, <3>1
        <4>2. i \in 1 .. Len(e)
          BY <2>5, <2>9, <3>1
        <4>3. z[i] = <<e[i][2], e[i][1]>> /\ x[p] = <<c[p][2], c[p][1]>>
          BY <1>3, <2>8, <4>2
        <4> QED
          BY <4>1, <4>3
      <3>2. CASE i # Len(d) + 1
        <4>1. i \in 1 .. Len(d)
          BY <2>6, <2>9, <3>2
        <4> QED
          BY <2>5, <2>6, <2>8, <2>9, <2>10, <4>1
      <3> QED
        BY <3>1, <3>2
    <2>12. w \in Seq(B \X A) /\ z \in Seq(B \X A) /\ Len(w) = Len(z)
      BY <2>3, <2>5, <2>6, <2>8, <2>9 DEF Good
    <2>13. w = z
      BY <2>11, <2>12, SeqEqual
    <2> QED
      BY <2>2, <2>7, <2>13
  <1> QED
    BY <1>2, <1>5, <1>6, <1>10, <1>12, <1>13

\* A new pair goes to the back of the two directions alike, and the oldest goes.
LEMMA SetsNew ==
  ASSUME NEW A, NEW B, NEW c, Good(c, A, B), NEW a \in A, NEW b \in B,
         Fresh(c, <<a, b>>)
  PROVE  /\ Good(Set(c, a, b), A, B)
         /\ Entries(Set(c, a, b)) \subseteq Entries(c) \cup {<<a, b>>}
         /\ <<a, b>> \in Entries(Set(c, a, b))
         /\ Set(Flipped(c), b, a) = Flipped(Set(c, a, b))
  <1>0. c \in Seq(A \X B) /\ Len(c) \in Nat /\ Len(c) =< Size /\ DOMAIN c = 1 .. Len(c)
        /\ Distinct(c) /\ Size \in Nat \ {0}
    BY MemoryAssumption DEF Good
  <1>1. PICK x : x = Flipped(c)
    OBVIOUS
  <1>2. Good(x, B, A) /\ Len(x) = Len(c) /\ \A i \in 1 .. Len(c) : x[i] = <<c[i][2], c[i][1]>>
    BY <1>1, Flips
  <1>3. x \in Seq(B \X A) /\ Distinct(x) /\ DOMAIN x = 1 .. Len(x)
    BY <1>2 DEF Good
  <1>4. Fresh(x, <<b, a>>)
    BY <1>2 DEF Fresh
  <1>5. PICK e, w : e = <<a, b>> /\ w = <<b, a>>
    OBVIOUS
  <1>6. e \in A \X B /\ w \in B \X A /\ Fresh(c, e) /\ Fresh(x, w)
    BY <1>4, <1>5
  <1>7. PICK d, y : d = Append(c, e) /\ y = Append(x, w)
    OBVIOUS
  <1>8. /\ d \in Seq(A \X B) /\ Len(d) = Len(c) + 1 /\ Distinct(d) /\ d[Len(c) + 1] = e
        /\ \A i \in 1 .. Len(c) : d[i] = c[i]
        /\ Entries(d) = Entries(c) \cup {e}
    BY <1>0, <1>6, <1>7, Adds
  <1>9. /\ y \in Seq(B \X A) /\ Len(y) = Len(x) + 1 /\ Distinct(y) /\ y[Len(x) + 1] = w
        /\ \A i \in 1 .. Len(x) : y[i] = x[i]
    BY <1>3, <1>6, <1>7, Adds
  <1>10. a \notin Keys(c) /\ b \notin Keys(x)
    BY <1>0, <1>3, <1>4 DEF Keys, Entries, Fresh
  <1>11. /\ Set(c, a, b) = IF Len(d) > Size THEN Tail(d) ELSE d
         /\ Set(x, b, a) = IF Len(y) > Size THEN Tail(y) ELSE y
    BY <1>5, <1>7, <1>10 DEF Set, Delete
  <1>12. \A i \in 1 .. Len(c) + 1 : y[i] = <<d[i][2], d[i][1]>>
    <2> SUFFICES ASSUME NEW i \in 1 .. Len(c) + 1 PROVE y[i] = <<d[i][2], d[i][1]>>
      OBVIOUS
    <2>1. CASE i = Len(c) + 1
      BY <1>2, <1>5, <1>8, <1>9, <2>1
    <2>2. CASE i # Len(c) + 1
      <3>1. i \in 1 .. Len(c)
        BY <1>0, <2>2
      <3> QED
        BY <1>2, <1>8, <1>9, <3>1
    <2> QED
      BY <2>1, <2>2
  <1>13. CASE Len(c) < Size
    <2>1. Set(c, a, b) = d /\ Set(x, b, a) = y
      BY <1>0, <1>2, <1>8, <1>9, <1>11, <1>13
    <2>2. Good(d, A, B)
      BY <1>0, <1>8, <1>13 DEF Good
    <2>3. PICK z : z = Flipped(d)
      OBVIOUS
    <2>4. Good(z, B, A) /\ Len(z) = Len(d) /\ \A i \in 1 .. Len(d) : z[i] = <<d[i][2], d[i][1]>>
      BY <2>2, <2>3, Flips
    <2>5. z \in Seq(B \X A) /\ Len(z) = Len(y) /\ \A i \in 1 .. Len(y) : y[i] = z[i]
      BY <1>2, <1>8, <1>9, <1>12, <2>4 DEF Good
    <2>6. y = z
      BY <1>9, <2>5, SeqEqual
    <2> QED
      BY <1>1, <1>5, <1>8, <2>1, <2>2, <2>3, <2>6
  <1>14. CASE Len(c) = Size
    <2>1. PICK f, g : f = Tail(d) /\ g = Tail(y)
      OBVIOUS
    <2>2. Set(c, a, b) = f /\ Set(x, b, a) = g
      BY <1>0, <1>2, <1>8, <1>9, <1>11, <1>14, <2>1
    <2>3. f \in Seq(A \X B) /\ Len(f) = Len(c) /\ \A i \in 1 .. Len(c) : f[i] = d[i + 1]
      <3>1. d # <<>>
        BY <1>0, <1>8
      <3> QED
        BY <1>0, <1>8, <2>1, <3>1
    <2>4. g \in Seq(B \X A) /\ Len(g) = Len(c) /\ \A i \in 1 .. Len(c) : g[i] = y[i + 1]
      <3>1. y # <<>>
        BY <1>0, <1>2, <1>9
      <3> QED
        BY <1>0, <1>2, <1>9, <2>1, <3>1
    <2>5. \A i \in 1 .. Len(c) : i + 1 \in 1 .. Len(d) /\ i + 1 \in 1 .. Len(c) + 1
      BY <1>0, <1>8
    <2>6. Distinct(f)
      BY <1>0, <1>8, <2>3, <2>5 DEF Distinct
    <2>7. Good(f, A, B)
      BY <1>0, <2>3, <2>6 DEF Good
    <2>8. DOMAIN f = 1 .. Len(c) /\ DOMAIN d = 1 .. Len(d)
      BY <1>8, <2>3
    <2>9. Entries(f) \subseteq Entries(d)
      BY <2>3, <2>5, <2>8 DEF Entries
    <2>10. e \in Entries(f)
      <3>1. Len(c) \in 1 .. Len(c) /\ f[Len(c)] = e
        BY <1>0, <1>8, <1>14, <2>3
      <3> QED
        BY <2>8, <3>1 DEF Entries
    <2>11. PICK z : z = Flipped(f)
      OBVIOUS
    <2>12. Good(z, B, A) /\ Len(z) = Len(f) /\ \A i \in 1 .. Len(f) : z[i] = <<f[i][2], f[i][1]>>
      BY <2>7, <2>11, Flips
    <2>13. z \in Seq(B \X A) /\ Len(z) = Len(g) /\ \A i \in 1 .. Len(g) : g[i] = z[i]
      BY <1>12, <2>3, <2>4, <2>5, <2>12 DEF Good
    <2>14. g = z
      BY <2>4, <2>13, SeqEqual
    <2> QED
      BY <1>1, <1>5, <1>8, <2>2, <2>7, <2>9, <2>10, <2>11, <2>14
  <1>15. Len(c) < Size \/ Len(c) = Size
    <2>1. PICK n, m : n = Len(c) /\ m = Size
      OBVIOUS
    <2>2. n \in Int /\ m \in Int /\ n =< m
      BY <1>0, <2>1
    <2>3. n < m \/ n = m
      BY <2>2
    <2> QED
      BY <2>1, <2>3
  <1> QED
    BY <1>13, <1>14, <1>15
-----------------------------------------------------------------------------
Types ==
  /\ offset \in Offsets
  /\ cycle \in BOOLEAN
  /\ mux \in Queries \cup {None}
  /\ pc \in [Queries -> PCs]
  /\ host \in [Queries -> Hosts \cup {None}]
  /\ ip \in [Queries -> Hosts \cup Offsets \cup {None}]
  /\ flushing \in {"no", "host", "place"}
  /\ cloning \in {"no", "host", "switch"}

Lists ==
  /\ Good(cacheIP, Hosts, Offsets) /\ Good(newIP, Hosts, Offsets)
  /\ Good(cacheHost, Offsets, Hosts) /\ Good(newHost, Offsets, Hosts)

\* Only the holder of the mutex is at work.
Exclusive ==
  /\ \A t \in Queries : pc[t] # "idle" => mux = t
  /\ mux # None => pc[mux] # "idle"

Mirrors == cacheHost = Flipped(cacheIP)

\* How far the lists differ at each step of a hit or a look-back ...
Looking(t) ==
  /\ pc[t] = "touchHost" => Touch(cacheHost, ip[t]) = Flipped(cacheIP)
  /\ pc[t] = "touchIP" => cacheHost = Flipped(Touch(cacheIP, host[t]))

\* ... and of a host that is given an address.
Giving(t) ==
  /\ pc[t] \notin {"idle", "touchHost", "touchIP"} =>
       host[t] \in Hosts /\ host[t] \notin Keys(cacheIP)
  /\ pc[t] \in {"next", "reuse", "putIP"} => Mirrors
  /\ pc[t] \notin {"idle", "touchHost", "touchIP", "next"} => offset \in Addrs
  /\ pc[t] = "unlink" => Delete(cacheIP, ip[t]) = Flipped(Delete(cacheHost, offset))
  /\ pc[t] = "drop" => cacheIP = Flipped(Delete(cacheHost, offset))
  /\ pc[t] = "putIP" => offset \notin Keys(cacheHost)
  /\ pc[t] \in {"ret", "putHost"} =>
       /\ Fresh(cacheIP, <<host[t], offset>>)
       /\ cacheHost = Flipped(Set(cacheIP, host[t], offset))
  /\ pc[t] = "putHost" => ip[t] = offset

Alike ==
  flushing = "no" =>
    /\ mux = None => Mirrors
    /\ \A t \in Queries : Looking(t) /\ Giving(t)

Flushes ==
  /\ flushing # "no" => cacheIP = <<>>
  /\ flushing = "place" => cacheHost = <<>>

\* The copies are alike, and hold the answers in force.
Reload ==
  /\ cloning = "host" => newIP = cacheIP
  /\ cloning = "switch" => newHost = Flipped(newIP)
  /\ cloning # "no" => Entries(newIP) = Entries(cacheIP)

Kept == Exclusive /\ Alike /\ Flushes /\ Reload

\* Types and lists for ever, the rest until an overlap.
IInv == Types /\ Lists /\ raced \in BOOLEAN /\ (~raced => ~Overlap /\ Kept)

-----------------------------------------------------------------------------
LEMMA FlipFlip ==
  ASSUME NEW A, NEW B, NEW c, Good(c, A, B)
  PROVE  Flipped(Flipped(c)) = c
  <1>0. c \in Seq(A \X B) /\ Len(c) \in Nat
    BY DEF Good
  <1>1. PICK x, z : x = Flipped(c) /\ z = Flipped(x)
    OBVIOUS
  <1>2. Good(x, B, A) /\ Len(x) = Len(c) /\ \A i \in 1 .. Len(c) : x[i] = <<c[i][2], c[i][1]>>
    BY <1>1, Flips
  <1>3. Good(z, A, B) /\ Len(z) = Len(x) /\ \A i \in 1 .. Len(x) : z[i] = <<x[i][2], x[i][1]>>
    BY <1>1, <1>2, Flips
  <1>4. \A i \in 1 .. Len(c) : c[i] = <<c[i][1], c[i][2]>>
    BY <1>0
  <1>5. \A i \in 1 .. Len(c) : z[i] = c[i]
    BY <1>2, <1>3, <1>4
  <1>6. z \in Seq(A \X B) /\ Len(z) = Len(c)
    BY <1>2, <1>3 DEF Good
  <1>7. z = c
    BY <1>0, <1>5, <1>6, SeqEqual
  <1> QED
    BY <1>1, <1>7

\* The entry of a key.
LEMMA Entry ==
  ASSUME NEW A, NEW B, NEW c, Good(c, A, B), NEW k \in Keys(c)
  PROVE  k \in A /\ Value(c, k) \in B
  <1>1. PICK p \in 1 .. Len(c) : p = Pos(c, k) /\ c[p][1] = k
    BY HasPos
  <1>2. c[p] \in A \X B
    BY DEF Good
  <1> QED
    BY <1>1, <1>2 DEF Value

LEMMA Nothing ==
  /\ \A A, B : Good(<<>>, A, B)
  /\ Flipped(<<>>) = <<>> /\ Entries(<<>>) = {} /\ Keys(<<>>) = {}
  /\ \A k : Touch(<<>>, k) = <<>>
  <1>1. Entries(<<>>) = {} /\ Keys(<<>>) = {}
    BY DEF Entries, Keys
  <1>2. \A k : Touch(<<>>, k) = <<>>
    BY <1>1 DEF Touch
  <1>3. ASSUME NEW A, NEW B PROVE Good(<<>>, A, B)
    <2>1. <<>> \in Seq(A \X B) /\ Len(<<>>) = 0
      OBVIOUS
    <2>2. 1 .. 0 = {}
      OBVIOUS
    <2> QED
      BY <2>1, <2>2, MemoryAssumption DEF Good, Distinct
  <1>4. Flipped(<<>>) = <<>>
    BY DEF Flipped
  <1> QED
    BY <1>1, <1>2, <1>3, <1>4

\* A host without an address and an address without a host make a new pair.
LEMMA NewPair ==
  ASSUME NEW A, NEW B, NEW c, Good(c, A, B), NEW a, a \notin Keys(c),
         NEW b, b \notin Keys(Flipped(c))
  PROVE  Fresh(c, <<a, b>>)
  <1>1. DOMAIN c = 1 .. Len(c)
    BY DEF Good
  <1>2. PICK x : x = Flipped(c)
    OBVIOUS
  <1>3. Good(x, B, A) /\ Len(x) = Len(c) /\ \A i \in 1 .. Len(c) : x[i] = <<c[i][2], c[i][1]>>
    BY <1>2, Flips
  <1>4. DOMAIN x = 1 .. Len(x)
    BY <1>3 DEF Good
  <1>5. \A i \in 1 .. Len(c) : c[i][1] \in Keys(c)
    BY <1>1 DEF Keys, Entries
  <1>6. \A i \in 1 .. Len(x) : x[i][1] \in Keys(x)
    BY <1>4 DEF Keys, Entries
  <1>7. \A i \in 1 .. Len(c) : c[i][2] \in Keys(x)
    BY <1>3, <1>6
  <1> QED
    BY <1>2, <1>5, <1>7 DEF Fresh

-----------------------------------------------------------------------------
\* While a query is at work no other is.
LEMMA Alone ==
  ASSUME IInv, ~raced, NEW t \in Queries, mux = None \/ pc[t] # "idle"
  PROVE  /\ \A u \in Queries \ {t} : pc[u] = "idle"
         /\ pc[t] # "idle" => mux = t
  BY MemoryAssumption DEF IInv, Kept, Exclusive

\* A query that gives a host an address runs beside neither a flush nor a reload.
LEMMA Undisturbed ==
  ASSUME IInv, ~raced, NEW t \in Queries, pc[t] \notin {"idle", "touchHost", "touchIP"}
  PROVE  /\ flushing = "no" /\ cloning = "no" /\ mux = t
         /\ Looking(t) /\ Giving(t)
         /\ Good(cacheIP, Hosts, Offsets) /\ Good(cacheHost, Offsets, Hosts)
  <1>1. flushing = "no" /\ cloning = "no"
    BY DEF IInv, Overlap, Moving
  <1>2. mux = t
    BY Alone
  <1> QED
    BY <1>1, <1>2 DEF IInv, Kept, Alike, Lists

\* What the others hold is held when they are idle.
LEMMA AlikeThen ==
  ASSUME NEW t \in Queries, \A u \in Queries \ {t} : pc'[u] = "idle",
         flushing' = "no" => (mux' = None => Mirrors') /\ Looking(t)' /\ Giving(t)'
  PROVE  Alike'
  <1>1. ASSUME NEW u \in Queries \ {t} PROVE Looking(u)' /\ Giving(u)'
    BY <1>1 DEF Looking, Giving
  <1> QED
    BY <1>1 DEF Alike
-----------------------------------------------------------------------------
(***************************************************************************)
(* The steps of a query.                                                   *)
(***************************************************************************)
LEMMA LookupHitKeeps ==
  ASSUME IInv, ~raced, NEW t \in Queries, LookupHit(t)
  PROVE  Types' /\ Lists' /\ (~Overlap' => Kept')
  <1>0. Types /\ Lists /\ Kept
    BY DEF IInv
  <1>1. PICK h \in Keys(cacheIP) :
          /\ Enter(t, "touchHost", h, Value(cacheIP, h))
          /\ cacheIP' = Touch(cacheIP, h) /\ UNCHANGED cacheHost
    BY DEF LookupHit
  <1>2. \A u \in Queries \ {t} : pc[u] = "idle"
    BY <1>1, Alone DEF Enter
  <1>3. flushing = "no" /\ Mirrors
    BY <1>0, <1>1, Nothing DEF Kept, Flushes, Alike, Enter, Types
  <1>4. PICK v : v = Value(cacheIP, h) /\ h \in Hosts /\ v \in Offsets
    BY <1>0, <1>1, Entry DEF Lists
  <1>5. Touch(Flipped(cacheIP), v) = Flipped(Touch(cacheIP, h))
    BY <1>0, <1>1, <1>4, FlipDeletes DEF Lists
  <1>6. Good(cacheIP', Hosts, Offsets) /\ Entries(cacheIP') = Entries(cacheIP)
    BY <1>0, <1>1, Touches DEF Lists
  <1>7. Types'
    BY <1>0, <1>1, <1>4 DEF Types, Enter, Goto, PCs, place, reload
  <1>8. Lists'
    BY <1>0, <1>1, <1>6 DEF Lists, Enter, reload
  <1>9. ASSUME ~Overlap' PROVE Kept'
    <2>1. mux' = t /\ mux' # None /\ pc'[t] = "touchHost" /\ \A u \in Queries \ {t} : pc'[u] = "idle"
      BY <1>0, <1>1, <1>2, MemoryAssumption DEF Enter, Goto, Types
    <2>2. Exclusive'
      BY <2>1 DEF Exclusive
    <2>3. Touch(cacheHost', ip'[t]) = Flipped(cacheIP')
      BY <1>0, <1>1, <1>3, <1>4, <1>5 DEF Enter, Types, Mirrors
    <2>4. Looking(t)' /\ Giving(t)'
      BY <2>1, <2>3 DEF Looking, Giving
    <2>5. Alike'
      BY <2>1, <2>4, AlikeThen
    <2>6. Flushes'
      BY <1>1, <1>3 DEF Flushes, Enter
    <2>7. cloning' # "host"
      BY <1>9, <2>1 DEF Overlap
    <2>8. Reload'
      BY <1>0, <1>1, <1>6, <2>7 DEF Kept, Reload, Enter, reload
    <2> QED
      BY <2>2, <2>5, <2>6, <2>8 DEF Kept
  <1> QED
    BY <1>7, <1>8, <1>9

LEMMA TouchHostKeeps ==
  ASSUME IInv, ~raced, NEW t \in Queries, TouchHost(t)
  PROVE  Types' /\ Lists' /\ (~Overlap' => Kept')
  <1>0. Types /\ Lists /\ Kept
    BY DEF IInv
  <1>1. /\ pc[t] = "touchHost" /\ cacheHost' = Touch(cacheHost, ip[t]) /\ UNCHANGED cacheIP
        /\ Leave(t)
    BY DEF TouchHost, HostTouched
  <1>2. (\A u \in Queries \ {t} : pc[u] = "idle") /\ mux = t
    BY <1>1, Alone
  <1>3. Good(cacheHost', Offsets, Hosts)
    BY <1>0, <1>1, Touches DEF Lists
  <1>4. Types'
    BY <1>0, <1>1 DEF Types, Leave, Goto, PCs, place, reload
  <1>5. Lists'
    BY <1>0, <1>1, <1>3 DEF Lists, Leave, reload
  <1>6. mux' = None /\ \A u \in Queries : pc'[u] = "idle"
    BY <1>0, <1>1, <1>2 DEF Leave, Goto, Types
  <1>7. Exclusive'
    BY <1>6 DEF Exclusive
  <1>8. Alike'
    <2>1. flushing' = "no" => Mirrors'
      BY <1>0, <1>1 DEF Kept, Alike, Looking, Mirrors, Leave
    <2>2. Looking(t)' /\ Giving(t)'
      BY <1>6 DEF Looking, Giving
    <2> QED
      BY <1>6, <2>1, <2>2, AlikeThen
  <1>9. Flushes'
    BY <1>0, <1>1, Nothing DEF Kept, Flushes, Leave
  <1>10. Reload'
    BY <1>0, <1>1 DEF Kept, Reload, Leave, reload
  <1> QED
    BY <1>4, <1>5, <1>7, <1>8, <1>9, <1>10 DEF Kept

LEMMA LookBackKeeps ==
  ASSUME IInv, ~raced, NEW t \in Queries, LookBack(t)
  PROVE  Types' /\ Lists' /\ (~Overlap' => Kept')
  <1>0. Types /\ Lists /\ Kept
    BY DEF IInv
  <1>1. PICK i \in Keys(cacheHost) :
          /\ Enter(t, "touchIP", Value(cacheHost, i), i)
          /\ cacheHost' = Touch(cacheHost, i) /\ UNCHANGED cacheIP
    BY DEF LookBack
  <1>2. \A u \in Queries \ {t} : pc[u] = "idle"
    BY <1>1, Alone DEF Enter
  <1>3. PICK v : v = Value(cacheHost, i) /\ i \in Offsets /\ v \in Hosts
    BY <1>0, <1>1, Entry DEF Lists
  <1>4. Touch(Flipped(cacheHost), v) = Flipped(Touch(cacheHost, i))
    BY <1>0, <1>1, <1>3, FlipDeletes DEF Lists
  <1>5. Good(cacheHost', Offsets, Hosts)
    BY <1>0, <1>1, Touches DEF Lists
  <1>6. Types'
    BY <1>0, <1>1, <1>3 DEF Types, Enter, Goto, PCs, place, reload
  <1>7. Lists'
    BY <1>0, <1>1, <1>5 DEF Lists, Enter, reload
  <1>8. ASSUME ~Overlap' PROVE Kept'
    <2>1. mux' = t /\ mux' # None /\ pc'[t] = "touchIP" /\ \A u \in Queries \ {t} : pc'[u] = "idle"
      BY <1>0, <1>1, <1>2, MemoryAssumption DEF Enter, Goto, Types
    <2>2. Exclusive'
      BY <2>1 DEF Exclusive
    <2>3. flushing' = "no" => cacheHost' = Flipped(Touch(cacheIP', host'[t]))
      <3> SUFFICES ASSUME flushing' = "no" PROVE cacheHost' = Flipped(Touch(cacheIP', host'[t]))
        OBVIOUS
      <3>1. cacheHost = Flipped(cacheIP) /\ host'[t] = v
        BY <1>0, <1>1, <1>3 DEF Kept, Alike, Enter, Types, Mirrors
      <3>2. Flipped(cacheHost) = cacheIP
        BY <1>0, <3>1, FlipFlip DEF Lists
      <3>3. Touch(cacheIP', host'[t]) = Flipped(cacheHost')
        BY <1>1, <1>4, <3>1, <3>2
      <3> QED
        BY <1>5, <3>3, FlipFlip
    <2>4. flushing' = "no" => Looking(t)' /\ Giving(t)'
      BY <2>1, <2>3 DEF Looking, Giving
    <2>5. Alike'
      BY <2>1, <2>4, AlikeThen
    <2>6. Flushes'
      BY <1>0, <1>1, Nothing DEF Kept, Flushes, Enter
    <2>7. Reload'
      BY <1>0, <1>1 DEF Kept, Reload, Enter, reload
    <2> QED
      BY <2>2, <2>5, <2>6, <2>7 DEF Kept
  <1> QED
    BY <1>6, <1>7, <1>8

LEMMA TouchIPKeeps ==
  ASSUME IInv, ~raced, NEW t \in Queries, TouchIP(t)
  PROVE  Types' /\ Lists' /\ (~Overlap' => Kept')
  <1>0. Types /\ Lists /\ Kept
    BY DEF IInv
  <1>1. /\ pc[t] = "touchIP" /\ cacheIP' = Touch(cacheIP, host[t]) /\ UNCHANGED cacheHost
        /\ Leave(t)
    BY DEF TouchIP
  <1>2. (\A u \in Queries \ {t} : pc[u] = "idle") /\ mux = t
    BY <1>1, Alone
  <1>3. Good(cacheIP', Hosts, Offsets) /\ Entries(cacheIP') = Entries(cacheIP)
    BY <1>0, <1>1, Touches DEF Lists
  <1>4. Types'
    BY <1>0, <1>1 DEF Types, Leave, Goto, PCs, place, reload
  <1>5. Lists'
    BY <1>0, <1>1, <1>3 DEF Lists, Leave, reload
  <1>6. mux' = None /\ \A u \in Queries : pc'[u] = "idle"
    BY <1>0, <1>1, <1>2 DEF Leave, Goto, Types
  <1>7. Exclusive'
    BY <1>6 DEF Exclusive
  <1>8. Alike'
    <2>1. flushing' = "no" => Mirrors'
      BY <1>0, <1>1 DEF Kept, Alike, Looking, Mirrors, Leave
    <2>2. Looking(t)' /\ Giving(t)'
      BY <1>6 DEF Looking, Giving
    <2> QED
      BY <1>6, <2>1, <2>2, AlikeThen
  <1>9. Flushes'
    BY <1>0, <1>1, Nothing DEF Kept, Flushes, Leave
  <1>10. cloning # "host"
    BY <1>2, MemoryAssumption DEF IInv, Overlap
  <1>11. Reload'
    BY <1>0, <1>1, <1>3, <1>10 DEF Kept, Reload, Leave, reload
  <1> QED
    BY <1>4, <1>5, <1>7, <1>8, <1>9, <1>11 DEF Kept

LEMMA LookupMissKeeps ==
  ASSUME IInv, ~raced, NEW t \in Queries, LookupMiss(t)
  PROVE  Types' /\ Lists' /\ (~Overlap' => Kept')
  <1>0. Types /\ Lists /\ Kept
    BY DEF IInv
  <1>1. PICK h \in Hosts \ Keys(cacheIP) :
          Enter(t, "next", h, None) /\ cacheIP' = cacheIP /\ cacheHost' = cacheHost
    BY DEF LookupMiss, lists
  <1>2. \A u \in Queries \ {t} : pc[u] = "idle"
    BY <1>1, Alone DEF Enter
  <1>3. Types'
    BY <1>0, <1>1 DEF Types, Enter, Goto, PCs, place, reload
  <1>4. Lists'
    BY <1>0, <1>1 DEF Lists, Enter, reload
  <1>5. /\ mux' = t /\ mux' # None /\ pc'[t] = "next" /\ host'[t] = h
        /\ \A u \in Queries \ {t} : pc'[u] = "idle"
    BY <1>0, <1>1, <1>2, MemoryAssumption DEF Enter, Goto, Types
  <1>6. Exclusive'
    BY <1>5 DEF Exclusive
  <1>7. Alike'
    <2>1. flushing' = "no" => Mirrors'
      BY <1>0, <1>1 DEF Kept, Alike, Enter, Mirrors
    <2>2. flushing' = "no" => Looking(t)' /\ Giving(t)'
      BY <1>1, <1>5, <2>1 DEF Looking, Giving
    <2> QED
      BY <1>5, <2>2, AlikeThen
  <1>8. Flushes'
    BY <1>0, <1>1 DEF Kept, Flushes, Enter
  <1>9. Reload'
    BY <1>0, <1>1 DEF Kept, Reload, Enter, reload
  <1> QED
    BY <1>3, <1>4, <1>6, <1>7, <1>8, <1>9 DEF Kept
LEMMA AdvanceKeeps ==
  ASSUME IInv, ~raced, NEW t \in Queries, Advance(t)
  PROVE  Types' /\ Lists' /\ (~Overlap' => Kept')
  <1>0. Types /\ Lists /\ Kept
    BY DEF IInv
  <1>1. /\ pc[t] = "next" /\ offset' = IF Wraps(offset) THEN First ELSE offset + 1
        /\ cycle' = (cycle \/ Wraps(offset)) /\ Goto(t, "reuse")
        /\ cacheIP' = cacheIP /\ cacheHost' = cacheHost
        /\ UNCHANGED <<mux, host, ip, flushing, cloning, newIP, newHost>>
    BY DEF Advance, lists, reload
  <1>2. flushing = "no" /\ cloning = "no" /\ mux = t /\ Giving(t)
    BY <1>1, Undisturbed
  <1>3. \A u \in Queries \ {t} : pc[u] = "idle"
    BY <1>1, Alone
  <1>4. offset' \in Addrs /\ offset' \in Offsets
    BY <1>0, <1>1, MemoryAssumption DEF Types, Wraps, Addrs, Offsets
  <1>5. cycle' \in BOOLEAN
    BY <1>0, <1>1 DEF Types, Wraps
  <1>6. Types'
    BY <1>0, <1>1, <1>4, <1>5 DEF Types, Goto, PCs
  <1>7. Lists'
    BY <1>0, <1>1 DEF Lists
  <1>8. pc'[t] = "reuse" /\ mux' = t /\ \A u \in Queries \ {t} : pc'[u] = "idle"
    BY <1>0, <1>1, <1>2, <1>3 DEF Goto, Types
  <1>9. Exclusive'
    BY <1>8 DEF Exclusive
  <1>10. Alike'
    <2>1. Looking(t)' /\ Giving(t)'
      BY <1>1, <1>2, <1>4, <1>8 DEF Looking, Giving, Mirrors
    <2>2. mux' # None
      BY <1>8, MemoryAssumption
    <2> QED
      BY <1>8, <2>1, <2>2, AlikeThen
  <1>11. Flushes' /\ Reload'
    BY <1>1, <1>2 DEF Flushes, Reload
  <1> QED
    BY <1>6, <1>7, <1>9, <1>10, <1>11 DEF Kept

LEMMA ReuseKeeps ==
  ASSUME IInv, ~raced, NEW t \in Queries, Reuse(t)
  PROVE  Types' /\ Lists' /\ (~Overlap' => Kept')
  <1>0. Types /\ Lists /\ Kept
    BY DEF IInv
  <1>1. /\ pc[t] = "reuse"
        /\ cacheIP' = cacheIP
        /\ UNCHANGED <<offset, cycle, mux, host, flushing, cloning, newIP, newHost>>
    BY DEF Reuse, place, reload
  <1>2. /\ flushing = "no" /\ cloning = "no" /\ mux = t /\ Giving(t)
        /\ cacheHost = Flipped(cacheIP) /\ offset \in Addrs
        /\ host[t] \in Hosts /\ host[t] \notin Keys(cacheIP)
    BY <1>1, Undisturbed DEF Giving, Mirrors
  <1>3. (\A u \in Queries \ {t} : pc[u] = "idle") /\ mux' # None
    BY <1>1, <1>2, Alone, MemoryAssumption
  <1>4. Flushes' /\ Reload'
    BY <1>1, <1>2 DEF Flushes, Reload
  <1>5. CASE offset \in Keys(cacheHost)
    <2>1. PICK v : v = Value(cacheHost, offset)
      OBVIOUS
    <2>2. ip' = [ip EXCEPT ![t] = v] /\ cacheHost' = Touch(cacheHost, offset) /\ Goto(t, "unlink")
      BY <1>5, <2>1 DEF Reuse
    <2>3. v \in Hosts
      BY <1>0, <1>5, <2>1, Entry DEF Lists
    <2>4. Good(cacheHost', Offsets, Hosts) /\ Delete(cacheHost', offset) = Delete(cacheHost, offset)
      BY <1>0, <2>2, Touches DEF Lists
    <2>5. Delete(Flipped(cacheHost), v) = Flipped(Delete(cacheHost, offset))
      BY <1>0, <1>5, <2>1, FlipDeletes DEF Lists
    <2>6. Flipped(cacheHost) = cacheIP
      BY <1>0, <1>2, FlipFlip DEF Lists
    <2>7. pc'[t] = "unlink" /\ ip'[t] = v /\ \A u \in Queries \ {t} : pc'[u] = "idle"
      BY <1>0, <1>3, <2>2 DEF Goto, Types
    <2>8. Types'
      BY <1>0, <1>1, <2>2, <2>3 DEF Types, Goto, PCs
    <2>9. Lists'
      BY <1>0, <1>1, <2>4 DEF Lists
    <2>10. Exclusive'
      BY <1>1, <1>2, <2>7 DEF Exclusive
    <2>11. Delete(cacheIP', ip'[t]) = Flipped(Delete(cacheHost', offset'))
      BY <1>1, <2>4, <2>5, <2>6, <2>7
    <2>12. Looking(t)' /\ Giving(t)'
      BY <1>1, <1>2, <2>7, <2>11 DEF Looking, Giving
    <2>13. Alike'
      BY <1>3, <2>7, <2>12, AlikeThen
    <2> QED
      BY <1>4, <2>8, <2>9, <2>10, <2>13 DEF Kept
  <1>6. CASE offset \notin Keys(cacheHost)
    <2>1. Goto(t, "putIP") /\ ip' = ip /\ cacheHost' = cacheHost
      BY <1>6 DEF Reuse
    <2>2. pc'[t] = "putIP" /\ \A u \in Queries \ {t} : pc'[u] = "idle"
      BY <1>0, <1>3, <2>1 DEF Goto, Types
    <2>3. Types'
      BY <1>0, <1>1, <2>1 DEF Types, Goto, PCs
    <2>4. Lists'
      BY <1>0, <1>1, <2>1 DEF Lists
    <2>5. Exclusive'
      BY <1>1, <1>2, <2>2 DEF Exclusive
    <2>6. Looking(t)' /\ Giving(t)'
      BY <1>1, <1>2, <1>6, <2>1, <2>2 DEF Looking, Giving, Mirrors
    <2>7. Alike'
      BY <1>3, <2>2, <2>6, AlikeThen
    <2> QED
      BY <1>4, <2>3, <2>4, <2>5, <2>7 DEF Kept
  <1> QED
    BY <1>5, <1>6

LEMMA UnlinkKeeps ==
  ASSUME IInv, ~raced, NEW t \in Queries, Unlink(t)
  PROVE  Types' /\ Lists' /\ (~Overlap' => Kept')
  <1>0. Types /\ Lists /\ Kept
    BY DEF IInv
  <1>1. /\ pc[t] = "unlink" /\ cacheIP' = Delete(cacheIP, ip[t])
        /\ ip' = [ip EXCEPT ![t] = None] /\ Goto(t, "drop")
        /\ UNCHANGED <<cacheHost, offset, cycle, mux, host, flushing, cloning, newIP, newHost>>
    BY DEF Unlink, Unlinked, place, reload
  <1>2. /\ flushing = "no" /\ cloning = "no" /\ mux = t
        /\ Delete(cacheIP, ip[t]) = Flipped(Delete(cacheHost, offset)) /\ offset \in Addrs
        /\ host[t] \in Hosts /\ host[t] \notin Keys(cacheIP)
    BY <1>1, Undisturbed DEF Giving
  <1>3. (\A u \in Queries \ {t} : pc[u] = "idle") /\ mux' # None
    BY <1>1, <1>2, Alone, MemoryAssumption
  <1>4. Good(cacheIP', Hosts, Offsets) /\ Entries(cacheIP') \subseteq Entries(cacheIP)
    BY <1>0, <1>1, Deletes DEF Lists
  <1>5. host[t] \notin Keys(cacheIP')
    BY <1>2, <1>4 DEF Keys
  <1>6. pc'[t] = "drop" /\ \A u \in Queries \ {t} : pc'[u] = "idle"
    BY <1>0, <1>1, <1>3 DEF Goto, Types
  <1>7. Types'
    BY <1>0, <1>1 DEF Types, Goto, PCs
  <1>8. Lists'
    BY <1>0, <1>1, <1>4 DEF Lists
  <1>9. Exclusive'
    BY <1>1, <1>2, <1>6 DEF Exclusive
  <1>10. Looking(t)' /\ Giving(t)'
    BY <1>1, <1>2, <1>5, <1>6 DEF Looking, Giving
  <1>11. Alike'
    BY <1>3, <1>6, <1>10, AlikeThen
  <1>12. Flushes' /\ Reload'
    BY <1>1, <1>2 DEF Flushes, Reload
  <1> QED
    BY <1>7, <1>8, <1>9, <1>11, <1>12 DEF Kept

LEMMA DropKeeps ==
  ASSUME IInv, ~raced, NEW t \in Queries, Drop(t)
  PROVE  Types' /\ Lists' /\ (~Overlap' => Kept')
  <1>0. Types /\ Lists /\ Kept
    BY DEF IInv
  <1>1. /\ pc[t] = "drop" /\ cacheHost' = Delete(cacheHost, offset) /\ Goto(t, "putIP")
        /\ UNCHANGED <<cacheIP, offset, cycle, mux, host, ip, flushing, cloning, newIP, newHost>>
    BY DEF Drop, place, reload
  <1>2. /\ flushing = "no" /\ cloning = "no" /\ mux = t
        /\ cacheIP = Flipped(Delete(cacheHost, offset)) /\ offset \in Addrs
        /\ host[t] \in Hosts /\ host[t] \notin Keys(cacheIP)
    BY <1>1, Undisturbed DEF Giving
  <1>3. (\A u \in Queries \ {t} : pc[u] = "idle") /\ mux' # None
    BY <1>1, <1>2, Alone, MemoryAssumption
  <1>4. Good(cacheHost', Offsets, Hosts) /\ offset \notin Keys(cacheHost')
    BY <1>0, <1>1, Deletes DEF Lists
  <1>5. Mirrors'
    BY <1>1, <1>2, <1>4, FlipFlip DEF Mirrors
  <1>6. pc'[t] = "putIP" /\ \A u \in Queries \ {t} : pc'[u] = "idle"
    BY <1>0, <1>1, <1>3 DEF Goto, Types
  <1>7. Types'
    BY <1>0, <1>1 DEF Types, Goto, PCs
  <1>8. Lists'
    BY <1>0, <1>1, <1>4 DEF Lists
  <1>9. Exclusive'
    BY <1>1, <1>2, <1>6 DEF Exclusive
  <1>10. Looking(t)' /\ Giving(t)'
    BY <1>1, <1>2, <1>4, <1>5, <1>6 DEF Looking, Giving
  <1>11. Alike'
    BY <1>3, <1>6, <1>10, AlikeThen
  <1>12. Flushes' /\ Reload'
    BY <1>1, <1>2 DEF Flushes, Reload
  <1> QED
    BY <1>7, <1>8, <1>9, <1>11, <1>12 DEF Kept

LEMMA PutByIPKeeps ==
  ASSUME IInv, ~raced, NEW t \in Queries, PutByIP(t)
  PROVE  Types' /\ Lists' /\ (~Overlap' => Kept')
  <1>0. Types /\ Lists /\ Kept
    BY DEF IInv
  <1>1. /\ pc[t] = "putIP" /\ cacheHost' = Set(cacheHost, offset, host[t]) /\ Goto(t, "ret")
        /\ UNCHANGED <<cacheIP, offset, cycle, mux, host, ip, flushing, cloning, newIP, newHost>>
    BY DEF PutByIP, place, reload
  <1>2. /\ flushing = "no" /\ cloning = "no" /\ mux = t
        /\ cacheHost = Flipped(cacheIP) /\ offset \in Addrs /\ offset \notin Keys(cacheHost)
        /\ host[t] \in Hosts /\ host[t] \notin Keys(cacheIP)
    BY <1>1, Undisturbed DEF Giving, Mirrors
  <1>3. (\A u \in Queries \ {t} : pc[u] = "idle") /\ mux' # None
    BY <1>1, <1>2, Alone, MemoryAssumption
  <1>4. Fresh(cacheIP, <<host[t], offset>>)
    BY <1>0, <1>2, NewPair DEF Lists
  <1>5. offset \in Offsets
    BY <1>0 DEF Types
  <1>6. /\ Good(Set(cacheIP, host[t], offset), Hosts, Offsets)
        /\ Set(Flipped(cacheIP), offset, host[t]) = Flipped(Set(cacheIP, host[t], offset))
    BY <1>0, <1>2, <1>4, <1>5, SetsNew DEF Lists
  <1>7. cacheHost' = Flipped(Set(cacheIP, host[t], offset))
    BY <1>1, <1>2, <1>6
  <1>8. Good(cacheHost', Offsets, Hosts)
    BY <1>6, <1>7, Flips
  <1>9. pc'[t] = "ret" /\ \A u \in Queries \ {t} : pc'[u] = "idle"
    BY <1>0, <1>1, <1>3 DEF Goto, Types
  <1>10. Types'
    BY <1>0, <1>1 DEF Types, Goto, PCs
  <1>11. Lists'
    BY <1>0, <1>1, <1>8 DEF Lists
  <1>12. Exclusive'
    BY <1>1, <1>2, <1>9 DEF Exclusive
  <1>13. Looking(t)' /\ Giving(t)'
    BY <1>1, <1>2, <1>4, <1>7, <1>9 DEF Looking, Giving
  <1>14. Alike'
    BY <1>3, <1>9, <1>13, AlikeThen
  <1>15. Flushes' /\ Reload'
    BY <1>1, <1>2 DEF Flushes, Reload
  <1> QED
    BY <1>10, <1>11, <1>12, <1>14, <1>15 DEF Kept

LEMMA GetReturnsKeeps ==
  ASSUME IInv, ~raced, NEW t \in Queries, GetReturns(t)
  PROVE  Types' /\ Lists' /\ (~Overlap' => Kept')
  <1>0. Types /\ Lists /\ Kept
    BY DEF IInv
  <1>1. /\ pc[t] = "ret" /\ ip' = [ip EXCEPT ![t] = offset] /\ Goto(t, "putHost")
        /\ cacheIP' = cacheIP /\ cacheHost' = cacheHost
        /\ UNCHANGED <<offset, cycle, mux, host, flushing, cloning, newIP, newHost>>
    BY DEF GetReturns, lists, place, reload
  <1>2. flushing = "no" /\ cloning = "no" /\ mux = t /\ Giving(t)
    BY <1>1, Undisturbed
  <1>3. (\A u \in Queries \ {t} : pc[u] = "idle") /\ mux' # None
    BY <1>1, <1>2, Alone, MemoryAssumption
  <1>4. pc'[t] = "putHost" /\ ip'[t] = offset /\ \A u \in Queries \ {t} : pc'[u] = "idle"
    BY <1>0, <1>1, <1>3 DEF Goto, Types
  <1>5. Types'
    BY <1>0, <1>1 DEF Types, Goto, PCs
  <1>6. Lists'
    BY <1>0, <1>1 DEF Lists
  <1>7. Exclusive'
    BY <1>1, <1>2, <1>4 DEF Exclusive
  <1>8. Looking(t)' /\ Giving(t)'
    BY <1>1, <1>2, <1>4 DEF Looking, Giving
  <1>9. Alike'
    BY <1>3, <1>4, <1>8, AlikeThen
  <1>10. Flushes' /\ Reload'
    BY <1>1, <1>2 DEF Flushes, Reload
  <1> QED
    BY <1>5, <1>6, <1>7, <1>9, <1>10 DEF Kept

\* What PutByHost does to the list, for its own step and for the refinement.
LEMMA Puts ==
  ASSUME IInv, ~raced, NEW t \in Queries, PutByHost(t)
  PROVE  /\ flushing = "no" /\ cloning = "no" /\ mux = t
         /\ host[t] \in Hosts /\ host[t] \notin Keys(cacheIP) /\ offset \in Addrs
         /\ Fresh(cacheIP, <<host[t], offset>>)
         /\ cacheIP' = Set(cacheIP, host[t], offset)
         /\ cacheHost = Flipped(cacheIP')
         /\ Good(cacheIP', Hosts, Offsets)
         /\ Entries(cacheIP') \subseteq Entries(cacheIP) \cup {<<host[t], offset>>}
         /\ <<host[t], offset>> \in Entries(cacheIP')
  <1>1. pc[t] = "putHost" /\ cacheIP' = Set(cacheIP, host[t], ip[t])
    BY DEF PutByHost
  <1>2. /\ flushing = "no" /\ cloning = "no" /\ mux = t
        /\ host[t] \in Hosts /\ host[t] \notin Keys(cacheIP) /\ offset \in Addrs
        /\ Fresh(cacheIP, <<host[t], offset>>) /\ ip[t] = offset
        /\ cacheHost = Flipped(Set(cacheIP, host[t], offset))
    BY <1>1, Undisturbed DEF Giving
  <1>3. Good(cacheIP, Hosts, Offsets) /\ offset \in Offsets
    BY DEF IInv, Types, Lists
  <1>4. /\ Good(Set(cacheIP, host[t], offset), Hosts, Offsets)
        /\ Entries(Set(cacheIP, host[t], offset)) \subseteq Entries(cacheIP) \cup {<<host[t], offset>>}
        /\ <<host[t], offset>> \in Entries(Set(cacheIP, host[t], offset))
    BY <1>2, <1>3, SetsNew
  <1> QED
    BY <1>1, <1>2, <1>4

LEMMA PutByHostKeeps ==
  ASSUME IInv, ~raced, NEW t \in Queries, PutByHost(t)
  PROVE  Types' /\ Lists' /\ (~Overlap' => Kept')
  <1>0. Types /\ Lists /\ Kept
    BY DEF IInv
  <1>1. pc[t] = "putHost" /\ Leave(t) /\ cacheHost' = cacheHost
    BY DEF PutByHost
  <1>2. /\ flushing = "no" /\ cloning = "no" /\ cacheHost = Flipped(cacheIP')
        /\ Good(cacheIP', Hosts, Offsets)
    BY Puts
  <1>3. \A u \in Queries \ {t} : pc[u] = "idle"
    BY <1>1, Alone
  <1>4. Types'
    BY <1>0, <1>1 DEF Types, Leave, Goto, PCs, place, reload
  <1>5. Lists'
    BY <1>0, <1>1, <1>2 DEF Lists, Leave, reload
  <1>6. mux' = None /\ \A u \in Queries : pc'[u] = "idle"
    BY <1>0, <1>1, <1>3 DEF Leave, Goto, Types
  <1>7. Exclusive'
    BY <1>6 DEF Exclusive
  <1>8. Mirrors'
    BY <1>1, <1>2 DEF Mirrors
  <1>9. Looking(t)' /\ Giving(t)'
    BY <1>6 DEF Looking, Giving
  <1>10. Alike'
    BY <1>6, <1>8, <1>9, AlikeThen
  <1>11. Flushes' /\ Reload'
    BY <1>1, <1>2 DEF Flushes, Reload, Leave, reload
  <1> QED
    BY <1>4, <1>5, <1>7, <1>10, <1>11 DEF Kept
-----------------------------------------------------------------------------
(***************************************************************************)
(* The steps of a flush and of a reload.                                   *)
(***************************************************************************)
LEMMA FlushIPKeeps ==
  ASSUME IInv, ~raced, FlushIP
  PROVE  Types' /\ Lists' /\ (~Overlap' => Kept')
  <1>0. Types /\ Lists /\ Kept
    BY DEF IInv
  <1>1. /\ flushing = "no" /\ flushing' = "host" /\ cacheIP' = <<>>
        /\ UNCHANGED <<cacheHost, offset, cycle, mux, pc, host, ip, cloning, newIP, newHost>>
    BY DEF FlushIP, place, query, reload
  <1>2. Types'
    BY <1>0, <1>1 DEF Types
  <1>3. Lists'
    BY <1>0, <1>1, Nothing DEF Lists
  <1>4. ASSUME ~Overlap' PROVE Kept'
    <2>1. cloning' = "no"
      BY <1>1, <1>4 DEF Overlap
    <2> QED
      BY <1>0, <1>1, <2>1 DEF Kept, Exclusive, Alike, Flushes, Reload
  <1> QED
    BY <1>2, <1>3, <1>4

LEMMA FlushHostKeeps ==
  ASSUME IInv, ~raced, FlushHost
  PROVE  Types' /\ Lists' /\ (~Overlap' => Kept')
  <1>0. Types /\ Lists /\ Kept
    BY DEF IInv
  <1>1. /\ flushing = "host" /\ flushing' = "place" /\ cacheHost' = <<>>
        /\ UNCHANGED <<cacheIP, offset, cycle, mux, pc, host, ip, cloning, newIP, newHost>>
    BY DEF FlushHost, place, query, reload
  <1>2. Types'
    BY <1>0, <1>1 DEF Types
  <1>3. Lists'
    BY <1>0, <1>1, Nothing DEF Lists
  <1>4. Kept'
    BY <1>0, <1>1 DEF Kept, Exclusive, Alike, Flushes, Reload
  <1> QED
    BY <1>2, <1>3, <1>4

LEMMA FlushPlaceKeeps ==
  ASSUME IInv, ~raced, FlushPlace
  PROVE  Types' /\ Lists' /\ (~Overlap' => Kept')
  <1>0. Types /\ Lists /\ Kept /\ ~Overlap
    BY DEF IInv
  <1>1. /\ flushing = "place" /\ flushing' = "no" /\ offset' = First - 1 /\ cycle' = FALSE
        /\ UNCHANGED <<cacheIP, cacheHost, mux, pc, host, ip, cloning, newIP, newHost>>
    BY DEF FlushPlace, lists, query, reload
  <1>2. First - 1 \in Offsets
    BY MemoryAssumption DEF Offsets
  <1>3. Types'
    BY <1>0, <1>1, <1>2 DEF Types
  <1>4. Lists'
    BY <1>0, <1>1 DEF Lists
  <1>5. cacheIP' = <<>> /\ cacheHost' = <<>>
    BY <1>0, <1>1 DEF Kept, Flushes
  <1>6. \A u \in Queries : pc'[u] \in {"idle", "touchHost", "touchIP"}
    BY <1>0, <1>1 DEF Overlap, Moving
  <1>7. Alike'
    <2>1. ASSUME NEW u \in Queries PROVE Looking(u)' /\ Giving(u)'
      BY <1>5, <1>6, Nothing DEF Looking, Giving
    <2>2. Mirrors'
      BY <1>5, Nothing DEF Mirrors
    <2> QED
      BY <2>1, <2>2 DEF Alike
  <1>8. Exclusive' /\ Flushes' /\ Reload'
    BY <1>0, <1>1 DEF Kept, Exclusive, Flushes, Reload
  <1> QED
    BY <1>3, <1>4, <1>7, <1>8 DEF Kept

LEMMA CloneIPKeeps ==
  ASSUME IInv, ~raced, CloneIP
  PROVE  Types' /\ Lists' /\ (~Overlap' => Kept')
  <1>0. Types /\ Lists /\ Kept
    BY DEF IInv
  <1>1. /\ cloning = "no" /\ cloning' = "host" /\ newIP' = cacheIP
        /\ UNCHANGED <<cacheIP, cacheHost, offset, cycle, mux, pc, host, ip, flushing, newHost>>
    BY DEF CloneIP, lists, place, query
  <1>2. Types'
    BY <1>0, <1>1 DEF Types
  <1>3. Lists'
    BY <1>0, <1>1 DEF Lists
  <1>4. Alike'
    BY <1>0, <1>1 DEF Kept, Alike, Looking, Giving, Mirrors
  <1>5. Exclusive' /\ Flushes' /\ Reload'
    BY <1>0, <1>1 DEF Kept, Exclusive, Flushes, Reload
  <1> QED
    BY <1>2, <1>3, <1>4, <1>5 DEF Kept

LEMMA CloneHostKeeps ==
  ASSUME IInv, ~raced, CloneHost
  PROVE  Types' /\ Lists' /\ (~Overlap' => Kept')
  <1>0. Types /\ Lists /\ Kept /\ ~Overlap
    BY DEF IInv
  <1>1. /\ cloning = "host" /\ cloning' = "switch" /\ newHost' = cacheHost
        /\ UNCHANGED <<cacheIP, cacheHost, offset, cycle, mux, pc, host, ip, flushing, newIP>>
    BY DEF CloneHost, lists, place, query
  <1>2. Types'
    BY <1>0, <1>1 DEF Types
  <1>3. Lists'
    BY <1>0, <1>1 DEF Lists
  <1>4. mux = None /\ flushing = "no" /\ Mirrors
    BY <1>0, <1>1 DEF Overlap, Types, Kept, Alike
  <1>5. Alike'
    BY <1>0, <1>1 DEF Kept, Alike, Looking, Giving, Mirrors
  <1>6. newHost' = Flipped(newIP')
    BY <1>0, <1>1, <1>4 DEF Kept, Reload, Mirrors
  <1>7. Exclusive' /\ Flushes' /\ Reload'
    BY <1>0, <1>1, <1>6 DEF Kept, Exclusive, Flushes, Reload
  <1> QED
    BY <1>2, <1>3, <1>5, <1>7 DEF Kept

LEMMA SwitchKeeps ==
  ASSUME IInv, ~raced, Switch
  PROVE  Types' /\ Lists' /\ (~Overlap' => Kept')
  <1>0. Types /\ Lists /\ Kept
    BY DEF IInv
  <1>1. /\ cloning = "switch" /\ cloning' = "no" /\ flushing' = "no"
        /\ cacheIP' = newIP /\ newIP' = <<>> /\ cacheHost' = newHost /\ newHost' = <<>>
        /\ offset' = First - 1 /\ cycle' = FALSE /\ mux' = None
        /\ pc' = [t \in Queries |-> "idle"]
        /\ host' = [t \in Queries |-> None] /\ ip' = [t \in Queries |-> None]
    BY DEF Switch
  <1>2. First - 1 \in Offsets
    BY MemoryAssumption DEF Offsets
  <1>3. Types'
    BY <1>0, <1>1, <1>2 DEF Types, PCs
  <1>4. Lists'
    BY <1>0, <1>1, Nothing DEF Lists
  <1>5. Mirrors'
    BY <1>0, <1>1 DEF Kept, Reload, Mirrors
  <1>6. \A u \in Queries : pc'[u] = "idle"
    BY <1>1
  <1>7. Alike'
    BY <1>5, <1>6 DEF Alike, Looking, Giving
  <1>8. Exclusive' /\ Flushes' /\ Reload'
    BY <1>1, <1>6 DEF Exclusive, Flushes, Reload
  <1> QED
    BY <1>3, <1>4, <1>7, <1>8 DEF Kept

-----------------------------------------------------------------------------
(***************************************************************************)
(* The invariant and what it is for.                                       *)
(***************************************************************************)
LEMMA InitIInv == Init => IInv
  <1> SUFFICES ASSUME Init PROVE IInv
    OBVIOUS
  <1>1. Types
    <2>1. First - 1 \in Offsets
      BY MemoryAssumption DEF Offsets
    <2> QED
      BY <2>1 DEF Init, Types, PCs
  <1>2. Lists
    BY Nothing DEF Init, Lists
  <1>3. ~Overlap
    BY DEF Init, Overlap, Moving
  <1>4. Exclusive /\ Flushes /\ Reload
    BY DEF Init, Exclusive, Flushes, Reload
  <1>5. Mirrors
    BY Nothing DEF Init, Mirrors
  <1>6. Alike
    BY <1>5 DEF Init, Alike, Looking, Giving
  <1> QED
    BY <1>1, <1>2, <1>3, <1>4, <1>6 DEF Init, IInv, Kept

LEMMA Inductive == IInv /\ [Next]_vars => IInv'
  <1> SUFFICES ASSUME IInv, [Next]_vars PROVE IInv'
    OBVIOUS
  <1>1. CASE UNCHANGED vars
    BY <1>1 DEF vars, lists, place, query, reload, IInv, Types, Lists, Good, Overlap, Moving,
                Kept, Exclusive, Alike, Looking, Giving, Mirrors, Flushes, Reload
  <1>2. CASE Next
    <2>1. ~raced /\ raced' = Overlap'
      BY <1>2 DEF Next
    <2>2. Types' /\ Lists' /\ (~Overlap' => Kept')
      <3>1. ASSUME NEW t \in Queries, QueryStep(t)
            PROVE  Types' /\ Lists' /\ (~Overlap' => Kept')
        BY <2>1, <3>1, LookupHitKeeps, TouchHostKeeps, LookBackKeeps, TouchIPKeeps,
           LookupMissKeeps, AdvanceKeeps, ReuseKeeps, UnlinkKeeps, DropKeeps, PutByIPKeeps,
           GetReturnsKeeps, PutByHostKeeps
           DEF QueryStep
      <3>2. CASE FlushIP \/ FlushHost \/ FlushPlace
        BY <2>1, <3>2, FlushIPKeeps, FlushHostKeeps, FlushPlaceKeeps
      <3>3. CASE CloneIP \/ CloneHost \/ Switch
        BY <2>1, <3>3, CloneIPKeeps, CloneHostKeeps, SwitchKeeps
      <3> QED
        BY <1>2, <3>1, <3>2, <3>3 DEF Next
    <2>3. raced' \in BOOLEAN
      BY <2>1 DEF Overlap
    <2> QED
      BY <2>1, <2>2, <2>3 DEF IInv
  <1> QED
    BY <1>1, <1>2

\* For every size of the pool and of the lists and any number of queries: the
\* types, the capacity and the keys hold for ever, and the two directions are
\* mirror images whenever no operation is under way, flushes and reloads
\* included (memory.go, lrucache.go), until the overlap that Overlap names.
THEOREM ListsMirror == Spec => []Consistent
  <1>1. IInv => TypeOK
    <2> SUFFICES ASSUME IInv PROVE TypeOK
      OBVIOUS
    <2>1. ASSUME NEW A, NEW B, NEW c, Good(c, A, B)
          PROVE  Len(c) =< Size /\ \A i, j \in DOMAIN c : c[i][1] = c[j][1] => i = j
      <3>1. DOMAIN c = 1 .. Len(c)
        BY <2>1 DEF Good
      <3> QED
        BY <2>1, <3>1 DEF Good, Distinct
    <2>2. \A c \in {cacheIP, cacheHost, newIP, newHost} :
            Len(c) =< Size /\ \A i, j \in DOMAIN c : c[i][1] = c[j][1] => i = j
      BY <2>1 DEF IInv, Lists
    <2>3. /\ {cacheIP, newIP} \subseteq Seq(Hosts \X Offsets)
          /\ {cacheHost, newHost} \subseteq Seq(Offsets \X Hosts)
      BY DEF IInv, Lists, Good
    <2> QED
      BY <2>2, <2>3 DEF IInv, Types, TypeOK
  <1>2. IInv => Mirror
    BY DEF IInv, Kept, Alike, Mirrors, Mirror
  <1> QED
    BY <1>1, <1>2, InitIInv, Inductive, PTL DEF Spec, Consistent

\* A step that changes no answer.
LEMMA SameAnswers ==
  ASSUME raced = FALSE, raced' = FALSE, Entries(cacheIP') = Entries(cacheIP)
  PROVE  UNCHANGED <<Answers, raced>>
  <1>1. raced' = raced
    OBVIOUS
  <1> QED
    BY <1>1 DEF Answers
\* For every size of the pool and of the lists and any number of queries, the pool
\* implements FakeIP: at no step of a lookup, an eviction, a flush or a reload do
\* two hosts share an address, and no answer changes that is not taken back.
THEOREM AnswersRefine == Spec => ImplementsFakeIP
  <1>1. Init => Abstract!Init
    BY Nothing DEF Init, Abstract!Init, Answers
  <1>2. IInv /\ IInv' /\ [Next]_vars => [Abstract!Next]_(Abstract!vars)
    <2> SUFFICES ASSUME IInv, IInv', [Next]_vars PROVE [Abstract!Next]_(Abstract!vars)
      OBVIOUS
    <2> USE DEF Abstract!vars
    <2>1. CASE UNCHANGED vars
      BY <2>1 DEF vars, lists, Answers, Entries
    <2>2. CASE Next /\ raced'
      <3>1. raced' = TRUE /\ Answers' = {}
        BY <2>2 DEF IInv, Answers
      <3> QED
        BY <3>1 DEF Abstract!Next, Abstract!Void
    <2>3. CASE Next /\ ~raced'
      <3>0. raced = FALSE /\ raced' = FALSE
        BY <2>3 DEF Next, IInv
      <3>1. Answers = Entries(cacheIP) /\ Answers' = Entries(cacheIP')
        BY <3>0 DEF Answers
      <3>2. Good(cacheIP, Hosts, Offsets)
        BY DEF IInv, Lists
      <3>3. ASSUME Entries(cacheIP') = Entries(cacheIP) PROVE [Abstract!Next]_(Abstract!vars)
        BY <3>0, <3>3, SameAnswers
      <3>4. ASSUME Entries(cacheIP') \subseteq Entries(cacheIP)
            PROVE  [Abstract!Next]_(Abstract!vars)
        BY <3>0, <3>1, <3>4 DEF Abstract!Next, Abstract!Forget
      <3>5. ASSUME NEW t \in Queries, QueryStep(t) PROVE [Abstract!Next]_(Abstract!vars)
        <4>1. CASE LookupHit(t)
          BY <3>2, <3>3, <4>1, Touches DEF LookupHit
        <4>2. CASE TouchIP(t)
          BY <3>2, <3>3, <4>2, Touches DEF TouchIP
        <4>3. CASE Unlink(t)
          BY <3>2, <3>4, <4>3, Deletes DEF Unlink, Unlinked
        <4>4. CASE PutByHost(t)
          <5>1. PICK h, a : h = host[t] /\ a = offset
            OBVIOUS
          <5>2. /\ h \in Hosts /\ h \notin Keys(cacheIP) /\ a \in Addrs
                /\ Fresh(cacheIP, <<h, a>>)
                /\ Entries(cacheIP') \subseteq Entries(cacheIP) \cup {<<h, a>>}
                /\ <<h, a>> \in Entries(cacheIP')
            BY <3>0, <4>4, <5>1, Puts
          <5>3. DOMAIN cacheIP = 1 .. Len(cacheIP)
            BY <3>2 DEF Good
          <5>4. \A p \in Entries(cacheIP) : p[1] # h /\ p[2] # a
            BY <5>2, <5>3 DEF Entries, Fresh
          <5>5. PICK kept : kept = Entries(cacheIP') \ {<<h, a>>}
            OBVIOUS
          <5>6. /\ kept \in SUBSET {p \in Entries(cacheIP) : p[2] # a}
                /\ Entries(cacheIP') = kept \cup {<<h, a>>}
            BY <5>2, <5>4, <5>5
          <5>7. Abstract!Assign(h, a)
            BY <3>0, <3>1, <5>4, <5>6 DEF Abstract!Assign
          <5> QED
            BY <5>2, <5>7 DEF Abstract!Next
        <4>5. CASE \/ TouchHost(t) \/ LookBack(t) \/ LookupMiss(t) \/ Advance(t) \/ Reuse(t)
                   \/ Drop(t) \/ PutByIP(t) \/ GetReturns(t)
          <5>1. cacheIP' = cacheIP
            BY <4>5 DEF TouchHost, LookBack, LookupMiss, Advance, Reuse, Drop, PutByIP,
                        GetReturns, lists
          <5> QED
            BY <3>3, <5>1
        <4> QED
          BY <3>5, <4>1, <4>2, <4>3, <4>4, <4>5 DEF QueryStep
      <3>6. CASE FlushIP
        <4>1. Entries(cacheIP') = {}
          BY <3>6, Nothing DEF FlushIP
        <4> QED
          BY <3>4, <4>1
      <3>7. CASE FlushHost \/ FlushPlace \/ CloneIP \/ CloneHost
        <4>1. cacheIP' = cacheIP
          BY <3>7 DEF FlushHost, FlushPlace, CloneIP, CloneHost, lists
        <4> QED
          BY <3>3, <4>1
      <3>8. CASE Switch
        <4>1. Entries(cacheIP') = Entries(cacheIP)
          BY <3>0, <3>8 DEF IInv, Kept, Reload, Switch
        <4> QED
          BY <3>3, <4>1
      <3> QED
        BY <2>3, <3>5, <3>6, <3>7, <3>8 DEF Next
    <2> QED
      BY <2>1, <2>2, <2>3
  <1> QED
    BY <1>1, <1>2, InitIInv, Inductive, PTL DEF Spec, ImplementsFakeIP, Abstract!Spec
=============================================================================

------------------------------- MODULE Lemmas -------------------------------
(***************************************************************************)
(* Facts that the proofs of the nodes cite: what publishing and delivering *)
(* do to a topic, and quotients and remainders by any positive number,     *)
(* which the provers do not find by themselves when the divisor is a       *)
(* constant of a module.                                                   *)
(***************************************************************************)
EXTENDS Integers, RosTopic, TLAPS, WellFoundedInduction

\* Publishing keeps a topic a topic: the message joins, the depth holds.
LEMMA PublishKeepsTopic ==
  ASSUME NEW M, NEW m \in M, NEW depth \in Nat \ {0},
         NEW topic, IsTopic(topic, M, depth)
  PROVE  IsTopic(Publish(topic, m, depth), M, depth)
<1>1. CASE Len(topic) < depth
  BY <1>1 DEF IsTopic, Publish
<1>2. CASE ~(Len(topic) < depth)
  <2>1. topic \in Seq(M) /\ Len(topic) = depth /\ topic # <<>>
    BY <1>2 DEF IsTopic
  <2>2. Tail(topic) \in Seq(M) /\ Len(Tail(topic)) = depth - 1
    BY <2>1
  <2>3. QED  BY <1>2, <2>1, <2>2 DEF IsTopic, Publish
<1>3. QED  BY <1>1, <1>2

\* Delivering the oldest message keeps a topic a topic.
LEMMA TailKeepsTopic ==
  ASSUME NEW M, NEW depth \in Nat, NEW topic, IsTopic(topic, M, depth), topic # <<>>
  PROVE  IsTopic(Tail(topic), M, depth)
BY DEF IsTopic

\* Whatever is dropped, the newest message is the last one of the topic.
LEMMA PublishKeepsNewest ==
  ASSUME NEW M, NEW m \in M, NEW depth \in Nat \ {0},
         NEW topic, IsTopic(topic, M, depth)
  PROVE  /\ Publish(topic, m, depth) # <<>>
         /\ Publish(topic, m, depth)[Len(Publish(topic, m, depth))] = m
<1>1. CASE Len(topic) < depth
  BY <1>1 DEF IsTopic, Publish
<1>2. CASE ~(Len(topic) < depth)
  <2>1. topic \in Seq(M) /\ topic # <<>>
    BY <1>2 DEF IsTopic
  <2>2. Tail(topic) \in Seq(M)
    BY <2>1
  <2>3. /\ Len(Append(Tail(topic), m)) = Len(Tail(topic)) + 1
        /\ Append(Tail(topic), m)[Len(Tail(topic)) + 1] = m
        /\ Append(Tail(topic), m) # <<>>
    BY <2>2
  <2>4. Publish(topic, m, depth) = Append(Tail(topic), m)
    BY <1>2 DEF Publish
  <2>5. QED  BY <2>3, <2>4
<1>3. QED  BY <1>1, <1>2

-----------------------------------------------------------------------------
\* A number is its quotient and its remainder.
LEMMA DivMod ==
  ASSUME NEW M \in Nat \ {0}, NEW k \in Int
  PROVE  /\ k % M \in 0..M - 1 /\ k \div M \in Int
         /\ (k \div M) * M + (k % M) = k
OBVIOUS

\* No other quotient and remainder make up the same number.
LEMMA DivModUnique ==
  ASSUME NEW M \in Nat \ {0}, NEW q \in Int, NEW p \in Int,
         NEW r \in 0..M - 1, NEW s \in 0..M - 1, q * M + r = p * M + s
  PROVE  q = p /\ r = s
<1>1. (q - p) * M = s - r
  OBVIOUS
<1>2. ~(q - p >= 1)
  <2>1. q - p >= 1 => (q - p) * M >= M
    OBVIOUS
  <2>2. QED  BY <1>1, <2>1
<1>3. ~(p - q >= 1)
  <2>1. p - q >= 1 => (p - q) * M >= M
    OBVIOUS
  <2>2. QED  BY <1>1, <2>1
<1>4. p = q
  BY <1>2, <1>3
<1>5. QED  BY <1>1, <1>4

\* So a quotient and a remainder may be guessed.
LEMMA DivModIs ==
  ASSUME NEW M \in Nat \ {0}, NEW k \in Int,
         NEW q \in Int, NEW r \in 0..M - 1, q * M + r = k
  PROVE  k \div M = q /\ k % M = r
<1> DEFINE p == k \div M
           s == k % M
<1>1. s \in 0..M - 1 /\ p \in Int /\ p * M + s = q * M + r
  BY DivMod
<1> HIDE DEF s, p
<1>2. p = q /\ s = r
  BY <1>1, DivModUnique
<1>3. QED  BY <1>2 DEF p, s

\* What is less than the modulus is its own remainder.
LEMMA SmallModulus ==
  ASSUME NEW M \in Nat \ {0}, NEW k \in 0..M - 1
  PROVE  k % M = k
<1>1. 0 \in Int /\ 0 * M + k = k /\ k \in Int
  OBVIOUS
<1>2. QED  BY <1>1, DivModIs

\* Counting on from a remainder is counting on from the number.
LEMMA NextRemainder ==
  ASSUME NEW M \in Nat \ {0}, NEW k \in Int
  PROVE  ((k % M) + 1) % M = (k + 1) % M
<1> DEFINE q == k \div M
           r == k % M
<1>1. q \in Int /\ r \in 0..M - 1 /\ q * M + r = k
  BY DivMod
<1> HIDE DEF q, r
<1>2. CASE r + 1 < M
  <2>1. q * M + (r + 1) = k + 1
    <3>1. q * M \in Int /\ r \in Int
      BY <1>1
    <3>2. \A p \in Int : p + r = k => p + (r + 1) = k + 1
      BY <3>1
    <3>3. QED  BY <1>1, <3>1, <3>2
  <2> DEFINE s == r + 1
             m == k + 1
  <2>2. s \in 0..M - 1 /\ q * M + s = m /\ m \in Int /\ q \in Int
    BY <1>1, <1>2, <2>1
  <2> HIDE DEF s, m
  <2>3. m % M = s
    BY <2>2, DivModIs
  <2>4. s % M = s
    BY <2>2, SmallModulus
  <2>5. QED  BY <2>3, <2>4 DEF r, s, m
<1>3. CASE r + 1 = M
  <2>1. (q + 1) * M + 0 = k + 1 /\ 1 * M + 0 = r + 1 /\ 0 \in 0..M - 1
    BY <1>1, <1>3
  <2>2. (k + 1) % M = 0
    BY <1>1, <2>1, k + 1 \in Int, q + 1 \in Int, DivModIs
  <2>3. (r + 1) % M = 0
    BY <1>1, <2>1, r + 1 \in Int, DivModIs
  <2>4. QED  BY <2>2, <2>3 DEF r
<1>4. QED  BY <1>1, <1>2, <1>3

-----------------------------------------------------------------------------
\* A set that has 0, and with a number the next one, has all of them.
LEMMA Induction ==
  ASSUME NEW S, 0 \in S, \A n \in Nat : n \in S => n + 1 \in S
  PROVE  Nat \subseteq S
<1> DEFINE Less == {ss \in Nat \X Nat : ss[1] < ss[2]}
           Others == Nat \ S
<1>1. SUFFICES ASSUME Others # {}  PROVE FALSE
  OBVIOUS
<1>2. PICK n \in Others : \A k \in Others : <<k, n>> \notin Less
  <2>1. IsWellFoundedOn(Less, Nat) /\ Others \subseteq Nat
    BY NatLessThanWellFounded DEF OpToRel
  <2> HIDE DEF Less, Others
  <2>2. QED  BY <1>1, <2>1, WFMin
<1>3. n - 1 \in Nat /\ n - 1 < n /\ (n - 1) + 1 = n
  OBVIOUS
<1>4. QED  BY <1>2, <1>3
=============================================================================

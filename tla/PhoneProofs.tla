---------------------------- MODULE PhoneProofs ----------------------------
(***************************************************************************)
(* Proofs about the digit rules, for entries of any length: induction      *)
(* along the characters of an entry.  And about the plan of a list of      *)
(* hearings, which the proofs of the daily run made by the same induction. *)
(***************************************************************************)
EXTENDS MCReminderPlan, DailyRunProofs

Digit == 0..9
Typed == Seq(Digit \cup {Mark})

-----------------------------------------------------------------------------
(* What is left of an entry.                                               *)

\* The digits of an entry's first 0, 1, 2 ... characters.
IsDigitTable(upto, e) ==
  /\ upto \in [0..Len(e) -> Seq(Digit)]
  /\ upto[0] = <<>>
  /\ \A n \in 0..(Len(e) - 1) :
       upto[n + 1] = IF e[n + 1] \in Digit THEN Append(upto[n], e[n + 1]) ELSE upto[n]

\* Digits is defined by such a table, and is its last entry.
LEMMA DigitsUnfold ==
  ASSUME NEW e \in Typed
  PROVE  \E upto : IsDigitTable(upto, e) /\ Phone!Digits(e) = upto[Len(e)]
<1> DEFINE m == Len(e)
           V == Seq(Digit)
           step == [p \in (0..m) \X V |->
                      IF p[1] < m /\ e[p[1] + 1] \in Digit THEN Append(p[2], e[p[1] + 1]) ELSE p[2]]
           Folds(f) == f = [n \in 0..m |->
                         IF n = 0 THEN <<>>
                         ELSE IF e[n] \in 0..9 THEN Append(f[n - 1], e[n]) ELSE f[n - 1]]
           fold == CHOOSE f : Folds(f)
<1>1. m \in Nat
  BY LenProperties DEF Typed
<1>2. <<>> \in V
  BY EmptySeq
<1>3. step \in [(0..m) \X V -> V]
  <2>1. ASSUME NEW n \in 0..m, NEW s \in V, n < m, e[n + 1] \in Digit
        PROVE  Append(s, e[n + 1]) \in V
    BY <2>1, AppendProperties
  <2> QED BY <2>1
<1>4. PICK f \in [0..m -> V] : /\ f[0] = <<>>
                               /\ \A n \in 0..(m - 1) : f[n + 1] = step[<<n, f[n]>>]
  <2> HIDE DEF m, V, step
  <2>1. HasRecursion(m, V, <<>>, step)
    BY <1>1, <1>2, <1>3, RecursionExists
  <2> QED BY <2>1 DEF HasRecursion
<1>5. ASSUME NEW n \in 0..(m - 1)
      PROVE  f[n + 1] = IF e[n + 1] \in Digit THEN Append(f[n], e[n + 1]) ELSE f[n]
  <2>1. n \in 0..m /\ n < m /\ f[n] \in V
    BY <1>1, <1>4
  <2>2. step[<<n, f[n]>>] = IF e[n + 1] \in Digit THEN Append(f[n], e[n + 1]) ELSE f[n]
    <3> HIDE DEF V, m
    <3> QED BY <2>1
  <2> QED BY <1>4, <2>2
<1> HIDE DEF step
<1>6. Folds(f)
  <2>1. ASSUME NEW n \in 0..m, n # 0
        PROVE  f[n] = IF e[n] \in 0..9 THEN Append(f[n - 1], e[n]) ELSE f[n - 1]
    <3>1. n - 1 \in 0..(m - 1) /\ (n - 1) + 1 = n
      BY <1>1, <2>1
    <3> QED BY <1>5, <3>1 DEF Digit
  <2> QED BY <1>4, <2>1
<1>7. Folds(fold)
  <2> HIDE DEF Folds
  <2> QED BY <1>6
<1>8. Phone!Digits(e) = fold[m]
  BY DEF Phone!Digits
<1>9. ASSUME NEW n \in 0..m
      PROVE  fold[n] = IF n = 0 THEN <<>>
                       ELSE IF e[n] \in 0..9 THEN Append(fold[n - 1], e[n]) ELSE fold[n - 1]
  <2> HIDE DEF fold
  <2> QED BY <1>7
<1> HIDE DEF fold, Folds
<1>10. \A n \in 0..m : fold[n] = f[n]
  <2> DEFINE good == {n \in 0..m : fold[n] = f[n]}
  <2>1. 0 \in good
    BY <1>1, <1>4, <1>9
  <2>2. ASSUME NEW n \in 0..(m - 1), n \in good
        PROVE  n + 1 \in good
    <3>1. n + 1 \in 0..m /\ n + 1 # 0 /\ (n + 1) - 1 = n
      BY <1>1
    <3> QED BY <1>5, <1>9, <2>2, <3>1 DEF Digit
  <2> HIDE DEF good
  <2>3. \A n \in 0..m : n \in good
    BY <1>1, <2>1, <2>2, InductionUpTo
  <2> QED BY <2>3 DEF good
<1>11. Phone!Digits(e) = f[Len(e)]
  BY <1>1, <1>8, <1>10
<1>12. IsDigitTable(f, e)
  BY <1>4, <1>5 DEF IsDigitTable
<1> QED BY <1>11, <1>12

LEMMA DigitsType ==
  ASSUME NEW e \in Typed
  PROVE  Phone!Digits(e) \in Seq(Digit)
<1>1. PICK upto : IsDigitTable(upto, e) /\ Phone!Digits(e) = upto[Len(e)]
  BY DigitsUnfold
<1>2. Len(e) \in 0..Len(e)
  BY LenProperties DEF Typed
<1> QED BY <1>1, <1>2 DEF IsDigitTable

\* Facts about a digit put before some others.
LEMMA OneBefore ==
  ASSUME NEW d \in Seq(Digit)
  PROVE  /\ <<1>> \o d \in Seq(Digit)
         /\ Len(<<1>> \o d) = Len(d) + 1
         /\ (<<1>> \o d)[1] = 1
         /\ \A i \in 1..Len(d) : (<<1>> \o d)[i + 1] = d[i]
<1>1. <<1>> \in Seq(Digit) /\ Len(<<1>>) = 1 /\ <<1>>[1] = 1
  BY DEF Digit
<1>2. Len(d) \in Nat
  BY LenProperties
<1> DEFINE one == <<1>>
<1> HIDE DEF one
<1>3. one \in Seq(Digit) /\ Len(one) = 1 /\ one[1] = 1
  BY <1>1 DEF one
<1>4. /\ one \o d \in Seq(Digit)
      /\ Len(one \o d) = Len(one) + Len(d)
      /\ \A i \in 1..(Len(one) + Len(d)) :
           (one \o d)[i] = IF i <= Len(one) THEN one[i] ELSE d[i - Len(one)]
  BY <1>3, ConcatProperties
<1>5. Len(one \o d) = Len(d) + 1 /\ (one \o d)[1] = 1
  BY <1>2, <1>3, <1>4
<1>6. ASSUME NEW i \in 1..Len(d)
      PROVE  (one \o d)[i + 1] = d[i]
  <2>1. i + 1 \in 1..(Len(one) + Len(d)) /\ ~(i + 1 <= Len(one)) /\ (i + 1) - Len(one) = i
    BY <1>2, <1>3
  <2> QED BY <1>4, <2>1
<1> QED BY <1>4, <1>5, <1>6 DEF one

\* A number in E.164 is a mark, a 1 and the number's own digits.
LEMMA E164Characters ==
  ASSUME NEW d \in Seq(Digit)
  PROVE  /\ Phone!E164(d) \in Typed
         /\ Len(Phone!E164(d)) = Len(d) + 2
         /\ Phone!E164(d)[1] = Mark /\ Phone!E164(d)[2] = 1
         /\ \A i \in 1..Len(d) : Phone!E164(d)[i + 2] = d[i]
<1> DEFINE S == Digit \cup {Mark}
           plus == <<Mark, 1>>
<1>1. plus \in Seq(S) /\ Len(plus) = 2 /\ plus[1] = Mark /\ plus[2] = 1
  BY DEF Digit
<1>2. Len(d) \in Nat
  BY LenProperties
<1>3. d \in Seq(S)
  BY SeqMonotonic
<1> HIDE DEF plus, S
<1>4. /\ plus \o d \in Seq(S)
      /\ Len(plus \o d) = Len(plus) + Len(d)
      /\ \A i \in 1..(Len(plus) + Len(d)) :
           (plus \o d)[i] = IF i <= Len(plus) THEN plus[i] ELSE d[i - Len(plus)]
  BY <1>1, <1>3, ConcatProperties
<1>5. Len(plus \o d) = Len(d) + 2 /\ (plus \o d)[1] = Mark /\ (plus \o d)[2] = 1
  BY <1>1, <1>2, <1>4
<1>6. ASSUME NEW i \in 1..Len(d)
      PROVE  (plus \o d)[i + 2] = d[i]
  <2>1. i + 2 \in 1..(Len(plus) + Len(d)) /\ ~(i + 2 <= Len(plus)) /\ (i + 2) - Len(plus) = i
    BY <1>1, <1>2
  <2> QED BY <1>4, <2>1
<1>7. Phone!E164(d) = plus \o d
  BY DEF Phone!E164, plus
<1> QED BY <1>4, <1>5, <1>6, <1>7 DEF Typed, S

\* What is left of it are the 1 and those digits.
LEMMA DigitsOfE164 ==
  ASSUME NEW d \in Seq(Digit)
  PROVE  Phone!Digits(Phone!E164(d)) = <<1>> \o d
<1> DEFINE e == Phone!E164(d)
           m == Len(d)
<1>1. /\ e \in Typed /\ Len(e) = m + 2 /\ e[1] = Mark /\ e[2] = 1
      /\ \A i \in 1..m : e[i + 2] = d[i]
  BY E164Characters
<1>2. m \in Nat /\ \A i \in 1..m : d[i] \in Digit
  BY LenProperties, ElementOfSeq
<1> HIDE DEF e
<1>3. PICK upto : IsDigitTable(upto, e) /\ Phone!Digits(e) = upto[Len(e)]
  BY <1>1, DigitsUnfold
<1> HIDE DEF m
<1>4. /\ upto \in [0..(m + 2) -> Seq(Digit)] /\ upto[0] = <<>>
      /\ \A n \in 0..(m + 1) :
           upto[n + 1] = IF e[n + 1] \in Digit THEN Append(upto[n], e[n + 1]) ELSE upto[n]
  <2>1. (m + 2) - 1 = m + 1
    BY <1>2
  <2> QED BY <1>1, <1>3, <2>1 DEF IsDigitTable
<1> DEFINE Copied(n) == /\ Len(upto[n + 2]) = n + 1
                        /\ upto[n + 2][1] = 1
                        /\ \A i \in 1..n : upto[n + 2][i + 1] = d[i]
           good == {n \in 0..m : Copied(n)}
<1>5. 0 \in good
  <2>1. Mark \notin Digit /\ 1 \in Digit
    BY MarkAssumption DEF Digit
  <2>2. upto[1] = <<>>
    BY <1>1, <1>2, <1>4, <2>1
  <2>3. upto[2] = Append(<<>>, 1)
    <3>1. 1 \in 0..(m + 1) /\ 1 + 1 = 2
      BY <1>2
    <3> QED BY <1>1, <1>4, <2>1, <2>2, <3>1
  <2>4. Len(Append(<<>>, 1)) = 1 /\ Append(<<>>, 1)[1] = 1
    OBVIOUS
  <2> DEFINE s == Append(<<>>, 1)
  <2> HIDE DEF s
  <2>5. Len(upto[0 + 2]) = 0 + 1 /\ upto[0 + 2][1] = 1
    <3>1. Len(s) = 1 /\ s[1] = 1
      BY <2>4 DEF s
    <3>2. upto[0 + 2] = s
      <4>1. 0 + 2 = 2
        OBVIOUS
      <4>2. upto[2] = s
        BY <2>3 DEF s
      <4> QED BY <4>1, <4>2
    <3> QED BY <3>1, <3>2
  <2>6. \A i \in 1..0 : upto[0 + 2][i + 1] = d[i]
    OBVIOUS
  <2> QED BY <1>2, <2>5, <2>6
<1>6. ASSUME NEW n \in 0..(m - 1), n \in good
      PROVE  n + 1 \in good
  <2> DEFINE s == upto[n + 2]
             t == upto[n + 3]
  <2>1. s \in Seq(Digit) /\ n + 1 \in 1..m /\ d[n + 1] \in Digit
    BY <1>2, <1>4
  <2>2. t = Append(s, d[n + 1])
    <3>1. n + 2 \in 0..(m + 1) /\ (n + 2) + 1 = n + 3 /\ (n + 1) + 2 = n + 3
      BY <1>2
    <3>2. e[n + 3] = d[n + 1]
      BY <1>1, <2>1, <3>1
    <3>3. upto[n + 3] = IF e[n + 3] \in Digit THEN Append(upto[n + 2], e[n + 3]) ELSE upto[n + 2]
      BY <1>4, <3>1
    <3> QED BY <2>1, <3>2, <3>3
  <2>3. Len(s) = n + 1 /\ s[1] = 1 /\ \A i \in 1..n : s[i + 1] = d[i]
    BY <1>6
  <2> HIDE DEF s, t
  <2>4. /\ Len(t) = Len(s) + 1
        /\ \A i \in 1..Len(s) : t[i] = s[i]
        /\ t[Len(s) + 1] = d[n + 1]
    BY <2>1, <2>2, AppendProperties
  <2>5. Len(t) = (n + 1) + 1 /\ t[1] = 1
    BY <2>3, <2>4
  <2>6. ASSUME NEW i \in 1..(n + 1)
        PROVE  t[i + 1] = d[i]
    <3>1. CASE i = n + 1
      BY <2>3, <2>4, <3>1
    <3>2. CASE i # n + 1
      <4>1. i \in 1..n /\ i + 1 \in 1..Len(s)
        BY <2>3, <3>2
      <4> QED BY <2>3, <2>4, <4>1
    <3> QED BY <3>1, <3>2
  <2>7. t = upto[(n + 1) + 2]
    <3>1. (n + 1) + 2 = n + 3
      OBVIOUS
    <3> QED BY <3>1 DEF t
  <2>8. n + 1 \in 0..m
    BY <1>2
  <2> QED BY <2>5, <2>6, <2>7, <2>8
<1>7. \A n \in 0..m : n \in good
  <2> HIDE DEF good
  <2> QED BY <1>2, <1>5, <1>6, InductionUpTo
<1>8. m \in 0..m /\ m + 2 \in 0..(m + 2)
  BY <1>2
<1>9. Copied(m)
  BY <1>7, <1>8
<1> DEFINE r == upto[m + 2]
           q == <<1>> \o d
<1>10. r \in Seq(Digit) /\ Len(r) = m + 1 /\ r[1] = 1 /\ \A i \in 1..m : r[i + 1] = d[i]
  BY <1>4, <1>8, <1>9
<1>11. q \in Seq(Digit) /\ Len(q) = m + 1 /\ q[1] = 1 /\ \A i \in 1..m : q[i + 1] = d[i]
  BY OneBefore DEF m
<1> HIDE DEF r, q
<1>12. ASSUME NEW i \in 1..(m + 1)
       PROVE  r[i] = q[i]
  <2>1. CASE i = 1
    BY <1>10, <1>11, <2>1
  <2>2. CASE i # 1
    <3>1. i - 1 \in 1..m /\ (i - 1) + 1 = i
      BY <1>2, <2>2
    <3> QED BY <1>10, <1>11, <3>1
  <2> QED BY <2>1, <2>2
<1>13. r = q
  BY <1>10, <1>11, <1>12, SeqEqual
<1> QED BY <1>1, <1>3, <1>13 DEF r, q, e

-----------------------------------------------------------------------------
(* The theorems.                                                           *)

\* What the digits of an entry come to, by their number.
LEMMA NationalFacts ==
  ASSUME NEW d \in Seq(Digit)
  PROVE  LET last == SubSeq(d, Len(d) - 9, Len(d)) IN
         /\ Phone!National(d) \in Seq(Digit)
         /\ Len(d) = 10 => Phone!National(d) = d /\ last = d
         /\ Len(d) = 11 /\ d[1] = 1 =>
              Len(Phone!National(d)) = 10 /\ Phone!National(d) = last /\ d = <<1>> \o last
         /\ Len(d) # 10 /\ ~(Len(d) = 11 /\ d[1] = 1) => Len(Phone!National(d)) # 10
<1> DEFINE last == SubSeq(d, Len(d) - 9, Len(d))
<1>1. Len(d) \in Nat
  BY LenProperties
<1>2. CASE Len(d) = 10
  <2>1. last = d
    <3>1. Len(d) - 9 = 1
      BY <1>2
    <3> QED BY <3>1, SubSeqFull
  <2>2. Phone!National(d) = d
    BY <1>2 DEF Phone!National
  <2> HIDE DEF last
  <2> QED BY <1>2, <2>1, <2>2 DEF last
<1>3. CASE Len(d) = 11 /\ d[1] = 1
  <2>1. d # <<>>
    BY <1>3, EmptySeq
  <2>2. /\ Tail(d) \in Seq(Digit) /\ Len(Tail(d)) = 10
        /\ \A i \in 1..10 : Tail(d)[i] = d[i + 1]
    <3>1. /\ Tail(d) \in Seq(Digit) /\ Len(Tail(d)) = Len(d) - 1
          /\ \A i \in 1..Len(Tail(d)) : Tail(d)[i] = d[i + 1]
      BY <2>1, HeadTailProperties
    <3> DEFINE t == Tail(d)
    <3> HIDE DEF t
    <3>2. t \in Seq(Digit) /\ Len(t) = Len(d) - 1 /\ \A i \in 1..Len(t) : t[i] = d[i + 1]
      BY <3>1 DEF t
    <3>3. Len(t) = 10
      BY <1>3, <3>2
    <3> QED BY <3>2, <3>3 DEF t
  <2>3. Tail(d) = last
    <3>1. Len(d) - 9 = 2
      BY <1>3
    <3> QED BY <2>1, <3>1, TailIsSubSeq
  <2>4. Phone!National(d) = Tail(d)
    BY <1>3 DEF Phone!National
  <2> DEFINE t == Tail(d)
             q == <<1>> \o t
  <2>5. t \in Seq(Digit) /\ Len(t) = 10 /\ \A i \in 1..10 : t[i] = d[i + 1]
    BY <2>2
  <2> HIDE DEF t
  <2>6. q \in Seq(Digit) /\ Len(q) = 11 /\ q[1] = 1 /\ \A i \in 1..10 : q[i + 1] = t[i]
    <3>1. /\ q \in Seq(Digit) /\ Len(q) = Len(t) + 1 /\ q[1] = 1
          /\ \A i \in 1..Len(t) : q[i + 1] = t[i]
      BY <2>5, OneBefore
    <3> HIDE DEF q
    <3> QED BY <2>5, <3>1
  <2> HIDE DEF q
  <2>7. ASSUME NEW i \in 1..11
        PROVE  d[i] = q[i]
    <3>1. CASE i = 1
      BY <1>3, <2>6, <3>1
    <3>2. CASE i # 1
      <4>1. i - 1 \in 1..10 /\ (i - 1) + 1 = i
        BY <3>2
      <4> QED BY <2>6, <2>5, <4>1
    <3> QED BY <3>1, <3>2
  <2>8. d = q
    BY <1>3, <2>6, <2>7, SeqEqual
  <2> HIDE DEF last
  <2> QED BY <1>3, <2>2, <2>3, <2>4, <2>8 DEF q, t, last
<1>4. CASE Len(d) # 10 /\ ~(Len(d) = 11 /\ d[1] = 1)
  BY <1>4 DEF Phone!National
<1> QED BY <1>2, <1>3, <1>4

\* A number that may be dialled is one that the entry spells, and one that it
\* spells is not refused.
LEMMA EntryDialsWhatIsSpelled ==
  ASSUME NEW e \in Typed
  PROVE  Phone!DialsWhatIsSpelled(e)
<1> DEFINE d == Phone!Digits(e)
           last == SubSeq(d, Len(d) - 9, Len(d))
           nat == Phone!National(d)
<1>1. d \in Seq(Digit)
  BY DigitsType
<1> HIDE DEF d
<1>2. /\ nat \in Seq(Digit)
      /\ Len(d) = 10 => nat = d /\ last = d
      /\ Len(d) = 11 /\ d[1] = 1 => Len(nat) = 10 /\ nat = last /\ d = <<1>> \o last
      /\ Len(d) # 10 /\ ~(Len(d) = 11 /\ d[1] = 1) => Len(nat) # 10
  BY <1>1, NationalFacts
<1>3. /\ Phone!LastTen(e) = last
      /\ Phone!Normalize(e) = IF Phone!Assigned(nat) THEN Phone!E164(nat) ELSE Unusable
      /\ Phone!Spells(e, last) <=> d \in {last, <<1>> \o last}
  BY DEF Phone!LastTen, Phone!Normalize, Phone!Spells, d
<1>4. Len(d) \in Nat
  BY <1>1, LenProperties
<1> SUFFICES IF Len(d) >= 10 /\ Phone!Assigned(last) /\ Phone!Spells(e, last)
             THEN Phone!Normalize(e) = Phone!E164(last)
             ELSE Phone!Normalize(e) = Unusable
  BY <1>3 DEF Phone!DialsWhatIsSpelled, d
<1> HIDE DEF last, nat
<1>5. CASE Len(d) = 10
  BY <1>2, <1>3, <1>5
<1>6. CASE Len(d) = 11 /\ d[1] = 1
  BY <1>2, <1>3, <1>6
<1>7. CASE Len(d) # 10 /\ ~(Len(d) = 11 /\ d[1] = 1)
  <2>1. ~Phone!Assigned(nat)
    BY <1>2, <1>7 DEF Phone!Assigned
  <2>2. ASSUME Len(d) >= 10, Phone!Spells(e, last) PROVE FALSE
    <3>1. last \in Seq(Digit) /\ Len(last) = 10
      <4>1. Len(d) - 9 \in Int /\ Len(d) \in Int /\ \A i \in (Len(d) - 9)..Len(d) : d[i] \in Digit
        BY <1>1, <1>4, <2>2, ElementOfSeq
      <4>2. /\ last \in Seq(Digit)
            /\ Len(last) = IF Len(d) - 9 <= Len(d) THEN Len(d) - (Len(d) - 9) + 1 ELSE 0
        BY <4>1, SubSeqProperties DEF last
      <4> QED BY <1>4, <4>2
    <3> DEFINE q == <<1>> \o last
    <3>2. Len(q) = Len(last) + 1 /\ q[1] = 1
      BY <3>1, OneBefore
    <3>3. d = last \/ d = q
      BY <1>3, <2>2
    <3> HIDE DEF q
    <3> QED BY <1>7, <3>1, <3>2, <3>3
  <2> QED BY <1>3, <2>1, <2>2
<1> QED BY <1>5, <1>6, <1>7

\* Normalizing a normal number does nothing.
LEMMA EntryIsNormalizedOnce ==
  ASSUME NEW e \in Typed
  PROVE  Phone!NormalizedOnceIsEnough(e)
<1> DEFINE d == Phone!National(Phone!Digits(e))
           q == <<1>> \o d
<1> SUFFICES ASSUME Phone!Normalize(e) # Unusable
             PROVE  Phone!Normalize(Phone!Normalize(e)) = Phone!Normalize(e)
  BY DEF Phone!NormalizedOnceIsEnough
<1>1. d \in Seq(Digit)
  BY DigitsType, NationalFacts
<1>2. Phone!Assigned(d) /\ Phone!Normalize(e) = Phone!E164(d)
  BY DEF Phone!Normalize
<1> HIDE DEF d
<1>3. Len(d) = 10
  BY <1>2 DEF Phone!Assigned
<1>4. q \in Seq(Digit) /\ Len(q) = 11 /\ q[1] = 1
  <2>1. q \in Seq(Digit) /\ Len(q) = Len(d) + 1 /\ q[1] = 1
    BY <1>1, OneBefore
  <2> HIDE DEF q
  <2> QED BY <1>3, <2>1
<1>5. Phone!National(q) = d
  <2> DEFINE t == Phone!National(q)
             last == SubSeq(q, Len(q) - 9, Len(q))
  <2>1. Len(t) = 10 /\ t \in Seq(Digit) /\ t = Tail(q)
    BY <1>4, NationalFacts DEF Phone!National
  <2>2. q # <<>>
    BY <1>4, EmptySeq
  <2>3. \A i \in 1..Len(Tail(q)) : Tail(q)[i] = q[i + 1]
    BY <1>4, <2>2, HeadTailProperties
  <2>4. \A i \in 1..10 : q[i + 1] = d[i]
    BY <1>1, <1>3, OneBefore
  <2> HIDE DEF t, q
  <2>5. \A i \in 1..10 : t[i] = d[i]
    BY <2>1, <2>3, <2>4
  <2>6. t = d
    BY <1>1, <1>3, <2>1, <2>5, SeqEqual
  <2> QED BY <2>6 DEF t
<1>6. Phone!Digits(Phone!E164(d)) = q
  BY <1>1, DigitsOfE164
<1> HIDE DEF q
<1>7. Phone!Normalize(Phone!E164(d)) = Phone!E164(d)
  BY <1>2, <1>5, <1>6 DEF Phone!Normalize
<1> QED BY <1>2, <1>7

\* What a run types is an entry.
LEMMA EntriesAreTyped == PlanSpec => [](entry \in Typed)
<1>1. PlanInit => entry \in Typed
  BY EmptySeq DEF PlanInit, Typed
<1>2. entry \in Typed /\ [PlanNext]_planVars => (entry \in Typed)'
  <2> SUFFICES ASSUME entry \in Typed, [PlanNext]_planVars PROVE entry' \in Typed
    BY DEF Typed
  <2>1. ASSUME NEW c \in Character, entry' = Append(entry, c)
        PROVE  entry' \in Typed
    <3>1. c \in Digit \cup {Mark}
      BY <2>1 DEF Character, Digit
    <3> QED BY <2>1, <3>1, AppendProperties DEF Typed
  <2> QED BY <2>1 DEF PlanNext, AddRow, Type, planVars
<1> QED BY <1>1, <1>2, PTL DEF PlanSpec

\* Whatever was typed, however long and with whatever marks: the number dialled
\* is one that the entry spells, none of its digits is dropped, an extension's
\* included, and an entry that spells a number is not refused
\* (normalize_us_phone).
THEOREM DialsWhatWasMeant ==
  /\ \A e \in Typed : Phone!DialsWhatIsSpelled(e)
  /\ PlanSpec => []DialsWhatWasTyped
<1>1. \A e \in Typed : Phone!DialsWhatIsSpelled(e)
  BY EntryDialsWhatIsSpelled
<1>2. entry \in Typed => DialsWhatWasTyped
  BY <1>1 DEF DialsWhatWasTyped
<1>3. PlanSpec => []DialsWhatWasTyped
  BY <1>2, EntriesAreTyped, PTL
<1> QED BY <1>1, <1>3

\* What the daily run queues after normalizing it, the sender, which normalizes
\* it again before it dials, neither refuses nor changes (recipient,
\* send_message).
THEOREM NormalizingTwiceIsNormalizing ==
  /\ \A e \in Typed : Phone!NormalizedOnceIsEnough(e)
  /\ PlanSpec => []SenderTakesWhatIsQueued
<1>1. \A e \in Typed : Phone!NormalizedOnceIsEnough(e)
  BY EntryIsNormalizedOnce
<1>2. entry \in Typed => SenderTakesWhatIsQueued
  BY <1>1 DEF SenderTakesWhatIsQueued
<1>3. PlanSpec => []SenderTakesWhatIsQueued
  BY <1>2, EntriesAreTyped, PTL
<1> QED BY <1>1, <1>3

-----------------------------------------------------------------------------
(* What is planned of a run's rows.                                        *)

\* What a run lists are hearings.
LEMMA RowsAreHearings == PlanSpec => [](rows \in Seq(Hearing))
<1>1. PlanInit => rows \in Seq(Hearing)
  BY EmptySeq DEF PlanInit
<1>2. rows \in Seq(Hearing) /\ [PlanNext]_planVars => (rows \in Seq(Hearing))'
  <2> SUFFICES ASSUME rows \in Seq(Hearing), [PlanNext]_planVars PROVE rows' \in Seq(Hearing)
    BY DEF Hearing, Recipient
  <2>1. ASSUME NEW h \in Hearing, rows' = Append(rows, h)
        PROVE  rows' \in Seq(Hearing)
    BY <2>1, AppendProperties
  <2> QED BY <2>1 DEF PlanNext, AddRow, Type, planVars
<1> QED BY <1>1, <1>2, PTL DEF PlanSpec

\* However many hearings the query returns, in whatever order, and while no two
\* numbers share a tag: the texts of the plan are those of the first textable
\* hearing of each number and day, in order, and every hearing is planned or
\* counted under the reason it was skipped for (_plan, RunSummary).
THEOREM EveryListIsPlanned ==
  ASSUME TagsTellApart
  PROVE  PlanSpec => []PlansTheFirstOfEach
<1>1. rows \in Seq(Hearing) => PlansTheFirstOfEach
  BY PlansTheFirst, PlanCountsEveryHearing DEF PlansTheFirstOfEach
<1> QED BY <1>1, RowsAreHearings, PTL
=============================================================================

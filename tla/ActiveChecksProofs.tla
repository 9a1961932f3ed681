------------------------- MODULE ActiveChecksProofs -------------------------
(***************************************************************************)
(* ActiveExact and NoKeyTwice for any keys, threshold, depth and width of  *)
(* the generation.                                                         *)
(***************************************************************************)
EXTENDS ActiveChecks, SequenceTheorems, TLAPS

(* The mark of k, if it has one, is current and active.                    *)
Current(d, k) ==
    k \in DOMAIN marks[d] /\ marks[d][k].gen = generation /\ marks[d][k].active

(* No mark is of a later generation, so a reset leaves no current one.     *)
MarksOld == \A d \in Kinds : \A k \in DOMAIN marks[d] : marks[d][k].gen <= generation

(* A current, active mark belongs to a key on the stack, at any height.    *)
MarksOnStack == \A d \in Kinds, k \in Keys : Current(d, k) => k \in Range(stack[d])

(* From the threshold on, every key on the stack has one.                  *)
StackMarked ==
    \A d \in Kinds : useIndexes /\ Len(stack[d]) >= Threshold =>
        \A k \in Range(stack[d]) : Current(d, k)

(* The inductive invariant.                                                *)
ActiveInv == TypeOK /\ MarksOld /\ MarksOnStack /\ StackMarked /\ NoKeyTwice

-----------------------------------------------------------------------------
(* The invariant is as strong as the property needs.                       *)
LEMMA InvImpliesExact == ActiveInv => ActiveExact
  <1> SUFFICES ASSUME ActiveInv, NEW d \in Kinds, NEW k \in Keys
               PROVE  IsActive(d, k) <=> k \in Range(stack[d])
    BY DEF ActiveExact
  <1>1. CASE ~useIndexes \/ Len(stack[d]) < Threshold
    BY <1>1 DEF IsActive
  <1>2. CASE useIndexes /\ ~(Len(stack[d]) < Threshold)
    <2>1. Len(stack[d]) \in Nat /\ Len(stack[d]) >= Threshold
      BY <1>2, ActiveConstants DEF ActiveInv, TypeOK
    <2>2. IsActive(d, k) <=> Current(d, k)
      BY <1>2 DEF IsActive, Current
    <2>3. k \in Range(stack[d]) => Current(d, k)
      BY <1>2, <2>1, Zenon DEF ActiveInv, StackMarked
    <2>4. Current(d, k) => k \in Range(stack[d])
      BY DEF ActiveInv, MarksOnStack
    <2>. QED BY <2>2, <2>3, <2>4
  <1>. QED BY <1>1, <1>2

(* Arithmetic on lengths.                                                  *)
LEMMA Smaller == \A i, n : i \in Nat /\ i < n => i # n
  OBVIOUS

(* What pushing a new key does to a stack without repetitions.             *)
LEMMA PushKeepsInjective ==
  ASSUME NEW S, NEW s \in Seq(S), NEW k \in S, IsInjective(s), k \notin Range(s)
  PROVE  /\ Append(s, k) \in Seq(S)
         /\ Len(Append(s, k)) = Len(s) + 1
         /\ IsInjective(Append(s, k))
         /\ Range(Append(s, k)) = Range(s) \cup {k}
  <1> DEFINE t == Append(s, k)
  <1>1. t \in Seq(S) /\ Len(t) = Len(s) + 1 /\ Len(s) \in Nat
        /\ DOMAIN s = 1..Len(s) /\ DOMAIN t = 1..Len(s) + 1
    OBVIOUS
  <1>2. \A i \in 1..Len(s) : t[i] = s[i]
    OBVIOUS
  <1>3. t[Len(s) + 1] = k
    OBVIOUS
  <1> HIDE DEF t
  <1>4. \A i \in 1..Len(s) : t[i] # k
    BY <1>1, <1>2 DEF Range
  <1>5. \A i \in DOMAIN t : i \in 1..Len(s) \/ i = Len(s) + 1
    BY <1>1
  <1>6. IsInjective(t)
    BY <1>1, <1>2, <1>3, <1>4, <1>5 DEF IsInjective
  <1>7. \A i \in 1..Len(s) : i \in DOMAIN t
    BY <1>1
  <1>8. Len(s) + 1 \in DOMAIN t
    BY <1>1
  <1>9. Range(t) = Range(s) \cup {k}
    BY <1>1, <1>2, <1>3, <1>5, <1>7, <1>8 DEF Range
  <1>. QED BY <1>1, <1>6, <1>9 DEF t

(* What popping does to it: exactly the last key goes.                     *)
LEMMA PopKeepsInjective ==
  ASSUME NEW S, NEW s \in Seq(S), s # <<>>, IsInjective(s),
         NEW t, t = SubSeq(s, 1, Len(s) - 1)
  PROVE  /\ t \in Seq(S)
         /\ Len(t) = Len(s) - 1
         /\ IsInjective(t)
         /\ s[Len(s)] \in S
         /\ Range(t) = Range(s) \ {s[Len(s)]}
  <1>1. Len(s) \in Nat /\ Len(s) > 0 /\ DOMAIN s = 1..Len(s) /\ s[Len(s)] \in S
    OBVIOUS
  <1>2. t \in Seq(S) /\ Len(t) = Len(s) - 1
    BY <1>1
  <1>3. DOMAIN t = 1..Len(s) - 1
    BY <1>1, <1>2
  <1>4. \A i \in 1..Len(s) - 1 : t[i] = s[i] /\ i \in DOMAIN s /\ i # Len(s)
    <2> SUFFICES ASSUME NEW i \in 1..Len(s) - 1
                 PROVE  t[i] = s[i] /\ i \in DOMAIN s /\ i # Len(s)
      OBVIOUS
    <2>1. i \in Nat /\ i >= 1 /\ i < Len(s)
      BY <1>1
    <2>2. i \in 1..Len(s)
      BY <1>1, <2>1
    <2>3. t[i] = s[i]
      BY <1>1, <2>1
    <2>4. i \in DOMAIN s
      BY <1>1, <2>2
    <2>5. i # Len(s)
      BY <2>1, Smaller
    <2>. QED BY <2>3, <2>4, <2>5
  <1>5. IsInjective(t)
    BY <1>3, <1>4 DEF IsInjective
  <1>6. \A i \in DOMAIN s : i \in 1..Len(s) - 1 \/ i = Len(s)
    BY <1>1
  <1>7. Len(s) \in DOMAIN s
    BY <1>1
  <1>8. \A i \in 1..Len(s) - 1 : s[i] # s[Len(s)]
    BY <1>4, <1>7 DEF IsInjective
  <1>9. Range(t) = Range(s) \ {s[Len(s)]}
    BY <1>3, <1>4, <1>6, <1>8 DEF Range
  <1>. QED BY <1>1, <1>2, <1>5, <1>9

-----------------------------------------------------------------------------
(* The initial state.                                                      *)
LEMMA InitActive == Init => ActiveInv
  <1> SUFFICES ASSUME Init PROVE ActiveInv
    OBVIOUS
  <1>0. Range(<<>>) = {} /\ IsInjective(<<>>) /\ Len(<<>>) = 0
    BY DEF Range, IsInjective
  <1>1. TypeOK
    <2>1. NoMarks \in [DOMAIN NoMarks -> Mark] /\ DOMAIN NoMarks \subseteq Keys
      BY DEF NoMarks
    <2>2. stack \in [Kinds -> Seq(Keys)]
      BY DEF Init
    <2>3. DOMAIN marks = Kinds /\ \A d \in Kinds : marks[d] = NoMarks
      BY DEF Init
    <2>4. generation \in 1..MaxGeneration
      BY ActiveConstants DEF Init
    <2>5. remaining \in 0..MaxDepth
      BY ActiveConstants DEF Init
    <2>6. useIndexes \in BOOLEAN
      BY Zenon DEF Init
    <2>. QED BY <2>1, <2>2, <2>3, <2>4, <2>5, <2>6 DEF TypeOK
  <1>2. MarksOld /\ MarksOnStack /\ StackMarked
    BY DEF Init, MarksOld, MarksOnStack, StackMarked, Current, NoMarks
  <1>3. NoKeyTwice
    BY <1>0, ActiveConstants DEF Init, NoKeyTwice, Kinds
  <1>. QED BY <1>1, <1>2, <1>3 DEF ActiveInv

(* A visit: the key is new to its stack because ActiveExact holds.         *)
LEMMA VisitStep ==
  ASSUME ActiveInv, NEW d \in Kinds, NEW k \in Keys, Visit(d, k)
  PROVE  ActiveInv'
  <1> DEFINE old == stack[d]
             pushed == Append(old, k)
             S == {k} \cup (IF Len(old) + 1 = Threshold THEN Range(old) ELSE {})
             mark == [gen |-> generation, active |-> TRUE]
  <1>1. old \in Seq(Keys) /\ Len(old) \in Nat /\ IsInjective(old) /\ k \notin Range(old)
    BY InvImpliesExact DEF Visit, ActiveInv, ActiveExact, NoKeyTwice, TypeOK
  <1>2. /\ pushed \in Seq(Keys) /\ Len(pushed) = Len(old) + 1 /\ IsInjective(pushed)
        /\ Range(pushed) = Range(old) \cup {k}
    BY <1>1, PushKeepsInjective
  <1>3. stack' = [stack EXCEPT ![d] = pushed] /\ generation' = generation
        /\ useIndexes' = useIndexes
    BY DEF Visit
  <1>4. DOMAIN stack = Kinds /\ DOMAIN marks = Kinds
    BY DEF ActiveInv, TypeOK
  <1>5. stack'[d] = pushed /\ \A e \in Kinds \ {d} : stack'[e] = stack[e]
    BY <1>3, <1>4
  <1>6. \A e \in Kinds \ {d} : marks'[e] = marks[e]
    BY <1>4 DEF Visit
  <1>7. marks'[d] = PushedMarks(d, k)
    BY <1>4 DEF Visit
  <1>8. S \subseteq Keys /\ k \in S /\ S \subseteq Range(pushed)
    <2>1. Range(old) \subseteq Keys
      BY <1>1 DEF Range
    <2>2. S \subseteq Range(old) \cup {k} /\ k \in S
      OBVIOUS
    <2>. QED BY <1>2, <2>1, <2>2
  <1> HIDE DEF pushed, S
  <1>9. \/ marks'[d] = marks[d] /\ ~(useIndexes /\ Len(old) + 1 >= Threshold)
        \/ /\ useIndexes /\ Len(old) + 1 >= Threshold
           /\ marks'[d] = [j \in DOMAIN marks[d] \cup S |-> IF j \in S THEN mark ELSE marks[d][j]]
    BY <1>7 DEF PushedMarks, Marked, S
  <1>10. TypeOK'
    <2>1. stack' \in [Kinds -> Seq(Keys)]
      BY <1>2, <1>3 DEF ActiveInv, TypeOK
    <2>2. DOMAIN marks' = Kinds
      BY <1>4 DEF Visit
    <2>3. mark \in Mark
      BY Zenon DEF Mark, ActiveInv, TypeOK
    <2>4. \A e \in Kinds : DOMAIN marks[e] \subseteq Keys /\ marks[e] \in [DOMAIN marks[e] -> Mark]
      BY DEF ActiveInv, TypeOK
    <2>5. DOMAIN marks'[d] \subseteq Keys /\ marks'[d] \in [DOMAIN marks'[d] -> Mark]
      BY <1>8, <1>9, <2>3, <2>4
    <2>6. \A e \in Kinds : DOMAIN marks'[e] \subseteq Keys /\ marks'[e] \in [DOMAIN marks'[e] -> Mark]
      BY <1>6, <2>4, <2>5
    <2>7. remaining' \in 0..MaxDepth
      BY ActiveConstants DEF Visit, ActiveInv, TypeOK
    <2>8. generation' \in 1..MaxGeneration /\ useIndexes' \in BOOLEAN
      BY <1>3, Zenon DEF ActiveInv, TypeOK
    <2>. QED BY <2>1, <2>2, <2>6, <2>7, <2>8 DEF TypeOK
  <1>11. MarksOld'
    <2>1. generation \in Nat
      BY DEF ActiveInv, TypeOK
    <2>2. \A j \in DOMAIN marks'[d] : marks'[d][j].gen <= generation
      BY <1>9, <2>1 DEF ActiveInv, MarksOld
    <2>. QED BY <1>3, <1>6, <2>2 DEF ActiveInv, MarksOld
  <1>12. MarksOnStack'
    <2> SUFFICES ASSUME NEW e \in Kinds, NEW j \in Keys, Current(e, j)'
                 PROVE  j \in Range(stack'[e])
      BY DEF MarksOnStack
    <2>1. CASE e # d
      BY <1>3, <1>5, <1>6, <2>1 DEF Current, ActiveInv, MarksOnStack
    <2>2. CASE e = d /\ j \in S
      BY <1>5, <1>8, <2>2
    <2>3. CASE e = d /\ j \notin S
      <3>1. Current(d, j)
        BY <1>3, <1>9, <2>3 DEF Current
      <3>. QED BY <1>2, <1>5, <2>3, <3>1 DEF ActiveInv, MarksOnStack
    <2>. QED BY <2>1, <2>2, <2>3
  <1>13. StackMarked'
    <2> SUFFICES ASSUME NEW e \in Kinds, useIndexes', Len(stack'[e]) >= Threshold,
                        NEW j \in Range(stack'[e])
                 PROVE  Current(e, j)'
      BY DEF StackMarked
    <2>1. CASE e # d
      <3>1. Current(e, j)
        BY <1>3, <1>5, <2>1, Zenon DEF ActiveInv, StackMarked
      <3>. QED BY <1>3, <1>6, <2>1, <3>1 DEF Current
    <2>2. CASE e = d
      <3>1. useIndexes /\ Len(old) + 1 >= Threshold
        BY <1>2, <1>3, <1>5, <2>2
      <3>2. marks'[d] = [i \in DOMAIN marks[d] \cup S |-> IF i \in S THEN mark ELSE marks[d][i]]
        BY <1>9, <3>1
      <3>3. j \in Range(old) \cup {k}
        BY <1>2, <1>5, <2>2
      <3>4. CASE j \in S
        BY <1>3, <2>2, <3>2, <3>4 DEF Current
      <3>5. CASE j \notin S
        <4>1. j \in Range(old) /\ Len(old) + 1 # Threshold
          BY <1>8, <3>3, <3>5 DEF S
        <4>2. Len(old) >= Threshold
          BY <1>1, <3>1, <4>1, ActiveConstants
        <4>3. Current(d, j)
          BY <3>1, <4>1, <4>2, Zenon DEF ActiveInv, StackMarked
        <4>. QED BY <1>3, <2>2, <3>2, <3>5, <4>3 DEF Current
      <3>. QED BY <3>4, <3>5
    <2>. QED BY <2>1, <2>2
  <1>14. NoKeyTwice'
    <2>1. \A e \in Kinds : IsInjective(stack'[e])
      BY <1>2, <1>5 DEF ActiveInv, NoKeyTwice
    <2>2. stack["check"] \in Seq(Keys) /\ stack["expand"] \in Seq(Keys) /\ remaining \in Nat
      BY DEF ActiveInv, TypeOK, Kinds
    <2>3. remaining' + Len(stack'["check"]) + Len(stack'["expand"]) = MaxDepth
      <3>5. MaxDepth \in Nat
        BY ActiveConstants
      <3> DEFINE A == Len(stack["check"])
                 B == Len(stack["expand"])
      <3>0. A \in Nat /\ B \in Nat /\ remaining \in Nat
        BY <2>2
      <3>1. remaining + A + B = MaxDepth
        BY DEF ActiveInv, NoKeyTwice
      <3> HIDE DEF A, B
      <3>2. remaining' = remaining - 1 /\ remaining > 0
        BY DEF Visit
      <3>3. CASE d = "check"
        <4>1. Len(stack'["check"]) = Len(stack["check"]) + 1 /\ stack'["expand"] = stack["expand"]
          BY <1>2, <1>5, <3>3 DEF Kinds
        <4>2. (remaining - 1) + (A + 1) + B = MaxDepth
          BY <3>0, <3>1, <3>5
        <4>. QED BY <3>2, <4>1, <4>2, Zenon DEF A, B
      <3>4. CASE d = "expand"
        <4>1. Len(stack'["expand"]) = Len(stack["expand"]) + 1 /\ stack'["check"] = stack["check"]
          BY <1>2, <1>5, <3>4 DEF Kinds
        <4>2. (remaining - 1) + A + (B + 1) = MaxDepth
          BY <3>0, <3>1, <3>5
        <4>. QED BY <3>2, <4>1, <4>2, Zenon DEF A, B
      <3>. QED BY <3>3, <3>4 DEF Kinds
    <2>. QED BY <2>1, <2>3 DEF NoKeyTwice
  <1>. QED BY <1>10, <1>11, <1>12, <1>13, <1>14 DEF ActiveInv

(* A return: the popped key was on the stack once, so no other mark goes.  *)
LEMMA ReturnStep ==
  ASSUME ActiveInv, NEW d \in Kinds, Return(d)
  PROVE  ActiveInv'
  <1> DEFINE old == stack[d]
             top == old[Len(old)]
             popped == SubSeq(old, 1, Len(old) - 1)
  <1>1. old \in Seq(Keys) /\ Len(old) \in Nat /\ IsInjective(old) /\ old # <<>>
    BY DEF Return, ActiveInv, NoKeyTwice, TypeOK
  <1>2. /\ popped \in Seq(Keys) /\ Len(popped) = Len(old) - 1 /\ IsInjective(popped)
        /\ top \in Keys /\ Range(popped) = Range(old) \ {top}
    BY <1>1, PopKeepsInjective
  <1>3. stack' = [stack EXCEPT ![d] = popped] /\ generation' = generation
        /\ useIndexes' = useIndexes
    BY DEF Return
  <1>4. DOMAIN stack = Kinds /\ DOMAIN marks = Kinds
    BY DEF ActiveInv, TypeOK
  <1>5. stack'[d] = popped /\ \A e \in Kinds \ {d} : stack'[e] = stack[e]
    BY <1>3, <1>4
  <1>6. \A e \in Kinds \ {d} : marks'[e] = marks[e]
    BY <1>4 DEF Return
  <1>7. marks'[d] = Deactivated(marks[d], top)
    BY <1>4 DEF Return
  <1> HIDE DEF popped, top
  <1>8. \A e \in Kinds : DOMAIN marks[e] \subseteq Keys /\ marks[e] \in [DOMAIN marks[e] -> Mark]
    BY DEF ActiveInv, TypeOK
  <1>9. /\ DOMAIN marks'[d] = DOMAIN marks[d]
        /\ \A j \in DOMAIN marks[d] : j # top => marks'[d][j] = marks[d][j]
    BY <1>7 DEF Deactivated
  <1>10. top \in DOMAIN marks[d] =>
            /\ marks'[d][top] \in Mark
            /\ marks'[d][top].gen = marks[d][top].gen
            /\ ~(marks'[d][top].gen = generation /\ marks'[d][top].active)
    <2> SUFFICES ASSUME top \in DOMAIN marks[d]
                 PROVE  /\ marks'[d][top] \in Mark
                        /\ marks'[d][top].gen = marks[d][top].gen
                        /\ ~(marks'[d][top].gen = generation /\ marks'[d][top].active)
      OBVIOUS
    <2>1. marks[d][top] \in Mark
      BY <1>8
    <2>2. CASE marks[d][top].gen = generation
      <3>1. marks'[d] = [marks[d] EXCEPT ![top].active = FALSE]
        BY <1>7, <2>2 DEF Deactivated
      <3>2. marks'[d][top] = [marks[d][top] EXCEPT !.active = FALSE]
        BY <3>1
      <3>. QED BY <2>1, <3>2 DEF Mark
    <2>3. CASE marks[d][top].gen # generation
      BY <1>7, <2>1, <2>3 DEF Deactivated
    <2>. QED BY <2>2, <2>3
  <1>11. TypeOK'
    <2>1. stack' \in [Kinds -> Seq(Keys)]
      BY <1>2, <1>3 DEF ActiveInv, TypeOK
    <2>2. DOMAIN marks' = Kinds
      BY <1>4 DEF Return
    <2>3. \A j \in DOMAIN marks[d] : marks'[d][j] \in Mark
      BY <1>8, <1>9, <1>10
    <2>4. marks'[d] \in [DOMAIN marks'[d] -> Mark]
      <3>1. marks'[d] = [j \in DOMAIN marks'[d] |-> marks'[d][j]]
        BY <1>7, <1>8 DEF Deactivated
      <3>. QED BY <1>9, <2>3, <3>1
    <2>5. \A e \in Kinds : DOMAIN marks'[e] \subseteq Keys /\ marks'[e] \in [DOMAIN marks'[e] -> Mark]
      BY <1>6, <1>8, <1>9, <2>4
    <2>6. remaining' \in 0..MaxDepth
      <3>1. stack["check"] \in Seq(Keys) /\ stack["expand"] \in Seq(Keys) /\ remaining \in Nat
        BY DEF ActiveInv, TypeOK, Kinds
      <3>2. remaining + Len(stack["check"]) + Len(stack["expand"]) = MaxDepth
        BY DEF ActiveInv, NoKeyTwice
      <3>3. d = "check" \/ d = "expand"
        BY DEF Kinds
      <3>4. Len(old) > 0 /\ remaining' = remaining + 1
        BY <1>1 DEF Return
      <3>5. Len(stack["check"]) \in Nat /\ Len(stack["expand"]) \in Nat
            /\ (Len(stack["check"]) > 0 \/ Len(stack["expand"]) > 0)
        BY <3>1, <3>3, <3>4
      <3>6. remaining \in Nat /\ MaxDepth \in Nat
        BY <3>1, ActiveConstants
      <3>7. remaining + 1 \in 0..MaxDepth
        <4> DEFINE A == Len(stack["check"])
                   B == Len(stack["expand"])
        <4>1. A \in Nat /\ B \in Nat /\ (A > 0 \/ B > 0) /\ remaining + A + B = MaxDepth
          BY <3>2, <3>5
        <4> HIDE DEF A, B
        <4>. QED BY <3>6, <4>1
      <3>. QED BY <3>4, <3>7
    <2>7. generation' \in 1..MaxGeneration /\ useIndexes' \in BOOLEAN
      BY <1>3, Zenon DEF ActiveInv, TypeOK
    <2>. QED BY <2>1, <2>2, <2>5, <2>6, <2>7 DEF TypeOK
  <1>12. MarksOld'
    <2>1. \A j \in DOMAIN marks'[d] : marks'[d][j].gen <= generation
      BY <1>9, <1>10 DEF ActiveInv, MarksOld
    <2>. QED BY <1>3, <1>6, <2>1 DEF ActiveInv, MarksOld
  <1>13. MarksOnStack'
    <2> SUFFICES ASSUME NEW e \in Kinds, NEW j \in Keys, Current(e, j)'
                 PROVE  j \in Range(stack'[e])
      BY DEF MarksOnStack
    <2>1. CASE e # d
      BY <1>3, <1>5, <1>6, <2>1 DEF Current, ActiveInv, MarksOnStack
    <2>2. CASE e = d
      <3>1. j # top
        BY <1>3, <1>9, <1>10, <2>2 DEF Current
      <3>2. Current(d, j)
        BY <1>3, <1>9, <2>2, <3>1 DEF Current
      <3>. QED BY <1>2, <1>5, <2>2, <3>1, <3>2 DEF ActiveInv, MarksOnStack
    <2>. QED BY <2>1, <2>2
  <1>14. StackMarked'
    <2> SUFFICES ASSUME NEW e \in Kinds, useIndexes', Len(stack'[e]) >= Threshold,
                        NEW j \in Range(stack'[e])
                 PROVE  Current(e, j)'
      BY DEF StackMarked
    <2>1. CASE e # d
      <3>1. Current(e, j)
        BY <1>3, <1>5, <2>1, Zenon DEF ActiveInv, StackMarked
      <3>. QED BY <1>3, <1>6, <2>1, <3>1 DEF Current
    <2>2. CASE e = d
      <3>1. j \in Range(old) /\ j # top
        BY <1>2, <1>5, <2>2
      <3>2. Len(old) >= Threshold
        BY <1>1, <1>2, <1>5, <2>2, ActiveConstants
      <3>3. Current(d, j)
        BY <1>3, <3>1, <3>2, Zenon DEF ActiveInv, StackMarked
      <3>. QED BY <1>3, <1>9, <2>2, <3>1, <3>3 DEF Current
    <2>. QED BY <2>1, <2>2
  <1>15. NoKeyTwice'
    <2>1. \A e \in Kinds : IsInjective(stack'[e])
      BY <1>2, <1>5 DEF ActiveInv, NoKeyTwice
    <2>2. stack["check"] \in Seq(Keys) /\ stack["expand"] \in Seq(Keys) /\ remaining \in Nat
      BY DEF ActiveInv, TypeOK, Kinds
    <2>3. remaining' + Len(stack'["check"]) + Len(stack'["expand"]) = MaxDepth
      <3>5. MaxDepth \in Nat
        BY ActiveConstants
      <3> DEFINE A == Len(stack["check"])
                 B == Len(stack["expand"])
      <3>0. A \in Nat /\ B \in Nat /\ remaining \in Nat
        BY <2>2
      <3>1. remaining + A + B = MaxDepth
        BY DEF ActiveInv, NoKeyTwice
      <3> HIDE DEF A, B
      <3>2. remaining' = remaining + 1
        BY DEF Return
      <3>3. CASE d = "check"
        <4>1. Len(stack'["check"]) = Len(stack["check"]) - 1 /\ stack'["expand"] = stack["expand"]
          BY <1>2, <1>5, <3>3 DEF Kinds
        <4>2. (remaining + 1) + (A - 1) + B = MaxDepth
          BY <3>0, <3>1, <3>5
        <4>. QED BY <3>2, <4>1, <4>2, Zenon DEF A, B
      <3>4. CASE d = "expand"
        <4>1. Len(stack'["expand"]) = Len(stack["expand"]) - 1 /\ stack'["check"] = stack["check"]
          BY <1>2, <1>5, <3>4 DEF Kinds
        <4>2. (remaining + 1) + A + (B - 1) = MaxDepth
          BY <3>0, <3>1, <3>5
        <4>. QED BY <3>2, <4>1, <4>2, Zenon DEF A, B
      <3>. QED BY <3>3, <3>4 DEF Kinds
    <2>. QED BY <2>1, <2>3 DEF NoKeyTwice
  <1>. QED BY <1>11, <1>12, <1>13, <1>14, <1>15 DEF ActiveInv

(* A reset: no mark is of the new generation.                              *)
LEMMA ResetStep ==
  ASSUME ActiveInv, Reset
  PROVE  ActiveInv'
  <1>0. Range(<<>>) = {} /\ IsInjective(<<>>) /\ Len(<<>>) = 0
    BY DEF Range, IsInjective
  <1>1. \A d \in Kinds : stack'[d] = <<>>
    BY DEF Reset
  <1>2. generation \in 1..MaxGeneration /\ generation' \in 1..MaxGeneration
    BY ActiveConstants DEF Reset, ActiveInv, TypeOK
  <1>3. \/ marks' = marks /\ generation' = generation + 1
        \/ marks' = [d \in Kinds |-> NoMarks]
    BY DEF Reset
  <1>4. \A d \in Kinds : \A k \in DOMAIN marks'[d] : marks'[d][k].gen < generation'
    <2>1. CASE marks' = marks /\ generation' = generation + 1
      <3>1. \A d \in Kinds : \A k \in DOMAIN marks[d] : marks[d][k] \in Mark
        BY DEF ActiveInv, TypeOK
      <3>2. \A d \in Kinds : \A k \in DOMAIN marks[d] : marks[d][k].gen \in Nat
        BY <3>1 DEF Mark
      <3>. QED BY <1>2, <2>1, <3>2 DEF ActiveInv, MarksOld
    <2>2. CASE marks' = [d \in Kinds |-> NoMarks]
      BY <2>2 DEF NoMarks
    <2>. QED BY <1>3, <2>1, <2>2
  <1>5. TypeOK'
    <2>1. NoMarks \in [DOMAIN NoMarks -> Mark] /\ DOMAIN NoMarks \subseteq Keys
      BY DEF NoMarks
    <2>2. stack' \in [Kinds -> Seq(Keys)]
      BY DEF Reset
    <2>3. /\ DOMAIN marks' = Kinds
          /\ \A d \in Kinds : DOMAIN marks'[d] \subseteq Keys /\ marks'[d] \in [DOMAIN marks'[d] -> Mark]
      BY <1>3, <2>1 DEF ActiveInv, TypeOK
    <2>4. remaining' \in 0..MaxDepth
      BY ActiveConstants DEF Reset
    <2>5. useIndexes' \in BOOLEAN
      BY Zenon DEF Reset
    <2>. QED BY <1>2, <2>2, <2>3, <2>4, <2>5 DEF TypeOK
  <1>6. \A d \in Kinds, k \in Keys : ~Current(d, k)'
    BY <1>2, <1>4 DEF Current
  <1>7. MarksOld'
    <2>1. \A d \in Kinds : \A k \in DOMAIN marks'[d] : marks'[d][k] \in Mark
      BY <1>5 DEF TypeOK
    <2>. QED BY <1>2, <1>4, <2>1 DEF MarksOld, Mark
  <1>8. MarksOnStack'
    BY <1>6 DEF MarksOnStack
  <1>9. StackMarked'
    BY <1>0, <1>1 DEF StackMarked
  <1>10. NoKeyTwice'
    BY <1>0, <1>1, ActiveConstants DEF NoKeyTwice, Reset, Kinds
  <1>. QED BY <1>5, <1>7, <1>8, <1>9, <1>10 DEF ActiveInv

(* Nothing changes when nothing happens.                                   *)
LEMMA StutterStep ==
  ASSUME ActiveInv, UNCHANGED vars
  PROVE  ActiveInv'
  BY DEF ActiveInv, TypeOK, MarksOld, MarksOnStack, StackMarked, NoKeyTwice, Current, vars

(* The invariant holds in every reachable state of a context.              *)
THEOREM ActiveInvariance == Spec => []ActiveInv
  <1>1. Init => ActiveInv
    BY InitActive
  <1>2. ActiveInv /\ [Next]_vars => ActiveInv'
    <2> SUFFICES ASSUME ActiveInv, [Next]_vars PROVE ActiveInv'
      OBVIOUS
    <2>1. CASE Reset
      BY <2>1, ResetStep
    <2>2. CASE \E d \in Kinds : Return(d)
      BY <2>2, ReturnStep
    <2>3. CASE \E d \in Kinds, k \in Keys : Visit(d, k)
      BY <2>3, VisitStep
    <2>4. CASE UNCHANGED vars
      BY <2>4, StutterStep
    <2>. QED BY <2>1, <2>2, <2>3, <2>4 DEF Next
  <1>. QED BY <1>1, <1>2, PTL DEF Spec

(* is_check_active and is_expand_active answer what the stack would, for   *)
(* any keys, threshold and width of the generation.                        *)
THEOREM IndexIsExact == Spec => []ActiveExact
  BY ActiveInvariance, InvImpliesExact, PTL

(* Generations stay within their width, marks carry generations, and the   *)
(* depth left stays within its limit (eval.rs enter, reset_for_reuse).     *)
THEOREM ActiveTypes == Spec => []TypeOK
  <1>1. ActiveInv => TypeOK
    BY DEF ActiveInv
  <1>. QED BY ActiveInvariance, <1>1, PTL

(* No walk visits a key below itself, and the depth counts the stacks.     *)
THEOREM KeysAreVisitedOnce == Spec => []NoKeyTwice
  <1>1. ActiveInv => NoKeyTwice
    BY DEF ActiveInv
  <1>. QED BY ActiveInvariance, <1>1, PTL

=============================================================================

------------------------------ MODULE QuestionsProofs -----------------------------
(***************************************************************************)
(* Proofs about Questions: whatever is configured and drawn, the question  *)
(* has a whole positive answer.                                            *)
(***************************************************************************)
EXTENDS Questions, TLAPS

\* The difficulty of a generator, and the question that is asked.
Positive(q) == q.op # "none" => Solves(q) /\ q.answer >= 1
QuestionsInv == difficulty \in 0 .. 3 /\ HasWholeAnswer

\* The difficulty is brought into 1 .. 3 (question.go:15).
LEMMA ClampBounds ==
  ASSUME NEW d \in Int
  PROVE  Clamp(d) \in 1 .. 3
BY DEF Clamp

\* A number that is drawn is in its range (seeded.go).
LEMMA Drawn ==
  ASSUME NEW min \in Int, NEW max \in Int, NEW x \in IntRange(min, max)
  PROVE  x \in Int /\ x >= min /\ (min <= max => x <= max)
BY DEF IntRange

\* Sums of positive operands (question.go:69).
LEMMA AdditionPositive ==
  ASSUME NEW d \in 1 .. 3, NEW q \in Addition(d)
  PROVE  Positive(q)
<1> DEFINE R == CASE d = 1 -> IntRange(1, 9) [] d = 2 -> IntRange(10, 99) [] d = 3 -> IntRange(100, 999)
<1>1. PICK a \in R, b \in R : q = Question("+", a, b, a + b)
  BY DEF Addition
<1>2. a \in Int /\ b \in Int /\ a >= 1 /\ b >= 1
  <2>1. CASE d = 1
    <3>1. R = IntRange(1, 9)
      BY <2>1
    <3> QED
      BY <2>1, <3>1, Drawn
  <2>2. CASE d = 2
    <3>1. R = IntRange(10, 99)
      BY <2>2
    <3> QED
      BY <2>2, <3>1, Drawn
  <2>3. CASE d = 3
    <3>1. R = IntRange(100, 999)
      BY <2>3
    <3> QED
      BY <2>3, <3>1, Drawn
  <2> QED
    BY <2>1, <2>2, <2>3
<1> QED
  BY <1>1, <1>2 DEF Positive, Solves, Question

\* Differences: what is taken away is always less (question.go:82).
LEMMA SubtractionPositive ==
  ASSUME NEW d \in 1 .. 3, NEW q \in Subtraction(d)
  PROVE  Positive(q)
<1> DEFINE R == CASE d = 1 -> IntRange(5, 18) [] d = 2 -> IntRange(50, 99) [] d = 3 -> IntRange(500, 999)
           least == CASE d = 1 -> 1 [] d = 2 -> 10 [] d = 3 -> 100
<1>1. PICK a \in R : q \in {Question("-", a, b, a - b) : b \in IntRange(least, a - 1)}
  BY DEF Subtraction
<1>2. PICK b \in IntRange(least, a - 1) : q = Question("-", a, b, a - b)
  BY <1>1
<1>3. a \in Int /\ least \in Int /\ least <= a - 1
  <2>1. CASE d = 1
    <3>1. R = IntRange(5, 18) /\ least = 1
      BY <2>1
    <3> QED
      BY <2>1, <3>1, Drawn
  <2>2. CASE d = 2
    <3>1. R = IntRange(50, 99) /\ least = 10
      BY <2>2
    <3> QED
      BY <2>2, <3>1, Drawn
  <2>3. CASE d = 3
    <3>1. R = IntRange(500, 999) /\ least = 100
      BY <2>3
    <3> QED
      BY <2>3, <3>1, Drawn, SMTT(30)
  <2> QED
    BY <2>1, <2>2, <2>3
<1>4. b \in Int /\ b <= a - 1
  <2> HIDE DEF R, least
  <2> QED
    BY <1>3 DEF IntRange
<1> QED
  BY <1>2, <1>3, <1>4 DEF Positive, Solves, Question

\* A product of factors that are at least two (question.go:101).
LEMMA MultiplicationPositive ==
  ASSUME NEW d \in 1 .. 3, NEW q \in Multiplication(d)
  PROVE  Positive(q)
<1> DEFINE R == CASE d = 1 -> IntRange(2, 9) [] d = 2 -> IntRange(2, 12) [] d = 3 -> IntRange(10, 25)
           S == CASE d = 1 -> IntRange(2, 9) [] d = 2 -> IntRange(2, 12) [] d = 3 -> IntRange(2, 15)
<1>1. PICK a \in R, b \in S : q = Question("*", a, b, a * b)
  BY DEF Multiplication
<1>2. a \in Int /\ b \in Int /\ a >= 1 /\ b >= 1
  <2>1. CASE d = 1
    <3>1. R = IntRange(2, 9) /\ S = IntRange(2, 9)
      BY <2>1
    <3> QED
      BY <2>1, <3>1, Drawn
  <2>2. CASE d = 2
    <3>1. R = IntRange(2, 12) /\ S = IntRange(2, 12)
      BY <2>2
    <3> QED
      BY <2>2, <3>1, Drawn
  <2>3. CASE d = 3
    <3>1. R = IntRange(10, 25) /\ S = IntRange(2, 15)
      BY <2>3
    <3> QED
      BY <2>3, <3>1, Drawn
  <2> QED
    BY <2>1, <2>2, <2>3
<1>3. a * b \in Int /\ a * b >= 1
  BY <1>2
<1> QED
  BY <1>1, <1>3 DEF Positive, Solves, Question

\* A quotient without remainder, for the dividend is made from it (question.go:114).
LEMMA DivisionPositive ==
  ASSUME NEW d \in 1 .. 3, NEW q \in Division(d)
  PROVE  Positive(q)
<1> DEFINE R == CASE d = 1 -> IntRange(2, 9) [] d = 2 -> IntRange(2, 12) [] d = 3 -> IntRange(5, 15)
           S == CASE d = 1 -> IntRange(2, 9) [] d = 2 -> IntRange(2, 12) [] d = 3 -> IntRange(10, 25)
<1>1. PICK b \in R, answer \in S : q = Question("/", b * answer, b, answer)
  BY DEF Division
<1>2. b \in Int /\ answer \in Int /\ b >= 1 /\ answer >= 1
  <2>1. CASE d = 1
    <3>1. R = IntRange(2, 9) /\ S = IntRange(2, 9)
      BY <2>1
    <3> QED
      BY <2>1, <3>1, Drawn
  <2>2. CASE d = 2
    <3>1. R = IntRange(2, 12) /\ S = IntRange(2, 12)
      BY <2>2
    <3> QED
      BY <2>2, <3>1, Drawn
  <2>3. CASE d = 3
    <3>1. R = IntRange(5, 15) /\ S = IntRange(10, 25)
      BY <2>3
    <3> QED
      BY <2>3, <3>1, Drawn
  <2> QED
    BY <2>1, <2>2, <2>3
<1>3. answer * b = b * answer
  BY <1>2
<1> QED
  BY <1>1, <1>2, <1>3 DEF Positive, Solves, Question

\* Whatever difficulty is configured, a question that is asked has a whole positive
\* answer, and no other number solves it (question.go:27).
THEOREM QuestionsCorrect == QuestionsSpec => []HasWholeAnswer
<1>1. QuestionsInit => QuestionsInv
  BY DEF QuestionsInit, QuestionsInv, HasWholeAnswer, Question
<1>2. QuestionsInv /\ [QuestionsNext]_questionsVars => QuestionsInv'
  <2> SUFFICES ASSUME QuestionsInv, [QuestionsNext]_questionsVars
               PROVE  QuestionsInv'
    OBVIOUS
  <2>1. CASE NewQuestionGenerator
    <3>1. difficulty' \in 1 .. 3
      BY <2>1, ClampBounds, QuestionsAssumption DEF NewQuestionGenerator
    <3> QED
      BY <2>1, <3>1 DEF NewQuestionGenerator, QuestionsInv, HasWholeAnswer
  <2>2. CASE Generate
    <3>1. difficulty \in 1 .. 3 /\ UNCHANGED difficulty
      BY <2>2 DEF Generate, QuestionsInv
    <3>2. Positive(question')
      BY <2>2, <3>1, AdditionPositive, SubtractionPositive, MultiplicationPositive,
         DivisionPositive DEF Generate
    <3> QED
      BY <3>1, <3>2 DEF Positive, QuestionsInv, HasWholeAnswer
  <2>3. CASE Forget
    BY <2>3 DEF Forget, QuestionsInv, HasWholeAnswer, Question
  <2>4. CASE UNCHANGED questionsVars
    BY <2>4 DEF questionsVars, QuestionsInv, HasWholeAnswer
  <2> QED
    BY <2>1, <2>2, <2>3, <2>4 DEF QuestionsNext
<1>3. QuestionsInv => HasWholeAnswer
  BY DEF QuestionsInv
<1> QED
  BY <1>1, <1>2, <1>3, PTL DEF QuestionsSpec
================================================================================

--------------------------------- MODULE Questions --------------------------------
(***************************************************************************)
(* The questions of a game (game/question.go): an operation and operands   *)
(* drawn from ranges that depend on the difficulty.  What the seed decides *)
(* is left open: IntRange may return any number of its range.              *)
(***************************************************************************)
EXTENDS Integers

CONSTANT Difficulties   \* what the configuration may say; 2 in main.go

ASSUME QuestionsAssumption == Difficulties \subseteq Int

VARIABLES
  difficulty,   \* QuestionGenerator.difficulty; 0: there is no generator yet
  question      \* of the round that is on: the operation, its operands, Answer

questionsVars == <<difficulty, question>>

Clamp(d) == IF d < 1 THEN 1 ELSE IF d > 3 THEN 3 ELSE d

\* rng.IntRange, both ends included.
IntRange(min, max) == IF min >= max THEN {min} ELSE min .. max

Question(op, a, b, answer) == [op |-> op, a |-> a, b |-> b, answer |-> answer]

Addition(d) ==
  LET R == CASE d = 1 -> IntRange(1, 9) [] d = 2 -> IntRange(10, 99) [] d = 3 -> IntRange(100, 999)
  IN  {Question("+", a, b, a + b) : a \in R, b \in R}

SlipSubtractsAll(d) ==
  LET R == CASE d = 1 -> IntRange(5, 18) [] d = 2 -> IntRange(50, 99) [] d = 3 -> IntRange(500, 999)
      least == CASE d = 1 -> 1 [] d = 2 -> 10 [] d = 3 -> 100
  IN  UNION {{Question("-", a, b, a - b) : b \in IntRange(least, a)} : a \in R}

Subtraction(d) ==
  LET R == CASE d = 1 -> IntRange(5, 18) [] d = 2 -> IntRange(50, 99) [] d = 3 -> IntRange(500, 999)
      least == CASE d = 1 -> 1 [] d = 2 -> 10 [] d = 3 -> 100
  IN  UNION {{Question("-", a, b, a - b) : b \in IntRange(least, a - 1)} : a \in R}

Multiplication(d) ==
  LET R == CASE d = 1 -> IntRange(2, 9) [] d = 2 -> IntRange(2, 12) [] d = 3 -> IntRange(10, 25)
      S == CASE d = 1 -> IntRange(2, 9) [] d = 2 -> IntRange(2, 12) [] d = 3 -> IntRange(2, 15)
  IN  {Question("*", a, b, a * b) : a \in R, b \in S}

\* The divisor and the answer are drawn, and the dividend follows.
Division(d) ==
  LET R == CASE d = 1 -> IntRange(2, 9) [] d = 2 -> IntRange(2, 12) [] d = 3 -> IntRange(5, 15)
      S == CASE d = 1 -> IntRange(2, 9) [] d = 2 -> IntRange(2, 12) [] d = 3 -> IntRange(10, 25)
  IN  {Question("/", b * answer, b, answer) : b \in R, answer \in S}

QuestionsInit ==
  /\ difficulty = 0
  /\ question = Question("none", 0, 0, 0)

\* A new game.
NewQuestionGenerator ==
  /\ difficulty = 0
  /\ difficulty' \in {Clamp(d) : d \in Difficulties}
  /\ UNCHANGED question

Generate ==
  /\ difficulty # 0 /\ question.op = "none"
  /\ question' \in Addition(difficulty) \union Subtraction(difficulty)
                     \union Multiplication(difficulty) \union Division(difficulty)
  /\ UNCHANGED difficulty

\* The round is over, and its question with it.
Forget ==
  /\ question.op # "none"
  /\ question' = Question("none", 0, 0, 0)
  /\ UNCHANGED difficulty

QuestionsNext == NewQuestionGenerator \/ Generate \/ Forget

QuestionsSpec == QuestionsInit /\ [][QuestionsNext]_questionsVars

--------------------------------------------------------------------------------
(* Properties *)

Solves(q) ==
  CASE q.op = "+" -> q.answer = q.a + q.b
    [] q.op = "-" -> q.answer + q.b = q.a
    [] q.op = "*" -> q.answer = q.a * q.b
    [] q.op = "/" -> q.answer * q.b = q.a /\ q.b > 0

(* Whatever difficulty is configured, the question asked has exactly the answer  *)
(* that counts as correct, a whole positive number that the app's number pad can  *)
(* enter: no remainder, no zero, no minus (question.go:27, :82, :114).            *)
HasWholeAnswer ==
  question.op # "none" => Solves(question) /\ question.answer >= 1
================================================================================

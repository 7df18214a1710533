----------------------------- MODULE RiskScore -----------------------------
(***************************************************************************)
(* How a risk score is put together (detection/risk_score.py, combine).    *)
(*                                                                         *)
(* Shares are given in thousandths, and the score is the rounded exact sum *)
(* (the code's floats may land on the other side of a half).               *)
(***************************************************************************)
EXTENDS Integers

Share == 0..1000
Least(m, n) == IF m <= n THEN m ELSE n

\* round(num / den): a half goes to the even neighbour.
Rounded(num, den) ==
    LET floor == num \div den
        twice == 2 * (num - den * floor)
    IN  IF twice < den \/ (twice = den /\ floor % 2 = 0) THEN floor ELSE floor + 1

\* mad / threshold, at most 1; without a threshold there is no component,
\* though benford_flag is set for any deviation.
BenfordShare(mad, threshold) ==
    IF threshold = 0 THEN 0
    ELSE IF mad >= threshold THEN 1000 ELSE (1000 * mad) \div threshold
BenfordFlag(mad, threshold) == mad > threshold

MlFlag(probability) == probability >= 500

\* RiskScore.combine's score, 30 % Benford and 70 % model
Combined(mad, threshold, probability) ==
    LET score == Rounded(3 * BenfordShare(mad, threshold) + 7 * probability, 100) IN
    IF score < 0 THEN 0 ELSE Least(score, 100)
=============================================================================

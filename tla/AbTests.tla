-------------------------------- MODULE AbTests --------------------------------
(***************************************************************************)
(* api/ab_tests.py: an A/B test in the memory of one process, which        *)
(* recipients it gives which variant, what is recorded of them, and the    *)
(* winner its results name.  A restart forgets tests and counts alike.     *)
(***************************************************************************)
EXTENDS Integers, Sequences, FiniteSets, Functions, FiniteSetsExt

CONSTANTS Weightings, \* weights that requests give, a sequence per test
          Metrics,    \* values of primary_metric
          MinSample,  \* min_sample_size, which is at least 10
          Watched,    \* bound: the variants that events are recorded for,
          MaxCount    \* bound: and how many of each

ASSUME AbAssumption ==
    /\ Weightings \subseteq Seq(1 .. 99) /\ \A w \in Weightings : Len(w) >= 2
    /\ Metrics \subseteq {"delivered", "clicked"}
    /\ MinSample \in Nat /\ MinSample >= 10
    /\ Watched \in Nat /\ \A w \in Weightings : Watched <= Len(w)
    /\ MaxCount \in 0 .. 999

VARIABLES weights,    \* of the variants of the test; empty: there is none
          metric,     \* primary_metric of the test
          tally       \* counts of each variant

abVars == <<weights, metric, tally>>

(* "clicked" stands for what happens to a message after its delivery.       *)
Kinds == {"delivered", "clicked"}

NoneYet == [kind \in Kinds |-> 0]

AbInit ==
    /\ weights = <<>>
    /\ metric = "none"
    /\ tally = <<>>

(* POST /v1/ab-tests: weights that sum to about 100.                       *)
CreateTest(w, m) ==
    /\ weights = <<>>
    /\ SumFunction(w) \in 95 .. 105
    /\ weights' = w
    /\ metric' = m
    /\ tally' = [v \in DOMAIN w |-> NoneYet]

(* POST /v1/ab-tests/{id}/event, for a variant of the test.  Nobody checks *)
(* that what is clicked has been delivered.                                *)
RecordEvent(v, kind) ==
    /\ v \in DOMAIN weights /\ v <= Watched
    /\ tally[v][kind] < MaxCount
    /\ tally' = [tally EXCEPT ![v][kind] = @ + 1]
    /\ UNCHANGED <<weights, metric>>

ForgetTests ==
    /\ weights # <<>>
    /\ weights' = <<>>
    /\ metric' = "none"
    /\ tally' = <<>>

AbNext ==
    \/ \E w \in Weightings : \E m \in Metrics : CreateTest(w, m)
    \/ \E v \in 1 .. Watched : \E kind \in Kinds : RecordEvent(v, kind)
    \/ ForgetTests

AbSpec == AbInit /\ [][AbNext]_abVars

-----------------------------------------------------------------------------
Cumulative(v) == SumFunctionOnSet(weights, 1 .. v)

(* POST /v1/ab-tests/{id}/assign: the hash of the recipient, modulo 100.   *)
Assigned(bucket) ==
    LET reached == {v \in DOMAIN weights : bucket < Cumulative(v)}
    IN IF reached = {} THEN Len(weights) ELSE Min(reached)

Share(v) == Cardinality({bucket \in 0 .. 99 : Assigned(bucket) = v})

(* Mutant of AheadOf: the variants are sorted by their counts.             *)
CountedMore(v, w) ==
    \/ tally[v][metric] > tally[w][metric]
    \/ tally[v][metric] = tally[w][metric] /\ v < w

(* The sort is by rate and stable; a variant without deliveries has rate 0. *)
(* The six digits a rate is rounded to tell apart those of samples below   *)
(* a thousand, as all are within MaxCount.                                 *)
AheadOf(v, w) ==
    LET Rated(u) == IF tally[u].delivered = 0 THEN 0 ELSE tally[u][metric]
        OutOf(u) == IF tally[u].delivered = 0 THEN 1 ELSE tally[u].delivered
    IN \/ Rated(v) * OutOf(w) > Rated(w) * OutOf(v)
       \/ Rated(v) * OutOf(w) = Rated(w) * OutOf(v) /\ v < w

Ranked(v) == Cardinality({w \in DOMAIN weights : AheadOf(w, v)})

(* Chi-square of a of A against b of B in ten-thousandths, rounded down:   *)
(* with D = aB - bA and N = A + B, each |observed - expected| is |D| / N.  *)
ChiSquare(a, A, b, B) ==
    LET D == a * B - b * A
        N == A + B
        Sum(total) == (10000 * D * D) \div (N * total * (a + b))
        Rest(total) ==
            (10000 * D * D) \div (N * Max({N, total * (N - (a + b))}))
    IN IF A = 0 \/ B = 0 \/ a + b \in {0, N} THEN 0
       ELSE Sum(A) + Sum(B) + Rest(A) + Rest(B)

(* exp(-chi / 2) has to leave a confidence that rounds to 0.95 or more.    *)
Significant == 59895

Best == CHOOSE v \in DOMAIN weights : Ranked(v) = 0

RunnerUp == CHOOSE v \in DOMAIN weights : Ranked(v) = 1

(* GET /v1/ab-tests/{id}/results                                           *)
HasWinner ==
    /\ weights # <<>>
    /\ tally[Best].delivered >= MinSample
    /\ ChiSquare(tally[Best][metric], tally[Best].delivered,
                 tally[RunnerUp][metric], tally[RunnerUp].delivered) >= Significant

-----------------------------------------------------------------------------
AbTypeOK ==
    /\ weights \in Weightings \cup {<<>>}
    /\ metric \in Metrics \cup {"none"}
    /\ tally \in [DOMAIN weights -> [Kinds -> 0 .. MaxCount]]

(* Every recipient gets a variant, and all together they are shared out as *)
(* the weights say, but for what the weights are off from 100.             *)
AssignedAsWeighted ==
    weights # <<>> =>
        SumFunction([v \in DOMAIN weights |->
            IF Share(v) > weights[v] THEN Share(v) - weights[v]
            ELSE weights[v] - Share(v)]) <= 5

(* Whoever is named the winner of a test is ahead of every other variant   *)
(* by its rate, not only by its place in the list or its number of clicks, *)
(* however the two samples differ in size.                                 *)
WinnersAreAhead ==
    HasWinner => \A v \in DOMAIN weights \ {Best} :
        \/ tally[v].delivered = 0
        \/ tally[Best][metric] * tally[v].delivered
             > tally[v][metric] * tally[Best].delivered

(* Both: a test is shared out as its weights say from when it is created,  *)
(* and its results name nobody who is not ahead.                           *)
FairTests ==
    [][WinnersAreAhead' /\ (weights' # weights => AssignedAsWeighted')]_abVars
=============================================================================

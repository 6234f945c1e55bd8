--------------------------------- MODULE Random -------------------------------
(***************************************************************************)
(* The generator of util/random.h: a Lehmer generator modulo M that        *)
(* divides by M without a division.  M is 2^31 - 1 and A is 16807 in the   *)
(* code, so a uint32_t has 2 * (M + 1) values, & M is % (M + 1), and a     *)
(* product has 46 bits and fits into the uint64_t.                         *)
(***************************************************************************)
EXTENDS Integers

CONSTANTS M, A,
  Bounds,      \* arguments of Uniform and OneIn
  MaxLogs      \* arguments of Skewed

UInt32 == 0 .. (2 * (M + 1)) - 1

(* M does not divide the product of two numbers below it; for that it is   *)
(* enough that it is a prime, as 2^31 - 1 is.                              *)
ASSUME RandomAssumption ==
  /\ M \in Nat /\ M > 1
  /\ A \in 1 .. M - 1
  /\ \A s \in 1 .. M - 1 : (s * A) % M # 0
  /\ Bounds \subseteq UInt32 \ {0}
  /\ MaxLogs \subseteq Nat /\ \A n \in MaxLogs : 2^n \in 1 .. M + 1

(* Powers of two grow with the exponent: arithmetic the provers lack.      *)
ASSUME PowersGrow ==
  \A n \in MaxLogs : \A l \in 0 .. n : 2^l \in 1 .. 2^n

VARIABLES
  seed,     \* seed_
  result    \* the last call, what it returned, and the greatest it may return

random_vars == <<seed, result>>

-----------------------------------------------------------------------------
(* Fault: only zero is taken for a bad seed. *)
SanitisedZeroOnly(s) == IF s % (M + 1) = 0 THEN 1 ELSE s % (M + 1)

(* The seed of a new generator. *)
Sanitised(s) ==
  LET masked == s % (M + 1)
  IN  IF masked = 0 \/ masked = M THEN 1 ELSE masked

(* Fault: the sum is not brought below M. *)
NextSeedUnreduced(s) ==
  LET product == s * A
  IN  ((product \div (M + 1)) + (product % (M + 1))) % (2 * (M + 1))

(* The generator's next seed, which is also the number it returns. *)
NextSeed(s) ==
  LET product == s * A
      sum     == ((product \div (M + 1)) + (product % (M + 1))) % (2 * (M + 1))
  IN  IF sum > M THEN sum - M ELSE sum

-----------------------------------------------------------------------------
RandomInit ==
  /\ seed \in {Sanitised(s) : s \in UInt32}
  /\ result = [call |-> "none", value |-> 0, max |-> 0]

(* Random::Next. *)
Next_ ==
  /\ seed' = NextSeed(seed)
  /\ result' = [call |-> "Next", value |-> seed', max |-> M - 1]

Uniform(n) ==
  /\ seed' = NextSeed(seed)
  /\ result' = [call |-> "Uniform", value |-> seed' % n, max |-> n - 1]

(* One is TRUE. *)
OneIn(n) ==
  /\ seed' = NextSeed(seed)
  /\ result' = [call  |-> "OneIn",
                value |-> IF seed' % n = 0 THEN 1 ELSE 0,
                max   |-> 1]

(* Two draws: of a logarithm, then of a number below its power. *)
Skewed(max_log) ==
  LET log == NextSeed(seed) % (max_log + 1)
  IN  /\ seed' = NextSeed(NextSeed(seed))
      /\ result' = [call  |-> "Skewed",
                    value |-> seed' % 2^log,
                    max   |-> 2^max_log - 1]

RandomNext ==
  \/ Next_
  \/ \E n \in Bounds : Uniform(n) \/ OneIn(n)
  \/ \E max_log \in MaxLogs : Skewed(max_log)

RandomSpec == RandomInit /\ [][RandomNext]_random_vars

-----------------------------------------------------------------------------
(* Properties.                                                             *)

Seeds == 1 .. M - 1

Calls == {"none", "Next", "Uniform", "OneIn", "Skewed"}

(* The generator of the literature. *)
Product(s) == (s * A) % M

(* From any argument of the constructor the generator stays in 1 .. M - 1: *)
(* it never gets stuck at 0 or M, which the comment "avoid bad seeds"      *)
(* (random.h:20) is about.  No call returns more than it may.              *)
TypeOK ==
  /\ seed \in Seeds
  /\ result \in [call : Calls, value : Nat, max : Nat]
  /\ result.value <= result.max

(* The shift, the mask and the one subtraction are the remainder of the    *)
(* division by M: a call draws once, Skewed twice, and each draw           *)
(* multiplies the seed by A modulo M.                                      *)
Lehmer ==
  [][seed' = IF result'.call = "Skewed" THEN Product(Product(seed))
             ELSE Product(seed)]_random_vars
===============================================================================

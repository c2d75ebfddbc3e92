----------------------------- MODULE SecurityKey -----------------------------
(***************************************************************************)
(* The loop of GenerateKey, one round a step, on any seed an ECU can send. *)
(***************************************************************************)
EXTENDS KeyRounds

CONSTANT Seeds  \* the seeds considered (every two-byte value)

ASSUME SeedsAssumption == Seeds \subseteq Word

VARIABLES
  asked,  \* the seed the ECU sent
  seed,   \* the loop's seed, which is its key as well
  loops   \* rounds left

keyVars == <<asked, seed, loops>>

KeyStart(value) == asked = value /\ seed = value /\ loops = Loops(value)

KeyInit == \E value \in Seeds : KeyStart(value)

Mix ==
  /\ loops > 0
  /\ seed' = Round(seed) /\ loops' = loops - 1
  /\ UNCHANGED asked

KeySpec == KeyInit /\ [][Mix]_keyVars

(***************************************************************************)
(* Properties                                                              *)
(***************************************************************************)

\* "Reproduces the ECU's own key algorithm so it accepts our 27 02 reply": when
\* the loop is done it holds the key the firmware's shift register comes to,
\* for every seed.
KeyIsTheEcus == loops = 0 => seed = EcuKey(asked) /\ seed = GenerateKey(asked)
=============================================================================

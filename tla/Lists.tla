-------------------------------- MODULE Lists --------------------------------
(***************************************************************************)
(* Lists of any values, and the loops over them that the code makes: each  *)
(* is a recursive function of the number of rounds.                        *)
(***************************************************************************)
EXTENDS Naturals, Sequences

IsList(seq) == seq \in Seq({seq[i] : i \in DOMAIN seq})

\* What a loop over a sequence leaves: a call for each element in turn.
ForEach(Call(_, _), start, seq) ==
  LET after[n \in 0 .. Len(seq)] == IF n = 0 THEN start ELSE Call(after[n - 1], seq[n])
  IN after[Len(seq)]

\* The elements that pass a test, in order.
Selected(seq, Test(_)) ==
  ForEach(LAMBDA kept, x : IF Test(x) THEN Append(kept, x) ELSE kept, <<>>, seq)

\* The sum of a list of numbers.
SumOf(seq) == ForEach(LAMBDA sum, x : sum + x, 0, seq)
=============================================================================

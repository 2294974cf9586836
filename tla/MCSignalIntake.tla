----------------------------- MODULE MCSignalIntake -----------------------------
(***************************************************************************)
(* An instance of SignalIntake for TLC: three messages, in four topics.    *)
(***************************************************************************)
EXTENDS SignalIntake, TLC

MCContent == [alpha |-> "A", beta |-> "B", gamma |-> "C", gamma2 |-> "C", chat |-> "no signal"]

Holding(one, two, three, foreign, invalid, marked) ==
  [versions |-> (1 :> one) @@ (2 :> two) @@ (3 :> three), foreign |-> foreign,
   invalid |-> invalid, marked |-> marked]

MCTopics ==
  {\* The row of an earlier release, and a duplicate of it that is edited twice.
   Holding(<<"alpha">>, <<"alpha", "beta", "alpha">>, <<>>, {}, {1}, {}),
   \* A wording that is edited, a signal after it, and one of another sender.
   Holding(<<"gamma", "gamma2">>, <<"beta">>, <<"alpha">>, {3}, {}, {}),
   \* A comment that becomes a signal, and a signal that is edited into the same one.
   Holding(<<"chat", "alpha">>, <<"beta", "alpha">>, <<>>, {}, {}, {}),
   \* A signal marked as a repetition, and an invalid row that the parser still refuses.
   Holding(<<"alpha">>, <<"chat">>, <<"beta", "gamma">>, {}, {2}, {1})}
===============================================================================

---------------------------- MODULE MCConfigStore ----------------------------
(* ConfigStore with two values of every setting, for TLC. *)
EXTENDS ConfigStore, TLC
CONSTANTS c1, c2, r1, r2, s1, s2

Parts(dacs, block, options) ==
  [sound |-> TRUE, dacs |-> dacs, block |-> block, options |-> options]

\* "eNET-untested", the compiled default, is not a model string that the parsers
\* accept; "eNET-AIO16-16F-10B" is one.
Untested == [sound |-> FALSE, dacs |-> FALSE, block |-> 0, options |-> <<>>]
MCModels == {Untested, Parts(TRUE, 16, <<"10B">>)}

\* With "eNET-AIO16-16F-10B-4AO", "eNET-AI16-64E" and "eNET-AI16-64E-5U", which
\* names a range of DACs that the card does not have.
MCModelsAll == MCModels \cup {Parts(TRUE, 16, <<"10B", "4AO">>), Parts(FALSE, 64, <<>>),
                              Parts(FALSE, 64, <<"5U">>)}

MCDefault == [cal |-> c1, submux |-> c1, range |-> r1, model |-> Untested,
              serial |-> s1, channels |-> 16, dacs |-> 4]
===============================================================================
